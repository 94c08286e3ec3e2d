------------------------------ MODULE Campaigns ------------------------------
(***************************************************************************)
(* One campaign, from draft to its messages.  Four parties work on it and  *)
(* meet only in the database and the queue:                                *)
(*                                                                         *)
(*   - API requests (core/services/campaign_service.go): Execute, Update,  *)
(*     Delete, Pause and Resume.  Each reads the row, looks at its status  *)
(*     and writes later;                                                   *)
(*   - the executor (worker/campaign_executor.go) of every process: when   *)
(*     the process starts it takes up each campaign that is running, and   *)
(*     every minute those that are scheduled and due;                      *)
(*   - the senders (worker/sender.go), which count failures in the stats;  *)
(*   - everybody who edits contacts, lists and templates meanwhile.        *)
(*                                                                         *)
(* Execute adds ids to the queue for which it never creates a row: these   *)
(* are the ghosts.  A loop of Execute that only reads is one step here.    *)
(* Events says what may happen in a run:                                   *)
(*   "execute", "update", "delete", "pause", "resume"   the API requests   *)
(*   "template", "lists", "consent"                     edits meanwhile    *)
(*   "crash"      a process, or an API request, ends at any moment         *)
(*   "status"     a write of the campaign's status or stats fails          *)
(*   "exists"     the look for an earlier message fails                    *)
(*   "screen"     the look into a suppression list fails                   *)
(*   "read"       a template, segment, contact or the list of the running  *)
(*                campaigns is gone or cannot be read                      *)
(*   "create"     the insert of a message fails                            *)
(*   "queue"      XADD fails                                               *)
(***************************************************************************)
EXTENDS Integers, Sequences, FiniteSets, FiniteSetsExt, Functions

CONSTANTS
    Contacts,       \* contacts, and their recipients for the channel
    Lists,          \* contact lists a campaign may name
    Unreachable,    \* contacts with no phone, or email, for the channel
    Segment,        \* a campaign that names the segment instead
    Members,        \* the contacts of the segment, newest first
    PerPage,        \* 1000000 in the code
    Processes,
    Requests,       \* API requests that may be in progress at one time
    Senders,
    NeedsApproval,  \* is the channel WhatsApp?
    MaxCrashes,
    Events

Targets == Lists \cup {Segment}

ASSUME CampaignAssumption ==
    /\ Unreachable \subseteq Contacts
    /\ Lists \subseteq Seq(Contacts)
    /\ Members \in Seq(Contacts)
    /\ Segment \notin Seq(Contacts)
    /\ IsFiniteSet(Processes)
    /\ PerPage \in Nat \ {0}
    /\ MaxCrashes \in Nat
    /\ NeedsApproval \in BOOLEAN

VARIABLES
    (* the campaign's row *)
    status,    \* "absent" once it is deleted
    target,    \* segment_id or contact_ids
    stats,
    (* messages and queue *)
    rows,      \* rows[c]: messages of the campaign to recipient c
    entries,   \* entries[c]: queue entries of such messages
    ghosts,    \* recipients with an entry whose message was never created
    failed,    \* failed[c]: entries a sender gave up
    (* contacts and templates *)
    blocked,   \* suppressed or, for email, unsubscribed recipients
    optedIn, approved,
    (* API requests *)
    reqStep, reqStatus, reqTarget, reqTodo, reqStats,
    (* executors *)
    up, step, plan, lost, pos, tally,
    (* senders *)
    sending, seen,
    (* history *)
    crashes,
    everClear, \* recipients that were once on no list
    skipped    \* skipped[p]: contacts p passed over and counted as failed

rowVars   == <<status, target, stats>>
msgVars   == <<rows, entries, ghosts, failed>>
listVars  == <<blocked, optedIn, approved, everClear>>
reqVars   == <<reqStep, reqStatus, reqTarget, reqTodo, reqStats>>
execVars  == <<up, step, plan, lost, pos, tally, skipped>>
sendVars  == <<sending, seen>>
vars == <<rowVars, msgVars, listVars, reqVars, execVars, sendVars, crashes>>

May(e) == e \in Events

Statuses  == {"draft", "scheduled", "running", "paused", "completed", "failed"}
ReqSteps  == {"idle", "resolve", "run", "screen", "publish", "fail", "stats",
              "update", "delete", "pause", "resume"}
ExecSteps == {"idle", "template", "run", "resolve", "next", "exists", "screen",
              "create", "enqueue", "complete", "stats", "fail"}
Visiting  == {"exists", "screen", "create", "enqueue"}
Stats     == [total : Nat, queued : Nat, failed : Nat]
NoStats   == [total |-> 0, queued |-> 0, failed |-> 0]

TypeOK ==
    /\ status \in Statuses \cup {"absent"}
    /\ target \in Targets
    /\ stats \in Stats
    /\ rows \in [Contacts -> Nat]
    /\ entries \in [Contacts -> Nat]
    /\ ghosts \subseteq Contacts
    /\ failed \in [Contacts -> Nat]
    /\ blocked \subseteq Contacts
    /\ optedIn \subseteq Contacts
    /\ approved \in BOOLEAN
    /\ reqStep \in [Requests -> ReqSteps]
    /\ reqStatus \in [Requests -> Statuses]
    /\ reqTarget \in [Requests -> Targets]
    /\ reqTodo \in [Requests -> SUBSET Contacts]
    /\ reqStats \in [Requests -> Stats]
    /\ up \in [Processes -> BOOLEAN]
    /\ step \in [Processes -> ExecSteps]
    /\ plan \in [Processes -> Targets \cup Seq(Contacts)]
    /\ lost \in [Processes -> SUBSET Contacts]
    /\ pos \in [Processes -> Nat \ {0}]
    /\ tally \in [Processes -> Stats]
    /\ sending \in [Senders -> BOOLEAN]
    /\ seen \in [Senders -> Stats]
    /\ crashes \in 0 .. MaxCrashes
    /\ everClear \subseteq Contacts
    /\ skipped \in [Processes -> SUBSET Contacts]
    /\ \A p \in Processes : step[p] \in Visiting => pos[p] <= Len(plan[p])

\* Create stores every campaign as a draft, whatever its scheduled_at.
Init ==
    /\ status = "draft"
    /\ target \in Targets
    /\ stats = NoStats
    /\ rows = [c \in Contacts |-> 0]
    /\ entries = [c \in Contacts |-> 0]
    /\ ghosts = {}
    /\ failed = [c \in Contacts |-> 0]
    /\ blocked \in SUBSET Contacts
    /\ optedIn \in SUBSET Contacts
    /\ approved \in BOOLEAN
    /\ reqStep = [r \in Requests |-> "idle"]
    /\ reqStatus = [r \in Requests |-> "draft"]
    /\ reqTarget = [r \in Requests |-> Segment]
    /\ reqTodo = [r \in Requests |-> {}]
    /\ reqStats = [r \in Requests |-> NoStats]
    /\ up = [p \in Processes |-> FALSE]
    /\ step = [p \in Processes |-> "idle"]
    /\ plan = [p \in Processes |-> <<>>]
    /\ lost = [p \in Processes |-> {}]
    /\ pos = [p \in Processes |-> 1]
    /\ tally = [p \in Processes |-> NoStats]
    /\ sending = [s \in Senders |-> FALSE]
    /\ seen = [s \in Senders |-> NoStats]
    /\ crashes = 0
    /\ everClear = Contacts \ blocked
    /\ skipped = [p \in Processes |-> {}]

(* X_Slip is a wrong version of X that no specification uses.                *)

\* UPDATE campaigns SET status: whatever it was, and nothing for a deleted row.
SetStatus(s) == status' = IF status = "absent" THEN "absent" ELSE s

\* LIMIT perPage OFFSET page * perPage.
Page(s, page) ==
    SubSeq(s, page * PerPage + 1, Min({Len(s), (page + 1) * PerPage}))

\* The contacts of a campaign: page 1 of the segment, or those of its list.
Resolve(t) == IF t = Segment THEN Page(Members, 1) ELSE t

\* How many entries of a list are in S.
Count(list, S) == Cardinality({i \in DOMAIN list : list[i] \in S})

\* Contacts that cannot be read when a campaign resolves its list: each is read
\* by its id, while a segment is one query.
Gone(t) == IF May("read") /\ t # Segment THEN SUBSET Contacts ELSE {{}}

-----------------------------------------------------------------------------
(* API requests                                                              *)

ReqGoto(r, s) == reqStep' = [reqStep EXCEPT ![r] = s]

\* A request returns and its local variables are gone.
Return(r) ==
    /\ ReqGoto(r, "idle")
    /\ reqStatus' = [reqStatus EXCEPT ![r] = "draft"]
    /\ reqTarget' = [reqTarget EXCEPT ![r] = Segment]
    /\ reqTodo' = [reqTodo EXCEPT ![r] = {}]
    /\ reqStats' = [reqStats EXCEPT ![r] = NoStats]

\* The statuses in which a request takes a campaign on.
Admits(op) ==
    CASE op = "execute" -> {"draft", "scheduled"}
      [] op = "update"  -> {"draft", "scheduled"}
      [] op = "delete"  -> {"draft"}
      [] op = "pause"   -> {"running"}
      [] op = "resume"  -> {"paused"}

FirstStep(op) == IF op = "execute" THEN "resolve" ELSE op

\* A request reads the row and finds its status fit.  An update may name a new
\* target for the copy it is going to write back.
RequestReads(r, op) ==
    /\ May(op)
    /\ reqStep[r] = "idle"
    /\ status \in Admits(op)
    /\ ReqGoto(r, FirstStep(op))
    /\ reqStatus' = [reqStatus EXCEPT ![r] = status]
    /\ \E t \in IF op = "update" THEN Targets ELSE {target} :
          reqTarget' = [reqTarget EXCEPT ![r] = t]
    /\ reqStats' = [reqStats EXCEPT ![r] = stats]
    /\ UNCHANGED <<reqTodo, rowVars, msgVars, listVars, execVars, sendVars, crashes>>

\* All of the row but its stats is written back as it was read, if it is there.
UpdateCampaign(r) ==
    IF status = "absent"
    THEN UNCHANGED rowVars
    ELSE /\ status' = reqStatus[r]
         /\ target' = reqTarget[r]
         /\ stats' = stats

UpdateWrites(r) ==
    /\ reqStep[r] = "update"
    /\ UpdateCampaign(r)
    /\ Return(r)
    /\ UNCHANGED <<msgVars, listVars, execVars, sendVars, crashes>>

\* The last statement of Delete, Pause and Resume.
RequestWrites(r) ==
    /\ \/ reqStep[r] = "delete" /\ status' = "absent"
       \/ reqStep[r] = "pause"  /\ SetStatus("paused")
       \/ reqStep[r] = "resume" /\ SetStatus("running")
    /\ Return(r)
    /\ UNCHANGED <<target, stats, msgVars, listVars, execVars, sendVars, crashes>>

TemplateFits == approved \/ ~NeedsApproval

\* Execute reads template and contacts and keeps the contacts that opted in.
ExecuteResolves(r) ==
    /\ reqStep[r] = "resolve"
    /\ TemplateFits
    /\ \E gone \in Gone(reqTarget[r]) :
          LET found == Range(Resolve(reqTarget[r])) \ gone IN
          /\ found # {}
          /\ reqTodo' = [reqTodo EXCEPT ![r] = found \cap optedIn]
    /\ ReqGoto(r, "run")
    /\ UNCHANGED <<reqStatus, reqTarget, reqStats, rowVars, msgVars, listVars,
                   execVars, sendVars, crashes>>

\* "segment has no contacts", or the template is not approved.
ExecuteRefused(r) ==
    /\ reqStep[r] = "resolve"
    /\ ~TemplateFits \/ May("read") \/ Resolve(reqTarget[r]) = <<>>
    /\ Return(r)
    /\ UNCHANGED <<rowVars, msgVars, listVars, execVars, sendVars, crashes>>

ExecuteRuns(r) ==
    /\ reqStep[r] = "run"
    /\ \/ /\ SetStatus("running")
          /\ ReqGoto(r, "screen")
          /\ UNCHANGED <<reqStatus, reqTarget, reqTodo, reqStats>>
       \/ /\ May("status")
          /\ status' = status
          /\ Return(r)
    /\ UNCHANGED <<target, stats, msgVars, listVars, execVars, sendVars, crashes>>

\* Here a list that cannot be read counts as an entry in it, and the phone will
\* do for an email campaign where there is no address.
ExecuteScreens(r) ==
    /\ reqStep[r] = "screen"
    /\ \E unread \in IF May("screen") THEN SUBSET Contacts ELSE {{}},
          phoned \in IF NeedsApproval THEN {{}} ELSE SUBSET Unreachable :
          LET left == reqTodo[r] \ ((Unreachable \ phoned) \cup blocked \cup unread)
              n    == Count(Resolve(reqTarget[r]), left)
          IN  /\ reqTodo' = [reqTodo EXCEPT ![r] = left]
              /\ reqStats' = [reqStats EXCEPT ![r].total = n, ![r].queued = n]
    /\ ReqGoto(r, "publish")
    /\ UNCHANGED <<reqStatus, reqTarget, rowVars, msgVars, listVars, execVars,
                   sendVars, crashes>>

\* EnqueueBulk, one XADD after the other; no row is ever created.
ExecutePublishes(r) ==
    /\ reqStep[r] = "publish"
    /\ reqTodo[r] # {}
    /\ \/ /\ \E c \in reqTodo[r] :
                /\ ghosts' = ghosts \cup {c}
                /\ reqTodo' = [reqTodo EXCEPT ![r] = @ \ {c}]
          /\ UNCHANGED reqStep
       \/ /\ May("queue")
          /\ ReqGoto(r, "fail")
          /\ UNCHANGED <<ghosts, reqTodo>>
    /\ UNCHANGED <<reqStatus, reqTarget, reqStats, rowVars, rows, entries, failed,
                   listVars, execVars, sendVars, crashes>>

\* The campaign stays "running": nothing here ever completes it.
ExecuteEnds(r) ==
    /\ \/ /\ reqStep[r] = "publish" /\ reqTodo[r] = {}
          /\ status' = status
          /\ \/ status = "absent" /\ stats' = stats
             \/ status # "absent" /\ stats' = reqStats[r]
             \/ May("status") /\ stats' = stats
       \/ /\ reqStep[r] = "fail"
          /\ stats' = stats
          /\ SetStatus("failed") \/ (May("status") /\ status' = status)
    /\ Return(r)
    /\ UNCHANGED <<target, msgVars, listVars, execVars, sendVars, crashes>>

\* The process that serves a request ends, or the one write of a request fails.
RequestDies(r) ==
    /\ \/ May("crash") /\ reqStep[r] # "idle"
       \/ May("status") /\ reqStep[r] \in {"update", "delete", "pause", "resume"}
    /\ Return(r)
    /\ UNCHANGED <<rowVars, msgVars, listVars, execVars, sendVars, crashes>>

RequestStep(r) ==
    \/ \E op \in {"execute", "update", "delete", "pause", "resume"} : RequestReads(r, op)
    \/ UpdateWrites(r)
    \/ RequestWrites(r)
    \/ ExecuteResolves(r)
    \/ ExecuteRefused(r)
    \/ ExecuteRuns(r)
    \/ ExecuteScreens(r)
    \/ ExecutePublishes(r)
    \/ ExecuteEnds(r)
    \/ RequestDies(r)

-----------------------------------------------------------------------------
(* Executors                                                                 *)

Goto(p, s) == step' = [step EXCEPT ![p] = s]

\* An execution, with the campaign t, begins or ends: its locals are new.
Locals(p, s, t) ==
    /\ Goto(p, s)
    /\ plan' = [plan EXCEPT ![p] = t]
    /\ lost' = [lost EXCEPT ![p] = {}]
    /\ pos' = [pos EXCEPT ![p] = 1]
    /\ tally' = [tally EXCEPT ![p] = NoStats]
    /\ skipped' = [skipped EXCEPT ![p] = {}]

\* GetRunningCampaigns.
IsRecovered == status = "running"

\* ExecuteCampaign begins with a copy of the row, if the query found it.
TakeUpIf(p, found) ==
    IF found /\ step[p] = "idle"
    THEN Locals(p, "template", target)
    ELSE UNCHANGED <<step, plan, lost, pos, tally, skipped>>

\* A process starts and recovers what is running.
Start(p) ==
    /\ ~up[p]
    /\ up' = [up EXCEPT ![p] = TRUE]
    /\ TakeUpIf(p, IsRecovered) \/ (May("read") /\ TakeUpIf(p, FALSE))
    /\ UNCHANGED <<rowVars, msgVars, listVars, reqVars, sendVars, crashes>>

IsScheduled == status = "scheduled"

\* Every minute: GetScheduledCampaigns.  Create and Update leave a campaign with
\* a scheduled_at in "draft" and nothing sets "scheduled": it finds none.
Tick(p) ==
    /\ up[p]
    /\ TakeUpIf(p, IsScheduled)
    /\ UNCHANGED <<up, rowVars, msgVars, listVars, reqVars, sendVars, crashes>>

\* The process ends, by a crash, a deployment or a shutdown.
Crash(p) ==
    /\ May("crash")
    /\ crashes < MaxCrashes
    /\ up[p]
    /\ crashes' = crashes + 1
    /\ up' = [up EXCEPT ![p] = FALSE]
    /\ Locals(p, "idle", <<>>)
    /\ UNCHANGED <<rowVars, msgVars, listVars, reqVars, sendVars>>

\* A write of the status whose error is ignored.
WriteStatus(s) ==
    /\ SetStatus(s) \/ (May("status") /\ status' = status)
    /\ UNCHANGED <<target, stats, up, msgVars, listVars, reqVars, sendVars, crashes>>

ReadsTemplate(p) ==
    /\ step[p] = "template"
    /\ \/ approved /\ Goto(p, "run")
       \/ (~approved \/ May("read")) /\ Goto(p, "fail")
    /\ UNCHANGED <<up, plan, lost, pos, tally, skipped, rowVars, msgVars, listVars,
                   reqVars, sendVars, crashes>>

Fails_Slip(p) ==
    /\ step[p] = "fail"
    /\ UNCHANGED <<up, rowVars, msgVars, listVars, reqVars, sendVars, crashes>>
    /\ Locals(p, "idle", <<>>)
Fails(p) ==
    /\ step[p] = "fail"
    /\ WriteStatus("failed")
    /\ Locals(p, "idle", <<>>)

Runs(p) ==
    /\ step[p] = "run"
    /\ WriteStatus("running")
    /\ Goto(p, "resolve")
    /\ UNCHANGED <<plan, lost, pos, tally, skipped>>

\* Contacts that cannot be read are counted as failed, but not in the total.
ResolvesContacts(p) ==
    /\ step[p] = "resolve"
    /\ \E gone \in Gone(plan[p]) :
          LET all == Resolve(plan[p])
          IN  /\ plan' = [plan EXCEPT ![p] = all]
              /\ lost' = [lost EXCEPT ![p] = gone]
              /\ tally' = [tally EXCEPT ![p].total = Count(all, Contacts \ gone),
                                        ![p].failed = Count(all, gone)]
              /\ skipped' = [skipped EXCEPT ![p] = gone]
    /\ Goto(p, "next")
    /\ UNCHANGED <<up, pos, rowVars, msgVars, listVars, reqVars, sendVars, crashes>>

\* The query for a segment fails.
ResolveFails(p) ==
    /\ step[p] = "resolve"
    /\ plan[p] = Segment
    /\ May("read")
    /\ Goto(p, "fail")
    /\ UNCHANGED <<up, plan, lost, pos, tally, skipped, rowVars, msgVars, listVars,
                   reqVars, sendVars, crashes>>

\* The head of the loop over the contacts.
HasMore_Slip(p) == pos[p] < Len(plan[p])
HasMore(p)      == pos[p] <= Len(plan[p])

Contact(p) == plan[p][pos[p]]

Turns(p) ==
    /\ step[p] = "next"
    /\ IF ~HasMore(p)
       THEN Goto(p, "complete") /\ UNCHANGED pos
       ELSE IF Contact(p) \in lost[p]
       THEN pos' = [pos EXCEPT ![p] = @ + 1] /\ UNCHANGED step
       ELSE Goto(p, "exists") /\ UNCHANGED pos
    /\ UNCHANGED <<up, plan, lost, tally, skipped, rowVars, msgVars, listVars,
                   reqVars, sendVars, crashes>>

\* The end of one turn of the loop; a contact that was passed over is counted.
Done_Slip(p) ==
    /\ Goto(p, "exists")
    /\ pos' = [pos EXCEPT ![p] = @ + 1]
Done(p) ==
    /\ Goto(p, "next")
    /\ pos' = [pos EXCEPT ![p] = @ + 1]

Skips(p) ==
    /\ Done(p)
    /\ tally' = [tally EXCEPT ![p].failed = @ + 1]
    /\ skipped' = [skipped EXCEPT ![p] = @ \cup {Contact(p)}]

\* ExistsForCampaign: is there a message to this recipient?
Exists_Slip(c) == entries[c] > 0
Exists(c)      == rows[c] > 0

\* An error of the query is ignored and its answer taken for no.
LooksForMessage(p) ==
    /\ step[p] = "exists"
    /\ \/ /\ Contact(p) \in Unreachable
          /\ Skips(p)
       \/ /\ Contact(p) \notin Unreachable
          /\ Exists(Contact(p))
          /\ Done(p)
          /\ UNCHANGED <<tally, skipped>>
       \/ /\ Contact(p) \notin Unreachable
          /\ ~Exists(Contact(p)) \/ May("exists")
          /\ Goto(p, "screen")
          /\ UNCHANGED <<pos, tally, skipped>>
    /\ UNCHANGED <<up, plan, lost, rowVars, msgVars, listVars, reqVars,
                   sendVars, crashes>>

IsBlocked_Slip(c) == c \in blocked /\ NeedsApproval
IsBlocked(c)      == c \in blocked

\* Suppression and unsubscribe; here too an error is taken for no.
ScreensContact(p) ==
    /\ step[p] = "screen"
    /\ \/ /\ IsBlocked(Contact(p))
          /\ Skips(p)
       \/ /\ ~IsBlocked(Contact(p)) \/ May("screen")
          /\ Goto(p, "create")
          /\ UNCHANGED <<pos, tally, skipped>>
    /\ UNCHANGED <<up, plan, lost, rowVars, msgVars, listVars, reqVars, sendVars, crashes>>

\* What follows a failed INSERT: the next contact, not the queue.
CreateFails_Slip(p) == Goto(p, "enqueue") /\ UNCHANGED <<pos, tally, skipped>>
CreateFails(p)      == Skips(p)

CreatesMessage(p) ==
    /\ step[p] = "create"
    /\ \/ /\ rows' = [rows EXCEPT ![Contact(p)] = @ + 1]
          /\ Goto(p, "enqueue")
          /\ UNCHANGED <<pos, tally, skipped>>
       \/ /\ May("create")
          /\ CreateFails(p)
          /\ UNCHANGED rows
    /\ UNCHANGED <<up, plan, lost, entries, ghosts, failed, rowVars, listVars, reqVars,
                   sendVars, crashes>>

EnqueuesMessage(p) ==
    /\ step[p] = "enqueue"
    /\ \/ /\ entries' = [entries EXCEPT ![Contact(p)] = @ + 1]
          /\ tally' = [tally EXCEPT ![p].queued = @ + 1]
          /\ Done(p)
       \/ /\ May("queue")
          /\ Goto(p, "fail")
          /\ UNCHANGED <<entries, pos, tally>>
    /\ UNCHANGED <<up, plan, lost, skipped, rows, ghosts, failed, rowVars, listVars,
                   reqVars, sendVars, crashes>>

Completes(p) ==
    /\ step[p] = "complete"
    /\ WriteStatus("completed")
    /\ Goto(p, "stats")
    /\ UNCHANGED <<plan, lost, pos, tally, skipped>>

\* The stats of the row are replaced, with whatever others counted in them.
StoresStats(p) ==
    /\ step[p] = "stats"
    /\ \/ status # "absent" /\ stats' = tally[p]
       \/ (status = "absent" \/ May("status")) /\ stats' = stats
    /\ Locals(p, "idle", <<>>)
    /\ UNCHANGED <<status, target, up, msgVars, listVars, reqVars, sendVars, crashes>>

ExecuteStep(p) ==
    \/ ReadsTemplate(p)
    \/ Fails(p)
    \/ Runs(p)
    \/ ResolvesContacts(p)
    \/ ResolveFails(p)
    \/ Turns(p)
    \/ LooksForMessage(p)
    \/ ScreensContact(p)
    \/ CreatesMessage(p)
    \/ EnqueuesMessage(p)
    \/ Completes(p)
    \/ StoresStats(p)

-----------------------------------------------------------------------------
(* Senders                                                                   *)

\* A message of the campaign has failed for good; its stats are read ...
SenderReads(s) ==
    /\ ~sending[s]
    /\ \E c \in Contacts :
          /\ failed[c] < entries[c]
          /\ failed' = [failed EXCEPT ![c] = @ + 1]
    /\ status # "absent"
    /\ sending' = [sending EXCEPT ![s] = TRUE]
    /\ seen' = [seen EXCEPT ![s] = [stats EXCEPT !.failed = @ + 1]]
    /\ UNCHANGED <<rowVars, rows, entries, ghosts, listVars, reqVars, execVars, crashes>>

\* ... and written back, one higher.
SenderWrites(s) ==
    /\ sending[s]
    /\ sending' = [sending EXCEPT ![s] = FALSE]
    /\ seen' = [seen EXCEPT ![s] = NoStats]
    /\ \/ status # "absent" /\ stats' = seen[s]
       \/ (status = "absent" \/ May("status")) /\ stats' = stats
    /\ UNCHANGED <<status, target, msgVars, listVars, reqVars, execVars, crashes>>

-----------------------------------------------------------------------------
(* Edits by others                                                           *)

ListsChange ==
    /\ May("lists")
    /\ \E c \in Contacts :
          \/ blocked' = blocked \cup {c} /\ c \notin blocked
          \/ blocked' = blocked \ {c} /\ c \in blocked
    /\ everClear' = everClear \cup (Contacts \ blocked')
    /\ UNCHANGED <<optedIn, approved, rowVars, msgVars, reqVars, execVars, sendVars, crashes>>

ConsentChanges ==
    /\ May("consent")
    /\ \E c \in Contacts : optedIn' \in {optedIn \cup {c}, optedIn \ {c}} \ {optedIn}
    /\ UNCHANGED <<blocked, everClear, approved, rowVars, msgVars, reqVars, execVars,
                   sendVars, crashes>>

TemplateChanges ==
    /\ May("template")
    /\ approved' = ~approved
    /\ UNCHANGED <<blocked, everClear, optedIn, rowVars, msgVars, reqVars, execVars,
                   sendVars, crashes>>

-----------------------------------------------------------------------------
Next ==
    \/ \E r \in Requests : RequestStep(r)
    \/ \E p \in Processes : Start(p) \/ Tick(p) \/ Crash(p) \/ ExecuteStep(p)
    \/ \E s \in Senders : SenderReads(s) \/ SenderWrites(s)
    \/ ListsChange
    \/ ConsentChanges
    \/ TemplateChanges

\* A process that ended is started again, its ticker ticks, its goroutines run.
Fairness ==
    \A p \in Processes : WF_vars(Start(p)) /\ WF_vars(Tick(p)) /\ WF_vars(ExecuteStep(p))

Spec == Init /\ [][Next]_vars /\ Fairness

-----------------------------------------------------------------------------
(* Properties                                                                *)

\* While no look for an earlier message fails, no more messages of a campaign go
\* to one recipient than there are processes: one, if only one process runs,
\* whatever it is interrupted by and however often a contact is listed.
BoundedRows == \A c \in Contacts : rows[c] <= Cardinality(Processes)

\* However executions are interrupted and repeated, no message of a campaign is
\* put in the queue twice, and none before its row is there for the sender.
EntriesHaveRows == \A c \in Contacts : entries[c] <= rows[c]

\* "Suppression list -- NEVER send to these": a message is created only for a
\* recipient that was off the lists at some time.
OnlyClearedAreMessaged == \A c \in Contacts : rows[c] > 0 => c \in everClear

\* An execution that reports "completed" has come to every contact of the
\* campaign: each has a message or was counted as failed.
CompletedWasVisited ==
    \A p \in Processes : step[p] = "complete" =>
        \A c \in Range(plan[p]) : rows[c] > 0 \/ c \in skipped[p]

\* "Crash recovery: automatically resumes interrupted campaigns": an execution
\* comes to an end, by this process or, after it died, by its successor.
InterruptedIsResumed ==
    \A p \in Processes : step[p] # "idle" ~> status \in {"completed", "failed"}
=============================================================================
