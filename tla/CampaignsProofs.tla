--------------------------- MODULE CampaignsProofs ---------------------------
(***************************************************************************)
(* What Campaigns promises of every instance: any contacts, lists and      *)
(* segment, any number of processes, requests, senders and crashes, and    *)
(* any events.  Two of the theorems need a look into the database not to   *)
(* fail: the one for an earlier message, or the one into the suppression   *)
(* list, whose error the code takes for no.                                *)
(***************************************************************************)
EXTENDS Campaigns, FiniteSetTheorems, SequenceTheorems, TLAPS

(***************************************************************************)
(* TypeOK in the parts that actions change together.  ExecType adds to it  *)
(* that an execution has resolved its campaign exactly from the loop on.   *)
(***************************************************************************)
RowType ==
    /\ status \in Statuses \cup {"absent"}
    /\ target \in Targets
    /\ stats \in Stats

MsgType ==
    /\ rows \in [Contacts -> Nat]
    /\ entries \in [Contacts -> Nat]
    /\ ghosts \subseteq Contacts
    /\ failed \in [Contacts -> Nat]

ListType ==
    /\ blocked \subseteq Contacts
    /\ optedIn \subseteq Contacts
    /\ approved \in BOOLEAN
    /\ everClear \subseteq Contacts

ReqType ==
    /\ reqStep \in [Requests -> ReqSteps]
    /\ reqStatus \in [Requests -> Statuses]
    /\ reqTarget \in [Requests -> Targets]
    /\ reqTodo \in [Requests -> SUBSET Contacts]
    /\ reqStats \in [Requests -> Stats]

ExecType ==
    /\ step \in [Processes -> ExecSteps]
    /\ plan \in [Processes -> Targets \cup Seq(Contacts)]
    /\ lost \in [Processes -> SUBSET Contacts]
    /\ pos \in [Processes -> Nat \ {0}]
    /\ tally \in [Processes -> Stats]
    /\ skipped \in [Processes -> SUBSET Contacts]
    /\ \A p \in Processes :
          /\ step[p] \in {"template", "run", "resolve"} => plan[p] \in Targets
          /\ step[p] \in {"next"} \cup Visiting => plan[p] \in Seq(Contacts)
          /\ step[p] \in Visiting => pos[p] <= Len(plan[p])

UpType == up \in [Processes -> BOOLEAN]

SendType ==
    /\ sending \in [Senders -> BOOLEAN]
    /\ seen \in [Senders -> Stats]

CrashType == crashes \in 0 .. MaxCrashes

Inv == /\ RowType /\ MsgType /\ ListType /\ ReqType
       /\ ExecType /\ UpType /\ SendType /\ CrashType

LEMMA InvTypeOK == Inv => TypeOK
BY DEF Inv, TypeOK, RowType, MsgType, ListType, ReqType, ExecType, UpType, SendType, CrashType

LEMMA NoStatsType == NoStats \in Stats
BY DEF NoStats, Stats

LEMMA InitInv == Init => Inv
<1> SUFFICES ASSUME Init PROVE Inv
  OBVIOUS
<1>1. NoStats \in Stats /\ Segment \in Targets /\ <<>> \in Seq(Contacts)
  BY NoStatsType DEF Targets
<1>2. RowType /\ MsgType
  BY <1>1 DEF Init, RowType, MsgType, Statuses
<1>3. ListType /\ CrashType /\ UpType
  BY CampaignAssumption DEF Init, ListType, CrashType, UpType
<1>4. ReqType
  BY <1>1 DEF Init, ReqType, ReqSteps, Statuses
<1>5. ExecType
  BY <1>1 DEF Init, ExecType, ExecSteps, Visiting
<1>6. SendType
  BY <1>1 DEF Init, SendType
<1> QED
  BY <1>2, <1>3, <1>4, <1>5, <1>6 DEF Inv

\* What a step leaves alone keeps its type.
LEMMA Kept ==
    ASSUME Inv
    PROVE  /\ UNCHANGED rowVars => RowType'
           /\ UNCHANGED msgVars => MsgType'
           /\ UNCHANGED listVars => ListType'
           /\ UNCHANGED reqVars => ReqType'
           /\ UNCHANGED execVars => ExecType' /\ UpType'
           /\ UNCHANGED <<step, plan, lost, pos, tally, skipped>> => ExecType'
           /\ UNCHANGED up => UpType'
           /\ UNCHANGED sendVars => SendType'
           /\ UNCHANGED crashes => CrashType'
<1>1. UNCHANGED rowVars => RowType'
  BY DEF Inv, rowVars, RowType
<1>2. UNCHANGED msgVars => MsgType'
  BY DEF Inv, msgVars, MsgType
<1>3. UNCHANGED listVars => ListType'
  BY DEF Inv, listVars, ListType
<1>4. UNCHANGED reqVars => ReqType'
  BY DEF Inv, reqVars, ReqType
<1>5. UNCHANGED <<step, plan, lost, pos, tally, skipped>> => ExecType'
  BY DEF Inv, ExecType
<1>6. UNCHANGED up => UpType'
  BY DEF Inv, UpType
<1>7. UNCHANGED sendVars => SendType'
  BY DEF Inv, sendVars, SendType
<1>8. UNCHANGED crashes => CrashType'
  BY DEF Inv, CrashType
<1> QED
  BY <1>1, <1>2, <1>3, <1>4, <1>5, <1>6, <1>7, <1>8 DEF execVars
-----------------------------------------------------------------------------
(* Lists                                                                     *)

LEMMA MinOfTwo ==
    ASSUME NEW a \in Int, NEW b \in Int
    PROVE  Min({a, b}) \in {a, b} /\ Min({a, b}) <= a /\ Min({a, b}) <= b
<1>1. \E x \in {a, b} : \A y \in {a, b} : x =< y
  BY SMT
<1> QED
  BY <1>1 DEF Min

LEMMA ResolveType ==
    ASSUME NEW t \in Targets
    PROVE  Resolve(t) \in Seq(Contacts)
<1> DEFINE m == 1 * PerPage + 1
           n == Min({Len(Members), (1 + 1) * PerPage})
<1>1. Len(Members) \in Nat /\ PerPage \in Nat \ {0}
  BY CampaignAssumption, LenProperties
<1>2. m \in Int /\ m >= 1 /\ n \in Int /\ n <= Len(Members)
  <2> DEFINE len == Len(Members)
             end == (1 + 1) * PerPage
  <2>1. len \in Int /\ end \in Int
    BY <1>1
  <2>2. n \in {len, end} /\ n <= len
    <3> HIDE DEF len, end
    <3>1. Min({len, end}) \in {len, end} /\ Min({len, end}) <= len
      BY <2>1, MinOfTwo
    <3> QED
      BY <3>1 DEF len, end
  <2>3. m \in Int /\ m >= 1
    BY <1>1
  <2> HIDE DEF n
  <2> QED
    BY <2>1, <2>2, <2>3
<1>3. \A i \in m .. n : Members[i] \in Contacts
  BY <1>1, <1>2, CampaignAssumption, LenProperties
<1>4. SubSeq(Members, m, n) \in Seq(Contacts)
  BY <1>2, <1>3, SubSeqProperties
<1> QED
  BY <1>4, CampaignAssumption DEF Resolve, Page, Targets

LEMMA CountType ==
    ASSUME NEW list \in Seq(Contacts), NEW S
    PROVE  Count(list, S) \in Nat
<1>1. IsFiniteSet(1 .. Len(list))
  BY LenProperties, FS_Interval
<1>2. IsFiniteSet({i \in DOMAIN list : list[i] \in S})
  BY <1>1, LenProperties, FS_Subset
<1> QED
  BY <1>2, FS_CardinalityType DEF Count
-----------------------------------------------------------------------------
(* Requests                                                                  *)

LEMMA ReturnType ==
    ASSUME Inv, NEW r \in Requests, Return(r)
    PROVE  ReqType'
BY NoStatsType DEF Inv, ReqType, Return, ReqGoto, ReqSteps, Statuses, Targets

LEMMA RequestType ==
    ASSUME Inv, NEW r \in Requests, RequestStep(r)
    PROVE  Inv'
<1> USE Kept DEF Inv
<1>1. ASSUME NEW op \in {"execute", "update", "delete", "pause", "resume"}, RequestReads(r, op)
      PROVE  Inv'
  <2>1. FirstStep(op) \in ReqSteps /\ status \in Statuses /\ stats \in Stats /\ target \in Targets
    BY <1>1 DEF RequestReads, FirstStep, Admits, Statuses, ReqSteps, RowType
  <2>2. PICK t \in Targets : reqTarget' = [reqTarget EXCEPT ![r] = t]
    BY <1>1, <2>1 DEF RequestReads
  <2>3. ReqType'
    BY <1>1, <2>1, <2>2 DEF RequestReads, ReqGoto, ReqType
  <2> QED
    BY <1>1, <2>3 DEF RequestReads
<1>2. CASE UpdateWrites(r)
  <2>1. RowType'
    BY <1>2 DEF UpdateWrites, UpdateCampaign, RowType, ReqType, rowVars
  <2> QED
    BY <1>2, <2>1, ReturnType DEF UpdateWrites, UpdateCampaign
<1>3. CASE RequestWrites(r)
  <2>1. RowType'
    BY <1>3 DEF RequestWrites, RowType, SetStatus, Statuses
  <2> QED
    BY <1>3, <2>1, ReturnType DEF RequestWrites
<1>4. CASE ExecuteResolves(r)
  <2>1. PICK T \in SUBSET Contacts : reqTodo' = [reqTodo EXCEPT ![r] = T]
    BY <1>4 DEF ExecuteResolves, ListType
  <2>2. ReqType'
    BY <1>4, <2>1 DEF ExecuteResolves, ReqGoto, ReqType, ReqSteps
  <2> QED
    BY <1>4, <2>2 DEF ExecuteResolves
<1>5. CASE ExecuteRefused(r)
  BY <1>5, ReturnType DEF ExecuteRefused
<1>6. CASE ExecuteRuns(r)
  <2>1. RowType'
    BY <1>6 DEF ExecuteRuns, RowType, SetStatus, Statuses
  <2>2. ReqType'
    BY <1>6, ReturnType DEF ExecuteRuns, ReqGoto, ReqType, ReqSteps
  <2> QED
    BY <1>6, <2>1, <2>2 DEF ExecuteRuns
<1>7. CASE ExecuteScreens(r)
  <2>1. PICK S \in SUBSET Contacts, n \in Nat :
           /\ reqTodo' = [reqTodo EXCEPT ![r] = S]
           /\ reqStats' = [reqStats EXCEPT ![r].total = n, ![r].queued = n]
    <3>1. Resolve(reqTarget[r]) \in Seq(Contacts)
      BY ResolveType DEF ReqType
    <3>2. \A S : Count(Resolve(reqTarget[r]), S) \in Nat
      BY <3>1, CountType
    <3> QED
      BY <1>7, <3>2 DEF ExecuteScreens, ReqType
  <2>2. reqTodo' \in [Requests -> SUBSET Contacts]
    BY <2>1 DEF ReqType
  <2>3. reqStats' \in [Requests -> Stats]
    BY <2>1 DEF ReqType, Stats
  <2>4. ReqType'
    BY <1>7, <2>2, <2>3 DEF ExecuteScreens, ReqGoto, ReqType, ReqSteps
  <2> QED
    BY <1>7, <2>4 DEF ExecuteScreens
<1>8. CASE ExecutePublishes(r)
  <2>1. ghosts' \subseteq Contacts /\ reqTodo' \in [Requests -> SUBSET Contacts]
    BY <1>8 DEF ExecutePublishes, MsgType, ReqType
  <2>2. ReqType'
    BY <1>8, <2>1 DEF ExecutePublishes, ReqGoto, ReqType, ReqSteps
  <2>3. MsgType'
    BY <1>8, <2>1 DEF ExecutePublishes, MsgType
  <2> QED
    BY <1>8, <2>2, <2>3 DEF ExecutePublishes
<1>9. CASE ExecuteEnds(r)
  <2>1. RowType'
    BY <1>9 DEF ExecuteEnds, RowType, ReqType, SetStatus, Statuses
  <2> QED
    BY <1>9, <2>1, ReturnType DEF ExecuteEnds
<1>10. CASE RequestDies(r)
  BY <1>10, ReturnType DEF RequestDies
<1> QED
  BY <1>1, <1>2, <1>3, <1>4, <1>5, <1>6, <1>7, <1>8, <1>9, <1>10 DEF RequestStep
-----------------------------------------------------------------------------
(* Executors                                                                 *)

LEMMA ContactType ==
    ASSUME Inv, NEW p \in Processes, step[p] \in Visiting
    PROVE  Contact(p) \in Contacts
<1>1. plan[p] \in Seq(Contacts) /\ pos[p] \in Nat \ {0} /\ pos[p] <= Len(plan[p])
  BY DEF Inv, ExecType
<1> QED
  BY <1>1, LenProperties DEF Contact

LEMMA LocalsType ==
    ASSUME Inv, NEW p \in Processes, NEW s, NEW t, Locals(p, s, t),
           \/ s = "idle" /\ t = <<>>
           \/ s = "template" /\ t \in Targets
    PROVE  ExecType'
<1>1. t \in Targets \cup Seq(Contacts) /\ s \in ExecSteps
  <2>1. <<>> \in Seq(Contacts)
    OBVIOUS
  <2>2. "idle" \in ExecSteps /\ "template" \in ExecSteps
    BY DEF ExecSteps
  <2> QED
    BY <2>1, <2>2, Zenon
<1>2. /\ step' \in [Processes -> ExecSteps]
      /\ plan' \in [Processes -> Targets \cup Seq(Contacts)]
      /\ lost' \in [Processes -> SUBSET Contacts]
      /\ skipped' \in [Processes -> SUBSET Contacts]
  BY <1>1 DEF Locals, Goto, Inv, ExecType
<1>3. /\ pos' \in [Processes -> Nat \ {0}]
      /\ tally' \in [Processes -> Stats]
  BY NoStatsType DEF Locals, Inv, ExecType
<1>4. ASSUME NEW q \in Processes
      PROVE  /\ step'[q] \in {"template", "run", "resolve"} => plan'[q] \in Targets
             /\ step'[q] \in {"next"} \cup Visiting => plan'[q] \in Seq(Contacts)
             /\ step'[q] \in Visiting => pos'[q] <= Len(plan'[q])
  <2>1. CASE q = p
    BY <2>1 DEF Locals, Goto, Inv, ExecType, Visiting
  <2>2. CASE q # p
    BY <2>2 DEF Locals, Goto, Inv, ExecType
  <2> QED
    BY <2>1, <2>2
<1> QED
  BY <1>2, <1>3, <1>4 DEF ExecType

\* An execution goes to s, where its plan and position are fit to be.
LEMMA MoveType ==
    ASSUME Inv, NEW p \in Processes, NEW s \in ExecSteps,
           Goto(p, s), UNCHANGED <<plan, lost>>,
           pos' \in [Processes -> Nat \ {0}],
           \A q \in Processes \ {p} : pos'[q] = pos[q],
           tally' \in [Processes -> Stats],
           skipped' \in [Processes -> SUBSET Contacts],
           s \in {"template", "run", "resolve"} => plan[p] \in Targets,
           s \in {"next"} \cup Visiting => plan[p] \in Seq(Contacts),
           s \in Visiting => pos'[p] <= Len(plan[p])
    PROVE  ExecType'
<1>1. step' \in [Processes -> ExecSteps]
  BY DEF Goto, Inv, ExecType
<1>2. ASSUME NEW q \in Processes
      PROVE  /\ step'[q] \in {"template", "run", "resolve"} => plan'[q] \in Targets
             /\ step'[q] \in {"next"} \cup Visiting => plan'[q] \in Seq(Contacts)
             /\ step'[q] \in Visiting => pos'[q] <= Len(plan'[q])
  <2>1. CASE q = p
    BY <2>1 DEF Goto, Inv, ExecType
  <2>2. CASE q # p
    BY <2>2 DEF Goto, Inv, ExecType
  <2> QED
    BY <2>1, <2>2
<1> QED
  BY <1>1, <1>2 DEF Inv, ExecType

LEMMA DoneType ==
    ASSUME Inv, NEW p \in Processes, step[p] \in Visiting,
           Done(p), UNCHANGED <<plan, lost>>,
           tally' \in [Processes -> Stats],
           skipped' \in [Processes -> SUBSET Contacts]
    PROVE  ExecType'
<1>1. pos' \in [Processes -> Nat \ {0}] /\ \A q \in Processes \ {p} : pos'[q] = pos[q]
  BY DEF Done, Inv, ExecType
<1>2. plan[p] \in Seq(Contacts)
  BY DEF Inv, ExecType
<1> QED
  BY <1>1, <1>2, MoveType DEF Done, ExecSteps, Visiting

LEMMA SkipsType ==
    ASSUME Inv, NEW p \in Processes, step[p] \in Visiting,
           Skips(p), UNCHANGED <<plan, lost>>
    PROVE  ExecType'
<1>1. tally' \in [Processes -> Stats]
  <2>1. tally \in [Processes -> Stats] /\ tally[p] \in Stats
    BY DEF Inv, ExecType
  <2>2. [tally[p] EXCEPT !.failed = @ + 1] \in Stats
    BY <2>1 DEF Stats
  <2>3. tally' = [tally EXCEPT ![p] = [tally[p] EXCEPT !.failed = @ + 1]]
    BY <2>1 DEF Skips
  <2> QED
    BY <2>1, <2>2, <2>3
<1>2. skipped' \in [Processes -> SUBSET Contacts]
  BY ContactType DEF Skips, Inv, ExecType
<1> QED
  BY <1>1, <1>2, DoneType DEF Skips

LEMMA WriteStatusType ==
    ASSUME Inv, NEW s \in Statuses, WriteStatus(s)
    PROVE  RowType' /\ UpType' /\ MsgType' /\ ListType' /\ ReqType' /\ SendType' /\ CrashType'
<1>1. RowType'
  BY DEF WriteStatus, SetStatus, Inv, RowType
<1> QED
  BY <1>1, Kept DEF WriteStatus

LEMMA ExecutorType ==
    ASSUME Inv, NEW p \in Processes,
           Start(p) \/ Tick(p) \/ Crash(p) \/ ExecuteStep(p)
    PROVE  Inv'
<1> USE Kept DEF Inv
<1>1. CASE Start(p)
  <2>1. ExecType'
    BY <1>1, LocalsType DEF Start, TakeUpIf, RowType
  <2>2. UpType'
    BY <1>1 DEF Start, UpType
  <2> QED
    BY <1>1, <2>1, <2>2 DEF Start
<1>2. CASE Tick(p)
  <2>1. ExecType'
    BY <1>2, LocalsType DEF Tick, TakeUpIf, RowType
  <2> QED
    BY <1>2, <2>1 DEF Tick
<1>3. CASE Crash(p)
  <2>1. ExecType'
    BY <1>3, LocalsType DEF Crash
  <2>2. UpType' /\ CrashType'
    BY <1>3, CampaignAssumption DEF Crash, UpType, CrashType
  <2> QED
    BY <1>3, <2>1, <2>2 DEF Crash
<1>4. CASE ReadsTemplate(p)
  <2>1. ExecType'
    BY <1>4, MoveType DEF ReadsTemplate, ExecType, ExecSteps, Visiting
  <2> QED
    BY <1>4, <2>1 DEF ReadsTemplate
<1>5. CASE Fails(p)
  <2>1. ExecType'
    BY <1>5, LocalsType DEF Fails
  <2> QED
    BY <1>5, <2>1, WriteStatusType DEF Fails, Statuses
<1>6. CASE Runs(p)
  <2>1. ExecType'
    BY <1>6, MoveType DEF Runs, ExecType, ExecSteps, Visiting
  <2> QED
    BY <1>6, <2>1, WriteStatusType DEF Runs, Statuses
<1>7. CASE ResolvesContacts(p)
  <2>1. PICK gone \in Gone(plan[p]) :
           /\ plan' = [plan EXCEPT ![p] = Resolve(plan[p])]
           /\ lost' = [lost EXCEPT ![p] = gone]
           /\ tally' = [tally EXCEPT
                 ![p].total = Count(Resolve(plan[p]), Contacts \ gone),
                 ![p].failed = Count(Resolve(plan[p]), gone)]
           /\ skipped' = [skipped EXCEPT ![p] = gone]
    BY <1>7 DEF ResolvesContacts
  <2>2. gone \subseteq Contacts
    BY DEF Gone
  <2>3. Resolve(plan[p]) \in Seq(Contacts)
    BY <1>7, ResolveType DEF ResolvesContacts, ExecType
  <2>4. \A S : Count(Resolve(plan[p]), S) \in Nat
    BY <2>3, CountType
  <2>5. /\ step' \in [Processes -> ExecSteps]
        /\ plan' \in [Processes -> Targets \cup Seq(Contacts)]
        /\ lost' \in [Processes -> SUBSET Contacts]
        /\ pos' \in [Processes -> Nat \ {0}]
        /\ skipped' \in [Processes -> SUBSET Contacts]
    BY <1>7, <2>1, <2>2, <2>3 DEF ResolvesContacts, Goto, ExecType, ExecSteps
  <2>6. tally' \in [Processes -> Stats]
    BY <2>1, <2>4 DEF ExecType, Stats
  <2>7. ASSUME NEW q \in Processes
        PROVE  /\ step'[q] \in {"template", "run", "resolve"} => plan'[q] \in Targets
               /\ step'[q] \in {"next"} \cup Visiting => plan'[q] \in Seq(Contacts)
               /\ step'[q] \in Visiting => pos'[q] <= Len(plan'[q])
    <3>1. CASE q = p
      BY <1>7, <2>1, <2>3, <3>1 DEF ResolvesContacts, Goto, ExecType, Visiting
    <3>2. CASE q # p
      BY <1>7, <2>1, <3>2 DEF ResolvesContacts, Goto, ExecType
    <3> QED
      BY <3>1, <3>2
  <2>8. ExecType'
    BY <2>5, <2>6, <2>7 DEF ExecType
  <2> QED
    BY <1>7, <2>8 DEF ResolvesContacts
<1>8. CASE ResolveFails(p)
  <2>1. ExecType'
    BY <1>8, MoveType DEF ResolveFails, ExecType, ExecSteps, Visiting
  <2> QED
    BY <1>8, <2>1 DEF ResolveFails
<1>9. CASE Turns(p)
  <2>1. plan[p] \in Seq(Contacts) /\ pos[p] \in Nat \ {0}
    BY <1>9 DEF Turns, ExecType
  <2>2. CASE Goto(p, "complete") /\ UNCHANGED pos
    BY <1>9, <2>2, MoveType DEF Turns, ExecType, ExecSteps, Visiting
  <2>3. CASE pos' = [pos EXCEPT ![p] = @ + 1] /\ UNCHANGED step
    <3>1. pos' \in [Processes -> Nat \ {0}] /\ \A q \in Processes \ {p} : pos'[q] = pos[q]
      BY <2>1, <2>3 DEF ExecType
    <3>2. Goto(p, "next")
      BY <1>9, <2>3 DEF Turns, Goto, ExecType
    <3> QED
      BY <1>9, <2>1, <3>1, <3>2, MoveType DEF Turns, ExecType, ExecSteps, Visiting
  <2>4. CASE HasMore(p) /\ Goto(p, "exists") /\ UNCHANGED pos
    BY <1>9, <2>1, <2>4, MoveType DEF Turns, HasMore, ExecType, ExecSteps, Visiting
  <2>5. ExecType'
    BY <1>9, <2>2, <2>3, <2>4 DEF Turns
  <2> QED
    BY <1>9, <2>5 DEF Turns
<1>10. CASE LooksForMessage(p)
  <2>1. step[p] \in Visiting
    BY <1>10 DEF LooksForMessage, Visiting
  <2>2. CASE Skips(p)
    BY <1>10, <2>1, <2>2, SkipsType DEF LooksForMessage
  <2>3. CASE Done(p) /\ UNCHANGED <<tally, skipped>>
    BY <1>10, <2>1, <2>3, DoneType DEF LooksForMessage, ExecType
  <2>4. CASE Goto(p, "screen") /\ UNCHANGED <<pos, tally, skipped>>
    BY <1>10, <2>1, <2>4, MoveType DEF LooksForMessage, ExecType, ExecSteps, Visiting
  <2> QED
    BY <1>10, <2>2, <2>3, <2>4 DEF LooksForMessage
<1>11. CASE ScreensContact(p)
  <2>1. step[p] \in Visiting
    BY <1>11 DEF ScreensContact, Visiting
  <2>2. CASE Skips(p)
    BY <1>11, <2>1, <2>2, SkipsType DEF ScreensContact
  <2>3. CASE Goto(p, "create") /\ UNCHANGED <<pos, tally, skipped>>
    BY <1>11, <2>1, <2>3, MoveType DEF ScreensContact, ExecType, ExecSteps, Visiting
  <2> QED
    BY <1>11, <2>2, <2>3 DEF ScreensContact
<1>12. CASE CreatesMessage(p)
  <2>1. step[p] \in Visiting
    BY <1>12 DEF CreatesMessage, Visiting
  <2>2. MsgType'
    BY <1>12 DEF CreatesMessage, MsgType
  <2>3. CASE Skips(p)
    BY <1>12, <2>1, <2>2, <2>3, SkipsType DEF CreatesMessage
  <2>4. CASE Goto(p, "enqueue") /\ UNCHANGED <<pos, tally, skipped>>
    BY <1>12, <2>1, <2>2, <2>4, MoveType DEF CreatesMessage, ExecType, ExecSteps, Visiting
  <2> QED
    BY <1>12, <2>3, <2>4 DEF CreatesMessage, CreateFails
<1>13. CASE EnqueuesMessage(p)
  <2>1. step[p] \in Visiting
    BY <1>13 DEF EnqueuesMessage, Visiting
  <2>2. MsgType'
    BY <1>13 DEF EnqueuesMessage, MsgType
  <2>3. CASE Goto(p, "fail") /\ UNCHANGED <<pos, tally>>
    <3>1. /\ UNCHANGED <<plan, lost, skipped>>
          /\ pos' \in [Processes -> Nat \ {0}] /\ tally' \in [Processes -> Stats]
          /\ skipped' \in [Processes -> SUBSET Contacts]
      BY <1>13, <2>3 DEF EnqueuesMessage, ExecType
    <3>2. ExecType'
      BY <2>3, <3>1, MoveType DEF ExecSteps, Visiting
    <3> QED
      BY <1>13, <2>2, <3>2 DEF EnqueuesMessage
  <2>4. CASE tally' = [tally EXCEPT ![p].queued = @ + 1] /\ Done(p)
    <3>1. tally \in [Processes -> Stats] /\ tally[p] \in Stats
      BY DEF ExecType
    <3>2. [tally[p] EXCEPT !.queued = @ + 1] \in Stats
      BY <3>1 DEF Stats
    <3>3. tally' = [tally EXCEPT ![p] = [tally[p] EXCEPT !.queued = @ + 1]]
      BY <2>4, <3>1
    <3>4. tally' \in [Processes -> Stats]
      BY <3>1, <3>2, <3>3
    <3>5. ExecType'
      BY <1>13, <2>1, <2>4, <3>4, DoneType DEF EnqueuesMessage, ExecType
    <3> QED
      BY <1>13, <2>2, <3>5 DEF EnqueuesMessage
  <2> QED
    BY <1>13, <2>3, <2>4 DEF EnqueuesMessage
<1>14. CASE Completes(p)
  <2>1. ExecType'
    BY <1>14, MoveType DEF Completes, ExecType, ExecSteps, Visiting
  <2> QED
    BY <1>14, <2>1, WriteStatusType DEF Completes, Statuses
<1>15. CASE StoresStats(p)
  <2>1. ExecType'
    BY <1>15, LocalsType DEF StoresStats
  <2>2. RowType'
    BY <1>15 DEF StoresStats, RowType, ExecType
  <2> QED
    BY <1>15, <2>1, <2>2 DEF StoresStats
<1> QED
  BY <1>1, <1>2, <1>3, <1>4, <1>5, <1>6, <1>7, <1>8, <1>9, <1>10, <1>11, <1>12,
     <1>13, <1>14, <1>15 DEF ExecuteStep
-----------------------------------------------------------------------------
(* The rest                                                                  *)

LEMMA OtherType ==
    ASSUME Inv,
           \/ \E s \in Senders : SenderReads(s) \/ SenderWrites(s)
           \/ ListsChange \/ ConsentChanges \/ TemplateChanges
           \/ UNCHANGED vars
    PROVE  Inv'
<1> USE Kept DEF Inv
<1>1. ASSUME NEW s \in Senders, SenderReads(s)
      PROVE  Inv'
  <2>1. PICK c \in Contacts : failed' = [failed EXCEPT ![c] = @ + 1]
    BY <1>1 DEF SenderReads
  <2>2. MsgType'
    BY <1>1, <2>1 DEF SenderReads, MsgType
  <2>3. [stats EXCEPT !.failed = @ + 1] \in Stats
    BY DEF RowType, Stats
  <2>4. SendType'
    BY <1>1, <2>3 DEF SenderReads, SendType
  <2> QED
    BY <1>1, <2>2, <2>4 DEF SenderReads
<1>2. ASSUME NEW s \in Senders, SenderWrites(s)
      PROVE  Inv'
  <2>1. RowType' /\ SendType'
    BY <1>2, NoStatsType DEF SenderWrites, RowType, SendType
  <2> QED
    BY <1>2, <2>1 DEF SenderWrites
<1>3. CASE ListsChange
  <2>1. ListType'
    BY <1>3 DEF ListsChange, ListType
  <2> QED
    BY <1>3, <2>1 DEF ListsChange
<1>4. CASE ConsentChanges
  <2>1. ListType'
    BY <1>4 DEF ConsentChanges, ListType
  <2> QED
    BY <1>4, <2>1 DEF ConsentChanges
<1>5. CASE TemplateChanges
  <2>1. ListType'
    BY <1>5 DEF TemplateChanges, ListType
  <2> QED
    BY <1>5, <2>1 DEF TemplateChanges
<1>6. CASE UNCHANGED vars
  BY <1>6 DEF vars
<1> QED
  BY <1>1, <1>2, <1>3, <1>4, <1>5, <1>6

LEMMA InvStep == Inv /\ [Next]_vars => Inv'
BY RequestType, ExecutorType, OtherType DEF Next

\* The row, the requests, the executions and the stats keep their shape, and an
\* execution only looks at contacts its list has (ExecuteCampaign).
THEOREM TypeCorrect == Spec => []TypeOK
<1> QED
  BY InitInv, InvStep, InvTypeOK, PTL DEF Spec
-----------------------------------------------------------------------------
(* What a step does to the messages and entries of a recipient               *)

\* The locals of an execution are its own.
LEMMA LocalsAreOwn ==
    ASSUME Inv, NEW p \in Processes,
           Start(p) \/ Tick(p) \/ Crash(p) \/ ExecuteStep(p)
    PROVE  \A q \in Processes \ {p} :
              /\ step'[q] = step[q] /\ plan'[q] = plan[q] /\ pos'[q] = pos[q]
              /\ lost'[q] = lost[q] /\ skipped'[q] = skipped[q]
<1> USE DEF Inv, ExecType, Goto, Locals
<1>1. CASE Start(p) \/ Tick(p) \/ Crash(p)
  BY <1>1 DEF Start, Tick, Crash, TakeUpIf
<1>2. CASE ReadsTemplate(p) \/ Fails(p) \/ Runs(p) \/ ResolvesContacts(p) \/ ResolveFails(p)
  BY <1>2 DEF ReadsTemplate, Fails, Runs, ResolvesContacts, ResolveFails
<1>3. CASE Turns(p)
  BY <1>3 DEF Turns
<1>4. CASE LooksForMessage(p) \/ ScreensContact(p)
  BY <1>4 DEF LooksForMessage, ScreensContact, Skips, Done
<1>5. CASE CreatesMessage(p)
  BY <1>5 DEF CreatesMessage, CreateFails, Skips, Done
<1>6. CASE EnqueuesMessage(p)
  BY <1>6 DEF EnqueuesMessage, Done
<1>7. CASE Completes(p) \/ StoresStats(p)
  BY <1>7 DEF Completes, StoresStats
<1> QED
  BY <1>1, <1>2, <1>3, <1>4, <1>5, <1>6, <1>7 DEF ExecuteStep

LEMMA OthersKeep ==
    ASSUME Inv, NEW p \in Processes,
           Start(p) \/ Tick(p) \/ Crash(p) \/ ExecuteStep(p)
    PROVE  \A q \in Processes \ {p} : step'[q] = step[q] /\ Contact(q)' = Contact(q)
BY LocalsAreOwn DEF Contact

\* The ways an execution comes nearer to a message, and leaves.
Still(p)  == UNCHANGED <<rows, entries, step, plan, pos>>
Leaves(p) == UNCHANGED <<rows, entries>> /\ step'[p] \notin {"screen", "create", "enqueue"}
Passes(p, from, to) ==
    /\ step[p] = from /\ step'[p] = to /\ Contact(p)' = Contact(p)
    /\ UNCHANGED entries
Queues(p) ==
    /\ step[p] = "enqueue" /\ step'[p] = "next"
    /\ entries' = [entries EXCEPT ![Contact(p)] = @ + 1] /\ UNCHANGED rows

Effect(p) ==
    \/ Still(p)
    \/ Leaves(p)
    \/ Passes(p, "exists", "screen") /\ (~Exists(Contact(p)) \/ May("exists")) /\ UNCHANGED rows
    \/ Passes(p, "screen", "create") /\ UNCHANGED rows
    \/ Passes(p, "create", "enqueue") /\ rows' = [rows EXCEPT ![Contact(p)] = @ + 1]
    \/ Queues(p)

LEMMA ExecutorEffect ==
    ASSUME Inv, NEW p \in Processes,
           Start(p) \/ Tick(p) \/ Crash(p) \/ ExecuteStep(p)
    PROVE  Effect(p)
<1> USE DEF Inv, ExecType, Effect, Goto, msgVars
<1>1. CASE Start(p) \/ Tick(p) \/ Crash(p)
  BY <1>1 DEF Start, Tick, Crash, TakeUpIf, Locals, Still, Leaves
<1>2. CASE ReadsTemplate(p) \/ ResolvesContacts(p) \/ ResolveFails(p) \/ Turns(p)
  BY <1>2 DEF ReadsTemplate, ResolvesContacts, ResolveFails, Turns, Leaves
<1>3. CASE Fails(p) \/ Runs(p) \/ Completes(p) \/ StoresStats(p)
  BY <1>3 DEF Fails, Runs, Completes, StoresStats, WriteStatus, Locals, Leaves
<1>4. CASE LooksForMessage(p)
  BY <1>4 DEF LooksForMessage, Skips, Done, Leaves, Passes, Contact
<1>5. CASE ScreensContact(p)
  BY <1>5 DEF ScreensContact, Skips, Done, Leaves, Passes, Contact
<1>6. CASE CreatesMessage(p)
  BY <1>6 DEF CreatesMessage, CreateFails, Skips, Done, Leaves, Passes, Contact
<1>7. CASE EnqueuesMessage(p)
  BY <1>7 DEF EnqueuesMessage, Done, Leaves, Queues
<1> QED
  BY <1>1, <1>2, <1>3, <1>4, <1>5, <1>6, <1>7 DEF ExecuteStep

LEMMA OthersEffect ==
    ASSUME \/ \E r \in Requests : RequestStep(r)
           \/ \E s \in Senders : SenderReads(s) \/ SenderWrites(s)
           \/ ListsChange \/ ConsentChanges \/ TemplateChanges
           \/ UNCHANGED vars
    PROVE  UNCHANGED <<rows, entries, step, plan, pos>>
<1> USE DEF msgVars, execVars
<1>1. ASSUME NEW r \in Requests, RequestStep(r)
      PROVE  UNCHANGED <<rows, entries, step, plan, pos>>
  BY <1>1 DEF RequestStep, RequestReads, UpdateWrites, UpdateCampaign, RequestWrites,
     ExecuteResolves,
     ExecuteRefused, ExecuteRuns, ExecuteScreens, ExecutePublishes, ExecuteEnds, RequestDies
<1>2. ASSUME NEW s \in Senders, SenderReads(s) \/ SenderWrites(s)
      PROVE  UNCHANGED <<rows, entries, step, plan, pos>>
  BY <1>2 DEF SenderReads, SenderWrites
<1>3. CASE ListsChange \/ ConsentChanges \/ TemplateChanges \/ UNCHANGED vars
  BY <1>3 DEF ListsChange, ConsentChanges, TemplateChanges, vars
<1> QED
  BY <1>1, <1>2, <1>3

LEMMA OthersLeaveLocals ==
    ASSUME \/ \E r \in Requests : RequestStep(r)
           \/ \E s \in Senders : SenderReads(s) \/ SenderWrites(s)
           \/ ListsChange \/ ConsentChanges \/ TemplateChanges
           \/ UNCHANGED vars
    PROVE  UNCHANGED execVars
<1>1. ASSUME NEW r \in Requests, RequestStep(r)
      PROVE  UNCHANGED execVars
  BY <1>1 DEF RequestStep, RequestReads, UpdateWrites, RequestWrites, ExecuteResolves,
     ExecuteRefused, ExecuteRuns, ExecuteScreens, ExecutePublishes, ExecuteEnds, RequestDies
<1>2. ASSUME NEW s \in Senders, SenderReads(s) \/ SenderWrites(s)
      PROVE  UNCHANGED execVars
  BY <1>2 DEF SenderReads, SenderWrites
<1>3. CASE ListsChange \/ ConsentChanges \/ TemplateChanges \/ UNCHANGED vars
  BY <1>3 DEF ListsChange, ConsentChanges, TemplateChanges, vars
<1> QED
  BY <1>1, <1>2, <1>3

LEMMA SubsetOfProcesses ==
    ASSUME NEW S \in SUBSET Processes, NEW T \in SUBSET S
    PROVE  Cardinality(T) \in Nat /\ Cardinality(S) \in Nat /\ Cardinality(T) <= Cardinality(S)
BY CampaignAssumption, FS_Subset, FS_CardinalityType

LEMMA OneOfProcesses ==
    ASSUME NEW S \in SUBSET Processes, NEW p \in Processes
    PROVE  /\ p \in S => Cardinality(S \ {p}) = Cardinality(S) - 1
           /\ p \notin S => Cardinality(S \cup {p}) = Cardinality(S) + 1
BY CampaignAssumption, FS_Subset, FS_AddElement, FS_RemoveElement
-----------------------------------------------------------------------------
(* Messages                                                                  *)

\* The executions that found no message for c and have not created theirs.
Chosen(c) == {p \in Processes : step[p] \in {"screen", "create"} /\ Contact(p) = c}

RowsCount ==
    \A c \in Contacts : rows[c] + Cardinality(Chosen(c)) <= Cardinality(Processes)

LEMMA RowsCountInit == Init => RowsCount
<1> SUFFICES ASSUME Init, NEW c \in Contacts
             PROVE  rows[c] + Cardinality(Chosen(c)) <= Cardinality(Processes)
  BY DEF RowsCount
<1>1. Chosen(c) \subseteq Processes /\ rows[c] = 0
  BY DEF Chosen, Init
<1> QED
  BY <1>1, SubsetOfProcesses

LEMMA RowsCountStep ==
    ASSUME Inv, RowsCount, [Next]_vars, ~May("exists")
    PROVE  RowsCount'
<1> SUFFICES ASSUME NEW c \in Contacts
             PROVE  rows'[c] + Cardinality(Chosen(c)') <= Cardinality(Processes)
  BY DEF RowsCount
<1>1. Chosen(c) \subseteq Processes /\ Chosen(c)' \subseteq Processes
  BY DEF Chosen
<1>2. /\ rows[c] + Cardinality(Chosen(c)) <= Cardinality(Processes)
      /\ rows[c] \in Nat
      /\ Cardinality(Chosen(c)) \in Nat /\ Cardinality(Chosen(c)') \in Nat
  BY <1>1, SubsetOfProcesses DEF RowsCount, Inv, MsgType
<1>3. ASSUME rows'[c] = rows[c], Chosen(c)' \subseteq Chosen(c)
      PROVE  rows'[c] + Cardinality(Chosen(c)') <= Cardinality(Processes)
  BY <1>1, <1>2, <1>3, SubsetOfProcesses
<1>4. CASE UNCHANGED <<rows, entries, step, plan, pos>>
  BY <1>3, <1>4 DEF Chosen, Contact
<1>5. ASSUME NEW p \in Processes, Start(p) \/ Tick(p) \/ Crash(p) \/ ExecuteStep(p)
      PROVE  rows'[c] + Cardinality(Chosen(c)') <= Cardinality(Processes)
  <2>1. Effect(p)
    BY <1>5, ExecutorEffect
  <2>2. Chosen(c)' \ {p} = Chosen(c) \ {p}
    BY <1>5, OthersKeep DEF Chosen
  <2>3. CASE Still(p)
    BY <1>4, <2>3 DEF Still
  <2>4. CASE Leaves(p) \/ Queues(p)
    <3>1. p \notin Chosen(c)' /\ rows'[c] = rows[c]
      BY <2>4 DEF Leaves, Queues, Chosen
    <3> QED
      BY <1>3, <2>2, <3>1
  <2>5. CASE Passes(p, "exists", "screen") /\ ~Exists(Contact(p)) /\ UNCHANGED rows
    <3>1. CASE Contact(p) = c
      <4>1. rows'[c] = 0
        BY <1>2, <2>5, <3>1 DEF Exists
      <4> QED
        BY <1>1, <1>2, <4>1, SubsetOfProcesses
    <3>2. CASE Contact(p) # c
      <4>1. p \notin Chosen(c)'
        BY <2>5, <3>2 DEF Passes, Chosen
      <4> QED
        BY <1>3, <2>2, <2>5, <4>1
    <3> QED
      BY <3>1, <3>2
  <2>6. CASE Passes(p, "screen", "create") /\ UNCHANGED rows
    <3>1. p \in Chosen(c)' => p \in Chosen(c)
      BY <2>6 DEF Passes, Chosen
    <3> QED
      BY <1>3, <2>2, <2>6, <3>1
  <2>7. CASE Passes(p, "create", "enqueue") /\ rows' = [rows EXCEPT ![Contact(p)] = @ + 1]
    <3>1. p \notin Chosen(c)'
      BY <2>7 DEF Passes, Chosen
    <3>2. CASE Contact(p) = c
      <4>1. p \in Chosen(c) /\ rows'[c] = rows[c] + 1
        BY <2>7, <3>2 DEF Passes, Chosen, Inv, MsgType
      <4>2. Chosen(c)' = Chosen(c) \ {p}
        BY <2>2, <3>1
      <4>3. Cardinality(Chosen(c)') = Cardinality(Chosen(c)) - 1
        BY <1>1, <4>1, <4>2, OneOfProcesses
      <4>4. Cardinality(Processes) \in Nat
        BY CampaignAssumption, FS_CardinalityType
      <4> QED
        BY <1>2, <4>1, <4>3, <4>4
    <3>3. CASE Contact(p) # c
      <4>1. rows'[c] = rows[c]
        BY <2>7, <3>3 DEF Inv, MsgType
      <4> QED
        BY <1>3, <2>2, <3>1, <4>1
    <3> QED
      BY <3>2, <3>3
  <2> QED
    BY <2>1, <2>3, <2>4, <2>5, <2>6, <2>7 DEF Effect
<1> QED
  BY <1>4, <1>5, OthersEffect DEF Next

\* While no look for an earlier message fails, at most as many messages of the
\* campaign go to one recipient as there are processes ("Duplicate send
\* prevention" in ExecuteCampaign), whatever crashes, repeats and is edited.
THEOREM RowsAreBounded == ~May("exists") => (Spec => []BoundedRows)
<1> SUFFICES ASSUME ~May("exists") PROVE Spec => []BoundedRows
  OBVIOUS
<1>1. Inv /\ RowsCount => BoundedRows
  <2> SUFFICES ASSUME Inv, RowsCount, NEW c \in Contacts
               PROVE  rows[c] <= Cardinality(Processes)
    BY DEF BoundedRows
  <2>1. Chosen(c) \subseteq Processes
    BY DEF Chosen
  <2>2. Cardinality(Chosen(c)) \in Nat /\ Cardinality(Processes) \in Nat
    BY <2>1, SubsetOfProcesses
  <2> QED
    BY <2>2 DEF RowsCount, Inv, MsgType
<1>2. Inv /\ RowsCount /\ [Next]_vars => (Inv /\ RowsCount)'
  BY InvStep, RowsCountStep
<1>3. Init => Inv /\ RowsCount
  BY InitInv, RowsCountInit
<1> QED
  BY <1>1, <1>2, <1>3, PTL DEF Spec
-----------------------------------------------------------------------------
(* Entries                                                                   *)

\* The executions that have created a message for c and not yet queued it.
Pending(c) == {p \in Processes : step[p] = "enqueue" /\ Contact(p) = c}

EntriesCount == \A c \in Contacts : entries[c] + Cardinality(Pending(c)) <= rows[c]

LEMMA EntriesCountInit == Init => EntriesCount
<1> SUFFICES ASSUME Init, NEW c \in Contacts
             PROVE  entries[c] + Cardinality(Pending(c)) <= rows[c]
  BY DEF EntriesCount
<1>1. Pending(c) = {} /\ rows[c] = 0 /\ entries[c] = 0
  BY DEF Pending, Init
<1> QED
  BY <1>1, FS_EmptySet

LEMMA EntriesCountStep ==
    ASSUME Inv, EntriesCount, [Next]_vars
    PROVE  EntriesCount'
<1> SUFFICES ASSUME NEW c \in Contacts
             PROVE  entries'[c] + Cardinality(Pending(c)') <= rows'[c]
  BY DEF EntriesCount
<1>1. Pending(c) \subseteq Processes /\ Pending(c)' \subseteq Processes
  BY DEF Pending
<1>2. /\ entries[c] + Cardinality(Pending(c)) <= rows[c]
      /\ rows[c] \in Nat /\ entries[c] \in Nat
      /\ Cardinality(Pending(c)) \in Nat /\ Cardinality(Pending(c)') \in Nat
  BY <1>1, SubsetOfProcesses DEF EntriesCount, Inv, MsgType
<1>3. ASSUME rows'[c] = rows[c], entries'[c] = entries[c], Pending(c)' \subseteq Pending(c)
      PROVE  entries'[c] + Cardinality(Pending(c)') <= rows'[c]
  BY <1>1, <1>2, <1>3, SubsetOfProcesses
<1>4. CASE UNCHANGED <<rows, entries, step, plan, pos>>
  BY <1>3, <1>4 DEF Pending, Contact
<1>5. ASSUME NEW p \in Processes, Start(p) \/ Tick(p) \/ Crash(p) \/ ExecuteStep(p)
      PROVE  entries'[c] + Cardinality(Pending(c)') <= rows'[c]
  <2>1. Effect(p)
    BY <1>5, ExecutorEffect
  <2>2. Pending(c)' \ {p} = Pending(c) \ {p}
    BY <1>5, OthersKeep DEF Pending
  <2>3. CASE Still(p)
    BY <1>4, <2>3 DEF Still
  <2>4. CASE \/ Leaves(p)
             \/ Passes(p, "exists", "screen") /\ UNCHANGED rows
             \/ Passes(p, "screen", "create") /\ UNCHANGED rows
    <3>1. p \notin Pending(c)' /\ rows'[c] = rows[c] /\ entries'[c] = entries[c]
      BY <2>4 DEF Leaves, Passes, Pending
    <3> QED
      BY <1>3, <2>2, <3>1
  <2>5. CASE Passes(p, "create", "enqueue") /\ rows' = [rows EXCEPT ![Contact(p)] = @ + 1]
    <3>1. entries'[c] = entries[c] /\ p \notin Pending(c)
      BY <2>5 DEF Passes, Pending
    <3>2. CASE Contact(p) = c
      <4>1. rows'[c] = rows[c] + 1 /\ p \in Pending(c)'
        BY <2>5, <3>2 DEF Passes, Pending, Inv, MsgType
      <4>2. Pending(c)' = Pending(c) \cup {p}
        BY <2>2, <3>1, <4>1
      <4>3. Cardinality(Pending(c)') = Cardinality(Pending(c)) + 1
        BY <1>1, <3>1, <4>2, OneOfProcesses
      <4> QED
        BY <1>2, <3>1, <4>1, <4>3
    <3>3. CASE Contact(p) # c
      <4>1. rows'[c] = rows[c] /\ p \notin Pending(c)'
        BY <2>5, <3>3 DEF Passes, Pending, Inv, MsgType
      <4> QED
        BY <1>3, <2>2, <3>1, <4>1
    <3> QED
      BY <3>2, <3>3
  <2>6. CASE Queues(p)
    <3>1. rows'[c] = rows[c] /\ p \notin Pending(c)'
      BY <2>6 DEF Queues, Pending
    <3>2. CASE Contact(p) = c
      <4>1. entries'[c] = entries[c] + 1 /\ p \in Pending(c)
        BY <2>6, <3>2 DEF Queues, Pending, Inv, MsgType
      <4>2. Pending(c)' = Pending(c) \ {p}
        BY <2>2, <3>1
      <4>3. Cardinality(Pending(c)') = Cardinality(Pending(c)) - 1
        BY <1>1, <4>1, <4>2, OneOfProcesses
      <4> QED
        BY <1>2, <3>1, <4>1, <4>3
    <3>3. CASE Contact(p) # c
      <4>1. entries'[c] = entries[c]
        BY <2>6, <3>3 DEF Queues, Inv, MsgType
      <4> QED
        BY <1>3, <2>2, <3>1, <4>1
    <3> QED
      BY <3>2, <3>3
  <2> QED
    BY <2>1, <2>3, <2>4, <2>5, <2>6 DEF Effect
<1> QED
  BY <1>4, <1>5, OthersEffect DEF Next

\* No message of the campaign is in the queue twice, and none before its row
\* exists, however executions crash, fail, overlap and repeat (ExecuteCampaign
\* creates the row first, and never queues a message it did not create).
THEOREM QueuedOnceHolds == Spec => []EntriesHaveRows
<1>1. Inv /\ EntriesCount => EntriesHaveRows
  <2> SUFFICES ASSUME Inv, EntriesCount, NEW c \in Contacts
               PROVE  entries[c] <= rows[c]
    BY DEF EntriesHaveRows
  <2>1. Pending(c) \subseteq Processes
    BY DEF Pending
  <2>2. Cardinality(Pending(c)) \in Nat
    BY <2>1, SubsetOfProcesses
  <2> QED
    BY <2>2 DEF EntriesCount, Inv, MsgType
<1>2. Inv /\ EntriesCount /\ [Next]_vars => (Inv /\ EntriesCount)'
  BY InvStep, EntriesCountStep
<1>3. Init => Inv /\ EntriesCount
  BY InitInv, EntriesCountInit
<1> QED
  BY <1>1, <1>2, <1>3, PTL DEF Spec
-----------------------------------------------------------------------------
(* Suppression                                                               *)

ClearedInv ==
    /\ Contacts \ blocked \subseteq everClear
    /\ \A c \in Contacts : rows[c] > 0 => c \in everClear
    /\ \A p \in Processes : step[p] = "create" => Contact(p) \in everClear

\* An execution that goes on to create has found its contact on no list.
LEMMA ScreenedIsClear ==
    ASSUME Inv, ~May("screen"), NEW p \in Processes, step[p] = "screen", step'[p] = "create",
           Start(p) \/ Tick(p) \/ Crash(p) \/ ExecuteStep(p)
    PROVE  Contact(p) \in Contacts \ blocked
<1>1. Contact(p) \in Contacts
  BY ContactType DEF Visiting
<1>2. ~(Start(p) \/ Tick(p) \/ Crash(p))
  BY DEF Start, Tick, Crash, TakeUpIf, Locals, Goto, Inv, ExecType
<1>3. ScreensContact(p)
  BY <1>2 DEF ExecuteStep, ReadsTemplate, Fails, Runs, ResolvesContacts, ResolveFails, Turns,
     LooksForMessage, CreatesMessage, EnqueuesMessage, Completes, StoresStats
<1>4. ~IsBlocked(Contact(p))
  BY <1>3 DEF ScreensContact, Skips, Done, Goto, Inv, ExecType
<1> QED
  BY <1>1, <1>4 DEF IsBlocked

LEMMA ListsKeep ==
    ASSUME NEW p \in Processes,
           Start(p) \/ Tick(p) \/ Crash(p) \/ ExecuteStep(p)
    PROVE  UNCHANGED <<blocked, everClear>>
BY DEF Start, Tick, Crash, ExecuteStep, ReadsTemplate, Fails, Runs, ResolvesContacts,
   ResolveFails, Turns, LooksForMessage, ScreensContact, CreatesMessage, EnqueuesMessage,
   Completes, StoresStats, WriteStatus, listVars

LEMMA OthersClear ==
    ASSUME ListType, Contacts \ blocked \subseteq everClear,
           \/ \E r \in Requests : RequestStep(r)
           \/ \E s \in Senders : SenderReads(s) \/ SenderWrites(s)
           \/ ListsChange \/ ConsentChanges \/ TemplateChanges
           \/ UNCHANGED vars
    PROVE  everClear \subseteq everClear' /\ Contacts \ blocked' \subseteq everClear'
<1> USE DEF listVars
<1>1. ASSUME NEW r \in Requests, RequestStep(r)
      PROVE  UNCHANGED <<blocked, everClear>>
  BY <1>1 DEF RequestStep, RequestReads, UpdateWrites, RequestWrites, ExecuteResolves,
     ExecuteRefused, ExecuteRuns, ExecuteScreens, ExecutePublishes, ExecuteEnds, RequestDies
<1>2. ASSUME NEW s \in Senders, SenderReads(s) \/ SenderWrites(s)
      PROVE  UNCHANGED <<blocked, everClear>>
  BY <1>2 DEF SenderReads, SenderWrites
<1>3. CASE ConsentChanges \/ TemplateChanges \/ UNCHANGED vars
  BY <1>3 DEF ConsentChanges, TemplateChanges, vars
<1>4. CASE ListsChange
  BY <1>4 DEF ListsChange
<1> QED
  BY <1>1, <1>2, <1>3, <1>4

LEMMA ClearedStep ==
    ASSUME Inv, ClearedInv, [Next]_vars, ~May("screen")
    PROVE  ClearedInv'
<1>1. CASE \/ \E r \in Requests : RequestStep(r)
           \/ \E s \in Senders : SenderReads(s) \/ SenderWrites(s)
           \/ ListsChange \/ ConsentChanges \/ TemplateChanges
           \/ UNCHANGED vars
  <2>1. UNCHANGED <<rows, entries, step, plan, pos>>
    BY <1>1, OthersEffect
  <2>2. everClear \subseteq everClear' /\ Contacts \ blocked' \subseteq everClear'
    BY <1>1, OthersClear DEF Inv, ClearedInv
  <2> QED
    BY <2>1, <2>2 DEF ClearedInv, Contact
<1>2. ASSUME NEW p \in Processes, Start(p) \/ Tick(p) \/ Crash(p) \/ ExecuteStep(p)
      PROVE  ClearedInv'
  <2>1. UNCHANGED <<blocked, everClear>>
    BY <1>2, ListsKeep
  <2>2. Effect(p)
    BY <1>2, ExecutorEffect
  <2>3. ASSUME NEW c \in Contacts, rows'[c] > 0
        PROVE  c \in everClear
    <3>1. CASE rows'[c] = rows[c]
      BY <2>3, <3>1 DEF ClearedInv
    <3>2. CASE Passes(p, "create", "enqueue") /\ rows' = [rows EXCEPT ![Contact(p)] = @ + 1]
      BY <2>3, <3>2 DEF Passes, ClearedInv, Inv, MsgType
    <3> QED
      BY <2>2, <3>1, <3>2 DEF Effect, Still, Leaves, Passes, Queues
  <2>4. step'[p] = "create" => Contact(p)' \in everClear
    <3>1. CASE Still(p)
      BY <3>1 DEF Still, ClearedInv, Contact
    <3>2. CASE Passes(p, "screen", "create")
      BY <1>2, <3>2, ScreenedIsClear DEF Passes, ClearedInv
    <3> QED
      BY <2>2, <3>1, <3>2 DEF Effect, Leaves, Passes, Queues
  <2>5. \A q \in Processes \ {p} : step'[q] = "create" => Contact(q)' \in everClear
    BY <1>2, OthersKeep DEF ClearedInv
  <2>6. \A q \in Processes : step'[q] = "create" => Contact(q)' \in everClear'
    BY <2>1, <2>4, <2>5
  <2> QED
    BY <2>1, <2>3, <2>6 DEF ClearedInv
<1> QED
  BY <1>1, <1>2 DEF Next

\* While the suppression lists can be read, an execution creates messages only for
\* recipients that were off the lists at some time ("NEVER send to these").
THEOREM ClearedAreMessaged == ~May("screen") => (Spec => []OnlyClearedAreMessaged)
<1> SUFFICES ASSUME ~May("screen") PROVE Spec => []OnlyClearedAreMessaged
  OBVIOUS
<1>1. Init => Inv /\ ClearedInv
  BY InitInv DEF Init, ClearedInv
<1>2. Inv /\ ClearedInv /\ [Next]_vars => (Inv /\ ClearedInv)'
  BY InvStep, ClearedStep
<1>3. Inv /\ ClearedInv => OnlyClearedAreMessaged
  BY DEF ClearedInv, OnlyClearedAreMessaged
<1> QED
  BY <1>1, <1>2, <1>3, PTL DEF Spec
-----------------------------------------------------------------------------
(* Completion                                                                *)

Starting == {"template", "run", "resolve"}
Looping  == {"next", "complete"} \cup Visiting

\* Contact c of execution p has its message, or was counted as failed.
Settled(p, c) == rows[c] > 0 \/ c \in skipped[p]

\* What an execution knows before its loop, in it, and at its end.
Visited(p) ==
    /\ step[p] \in Starting => pos[p] = 1
    /\ step[p] \in Looping =>
           /\ plan[p] \in Seq(Contacts)
           /\ lost[p] \subseteq skipped[p]
           /\ \A i \in 1 .. Len(plan[p]) : i < pos[p] => Settled(p, plan[p][i])
           /\ step[p] = "enqueue" => rows[Contact(p)] > 0
           /\ step[p] = "complete" => pos[p] > Len(plan[p])

VisitedInv == \A p \in Processes : Visited(p)

\* A turn of the loop ends with its contact settled.
LEMMA AdvanceKeeps ==
    ASSUME Inv, NEW p \in Processes, step[p] \in Looping, Visited(p),
           UNCHANGED <<plan, lost>>, pos'[p] = pos[p] + 1, step'[p] = "next",
           skipped[p] \subseteq skipped'[p], UNCHANGED rows,
           pos[p] <= Len(plan[p]), Settled(p, Contact(p)) \/ Contact(p) \in skipped'[p]
    PROVE  Visited(p)'
<1>1. pos[p] \in Nat \ {0}
  BY DEF Inv, ExecType
<1>2. plan[p] \in Seq(Contacts) /\ lost[p] \subseteq skipped[p]
  BY DEF Visited
<1>3. ASSUME NEW i \in 1 .. Len(plan[p]), i < pos[p] + 1
      PROVE  rows[plan[p][i]] > 0 \/ plan[p][i] \in skipped'[p]
  <2>1. CASE i = pos[p]
    BY <2>1 DEF Settled, Contact
  <2>2. CASE i < pos[p]
    BY <2>2 DEF Visited, Settled
  <2> QED
    BY <1>1, <1>3, <2>1, <2>2
<1> QED
  BY <1>2, <1>3 DEF Visited, Settled, Starting

\* Nothing but where it stands in one turn of the loop.
LEMMA TurnKeeps ==
    ASSUME Inv, NEW p \in Processes, step[p] \in Looping, Visited(p),
           UNCHANGED <<plan, lost, pos, skipped>>, step'[p] \notin Starting,
           \A c \in Contacts : rows[c] > 0 => rows'[c] > 0,
           step'[p] = "enqueue" => rows'[Contact(p)] > 0,
           step'[p] = "complete" => pos[p] > Len(plan[p])
    PROVE  Visited(p)'
<1>1. plan[p] \in Seq(Contacts)
  BY DEF Visited
<1>2. \A i \in 1 .. Len(plan[p]) : plan[p][i] \in Contacts
  BY <1>1, LenProperties
<1>3. \A i \in 1 .. Len(plan[p]) : i < pos[p] => (Settled(p, plan[p][i]))'
  BY <1>2 DEF Visited, Settled
<1> QED
  BY <1>1, <1>3 DEF Visited, Contact

LEMMA SkipsVisited ==
    ASSUME Inv, NEW p \in Processes, step[p] \in Visiting, Visited(p), Skips(p),
           UNCHANGED <<plan, lost, rows>>
    PROVE  Visited(p)'
<1>1. /\ step'[p] = "next" /\ pos'[p] = pos[p] + 1
      /\ skipped'[p] = skipped[p] \cup {Contact(p)}
  BY DEF Skips, Done, Goto, Inv, ExecType
<1>2. step[p] \in Looping /\ pos[p] <= Len(plan[p])
  BY DEF Looping, Inv, ExecType
<1> QED
  BY <1>1, <1>2, AdvanceKeeps

LEMMA VisitedAction ==
    ASSUME Inv, NEW p \in Processes, Visited(p),
           Start(p) \/ Tick(p) \/ Crash(p) \/ ExecuteStep(p)
    PROVE  Visited(p)'
<1> USE DEF msgVars
<1>1. step \in [Processes -> ExecSteps] /\ pos \in [Processes -> Nat \ {0}]
  BY DEF Inv, ExecType
<1>2. ASSUME step'[p] \notin Looping \cup Starting
      PROVE  Visited(p)'
  BY <1>2 DEF Visited
<1>3. CASE \/ Start(p) \/ Tick(p) \/ Crash(p)
           \/ ReadsTemplate(p) \/ Fails(p) \/ Runs(p) \/ ResolveFails(p)
           \/ Completes(p) \/ StoresStats(p)
  <2>1. CASE UNCHANGED <<rows, step, plan, lost, pos, skipped>>
    BY <2>1 DEF Visited, Settled, Contact
  <2>2. CASE step'[p] \notin Looping \cup Starting
    BY <1>2, <2>2
  <2>3. CASE Completes(p)
    BY <1>1, <1>2, <2>3 DEF Completes, Goto, Looping, Starting, Visiting
  <2>4. CASE Start(p) \/ Tick(p)
    <3>1. \/ UNCHANGED <<rows, step, plan, lost, pos, skipped>>
          \/ Locals(p, "template", target)
      BY <2>4 DEF Start, Tick, TakeUpIf
    <3>2. CASE Locals(p, "template", target)
      BY <1>1, <3>2 DEF Locals, Goto, Looping, Visiting, Visited
    <3> QED
      BY <2>1, <3>1, <3>2
  <2>5. CASE Crash(p) \/ Fails(p) \/ StoresStats(p)
    BY <1>1, <2>2, <2>5
       DEF Crash, Fails, StoresStats, Locals, Goto, Looping, Starting, Visiting
  <2>6. CASE ReadsTemplate(p) \/ Runs(p) \/ ResolveFails(p)
    BY <1>1, <2>6
       DEF ReadsTemplate, Runs, ResolveFails, Goto, Looping, Starting, Visiting, Visited
  <2> QED
    BY <1>3, <2>3, <2>4, <2>5, <2>6
<1>4. CASE ResolvesContacts(p)
  <2>1. /\ plan[p] \in Targets /\ step[p] = "resolve"
        /\ pos' = pos /\ pos[p] = 1
    BY <1>4 DEF ResolvesContacts, Visited, Starting, Inv, ExecType
  <2>2. PICK gone \in Gone(plan[p]) :
           /\ plan' = [plan EXCEPT ![p] = Resolve(plan[p])]
           /\ lost' = [lost EXCEPT ![p] = gone]
           /\ skipped' = [skipped EXCEPT ![p] = gone]
    BY <1>4 DEF ResolvesContacts
  <2>3. step'[p] = "next" /\ plan'[p] = Resolve(plan[p]) /\ lost'[p] = gone /\ skipped'[p] = gone
    BY <1>1, <1>4, <2>2 DEF ResolvesContacts, Goto, Inv, ExecType
  <2>4. plan'[p] \in Seq(Contacts)
    BY <2>1, <2>3, ResolveType
  <2>5. step'[p] \notin Starting /\ step'[p] \notin {"enqueue", "complete"}
    BY <2>3 DEF Starting
  <2>6. \A i \in 1 .. Len(plan'[p]) : ~(i < pos'[p])
    BY <2>1
  <2> QED
    BY <2>3, <2>4, <2>5, <2>6 DEF Visited
<1>5. CASE Turns(p)
  <2>1. /\ step[p] = "next" /\ step[p] \in Looping
        /\ UNCHANGED <<plan, lost, skipped, rows>>
    BY <1>5 DEF Turns, Looping
  <2>2. CASE ~HasMore(p)
    <3>1. step'[p] = "complete" /\ pos' = pos /\ pos[p] > Len(plan[p])
      <4>1. plan[p] \in Seq(Contacts)
        BY <2>1 DEF Visited
      <4>2. Len(plan[p]) \in Nat
        BY <4>1, LenProperties
      <4> QED
        BY <1>1, <1>5, <2>2, <4>2 DEF Turns, Goto, HasMore
    <3> QED
      BY <2>1, <3>1, TurnKeeps DEF Starting
  <2>3. CASE HasMore(p) /\ Contact(p) \in lost[p]
    <3>1. step'[p] = "next" /\ pos'[p] = pos[p] + 1 /\ pos[p] <= Len(plan[p])
      BY <1>1, <1>5, <2>1, <2>3 DEF Turns, HasMore
    <3>2. Contact(p) \in skipped'[p]
      BY <2>1, <2>3 DEF Visited
    <3> QED
      BY <2>1, <3>1, <3>2, AdvanceKeeps
  <2>4. CASE HasMore(p) /\ Contact(p) \notin lost[p]
    <3>1. step'[p] = "exists" /\ pos' = pos
      BY <1>1, <1>5, <2>4 DEF Turns, Goto
    <3> QED
      BY <2>1, <3>1, TurnKeeps DEF Starting
  <2> QED
    BY <2>2, <2>3, <2>4
<1>6. CASE LooksForMessage(p)
  <2>1. /\ step[p] \in Visiting /\ step[p] \in Looping
        /\ UNCHANGED <<plan, lost, rows>> /\ pos[p] <= Len(plan[p])
    BY <1>6 DEF LooksForMessage, Looping, Visiting, Inv, ExecType
  <2>2. CASE Skips(p)
    BY <2>1, <2>2, SkipsVisited
  <2>3. CASE Exists(Contact(p)) /\ Done(p) /\ UNCHANGED skipped
    <3>1. step'[p] = "next" /\ pos'[p] = pos[p] + 1
      BY <1>1, <2>3 DEF Done, Goto
    <3>2. Settled(p, Contact(p))
      BY <2>3 DEF Exists, Settled
    <3> QED
      BY <2>1, <2>3, <3>1, <3>2, AdvanceKeeps
  <2>4. CASE Goto(p, "screen") /\ UNCHANGED <<pos, skipped>>
    <3>1. step'[p] = "screen"
      BY <1>1, <2>4 DEF Goto
    <3> QED
      BY <2>1, <2>4, <3>1, TurnKeeps DEF Starting
  <2> QED
    BY <1>6, <2>2, <2>3, <2>4 DEF LooksForMessage
<1>7. CASE ScreensContact(p)
  <2>1. /\ step[p] \in Visiting /\ step[p] \in Looping
        /\ UNCHANGED <<plan, lost, rows>>
    BY <1>7 DEF ScreensContact, Looping, Visiting
  <2>2. CASE Skips(p)
    BY <2>1, <2>2, SkipsVisited
  <2>3. CASE Goto(p, "create") /\ UNCHANGED <<pos, skipped>>
    <3>1. step'[p] = "create"
      BY <1>1, <2>3 DEF Goto
    <3> QED
      BY <2>1, <2>3, <3>1, TurnKeeps DEF Starting
  <2> QED
    BY <1>7, <2>2, <2>3 DEF ScreensContact
<1>8. CASE CreatesMessage(p)
  <2>1. /\ step[p] \in Visiting /\ step[p] \in Looping /\ UNCHANGED <<plan, lost>>
    BY <1>8 DEF CreatesMessage, Looping, Visiting
  <2>2. CASE /\ rows' = [rows EXCEPT ![Contact(p)] = @ + 1]
             /\ Goto(p, "enqueue") /\ UNCHANGED <<pos, skipped>>
    <3>1. step'[p] = "enqueue"
      BY <1>1, <2>2 DEF Goto
    <3>2. Contact(p) \in Contacts
      BY <2>1, ContactType
    <3>3. rows'[Contact(p)] > 0 /\ \A c \in Contacts : rows[c] > 0 => rows'[c] > 0
      BY <2>2, <3>2 DEF Inv, MsgType
    <3> QED
      BY <2>1, <2>2, <3>1, <3>3, TurnKeeps DEF Starting
  <2>3. CASE Skips(p) /\ UNCHANGED rows
    BY <2>1, <2>3, SkipsVisited
  <2> QED
    BY <1>8, <2>2, <2>3 DEF CreatesMessage, CreateFails
<1>9. CASE EnqueuesMessage(p)
  <2>1. /\ step[p] = "enqueue" /\ step[p] \in Looping
        /\ UNCHANGED <<plan, lost, skipped, rows>> /\ pos[p] <= Len(plan[p])
    BY <1>9 DEF EnqueuesMessage, Looping, Visiting, Inv, ExecType
  <2>2. CASE Done(p)
    <3>1. step'[p] = "next" /\ pos'[p] = pos[p] + 1
      BY <1>1, <2>2 DEF Done, Goto
    <3>2. Settled(p, Contact(p))
      BY <2>1 DEF Visited, Settled
    <3> QED
      BY <2>1, <3>1, <3>2, AdvanceKeeps
  <2>3. CASE Goto(p, "fail")
    BY <1>1, <1>2, <2>3 DEF Goto, Looping, Starting, Visiting
  <2> QED
    BY <1>9, <2>2, <2>3 DEF EnqueuesMessage
<1> QED
  BY <1>3, <1>4, <1>5, <1>6, <1>7, <1>8, <1>9 DEF ExecuteStep

LEMMA VisitedStep ==
    ASSUME Inv, VisitedInv, [Next]_vars
    PROVE  VisitedInv'
<1>1. CASE \/ \E r \in Requests : RequestStep(r)
           \/ \E s \in Senders : SenderReads(s) \/ SenderWrites(s)
           \/ ListsChange \/ ConsentChanges \/ TemplateChanges
           \/ UNCHANGED vars
  <2>1. UNCHANGED <<rows, step, plan, pos, lost, skipped>>
    BY <1>1, OthersEffect, OthersLeaveLocals DEF execVars
  <2> QED
    BY <2>1 DEF VisitedInv, Visited, Settled, Contact
<1>2. ASSUME NEW p \in Processes, Start(p) \/ Tick(p) \/ Crash(p) \/ ExecuteStep(p)
      PROVE  VisitedInv'
  <2>1. Visited(p)'
    BY <1>2, VisitedAction DEF VisitedInv
  <2>2. \A c \in Contacts : rows[c] > 0 => rows'[c] > 0
    BY <1>2, ExecutorEffect DEF Effect, Still, Leaves, Passes, Queues, Inv, MsgType
  <2>3. ASSUME NEW q \in Processes \ {p}
        PROVE  Visited(q)'
    <3>1. /\ step'[q] = step[q] /\ plan'[q] = plan[q] /\ pos'[q] = pos[q]
          /\ lost'[q] = lost[q] /\ skipped'[q] = skipped[q]
      BY <1>2, LocalsAreOwn
    <3>2. CASE step[q] \notin Looping
      BY <3>1, <3>2 DEF VisitedInv, Visited
    <3>3. CASE step[q] \in Looping
      <4>1. plan[q] \in Seq(Contacts) /\ Visited(q)
        BY <3>3 DEF VisitedInv, Visited
      <4>2. \A i \in 1 .. Len(plan[q]) : plan[q][i] \in Contacts
        BY <4>1, LenProperties
      <4>3. step[q] = "enqueue" => Contact(q) \in Contacts
        BY ContactType DEF Visiting
      <4>4. \A i \in 1 .. Len(plan[q]) :
               i < pos[q] => rows'[plan[q][i]] > 0 \/ plan[q][i] \in skipped[q]
        BY <2>2, <3>3, <4>1, <4>2 DEF Visited, Settled
      <4>5. step[q] = "enqueue" => rows'[Contact(q)] > 0
        BY <2>2, <3>3, <4>1, <4>3 DEF Visited
      <4> QED
        BY <3>1, <3>3, <4>1, <4>4, <4>5 DEF Visited, Settled, Contact
    <3> QED
      BY <3>2, <3>3
  <2> QED
    BY <2>1, <2>3 DEF VisitedInv
<1> QED
  BY <1>1, <1>2 DEF Next

\* An execution that reports "completed" has come to every contact of the campaign,
\* whatever failed on the way (the loop of ExecuteCampaign).
THEOREM CompletedVisitedAll == Spec => []CompletedWasVisited
<1>1. Init => Inv /\ VisitedInv
  BY InitInv DEF Init, VisitedInv, Visited, Starting, Looping, Visiting
<1>2. Inv /\ VisitedInv /\ [Next]_vars => (Inv /\ VisitedInv)'
  BY InvStep, VisitedStep
<1>3. Inv /\ VisitedInv => CompletedWasVisited
  <2> SUFFICES ASSUME Inv, VisitedInv, NEW p \in Processes, step[p] = "complete",
                      NEW c \in Range(plan[p])
               PROVE  rows[c] > 0 \/ c \in skipped[p]
    BY DEF CompletedWasVisited
  <2>1. Visited(p) /\ step[p] \in Looping
    BY DEF VisitedInv, Looping
  <2>2. plan[p] \in Seq(Contacts) /\ pos[p] > Len(plan[p]) /\ pos[p] \in Nat
    BY <2>1 DEF Visited, Inv, ExecType
  <2>3. PICK i \in 1 .. Len(plan[p]) : c = plan[p][i]
    BY <2>2, LenProperties DEF Range
  <2> QED
    BY <2>1, <2>2, <2>3 DEF Visited, Settled
<1> QED
  BY <1>1, <1>2, <1>3, PTL DEF Spec
-----------------------------------------------------------------------------
(* Whom a campaign can reach                                                 *)

\* Those that a list names, and of the segment those beyond the first PerPage.
Named(c) ==
    \/ \E list \in Lists : c \in Range(list)
    \/ \E i \in DOMAIN Members : PerPage < i /\ i <= 2 * PerPage /\ c = Members[i]

LEMMA ResolvedAreNamed ==
    ASSUME NEW t \in Targets, NEW c \in Range(Resolve(t))
    PROVE  Named(c)
<1> DEFINE m == 1 * PerPage + 1
           n == Min({Len(Members), (1 + 1) * PerPage})
<1>1. CASE t \in Lists
  BY <1>1, CampaignAssumption DEF Resolve, Named
<1>2. CASE t = Segment
  <2>1. Len(Members) \in Nat /\ PerPage \in Nat \ {0}
    BY CampaignAssumption, LenProperties
  <2>2. m = PerPage + 1 /\ n \in Int /\ n <= Len(Members) /\ n <= 2 * PerPage
    <3>1. PICK len, end : len = Len(Members) /\ end = (1 + 1) * PerPage
      OBVIOUS
    <3>2. len \in Int /\ end = 2 * PerPage /\ end \in Int /\ m = PerPage + 1
      BY <2>1, <3>1
    <3>3. Min({len, end}) \in {len, end} /\ Min({len, end}) <= len /\ Min({len, end}) <= end
      BY <3>2, MinOfTwo
    <3> QED
      BY <3>1, <3>2, <3>3
  <2>3. PICK k \in DOMAIN SubSeq(Members, m, n) : c = SubSeq(Members, m, n)[k]
    BY <1>2 DEF Resolve, Page, Range
  <2>4. /\ k \in 1 .. (IF m <= n THEN n - m + 1 ELSE 0)
        /\ SubSeq(Members, m, n)[k] = Members[m + k - 1]
    <3>1. \A i \in m .. n : Members[i] \in Contacts
      BY <2>1, <2>2, CampaignAssumption, LenProperties
    <3> HIDE DEF m, n
    <3> QED
      BY <2>1, <2>2, <2>3, <3>1, SubSeqProperties
  <2>5. PICK i \in Int : i = m + k - 1 /\ PerPage < i /\ i <= 2 * PerPage /\ i <= Len(Members)
    <3> HIDE DEF n
    <3> QED
      BY <2>1, <2>2, <2>4
  <2>6. i \in DOMAIN Members
    <3>1. DOMAIN Members = 1 .. Len(Members)
      BY CampaignAssumption, LenProperties
    <3> QED
      BY <2>1, <2>5, <3>1
  <2>7. c = Members[i]
    BY <2>3, <2>4, <2>5
  <2> QED
    BY <2>5, <2>6, <2>7 DEF Named
<1> QED
  BY <1>1, <1>2 DEF Targets

InLoop == {"next"} \cup Visiting

\* What executions and requests work through was named, like what they made.
NamedInv ==
    /\ \A c \in Contacts : rows[c] > 0 => Named(c)
    /\ \A c \in ghosts : Named(c)
    /\ \A p \in Processes : step[p] \in InLoop => \A c \in Range(plan[p]) : Named(c)
    /\ \A r \in Requests : \A c \in reqTodo[r] : Named(c)

\* The list of an execution in its loop is the one it came with, or it is new.
LEMMA PlansAreResolved ==
    ASSUME Inv, NEW p \in Processes, step'[p] \in InLoop,
           Start(p) \/ Tick(p) \/ Crash(p) \/ ExecuteStep(p)
    PROVE  \/ step[p] \in InLoop /\ plan'[p] = plan[p]
           \/ \E t \in Targets : plan'[p] = Resolve(t)
<1> USE DEF Inv, ExecType, InLoop, Visiting, Goto
<1>1. CASE Start(p) \/ Tick(p) \/ Crash(p)
  BY <1>1 DEF Start, Tick, Crash, TakeUpIf, Locals
<1>2. CASE ReadsTemplate(p) \/ ResolveFails(p) \/ Turns(p)
  BY <1>2 DEF ReadsTemplate, ResolveFails, Turns
<1>3. CASE Fails(p) \/ Runs(p) \/ Completes(p) \/ StoresStats(p)
  BY <1>3 DEF Fails, Runs, Completes, StoresStats, Locals
<1>4. CASE ResolvesContacts(p)
  BY <1>4 DEF ResolvesContacts
<1>5. CASE LooksForMessage(p) \/ ScreensContact(p)
  BY <1>5 DEF LooksForMessage, ScreensContact
<1>6. CASE CreatesMessage(p) \/ EnqueuesMessage(p)
  BY <1>6 DEF CreatesMessage, EnqueuesMessage
<1> QED
  BY <1>1, <1>2, <1>3, <1>4, <1>5, <1>6 DEF ExecuteStep

LEMMA ExecutorsLeaveRequests ==
    ASSUME NEW p \in Processes,
           Start(p) \/ Tick(p) \/ Crash(p) \/ ExecuteStep(p)
    PROVE  UNCHANGED <<ghosts, reqTodo>>
BY DEF Start, Tick, Crash, ExecuteStep, ReadsTemplate, Fails, Runs, ResolvesContacts,
   ResolveFails, Turns, LooksForMessage, ScreensContact, CreatesMessage, EnqueuesMessage,
   Completes, StoresStats, WriteStatus, msgVars, reqVars

LEMMA RequestKeepsNamed ==
    ASSUME Inv, NamedInv, NEW r \in Requests, RequestStep(r)
    PROVE  /\ \A c \in ghosts' : Named(c)
           /\ \A q \in Requests : \A c \in reqTodo'[q] : Named(c)
<1> USE DEF NamedInv, Inv, ReqType, msgVars
<1>1. CASE ExecuteResolves(r)
  <2>1. \A c \in Range(Resolve(reqTarget[r])) : Named(c)
    BY ResolvedAreNamed
  <2>2. PICK T : reqTodo' = [reqTodo EXCEPT ![r] = T] /\ T \subseteq Range(Resolve(reqTarget[r]))
    BY <1>1 DEF ExecuteResolves
  <2>3. ghosts' = ghosts
    BY <1>1 DEF ExecuteResolves
  <2> QED
    BY <2>1, <2>2, <2>3
<1>2. CASE ExecuteScreens(r)
  BY <1>2 DEF ExecuteScreens
<1>3. CASE ExecutePublishes(r)
  BY <1>3 DEF ExecutePublishes
<1>4. ASSUME UNCHANGED ghosts, UNCHANGED reqTodo \/ Return(r)
      PROVE  /\ \A c \in ghosts' : Named(c)
             /\ \A q \in Requests : \A c \in reqTodo'[q] : Named(c)
  BY <1>4 DEF Return
<1>5. CASE ExecuteRuns(r)
  BY <1>4, <1>5 DEF ExecuteRuns
<1>6. CASE \E op \in {"execute", "update", "delete", "pause", "resume"} : RequestReads(r, op)
  BY <1>4, <1>6 DEF RequestReads
<1>7. CASE UpdateWrites(r) \/ RequestWrites(r) \/ ExecuteRefused(r) \/ ExecuteEnds(r) \/ RequestDies(r)
  BY <1>4, <1>7 DEF UpdateWrites, RequestWrites, ExecuteRefused, ExecuteEnds, RequestDies
<1> QED
  BY <1>1, <1>2, <1>3, <1>5, <1>6, <1>7 DEF RequestStep

LEMMA NamedStep ==
    ASSUME Inv, NamedInv, [Next]_vars
    PROVE  NamedInv'
<1>1. ASSUME UNCHANGED <<rows, entries, step, plan, pos>>,
             \A c \in ghosts' : Named(c),
             \A q \in Requests : \A c \in reqTodo'[q] : Named(c)
      PROVE  NamedInv'
  BY <1>1 DEF NamedInv
<1>2. ASSUME NEW r \in Requests, RequestStep(r)
      PROVE  NamedInv'
  BY <1>1, <1>2, RequestKeepsNamed, OthersEffect
<1>3. CASE \/ \E s \in Senders : SenderReads(s) \/ SenderWrites(s)
           \/ ListsChange \/ ConsentChanges \/ TemplateChanges
           \/ UNCHANGED vars
  <2>1. UNCHANGED <<ghosts, reqTodo>>
    BY <1>3 DEF SenderReads, SenderWrites, ListsChange, ConsentChanges, TemplateChanges,
       vars, msgVars, reqVars
  <2> QED
    BY <1>1, <1>3, <2>1, OthersEffect DEF NamedInv
<1>4. ASSUME NEW p \in Processes, Start(p) \/ Tick(p) \/ Crash(p) \/ ExecuteStep(p)
      PROVE  NamedInv'
  <2>1. UNCHANGED <<ghosts, reqTodo>>
    BY <1>4, ExecutorsLeaveRequests
  <2>2. ASSUME NEW c \in Contacts, rows'[c] > 0
        PROVE  Named(c)
    <3>1. CASE rows'[c] = rows[c]
      BY <2>2, <3>1 DEF NamedInv
    <3>2. CASE /\ Passes(p, "create", "enqueue")
               /\ rows' = [rows EXCEPT ![Contact(p)] = @ + 1]
               /\ rows'[c] # rows[c]
      <4>1. step[p] \in Visiting /\ c = Contact(p)
        BY <2>2, <3>2 DEF Passes, Visiting, Inv, MsgType
      <4>2. c \in Range(plan[p])
        BY <4>1, LenProperties DEF Inv, ExecType, Contact, Range
      <4> QED
        BY <4>1, <4>2 DEF NamedInv, InLoop
    <3> QED
      BY <1>4, <3>1, <3>2, ExecutorEffect DEF Effect, Still, Leaves, Passes, Queues
  <2>3. ASSUME NEW q \in Processes, step'[q] \in InLoop
        PROVE  \A c \in Range(plan'[q]) : Named(c)
    <3>1. CASE q = p
      BY <1>4, <2>3, <3>1, PlansAreResolved, ResolvedAreNamed DEF NamedInv
    <3>2. CASE q # p
      BY <1>4, <2>3, <3>2, LocalsAreOwn DEF NamedInv
    <3> QED
      BY <3>1, <3>2
  <2> QED
    BY <2>1, <2>2, <2>3 DEF NamedInv
<1> QED
  BY <1>2, <1>3, <1>4 DEF Next

\* Nobody among the first PerPage contacts of a segment is messaged or queued for being
\* in it: the executor and Execute ask for page 1, and the query counts from 0
\* (ResolveContacts; ExecuteCampaign, Execute).
OnlyNamedAreReached ==
    \A c \in Contacts : rows[c] > 0 \/ entries[c] > 0 \/ c \in ghosts => Named(c)

THEOREM FirstPageIsSkipped == Spec => []OnlyNamedAreReached
<1>1. Init => Inv /\ NamedInv
  BY InitInv DEF Init, NamedInv, InLoop, Visiting
<1>2. Inv /\ NamedInv /\ [Next]_vars => (Inv /\ NamedInv)'
  BY InvStep, NamedStep
<1>3. Inv /\ NamedInv /\ EntriesHaveRows => OnlyNamedAreReached
  BY DEF Inv, MsgType, NamedInv, EntriesHaveRows, OnlyNamedAreReached
<1> QED
  BY <1>1, <1>2, <1>3, QueuedOnceHolds, PTL DEF Spec
=============================================================================
