----------------------------- MODULE Templates -----------------------------
(***************************************************************************)
(* The WhatsApp templates of one tenant (core/services/                    *)
(* template_service.go): drafts are submitted to Meta, which reviews them, *)
(* and a request asks Meta for the verdict.  Every request reads the row,  *)
(* perhaps talks to Meta, and writes what it computed from that read.      *)
(* Send takes a template by name if its row says approved.                 *)
(*                                                                         *)
(* Meta names a submission by a number, may change its mind about it, and  *)
(* may accept one name twice.  A statement that fails, a refusal of Meta   *)
(* (or of the foreign keys that keep a used template from being deleted)   *)
(* and a handler that dies are the same here: the request is over.         *)
(***************************************************************************)
EXTENDS Naturals, FiniteSets

CONSTANTS
    Ids,                        \* rows, never used again
    Keys,                       \* names with their languages
    Contents,                   \* category and components
    Requests,                   \* handlers at work
    MaxRequests,                \* bound: requests in all
    MaxSubmissions,             \* bound: templates Meta is given
    MaxVerdicts,                \* bound: verdicts of Meta
    NoRow, Gone                 \* not created yet, deleted

ASSUME TemplatesAssumption ==
    MaxRequests \in Nat /\ MaxSubmissions \in Nat /\ MaxVerdicts \in Nat

VARIABLES
    template,                   \* the table
    meta,                       \* what Meta was given, and what it says of it
    queued,                     \* the keys messages were queued with
    work,                       \* work[p]: what request p is doing
    begun, verdicts,            \* bounds
    muddled, reworked   \* history: rows written from a stale read, edited when rejected

history == <<muddled, reworked>>
vars == <<template, meta, queued, work, begun, verdicts, history>>

NoId == 0
MetaIds == 1 .. MaxSubmissions
TemplateStatus == {"draft", "pending", "approved", "rejected"}
Template == [key : Keys, content : Contents, status : TemplateStatus,
             provider : MetaIds \cup {NoId}]
ASSUME RowsAssumption == {NoRow, Gone} \cap Template = {} /\ NoRow # Gone
Verdicts == {"PENDING", "APPROVED", "REJECTED", "PAUSED"}
Submission == [key : Keys, content : Contents, status : Verdicts, approved : BOOLEAN]
Idle == [step |-> "idle"]
\* copy: the row as it was read, then as it is to be written.  stale: somebody
\* wrote the row since.
Request ==
    [step : {"update", "submit", "submitted", "ask", "sync"}, id : Ids, copy : Template,
     stale : BOOLEAN]
Creation == [step : {"create"}, key : Keys, content : Contents]

TypeOK ==
    /\ template \in [Ids -> Template \cup {NoRow, Gone}]
    /\ Cardinality(DOMAIN meta) <= MaxSubmissions
    /\ meta \in [DOMAIN meta -> Submission] /\ DOMAIN meta \subseteq MetaIds
    /\ queued \subseteq Keys
    /\ work \in [Requests -> Request \cup Creation \cup {Idle}]
    /\ begun \in 0 .. MaxRequests /\ verdicts \in 0 .. MaxVerdicts
    /\ muddled \subseteq Ids /\ reworked \subseteq Ids

Init ==
    /\ template = [i \in Ids |-> NoRow]
    /\ meta = [n \in {} |-> NoRow]
    /\ queued = {}
    /\ work = [p \in Requests |-> Idle]
    /\ begun = 0 /\ verdicts = 0
    /\ muddled = {} /\ reworked = {}

Is(p, s) == work[p].step = s
Ends(p)  == work' = [work EXCEPT ![p] = Idle]
WorksOn(p, i) == ~Is(p, "idle") /\ ~Is(p, "create") /\ work[p].id = i
-----------------------------------------------------------------------------
(* The table, one statement each. *)

GetTemplateByID(i)   == template[i] \notin {NoRow, Gone}
GetTemplateByName(k) == {i \in Ids : GetTemplateByID(i) /\ template[i].key = k}

\* name and language are unique
CreateTemplate(i, t) ==
    /\ template[i] = NoRow /\ GetTemplateByName(t.key) = {}
    /\ template' = [template EXCEPT ![i] = t]
DeleteTemplate(i) == template' = [template EXCEPT ![i] = Gone]

\* A statement that writes the content writes the status that was read with it;
\* an id of Meta's is never cleared.
UpdateTemplate(i, t) ==
    /\ GetTemplateByID(i)
    /\ template' = [template EXCEPT ![i] = [t EXCEPT
           !.provider = IF t.provider = NoId THEN template[i].provider ELSE @]]
UpdateTemplateStatus_Slip(i, t) == \* a verdict is written without the id it is of
    template' = IF GetTemplateByID(i)
                THEN [template EXCEPT ![i].status = t.status,
                                      ![i].provider = IF t.status = "pending" THEN t.provider
                                                        ELSE @]
                ELSE template
UpdateTemplateStatus(i, t) ==
    template' = IF GetTemplateByID(i)
                THEN [template EXCEPT ![i].status = t.status, ![i].provider = t.provider]
                ELSE template

\* p, which ends, wrote row i: what the others read of it is stale, and so may be
\* what p wrote.
Wrote(p, i) ==
    /\ work' = [q \in Requests |-> CASE q = p -> Idle
                                     [] q # p /\ WorksOn(q, i) -> [work[q] EXCEPT !.stale = TRUE]
                                     [] OTHER -> work[q]]
    /\ muddled' = IF work[p].stale THEN muddled \cup {i} ELSE muddled
-----------------------------------------------------------------------------
(* Meta *)

CreateMessageTemplate(n, t) ==
    meta' = [m \in DOMAIN meta \cup {n} |->
                IF m = n THEN [key |-> t.key, content |-> t.content,
                               status |-> "PENDING", approved |-> FALSE]
                ELSE meta[m]]

\* Meta's verdict; a later one may be another.
Reviews(n, v) ==
    /\ n \in DOMAIN meta /\ v # meta[n].status /\ verdicts < MaxVerdicts
    /\ meta' = [meta EXCEPT ![n].status = v, ![n].approved = @ \/ v = "APPROVED"]
    /\ verdicts' = verdicts + 1
    /\ UNCHANGED <<template, queued, work, begun, history>>

\* Whatever else Meta says counts as pending.
mapTemplateStatus(v) ==
    CASE v = "APPROVED" -> "approved" [] v = "REJECTED" -> "rejected" [] OTHER -> "pending"
-----------------------------------------------------------------------------
(* Requests begin with a read, and end there when it forbids the rest. *)

Begins(p, w) ==
    /\ Is(p, "idle") /\ begun < MaxRequests
    /\ begun' = begun + 1
    /\ work' = [work EXCEPT ![p] = w]
    /\ UNCHANGED <<template, meta, queued, verdicts, history>>
Reads(p, i, s, c) ==
    Begins(p, [step |-> s, id |-> i, copy |-> [template[i] EXCEPT !.content = c],
               stale |-> FALSE])

Create(p, k, c) ==
    /\ GetTemplateByName(k) = {}
    /\ Begins(p, [step |-> "create", key |-> k, content |-> c])
MayEdit_Slip(t) == t.status # "pending" \* ... and so an approved one
MayEdit(t)      == t.status \in {"draft", "rejected"}
Update(p, i, c) == GetTemplateByID(i) /\ MayEdit(template[i]) /\ Reads(p, i, "update", c)
SubmitForApproval(p, i) ==
    /\ GetTemplateByID(i) /\ template[i].status = "draft"
    /\ Reads(p, i, "submit", template[i].content)
SyncStatus(p, i) ==
    /\ GetTemplateByID(i) /\ template[i].provider # NoId
    /\ Reads(p, i, "ask", template[i].content)
-----------------------------------------------------------------------------
(* ... and go on. *)

Creates(p, i) ==
    /\ Is(p, "create")
    /\ CreateTemplate(i, [key |-> work[p].key, content |-> work[p].content,
                          status |-> "draft", provider |-> NoId])
    /\ Ends(p)
    /\ UNCHANGED <<meta, queued, begun, verdicts, history>>

Updates(p) ==
    LET i == work[p].id IN
    /\ Is(p, "update")
    /\ UpdateTemplate(i, work[p].copy)
    /\ Wrote(p, i)
    /\ reworked' = IF work[p].copy.status = "rejected" THEN reworked \cup {i} ELSE reworked
    /\ UNCHANGED <<meta, queued, begun, verdicts>>

Submits(p, n) ==
    /\ Is(p, "submit") /\ n = Cardinality(DOMAIN meta) + 1 /\ n <= MaxSubmissions
    /\ CreateMessageTemplate(n, work[p].copy)
    /\ work' = [work EXCEPT ![p].step = "submitted",
                            ![p].copy.status = "pending", ![p].copy.provider = n]
    /\ UNCHANGED <<template, queued, begun, verdicts, history>>

\* A verdict that the copy has already is not written.
GetsStatus(p) ==
    LET s == mapTemplateStatus(meta[work[p].copy.provider].status) IN
    /\ Is(p, "ask")
    /\ IF s = work[p].copy.status THEN Ends(p)
       ELSE work' = [work EXCEPT ![p].step = "sync", ![p].copy.status = s]
    /\ UNCHANGED <<template, meta, queued, begun, verdicts, history>>

WritesStatus(p) ==
    LET i == work[p].id IN
    /\ Is(p, "submitted") \/ Is(p, "sync")
    /\ UpdateTemplateStatus(i, work[p].copy)
    /\ Wrote(p, i)
    /\ UNCHANGED <<meta, queued, begun, verdicts, reworked>>

Fails(p) ==
    /\ ~Is(p, "idle") /\ Ends(p)
    /\ UNCHANGED <<template, meta, queued, begun, verdicts, history>>

\* The row goes, used or not, as far as Delete looks.
Delete(i) ==
    /\ GetTemplateByID(i)
    /\ DeleteTemplate(i)
    /\ UNCHANGED <<meta, queued, work, begun, verdicts, history>>

IsApproved(t)      == t.status = "approved"
Sends(k) ==
    /\ \E i \in GetTemplateByName(k) : IsApproved(template[i])
    /\ queued' = queued \cup {k}
    /\ UNCHANGED <<template, meta, work, begun, verdicts, history>>
-----------------------------------------------------------------------------
Next ==
    \/ \E n \in DOMAIN meta, v \in Verdicts : Reviews(n, v)
    \/ \E p \in Requests :
        \/ \E k \in Keys, c \in Contents : Create(p, k, c)
        \/ \E i \in Ids :
            \/ \E c \in Contents : Update(p, i, c)
            \/ SubmitForApproval(p, i) \/ SyncStatus(p, i) \/ Creates(p, i)
        \/ \E n \in MetaIds : Submits(p, n)
        \/ Updates(p) \/ GetsStatus(p) \/ WritesStatus(p) \/ Fails(p)
    \/ \E i \in Ids : Delete(i)
    \/ \E k \in Keys : Sends(k)

Spec == Init /\ [][Next]_vars
-----------------------------------------------------------------------------
Rows == {i \in Ids : GetTemplateByID(i)}

\* A row that says approved names a submission, of its own name, that Meta did
\* approve, whatever the requests at work read and when: status and id are
\* written together (sql/queries/templates.sql, UpdateTemplateStatus).
ApprovedByMeta ==
    \A i \in Rows : template[i].status = "approved" =>
        /\ template[i].provider \in DOMAIN meta
        /\ meta[template[i].provider].approved
        /\ meta[template[i].provider].key = template[i].key

\* What Meta reviews is what the row holds: a template that is pending or
\* approved has the content it was submitted with, unless two requests wrote it
\* at once or it was edited after a rejection (template_service.go:73).
ReviewedIsWhatItHolds ==
    \A i \in Rows \ (muddled \cup reworked) :
        template[i].status \in {"pending", "approved"} =>
            template[i].content = meta[template[i].provider].content

\* A message is only queued with a name that Meta approved a template of
\* (message_service.go:204).
SentNamesWereApproved ==
    \A k \in queued : \E n \in DOMAIN meta : meta[n].key = k /\ meta[n].approved
=============================================================================
