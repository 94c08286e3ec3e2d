--------------------------- MODULE TemplatesProofs ---------------------------
(***************************************************************************)
(* That a template which says approved was approved by Meta, and that what *)
(* Meta reviews is what the row holds, for any number of templates,        *)
(* requests, submissions and verdicts, and type correctness (Templates).   *)
(*                                                                         *)
(* A request writes what it computed from the row it read, so the          *)
(* invariant says of every copy at work what it says of the rows: the id   *)
(* it holds is a submission of its own name, and if it says approved Meta  *)
(* has approved that one, which stays so.                                  *)
(***************************************************************************)
EXTENDS Templates, FiniteSetTheorems, TLAPS

TablesType ==
    /\ template \in [Ids -> Template \cup {NoRow, Gone}]
    /\ queued \subseteq Keys
    /\ begun \in 0 .. MaxRequests /\ verdicts \in 0 .. MaxVerdicts
    /\ muddled \subseteq Ids /\ reworked \subseteq Ids
MetaType ==
    /\ meta \in [DOMAIN meta -> Submission] /\ DOMAIN meta \subseteq MetaIds
    /\ Cardinality(DOMAIN meta) <= MaxSubmissions
    /\ \E n \in 0 .. MaxSubmissions : DOMAIN meta = 1 .. n
WorkType == work \in [Requests -> Request \cup Creation \cup {Idle}]

\* Meta has a submission with the id and the key of row or copy t, if t has an
\* id, and has approved it if t says so.
BackedBy(t, m) ==
    /\ t.provider # NoId => t.provider \in DOMAIN m /\ m[t.provider].key = t.key
    /\ t.status = "approved" => t.provider # NoId /\ m[t.provider].approved
Backed(t) == BackedBy(t, meta)

Working(p) == ~Is(p, "idle") /\ ~Is(p, "create")

MetaInv == \A n \in DOMAIN meta : meta[n].status = "APPROVED" => meta[n].approved
RowsInv == \A i \in Rows : Backed(template[i])
CopyInv(p) ==
    /\ Backed(work[p].copy)
    /\ template[work[p].id] # NoRow
    /\ work[p].id \in Rows => template[work[p].id].key = work[p].copy.key
    /\ Is(p, "update") => work[p].copy.status # "approved"
    /\ Is(p, "ask") => work[p].copy.provider # NoId
CopiesInv == \A p \in Requests : Working(p) => CopyInv(p)
QueuedInv == SentNamesWereApproved

ApprovedInv ==
    TablesType /\ MetaType /\ WorkType /\ MetaInv /\ RowsInv /\ CopiesInv /\ QueuedInv

LEMMA WorkingType ==
    ASSUME WorkType, NEW p \in Requests
    PROVE  /\ Working(p) => work[p] \in Request
           /\ Is(p, "create") => work[p] \in Creation
           /\ work[p] \in Request => Working(p)
BY DEF WorkType, Working, Is, Idle, Request, Creation

LEMMA RowsType ==
    ASSUME TablesType, NEW i \in Ids
    PROVE  /\ i \in Rows => template[i] \in Template
           /\ template[i] \in Template <=> i \in Rows
BY RowsAssumption DEF TablesType, Rows, GetTemplateByID

LEMMA InitialInv == Init => ApprovedInv
<1> SUFFICES ASSUME Init PROVE ApprovedInv
  OBVIOUS
<1>1. DOMAIN meta = {} /\ DOMAIN meta = 1 .. 0
  BY DEF Init
<1>2. TablesType
  BY TemplatesAssumption DEF Init, TablesType
<1>3. MetaType
  BY <1>1, FS_EmptySet, TemplatesAssumption DEF Init, MetaType, MetaIds
<1>4. WorkType /\ \A p \in Requests : ~Working(p)
  BY DEF Init, WorkType, Working, Is, Idle
<1>5. Rows = {}
  BY DEF Init, Rows, GetTemplateByID
<1> QED
  BY <1>1, <1>2, <1>3, <1>4, <1>5
     DEF Init, ApprovedInv, MetaInv, RowsInv, CopiesInv, QueuedInv, SentNamesWereApproved

-----------------------------------------------------------------------------
(* What the steps leave alone. *)

\* Meta forgets nothing, keeps what it was given and approves for good.
Grows(m, k) ==
    /\ DOMAIN m \subseteq DOMAIN k
    /\ \A n \in DOMAIN m : /\ k[n].key = m[n].key /\ k[n].content = m[n].content
                           /\ m[n].approved => k[n].approved

LEMMA BackedStays ==
    ASSUME NEW t, NEW m, NEW k, BackedBy(t, m), Grows(m, k)
    PROVE  BackedBy(t, k)
BY DEF BackedBy, Grows

\* Rows keep their keys, and a row that is gone does not come back.
KeysStay ==
    \A i \in Ids : template[i] # NoRow =>
        /\ template'[i] # NoRow
        /\ i \in Rows' => i \in Rows /\ template'[i].key = template[i].key

\* q goes on with the copy it has, or ends.
SameCopy(q) ==
    Working(q)' => /\ Working(q) /\ work'[q].step = work[q].step
                   /\ work'[q].id = work[q].id /\ work'[q].copy = work[q].copy

LEMMA CopyKept ==
    ASSUME WorkType, CopiesInv, Grows(meta, meta'), KeysStay,
           NEW q \in Requests, SameCopy(q)
    PROVE  Working(q)' => CopyInv(q)'
<1> SUFFICES ASSUME Working(q)' PROVE CopyInv(q)'
  OBVIOUS
<1>1. /\ Working(q) /\ work'[q].step = work[q].step
      /\ work'[q].id = work[q].id /\ work'[q].copy = work[q].copy
  BY DEF SameCopy
<1>2. CopyInv(q) /\ work[q].id \in Ids
  BY <1>1, WorkingType DEF CopiesInv, Request
<1>3. BackedBy(work[q].copy, meta')
  BY <1>2, BackedStays DEF CopyInv, Backed
<1>4. Backed(work[q].copy)'
  BY <1>1, <1>3 DEF Backed
<1> QED
  BY <1>1, <1>2, <1>4 DEF CopyInv, KeysStay, Is

\* Requests that write or end: p has no copy left, the others keep theirs.
LEMMA WroteCopies ==
    ASSUME WorkType, NEW p \in Requests, NEW i, Wrote(p, i) \/ Ends(p)
    PROVE  WorkType' /\ \A q \in Requests : SameCopy(q)
<1>1. SUFFICES ASSUME NEW q \in Requests
               PROVE  SameCopy(q) /\ work'[q] \in Request \cup Creation \cup {Idle} /\
                      work' = [r \in Requests |-> work'[r]]
  BY DEF WorkType
<1>2. work' = [r \in Requests |-> work'[r]]
  BY DEF Wrote, Ends, WorkType
<1>3. CASE work'[q] = Idle
  BY <1>2, <1>3 DEF SameCopy, Working, Is, Idle
<1>4. CASE work'[q] = work[q]
  BY <1>2, <1>4 DEF SameCopy, Working, Is, WorkType
<1>5. CASE Working(q) /\ work'[q] = [work[q] EXCEPT !.stale = TRUE]
  <2>1. work[q] \in Request
    BY <1>5, WorkingType
  <2>2. work'[q] \in Request /\ work'[q].step = work[q].step
        /\ work'[q].id = work[q].id /\ work'[q].copy = work[q].copy
    BY <1>5, <2>1 DEF Request
  <2> QED
    BY <1>2, <1>5, <2>2 DEF SameCopy
<1> QED
  BY <1>2, <1>3, <1>4, <1>5 DEF Wrote, Ends, WorksOn, Working, WorkType

\* The step of p from one read or answer to the next: only its own copy changes.
LEMMA OthersKeep ==
    ASSUME WorkType, NEW p \in Requests, NEW r, work' = [work EXCEPT ![p] = r]
    PROVE  /\ work'[p] = r
           /\ \A q \in Requests \ {p} : SameCopy(q)
           /\ r \in Request \cup Creation \cup {Idle} => WorkType'
BY DEF WorkType, SameCopy, Working, Is
-----------------------------------------------------------------------------
(* The steps. *)

LEMMA GrowsSelf == \A m : Grows(m, m)
BY DEF Grows

\* A step that leaves the table and Meta alone, but for what is queued and counted.
LEMMA QuietStep ==
    ASSUME ApprovedInv, UNCHANGED <<template, meta>>, TablesType', WorkType', QueuedInv',
           NEW p \in Requests, Working(p)' => CopyInv(p)',
           \A q \in Requests \ {p} : SameCopy(q)
    PROVE  ApprovedInv'
<1>1. KeysStay /\ Grows(meta, meta')
  BY GrowsSelf DEF KeysStay, Rows, GetTemplateByID
<1>2. CopiesInv'
  BY <1>1, CopyKept DEF ApprovedInv, CopiesInv
<1>3. MetaType' /\ MetaInv'
  BY DEF ApprovedInv, MetaType, MetaInv
<1>4. RowsInv'
  BY DEF ApprovedInv, RowsInv, Rows, GetTemplateByID, Backed
<1> QED
  BY <1>2, <1>3, <1>4 DEF ApprovedInv

LEMMA BeginsStep ==
    ASSUME ApprovedInv, NEW p \in Requests, NEW r, Begins(p, r),
           r \in Request \cup Creation, Working(p)' => CopyInv(p)'
    PROVE  ApprovedInv'
<1>1. work' = [work EXCEPT ![p] = r] /\ UNCHANGED <<template, meta, queued, verdicts, history>>
  BY DEF Begins
<1>2. begun' \in 0 .. MaxRequests
  BY TemplatesAssumption DEF Begins, ApprovedInv, TablesType
<1>3. WorkType' /\ \A q \in Requests \ {p} : SameCopy(q)
  BY <1>1, OthersKeep DEF ApprovedInv
<1>4. TablesType' /\ QueuedInv'
  BY <1>1, <1>2 DEF ApprovedInv, TablesType, QueuedInv, SentNamesWereApproved, history
<1> QED
  BY <1>1, <1>3, <1>4, QuietStep

\* A request that reads row i has what the row has, but for the content.
LEMMA ReadsStep ==
    ASSUME ApprovedInv, NEW p \in Requests, NEW i \in Rows, NEW c \in Contents,
           NEW s \in {"update", "submit", "ask"}, Reads(p, i, s, c),
           s = "update" => template[i].status # "approved",
           s = "ask" => template[i].provider # NoId
    PROVE  ApprovedInv'
<1> DEFINE t == [template[i] EXCEPT !.content = c]
           r == [step |-> s, id |-> i, copy |-> t, stale |-> FALSE]
<1>1. template[i] \in Template /\ i \in Ids
  BY RowsType DEF ApprovedInv, Rows
<1>2. /\ t \in Template /\ t.key = template[i].key /\ t.status = template[i].status
      /\ t.provider = template[i].provider
  BY <1>1 DEF Template
<1>3. r \in Request
  BY <1>1, <1>2 DEF Request
<1>4. Begins(p, r) /\ work'[p] = r /\ UNCHANGED <<template, meta>>
  BY DEF Reads, Begins, ApprovedInv, WorkType
<1>5. Backed(t)
  BY <1>2 DEF ApprovedInv, RowsInv, Backed, BackedBy
<1>6. CopyInv(p)'
  <2>1. work'[p].copy = t /\ work'[p].id = i /\ work'[p].step = s
    BY <1>4
  <2>2. Backed(work[p].copy)'
    BY <1>4, <1>5, <2>1 DEF Backed
  <2>3. template'[i] # NoRow /\ template'[i].key = t.key
    BY <1>2, <1>4 DEF Rows, GetTemplateByID
  <2> HIDE DEF t
  <2> QED
    BY <1>2, <2>1, <2>2, <2>3 DEF CopyInv, Is
<1> QED
  BY <1>3, <1>4, <1>6, BeginsStep

LEMMA StartsStep ==
    ASSUME ApprovedInv, NEW p \in Requests,
           \/ \E k \in Keys, c \in Contents : Create(p, k, c)
           \/ \E i \in Ids : \/ \E c \in Contents : Update(p, i, c)
                             \/ SubmitForApproval(p, i) \/ SyncStatus(p, i)
    PROVE  ApprovedInv'
<1>1. ASSUME NEW k \in Keys, NEW c \in Contents, Create(p, k, c)
      PROVE  ApprovedInv'
  <2> DEFINE r == [step |-> "create", key |-> k, content |-> c]
  <2>1. r \in Creation /\ Begins(p, r)
    BY <1>1 DEF Create, Creation
  <2>2. ~Working(p)'
    BY <2>1 DEF Begins, Working, Is, ApprovedInv, WorkType
  <2> QED
    BY <2>1, <2>2, BeginsStep
<1>2. ASSUME NEW i \in Ids, NEW c \in Contents, Update(p, i, c)
      PROVE  ApprovedInv'
  BY <1>2, ReadsStep DEF Update, MayEdit, Rows
<1>3. ASSUME NEW i \in Ids, SubmitForApproval(p, i) \/ SyncStatus(p, i)
      PROVE  ApprovedInv'
  <2>1. i \in Rows /\ template[i].content \in Contents
    BY <1>3, RowsType DEF SubmitForApproval, SyncStatus, Rows, ApprovedInv, Template
  <2> QED
    BY <1>3, <2>1, ReadsStep DEF SubmitForApproval, SyncStatus
<1> QED
  BY <1>1, <1>2, <1>3

\* A row is written, in a step that leaves Meta alone: the rows are still backed if
\* what is written is.
LEMMA WritesRow ==
    ASSUME ApprovedInv, NEW p \in Requests, NEW i \in Ids, NEW t,
           template' = [template EXCEPT ![i] = t], t \in Template \cup {Gone},
           t \in Template => /\ Backed(t)
                             /\ template[i] # NoRow => i \in Rows /\ template[i].key = t.key,
           \A q \in Requests : SameCopy(q), WorkType', UNCHANGED <<meta, queued, begun, verdicts>>,
           muddled' \subseteq Ids /\ reworked' \subseteq Ids
    PROVE  ApprovedInv'
<1>1. t # NoRow /\ template'[i] = t /\ \A j \in Ids \ {i} : template'[j] = template[j]
  BY RowsAssumption DEF ApprovedInv, TablesType
<1>2. i \in Rows' <=> t \in Template
  BY <1>1, RowsAssumption DEF Rows, GetTemplateByID
<1>3. \A j \in Ids \ {i} : j \in Rows' <=> j \in Rows
  BY <1>1 DEF Rows, GetTemplateByID
<1>4. KeysStay /\ Grows(meta, meta')
  BY <1>1, <1>2, <1>3, GrowsSelf DEF KeysStay
<1>5. CopiesInv'
  BY <1>4, CopyKept DEF ApprovedInv, CopiesInv
<1>6. RowsInv'
  <2>1. SUFFICES ASSUME NEW j \in Rows' PROVE BackedBy(template'[j], meta)
    BY DEF RowsInv, Backed
  <2>2. j \in Ids
    BY DEF Rows
  <2> QED
    BY <1>1, <1>2, <1>3, <2>2 DEF ApprovedInv, RowsInv, Backed
<1>7. TablesType'
  BY DEF ApprovedInv, TablesType
<1>8. MetaType' /\ MetaInv' /\ QueuedInv'
  BY DEF ApprovedInv, MetaType, MetaInv, QueuedInv, SentNamesWereApproved
<1> QED
  BY <1>5, <1>6, <1>7, <1>8 DEF ApprovedInv

LEMMA CreatesStep ==
    ASSUME ApprovedInv, NEW p \in Requests, NEW i \in Ids, Creates(p, i)
    PROVE  ApprovedInv'
<1> DEFINE t == [key |-> work[p].key, content |-> work[p].content,
                 status |-> "draft", provider |-> NoId]
<1>1. work[p] \in Creation
  BY WorkingType DEF Creates, ApprovedInv
<1>2. t \in Template
  BY <1>1 DEF Template, Creation, TemplateStatus
<1>3. Backed(t)
  BY DEF Backed, BackedBy
<1>4. template' = [template EXCEPT ![i] = t] /\ template[i] = NoRow
  BY DEF Creates, CreateTemplate
<1>5. WorkType' /\ \A q \in Requests : SameCopy(q)
  BY WroteCopies DEF Creates, ApprovedInv
<1>6. UNCHANGED <<meta, queued, begun, verdicts, muddled, reworked>>
  BY DEF Creates, history
<1>7. muddled' \subseteq Ids /\ reworked' \subseteq Ids
  BY <1>6 DEF ApprovedInv, TablesType
<1> HIDE DEF t
<1> QED
  BY <1>2, <1>3, <1>4, <1>5, <1>6, <1>7, WritesRow

LEMMA UpdatesStep ==
    ASSUME ApprovedInv, NEW p \in Requests, Updates(p)
    PROVE  ApprovedInv'
<1> DEFINE i == work[p].id
           c == work[p].copy
           t == [c EXCEPT !.provider = IF c.provider = NoId THEN template[i].provider ELSE @]
<1>1. /\ work[p] \in Request /\ CopyInv(p) /\ Is(p, "update")
      /\ i \in Ids /\ c \in Template
  BY WorkingType DEF Updates, Working, Is, Request, ApprovedInv, CopiesInv
<1>2. i \in Rows /\ template' = [template EXCEPT ![i] = t]
  BY <1>1 DEF Updates, UpdateTemplate, Rows
<1>3. template[i] \in Template /\ Backed(template[i]) /\ template[i].key = c.key
  BY <1>1, <1>2, RowsType DEF ApprovedInv, RowsInv, CopyInv
<1>4. /\ t \in Template /\ t.key = c.key /\ t.status = c.status
      /\ t.provider = IF c.provider = NoId THEN template[i].provider ELSE c.provider
  BY <1>1, <1>3 DEF Template
<1>5. Backed(t)
  BY <1>1, <1>3, <1>4 DEF CopyInv, Backed, BackedBy
<1>6. WorkType' /\ \A q \in Requests : SameCopy(q)
  BY WroteCopies DEF Updates, ApprovedInv
<1>7. UNCHANGED <<meta, queued, begun, verdicts>>
  BY DEF Updates
<1>8. muddled' \subseteq Ids /\ reworked' \subseteq Ids
  BY <1>1 DEF Updates, Wrote, ApprovedInv, TablesType
<1> HIDE DEF t, i, c
<1> QED
  BY <1>1, <1>2, <1>3, <1>4, <1>5, <1>6, <1>7, <1>8, WritesRow

LEMMA WritesStatusStep ==
    ASSUME ApprovedInv, NEW p \in Requests, WritesStatus(p)
    PROVE  ApprovedInv'
<1> DEFINE i == work[p].id
           c == work[p].copy
           t == [template[i] EXCEPT !.status = c.status, !.provider = c.provider]
<1>1. work[p] \in Request /\ CopyInv(p) /\ i \in Ids /\ c \in Template
  BY WorkingType DEF WritesStatus, Working, Is, Request, ApprovedInv, CopiesInv
<1>2. WorkType' /\ \A q \in Requests : SameCopy(q)
  BY WroteCopies DEF WritesStatus, ApprovedInv
<1>3. UNCHANGED <<meta, queued, begun, verdicts>>
  BY DEF WritesStatus
<1>4. muddled' \subseteq Ids /\ reworked' \subseteq Ids
  BY <1>1 DEF WritesStatus, Wrote, ApprovedInv, TablesType
<1>5. CASE i \in Rows
  <2>1. template' = [template EXCEPT ![i] = t]
    BY <1>5 DEF WritesStatus, UpdateTemplateStatus, Rows, ApprovedInv, TablesType
  <2>2. template[i] \in Template /\ template[i].key = c.key
    BY <1>1, <1>5, RowsType DEF ApprovedInv, CopyInv
  <2>3. /\ t \in Template /\ t.key = c.key /\ t.status = c.status
        /\ t.provider = c.provider
    BY <1>1, <2>2 DEF Template
  <2>4. Backed(t)
    BY <1>1, <2>3 DEF CopyInv, Backed, BackedBy
  <2> HIDE DEF t, i, c
  <2> QED
    BY <1>1, <1>2, <1>3, <1>4, <1>5, <2>1, <2>2, <2>3, <2>4, WritesRow
<1>6. CASE i \notin Rows
  <2>1. template' = template
    BY <1>1, <1>6 DEF WritesStatus, UpdateTemplateStatus, Rows
  <2>2. KeysStay /\ Grows(meta, meta')
    BY <1>3, <2>1, GrowsSelf DEF KeysStay, Rows, GetTemplateByID
  <2>3. CopiesInv'
    BY <1>2, <2>2, CopyKept DEF ApprovedInv, CopiesInv
  <2>4. TablesType' /\ RowsInv'
    BY <1>3, <1>4, <2>1
       DEF ApprovedInv, TablesType, RowsInv, Rows, GetTemplateByID, Backed
  <2> QED
    BY <1>2, <1>3, <2>3, <2>4
       DEF ApprovedInv, MetaType, MetaInv, QueuedInv, SentNamesWereApproved
<1> QED
  BY <1>5, <1>6

LEMMA DeleteStep ==
    ASSUME ApprovedInv, NEW i \in Ids, Delete(i)
    PROVE  ApprovedInv'
<1>1. template' = [template EXCEPT ![i] = Gone]
  BY DEF Delete, DeleteTemplate
<1>2. UNCHANGED <<meta, queued, work, begun, verdicts, muddled, reworked>>
  BY DEF Delete, history
<1>3. /\ Gone \notin Template /\ Gone # NoRow
      /\ template'[i] = Gone /\ \A j \in Ids \ {i} : template'[j] = template[j]
  BY <1>1, RowsAssumption DEF ApprovedInv, TablesType
<1>4. \A j \in Rows' : j \in Rows /\ j # i
  BY <1>3 DEF Rows, GetTemplateByID
<1>5. KeysStay /\ Grows(meta, meta')
  BY <1>2, <1>3, <1>4, GrowsSelf DEF KeysStay, Rows
<1>6. CopiesInv'
  <2>1. \A q \in Requests : SameCopy(q)
    BY <1>2 DEF SameCopy, Working, Is
  <2> QED
    BY <1>5, <2>1, CopyKept DEF ApprovedInv, CopiesInv
<1>7. RowsInv'
  BY <1>2, <1>3, <1>4 DEF ApprovedInv, RowsInv, Rows, Backed
<1>8. TablesType'
  BY <1>1, <1>2 DEF ApprovedInv, TablesType
<1> QED
  BY <1>2, <1>6, <1>7, <1>8
     DEF ApprovedInv, WorkType, MetaType, MetaInv, QueuedInv, SentNamesWereApproved

LEMMA SendsStep ==
    ASSUME ApprovedInv, NEW k \in Keys, Sends(k)
    PROVE  ApprovedInv'
<1>1. UNCHANGED <<template, meta, work, begun, verdicts, muddled, reworked>>
  BY DEF Sends, history
<1>2. PICK i \in Rows : template[i].key = k /\ template[i].status = "approved"
  BY DEF Sends, GetTemplateByName, IsApproved, Rows
<1>3. \E n \in DOMAIN meta : meta[n].key = k /\ meta[n].approved
  BY <1>2 DEF ApprovedInv, RowsInv, Backed, BackedBy
<1>4. QueuedInv'
  BY <1>1, <1>3 DEF Sends, ApprovedInv, QueuedInv, SentNamesWereApproved
<1>5. CopiesInv'
  BY <1>1 DEF ApprovedInv, CopiesInv, CopyInv, Working, Is, Backed, Rows, GetTemplateByID
<1>6. TablesType'
  BY <1>1 DEF Sends, ApprovedInv, TablesType
<1> QED
  BY <1>1, <1>4, <1>5, <1>6
     DEF ApprovedInv, WorkType, MetaType, MetaInv, RowsInv, Rows, GetTemplateByID, Backed

LEMMA FailsStep ==
    ASSUME ApprovedInv, NEW p \in Requests, Fails(p)
    PROVE  ApprovedInv'
<1>1. WorkType' /\ \A q \in Requests : SameCopy(q)
  BY WroteCopies DEF Fails, ApprovedInv
<1>2. UNCHANGED <<template, meta, queued, begun, verdicts, muddled, reworked>>
  BY DEF Fails, history
<1>3. TablesType' /\ QueuedInv'
  BY <1>2 DEF ApprovedInv, TablesType, QueuedInv, SentNamesWereApproved
<1>4. ~Working(p)'
  BY DEF Fails, Ends, Working, Is, Idle, ApprovedInv, WorkType
<1> QED
  BY <1>1, <1>2, <1>3, <1>4, QuietStep

LEMMA GetsStatusStep ==
    ASSUME ApprovedInv, NEW p \in Requests, GetsStatus(p)
    PROVE  ApprovedInv'
<1> DEFINE c == work[p].copy
           s == mapTemplateStatus(meta[c.provider].status)
           d == [c EXCEPT !.status = s]
           r == [work[p] EXCEPT !.step = "sync", !.copy = d]
<1>1. /\ work[p] \in Request /\ CopyInv(p) /\ Is(p, "ask") /\ c \in Template
  BY WorkingType DEF GetsStatus, Working, Is, Request, ApprovedInv, CopiesInv
<1>2. UNCHANGED <<template, meta, queued, begun, verdicts, muddled, reworked>>
  BY DEF GetsStatus, history
<1>3. TablesType' /\ QueuedInv'
  BY <1>2 DEF ApprovedInv, TablesType, QueuedInv, SentNamesWereApproved
<1>4. CASE Ends(p)
  <2>1. WorkType' /\ \A q \in Requests : SameCopy(q)
    BY <1>4, WroteCopies DEF ApprovedInv
  <2>2. ~Working(p)'
    BY <1>4 DEF Ends, Working, Is, Idle, ApprovedInv, WorkType
  <2> QED
    BY <1>2, <1>3, <2>1, <2>2, QuietStep
<1>5. CASE work' = [work EXCEPT ![p].step = "sync", ![p].copy.status = s]
  <2>1. work' = [work EXCEPT ![p] = r]
    BY <1>1, <1>5 DEF ApprovedInv, WorkType
  <2>2. s \in {"approved", "rejected", "pending"}
    BY DEF mapTemplateStatus
  <2>3. /\ d \in Template /\ d.status = s /\ d.key = c.key /\ d.provider = c.provider
    BY <1>1, <2>2 DEF Template, TemplateStatus
  <2>4. r \in Request /\ r.copy = d /\ r.id = work[p].id /\ r.step = "sync"
    BY <1>1, <2>3 DEF Request
  <2>5. work'[p] = r /\ WorkType' /\ \A q \in Requests \ {p} : SameCopy(q)
    BY <2>1, <2>4, OthersKeep DEF ApprovedInv
  <2>6. c.provider # NoId /\ c.provider \in DOMAIN meta
    BY <1>1 DEF CopyInv, Backed, BackedBy
  <2>7. s = "approved" => meta[c.provider].approved
    BY <2>6 DEF mapTemplateStatus, ApprovedInv, MetaInv
  <2>8. BackedBy(d, meta)
    BY <1>1, <2>3, <2>6, <2>7 DEF CopyInv, Backed, BackedBy
  <2> HIDE DEF r, d, s
  <2>9. CopyInv(p)'
    <3>1. work'[p].copy = d /\ work'[p].id = work[p].id /\ work'[p].step = "sync"
      BY <2>4, <2>5
    <3>2. Backed(work[p].copy)'
      BY <1>2, <2>8, <3>1 DEF Backed
    <3>3. /\ template'[work[p].id] # NoRow
          /\ work[p].id \in Rows' => template'[work[p].id].key = d.key
      BY <1>1, <1>2, <2>3 DEF CopyInv, Rows, GetTemplateByID
    <3> QED
      BY <3>1, <3>2, <3>3 DEF CopyInv, Is
  <2> QED
    BY <1>2, <1>3, <2>5, <2>9, QuietStep
<1> QED
  BY <1>4, <1>5 DEF GetsStatus

\* Meta changes, and grows.
LEMMA MetaStep ==
    ASSUME ApprovedInv, MetaType', MetaInv', Grows(meta, meta'), TablesType', WorkType',
           UNCHANGED <<template, queued>>,
           \A q \in Requests : Working(q)' => CopyInv(q)' \/ SameCopy(q)
    PROVE  ApprovedInv'
<1>1. KeysStay
  BY DEF KeysStay, Rows, GetTemplateByID
<1>2. CopiesInv'
  BY <1>1, CopyKept DEF ApprovedInv, CopiesInv
<1>3. RowsInv'
  <2>1. SUFFICES ASSUME NEW i \in Rows PROVE BackedBy(template[i], meta')
    BY DEF RowsInv, Rows, GetTemplateByID, Backed
  <2> QED
    BY BackedStays DEF ApprovedInv, RowsInv, Backed
<1>4. QueuedInv'
  BY DEF ApprovedInv, QueuedInv, SentNamesWereApproved, Grows
<1> QED
  BY <1>2, <1>3, <1>4 DEF ApprovedInv

LEMMA ReviewsStep ==
    ASSUME ApprovedInv, NEW n \in DOMAIN meta, NEW v \in Verdicts, Reviews(n, v)
    PROVE  ApprovedInv' /\ Grows(meta, meta')
<1> DEFINE e == [meta[n] EXCEPT !.status = v, !.approved = @ \/ v = "APPROVED"]
<1>1. meta[n] \in Submission
  BY DEF ApprovedInv, MetaType
<1>2. /\ e \in Submission /\ e.key = meta[n].key /\ e.content = meta[n].content
      /\ e.status = v
      /\ e.approved = (meta[n].approved \/ v = "APPROVED")
  BY <1>1 DEF Submission
<1>3. meta' = [meta EXCEPT ![n] = e]
  BY DEF Reviews, ApprovedInv, MetaType
<1> HIDE DEF e
<1>4. DOMAIN meta' = DOMAIN meta /\ meta'[n] = e /\ \A m \in DOMAIN meta \ {n} : meta'[m] = meta[m]
  BY <1>3 DEF ApprovedInv, MetaType
<1>5. MetaType'
  BY <1>2, <1>3, <1>4 DEF ApprovedInv, MetaType
<1>6. MetaInv' /\ Grows(meta, meta')
  BY <1>1, <1>2, <1>4 DEF ApprovedInv, MetaInv, Grows, Submission
<1>7. UNCHANGED <<template, queued, work, begun, muddled, reworked>>
  BY DEF Reviews, history
<1>8. verdicts' \in 0 .. MaxVerdicts
  BY TemplatesAssumption DEF Reviews, ApprovedInv, TablesType
<1>9. TablesType' /\ WorkType' /\ \A q \in Requests : SameCopy(q)
  BY <1>7, <1>8 DEF ApprovedInv, TablesType, WorkType, SameCopy, Working, Is
<1> QED
  BY <1>5, <1>6, <1>7, <1>9, MetaStep

\* What p submits is what Meta has then under the id that p got.
LEMMA SubmitsStep ==
    ASSUME ApprovedInv, NEW p \in Requests, NEW n \in MetaIds, Submits(p, n)
    PROVE  /\ ApprovedInv' /\ Grows(meta, meta')
           /\ meta'[n].content = work[p].copy.content
<1> DEFINE c == work[p].copy
           d == [c EXCEPT !.status = "pending", !.provider = n]
           r == [work[p] EXCEPT !.step = "submitted", !.copy = d]
           e == [key |-> c.key, content |-> c.content, status |-> "PENDING", approved |-> FALSE]
<1>1. /\ work[p] \in Request /\ CopyInv(p) /\ c \in Template
  BY WorkingType DEF Submits, Working, Is, Request, ApprovedInv, CopiesInv
<1>2. PICK m \in 0 .. MaxSubmissions : DOMAIN meta = 1 .. m
  BY DEF ApprovedInv, MetaType
<1>3. Cardinality(DOMAIN meta) = m
  BY <1>2, FS_Interval, TemplatesAssumption
<1>4. n = m + 1 /\ n \in 1 .. MaxSubmissions /\ n # NoId
  BY <1>2, <1>3, TemplatesAssumption DEF Submits, NoId
<1>5. DOMAIN meta' = 1 .. n
  BY <1>2, <1>4, TemplatesAssumption DEF Submits, CreateMessageTemplate
<1>6. meta'[n] = e /\ \A k \in DOMAIN meta : k # n /\ meta'[k] = meta[k]
  BY <1>2, <1>4, TemplatesAssumption DEF Submits, CreateMessageTemplate
<1>7. e \in Submission
  BY <1>1 DEF Submission, Template, Verdicts
<1>8. MetaType'
  <2>1. Cardinality(DOMAIN meta') = n
    BY <1>4, <1>5, FS_Interval, TemplatesAssumption
  <2>2. \A k \in DOMAIN meta' : meta'[k] \in Submission
    BY <1>2, <1>4, <1>5, <1>6, <1>7, TemplatesAssumption DEF ApprovedInv, MetaType
  <2>3. meta' = [k \in DOMAIN meta' |-> meta'[k]]
    BY DEF Submits, CreateMessageTemplate
  <2>4. meta' \in [DOMAIN meta' -> Submission]
    BY <2>2, <2>3
  <2> QED
    BY <1>4, <1>5, <2>1, <2>4, TemplatesAssumption DEF MetaType, MetaIds
<1>9. MetaInv'
  BY <1>2, <1>4, <1>5, <1>6, TemplatesAssumption DEF ApprovedInv, MetaInv
<1>10. Grows(meta, meta')
  BY <1>2, <1>4, <1>5, <1>6, TemplatesAssumption DEF Grows
<1>11. UNCHANGED <<template, queued, begun, verdicts, muddled, reworked>>
  BY DEF Submits, history
<1>12. /\ d \in Template /\ d.key = c.key /\ d.status = "pending" /\ d.provider = n
  BY <1>1, <1>4 DEF Template, TemplateStatus, MetaIds
<1>13. r \in Request /\ r.copy = d /\ r.id = work[p].id /\ r.step = "submitted"
  BY <1>1, <1>12 DEF Request
<1>14. work' = [work EXCEPT ![p] = r]
  BY <1>1 DEF Submits, ApprovedInv, WorkType
<1>15. work'[p] = r /\ WorkType' /\ \A q \in Requests \ {p} : SameCopy(q)
  BY <1>13, <1>14, OthersKeep DEF ApprovedInv
<1>16. BackedBy(d, meta')
  BY <1>4, <1>5, <1>6, <1>12, TemplatesAssumption DEF BackedBy
<1>17. CopyInv(p)'
  <2> HIDE DEF r, d
  <2>1. work'[p].copy = d /\ work'[p].id = work[p].id /\ work'[p].step = "submitted"
    BY <1>13, <1>15
  <2>2. Backed(work[p].copy)'
    BY <1>16, <2>1 DEF Backed
  <2>3. /\ template'[work[p].id] # NoRow
        /\ work[p].id \in Rows' => template'[work[p].id].key = d.key
    BY <1>1, <1>11, <1>12 DEF CopyInv, Rows, GetTemplateByID
  <2> QED
    BY <2>1, <2>2, <2>3 DEF CopyInv, Is
<1>18. TablesType'
  BY <1>11 DEF ApprovedInv, TablesType
<1>19. meta'[n].content = c.content
  BY <1>6
<1> HIDE DEF r, d, e
<1> QED
  BY <1>8, <1>9, <1>10, <1>11, <1>15, <1>17, <1>18, <1>19, MetaStep

LEMMA ApprovedStep ==
    ASSUME ApprovedInv, [Next]_vars
    PROVE  ApprovedInv'
<1>1. CASE UNCHANGED vars
  BY <1>1 DEF vars, history, ApprovedInv, TablesType, MetaType, WorkType, MetaInv, RowsInv,
     Rows, GetTemplateByID, Backed, CopiesInv, CopyInv, Working, Is, QueuedInv,
     SentNamesWereApproved
<1> QED
  BY <1>1, ReviewsStep, StartsStep, CreatesStep, SubmitsStep, UpdatesStep, GetsStatusStep,
     WritesStatusStep, FailsStep, DeleteStep, SendsStep DEF Next

\* The rows, Meta's submissions and the requests at work have their types.
THEOREM TypeCorrect == Spec => []TypeOK
<1>1. ApprovedInv /\ [Next]_vars => ApprovedInv'
  BY ApprovedStep
<1>2. ApprovedInv => TypeOK
  BY DEF ApprovedInv, TypeOK, TablesType, MetaType, WorkType
<1> QED
  BY InitialInv, <1>1, <1>2, PTL DEF Spec

\* A row that says approved names a submission, of its own name, that Meta did
\* approve, whatever the requests at work read and when.
THEOREM ApprovedIsApproved == Spec => []ApprovedByMeta
<1>1. ApprovedInv /\ [Next]_vars => ApprovedInv'
  BY ApprovedStep
<1>2. ApprovedInv => ApprovedByMeta
  BY DEF ApprovedInv, RowsInv, Backed, BackedBy, ApprovedByMeta
<1> QED
  BY InitialInv, <1>1, <1>2, PTL DEF Spec

\* A message is queued only with a name that Meta approved a template of.
THEOREM SentWereApproved == Spec => []SentNamesWereApproved
<1>1. ApprovedInv /\ [Next]_vars => ApprovedInv'
  BY ApprovedStep
<1>2. ApprovedInv => SentNamesWereApproved
  BY DEF ApprovedInv, QueuedInv
<1> QED
  BY InitialInv, <1>1, <1>2, PTL DEF Spec
-----------------------------------------------------------------------------
(* What Meta reviews is what a row holds. *)

\* The rows the promise is about, and the requests whose copy of one is fresh.
Kept == Rows \ (muddled \cup reworked)
Fresh(p) == Working(p) /\ ~work[p].stale /\ work[p].id \in Kept

\* A draft has no submission, and any other row holds what it was submitted with.
RowHolds(t, m) ==
    IF t.provider = NoId THEN t.status = "draft"
    ELSE t.status # "draft" /\ t.content = m[t.provider].content
\* What request r has to write fits the row t that it read.
CopyHolds(r, t, m) ==
    LET c == r.copy IN
    /\ r.step = "update" => /\ c.status = t.status /\ c.provider = t.provider
                            /\ c.status \in {"draft", "rejected"}
    /\ r.step = "submit" => c.content = t.content
    /\ r.step = "submitted" =>
           /\ c.status # "draft" /\ c.provider # NoId
           /\ c.content = t.content /\ c.content = m[c.provider].content
    /\ r.step \in {"ask", "sync"} => c.provider = t.provider /\ c.provider # NoId
    /\ r.step = "sync" => c.status # "draft"
RowsHold == \A i \in Kept : RowHolds(template[i], meta)
CopiesHold == \A p \in Requests : Fresh(p) => CopyHolds(work[p], template[work[p].id], meta)
HeldInv == ApprovedInv /\ RowsHold /\ CopiesHold

LEMMA RowHoldsStill ==
    ASSUME NEW t, NEW m, NEW k, BackedBy(t, m), Grows(m, k), RowHolds(t, m)
    PROVE  RowHolds(t, k)
BY DEF BackedBy, Grows, RowHolds

\* Of the rows and the copies that the step leaves alone, what was true stays true.
LEMMA HeldKept ==
    ASSUME HeldInv, ApprovedInv', Grows(meta, meta'),
           \A i \in Kept' : \/ RowHolds(template[i], meta)'
                            \/ i \in Kept /\ template'[i] = template[i],
           \A q \in Requests : Fresh(q)' =>
               \/ CopyHolds(work[q], template[work[q].id], meta)'
               \/ /\ Fresh(q) /\ work'[q].step = work[q].step /\ work'[q].id = work[q].id
                  /\ work'[q].copy = work[q].copy
                  /\ template'[work[q].id] = template[work[q].id]
    PROVE  HeldInv'
<1>1. RowsHold'
  <2> SUFFICES ASSUME NEW i \in Kept', i \in Kept, template'[i] = template[i]
               PROVE  RowHolds(template[i], meta')
    BY DEF RowsHold
  <2>1. RowHolds(template[i], meta) /\ BackedBy(template[i], meta)
    BY DEF HeldInv, ApprovedInv, RowsHold, RowsInv, Backed, Kept
  <2> QED
    BY <2>1, RowHoldsStill
<1>2. CopiesHold'
  <2> SUFFICES ASSUME NEW q \in Requests, Fresh(q)', Fresh(q),
                      work'[q].step = work[q].step, work'[q].id = work[q].id,
                      work'[q].copy = work[q].copy,
                      template'[work[q].id] = template[work[q].id]
               PROVE  CopyHolds(work'[q], template'[work'[q].id], meta')
    BY DEF CopiesHold
  <2> DEFINE t == template[work[q].id]
  <2>1. CopyHolds(work[q], t, meta) /\ BackedBy(work[q].copy, meta)
    BY DEF HeldInv, ApprovedInv, CopiesHold, CopiesInv, CopyInv, Backed, Fresh
  <2>2. template'[work'[q].id] = t
    OBVIOUS
  <2> HIDE DEF t
  <2>3. work[q].copy.provider # NoId =>
            meta'[work[q].copy.provider].content = meta[work[q].copy.provider].content
    BY <2>1 DEF BackedBy, Grows
  <2> QED
    BY <2>1, <2>2, <2>3 DEF CopyHolds
<1> QED
  BY <1>1, <1>2 DEF HeldInv

\* No row is written, and nobody but p goes on.
LEMMA ReaderHeld ==
    ASSUME HeldInv, ApprovedInv', Grows(meta, meta'), UNCHANGED <<template, muddled, reworked>>,
           NEW p \in Requests, NEW r, work' = [work EXCEPT ![p] = r],
           Fresh(p)' => CopyHolds(r, template[r.id], meta')
    PROVE  HeldInv'
<1>1. Kept' = Kept
  BY DEF Kept, Rows, GetTemplateByID
<1>2. work'[p] = r /\ \A q \in Requests \ {p} : work'[q] = work[q]
  BY DEF HeldInv, ApprovedInv, WorkType
<1>3. ASSUME NEW q \in Requests \ {p}, Fresh(q)'
      PROVE  Fresh(q) /\ work'[q] = work[q]
  BY <1>1, <1>2, <1>3 DEF Fresh, Working, Is
<1> QED
  BY <1>1, <1>2, <1>3, HeldKept

\* p writes row i: the others that read it are stale now, and the row is one that
\* nobody vouches for if p was stale itself.
LEMMA WriterHeld ==
    ASSUME HeldInv, ApprovedInv', UNCHANGED meta, reworked \subseteq reworked',
           NEW p \in Requests, NEW i, Wrote(p, i),
           \A j \in Ids \ {i} : template'[j] = template[j],
           i \in Kept' => RowHolds(template'[i], meta)
    PROVE  HeldInv'
<1>1. Grows(meta, meta')
  BY GrowsSelf
<1>2. muddled \subseteq muddled'
  BY DEF Wrote
<1>3. \A j \in Kept' : j # i => j \in Kept /\ template'[j] = template[j]
  BY <1>2 DEF Kept, Rows, GetTemplateByID
<1>4. ASSUME NEW q \in Requests, Fresh(q)'
      PROVE  /\ Fresh(q) /\ work'[q] = work[q]
             /\ template'[work[q].id] = template[work[q].id]
  <2>1. work[q] \in Request <=> Working(q)
    BY WorkingType DEF HeldInv, ApprovedInv
  <2>2. q # p
    BY <1>4 DEF Wrote, Fresh, Working, Is, Idle
  <2>3. ~WorksOn(q, i)
    <3>1. SUFFICES ASSUME WorksOn(q, i) PROVE FALSE
      OBVIOUS
    <3>2. work'[q] = [work[q] EXCEPT !.stale = TRUE] /\ work[q] \in Request
      BY <2>1, <2>2, <3>1 DEF Wrote, WorksOn, Working
    <3> QED
      BY <1>4, <3>2 DEF Fresh, Request
  <2>4. work'[q] = work[q]
    BY <2>2, <2>3 DEF Wrote
  <2>5. Working(q) /\ work[q].id # i /\ work[q].id \in Kept'
    BY <1>4, <2>3, <2>4 DEF Fresh, Working, Is, WorksOn
  <2> QED
    BY <1>3, <1>4, <2>4, <2>5 DEF Fresh
<1> QED
  BY <1>1, <1>3, <1>4, HeldKept

LEMMA BeginsHeld ==
    ASSUME HeldInv, ApprovedInv', NEW p \in Requests,
           \/ \E k \in Keys, c \in Contents : Create(p, k, c)
           \/ \E i \in Ids : \/ \E c \in Contents : Update(p, i, c)
                             \/ SubmitForApproval(p, i) \/ SyncStatus(p, i)
    PROVE  HeldInv'
<1>1. ASSUME NEW r, Begins(p, r), Fresh(p)' => CopyHolds(r, template[r.id], meta)
      PROVE  HeldInv'
  BY <1>1, GrowsSelf, ReaderHeld DEF Begins, history
<1>2. ASSUME NEW k \in Keys, NEW c \in Contents, Create(p, k, c)
      PROVE  HeldInv'
  <2>1. ~Fresh(p)'
    BY <1>2 DEF Create, Begins, Fresh, Working, Is, HeldInv, ApprovedInv, WorkType
  <2> QED
    BY <1>1, <1>2, <2>1 DEF Create
<1>3. ASSUME NEW i \in Rows, NEW c \in Contents, NEW s, Reads(p, i, s, c),
             \/ s = "update" /\ MayEdit(template[i])
             \/ s = "submit" /\ c = template[i].content
             \/ s = "ask" /\ template[i].provider # NoId
      PROVE  HeldInv'
  <2>1. template[i] \in Template
    BY RowsType DEF HeldInv, ApprovedInv, Rows
  <2> DEFINE t == [template[i] EXCEPT !.content = c]
             r == [step |-> s, id |-> i, copy |-> t, stale |-> FALSE]
  <2>2. t.content = c /\ t.status = template[i].status /\ t.provider = template[i].provider
    BY <2>1 DEF Template
  <2>3. r.step = s /\ r.copy = t /\ r.id = i
    OBVIOUS
  <2>4. Begins(p, r)
    BY <1>3 DEF Reads
  <2> HIDE DEF r, t
  <2>5. CopyHolds(r, template[r.id], meta)
    BY <1>3, <2>2, <2>3 DEF CopyHolds, MayEdit
  <2> QED
    BY <1>1, <2>4, <2>5
<1>4. ASSUME NEW i \in Ids, NEW c \in Contents, Update(p, i, c)
      PROVE  HeldInv'
  BY <1>3, <1>4 DEF Update, Rows
<1>5. ASSUME NEW i \in Ids, SubmitForApproval(p, i) \/ SyncStatus(p, i)
      PROVE  HeldInv'
  <2>1. i \in Rows /\ template[i].content \in Contents
    BY <1>5, RowsType DEF SubmitForApproval, SyncStatus, Rows, HeldInv, ApprovedInv, Template
  <2> QED
    BY <1>3, <1>5, <2>1 DEF SubmitForApproval, SyncStatus
<1> QED
  BY <1>2, <1>4, <1>5

LEMMA EndsHeld ==
    ASSUME HeldInv, ApprovedInv', UNCHANGED <<template, meta, muddled, reworked>>,
           NEW p \in Requests, Ends(p)
    PROVE  HeldInv'
<1>1. work' = [work EXCEPT ![p] = Idle] /\ ~Fresh(p)'
  BY DEF Ends, Fresh, Working, Is, Idle, HeldInv, ApprovedInv, WorkType
<1> QED
  BY <1>1, GrowsSelf, ReaderHeld

LEMMA GetsStatusHeld ==
    ASSUME HeldInv, ApprovedInv', NEW p \in Requests, GetsStatus(p)
    PROVE  HeldInv'
<1> DEFINE c == work[p].copy
           s == mapTemplateStatus(meta[c.provider].status)
           d == [c EXCEPT !.status = s]
           r == [work[p] EXCEPT !.step = "sync", !.copy = d]
<1>1. /\ work[p] \in Request /\ Working(p) /\ Is(p, "ask") /\ c \in Template
  BY WorkingType DEF GetsStatus, Working, Is, Request, HeldInv, ApprovedInv
<1>2. UNCHANGED <<template, meta, muddled, reworked>>
  BY DEF GetsStatus, history
<1>3. CASE work' = [work EXCEPT ![p].step = "sync", ![p].copy.status = s]
  <2>1. work' = [work EXCEPT ![p] = r]
    <3>1. [[work[p] EXCEPT !.step = "sync"] EXCEPT !.copy.status = s] = r
      <4> HIDE DEF s
      <4>1. work[p].copy = c
        OBVIOUS
      <4> QED
        BY <1>1 DEF Request
    <3> HIDE DEF c, d, s, r
    <3> QED
      BY <1>3, <3>1
  <2>2. s # "draft" /\ s \in TemplateStatus
    BY DEF mapTemplateStatus, TemplateStatus
  <2>3. d.status = s /\ d.provider = c.provider
    BY <1>1, <2>2 DEF Template
  <2>4. r.copy = d /\ r.id = work[p].id /\ r.step = "sync" /\ r.stale = work[p].stale
    BY <1>1 DEF Request
  <2> HIDE DEF r, d, s
  <2>5. work'[p] = r
    BY <2>1 DEF HeldInv, ApprovedInv, WorkType
  <2>6. ASSUME Fresh(p)' PROVE CopyHolds(r, template[r.id], meta)
    <3>1. Fresh(p)
      BY <1>1, <1>2, <2>4, <2>5, <2>6 DEF Fresh, Kept, Rows, GetTemplateByID
    <3>2. CopyHolds(work[p], template[work[p].id], meta)
      BY <3>1 DEF HeldInv, CopiesHold
    <3> QED
      BY <1>1, <2>2, <2>3, <2>4, <3>2 DEF CopyHolds, Is
  <2> QED
    BY <1>2, <2>1, <2>6, GrowsSelf, ReaderHeld
<1> QED
  BY <1>2, <1>3, EndsHeld DEF GetsStatus

LEMMA SubmitsHeld ==
    ASSUME HeldInv, ApprovedInv', NEW p \in Requests, NEW n \in MetaIds, Submits(p, n)
    PROVE  HeldInv'
<1> DEFINE c == work[p].copy
           d == [c EXCEPT !.status = "pending", !.provider = n]
           r == [work[p] EXCEPT !.step = "submitted", !.copy = d]
<1>1. /\ work[p] \in Request /\ Working(p) /\ Is(p, "submit") /\ c \in Template
  BY WorkingType DEF Submits, Working, Is, Request, HeldInv, ApprovedInv
<1>2. UNCHANGED <<template, muddled, reworked>>
  BY DEF Submits, history
<1>3. Grows(meta, meta') /\ meta'[n].content = c.content
  BY SubmitsStep DEF HeldInv
<1>4. d.status = "pending" /\ d.provider = n /\ d.content = c.content /\ n # NoId
  BY <1>1, TemplatesAssumption DEF Template, MetaIds, NoId
<1>5. r.copy = d /\ r.id = work[p].id /\ r.step = "submitted" /\ r.stale = work[p].stale
  BY <1>1 DEF Request
<1>6. work' = [work EXCEPT ![p] = r]
  <2>1. WorkType
    BY DEF HeldInv, ApprovedInv
  <2> QED
    BY <1>1, <2>1 DEF Submits, WorkType
<1> HIDE DEF r, d
<1>7. work'[p] = r
  BY <1>6 DEF HeldInv, ApprovedInv, WorkType
<1>8. ASSUME Fresh(p)' PROVE CopyHolds(r, template[r.id], meta')
  <2>1. Fresh(p)
    BY <1>1, <1>2, <1>5, <1>7, <1>8 DEF Fresh, Kept, Rows, GetTemplateByID
  <2>2. CopyHolds(work[p], template[work[p].id], meta)
    BY <2>1 DEF HeldInv, CopiesHold
  <2> QED
    BY <1>1, <1>3, <1>4, <1>5, <2>2 DEF CopyHolds, Is
<1> QED
  BY <1>2, <1>3, <1>6, <1>8, ReaderHeld

LEMMA CreatesHeld ==
    ASSUME HeldInv, ApprovedInv', NEW p \in Requests, NEW i \in Ids, Creates(p, i)
    PROVE  HeldInv'
<1> DEFINE t == [key |-> work[p].key, content |-> work[p].content,
                 status |-> "draft", provider |-> NoId]
<1>1. /\ template' = [template EXCEPT ![i] = t] /\ template[i] = NoRow /\ Ends(p)
      /\ UNCHANGED <<meta, muddled, reworked>>
  BY DEF Creates, CreateTemplate, history
<1>2. template'[i] = t /\ \A j \in Ids \ {i} : template'[j] = template[j]
  BY <1>1 DEF HeldInv, ApprovedInv, TablesType
<1>3. RowHolds(template'[i], meta')
  BY <1>2 DEF RowHolds
<1>4. ASSUME NEW q \in Requests, Fresh(q)'
      PROVE  Fresh(q) /\ work'[q] = work[q] /\ template'[work[q].id] = template[work[q].id]
  <2>1. work'[q] = work[q] /\ Working(q)
    BY <1>1, <1>4 DEF Ends, Fresh, Working, Is, Idle, HeldInv, ApprovedInv, WorkType
  <2>2. template[work[q].id] # NoRow
    BY <2>1 DEF HeldInv, ApprovedInv, CopiesInv, CopyInv
  <2> QED
    BY <1>1, <1>2, <1>4, <2>1, <2>2 DEF Fresh, Kept, Rows, GetTemplateByID
<1>5. \A j \in Kept' : j = i \/ (j \in Kept /\ template'[j] = template[j])
  BY <1>1, <1>2 DEF Kept, Rows, GetTemplateByID
<1> QED
  BY <1>1, <1>3, <1>4, <1>5, GrowsSelf, HeldKept

\* What an edit of p, which was fresh, leaves of the row.
LEMMA UpdatesHeld ==
    ASSUME HeldInv, ApprovedInv', NEW p \in Requests, Updates(p)
    PROVE  HeldInv'
<1> DEFINE i == work[p].id
           c == work[p].copy
           t == [c EXCEPT !.provider = IF c.provider = NoId THEN template[i].provider ELSE @]
<1>1. WorkType /\ TablesType
  BY DEF HeldInv, ApprovedInv
<1>2. work[p] \in Request /\ Working(p) /\ Is(p, "update") /\ i \in Ids /\ c \in Template
  BY <1>1, WorkingType DEF Updates, Working, Is, Request
<1>3. /\ i \in Rows /\ template' = [template EXCEPT ![i] = t] /\ Wrote(p, i) /\ UNCHANGED meta
      /\ reworked' = IF c.status = "rejected" THEN reworked \cup {i} ELSE reworked
  BY <1>2 DEF Updates, UpdateTemplate, Rows
<1>4. template[i] \in Template
  BY <1>1, <1>2, <1>3, RowsType
<1>5. /\ t.status = c.status
      /\ t.provider = IF c.provider = NoId THEN template[i].provider ELSE c.provider
  BY <1>2, <1>4 DEF Template
<1>6. template'[i] = t /\ \A j \in Ids \ {i} : template'[j] = template[j]
  BY <1>1, <1>2, <1>3 DEF TablesType
<1> HIDE DEF t
<1>7. ASSUME i \in Kept' PROVE RowHolds(t, meta)
  <2>1. ~work[p].stale /\ i \in Kept /\ c.status # "rejected"
    BY <1>3, <1>7 DEF Wrote, Kept
  <2>2. Fresh(p)
    BY <1>2, <2>1 DEF Fresh
  <2>3. CopyHolds(work[p], template[i], meta) /\ RowHolds(template[i], meta)
    BY <2>1, <2>2 DEF HeldInv, CopiesHold, RowsHold
  <2>4. c.status = "draft" /\ c.provider = template[i].provider /\ template[i].status = "draft"
    BY <1>2, <2>1, <2>3 DEF CopyHolds, Is
  <2>5. template[i].provider = NoId
    BY <2>3, <2>4 DEF RowHolds
  <2> QED
    BY <1>5, <2>4, <2>5 DEF RowHolds
<1> QED
  BY <1>3, <1>6, <1>7, WriterHeld

\* ... and a verdict or an id of Meta's.
LEMMA WritesStatusHeld ==
    ASSUME HeldInv, ApprovedInv', NEW p \in Requests, WritesStatus(p)
    PROVE  HeldInv'
<1> DEFINE i == work[p].id
           c == work[p].copy
           t == [template[i] EXCEPT !.status = c.status, !.provider = c.provider]
<1>1. WorkType /\ TablesType
  BY DEF HeldInv, ApprovedInv
<1>2. /\ work[p] \in Request /\ Working(p) /\ i \in Ids /\ c \in Template
      /\ work[p].step \in {"submitted", "sync"}
  BY <1>1, WorkingType DEF WritesStatus, Working, Is, Request
<1>3. Wrote(p, i) /\ UNCHANGED <<meta, reworked>>
  BY DEF WritesStatus
<1>4. template' = IF i \in Rows THEN [template EXCEPT ![i] = t] ELSE template
  BY <1>1, <1>2 DEF WritesStatus, UpdateTemplateStatus, Rows, TablesType
<1>5. \A j \in Ids \ {i} : template'[j] = template[j]
  BY <1>1, <1>4 DEF TablesType
<1>6. ASSUME i \in Kept' PROVE RowHolds(template'[i], meta)
  <2>1. ~work[p].stale /\ i \in Kept
    BY <1>3, <1>4, <1>6, RowsAssumption DEF Wrote, Kept, Rows, GetTemplateByID
  <2>2. Fresh(p)
    BY <1>2, <2>1 DEF Fresh
  <2>3. CopyHolds(work[p], template[i], meta) /\ RowHolds(template[i], meta)
    BY <2>1, <2>2 DEF HeldInv, CopiesHold, RowsHold
  <2>4. i \in Rows /\ template[i] \in Template
    BY <1>1, <1>2, <2>1, RowsType DEF Kept
  <2>5. t.status = c.status /\ t.provider = c.provider /\ t.content = template[i].content
    BY <1>2, <2>4 DEF Template
  <2>6. template'[i] = t
    BY <1>1, <1>2, <1>4, <2>4 DEF TablesType
  <2> HIDE DEF t
  <2> QED
    BY <1>2, <2>3, <2>5, <2>6 DEF CopyHolds, RowHolds
<1> QED
  BY <1>3, <1>5, <1>6, WriterHeld

\* What the rest of the steps writes is no row, or a row that goes.
LEMMA OthersHeld ==
    ASSUME HeldInv, ApprovedInv', Grows(meta, meta'), UNCHANGED <<work, muddled, reworked>>,
           \A i \in Rows' : i \in Rows /\ template'[i] = template[i]
    PROVE  HeldInv'
<1>1. \A i \in Kept' : i \in Kept /\ template'[i] = template[i]
  BY DEF Kept
<1>2. ASSUME NEW q \in Requests, Fresh(q)'
      PROVE  Fresh(q) /\ template'[work[q].id] = template[work[q].id]
  BY <1>1, <1>2 DEF Fresh, Working, Is
<1> QED
  BY <1>1, <1>2, HeldKept

LEMMA HeldStep ==
    ASSUME HeldInv, [Next]_vars
    PROVE  HeldInv'
<1>1. ApprovedInv /\ ApprovedInv'
  BY ApprovedStep DEF HeldInv
<1>2. ASSUME UNCHANGED vars PROVE HeldInv'
  BY <1>1, <1>2, GrowsSelf, OthersHeld DEF vars, history, Rows, GetTemplateByID
<1>3. ASSUME NEW n \in DOMAIN meta, NEW v \in Verdicts, Reviews(n, v) PROVE HeldInv'
  <2>1. UNCHANGED <<template, work, muddled, reworked>>
    BY <1>3 DEF Reviews, history
  <2> QED
    BY <1>1, <1>3, <2>1, ReviewsStep, OthersHeld DEF Rows, GetTemplateByID
<1>4. ASSUME NEW i \in Ids, Delete(i) PROVE HeldInv'
  <2>1. /\ template' = [template EXCEPT ![i] = Gone]
        /\ UNCHANGED <<meta, work, muddled, reworked>>
    BY <1>4 DEF Delete, DeleteTemplate, history
  <2>2. \A j \in Rows' : j \in Rows /\ template'[j] = template[j]
    BY <1>1, <2>1 DEF Rows, GetTemplateByID, ApprovedInv, TablesType
  <2> QED
    BY <1>1, <2>1, <2>2, GrowsSelf, OthersHeld
<1>5. ASSUME NEW k \in Keys, Sends(k) PROVE HeldInv'
  BY <1>1, <1>5, GrowsSelf, OthersHeld DEF Sends, history, Rows, GetTemplateByID
<1>6. ASSUME NEW p \in Requests, Fails(p) PROVE HeldInv'
  BY <1>1, <1>6, EndsHeld DEF Fails, history
<1> QED
  BY <1>1, <1>2, <1>3, <1>4, <1>5, <1>6, BeginsHeld, CreatesHeld, SubmitsHeld, UpdatesHeld,
     GetsStatusHeld, WritesStatusHeld DEF Next

\* A template that is pending or approved holds what Meta was given, unless it was
\* written from a stale read or edited after a rejection.
THEOREM HoldsWhatIsReviewed == Spec => []ReviewedIsWhatItHolds
<1>1. Init => HeldInv
  <2> SUFFICES ASSUME Init PROVE RowsHold /\ CopiesHold
    BY InitialInv DEF HeldInv
  <2>1. Kept = {}
    BY DEF Init, Kept, Rows, GetTemplateByID
  <2> QED
    BY <2>1 DEF RowsHold, CopiesHold, Fresh
<1>2. HeldInv /\ [Next]_vars => HeldInv'
  BY HeldStep
<1>3. HeldInv => ReviewedIsWhatItHolds
  BY DEF HeldInv, RowsHold, RowHolds, Kept, ReviewedIsWhatItHolds
<1> QED
  BY <1>1, <1>2, <1>3, PTL DEF Spec
=============================================================================
