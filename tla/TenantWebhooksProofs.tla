------------------------ MODULE TenantWebhooksProofs ------------------------
(***************************************************************************)
(* That the status of a delivery was earned and a pending one is worked on *)
(* (TenantWebhooks!StatusIsEarned, PendingIsWorkedOn), that DeliverEvent   *)
(* says nil only when it has posted to all, and that a success stays, for  *)
(* any number of endpoints, events, tickers and callers and any            *)
(* MaxAttempts; and type correctness.                                      *)
(*                                                                         *)
(* Attempts work on copies, so a row may be written from a count that is   *)
(* older than the row's.  Every copy and every outcome at work must itself *)
(* be backed by posts that were made, and posts never become fewer while   *)
(* the row is there; when its endpoint is deleted the row is gone for      *)
(* good, and nothing is asked of the copies.                               *)
(***************************************************************************)
EXTENDS TenantWebhooks, TLAPS

TablesType ==
    /\ endpoint \in [Endpoints -> Endpoint \cup {NoEndpoint, Deleted}]
    /\ delivery \in [Deliveries -> Row \cup {NoRow}]
    /\ posts \in [Deliveries -> 0 .. MaxAttempts]
    /\ accepted \in [Deliveries -> BOOLEAN]
HistoryType == raced \subseteq Deliveries /\ cut \subseteq Deliveries
WorkType == work \in [Processes -> {Idle} \cup Taking \cup Writing \cup Editing]

\* n attempts were posted; posts are counted up to MaxAttempts.
Covered(n, k) == n <= k \/ k = MaxAttempts
Earned(r, d, ps, acc) ==
    /\ r.status = "succeeded" => acc[d]
    /\ r.status = "failed" => ps[d] = MaxAttempts
    /\ r.status = "retrying" => r.attempts < MaxAttempts
    /\ Covered(r.attempts, ps[d])
CopyBacked(c, ends, rows, ps) ==
    /\ c.attempts <= MaxAttempts
    /\ \/ ends[c.id[2]] = Deleted
       \/ rows[c.id] # NoRow /\ Covered(c.attempts, ps[c.id])
JobBacked(d, r, ends, rows, ps, acc) ==
    /\ r.status # "pending"
    /\ \/ ends[d[2]] = Deleted
       \/ rows[d] # NoRow /\ Earned(r, d, ps, acc)

RowsInv == \A d \in Deliveries : HasRow(d) =>
    IsThere(d[2]) /\ Earned(delivery[d], d, posts, accepted)
Attempting(p) == Is(p, "take") \/ Is(p, "write")
WorkInv(p) ==
    /\ Attempting(p) => \A c \in work[p].todo :
           /\ Makes(p) => c.attempts = 0
           /\ ~Makes(p) => CopyBacked(c, endpoint, delivery, posts)
    /\ Is(p, "write") =>
           JobBacked(work[p].job, work[p].outcome, endpoint, delivery, posts, accepted)

EarnedInv ==
    /\ TablesType /\ HistoryType /\ WorkType
    /\ RowsInv /\ \A p \in Processes : WorkInv(p)
    /\ PendingIsWorkedOn

LEMMA WorkTypes ==
    ASSUME WorkType, NEW p \in Processes
    PROVE  /\ Is(p, "take") => work[p] \in Taking
           /\ Is(p, "write") => work[p] \in Writing
           /\ Is(p, "edit") => work[p] \in Editing
BY DEF WorkType, Is, Idle, Taking, Writing, Editing

LEMMA InitialInv == Init => EarnedInv
<1> SUFFICES ASSUME Init PROVE EarnedInv
  OBVIOUS
<1>1. TablesType /\ HistoryType
  BY WebhooksAssumption DEF Init, TablesType, HistoryType
<1>2. WorkType /\ \A p \in Processes : ~Attempting(p)
  BY DEF Init, WorkType, Attempting, Is, Idle
<1>3. \A p \in Processes : WorkInv(p)
  BY <1>2 DEF WorkInv, Attempting
<1>4. RowsInv /\ PendingIsWorkedOn
  BY DEF Init, RowsInv, PendingIsWorkedOn, HasRow
<1> QED
  BY <1>1, <1>2, <1>3, <1>4 DEF EarnedInv
-----------------------------------------------------------------------------
(* What goes forward. *)

\* Rows are kept, posted to and accepted, or go with their endpoint, for good.
Forward == \A d \in Deliveries :
    /\ endpoint[d[2]] = Deleted => endpoint'[d[2]] = Deleted
    /\ delivery[d] # NoRow =>
           \/ endpoint'[d[2]] = Deleted
           \/ /\ delivery'[d] # NoRow /\ posts[d] <= posts'[d]
              /\ accepted[d] => accepted'[d]

LEMMA CoveredStays ==
    ASSUME NEW n \in Nat, NEW k \in 0 .. MaxAttempts, NEW l \in 0 .. MaxAttempts,
           Covered(n, k), k <= l
    PROVE  Covered(n, l)
BY WebhooksAssumption DEF Covered

LEMMA EarnedStays ==
    ASSUME NEW d \in Deliveries, NEW r \in Row, TablesType, TablesType',
           Earned(r, d, posts, accepted), posts[d] <= posts'[d], accepted[d] => accepted'[d]
    PROVE  Earned(r, d, posts', accepted')
<1>1. /\ posts[d] \in 0 .. MaxAttempts /\ posts'[d] \in 0 .. MaxAttempts
      /\ r.attempts \in Nat
  BY WebhooksAssumption DEF TablesType, Row, Counts
<1>2. Covered(r.attempts, posts'[d])
  BY <1>1, CoveredStays DEF Earned
<1>3. posts[d] = MaxAttempts => posts'[d] = MaxAttempts
  BY <1>1, WebhooksAssumption
<1> QED
  BY <1>2, <1>3 DEF Earned

LEMMA CopyStays ==
    ASSUME TablesType, TablesType', Forward, NEW c \in Copy,
           CopyBacked(c, endpoint, delivery, posts)
    PROVE  CopyBacked(c, endpoint', delivery', posts')
<1>1. c.id \in Deliveries /\ c.attempts \in Nat
  BY WebhooksAssumption DEF Copy, Counts
<1>2. posts[c.id] \in 0 .. MaxAttempts /\ posts'[c.id] \in 0 .. MaxAttempts
  BY <1>1 DEF TablesType
<1> QED
  BY <1>1, <1>2, CoveredStays DEF CopyBacked, Forward

LEMMA WorkStays ==
    ASSUME TablesType, TablesType', WorkType, Forward, NEW q \in Processes,
           WorkInv(q), work'[q] = work[q]
    PROVE  WorkInv(q)'
<1>1. ASSUME Attempting(q), NEW c \in work[q].todo, ~Makes(q)
      PROVE  CopyBacked(c, endpoint', delivery', posts')
  <2>1. c \in Copy
    BY <1>1, WorkTypes DEF Attempting, Taking, Writing
  <2> QED
    BY <1>1, <2>1, CopyStays DEF WorkInv
<1>2. ASSUME Is(q, "write")
      PROVE  JobBacked(work[q].job, work[q].outcome, endpoint', delivery', posts', accepted')
  <2>1. work[q].job \in Deliveries /\ work[q].outcome \in Row
    BY <1>2, WorkTypes DEF Writing
  <2>2. JobBacked(work[q].job, work[q].outcome, endpoint, delivery, posts, accepted)
    BY <1>2 DEF WorkInv
  <2> QED
    BY <2>1, <2>2, EarnedStays DEF JobBacked, Forward
<1> QED
  BY <1>1, <1>2 DEF WorkInv, Attempting, Is, Makes
-----------------------------------------------------------------------------
(* Steps that write no delivery. *)

\* The tables of the deliveries stay; only p's work changes.
LEMMA WorkStep ==
    ASSUME EarnedInv, UNCHANGED <<delivery, posts, accepted>>, TablesType', HistoryType',
           \A e \in Endpoints : /\ IsThere(e) => IsThere(e)'
                                /\ endpoint[e] = Deleted => endpoint'[e] = Deleted,
           NEW p \in Processes, NEW r, work' = [work EXCEPT ![p] = r],
           r \in {Idle} \cup Taking \cup Writing \cup Editing, WorkInv(p)', PendingIsWorkedOn'
    PROVE  EarnedInv'
<1>1. \A d \in Deliveries : d[2] \in Endpoints
  BY DEF Deliveries
<1>2. \A d \in Deliveries : posts[d] <= posts'[d]
  BY WebhooksAssumption DEF EarnedInv, TablesType
<1>3. Forward
  BY <1>1, <1>2 DEF Forward
<1>4. \A q \in Processes \ {p} : work'[q] = work[q]
  BY DEF EarnedInv, WorkType
<1>5. \A q \in Processes : WorkInv(q)'
  BY <1>3, <1>4, WorkStays DEF EarnedInv
<1>6. RowsInv'
  BY <1>1 DEF EarnedInv, RowsInv, HasRow, Earned
<1>7. WorkType'
  BY DEF EarnedInv, WorkType
<1> QED
  BY <1>5, <1>6, <1>7 DEF EarnedInv

\* ... from a step that is no write.
LEMMA NoWriteStep ==
    ASSUME EarnedInv, UNCHANGED <<endpoint, delivery, posts, accepted>>, HistoryType', cut' = cut,
           NEW p \in Processes, ~Is(p, "write"), NEW r, work' = [work EXCEPT ![p] = r],
           r \in {Idle} \cup Taking \cup Editing, WorkInv(p)'
    PROVE  EarnedInv'
<1>1. TablesType'
  BY DEF EarnedInv, TablesType
<1>2. \A q \in Processes \ {p} : work'[q] = work[q]
  BY DEF EarnedInv, WorkType
<1>3. PendingIsWorkedOn'
  BY <1>2 DEF EarnedInv, PendingIsWorkedOn, HasRow, Is
<1>4. \A e \in Endpoints : /\ IsThere(e) => IsThere(e)'
                           /\ endpoint[e] = Deleted => endpoint'[e] = Deleted
  BY DEF IsThere
<1> QED
  BY <1>1, <1>3, <1>4, WorkStep

LEMMA CreatesEndpointStep ==
    ASSUME EarnedInv, NEW e \in Endpoints, CreatesEndpoint(e)
    PROVE  EarnedInv'
<1>1. PICK types \in SUBSET Types \ {{}} :
          /\ endpoint[e] = NoEndpoint
          /\ endpoint' = [endpoint EXCEPT ![e] = [active |-> TRUE, events |-> types]]
  BY DEF CreatesEndpoint, CreateWebhookEndpoint
<1>2. UNCHANGED <<delivery, work, posts, accepted, raced, cut>>
  BY DEF CreatesEndpoint, history
<1>3. [active |-> TRUE, events |-> types] \in Endpoint
  BY DEF Endpoint
<1>4. TablesType' /\ HistoryType' /\ WorkType'
  BY <1>1, <1>2, <1>3 DEF EarnedInv, TablesType, HistoryType, WorkType
<1>5. \A x \in Endpoints : /\ IsThere(x) => IsThere(x)'
                           /\ endpoint[x] = Deleted => endpoint'[x] = Deleted
  BY <1>1, <1>3, RowsAssumption DEF EarnedInv, TablesType, IsThere
<1>6. \A d \in Deliveries : d[2] \in Endpoints
  BY DEF Deliveries
<1>7. \A d \in Deliveries : posts[d] <= posts'[d]
  BY <1>2, WebhooksAssumption DEF EarnedInv, TablesType
<1>8. Forward
  BY <1>2, <1>5, <1>6, <1>7 DEF Forward
<1>9. \A q \in Processes : WorkInv(q)'
  BY <1>2, <1>4, <1>8, WorkStays DEF EarnedInv
<1>10. RowsInv' /\ PendingIsWorkedOn'
  BY <1>2, <1>5, <1>6 DEF EarnedInv, RowsInv, HasRow, Earned, PendingIsWorkedOn, Is
<1> QED
  BY <1>4, <1>9, <1>10 DEF EarnedInv

LEMMA DeletesEndpointStep ==
    ASSUME EarnedInv, NEW e \in Endpoints, DeletesEndpoint(e)
    PROVE  EarnedInv'
<1> DEFINE of == Occurrences \X {e}
<1>1. /\ endpoint' = [endpoint EXCEPT ![e] = Deleted] /\ work' = work
      /\ delivery' = [d \in Deliveries |-> IF d \in of THEN NoRow ELSE delivery[d]]
      /\ posts' = [d \in Deliveries |-> IF d \in of THEN 0 ELSE posts[d]]
      /\ accepted' = [d \in Deliveries |-> d \notin of /\ accepted[d]]
      /\ raced' = raced \ of /\ cut' = cut \ of
  BY DEF DeletesEndpoint
<1>2. \A d \in Deliveries : d[2] \in Endpoints /\ (d \in of <=> d[2] = e)
  BY DEF Deliveries
<1> HIDE DEF of
<1>3. endpoint' \in [Endpoints -> Endpoint \cup {NoEndpoint, Deleted}]
  BY <1>1 DEF EarnedInv, TablesType
<1>4. delivery' \in [Deliveries -> Row \cup {NoRow}]
  BY <1>1 DEF EarnedInv, TablesType
<1>5. posts' \in [Deliveries -> 0 .. MaxAttempts]
  BY <1>1, WebhooksAssumption DEF EarnedInv, TablesType
<1>6. accepted' \in [Deliveries -> BOOLEAN]
  BY <1>1 DEF EarnedInv, TablesType
<1>7. TablesType' /\ HistoryType' /\ WorkType'
  BY <1>1, <1>3, <1>4, <1>5, <1>6 DEF EarnedInv, TablesType, HistoryType, WorkType
<1>8. endpoint'[e] = Deleted /\ \A x \in Endpoints \ {e} : endpoint'[x] = endpoint[x]
  BY <1>1 DEF EarnedInv, TablesType
<1>9. \A d \in Deliveries : IF d[2] = e THEN delivery'[d] = NoRow
           ELSE delivery'[d] = delivery[d] /\ posts'[d] = posts[d] /\ accepted'[d] = accepted[d]
  BY <1>1, <1>2 DEF EarnedInv, TablesType
<1>10. \A d \in Deliveries : posts[d] \in 0 .. MaxAttempts
  BY DEF EarnedInv, TablesType
<1>11. Forward
  BY <1>2, <1>8, <1>9, <1>10, WebhooksAssumption DEF Forward
<1>12. \A q \in Processes : WorkInv(q)'
  BY <1>1, <1>7, <1>11, WorkStays DEF EarnedInv
<1>13. RowsInv'
  BY <1>2, <1>8, <1>9 DEF EarnedInv, RowsInv, HasRow, Earned, IsThere
<1>14. PendingIsWorkedOn'
  BY <1>1, <1>2, <1>9 DEF EarnedInv, PendingIsWorkedOn, HasRow, Is
<1> QED
  BY <1>7, <1>12, <1>13, <1>14 DEF EarnedInv

LEMMA EditStep ==
    ASSUME EarnedInv, NEW p \in Processes,
           \/ \E e \in Endpoints : ReadsEndpoint(p, e)
           \/ UpdatesEndpoint(p)
    PROVE  EarnedInv'
<1>1. ASSUME NEW e \in Endpoints, ReadsEndpoint(p, e)
      PROVE  EarnedInv'
  <2>1. PICK want \in Endpoint :
           work' = [work EXCEPT ![p] = [step |-> "edit", who |-> e, want |-> want]]
    BY <1>1 DEF ReadsEndpoint
  <2>2. [step |-> "edit", who |-> e, want |-> want] \in Editing
    BY DEF Editing
  <2>3. WorkInv(p)'
    BY <2>1 DEF WorkInv, Attempting, Is, EarnedInv, WorkType
  <2>4. UNCHANGED <<endpoint, delivery, posts, accepted, raced, cut>> /\ ~Is(p, "write")
    BY <1>1 DEF ReadsEndpoint, history, Is
  <2>5. HistoryType'
    BY <2>4 DEF EarnedInv, HistoryType
  <2> QED
    BY <2>1, <2>2, <2>3, <2>4, <2>5, NoWriteStep
<1>2. ASSUME UpdatesEndpoint(p)
      PROVE  EarnedInv'
  <2> DEFINE e == work[p].who
  <2>1. e \in Endpoints /\ work[p].want \in Endpoint
    BY <1>2, WorkTypes DEF UpdatesEndpoint, EarnedInv, Editing
  <2>2. \/ endpoint' = endpoint
        \/ IsThere(e) /\ endpoint' = [endpoint EXCEPT ![e] = work[p].want]
    BY <1>2 DEF UpdatesEndpoint
  <2> HIDE DEF e
  <2>3. \A x \in Endpoints : /\ IsThere(x) => IsThere(x)'
                             /\ endpoint[x] = Deleted => endpoint'[x] = Deleted
    BY <2>1, <2>2, RowsAssumption DEF EarnedInv, TablesType, IsThere
  <2>4. work' = [work EXCEPT ![p] = Idle] /\ UNCHANGED <<delivery, posts, accepted, raced, cut>>
    BY <1>2 DEF UpdatesEndpoint, Ends, history
  <2>5. TablesType' /\ HistoryType'
    BY <2>1, <2>2, <2>4 DEF EarnedInv, TablesType, HistoryType
  <2>6. \A q \in Processes \ {p} : work'[q] = work[q]
    BY <2>4 DEF EarnedInv, WorkType
  <2>7. PendingIsWorkedOn' /\ WorkInv(p)'
    BY <1>2, <2>4, <2>6 DEF UpdatesEndpoint, EarnedInv, PendingIsWorkedOn, HasRow, Is, WorkInv,
       Attempting, Idle, WorkType
  <2> QED
    BY <2>3, <2>4, <2>5, <2>7, WorkStep
<1> QED
  BY <1>1, <1>2

LEMMA StartsStep ==
    ASSUME EarnedInv, NEW p \in Processes, Is(p, "idle"), NEW k \in Kinds,
           NEW todo \in SUBSET Copy, NEW all \in SUBSET Deliveries, Starts(p, k, todo, all),
           UNCHANGED <<endpoint, delivery, posts, accepted, cut>>, HistoryType',
           \A c \in todo :
               /\ k \in {"event", "test"} => c.attempts = 0
               /\ k \notin {"event", "test"} => CopyBacked(c, endpoint, delivery, posts)
    PROVE  EarnedInv'
<1> DEFINE r == [step |-> "take", kind |-> k, todo |-> todo, all |-> all]
<1>1. r \in Taking /\ work' = [work EXCEPT ![p] = r]
  BY DEF Taking, Starts
<1>2. work'[p] = r
  BY <1>1 DEF EarnedInv, WorkType
<1>3. WorkInv(p)'
  BY <1>2 DEF WorkInv, Attempting, Is, Makes
<1> HIDE DEF r
<1> QED
  BY <1>1, <1>3, NoWriteStep DEF Is

LEMMA CallsStep ==
    ASSUME EarnedInv, NEW p \in Processes, NEW o \in Occurrences, NEW e \in Endpoints,
           (\E t \in Types : Delivers(p, o, t)) \/ Tests(p, o, e)
    PROVE  EarnedInv'
<1>1. \A d \in Deliveries : NewWebhookDelivery(d) \in Copy /\ NewWebhookDelivery(d).attempts = 0
  BY WebhooksAssumption DEF NewWebhookDelivery, Copy, Counts
<1>2. \A x \in Endpoints : <<o, x>> \in Deliveries
  BY DEF Deliveries
<1>3. ASSUME NEW t \in Types, Delivers(p, o, t)
      PROVE  EarnedInv'
  <2> DEFINE all == {<<o, x>> : x \in {y \in ListWebhookEndpoints : SubscribesTo(y, t)}}
             todo == {NewWebhookDelivery(d) : d \in all}
  <2>1. all \subseteq Deliveries
    BY <1>2 DEF ListWebhookEndpoints
  <2> HIDE DEF all
  <2>2. todo \subseteq Copy /\ \A c \in todo : c.attempts = 0
    BY <1>1, <2>1
  <2>3. Is(p, "idle") /\ Starts(p, "event", todo, all)
    BY <1>3 DEF Delivers, all
  <2>4. UNCHANGED <<endpoint, delivery, posts, accepted, raced, cut>>
    BY <1>3 DEF Delivers, history
  <2>5. HistoryType'
    BY <2>4 DEF EarnedInv, HistoryType
  <2> HIDE DEF todo
  <2> QED
    BY <2>1, <2>2, <2>3, <2>4, <2>5, StartsStep DEF Kinds
<1>4. ASSUME Tests(p, o, e)
      PROVE  EarnedInv'
  <2>1. {<<o, e>>} \subseteq Deliveries
    BY <1>2
  <2>2. /\ {NewWebhookDelivery(<<o, e>>)} \subseteq Copy
        /\ \A c \in {NewWebhookDelivery(<<o, e>>)} : c.attempts = 0
    BY <1>1, <1>2
  <2>3. Is(p, "idle") /\ Starts(p, "test", {NewWebhookDelivery(<<o, e>>)}, {<<o, e>>})
    BY <1>4 DEF Tests
  <2>4. UNCHANGED <<endpoint, delivery, posts, accepted, raced, cut>>
    BY <1>4 DEF Tests, history
  <2>5. HistoryType'
    BY <2>4 DEF EarnedInv, HistoryType
  <2> QED
    BY <2>1, <2>2, <2>3, <2>4, <2>5, StartsStep DEF Kinds
<1> QED
  BY <1>3, <1>4

\* Rows that may be attempted once more are read.
LEMMA ReadsStep ==
    ASSUME EarnedInv, NEW p \in Processes, Is(p, "idle"), NEW k \in {"replay", "due"},
           NEW read \in SUBSET Deliveries, Reads(p, k, read),
           \A d \in read : HasRow(d) /\ delivery[d].attempts <= MaxAttempts
    PROVE  EarnedInv'
<1> DEFINE todo == {CopyOf(d) : d \in read}
<1>1. \A d \in read : /\ CopyOf(d) \in Copy
                      /\ CopyBacked(CopyOf(d), endpoint, delivery, posts)
  <2>1. SUFFICES ASSUME NEW d \in read
                 PROVE  CopyOf(d) \in Copy /\ CopyBacked(CopyOf(d), endpoint, delivery, posts)
    OBVIOUS
  <2>2. delivery[d] \in Row /\ Covered(delivery[d].attempts, posts[d])
    BY DEF EarnedInv, TablesType, RowsInv, HasRow, Earned
  <2>3. CopyOf(d) \in Copy /\ CopyOf(d).id = d /\ CopyOf(d).attempts = delivery[d].attempts
    BY <2>2 DEF CopyOf, Copy, Row
  <2> HIDE DEF CopyOf
  <2> QED
    BY <2>2, <2>3 DEF CopyBacked, HasRow
<1>2. todo \subseteq Copy /\ \A c \in todo : CopyBacked(c, endpoint, delivery, posts)
  BY <1>1
<1>3. Starts(p, k, todo, {}) /\ UNCHANGED <<endpoint, delivery, posts, accepted, cut>>
  BY DEF Reads
<1>4. HistoryType'
  BY <1>3 DEF Reads, EarnedInv, HistoryType
<1> HIDE DEF todo
<1> QED
  BY <1>2, <1>3, <1>4, StartsStep DEF Kinds

LEMMA ListsStep ==
    ASSUME EarnedInv, NEW p \in Processes,
           \/ \E d \in Deliveries : Replays(p, d)
           \/ \E due \in SUBSET Deliveries : ListsDue(p, due)
    PROVE  EarnedInv'
<1>1. ASSUME NEW d \in Deliveries, Replays(p, d)
      PROVE  EarnedInv'
  BY <1>1, ReadsStep DEF Replays
<1>2. ASSUME NEW due \in SUBSET Deliveries, ListsDue(p, due)
      PROVE  EarnedInv'
  <2>1. ASSUME NEW d \in due
        PROVE  HasRow(d) /\ delivery[d].attempts <= MaxAttempts
    <3>1. HasRow(d) /\ delivery[d] \in Row /\ delivery[d].status = "retrying"
      BY <1>2 DEF ListsDue, IsDue, HasRow, EarnedInv, TablesType
    <3>2. delivery[d].attempts < MaxAttempts
      BY <3>1 DEF EarnedInv, RowsInv, Earned
    <3>3. delivery[d].attempts \in Nat
      BY <3>1, WebhooksAssumption DEF Row, Counts
    <3> QED
      BY <3>1, <3>2, <3>3, WebhooksAssumption
  <2> QED
    BY <1>2, <2>1, ReadsStep DEF ListsDue
<1> QED
  BY <1>1, <1>2
-----------------------------------------------------------------------------
(* An attempt. *)

\* One more attempt than a covered count is covered by one more post, and what
\* setNextWebhookAttempt makes of the count is earned.
LEMMA OutcomeEarned ==
    ASSUME NEW n \in 0 .. MaxAttempts, NEW k \in 0 .. MaxAttempts, Covered(n, k),
           NEW d, NEW ps, NEW acc, ps[d] = IF k = MaxAttempts THEN k ELSE k + 1
    PROVE  /\ acc[d] => Earned([status |-> "succeeded", attempts |-> n + 1], d, ps, acc)
           /\ Earned(SetNextWebhookAttempt(n + 1), d, ps, acc)
           /\ SetNextWebhookAttempt(n + 1) \in Row
           /\ SetNextWebhookAttempt(n + 1).status # "pending"
           /\ [status |-> "succeeded", attempts |-> n + 1] \in Row
<1>1. n + 1 \in Counts
  BY WebhooksAssumption DEF Counts
<1>2. Covered(n + 1, ps[d]) /\ (n + 1 >= MaxAttempts => ps[d] = MaxAttempts)
  BY WebhooksAssumption DEF Covered
<1> QED
  BY <1>1, <1>2, WebhooksAssumption DEF Earned, SetNextWebhookAttempt, Row

\* p posts a delivery whose row is there or just made, and whose endpoint is there.
LEMMA PostsStep ==
    ASSUME EarnedInv, NEW p \in Processes, Is(p, "take"), NEW c \in work[p].todo,
           IsThere(c.id[2]), Posts(p, c),
           \/ /\ Makes(p) /\ ~HasRow(c.id)
              /\ delivery' = [delivery EXCEPT ![c.id] =
                                 [status |-> "pending", attempts |-> c.attempts]]
           \/ ~Makes(p) /\ UNCHANGED delivery
    PROVE  EarnedInv'
<1> DEFINE d == c.id
           n == c.attempts
<1>1. work[p] \in Taking /\ c \in Copy /\ d \in Deliveries /\ n \in Counts
  BY WorkTypes DEF EarnedInv, Taking, Copy
<1>2. /\ Makes(p) => n = 0
      /\ ~Makes(p) => CopyBacked(c, endpoint, delivery, posts)
  BY DEF EarnedInv, WorkInv, Attempting
<1>3. endpoint[d[2]] # Deleted /\ d[2] \in Endpoints
  BY <1>1 DEF IsThere, Deliveries
<1>4. posts[d] \in 0 .. MaxAttempts
  BY <1>1 DEF EarnedInv, TablesType
<1>5. n \in 0 .. MaxAttempts /\ Covered(n, posts[d])
  BY <1>1, <1>2, <1>3, <1>4, WebhooksAssumption DEF CopyBacked, Counts, Covered
<1>6. delivery'[d] # NoRow /\ \A x \in Deliveries \ {d} : delivery'[x] = delivery[x]
  <2>1. CASE Makes(p)
    <3>1. [status |-> "pending", attempts |-> n] \in Row
      BY <1>1 DEF Row
    <3> QED
      BY <1>1, <2>1, <3>1, RowsAssumption DEF EarnedInv, TablesType
  <2>2. CASE ~Makes(p)
    BY <1>2, <1>3, <2>2 DEF CopyBacked
  <2> QED
    BY <2>1, <2>2
<1>7. PICK answer \in {"ok", "refuse", "lost"} :
        LET outcome == IF answer = "ok" THEN [status |-> "succeeded", attempts |-> n + 1]
                                        ELSE SetNextWebhookAttempt(n + 1)
        IN  /\ work' = [work EXCEPT ![p] =
                   [step |-> "write", kind |-> work[p].kind, todo |-> work[p].todo \ {c},
                    all |-> work[p].all, job |-> d, outcome |-> outcome]]
            /\ posts' = [posts EXCEPT ![d] = IF delivery'[d] = NoRow \/ @ = MaxAttempts
                                             THEN @ ELSE @ + 1]
            /\ accepted' = [accepted EXCEPT ![d] = @ \/
                   (delivery'[d] # NoRow /\ answer # "refuse")]
            /\ UNCHANGED <<endpoint, raced, cut>>
  BY DEF Posts
<1> DEFINE outcome == IF answer = "ok" THEN [status |-> "succeeded", attempts |-> n + 1]
                                       ELSE SetNextWebhookAttempt(n + 1)
           r == [step |-> "write", kind |-> work[p].kind, todo |-> work[p].todo \ {c},
                 all |-> work[p].all, job |-> d, outcome |-> outcome]
<1>8. /\ posts'[d] = IF posts[d] = MaxAttempts THEN posts[d] ELSE posts[d] + 1
      /\ \A x \in Deliveries \ {d} : posts'[x] = posts[x]
      /\ posts' \in [Deliveries -> 0 .. MaxAttempts]
  BY <1>1, <1>4, <1>6, <1>7, WebhooksAssumption DEF EarnedInv, TablesType
<1>9. /\ accepted[d] => accepted'[d]
      /\ answer = "ok" => accepted'[d]
      /\ \A x \in Deliveries \ {d} : accepted'[x] = accepted[x]
      /\ accepted' \in [Deliveries -> BOOLEAN]
  BY <1>1, <1>6, <1>7 DEF EarnedInv, TablesType
<1>10. /\ outcome \in Row /\ outcome.status # "pending"
       /\ Earned(outcome, d, posts', accepted')
  <2>1. /\ accepted'[d] =>
              Earned([status |-> "succeeded", attempts |-> n + 1], d, posts', accepted')
        /\ Earned(SetNextWebhookAttempt(n + 1), d, posts', accepted')
        /\ SetNextWebhookAttempt(n + 1) \in Row
        /\ SetNextWebhookAttempt(n + 1).status # "pending"
        /\ [status |-> "succeeded", attempts |-> n + 1] \in Row
    BY <1>4, <1>5, <1>8, OutcomeEarned
  <2> HIDE DEF n, d
  <2>2. CASE answer = "ok"
    BY <1>9, <2>1, <2>2
  <2>3. CASE answer # "ok"
    BY <2>1, <2>3
  <2> QED
    BY <2>2, <2>3
<1> HIDE DEF outcome
<1>11. r \in Writing /\ work' = [work EXCEPT ![p] = r]
  BY <1>1, <1>7, <1>10 DEF Writing, Taking, outcome
<1>12. /\ work'[p] = r /\ WorkType' /\ \A q \in Processes \ {p} : work'[q] = work[q]
  BY <1>11 DEF EarnedInv, WorkType
<1>13. delivery' \in [Deliveries -> Row \cup {NoRow}]
  BY <1>1 DEF EarnedInv, TablesType, Row
<1>14. TablesType' /\ HistoryType'
  BY <1>7, <1>8, <1>9, <1>13 DEF EarnedInv, TablesType, HistoryType
<1>15. \A x \in Deliveries : posts[x] <= posts'[x]
  BY <1>4, <1>8, WebhooksAssumption DEF EarnedInv, TablesType
<1>16. Forward
  BY <1>6, <1>7, <1>9, <1>15 DEF Forward
<1>17. WorkInv(p)'
  <2>1. JobBacked(d, outcome, endpoint', delivery', posts', accepted')
    BY <1>6, <1>10 DEF JobBacked
  <2>2. \A x \in work[p].todo : /\ Makes(p) => x.attempts = 0
                                /\ ~Makes(p) => CopyBacked(x, endpoint', delivery', posts')
    BY <1>1, <1>14, <1>16, CopyStays DEF EarnedInv, WorkInv, Attempting, Taking
  <2>3. /\ work'[p].job = d /\ work'[p].outcome = outcome
        /\ work'[p].kind = work[p].kind /\ work'[p].todo = work[p].todo \ {c}
    BY <1>12
  <2> HIDE DEF d, r
  <2> QED
    BY <2>1, <2>2, <2>3 DEF WorkInv, Makes
<1>18. \A q \in Processes : WorkInv(q)'
  BY <1>12, <1>14, <1>16, <1>17, WorkStays DEF EarnedInv
<1>19. RowsInv'
  <2>1. SUFFICES ASSUME NEW x \in Deliveries, delivery'[x] # NoRow
                 PROVE  IsThere(x[2])' /\ Earned(delivery'[x], x, posts', accepted')
    BY DEF RowsInv, HasRow
  <2>2. CASE delivery'[x] = delivery[x]
    <3>1. HasRow(x) /\ delivery[x] \in Row
      BY <2>1, <2>2 DEF HasRow, EarnedInv, TablesType
    <3>2. posts[x] <= posts'[x] /\ (accepted[x] => accepted'[x])
      BY <1>9, <1>15
    <3> QED
      BY <1>7, <1>14, <2>2, <3>1, <3>2, EarnedStays DEF EarnedInv, RowsInv, IsThere
  <2>3. CASE x = d /\ delivery'[x] = [status |-> "pending", attempts |-> n] /\ n = 0
    <3>1. posts'[d] \in 0 .. MaxAttempts
      BY <1>1, <1>8
    <3> QED
      BY <1>7, <2>3, <3>1 DEF Earned, Covered, IsThere
  <2> QED
    BY <1>1, <1>2, <1>6, <2>2, <2>3 DEF EarnedInv, TablesType
<1>20. PendingIsWorkedOn'
  <2>1. SUFFICES ASSUME NEW x \in Deliveries, delivery'[x] # NoRow,
                        delivery'[x].status = "pending"
                 PROVE  x \in cut \/ \E q \in Processes : work'[q].step = "write" /\ work'[q].job = x
    BY <1>7 DEF PendingIsWorkedOn, HasRow, Is
  <2>2. CASE x = d
    BY <1>12, <2>2
  <2>3. CASE x # d
    BY <1>6, <1>12, <2>1, <2>3 DEF EarnedInv, PendingIsWorkedOn, HasRow, Is
  <2> QED
    BY <2>2, <2>3
<1> QED
  BY <1>12, <1>14, <1>18, <1>19, <1>20 DEF EarnedInv

\* What p goes on with when it has written, or given up writing: nothing or the rest.
LEMMA RestBacked ==
    ASSUME EarnedInv, NEW p \in Processes, Is(p, "write"), TablesType', Forward,
           Ends(p) \/ GoesOn(p)
    PROVE  /\ \E r \in {Idle} \cup Taking : work' = [work EXCEPT ![p] = r]
           /\ WorkInv(p)' /\ WorkType' /\ ~Is(p, "write")'
           /\ \A q \in Processes \ {p} : work'[q] = work[q]
<1>1. work[p] \in Writing
  BY WorkTypes DEF EarnedInv
<1>2. \A q \in Processes \ {p} : work'[q] = work[q]
  BY DEF Ends, GoesOn, EarnedInv, WorkType
<1>3. CASE work' = [work EXCEPT ![p] = Idle]
  <2>1. work'[p] = Idle /\ WorkType'
    BY <1>3 DEF EarnedInv, WorkType
  <2>2. WorkInv(p)' /\ ~Is(p, "write")'
    BY <2>1 DEF WorkInv, Attempting, Is, Idle
  <2> QED
    BY <1>2, <1>3, <2>1, <2>2
<1>4. CASE work' = [work EXCEPT ![p] = Rest(p)]
  <2>1. Rest(p) \in Taking
    BY <1>1 DEF Rest, Writing, Taking
  <2>2. work'[p] = Rest(p) /\ WorkType'
    BY <1>4, <2>1 DEF EarnedInv, WorkType
  <2>3. \A c \in work[p].todo : /\ Makes(p) => c.attempts = 0
                                /\ ~Makes(p) => CopyBacked(c, endpoint', delivery', posts')
    BY <1>1, CopyStays DEF EarnedInv, WorkInv, Attempting, Writing
  <2>4. /\ work'[p].step = "take" /\ work'[p].kind = work[p].kind
        /\ work'[p].todo = work[p].todo
    BY <2>2 DEF Rest
  <2>5. WorkInv(p)' /\ ~Is(p, "write")'
    BY <2>3, <2>4 DEF WorkInv, Is, Makes
  <2> QED
    BY <1>2, <1>4, <2>1, <2>2, <2>5
<1> QED
  BY <1>2, <1>3, <1>4 DEF Ends, GoesOn

LEMMA WritesOutcomeStep ==
    ASSUME EarnedInv, NEW p \in Processes, WritesOutcome(p)
    PROVE  EarnedInv'
<1> DEFINE d == work[p].job
           o == work[p].outcome
<1>1. d \in Deliveries /\ o \in Row /\ Is(p, "write") /\ HasRow(d)
  BY WorkTypes DEF WritesOutcome, EarnedInv, Writing
<1>2. /\ delivery' = [delivery EXCEPT ![d] = o]
      /\ UNCHANGED <<endpoint, posts, accepted, cut>>
      /\ raced' \subseteq raced
  BY DEF WritesOutcome, Forgets
<1>3. Earned(o, d, posts, accepted) /\ o.status # "pending"
  BY <1>1 DEF EarnedInv, WorkInv, RowsInv, JobBacked, IsThere
<1> HIDE DEF d, o
<1>4. /\ delivery'[d] = o /\ o # NoRow
      /\ \A x \in Deliveries \ {d} : delivery'[x] = delivery[x]
  BY <1>1, <1>2, RowsAssumption DEF EarnedInv, TablesType
<1>5. TablesType' /\ HistoryType'
  BY <1>1, <1>2 DEF EarnedInv, TablesType, HistoryType
<1>6. \A x \in Deliveries : posts[x] <= posts'[x]
  BY <1>2, WebhooksAssumption DEF EarnedInv, TablesType
<1>7. Forward
  BY <1>2, <1>4, <1>6 DEF Forward
<1>8. /\ WorkInv(p)' /\ WorkType' /\ \A q \in Processes \ {p} : work'[q] = work[q]
  BY <1>1, <1>5, <1>7, RestBacked DEF WritesOutcome
<1>9. \A q \in Processes : WorkInv(q)'
  BY <1>5, <1>7, <1>8, WorkStays DEF EarnedInv
<1>10. RowsInv'
  BY <1>1, <1>2, <1>3, <1>4 DEF EarnedInv, RowsInv, HasRow, IsThere, Earned
<1>11. PendingIsWorkedOn'
  <2>1. SUFFICES ASSUME NEW x \in Deliveries \ {d}, HasRow(x), delivery[x].status = "pending"
                 PROVE  x \in cut \/ \E q \in Processes : work'[q].step = "write" /\ work'[q].job = x
    BY <1>2, <1>3, <1>4 DEF PendingIsWorkedOn, HasRow, Is
  <2>2. x \in cut \/ \E q \in Processes \ {p} : Is(q, "write") /\ work[q].job = x
    BY <2>1 DEF EarnedInv, PendingIsWorkedOn, d
  <2> QED
    BY <1>8, <2>2 DEF Is
<1> QED
  BY <1>5, <1>8, <1>9, <1>10, <1>11 DEF EarnedInv

\* p drops what it was doing; a row that it leaves pending is cut off.
LEMMA DropsStep ==
    ASSUME EarnedInv, NEW p \in Processes, UNCHANGED <<endpoint, delivery, posts, accepted>>,
           NEW r \in {Idle} \cup Taking, work' = [work EXCEPT ![p] = r], WorkInv(p)',
           raced' \subseteq raced, IF Is(p, "write") THEN Cuts(work[p].job) ELSE cut' = cut
    PROVE  EarnedInv'
<1>1. Is(p, "write") => work[p].job \in Deliveries
  BY WorkTypes DEF EarnedInv, Writing
<1>2. cut \subseteq cut' /\ cut' \subseteq Deliveries
  BY <1>1 DEF Cuts, EarnedInv, HistoryType
<1>3. TablesType' /\ HistoryType'
  BY <1>2 DEF EarnedInv, TablesType, HistoryType
<1>4. \A q \in Processes \ {p} : work'[q] = work[q]
  BY DEF EarnedInv, WorkType
<1>5. PendingIsWorkedOn'
  <2>1. SUFFICES ASSUME NEW x \in Deliveries, HasRow(x), delivery[x].status = "pending",
                        x \notin cut'
                 PROVE  \E q \in Processes : work'[q].step = "write" /\ work'[q].job = x
    BY DEF PendingIsWorkedOn, HasRow, Is
  <2>2. PICK q \in Processes : Is(q, "write") /\ work[q].job = x
    BY <1>2, <2>1 DEF EarnedInv, PendingIsWorkedOn
  <2>3. q # p
    BY <2>1, <2>2 DEF Cuts
  <2> QED
    BY <1>4, <2>2, <2>3 DEF Is
<1>6. \A e \in Endpoints : /\ IsThere(e) => IsThere(e)'
                           /\ endpoint[e] = Deleted => endpoint'[e] = Deleted
  BY DEF IsThere
<1> QED
  BY <1>3, <1>5, <1>6, WorkStep

LEMMA GivesUpStep ==
    ASSUME EarnedInv, NEW p \in Processes, CreateFails(p) \/ WriteFails(p) \/ Crash(p)
    PROVE  EarnedInv'
<1>1. UNCHANGED <<endpoint, delivery, posts, accepted>> /\ raced' \subseteq raced
  BY DEF CreateFails, WriteFails, Crash, Forgets, history
<1>2. IF Is(p, "write") THEN Cuts(work[p].job) ELSE cut' = cut
  BY DEF CreateFails, WriteFails, Crash, history, Is
<1>3. CASE Ends(p)
  <2>1. work' = [work EXCEPT ![p] = Idle]
    BY <1>3 DEF Ends
  <2>2. WorkInv(p)'
    BY <2>1 DEF WorkInv, Attempting, Is, Idle, EarnedInv, WorkType
  <2> QED
    BY <1>1, <1>2, <2>1, <2>2, DropsStep
<1>4. CASE Is(p, "write") /\ GoesOn(p)
  <2>1. TablesType'
    BY <1>1 DEF EarnedInv, TablesType
  <2>2. \A x \in Deliveries : posts[x] <= posts'[x]
    BY <1>1, WebhooksAssumption DEF EarnedInv, TablesType
  <2>3. Forward
    BY <1>1, <2>2 DEF Forward
  <2>4. PICK r \in {Idle} \cup Taking : work' = [work EXCEPT ![p] = r]
    BY <1>4, <2>1, <2>3, RestBacked
  <2>5. WorkInv(p)'
    BY <1>4, <2>1, <2>3, RestBacked
  <2> QED
    BY <1>1, <1>2, <2>4, <2>5, DropsStep
<1> QED
  BY <1>3, <1>4 DEF CreateFails, WriteFails, Crash

LEMMA EndpointMissingStep ==
    ASSUME EarnedInv, NEW p \in Processes, EndpointMissing(p)
    PROVE  EarnedInv'
<1>1. /\ UNCHANGED <<endpoint, delivery, posts, accepted, cut>> /\ raced' \subseteq raced
      /\ Is(p, "take") /\ work[p] \in Taking
  BY WorkTypes DEF EndpointMissing, Forgets, EarnedInv
<1>2. PICK c \in work[p].todo :
         work' = [work EXCEPT ![p] = IF Returns(p) \/ work[p].todo = {c} THEN Idle
                                     ELSE [work[p] EXCEPT !.todo = @ \ {c}]]
  BY DEF EndpointMissing
<1>3. PICK r \in {Idle, [work[p] EXCEPT !.todo = @ \ {c}]} : work' = [work EXCEPT ![p] = r]
  BY <1>2
<1>4. r \in {Idle} \cup Taking
  BY <1>1, <1>3 DEF Taking
<1>5. work'[p] = r
  BY <1>3 DEF EarnedInv, WorkType
<1>6. r = Idle \/ (r.step = "take" /\ r.kind = work[p].kind /\ r.todo \subseteq work[p].todo)
  BY <1>1, <1>3 DEF Taking
<1>7. WorkInv(p)
  BY DEF EarnedInv
<1>8. WorkInv(p)'
  <2>1. CASE r = Idle
    BY <1>5, <2>1 DEF WorkInv, Attempting, Is, Idle
  <2>2. CASE r.step = "take" /\ r.kind = work[p].kind /\ r.todo \subseteq work[p].todo
    BY <1>1, <1>5, <1>7, <2>2 DEF WorkInv, Attempting, Is, Makes
  <2> QED
    BY <1>6, <2>1, <2>2
<1>9. ~Is(p, "write")
  BY <1>1 DEF Is
<1> QED
  BY <1>1, <1>3, <1>4, <1>8, <1>9, DropsStep

LEMMA EarnedStep ==
    ASSUME EarnedInv, [Next]_vars
    PROVE  EarnedInv'
<1>1. CASE UNCHANGED vars
  <2>1. UNCHANGED <<endpoint, delivery, work, posts, accepted, raced, cut>>
    BY <1>1 DEF vars
  <2>2. TablesType' /\ HistoryType' /\ WorkType' /\ RowsInv' /\ PendingIsWorkedOn'
    BY <2>1 DEF EarnedInv, TablesType, HistoryType, WorkType, RowsInv, HasRow, IsThere, Earned,
       PendingIsWorkedOn, Is
  <2>3. \A q \in Processes : WorkInv(q)'
    BY <2>1 DEF EarnedInv, WorkInv, Attempting, Is, Makes
  <2> QED
    BY <2>2, <2>3 DEF EarnedInv
<1>2. ASSUME NEW p \in Processes, Attempts(p) \/ Crash(p)
      PROVE  EarnedInv'
  BY <1>2, PostsStep, WritesOutcomeStep, GivesUpStep, EndpointMissingStep
     DEF Attempts, CreatesDelivery, GetsEndpoint
<1>3. ASSUME NEW p \in Callers, NEW e \in Endpoints, NEW o \in Occurrences, NEW t \in Types,
             \/ ReadsEndpoint(p, e) \/ Delivers(p, o, t) \/ Tests(p, o, e)
             \/ Replays(p, <<o, e>>)
      PROVE  EarnedInv'
  <2>1. p \in Processes /\ <<o, e>> \in Deliveries
    BY DEF Processes, Deliveries
  <2> QED
    BY <1>3, <2>1, EditStep, CallsStep, ListsStep
<1>4. ASSUME NEW p \in Loops, NEW due \in SUBSET Deliveries, ListsDue(p, due)
      PROVE  EarnedInv'
  BY <1>4, ListsStep DEF Processes
<1> QED
  BY <1>1, <1>2, <1>3, <1>4, CreatesEndpointStep, DeletesEndpointStep, EditStep DEF Next

\* The tables and what the processes copied from them have their types.
THEOREM TypeCorrect == Spec => []TypeOK
<1>1. EarnedInv /\ [Next]_vars => EarnedInv'
  BY EarnedStep
<1>2. EarnedInv => TypeOK
  BY DEF EarnedInv, TypeOK, TablesType, HistoryType, WorkType
<1> QED
  BY InitialInv, <1>1, <1>2, PTL DEF Spec

\* A delivery that is shown as succeeded was taken by its endpoint, and one that
\* is given up was posted MaxAttempts times.
THEOREM StatusIsTrue == Spec => []StatusIsEarned
<1>1. EarnedInv /\ [Next]_vars => EarnedInv'
  BY EarnedStep
<1>2. EarnedInv => StatusIsEarned
  BY DEF EarnedInv, RowsInv, Earned, StatusIsEarned
<1> QED
  BY InitialInv, <1>1, <1>2, PTL DEF Spec

\* A delivery is pending only while somebody works on it, or when its first attempt
\* was cut off before its write.
THEOREM PendingIsKnown == Spec => []PendingIsWorkedOn
<1>1. EarnedInv /\ [Next]_vars => EarnedInv'
  BY EarnedStep
<1>2. EarnedInv => PendingIsWorkedOn
  BY DEF EarnedInv
<1> QED
  BY InitialInv, <1>1, <1>2, PTL DEF Spec
-----------------------------------------------------------------------------
(* Who holds a row, and what a call has done. *)

\* No list holds two copies of one row, nor one of the row in hand, and only the
\* tickers look for what is due.
OwnInv(p) == Attempting(p) =>
    /\ \A b, c \in work[p].todo : b.id = c.id => b = c
    /\ Is(p, "write") /\ ~Makes(p) => \A c \in work[p].todo : c.id # work[p].job
    /\ work[p].kind # "due" => p \in Callers

\* A row that is not raced for is in one process's hands, and is what it was when
\* that one read or made it.
UnracedInv == \A d \in Deliveries \ raced : HasRow(d) =>
    /\ \A p, q \in Processes : d \in HeldBy(p) /\ d \in HeldBy(q) => p = q
    /\ \A p \in Processes : d \in HeldBy(p) =>
           /\ work[p].kind = "due" => delivery[d].status = "retrying"
           /\ Makes(p) => delivery[d].status = "pending"

\* A delivery that a call is through with was posted and has its outcome, or is gone.
Posted(d) == endpoint[d[2]] = Deleted \/ (HasRow(d) /\ posts[d] > 0)
Done(d) ==
    \/ endpoint[d[2]] = Deleted
    \/ HasRow(d) /\ posts[d] > 0 /\ delivery[d].status # "pending"
AllInv(p) ==
    /\ Is(p, "write") => Posted(work[p].job)
    /\ Attempting(p) /\ Makes(p) => \A d \in work[p].all :
           \/ \E c \in work[p].todo : c.id = d
           \/ Is(p, "write") /\ work[p].job = d
           \/ Done(d)
HandsInv ==
    EarnedInv /\ UnracedInv /\ \A p \in Processes : OwnInv(p) /\ AllInv(p)

\* What was posted stays so, and no row becomes pending again.
Advances == \A d \in Deliveries :
    /\ endpoint[d[2]] = Deleted => endpoint'[d[2]] = Deleted
    /\ HasRow(d) =>
           \/ endpoint'[d[2]] = Deleted
           \/ /\ HasRow(d)' /\ posts[d] <= posts'[d]
              /\ delivery'[d].status = "pending" => delivery[d].status = "pending"

LEMMA DoneStays ==
    ASSUME EarnedInv, EarnedInv', Advances, NEW d \in Deliveries
    PROVE  (Done(d) => Done(d)') /\ (Posted(d) => Posted(d)')
<1>1. posts[d] \in Nat /\ posts'[d] \in Nat
  BY WebhooksAssumption DEF EarnedInv, TablesType
<1> QED
  BY <1>1 DEF Advances, Done, Posted

LEMMA PostsAdvance ==
    ASSUME EarnedInv, NEW p \in Processes, NEW c \in work[p].todo, Is(p, "take"), Posts(p, c)
    PROVE  /\ endpoint' = endpoint /\ c.id \in Deliveries
           /\ \A d \in Deliveries : posts[d] <= posts'[d]
           /\ delivery'[c.id] # NoRow => posts'[c.id] > 0
<1>1. c.id \in Deliveries
  BY WorkTypes DEF EarnedInv, Taking, Copy
<1>2. /\ posts' = [posts EXCEPT ![c.id] = IF delivery'[c.id] = NoRow \/ @ = MaxAttempts
                                          THEN @ ELSE @ + 1]
      /\ endpoint' = endpoint
  BY DEF Posts
<1>3. posts \in [Deliveries -> 0 .. MaxAttempts]
  BY DEF EarnedInv, TablesType
<1> QED
  BY <1>1, <1>2, <1>3, WebhooksAssumption

LEMMA StepAdvances ==
    ASSUME EarnedInv, [Next]_vars
    PROVE  Advances
<1>1. \A d \in Deliveries : posts[d] <= posts[d] /\ d[2] \in Endpoints
  BY WebhooksAssumption DEF EarnedInv, TablesType, Deliveries
<1>2. ASSUME UNCHANGED <<delivery, posts>>,
             \A e \in Endpoints : endpoint[e] = Deleted => endpoint'[e] = Deleted
      PROVE  Advances
  BY <1>1, <1>2 DEF Advances, HasRow
<1>3. ASSUME UNCHANGED <<delivery, posts, endpoint>> PROVE Advances
  BY <1>2, <1>3
<1>4. ASSUME NEW e \in Endpoints, CreatesEndpoint(e) PROVE Advances
  <2>1. endpoint[e] = NoEndpoint /\ (\E r : endpoint' = [endpoint EXCEPT ![e] = r])
        /\ UNCHANGED <<delivery, posts>>
    BY <1>4 DEF CreatesEndpoint, CreateWebhookEndpoint, history
  <2> QED
    BY <1>2, <2>1, RowsAssumption DEF EarnedInv, TablesType
<1>5. ASSUME NEW p \in Processes, UpdatesEndpoint(p) PROVE Advances
  <2>1. /\ \/ endpoint' = endpoint
           \/ /\ IsThere(work[p].who)
              /\ endpoint' = [endpoint EXCEPT ![work[p].who] = work[p].want]
        /\ UNCHANGED <<delivery, posts>>
    BY <1>5 DEF UpdatesEndpoint, history
  <2> QED
    BY <1>2, <2>1 DEF EarnedInv, TablesType, IsThere
<1>6. ASSUME NEW e \in Endpoints, DeletesEndpoint(e) PROVE Advances
  <2> DEFINE of == Occurrences \X {e}
  <2>1. /\ endpoint' = [endpoint EXCEPT ![e] = Deleted]
        /\ delivery' = [d \in Deliveries |-> IF d \in of THEN NoRow ELSE delivery[d]]
        /\ posts' = [d \in Deliveries |-> IF d \in of THEN 0 ELSE posts[d]]
    BY <1>6 DEF DeletesEndpoint
  <2>2. \A d \in Deliveries : d \in of <=> d[2] = e
    BY DEF Deliveries
  <2> HIDE DEF of
  <2>3. \A x \in Endpoints : endpoint'[x] = IF x = e THEN Deleted ELSE endpoint[x]
    BY <2>1 DEF EarnedInv, TablesType
  <2> QED
    BY <1>1, <2>1, <2>2, <2>3 DEF Advances, HasRow
<1>7. ASSUME NEW p \in Processes, CreatesDelivery(p) PROVE Advances
  <2>1. PICK c \in work[p].todo :
            /\ ~HasRow(c.id) /\ Posts(p, c) /\ Is(p, "take")
            /\ delivery' = [delivery EXCEPT ![c.id] =
                               [status |-> "pending", attempts |-> c.attempts]]
    BY <1>7 DEF CreatesDelivery
  <2>2. \A d \in Deliveries : HasRow(d) => delivery'[d] = delivery[d]
    BY <2>1 DEF HasRow, EarnedInv, TablesType
  <2> QED
    BY <2>1, <2>2, PostsAdvance DEF Advances, HasRow
<1>8. ASSUME NEW p \in Processes, GetsEndpoint(p) PROVE Advances
  <2>1. PICK c \in work[p].todo : Posts(p, c) /\ Is(p, "take") /\ delivery' = delivery
    BY <1>8 DEF GetsEndpoint
  <2> QED
    BY <2>1, PostsAdvance DEF Advances, HasRow
<1>9. ASSUME NEW p \in Processes, WritesOutcome(p) PROVE Advances
  <2> DEFINE d == work[p].job
             o == work[p].outcome
  <2>1. d \in Deliveries /\ o \in Row /\ o.status # "pending" /\ HasRow(d)
    BY <1>9, WorkTypes DEF WritesOutcome, EarnedInv, Writing, WorkInv, JobBacked
  <2>2. delivery' = [delivery EXCEPT ![d] = o] /\ UNCHANGED <<endpoint, posts>>
    BY <1>9 DEF WritesOutcome
  <2> HIDE DEF d, o
  <2>3. \A x \in Deliveries : delivery'[x] = IF x = d THEN o ELSE delivery[x]
    BY <2>1, <2>2 DEF EarnedInv, TablesType
  <2> QED
    BY <1>1, <2>1, <2>2, <2>3, RowsAssumption DEF Advances, HasRow
<1>10. ASSUME NEW p \in Processes,
              CreateFails(p) \/ EndpointMissing(p) \/ WriteFails(p) \/ Crash(p)
       PROVE  Advances
  BY <1>3, <1>10 DEF CreateFails, EndpointMissing, WriteFails, Crash, history
<1>11. ASSUME NEW p, NEW o, NEW e, NEW t,
              \/ ReadsEndpoint(p, e) \/ Delivers(p, o, t) \/ Tests(p, o, e)
              \/ Replays(p, <<o, e>>)
       PROVE  Advances
  BY <1>3, <1>11 DEF ReadsEndpoint, Delivers, Tests, Replays, Reads, history
<1>12. ASSUME NEW p, NEW due, ListsDue(p, due) PROVE Advances
  BY <1>3, <1>12 DEF ListsDue, Reads
<1>13. ASSUME UNCHANGED vars PROVE Advances
  BY <1>3, <1>13 DEF vars
<1> QED
  BY <1>4, <1>5, <1>6, <1>7, <1>8, <1>9, <1>10, <1>11, <1>12, <1>13 DEF Next, Attempts

\* What process q has in hand does not change with the work of others.
LEMMA OthersOwn ==
    ASSUME HandsInv, EarnedInv', Advances, NEW q \in Processes, work'[q] = work[q]
    PROVE  OwnInv(q)' /\ AllInv(q)' /\ HeldBy(q)' = HeldBy(q) /\ Makes(q)' = Makes(q)
<1>1. OwnInv(q) /\ AllInv(q) /\ EarnedInv
  BY DEF HandsInv
<1>2. OwnInv(q)' /\ HeldBy(q)' = HeldBy(q) /\ Makes(q)' = Makes(q)
  BY <1>1 DEF OwnInv, Attempting, Is, Makes, HeldBy
<1>3. /\ Attempting(q) => work[q].all \subseteq Deliveries
      /\ Is(q, "write") => work[q].job \in Deliveries
  BY <1>1, WorkTypes DEF Attempting, EarnedInv, Taking, Writing
<1>4. Is(q, "write") => Posted(work[q].job)'
  BY <1>1, <1>3, DoneStays DEF AllInv
<1>5. ASSUME Attempting(q), Makes(q), NEW d \in work[q].all
      PROVE  \/ \E c \in work[q].todo : c.id = d
             \/ Is(q, "write") /\ work[q].job = d
             \/ Done(d)'
  BY <1>1, <1>3, <1>5, DoneStays DEF AllInv
<1> QED
  BY <1>2, <1>4, <1>5 DEF AllInv, Attempting, Is, Makes, Posted, Done, HasRow

\* A step of p.  A row that is not raced for after it is in nobody's hands, or is as
\* it was and p has not come by it, or p alone has come by it.
LEMMA OneActs ==
    ASSUME HandsInv, EarnedInv', Advances, NEW p,
           \A q \in Processes \ {p} : work'[q] = work[q],
           p \in Processes => OwnInv(p)' /\ AllInv(p)',
           \A d \in Deliveries \ raced' : HasRow(d)' =>
               \/ \A q \in Processes : d \notin HeldBy(q)'
               \/ /\ d \notin raced /\ HasRow(d) /\ delivery'[d] = delivery[d]
                  /\ p \in Processes /\ d \in HeldBy(p)' =>
                         d \in HeldBy(p) /\ work'[p].kind = work[p].kind
               \/ /\ \A q \in Processes \ {p} : d \notin HeldBy(q)
                  /\ work'[p].kind = "due" => delivery'[d].status = "retrying"
                  /\ Makes(p)' => delivery'[d].status = "pending"
    PROVE  HandsInv'
<1>1. \A q \in Processes \ {p} :
          /\ OwnInv(q)' /\ AllInv(q)' /\ HeldBy(q)' = HeldBy(q)
          /\ Makes(q)' = Makes(q) /\ work'[q] = work[q]
  BY OthersOwn
<1>2. ASSUME NEW d \in Deliveries \ raced', HasRow(d)'
      PROVE  /\ \A q, r \in Processes : d \in HeldBy(q)' /\ d \in HeldBy(r)' => q = r
             /\ \A q \in Processes : d \in HeldBy(q)' =>
                    /\ work'[q].kind = "due" => delivery'[d].status = "retrying"
                    /\ Makes(q)' => delivery'[d].status = "pending"
  <2>1. CASE \A q \in Processes : d \notin HeldBy(q)'
    BY <2>1
  <2>2. CASE /\ d \notin raced /\ HasRow(d) /\ delivery'[d] = delivery[d]
             /\ p \in Processes /\ d \in HeldBy(p)' =>
                    d \in HeldBy(p) /\ work'[p].kind = work[p].kind
    <3>1. /\ \A q, r \in Processes : d \in HeldBy(q) /\ d \in HeldBy(r) => q = r
          /\ \A q \in Processes : d \in HeldBy(q) =>
                 /\ work[q].kind = "due" => delivery[d].status = "retrying"
                 /\ Makes(q) => delivery[d].status = "pending"
      BY <2>2 DEF HandsInv, UnracedInv
    <3>2. \A q \in Processes : d \in HeldBy(q)' =>
              d \in HeldBy(q) /\ work'[q].kind = work[q].kind
      BY <1>1, <2>2
    <3> HIDE DEF HeldBy
    <3> QED
      BY <2>2, <3>1, <3>2 DEF Makes
  <2>3. CASE /\ \A q \in Processes \ {p} : d \notin HeldBy(q)
             /\ work'[p].kind = "due" => delivery'[d].status = "retrying"
             /\ Makes(p)' => delivery'[d].status = "pending"
    BY <1>1, <2>3
  <2> QED
    BY <1>2, <2>1, <2>2, <2>3
<1>3. UnracedInv'
  BY <1>2 DEF UnracedInv
<1> QED
  BY <1>1, <1>3 DEF HandsInv

\* A process that attempts nothing has nothing in hand.
LEMMA IdleOwn ==
    ASSUME NEW p \in Processes, ~Attempting(p)', Is(p, "idle")' \/ Is(p, "edit")'
    PROVE  OwnInv(p)' /\ AllInv(p)' /\ HeldBy(p)' = {}
BY DEF OwnInv, AllInv, Attempting, HeldBy, Is

LEMMA EndsOwn ==
    ASSUME EarnedInv, NEW p \in Processes, Ends(p)
    PROVE  /\ OwnInv(p)' /\ AllInv(p)' /\ HeldBy(p)' = {}
           /\ \A q \in Processes \ {p} : work'[q] = work[q]
<1>1. work'[p] = Idle /\ \A q \in Processes \ {p} : work'[q] = work[q]
  BY DEF Ends, EarnedInv, WorkType
<1> QED
  BY <1>1, IdleOwn DEF Idle, Is, Attempting

\* p holds nothing that it has not held; nothing is written, and nobody else reads.
LEMMA DropsHands ==
    ASSUME HandsInv, EarnedInv', Advances, NEW p \in Processes,
           \A q \in Processes \ {p} : work'[q] = work[q], OwnInv(p)', AllInv(p)',
           delivery' = delivery, raced' = raced \/ Forgets,
           \A d \in HeldBy(p)' : d \in HeldBy(p) /\ work'[p].kind = work[p].kind
    PROVE  HandsInv'
<1>1. ASSUME NEW d \in Deliveries \ raced', d \in raced
      PROVE  \A q \in Processes : d \notin HeldBy(q)'
  BY <1>1 DEF Forgets
<1>2. \A d \in Deliveries : HasRow(d)' = HasRow(d)
  BY DEF HasRow
<1> QED
  BY <1>1, <1>2, OneActs

LEMMA EndpointHands ==
    ASSUME HandsInv, EarnedInv', Advances,
           \E e \in Endpoints : CreatesEndpoint(e) \/ DeletesEndpoint(e)
    PROVE  HandsInv'
<1>1. work' = work /\ \A q \in Processes : HeldBy(q)' = HeldBy(q)
  BY DEF CreatesEndpoint, DeletesEndpoint, HeldBy, Is, Makes
<1>2. \A d \in Deliveries \ raced' :
          HasRow(d)' => d \notin raced /\ HasRow(d) /\ delivery'[d] = delivery[d]
  <2>1. CASE \E e \in Endpoints : CreatesEndpoint(e)
    BY <2>1 DEF CreatesEndpoint, history, HasRow
  <2>2. ASSUME NEW e \in Endpoints, DeletesEndpoint(e), NEW d \in Deliveries \ raced', HasRow(d)'
        PROVE  d \notin raced /\ HasRow(d) /\ delivery'[d] = delivery[d]
    BY <2>2 DEF DeletesEndpoint, HasRow
  <2> QED
    BY <2>1, <2>2
<1>3. PICK p : p \notin Processes
  <2>1. \E x : x \notin Processes
    BY NoSetContainsEverything
  <2> QED
    BY <2>1
<1> QED
  BY <1>1, <1>2, <1>3, OneActs

LEMMA EditHands ==
    ASSUME HandsInv, EarnedInv', Advances, NEW p \in Processes,
           (\E e \in Endpoints : ReadsEndpoint(p, e)) \/ UpdatesEndpoint(p)
    PROVE  HandsInv'
<1>1. EarnedInv /\ UNCHANGED <<delivery, raced>>
  BY DEF HandsInv, ReadsEndpoint, UpdatesEndpoint, history
<1>2. /\ \A q \in Processes \ {p} : work'[q] = work[q]
      /\ Is(p, "idle")' \/ Is(p, "edit")'
  BY <1>1 DEF ReadsEndpoint, UpdatesEndpoint, Ends, Is, Idle, EarnedInv, WorkType
<1>3. OwnInv(p)' /\ AllInv(p)' /\ HeldBy(p)' = {}
  BY <1>2, IdleOwn DEF Attempting, Is
<1> QED
  BY <1>1, <1>2, <1>3, DropsHands

LEMMA CallsHands ==
    ASSUME HandsInv, EarnedInv', Advances, NEW p \in Callers, p \in Processes,
           NEW o, NEW e, NEW t, Delivers(p, o, t) \/ Tests(p, o, e)
    PROVE  HandsInv'
<1>1. EarnedInv /\ UNCHANGED <<delivery, raced>>
  BY DEF HandsInv, Delivers, Tests, history
<1>2. PICK all : \E k \in {"event", "test"} :
                    Starts(p, k, {NewWebhookDelivery(d) : d \in all}, all)
  <2>1. CASE Delivers(p, o, t)
    BY <2>1 DEF Delivers
  <2>2. CASE Tests(p, o, e)
    <3>1. {NewWebhookDelivery(<<o, e>>)} = {NewWebhookDelivery(d) : d \in {<<o, e>>}}
      OBVIOUS
    <3> QED
      BY <2>2, <3>1 DEF Tests
  <2> QED
    BY <2>1, <2>2
<1>3. PICK k \in {"event", "test"} : Starts(p, k, {NewWebhookDelivery(d) : d \in all}, all)
  BY <1>2
<1> DEFINE todo == {NewWebhookDelivery(d) : d \in all}
<1>4. /\ work'[p] = [step |-> "take", kind |-> k, todo |-> todo, all |-> all]
      /\ \A q \in Processes \ {p} : work'[q] = work[q]
  BY <1>1, <1>3 DEF Starts, EarnedInv, WorkType
<1>5. \A d : NewWebhookDelivery(d).id = d
  BY DEF NewWebhookDelivery
<1>6. /\ \A b, c \in todo : b.id = c.id => b = c
      /\ \A d \in all : \E c \in todo : c.id = d
  BY <1>5
<1> HIDE DEF todo
<1>7. OwnInv(p)' /\ AllInv(p)' /\ HeldBy(p)' = {}
  BY <1>4, <1>6 DEF OwnInv, AllInv, HeldBy, Attempting, Is, Makes
<1> QED
  BY <1>1, <1>4, <1>7, DropsHands

\* Rows that p reads are its own, or raced for.
LEMMA ReadsHands ==
    ASSUME HandsInv, EarnedInv', Advances, NEW p \in Processes, Is(p, "idle"),
           NEW k \in {"replay", "due"}, NEW read, Reads(p, k, read),
           k = "replay" => p \in Callers,
           k = "due" => \A d \in read : delivery[d].status = "retrying"
    PROVE  HandsInv'
<1> DEFINE todo == {CopyOf(d) : d \in read}
<1>1. /\ EarnedInv /\ UNCHANGED <<delivery, endpoint>> /\ Starts(p, k, todo, {})
      /\ raced' = raced \cup {d \in read : \E q \in Processes \ {p} : d \in HeldBy(q)}
  BY DEF HandsInv, Reads
<1>2. /\ work'[p] = [step |-> "take", kind |-> k, todo |-> todo, all |-> {}]
      /\ \A q \in Processes \ {p} : work'[q] = work[q]
  BY <1>1 DEF Starts, EarnedInv, WorkType
<1>3. \A d : CopyOf(d).id = d
  BY DEF CopyOf
<1>4. (\A b, c \in todo : b.id = c.id => b = c) /\ {c.id : c \in todo} = read
  BY <1>3
<1> HIDE DEF todo
<1>5. OwnInv(p)' /\ AllInv(p)' /\ HeldBy(p)' = read /\ ~Makes(p)'
  BY <1>2, <1>4 DEF OwnInv, AllInv, HeldBy, Attempting, Is, Makes
<1>6. ASSUME NEW d \in Deliveries \ raced', HasRow(d)', d \notin read
      PROVE  d \notin raced /\ HasRow(d) /\ delivery'[d] = delivery[d] /\ d \notin HeldBy(p)'
  BY <1>1, <1>5, <1>6 DEF HasRow
<1>7. ASSUME NEW d \in Deliveries \ raced', d \in read
      PROVE  /\ \A q \in Processes \ {p} : d \notin HeldBy(q)
             /\ work'[p].kind = "due" => delivery'[d].status = "retrying"
             /\ ~Makes(p)'
  BY <1>1, <1>2, <1>5, <1>7
<1> QED
  BY <1>2, <1>5, <1>6, <1>7, OneActs

\* Nobody has a delivery in hand that has no row while its endpoint is there.
LEMMA NobodyHolds ==
    ASSUME EarnedInv, NEW d \in Deliveries, ~HasRow(d), IsThere(d[2])
    PROVE  \A q \in Processes : d \notin HeldBy(q)
<1>1. ASSUME NEW q \in Processes, d \in HeldBy(q) PROVE FALSE
  <2>1. endpoint[d[2]] # Deleted /\ delivery[d] = NoRow
    BY DEF HasRow, IsThere
  <2>2. WorkInv(q)
    BY DEF EarnedInv
  <2>3. CASE Is(q, "write") /\ work[q].job = d
    BY <2>1, <2>2, <2>3 DEF WorkInv, JobBacked
  <2>4. CASE Attempting(q) /\ ~Makes(q) /\ \E c \in work[q].todo : c.id = d
    BY <2>1, <2>2, <2>4 DEF WorkInv, CopyBacked
  <2>5. Attempting(q)
    BY <1>1, WorkTypes DEF HeldBy, Attempting, EarnedInv, WorkType, Taking, Writing, Editing, Idle, Is
  <2> QED
    BY <1>1, <2>3, <2>4, <2>5 DEF HeldBy
<1> QED
  BY <1>1

\* p posts one of its list.
LEMMA PostsHands ==
    ASSUME HandsInv, EarnedInv', Advances, NEW p \in Processes, Is(p, "take"),
           NEW c \in work[p].todo, IsThere(c.id[2]), Posts(p, c),
           \/ /\ Makes(p) /\ ~HasRow(c.id)
              /\ delivery' = [delivery EXCEPT ![c.id] =
                                 [status |-> "pending", attempts |-> c.attempts]]
           \/ ~Makes(p) /\ UNCHANGED delivery
    PROVE  HandsInv'
<1> DEFINE d == c.id
<1>1. EarnedInv /\ OwnInv(p) /\ AllInv(p)
  BY DEF HandsInv
<1>2. work[p] \in Taking /\ c \in Copy /\ d \in Deliveries
  BY <1>1, WorkTypes DEF EarnedInv, Taking, Copy
<1>3. /\ raced' = raced /\ \A q \in Processes \ {p} : work'[q] = work[q]
      /\ work'[p].step = "write" /\ work'[p].kind = work[p].kind
      /\ work'[p].todo = work[p].todo \ {c} /\ work'[p].all = work[p].all
      /\ work'[p].job = d
  BY <1>1 DEF Posts, EarnedInv, WorkType
<1>4. \A x \in Deliveries \ {d} : delivery'[x] = delivery[x]
  BY <1>1, <1>2 DEF EarnedInv, TablesType
<1>5. HasRow(d)'
  <2>1. CASE Makes(p)
    <3>1. [status |-> "pending", attempts |-> c.attempts] \in Row
      BY <1>2 DEF Row, Copy
    <3> QED
      BY <1>1, <1>2, <2>1, <3>1, RowsAssumption DEF EarnedInv, TablesType, HasRow
  <2>2. CASE ~Makes(p)
    BY <1>1, <2>2 DEF EarnedInv, WorkInv, Attempting, CopyBacked, IsThere, HasRow
  <2> QED
    BY <2>1, <2>2
<1>6. posts'[d] > 0
  BY <1>1, <1>5, PostsAdvance DEF HasRow
<1>7. OwnInv(p)'
  BY <1>1, <1>3 DEF OwnInv, Attempting, Is, Makes
<1>8. AllInv(p)'
  <2>1. Posted(d)'
    BY <1>5, <1>6 DEF Posted, HasRow
  <2>2. ASSUME Makes(p), NEW x \in work[p].all
        PROVE  \/ \E b \in work[p].todo \ {c} : b.id = x
               \/ d = x
               \/ Done(x)'
    <3>1. x \in Deliveries
      BY <1>2 DEF Taking
    <3>2. \/ \E b \in work[p].todo : b.id = x
          \/ Done(x)
      BY <1>1, <2>2 DEF AllInv, Attempting, Is
    <3> QED
      BY <1>1, <3>1, <3>2, DoneStays
  <2> HIDE DEF d
  <2>3. Is(p, "write")' => Posted(work[p].job)'
    BY <1>3, <2>1 DEF Posted, HasRow
  <2>4. Makes(p)' => \A x \in work'[p].all :
           \/ \E b \in work'[p].todo : b.id = x
           \/ work'[p].job = x
           \/ Done(x)'
    BY <1>3, <2>2 DEF Makes
  <2> QED
    BY <1>3, <2>3, <2>4 DEF AllInv, Is
<1>9. HeldBy(p)' = {d} \cup IF Makes(p) THEN {} ELSE {b.id : b \in work[p].todo \ {c}}
  BY <1>3 DEF HeldBy, Is, Makes
<1>10. CASE ~Makes(p)
  <2>1. delivery' = delivery /\ \A x \in HeldBy(p)' : x \in HeldBy(p)
    BY <1>9, <1>10 DEF HeldBy, Is
  <2> QED
    BY <1>3, <1>7, <1>8, <2>1, DropsHands
<1>11. CASE Makes(p)
  <2>1. ~HasRow(d) /\ delivery'[d].status = "pending"
    BY <1>1, <1>2, <1>11 DEF EarnedInv, TablesType
  <2>2. \A q \in Processes : d \notin HeldBy(q)
    BY <1>1, <1>2, <2>1, NobodyHolds
  <2>3. work'[p].kind # "due"
    BY <1>3, <1>11 DEF Makes
  <2>4. ASSUME NEW x \in Deliveries \ raced', HasRow(x)', x # d
        PROVE  x \notin raced /\ HasRow(x) /\ delivery'[x] = delivery[x] /\ x \notin HeldBy(p)'
    BY <1>3, <1>4, <1>9, <1>11, <2>4 DEF HasRow
  <2> HIDE DEF d
  <2> QED
    BY <1>3, <1>7, <1>8, <2>1, <2>2, <2>3, <2>4, OneActs
<1> QED
  BY <1>10, <1>11

\* What p goes on with when it is through with its job.
LEMMA GoesOnOwn ==
    ASSUME HandsInv, EarnedInv', Advances, NEW p \in Processes, Is(p, "write"), GoesOn(p),
           NEW j \in Deliveries, work[p].job = j, Makes(p) => Done(j)'
    PROVE  /\ OwnInv(p)' /\ AllInv(p)'
           /\ \A q \in Processes \ {p} : work'[q] = work[q]
           /\ \A d \in HeldBy(p)' :
                  d \in HeldBy(p) /\ work'[p].kind = work[p].kind /\ d # j
<1>1. EarnedInv /\ OwnInv(p) /\ AllInv(p)
  BY DEF HandsInv
<1>2. work[p] \in Writing /\ \A q \in Processes \ {p} : work'[q] = work[q]
  BY <1>1, WorkTypes DEF EarnedInv, GoesOn, WorkType
<1>3. CASE work[p].todo = {}
  <2>1. Ends(p)
    BY <1>3 DEF GoesOn, Ends
  <2> QED
    BY <1>1, <1>2, <2>1, EndsOwn
<1>4. CASE work[p].todo # {}
  <2>1. /\ work'[p].step = "take" /\ work'[p].kind = work[p].kind
        /\ work'[p].todo = work[p].todo /\ work'[p].all = work[p].all
    BY <1>1, <1>4 DEF GoesOn, Rest, EarnedInv, WorkType
  <2>2. OwnInv(p)'
    BY <1>1, <2>1 DEF OwnInv, Attempting, Is, Makes
  <2>3. ASSUME Makes(p), NEW x \in work[p].all
        PROVE  (\E b \in work[p].todo : b.id = x) \/ Done(x)'
    <3>1. x \in Deliveries
      BY <1>2 DEF Writing
    <3>2. \/ \E b \in work[p].todo : b.id = x
          \/ work[p].job = x
          \/ Done(x)
      BY <1>1, <2>3 DEF AllInv, Attempting, Is
    <3> QED
      BY <1>1, <2>3, <3>1, <3>2, DoneStays
  <2>4. AllInv(p)'
    BY <2>1, <2>3 DEF AllInv, Is, Makes
  <2>5. HeldBy(p)' = IF Makes(p) THEN {} ELSE {c.id : c \in work[p].todo}
    BY <2>1 DEF HeldBy, Is, Makes
  <2>6. \A d \in HeldBy(p)' : d \in HeldBy(p) /\ d # j
    BY <1>1, <2>5 DEF HeldBy, OwnInv, Attempting, Is
  <2> QED
    BY <1>2, <2>1, <2>2, <2>4, <2>6
<1> QED
  BY <1>3, <1>4

LEMMA WritesHands ==
    ASSUME HandsInv, EarnedInv', Advances, NEW p \in Processes, WritesOutcome(p)
    PROVE  HandsInv'
<1> DEFINE o == work[p].outcome
<1>1. EarnedInv /\ OwnInv(p) /\ AllInv(p) /\ Is(p, "write") /\ GoesOn(p)
  BY DEF HandsInv, WritesOutcome
<1>2. PICK j : j = work[p].job
  OBVIOUS
<1>3. j \in Deliveries /\ o \in Row /\ HasRow(j) /\ o.status # "pending"
  BY <1>1, <1>2, WorkTypes DEF EarnedInv, Writing, WritesOutcome, WorkInv, JobBacked
<1>4. delivery' = [delivery EXCEPT ![j] = o] /\ UNCHANGED <<endpoint, posts>> /\ Forgets
  BY <1>2 DEF WritesOutcome
<1> HIDE DEF o
<1>5. \A d \in Deliveries : delivery'[d] = IF d = j THEN o ELSE delivery[d]
  BY <1>1, <1>3, <1>4 DEF EarnedInv, TablesType
<1>6. Done(j)'
  BY <1>1, <1>2, <1>3, <1>4, <1>5, RowsAssumption DEF AllInv, Posted, Done, HasRow
<1>7. /\ OwnInv(p)' /\ AllInv(p)'
      /\ \A q \in Processes \ {p} : work'[q] = work[q]
      /\ \A d \in HeldBy(p)' :
             d \in HeldBy(p) /\ work'[p].kind = work[p].kind /\ d # j
  BY <1>1, <1>2, <1>3, <1>6, GoesOnOwn
<1>8. \A q \in Processes \ {p} : HeldBy(q)' = HeldBy(q)
  BY <1>7, OthersOwn
<1>9. j \in HeldBy(p)
  BY <1>1, <1>2 DEF HeldBy, Is
<1>10. ASSUME NEW d \in Deliveries \ raced', HasRow(d)', NEW q \in Processes, d \in HeldBy(q)'
       PROVE  d \notin raced /\ HasRow(d) /\ d # j
  <2>1. d \notin raced
    BY <1>4, <1>10 DEF Forgets
  <2>2. d # j
    BY <1>3, <1>7, <1>8, <1>9, <1>10, <2>1 DEF HandsInv, UnracedInv
  <2> QED
    BY <1>5, <1>10, <2>1, <2>2 DEF HasRow
<1> QED
  BY <1>5, <1>7, <1>10, OneActs

\* p gives up: a list that goes on lost its first row, a call returns.
LEMMA GivesUpHands ==
    ASSUME HandsInv, EarnedInv', Advances, NEW p \in Processes,
           CreateFails(p) \/ EndpointMissing(p) \/ WriteFails(p) \/ Crash(p)
    PROVE  HandsInv'
<1>1. EarnedInv /\ OwnInv(p) /\ AllInv(p) /\ delivery' = delivery /\ (raced' = raced \/ Forgets)
  BY DEF HandsInv, CreateFails, EndpointMissing, WriteFails, Crash, history
<1>2. CASE Ends(p)
  BY <1>1, <1>2, EndsOwn, DropsHands
<1>3. CASE Is(p, "write") /\ ~Returns(p) /\ GoesOn(p)
  <2>1. PICK j \in Deliveries : work[p].job = j
    BY <1>1, <1>3, WorkTypes DEF EarnedInv, Writing
  <2>2. ~Makes(p)
    BY <1>3 DEF Returns, Makes
  <2>3. /\ OwnInv(p)' /\ AllInv(p)'
        /\ \A q \in Processes \ {p} : work'[q] = work[q]
        /\ \A d \in HeldBy(p)' :
               d \in HeldBy(p) /\ work'[p].kind = work[p].kind /\ d # j
    BY <1>3, <2>1, <2>2, GoesOnOwn
  <2> QED
    BY <1>1, <2>3, DropsHands
<1>4. CASE EndpointMissing(p) /\ ~Ends(p)
  <2>1. work[p] \in Taking /\ ~Makes(p) /\ Is(p, "take")
    BY <1>1, <1>4, WorkTypes DEF EarnedInv, EndpointMissing
  <2>2. PICK c \in work[p].todo : work' = [work EXCEPT ![p] = [work[p] EXCEPT !.todo = @ \ {c}]]
    BY <1>4 DEF EndpointMissing, Ends
  <2>3. /\ \A q \in Processes \ {p} : work'[q] = work[q]
        /\ work'[p] = [work[p] EXCEPT !.todo = @ \ {c}]
    BY <1>1, <2>2 DEF EarnedInv, WorkType
  <2>4. /\ work'[p].step = "take" /\ work'[p].kind = work[p].kind
        /\ work'[p].todo = work[p].todo \ {c} /\ work'[p].all = work[p].all
    BY <2>1, <2>3 DEF Taking, Is
  <2>5. OwnInv(p)'
    BY <1>1, <2>1, <2>4 DEF OwnInv, Attempting, Is, Makes
  <2>6. AllInv(p)'
    BY <2>1, <2>4 DEF AllInv, Attempting, Is, Makes
  <2>7. \A d \in HeldBy(p)' : d \in HeldBy(p)
    BY <2>1, <2>4 DEF HeldBy, Is, Makes
  <2> QED
    BY <1>1, <2>3, <2>4, <2>5, <2>6, <2>7, DropsHands
<1> QED
  BY <1>2, <1>3, <1>4 DEF CreateFails, WriteFails, Crash

LEMMA InitialHands == Init => HandsInv
<1> SUFFICES ASSUME Init PROVE HandsInv
  OBVIOUS
<1>1. EarnedInv
  BY InitialInv
<1>2. \A p \in Processes : work[p] = Idle
  BY DEF Init
<1>3. \A p \in Processes : OwnInv(p) /\ AllInv(p) /\ HeldBy(p) = {}
  BY <1>2 DEF OwnInv, AllInv, Attempting, HeldBy, Is, Idle
<1>4. UnracedInv
  BY <1>3 DEF UnracedInv
<1> QED
  BY <1>1, <1>3, <1>4 DEF HandsInv

LEMMA HandsStep ==
    ASSUME HandsInv, [Next]_vars
    PROVE  HandsInv'
<1>1. EarnedInv
  BY DEF HandsInv
<1>2. EarnedInv' /\ Advances
  BY <1>1, EarnedStep, StepAdvances
<1>3. CASE UNCHANGED vars
  <2>1. UNCHANGED <<endpoint, delivery, work, posts, raced>>
    BY <1>3 DEF vars
  <2>2. \A p \in Processes :
            OwnInv(p)' /\ AllInv(p)' /\ HeldBy(p)' = HeldBy(p) /\ Makes(p)' = Makes(p)
    BY <1>2, <2>1, OthersOwn
  <2>3. UnracedInv'
    BY <2>1, <2>2 DEF HandsInv, UnracedInv, HasRow
  <2> QED
    BY <1>2, <2>2, <2>3 DEF HandsInv
<1>4. ASSUME NEW p \in Processes, Attempts(p) \/ Crash(p)
      PROVE  HandsInv'
  BY <1>2, <1>4, PostsHands, WritesHands, GivesUpHands
     DEF Attempts, CreatesDelivery, GetsEndpoint
<1>5. ASSUME NEW p \in Callers, NEW e \in Endpoints, NEW o \in Occurrences, NEW t \in Types,
             \/ ReadsEndpoint(p, e) \/ Delivers(p, o, t) \/ Tests(p, o, e)
             \/ Replays(p, <<o, e>>)
      PROVE  HandsInv'
  <2>1. p \in Processes
    BY DEF Processes
  <2>2. CASE Replays(p, <<o, e>>)
    BY <1>2, <2>1, <2>2, ReadsHands DEF Replays
  <2> QED
    BY <1>2, <1>5, <2>1, <2>2, EditHands, CallsHands
<1>6. ASSUME NEW p \in Loops, NEW due \in SUBSET Deliveries, ListsDue(p, due)
      PROVE  HandsInv'
  <2>1. p \in Processes /\ Is(p, "idle") /\ Reads(p, "due", due)
        /\ \A d \in due : delivery[d].status = "retrying"
    BY <1>6 DEF Processes, ListsDue, IsDue
  <2> QED
    BY <1>2, <2>1, ReadsHands
<1> QED
  BY <1>2, <1>3, <1>4, <1>5, <1>6, EndpointHands, EditHands DEF Next

\* Who touches the deliveries: the deletion of an endpoint, the creation of a row and
\* the write of an outcome.
LEMMA WhoTouchesDeliveries ==
    ASSUME [Next]_vars, delivery' # delivery
    PROVE  \/ \E e \in Endpoints : DeletesEndpoint(e)
           \/ \E p \in Processes : CreatesDelivery(p) \/ WritesOutcome(p)
<1>1. ~UNCHANGED vars
  BY DEF vars
<1>2. ASSUME NEW e \in Endpoints, CreatesEndpoint(e) PROVE FALSE
  BY <1>2 DEF CreatesEndpoint
<1>3. ASSUME NEW p \in Callers, NEW e \in Endpoints, NEW o \in Occurrences, NEW t \in Types,
             \/ ReadsEndpoint(p, e) \/ Delivers(p, o, t) \/ Tests(p, o, e)
             \/ Replays(p, <<o, e>>)
      PROVE  FALSE
  BY <1>3 DEF ReadsEndpoint, Delivers, Tests, Replays, Reads
<1>4. ASSUME NEW p \in Loops, NEW due \in SUBSET Deliveries, ListsDue(p, due) PROVE FALSE
  BY <1>4 DEF ListsDue, Reads
<1>5. ASSUME NEW p \in Processes, UpdatesEndpoint(p) \/ Crash(p) PROVE FALSE
  BY <1>5 DEF UpdatesEndpoint, Crash
<1>6. ASSUME NEW p \in Processes, Attempts(p) PROVE CreatesDelivery(p) \/ WritesOutcome(p)
  <2>1. ~CreateFails(p) /\ ~GetsEndpoint(p)
    BY DEF CreateFails, GetsEndpoint
  <2>2. ~EndpointMissing(p) /\ ~WriteFails(p)
    BY DEF EndpointMissing, WriteFails
  <2> QED
    BY <1>6, <2>1, <2>2 DEF Attempts
<1> QED
  BY <1>1, <1>2, <1>3, <1>4, <1>5, <1>6 DEF Next

\* Only the write of an outcome, or the deletion of its endpoint, changes a row.
LEMMA WhoWrites ==
    ASSUME EarnedInv, [Next]_vars, NEW d \in Deliveries, HasRow(d),
           delivery'[d] \notin {delivery[d], NoRow}
    PROVE  \E p \in Processes : WritesOutcome(p) /\ work[p].job = d
<1>1. delivery' # delivery
  OBVIOUS
<1>2. ASSUME NEW e \in Endpoints, DeletesEndpoint(e) PROVE FALSE
  BY <1>2 DEF DeletesEndpoint
<1>3. ASSUME NEW p \in Processes, CreatesDelivery(p) PROVE FALSE
  BY <1>3 DEF CreatesDelivery, HasRow, EarnedInv, TablesType
<1>4. ASSUME NEW p \in Processes, WritesOutcome(p)
      PROVE  work[p].job = d
  BY <1>4 DEF WritesOutcome, EarnedInv, TablesType
<1>5. PICK p \in Processes : WritesOutcome(p)
  BY <1>1, <1>2, <1>3, WhoTouchesDeliveries
<1> QED
  BY <1>4, <1>5

\* A call returns without an error only by its last write.
LEMMA WhoReturns ==
    ASSUME EarnedInv, [Next]_vars, NEW p \in Processes, ReturnsNil(p)
    PROVE  WritesOutcome(p)
<1>1. Is(p, "write") /\ work'[p] # work[p] /\ delivery' # delivery /\ endpoint' = endpoint
  BY DEF ReturnsNil, Is, Idle
<1>2. ASSUME NEW e \in Endpoints, DeletesEndpoint(e) PROVE FALSE
  BY <1>1, <1>2 DEF DeletesEndpoint
<1>3. ASSUME NEW q \in Processes, CreatesDelivery(q) PROVE FALSE
  <2>1. PICK r : work' = [work EXCEPT ![q] = r]
    BY <1>3 DEF CreatesDelivery, Posts
  <2> QED
    BY <1>1, <1>3, <2>1 DEF CreatesDelivery, Is, EarnedInv, WorkType
<1>4. ASSUME NEW q \in Processes, WritesOutcome(q)
      PROVE  q = p
  BY <1>1, <1>4 DEF WritesOutcome, GoesOn, EarnedInv, WorkType
<1>5. PICK q \in Processes : WritesOutcome(q)
  BY <1>1, <1>2, <1>3, WhoTouchesDeliveries
<1> QED
  BY <1>4, <1>5

\* When DeliverEvent returns without an error, every endpoint that subscribed when it
\* began was posted to, and its delivery has an outcome or is gone with its endpoint.
THEOREM NilMeansAll == Spec => NoErrorMeansAll
<1>1. HandsInv /\ [Next]_vars => HandsInv'
  BY HandsStep
<1>2. HandsInv /\ [Next]_vars =>
          [\A p \in Processes : ReturnsNil(p) =>
              \A d \in work[p].all :
                  \/ delivery'[d] = NoRow
                  \/ posts[d] > 0 /\ delivery'[d].status # "pending"]_vars
  <2>1. SUFFICES ASSUME HandsInv, [Next]_vars, NEW p \in Processes, ReturnsNil(p),
                        NEW d \in work[p].all
                 PROVE  \/ delivery'[d] = NoRow
                        \/ posts[d] > 0 /\ delivery'[d].status # "pending"
    OBVIOUS
  <2>2. EarnedInv /\ AllInv(p) /\ WritesOutcome(p) /\ Is(p, "write") /\ HasRow(work[p].job)
    BY <2>1, WhoReturns DEF HandsInv, WritesOutcome
  <2>3. /\ work[p].job \in Deliveries /\ work[p].outcome \in Row /\ d \in Deliveries
        /\ work[p].outcome.status # "pending"
    BY <2>1, <2>2, WorkTypes DEF EarnedInv, Writing, WorkInv, JobBacked
  <2>4. \A x \in Deliveries :
            delivery'[x] = IF x = work[p].job THEN work[p].outcome ELSE delivery[x]
    BY <2>2, <2>3 DEF WritesOutcome, EarnedInv, TablesType
  <2>5. \A x \in Deliveries : HasRow(x) => endpoint[x[2]] # Deleted
    BY <2>2 DEF EarnedInv, RowsInv, IsThere
  <2>6. work[p].job = d \/ Done(d)
    BY <2>1, <2>2 DEF ReturnsNil, AllInv, Attempting, Makes
  <2>7. CASE work[p].job = d
    BY <2>2, <2>3, <2>4, <2>5, <2>7 DEF AllInv, Posted
  <2>8. CASE work[p].job # d /\ Done(d)
    BY <2>3, <2>4, <2>5, <2>8 DEF Done, HasRow
  <2> QED
    BY <2>6, <2>7, <2>8
<1> QED
  BY InitialHands, <1>1, <1>2, PTL DEF Spec, NoErrorMeansAll

\* A success is not undone, unless two worked on copies of the row at one time or
\* somebody asked for a replay.
THEOREM SuccessesStay == Spec => SuccessStays
<1>1. HandsInv /\ [Next]_vars => HandsInv'
  BY HandsStep
<1>2. HandsInv /\ [Next]_vars =>
          [\A d \in Deliveries \ raced :
              HasRow(d) /\ delivery[d].status = "succeeded" =>
                  \/ delivery'[d] \in {delivery[d], NoRow} \/ delivery'[d].status = "succeeded"
                  \/ \E p \in Callers : /\ Is(p, "write") /\ work[p].kind = "replay"
                                        /\ work[p].job = d]_vars
  <2>1. SUFFICES ASSUME HandsInv, [Next]_vars, NEW d \in Deliveries \ raced,
                        HasRow(d), delivery[d].status = "succeeded",
                        delivery'[d] \notin {delivery[d], NoRow}
                 PROVE  \E p \in Callers : /\ Is(p, "write") /\ work[p].kind = "replay"
                                           /\ work[p].job = d
    OBVIOUS
  <2>2. PICK p \in Processes : WritesOutcome(p) /\ work[p].job = d
    BY <2>1, WhoWrites DEF HandsInv
  <2>3. Is(p, "write") /\ work[p] \in Writing /\ d \in HeldBy(p)
    BY <2>1, <2>2, WorkTypes DEF HandsInv, EarnedInv, WritesOutcome, HeldBy, Is
  <2>4. work[p].kind \notin {"due", "event", "test"}
    BY <2>1, <2>3 DEF HandsInv, UnracedInv, Makes
  <2>5. work[p].kind = "replay" /\ p \in Callers
    BY <2>1, <2>3, <2>4 DEF Writing, Kinds, HandsInv, OwnInv, Attempting
  <2> QED
    BY <2>2, <2>3, <2>5
<1> QED
  BY InitialHands, <1>1, <1>2, PTL DEF Spec, SuccessStays
=============================================================================
