--------------------------- MODULE TenantWebhooks ---------------------------
(***************************************************************************)
(* The webhooks of a tenant (core/services/tenant_webhook_service.go).     *)
(* DeliverEvent lists the endpoints, creates a pending delivery for each   *)
(* that subscribes, posts it and writes the outcome.  A ticker in every    *)
(* process lists the deliveries that are due and attempts them again, and  *)
(* a request may replay or test.  Every attempt works on the copy of the   *)
(* row it read, and nobody claims a row.                                   *)
(*                                                                         *)
(* Faults says what may go wrong: "refuse" (no 2xx answer), "lost" (the    *)
(* endpoint took the event and the answer did not arrive), "create",       *)
(* "read", "write" (the statement fails), "crash" (the work is dropped).   *)
(***************************************************************************)
EXTENDS Naturals, FiniteSets

CONSTANTS
    Endpoints, Occurrences,   \* webhook ids, event ids
    Types,                    \* event types
    Loops, Callers,           \* tickers; requests and DeliverEvent calls
    MaxAttempts,              \* maxWebhookAttempts, 5
    Faults,
    NoEndpoint, Deleted, NoRow

ASSUME WebhooksAssumption ==
    /\ MaxAttempts \in Nat \ {0}
    /\ Loops \cap Callers = {}
    /\ Types # {}

VARIABLES
    endpoint, delivery,       \* the tables
    work,                     \* work[p]: what p is doing, and the rows it copied
    posts, accepted,          \* history: requests sent (up to MaxAttempts); taken
    raced,                    \* history: deliveries in the hands of two at one time
    cut                       \* history: pending ones whose attempt got no write

vars == <<endpoint, delivery, work, posts, accepted, raced, cut>>
history == <<posts, accepted, raced, cut>>

Processes  == Loops \cup Callers
Deliveries == Occurrences \X Endpoints
May(f)     == f \in Faults

Endpoint == [active : BOOLEAN, events : SUBSET Types \ {{}}]
Counts   == 0 .. MaxAttempts + 1
Row      == [status : {"pending", "succeeded", "retrying", "failed"},
             attempts : Counts]

ASSUME RowsAssumption ==
    /\ {NoEndpoint, Deleted} \cap Endpoint = {} /\ NoEndpoint # Deleted
    /\ NoRow \notin Row

\* A copy of a row: what an attempt knows of it.
Copy == [id : Deliveries, attempts : Counts]
Idle == [step |-> "idle"]
Kinds == {"event", "test", "replay", "due"}
\* all: the deliveries that a call which makes rows set out for.
Taking  == [step : {"take"}, kind : Kinds, todo : SUBSET Copy, all : SUBSET Deliveries]
Writing == [step : {"write"}, kind : Kinds, todo : SUBSET Copy, all : SUBSET Deliveries,
            job : Deliveries, outcome : Row]
Editing == [step : {"edit"}, who : Endpoints, want : Endpoint]

TypeOK ==
    /\ endpoint \in [Endpoints -> Endpoint \cup {NoEndpoint, Deleted}]
    /\ delivery \in [Deliveries -> Row \cup {NoRow}]
    /\ work \in [Processes -> {Idle} \cup Taking \cup Writing \cup Editing]
    /\ posts \in [Deliveries -> 0 .. MaxAttempts]
    /\ accepted \in [Deliveries -> BOOLEAN]
    /\ raced \subseteq Deliveries /\ cut \subseteq Deliveries

Init ==
    /\ endpoint = [e \in Endpoints |-> NoEndpoint]
    /\ delivery = [d \in Deliveries |-> NoRow]
    /\ work = [p \in Processes |-> Idle]
    /\ posts = [d \in Deliveries |-> 0]
    /\ accepted = [d \in Deliveries |-> FALSE]
    /\ raced = {} /\ cut = {}

Is(p, s)    == work[p].step = s
IsThere(e)  == endpoint[e] \notin {NoEndpoint, Deleted}
HasRow(d)   == delivery[d] # NoRow
Starts(p, k, todo, all) ==
    work' = [work EXCEPT ![p] = [step |-> "take", kind |-> k, todo |-> todo, all |-> all]]
Ends(p)     == work' = [work EXCEPT ![p] = Idle]

\* The deliveries that a call which makes rows set out for, and those in p's hands.
AllOf(p) == IF Is(p, "idle") \/ Is(p, "edit") THEN {} ELSE work[p].all
Makes(p) == work[p].kind \in {"event", "test"}
HeldBy(p) ==
    IF Is(p, "idle") \/ Is(p, "edit") THEN {}
    ELSE (IF Is(p, "write") THEN {work[p].job} ELSE {}) \cup
         (IF Makes(p) THEN {} ELSE {c.id : c \in work[p].todo})
CopyOf(d) == [id |-> d, attempts |-> delivery[d].attempts]

\* On with the loop over the rows: an endless one over what is left, a call at
\* its end returns.
Rest(p) == [step |-> "take", kind |-> work[p].kind, todo |-> work[p].todo, all |-> work[p].all]
GoesOn(p) == work' = [work EXCEPT ![p] = IF work[p].todo = {} THEN Idle ELSE Rest(p)]
Returns(p) == work[p].kind # "due"  \* ... at the first error
-----------------------------------------------------------------------------
(* Endpoints. *)

CreateWebhookEndpoint(e, row) ==
    endpoint[e] = NoEndpoint /\ endpoint' = [endpoint EXCEPT ![e] = row]
CreatesEndpoint(e) ==
    /\ \E types \in SUBSET Types \ {{}} :
           CreateWebhookEndpoint(e, [active |-> TRUE, events |-> types])
    /\ UNCHANGED <<delivery, work, history>>

\* UpdateEndpoint reads the row and lays the fields of the request over it ...
ReadsEndpoint(p, e) ==
    /\ Is(p, "idle") /\ IsThere(e)
    /\ \E want \in Endpoint :
           work' = [work EXCEPT ![p] = [step |-> "edit", who |-> e, want |-> want]]
    /\ UNCHANGED <<endpoint, delivery, history>>

\* ... and writes all of it back.
UpdatesEndpoint(p) ==
    /\ Is(p, "edit")
    /\ LET e == work[p].who IN
           endpoint' = IF IsThere(e) THEN [endpoint EXCEPT ![e] = work[p].want] ELSE endpoint
    /\ Ends(p)
    /\ UNCHANGED <<delivery, history>>

DeletesEndpoint(e) ==
    LET of == Occurrences \X {e} IN
    /\ IsThere(e)
    /\ endpoint' = [endpoint EXCEPT ![e] = Deleted]
    /\ delivery' = [d \in Deliveries |-> IF d \in of THEN NoRow ELSE delivery[d]]
    /\ posts' = [d \in Deliveries |-> IF d \in of THEN 0 ELSE posts[d]]
    /\ accepted' = [d \in Deliveries |-> d \notin of /\ accepted[d]]
    /\ raced' = raced \ of /\ cut' = cut \ of
    /\ UNCHANGED work
-----------------------------------------------------------------------------
(* What starts an attempt. *)

SubscribesTo(e, t) == endpoint[e].active /\ t \in endpoint[e].events
NewWebhookDelivery(d) == [id |-> d, attempts |-> 0]

\* The rows there are; a tenant has fewer endpoints than one page holds.
ListWebhookEndpoints == {e \in Endpoints : IsThere(e)}

\* DeliverEvent: its caller may use an event id again.
Delivers(p, o, t) ==
    LET all == {<<o, e>> : e \in {x \in ListWebhookEndpoints : SubscribesTo(x, t)}} IN
    /\ Is(p, "idle") /\ all # {}
    /\ Starts(p, "event", {NewWebhookDelivery(d) : d \in all}, all)
    /\ UNCHANGED <<endpoint, delivery, history>>

\* TestEndpoint: a new event id, for an endpoint that may be inactive.
Tests(p, o, e) ==
    /\ Is(p, "idle") /\ IsThere(e)
    /\ \A x \in Endpoints : ~HasRow(<<o, x>>)
    /\ \A q \in Processes, x \in Endpoints : <<o, x>> \notin AllOf(q)
    /\ Starts(p, "test", {NewWebhookDelivery(<<o, e>>)}, {<<o, e>>})
    /\ UNCHANGED <<endpoint, delivery, history>>

\* The rows p reads: those that another has a copy of are raced for, until
\* nobody has one (Forgets, when a process is through with a copy).
Forgets == raced' = {d \in raced : \E q \in Processes : d \in HeldBy(q)'}
Reads(p, k, read) ==
    /\ Starts(p, k, {CopyOf(d) : d \in read}, {})
    /\ raced' = raced \cup {d \in read : \E q \in Processes \ {p} : d \in HeldBy(q)}
    /\ UNCHANGED <<endpoint, delivery, posts, accepted, cut>>

\* ReplayDelivery, whatever the status; the count is capped.
Replays(p, d) ==
    /\ Is(p, "idle") /\ HasRow(d) /\ delivery[d].attempts <= MaxAttempts
    /\ Reads(p, "replay", {d})

\* The backoff is left out: when a delivery is retrying, its next_attempt_at may
\* have come or not.
IsDue_Again(d) == HasRow(d) /\ delivery[d].status # "pending" \* the status is not asked
IsDue_Slip(d) == \* deliveries of inactive endpoints are left out
    HasRow(d) /\ delivery[d].status = "retrying" /\ endpoint[d[2]].active
IsDue(d) == HasRow(d) /\ delivery[d].status = "retrying"

ListsDue(p, due) ==
    /\ Is(p, "idle") /\ due # {} /\ \A d \in due : IsDue(d)
    /\ Reads(p, "due", due)
-----------------------------------------------------------------------------
(* An attempt: create the row or look up the endpoint, post, write the outcome. *)

SetNextWebhookAttempt_Slip(n) == \* one attempt too few
    [status |-> IF n + 1 >= MaxAttempts THEN "failed" ELSE "retrying", attempts |-> n]
SetNextWebhookAttempt(n) ==
    [status |-> IF n >= MaxAttempts THEN "failed" ELSE "retrying", attempts |-> n]

\* attemptDelivery up to the answer.  The POST touches no table, so it is one
\* step with the statement before it.
Posts(p, c) ==
    \E answer \in {"ok"} \cup ({"refuse", "lost"} \cap Faults) :
    LET n == c.attempts + 1
        outcome == IF answer = "ok" THEN [status |-> "succeeded", attempts |-> n]
                                    ELSE SetNextWebhookAttempt(n)
    IN  /\ work' = [work EXCEPT ![p] =
               [step |-> "write", kind |-> work[p].kind, todo |-> work[p].todo \ {c},
                all |-> work[p].all, job |-> c.id, outcome |-> outcome]]
        /\ posts' = [posts EXCEPT ![c.id] = IF delivery'[c.id] = NoRow \/ @ = MaxAttempts
                                           THEN @ ELSE @ + 1]
        /\ accepted' = [accepted EXCEPT ![c.id] = @ \/
               (delivery'[c.id] # NoRow /\ answer # "refuse")]
        /\ UNCHANGED <<endpoint, raced, cut>>

CreatesDelivery_Slip(p) == \* creates the rows of all subscribers at once
    /\ Is(p, "take") /\ Makes(p)
    /\ \E c \in work[p].todo :
        /\ IsThere(c.id[2]) /\ ~HasRow(c.id)
        /\ delivery' = [d \in Deliveries |->
               IF NewWebhookDelivery(d) \in work[p].todo
               THEN [status |-> "pending", attempts |-> 0] ELSE delivery[d]]
        /\ Posts(p, c)
CreatesDelivery(p) ==
    /\ Is(p, "take") /\ Makes(p)
    /\ \E c \in work[p].todo :
        /\ IsThere(c.id[2]) /\ ~HasRow(c.id)
        /\ delivery' = [delivery EXCEPT ![c.id] =
                           [status |-> "pending", attempts |-> c.attempts]]
        /\ Posts(p, c)

\* The event id is known, the endpoint gone, or the statement fails: the call
\* returns, and the endpoints it has not come to get nothing.
CreateFails(p) ==
    /\ Is(p, "take") /\ Makes(p)
    /\ \E c \in work[p].todo : ~IsThere(c.id[2]) \/ HasRow(c.id) \/ May("create")
    /\ Ends(p)
    /\ UNCHANGED <<endpoint, delivery, history>>

GetsEndpoint(p) ==
    /\ Is(p, "take") /\ ~Makes(p)
    /\ UNCHANGED delivery
    /\ \E c \in work[p].todo : IsThere(c.id[2]) /\ Posts(p, c)

EndpointMissing(p) ==
    /\ Is(p, "take") /\ ~Makes(p)
    /\ \E c \in work[p].todo :
        /\ ~IsThere(c.id[2]) \/ May("read")
        /\ work' = [work EXCEPT ![p] = IF Returns(p) \/ work[p].todo = {c} THEN Idle
                                       ELSE [work[p] EXCEPT !.todo = @ \ {c}]]
    /\ Forgets
    /\ UNCHANGED <<endpoint, delivery, posts, accepted, cut>>

Cuts(d) == cut' = IF HasRow(d) /\ delivery[d].status = "pending" THEN cut \cup {d} ELSE cut

WritesOutcome(p) ==
    /\ Is(p, "write") /\ HasRow(work[p].job)
    /\ delivery' = [delivery EXCEPT ![work[p].job] = work[p].outcome]
    /\ GoesOn(p) /\ Forgets
    /\ UNCHANGED <<endpoint, posts, accepted, cut>>

WriteFails_Slip(p) == \* goes on after an error
    /\ Is(p, "write")
    /\ ~HasRow(work[p].job) \/ May("write")
    /\ Cuts(work[p].job)
    /\ GoesOn(p) /\ Forgets
    /\ UNCHANGED <<endpoint, delivery, posts, accepted>>
WriteFails(p) ==
    /\ Is(p, "write")
    /\ ~HasRow(work[p].job) \/ May("write")
    /\ Cuts(work[p].job)
    /\ IF Returns(p) THEN Ends(p) ELSE GoesOn(p)
    /\ Forgets
    /\ UNCHANGED <<endpoint, delivery, posts, accepted>>

\* The process dies, or the context of the call is cancelled.
Crash(p) ==
    /\ May("crash") /\ ~Is(p, "idle")
    /\ IF Is(p, "write") THEN Cuts(work[p].job) ELSE UNCHANGED cut
    /\ Ends(p) /\ Forgets
    /\ UNCHANGED <<endpoint, delivery, posts, accepted>>
-----------------------------------------------------------------------------
Attempts(p) ==
    \/ CreatesDelivery(p) \/ CreateFails(p) \/ GetsEndpoint(p) \/ EndpointMissing(p)
    \/ WritesOutcome(p) \/ WriteFails(p)

Next ==
    \/ \E e \in Endpoints : CreatesEndpoint(e) \/ DeletesEndpoint(e)
    \/ \E p \in Callers, e \in Endpoints, o \in Occurrences, t \in Types :
           \/ ReadsEndpoint(p, e) \/ Delivers(p, o, t) \/ Tests(p, o, e) \/ Replays(p, <<o, e>>)
    \/ \E p \in Loops, due \in SUBSET Deliveries : ListsDue(p, due)
    \/ \E p \in Processes : UpdatesEndpoint(p) \/ Attempts(p) \/ Crash(p)

Spec == Init /\ [][Next]_vars

\* The tickers tick, backoffs end, a pass over the due deliveries goes on, and
\* neither looking up an endpoint nor writing an outcome fails for ever.  Nothing
\* is assumed of the calls.
Fairness ==
    \A p \in Loops :
        /\ \A d \in Deliveries :
               SF_vars(\E due \in SUBSET Deliveries : d \in due /\ ListsDue(p, due))
        /\ WF_vars(Attempts(p)) /\ SF_vars(GetsEndpoint(p)) /\ SF_vars(WritesOutcome(p))

FairSpec == Spec /\ Fairness
-----------------------------------------------------------------------------
(* Safety. *)

\* A delivery that is shown as succeeded was taken by its endpoint, and one that
\* is given up was posted MaxAttempts times, however its readers and writers
\* overlapped (attemptDelivery, setNextWebhookAttempt).
StatusIsEarned ==
    \A d \in Deliveries : HasRow(d) =>
        /\ delivery[d].status = "succeeded" => accepted[d]
        /\ delivery[d].status = "failed" => posts[d] = MaxAttempts

\* The due loop never looks at pending rows, so one is left pending only if its
\* first attempt was cut off before its write; otherwise somebody works on it.
PendingIsWorkedOn ==
    \A d \in Deliveries : HasRow(d) /\ delivery[d].status = "pending" =>
        d \in cut \/ \E p \in Processes : Is(p, "write") /\ work[p].job = d

\* When DeliverEvent returns without an error (its last write succeeds), every
\* endpoint that subscribed when it began has been posted to, and its delivery
\* is settled or due again, or gone with its endpoint.
ReturnsNil(p) ==
    /\ Is(p, "write") /\ work[p].kind = "event" /\ work[p].todo = {}
    /\ work'[p] = Idle /\ delivery' # delivery /\ endpoint' = endpoint
NoErrorMeansAll ==
    [][\A p \in Processes : ReturnsNil(p) =>
          \A d \in work[p].all :
              \/ delivery'[d] = NoRow
              \/ posts[d] > 0 /\ delivery'[d].status # "pending"]_vars

\* A success is not undone, unless two worked on copies of the row at one time
\* or somebody asked for a replay.
SuccessStays ==
    [][\A d \in Deliveries \ raced :
          HasRow(d) /\ delivery[d].status = "succeeded" =>
              \/ delivery'[d] \in {delivery[d], NoRow} \/ delivery'[d].status = "succeeded"
              \/ \E p \in Callers : /\ Is(p, "write") /\ work[p].kind = "replay"
                                    /\ work[p].job = d]_vars

\* A delivery that is retrying comes to an end: it succeeds, is given up, or its
\* endpoint is deleted (ProcessDueDeliveries, the ticker of module.go).
RetryingEnds ==
    \A d \in Deliveries :
        (HasRow(d) /\ delivery[d].status = "retrying") ~>
            ~(HasRow(d) /\ delivery[d].status = "retrying")
=============================================================================
