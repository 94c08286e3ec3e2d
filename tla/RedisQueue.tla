----------------------------- MODULE RedisQueue -----------------------------
(***************************************************************************)
(* The message queue of adapters/queue/redis_streams.go: two Redis streams *)
(* read by one consumer group, and one consumer goroutine per worker       *)
(* process.                                                                *)
(*                                                                         *)
(* Redis gives every entry of a stream to the group once: XREADGROUP ">"   *)
(* moves the group's cursor over the entry and puts it in the group's      *)
(* pending list, where it stays until XACK.  The code never reads the      *)
(* pending list back (no XAUTOCLAIM, no read from an explicit id) and a    *)
(* restarted process is a consumer with a new name, so an entry whose      *)
(* handler failed or whose process died stays pending for good.            *)
(*                                                                         *)
(* An entry is named by its stream and its position in it.  MaxEntries     *)
(* bounds the streams; Redis does not.                                     *)
(***************************************************************************)
EXTENDS Integers, Sequences

CONSTANTS
    Workers,      \* worker processes, each with one consumer goroutine
    Messages,     \* message ids; an entry of a stream carries one
    MaxEntries,   \* bound: entries ever added to one stream
    NoEntry       \* what a consumer holds between two handler calls

Streams  == {"priority", "normal"}
EntryIds == Streams \X (1 .. MaxEntries)

ASSUME QueueAssumption ==
    /\ MaxEntries \in Nat
    /\ NoEntry \notin EntryIds

VARIABLES
    log,       \* log[s]: the entries of stream s, oldest first
    cursor,    \* cursor[s]: how many entries of s the group has been given
    pending,   \* the group's pending list: given to a consumer, not acked
    held,      \* held[w]: the entry whose handler is running in w
    turn,      \* turn[w]: the stream w's loop reads next
    up         \* the workers whose consumer goroutine is running

queueVars == <<log, cursor, pending, held, turn, up>>

\* The entries that were ever added.
Added   == {e \in EntryIds : e[2] <= Len(log[e[1]])}
MessageOf(e) == log[e[1]][e[2]]
Waiting == {e \in Added : e[2] > cursor[e[1]]}
Given   == Added \ Waiting
Acked   == Given \ pending

QueueTypeOK ==
    /\ log \in [Streams -> Seq(Messages)]
    /\ \A s \in Streams : Len(log[s]) <= MaxEntries
    /\ cursor \in [Streams -> Nat]
    /\ \A s \in Streams : cursor[s] <= Len(log[s])
    /\ pending \subseteq EntryIds
    /\ held \in [Workers -> EntryIds \cup {NoEntry}]
    /\ turn \in [Workers -> Streams]
    /\ up \subseteq Workers

\* The consumer group is created at id "0": what was added before the first
\* worker started is still delivered.
QueueInit ==
    /\ log = [s \in Streams |-> <<>>]
    /\ cursor = [s \in Streams |-> 0]
    /\ pending = {}
    /\ held = [w \in Workers |-> NoEntry]
    /\ turn = [w \in Workers |-> "priority"]
    /\ up = {}
-----------------------------------------------------------------------------
(* The operators named X_Slip are wrong versions of X, each a mistake that    *)
(* could be made in the code; no specification uses them.  They show which    *)
(* property notices the mistake.                                              *)

\* Enqueue, when XADD succeeds; when it fails the queue does not change and
\* the caller gets ErrQueueUnavailable.  The slip drops the error of XADD.
Enqueue_Slip(s, m) ==
    /\ Len(log[s]) < MaxEntries
    /\ log' \in {log, [log EXCEPT ![s] = Append(@, m)]}
    /\ UNCHANGED <<cursor, pending, held, turn, up>>

Enqueue(s, m) ==
    /\ Len(log[s]) < MaxEntries
    /\ log' = [log EXCEPT ![s] = Append(@, m)]
    /\ UNCHANGED <<cursor, pending, held, turn, up>>

\* StartConsumer: a new goroutine, whose loop begins at the priority stream,
\* where Stop and Crash leave turn[w].
Start(w) ==
    /\ w \notin up
    /\ up' = up \cup {w}
    /\ UNCHANGED <<log, cursor, pending, held, turn>>

\* Is there an entry the group has not been given?
HasMore_Slip(s) == cursor[s] <= Len(log[s])

HasMore(s) == cursor[s] < Len(log[s])

\* XREADGROUP ">" moves the group on; with an explicit id it would not.
MoveOn_Slip(s) == UNCHANGED cursor

MoveOn(s) == cursor' = [cursor EXCEPT ![s] = @ + 1]

\* consume, up to the call of the handler.
Read(w) ==
    LET s == turn[w] IN
    /\ w \in up
    /\ held[w] = NoEntry
    /\ HasMore(s)
    /\ MoveOn(s)
    /\ pending' = pending \cup {<<s, cursor[s] + 1>>}
    /\ held' = [held EXCEPT ![w] = <<s, cursor[s] + 1>>]
    /\ UNCHANGED <<log, turn, up>>

\* The loop goes on from the priority stream to the normal one, and from that
\* one, after an idle second, to the beginning.
NextStream_Slip(s) == "priority"

NextStream(s) == IF s = "priority" THEN "normal" ELSE "priority"

\* XREADGROUP timed out on an empty stream.
ReadNothing(w) ==
    LET s == turn[w] IN
    /\ w \in up
    /\ held[w] = NoEntry
    /\ ~HasMore(s)
    /\ turn' = [turn EXCEPT ![w] = NextStream(s)]
    /\ UNCHANGED <<log, cursor, pending, held, up>>

\* XREADGROUP failed: the loop sleeps and begins again.
ReadFails(w) ==
    /\ w \in up
    /\ held[w] = NoEntry
    /\ turn' = [turn EXCEPT ![w] = "priority"]
    /\ UNCHANGED <<log, cursor, pending, held, up>>

\* XACK takes one entry out of the pending list.
XAck_Slip(e) == pending' = {}

XAck(e) == pending' = pending \ {e}

\* The handler returned nil and XACK succeeded.
Ack(w) ==
    /\ w \in up
    /\ held[w] # NoEntry
    /\ XAck(held[w])
    /\ held' = [held EXCEPT ![w] = NoEntry]
    /\ turn' = [turn EXCEPT ![w] = "priority"]
    /\ UNCHANGED <<log, cursor, up>>

\* The handler returned an error, or XACK failed: the entry stays pending.
LeavePending(w) ==
    /\ w \in up
    /\ held[w] # NoEntry
    /\ held' = [held EXCEPT ![w] = NoEntry]
    /\ turn' = [turn EXCEPT ![w] = "priority"]
    /\ UNCHANGED <<log, cursor, pending, up>>

\* Stop: the loop sees the closed channel at its top, between two rounds.
Stop(w) ==
    /\ w \in up
    /\ held[w] = NoEntry
    /\ turn[w] = "priority"
    /\ up' = up \ {w}
    /\ UNCHANGED <<log, cursor, pending, held, turn>>

\* The process dies, or its context is cancelled in the middle of a handler
\* (whose remaining calls then fail and whose loop ends).
Crash(w) ==
    /\ w \in up
    /\ up' = up \ {w}
    /\ held' = [held EXCEPT ![w] = NoEntry]
    /\ turn' = [turn EXCEPT ![w] = "priority"]
    /\ UNCHANGED <<log, cursor, pending>>
-----------------------------------------------------------------------------
WorkerStep(w) ==
    \/ Start(w)
    \/ Read(w)
    \/ ReadNothing(w)
    \/ ReadFails(w)
    \/ Ack(w)
    \/ LeavePending(w)
    \/ Stop(w)
    \/ Crash(w)

QueueNext ==
    \/ \E s \in Streams, m \in Messages : Enqueue(s, m)
    \/ \E w \in Workers : WorkerStep(w)

QueueSpec == QueueInit /\ [][QueueNext]_queueVars

\* What the Go scheduler, and a Redis and a host that are not down for ever,
\* give: a stopped worker is started again, a worker that is started or polls
\* again and again is not each time stopped or refused before its read, and a
\* handler returns.  Stop, Crash, ReadFails and new entries need never happen
\* and may happen for ever.
QueueFairness ==
    \A w \in Workers :
        /\ WF_queueVars(Start(w))
        /\ SF_queueVars(ReadNothing(w))
        /\ SF_queueVars(Read(w))
        /\ WF_queueVars(Ack(w) \/ LeavePending(w))

FairQueueSpec == QueueSpec /\ QueueFairness
-----------------------------------------------------------------------------
(* Properties *)

\* The group gives an entry to one consumer only, and the entry is pending for
\* as long as its handler runs: two workers never run a handler for the same
\* entry (consume, and what Redis promises of ">").
ExclusiveDelivery ==
    /\ pending \subseteq Given
    /\ \A w \in Workers : held[w] # NoEntry => w \in up /\ held[w] \in pending
    /\ \A v, w \in Workers : held[v] = held[w] /\ held[v] # NoEntry => v = w

\* An entry leaves the waiting state: whatever workers stop, crash or fail,
\* every entry that was added is handed to a handler at some time.
EveryEntryIsDelivered ==
    \A e \in EntryIds : e \in Waiting ~> e \notin Waiting

\* What the queue promises ("reliable message delivery and survivor worker restarts",
\* readme.txt, is more than that): every entry is a job that is taken once, by one
\* worker, and then is either done or given up for good.
JobState(e) ==
    IF e \notin Added THEN "absent"
    ELSE IF e \in Waiting THEN "waiting"
    ELSE IF e \notin pending THEN "done"
    ELSE IF \E w \in Workers : held[w] = e THEN "running"
    ELSE "abandoned"

Jobs == INSTANCE OnceQueue WITH Jobs <- EntryIds,
                                job <- [e \in EntryIds |-> JobState(e)]

TakenAtMostOnce == Jobs!Spec
=============================================================================
