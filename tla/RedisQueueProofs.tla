-------------------------- MODULE RedisQueueProofs --------------------------
(***************************************************************************)
(* What RedisQueue promises of every instance: any number of workers and   *)
(* messages and any bound on the streams.                                  *)
(***************************************************************************)
EXTENDS RedisQueue, TLAPS

\* The types are inductive by themselves.
LEMMA QueueTypeInit == QueueInit => QueueTypeOK
  BY QueueAssumption DEF QueueInit, QueueTypeOK, Streams, EntryIds

LEMMA QueueTypeStep == QueueTypeOK /\ [QueueNext]_queueVars => QueueTypeOK'
<1> SUFFICES ASSUME QueueTypeOK, [QueueNext]_queueVars
             PROVE  QueueTypeOK'
  OBVIOUS
<1> USE QueueAssumption DEF QueueTypeOK, Streams, EntryIds
<1>1. ASSUME NEW s \in Streams, NEW m \in Messages, Enqueue(s, m)
      PROVE  QueueTypeOK'
  BY <1>1 DEF Enqueue
<1>2. ASSUME NEW w \in Workers, WorkerStep(w)
      PROVE  QueueTypeOK'
  <2>1. CASE Start(w)        BY <2>1 DEF Start
  <2>2. CASE Read(w)         BY <2>2 DEF Read, HasMore, MoveOn
  <2>3. CASE ReadNothing(w)  BY <2>3 DEF ReadNothing, NextStream
  <2>4. CASE ReadFails(w)    BY <2>4 DEF ReadFails
  <2>5. CASE Ack(w)          BY <2>5 DEF Ack, XAck
  <2>6. CASE LeavePending(w) BY <2>6 DEF LeavePending
  <2>7. CASE Stop(w)         BY <2>7 DEF Stop
  <2>8. CASE Crash(w)        BY <2>8 DEF Crash
  <2> QED
    BY <1>2, <2>1, <2>2, <2>3, <2>4, <2>5, <2>6, <2>7, <2>8 DEF WorkerStep
<1>3. CASE UNCHANGED queueVars
  BY <1>3 DEF queueVars
<1> QED
  BY <1>1, <1>2, <1>3 DEF QueueNext

\* The state of the streams, the group and the consumers keeps its shape, and
\* the group is never given an entry that was not added (all of
\* redis_streams.go).
THEOREM QueueTypeCorrect == QueueSpec => []QueueTypeOK
  BY QueueTypeInit, QueueTypeStep, PTL DEF QueueSpec
-----------------------------------------------------------------------------
\* ExclusiveDelivery is inductive together with the types: an entry that is
\* read was waiting, so it was in nobody's hands and not pending, and an ack
\* takes out of the pending list the one entry its worker lets go of.
LEMMA ExclusiveInit == QueueInit => ExclusiveDelivery
  BY DEF QueueInit, ExclusiveDelivery

LEMMA ExclusiveStep ==
    QueueTypeOK /\ ExclusiveDelivery /\ [QueueNext]_queueVars => ExclusiveDelivery'
<1> SUFFICES ASSUME QueueTypeOK, ExclusiveDelivery, [QueueNext]_queueVars
             PROVE  ExclusiveDelivery'
  OBVIOUS
<1> USE QueueAssumption DEF QueueTypeOK, ExclusiveDelivery, Given, Waiting, Added,
                            Streams, EntryIds
<1>1. ASSUME NEW s \in Streams, NEW m \in Messages, Enqueue(s, m)
      PROVE  ExclusiveDelivery'
  BY <1>1 DEF Enqueue
<1>2. ASSUME NEW w \in Workers, WorkerStep(w)
      PROVE  ExclusiveDelivery'
  <2>1. CASE Start(w)        BY <2>1 DEF Start
  <2>2. CASE Read(w)
    <3> DEFINE e == <<turn[w], cursor[turn[w]] + 1>>
    <3>1. e \in EntryIds /\ e \in Waiting /\ e \notin pending
      BY <2>2 DEF Read, HasMore, MoveOn
    <3>2. (pending \subseteq Given)'
      BY <2>2, <3>1 DEF Read, HasMore, MoveOn
    <3>3. \A v \in Workers : held[v] # e
      BY <3>1
    <3> QED
      BY <2>2, <3>1, <3>2, <3>3 DEF Read, HasMore, MoveOn
  <2>3. CASE ReadNothing(w)  BY <2>3 DEF ReadNothing, NextStream
  <2>4. CASE ReadFails(w)    BY <2>4 DEF ReadFails
  <2>5. CASE Ack(w)          BY <2>5 DEF Ack, XAck
  <2>6. CASE LeavePending(w) BY <2>6 DEF LeavePending
  <2>7. CASE Stop(w)         BY <2>7 DEF Stop
  <2>8. CASE Crash(w)        BY <2>8 DEF Crash
  <2> QED
    BY <1>2, <2>1, <2>2, <2>3, <2>4, <2>5, <2>6, <2>7, <2>8 DEF WorkerStep
<1>3. CASE UNCHANGED queueVars
  BY <1>3 DEF queueVars
<1> QED
  BY <1>1, <1>2, <1>3 DEF QueueNext

\* What was given stays given, and an entry keeps its message.
LEMMA QueueGrows ==
    QueueTypeOK /\ [QueueNext]_queueVars
        => /\ Given \subseteq Given'
           /\ \A e \in Added : e \in Added' /\ MessageOf(e)' = MessageOf(e)
<1> SUFFICES ASSUME QueueTypeOK, [QueueNext]_queueVars
             PROVE  /\ Given \subseteq Given'
                    /\ \A e \in Added : e \in Added' /\ MessageOf(e)' = MessageOf(e)
  OBVIOUS
<1> USE QueueAssumption DEF QueueTypeOK, Given, Waiting, Added, MessageOf, Streams,
                            EntryIds
<1>1. ASSUME NEW s \in Streams, NEW m \in Messages, Enqueue(s, m)
      PROVE  /\ Given \subseteq Given'
             /\ \A e \in Added : e \in Added' /\ MessageOf(e)' = MessageOf(e)
  <2>1. /\ log'[s] = Append(log[s], m)
        /\ \A t \in Streams \ {s} : log'[t] = log[t]
        /\ cursor' = cursor
    BY <1>1 DEF Enqueue
  <2>2. /\ Len(log'[s]) = Len(log[s]) + 1
        /\ \A i \in 1 .. Len(log[s]) : log'[s][i] = log[s][i]
    BY <2>1
  <2>3. ASSUME NEW e \in Added
        PROVE  e \in Added' /\ MessageOf(e)' = MessageOf(e)
    <3>1. e[1] \in Streams /\ e[2] \in 1 .. Len(log[e[1]])
      OBVIOUS
    <3>2. CASE e[1] = s
      BY <2>2, <3>1, <3>2
    <3>3. CASE e[1] # s
      BY <2>1, <3>1, <3>3
    <3> QED
      BY <3>2, <3>3
  <2> QED
    BY <2>1, <2>3
<1>2. ASSUME NEW w \in Workers, Read(w)
      PROVE  Given \subseteq Given' /\ UNCHANGED log
  BY <1>2 DEF Read, HasMore, MoveOn
<1>3. ASSUME NEW w \in Workers, WorkerStep(w)
      PROVE  Read(w) \/ UNCHANGED <<log, cursor>>
  BY <1>3 DEF WorkerStep, Start, ReadNothing, ReadFails, Ack, LeavePending, Stop, Crash
<1>4. CASE UNCHANGED queueVars
  BY <1>4 DEF queueVars
<1> QED
  BY <1>1, <1>2, <1>3, <1>4 DEF QueueNext

\* However workers start, stop and crash, no two of them run a handler for one
\* entry, and an entry is pending for as long as its handler runs (consume).
THEOREM ExclusiveDeliveryHolds == QueueSpec => []ExclusiveDelivery
<1>1. QueueTypeOK /\ ExclusiveDelivery /\ [QueueNext]_queueVars
          => QueueTypeOK' /\ ExclusiveDelivery'
  BY QueueTypeStep, ExclusiveStep
<1> QED
  BY <1>1, QueueTypeInit, ExclusiveInit, PTL DEF QueueSpec
-----------------------------------------------------------------------------
\* What the steps of the queue do to the state of a job: each moves one entry
\* along, or none.
LEMMA JobOfEnqueue ==
    ASSUME QueueTypeOK, ExclusiveDelivery,
           NEW s \in Streams, NEW m \in Messages, Enqueue(s, m)
    PROVE  LET n == <<s, Len(log[s]) + 1>> IN
           /\ n \in EntryIds /\ JobState(n) = "absent"
           /\ \A e \in EntryIds :
                JobState(e)' = IF e = n THEN "waiting" ELSE JobState(e)
<1> USE QueueAssumption DEF QueueTypeOK, ExclusiveDelivery, Streams, EntryIds,
                            Enqueue, Given, Waiting, Added
<1> DEFINE n == <<s, Len(log[s]) + 1>>
<1>1. n \in EntryIds /\ JobState(n) = "absent"
  BY DEF JobState
<1>2. /\ Added' = Added \cup {n} /\ Waiting' = Waiting \cup {n}
      /\ n \notin pending
  OBVIOUS
<1>3. ASSUME NEW e \in EntryIds
      PROVE  JobState(e)' = IF e = n THEN "waiting" ELSE JobState(e)
  <2> HIDE DEF n, Added, Waiting
  <2> QED
    BY <1>1, <1>2 DEF JobState
<1> QED
  BY <1>1, <1>3

LEMMA JobOfRead ==
    ASSUME QueueTypeOK, ExclusiveDelivery, NEW w \in Workers, Read(w)
    PROVE  LET n == <<turn[w], cursor[turn[w]] + 1>> IN
           /\ n \in EntryIds /\ JobState(n) = "waiting"
           /\ \A e \in EntryIds :
                JobState(e)' = IF e = n THEN "running" ELSE JobState(e)
<1> USE QueueAssumption DEF QueueTypeOK, ExclusiveDelivery, Streams, EntryIds,
                            Read, HasMore, MoveOn, Given, Waiting, Added
<1> DEFINE n == <<turn[w], cursor[turn[w]] + 1>>
<1>1. n \in EntryIds /\ n \in Waiting /\ JobState(n) = "waiting"
  BY DEF JobState
<1>2. /\ Added' = Added /\ Waiting' = Waiting \ {n}
      /\ pending' = pending \cup {n}
  OBVIOUS
<1>3. held[w] = NoEntry /\ held' = [held EXCEPT ![w] = n]
  OBVIOUS
<1>4. ASSUME NEW e \in EntryIds
      PROVE  JobState(e)' = IF e = n THEN "running" ELSE JobState(e)
  <2> HIDE DEF n, Added, Waiting, Read
  <2>1. (\E v \in Workers : held'[v] = e) <=> e = n \/ \E v \in Workers : held[v] = e
    BY <1>3
  <2> QED
    BY <1>1, <1>2, <2>1 DEF JobState
<1> QED
  BY <1>1, <1>4

\* A worker lets go of an entry, which is acked or stays pending.
LEMMA JobOfRelease ==
    ASSUME QueueTypeOK, ExclusiveDelivery, NEW w \in Workers,
           held[w] # NoEntry,
           held' = [held EXCEPT ![w] = NoEntry],
           pending' \in {pending, pending \ {held[w]}},
           UNCHANGED <<log, cursor>>
    PROVE  /\ held[w] \in EntryIds /\ JobState(held[w]) = "running"
           /\ \A e \in EntryIds :
                JobState(e)' = IF e # held[w] THEN JobState(e)
                               ELSE IF pending' = pending THEN "abandoned" ELSE "done"
<1> USE QueueAssumption
<1> DEFINE n == held[w]
<1>1. n \in EntryIds /\ n \in pending /\ n \in Given
  BY DEF QueueTypeOK, ExclusiveDelivery
<1>2. JobState(n) = "running"
  BY <1>1 DEF JobState, Given
<1>3. Added' = Added /\ Waiting' = Waiting
  BY DEF Added, Waiting
<1>4. ASSUME NEW e \in EntryIds
      PROVE  (\E v \in Workers : held'[v] = e)
                 <=> e # n /\ \E v \in Workers : held[v] = e
  BY DEF QueueTypeOK, ExclusiveDelivery
<1>5. ASSUME NEW e \in EntryIds
      PROVE  JobState(e)' = IF e # n THEN JobState(e)
                            ELSE IF pending' = pending THEN "abandoned" ELSE "done"
  <2>1. /\ e # n => (e \in pending' <=> e \in pending)
        /\ n \in pending' <=> pending' = pending
    BY <1>1
  <2> HIDE DEF n
  <2> QED
    BY <1>1, <1>3, <1>4, <2>1 DEF JobState, Given
<1> QED
  BY <1>1, <1>2, <1>5

\* Any other step leaves every job as it is.
LEMMA JobUnchanged ==
    ASSUME UNCHANGED <<log, cursor, pending, held>>, NEW e \in EntryIds
    PROVE  JobState(e)' = JobState(e)
  BY DEF JobState, Added, Waiting

LEMMA JobStep ==
    QueueTypeOK /\ ExclusiveDelivery /\ [QueueNext]_queueVars
        => [Jobs!Next]_([e \in EntryIds |-> JobState(e)])
<1> SUFFICES ASSUME QueueTypeOK, ExclusiveDelivery, [QueueNext]_queueVars
             PROVE  [Jobs!Next]_([e \in EntryIds |-> JobState(e)])
  OBVIOUS
<1> DEFINE job == [e \in EntryIds |-> JobState(e)]
<1>1. ASSUME NEW s \in Streams, NEW m \in Messages, Enqueue(s, m)
      PROVE  Jobs!Next
  <2> DEFINE n == <<s, Len(log[s]) + 1>>
  <2>1. /\ n \in EntryIds /\ JobState(n) = "absent"
        /\ \A e \in EntryIds :
             JobState(e)' = IF e = n THEN "waiting" ELSE JobState(e)
    BY <1>1, JobOfEnqueue
  <2> HIDE DEF n
  <2>2. Jobs!Submit(n)
    BY <2>1 DEF Jobs!Submit, Jobs!Moves
  <2> QED
    BY <2>1, <2>2 DEF Jobs!Next
<1>2. ASSUME NEW w \in Workers, Read(w)
      PROVE  Jobs!Next
  <2> DEFINE n == <<turn[w], cursor[turn[w]] + 1>>
  <2>1. /\ n \in EntryIds /\ JobState(n) = "waiting"
        /\ \A e \in EntryIds :
             JobState(e)' = IF e = n THEN "running" ELSE JobState(e)
    BY <1>2, JobOfRead
  <2> HIDE DEF n
  <2>2. Jobs!Take(n)
    BY <2>1 DEF Jobs!Take, Jobs!Moves
  <2> QED
    BY <2>1, <2>2 DEF Jobs!Next
<1>3. ASSUME NEW w \in Workers, Ack(w)
      PROVE  Jobs!Next
  <2>1. held[w] \in EntryIds /\ JobState(held[w]) = "running" /\ pending' # pending
    BY <1>3, JobOfRelease DEF Ack, XAck, ExclusiveDelivery
  <2>2. \A e \in EntryIds : JobState(e)' = IF e = held[w] THEN "done" ELSE JobState(e)
    BY <1>3, <2>1, JobOfRelease DEF Ack, XAck
  <2>3. Jobs!Finish(held[w])
    BY <2>1, <2>2 DEF Jobs!Finish, Jobs!Moves
  <2> QED
    BY <2>1, <2>3 DEF Jobs!Next
<1>4. ASSUME NEW w \in Workers, LeavePending(w) \/ (Crash(w) /\ held[w] # NoEntry)
      PROVE  Jobs!Next
  <2>1. held[w] # NoEntry /\ pending' = pending
    BY <1>4 DEF LeavePending, Crash
  <2>2. held[w] \in EntryIds /\ JobState(held[w]) = "running"
    BY <1>4, <2>1, JobOfRelease DEF LeavePending, Crash
  <2>3. \A e \in EntryIds :
          JobState(e)' = IF e = held[w] THEN "abandoned" ELSE JobState(e)
    BY <1>4, <2>1, JobOfRelease DEF LeavePending, Crash
  <2>4. Jobs!Abandon(held[w])
    BY <2>2, <2>3 DEF Jobs!Abandon, Jobs!Moves
  <2> QED
    BY <2>2, <2>4 DEF Jobs!Next
<1>5. ASSUME UNCHANGED <<log, cursor, pending, held>>
      PROVE  UNCHANGED job
  BY <1>5, JobUnchanged
<1>6. ASSUME NEW w \in Workers, Crash(w), held[w] = NoEntry
      PROVE  UNCHANGED <<log, cursor, pending, held>>
  BY <1>6 DEF Crash, QueueTypeOK
<1>7. ASSUME NEW w \in Workers, Start(w) \/ ReadNothing(w) \/ ReadFails(w) \/ Stop(w)
      PROVE  UNCHANGED <<log, cursor, pending, held>>
  BY <1>7 DEF Start, ReadNothing, ReadFails, Stop
<1>8. ASSUME UNCHANGED queueVars
      PROVE  UNCHANGED <<log, cursor, pending, held>>
  BY <1>8 DEF queueVars
<1> QED
  BY <1>1, <1>2, <1>3, <1>4, <1>5, <1>6, <1>7, <1>8 DEF QueueNext, WorkerStep

LEMMA JobInit == QueueInit => Jobs!Init
  BY DEF QueueInit, Jobs!Init, JobState, Added, EntryIds, Streams

\* The queue implements the at-most-once job queue: nobody is given an entry a
\* second time, neither after its handler failed nor after its worker crashed
\* (consume, and a loop that never reads the pending list back).
THEOREM QueueTakesAtMostOnce == QueueSpec => TakenAtMostOnce
<1>1. QueueTypeOK /\ ExclusiveDelivery /\ [QueueNext]_queueVars
          => QueueTypeOK' /\ ExclusiveDelivery'
  BY QueueTypeStep, ExclusiveStep
<1> QED
  BY <1>1, QueueTypeInit, ExclusiveInit, JobInit, JobStep, PTL
     DEF QueueSpec, TakenAtMostOnce, Jobs!Spec
=============================================================================
