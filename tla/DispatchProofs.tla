--------------------------- MODULE DispatchProofs ---------------------------
(***************************************************************************)
(* What Dispatch promises of every instance: any number of workers,        *)
(* requests, webhooks and messages, any number of retries and any faults,  *)
(* but that what callers were told needs a queue that takes what it is     *)
(* given, and one charge for a message needs one worker.                   *)
(***************************************************************************)
EXTENDS Dispatch, RedisQueueProofs, FiniteSetTheorems

(* The inductive invariants *)

\* A request that is about to publish knows its message.
RequestsHaveMessages ==
    \A r \in Requests :
        reqStep[r] \in {"publish", "requeue"} => reqMsg[r] \in Messages

\* A worker is inside its handler exactly while it holds an entry.
JobsHaveEntries ==
    \A w \in Workers : step[w] = "idle" <=> held[w] = NoEntry

\* The provider has accepted a message whose acceptance is being recorded.
AcceptedFirst ==
    \A w \in Workers :
        step[w] \in {"store", "check", "debit"} => issued[held[w]] > 0

Inv ==
    /\ TypeOK /\ ExclusiveDelivery
    /\ RequestsHaveMessages /\ JobsHaveEntries /\ AcceptedFirst

\* An entry that is being handled was accepted once per attempt at most, and
\* not yet by the current attempt unless that is past the provider's answer.
Past == {"store", "check", "debit", "fail", "done"}

AttemptsCount ==
    \A w \in Workers : held[w] # NoEntry =>
        issued[held[w]] <= IF step[w] \in Past THEN attempt[w] + 1 ELSE attempt[w]

UnreadUnsent == \A e \in EntryIds \ Given : issued[e] = 0

CountInv == AttemptsCount /\ UnreadUnsent /\ BoundedDuplicates

\* A handler that is about to return nil has recorded what came of its entry.
DoneIsRecorded ==
    \A w \in Workers :
        /\ step[w] \in {"deactivate", "expire"} => May("auth")
        /\ step[w] = "done" => \/ issued[held[w]] > 0
                               \/ held[w] \in gaveUp
                               \/ May("auth") /\ May("db")

RecordInv ==
    ChargedOnlyIfAccepted /\ IdsNameTheirMessage /\ DoneIsRecorded /\ NoSilentLoss
-----------------------------------------------------------------------------
(* The queue inside *)

\* Which action of the queue each kind of step contains.
LEMMA RequestQueueStep ==
    ASSUME TypeOK, RequestsHaveMessages, NEW r \in Requests, RequestStep(r)
    PROVE  QueueNext \/ UNCHANGED queueVars
<1>1. ASSUME NEW s \in Streams, Publish(r, s)
      PROVE  QueueNext
  BY <1>1 DEF Publish, RequestsHaveMessages, QueueNext
<1> QED
  BY <1>1 DEF RequestStep, SendFindsKey, SendBegins, SendCreates, SendSuppresses,
              Insert, SendConflicts, SendRefused, RetryBegins, PublishFails

LEMMA WorkerQueueStep ==
    ASSUME NEW w \in Workers, Loop(w) \/ TakeJob(w) \/ SenderStep(w) \/ Die(w)
    PROVE  WorkerStep(w) \/ UNCHANGED queueVars
  BY DEF Loop, TakeJob, Die, SenderStep, WorkerStep, LoadJob, LoadFails, GiveUp,
         NextAttempt, MayRetry, Exhausted, Resolve, AttemptFails, MarkSubmitted,
         Accepted, AnswerLost, RateLimited, Unauthorized, Deactivate, Expire,
         StoreResult, CheckCharge, Debit, Fail, FailFails, FinishJob

LEMMA HookQueueStep ==
    ASSUME NEW h \in Hooks, HookStep(h)
    PROVE  UNCHANGED queueVars
  BY DEF HookStep, HookReads, HookWrites, HookFails

LEMMA QueueStep ==
    TypeOK /\ RequestsHaveMessages /\ [Next]_vars => [QueueNext]_queueVars
  BY RequestQueueStep, WorkerQueueStep, HookQueueStep DEF Next, QueueNext, vars
-----------------------------------------------------------------------------
(* The types, and what a request and a worker know *)

LEMMA InvInit == Init => Inv
  BY QueueTypeInit, ExclusiveInit, DispatchAssumption
     DEF Init, QueueInit, Inv, TypeOK, RequestsHaveMessages, JobsHaveEntries,
         AcceptedFirst, Statuses, Steps, ReqSteps, HookSteps, Configs

\* What the queue's types say of one worker.
LEMMA HeldType ==
    ASSUME QueueTypeOK, NEW w \in Workers, held[w] # NoEntry
    PROVE  held[w] \in EntryIds
  BY DEF QueueTypeOK

\* An entry that a worker holds carries a message.
LEMMA JobIsMessage ==
    ASSUME QueueTypeOK, ExclusiveDelivery, NEW w \in Workers, held[w] # NoEntry
    PROVE  Job(w) \in Messages
<1>1. held[w] \in Added
  BY DEF ExclusiveDelivery, Given
<1> QED
  BY <1>1, QueueAssumption
     DEF Added, Job, MessageOf, QueueTypeOK, EntryIds, Streams

LEMMA RequestInv ==
    ASSUME Inv, QueueTypeOK', ExclusiveDelivery', NEW r \in Requests, RequestStep(r)
    PROVE  Inv'
<1> USE DispatchAssumption DEF Inv, TypeOK, RequestsHaveMessages, JobsHaveEntries,
        AcceptedFirst, ReqSteps, Statuses, Return, rowVars, jobVars, hookVars,
        worldVars, queueVars
<1>1. ASSUME NEW k \in Keys \cup {NoKey}, SendFindsKey(r, k) PROVE Inv'
  BY <1>1 DEF SendFindsKey, RowWithKey
<1>2. ASSUME NEW k \in Keys \cup {NoKey}, SendBegins(r, k) PROVE Inv'
  BY <1>2 DEF SendBegins
<1>3. ASSUME NEW m \in Messages, SendCreates(r, m) PROVE Inv'
  BY <1>3 DEF SendCreates, Insert
<1>4. ASSUME NEW m \in Messages, SendSuppresses(r, m) PROVE Inv'
  BY <1>4 DEF SendSuppresses, Insert
<1>5. CASE SendConflicts(r)
  BY <1>5 DEF SendConflicts, RowWithKey
<1>6. CASE SendRefused(r)
  BY <1>6 DEF SendRefused
<1>7. ASSUME NEW m \in Messages, RetryBegins(r, m) PROVE Inv'
  BY <1>7 DEF RetryBegins
<1>8. ASSUME NEW s \in Streams, Publish(r, s) PROVE Inv'
  BY <1>8 DEF Publish, Enqueue
<1>9. CASE PublishFails(r)
  BY <1>9 DEF PublishFails
<1> QED
  BY <1>1, <1>2, <1>3, <1>4, <1>5, <1>6, <1>7, <1>8, <1>9 DEF RequestStep

\* A step of one worker that changes nothing but where it is in its handler.
LEMMA JobInv ==
    ASSUME Inv, QueueTypeOK', ExclusiveDelivery',
           UNCHANGED <<rowVars, reqVars, hookVars, worldVars>>,
           NEW w \in Workers, NEW s \in Steps \ {"store", "check", "debit"}, Goto(w, s),
           attempt' \in [Workers -> 0 .. MaxRetries],
           cfg' \in [Workers -> Configs], provider' \in [Workers -> Configs],
           NEW h \in EntryIds \cup {NoEntry}, held' = [held EXCEPT ![w] = h],
           s = "idle" <=> h = NoEntry
    PROVE  Inv'
<1>1. TypeOK' /\ RequestsHaveMessages'
  BY DEF Inv, TypeOK, RequestsHaveMessages, Goto, rowVars, reqVars, hookVars, worldVars
<1>2. /\ step'[w] = s /\ held'[w] = h
      /\ \A v \in Workers \ {w} : step'[v] = step[v] /\ held'[v] = held[v]
  BY DEF Inv, TypeOK, QueueTypeOK, Goto
<1>3. JobsHaveEntries'
  BY <1>2 DEF Inv, JobsHaveEntries
<1>4. AcceptedFirst'
  BY <1>2 DEF Inv, AcceptedFirst, worldVars
<1> QED
  BY <1>1, <1>3, <1>4 DEF Inv

\* A worker that ends its job is as it was before its first.
LEMMA EndsJobInv ==
    ASSUME Inv, QueueTypeOK', ExclusiveDelivery',
           UNCHANGED <<rowVars, reqVars, hookVars, worldVars>>,
           NEW w \in Workers, EndJob(w), held' = [held EXCEPT ![w] = NoEntry]
    PROVE  Inv'
<1>1. /\ attempt' \in [Workers -> 0 .. MaxRetries]
      /\ cfg' \in [Workers -> Configs] /\ provider' \in [Workers -> Configs]
  BY DispatchAssumption DEF EndJob, Inv, TypeOK, Configs
<1>2. Goto(w, "idle") /\ "idle" \in Steps \ {"store", "check", "debit"}
  BY DEF EndJob, Steps
<1> QED
  BY <1>1, <1>2, JobInv

LEMMA HookInv ==
    ASSUME Inv, QueueTypeOK', ExclusiveDelivery', NEW h \in Hooks, HookStep(h)
    PROVE  Inv'
<1> USE DEF Inv, TypeOK, RequestsHaveMessages, JobsHaveEntries, AcceptedFirst,
            HookSteps, Statuses, HookEnds, rowVars, reqVars, jobVars, worldVars,
            queueVars
<1>1. ASSUME NEW pid \in Ids, NEW s \in Statuses, HookReads(h, pid, s) PROVE Inv'
  <2>1. pid \in ProviderIds
    BY DEF Ids, ProviderIds
  <2>2. Finds(pid) \subseteq Statuses \cup {"absent"}
    BY DEF Finds, RowWithId
  <2> HIDE DEF Statuses
  <2>3. /\ hookSeen' \in [Hooks -> Statuses \cup {"absent"}]
        /\ hookId' \in [Hooks -> ProviderIds \cup {NoId}]
        /\ hookStatus' \in [Hooks -> Statuses]
        /\ hookStep' \in [Hooks -> HookSteps]
    BY <1>1, <2>1, <2>2 DEF HookReads
  <2>4. UNCHANGED <<queueVars, rowVars, reqVars, jobVars, worldVars>>
    BY <1>1 DEF HookReads
  <2>5. TypeOK'
    BY <2>3, <2>4
  <2> HIDE DEF TypeOK
  <2> QED
    BY <2>4, <2>5
<1>2. CASE HookWrites(h)
  <2> HIDE DEF Statuses
  <2>1. status' \in [Messages -> Statuses \cup {"absent"}]
    BY <1>2 DEF HookWrites
  <2>2. everFailed' \subseteq Messages
    BY <1>2 DEF HookWrites, RowWithId
  <2>3. /\ hookStep' \in [Hooks -> HookSteps]
        /\ hookId' \in [Hooks -> ProviderIds \cup {NoId}]
        /\ hookStatus' \in [Hooks -> Statuses]
        /\ hookSeen' \in [Hooks -> Statuses \cup {"absent"}]
    BY <1>2 DEF HookWrites, Statuses
  <2>4. UNCHANGED <<queueVars, keyOf, providerId, reqVars, jobVars, worldVars>>
    BY <1>2 DEF HookWrites
  <2> HIDE DEF HookEnds
  <2>5. TypeOK'
    BY <2>1, <2>2, <2>3, <2>4
  <2> HIDE DEF TypeOK
  <2> QED
    BY <2>4, <2>5
<1>3. CASE HookFails(h)
  BY <1>3 DEF HookFails
<1>4. \A rep \in MetaReports : MapWhatsAppStatus(rep) \in Statuses
  BY DEF MetaReports, MapWhatsAppStatus
<1> QED
  BY <1>1, <1>2, <1>3, <1>4 DEF HookStep

LEMMA WorkerInv ==
    ASSUME Inv, QueueTypeOK', ExclusiveDelivery', NEW w \in Workers,
           Loop(w) \/ TakeJob(w) \/ SenderStep(w) \/ Die(w)
    PROVE  Inv'
<1>2. CASE TakeJob(w)
  <2>1. <<turn[w], cursor[turn[w]] + 1>> \in EntryIds \ {NoEntry}
    BY <1>2, QueueAssumption DEF TakeJob, Read, HasMore, Inv, TypeOK, QueueTypeOK, EntryIds
  <2>2. /\ held' = [held EXCEPT ![w] = <<turn[w], cursor[turn[w]] + 1>>] /\ Goto(w, "load")
        /\ UNCHANGED <<rowVars, reqVars, attempt, cfg, provider, hookVars, worldVars>>
    BY <1>2 DEF TakeJob, Read
  <2>3. /\ "load" \in Steps \ {"store", "check", "debit"}
        /\ attempt' \in [Workers -> 0 .. MaxRetries]
        /\ cfg' \in [Workers -> Configs] /\ provider' \in [Workers -> Configs]
    BY <2>2 DEF Inv, TypeOK, Steps
  <2> QED
    BY <2>1, <2>2, <2>3, JobInv
<1>3. CASE Die(w)
  BY <1>3, EndsJobInv DEF Die, Crash
<1>16. CASE FinishJob(w)
  BY <1>16, EndsJobInv DEF FinishJob, Ack, LeavePending
<1> USE DispatchAssumption DEF Inv, TypeOK, RequestsHaveMessages, JobsHaveEntries,
                               AcceptedFirst, Steps, Configs, Statuses, Goto,
                               EndJob, GiveUp, NextAttempt, MayRetry, Exhausted,
                               UpdateStatus, Accept, rowVars, reqVars, jobVars,
                               hookVars, worldVars, queueVars
<1>1. CASE Loop(w)
  BY <1>1 DEF Loop, Start, ReadNothing, NextStream, ReadFails, Stop
<1>4. CASE LoadJob(w)
  BY <1>4 DEF LoadJob
<1>5. ASSUME GiveUp(w) PROVE Inv'
  BY <1>5 DEF LeavePending, QueueTypeOK
<1>6. CASE Resolve(w)
  BY <1>6 DEF Resolve
<1>7. CASE AttemptFails(w)
  BY <1>7 DEF AttemptFails
<1>8. CASE MarkSubmitted(w)
  <2>1. /\ status' \in [Messages -> Statuses \cup {"absent"}] /\ everFailed' \subseteq Messages
    BY <1>8 DEF MarkSubmitted
  <2>2. step' = [step EXCEPT ![w] = "call"] /\ step[w] # "idle"
    BY <1>8 DEF MarkSubmitted
  <2>3. UNCHANGED <<queueVars, keyOf, providerId, reqVars, attempt, cfg, provider,
                    hookVars, worldVars>>
    BY <1>8 DEF MarkSubmitted
  <2> HIDE DEF UpdateStatus, Goto, Statuses
  <2> QED
    BY <2>1, <2>2, <2>3
<1>9. CASE Accepted(w)
  BY <1>9, HeldType DEF Accepted
<1>10. CASE AnswerLost(w)
  BY <1>10, HeldType DEF AnswerLost
<1>11. CASE RateLimited(w) \/ Unauthorized(w)
  BY <1>11 DEF RateLimited, Unauthorized
<1>12. CASE Deactivate(w)
  <2>1. configActive' \in BOOLEAN
    BY <1>12 DEF Deactivate
  <2>2. step' = [step EXCEPT ![w] = "expire"] /\ step[w] # "idle"
    BY <1>12 DEF Deactivate
  <2>3. UNCHANGED <<queueVars, rowVars, reqVars, attempt, cfg, provider, hookVars,
                    debits, issued, gaveUp>>
    BY <1>12 DEF Deactivate
  <2> HIDE DEF UpdateStatus, Goto, Statuses
  <2> QED
    BY <2>1, <2>2, <2>3
<1>13. CASE Expire(w) \/ Fail(w)
  <2>1. gaveUp' \subseteq EntryIds
    BY <1>13, HeldType DEF Expire, Fail
  <2>2. /\ status' \in [Messages -> Statuses \cup {"absent"}]
        /\ everFailed' \subseteq Messages
    BY <1>13, JobIsMessage DEF Expire, Fail
  <2>3. step' = [step EXCEPT ![w] = "done"] /\ step[w] # "idle"
    BY <1>13 DEF Expire, Fail
  <2>4. UNCHANGED <<queueVars, keyOf, providerId, reqVars, attempt, cfg, provider,
                    hookVars, debits, configActive, issued>>
    BY <1>13 DEF Expire, Fail
  <2> HIDE DEF UpdateStatus, Goto, Statuses
  <2> QED
    BY <2>1, <2>2, <2>3, <2>4
<1>14. CASE StoreResult(w)
  <2>1. <<held[w], issued[held[w]]>> \in ProviderIds
    BY <1>14, HeldType DEF StoreResult, ProviderIds
  <2>2. AcceptedStatus(w) \in Statuses
    BY DEF AcceptedStatus
  <2>3. providerId' \in [Messages -> ProviderIds \cup {NoId}]
    BY <1>14, <2>1 DEF StoreResult, ResultId
  <2>4. /\ status' \in [Messages -> Statuses \cup {"absent"}]
        /\ everFailed' \subseteq Messages
        /\ step' \in [Workers -> Steps]
    <3>1. /\ status' = [status EXCEPT ![Job(w)] = AcceptedStatus(w)]
          /\ everFailed' = IF AcceptedStatus(w) = "failed"
                              THEN everFailed \cup {Job(w)} ELSE everFailed
          /\ step' = [step EXCEPT ![w] = "check"]
      BY <1>14 DEF StoreResult
    <3>2. AcceptedStatus(w) # "failed"
      BY DEF AcceptedStatus
    <3> HIDE DEF Statuses
    <3> QED
      BY <3>1, <3>2, <2>2
  <2>5. step[w] = "store" /\ step' = [step EXCEPT ![w] = "check"]
    BY <1>14 DEF StoreResult
  <2>6. UNCHANGED <<queueVars, keyOf, reqVars, attempt, cfg, provider,
                    hookVars, worldVars>>
    BY <1>14 DEF StoreResult
  <2> HIDE DEF UpdateStatus, Goto, Statuses
  <2> QED
    BY <2>3, <2>4, <2>5, <2>6
<1>15. CASE CheckCharge(w) \/ Debit(w)
  BY <1>15 DEF CheckCharge, Chargeable, Debit
<1> QED
  BY <1>1, <1>2, <1>3, <1>4, <1>5, <1>6, <1>7, <1>8, <1>9, <1>10, <1>11, <1>12,
     <1>13, <1>14, <1>15, <1>16 DEF SenderStep, LoadFails, FailFails

LEMMA InvStep == Inv /\ [Next]_vars => Inv'
<1> SUFFICES ASSUME Inv, [Next]_vars PROVE Inv'
  OBVIOUS
<1>1. QueueTypeOK' /\ ExclusiveDelivery'
  BY QueueStep, QueueTypeStep, ExclusiveStep DEF Inv, TypeOK
<1>2. CASE UNCHANGED vars
  BY <1>1, <1>2 DEF vars, queueVars, rowVars, reqVars, jobVars, hookVars,
                    worldVars, Inv, TypeOK, RequestsHaveMessages, JobsHaveEntries,
                    AcceptedFirst
<1> QED
  BY <1>1, <1>2, RequestInv, HookInv, WorkerInv DEF Next

\* Rows, requests, handlers and webhooks keep their shape; in particular a
\* provider id that is stored is one the provider issued (all of Dispatch).
THEOREM TypeCorrect == Spec => []TypeOK
<1>1. Inv => TypeOK
  BY DEF Inv
<1> QED
  BY <1>1, InvInit, InvStep, PTL DEF Spec

\* The requests and senders use the queue as RedisQueue describes it, so that
\* what is proved of the queue holds for them (Enqueue in message_service.go,
\* HandleMessage as the handler of StartConsumer).
THEOREM DispatchUsesTheQueue == Spec => QueueSpec
<1>1. Init => QueueInit
  BY DEF Init
<1>2. Inv /\ [Next]_vars => [QueueNext]_queueVars
  BY QueueStep DEF Inv
<1> QED
  BY <1>1, <1>2, InvInit, InvStep, PTL DEF Spec, QueueSpec

\* No two senders work on one entry (consume, HandleMessage).
THEOREM SendersAreExclusive == Spec => []ExclusiveDelivery
  BY DispatchUsesTheQueue, ExclusiveDeliveryHolds

\* Whatever the senders do with an entry, and whoever crashes over it, it is given out
\* once at most (consume, HandleMessage).
THEOREM SendersTakeAtMostOnce == Spec => TakenAtMostOnce
  BY DispatchUsesTheQueue, QueueTakesAtMostOnce
-----------------------------------------------------------------------------
(* How often the provider is called *)

\* Requests and webhooks leave handlers and the provider alone.
LEMMA OthersLeaveJobs ==
    ASSUME NEW r, NEW h, RequestStep(r) \/ HookStep(h) \/ UNCHANGED vars
    PROVE  UNCHANGED <<jobVars, worldVars, pending, held>>
  BY DEF RequestStep, SendFindsKey, SendBegins, SendCreates, SendSuppresses,
         Insert, SendConflicts, SendRefused, RetryBegins, Publish, Enqueue,
         PublishFails, HookStep, HookReads, HookWrites, HookFails, vars, queueVars

\* A worker's step is its own: other handlers do not move.
LEMMA WorkerIsLocal ==
    ASSUME Inv, NEW w \in Workers, Loop(w) \/ TakeJob(w) \/ SenderStep(w) \/ Die(w),
           NEW v \in Workers, v # w
    PROVE  /\ held'[v] = held[v] /\ step'[v] = step[v] /\ attempt'[v] = attempt[v]
<1>1. held'[v] = held[v]
  BY WorkerQueueStep
     DEF WorkerStep, Start, Read, ReadNothing, ReadFails, Ack, XAck, LeavePending,
         Stop, Crash, queueVars, Inv, TypeOK, QueueTypeOK
<1>2. step'[v] = step[v] /\ attempt'[v] = attempt[v]
  BY DEF Loop, TakeJob, Die, SenderStep, LoadJob, LoadFails, GiveUp, NextAttempt,
         MayRetry, Exhausted, Resolve, AttemptFails, MarkSubmitted, Accepted,
         AnswerLost, RateLimited, Unauthorized, Deactivate, Expire, StoreResult,
         CheckCharge, Chargeable, Debit, Fail, FailFails, FinishJob, EndJob, Goto,
         jobVars, Inv, TypeOK
<1> QED
  BY <1>1, <1>2

\* What a step of a handler does to its own count.
LEMMA WorkerCounts ==
    ASSUME Inv, Inv', CountInv, NEW w \in Workers,
           Loop(w) \/ TakeJob(w) \/ SenderStep(w) \/ Die(w)
    PROVE  /\ \/ UNCHANGED issued
              \/ /\ held[w] # NoEntry
                 /\ issued' = [issued EXCEPT ![held[w]] = @ + 1]
                 /\ issued[held[w]] <= MaxRetries
           /\ held'[w] # NoEntry => issued'[held'[w]] <=
                  IF step'[w] \in Past THEN attempt'[w] + 1 ELSE attempt'[w]
<1> USE DispatchAssumption
    DEF Inv, TypeOK, JobsHaveEntries, CountInv, AttemptsCount, UnreadUnsent, Past,
        Goto, EndJob, GiveUp, NextAttempt, MayRetry, Exhausted, Accept, worldVars,
        jobVars, queueVars
<1>1. CASE Loop(w)
  BY <1>1 DEF Loop, Start, ReadNothing, NextStream, ReadFails, Stop
<1>2. CASE TakeJob(w)
  <2> DEFINE n == <<turn[w], cursor[turn[w]] + 1>>
  <2>1. n \in EntryIds /\ n \notin Given /\ held'[w] = n
    BY <1>2, QueueAssumption
       DEF TakeJob, Read, HasMore, MoveOn, QueueTypeOK, EntryIds, Given, Waiting,
           Added
  <2>2. issued[n] = 0
    BY <2>1
  <2> HIDE DEF n
  <2> QED
    BY <1>2, <2>1, <2>2 DEF TakeJob
<1>3. CASE Die(w)
  BY <1>3 DEF Die, Crash, QueueTypeOK
<1>4. ASSUME GiveUp(w) \/ FinishJob(w)
      PROVE  UNCHANGED issued /\ held'[w] = NoEntry
  BY <1>4 DEF FinishJob, Ack, XAck, LeavePending, QueueTypeOK
<1>5. CASE LoadJob(w) \/ Resolve(w) \/ MarkSubmitted(w) \/ RateLimited(w)
             \/ Unauthorized(w) \/ Deactivate(w)
  BY <1>5 DEF LoadJob, Resolve, MarkSubmitted, RateLimited, Unauthorized,
              Deactivate
<1>6. CASE AttemptFails(w)
  BY <1>6, HeldType DEF AttemptFails
<1>7. CASE Accepted(w)
  BY <1>7, HeldType DEF Accepted
<1>8. CASE AnswerLost(w)
  BY <1>8, HeldType DEF AnswerLost
<1>9. CASE Expire(w) \/ StoreResult(w) \/ CheckCharge(w) \/ Debit(w) \/ Fail(w)
  BY <1>9, HeldType DEF Expire, StoreResult, CheckCharge, Chargeable, Debit, Fail
<1> QED
  BY <1>1, <1>2, <1>3, <1>4, <1>5, <1>6, <1>7, <1>8, <1>9
     DEF SenderStep, LoadFails, FailFails

LEMMA CountInit == Init => CountInv
  BY DispatchAssumption
     DEF Init, QueueInit, CountInv, AttemptsCount, UnreadUnsent, BoundedDuplicates

LEMMA CountStep == Inv /\ Inv' /\ CountInv /\ [Next]_vars => CountInv'
<1> SUFFICES ASSUME Inv, Inv', CountInv, [Next]_vars PROVE CountInv'
  OBVIOUS
<1>1. Given \subseteq Given'
  BY QueueStep, QueueGrows DEF Inv, TypeOK
<1>2. ASSUME UNCHANGED <<jobVars, worldVars, pending, held>>
      PROVE  CountInv'
  BY <1>1, <1>2
     DEF jobVars, worldVars, CountInv, AttemptsCount, UnreadUnsent,
         BoundedDuplicates
<1>3. ASSUME NEW w \in Workers, Loop(w) \/ TakeJob(w) \/ SenderStep(w) \/ Die(w)
      PROVE  CountInv'
  <2>1. /\ \/ UNCHANGED issued
           \/ /\ held[w] # NoEntry
              /\ issued' = [issued EXCEPT ![held[w]] = @ + 1]
              /\ issued[held[w]] <= MaxRetries
        /\ held'[w] # NoEntry => issued'[held'[w]] <=
               IF step'[w] \in Past THEN attempt'[w] + 1 ELSE attempt'[w]
    BY <1>3, WorkerCounts
  <2>2. ASSUME NEW v \in Workers, v # w
        PROVE  /\ held'[v] = held[v] /\ step'[v] = step[v] /\ attempt'[v] = attempt[v]
               /\ held[v] # NoEntry => held[v] # held[w]
    BY <1>3, <2>2, WorkerIsLocal DEF Inv, ExclusiveDelivery
  <2>3. AttemptsCount'
    <3> SUFFICES ASSUME NEW v \in Workers, v # w, held'[v] # NoEntry
                 PROVE  issued'[held'[v]] <=
                            IF step'[v] \in Past THEN attempt'[v] + 1 ELSE attempt'[v]
      BY <2>1 DEF AttemptsCount
    <3>1. held[v] \in EntryIds /\ held[v] # NoEntry /\ held[v] # held[w]
      BY <2>2, HeldType DEF Inv, TypeOK
    <3>2. issued'[held[v]] = issued[held[v]]
      BY <2>1, <3>1 DEF Inv, TypeOK
    <3> QED
      BY <2>2, <3>1, <3>2 DEF AttemptsCount, CountInv
  <2>4. UnreadUnsent'
    BY <1>1, <2>1 DEF UnreadUnsent, CountInv, Inv, TypeOK, ExclusiveDelivery
  <2>5. BoundedDuplicates'
    BY <2>1, DispatchAssumption DEF BoundedDuplicates, CountInv, Inv, TypeOK
  <2> QED
    BY <2>3, <2>4, <2>5 DEF CountInv
<1> QED
  BY <1>2, <1>3, OthersLeaveJobs DEF Next

\* Whatever answers are lost, whatever bookkeeping fails and whoever crashes,
\* one entry makes the provider accept the message MaxRetries + 1 times at most
\* (the retry loop of HandleMessage over a queue that gives an entry out once).
THEOREM DuplicatesAreBounded == Spec => []BoundedDuplicates
<1>1. Init => Inv /\ CountInv
  BY InvInit, CountInit
<1>2. (Inv /\ CountInv) /\ [Next]_vars => (Inv /\ CountInv)'
  BY InvStep, CountStep
<1>3. CountInv => BoundedDuplicates
  BY DEF CountInv
<1> QED
  BY <1>1, <1>2, <1>3, PTL DEF Spec
-----------------------------------------------------------------------------
(* What is recorded of a send *)

\* Nothing is forgotten: entries keep their message, the provider its
\* acceptances and the database the failures that were written.
LEMMA Grows ==
    ASSUME Inv, Inv', CountInv, [Next]_vars
    PROVE  /\ \A e \in Added : e \in Added' /\ MessageOf(e)' = MessageOf(e)
           /\ \A e \in EntryIds : issued[e] <= issued'[e]
           /\ gaveUp \subseteq gaveUp'
<1>1. \A e \in Added : e \in Added' /\ MessageOf(e)' = MessageOf(e)
  BY QueueStep, QueueGrows DEF Inv, TypeOK
<1>2. ASSUME NEW w \in Workers, Loop(w) \/ TakeJob(w) \/ SenderStep(w) \/ Die(w)
      PROVE  \A e \in EntryIds : issued[e] <= issued'[e]
  BY <1>2, WorkerCounts DEF Inv, TypeOK
<1>3. ASSUME NEW w \in Workers, Loop(w) \/ TakeJob(w) \/ SenderStep(w) \/ Die(w)
      PROVE  gaveUp \subseteq gaveUp'
  BY <1>3
     DEF Loop, TakeJob, Die, SenderStep, LoadJob, LoadFails, GiveUp, NextAttempt,
         MayRetry, Exhausted, Resolve, AttemptFails, MarkSubmitted, Accepted,
         AnswerLost, Accept, RateLimited, Unauthorized, Deactivate, Expire,
         StoreResult, CheckCharge, Debit, Fail, FailFails, FinishJob, worldVars
<1>4. ASSUME UNCHANGED worldVars
      PROVE  (\A e \in EntryIds : issued[e] <= issued'[e]) /\ gaveUp \subseteq gaveUp'
  BY <1>4 DEF worldVars, Inv, TypeOK
<1> QED
  BY <1>1, <1>2, <1>3, <1>4, OthersLeaveJobs DEF Next

\* The entry a worker holds is one of its message's entries.
LEMMA HeldIsEntry ==
    ASSUME Inv, NEW w \in Workers, held[w] # NoEntry
    PROVE  held[w] \in Entries(Job(w)) /\ held[w] \in EntryIds
  BY HeldType DEF Inv, TypeOK, ExclusiveDelivery, Given, Entries, Job

LEMMA EntriesGrow ==
    ASSUME Inv, Inv', CountInv, [Next]_vars, NEW m
    PROVE  Entries(m) \subseteq Entries(m)'
  BY Grows DEF Entries

\* Who debits, who stores a provider id, and who acks.
LEMMA OnlyWorkersRecord ==
    ASSUME NEW r, NEW h, RequestStep(r) \/ HookStep(h) \/ UNCHANGED vars
    PROVE  UNCHANGED <<debits, providerId, step, held, gaveUp, pending, issued>>
  BY DEF RequestStep, SendFindsKey, SendBegins, SendCreates, SendSuppresses,
         Insert, SendConflicts, SendRefused, RetryBegins, Publish, Enqueue,
         PublishFails, HookStep, HookReads, HookWrites, HookFails, vars,
         queueVars, rowVars, jobVars, worldVars

LEMMA WorkerDebits ==
    ASSUME NEW w \in Workers, Loop(w) \/ TakeJob(w) \/ SenderStep(w) \/ Die(w)
    PROVE  \/ UNCHANGED debits
           \/ step[w] = "debit" /\ debits' = [debits EXCEPT ![Job(w)] = @ + 1]
  BY DEF Loop, TakeJob, Die, SenderStep, LoadJob, LoadFails, GiveUp, NextAttempt,
         MayRetry, Exhausted, Resolve, AttemptFails, MarkSubmitted, Accepted,
         AnswerLost, Accept, RateLimited, Unauthorized, Deactivate, Expire,
         StoreResult, CheckCharge, Debit, Fail, FailFails, FinishJob, worldVars

LEMMA WorkerStores ==
    ASSUME NEW w \in Workers, Loop(w) \/ TakeJob(w) \/ SenderStep(w) \/ Die(w)
    PROVE  \/ UNCHANGED providerId
           \/ /\ step[w] = "store"
              /\ providerId' = [providerId EXCEPT ![Job(w)] =
                                    <<held[w], issued[held[w]]>>]
  BY DEF Loop, TakeJob, Die, SenderStep, LoadJob, LoadFails, GiveUp, NextAttempt,
         MayRetry, Exhausted, Resolve, AttemptFails, MarkSubmitted, Accepted,
         AnswerLost, RateLimited, Unauthorized, Deactivate, Expire, StoreResult,
         ResultId, CheckCharge, Chargeable, Debit, Fail, FailFails, FinishJob,
         rowVars

LEMMA WorkerAcks ==
    ASSUME Inv, NEW w \in Workers, Loop(w) \/ TakeJob(w) \/ SenderStep(w) \/ Die(w)
    PROVE  Acked' \subseteq Acked \/ (step[w] = "done" /\ Acked' = Acked \cup {held[w]})
<1> USE DEF Acked, Given, Waiting, Added
<1>1. CASE FinishJob(w) /\ Ack(w)
  BY <1>1 DEF FinishJob, Ack, XAck, Inv, JobsHaveEntries, ExclusiveDelivery
<1>2. ASSUME Read(w) PROVE Acked' \subseteq Acked
  BY <1>2, QueueAssumption DEF Read, HasMore, MoveOn, Inv, TypeOK, QueueTypeOK,
                               EntryIds
<1>3. ASSUME ~Read(w), ~(FinishJob(w) /\ Ack(w)) PROVE UNCHANGED <<log, cursor, pending>>
  BY <1>3
     DEF Loop, TakeJob, Die, SenderStep, LoadJob, LoadFails, GiveUp, NextAttempt,
         MayRetry, Exhausted, Resolve, AttemptFails, MarkSubmitted, Accepted,
         AnswerLost, RateLimited, Unauthorized, Deactivate, Expire, StoreResult,
         CheckCharge, Chargeable, Debit, Fail, FailFails, FinishJob, Start,
         ReadNothing, NextStream, ReadFails, Stop, Crash, LeavePending, queueVars
<1> QED
  BY <1>1, <1>2, <1>3

LEMMA RecordInit == Init => RecordInv
  BY DEF Init, QueueInit, RecordInv, ChargedOnlyIfAccepted, IdsNameTheirMessage,
         DoneIsRecorded, NoSilentLoss, Acked, Given, Waiting, Added, EntryIds,
         Streams

\* A debit is made for a message the provider has accepted.
LEMMA ChargeStep ==
    Inv /\ Inv' /\ CountInv /\ ChargedOnlyIfAccepted /\ [Next]_vars
        => ChargedOnlyIfAccepted'
<1> SUFFICES ASSUME Inv, Inv', CountInv, ChargedOnlyIfAccepted, [Next]_vars,
                    NEW m \in Messages, debits'[m] > 0
             PROVE  \E e \in Entries(m)' : issued'[e] > 0
  BY DEF ChargedOnlyIfAccepted
<1>1. ASSUME NEW e \in Entries(m), issued[e] > 0
      PROVE  e \in Entries(m)' /\ issued'[e] > 0
  <2>1. e \in EntryIds /\ e \in Entries(m)'
    BY EntriesGrow DEF Entries, Added
  <2>2. issued'[e] >= issued[e] /\ issued[e] \in Nat /\ issued'[e] \in Nat
    BY <2>1, Grows DEF Inv, TypeOK
  <2> QED
    BY <1>1, <2>1, <2>2
<1>2. CASE UNCHANGED debits
  BY <1>1, <1>2 DEF ChargedOnlyIfAccepted
<1>3. ASSUME NEW w \in Workers, step[w] = "debit",
             debits' = [debits EXCEPT ![Job(w)] = @ + 1]
      PROVE  \E e \in Entries(m)' : issued'[e] > 0
  <2>1. CASE m = Job(w)
    BY <1>1, <1>3, <2>1, HeldIsEntry DEF Inv, JobsHaveEntries, AcceptedFirst
  <2>2. CASE m # Job(w)
    BY <1>1, <1>3, <2>2 DEF ChargedOnlyIfAccepted, Inv, TypeOK
  <2> QED
    BY <2>1, <2>2
<1> QED
  BY <1>2, <1>3, OnlyWorkersRecord, WorkerDebits DEF Next

\* An id is stored by the worker whose entry it was issued for.
LEMMA IdStep ==
    Inv /\ Inv' /\ CountInv /\ IdsNameTheirMessage /\ [Next]_vars
        => IdsNameTheirMessage'
<1> SUFFICES ASSUME Inv, Inv', CountInv, IdsNameTheirMessage, [Next]_vars,
                    NEW m \in Messages, providerId'[m] # NoId
             PROVE  /\ providerId'[m][1] \in Entries(m)'
                    /\ providerId'[m][2] \in 1 .. issued'[providerId'[m][1]]
  BY DEF IdsNameTheirMessage
<1>1. ASSUME NEW e \in Entries(m), NEW n \in 1 .. issued[e]
      PROVE  e \in Entries(m)' /\ n \in 1 .. issued'[e]
  <2>1. e \in EntryIds
    BY DEF Entries, Added
  <2> QED
    BY <2>1, Grows, EntriesGrow DEF Inv, TypeOK
<1>2. CASE providerId'[m] = providerId[m]
  BY <1>1, <1>2 DEF IdsNameTheirMessage
<1>3. ASSUME NEW w \in Workers, step[w] = "store", m = Job(w),
             providerId' = [providerId EXCEPT ![Job(w)] = <<held[w], issued[held[w]]>>]
      PROVE  /\ providerId'[m][1] \in Entries(m)'
             /\ providerId'[m][2] \in 1 .. issued'[providerId'[m][1]]
  <2>1. /\ held[w] \in Entries(m) /\ held[w] \in EntryIds
        /\ issued[held[w]] \in 1 .. issued[held[w]]
    BY <1>3, HeldIsEntry DEF Inv, TypeOK, JobsHaveEntries, AcceptedFirst
  <2>2. providerId'[m] = <<held[w], issued[held[w]]>>
    BY <1>3 DEF Inv, TypeOK
  <2> QED
    BY <1>1, <2>1, <2>2
<1>4. ASSUME NEW w \in Workers, m # Job(w),
             providerId' = [providerId EXCEPT ![Job(w)] = <<held[w], issued[held[w]]>>]
      PROVE  providerId'[m] = providerId[m]
  BY <1>4 DEF Inv, TypeOK
<1> QED
  BY <1>2, <1>3, <1>4, OnlyWorkersRecord, WorkerStores DEF Next

\* Only a service that refuses the credentials makes an adapter say so.
LEMMA AuthIsAnAnswer ==
    ASSUME NEW w \in Workers, Returns(w, "auth")
    PROVE  May("auth")
<1>1. PICK r \in Replies : MayReply(r) /\ "auth" \in Send(AdapterOf(provider[w]), r)
  BY DEF Returns, AnswersTo
<1>2. "auth" \notin IdInBody(r) /\ "auth" # Error(r)
  BY DEF IdInBody, Error
<1>3. "auth" \notin SendGridSend(r) \cup SMTPSend(r) \cup DevSend(r)
  BY <1>2 DEF SendGridSend, SMTPSend, SMTPDialogue, DevSend
<1>4. "auth" \in WhatsAppSend(r)
  BY <1>1, <1>2, <1>3
     DEF Send, MailgunSend, PostmarkSend, MSG91Send, TwilioSend
<1>5. PICK e \in MetaErrors(r) : MapMetaError(e) = "auth"
  BY <1>2, <1>4 DEF WhatsAppSend, MetaDo
<1>6. r \in {"denied", "forbidden"}
  BY <1>5 DEF MetaErrors, MapMetaError, IsRateLimit, IsAuthError, IsPermissionError
<1> QED
  BY <1>1, <1>6 DEF MayReply

\* The ways a handler comes to its last step.
LEMMA WorkerEnds ==
    ASSUME Inv, Inv', DoneIsRecorded, NEW w \in Workers,
           Loop(w) \/ TakeJob(w) \/ SenderStep(w) \/ Die(w)
    PROVE  /\ step'[w] \in {"deactivate", "expire"} => May("auth")
           /\ step'[w] = "done" => \/ issued'[held'[w]] > 0
                                   \/ held'[w] \in gaveUp'
                                   \/ May("auth") /\ May("db")
<1> USE DEF Inv, TypeOK, DoneIsRecorded, Goto
<1>1. CASE Unauthorized(w) \/ Deactivate(w)
  <2>1. May("auth")
    BY <1>1, AuthIsAnAnswer DEF Unauthorized, Deactivate
  <2> QED
    BY <1>1, <2>1 DEF Unauthorized, Deactivate
<1>2. CASE Expire(w) \/ Fail(w)
  BY <1>2 DEF Expire, Fail, queueVars
<1>3. CASE CheckCharge(w) \/ Debit(w)
  BY <1>3 DEF CheckCharge, Chargeable, Debit, worldVars, queueVars, AcceptedFirst
<1>4. CASE Loop(w)
  BY <1>4 DEF Loop, Start, ReadNothing, NextStream, ReadFails, Stop, jobVars,
              worldVars
<1>5. ASSUME ~Loop(w), ~Unauthorized(w), ~Deactivate(w), ~Expire(w), ~Fail(w),
             ~CheckCharge(w), ~Debit(w)
      PROVE  step'[w] \notin {"deactivate", "expire", "done"}
  BY <1>5
     DEF TakeJob, Die, SenderStep, LoadJob, LoadFails, GiveUp, NextAttempt,
         MayRetry, Exhausted, EndJob, Resolve, AttemptFails, MarkSubmitted,
         Accepted, AnswerLost, RateLimited, StoreResult, FailFails, FinishJob
<1> QED
  BY <1>1, <1>2, <1>3, <1>4, <1>5

LEMMA DoneStep ==
    Inv /\ Inv' /\ CountInv /\ DoneIsRecorded /\ [Next]_vars => DoneIsRecorded'
<1> SUFFICES ASSUME Inv, Inv', CountInv, DoneIsRecorded, [Next]_vars
             PROVE  DoneIsRecorded'
  OBVIOUS
<1>1. ASSUME NEW w \in Workers, Loop(w) \/ TakeJob(w) \/ SenderStep(w) \/ Die(w)
      PROVE  DoneIsRecorded'
  <2> SUFFICES ASSUME NEW v \in Workers, v # w
               PROVE  /\ step'[v] \in {"deactivate", "expire"} => May("auth")
                      /\ step'[v] = "done" => \/ issued'[held'[v]] > 0
                                              \/ held'[v] \in gaveUp'
                                              \/ May("auth") /\ May("db")
    BY <1>1, WorkerEnds DEF DoneIsRecorded, May
  <2>1. held'[v] = held[v] /\ step'[v] = step[v]
    BY <1>1, WorkerIsLocal
  <2>2. step[v] = "done" => held[v] \in EntryIds /\ issued[held[v]] <= issued'[held[v]]
    BY Grows, HeldType DEF Inv, TypeOK, JobsHaveEntries
  <2>3. gaveUp \subseteq gaveUp'
    BY Grows
  <2> QED
    BY <2>1, <2>2, <2>3 DEF DoneIsRecorded, Inv, TypeOK
<1>2. ASSUME UNCHANGED <<debits, providerId, step, held, gaveUp, pending, issued>>
      PROVE  DoneIsRecorded'
  BY <1>2 DEF DoneIsRecorded, May
<1> QED
  BY <1>1, <1>2, OnlyWorkersRecord DEF Next

LEMMA LossStep ==
    Inv /\ Inv' /\ CountInv /\ DoneIsRecorded /\ NoSilentLoss /\ [Next]_vars
        => NoSilentLoss'
<1> SUFFICES ASSUME Inv, Inv', CountInv, DoneIsRecorded, NoSilentLoss, [Next]_vars
             PROVE  NoSilentLoss'
  OBVIOUS
<1>1. ASSUME Acked' \subseteq Acked
      PROVE  NoSilentLoss'
  <2>1. ASSUME NEW e \in Acked
        PROVE  e \in EntryIds /\ issued[e] <= issued'[e] /\ gaveUp \subseteq gaveUp'
    BY <2>1, Grows DEF Acked, Given, Added
  <2> QED
    BY <1>1, <2>1 DEF NoSilentLoss, May, Inv, TypeOK
<1>2. ASSUME NEW w \in Workers, step[w] = "done", Acked' = Acked \cup {held[w]}
      PROVE  NoSilentLoss'
  <2>1. \A e \in Acked \cup {held[w]} :
            issued[e] > 0 \/ e \in gaveUp \/ (May("auth") /\ May("db"))
    BY <1>2 DEF NoSilentLoss, DoneIsRecorded
  <2>2. ASSUME NEW e \in Acked \cup {held[w]}
        PROVE  e \in EntryIds /\ issued[e] <= issued'[e] /\ gaveUp \subseteq gaveUp'
    BY <1>2, <2>2, Grows, HeldType DEF Acked, Given, Added, Inv, TypeOK,
                                       JobsHaveEntries
  <2> QED
    BY <1>2, <2>1, <2>2 DEF NoSilentLoss, May, Inv, TypeOK
<1>3. ASSUME NEW r, NEW h, RequestStep(r) \/ HookStep(h) \/ UNCHANGED vars
      PROVE  Acked' \subseteq Acked
  <2>1. UNCHANGED pending /\ UNCHANGED cursor
    BY <1>3
       DEF RequestStep, SendFindsKey, SendBegins, SendCreates, SendSuppresses,
           Insert, SendConflicts, SendRefused, RetryBegins, Publish, Enqueue,
           PublishFails, HookStep, HookReads, HookWrites, HookFails, vars,
           queueVars
  <2> QED
    BY <2>1, QueueAssumption
       DEF Acked, Given, Waiting, Added, Inv, TypeOK, QueueTypeOK, EntryIds
<1> QED
  BY <1>1, <1>2, <1>3, WorkerAcks DEF Next

LEMMA RecordsHold == Spec => [](Inv /\ CountInv /\ RecordInv)
<1>1. Init => Inv /\ CountInv /\ RecordInv
  BY InvInit, CountInit, RecordInit
<1>2. (Inv /\ CountInv /\ RecordInv) /\ [Next]_vars => (Inv /\ CountInv /\ RecordInv)'
  BY InvStep, CountStep, ChargeStep, IdStep, DoneStep, LossStep DEF RecordInv
<1> QED
  BY <1>1, <1>2, PTL DEF Spec

\* Nobody pays for a message the provider never accepted (sendWithCfg charges
\* last, after the provider's answer and the update of the row).
THEOREM OnlyAcceptedIsCharged == Spec => []ChargedOnlyIfAccepted
<1>1. RecordInv => ChargedOnlyIfAccepted
  BY DEF RecordInv
<1> QED
  BY <1>1, RecordsHold, PTL

\* A provider id in a row was issued for that row's message, so a webhook moves
\* the row it reports on (sendWithCfg, GetByProviderID).
THEOREM IdsAreTrue == Spec => []IdsNameTheirMessage
<1>1. RecordInv => IdsNameTheirMessage
  BY DEF RecordInv
<1> QED
  BY <1>1, RecordsHold, PTL

\* An entry is acked only when the provider accepted it or its failure was
\* written, but for a refused credential whose failure could not be written
\* (consume acks when HandleMessage returns nil).
THEOREM NothingIsLostSilently == Spec => []NoSilentLoss
<1>1. RecordInv => NoSilentLoss
  BY DEF RecordInv
<1> QED
  BY <1>1, RecordsHold, PTL
-----------------------------------------------------------------------------
(* The rows, and the requests that make them *)

\* A row comes before whatever refers to it, a failure is noted, and a message that
\* never failed has one entry or one request about to add it.
RowsInv ==
    /\ \A m \in Messages : status[m] = "absent" =>
           keyOf[m] = NoKey /\ Entries(m) = {} /\ Publishing(m) = {}
    /\ \A m \in Messages : status[m] = "failed" => m \in everFailed
    /\ \A m \in everFailed : status[m] # "absent"
    /\ \A r \in Requests : reqStep[r] = "requeue" => reqMsg[r] \in everFailed
    /\ \A m, n \in Messages : keyOf[m] = keyOf[n] /\ keyOf[m] # NoKey => m = n
    /\ \A m \in Messages \ everFailed :
           /\ \A e, f \in Entries(m) : e = f
           /\ \A q, r \in Publishing(m) : q = r
           /\ Entries(m) = {} \/ Publishing(m) = {}

LEMMA RowsInit == Init => RowsInv
  BY DispatchAssumption
     DEF Init, QueueInit, RowsInv, Entries, Added, EntryIds, Streams, Publishing

LEMMA RowsGiveIdempotence == RowsInv => IdempotentSend
<1> SUFFICES ASSUME RowsInv, NEW m \in Messages \ everFailed
             PROVE  Cardinality(Entries(m)) + Cardinality(Publishing(m)) <= 1
  BY DEF RowsInv, IdempotentSend
<1>1. Entries(m) = {} \/ \E e : Entries(m) = {e}
  BY DEF RowsInv
<1>2. Publishing(m) = {} \/ \E r : Publishing(m) = {r}
  BY DEF RowsInv
<1>3. Entries(m) = {} \/ Publishing(m) = {}
  BY DEF RowsInv
<1>4. Cardinality({}) = 0
  BY FS_EmptySet
<1>5. Cardinality(Entries(m)) \in {0, 1}
  BY <1>1, <1>4, FS_Singleton
<1>6. Cardinality(Publishing(m)) \in {0, 1}
  BY <1>2, <1>4, FS_Singleton
<1>7. Cardinality(Entries(m)) = 0 \/ Cardinality(Publishing(m)) = 0
  BY <1>3, <1>4
<1> HIDE DEF Entries, Publishing
<1> QED
  BY <1>5, <1>6, <1>7

\* What workers, webhooks and idleness do to rows.
OnlyStatuses ==
    /\ UNCHANGED <<log, reqStep, reqMsg, keyOf, returned>>
    /\ everFailed \subseteq everFailed'
    /\ \A m \in everFailed' : m \in everFailed \/ status'[m] = "failed"
    /\ \A m \in Messages :
           /\ status'[m] = "absent" => status[m] = "absent"
           /\ status'[m] = "failed" => status[m] = "failed" \/ m \in everFailed'
           /\ status'[m] # status[m] => Entries(m) # {}

LEMMA StatusUpdated ==
    ASSUME Inv, NEW m \in Messages, NEW s \in Statuses, UpdateStatus(m, s),
           UNCHANGED <<log, reqStep, reqMsg, keyOf, returned>>, Entries(m) # {}
    PROVE  OnlyStatuses
<1>1. "absent" \notin Statuses
  BY DEF Statuses
<1>2. status'[m] = s /\ \A n \in Messages \ {m} : status'[n] = status[n]
  BY DEF UpdateStatus, Inv, TypeOK
<1>3. everFailed' = IF s = "failed" THEN everFailed \cup {m} ELSE everFailed
  BY DEF UpdateStatus
<1> QED
  BY <1>1, <1>2, <1>3 DEF OnlyStatuses

LEMMA WorkerStatuses ==
    ASSUME Inv, NEW w \in Workers, Loop(w) \/ TakeJob(w) \/ SenderStep(w) \/ Die(w)
    PROVE  OnlyStatuses
<1>1. UNCHANGED <<log, reqStep, reqMsg, keyOf, returned>>
  BY DEF Loop, TakeJob, Die, SenderStep, LoadJob, LoadFails, GiveUp, NextAttempt,
         MayRetry, Exhausted, Resolve, AttemptFails, MarkSubmitted, Accepted,
         AnswerLost, RateLimited, Unauthorized, Deactivate, Expire,
         StoreResult, CheckCharge, Chargeable, Debit, Fail, FailFails, FinishJob,
         Start, Read, ReadNothing, ReadFails, Ack, LeavePending, Stop, Crash,
         queueVars, rowVars, reqVars
<1>2. step[w] # "idle" => Job(w) \in Messages /\ Entries(Job(w)) # {}
  BY JobIsMessage, HeldIsEntry DEF Inv, TypeOK, JobsHaveEntries
<1>3. \/ UNCHANGED <<status, everFailed>>
      \/ \E s \in {"provider_submitted", "sent", "failed"} :
             step[w] # "idle" /\ UpdateStatus(Job(w), s)
  BY DEF Loop, TakeJob, Die, SenderStep, LoadJob, LoadFails, GiveUp, NextAttempt,
         MayRetry, Exhausted, Resolve, AttemptFails, MarkSubmitted, Accepted,
         AnswerLost, RateLimited, Unauthorized, Deactivate, Expire, AcceptedStatus,
         StoreResult, CheckCharge, Chargeable, Debit, Fail, FailFails, FinishJob, rowVars
<1>4. {"provider_submitted", "sent", "failed"} \subseteq Statuses
  BY DEF Statuses
<1>5. CASE UNCHANGED <<status, everFailed>>
  BY <1>1, <1>5 DEF OnlyStatuses
<1> QED
  BY <1>1, <1>2, <1>3, <1>4, <1>5, StatusUpdated

\* A webhook request that is going to write knows the provider's id.
HooksHaveIds == \A h \in Hooks : hookStep[h] = "write" => hookId[h] # NoId

\* Requests and senders leave the webhooks alone.
LEMMA OthersLeaveHooks ==
    ASSUME [Next]_vars, ~\E h \in Hooks : HookStep(h)
    PROVE  UNCHANGED hookVars
<1>1. CASE UNCHANGED vars
  BY <1>1 DEF vars
<1>2. ASSUME NEW r \in Requests, RequestStep(r)
      PROVE  UNCHANGED hookVars
  BY <1>2 DEF RequestStep, SendFindsKey, SendBegins, SendCreates, SendSuppresses,
         Insert, SendConflicts, SendRefused, RetryBegins, Publish, PublishFails
<1>3. ASSUME NEW w \in Workers, Loop(w) \/ TakeJob(w) \/ SenderStep(w) \/ Die(w)
      PROVE  UNCHANGED hookVars
  BY <1>3
     DEF Loop, TakeJob, Die, SenderStep, LoadJob, LoadFails, GiveUp, NextAttempt,
         MayRetry, Exhausted, Resolve, AttemptFails, MarkSubmitted, Accepted,
         AnswerLost, RateLimited, Unauthorized, Deactivate, Expire, StoreResult,
         CheckCharge, Chargeable, Debit, Fail, FailFails, FinishJob
<1> QED
  BY <1>1, <1>2, <1>3 DEF Next

LEMMA HooksHaveIdsStep ==
    ASSUME Inv, HooksHaveIds, [Next]_vars
    PROVE  HooksHaveIds'
<1>1. CASE ~\E h \in Hooks : HookStep(h)
  BY <1>1, OthersLeaveHooks DEF HooksHaveIds, hookVars
<1>2. ASSUME NEW h \in Hooks, HookStep(h)
      PROVE  HooksHaveIds'
  <2>1. ASSUME NEW pid \in Ids, NEW s, HookReads(h, pid, s)
        PROVE  HooksHaveIds'
    <3>1. pid \in ProviderIds
      BY DEF Ids, ProviderIds
    <3>2. pid # NoId
      BY <3>1, NoIdAssumption
    <3> QED
      BY <2>1, <3>2 DEF HookReads, HooksHaveIds, Inv, TypeOK
  <2>2. CASE HookWrites(h) \/ HookFails(h)
    BY <2>2 DEF HookWrites, HookFails, HookEnds, HooksHaveIds, Inv, TypeOK
  <2> QED
    BY <1>2, <2>1, <2>2 DEF HookStep
<1> QED
  BY <1>1, <1>2

LEMMA HookStatuses ==
    ASSUME Inv, IdsNameTheirMessage, HooksHaveIds, NEW h \in Hooks, HookStep(h)
    PROVE  OnlyStatuses
<1>1. UNCHANGED <<log, reqStep, reqMsg, keyOf, returned>>
  BY DEF HookStep, HookReads, HookWrites, HookFails, queueVars, rowVars, reqVars
<1>2. CASE UNCHANGED <<status, everFailed>>
  BY <1>1, <1>2 DEF OnlyStatuses
<1>3. CASE HookWrites(h)
  <2> DEFINE named == RowWithId(hookId[h])
  <2>1. hookStatus[h] \in Statuses /\ hookId[h] # NoId
    BY <1>3 DEF HookWrites, HooksHaveIds, Inv, TypeOK
  <2>2. "absent" \notin Statuses
    BY DEF Statuses
  <2>3. \A m \in named : m \in Messages /\ Entries(m) # {}
    BY <2>1 DEF RowWithId, IdsNameTheirMessage
  <2>4. /\ \A m \in Messages : status'[m] = IF m \in named THEN hookStatus[h] ELSE status[m]
        /\ everFailed' = everFailed \cup {m \in named : hookStatus[h] = "failed"}
    BY <1>3 DEF HookWrites
  <2> HIDE DEF named
  <2> QED
    BY <1>1, <2>1, <2>2, <2>3, <2>4 DEF OnlyStatuses
<1> QED
  BY <1>2, <1>3 DEF HookStep, HookReads, HookFails, rowVars

LEMMA StatusesKeepRows ==
    ASSUME Inv, RowsInv, OnlyStatuses
    PROVE  RowsInv'
<1>1. \A m : Entries(m)' = Entries(m) /\ Publishing(m)' = Publishing(m)
  BY DEF OnlyStatuses, Entries, Added, MessageOf, Publishing
<1>2. \A m \in Messages : status'[m] = "absent" =>
          keyOf'[m] = NoKey /\ Entries(m)' = {} /\ Publishing(m)' = {}
  BY <1>1 DEF RowsInv, OnlyStatuses
<1>3. \A m \in Messages : status'[m] = "failed" => m \in everFailed'
  BY DEF RowsInv, OnlyStatuses
<1>4. \A m \in everFailed' : status'[m] # "absent"
  BY DEF RowsInv, OnlyStatuses, Inv, TypeOK
<1>5. \A r \in Requests : reqStep'[r] = "requeue" => reqMsg'[r] \in everFailed'
  BY DEF RowsInv, OnlyStatuses
<1>6. \A m \in Messages \ everFailed' :
          /\ \A e, f \in Entries(m)' : e = f
          /\ \A q, r \in Publishing(m)' : q = r
          /\ Entries(m)' = {} \/ Publishing(m)' = {}
  BY <1>1 DEF RowsInv, OnlyStatuses
<1>7. keyOf' = keyOf
  BY DEF OnlyStatuses
<1> QED
  BY <1>2, <1>3, <1>4, <1>5, <1>6, <1>7 DEF RowsInv

\* Adding an entry gives its message one more, and no other.
LEMMA EnqueuedEntries ==
    ASSUME QueueTypeOK, NEW s \in Streams, NEW m \in Messages, Enqueue(s, m)
    PROVE  \E e : /\ Entries(m)' = Entries(m) \cup {e}
                  /\ \A n \in Messages \ {m} : Entries(n)' = Entries(n)
<1> DEFINE k == Len(log[s]) + 1
           new == <<s, k>>
<1>1. /\ log[s] \in Seq(Messages) /\ k \in 1 .. MaxEntries
      /\ log'[s] = Append(log[s], m) /\ \A t \in Streams \ {s} : log'[t] = log[t]
  BY QueueAssumption DEF Enqueue, QueueTypeOK
<1>2. /\ Len(log'[s]) = k /\ log'[s][k] = m
      /\ \A i \in 1 .. Len(log[s]) : log'[s][i] = log[s][i]
  BY <1>1
<1>3. ASSUME NEW e \in EntryIds
      PROVE  /\ e \in Added' <=> e \in Added \/ e = new
             /\ e \in Added => MessageOf(e)' = MessageOf(e)
             /\ e = new => e \notin Added /\ MessageOf(e)' = m
  <2>1. e = <<e[1], e[2]>> /\ e[1] \in Streams /\ e[2] \in 1 .. MaxEntries
    BY DEF EntryIds
  <2>2. CASE e[1] = s
    BY <1>1, <1>2, <2>1, <2>2 DEF Added, MessageOf
  <2>3. CASE e[1] # s
    BY <1>1, <2>1, <2>3 DEF Added, MessageOf
  <2> QED
    BY <2>2, <2>3
<1>4. new \in EntryIds
  BY <1>1 DEF EntryIds
<1> HIDE DEF new
<1>5. \A n : \A e : e \in Entries(n) <=> e \in EntryIds /\ e \in Added /\ MessageOf(e) = n
  BY DEF Entries, Added
<1>6. \A n : \A e : e \in Entries(n)'
                <=> e \in EntryIds /\ e \in Added' /\ MessageOf(e)' = n
  BY DEF Entries, Added
<1>7. Entries(m)' = Entries(m) \cup {new}
  BY <1>3, <1>4, <1>5, <1>6
<1>8. \A n \in Messages \ {m} : Entries(n)' = Entries(n)
  BY <1>3, <1>4, <1>5, <1>6
<1> QED
  BY <1>7, <1>8

\* A request leaves the queue and the rows alone, and who publishes what.
LEMMA QuietRequest ==
    ASSUME RowsInv, UNCHANGED <<log, status, keyOf, everFailed>>,
           \A m \in Messages : Publishing(m)' \subseteq Publishing(m),
           \A r \in Requests : reqStep'[r] = "requeue" => reqMsg'[r] \in everFailed
    PROVE  RowsInv'
<1>1. \A m : Entries(m)' = Entries(m)
  BY DEF Entries, Added, MessageOf
<1> QED
  BY <1>1 DEF RowsInv

\* What returning does to who publishes.
LEMMA Returned ==
    ASSUME Inv, NEW r \in Requests, Return(r)
    PROVE  /\ \A m : Publishing(m)' = Publishing(m) \ {r}
           /\ \A q \in Requests : reqStep'[q] = "requeue" =>
                  reqStep[q] = "requeue" /\ reqMsg'[q] = reqMsg[q]
  BY DEF Return, Publishing, Inv, TypeOK

\* The INSERT of a row with a key that is free.
LEMMA InsertKeepsRows ==
    ASSUME Inv, RowsInv, NEW r \in Requests, NEW m \in Messages, NEW s \in Statuses,
           Insert(r, m, s), s # "failed",
           \A n \in Messages \ {m} : Publishing(n)' \subseteq Publishing(n),
           Publishing(m)' \subseteq {r},
           \A q \in Requests : reqStep'[q] = "requeue" => reqMsg'[q] \in everFailed
    PROVE  RowsInv'
<1>1. /\ status[m] = "absent" /\ KeyIsFree(reqKey[r])
      /\ UNCHANGED <<log, everFailed>>
  BY DEF Insert, queueVars
<1>2. /\ status'[m] = s /\ s # "absent" /\ keyOf'[m] = reqKey[r]
      /\ \A n \in Messages \ {m} : status'[n] = status[n] /\ keyOf'[n] = keyOf[n]
  BY DEF Insert, Statuses, Inv, TypeOK
<1>3. \A n : Entries(n)' = Entries(n)
  BY <1>1 DEF Entries, Added, MessageOf
<1>4. Entries(m) = {} /\ m \notin everFailed
  BY <1>1 DEF RowsInv
<1>5. ASSUME NEW n \in Messages \ {m}, keyOf[n] = reqKey[r]
      PROVE  reqKey[r] = NoKey
  BY <1>1, <1>5 DEF KeyIsFree, RowWithKey, RowsInv
<1>6. \A a, b \in Messages : keyOf'[a] = keyOf'[b] /\ keyOf'[a] # NoKey => a = b
  BY <1>2, <1>5 DEF RowsInv
<1>7. \A n \in Messages : status'[n] = "absent" =>
          keyOf'[n] = NoKey /\ Entries(n)' = {} /\ Publishing(n)' = {}
  BY <1>2, <1>3 DEF RowsInv
<1>8. \A n \in Messages : status'[n] = "failed" => n \in everFailed'
  BY <1>1, <1>2 DEF RowsInv
<1>9. \A n \in everFailed' : status'[n] # "absent"
  BY <1>1, <1>2, <1>4 DEF RowsInv, Inv, TypeOK
<1>10. ASSUME NEW n \in Messages \ everFailed'
       PROVE  /\ \A e, f \in Entries(n)' : e = f
              /\ \A q, t \in Publishing(n)' : q = t
              /\ Entries(n)' = {} \/ Publishing(n)' = {}
  <2>1. CASE n = m
    BY <1>3, <1>4, <2>1
  <2>2. CASE n # m
    BY <1>1, <1>3, <2>2 DEF RowsInv
  <2> QED
    BY <2>1, <2>2
<1> QED
  BY <1>1, <1>6, <1>7, <1>8, <1>9, <1>10 DEF RowsInv

LEMMA RequestKeepsRows ==
    ASSUME Inv, RowsInv, NEW r \in Requests, RequestStep(r)
    PROVE  RowsInv'
<1>1. ASSUME NEW k \in Keys \cup {NoKey}, SendFindsKey(r, k) \/ SendBegins(r, k)
      PROVE  RowsInv'
  <2>1. \A m : Publishing(m)' \subseteq Publishing(m)
    BY <1>1 DEF SendFindsKey, SendBegins, Publishing, Inv, TypeOK
  <2>2. \A q \in Requests : reqStep'[q] = "requeue" => reqMsg'[q] \in everFailed
    BY <1>1 DEF SendFindsKey, SendBegins, RowsInv, Inv, TypeOK
  <2>3. UNCHANGED <<log, status, keyOf, everFailed>>
    BY <1>1 DEF SendFindsKey, SendBegins, queueVars, rowVars
  <2> QED
    BY <2>1, <2>2, <2>3, QuietRequest
<1>2. ASSUME NEW m \in Messages, SendCreates(r, m)
      PROVE  RowsInv'
  <2>1. Insert(r, m, "queued") /\ "queued" \in Statuses
    BY <1>2 DEF SendCreates, Statuses
  <2>2. /\ reqStep' = [reqStep EXCEPT ![r] = "publish"]
        /\ reqMsg' = [reqMsg EXCEPT ![r] = m] /\ reqStep[r] = "create"
    BY <1>2 DEF SendCreates, Insert
  <2>3. Publishing(m) = {}
    BY <2>1 DEF Insert, RowsInv
  <2>4. /\ \A n \in Messages \ {m} : Publishing(n)' \subseteq Publishing(n)
        /\ Publishing(m)' \subseteq {r}
    BY <2>2, <2>3 DEF Publishing, Inv, TypeOK
  <2>5. \A q \in Requests : reqStep'[q] = "requeue" => reqMsg'[q] \in everFailed
    BY <2>2 DEF RowsInv, Inv, TypeOK
  <2> QED
    BY <2>1, <2>4, <2>5, InsertKeepsRows
<1>3. ASSUME NEW m \in Messages, SendSuppresses(r, m)
      PROVE  RowsInv'
  <2>1. Insert(r, m, "suppressed") /\ "suppressed" \in Statuses /\ Return(r)
    BY <1>3 DEF SendSuppresses, Statuses
  <2>2. Publishing(m) = {}
    BY <2>1 DEF Insert, RowsInv
  <2>3. \A q \in Requests : reqStep'[q] = "requeue" => reqMsg'[q] \in everFailed
    BY <2>1, Returned DEF RowsInv
  <2> QED
    BY <2>1, <2>2, <2>3, Returned, InsertKeepsRows
<1>4. CASE SendConflicts(r) \/ SendRefused(r) \/ PublishFails(r)
  <2>1. Return(r) /\ UNCHANGED <<log, status, keyOf, everFailed>>
    BY <1>4 DEF SendConflicts, SendRefused, PublishFails, queueVars, rowVars
  <2>2. \A q \in Requests : reqStep'[q] = "requeue" => reqMsg'[q] \in everFailed
    BY <2>1, Returned DEF RowsInv
  <2> QED
    BY <2>1, <2>2, Returned, QuietRequest
<1>5. ASSUME NEW m \in Messages, RetryBegins(r, m)
      PROVE  RowsInv'
  <2>1. m \in everFailed /\ UNCHANGED <<log, status, keyOf, everFailed>>
    BY <1>5 DEF RetryBegins, RowsInv, queueVars, rowVars
  <2>2. \A n : Publishing(n)' \subseteq Publishing(n)
    BY <1>5 DEF RetryBegins, Publishing, Inv, TypeOK
  <2>3. \A q \in Requests : reqStep'[q] = "requeue" => reqMsg'[q] \in everFailed
    BY <1>5, <2>1 DEF RetryBegins, RowsInv, Inv, TypeOK
  <2> QED
    BY <2>1, <2>2, <2>3, QuietRequest
<1>6. ASSUME NEW s \in Streams, Publish(r, s)
      PROVE  RowsInv'
  <2>1. PICK m \in Messages :
            /\ m = reqMsg[r] /\ Enqueue(s, m) /\ Return(r)
            /\ UNCHANGED <<status, keyOf, everFailed>>
    BY <1>6 DEF Publish, Inv, RequestsHaveMessages, rowVars
  <2>2. PICK e : /\ Entries(m)' = Entries(m) \cup {e}
                 /\ \A n \in Messages \ {m} : Entries(n)' = Entries(n)
    BY <2>1, EnqueuedEntries DEF Inv, TypeOK
  <2>3. status[m] # "absent" /\ (m \in everFailed \/ r \in Publishing(m))
    BY <1>6, <2>1 DEF Publish, RowsInv, Publishing
  <2>4. m \notin everFailed => Entries(m)' = {e} /\ Publishing(m)' = {}
    BY <2>1, <2>2, <2>3, Returned DEF RowsInv
  <2>5. \A q \in Requests : reqStep'[q] = "requeue" => reqMsg'[q] \in everFailed
    BY <2>1, Returned DEF RowsInv
  <2>6. \A n \in Messages : Publishing(n)' \subseteq Publishing(n)
    BY <2>1, Returned
  <2> QED
    BY <2>1, <2>2, <2>3, <2>4, <2>5, <2>6 DEF RowsInv
<1> QED
  BY <1>1, <1>2, <1>3, <1>4, <1>5, <1>6 DEF RequestStep

LEMMA RowsStep ==
    ASSUME Inv, IdsNameTheirMessage, HooksHaveIds, RowsInv, [Next]_vars
    PROVE  RowsInv'
<1>1. UNCHANGED vars => OnlyStatuses
  BY DEF vars, queueVars, rowVars, reqVars, OnlyStatuses
<1> QED
  BY <1>1, RequestKeepsRows, WorkerStatuses, HookStatuses, StatusesKeepRows DEF Next

LEMMA RowsHold == Spec => [](HooksHaveIds /\ RowsInv)
<1>1. Init => HooksHaveIds
  BY DEF Init, HooksHaveIds
<1>2. Inv /\ RecordInv /\ HooksHaveIds /\ RowsInv /\ [Next]_vars => (HooksHaveIds /\ RowsInv)'
  BY HooksHaveIdsStep, RowsStep DEF RecordInv
<1> QED
  BY <1>1, <1>2, RecordsHold, RowsInit, PTL DEF Spec

\* One idempotency key names one message, and a message that never failed is in the
\* queue once at most, however requests interleave (Send).
THEOREM SendIsIdempotent == Spec => []IdempotentSend
  BY RowsHold, RowsGiveIdempotence, PTL

\* A message that never failed is sent for one entry only, and for that one the
\* provider accepts it MaxRetries + 1 times at most.
SentForOneEntry ==
    \A m \in Messages \ everFailed : \A e, f \in Entries(m) :
        e = f /\ issued[e] <= MaxRetries + 1

\* However many requests name a key, whatever answers are lost and whoever crashes, a
\* recipient gets a message that never failed MaxRetries + 1 times at most (Send, the
\* retry loop of HandleMessage, over the queue).
THEOREM RecipientsAreSpared == Spec => []SentForOneEntry
<1>1. Inv /\ RowsInv /\ BoundedDuplicates => SentForOneEntry
  BY DEF RowsInv, BoundedDuplicates, SentForOneEntry, Entries, Added, Inv, TypeOK
<1> QED
  BY <1>1, RowsHold, RecordsHold, DuplicatesAreBounded, PTL
-----------------------------------------------------------------------------
(* What callers were told *)

\* While the queue takes what it is given, every row that is not suppressed has an
\* entry or a request that is about to add it, and callers are told of rows only.
AnswersInv ==
    /\ \A m \in Messages : status[m] # "absent" =>
           status[m] = "suppressed" \/ Entries(m) # {} \/ Publishing(m) # {}
    /\ \A m \in returned : status[m] # "absent"

LEMMA AnswersStep ==
    ASSUME ~May("queue"), Inv, Inv', CountInv, IdsNameTheirMessage, HooksHaveIds, RowsInv,
           AnswersInv, [Next]_vars
    PROVE  AnswersInv'
<1>1. ASSUME OnlyStatuses
      PROVE  AnswersInv'
  <2>1. \A m : Entries(m)' = Entries(m) /\ Publishing(m)' = Publishing(m)
    BY <1>1 DEF OnlyStatuses, Entries, Added, MessageOf, Publishing
  <2> QED
    BY <1>1, <2>1 DEF AnswersInv, OnlyStatuses, Inv, TypeOK
<1>2. ASSUME NEW r \in Requests, RequestStep(r)
      PROVE  AnswersInv'
  <2>1. \A m \in Messages : Entries(m) \subseteq Entries(m)'
    BY EntriesGrow
  <2>2. ASSUME UNCHANGED status, \A m \in Messages : Publishing(m) \subseteq Publishing(m)',
               \A m \in returned' : m \in returned \/ status[m] # "absent"
        PROVE  AnswersInv'
    BY <2>1, <2>2 DEF AnswersInv
  <2>3. ASSUME NEW k \in Keys \cup {NoKey}, SendFindsKey(r, k) \/ SendBegins(r, k)
        PROVE  AnswersInv'
    BY <2>2, <2>3 DEF SendFindsKey, SendBegins, Publishing, RowWithKey, rowVars, Inv, TypeOK
  <2>4. ASSUME NEW m \in Messages, SendCreates(r, m)
        PROVE  AnswersInv'
    <3>1. /\ status' = [status EXCEPT ![m] = "queued"] /\ returned' = returned
          /\ reqStep[r] = "create" /\ reqStep' = [reqStep EXCEPT ![r] = "publish"]
          /\ reqMsg' = [reqMsg EXCEPT ![r] = m]
      BY <2>4 DEF SendCreates, Insert
    <3>2. r \in Publishing(m)' /\ \A n \in Messages : Publishing(n) \subseteq Publishing(n)'
      BY <3>1 DEF Publishing, Inv, TypeOK
    <3>3. status'[m] = "queued" /\ \A n \in Messages \ {m} : status'[n] = status[n]
      BY <3>1 DEF Inv, TypeOK
    <3> QED
      BY <2>1, <3>1, <3>2, <3>3 DEF AnswersInv
  <2>5. ASSUME NEW m \in Messages, SendSuppresses(r, m)
        PROVE  AnswersInv'
    <3>1. /\ status' = [status EXCEPT ![m] = "suppressed"] /\ returned' = returned \cup {m}
          /\ reqStep[r] = "create" /\ Return(r)
      BY <2>5 DEF SendSuppresses, Insert
    <3>2. \A n \in Messages : Publishing(n) \subseteq Publishing(n)'
      BY <3>1, Returned DEF Publishing
    <3> QED
      BY <2>1, <3>1, <3>2 DEF AnswersInv, Inv, TypeOK
  <2>6. CASE SendConflicts(r) \/ SendRefused(r)
    <3>1. reqStep[r] = "create" /\ Return(r) /\ UNCHANGED status
      BY <2>6 DEF SendConflicts, SendRefused, rowVars
    <3>2. \A n \in Messages : Publishing(n) \subseteq Publishing(n)'
      BY <3>1, Returned DEF Publishing
    <3>3. \A m \in returned' : m \in returned \/ status[m] # "absent"
      BY <2>6 DEF SendConflicts, SendRefused, RowWithKey
    <3> QED
      BY <2>2, <3>1, <3>2, <3>3
  <2>7. ASSUME NEW m \in Messages, RetryBegins(r, m)
        PROVE  AnswersInv'
    BY <2>2, <2>7 DEF RetryBegins, Publishing, rowVars, Inv, TypeOK
  <2>8. ASSUME NEW s \in Streams, Publish(r, s)
        PROVE  AnswersInv'
    <3>1. PICK m \in Messages :
              /\ m = reqMsg[r] /\ Enqueue(s, m) /\ Return(r) /\ UNCHANGED status
              /\ returned' = returned \cup {m}
      BY <2>8 DEF Publish, Inv, RequestsHaveMessages, rowVars
    <3>2. Entries(m)' # {}
      BY <3>1, EnqueuedEntries DEF Inv, TypeOK
    <3>3. \A n \in Messages \ {m} : Publishing(n) \subseteq Publishing(n)'
      BY <3>1, Returned DEF Publishing
    <3>4. status[m] # "absent"
      BY <2>8, <3>1 DEF Publish, RowsInv, Publishing
    <3> QED
      BY <2>1, <3>1, <3>2, <3>3, <3>4 DEF AnswersInv
  <2> QED
    BY <1>2, <2>3, <2>4, <2>5, <2>6, <2>7, <2>8 DEF RequestStep, PublishFails
<1>3. UNCHANGED vars => OnlyStatuses
  BY DEF vars, queueVars, rowVars, reqVars, OnlyStatuses
<1> QED
  BY <1>1, <1>2, <1>3, WorkerStatuses, HookStatuses DEF Next

\* While the queue takes what it is given, no caller is told of a message that
\* nobody will send (Send: the row first, then the entry, then the answer).
THEOREM AnswersAreQueued == ~May("queue") => (Spec => []AnsweredIsQueued)
<1> SUFFICES ASSUME ~May("queue") PROVE Spec => []AnsweredIsQueued
  OBVIOUS
<1>1. Init => AnswersInv
  BY DEF Init, AnswersInv
<1>2. /\ Inv /\ CountInv /\ RecordInv /\ HooksHaveIds /\ RowsInv /\ AnswersInv
      /\ Inv' /\ [Next]_vars
      => AnswersInv'
  BY AnswersStep DEF RecordInv
<1>3. Inv /\ AnswersInv => AnsweredIsQueued
  BY DEF AnswersInv, AnsweredIsQueued, Inv, TypeOK
<1> QED
  BY <1>1, <1>2, <1>3, RecordsHold, RowsHold, PTL DEF Spec
-----------------------------------------------------------------------------
(* One charge for a message *)

ChargesInv ==
    /\ ChargedOnce
    /\ \A w \in Workers : step[w] = "debit" => debits[Job(w)] = 0

\* Who comes to debit has found no entry in the ledger.
LEMMA WorkerChecks ==
    ASSUME Inv, NEW w \in Workers, Loop(w) \/ TakeJob(w) \/ SenderStep(w) \/ Die(w),
           step'[w] = "debit"
    PROVE  /\ held'[w] = held[w] /\ UNCHANGED <<log, debits>>
           /\ step[w] = "debit" \/ debits[Job(w)] = 0
  BY DEF Loop, TakeJob, Die, SenderStep, LoadJob, LoadFails, GiveUp, NextAttempt,
         MayRetry, Exhausted, Resolve, AttemptFails, MarkSubmitted, Accepted,
         AnswerLost, Accept, RateLimited, Unauthorized, Deactivate, Expire,
         StoreResult, CheckCharge, Chargeable, Uncharged, Debit, Fail, FailFails, FinishJob,
         EndJob, Goto, Start, ReadNothing, ReadFails, Stop, jobVars, worldVars, queueVars,
         Inv, TypeOK

LEMMA ChargesStep ==
    ASSUME \A v, w \in Workers : v = w,
           Inv, Inv', CountInv, ChargesInv, [Next]_vars
    PROVE  ChargesInv'
<1>1. ASSUME NEW w \in Workers, Loop(w) \/ TakeJob(w) \/ SenderStep(w) \/ Die(w)
      PROVE  ChargesInv'
  <2>1. ChargedOnce'
    <3>1. CASE debits' = debits
      BY <3>1 DEF ChargesInv, ChargedOnce
    <3>2. CASE step[w] = "debit" /\ debits' = [debits EXCEPT ![Job(w)] = @ + 1]
      BY <3>2 DEF ChargesInv, ChargedOnce, Inv, TypeOK
    <3> QED
      BY <1>1, <3>1, <3>2, WorkerDebits
  <2>2. step'[w] = "debit" => debits'[Job(w)'] = 0
    <3>1. ASSUME step'[w] = "debit"
          PROVE  Job(w)' = Job(w) /\ debits[Job(w)] = 0 /\ debits' = debits
      BY <1>1, <3>1, WorkerChecks DEF ChargesInv, Job, MessageOf
    <3> QED
      BY <3>1
  <2> QED
    BY <2>1, <2>2 DEF ChargesInv
<1>2. ASSUME UNCHANGED <<debits, step, held>>
      PROVE  ChargesInv'
  <2>1. \A w \in Workers : step[w] = "debit" => Job(w)' = Job(w)
    <3>1. \A w \in Workers : step[w] = "debit" => held[w] \in Added
      BY HeldIsEntry DEF Inv, JobsHaveEntries, Entries
    <3> QED
      BY <1>2, <3>1, Grows DEF Job
  <2> QED
    BY <1>2, <2>1 DEF ChargesInv, ChargedOnce
<1> QED
  BY <1>1, <1>2, OnlyWorkersRecord DEF Next

\* Where one worker runs, a message is charged once, however often it is sent and
\* however often the worker dies (RecordMessageCharge looks before it debits; two
\* workers that send one message, sent once and retried, may both look first).
THEOREM OneWorkerChargesOnce == (\A v, w \in Workers : v = w) => (Spec => []ChargedOnce)
<1> SUFFICES ASSUME \A v, w \in Workers : v = w PROVE Spec => []ChargedOnce
  OBVIOUS
<1>1. Init => ChargesInv
  BY DEF Init, ChargesInv, ChargedOnce
<1>2. Inv /\ Inv' /\ CountInv /\ ChargesInv /\ [Next]_vars => ChargesInv'
  BY ChargesStep
<1>3. ChargesInv => ChargedOnce
  BY DEF ChargesInv
<1> QED
  BY <1>1, <1>2, <1>3, RecordsHold, PTL DEF Spec
-----------------------------------------------------------------------------
(* What webhooks do to a row *)

\* A webhook request that is going to write found no row, or one its report advances.
SeenInv == \A h \in Hooks : hookStep[h] = "write" =>
    hookSeen[h] = "absent" \/ Advances(hookSeen[h], hookStatus[h])

LEMMA SeenStep ==
    ASSUME Inv, SeenInv, [Next]_vars
    PROVE  SeenInv'
<1>1. CASE ~\E h \in Hooks : HookStep(h)
  BY <1>1, OthersLeaveHooks DEF SeenInv, hookVars
<1>2. ASSUME NEW h \in Hooks, NEW pid, NEW s, HookReads(h, pid, s)
      PROVE  SeenInv'
  <2>1. PICK seen :
            /\ seen # "absent" => Advances(seen, s)
            /\ hookSeen' = [hookSeen EXCEPT ![h] = seen]
    BY <1>2 DEF HookReads
  <2>2. /\ hookStep' = [hookStep EXCEPT ![h] = "write"]
        /\ hookStatus' = [hookStatus EXCEPT ![h] = s]
    BY <1>2 DEF HookReads
  <2>3. /\ hookSeen'[h] = seen /\ hookStatus'[h] = s
        /\ \A g \in Hooks \ {h} : /\ hookSeen'[g] = hookSeen[g]
                                  /\ hookStatus'[g] = hookStatus[g]
                                  /\ hookStep'[g] = hookStep[g]
    BY <2>1, <2>2 DEF Inv, TypeOK
  <2> QED
    BY <2>1, <2>3 DEF SeenInv
<1>3. ASSUME NEW h \in Hooks, HookWrites(h) \/ HookFails(h)
      PROVE  SeenInv'
  BY <1>3 DEF HookWrites, HookFails, HookEnds, SeenInv, Inv, TypeOK
<1> QED
  BY <1>1, <1>2, <1>3 DEF HookStep

\* No report, however late, repeated or out of order, brings a row back that is still
\* as the report's lookup found it (processWhatsAppStatus).
THEOREM OnlyLateDowngrades == Spec => DowngradesAreLate
<1>1. Init => SeenInv
  BY DEF Init, SeenInv
<1>2. Inv /\ SeenInv /\ [Next]_vars => SeenInv'
  BY SeenStep
<1>3. RecordInv /\ HooksHaveIds /\ RowsInv /\ SeenInv /\ [Next]_vars =>
          [\A h \in Hooks : HookWrites(h) =>
              \A m \in RowWithId(hookId[h]) : status[m] = hookSeen[h] =>
                  Advances(status[m], status'[m])]_vars
  <2>1. SUFFICES ASSUME RecordInv, HooksHaveIds, RowsInv, SeenInv, NEW h \in Hooks,
                        HookWrites(h), NEW m \in RowWithId(hookId[h]), status[m] = hookSeen[h]
                 PROVE  Advances(status[m], status'[m])
    OBVIOUS
  <2>2. m \in Messages /\ providerId[m] # NoId
    BY <2>1 DEF RowWithId, HookWrites, HooksHaveIds
  <2>3. status[m] # "absent"
    BY <2>1, <2>2 DEF RecordInv, IdsNameTheirMessage, RowsInv
  <2>4. status'[m] = hookStatus[h]
    BY <2>1, <2>2 DEF HookWrites
  <2> QED
    BY <2>1, <2>3, <2>4 DEF SeenInv, HookWrites
<1> QED
  BY <1>1, <1>2, <1>3, InvInit, InvStep, RecordsHold, RowsHold, PTL DEF Spec, DowngradesAreLate
-----------------------------------------------------------------------------
(* Senders and webhooks on one row *)

\* The steps of a handler from which it may still come to write the row.
Early == {"load", "resolve", "submit", "call", "store", "deactivate", "expire", "fail"}

\* A row no webhook can find yet, as Send and the first writes of its sender leave it.
Unreported(m) == providerId[m] = NoId /\ status[m] \in {"queued", "provider_submitted"}

\* Until its sender has stored the provider's id, a message that never failed is in a
\* row that no report has touched.
HandlersFirst == \A w \in Workers :
    step[w] \in Early /\ Job(w) \notin everFailed => Unreported(Job(w))
WaitingFirst == \A e \in Waiting : MessageOf(e) \notin everFailed => Unreported(MessageOf(e))
PublishedFirst == \A m \in Messages \ everFailed : Publishing(m) # {} => Unreported(m)
UnreportedInv == HandlersFirst /\ WaitingFirst /\ PublishedFirst

\* The status of a message that never failed goes forward whoever writes it, but for a
\* report whose lookup found another status than its update.
OnlyForward ==
    [][\A m \in Messages \ everFailed :
          \/ Rank(status'[m]) >= Rank(status[m])
          \/ \E h \in Hooks : /\ HookWrites(h) /\ m \in RowWithId(hookId[h])
                              /\ hookSeen[h] # status[m]]_vars

\* What is in a stream is a message.
LEMMA EntryIsMessage ==
    ASSUME QueueTypeOK, NEW e \in Added
    PROVE  MessageOf(e) \in Messages
<1>1. e[1] \in Streams /\ e[2] \in 1 .. Len(log[e[1]])
  BY QueueAssumption DEF Added, EntryIds
<1>2. log[e[1]] \in Seq(Messages)
  BY <1>1 DEF QueueTypeOK
<1> QED
  BY <1>1, <1>2 DEF MessageOf

\* What a worker reads was waiting.
LEMMA ReadWaited ==
    ASSUME QueueTypeOK, NEW w \in Workers, Read(w)
    PROVE  held'[w] \in Waiting
<1> DEFINE s == turn[w]
           e == <<s, cursor[s] + 1>>
<1>1. s \in Streams /\ cursor[s] \in Nat /\ cursor[s] + 1 <= Len(log[s])
      /\ Len(log[s]) \in Nat /\ Len(log[s]) <= MaxEntries
  BY DEF QueueTypeOK, Read, HasMore
<1>2. e \in EntryIds /\ e[1] = s /\ e[2] = cursor[s] + 1
  BY <1>1, QueueAssumption DEF EntryIds
<1>3. held'[w] = e
  BY DEF Read, QueueTypeOK
<1> HIDE DEF e, s
<1> QED
  BY <1>1, <1>2, <1>3 DEF Waiting, Added

\* What is new in a stream is the message that was added.
LEMMA NewIsAdded ==
    ASSUME QueueTypeOK, NEW s \in Streams, NEW m \in Messages, Enqueue(s, m),
           NEW e \in Added', e \notin Added
    PROVE  MessageOf(e)' = m
<1>1. /\ log[s] \in Seq(Messages) /\ log'[s] = Append(log[s], m)
      /\ \A t \in Streams \ {s} : log'[t] = log[t]
  BY DEF Enqueue, QueueTypeOK
<1>2. Len(log'[s]) = Len(log[s]) + 1 /\ log'[s][Len(log[s]) + 1] = m
  BY <1>1
<1>3. e \in EntryIds /\ e[1] \in Streams /\ e[2] \in Nat
      /\ e[2] <= Len(log'[e[1]]) /\ ~(e[2] <= Len(log[e[1]]))
  BY QueueAssumption DEF Added, EntryIds
<1>4. e[1] = s
  BY <1>1, <1>3
<1>5. e[2] = Len(log[s]) + 1
  BY <1>1, <1>2, <1>3, <1>4
<1> QED
  BY <1>2, <1>4, <1>5 DEF MessageOf

LEMMA UnreportedInit == Init => UnreportedInv
  BY DEF Init, QueueInit, UnreportedInv, HandlersFirst, WaitingFirst, PublishedFirst, Early,
         Publishing, Waiting, Added, EntryIds, Streams

\* One writer: who handles an entry of a message that never failed is the only one to,
\* no other entry of it waits and no request is about to add one.
LEMMA OnlyHandler ==
    ASSUME Inv, RowsInv, NEW w \in Workers, held[w] # NoEntry, Job(w) \notin everFailed
    PROVE  /\ \A v \in Workers \ {w} : held[v] # NoEntry => Job(v) # Job(w)
           /\ \A e \in Waiting : MessageOf(e) # Job(w)
           /\ Publishing(Job(w)) = {}
<1>1. held[w] \in Entries(Job(w)) /\ Job(w) \in Messages /\ held[w] \in Given
  BY HeldIsEntry, JobIsMessage DEF Inv, TypeOK, ExclusiveDelivery
<1>2. \A e \in Entries(Job(w)) : e = held[w]
  BY <1>1 DEF RowsInv
<1>3. \A v \in Workers \ {w} : held[v] # NoEntry => Job(v) # Job(w)
  BY <1>2, HeldIsEntry DEF Inv, ExclusiveDelivery
<1>4. \A e \in Waiting : MessageOf(e) # Job(w)
  BY <1>1, <1>2 DEF Entries, Waiting, Given
<1>5. Publishing(Job(w)) = {}
  BY <1>1 DEF RowsInv
<1> QED
  BY <1>3, <1>4, <1>5

\* What a handler's step does to the row of its message, and to no other; the steps
\* after the id is stored never lead back when the ledger does not fail.
LEMMA WorkerWrites ==
    ASSUME ~May("ledger"), Inv, NEW w \in Workers,
           Loop(w) \/ TakeJob(w) \/ SenderStep(w) \/ Die(w)
    PROVE  /\ UNCHANGED <<log, reqStep, reqMsg>>
           /\ \/ UNCHANGED <<status, providerId, everFailed>>
              \/ /\ step[w] \in Early
                 /\ \E s \in {"provider_submitted", "sent", "failed"} :
                        /\ UpdateStatus(Job(w), s)
                        /\ (UNCHANGED providerId /\ s # "sent") \/ step'[w] \notin Early
           /\ \/ step'[w] \notin Early
              \/ TakeJob(w)
              \/ step[w] \in Early /\ held' = held
<1>1. UNCHANGED <<log, reqStep, reqMsg>>
  BY DEF Loop, TakeJob, Die, SenderStep, LoadJob, LoadFails, GiveUp, NextAttempt,
         MayRetry, Exhausted, Resolve, AttemptFails, MarkSubmitted, Accepted,
         AnswerLost, RateLimited, Unauthorized, Deactivate, Expire,
         StoreResult, CheckCharge, Chargeable, Debit, Fail, FailFails, FinishJob,
         Start, Read, ReadNothing, ReadFails, Ack, LeavePending, Stop, Crash,
         queueVars, reqVars
<1>2. \A s \in Steps : Goto(w, s) => step'[w] = s
  BY DEF Goto, Inv, TypeOK
<1>3. CASE Loop(w) \/ TakeJob(w) \/ Die(w) \/ LoadFails(w) \/ FailFails(w) \/ FinishJob(w)
  <2>1. UNCHANGED <<status, providerId, everFailed>>
    BY <1>3 DEF Loop, TakeJob, Die, LoadFails, FailFails, GiveUp, FinishJob, rowVars
  <2>2. CASE Loop(w)
    <3>1. step' = step
      BY <2>2 DEF Loop, jobVars
    <3>2. CASE held[w] = NoEntry
      BY <1>1, <2>1, <3>1, <3>2 DEF Inv, JobsHaveEntries, Early
    <3>3. CASE held[w] # NoEntry
      BY <1>1, <2>1, <2>2, <3>1, <3>3 DEF Loop, Start, ReadNothing, ReadFails, Stop
    <3> QED
      BY <1>1, <2>1, <3>2, <3>3
  <2>3. CASE EndJob(w)
    BY <1>1, <1>2, <2>1, <2>3 DEF EndJob, Steps, Early
  <2> QED
    BY <1>1, <1>3, <2>1, <2>2, <2>3 DEF Die, LoadFails, FailFails, GiveUp, FinishJob
<1>4. CASE LoadJob(w) \/ Resolve(w) \/ Accepted(w) \/ RateLimited(w) \/ Unauthorized(w)
           \/ Deactivate(w) \/ AnswerLost(w) \/ AttemptFails(w)
  <2>1. UNCHANGED <<status, providerId, everFailed>> /\ held' = held
    BY <1>4 DEF LoadJob, Resolve, Accepted, RateLimited, Unauthorized, Deactivate,
       AnswerLost, AttemptFails, NextAttempt, rowVars, queueVars
  <2>2. step[w] \in Early
    BY <1>4 DEF LoadJob, Resolve, Accepted, RateLimited, Unauthorized, Deactivate,
       AnswerLost, AttemptFails, Early
  <2> QED
    BY <1>1, <2>1, <2>2
<1>5. CASE MarkSubmitted(w)
  BY <1>1, <1>5 DEF MarkSubmitted, queueVars, Early
<1>6. CASE StoreResult(w)
  BY <1>1, <1>2, <1>6 DEF StoreResult, AcceptedStatus, Steps, Early
<1>7. CASE Expire(w) \/ Fail(w)
  BY <1>1, <1>2, <1>7 DEF Expire, Fail, Steps, Early
<1>8. CASE CheckCharge(w) \/ Debit(w)
  BY <1>1, <1>2, <1>8 DEF CheckCharge, Chargeable, Debit, rowVars, Steps, Early
<1> QED
  BY <1>3, <1>4, <1>5, <1>6, <1>7, <1>8 DEF SenderStep

\* A request writes a row only by its INSERT.
LEMMA InsertsOnly ==
    ASSUME Inv, NEW r \in Requests, RequestStep(r)
    PROVE  /\ UNCHANGED <<cursor, held, step, providerId, everFailed>>
           /\ \A m \in Messages : status'[m] # status[m] =>
                  status[m] = "absent" /\ status'[m] \in {"queued", "suppressed"}
<1>1. ASSUME NEW m \in Messages, SendCreates(r, m) \/ SendSuppresses(r, m)
      PROVE  /\ UNCHANGED <<cursor, held, step, providerId, everFailed>>
             /\ status[m] = "absent"
             /\ \E s \in {"queued", "suppressed"} : status' = [status EXCEPT ![m] = s]
  BY <1>1 DEF SendCreates, SendSuppresses, Insert, queueVars, jobVars
<1>2. ASSUME NEW m \in Messages, SendCreates(r, m) \/ SendSuppresses(r, m)
      PROVE  \A n \in Messages : status'[n] # status[n] =>
                 status[n] = "absent" /\ status'[n] \in {"queued", "suppressed"}
  BY <1>1, <1>2 DEF Inv, TypeOK
<1>3. CASE \A m \in Messages : ~SendCreates(r, m) /\ ~SendSuppresses(r, m)
  BY <1>3 DEF RequestStep, SendFindsKey, SendBegins, SendConflicts, SendRefused,
     RetryBegins, Publish, Enqueue, PublishFails, queueVars, rowVars, jobVars
<1> QED
  BY <1>1, <1>2, <1>3

\* A request comes to publish a message by creating its row.
LEMMA PublishersBegin ==
    ASSUME Inv, NEW r \in Requests, RequestStep(r), NEW m, Publishing(m)' # {}
    PROVE  Publishing(m) # {} \/ SendCreates(r, m)
<1>1. ASSUME NEW n \in Messages, SendCreates(r, n)
      PROVE  Publishing(m) # {} \/ SendCreates(r, m)
  BY <1>1 DEF SendCreates, Publishing, Inv, TypeOK
<1>2. CASE Return(r)
  BY <1>2, Returned
<1>3. ASSUME NEW s, reqStep' = [reqStep EXCEPT ![r] = s], s # "publish",
             \A q \in Requests \ {r} : reqMsg'[q] = reqMsg[q]
      PROVE  Publishing(m) # {}
  BY <1>3 DEF Publishing, Inv, TypeOK
<1>4. CASE UNCHANGED <<reqStep, reqMsg>>
  BY <1>4 DEF Publishing
<1>5. ASSUME NEW k, SendBegins(r, k) PROVE Publishing(m) # {}
  BY <1>3, <1>5 DEF SendBegins
<1>6. ASSUME NEW n \in Messages, RetryBegins(r, n) PROVE Publishing(m) # {}
  BY <1>3, <1>6 DEF RetryBegins, Inv, TypeOK
<1> QED
  BY <1>1, <1>2, <1>4, <1>5, <1>6
     DEF RequestStep, SendFindsKey, SendSuppresses, SendConflicts, SendRefused, Publish,
         PublishFails

\* Nothing is added but what is published.
LEMMA OnlyPublishAdds ==
    ASSUME NEW r \in Requests, RequestStep(r), Added' # Added
    PROVE  \E s \in Streams : Publish(r, s)
<1>1. log' # log
  BY DEF Added
<1> QED
  BY <1>1 DEF RequestStep, SendFindsKey, SendBegins, SendCreates, SendSuppresses, Insert,
     SendConflicts, SendRefused, RetryBegins, PublishFails, queueVars

\* A sender's writes concern nobody else who is about to come to a row (OnlyHandler), a
\* webhook finds no row that is unreported, and a request makes rows nobody has an entry of.
LEMMA UnreportedStep ==
    ASSUME ~May("ledger"), Inv, Inv', CountInv, RecordInv, HooksHaveIds, RowsInv,
           UnreportedInv, [Next]_vars
    PROVE  UnreportedInv'
<1>1. ASSUME NEW e \in Added
      PROVE  e \in Added' /\ MessageOf(e)' = MessageOf(e)
  BY Grows
<1>2. ASSUME NEW w \in Workers, step[w] \in Early
      PROVE  held[w] # NoEntry /\ held[w] \in Added
  BY <1>2, HeldIsEntry DEF Inv, JobsHaveEntries, Early, Entries
<1>3. ASSUME NEW w \in Workers, Loop(w) \/ TakeJob(w) \/ SenderStep(w) \/ Die(w)
      PROVE  UnreportedInv'
  <2>1. /\ UNCHANGED <<log, reqStep, reqMsg>>
        /\ \A m : Publishing(m)' = Publishing(m) /\ Entries(m)' = Entries(m)
        /\ Waiting' \subseteq Waiting
    <3>1. UNCHANGED <<log, reqStep, reqMsg>>
      BY <1>3, WorkerWrites
    <3>2. Given \subseteq Given'
      BY QueueStep, QueueGrows DEF Inv, TypeOK
    <3> QED
      BY <3>1, <3>2 DEF Publishing, Entries, Added, MessageOf, Given, Waiting
  <2>2. everFailed \subseteq everFailed'
    BY <1>3, WorkerStatuses DEF OnlyStatuses
  <2>3. ASSUME NEW v \in Workers \ {w}
        PROVE  held'[v] = held[v] /\ step'[v] = step[v]
    BY <1>3, WorkerIsLocal
  <2>4. \A e \in Waiting : e \in Added /\ MessageOf(e)' = MessageOf(e)
    BY <1>1 DEF Waiting
  <2>5. ASSUME NEW v \in Workers \ {w}, step'[v] \in Early
        PROVE  Job(v)' = Job(v) /\ step[v] \in Early /\ held[v] # NoEntry
    BY <1>1, <1>2, <2>3, <2>5 DEF Job
  <2>6. ASSUME step'[w] \in Early
        PROVE  \/ step[w] \notin Early
                     /\ held'[w] \in Waiting /\ Job(w)' = MessageOf(held'[w])
                     /\ UNCHANGED <<status, providerId, everFailed>>
               \/ step[w] \in Early /\ Job(w)' = Job(w)
    <3>1. CASE TakeJob(w)
      <4>1. held'[w] \in Waiting
        BY <3>1, ReadWaited DEF TakeJob, Inv, TypeOK
      <4>2. step[w] \notin Early
        BY <1>2, <3>1 DEF TakeJob, Read
      <4> QED
        BY <2>4, <3>1, <4>1, <4>2 DEF TakeJob, rowVars, Job
    <3>2. CASE step[w] \in Early /\ held' = held
      BY <1>1, <1>2, <3>2 DEF Job
    <3> QED
      BY <1>3, <2>6, <3>1, <3>2, WorkerWrites
  <2>7. CASE UNCHANGED <<status, providerId, everFailed>>
    <3>1. \A m : Unreported(m)' = Unreported(m)
      BY <2>7 DEF Unreported
    <3>2. HandlersFirst'
      BY <2>5, <2>6, <2>7, <3>1 DEF UnreportedInv, HandlersFirst, WaitingFirst
    <3>3. WaitingFirst' /\ PublishedFirst'
      BY <2>1, <2>4, <2>7, <3>1 DEF UnreportedInv, WaitingFirst, PublishedFirst
    <3> QED
      BY <3>2, <3>3 DEF UnreportedInv
  <2>8. CASE /\ step[w] \in Early
             /\ \E s \in {"provider_submitted", "sent", "failed"} :
                    /\ UpdateStatus(Job(w), s)
                    /\ (UNCHANGED providerId /\ s # "sent") \/ step'[w] \notin Early
    <3> DEFINE m == Job(w)
    <3>1. PICK s \in {"provider_submitted", "sent", "failed"} :
              /\ UpdateStatus(m, s)
              /\ (UNCHANGED providerId /\ s # "sent") \/ step'[w] \notin Early
      BY <2>8
    <3>2. m \in Messages /\ held[w] # NoEntry
      BY <1>2, <2>8, JobIsMessage DEF Inv, TypeOK
    <3>3. /\ \A n \in Messages \ {m} : status'[n] = status[n] /\ providerId'[n] = providerId[n]
          /\ status'[m] = s /\ (s = "failed" => m \in everFailed')
      BY <1>3, <3>1, WorkerStores DEF UpdateStatus, Inv, TypeOK
    <3>4. \A n \in Messages \ {m} : Unreported(n)' = Unreported(n)
      BY <3>3 DEF Unreported
    <3> HIDE DEF m
    <3>5. ASSUME m \notin everFailed'
          PROVE  /\ \A v \in Workers \ {w} : held[v] # NoEntry => Job(v) # m
                 /\ \A e \in Waiting : MessageOf(e) # m
                 /\ Publishing(m) = {}
      BY <2>2, <3>2, <3>5, OnlyHandler DEF m
    <3>6. ASSUME NEW v \in Workers \ {w}, step'[v] \in Early, Job(v)' \notin everFailed'
          PROVE  Unreported(Job(v))'
      <4>1. Job(v)' = Job(v) /\ step[v] \in Early /\ held[v] # NoEntry /\ Job(v) \in Messages
        BY <2>5, <3>6, JobIsMessage DEF Inv, TypeOK
      <4> QED
        BY <2>2, <3>4, <3>5, <3>6, <4>1 DEF UnreportedInv, HandlersFirst
    <3>7. ASSUME step'[w] \in Early, Job(w)' \notin everFailed'
          PROVE  Unreported(Job(w))'
      <4>1. Job(w)' = m
        BY <2>6, <2>8, <3>7 DEF m
      <4> QED
        BY <2>2, <2>8, <3>1, <3>3, <3>7, <4>1
           DEF UnreportedInv, HandlersFirst, Unreported, m
    <3>8. WaitingFirst'
      <4> SUFFICES ASSUME NEW e \in Waiting, MessageOf(e) \notin everFailed'
                   PROVE  Unreported(MessageOf(e))'
        BY <2>1, <2>4 DEF WaitingFirst
      <4>1. MessageOf(e) \in Messages
        BY EntryIsMessage DEF Waiting, Inv, TypeOK
      <4> QED
        BY <2>2, <2>4, <3>4, <3>5, <4>1 DEF UnreportedInv, WaitingFirst
    <3>9. PublishedFirst'
      BY <2>1, <2>2, <3>4, <3>5 DEF UnreportedInv, PublishedFirst
    <3> QED
      BY <3>6, <3>7, <3>8, <3>9 DEF UnreportedInv, HandlersFirst
  <2> QED
    BY <1>3, <2>7, <2>8, WorkerWrites
<1>4. ASSUME UNCHANGED <<queueVars, step, reqStep, reqMsg, providerId>>,
             everFailed \subseteq everFailed',
             \A m \in Messages : providerId[m] = NoId => status'[m] = status[m]
      PROVE  UnreportedInv'
  <2>1. /\ Waiting' = Waiting /\ \A e : MessageOf(e)' = MessageOf(e)
        /\ \A w \in Workers : Job(w)' = Job(w)
        /\ \A m : Publishing(m)' = Publishing(m)
    BY <1>4 DEF queueVars, Waiting, Added, MessageOf, Job, Publishing
  <2>2. \A m \in Messages : Unreported(m) => Unreported(m)'
    BY <1>4 DEF Unreported
  <2>3. \A w \in Workers : step[w] \in Early => Job(w) \in Messages
    BY <1>2, JobIsMessage DEF Inv, TypeOK
  <2>4. \A e \in Waiting : MessageOf(e) \in Messages
    BY EntryIsMessage DEF Waiting, Inv, TypeOK
  <2>5. HandlersFirst'
    BY <1>4, <2>1, <2>2, <2>3 DEF UnreportedInv, HandlersFirst
  <2>6. WaitingFirst'
    BY <1>4, <2>1, <2>2, <2>4 DEF UnreportedInv, WaitingFirst
  <2>7. PublishedFirst'
    BY <1>4, <2>1, <2>2 DEF UnreportedInv, PublishedFirst
  <2> QED
    BY <2>5, <2>6, <2>7 DEF UnreportedInv
<1>5. ASSUME NEW h \in Hooks, HookStep(h)
      PROVE  UnreportedInv'
  <2>1. UNCHANGED <<queueVars, step, reqStep, reqMsg, providerId>>
    BY <1>5 DEF HookStep, HookReads, HookWrites, HookFails, reqVars, rowVars, jobVars
  <2>2. everFailed \subseteq everFailed'
    BY <1>5 DEF HookStep, HookReads, HookWrites, HookFails, rowVars
  <2>3. \A m \in Messages : providerId[m] = NoId => status'[m] = status[m]
    BY <1>5 DEF HookStep, HookReads, HookWrites, HookFails, rowVars, RowWithId, HooksHaveIds
  <2> QED
    BY <1>4, <2>1, <2>2, <2>3
<1>6. CASE UNCHANGED vars
  BY <1>4, <1>6 DEF vars, rowVars, reqVars, jobVars
<1>7. ASSUME NEW r \in Requests, RequestStep(r)
      PROVE  UnreportedInv'
  <2>1. /\ UNCHANGED <<cursor, held, step, providerId, everFailed>>
        /\ \A m \in Messages : status[m] # "absent" => status'[m] = status[m]
    BY <1>7, InsertsOnly
  <2>2. \A m \in Messages : Unreported(m) => Unreported(m)'
    BY <2>1 DEF Unreported
  <2>3. HandlersFirst'
    <3>1. \A w \in Workers : step[w] \in Early => Job(w)' = Job(w) /\ Job(w) \in Messages
      BY <1>1, <1>2, <2>1, JobIsMessage DEF Job, Inv, TypeOK
    <3> QED
      BY <2>1, <2>2, <3>1 DEF UnreportedInv, HandlersFirst
  <2>4. PublishedFirst'
    <3> SUFFICES ASSUME NEW m \in Messages \ everFailed, Publishing(m)' # {}
                 PROVE  Unreported(m)'
      BY <2>1 DEF PublishedFirst
    <3>1. Publishing(m) # {} \/ SendCreates(r, m)
      BY <1>7, PublishersBegin
    <3>2. CASE SendCreates(r, m)
      <4>1. status[m] = "absent" /\ status'[m] = "queued" /\ providerId'[m] = providerId[m]
        BY <3>2 DEF SendCreates, Insert, Inv, TypeOK
      <4>2. providerId[m] = NoId
        BY <4>1 DEF RowsInv, RecordInv, IdsNameTheirMessage
      <4> QED
        BY <4>1, <4>2 DEF Unreported
    <3> QED
      BY <2>2, <3>1, <3>2 DEF UnreportedInv, PublishedFirst
  <2>5. WaitingFirst'
    <3> SUFFICES ASSUME NEW e \in Waiting', MessageOf(e)' \notin everFailed
                 PROVE  Unreported(MessageOf(e))'
      BY <2>1 DEF WaitingFirst
    <3>0. PICK m : m = MessageOf(e)'
      OBVIOUS
    <3>1. e \in Entries(m)' /\ e \in EntryIds
      BY <3>0 DEF Waiting, Added, Entries
    <3>2. CASE e \in Added
      <4>1. e \in Waiting /\ MessageOf(e) = m
        BY <1>1, <2>1, <3>0, <3>2 DEF Waiting
      <4>2. m \in Messages
        BY <4>1, EntryIsMessage DEF Waiting, Inv, TypeOK
      <4> QED
        BY <2>2, <3>0, <4>1, <4>2 DEF UnreportedInv, WaitingFirst, Unreported
    <3>3. CASE e \notin Added
      <4>1. PICK s \in Streams : Publish(r, s)
        BY <1>7, <3>1, <3>3, OnlyPublishAdds DEF Entries
      <4>2. reqMsg[r] \in Messages /\ Enqueue(s, reqMsg[r])
        BY <4>1 DEF Publish, Inv, RequestsHaveMessages
      <4>3. m = reqMsg[r]
        BY <3>0, <3>1, <3>3, <4>2, NewIsAdded DEF Entries, Inv, TypeOK
      <4>4. Publishing(m) # {}
        BY <3>0, <4>1, <4>3 DEF Publish, RowsInv, Publishing
      <4> QED
        BY <2>2, <3>0, <4>2, <4>3, <4>4 DEF UnreportedInv, PublishedFirst, Unreported
    <3> QED
      BY <3>2, <3>3
  <2> QED
    BY <2>3, <2>4, <2>5 DEF UnreportedInv
<1> QED
  BY <1>3, <1>5, <1>6, <1>7 DEF Next

\* However the sender, the webhooks and the requests of a message interleave, and
\* whatever fails but the ledger, its row goes forward until it fails: a sender never
\* takes back what a webhook has reported (sendWithCfg, processWhatsAppStatus).
THEOREM StatusesGoForward == ~May("ledger") => (Spec => OnlyForward)
<1> SUFFICES ASSUME ~May("ledger") PROVE Spec => OnlyForward
  OBVIOUS
<1>1. Init => UnreportedInv
  BY UnreportedInit
<1>2. /\ Inv /\ CountInv /\ RecordInv /\ HooksHaveIds /\ RowsInv /\ UnreportedInv
      /\ Inv' /\ [Next]_vars
      => UnreportedInv'
  BY UnreportedStep
<1>3. /\ Inv /\ RecordInv /\ HooksHaveIds /\ RowsInv /\ SeenInv /\ UnreportedInv
      /\ [Next]_vars
      => [\A m \in Messages \ everFailed :
             \/ Rank(status'[m]) >= Rank(status[m])
             \/ \E h \in Hooks : /\ HookWrites(h) /\ m \in RowWithId(hookId[h])
                                 /\ hookSeen[h] # status[m]]_vars
  <2> SUFFICES ASSUME Inv, RecordInv, HooksHaveIds, RowsInv, SeenInv, UnreportedInv,
                      [Next]_vars, NEW m \in Messages \ everFailed, status'[m] # status[m],
                      \A h \in Hooks : HookWrites(h) /\ m \in RowWithId(hookId[h]) =>
                          hookSeen[h] = status[m]
               PROVE  Rank(status'[m]) >= Rank(status[m])
    BY DEF Rank
  <2>1. ASSUME NEW r \in Requests, RequestStep(r)
        PROVE  Rank(status'[m]) >= Rank(status[m])
    <3>1. status[m] = "absent" /\ status'[m] \in {"queued", "suppressed"}
      BY <2>1, InsertsOnly
    <3> QED
      BY <3>1 DEF Rank, Ended
  <2>2. ASSUME NEW w \in Workers, Loop(w) \/ TakeJob(w) \/ SenderStep(w) \/ Die(w)
        PROVE  Rank(status'[m]) >= Rank(status[m])
    <3>1. /\ step[w] \in Early
          /\ \E s \in {"provider_submitted", "sent", "failed"} : UpdateStatus(Job(w), s)
      BY <2>2, WorkerWrites
    <3>2. Job(w) = m /\ status'[m] \in {"provider_submitted", "sent", "failed"}
      BY <3>1 DEF UpdateStatus, Inv, TypeOK
    <3>3. status[m] \in {"queued", "provider_submitted"}
      BY <3>1, <3>2 DEF UnreportedInv, HandlersFirst, Unreported
    <3> QED
      BY <3>2, <3>3 DEF Rank, Ended
  <2>3. ASSUME NEW h \in Hooks, HookStep(h)
        PROVE  Rank(status'[m]) >= Rank(status[m])
    <3>1. HookWrites(h) /\ m \in RowWithId(hookId[h]) /\ status'[m] = hookStatus[h]
      BY <2>3 DEF HookStep, HookReads, HookWrites, HookFails, rowVars
    <3>2. status[m] # "absent"
      BY <3>1 DEF RowWithId, HookWrites, HooksHaveIds, RecordInv, IdsNameTheirMessage, RowsInv
    <3>3. Advances(status[m], status'[m])
      BY <3>1, <3>2 DEF SeenInv, HookWrites
    <3> QED
      BY <3>3 DEF Advances, Rank
  <2> QED
    BY <2>1, <2>2, <2>3 DEF Next, vars, rowVars
<1>4. Inv /\ SeenInv /\ [Next]_vars => SeenInv'
  BY SeenStep
<1>5. Init => SeenInv
  BY DEF Init, SeenInv
<1> QED
  BY <1>1, <1>2, <1>3, <1>4, <1>5, InvInit, InvStep, RecordsHold, RowsHold, PTL
     DEF Spec, OnlyForward
=============================================================================
