------------------------------ MODULE Dispatch ------------------------------
(***************************************************************************)
(* How one tenant's message gets from the API to the provider and back:    *)
(*                                                                         *)
(*   - API requests (core/services/message_service.go) insert a row in the *)
(*     messages table and add its id to the queue;                         *)
(*   - a Sender (worker/sender.go) is the handler of every queue consumer: *)
(*     it calls the provider, up to MaxRetries + 1 times, records what     *)
(*     came of it and charges the wallet;                                  *)
(*   - a status webhook (core/services/webhook_service.go) moves the row   *)
(*     along as the provider reports on it.                                *)
(*                                                                         *)
(* They share only the database and the queue, and each of their calls to  *)
(* either, and to the provider, is a step of its own here.  Faults says    *)
(* which calls may fail:                                                   *)
(*   "db"         a statement on messages or provider_configs fails        *)
(*   "ledger"     a statement on the wallet ledger fails                   *)
(*   "queue"      XADD fails, or the API process dies before it            *)
(*   "timeout"    the provider takes a message but its answer is lost      *)
(*   "unnamed"    the provider takes a message and returns no id           *)
(*   "reject"     the provider refuses a message                           *)
(*   "ratelimit"  the provider answers 429                                 *)
(*   "auth"       the provider answers 401 or 403                          *)
(*   "crash"      a worker process dies                                    *)
(***************************************************************************)
EXTENDS RedisQueue, MessageStatus, Providers, FiniteSets

CONSTANTS
    Requests,        \* API requests that may be in progress at one time
    Hooks,           \* webhook requests that may be in progress at one time
    Keys,            \* idempotency keys
    NoKey,           \* a request without one
    NoId,            \* a row without a provider message id
    NoMessage,
    MaxRetries,      \* len(backoffs): 3 in the code
    TenantAdapter,   \* the adapter the tenant's config names, ...
    PlatformAdapter, \* ... and the channel's default, or NoAdapter
    NoAdapter,
    Faults

ASSUME DispatchAssumption ==
    /\ MaxRetries \in Nat
    /\ TenantAdapter \in Adapters
    /\ PlatformAdapter \in Adapters \cup {NoAdapter}
    /\ PlatformAdapter # NoAdapter => SameChannel(TenantAdapter, PlatformAdapter)
    /\ NoKey \notin Keys
    /\ NoMessage \notin Messages

\* The provider's id for the n-th acceptance caused by entry e.
ProviderIds == EntryIds \X (Nat \ {0})

ASSUME NoIdAssumption == NoId \notin ProviderIds

VARIABLES
    (* the database *)
    status,       \* status[m]: the row's status, "absent" before there is a row
    keyOf,        \* keyOf[m]: its idempotency key
    providerId,   \* providerId[m]: its provider message id
    debits,       \* debits[m]: debit entries in the wallet ledger for m
    configActive, \* is the tenant's own provider config active?
    (* the provider *)
    issued,       \* issued[e]: how many sends the provider accepted for entry e
    (* API requests *)
    reqStep, reqKey, reqMsg,
    (* Sender.HandleMessage, one per worker *)
    step, attempt, cfg, provider,
    (* webhook requests *)
    hookStep, hookId, hookStatus,
    hookSeen,     \* hookSeen[h]: the status of the row it found, or "absent"
    (* history *)
    returned,     \* messages some Send request returned without an error
    everFailed,   \* messages whose status was "failed" at some time
    gaveUp        \* entries whose handler wrote "failed"

rowVars   == <<status, keyOf, providerId, everFailed>>
reqVars   == <<reqStep, reqKey, reqMsg, returned>>
jobVars   == <<step, attempt, cfg, provider>>
hookVars  == <<hookStep, hookId, hookStatus, hookSeen>>
worldVars == <<debits, configActive, issued, gaveUp>>
vars == <<queueVars, rowVars, reqVars, jobVars, hookVars, worldVars>>

May(f) == f \in Faults

Configs   == {"tenant", "platform"}
ReqSteps  == {"idle", "create", "publish", "requeue"}
Steps     == {"idle", "load", "resolve", "submit", "call", "store", "check",
              "debit", "fail", "deactivate", "expire", "done"}
HookSteps == {"idle", "write"}

TypeOK ==
    /\ QueueTypeOK
    /\ status \in [Messages -> Statuses \cup {"absent"}]
    /\ keyOf \in [Messages -> Keys \cup {NoKey}]
    /\ providerId \in [Messages -> ProviderIds \cup {NoId}]
    /\ debits \in [Messages -> Nat]
    /\ configActive \in BOOLEAN
    /\ issued \in [EntryIds -> Nat]
    /\ reqStep \in [Requests -> ReqSteps]
    /\ reqKey \in [Requests -> Keys \cup {NoKey}]
    /\ reqMsg \in [Requests -> Messages \cup {NoMessage}]
    /\ step \in [Workers -> Steps]
    /\ attempt \in [Workers -> 0 .. MaxRetries]
    /\ cfg \in [Workers -> Configs]
    /\ provider \in [Workers -> Configs]
    /\ hookStep \in [Hooks -> HookSteps]
    /\ hookId \in [Hooks -> ProviderIds \cup {NoId}]
    /\ hookStatus \in [Hooks -> Statuses]
    /\ hookSeen \in [Hooks -> Statuses \cup {"absent"}]
    /\ returned \subseteq Messages
    /\ everFailed \subseteq Messages
    /\ gaveUp \subseteq EntryIds

Init ==
    /\ QueueInit
    /\ status = [m \in Messages |-> "absent"]
    /\ keyOf = [m \in Messages |-> NoKey]
    /\ providerId = [m \in Messages |-> NoId]
    /\ debits = [m \in Messages |-> 0]
    /\ configActive \in BOOLEAN
    /\ issued = [e \in EntryIds |-> 0]
    /\ reqStep = [r \in Requests |-> "idle"]
    /\ reqKey = [r \in Requests |-> NoKey]
    /\ reqMsg = [r \in Requests |-> NoMessage]
    /\ step = [w \in Workers |-> "idle"]
    /\ attempt = [w \in Workers |-> 0]
    /\ cfg = [w \in Workers |-> "platform"]
    /\ provider = [w \in Workers |-> "platform"]
    /\ hookStep = [h \in Hooks |-> "idle"]
    /\ hookId = [h \in Hooks |-> NoId]
    /\ hookStatus = [h \in Hooks |-> "created"]
    /\ hookSeen = [h \in Hooks |-> "absent"]
    /\ returned = {}
    /\ everFailed = {}
    /\ gaveUp = {}

\* UPDATE messages SET status ...: unconditional, whatever the row holds.
UpdateStatus(m, s) ==
    /\ status' = [status EXCEPT ![m] = s]
    /\ everFailed' = IF s = "failed" THEN everFailed \cup {m} ELSE everFailed

\* A request returns and its local variables are gone.
Return(r) ==
    /\ reqStep' = [reqStep EXCEPT ![r] = "idle"]
    /\ reqKey' = [reqKey EXCEPT ![r] = NoKey]
    /\ reqMsg' = [reqMsg EXCEPT ![r] = NoMessage]

(* As in RedisQueue, X_Slip is a wrong version of X that nothing uses.        *)

RowWithKey(k)  == {m \in Messages : status[m] # "absent" /\ keyOf[m] = k}
RowWithId(pid) == {m \in Messages : providerId[m] = pid}

\* What the lookup by key and the unique index on (tenant_id, idempotency_key)
\* see; the slip is a lookup without the index.
KeyIsFree_Slip(k) == TRUE

KeyIsFree(k) == k = NoKey \/ RowWithKey(k) = {}
-----------------------------------------------------------------------------
(* MessageService.Send, after its checks of consent, suppression, template *)
(* and session window, which are a module of their own                     *)

\* The lookup by idempotency key finds a row: it is the answer.
SendFindsKey(r, k) ==
    /\ reqStep[r] = "idle"
    /\ k # NoKey
    /\ RowWithKey(k) # {}
    /\ \E m \in RowWithKey(k) : returned' = returned \cup {m}
    /\ UNCHANGED <<queueVars, rowVars, reqStep, reqKey, reqMsg,
                   jobVars, hookVars, worldVars>>

SendBegins(r, k) ==
    /\ reqStep[r] = "idle"
    /\ KeyIsFree(k)
    /\ reqStep' = [reqStep EXCEPT ![r] = "create"]
    /\ reqKey' = [reqKey EXCEPT ![r] = k]
    /\ UNCHANGED <<queueVars, rowVars, reqMsg, returned,
                   jobVars, hookVars, worldVars>>

\* The INSERT; the unique index on (tenant_id, idempotency_key) lets it pass.
Insert(r, m, s) ==
    /\ reqStep[r] = "create"
    /\ KeyIsFree(reqKey[r])
    /\ status[m] = "absent"
    /\ status' = [status EXCEPT ![m] = s]
    /\ keyOf' = [keyOf EXCEPT ![m] = reqKey[r]]
    /\ UNCHANGED <<queueVars, providerId, everFailed,
                   jobVars, hookVars, worldVars>>

SendCreates(r, m) ==
    /\ Insert(r, m, "queued")
    /\ reqStep' = [reqStep EXCEPT ![r] = "publish"]
    /\ reqMsg' = [reqMsg EXCEPT ![r] = m]
    /\ UNCHANGED <<reqKey, returned>>

\* createSuppressedMessage: a row that is never queued.

SendSuppresses(r, m) ==
    /\ Insert(r, m, "suppressed")
    /\ Return(r)
    /\ returned' = returned \cup {m}

\* The unique index refuses the INSERT: another request with the same key came
\* first, and its row is the answer.
SendConflicts(r) ==
    /\ reqStep[r] = "create"
    /\ reqKey[r] # NoKey
    /\ \E m \in RowWithKey(reqKey[r]) : returned' = returned \cup {m}
    /\ Return(r)
    /\ UNCHANGED <<queueVars, rowVars, jobVars, hookVars, worldVars>>

\* One of the checks refuses the request, or a statement fails.
SendRefused(r) ==
    /\ reqStep[r] = "create"
    /\ Return(r)
    /\ UNCHANGED <<queueVars, rowVars, returned,
                   jobVars, hookVars, worldVars>>

\* MessageService.Retry, up to its Enqueue: only a failed message, whose row is
\* left as it is.
RetryBegins(r, m) ==
    /\ reqStep[r] = "idle"
    /\ status[m] = "failed"
    /\ reqStep' = [reqStep EXCEPT ![r] = "requeue"]
    /\ reqMsg' = [reqMsg EXCEPT ![r] = m]
    /\ UNCHANGED <<queueVars, rowVars, reqKey, returned,
                   jobVars, hookVars, worldVars>>

\* The Enqueue of Send, on the stream its priority selects, and of Retry.
Publish(r, s) ==
    /\ reqStep[r] = "publish" \/ (reqStep[r] = "requeue" /\ s = "normal")
    /\ Enqueue(s, reqMsg[r])
    /\ Return(r)
    /\ returned' = returned \cup {reqMsg[r]}
    /\ UNCHANGED <<rowVars, jobVars, hookVars, worldVars>>

PublishFails(r) ==
    /\ reqStep[r] \in {"publish", "requeue"}
    /\ May("queue")
    /\ Return(r)
    /\ UNCHANGED <<queueVars, rowVars, returned,
                   jobVars, hookVars, worldVars>>

RequestStep(r) ==
    \/ \E k \in Keys \cup {NoKey} : SendFindsKey(r, k) \/ SendBegins(r, k)
    \/ \E m \in Messages : SendCreates(r, m) \/ SendSuppresses(r, m)
    \/ SendConflicts(r)
    \/ SendRefused(r)
    \/ \E m \in Messages : RetryBegins(r, m)
    \/ \E s \in Streams : Publish(r, s)
    \/ PublishFails(r)
-----------------------------------------------------------------------------
(* Sender.HandleMessage                                                    *)

HasPlatform == PlatformAdapter # NoAdapter

\* ProviderRegistry.GetProvider: the tenant's config while it is active, and
\* the platform's otherwise, also when the lookup itself failed.
Resolves(c) ==
    \/ c = "tenant" /\ configActive
    \/ c = "platform" /\ HasPlatform /\ (~configActive \/ May("db"))

ResolveFails == ~HasPlatform /\ (~configActive \/ May("db"))

Goto(w, s) == step' = [step EXCEPT ![w] = s]

\* The message whose handler runs in w.
Job(w) == MessageOf(held[w])

TakeJob(w) ==
    /\ Read(w)
    /\ Goto(w, "load")
    /\ UNCHANGED <<rowVars, reqVars, attempt, cfg, provider, hookVars, worldVars>>

\* The handler is over and its local variables are gone.
EndJob(w) ==
    /\ Goto(w, "idle")
    /\ attempt' = [attempt EXCEPT ![w] = 0]
    /\ cfg' = [cfg EXCEPT ![w] = "platform"]
    /\ provider' = [provider EXCEPT ![w] = "platform"]

\* The row is loaded, its status not looked at, and the config resolved.
LoadJob(w) ==
    /\ step[w] = "load"
    /\ \E c \in Configs : Resolves(c) /\ cfg' = [cfg EXCEPT ![w] = c]
    /\ Goto(w, "resolve")
    /\ UNCHANGED <<queueVars, rowVars, reqVars, attempt, provider,
                   hookVars, worldVars>>

\* The handler returns an error.
GiveUp(w) ==
    /\ LeavePending(w)
    /\ EndJob(w)
    /\ UNCHANGED <<rowVars, reqVars, hookVars, worldVars>>

LoadFails(w) ==
    /\ step[w] = "load"
    /\ May("db") \/ ResolveFails
    /\ GiveUp(w)

\* The loop condition, and what follows the loop.
MayRetry_Slip(w) == attempt[w] <= MaxRetries

MayRetry(w) == attempt[w] < MaxRetries

Exhausted_Slip(w) == Goto(w, "done")

Exhausted(w) == Goto(w, "fail")

\* An attempt ended in an error: the next one, after its backoff, or the end.
NextAttempt(w) ==
    /\ \/ /\ MayRetry(w)
          /\ attempt' = [attempt EXCEPT ![w] = @ + 1]
          /\ Goto(w, "resolve")
       \/ /\ ~MayRetry(w)
          /\ UNCHANGED attempt
          /\ Exhausted(w)
    /\ UNCHANGED <<queueVars, reqVars, cfg, hookVars>>

\* sendWithCfg resolves the provider anew, but keeps the config of LoadJob.
Resolve(w) ==
    /\ step[w] = "resolve"
    /\ \E c \in Configs : Resolves(c) /\ provider' = [provider EXCEPT ![w] = c]
    /\ Goto(w, "submit")
    /\ UNCHANGED <<queueVars, rowVars, reqVars, attempt, cfg, hookVars, worldVars>>

\* What the services may do with a request, and what comes of the call.
MayReply(r) ==
    CASE r = "accepted"                -> TRUE
      [] r = "unnamed"                 -> May("unnamed")
      [] r \in {"garbled", "silent"}   -> May("timeout")
      [] r = "limited"                 -> May("ratelimit")
      [] r \in {"denied", "forbidden"} -> May("auth")
      [] r = "refused"                 -> May("reject")

AdapterOf(c) == IF c = "tenant" THEN TenantAdapter ELSE PlatformAdapter

Returns(w, answer) ==
    answer \in AnswersTo(AdapterOf(provider[w]), cfg[w], AdapterOf(cfg[w]),
                         {r \in Replies : MayReply(r)})

\* A step of an attempt that fails without having changed anything.
AttemptFails(w) ==
    /\ \/ step[w] = "resolve" /\ ResolveFails
       \/ step[w] \in {"submit", "store"} /\ May("db")
       \/ step[w] = "call" /\ Returns(w, "error")
       \/ step[w] \in {"check", "debit"} /\ May("ledger")
    /\ NextAttempt(w)
    /\ UNCHANGED <<rowVars, provider, worldVars>>

MarkSubmitted(w) ==
    /\ step[w] = "submit"
    /\ UpdateStatus(Job(w), "provider_submitted")
    /\ Goto(w, "call")
    /\ UNCHANGED <<queueVars, keyOf, providerId, reqVars, attempt, cfg, provider,
                   hookVars, worldVars>>

\* The provider accepts the message under a new id ...
Accept(w) ==
    /\ issued' = [issued EXCEPT ![held[w]] = @ + 1]
    /\ UNCHANGED <<debits, configActive, gaveUp>>

Accepted(w) ==
    /\ step[w] = "call"
    /\ Returns(w, "result")
    /\ Accept(w)
    /\ Goto(w, "store")
    /\ UNCHANGED <<queueVars, rowVars, reqVars, attempt, cfg, provider, hookVars>>

\* ... and its answer does not come in time, or cannot be read.
AnswerLost(w) ==
    /\ step[w] = "call"
    /\ Returns(w, "lost")
    /\ Accept(w)
    /\ NextAttempt(w)
    /\ UNCHANGED <<rowVars, provider>>

\* 429: the loop sleeps and tries again without counting the attempt.
RateLimited(w) ==
    /\ step[w] = "call"
    /\ Returns(w, "limited")
    /\ Goto(w, "resolve")
    /\ UNCHANGED <<queueVars, rowVars, reqVars, attempt, cfg, provider,
                   hookVars, worldVars>>

Unauthorized(w) ==
    /\ step[w] = "call"
    /\ Returns(w, "auth")
    /\ Goto(w, "deactivate")
    /\ UNCHANGED <<queueVars, rowVars, reqVars, attempt, cfg, provider,
                   hookVars, worldVars>>

\* 401 and 403: the config of LoadJob is switched off (the platform's has no
\* row), the message fails, the entry is acked; both errors are ignored.
Deactivate(w) ==
    /\ step[w] = "deactivate"
    /\ \/ configActive' = (configActive /\ cfg[w] # "tenant")
       \/ May("db") /\ UNCHANGED configActive
    /\ Goto(w, "expire")
    /\ UNCHANGED <<queueVars, rowVars, reqVars, attempt, cfg, provider,
                   hookVars, debits, issued, gaveUp>>

Expire(w) ==
    /\ step[w] = "expire"
    /\ \/ UpdateStatus(Job(w), "failed") /\ gaveUp' = gaveUp \cup {held[w]}
       \/ May("db") /\ UNCHANGED <<status, everFailed, gaveUp>>
    /\ Goto(w, "done")
    /\ UNCHANGED <<queueVars, keyOf, providerId, reqVars, attempt, cfg, provider,
                   hookVars, debits, configActive, issued>>

\* The id the provider gave this acceptance; the slip counts attempts.
ResultId_Slip(w) == <<held[w], attempt[w] + 1>>

ResultId(w) == <<held[w], issued[held[w]]>>

AcceptedStatus(w) ==
    IF AdapterOf(provider[w]) \in WhatsAppAdapters THEN "provider_submitted"
                                                  ELSE "sent"

\* COALESCE keeps the id the row had when the result has none.
StoreResult(w) ==
    /\ step[w] = "store"
    /\ UpdateStatus(Job(w), AcceptedStatus(w))
    /\ \/ providerId' = [providerId EXCEPT ![Job(w)] = ResultId(w)]
       \/ Returns(w, "unnamed") /\ UNCHANGED providerId
    /\ Goto(w, "check")
    /\ UNCHANGED <<queueVars, keyOf, reqVars, attempt, cfg, provider,
                   hookVars, worldVars>>

\* WalletLedgerReferenceExists, negated.
Uncharged_Slip(m) == TRUE

Uncharged(m) == debits[m] = 0

\* The charge comes after the answer and the update; the slip also charges
\* before the call.
Chargeable_Slip(w) == step[w] \in {"call", "check"}

Chargeable(w) == step[w] = "check"

\* RecordMessageCharge: no second debit for a message; none either when it has
\* no price.
CheckCharge(w) ==
    /\ Chargeable(w)
    /\ \/ Uncharged(Job(w)) /\ Goto(w, "debit")
       \/ Goto(w, "done")
    /\ UNCHANGED <<queueVars, rowVars, reqVars, attempt, cfg, provider,
                   hookVars, worldVars>>

Debit(w) ==
    /\ step[w] = "debit"
    /\ debits' = [debits EXCEPT ![Job(w)] = @ + 1]
    /\ Goto(w, "done")
    /\ UNCHANGED <<queueVars, rowVars, reqVars, attempt, cfg, provider,
                   hookVars, configActive, issued, gaveUp>>

\* Every attempt failed.  (The failed counter of the message's campaign, which
\* is raised here too, is not part of this module.)
Fail(w) ==
    /\ step[w] = "fail"
    /\ UpdateStatus(Job(w), "failed")
    /\ gaveUp' = gaveUp \cup {held[w]}
    /\ Goto(w, "done")
    /\ UNCHANGED <<queueVars, keyOf, providerId, reqVars, attempt, cfg, provider,
                   hookVars, debits, configActive, issued>>

FailFails(w) ==
    /\ step[w] = "fail"
    /\ May("db")
    /\ GiveUp(w)

\* The handler returned nil; the XACK may fail.
FinishJob(w) ==
    /\ step[w] = "done"
    /\ Ack(w) \/ (May("queue") /\ LeavePending(w))
    /\ EndJob(w)
    /\ UNCHANGED <<rowVars, reqVars, hookVars, worldVars>>

\* The consumer loop around the handler.
Loop(w) ==
    /\ Start(w) \/ ReadNothing(w) \/ ReadFails(w) \/ Stop(w)
    /\ UNCHANGED <<rowVars, reqVars, jobVars, hookVars, worldVars>>

\* The process dies, or is cancelled during a backoff.
Die(w) ==
    /\ May("crash")
    /\ Crash(w)
    /\ EndJob(w)
    /\ UNCHANGED <<rowVars, reqVars, hookVars, worldVars>>

SenderStep(w) ==
    \/ LoadJob(w)
    \/ LoadFails(w)
    \/ Resolve(w)
    \/ AttemptFails(w)
    \/ MarkSubmitted(w)
    \/ Accepted(w)
    \/ AnswerLost(w)
    \/ RateLimited(w)
    \/ Unauthorized(w)
    \/ Deactivate(w)
    \/ Expire(w)
    \/ StoreResult(w)
    \/ CheckCharge(w)
    \/ Debit(w)
    \/ Fail(w)
    \/ FailFails(w)
    \/ FinishJob(w)
-----------------------------------------------------------------------------
(* WebhookService.processWhatsAppStatus; the provider reports any status of *)
(* any id it issued, at any time, more than once and in any order           *)

\* The webhook request is over.
HookEnds(h) ==
    /\ hookStep' = [hookStep EXCEPT ![h] = "idle"]
    /\ hookId' = [hookId EXCEPT ![h] = NoId]
    /\ hookStatus' = [hookStatus EXCEPT ![h] = "created"]
    /\ hookSeen' = [hookSeen EXCEPT ![h] = "absent"]

\* What the lookup by provider id finds: the status of a row with the id, or
\* "absent" when there is none or the statement fails.
Finds(pid) ==
    {status[m] : m \in RowWithId(pid)}
        \cup {s \in {"absent"} : RowWithId(pid) = {} \/ May("db")}

HookReads_Slip(h, pid, s) == \* whatever the row says
    /\ hookStep[h] = "idle"
    /\ pid[2] <= issued[pid[1]]
    /\ \E seen \in Finds(pid) : hookSeen' = [hookSeen EXCEPT ![h] = seen]
    /\ hookStep' = [hookStep EXCEPT ![h] = "write"]
    /\ hookId' = [hookId EXCEPT ![h] = pid]
    /\ hookStatus' = [hookStatus EXCEPT ![h] = s]
    /\ UNCHANGED <<queueVars, rowVars, reqVars, jobVars, worldVars>>

\* A report that does not advance the row found is dropped; one that finds no
\* row goes on.
HookReads(h, pid, s) ==
    /\ hookStep[h] = "idle"
    /\ pid[2] <= issued[pid[1]]
    /\ \E seen \in Finds(pid) :
           /\ seen # "absent" => Advances(seen, s)
           /\ hookSeen' = [hookSeen EXCEPT ![h] = seen]
    /\ hookStep' = [hookStep EXCEPT ![h] = "write"]
    /\ hookId' = [hookId EXCEPT ![h] = pid]
    /\ hookStatus' = [hookStatus EXCEPT ![h] = s]
    /\ UNCHANGED <<queueVars, rowVars, reqVars, jobVars, worldVars>>

\* UpdateStatusByProviderID: whatever row has the id now, if any.
HookWrites(h) ==
    /\ hookStep[h] = "write"
    /\ status' = [m \in Messages |-> IF m \in RowWithId(hookId[h])
                                     THEN hookStatus[h] ELSE status[m]]
    /\ everFailed' = everFailed \cup
           {m \in RowWithId(hookId[h]) : hookStatus[h] = "failed"}
    /\ HookEnds(h)
    /\ UNCHANGED <<queueVars, keyOf, providerId, reqVars, jobVars, worldVars>>

HookFails(h) ==
    /\ hookStep[h] = "write"
    /\ May("db")
    /\ HookEnds(h)
    /\ UNCHANGED <<queueVars, rowVars, reqVars, jobVars, worldVars>>

Ids == UNION {{e} \X (1 .. issued[e]) : e \in EntryIds}

HookStep(h) ==
    \/ \E pid \in Ids, r \in MetaReports : HookReads(h, pid, MapWhatsAppStatus(r))
    \/ HookWrites(h)
    \/ HookFails(h)
-----------------------------------------------------------------------------
Next ==
    \/ \E r \in Requests : RequestStep(r)
    \/ \E w \in Workers : Loop(w) \/ TakeJob(w) \/ SenderStep(w) \/ Die(w)
    \/ \E h \in Hooks : HookStep(h)

Spec == Init /\ [][Next]_vars

\* What keeps the system going: requests, handlers and consumer loops run on,
\* and the provider does not answer 429 for ever.
Answered(w) == Accepted(w) \/ (step[w] = "call" /\ AttemptFails(w))

Fairness ==
    /\ \A r \in Requests : WF_vars(\E s \in Streams : Publish(r, s))
    /\ \A w \in Workers :
        /\ WF_vars(Start(w) /\ Loop(w))
        /\ SF_vars(ReadNothing(w) /\ Loop(w))
        /\ SF_vars(TakeJob(w))
        /\ WF_vars(SenderStep(w))
        /\ SF_vars(Answered(w))

FairSpec == Spec /\ Fairness
-----------------------------------------------------------------------------
(* Properties *)

Entries(m) == {e \in Added : MessageOf(e) = m}

Publishing(m) == {r \in Requests : reqStep[r] = "publish" /\ reqMsg[r] = m}

\* An idempotency key names one message, however requests with the key
\* interleave, and a message is in the queue once at most unless it failed and
\* was retried (Send: the lookup, the unique index and its conflict branch).
IdempotentSend ==
    /\ \A m, n \in Messages :
        keyOf[m] = keyOf[n] /\ keyOf[m] # NoKey => m = n
    /\ \A m \in Messages \ everFailed :
        Cardinality(Entries(m)) + Cardinality(Publishing(m)) <= 1

\* What was answered without an error is in the queue, or will be once a
\* request that is past its INSERT goes on, or is suppressed: no caller is told
\* of a message nobody will send (Send; needs a queue that takes what it gets).
AnsweredIsQueued ==
    \A m \in returned :
        status[m] = "suppressed" \/ Entries(m) # {} \/ Publishing(m) # {}

\* One entry makes the provider accept the message MaxRetries + 1 times at
\* most: retries are counted over lost answers and failed bookkeeping, and no
\* other worker handles the entry again (HandleMessage, RedisQueue).
BoundedDuplicates == \A e \in EntryIds : issued[e] <= MaxRetries + 1

\* A wallet is charged only for a message some entry of which the provider
\* accepted (sendWithCfg charges after the send and the update).
ChargedOnlyIfAccepted ==
    \A m \in Messages :
        debits[m] > 0 => \E e \in Entries(m) : issued[e] > 0

\* A message is charged once, however often it is sent (the promise of
\* TestBillingServiceRecordMessageChargeIsIdempotent).
ChargedOnce == \A m \in Messages : debits[m] <= 1

\* A provider id in a row was issued for an entry of that very message, so a
\* status webhook moves the row it reports on (StoreResult, HookWrites).
IdsNameTheirMessage ==
    \A m \in Messages : providerId[m] # NoId =>
        /\ providerId[m][1] \in Entries(m)
        /\ providerId[m][2] \in 1 .. issued[providerId[m][1]]

\* An acked entry was accepted by the provider or its failure was recorded; the
\* one exception is a refused credential whose failure could not be written
\* (redis_streams.go: "Only ACK after successful send + DB update").
NoSilentLoss ==
    \A e \in Acked :
        \/ issued[e] > 0
        \/ e \in gaveUp
        \/ May("auth") /\ May("db")

\* "Never downgrade status" (webhook_service.go:107), as far as the code keeps it:
\* however late, repeated or out of order reports come, no update of theirs
\* brings back a row whose status is still the one their lookup found.
DowngradesAreLate ==
    [][\A h \in Hooks : HookWrites(h) =>
            \A m \in RowWithId(hookId[h]) : status[m] = hookSeen[h] =>
                Advances(status[m], status'[m])]_vars

\* A send that was answered without an error, and not suppressed, comes to an
\* end some day: accepted by the provider, or recorded as failed.
SendComesToAnEnd ==
    \A m \in Messages :
        m \in returned /\ status[m] # "suppressed"
            ~> m \in everFailed \/ \E e \in Entries(m) : issued[e] > 0
=============================================================================
