----------------------------- MODULE Onboarding -----------------------------
(***************************************************************************)
(* The onboarding of WhatsApp business accounts, WABAs                     *)
(* (core/services/whatsapp_onboarding_service.go).  A callback links a     *)
(* WABA to its tenant in four tables, one statement after another and in   *)
(* no transaction: the provider config, the account, its phone numbers,    *)
(* and the session.  Requests sync and disconnect accounts meanwhile, and  *)
(* the provider API writes the same config.  That a WABA belongs to one    *)
(* tenant is a lookup before the write: no constraint says so.             *)
(*                                                                         *)
(* A tenant has at most one session here and one config (of WhatsApp and   *)
(* meta_cloud).  Meta's answers are any; credentials are left out.  Reads  *)
(* that follow each other are one step.                                    *)
(***************************************************************************)
EXTENDS Naturals, FiniteSets

CONSTANTS
    Tenants, Wabas, Phones,
    Requests,                 \* handlers at work
    MaxRequests,              \* bound: requests in all
    Faults,                   \* of "error" (statement or Meta), "crash", "api"
    NoRow, NoId

ASSUME OnboardingAssumption == MaxRequests \in Nat /\ NoId \notin Wabas

VARIABLES
    config, account, phone, session,   \* the tables
    work,                              \* work[p]: what request p is doing
    begun,                             \* bound: counts the requests
    disturbed,   \* history: requests whose tenant's rows another one wrote
    slipped      \* history: WABAs written unchecked, or checked by two at a time

vars == <<config, account, phone, session, work, begun, disturbed, slipped>>

May(f) == f \in Faults
Config == [active : BOOLEAN, waba : Wabas \cup {NoId}, phone : Phones \cup {NoId}]
Statuses == {"in_progress", "completed"}
Idle == [step |-> "idle"]
\* ids: the rows whose id it knows, while they exist.  saw: whether it found the
\* row it is about to write.  rows, good: Meta's phones, unwritten and usable.
Request ==
    [kind : {"callback", "sync", "phone", "disconnect"}, tenant : Tenants, waba : Wabas,
     step : {"mark", "link", "config", "check", "account", "list", "phones", "switch",
             "complete", "unusable", "end", "fail", "off", "delete"},
     ids : SUBSET {"config", "account"}, saw : BOOLEAN, phone : Phones \cup {NoId},
     rows : SUBSET Phones, good : SUBSET Phones]

\* The absent row and the absent id are none of those that are there.
ASSUME AbsentAssumption ==
    /\ NoId \notin Requests
    /\ NoRow \notin Config \cup Wabas \cup Statuses

TypeOK ==
    /\ config \in [Tenants -> Config \cup {NoRow}]
    /\ account \in [Tenants -> [Wabas -> Statuses \cup {NoRow}]]
    /\ phone \in [Tenants -> [Phones -> Wabas \cup {NoRow}]]
    /\ session \in [Tenants -> {NoRow, "pending", "in_progress", "completed", "failed"}]
    /\ work \in [Requests -> Request \cup {Idle}]
    /\ begun \in 0 .. MaxRequests
    /\ disturbed \subseteq Requests /\ slipped \subseteq Wabas

Init ==
    /\ config = [t \in Tenants |-> NoRow]
    /\ account = [t \in Tenants |-> [w \in Wabas |-> NoRow]]
    /\ phone = [t \in Tenants |-> [f \in Phones |-> NoRow]]
    /\ session = [t \in Tenants |-> NoRow]
    /\ work = [p \in Requests |-> Idle]
    /\ begun = 0 /\ disturbed = {} /\ slipped = {}

Is(p, s)  == work[p].step = s
Busy(p)   == ~Is(p, "idle")
Tenant(p) == IF Busy(p) THEN work[p].tenant ELSE NoId
Waba(p)   == work[p].waba
To(p, s)  == work' = [work EXCEPT ![p].step = s]
Ends(p)   == work' = [work EXCEPT ![p] = Idle]

\* p writes rows of t: whoever else is at work for t works on what it read before.
Writes(t, p) == disturbed' = {q \in Requests : Busy(q)' /\
                                (q \in disturbed \/ (q # p /\ Tenant(q) = t))}
Leaves == disturbed' = {q \in disturbed : Busy(q)'}
Counts == begun < MaxRequests /\ begun' = begun + 1
-----------------------------------------------------------------------------
(* The tables: one statement each. *)

HasConfig(t)      == config[t] # NoRow
CreateProviderConfig(t, c) == ~HasConfig(t) /\ config' = [config EXCEPT ![t] = c]
UpdateProviderConfig(t, c) == HasConfig(t) /\ config' = [config EXCEPT ![t] = c]
UpdateIsActive(t) ==
    config' = IF HasConfig(t) THEN [config EXCEPT ![t].active = FALSE] ELSE config
\* A config that accounts refer to stays.
DeleteProviderConfig(t) ==
    /\ HasConfig(t) /\ \A w \in Wabas : account[t][w] = NoRow
    /\ config' = [config EXCEPT ![t] = NoRow]

\* The lookups return one of the rows that match, whatever its tenant and
\* whether it is active: the tenants that own them.
GetByWABAID(w)         == {t \in Tenants : HasConfig(t) /\ config[t].waba = w}
GetByPhoneNumberID(f)  == {t \in Tenants : HasConfig(t) /\ config[t].phone = f}
\* ensureWABANotLinkedToAnotherTenant, and the same of a phone number
NotLinked(t, owners)   == owners = {} \/ t \in owners
Linked(t, owners)      == owners \ {t} # {}

HasAccount(t, w) == account[t][w] # NoRow
CreateAccount(t, w) ==
    /\ account[t][w] = NoRow
    /\ account' = [account EXCEPT ![t][w] = "in_progress"]
UpdateAccountSync(t, w) == account' = [account EXCEPT ![t][w] = "in_progress"]
UpdateAccountStatus(t, w, s) == account' = [account EXCEPT ![t][w] = s]
\* ... the phone numbers go with it
DeleteAccount(t, w) ==
    /\ account' = [account EXCEPT ![t][w] = NoRow]
    /\ phone' = [phone EXCEPT ![t] = [f \in Phones |-> IF @[f] = w THEN NoRow ELSE @[f]]]

HasPhone(t, f) == phone[t][f] # NoRow
PhoneBelongsTo(t, f, w) == phone[t][f] = w
CreatePhone(t, f, w) ==
    /\ account[t][w] # NoRow
    /\ phone' = [phone EXCEPT ![t][f] = w]
UpdatePhoneSync(t, f) == HasPhone(t, f) /\ phone' = phone  \* not its WABA

CreateSession(t) ==
    session[t] = NoRow /\ session' = [session EXCEPT ![t] = "pending"]
HasSession(t) == session[t] # NoRow
UpdateSessionStatus(t) == session' = [session EXCEPT ![t] = "in_progress"]
CompleteSession(t)     == session' = [session EXCEPT ![t] = "completed"]
FailSession(t)         == session' = [session EXCEPT ![t] = "failed"]
-----------------------------------------------------------------------------
(* Requests begin. *)

CreatesSession(t) ==
    /\ CreateSession(t)
    /\ UNCHANGED <<config, account, phone, work, begun, disturbed, slipped>>

Starts(p, k, t, w, step, ids, f) ==
    /\ ~Busy(p) /\ Counts
    /\ work' = [work EXCEPT ![p] =
           [kind |-> k, tenant |-> t, waba |-> w, step |-> step, ids |-> ids,
            saw |-> FALSE, phone |-> f, rows |-> {}, good |-> {}]]
    /\ disturbed' = disturbed \ {p}
    /\ UNCHANGED <<config, account, phone, session, slipped>>

CompleteOnboardingCallback_Slip(p, t, w) == \* a completed session is done again
    HasSession(t) /\ Starts(p, "callback", t, w, "mark", {}, NoId)
CompleteOnboardingCallback(p, t, w) ==
    /\ HasSession(t) /\ session[t] # "completed"
    /\ Starts(p, "callback", t, w, "mark", {}, NoId)

\* accessTokenForAccount: an account's config is there as long as the account is
AccessToken_Slip(t, w) == HasAccount(t, w) \* nobody asks whether it is active
AccessToken(t, w) == HasAccount(t, w) /\ HasConfig(t) /\ config[t].active

SyncWhatsAppAccount(p, t, w) ==
    AccessToken(t, w) /\ Starts(p, "sync", t, w, "check", {"config"}, NoId)
SyncWhatsAppPhoneNumber(p, t, f) ==
    \E w \in Wabas :
        /\ PhoneBelongsTo(t, f, w) /\ AccessToken(t, w)
        /\ Starts(p, "phone", t, w, "list", {"config", "account"}, f)
DisconnectWhatsAppAccount(p, t, w) ==
    HasAccount(t, w) /\ Starts(p, "disconnect", t, w, "off", {"config", "account"}, NoId)
-----------------------------------------------------------------------------
(* A callback, step by step; a sync of an account joins in at "check", one of a *)
(* phone number at "list".                                                     *)

Marks(p) ==
    /\ Is(p, "mark")
    /\ UpdateSessionStatus(Tenant(p))
    /\ To(p, "link") /\ Writes(Tenant(p), p)
    /\ UNCHANGED <<config, account, phone, begun, slipped>>

\* q has found its WABA free and is not through with linking it.
Checked(q) ==
    \/ work[q].kind = "callback" /\ work[q].step \notin {"mark", "link"}
    \/ work[q].kind = "sync" /\ ~Is(q, "check")
Checks(p) ==
    slipped' = IF \E q \in Requests \ {p} :
                      /\ Busy(q) /\ Tenant(q) # Tenant(p) /\ Waba(q) = Waba(p)
                      /\ Checked(q)
               THEN slipped \cup {Waba(p)} ELSE slipped

\* upsertProviderConfig: look for the WABA elsewhere and for the active config ...
FindsConfig(p) ==
    LET t == Tenant(p)
        found == HasConfig(t) /\ config[t].active
    IN  /\ work' = [work EXCEPT ![p].step = "config", ![p].saw = found,
                                ![p].ids = IF found THEN {"config"} ELSE {},
                                ![p].phone = IF found THEN config[t].phone ELSE NoId]
        /\ Checks(p)
        /\ UNCHANGED <<config, account, phone, session, begun, disturbed>>
UpsertReads_Slip(p) == Is(p, "link") /\ FindsConfig(p) \* leaves the lookup to SyncWABA
UpsertReads(p) ==
    /\ Is(p, "link") /\ NotLinked(Tenant(p), GetByWABAID(Waba(p)))
    /\ FindsConfig(p)

\* ... and write all of it back, or create one.
CanUpsert(p) == IF work[p].saw THEN "config" \in work[p].ids ELSE ~HasConfig(Tenant(p))
UpsertWrites(p) ==
    LET c == [active |-> TRUE, waba |-> Waba(p), phone |-> work[p].phone] IN
    /\ Is(p, "config") /\ CanUpsert(p)
    /\ IF work[p].saw THEN UpdateProviderConfig(Tenant(p), c)
                      ELSE CreateProviderConfig(Tenant(p), c)
    /\ work' = [work EXCEPT ![p].step = "check", ![p].ids = {"config"},
                            ![p].saw = FALSE, ![p].phone = NoId]
    /\ Writes(Tenant(p), p)
    /\ UNCHANGED <<account, phone, session, begun, slipped>>

\* SyncWABA: look for the WABA elsewhere, ask Meta, look for the account ...
SyncReads(p) ==
    LET found == account[Tenant(p)][Waba(p)] # NoRow IN
    /\ Is(p, "check") /\ NotLinked(Tenant(p), GetByWABAID(Waba(p)))
    /\ work' = [work EXCEPT ![p].step = "account", ![p].saw = found,
                            ![p].ids = IF found THEN @ \cup {"account"} ELSE @]
    /\ Checks(p)
    /\ UNCHANGED <<config, account, phone, session, begun, disturbed>>

\* ... and write it; it refers to the config.
CanSync(p) ==
    /\ "config" \in work[p].ids
    /\ IF work[p].saw THEN "account" \in work[p].ids
                      ELSE account[Tenant(p)][Waba(p)] = NoRow
SyncWrites(p) ==
    /\ Is(p, "account") /\ CanSync(p)
    /\ IF work[p].saw THEN UpdateAccountSync(Tenant(p), Waba(p))
                      ELSE CreateAccount(Tenant(p), Waba(p))
    /\ work' = [work EXCEPT ![p].step = "list", ![p].saw = FALSE,
                            ![p].ids = @ \cup {"account"}]
    /\ Writes(Tenant(p), p)
    /\ UNCHANGED <<config, phone, session, begun, slipped>>

\* SyncPhoneNumbers: Meta lists numbers, and says which are connected and verified.
ListPhoneNumbers ==
    {l \in [found : SUBSET Phones, good : SUBSET Phones] : l.good \subseteq l.found}
\* A sync of one number is done with them if it is not among them.
ListsPhones(p) ==
    /\ Is(p, "list")
    /\ \E l \in ListPhoneNumbers :
           work' = [work EXCEPT ![p].step = "phones", ![p].rows = l.found, ![p].good = l.good,
                                ![p].saw = work[p].kind = "phone" => work[p].phone \in l.found]
    /\ UNCHANGED <<config, account, phone, session, begun, disturbed, slipped>>

SavesPhone(p) ==
    /\ Is(p, "phones")
    /\ \E f \in work[p].rows :
        /\ NotLinked(Tenant(p), GetByPhoneNumberID(f))
        /\ UpdatePhoneSync(Tenant(p), f) \/ CreatePhone(Tenant(p), f, Waba(p))
        /\ work' = [work EXCEPT ![p].rows = @ \ {f}]
    /\ Writes(Tenant(p), p)
    /\ UNCHANGED <<config, account, session, begun, slipped>>

\* finalizeWhatsAppAccountSync: the first usable number ...
Finalizes_Slip(p) == \* any number that was saved
    /\ Is(p, "phones") /\ work[p].rows = {}
    /\ IF ~work[p].saw THEN Ends(p)
       ELSE \E f \in Phones :
            /\ HasPhone(Tenant(p), f) /\ NotLinked(Tenant(p), GetByPhoneNumberID(f))
            /\ work' = [work EXCEPT ![p].step = "switch", ![p].phone = f]
    /\ Leaves
    /\ UNCHANGED <<config, account, phone, session, begun, slipped>>
Finalizes(p) ==
    /\ Is(p, "phones") /\ work[p].rows = {}
    /\ IF ~work[p].saw THEN Ends(p)
       ELSE IF work[p].good = {} THEN To(p, "unusable")
       ELSE \E f \in work[p].good :
            /\ "config" \in work[p].ids /\ NotLinked(Tenant(p), GetByPhoneNumberID(f))
            /\ work' = [work EXCEPT ![p].step = "switch", ![p].phone = f]
    /\ Leaves
    /\ UNCHANGED <<config, account, phone, session, begun, slipped>>

\* ... goes into the config, which is active then ...
SwitchesOn(p) ==
    /\ Is(p, "switch") /\ "config" \in work[p].ids
    /\ UpdateProviderConfig(Tenant(p),
           [active |-> TRUE, waba |-> Waba(p), phone |-> work[p].phone])
    /\ slipped' = IF work[p].kind = "phone" THEN slipped \cup {Waba(p)} ELSE slipped
    /\ To(p, "complete") /\ Writes(Tenant(p), p)
    /\ UNCHANGED <<account, phone, session, begun>>

\* ... and the account is completed.
CompletesAccount(p) ==
    /\ Is(p, "complete") /\ "account" \in work[p].ids
    /\ UpdateAccountStatus(Tenant(p), Waba(p), "completed")
    /\ To(p, "end") /\ Writes(Tenant(p), p)
    /\ UNCHANGED <<config, phone, session, begun, slipped>>

Returns(p) ==
    /\ Is(p, "end")
    /\ IF work[p].kind = "callback" THEN CompleteSession(Tenant(p)) ELSE UNCHANGED session
    /\ Ends(p) /\ Writes(Tenant(p), p)
    /\ UNCHANGED <<config, account, phone, begun, slipped>>
-----------------------------------------------------------------------------
(* What fails. *)

\* A callback marks its session as failed; nothing that it wrote is taken back.
Fails(p) ==
    IF work[p].kind = "callback" /\ work[p].step \notin {"mark", "end", "fail"}
    THEN To(p, "fail") ELSE Ends(p)

MarksUnusable(p) ==
    /\ Is(p, "unusable")
    /\ IF "account" \in work[p].ids
       THEN UpdateAccountStatus(Tenant(p), Waba(p), "in_progress") ELSE UNCHANGED account
    /\ Fails(p) /\ Writes(Tenant(p), p)
    /\ UNCHANGED <<config, phone, session, begun, slipped>>

\* The rows do not allow p's next step, or the statement or Meta fails.
IsRefused(p) ==
    LET t == Tenant(p) IN
    \/ work[p].step \in {"link", "check"} /\ Linked(t, GetByWABAID(Waba(p)))
    \/ Is(p, "config") /\ ~CanUpsert(p)
    \/ Is(p, "account") /\ ~CanSync(p)
    \/ Is(p, "phones") /\ \E f \in work[p].rows :
           Linked(t, GetByPhoneNumberID(f)) \/ (~HasPhone(t, f) /\ account[t][Waba(p)] = NoRow)
    \/ Is(p, "phones") /\ work[p].rows = {} /\ work[p].saw /\ \E f \in work[p].good :
           Linked(t, GetByPhoneNumberID(f)) \/ "config" \notin work[p].ids
    \/ Is(p, "switch") /\ "config" \notin work[p].ids
    \/ Is(p, "complete") /\ "account" \notin work[p].ids
    \/ May("error")
Refused(p) ==
    /\ Busy(p) /\ IsRefused(p)
    /\ Fails(p) /\ Leaves
    /\ UNCHANGED <<config, account, phone, session, begun, slipped>>

FailsSession(p) ==
    /\ Is(p, "fail")
    /\ FailSession(Tenant(p)) /\ Ends(p) /\ Writes(Tenant(p), p)
    /\ UNCHANGED <<config, account, phone, begun, slipped>>

Crash(p) ==
    /\ May("crash") /\ Busy(p)
    /\ Ends(p) /\ Leaves
    /\ UNCHANGED <<config, account, phone, session, begun, slipped>>
-----------------------------------------------------------------------------
(* disconnectAccount: the config is turned off, the account deleted. *)

TurnsOff(p) ==
    /\ Is(p, "off")
    /\ IF "config" \in work[p].ids THEN UpdateIsActive(Tenant(p)) ELSE UNCHANGED config
    /\ To(p, "delete") /\ Writes(Tenant(p), p)
    /\ UNCHANGED <<account, phone, session, begun, slipped>>

\* Those that know the id of a row that is deleted do not find it again.
Forget(row, Knows(_)) ==
    [q \in Requests |-> IF Busy(q) /\ Knows(q)
                        THEN [work[q] EXCEPT !.ids = @ \ {row}] ELSE work[q]]
DeletesAccount(p) ==
    LET t == Tenant(p)
        Same(q) == Tenant(q) = t /\ Waba(q) = Waba(p)
    IN
    /\ Is(p, "delete")
    /\ IF "account" \in work[p].ids
       THEN DeleteAccount(t, Waba(p)) /\ work' = [Forget("account", Same) EXCEPT ![p] = Idle]
       ELSE Ends(p) /\ UNCHANGED <<account, phone>>
    /\ Writes(t, p)
    /\ UNCHANGED <<config, session, begun, slipped>>
-----------------------------------------------------------------------------
(* The provider API (adapters/http/provider_handler.go) asks nobody who else  *)
(* has the WABA.                                                              *)

CreatesProvider(t) ==
    /\ May("api") /\ Counts
    /\ \E c \in Config :
        /\ c.waba # NoId /\ c.phone # NoId
        /\ CreateProviderConfig(t, c) /\ slipped' = slipped \cup {c.waba}
    /\ UNCHANGED <<account, phone, session, work>>
    /\ Writes(t, NoId)

UpdatesProvider(t) ==
    /\ May("api") /\ Counts
    /\ \E c \in Config :
        /\ UpdateProviderConfig(t, c) /\ slipped' = slipped \cup ({c.waba} \ {NoId})
    /\ UNCHANGED <<account, phone, session, work>>
    /\ Writes(t, NoId)

DeletesProvider(t) ==
    LET Same(q) == Tenant(q) = t IN
    /\ May("api") /\ Counts
    /\ DeleteProviderConfig(t)
    /\ work' = Forget("config", Same) /\ Writes(t, NoId)
    /\ UNCHANGED <<account, phone, session, slipped>>
-----------------------------------------------------------------------------
Begins(p, t) ==
    \/ \E w \in Wabas :
        \/ CompleteOnboardingCallback(p, t, w) \/ SyncWhatsAppAccount(p, t, w)
        \/ DisconnectWhatsAppAccount(p, t, w)
    \/ \E f \in Phones : SyncWhatsAppPhoneNumber(p, t, f)
GoesOn(p) ==
    \/ Marks(p) \/ UpsertReads(p) \/ UpsertWrites(p) \/ SyncReads(p) \/ SyncWrites(p)
    \/ ListsPhones(p) \/ SavesPhone(p) \/ Finalizes(p) \/ SwitchesOn(p)
    \/ CompletesAccount(p) \/ Returns(p) \/ MarksUnusable(p) \/ Refused(p)
    \/ FailsSession(p) \/ TurnsOff(p) \/ DeletesAccount(p) \/ Crash(p)

Next ==
    \/ \E t \in Tenants :
        \/ CreatesSession(t) \/ CreatesProvider(t) \/ UpdatesProvider(t) \/ DeletesProvider(t)
        \/ \E p \in Requests : Begins(p, t)
    \/ \E p \in Requests : GoesOn(p)

Spec == Init /\ [][Next]_vars
-----------------------------------------------------------------------------
(* Safety. *)

\* Two tenants' configs name one WABA only if two requests looked for it at one
\* time and each found it free, or it was written without looking, by the provider
\* API or by the sync of a phone number (ensureWABANotLinkedToAnotherTenant).
OneTenantPerWaba == \A w \in Wabas \ slipped : Cardinality(GetByWABAID(w)) <= 1

\* The same without exceptions.
WabaIsLinkedOnce == \A w \in Wabas : Cardinality(GetByWABAID(w)) <= 1

\* When a request has finalized an account and nobody else wrote the tenant's rows
\* meanwhile, the account is completed and the active config has this WABA and a
\* usable number whose row exists, whatever earlier requests left half done.
FinalizedIsLinked ==
    \A p \in Requests \ disturbed : Is(p, "end") =>
        LET t == Tenant(p) IN
        /\ account[t][Waba(p)] = "completed"
        /\ HasConfig(t) /\ config[t].active /\ config[t].waba = Waba(p)
        /\ config[t].phone \in work[p].good /\ HasPhone(t, config[t].phone)

\* A config that was turned off comes back only through the provider API or a
\* request at work since before somebody else wrote the tenant's rows.
OffStaysOff ==
    [][\A t \in Tenants :
          HasConfig(t) /\ ~config[t].active /\ HasConfig(t)' /\ config'[t].active =>
              \/ begun' # begun
              \/ \E p \in disturbed : work[p].step \in {"config", "switch"} /\ Tenant(p) = t]_vars

\* A completed session changes only under callbacks that overlapped.
CompletedStays ==
    [][\A t \in Tenants : session[t] = "completed" /\ session'[t] # "completed" =>
          \E p \in disturbed : work[p].kind = "callback" /\ Tenant(p) = t]_vars
=============================================================================
