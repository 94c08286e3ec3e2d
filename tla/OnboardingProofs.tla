-------------------------- MODULE OnboardingProofs --------------------------
(***************************************************************************)
(* That onboarding gives a WABA to one tenant, for any number of tenants,  *)
(* WABAs and requests, but for the ways around the lookup that the history *)
(* slipped tells of (Onboarding!OneTenantPerWaba); that what it says is    *)
(* finalized is linked, that off stays off and completed stays completed;  *)
(* and type correctness.                                                   *)
(*                                                                         *)
(* The lookup and the write are two statements, so the invariant speaks of *)
(* requests that are between them: while a WABA has not slipped, all that  *)
(* have found it free work for one tenant, and no other tenant has it.     *)
(***************************************************************************)
EXTENDS Onboarding, FiniteSetTheorems, TLAPS

LEMMA InitialType == Init => TypeOK
BY OnboardingAssumption DEF Init, TypeOK, Idle

\* The parts of the type invariant: the tables, the requests and the rest.
TablesType ==
    /\ config \in [Tenants -> Config \cup {NoRow}]
    /\ account \in [Tenants -> [Wabas -> Statuses \cup {NoRow}]]
    /\ phone \in [Tenants -> [Phones -> Wabas \cup {NoRow}]]
    /\ session \in [Tenants -> {NoRow, "pending", "in_progress", "completed", "failed"}]
WorkType == work \in [Requests -> Request \cup {Idle}]
RestType == begun \in 0 .. MaxRequests /\ disturbed \subseteq Requests /\ slipped \subseteq Wabas

LEMMA TypeParts == TypeOK <=> TablesType /\ WorkType /\ RestType
BY DEF TypeOK, TablesType, WorkType, RestType

LEMMA BusyType ==
    ASSUME WorkType, NEW p \in Requests, ~Is(p, "idle")
    PROVE  /\ work[p] \in Request /\ Tenant(p) = work[p].tenant
           /\ Tenant(p) \in Tenants /\ Waba(p) \in Wabas
BY DEF WorkType, Is, Idle, Request, Tenant, Busy, Waba

Steps == {"mark", "link", "config", "check", "account", "list", "phones", "switch",
          "complete", "unusable", "end", "fail", "off", "delete"}

LEMMA ToType ==
    ASSUME WorkType, NEW p \in Requests, ~Is(p, "idle"), NEW s \in Steps, To(p, s)
    PROVE  WorkType'
<1>1. [work[p] EXCEPT !.step = s] \in Request
  BY BusyType DEF Request, Steps
<1> QED
  BY <1>1 DEF To, WorkType

LEMMA EndsType ==
    ASSUME WorkType, NEW p \in Requests, Ends(p)
    PROVE  WorkType'
BY DEF Ends, WorkType

LEMMA FailsType ==
    ASSUME WorkType, NEW p \in Requests, ~Is(p, "idle"), Fails(p)
    PROVE  WorkType'
BY ToType, EndsType DEF Fails, Steps

LEMMA StartsType ==
    ASSUME TypeOK, NEW p \in Requests,
           NEW k \in {"callback", "sync", "phone", "disconnect"}, NEW t \in Tenants,
           NEW w \in Wabas, NEW s \in Steps, NEW ids \in SUBSET {"config", "account"},
           NEW f \in Phones \cup {NoId}, Starts(p, k, t, w, s, ids, f)
    PROVE  TypeOK'
<1>1. [kind |-> k, tenant |-> t, waba |-> w, step |-> s, ids |-> ids,
       saw |-> FALSE, phone |-> f, rows |-> {}, good |-> {}] \in Request
  BY DEF Request, Steps
<1>2. WorkType'
  BY <1>1 DEF Starts, TypeOK, WorkType
<1>3. RestType'
  BY OnboardingAssumption DEF Starts, Counts, TypeOK, RestType
<1>4. TablesType'
  BY TypeParts DEF Starts, TablesType
<1> QED
  BY <1>2, <1>3, <1>4 DEF TypeOK, TablesType, WorkType, RestType

LEMMA BeginsType ==
    ASSUME TypeOK, NEW p \in Requests, NEW t \in Tenants, Begins(p, t)
    PROVE  TypeOK'
<1>1. ASSUME NEW w \in Wabas,
             \/ CompleteOnboardingCallback(p, t, w) \/ SyncWhatsAppAccount(p, t, w)
             \/ DisconnectWhatsAppAccount(p, t, w)
      PROVE  TypeOK'
  BY <1>1, StartsType DEF CompleteOnboardingCallback, SyncWhatsAppAccount,
     DisconnectWhatsAppAccount, Steps
<1>2. ASSUME NEW f \in Phones, SyncWhatsAppPhoneNumber(p, t, f)
      PROVE  TypeOK'
  BY <1>2, StartsType DEF SyncWhatsAppPhoneNumber, Steps
<1> QED
  BY <1>1, <1>2 DEF Begins

LEMMA WritesType ==
    ASSUME TypeOK, NEW t, NEW p, Writes(t, p) \/ Leaves \/ disturbed' = disturbed,
           begun' = begun \/ Counts, slipped' \subseteq Wabas
    PROVE  RestType'
BY OnboardingAssumption DEF Writes, Leaves, Counts, RestType, TypeOK

LEMMA ChecksType ==
    ASSUME TypeOK, NEW p \in Requests, ~Is(p, "idle"), Checks(p)
    PROVE  slipped' \subseteq Wabas
BY BusyType, TypeParts DEF Checks, RestType

LEMMA ProviderConfigType ==
    ASSUME TypeOK, NEW t \in Tenants, NEW c \in Config,
           CreateProviderConfig(t, c) \/ UpdateProviderConfig(t, c)
    PROVE  config' \in [Tenants -> Config \cup {NoRow}]
BY DEF CreateProviderConfig, UpdateProviderConfig, TypeOK

LEMMA UpsertType ==
    ASSUME TypeOK, NEW p \in Requests, UpsertReads(p) \/ UpsertWrites(p)
    PROVE  TypeOK'
<1>1. ~Is(p, "idle")
  BY DEF UpsertReads, UpsertWrites, Is
<1>2. /\ work[p] \in Request /\ Tenant(p) \in Tenants /\ Waba(p) \in Wabas
      /\ work[p].phone \in Phones \cup {NoId}
  BY <1>1, BusyType, TypeParts DEF Request
<1>3. CASE UpsertReads(p)
  <2> DEFINE found == HasConfig(Tenant(p)) /\ config[Tenant(p)].active
  <2> DEFINE f == IF found THEN config[Tenant(p)].phone ELSE NoId
  <2>1. f \in Phones \cup {NoId} /\ found \in BOOLEAN
    BY <1>2 DEF TypeOK, HasConfig, Config
  <2>2. work' = [work EXCEPT ![p].step = "config", ![p].saw = found,
                     ![p].ids = IF found THEN {"config"} ELSE {}, ![p].phone = f]
    BY <1>3 DEF UpsertReads, FindsConfig
  <2> HIDE DEF found, f
  <2>3. [work[p] EXCEPT !.step = "config", !.saw = found,
                     !.ids = IF found THEN {"config"} ELSE {}, !.phone = f] \in Request
    BY <1>2, <2>1 DEF Request
  <2>4. WorkType'
    BY <2>2, <2>3, TypeParts DEF WorkType
  <2>5. slipped' \subseteq Wabas
    BY <1>1, <1>3, ChecksType DEF UpsertReads, FindsConfig
  <2>6. RestType'
    BY <1>3, <2>5, WritesType DEF UpsertReads, FindsConfig
  <2> QED
    BY <1>3, <2>4, <2>6, TypeParts DEF UpsertReads, FindsConfig, TypeOK, TablesType, WorkType, RestType
<1>4. CASE UpsertWrites(p)
  <2>1. [active |-> TRUE, waba |-> Waba(p), phone |-> work[p].phone] \in Config
    BY <1>2 DEF Config
  <2>2. config' \in [Tenants -> Config \cup {NoRow}]
    BY <1>2, <1>4, <2>1, ProviderConfigType DEF UpsertWrites
  <2>3. [work[p] EXCEPT !.step = "check", !.ids = {"config"}, !.saw = FALSE, !.phone = NoId]
            \in Request
    BY <1>2 DEF Request
  <2>4. WorkType'
    BY <1>4, <2>3, TypeParts DEF UpsertWrites, WorkType
  <2>5. RestType'
    BY <1>4, WritesType DEF UpsertWrites, TypeOK
  <2> QED
    BY <1>4, <2>2, <2>4, <2>5 DEF UpsertWrites, TypeOK, WorkType, RestType
<1> QED
  BY <1>3, <1>4

LEMMA SyncType ==
    ASSUME TypeOK, NEW p \in Requests, SyncReads(p) \/ SyncWrites(p)
    PROVE  TypeOK'
<1>1. ~Is(p, "idle")
  BY DEF SyncReads, SyncWrites, Is
<1>2. work[p] \in Request /\ Tenant(p) \in Tenants /\ Waba(p) \in Wabas
  BY <1>1, BusyType, TypeParts
<1>3. CASE SyncReads(p)
  <2>1. /\ [work[p] EXCEPT !.step = "account", !.saw = TRUE, !.ids = @ \cup {"account"}] \in Request
        /\ [work[p] EXCEPT !.step = "account", !.saw = FALSE, !.ids = @] \in Request
    BY <1>2 DEF Request
  <2>2. WorkType'
    BY <1>3, <2>1, TypeParts DEF SyncReads, WorkType
  <2>3. slipped' \subseteq Wabas
    BY <1>1, <1>3, ChecksType DEF SyncReads
  <2>4. RestType'
    BY <1>3, <2>3, WritesType DEF SyncReads
  <2> QED
    BY <1>3, <2>2, <2>4 DEF SyncReads, TypeOK, WorkType, RestType
<1>4. CASE SyncWrites(p)
  <2>1. [work[p] EXCEPT !.step = "list", !.saw = FALSE, !.ids = @ \cup {"account"}] \in Request
    BY <1>2 DEF Request
  <2>2. WorkType'
    BY <1>4, <2>1, TypeParts DEF SyncWrites, WorkType
  <2>3. account' \in [Tenants -> [Wabas -> Statuses \cup {NoRow}]]
    <3>1. account' = [account EXCEPT ![Tenant(p)][Waba(p)] = "in_progress"]
      BY <1>4 DEF SyncWrites, UpdateAccountSync, CreateAccount
    <3>2. account \in [Tenants -> [Wabas -> Statuses \cup {NoRow}]]
      BY DEF TypeOK
    <3> QED
      BY <1>2, <3>1, <3>2 DEF Statuses
  <2>4. RestType'
    BY <1>4, WritesType DEF SyncWrites, TypeOK
  <2> QED
    BY <1>4, <2>2, <2>3, <2>4 DEF SyncWrites, TypeOK, WorkType, RestType
<1> QED
  BY <1>3, <1>4

LEMMA PhonesType ==
    ASSUME TypeOK, NEW p \in Requests, ListsPhones(p) \/ SavesPhone(p) \/ Finalizes(p)
    PROVE  TypeOK'
<1>1. ~Is(p, "idle")
  BY DEF ListsPhones, SavesPhone, Finalizes, Is
<1>2. /\ work[p] \in Request /\ Tenant(p) \in Tenants /\ Waba(p) \in Wabas
      /\ work[p].rows \in SUBSET Phones /\ work[p].good \in SUBSET Phones
  BY <1>1, BusyType, TypeParts DEF Request
<1>3. CASE ListsPhones(p)
  <2>1. PICK l \in ListPhoneNumbers :
            work' = [work EXCEPT ![p].step = "phones", ![p].rows = l.found, ![p].good = l.good,
                                 ![p].saw = work[p].kind = "phone" => work[p].phone \in l.found]
    BY <1>3 DEF ListsPhones
  <2>2. l.found \in SUBSET Phones /\ l.good \in SUBSET Phones
    BY DEF ListPhoneNumbers
  <2>3. \A b \in BOOLEAN : [work[p] EXCEPT !.step = "phones", !.rows = l.found,
                                           !.good = l.good, !.saw = b] \in Request
    BY <1>2, <2>2 DEF Request
  <2>4. (work[p].kind = "phone" => work[p].phone \in l.found) \in BOOLEAN
    OBVIOUS
  <2>5. WorkType'
    BY <2>1, <2>3, <2>4, TypeParts DEF WorkType
  <2> QED
    BY <1>3, <2>5 DEF ListsPhones, TypeOK, WorkType
<1>4. CASE SavesPhone(p)
  <2>1. PICK f \in work[p].rows :
            /\ UpdatePhoneSync(Tenant(p), f) \/ CreatePhone(Tenant(p), f, Waba(p))
            /\ work' = [work EXCEPT ![p].rows = @ \ {f}]
    BY <1>4 DEF SavesPhone
  <2>2. [work[p] EXCEPT !.rows = @ \ {f}] \in Request
    BY <1>2 DEF Request
  <2>3. WorkType'
    BY <2>1, <2>2, TypeParts DEF WorkType
  <2>4. phone' \in [Tenants -> [Phones -> Wabas \cup {NoRow}]]
    <3>1. phone' = phone \/ phone' = [phone EXCEPT ![Tenant(p)][f] = Waba(p)]
      BY <2>1 DEF UpdatePhoneSync, CreatePhone
    <3>2. phone \in [Tenants -> [Phones -> Wabas \cup {NoRow}]] /\ f \in Phones
      BY <1>2 DEF TypeOK
    <3> QED
      BY <1>2, <3>1, <3>2
  <2>5. RestType'
    BY <1>4, WritesType DEF SavesPhone, TypeOK
  <2> QED
    BY <1>4, <2>3, <2>4, <2>5 DEF SavesPhone, TypeOK, WorkType, RestType
<1>5. CASE Finalizes(p)
  <2>1. ASSUME NEW f \in work[p].good, work' = [work EXCEPT ![p].step = "switch", ![p].phone = f]
        PROVE  WorkType'
    <3>1. [work[p] EXCEPT !.step = "switch", !.phone = f] \in Request
      BY <1>2 DEF Request
    <3> QED
      BY <2>1, <3>1, TypeParts DEF WorkType
  <2>2. WorkType'
    BY <1>1, <1>5, <2>1, ToType, EndsType, TypeParts DEF Finalizes, Steps
  <2>3. RestType'
    BY <1>5, WritesType DEF Finalizes, TypeOK
  <2> QED
    BY <1>5, <2>2, <2>3 DEF Finalizes, TypeOK, WorkType, RestType
<1> QED
  BY <1>3, <1>4, <1>5

LEMMA StatusType ==
    ASSUME TypeOK, NEW t \in Tenants, NEW w \in Wabas, NEW s \in Statuses,
           UpdateAccountStatus(t, w, s)
    PROVE  account' \in [Tenants -> [Wabas -> Statuses \cup {NoRow}]]
<1>1. account \in [Tenants -> [Wabas -> Statuses \cup {NoRow}]]
  BY DEF TypeOK
<1> QED
  BY <1>1 DEF UpdateAccountStatus

LEMMA SessionType ==
    ASSUME TypeOK, NEW t \in Tenants,
           UpdateSessionStatus(t) \/ CompleteSession(t) \/ FailSession(t) \/ CreateSession(t)
    PROVE  session' \in [Tenants -> {NoRow, "pending", "in_progress", "completed", "failed"}]
BY DEF UpdateSessionStatus, CompleteSession, FailSession, CreateSession, TypeOK

LEMMA EndingType ==
    ASSUME TypeOK, NEW p \in Requests,
           \/ Marks(p) \/ SwitchesOn(p) \/ CompletesAccount(p) \/ Returns(p)
           \/ MarksUnusable(p) \/ Refused(p) \/ FailsSession(p) \/ Crash(p) \/ TurnsOff(p)
    PROVE  TypeOK'
<1>1. ~Is(p, "idle")
  BY DEF Marks, SwitchesOn, CompletesAccount, Returns, MarksUnusable, Refused, FailsSession,
         Crash, TurnsOff, Is, Busy
<1>2. /\ work[p] \in Request /\ Tenant(p) \in Tenants /\ Waba(p) \in Wabas
      /\ work[p].phone \in Phones \cup {NoId}
  BY <1>1, BusyType, TypeParts DEF Request
<1>3. WorkType'
  BY <1>1, ToType, EndsType, FailsType, TypeParts
  DEF Marks, SwitchesOn, CompletesAccount, Returns, MarksUnusable, Refused, FailsSession,
      Crash, TurnsOff, Steps
<1>4. slipped' \subseteq Wabas
  BY <1>2 DEF Marks, SwitchesOn, CompletesAccount, Returns, MarksUnusable, Refused,
     FailsSession, Crash, TurnsOff, TypeOK
<1>5. RestType'
  BY <1>4, WritesType
  DEF Marks, SwitchesOn, CompletesAccount, Returns, MarksUnusable, Refused, FailsSession,
      Crash, TurnsOff
<1>6. config' \in [Tenants -> Config \cup {NoRow}]
  <2>1. [active |-> TRUE, waba |-> Waba(p), phone |-> work[p].phone] \in Config
    BY <1>2 DEF Config
  <2>2. CASE SwitchesOn(p)
    BY <1>2, <2>1, <2>2, ProviderConfigType DEF SwitchesOn
  <2>3. CASE UpdateIsActive(Tenant(p))
    <3>1. \A c \in Config : [c EXCEPT !.active = FALSE] \in Config
      BY DEF Config
    <3> QED
      BY <1>2, <2>3, <3>1 DEF UpdateIsActive, HasConfig, TypeOK
  <2>4. CASE config' = config
    BY <2>4 DEF TypeOK
  <2> QED
    BY <2>2, <2>3, <2>4
    DEF Marks, CompletesAccount, Returns, MarksUnusable, Refused, FailsSession, Crash, TurnsOff
<1>7. account' \in [Tenants -> [Wabas -> Statuses \cup {NoRow}]]
  BY <1>2, StatusType
  DEF Marks, SwitchesOn, CompletesAccount, Returns, MarksUnusable, Refused, FailsSession,
      Crash, TurnsOff, Statuses, TypeOK
<1>8. session' \in [Tenants -> {NoRow, "pending", "in_progress", "completed", "failed"}]
  BY <1>2, SessionType
  DEF Marks, SwitchesOn, CompletesAccount, Returns, MarksUnusable, Refused, FailsSession,
      Crash, TurnsOff, TypeOK
<1>9. phone' = phone
  BY DEF Marks, SwitchesOn, CompletesAccount, Returns, MarksUnusable, Refused, FailsSession,
         Crash, TurnsOff
<1> QED
  BY <1>3, <1>5, <1>6, <1>7, <1>8, <1>9 DEF TypeOK, WorkType, RestType

LEMMA ForgetType ==
    ASSUME WorkType, NEW row, NEW Knows(_)
    PROVE  Forget(row, Knows) \in [Requests -> Request \cup {Idle}]
<1>1. ASSUME NEW q \in Requests, Busy(q)
      PROVE  [work[q] EXCEPT !.ids = @ \ {row}] \in Request
  BY <1>1, BusyType DEF Busy, Request
<1> QED
  BY <1>1 DEF Forget, WorkType

LEMMA DeletesAccountType ==
    ASSUME TypeOK, NEW p \in Requests, DeletesAccount(p)
    PROVE  TypeOK'
<1>1. ~Is(p, "idle")
  BY DEF DeletesAccount, Is
<1>2. Tenant(p) \in Tenants /\ Waba(p) \in Wabas
  BY <1>1, BusyType, TypeParts
<1>3. WorkType'
  <2> DEFINE Same(q) == Tenant(q) = Tenant(p) /\ Waba(q) = Waba(p)
  <2>1. CASE Ends(p)
    BY <2>1, EndsType, TypeParts
  <2>2. CASE work' = [Forget("account", Same) EXCEPT ![p] = Idle]
    <3>1. Forget("account", Same) \in [Requests -> Request \cup {Idle}]
      BY ForgetType, TypeParts
    <3> HIDE DEF Same
    <3> QED
      BY <2>2, <3>1 DEF WorkType
  <2> QED
    BY <2>1, <2>2 DEF DeletesAccount
<1>4. RestType'
  BY WritesType DEF DeletesAccount, TypeOK
<1>5. account' \in [Tenants -> [Wabas -> Statuses \cup {NoRow}]]
  <2>1. account \in [Tenants -> [Wabas -> Statuses \cup {NoRow}]]
    BY DEF TypeOK
  <2>2. account' = account \/ account' = [account EXCEPT ![Tenant(p)][Waba(p)] = NoRow]
    BY DEF DeletesAccount, DeleteAccount
  <2> QED
    BY <1>2, <2>1, <2>2
<1>6. phone' \in [Tenants -> [Phones -> Wabas \cup {NoRow}]]
  <2>1. phone \in [Tenants -> [Phones -> Wabas \cup {NoRow}]]
    BY DEF TypeOK
  <2>2. \/ phone' = phone
        \/ phone' = [phone EXCEPT ![Tenant(p)] =
                        [f \in Phones |-> IF phone[Tenant(p)][f] = Waba(p) THEN NoRow
                                         ELSE phone[Tenant(p)][f]]]
    BY DEF DeletesAccount, DeleteAccount
  <2>3. [f \in Phones |-> IF phone[Tenant(p)][f] = Waba(p) THEN NoRow
                          ELSE phone[Tenant(p)][f]] \in [Phones -> Wabas \cup {NoRow}]
    BY <1>2, <2>1
  <2> QED
    BY <1>2, <2>1, <2>2, <2>3
<1> QED
  BY <1>3, <1>4, <1>5, <1>6 DEF DeletesAccount, TypeOK, WorkType, RestType

LEMMA ProviderType ==
    ASSUME TypeOK, NEW t \in Tenants,
           CreatesProvider(t) \/ UpdatesProvider(t) \/ DeletesProvider(t)
    PROVE  TypeOK'
<1>1. CASE CreatesProvider(t) \/ UpdatesProvider(t)
  <2>1. PICK c \in Config :
            /\ CreateProviderConfig(t, c) \/ UpdateProviderConfig(t, c)
            /\ slipped' \subseteq slipped \cup ({c.waba} \ {NoId}) \cup (IF c.waba # NoId THEN {c.waba} ELSE {})
    BY <1>1 DEF CreatesProvider, UpdatesProvider
  <2>2. slipped' \subseteq Wabas
    BY <2>1 DEF TypeOK, Config
  <2>3. RestType'
    BY <1>1, <2>2, WritesType DEF CreatesProvider, UpdatesProvider
  <2>4. config' \in [Tenants -> Config \cup {NoRow}]
    BY <2>1, ProviderConfigType
  <2> QED
    BY <1>1, <2>3, <2>4 DEF CreatesProvider, UpdatesProvider, TypeOK, RestType
<1>2. CASE DeletesProvider(t)
  <2> DEFINE Same(q) == Tenant(q) = t
  <2>1. Forget("config", Same) \in [Requests -> Request \cup {Idle}]
    BY ForgetType, TypeParts
  <2>2. work' = Forget("config", Same)
    BY <1>2 DEF DeletesProvider
  <2> HIDE DEF Same
  <2>3. WorkType'
    BY <2>1, <2>2 DEF WorkType
  <2>4. RestType'
    BY <1>2, WritesType DEF DeletesProvider, TypeOK
  <2>5. config' \in [Tenants -> Config \cup {NoRow}]
    BY <1>2 DEF DeletesProvider, DeleteProviderConfig, TypeOK
  <2> QED
    BY <1>2, <2>3, <2>4, <2>5 DEF DeletesProvider, TypeOK, WorkType, RestType
<1> QED
  BY <1>1, <1>2

LEMMA StepType ==
    ASSUME TypeOK, [Next]_vars
    PROVE  TypeOK'
<1>1. ASSUME NEW t \in Tenants, CreatesSession(t)
      PROVE  TypeOK'
  BY <1>1, SessionType DEF CreatesSession, TypeOK
<1>2. ASSUME NEW p \in Requests, GoesOn(p)
      PROVE  TypeOK'
  BY <1>2, UpsertType, SyncType, PhonesType, EndingType, DeletesAccountType DEF GoesOn
<1>3. CASE UNCHANGED vars
  BY <1>3 DEF vars, TypeOK
<1> QED
  BY <1>1, <1>2, <1>3, BeginsType, ProviderType DEF Next

\* The tables of onboarding and the requests at work on them have their types.
THEOREM TypeCorrect == Spec => []TypeOK
<1>1. TypeOK /\ [Next]_vars => TypeOK'
  BY StepType
<1> QED
  BY InitialType, <1>1, PTL DEF Spec
-----------------------------------------------------------------------------
(* One tenant for a WABA. *)

\* q has found its WABA free and may yet write it into a config.
Between(q) == Busy(q) /\ Checked(q) /\ ~Is(q, "fail")

KindOf(p) ==
    /\ work[p].step \in {"mark", "link", "config"} => work[p].kind = "callback"
    /\ Busy(p) /\ work[p].kind = "disconnect" => work[p].step \in {"off", "delete"}
KindsInv == \A p \in Requests : KindOf(p)

OwnersInv == \A w \in Wabas \ slipped :
    /\ \A t, u \in GetByWABAID(w) : t = u
    /\ \A p \in Requests : Between(p) /\ Waba(p) = w =>
           \A t \in GetByWABAID(w) : t = Tenant(p)
    /\ \A p, q \in Requests : Between(p) /\ Between(q) /\ Waba(p) = w /\ Waba(q) = w =>
           Tenant(p) = Tenant(q)

\* p is not newly between, and is about the same WABA and tenant.
Keeps(p) == Between(p)' => Between(p) /\ Tenant(p)' = Tenant(p) /\ Waba(p)' = Waba(p)

\* A step after which nobody is newly between, and an owner is one of before or
\* the tenant of one that is between.
LEMMA OwnersKept ==
    ASSUME OwnersInv, slipped \subseteq slipped', \A p \in Requests : Keeps(p),
           \A w \in Wabas \ slipped' : \A t \in GetByWABAID(w)' :
               \/ t \in GetByWABAID(w)
               \/ \E p \in Requests : Between(p) /\ Waba(p) = w /\ Tenant(p) = t
    PROVE  OwnersInv'
<1> SUFFICES ASSUME NEW w \in Wabas \ slipped'
             PROVE  /\ \A t, u \in GetByWABAID(w)' : t = u
                    /\ \A p \in Requests : Between(p)' /\ Waba(p)' = w =>
                           \A t \in GetByWABAID(w)' : t = Tenant(p)'
                    /\ \A p, q \in Requests :
                           Between(p)' /\ Between(q)' /\ Waba(p)' = w /\ Waba(q)' = w =>
                               Tenant(p)' = Tenant(q)'
  BY DEF OwnersInv
<1>1. w \in Wabas \ slipped
  OBVIOUS
<1>2. /\ \A t, u \in GetByWABAID(w) : t = u
      /\ \A p \in Requests : Between(p) /\ Waba(p) = w =>
             \A t \in GetByWABAID(w) : t = Tenant(p)
      /\ \A p, q \in Requests : Between(p) /\ Between(q) /\ Waba(p) = w /\ Waba(q) = w =>
             Tenant(p) = Tenant(q)
  BY <1>1 DEF OwnersInv
<1>3. \A t \in GetByWABAID(w)' : t \in GetByWABAID(w) \/
          \E p \in Requests : Between(p) /\ Waba(p) = w /\ Tenant(p) = t
  OBVIOUS
<1>4. \A p \in Requests : Between(p)' /\ Waba(p)' = w =>
          Between(p) /\ Waba(p) = w /\ Tenant(p)' = Tenant(p)
  BY DEF Keeps
<1> HIDE DEF GetByWABAID, Between, Tenant, Waba
<1>5. \A t, u \in GetByWABAID(w)' : t = u
  BY <1>2, <1>3
<1>6. \A p \in Requests : Between(p)' /\ Waba(p)' = w => \A t \in GetByWABAID(w)' : t = Tenant(p)'
  BY <1>2, <1>3, <1>4
<1>7. \A p, q \in Requests : Between(p)' /\ Between(q)' /\ Waba(p)' = w /\ Waba(q)' = w =>
          Tenant(p)' = Tenant(q)'
  BY <1>2, <1>4
<1> QED
  BY <1>5, <1>6, <1>7

\* p ends, stays where it is, fails, or goes on from a step that is no lookup.
Moves(p) ==
    \/ work'[p] = Idle
    \/ work'[p] = work[p]
    \/ /\ work[p] \in Request /\ work'[p] \in Request
       /\ work'[p].kind = work[p].kind /\ work'[p].tenant = work[p].tenant
       /\ work'[p].waba = work[p].waba
       /\ \/ work[p].step \notin {"mark", "link", "check", "fail"}
          \/ work'[p].step = "fail"
          \/ work'[p].step = work[p].step
          \/ work'[p].step = "link" /\ work[p].kind = "callback"
       /\ KindOf(p)'

LEMMA MovesKeeps ==
    ASSUME NEW p \in Requests, Moves(p), KindOf(p)
    PROVE  Keeps(p) /\ KindOf(p)'
<1>1. CASE work'[p] = Idle
  BY <1>1 DEF Keeps, Between, Busy, Is, Idle, KindOf
<1>2. CASE work'[p] = work[p]
  BY <1>2 DEF Keeps, Between, Busy, Is, Checked, Tenant, Waba, KindOf
<1>3. CASE /\ work[p] \in Request /\ work'[p] \in Request
           /\ work'[p].kind = work[p].kind /\ work'[p].tenant = work[p].tenant
           /\ work'[p].waba = work[p].waba
           /\ \/ work[p].step \notin {"mark", "link", "check", "fail"}
              \/ work'[p].step = "fail"
              \/ work'[p].step = work[p].step
              \/ work'[p].step = "link" /\ work[p].kind = "callback"
           /\ KindOf(p)'
  <2>1. work[p].step # "idle" /\ work'[p].step # "idle"
    BY <1>3 DEF Request
  <2>2. Tenant(p)' = Tenant(p) /\ Waba(p)' = Waba(p)
    BY <1>3, <2>1 DEF Tenant, Waba, Busy, Is
  <2>3. SUFFICES ASSUME Between(p)' PROVE Between(p)
    BY <1>3, <2>2 DEF Keeps
  <2>4. /\ work'[p].step # "fail"
        /\ \/ work'[p].kind = "callback" /\ work'[p].step \notin {"mark", "link"}
           \/ work'[p].kind = "sync" /\ work'[p].step # "check"
    BY <2>3 DEF Between, Checked, Is
  <2>5. \/ work[p].step \notin {"mark", "link", "check", "fail"}
        \/ work'[p].step = work[p].step
    BY <1>3, <2>4
  <2> QED
    BY <1>3, <2>1, <2>4, <2>5 DEF Between, Checked, Busy, Is
<1> QED
  BY <1>1, <1>2, <1>3 DEF Moves

\* Only p goes on, with its kind, its tenant and its WABA.
LEMMA OneMoves ==
    ASSUME TypeOK, TypeOK', KindsInv, NEW p \in Requests, Busy(p),
           \/ work'[p] = Idle
           \/ /\ work'[p].kind = work[p].kind /\ work'[p].tenant = work[p].tenant
              /\ work'[p].waba = work[p].waba /\ work'[p] # Idle
              /\ \/ work[p].step \notin {"mark", "link", "check", "fail"}
                 \/ work'[p].step = "fail"
                 \/ work'[p].step = work[p].step
                 \/ work'[p].step = "link" /\ work[p].kind = "callback"
              /\ KindOf(p)',
           \A q \in Requests \ {p} : work'[q] = work[q]
    PROVE  \A q \in Requests : Moves(q)
<1>1. work[p] \in Request
  BY BusyType, TypeParts DEF Busy
<1>2. work'[p] \in Request \cup {Idle}
  BY DEF TypeOK
<1> QED
  BY <1>1, <1>2 DEF Moves

LEMMA FailsMoves ==
    ASSUME TypeOK, TypeOK', KindsInv, NEW p \in Requests, Busy(p), Fails(p)
    PROVE  \A q \in Requests : Moves(q)
<1>1. CASE To(p, "fail") /\ work[p].kind = "callback"
  <2>1. work'[p] = [work[p] EXCEPT !.step = "fail"]
    BY <1>1 DEF To, TypeOK
  <2>2. work[p] \in Request
    BY BusyType, TypeParts DEF Busy
  <2>3. /\ work'[p].step = "fail" /\ work'[p].kind = work[p].kind
        /\ work'[p].tenant = work[p].tenant /\ work'[p].waba = work[p].waba
    BY <2>1, <2>2 DEF Request
  <2>4. KindOf(p)' /\ work'[p] # Idle
    BY <1>1, <2>3 DEF KindOf, Idle
  <2> QED
    BY <1>1, <2>3, <2>4, OneMoves DEF To, TypeOK
<1>2. CASE Ends(p)
  BY <1>2, OneMoves DEF Ends, TypeOK
<1> QED
  BY <1>1, <1>2 DEF Fails

\* The steps of a callback, a sync and a disconnect that are no lookup.
LEMMA GoingMoves ==
    ASSUME TypeOK, TypeOK', KindsInv, NEW p \in Requests,
           \/ Marks(p) \/ UpsertWrites(p) \/ SyncWrites(p) \/ ListsPhones(p) \/ SavesPhone(p)
           \/ Finalizes(p) \/ SwitchesOn(p) \/ CompletesAccount(p) \/ TurnsOff(p)
    PROVE  \A q \in Requests : Moves(q)
<1>1. Busy(p) /\ work[p] \in Request /\ KindOf(p)
  BY BusyType, TypeParts DEF Busy, Is, Marks, UpsertWrites, SyncWrites, ListsPhones,
     SavesPhone, Finalizes, SwitchesOn, CompletesAccount, TurnsOff, KindsInv
<1> DEFINE Goes(from, to) ==
      /\ work[p].step = from /\ work'[p].step = to
      /\ work'[p].kind = work[p].kind /\ work'[p].tenant = work[p].tenant
      /\ work'[p].waba = work[p].waba
      /\ \A q \in Requests \ {p} : work'[q] = work[q]
<1>2. CASE Marks(p)
  <2>1. Goes("mark", "link")
    BY <1>1, <1>2 DEF Marks, To, Is, TypeOK, Request
  <2>2. work[p].kind = "callback"
    BY <1>1, <2>1 DEF KindOf
  <2>3. KindOf(p)' /\ work'[p] # Idle
    BY <2>1, <2>2 DEF KindOf, Idle
  <2> QED
    BY <1>1, <2>1, <2>2, <2>3, OneMoves
<1>3. CASE UpsertWrites(p)
  <2>1. Goes("config", "check")
    BY <1>1, <1>3 DEF UpsertWrites, Is, TypeOK, Request
  <2>2. KindOf(p)' /\ work'[p] # Idle
    BY <1>1, <2>1 DEF KindOf, Idle
  <2> QED
    BY <1>1, <2>1, <2>2, OneMoves
<1>4. CASE SyncWrites(p)
  <2>1. Goes("account", "list")
    BY <1>1, <1>4 DEF SyncWrites, Is, TypeOK, Request
  <2>2. KindOf(p)' /\ work'[p] # Idle
    BY <1>1, <2>1 DEF KindOf, Idle, Busy, Is
  <2> QED
    BY <1>1, <2>1, <2>2, OneMoves
<1>5. CASE ListsPhones(p)
  <2>1. Goes("list", "phones")
    <3>1. PICK l \in ListPhoneNumbers :
             work' = [work EXCEPT ![p].step = "phones", ![p].rows = l.found, ![p].good = l.good,
                          ![p].saw = work[p].kind = "phone" => work[p].phone \in l.found]
      BY <1>5 DEF ListsPhones
    <3>2. work' = [work EXCEPT ![p] = [work[p] EXCEPT !.step = "phones", !.rows = l.found,
               !.good = l.good, !.saw = work[p].kind = "phone" => work[p].phone \in l.found]]
      BY <1>1, <3>1 DEF TypeOK
    <3>3. work[p].step = "list" /\ work \in [Requests -> Request \cup {Idle}]
      BY <1>5 DEF ListsPhones, Is, TypeOK
    <3> QED
      BY <1>1, <3>2, <3>3 DEF Request
  <2>2. KindOf(p)' /\ work'[p] # Idle
    BY <1>1, <2>1 DEF KindOf, Idle, Busy, Is
  <2> QED
    BY <1>1, <2>1, <2>2, OneMoves
<1>6. CASE SavesPhone(p)
  <2>1. Goes("phones", "phones")
    BY <1>1, <1>6 DEF SavesPhone, Is, TypeOK, Request
  <2>2. KindOf(p)' /\ work'[p] # Idle
    BY <1>1, <2>1 DEF KindOf, Idle, Busy, Is
  <2> QED
    BY <1>1, <2>1, <2>2, OneMoves
<1>7. CASE Finalizes(p)
  <2>1. CASE Ends(p)
    BY <1>1, <2>1, OneMoves DEF Ends, TypeOK
  <2>2. CASE Goes("phones", "unusable") \/ Goes("phones", "switch")
    <3>1. KindOf(p)' /\ work'[p] # Idle
      BY <1>1, <2>2 DEF KindOf, Idle, Busy, Is
    <3> QED
      BY <1>1, <2>2, <3>1, OneMoves
  <2> QED
    BY <1>1, <1>7, <2>1, <2>2 DEF Finalizes, To, Is, TypeOK, Request
<1>8. CASE SwitchesOn(p)
  <2>1. Goes("switch", "complete")
    BY <1>1, <1>8 DEF SwitchesOn, To, Is, TypeOK, Request
  <2>2. KindOf(p)' /\ work'[p] # Idle
    BY <1>1, <2>1 DEF KindOf, Idle, Busy, Is
  <2> QED
    BY <1>1, <2>1, <2>2, OneMoves
<1>9. CASE CompletesAccount(p)
  <2>1. Goes("complete", "end")
    BY <1>1, <1>9 DEF CompletesAccount, To, Is, TypeOK, Request
  <2>2. KindOf(p)' /\ work'[p] # Idle
    BY <1>1, <2>1 DEF KindOf, Idle, Busy, Is
  <2> QED
    BY <1>1, <2>1, <2>2, OneMoves
<1>10. CASE TurnsOff(p)
  <2>1. Goes("off", "delete")
    BY <1>1, <1>10 DEF TurnsOff, To, Is, TypeOK, Request
  <2>2. KindOf(p)' /\ work'[p] # Idle
    BY <1>1, <2>1 DEF KindOf, Idle, Busy, Is
  <2> QED
    BY <1>1, <2>1, <2>2, OneMoves
<1> QED
  BY <1>2, <1>3, <1>4, <1>5, <1>6, <1>7, <1>8, <1>9, <1>10

LEMMA EndingMoves ==
    ASSUME TypeOK, TypeOK', KindsInv, NEW p \in Requests,
           Returns(p) \/ MarksUnusable(p) \/ Refused(p) \/ FailsSession(p) \/ Crash(p)
    PROVE  \A q \in Requests : Moves(q)
<1>1. Busy(p)
  BY DEF Busy, Is, Returns, MarksUnusable, Refused, FailsSession, Crash
<1>2. CASE Ends(p)
  BY <1>1, <1>2, OneMoves DEF Ends, TypeOK
<1> QED
  BY <1>1, <1>2, FailsMoves DEF Returns, MarksUnusable, Refused, FailsSession, Crash

\* Forgetting the id of a row moves nobody.
LEMMA ForgetMoves ==
    ASSUME TypeOK, NEW row, NEW Knows(_), NEW q \in Requests
    PROVE  LET w == Forget(row, Knows)[q] IN
           \/ w = work[q]
           \/ /\ w \in Request /\ work[q] \in Request
              /\ w.kind = work[q].kind /\ w.tenant = work[q].tenant
              /\ w.waba = work[q].waba /\ w.step = work[q].step
<1>1. \/ Forget(row, Knows)[q] = work[q]
      \/ /\ Busy(q)
         /\ Forget(row, Knows)[q] = [work[q] EXCEPT !.ids = @ \ {row}]
  BY DEF Forget
<1>2. Busy(q) => work[q] \in Request
  BY BusyType, TypeParts DEF Busy
<1> QED
  BY <1>1, <1>2 DEF Request

-----------------------------------------------------------------------------
(* The configs that the steps write. *)

\* Turning a config off names no WABA anew.
LEMMA OffOwners ==
    ASSUME TypeOK, NEW t \in Tenants, UpdateIsActive(t), NEW w
    PROVE  GetByWABAID(w)' \subseteq GetByWABAID(w)
<1>1. CASE HasConfig(t)
  <2>1. config[t] \in Config
    BY <1>1 DEF HasConfig, TypeOK
  <2>2. config' = [config EXCEPT ![t] = [config[t] EXCEPT !.active = FALSE]]
    BY <1>1 DEF UpdateIsActive
  <2>3. [config[t] EXCEPT !.active = FALSE].waba = config[t].waba
    BY <2>1 DEF Config
  <2>4. \A u \in Tenants \ {t} : config'[u] = config[u]
    BY <2>2 DEF TypeOK
  <2>5. config'[t].waba = config[t].waba
    BY <2>2, <2>3 DEF TypeOK
  <2> QED
    BY <1>1, <2>4, <2>5 DEF GetByWABAID, HasConfig
<1>2. CASE ~HasConfig(t)
  BY <1>2 DEF UpdateIsActive, GetByWABAID, HasConfig
<1> QED
  BY <1>1, <1>2

OwnersStep == OwnersInv' /\ KindsInv'

\* Steps that write no config and check nothing.
LEMMA MovesOnly ==
    ASSUME OwnersInv, KindsInv, \A q \in Requests : Moves(q),
           slipped \subseteq slipped',
           \A w \in Wabas \ slipped' : \A t \in GetByWABAID(w)' :
               \/ t \in GetByWABAID(w)
               \/ \E p \in Requests : Between(p) /\ Waba(p) = w /\ Tenant(p) = t
    PROVE  OwnersStep
<1>1. \A q \in Requests : Keeps(q) /\ KindOf(q)'
  BY MovesKeeps DEF KindsInv
<1> QED
  BY <1>1, OwnersKept DEF OwnersStep, KindsInv

LEMMA QuietKept ==
    ASSUME TypeOK, TypeOK', OwnersInv, KindsInv, NEW p \in Requests,
           \/ Marks(p) \/ SyncWrites(p) \/ ListsPhones(p) \/ SavesPhone(p)
           \/ Finalizes(p) \/ CompletesAccount(p)
           \/ Returns(p) \/ MarksUnusable(p) \/ Refused(p) \/ FailsSession(p) \/ Crash(p)
    PROVE  OwnersStep
<1>1. \A q \in Requests : Moves(q)
  BY GoingMoves, EndingMoves
<1>2. config' = config /\ slipped' = slipped
  BY DEF Marks, SyncWrites, ListsPhones, SavesPhone, Finalizes, CompletesAccount, Returns,
     MarksUnusable, Refused, FailsSession, Crash
<1>3. \A w : GetByWABAID(w)' = GetByWABAID(w)
  BY <1>2 DEF GetByWABAID, HasConfig
<1> QED
  BY <1>1, <1>2, <1>3, MovesOnly

LEMMA UpsertKept ==
    ASSUME TypeOK, TypeOK', OwnersInv, KindsInv, NEW p \in Requests, UpsertWrites(p)
    PROVE  OwnersStep
<1> DEFINE c == [active |-> TRUE, waba |-> Waba(p), phone |-> work[p].phone]
<1>1. /\ Busy(p) /\ work[p] \in Request /\ Tenant(p) \in Tenants
      /\ work[p].step = "config" /\ work[p].kind = "callback"
  BY BusyType, TypeParts DEF UpsertWrites, Busy, Is, KindsInv, KindOf
<1>2. Between(p)
  BY <1>1 DEF Between, Checked, Is
<1>3. config' = [config EXCEPT ![Tenant(p)] = c] /\ slipped' = slipped
  BY DEF UpsertWrites, UpdateProviderConfig, CreateProviderConfig
<1>4. \A w : \A u \in GetByWABAID(w)' :
          u \in GetByWABAID(w) \/ (u = Tenant(p) /\ c.waba = w)
  BY <1>1, <1>3 DEF GetByWABAID, HasConfig, TypeOK
<1> QED
  BY <1>2, <1>3, <1>4, GoingMoves, MovesOnly

LEMMA SwitchesKept ==
    ASSUME TypeOK, TypeOK', OwnersInv, KindsInv, NEW p \in Requests, SwitchesOn(p)
    PROVE  OwnersStep
<1> DEFINE c == [active |-> TRUE, waba |-> Waba(p), phone |-> work[p].phone]
<1>1. /\ Busy(p) /\ work[p] \in Request /\ Tenant(p) \in Tenants /\ work[p].step = "switch"
  BY BusyType, TypeParts DEF SwitchesOn, Busy, Is
<1>2. Between(p) \/ work[p].kind = "phone"
  BY <1>1 DEF Between, Checked, Is, KindsInv, KindOf, Request
<1>3. /\ config' = [config EXCEPT ![Tenant(p)] = c]
      /\ slipped \subseteq slipped' /\ (work[p].kind = "phone" => Waba(p) \in slipped')
  BY DEF SwitchesOn, UpdateProviderConfig
<1>4. \A w : \A u \in GetByWABAID(w)' :
          u \in GetByWABAID(w) \/ (u = Tenant(p) /\ c.waba = w)
  BY <1>1, <1>3 DEF GetByWABAID, HasConfig, TypeOK
<1> QED
  BY <1>2, <1>3, <1>4, GoingMoves, MovesOnly

LEMMA TurnsOffKept ==
    ASSUME TypeOK, TypeOK', OwnersInv, KindsInv, NEW p \in Requests, TurnsOff(p)
    PROVE  OwnersStep
<1>1. Tenant(p) \in Tenants /\ slipped' = slipped
  BY BusyType, TypeParts DEF TurnsOff, Is
<1>2. UpdateIsActive(Tenant(p)) \/ config' = config
  BY DEF TurnsOff
<1>3. \A w : GetByWABAID(w)' \subseteq GetByWABAID(w)
  BY <1>1, <1>2, OffOwners DEF GetByWABAID, HasConfig
<1> QED
  BY <1>1, <1>3, GoingMoves, MovesOnly

LEMMA DeletesKept ==
    ASSUME TypeOK, TypeOK', OwnersInv, KindsInv, NEW p \in Requests, DeletesAccount(p)
    PROVE  OwnersStep
<1>1. Busy(p) /\ work[p].step = "delete" /\ config' = config /\ slipped' = slipped
  BY DEF DeletesAccount, Busy, Is
<1>2. \A q \in Requests : Moves(q)
  <2>1. CASE Ends(p)
    BY <1>1, <2>1, OneMoves DEF Ends, TypeOK
  <2> DEFINE Same(q) == Tenant(q) = Tenant(p) /\ Waba(q) = Waba(p)
  <2>2. ASSUME work' = [Forget("account", Same) EXCEPT ![p] = Idle], NEW q \in Requests
        PROVE  Moves(q)
    <3>1. work'[p] = Idle /\ \A r \in Requests \ {p} : work'[r] = Forget("account", Same)[r]
      BY <2>2 DEF Forget
    <3>2. LET w == Forget("account", Same)[q] IN
          \/ w = work[q]
          \/ /\ w \in Request /\ work[q] \in Request
             /\ w.kind = work[q].kind /\ w.tenant = work[q].tenant
             /\ w.waba = work[q].waba /\ w.step = work[q].step
      BY ForgetMoves
    <3> HIDE DEF Same
    <3>3. KindOf(q)
      BY DEF KindsInv
    <3> QED
      BY <3>1, <3>2, <3>3 DEF Moves, KindOf, Busy, Is
  <2> QED
    BY <2>1, <2>2 DEF DeletesAccount
<1>3. \A w : GetByWABAID(w)' = GetByWABAID(w)
  BY <1>1 DEF GetByWABAID, HasConfig
<1> QED
  BY <1>1, <1>2, <1>3, MovesOnly

\* A request that begins has looked for nothing.
LEMMA StartsKept ==
    ASSUME TypeOK, OwnersInv, KindsInv, NEW p \in Requests,
           NEW k, NEW t, NEW w, NEW s, NEW ids, NEW f, Starts(p, k, t, w, s, ids, f),
           \/ k = "callback" /\ s = "mark"
           \/ k = "sync" /\ s = "check"
           \/ k = "phone" /\ s = "list"
           \/ k = "disconnect" /\ s = "off"
    PROVE  OwnersStep
<1>1. /\ work'[p].kind = k /\ work'[p].step = s
      /\ \A q \in Requests \ {p} : work'[q] = work[q]
  BY DEF Starts, TypeOK
<1>2. \A q \in Requests : Keeps(q) /\ KindOf(q)'
  <2>1. Keeps(p) /\ KindOf(p)'
    BY <1>1 DEF Keeps, KindOf, Between, Checked, Is
  <2>2. ASSUME NEW q \in Requests \ {p}
        PROVE  Keeps(q) /\ KindOf(q)'
    BY <1>1 DEF Keeps, KindsInv, KindOf, Between, Checked, Busy, Is, Tenant, Waba
  <2> QED
    BY <2>1, <2>2
<1>3. config' = config /\ slipped' = slipped
  BY DEF Starts
<1>4. \A v : GetByWABAID(v)' = GetByWABAID(v)
  BY <1>3 DEF GetByWABAID, HasConfig
<1> QED
  BY <1>2, <1>3, <1>4, OwnersKept DEF OwnersStep, KindsInv

LEMMA BeginsKept ==
    ASSUME TypeOK, OwnersInv, KindsInv, NEW p \in Requests, NEW t \in Tenants, Begins(p, t)
    PROVE  OwnersStep
BY StartsKept DEF Begins, CompleteOnboardingCallback, SyncWhatsAppAccount,
   SyncWhatsAppPhoneNumber, DisconnectWhatsAppAccount

\* The provider API lets the WABAs slip that it writes.
LEMMA ProviderKept ==
    ASSUME TypeOK, TypeOK', OwnersInv, KindsInv, NEW t \in Tenants,
           CreatesProvider(t) \/ UpdatesProvider(t) \/ DeletesProvider(t)
    PROVE  OwnersStep
<1>1. \A q \in Requests : Moves(q)
  <2>1. CASE DeletesProvider(t)
    <3> DEFINE Same(q) == Tenant(q) = t
    <3>1. SUFFICES ASSUME NEW q \in Requests PROVE Moves(q)
      OBVIOUS
    <3>2. work' = Forget("config", Same)
      BY <2>1 DEF DeletesProvider
    <3>3. LET w == Forget("config", Same)[q] IN
          \/ w = work[q]
          \/ /\ w \in Request /\ work[q] \in Request
             /\ w.kind = work[q].kind /\ w.tenant = work[q].tenant
             /\ w.waba = work[q].waba /\ w.step = work[q].step
      BY ForgetMoves
    <3> HIDE DEF Same
    <3>4. KindOf(q)
      BY DEF KindsInv
    <3> QED
      BY <3>2, <3>3, <3>4 DEF Moves, KindOf, Busy, Is
  <2>2. CASE work' = work
    BY <2>2 DEF Moves
  <2> QED
    BY <2>1, <2>2 DEF CreatesProvider, UpdatesProvider
<1>2. CASE DeletesProvider(t)
  <2>1. config' = [config EXCEPT ![t] = NoRow] /\ slipped' = slipped
    BY <1>2 DEF DeletesProvider, DeleteProviderConfig
  <2>2. \A w : GetByWABAID(w)' \subseteq GetByWABAID(w)
    BY <2>1 DEF GetByWABAID, HasConfig, TypeOK
  <2> QED
    BY <1>1, <2>1, <2>2, MovesOnly
<1>3. CASE CreatesProvider(t) \/ UpdatesProvider(t)
  <2>1. PICK c \in Config :
           /\ config' = [config EXCEPT ![t] = c]
           /\ slipped' = slipped \cup ({c.waba} \ {NoId})
    <3>1. CASE CreatesProvider(t)
      BY <3>1 DEF CreatesProvider, CreateProviderConfig
    <3>2. CASE UpdatesProvider(t)
      BY <3>2 DEF UpdatesProvider, UpdateProviderConfig
    <3> QED
      BY <1>3, <3>1, <3>2
  <2>2. \A w : \A u \in GetByWABAID(w)' : u \in GetByWABAID(w) \/ c.waba = w
    BY <2>1 DEF GetByWABAID, HasConfig, TypeOK
  <2>3. \A w \in Wabas \ slipped' : GetByWABAID(w)' \subseteq GetByWABAID(w)
    BY <2>1, <2>2, OnboardingAssumption
  <2> QED
    BY <1>1, <2>1, <2>3, MovesOnly
<1> QED
  BY <1>2, <1>3

\* A lookup that finds the WABA free puts p between: if another tenant's request is
\* there as well, the WABA slips, and otherwise all owners are p's tenant.
LEMMA ChecksKept ==
    ASSUME TypeOK, OwnersInv, KindsInv, NEW p \in Requests, Busy(p),
           NotLinked(Tenant(p), GetByWABAID(Waba(p))), Checks(p), config' = config,
           \A q \in Requests \ {p} : work'[q] = work[q],
           Tenant(p)' = Tenant(p), Waba(p)' = Waba(p), KindOf(p)'
    PROVE  OwnersStep
<1>1. slipped \subseteq slipped' /\ \A w : GetByWABAID(w)' = GetByWABAID(w)
  BY DEF Checks, GetByWABAID, HasConfig
<1>2. KindsInv'
  BY DEF KindsInv, KindOf, Busy, Is
<1>3. \A q \in Requests \ {p} :
          /\ Between(q)' = Between(q) /\ Tenant(q)' = Tenant(q) /\ Waba(q)' = Waba(q)
  BY DEF Between, Checked, Busy, Is, Tenant, Waba
<1>4. ASSUME NEW w \in Wabas \ slipped'
      PROVE  /\ \A t, u \in GetByWABAID(w)' : t = u
             /\ \A q \in Requests : Between(q)' /\ Waba(q)' = w =>
                    \A t \in GetByWABAID(w)' : t = Tenant(q)'
             /\ \A q, r \in Requests :
                    Between(q)' /\ Between(r)' /\ Waba(q)' = w /\ Waba(r)' = w =>
                        Tenant(q)' = Tenant(r)'
  <2>1. w \in Wabas \ slipped
    BY <1>1
  <2>2. /\ \A t, u \in GetByWABAID(w) : t = u
        /\ \A q \in Requests : Between(q) /\ Waba(q) = w =>
               \A t \in GetByWABAID(w) : t = Tenant(q)
        /\ \A q, r \in Requests : Between(q) /\ Between(r) /\ Waba(q) = w /\ Waba(r) = w =>
               Tenant(q) = Tenant(r)
    BY <2>1 DEF OwnersInv
  <2>3. Waba(p) = w => \A t \in GetByWABAID(w) : t = Tenant(p)
    BY <2>2 DEF NotLinked
  <2>4. ASSUME NEW q \in Requests \ {p}, Between(q), Waba(q) = w, Waba(p) = w
        PROVE  Tenant(q) = Tenant(p)
    <3>1. SUFFICES ASSUME Tenant(q) # Tenant(p) PROVE FALSE
      OBVIOUS
    <3>2. Busy(q) /\ Checked(q)
      BY <2>4 DEF Between
    <3>3. w \in slipped'
      BY <2>4, <3>1, <3>2 DEF Checks
    <3> QED
      BY <1>4, <3>3
  <2> HIDE DEF GetByWABAID, Between, Tenant, Waba
  <2>5. \A t, u \in GetByWABAID(w)' : t = u
    BY <1>1, <2>2
  <2>6. \A q \in Requests : Between(q)' /\ Waba(q)' = w => \A t \in GetByWABAID(w)' : t = Tenant(q)'
    BY <1>1, <1>3, <2>2, <2>3
  <2>7. \A q, r \in Requests : Between(q)' /\ Between(r)' /\ Waba(q)' = w /\ Waba(r)' = w =>
            Tenant(q)' = Tenant(r)'
    BY <1>3, <2>2, <2>4
  <2> QED
    BY <2>5, <2>6, <2>7
<1> QED
  BY <1>2, <1>4 DEF OwnersStep, OwnersInv

LEMMA ReadsKept ==
    ASSUME TypeOK, TypeOK', OwnersInv, KindsInv, NEW p \in Requests,
           UpsertReads(p) \/ SyncReads(p)
    PROVE  OwnersStep
<1>1. Busy(p) /\ work[p] \in Request /\ KindOf(p)
  BY BusyType, TypeParts DEF Busy, Is, UpsertReads, SyncReads, KindsInv
<1>2. /\ work'[p].kind = work[p].kind /\ work'[p].tenant = work[p].tenant
      /\ work'[p].waba = work[p].waba
      /\ \/ work[p].step = "link" /\ work'[p].step = "config"
         \/ work[p].step = "check" /\ work'[p].step = "account"
      /\ \A q \in Requests \ {p} : work'[q] = work[q]
  <2>1. CASE UpsertReads(p)
    <3>1. PICK b, i, f : work' = [work EXCEPT ![p].step = "config", ![p].saw = b,
                                              ![p].ids = i, ![p].phone = f]
      BY <2>1 DEF UpsertReads, FindsConfig
    <3>2. /\ work'[p].kind = work[p].kind /\ work'[p].tenant = work[p].tenant
          /\ work'[p].waba = work[p].waba /\ work'[p].step = "config"
      BY <1>1, <3>1, TypeParts DEF WorkType, Request
    <3>3. \A q \in Requests \ {p} : work'[q] = work[q]
      BY <3>1, TypeParts DEF WorkType
    <3> QED
      BY <2>1, <3>2, <3>3 DEF UpsertReads, Is
  <2>2. CASE SyncReads(p)
    <3>1. PICK b, i : work' = [work EXCEPT ![p].step = "account", ![p].saw = b, ![p].ids = i]
      BY <2>2 DEF SyncReads
    <3>2. /\ work'[p].kind = work[p].kind /\ work'[p].tenant = work[p].tenant
          /\ work'[p].waba = work[p].waba /\ work'[p].step = "account"
      BY <1>1, <3>1, TypeParts DEF WorkType, Request
    <3>3. \A q \in Requests \ {p} : work'[q] = work[q]
      BY <3>1, TypeParts DEF WorkType
    <3> QED
      BY <2>2, <3>2, <3>3 DEF SyncReads, Is
  <2> QED
    BY <2>1, <2>2
<1>3. Tenant(p)' = Tenant(p) /\ Waba(p)' = Waba(p) /\ KindOf(p)'
  BY <1>1, <1>2 DEF Tenant, Waba, Busy, Is, KindOf
<1>4. NotLinked(Tenant(p), GetByWABAID(Waba(p))) /\ Checks(p) /\ config' = config
  BY DEF UpsertReads, FindsConfig, SyncReads
<1> QED
  BY <1>1, <1>2, <1>3, <1>4, ChecksKept

OneTenantInv == TypeOK /\ OwnersInv /\ KindsInv

LEMMA OneTenantInit == Init => OneTenantInv
<1> SUFFICES ASSUME Init PROVE OneTenantInv
  OBVIOUS
<1>1. \A w : GetByWABAID(w) = {}
  BY DEF Init, GetByWABAID, HasConfig
<1>2. \A p \in Requests : work[p] = Idle /\ ~Busy(p)
  BY DEF Init, Idle, Busy, Is
<1>3. OwnersInv
  BY <1>1, <1>2 DEF OwnersInv, Between
<1>4. KindsInv
  BY <1>2 DEF KindsInv, KindOf, Idle
<1> QED
  BY <1>3, <1>4, InitialType DEF OneTenantInv

LEMMA OneTenantStep ==
    ASSUME OneTenantInv, [Next]_vars
    PROVE  OneTenantInv'
<1>1. TypeOK /\ OwnersInv /\ KindsInv /\ TypeOK'
  BY StepType DEF OneTenantInv
<1>2. CASE UNCHANGED vars \/ \E t \in Tenants : CreatesSession(t)
  <2>1. config' = config /\ work' = work /\ slipped' = slipped
    BY <1>2 DEF vars, CreatesSession
  <2>2. \A w : GetByWABAID(w)' = GetByWABAID(w)
    BY <2>1 DEF GetByWABAID, HasConfig
  <2>3. \A q \in Requests : Moves(q)
    BY <2>1 DEF Moves
  <2> QED
    BY <1>1, <2>1, <2>2, <2>3, MovesOnly DEF OwnersStep, OneTenantInv
<1>3. ASSUME NEW p \in Requests, GoesOn(p) PROVE OwnersStep
  BY <1>1, <1>3, QuietKept, UpsertKept, SwitchesKept, TurnsOffKept, DeletesKept, ReadsKept
     DEF GoesOn
<1>4. ASSUME NEW t \in Tenants,
             \/ CreatesProvider(t) \/ UpdatesProvider(t) \/ DeletesProvider(t)
             \/ \E p \in Requests : Begins(p, t)
      PROVE  OwnersStep
  BY <1>1, <1>4, ProviderKept, BeginsKept
<1> QED
  BY <1>1, <1>2, <1>3, <1>4 DEF Next, OwnersStep, OneTenantInv

LEMMA OneTenantImplied == OneTenantInv => OneTenantPerWaba
<1> SUFFICES ASSUME OneTenantInv, NEW w \in Wabas \ slipped
             PROVE  Cardinality(GetByWABAID(w)) <= 1
  BY DEF OneTenantPerWaba
<1>1. \A t, u \in GetByWABAID(w) : t = u
  BY DEF OneTenantInv, OwnersInv
<1>2. CASE GetByWABAID(w) = {}
  BY <1>2, FS_EmptySet
<1>3. CASE GetByWABAID(w) # {}
  <2>1. PICK t : t \in GetByWABAID(w)
    BY <1>3
  <2>2. GetByWABAID(w) = {t}
    BY <1>1, <2>1
  <2>3. Cardinality({t}) = 1
    BY FS_Singleton
  <2> HIDE DEF GetByWABAID
  <2>4. Cardinality(GetByWABAID(w)) = 1
    BY <2>2, <2>3
  <2> QED
    BY <2>4, SMT
<1> QED
  BY <1>2, <1>3

\* A WABA that no request wrote unchecked, or checked while another tenant's had
\* checked it, is in the config of one tenant at most.
THEOREM OneTenant == Spec => []OneTenantPerWaba
<1>1. OneTenantInv /\ [Next]_vars => OneTenantInv'
  BY OneTenantStep
<1> QED
  BY OneTenantInit, <1>1, OneTenantImplied, PTL DEF Spec
-----------------------------------------------------------------------------
(* What a request that nobody disturbed knows of its tenant's rows. *)

\* p has found its tenant's config active, or has made it so.
Configured(p) ==
    \/ work[p].step \in {"check", "account", "list", "phones", "switch", "complete", "end"}
    \/ Is(p, "config") /\ work[p].saw

\* What p read or wrote is still there.
Knows(p) ==
    LET t == Tenant(p) IN
    /\ work[p].kind = "callback" => session[t] \notin {NoRow, "completed"}
    /\ Configured(p) => HasConfig(t) /\ config[t].active
    /\ Is(p, "phones") => \A f \in work[p].good \ work[p].rows : HasPhone(t, f)
    /\ work[p].step \in {"switch", "complete", "end"} =>
           work[p].phone \in work[p].good /\ HasPhone(t, work[p].phone)
    /\ work[p].step \in {"complete", "end"} =>
           config[t].waba = Waba(p) /\ config[t].phone = work[p].phone
    /\ Is(p, "end") => account[t][Waba(p)] = "completed"
KnowsInv == \A p \in Requests \ disturbed : Busy(p) => Knows(p)

\* Only a callback fails in a step of its own.
FailInv == \A p \in Requests : Is(p, "fail") => work[p].kind = "callback"

\* Whoever the step leaves undisturbed finds its request and its tenant's rows as
\* they were; a session that was not there is none that it read.
Apart(q) ==
    q \notin disturbed' /\ Busy(q)' =>
        /\ q \notin disturbed /\ work'[q] = work[q]
        /\ config'[Tenant(q)] = config[Tenant(q)]
        /\ account'[Tenant(q)] = account[Tenant(q)]
        /\ phone'[Tenant(q)] = phone[Tenant(q)]
        /\ session'[Tenant(q)] = session[Tenant(q)] \/ session[Tenant(q)] = NoRow

LEMMA ApartKnows ==
    ASSUME TypeOK, KnowsInv, NEW q \in Requests \ disturbed', Busy(q)', Apart(q)
    PROVE  Knows(q)'
<1>1. /\ q \notin disturbed /\ work'[q] = work[q]
      /\ config'[Tenant(q)] = config[Tenant(q)]
      /\ account'[Tenant(q)] = account[Tenant(q)]
      /\ phone'[Tenant(q)] = phone[Tenant(q)]
      /\ session'[Tenant(q)] = session[Tenant(q)] \/ session[Tenant(q)] = NoRow
  BY DEF Apart
<1>2. Busy(q) /\ Tenant(q)' = Tenant(q) /\ Waba(q)' = Waba(q)
  BY <1>1 DEF Busy, Is, Tenant, Waba
<1>3. Knows(q)
  BY <1>1, <1>2 DEF KnowsInv
<1>4. Configured(q)' = Configured(q)
  BY <1>1 DEF Configured, Is
<1> QED
  BY <1>1, <1>2, <1>3, <1>4 DEF Knows, Is, HasConfig, HasPhone

\* p writes rows of t, and of no other tenant.
LEMMA WritesApart ==
    ASSUME TypeOK, NEW t, NEW p, Writes(t, p), NEW q \in Requests, q # p,
           work'[q] = work[q] \/ Tenant(q) = t,
           \A u \in Tenants \ {t} :
               /\ config'[u] = config[u] /\ account'[u] = account[u]
               /\ phone'[u] = phone[u] /\ session'[u] = session[u]
    PROVE  Apart(q)
<1> SUFFICES ASSUME q \notin disturbed', Busy(q)' PROVE Apart(q)
  BY DEF Apart
<1>1. q \notin disturbed /\ Tenant(q) # t
  BY DEF Writes
<1>2. Busy(q)
  BY <1>1 DEF Busy, Is
<1>3. Tenant(q) \in Tenants
  BY <1>2, BusyType, TypeParts DEF Busy
<1> QED
  BY <1>1, <1>3 DEF Apart

\* A step that writes no row.
LEMMA ReadsApart ==
    ASSUME NEW p, Leaves \/ disturbed' = disturbed \/ disturbed' = disturbed \ {p},
           NEW q \in Requests, q # p, work'[q] = work[q],
           UNCHANGED <<config, account, phone, session>>
    PROVE  Apart(q)
BY DEF Leaves, Apart

KnowsStep == KnowsInv' /\ FailInv'

\* The others know what they knew, and p knows what it needs for its next step.
LEMMA OneKnows ==
    ASSUME TypeOK, KnowsInv, FailInv, NEW p \in Requests,
           \A q \in Requests \ {p} : Apart(q),
           \A q \in Requests \ {p} : Is(q, "fail")' => Is(q, "fail") /\ work'[q].kind = work[q].kind,
           Is(p, "fail")' => work'[p].kind = "callback",
           p \notin disturbed' /\ Busy(p)' => Knows(p)'
    PROVE  KnowsStep
<1>1. KnowsInv'
  BY ApartKnows DEF KnowsInv
<1>2. FailInv'
  BY DEF FailInv
<1> QED
  BY <1>1, <1>2 DEF KnowsStep

\* p's request goes on as r, or ends.
LEMMA WriterKnows ==
    ASSUME TypeOK, KnowsInv, FailInv, NEW p \in Requests, Busy(p), Writes(Tenant(p), p),
           NEW r, work' = [work EXCEPT ![p] = r], r.step = "fail" => r.kind = "callback",
           \A u \in Tenants \ {Tenant(p)} :
               /\ config'[u] = config[u] /\ account'[u] = account[u]
               /\ phone'[u] = phone[u] /\ session'[u] = session[u],
           p \notin disturbed /\ Busy(p)' => Knows(p)'
    PROVE  KnowsStep
<1>1. \A q \in Requests \ {p} : work'[q] = work[q]
  BY DEF TypeOK
<1>2. work'[p] = r
  BY DEF TypeOK
<1>3. \A q \in Requests \ {p} : Apart(q)
  BY <1>1, WritesApart
<1>4. p \notin disturbed' /\ Busy(p)' => p \notin disturbed
  BY DEF Writes
<1> QED
  BY <1>1, <1>2, <1>3, <1>4, OneKnows DEF Is

LEMMA ReaderKnows ==
    ASSUME TypeOK, KnowsInv, FailInv, NEW p \in Requests,
           Leaves \/ disturbed' = disturbed,
           UNCHANGED <<config, account, phone, session>>,
           NEW r, work' = [work EXCEPT ![p] = r], r.step = "fail" => r.kind = "callback",
           p \notin disturbed /\ Busy(p)' => Knows(p)'
    PROVE  KnowsStep
<1>1. \A q \in Requests \ {p} : work'[q] = work[q]
  BY DEF TypeOK
<1>2. work'[p] = r
  BY DEF TypeOK
<1>3. \A q \in Requests \ {p} : Apart(q)
  BY <1>1, ReadsApart
<1>4. p \notin disturbed' /\ Busy(p)' => p \notin disturbed
  BY DEF Leaves
<1> QED
  BY <1>1, <1>2, <1>3, <1>4, OneKnows DEF Is

\* What a request is about, before and after p's step.
LEMMA GoesOnAs ==
    ASSUME TypeOK, NEW p \in Requests, Busy(p), NEW r \in Request,
           work' = [work EXCEPT ![p] = r],
           r.tenant = work[p].tenant, r.waba = work[p].waba
    PROVE  /\ work'[p] = r /\ Busy(p)'
           /\ Tenant(p)' = Tenant(p) /\ Waba(p)' = Waba(p)
           /\ Tenant(p) \in Tenants /\ Waba(p) \in Wabas
<1>1. work'[p] = r
  BY DEF TypeOK
<1>2. r.step # "idle"
  BY DEF Request
<1> QED
  BY <1>1, <1>2, BusyType, TypeParts DEF Busy, Is, Tenant, Waba

LEMMA StartsKnows ==
    ASSUME TypeOK, KnowsInv, FailInv, NEW p \in Requests,
           NEW k, NEW t \in Tenants, NEW w \in Wabas, NEW s, NEW ids, NEW f,
           Starts(p, k, t, w, s, ids, f),
           \/ k = "callback" /\ s = "mark" /\ session[t] \notin {NoRow, "completed"}
           \/ k = "sync" /\ s = "check" /\ HasConfig(t) /\ config[t].active
           \/ k = "phone" /\ s = "list" /\ HasConfig(t) /\ config[t].active
           \/ k = "disconnect" /\ s = "off"
    PROVE  KnowsStep
<1> DEFINE r == [kind |-> k, tenant |-> t, waba |-> w, step |-> s, ids |-> ids,
                 saw |-> FALSE, phone |-> f, rows |-> {}, good |-> {}]
<1>1. /\ work' = [work EXCEPT ![p] = r] /\ disturbed' = disturbed \ {p}
      /\ UNCHANGED <<config, account, phone, session>>
  BY DEF Starts
<1>2. work'[p] = r /\ \A q \in Requests \ {p} : work'[q] = work[q]
  BY <1>1 DEF TypeOK
<1>3. \A q \in Requests \ {p} : Apart(q)
  BY <1>1, <1>2, ReadsApart
<1>4. Tenant(p)' = t
  BY <1>2 DEF Tenant, Busy, Is
<1>5. Knows(p)'
  BY <1>1, <1>2, <1>4 DEF Knows, Configured, Is, HasConfig
<1> QED
  BY <1>2, <1>3, <1>5, OneKnows DEF Is

LEMMA BeginsKnows ==
    ASSUME TypeOK, KnowsInv, FailInv, NEW p \in Requests, NEW t \in Tenants, Begins(p, t)
    PROVE  KnowsStep
BY StartsKnows DEF Begins, CompleteOnboardingCallback, SyncWhatsAppAccount, AccessToken,
   SyncWhatsAppPhoneNumber, DisconnectWhatsAppAccount, HasSession

LEMMA MarksKnows ==
    ASSUME TypeOK, KnowsInv, FailInv, NEW p \in Requests, Marks(p)
    PROVE  KnowsStep
<1>1. Busy(p) /\ work[p] \in Request
  BY BusyType, TypeParts DEF Marks, Busy, Is
<1> DEFINE r == [work[p] EXCEPT !.step = "link"]
<1>2. r \in Request /\ r.tenant = work[p].tenant /\ r.waba = work[p].waba /\ r.step = "link"
  BY <1>1 DEF Request
<1>3. work' = [work EXCEPT ![p] = r]
  BY <1>1 DEF Marks, To, TypeOK
<1> HIDE DEF r
<1>4. work'[p] = r /\ Tenant(p)' = Tenant(p) /\ Tenant(p) \in Tenants
  BY <1>1, <1>2, <1>3, GoesOnAs
<1>5. /\ session' = [session EXCEPT ![Tenant(p)] = "in_progress"]
      /\ UNCHANGED <<config, account, phone>> /\ Writes(Tenant(p), p)
  BY DEF Marks, UpdateSessionStatus
<1>6. session'[Tenant(p)] = "in_progress" /\ "in_progress" # NoRow
      /\ \A u \in Tenants \ {Tenant(p)} : session'[u] = session[u]
  BY <1>4, <1>5, AbsentAssumption DEF TypeOK, Statuses
<1>7. Knows(p)'
  BY <1>2, <1>4, <1>6 DEF Knows, Configured, Is
<1> QED
  BY <1>1, <1>2, <1>3, <1>5, <1>6, <1>7, WriterKnows

LEMMA UpsertReadsKnows ==
    ASSUME TypeOK, KnowsInv, FailInv, NEW p \in Requests, UpsertReads(p)
    PROVE  KnowsStep
<1>1. Busy(p) /\ work[p] \in Request /\ Is(p, "link") /\ Tenant(p) \in Tenants
  BY BusyType, TypeParts DEF UpsertReads, Busy, Is
<1> DEFINE found == HasConfig(Tenant(p)) /\ config[Tenant(p)].active
<1> DEFINE f == IF found THEN config[Tenant(p)].phone ELSE NoId
<1> DEFINE r == [work[p] EXCEPT !.step = "config", !.saw = found,
                     !.ids = IF found THEN {"config"} ELSE {}, !.phone = f]
<1>2. /\ work' = [work EXCEPT ![p] = r] /\ disturbed' = disturbed
      /\ UNCHANGED <<config, account, phone, session>>
  BY <1>1 DEF UpsertReads, FindsConfig, TypeOK
<1>3. found \in BOOLEAN /\ f \in Phones \cup {NoId}
  BY <1>1 DEF TypeOK, HasConfig, Config
<1>4. (found => HasConfig(Tenant(p))) /\ (found => config[Tenant(p)].active)
  OBVIOUS
<1> HIDE DEF found, f
<1>5. /\ r \in Request /\ r.tenant = work[p].tenant /\ r.waba = work[p].waba
      /\ r.step = "config" /\ r.saw = found /\ r.kind = work[p].kind
  BY <1>1, <1>3 DEF Request
<1> HIDE DEF r
<1>6. work'[p] = r /\ Tenant(p)' = Tenant(p)
  BY <1>1, <1>2, <1>5, GoesOnAs
<1>7. ASSUME p \notin disturbed PROVE Knows(p)'
  <2>1. Knows(p)
    BY <1>1, <1>7 DEF KnowsInv
  <2> QED
    BY <1>2, <1>4, <1>5, <1>6, <2>1 DEF Knows, Configured, Is, HasConfig
<1> QED
  BY <1>2, <1>5, <1>7, ReaderKnows

LEMMA UpsertWritesKnows ==
    ASSUME TypeOK, KnowsInv, FailInv, NEW p \in Requests, UpsertWrites(p)
    PROVE  KnowsStep
<1>1. Busy(p) /\ work[p] \in Request /\ Is(p, "config")
  BY BusyType, TypeParts DEF UpsertWrites, Busy, Is
<1> DEFINE r == [work[p] EXCEPT !.step = "check", !.ids = {"config"},
                                !.saw = FALSE, !.phone = NoId]
<1> DEFINE c == [active |-> TRUE, waba |-> Waba(p), phone |-> work[p].phone]
<1>2. /\ r \in Request /\ r.tenant = work[p].tenant /\ r.waba = work[p].waba
      /\ r.step = "check" /\ r.kind = work[p].kind
  BY <1>1 DEF Request
<1>3. /\ work' = [work EXCEPT ![p] = r] /\ Writes(Tenant(p), p)
      /\ config' = [config EXCEPT ![Tenant(p)] = c]
      /\ UNCHANGED <<account, phone, session>>
  BY <1>1 DEF UpsertWrites, UpdateProviderConfig, CreateProviderConfig, TypeOK
<1> HIDE DEF r
<1>4. work'[p] = r /\ Tenant(p)' = Tenant(p) /\ Tenant(p) \in Tenants /\ Waba(p) \in Wabas
  BY <1>1, <1>2, <1>3, GoesOnAs
<1>5. c \in Config
  BY <1>1, <1>4 DEF Config, Request
<1>6. config'[Tenant(p)] = c /\ c # NoRow /\ c.active
  BY <1>3, <1>4, <1>5, AbsentAssumption DEF TypeOK
<1>7. ASSUME p \notin disturbed PROVE Knows(p)'
  <2>1. Knows(p)
    BY <1>1, <1>7 DEF KnowsInv
  <2> HIDE DEF c
  <2> QED
    BY <1>2, <1>3, <1>4, <1>6, <2>1 DEF Knows, Configured, Is, HasConfig
<1>8. \A u \in Tenants \ {Tenant(p)} : config'[u] = config[u]
  BY <1>3 DEF TypeOK
<1> QED
  BY <1>1, <1>2, <1>3, <1>7, <1>8, WriterKnows

LEMMA SyncReadsKnows ==
    ASSUME TypeOK, KnowsInv, FailInv, NEW p \in Requests, SyncReads(p)
    PROVE  KnowsStep
<1>1. Busy(p) /\ work[p] \in Request /\ Is(p, "check")
  BY BusyType, TypeParts DEF SyncReads, Busy, Is
<1> DEFINE found == account[Tenant(p)][Waba(p)] # NoRow
<1> DEFINE r == [work[p] EXCEPT !.step = "account", !.saw = found,
                                !.ids = IF found THEN @ \cup {"account"} ELSE @]
<1>2. /\ work' = [work EXCEPT ![p] = r] /\ disturbed' = disturbed
      /\ UNCHANGED <<config, account, phone, session>>
  BY <1>1 DEF SyncReads, TypeOK
<1>3. found \in BOOLEAN
  OBVIOUS
<1> HIDE DEF found
<1>4. /\ r \in Request /\ r.tenant = work[p].tenant /\ r.waba = work[p].waba
      /\ r.step = "account" /\ r.kind = work[p].kind
  BY <1>1, <1>3 DEF Request
<1> HIDE DEF r
<1>5. work'[p] = r /\ Tenant(p)' = Tenant(p)
  BY <1>1, <1>2, <1>4, GoesOnAs
<1>6. ASSUME p \notin disturbed PROVE Knows(p)'
  <2>1. Knows(p)
    BY <1>1, <1>6 DEF KnowsInv
  <2> QED
    BY <1>1, <1>2, <1>4, <1>5, <2>1 DEF Knows, Configured, Is, HasConfig
<1> QED
  BY <1>2, <1>4, <1>6, ReaderKnows

LEMMA SyncWritesKnows ==
    ASSUME TypeOK, KnowsInv, FailInv, NEW p \in Requests, SyncWrites(p)
    PROVE  KnowsStep
<1>1. Busy(p) /\ work[p] \in Request /\ Is(p, "account")
  BY BusyType, TypeParts DEF SyncWrites, Busy, Is
<1> DEFINE r == [work[p] EXCEPT !.step = "list", !.saw = FALSE, !.ids = @ \cup {"account"}]
<1>2. /\ r \in Request /\ r.tenant = work[p].tenant /\ r.waba = work[p].waba
      /\ r.step = "list" /\ r.kind = work[p].kind
  BY <1>1 DEF Request
<1>3. /\ work' = [work EXCEPT ![p] = r] /\ Writes(Tenant(p), p)
      /\ account' = [account EXCEPT ![Tenant(p)][Waba(p)] = "in_progress"]
      /\ UNCHANGED <<config, phone, session>>
  BY <1>1 DEF SyncWrites, UpdateAccountSync, CreateAccount, TypeOK
<1> HIDE DEF r
<1>4. work'[p] = r /\ Tenant(p)' = Tenant(p)
  BY <1>1, <1>2, <1>3, GoesOnAs
<1>5. ASSUME p \notin disturbed PROVE Knows(p)'
  <2>1. Knows(p)
    BY <1>1, <1>5 DEF KnowsInv
  <2> QED
    BY <1>1, <1>2, <1>3, <1>4, <2>1 DEF Knows, Configured, Is, HasConfig
<1>6. \A u \in Tenants \ {Tenant(p)} : account'[u] = account[u]
  BY <1>3 DEF TypeOK
<1> QED
  BY <1>1, <1>2, <1>3, <1>5, <1>6, WriterKnows

LEMMA ListsPhonesKnows ==
    ASSUME TypeOK, KnowsInv, FailInv, NEW p \in Requests, ListsPhones(p)
    PROVE  KnowsStep
<1>1. Busy(p) /\ work[p] \in Request /\ Is(p, "list")
  BY BusyType, TypeParts DEF ListsPhones, Busy, Is
<1>2. PICK l \in ListPhoneNumbers :
          work' = [work EXCEPT ![p].step = "phones", ![p].rows = l.found, ![p].good = l.good,
                               ![p].saw = work[p].kind = "phone" => work[p].phone \in l.found]
  BY DEF ListsPhones
<1> DEFINE saw == work[p].kind = "phone" => work[p].phone \in l.found
<1> DEFINE r == [work[p] EXCEPT !.step = "phones", !.rows = l.found, !.good = l.good, !.saw = saw]
<1>3. /\ work' = [work EXCEPT ![p] = r] /\ disturbed' = disturbed
      /\ UNCHANGED <<config, account, phone, session>>
  BY <1>1, <1>2 DEF ListsPhones, TypeOK
<1>4. l.found \in SUBSET Phones /\ l.good \subseteq l.found /\ saw \in BOOLEAN
  BY DEF ListPhoneNumbers
<1> HIDE DEF saw
<1>5. /\ r \in Request /\ r.tenant = work[p].tenant /\ r.waba = work[p].waba
      /\ r.step = "phones" /\ r.kind = work[p].kind /\ r.good \ r.rows = {}
  BY <1>1, <1>4 DEF Request
<1> HIDE DEF r
<1>6. work'[p] = r /\ Tenant(p)' = Tenant(p)
  BY <1>1, <1>3, <1>5, GoesOnAs
<1>7. ASSUME p \notin disturbed PROVE Knows(p)'
  <2>1. Knows(p)
    BY <1>1, <1>7 DEF KnowsInv
  <2>2. work'[p].good \ work'[p].rows = {}
    BY <1>5, <1>6
  <2> QED
    BY <1>1, <1>3, <1>5, <1>6, <2>1, <2>2 DEF Knows, Configured, Is, HasConfig
<1> QED
  BY <1>3, <1>5, <1>7, ReaderKnows

LEMMA SavesPhoneKnows ==
    ASSUME TypeOK, KnowsInv, FailInv, NEW p \in Requests, SavesPhone(p)
    PROVE  KnowsStep
<1>1. Busy(p) /\ work[p] \in Request /\ Is(p, "phones")
  BY BusyType, TypeParts DEF SavesPhone, Busy, Is
<1>2. PICK f \in work[p].rows :
          /\ UpdatePhoneSync(Tenant(p), f) \/ CreatePhone(Tenant(p), f, Waba(p))
          /\ work' = [work EXCEPT ![p].rows = @ \ {f}]
  BY DEF SavesPhone
<1> DEFINE r == [work[p] EXCEPT !.rows = @ \ {f}]
<1>3. /\ work' = [work EXCEPT ![p] = r] /\ Writes(Tenant(p), p)
      /\ UNCHANGED <<config, account, session>>
  BY <1>1, <1>2 DEF SavesPhone, TypeOK
<1>4. /\ r \in Request /\ r.tenant = work[p].tenant /\ r.waba = work[p].waba
      /\ r.step = "phones" /\ r.kind = work[p].kind
      /\ r.rows = work[p].rows \ {f} /\ r.good = work[p].good /\ f \in Phones
  BY <1>1 DEF Request, Is
<1> HIDE DEF r
<1>5. /\ work'[p] = r /\ Tenant(p)' = Tenant(p)
      /\ Tenant(p) \in Tenants /\ Waba(p) \in Wabas /\ Waba(p) # NoRow
  <2>1. /\ work'[p] = r /\ Tenant(p)' = Tenant(p)
        /\ Tenant(p) \in Tenants /\ Waba(p) \in Wabas
    BY <1>1, <1>3, <1>4, GoesOnAs
  <2> QED
    BY <2>1, AbsentAssumption
<1>6. /\ \A u \in Tenants \ {Tenant(p)} : phone'[u] = phone[u]
      /\ phone'[Tenant(p)][f] # NoRow
      /\ \A g \in Phones : phone[Tenant(p)][g] # NoRow => phone'[Tenant(p)][g] # NoRow
  BY <1>2, <1>4, <1>5 DEF UpdatePhoneSync, CreatePhone, HasPhone, TypeOK
<1>7. ASSUME p \notin disturbed PROVE Knows(p)'
  <2>1. Knows(p)
    BY <1>1, <1>7 DEF KnowsInv
  <2>2. \A g \in work'[p].good \ work'[p].rows : phone'[Tenant(p)][g] # NoRow
    <3>1. SUFFICES ASSUME NEW g \in work[p].good, g = f \/ g \notin work[p].rows
                   PROVE  phone'[Tenant(p)][g] # NoRow
      BY <1>4, <1>5
    <3>2. g \in Phones
      BY <1>1, <3>1 DEF Request
    <3> QED
      BY <1>1, <1>6, <2>1, <3>1, <3>2 DEF Knows, HasPhone
  <2> QED
    BY <1>1, <1>3, <1>4, <1>5, <2>1, <2>2 DEF Knows, Configured, Is, HasConfig, HasPhone
<1> QED
  BY <1>1, <1>3, <1>4, <1>6, <1>7, WriterKnows

\* A request that fails knows no more of the rows than that of its session.
LEMMA FailsKnows ==
    ASSUME TypeOK, NEW p \in Requests, Busy(p), Fails(p), p \notin disturbed => Knows(p),
           session' = session
    PROVE  /\ \E r : work' = [work EXCEPT ![p] = r] /\ (r.step = "fail" => r.kind = "callback")
           /\ p \notin disturbed /\ Busy(p)' => Knows(p)'
<1>1. work[p] \in Request
  BY BusyType, TypeParts DEF Busy
<1>2. CASE Ends(p)
  BY <1>2 DEF Ends, Busy, Is, Idle, TypeOK
<1>3. CASE To(p, "fail") /\ work[p].kind = "callback"
  <2> DEFINE r == [work[p] EXCEPT !.step = "fail"]
  <2>1. /\ r \in Request /\ r.tenant = work[p].tenant /\ r.waba = work[p].waba
        /\ r.step = "fail" /\ r.kind = work[p].kind
    BY <1>1 DEF Request
  <2>2. work' = [work EXCEPT ![p] = r]
    BY <1>3 DEF To, TypeOK
  <2> HIDE DEF r
  <2>3. work'[p] = r /\ Tenant(p)' = Tenant(p)
    BY <2>1, <2>2, GoesOnAs
  <2> QED
    BY <1>3, <2>1, <2>2, <2>3 DEF Knows, Configured, Is
<1> QED
  BY <1>2, <1>3 DEF Fails

LEMMA FinalizesKnows ==
    ASSUME TypeOK, KnowsInv, FailInv, NEW p \in Requests, Finalizes(p)
    PROVE  KnowsStep
<1>1. Busy(p) /\ work[p] \in Request /\ Is(p, "phones") /\ work[p].rows = {}
  BY BusyType, TypeParts DEF Finalizes, Busy, Is
<1>2. Leaves /\ UNCHANGED <<config, account, phone, session>>
  BY DEF Finalizes
<1>3. CASE Ends(p)
  <2>1. work' = [work EXCEPT ![p] = Idle] /\ ~Busy(p)' /\ Idle.step # "fail"
    BY <1>3 DEF Ends, Busy, Is, Idle, TypeOK
  <2> QED
    BY <1>2, <2>1, ReaderKnows
<1>4. CASE To(p, "unusable")
  <2> DEFINE r == [work[p] EXCEPT !.step = "unusable"]
  <2>1. /\ r \in Request /\ r.tenant = work[p].tenant /\ r.waba = work[p].waba
        /\ r.step = "unusable" /\ r.kind = work[p].kind
    BY <1>1 DEF Request
  <2>2. work' = [work EXCEPT ![p] = r]
    BY <1>4 DEF To, TypeOK
  <2> HIDE DEF r
  <2>3. work'[p] = r /\ Tenant(p)' = Tenant(p)
    BY <1>1, <2>1, <2>2, GoesOnAs
  <2>4. ASSUME p \notin disturbed PROVE Knows(p)'
    <3>1. Knows(p)
      BY <1>1, <2>4 DEF KnowsInv
    <3> QED
      BY <1>2, <2>1, <2>3, <3>1 DEF Knows, Configured, Is
  <2> QED
    BY <1>2, <2>1, <2>2, <2>4, ReaderKnows
<1>5. ASSUME NEW f \in work[p].good, work' = [work EXCEPT ![p].step = "switch", ![p].phone = f]
      PROVE  KnowsStep
  <2> DEFINE r == [work[p] EXCEPT !.step = "switch", !.phone = f]
  <2>1. /\ r \in Request /\ r.tenant = work[p].tenant /\ r.waba = work[p].waba
        /\ r.step = "switch" /\ r.kind = work[p].kind /\ r.phone = f /\ r.good = work[p].good
    BY <1>1 DEF Request
  <2>2. work' = [work EXCEPT ![p] = r]
    BY <1>5 DEF TypeOK
  <2> HIDE DEF r
  <2>3. work'[p] = r /\ Tenant(p)' = Tenant(p)
    BY <1>1, <2>1, <2>2, GoesOnAs
  <2>4. ASSUME p \notin disturbed PROVE Knows(p)'
    <3>1. Knows(p)
      BY <1>1, <2>4 DEF KnowsInv
    <3>2. HasPhone(Tenant(p), f)
      BY <1>1, <3>1 DEF Knows
    <3> QED
      BY <1>1, <1>2, <2>1, <2>3, <3>1, <3>2 DEF Knows, Configured, Is, HasConfig, HasPhone
  <2> QED
    BY <1>2, <2>1, <2>2, <2>4, ReaderKnows
<1> QED
  BY <1>3, <1>4, <1>5 DEF Finalizes

LEMMA SwitchesOnKnows ==
    ASSUME TypeOK, KnowsInv, FailInv, NEW p \in Requests, SwitchesOn(p)
    PROVE  KnowsStep
<1>1. Busy(p) /\ work[p] \in Request /\ Is(p, "switch")
  BY BusyType, TypeParts DEF SwitchesOn, Busy, Is
<1> DEFINE r == [work[p] EXCEPT !.step = "complete"]
<1> DEFINE c == [active |-> TRUE, waba |-> Waba(p), phone |-> work[p].phone]
<1>2. /\ r \in Request /\ r.tenant = work[p].tenant /\ r.waba = work[p].waba
      /\ r.step = "complete" /\ r.kind = work[p].kind
      /\ r.phone = work[p].phone /\ r.good = work[p].good
  BY <1>1 DEF Request
<1>3. /\ work' = [work EXCEPT ![p] = r] /\ Writes(Tenant(p), p)
      /\ config' = [config EXCEPT ![Tenant(p)] = c]
      /\ UNCHANGED <<account, phone, session>>
  BY <1>1 DEF SwitchesOn, UpdateProviderConfig, To, TypeOK
<1> HIDE DEF r
<1>4. /\ work'[p] = r /\ Tenant(p)' = Tenant(p) /\ Waba(p)' = Waba(p)
      /\ Tenant(p) \in Tenants /\ Waba(p) \in Wabas
  BY <1>1, <1>2, <1>3, GoesOnAs
<1>5. c \in Config /\ c.active /\ c.waba = Waba(p) /\ c.phone = work[p].phone
  BY <1>1, <1>4 DEF Config, Request
<1> HIDE DEF c
<1>6. config'[Tenant(p)] = c /\ c # NoRow
  BY <1>3, <1>4, <1>5, AbsentAssumption DEF TypeOK
<1>7. ASSUME p \notin disturbed PROVE Knows(p)'
  <2>1. Knows(p)
    BY <1>1, <1>7 DEF KnowsInv
  <2> QED
    BY <1>1, <1>2, <1>3, <1>4, <1>5, <1>6, <2>1 DEF Knows, Configured, Is, HasConfig, HasPhone
<1>8. \A u \in Tenants \ {Tenant(p)} : config'[u] = config[u]
  BY <1>3 DEF TypeOK
<1> QED
  BY <1>1, <1>2, <1>3, <1>7, <1>8, WriterKnows

LEMMA CompletesAccountKnows ==
    ASSUME TypeOK, KnowsInv, FailInv, NEW p \in Requests, CompletesAccount(p)
    PROVE  KnowsStep
<1>1. Busy(p) /\ work[p] \in Request /\ Is(p, "complete")
  BY BusyType, TypeParts DEF CompletesAccount, Busy, Is
<1> DEFINE r == [work[p] EXCEPT !.step = "end"]
<1>2. /\ r \in Request /\ r.tenant = work[p].tenant /\ r.waba = work[p].waba
      /\ r.step = "end" /\ r.kind = work[p].kind
      /\ r.phone = work[p].phone /\ r.good = work[p].good
  BY <1>1 DEF Request
<1>3. /\ work' = [work EXCEPT ![p] = r] /\ Writes(Tenant(p), p)
      /\ account' = [account EXCEPT ![Tenant(p)][Waba(p)] = "completed"]
      /\ UNCHANGED <<config, phone, session>>
  BY <1>1 DEF CompletesAccount, UpdateAccountStatus, To, TypeOK
<1> HIDE DEF r
<1>4. /\ work'[p] = r /\ Tenant(p)' = Tenant(p) /\ Waba(p)' = Waba(p)
      /\ Tenant(p) \in Tenants /\ Waba(p) \in Wabas
  BY <1>1, <1>2, <1>3, GoesOnAs
<1>5. /\ account'[Tenant(p)][Waba(p)] = "completed"
      /\ \A u \in Tenants \ {Tenant(p)} : account'[u] = account[u]
  BY <1>3, <1>4 DEF TypeOK
<1>6. ASSUME p \notin disturbed PROVE Knows(p)'
  <2>1. Knows(p)
    BY <1>1, <1>6 DEF KnowsInv
  <2> QED
    BY <1>1, <1>2, <1>3, <1>4, <1>5, <2>1 DEF Knows, Configured, Is, HasConfig, HasPhone
<1> QED
  BY <1>1, <1>2, <1>3, <1>5, <1>6, WriterKnows

LEMMA EndsAs ==
    ASSUME TypeOK, NEW p \in Requests, Ends(p)
    PROVE  work' = [work EXCEPT ![p] = Idle] /\ Idle.step # "fail" /\ ~Busy(p)'
BY DEF Ends, Idle, Busy, Is, TypeOK

LEMMA EndingKnows ==
    ASSUME TypeOK, KnowsInv, FailInv, NEW p \in Requests,
           Returns(p) \/ MarksUnusable(p) \/ Refused(p) \/ FailsSession(p) \/ Crash(p)
    PROVE  KnowsStep
<1>1. Busy(p) /\ Tenant(p) \in Tenants /\ Waba(p) \in Wabas
  BY BusyType, TypeParts DEF Returns, MarksUnusable, Refused, FailsSession, Crash, Busy, Is
<1>2. p \notin disturbed => Knows(p)
  BY <1>1 DEF KnowsInv
<1>3. CASE Returns(p) \/ FailsSession(p)
  <2>1. /\ Ends(p) /\ Writes(Tenant(p), p) /\ UNCHANGED <<config, account, phone>>
        /\ \A u \in Tenants \ {Tenant(p)} : session'[u] = session[u]
    BY <1>1, <1>3 DEF Returns, FailsSession, CompleteSession, FailSession, TypeOK
  <2> QED
    BY <1>1, <2>1, EndsAs, WriterKnows
<1>4. CASE MarksUnusable(p)
  <2>1. /\ Fails(p) /\ Writes(Tenant(p), p) /\ UNCHANGED <<config, phone, session>>
        /\ \A u \in Tenants \ {Tenant(p)} : account'[u] = account[u]
    BY <1>1, <1>4 DEF MarksUnusable, UpdateAccountStatus, TypeOK
  <2>2. /\ \E r : work' = [work EXCEPT ![p] = r] /\ (r.step = "fail" => r.kind = "callback")
        /\ p \notin disturbed /\ Busy(p)' => Knows(p)'
    BY <1>1, <1>2, <2>1, FailsKnows
  <2> QED
    BY <1>1, <2>1, <2>2, WriterKnows
<1>5. CASE Refused(p)
  <2>1. Fails(p) /\ Leaves /\ UNCHANGED <<config, account, phone, session>>
    BY <1>5 DEF Refused
  <2>2. /\ \E r : work' = [work EXCEPT ![p] = r] /\ (r.step = "fail" => r.kind = "callback")
        /\ p \notin disturbed /\ Busy(p)' => Knows(p)'
    BY <1>1, <1>2, <2>1, FailsKnows
  <2> QED
    BY <2>1, <2>2, ReaderKnows
<1>6. CASE Crash(p)
  <2>1. Ends(p) /\ Leaves /\ UNCHANGED <<config, account, phone, session>>
    BY <1>6 DEF Crash
  <2> QED
    BY <2>1, EndsAs, ReaderKnows
<1> QED
  BY <1>3, <1>4, <1>5, <1>6

LEMMA TurnsOffKnows ==
    ASSUME TypeOK, KnowsInv, FailInv, NEW p \in Requests, TurnsOff(p)
    PROVE  KnowsStep
<1>1. Busy(p) /\ work[p] \in Request /\ Is(p, "off")
  BY BusyType, TypeParts DEF TurnsOff, Busy, Is
<1> DEFINE r == [work[p] EXCEPT !.step = "delete"]
<1>2. /\ r \in Request /\ r.tenant = work[p].tenant /\ r.waba = work[p].waba
      /\ r.step = "delete" /\ r.kind = work[p].kind
  BY <1>1 DEF Request
<1>3. /\ work' = [work EXCEPT ![p] = r] /\ Writes(Tenant(p), p)
      /\ UNCHANGED <<account, phone, session>>
  BY <1>1 DEF TurnsOff, To, TypeOK
<1> HIDE DEF r
<1>4. work'[p] = r /\ Tenant(p)' = Tenant(p)
  BY <1>1, <1>2, <1>3, GoesOnAs
<1>5. \A u \in Tenants \ {Tenant(p)} : config'[u] = config[u]
  BY DEF TurnsOff, UpdateIsActive, TypeOK
<1>6. ASSUME p \notin disturbed PROVE Knows(p)'
  <2>1. Knows(p)
    BY <1>1, <1>6 DEF KnowsInv
  <2> QED
    BY <1>2, <1>3, <1>4, <2>1 DEF Knows, Configured, Is
<1> QED
  BY <1>1, <1>2, <1>3, <1>5, <1>6, WriterKnows

LEMMA DeletesAccountKnows ==
    ASSUME TypeOK, KnowsInv, FailInv, NEW p \in Requests, DeletesAccount(p)
    PROVE  KnowsStep
<1>1. Busy(p) /\ work[p] \in Request /\ Tenant(p) \in Tenants
  BY BusyType, TypeParts DEF DeletesAccount, Busy, Is
<1>2. /\ UNCHANGED <<config, session>> /\ Writes(Tenant(p), p)
      /\ \A u \in Tenants \ {Tenant(p)} : account'[u] = account[u] /\ phone'[u] = phone[u]
  BY DEF DeletesAccount, DeleteAccount, TypeOK
<1>3. CASE Ends(p)
  BY <1>1, <1>2, <1>3, EndsAs, WriterKnows
<1> DEFINE Same(q) == Tenant(q) = Tenant(p) /\ Waba(q) = Waba(p)
<1> DEFINE forgot == Forget("account", Same)
<1>4. ASSUME work' = [forgot EXCEPT ![p] = Idle]
      PROVE  KnowsStep
  <2>1. work'[p] = Idle /\ \A q \in Requests \ {p} : work'[q] = forgot[q]
    BY <1>4 DEF Forget
  <2>2. ASSUME NEW q \in Requests
        PROVE  /\ forgot[q] = work[q] \/ Tenant(q) = Tenant(p)
               /\ forgot[q] = work[q] \/ forgot[q].step = work[q].step
               /\ forgot[q] = work[q] \/ forgot[q].kind = work[q].kind
    <3>1. forgot[q] = work[q] \/ Tenant(q) = Tenant(p)
      BY DEF Forget
    <3>2. LET w == forgot[q] IN
          \/ w = work[q]
          \/ /\ w \in Request /\ work[q] \in Request
             /\ w.kind = work[q].kind /\ w.tenant = work[q].tenant
             /\ w.waba = work[q].waba /\ w.step = work[q].step
      BY ForgetMoves
    <3> HIDE DEF forgot, Same
    <3> QED
      BY <3>1, <3>2
  <2> HIDE DEF forgot, Same
  <2>3. ASSUME NEW q \in Requests \ {p} PROVE Apart(q)
    BY <1>2, <2>1, <2>2, WritesApart
  <2>4. \A q \in Requests \ {p} :
            Is(q, "fail")' => Is(q, "fail") /\ work'[q].kind = work[q].kind
    BY <2>1, <2>2 DEF Is
  <2> QED
    BY <2>1, <2>3, <2>4, OneKnows DEF Is, Idle, Busy
<1> QED
  BY <1>3, <1>4 DEF DeletesAccount

\* Whoever is at work for t is disturbed by the provider API.
LEMMA ProviderKnows ==
    ASSUME TypeOK, KnowsInv, FailInv, NEW t \in Tenants,
           CreatesProvider(t) \/ UpdatesProvider(t) \/ DeletesProvider(t)
    PROVE  KnowsStep
<1>1. /\ UNCHANGED <<account, phone, session>> /\ Writes(t, NoId)
      /\ \A u \in Tenants \ {t} : config'[u] = config[u]
  BY DEF CreatesProvider, UpdatesProvider, DeletesProvider, CreateProviderConfig,
     UpdateProviderConfig, DeleteProviderConfig, TypeOK
<1>2. \A q \in Requests :
          /\ work'[q] = work[q] \/ Tenant(q) = t
          /\ Is(q, "fail")' => Is(q, "fail") /\ work'[q].kind = work[q].kind
  <2>1. CASE work' = work
    BY <2>1 DEF Is
  <2> DEFINE Same(q) == Tenant(q) = t
  <2> DEFINE forgot == Forget("config", Same)
  <2>2. ASSUME work' = forgot, NEW q \in Requests
        PROVE  /\ work'[q] = work[q] \/ Tenant(q) = t
               /\ Is(q, "fail")' => Is(q, "fail") /\ work'[q].kind = work[q].kind
    <3>1. forgot[q] = work[q] \/ Tenant(q) = t
      BY DEF Forget
    <3>2. LET w == forgot[q] IN
          \/ w = work[q]
          \/ /\ w \in Request /\ work[q] \in Request
             /\ w.kind = work[q].kind /\ w.tenant = work[q].tenant
             /\ w.waba = work[q].waba /\ w.step = work[q].step
      BY ForgetMoves
    <3> HIDE DEF forgot, Same
    <3> QED
      BY <2>2, <3>1, <3>2 DEF Is
  <2> QED
    BY <2>1, <2>2 DEF CreatesProvider, UpdatesProvider, DeletesProvider
<1>3. ASSUME NEW q \in Requests PROVE Apart(q)
  BY <1>1, <1>2, AbsentAssumption, WritesApart
<1>4. KnowsInv'
  BY <1>3, ApartKnows DEF KnowsInv
<1> QED
  BY <1>2, <1>4 DEF KnowsStep, FailInv

LEMMA CreatesSessionKnows ==
    ASSUME TypeOK, KnowsInv, FailInv, NEW t \in Tenants, CreatesSession(t)
    PROVE  KnowsStep
<1>1. /\ UNCHANGED <<config, account, phone, work, disturbed>> /\ session[t] = NoRow
      /\ \A u \in Tenants \ {t} : session'[u] = session[u]
  BY DEF CreatesSession, CreateSession, TypeOK
<1>2. ASSUME NEW q \in Requests PROVE Apart(q)
  <2> SUFFICES ASSUME Busy(q)' PROVE q \notin disturbed' => Apart(q)
    BY DEF Apart
  <2>1. Busy(q)
    BY <1>1 DEF Busy, Is
  <2>2. Tenant(q) \in Tenants
    BY <2>1, BusyType, TypeParts DEF Busy
  <2> QED
    BY <1>1, <2>2 DEF Apart
<1>3. KnowsInv'
  BY <1>2, ApartKnows DEF KnowsInv
<1> QED
  BY <1>1, <1>3 DEF KnowsStep, FailInv, Is

LinkedInv == TypeOK /\ KindsInv /\ OwnersInv /\ KnowsInv /\ FailInv

LEMMA LinkedInit == Init => LinkedInv
<1> SUFFICES ASSUME Init PROVE LinkedInv
  OBVIOUS
<1>1. \A p \in Requests : work[p].step = "idle"
  BY DEF Init, Idle
<1> QED
  BY <1>1, OneTenantInit DEF LinkedInv, OneTenantInv, KnowsInv, FailInv, Busy, Is

LEMMA LinkedStep ==
    ASSUME LinkedInv, [Next]_vars
    PROVE  LinkedInv'
<1>1. TypeOK /\ KnowsInv /\ FailInv
  BY DEF LinkedInv
<1>2. OneTenantInv'
  BY OneTenantStep DEF LinkedInv, OneTenantInv
<1>3. ASSUME UNCHANGED vars PROVE KnowsStep
  <2>1. KnowsInv'
    BY <1>1, <1>3 DEF vars, KnowsInv, Knows, Configured, Busy, Is, Tenant, Waba, HasConfig, HasPhone
  <2> QED
    BY <1>1, <1>3, <2>1 DEF vars, KnowsStep, FailInv, Is
<1>4. ASSUME NEW p \in Requests, GoesOn(p) PROVE KnowsStep
  BY <1>1, <1>4, MarksKnows, UpsertReadsKnows, UpsertWritesKnows, SyncReadsKnows,
     SyncWritesKnows, ListsPhonesKnows, SavesPhoneKnows, FinalizesKnows, SwitchesOnKnows,
     CompletesAccountKnows, EndingKnows, TurnsOffKnows, DeletesAccountKnows DEF GoesOn
<1>5. ASSUME NEW t \in Tenants,
             \/ CreatesSession(t) \/ CreatesProvider(t) \/ UpdatesProvider(t)
             \/ DeletesProvider(t) \/ \E p \in Requests : Begins(p, t)
      PROVE  KnowsStep
  BY <1>1, <1>5, CreatesSessionKnows, ProviderKnows, BeginsKnows
<1>6. KnowsStep
  BY <1>3, <1>4, <1>5 DEF Next
<1> QED
  BY <1>2, <1>6 DEF LinkedInv, OneTenantInv, KnowsStep

\* A request that nobody disturbed has finalized its account as it should be.
THEOREM Finalized == Spec => []FinalizedIsLinked
<1>1. LinkedInv => FinalizedIsLinked
  <2> SUFFICES ASSUME LinkedInv, NEW p \in Requests \ disturbed, Is(p, "end")
               PROVE  /\ account[Tenant(p)][Waba(p)] = "completed"
                      /\ HasConfig(Tenant(p)) /\ config[Tenant(p)].active
                      /\ config[Tenant(p)].waba = Waba(p)
                      /\ config[Tenant(p)].phone \in work[p].good
                      /\ HasPhone(Tenant(p), config[Tenant(p)].phone)
    BY DEF FinalizedIsLinked
  <2>1. Knows(p) /\ Configured(p)
    BY DEF LinkedInv, KnowsInv, Busy, Is, Configured
  <2> QED
    BY <2>1 DEF Knows, Is
<1>2. LinkedInv /\ [Next]_vars => LinkedInv'
  BY LinkedStep
<1> QED
  BY LinkedInit, <1>1, <1>2, PTL DEF Spec

\* Who may turn the config of t on again.
LEMMA OffStays ==
    ASSUME LinkedInv, Next, NEW t \in Tenants,
           HasConfig(t), ~config[t].active, HasConfig(t)', config'[t].active
    PROVE  \/ begun' # begun
           \/ \E p \in disturbed : work[p].step \in {"config", "switch"} /\ Tenant(p) = t
<1>1. TypeOK /\ KnowsInv
  BY DEF LinkedInv
<1>2. config'[t] # config[t]
  OBVIOUS
<1>3. ASSUME NEW p \in Requests, UpsertWrites(p) \/ SwitchesOn(p)
      PROVE  p \in disturbed /\ work[p].step \in {"config", "switch"} /\ Tenant(p) = t
  <2>1. /\ Busy(p) /\ work[p].step \in {"config", "switch"}
        /\ Is(p, "config") => CanUpsert(p)
        /\ \E c : config' = [config EXCEPT ![Tenant(p)] = c]
    BY <1>3 DEF UpsertWrites, SwitchesOn, UpdateProviderConfig, CreateProviderConfig, Busy, Is
  <2>2. Tenant(p) = t
    BY <1>1, <1>2, <2>1 DEF TypeOK
  <2>3. Is(p, "config") => work[p].saw
    BY <2>1, <2>2 DEF CanUpsert
  <2>4. Configured(p)
    BY <2>1, <2>3 DEF Configured, Is
  <2>5. p \in disturbed
    BY <1>1, <2>1, <2>2, <2>4 DEF KnowsInv, Knows
  <2> QED
    BY <2>1, <2>2, <2>5
<1>4. ASSUME NEW p \in Requests, TurnsOff(p)
      PROVE  FALSE
  <2>1. UpdateIsActive(Tenant(p)) \/ config' = config
    BY <1>4 DEF TurnsOff
  <2>2. config' = [config EXCEPT ![Tenant(p)].active = FALSE]
    BY <1>2, <2>1 DEF UpdateIsActive
  <2>3. config[t] \in Config
    BY <1>1 DEF TypeOK, HasConfig
  <2> QED
    BY <1>1, <1>2, <2>2, <2>3 DEF TypeOK, Config
<1>5. ASSUME Counts PROVE begun' # begun
  BY <1>1, <1>5 DEF Counts, TypeOK
<1>6. ASSUME NEW p \in Requests, GoesOn(p) PROVE UpsertWrites(p) \/ SwitchesOn(p) \/ TurnsOff(p)
  BY <1>2, <1>6 DEF GoesOn, Marks, UpsertReads, FindsConfig, SyncReads, SyncWrites, ListsPhones,
     SavesPhone, Finalizes, CompletesAccount, Returns, MarksUnusable, Refused, FailsSession,
     DeletesAccount, Crash
<1>7. ASSUME NEW p \in Requests, NEW u \in Tenants, Begins(p, u) PROVE Counts
  BY <1>7 DEF Begins, CompleteOnboardingCallback, SyncWhatsAppAccount,
     SyncWhatsAppPhoneNumber, DisconnectWhatsAppAccount, Starts
<1>8. ASSUME NEW u \in Tenants,
             CreatesProvider(u) \/ UpdatesProvider(u) \/ DeletesProvider(u)
      PROVE  Counts
  BY <1>8 DEF CreatesProvider, UpdatesProvider, DeletesProvider
<1>9. ASSUME NEW u \in Tenants, CreatesSession(u) PROVE FALSE
  BY <1>2, <1>9 DEF CreatesSession
<1>10. ASSUME NEW p \in Requests, GoesOn(p)
       PROVE  \E q \in disturbed : work[q].step \in {"config", "switch"} /\ Tenant(q) = t
  BY <1>3, <1>4, <1>6, <1>10
<1> QED
  BY <1>5, <1>7, <1>8, <1>9, <1>10 DEF Next

\* Who may take the completion of t's session back.
LEMMA CompletedKept ==
    ASSUME LinkedInv, Next, NEW t \in Tenants, session[t] = "completed", session'[t] # "completed"
    PROVE  \E p \in disturbed : work[p].kind = "callback" /\ Tenant(p) = t
<1>1. TypeOK /\ KnowsInv /\ FailInv /\ KindsInv
  BY DEF LinkedInv
<1>2. session'[t] # session[t]
  OBVIOUS
<1>3. ASSUME NEW p \in Requests, Marks(p) \/ FailsSession(p)
      PROVE  p \in disturbed /\ work[p].kind = "callback" /\ Tenant(p) = t
  <2>1. /\ Busy(p) /\ work[p].kind = "callback"
        /\ \E s : session' = [session EXCEPT ![Tenant(p)] = s]
    BY <1>1, <1>3 DEF Marks, FailsSession, UpdateSessionStatus, FailSession, Busy, Is,
       FailInv, KindsInv, KindOf
  <2>2. Tenant(p) = t
    BY <1>1, <1>2, <2>1 DEF TypeOK
  <2> QED
    BY <1>1, <2>1, <2>2 DEF KnowsInv, Knows
<1>4. ASSUME NEW p \in Requests, Returns(p) PROVE FALSE
  <2>1. CompleteSession(Tenant(p))
    BY <1>2, <1>4 DEF Returns
  <2> QED
    BY <1>1, <1>2, <2>1 DEF CompleteSession, TypeOK
<1>5. ASSUME NEW p \in Requests, GoesOn(p) PROVE Marks(p) \/ FailsSession(p) \/ Returns(p)
  BY <1>2, <1>5 DEF GoesOn, UpsertReads, FindsConfig, UpsertWrites, SyncReads, SyncWrites,
     ListsPhones, SavesPhone, Finalizes, SwitchesOn, CompletesAccount, MarksUnusable, Refused,
     TurnsOff, DeletesAccount, Crash
<1>6. ASSUME NEW p \in Requests, NEW u \in Tenants, Begins(p, u) PROVE FALSE
  BY <1>2, <1>6 DEF Begins, CompleteOnboardingCallback, SyncWhatsAppAccount,
     SyncWhatsAppPhoneNumber, DisconnectWhatsAppAccount, Starts
<1>7. ASSUME NEW u \in Tenants,
             CreatesProvider(u) \/ UpdatesProvider(u) \/ DeletesProvider(u)
      PROVE  FALSE
  BY <1>2, <1>7 DEF CreatesProvider, UpdatesProvider, DeletesProvider
<1>8. ASSUME NEW u \in Tenants, CreatesSession(u) PROVE FALSE
  BY <1>1, <1>2, <1>8, AbsentAssumption DEF CreatesSession, CreateSession, TypeOK, Statuses
<1>9. ASSUME NEW p \in Requests, GoesOn(p)
      PROVE  \E q \in disturbed : work[q].kind = "callback" /\ Tenant(q) = t
  BY <1>3, <1>4, <1>5, <1>9
<1> QED
  BY <1>6, <1>7, <1>8, <1>9 DEF Next

\* Only the provider API, or a request whose tenant's rows somebody else wrote
\* meanwhile, turns a config on that was turned off.
THEOREM TurnedOffStays == Spec => OffStaysOff
<1>1. LinkedInv /\ [Next]_vars => LinkedInv'
  BY LinkedStep
<1>2. LinkedInv /\ [Next]_vars =>
          [\A t \in Tenants :
              HasConfig(t) /\ ~config[t].active /\ HasConfig(t)' /\ config'[t].active =>
                  \/ begun' # begun
                  \/ \E p \in disturbed :
                        work[p].step \in {"config", "switch"} /\ Tenant(p) = t]_vars
  BY OffStays
<1> QED
  BY LinkedInit, <1>1, <1>2, PTL DEF Spec, OffStaysOff

\* Only a callback whose tenant's rows somebody else wrote meanwhile takes the
\* completion of a session back.
THEOREM CompletionStays == Spec => CompletedStays
<1>1. LinkedInv /\ [Next]_vars => LinkedInv'
  BY LinkedStep
<1>2. LinkedInv /\ [Next]_vars =>
          [\A t \in Tenants : session[t] = "completed" /\ session'[t] # "completed" =>
              \E p \in disturbed : work[p].kind = "callback" /\ Tenant(p) = t]_vars
  BY CompletedKept
<1> QED
  BY LinkedInit, <1>1, <1>2, PTL DEF Spec, CompletedStays
=============================================================================
