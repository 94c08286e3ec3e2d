------------------------------ MODULE Contacts ------------------------------
(***************************************************************************)
(* The contacts of a tenant and what they consented to                     *)
(* (core/services/contact_service.go).  A contact is a row with one opt-in *)
(* status per channel, and consent records that say how it came about.     *)
(* Every request reads the row, decides, and writes later: OptIn,          *)
(* ConfirmOptIn and OptOut write the status and then the record, in two    *)
(* statements, and Update writes back every column it read.  Email plays   *)
(* the same part as the phone and is left out.                             *)
(*                                                                         *)
(* Events says what may happen in a run:                                   *)
(*   "optin", "double", "confirm", "optout", "update", "create",           *)
(*   "import", "delete"  the requests that come                            *)
(*   "write", "record"   the statement fails                               *)
(*   "crash"             the request ends at any moment                    *)
(***************************************************************************)
EXTENDS Naturals, Sequences

CONSTANTS
    Contacts,    \* ids of contacts
    Phones,
    NoPhone,     \* the phone of an id that has no row
    Channels,
    Requests,    \* requests that may be in progress at one time
    PerPage,     \* 10 in the code: records ConfirmOptIn looks at
    MaxRecords,  \* bound on the records of a contact
    Events

ASSUME ContactsAssumption ==
    /\ NoPhone \notin Phones
    /\ PerPage \in Nat \ {0}
    /\ MaxRecords \in Nat

VARIABLES
    phone, optIn, records,  \* the tables; the newest record first
    request,                \* request[r]: how far it is, what it read and wants
    settled                 \* history: the last change that was made alone

contactVars == <<phone, optIn, records, request, settled>>

May(e) == e \in Events

Statuses == {"pending", "double_opt_in_pending", "opted_in", "opted_out"}
Expiries == {"never", "later", "past"}
Record   == [channel : Channels, status : Statuses, expires : Expiries]
Consents == {"optin", "double", "confirm", "optout"}
Unknown  == [ch \in Channels |-> "pending"]
None     == [ch \in Channels |-> "none"]

\* No request: what is read, or wanted, depends on the step.
Idle == [step |-> "idle"]
Inserting == [step : {"insert"}, newPhone : Phones]
Updating  == [step : {"write"}, kind : {"update"}, who : Contacts, newPhone : Phones,
              seen : [Channels -> Statuses]]
\* alone: nobody else worked on the contact since the request read it;
\* late: the confirmation came after the question had expired.
Consenting == [step : {"list", "write", "record"}, kind : Consents, who : Contacts,
               chan : Channels, until : Expiries, alone : BOOLEAN, late : BOOLEAN]

ContactsTypeOK ==
    /\ phone \in [Contacts -> Phones \cup {NoPhone}]
    /\ optIn \in [Contacts -> [Channels -> Statuses]]
    /\ records \in [Contacts -> Seq(Record)]
    /\ settled \in [Contacts -> [Channels -> Statuses \cup {"none"}]]
    /\ request \in [Requests -> {Idle} \cup Inserting \cup Updating \cup Consenting]

ContactsInit ==
    /\ phone = [c \in Contacts |-> NoPhone]
    /\ optIn = [c \in Contacts |-> Unknown]
    /\ records = [c \in Contacts |-> <<>>]
    /\ settled = [c \in Contacts |-> None]
    /\ request = [r \in Requests |-> Idle]

Exists(c)     == phone[c] # NoPhone
IsFree(p)     == \A c \in Contacts : phone[c] # p
At(r, s)      == request[r].step = s
IsConsent(q)  == q.step \in {"list", "write", "record"} /\ q.kind \in Consents
WorksOn(q, c) == q.step \in {"list", "write", "record"} /\ q.who = c

GoTo(r, s) == request' = [request EXCEPT ![r].step = s]
Ends(r)    == request' = [request EXCEPT ![r] = Idle]

\* The places of the records ConfirmOptIn lists, the newest first; the first that
\* is a question on the channel decides, and those after it are not looked at.
FirstPage(c) == {i \in DOMAIN records[c] : i <= PerPage}
Asks(rec, ch) == rec.channel = ch /\ rec.status = "double_opt_in_pending"
PendingConsentExpired_Slip(c, ch) == \* looks for the wrong kind of pending
    \E i \in FirstPage(c) :
        /\ records[c][i].channel = ch /\ records[c][i].status = "pending"
        /\ records[c][i].expires = "past"
PendingConsentExpired(c, ch) ==
    \E i \in FirstPage(c) :
        /\ Asks(records[c][i], ch) /\ \A j \in 1 .. i - 1 : ~Asks(records[c][j], ch)
        /\ records[c][i].expires = "past"

\* History: the newest record of the contact is a question that has expired.
QuestionIsOver(c, ch) ==
    records[c] # <<>> /\ records[c][1] =
        [channel |-> ch, status |-> "double_opt_in_pending", expires |-> "past"]

\* Does a request of kind k go on when it finds the channel in status s?
Proceeds_Slip(k, s) == \* a confirmation needs no question
    CASE k \in {"optin", "double", "confirm"} -> s # "opted_in"
      [] k = "optout"                         -> s # "opted_out"
Proceeds(k, s) ==
    CASE k \in {"optin", "double"} -> s # "opted_in"
      [] k = "confirm"             -> s \in {"double_opt_in_pending", "pending"}
      [] k = "optout"              -> s # "opted_out"

Target(k) == CASE k = "double" -> "double_opt_in_pending"
               [] k = "optout" -> "opted_out"
               [] OTHER        -> "opted_in"

\* A settled opt-out ends only when somebody opts in anew; any other settled
\* status ends with the next request that means to change it.
Unsettles(k, s) == k \in {"optin", "double"} \/ s # "opted_out"

\* From now on requests on c are not alone, and r is if there are none.
Joins(q, r, c) == [o \in Requests |->
    IF o = r THEN q
    ELSE IF IsConsent(request[o]) /\ request[o].who = c
         THEN [request[o] EXCEPT !.alone = FALSE] ELSE request[o]]

\* GetByID, and the decision that follows from the row.
ReadsContact(r, k, c, ch, expires) ==
    /\ At(r, "idle")
    /\ Exists(c)
    /\ Proceeds(k, optIn[c][ch])
    /\ request' = Joins(
           [step |-> IF k = "confirm" THEN "list" ELSE "write",
            kind |-> k, who |-> c, chan |-> ch, until |-> expires,
            alone |-> \A o \in Requests \ {r} : ~WorksOn(request[o], c),
            late |-> k = "confirm" /\ QuestionIsOver(c, ch)], r, c)
    /\ settled' = IF Unsettles(k, settled[c][ch])
                  THEN [settled EXCEPT ![c][ch] = "none"] ELSE settled
    /\ UNCHANGED <<phone, optIn, records>>

\* The handlers: OptIn may be told that a confirmation is needed ("double") and
\* until when the consent is good, ConfirmOptIn and OptOut take no expiry.
MayExpire(k) == IF k \in {"optin", "double"} THEN {"never", "later"} ELSE {"never"}

\* OptIn refuses evidence that has expired: none of MayExpire has.
BeginsConsent(r, k, c, ch) ==
    /\ May(k)
    /\ \E e \in MayExpire(k) : ReadsContact(r, k, c, ch, e)

\* Update looks for another contact with the phone it is to set.
MayTakePhone(c, p) == p = phone[c] \/ IsFree(p)

BeginsUpdate(r, c, p) ==
    /\ May("update")
    /\ At(r, "idle")
    /\ Exists(c)
    /\ MayTakePhone(c, p)
    /\ request' = Joins([step |-> "write", kind |-> "update", who |-> c,
                         newPhone |-> p, seen |-> optIn[c]], r, c)
    /\ UNCHANGED <<phone, optIn, records, settled>>

ListsRecords(r) ==
    /\ At(r, "list")
    /\ IF PendingConsentExpired(request[r].who, request[r].chan)
       THEN Ends(r) ELSE GoTo(r, "write")
    /\ UNCHANGED <<phone, optIn, records, settled>>

\* UPDATE ... SET opt_in_<channel>: no row is no error.
WritesOptIn(r) ==
    LET q == request[r] IN
    /\ At(r, "write") /\ IsConsent(q)
    /\ optIn' = IF Exists(q.who) THEN [optIn EXCEPT ![q.who][q.chan] = Target(q.kind)] ELSE optIn
    /\ GoTo(r, "record")
    /\ UNCHANGED <<phone, records, settled>>

\* The whole row, opt-in columns included; the unique index guards the phone.
WritesContact(r) ==
    LET q == request[r] IN
    /\ At(r, "write") /\ q.kind = "update"
    /\ IF Exists(q.who) /\ (phone[q.who] = q.newPhone \/ IsFree(q.newPhone))
       THEN /\ phone' = [phone EXCEPT ![q.who] = q.newPhone]
            /\ optIn' = [optIn EXCEPT ![q.who] = q.seen]
       ELSE UNCHANGED <<phone, optIn>>
    /\ Ends(r)
    /\ UNCHANGED <<records, settled>>

Evidence_Slip(q) == \* every record says the contact agreed
    [channel |-> q.chan, status |-> "opted_in", expires |-> q.until]
Evidence(q) == [channel |-> q.chan, status |-> Target(q.kind), expires |-> q.until]

\* A question that another record pushes down is no longer the newest.
NotLate(c) == [o \in Requests |-> IF IsConsent(request[o]) /\ request[o].who = c
                                  THEN [request[o] EXCEPT !.late = FALSE] ELSE request[o]]

\* The record refers to the contact: without it the insert fails.
CreatesRecord(r) ==
    LET q == request[r] IN
    /\ At(r, "record")
    /\ IF Exists(q.who)
       THEN /\ Len(records[q.who]) < MaxRecords
            /\ records' = [records EXCEPT ![q.who] = <<Evidence(q)>> \o @]
            /\ settled' = IF q.alone
                          THEN [settled EXCEPT ![q.who][q.chan] = Target(q.kind)] ELSE settled
            /\ request' = [NotLate(q.who) EXCEPT ![r] = Idle]
       ELSE Ends(r) /\ UNCHANGED <<records, settled>>
    /\ UNCHANGED <<phone, optIn>>

\* Create: the phone is looked for, then the contact is inserted.
LooksForPhone(r, p) ==
    /\ At(r, "idle")
    /\ IsFree(p)
    /\ request' = [request EXCEPT ![r] = [step |-> "insert", newPhone |-> p]]
    /\ UNCHANGED <<phone, optIn, records, settled>>

BeginsCreate(r, p) == May("create") /\ LooksForPhone(r, p)

\* BulkImport does for every row what Create does.
BeginsImport(r, p) == May("import") /\ LooksForPhone(r, p)

\* Ids are never used twice, so a new contact has none that a request holds.
InsertsContact(r) ==
    /\ At(r, "insert")
    /\ IF IsFree(request[r].newPhone)
       THEN \E c \in Contacts :
                /\ ~Exists(c)
                /\ \A o \in Requests : ~WorksOn(request[o], c)
                /\ phone' = [phone EXCEPT ![c] = request[r].newPhone]
                /\ optIn' = [optIn EXCEPT ![c] = Unknown]
       ELSE UNCHANGED <<phone, optIn>>
    /\ Ends(r)
    /\ UNCHANGED <<records, settled>>

\* The consent records go with the contact; requests that hold its id find nothing.
Deletes(c) ==
    /\ May("delete")
    /\ Exists(c)
    /\ phone' = [phone EXCEPT ![c] = NoPhone]
    /\ optIn' = [optIn EXCEPT ![c] = Unknown]
    /\ records' = [records EXCEPT ![c] = <<>>]
    /\ settled' = [settled EXCEPT ![c] = None]
    /\ request' = NotLate(c)

\* A statement fails or the request's process ends.
Fails(r) ==
    /\ \/ May("write") /\ request[r].step \in {"write", "insert"}
       \/ May("record") /\ request[r].step \in {"list", "record"}
       \/ May("crash") /\ ~At(r, "idle")
    /\ Ends(r)
    /\ UNCHANGED <<phone, optIn, records, settled>>

Ages(e) == IF e = "later" THEN "past" ELSE e

\* Time passes the expiry of every question asked so far.
QuestionsExpire ==
    /\ \E c \in Contacts : \E i \in DOMAIN records[c] : records[c][i].expires = "later"
    /\ records' = [c \in Contacts |-> [i \in DOMAIN records[c] |->
           [records[c][i] EXCEPT !.expires = Ages(@)]]]
    /\ UNCHANGED <<phone, optIn, request, settled>>

ContactsNext ==
    \/ \E r \in Requests :
        \/ \E k \in Consents, c \in Contacts, ch \in Channels : BeginsConsent(r, k, c, ch)
        \/ \E c \in Contacts, p \in Phones : BeginsUpdate(r, c, p)
        \/ \E p \in Phones : BeginsCreate(r, p) \/ BeginsImport(r, p)
        \/ ListsRecords(r) \/ WritesOptIn(r) \/ WritesContact(r) \/ CreatesRecord(r)
        \/ InsertsContact(r) \/ Fails(r)
    \/ \E c \in Contacts : Deletes(c)
    \/ QuestionsExpire

ContactsSpec == ContactsInit /\ [][ContactsNext]_contactVars

(* A change of the opt-in status that nobody disturbed stays until someone  *)
(* asks for another: no Update, import or confirmation that begins later    *)
(* brings an opted-out contact back, or forgets that one opted in.          *)
SettledStays == \A c \in Contacts, ch \in Channels :
    settled[c][ch] # "none" => optIn[c][ch] = settled[c][ch]

(* The newest consent record of the channel is the evidence for it.         *)
SettledIsRecorded == \A c \in Contacts, ch \in Channels :
    settled[c][ch] # "none" =>
        \E i \in DOMAIN records[c] :
            /\ records[c][i].channel = ch /\ records[c][i].status = settled[c][ch]
            /\ \A j \in 1 .. i - 1 : records[c][j].channel # ch

(* ConfirmOptIn does not opt in a contact whose question had expired before *)
(* the confirmation came, while the question is the newest record.          *)
ExpiredIsNotConfirmed == \A r \in Requests :
    request[r].step \in {"write", "record"} /\ IsConsent(request[r]) => ~request[r].late
=============================================================================
