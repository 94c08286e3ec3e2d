---------------------------- MODULE InboxProofs ----------------------------
(***************************************************************************)
(* Proofs about the modules Contacts and Inbox, for every number of        *)
(* contacts, channels, requests and handlers: the type invariants; that a  *)
(* consent which was settled stays (Contacts!SettledStays) and has its     *)
(* record, that a confirmation which came too late is refused, and that all *)
(* this holds with keywords and sends around it; that nothing is sent after *)
(* an opt-out; and the two properties of the service window.               *)
(***************************************************************************)
EXTENDS Inbox, TLAPS

Consent == {Idle} \cup Inserting \cup Updating \cup Consenting

\* What the step and the kind of a request say of its shape.
LEMMA Shapes ==
    ASSUME NEW q \in Consent
    PROVE  /\ q.step = "idle" => q = Idle
           /\ q.step = "insert" => q \in Inserting
           /\ IsConsent(q) => q \in Consenting
           /\ q.step = "write" /\ q.kind = "update" => q \in Updating
           /\ q.step \in {"list", "record"} => q \in Consenting
           /\ q.step = "write" /\ q \notin Updating => q \in Consenting
           /\ q \in Consenting => IsConsent(q) /\ q.kind # "update"
BY DEF Consent, Idle, Inserting, Updating, Consenting, Consents, IsConsent

LEMMA TargetType ==
    ASSUME NEW k \in Consents
    PROVE  Target(k) \in Statuses
BY DEF Target, Statuses, Consents

\* A consent request loses its flags and keeps all else.
LEMMA FlagsType ==
    ASSUME NEW q \in Consenting
    PROVE  /\ [q EXCEPT !.alone = FALSE] \in Consenting
           /\ [q EXCEPT !.late = FALSE] \in Consenting
           /\ \A s \in {"list", "write", "record"} : [q EXCEPT !.step = s] \in Consenting
BY DEF Consenting

LEMMA InitialTypes == ContactsInit => ContactsTypeOK
BY DEF ContactsInit, ContactsTypeOK, Unknown, None, Statuses, Idle

LEMMA JoinsType ==
    ASSUME ContactsTypeOK, NEW r \in Requests, NEW c \in Contacts, NEW q \in Consent
    PROVE  Joins(q, r, c) \in [Requests -> Consent]
BY Shapes, FlagsType DEF Joins, ContactsTypeOK, Consent

LEMMA ReadsContactType ==
    ASSUME ContactsTypeOK, NEW r \in Requests, NEW k \in Consents, NEW c \in Contacts,
           NEW ch \in Channels, NEW e \in Expiries, ReadsContact(r, k, c, ch, e)
    PROVE  ContactsTypeOK'
<1> DEFINE q == [step |-> IF k = "confirm" THEN "list" ELSE "write",
                 kind |-> k, who |-> c, chan |-> ch, until |-> e,
                 alone |-> \A o \in Requests \ {r} : ~WorksOn(request[o], c),
                 late |-> k = "confirm" /\ QuestionIsOver(c, ch)]
<1>1. q \in Consent
  <2>1. (\A o \in Requests \ {r} : ~WorksOn(request[o], c)) \in BOOLEAN
    OBVIOUS
  <2>2. (k = "confirm" /\ QuestionIsOver(c, ch)) \in BOOLEAN
    OBVIOUS
  <2> HIDE DEF WorksOn, QuestionIsOver
  <2> QED
    BY <2>1, <2>2 DEF Consent, Consenting
<1>2. request' \in [Requests -> Consent]
  BY <1>1, JoinsType DEF ReadsContact
<1>3. settled' \in [Contacts -> [Channels -> Statuses \cup {"none"}]]
  BY DEF ReadsContact, ContactsTypeOK
<1> QED
  BY <1>2, <1>3 DEF ReadsContact, ContactsTypeOK, Consent

LEMMA BeginsUpdateType ==
    ASSUME ContactsTypeOK, NEW r \in Requests, NEW c \in Contacts, NEW p \in Phones,
           BeginsUpdate(r, c, p)
    PROVE  ContactsTypeOK'
<1> DEFINE q == [step |-> "write", kind |-> "update", who |-> c,
                 newPhone |-> p, seen |-> optIn[c]]
<1>1. q \in Consent
  BY DEF Consent, Updating, ContactsTypeOK
<1>2. request' \in [Requests -> Consent]
  BY <1>1, JoinsType DEF BeginsUpdate
<1> QED
  BY <1>2 DEF BeginsUpdate, ContactsTypeOK, Consent

LEMMA NotLateType ==
    ASSUME ContactsTypeOK, NEW c \in Contacts
    PROVE  NotLate(c) \in [Requests -> Consent]
BY Shapes, FlagsType DEF NotLate, ContactsTypeOK, Consent

LEMMA RecordsType ==
    ASSUME NEW l \in Seq(Record), NEW e \in Record
    PROVE  <<e>> \o l \in Seq(Record)
OBVIOUS

LEMMA CreatesRecordType ==
    ASSUME ContactsTypeOK, NEW r \in Requests, CreatesRecord(r)
    PROVE  ContactsTypeOK'
<1> DEFINE q == request[r]
<1>1. q \in Consenting
  BY Shapes DEF CreatesRecord, At, ContactsTypeOK, Consent
<1>2. q.who \in Contacts /\ q.chan \in Channels /\ Target(q.kind) \in Statuses /\ q.until \in Expiries
  BY <1>1, TargetType DEF Consenting
<1>3. CASE Exists(q.who)
  <2>1. Evidence(q) \in Record
    BY <1>2 DEF Evidence, Record
  <2>2. records' \in [Contacts -> Seq(Record)]
    <3>1. records \in [Contacts -> Seq(Record)]
      BY DEF ContactsTypeOK
    <3>2. <<Evidence(q)>> \o records[q.who] \in Seq(Record)
      BY <1>2, <2>1, <3>1, RecordsType
    <3>3. records' = [records EXCEPT ![q.who] = <<Evidence(q)>> \o records[q.who]]
      BY <1>3 DEF CreatesRecord
    <3> HIDE DEF q
    <3> QED
      BY <3>1, <3>2, <3>3
  <2>3. settled' \in [Contacts -> [Channels -> Statuses \cup {"none"}]]
    <3>1. settled \in [Contacts -> [Channels -> Statuses \cup {"none"}]]
      BY DEF ContactsTypeOK
    <3>2. \/ settled' = settled
          \/ settled' = [settled EXCEPT ![q.who][q.chan] = Target(q.kind)]
      BY <1>3 DEF CreatesRecord
    <3> HIDE DEF q
    <3> QED
      BY <1>2, <3>1, <3>2
  <2>4. request' \in [Requests -> Consent]
    BY <1>2, <1>3, NotLateType DEF CreatesRecord, Consent
  <2> QED
    BY <2>2, <2>3, <2>4 DEF CreatesRecord, ContactsTypeOK, Consent
<1>4. CASE ~Exists(q.who)
  BY <1>4 DEF CreatesRecord, Ends, ContactsTypeOK
<1> QED
  BY <1>3, <1>4

LEMMA ExpireType ==
    ASSUME ContactsTypeOK, QuestionsExpire
    PROVE  ContactsTypeOK'
<1>1. ASSUME NEW c \in Contacts
      PROVE  [i \in DOMAIN records[c] |-> [records[c][i] EXCEPT !.expires = Ages(@)]]
                 \in Seq(Record)
  <2>1. records[c] \in Seq(Record)
    BY DEF ContactsTypeOK
  <2>2. ASSUME NEW i \in 1 .. Len(records[c])
        PROVE  [records[c][i] EXCEPT !.expires = Ages(@)] \in Record
    <3>1. records[c][i] \in Record
      BY <2>1, <2>2
    <3> QED
      BY <3>1 DEF Record, Expiries, Ages
  <2>3. Len(records[c]) \in Nat /\ DOMAIN records[c] = 1 .. Len(records[c])
    BY <2>1
  <2> QED
    BY <2>2, <2>3
<1> QED
  BY <1>1 DEF QuestionsExpire, ContactsTypeOK

LEMMA ContactsStepType ==
    ASSUME ContactsTypeOK, [ContactsNext]_contactVars
    PROVE  ContactsTypeOK'
<1>1. ASSUME NEW r \in Requests, NEW k \in Consents, NEW c \in Contacts, NEW ch \in Channels,
             BeginsConsent(r, k, c, ch)
      PROVE  ContactsTypeOK'
  BY <1>1, ReadsContactType DEF BeginsConsent, MayExpire, Expiries
<1>2. ASSUME NEW r \in Requests, NEW p \in Phones, LooksForPhone(r, p)
      PROVE  ContactsTypeOK'
  BY <1>2 DEF LooksForPhone, ContactsTypeOK, Inserting
<1>3. ASSUME NEW r \in Requests, ListsRecords(r)
      PROVE  ContactsTypeOK'
  <2>1. request[r] \in Consenting
    BY <1>3, Shapes DEF ListsRecords, At, ContactsTypeOK, Consent
  <2>2. request' \in [Requests -> Consent]
    BY <1>3, <2>1, FlagsType DEF ListsRecords, Ends, GoTo, ContactsTypeOK, Consent
  <2> QED
    BY <1>3, <2>2 DEF ListsRecords, ContactsTypeOK, Consent
<1>4. ASSUME NEW r \in Requests, WritesOptIn(r)
      PROVE  ContactsTypeOK'
  <2>1. request[r] \in Consenting
    BY <1>4, Shapes DEF WritesOptIn, ContactsTypeOK, Consent
  <2>2. request' \in [Requests -> Consent]
    BY <1>4, <2>1, FlagsType DEF WritesOptIn, GoTo, ContactsTypeOK, Consent
  <2>3. optIn' \in [Contacts -> [Channels -> Statuses]]
    BY <1>4, <2>1, TargetType DEF WritesOptIn, ContactsTypeOK, Consenting
  <2> QED
    BY <1>4, <2>2, <2>3 DEF WritesOptIn, ContactsTypeOK, Consent
<1>5. ASSUME NEW r \in Requests, WritesContact(r)
      PROVE  ContactsTypeOK'
  <2>1. request[r] \in Updating
    BY <1>5, Shapes DEF WritesContact, At, ContactsTypeOK, Consent
  <2> QED
    BY <1>5, <2>1 DEF WritesContact, Ends, ContactsTypeOK, Updating
<1>6. ASSUME NEW r \in Requests, InsertsContact(r)
      PROVE  ContactsTypeOK'
  <2>1. request[r] \in Inserting
    BY <1>6, Shapes DEF InsertsContact, At, ContactsTypeOK, Consent
  <2>2. request[r].newPhone \in Phones /\ Unknown \in [Channels -> Statuses]
    BY <2>1 DEF Inserting, Unknown, Statuses
  <2>3. /\ phone' \in [Contacts -> Phones \cup {NoPhone}]
        /\ optIn' \in [Contacts -> [Channels -> Statuses]]
    BY <1>6, <2>2 DEF InsertsContact, ContactsTypeOK
  <2> QED
    BY <1>6, <2>3 DEF InsertsContact, Ends, ContactsTypeOK
<1>7. ASSUME NEW c \in Contacts, Deletes(c)
      PROVE  ContactsTypeOK'
  <2>1. request' \in [Requests -> Consent]
    BY <1>7, NotLateType DEF Deletes
  <2> QED
    BY <1>7, <2>1 DEF Deletes, ContactsTypeOK, Unknown, None, Statuses, Consent
<1>8. ASSUME NEW r \in Requests, Fails(r)
      PROVE  ContactsTypeOK'
  BY <1>8 DEF Fails, Ends, ContactsTypeOK
<1>9. CASE UNCHANGED contactVars
  BY <1>9 DEF contactVars, ContactsTypeOK
<1> QED
  BY <1>1, <1>2, <1>3, <1>4, <1>5, <1>6, <1>7, <1>8, <1>9, BeginsUpdateType,
     CreatesRecordType, ExpireType
  DEF ContactsNext, BeginsCreate, BeginsImport

\* The tables and the requests of module Contacts have the types it gives them.
THEOREM ContactsTypeCorrect == ContactsSpec => []ContactsTypeOK
<1>1. ContactsTypeOK /\ [ContactsNext]_contactVars => ContactsTypeOK'
  BY ContactsStepType
<1> QED
  BY InitialTypes, <1>1, PTL DEF ContactsSpec
-----------------------------------------------------------------------------
(* A settled consent stays.  The strengthening: a request that is alone really *)
(* is, and if it wrote its status nobody wrote another; while a consent is     *)
(* settled nobody asks to change it, and whoever is about to write the whole   *)
(* row back read the settled status.                                           *)

AloneIsAlone == \A r \in Requests :
    IsConsent(request[r]) /\ request[r].alone =>
        \A o \in Requests \ {r} : ~WorksOn(request[o], request[r].who)

AloneHasWritten == \A r \in Requests :
    At(r, "record") /\ request[r].alone /\ Exists(request[r].who) =>
        optIn[request[r].who][request[r].chan] = Target(request[r].kind)

NobodyAsks == \A r \in Requests :
    IsConsent(request[r]) => settled[request[r].who][request[r].chan] = "none"

WritersSawIt == \A r \in Requests, ch \in Channels :
    At(r, "write") /\ request[r].kind = "update" /\ settled[request[r].who][ch] # "none" =>
        request[r].seen[ch] = settled[request[r].who][ch]

NoRowNoConsent == \A c \in Contacts : ~Exists(c) => settled[c] = None

SettledInv ==
    /\ AloneIsAlone /\ AloneHasWritten /\ NobodyAsks /\ WritersSawIt /\ NoRowNoConsent
    /\ SettledStays

\* A settled opt-out makes the requests return that do not unsettle it.
LEMMA ProceedingUnsettles ==
    ASSUME NEW k \in Consents, NEW s \in Statuses, Proceeds(k, s)
    PROVE  Unsettles(k, s)
BY DEF Proceeds, Unsettles, Consents, Statuses

\* What a request that joins leaves as it was in the others.
LEMMA JoinsKeeps ==
    ASSUME ContactsTypeOK, NEW r \in Requests, NEW c \in Contacts, NEW q \in Consent,
           request' = Joins(q, r, c)
    PROVE  /\ request'[r] = q
           /\ \A o \in Requests \ {r} :
                /\ request'[o].step = request[o].step
                /\ request[o] \notin Consenting => request'[o] = request[o]
                /\ request[o] \in Consenting =>
                      /\ request'[o] \in Consenting
                      /\ request'[o].who = request[o].who
                      /\ request'[o].chan = request[o].chan
                      /\ request'[o].kind = request[o].kind
                      /\ request'[o].late = request[o].late
                      /\ request'[o].alone => request[o].alone /\ request[o].who # c
<1>1. ASSUME NEW o \in Requests \ {r}
      PROVE  request'[o] = IF request[o] \in Consenting /\ request[o].who = c
                           THEN [request[o] EXCEPT !.alone = FALSE] ELSE request[o]
  BY Shapes DEF Joins, ContactsTypeOK, Consent
<1>2. ASSUME NEW o \in Consenting
      PROVE  LET n == [o EXCEPT !.alone = FALSE] IN
             /\ n \in Consenting /\ n.step = o.step /\ n.who = o.who /\ n.chan = o.chan
             /\ n.kind = o.kind /\ n.late = o.late /\ n.alone = FALSE
  BY DEF Consenting
<1>3. request'[r] = q
  BY DEF Joins
<1>4. ASSUME NEW o \in Requests \ {r}, request'[o] = request[o],
             ~(request[o] \in Consenting /\ request[o].who = c)
      PROVE  /\ request'[o].step = request[o].step
             /\ request[o] \in Consenting => request[o].who # c
  BY <1>4
<1>5. ASSUME NEW o \in Requests \ {r}, request[o] \in Consenting, request[o].who = c
      PROVE  /\ request'[o].step = request[o].step
             /\ request'[o] \in Consenting
             /\ request'[o].who = request[o].who
             /\ request'[o].chan = request[o].chan
             /\ request'[o].kind = request[o].kind
             /\ request'[o].late = request[o].late
             /\ ~request'[o].alone
  BY <1>1, <1>2, <1>5
<1> QED
  BY <1>1, <1>3, <1>4, <1>5

LEMMA InitiallySettled == ContactsInit => SettledInv
BY DEF ContactsInit, SettledInv, AloneIsAlone, AloneHasWritten, NobodyAsks, WritersSawIt,
       NoRowNoConsent, SettledStays, At, IsConsent, Exists, None, Idle

\* A request that does nothing new: it is as it was, is over, has no contact yet,
\* or, as a consent request, may only have got from the list to the write.
Quiet(o) ==
    \/ request'[o] = request[o]
    \/ request'[o].step \in {"idle", "insert"}
    \/ /\ request[o] \in Consenting /\ request'[o] \in Consenting
       /\ request'[o].who = request[o].who /\ request'[o].chan = request[o].chan
       /\ request'[o].kind = request[o].kind /\ request'[o].alone = request[o].alone
       /\ \/ request'[o].step = request[o].step
          \/ request[o].step = "list" /\ request'[o].step = "write"

LEMMA QuietMeans ==
    ASSUME ContactsTypeOK, ContactsTypeOK', NEW o \in Requests, Quiet(o)
    PROVE  /\ \A c : WorksOn(request'[o], c) => WorksOn(request[o], c)
           /\ IsConsent(request'[o]) =>
                /\ IsConsent(request[o])
                /\ request'[o].who = request[o].who /\ request'[o].chan = request[o].chan
                /\ request'[o].kind = request[o].kind /\ request'[o].alone = request[o].alone
                /\ request'[o].who \in Contacts /\ request'[o].chan \in Channels
           /\ request'[o].step = "record" =>
                request[o].step = "record" /\ IsConsent(request'[o])
           /\ request'[o].step = "write" /\ request'[o].kind = "update" =>
                request'[o] = request[o] /\ request[o].who \in Contacts
<1>1. request[o] \in Consent /\ request'[o] \in Consent
  BY DEF ContactsTypeOK, Consent
<1>2. CASE request'[o] = request[o]
  BY <1>1, <1>2, Shapes DEF Updating, Consenting
<1>3. CASE request'[o].step \in {"idle", "insert"}
  BY <1>3 DEF WorksOn, IsConsent
<1>4. CASE request[o] \in Consenting /\ request'[o] \in Consenting
  BY <1>1, <1>4, Shapes DEF Quiet, WorksOn, Consenting
<1> QED
  BY <1>2, <1>3, <1>4 DEF Quiet

\* While every request is quiet only the tables matter, and if they stay, or a
\* contact goes with its consents, everything holds as before.
LEMMA QuietSettled ==
    ASSUME ContactsTypeOK, ContactsTypeOK', SettledInv, \A o \in Requests : Quiet(o),
           \A c \in Contacts :
               \/ optIn'[c] = optIn[c] /\ settled'[c] = settled[c] /\ phone'[c] = phone[c]
               \/ ~Exists(c)' /\ settled'[c] = None
    PROVE  SettledInv'
<1>1. AloneIsAlone'
  BY QuietMeans DEF SettledInv, AloneIsAlone
<1>2. AloneHasWritten'
  BY QuietMeans DEF SettledInv, AloneHasWritten, At, Exists
<1>3. NobodyAsks'
  BY QuietMeans DEF SettledInv, NobodyAsks, None
<1>4. WritersSawIt'
  BY QuietMeans DEF SettledInv, WritersSawIt, At, None
<1>5. NoRowNoConsent'
  BY DEF SettledInv, NoRowNoConsent, Exists
<1>6. SettledStays'
  BY DEF SettledInv, SettledStays, None
<1> QED
  BY <1>1, <1>2, <1>3, <1>4, <1>5, <1>6 DEF SettledInv

LEMMA EndsIsQuiet ==
    ASSUME ContactsTypeOK, NEW r \in Requests, Ends(r)
    PROVE  \A o \in Requests : Quiet(o)
BY DEF Ends, Quiet, Idle, ContactsTypeOK

LEMMA NotLateIsQuiet ==
    ASSUME ContactsTypeOK, NEW c \in Contacts, NEW o \in Requests,
           request'[o] = NotLate(c)[o]
    PROVE  Quiet(o)
<1>1. request'[o] = request[o] \/
        (request[o] \in Consenting /\ request'[o] = [request[o] EXCEPT !.late = FALSE])
  BY Shapes DEF NotLate, ContactsTypeOK, Consent
<1> QED
  BY <1>1 DEF Quiet, Consenting

LEMMA ReadsContactSettled ==
    ASSUME ContactsTypeOK, ContactsTypeOK', SettledInv,
           NEW r \in Requests, NEW k \in Consents, NEW c \in Contacts,
           NEW ch \in Channels, NEW e \in Expiries, ReadsContact(r, k, c, ch, e)
    PROVE  SettledInv'
<1> DEFINE q == [step |-> IF k = "confirm" THEN "list" ELSE "write",
                 kind |-> k, who |-> c, chan |-> ch, until |-> e,
                 alone |-> \A o \in Requests \ {r} : ~WorksOn(request[o], c),
                 late |-> k = "confirm" /\ QuestionIsOver(c, ch)]
<1>1. q \in Consenting /\ q \in Consent
  <2>1. (\A o \in Requests \ {r} : ~WorksOn(request[o], c)) \in BOOLEAN
    OBVIOUS
  <2>2. (k = "confirm" /\ QuestionIsOver(c, ch)) \in BOOLEAN
    OBVIOUS
  <2> HIDE DEF WorksOn, QuestionIsOver
  <2> QED
    BY <2>1, <2>2 DEF Consent, Consenting
<1>2. /\ q.who = c /\ q.chan = ch /\ q.kind = k /\ q.step \in {"list", "write"}
      /\ q.alone = \A o \in Requests \ {r} : ~WorksOn(request[o], c)
  OBVIOUS
<1>3. request' = Joins(q, r, c)
  BY DEF ReadsContact
<1> HIDE DEF q
<1>4. /\ request'[r] = q
      /\ \A o \in Requests \ {r} :
           /\ request'[o].step = request[o].step
           /\ request[o] \notin Consenting => request'[o] = request[o]
           /\ request[o] \in Consenting =>
                /\ request'[o] \in Consenting
                /\ request'[o].who = request[o].who
                /\ request'[o].chan = request[o].chan
                /\ request'[o].kind = request[o].kind
                /\ request'[o].alone => request[o].alone /\ request[o].who # c
  BY <1>1, <1>3, JoinsKeeps
<1>5. \A o \in Requests : request[o] \in Consent /\ request'[o] \in Consent
  BY DEF ContactsTypeOK, Consent
<1>6. \A o \in Requests \ {r} : \A d : WorksOn(request'[o], d) <=> WorksOn(request[o], d)
  BY <1>4, <1>5 DEF WorksOn
<1>7. UNCHANGED <<phone, optIn>> /\ settled'[c][ch] = "none"
  <2>1. settled[c][ch] # "none" => Unsettles(k, settled[c][ch])
    <3>1. Proceeds(k, optIn[c][ch]) /\ optIn[c][ch] \in Statuses
      BY DEF ReadsContact, ContactsTypeOK
    <3> QED
      BY <3>1, ProceedingUnsettles DEF SettledInv, SettledStays
  <2> QED
    BY <2>1 DEF ReadsContact, ContactsTypeOK
<1>8. \A d \in Contacts, x \in Channels :
          settled'[d][x] = settled[d][x] \/ settled'[d][x] = "none"
  BY DEF ReadsContact, ContactsTypeOK
<1>9. \A o \in Requests \ {r} : IsConsent(request'[o]) =>
          /\ IsConsent(request[o]) /\ request[o] \in Consenting
          /\ request[o].who \in Contacts /\ request[o].chan \in Channels
  BY <1>4, <1>5, Shapes DEF Consenting
<1>10. AloneIsAlone'
  <2>1. ASSUME NEW p \in Requests, IsConsent(request'[p]), request'[p].alone,
               NEW o \in Requests \ {p}
        PROVE  ~WorksOn(request'[o], request'[p].who)
    <3>1. CASE p = r
      BY <1>2, <1>4, <1>6, <2>1, <3>1
    <3>2. CASE p # r /\ o = r
      BY <1>2, <1>4, <1>9, <2>1, <3>2 DEF WorksOn
    <3>3. CASE p # r /\ o # r
      BY <1>4, <1>6, <1>9, <2>1, <3>3 DEF SettledInv, AloneIsAlone
    <3> QED
      BY <3>1, <3>2, <3>3
  <2> QED
    BY <2>1 DEF AloneIsAlone
<1>11. AloneHasWritten'
  <2>1. ASSUME NEW p \in Requests, request'[p].step = "record", request'[p].alone
        PROVE  /\ request[p].step = "record" /\ request[p].alone
               /\ request'[p].who = request[p].who /\ request'[p].chan = request[p].chan
               /\ request'[p].kind = request[p].kind
    BY <1>2, <1>4, <1>5, <2>1, Shapes
  <2> QED
    BY <1>7, <2>1 DEF SettledInv, AloneHasWritten, At, Exists
<1>12. NobodyAsks'
  BY <1>2, <1>4, <1>7, <1>8, <1>9 DEF SettledInv, NobodyAsks
<1>13. WritersSawIt'
  <2>1. ASSUME NEW p \in Requests, request'[p].step = "write", request'[p].kind = "update"
        PROVE  /\ request'[p] = request[p] /\ p # r
               /\ request[p].who \in Contacts
    BY <1>1, <1>2, <1>4, <1>5, <2>1, Shapes DEF Updating, Consents
  <2> QED
    BY <1>8, <2>1 DEF SettledInv, WritersSawIt, At
<1>14. NoRowNoConsent'
  BY <1>7 DEF ReadsContact, SettledInv, NoRowNoConsent, Exists, ContactsTypeOK
<1>15. SettledStays'
  BY <1>7, <1>8 DEF SettledInv, SettledStays
<1> QED
  BY <1>10, <1>11, <1>12, <1>13, <1>14, <1>15 DEF SettledInv

LEMMA BeginsUpdateSettled ==
    ASSUME ContactsTypeOK, ContactsTypeOK', SettledInv,
           NEW r \in Requests, NEW c \in Contacts, NEW p \in Phones, BeginsUpdate(r, c, p)
    PROVE  SettledInv'
<1> DEFINE q == [step |-> "write", kind |-> "update", who |-> c,
                 newPhone |-> p, seen |-> optIn[c]]
<1>1. q \in Consent /\ q \in Updating
  BY DEF Consent, Updating, ContactsTypeOK
<1>2. q.who = c /\ q.kind = "update" /\ q.step = "write" /\ q.seen = optIn[c]
  OBVIOUS
<1>3. request' = Joins(q, r, c)
  BY DEF BeginsUpdate
<1> HIDE DEF q
<1>4. /\ request'[r] = q
      /\ \A o \in Requests \ {r} :
           /\ request'[o].step = request[o].step
           /\ request[o] \notin Consenting => request'[o] = request[o]
           /\ request[o] \in Consenting =>
                /\ request'[o] \in Consenting
                /\ request'[o].who = request[o].who
                /\ request'[o].chan = request[o].chan
                /\ request'[o].kind = request[o].kind
                /\ request'[o].alone => request[o].alone /\ request[o].who # c
  BY <1>1, <1>3, JoinsKeeps
<1>5. \A o \in Requests : request[o] \in Consent /\ request'[o] \in Consent
  BY DEF ContactsTypeOK, Consent
<1>6. \A o \in Requests \ {r} : \A d : WorksOn(request'[o], d) <=> WorksOn(request[o], d)
  BY <1>4, <1>5 DEF WorksOn
<1>7. UNCHANGED <<phone, optIn, settled>>
  BY DEF BeginsUpdate
<1>8. ~IsConsent(request'[r])
  BY <1>2, <1>4 DEF IsConsent, Consents
<1>9. \A o \in Requests : IsConsent(request'[o]) =>
          /\ o # r /\ IsConsent(request[o]) /\ request[o] \in Consenting
          /\ request[o].who \in Contacts /\ request[o].chan \in Channels
  BY <1>4, <1>5, <1>8, Shapes DEF Consenting
<1>10. AloneIsAlone'
  BY <1>2, <1>4, <1>6, <1>9 DEF SettledInv, AloneIsAlone, WorksOn
<1>11. AloneHasWritten'
  <2>1. ASSUME NEW o \in Requests, request'[o].step = "record", request'[o].alone
        PROVE  /\ request[o].step = "record" /\ request[o].alone
               /\ request'[o].who = request[o].who /\ request'[o].chan = request[o].chan
               /\ request'[o].kind = request[o].kind
    BY <1>2, <1>4, <1>5, <2>1, Shapes
  <2> QED
    BY <1>7, <2>1 DEF SettledInv, AloneHasWritten, At, Exists
<1>12. NobodyAsks'
  BY <1>4, <1>7, <1>9 DEF SettledInv, NobodyAsks
<1>13. WritersSawIt'
  <2>1. ASSUME NEW o \in Requests \ {r}, request'[o].step = "write",
               request'[o].kind = "update"
        PROVE  request'[o] = request[o]
    BY <1>4, <1>5, <2>1, Shapes DEF Consenting, Consents
  <2>2. \A x \in Channels : settled[c][x] # "none" => q.seen[x] = settled[c][x]
    BY <1>2 DEF SettledInv, SettledStays
  <2> QED
    BY <1>2, <1>4, <1>7, <2>1, <2>2 DEF SettledInv, WritersSawIt, At
<1>14. NoRowNoConsent' /\ SettledStays'
  BY <1>7 DEF SettledInv, NoRowNoConsent, SettledStays, Exists
<1> QED
  BY <1>10, <1>11, <1>12, <1>13, <1>14 DEF SettledInv

LEMMA WritesOptInSettled ==
    ASSUME ContactsTypeOK, ContactsTypeOK', SettledInv,
           NEW r \in Requests, WritesOptIn(r)
    PROVE  SettledInv'
<1> DEFINE q == request[r]
<1>1. q \in Consenting
  BY Shapes DEF WritesOptIn, ContactsTypeOK, Consent
<1>2. q.who \in Contacts /\ q.chan \in Channels /\ IsConsent(q)
  BY <1>1, Shapes DEF Consenting, Consent
<1>3. request'[r] = [q EXCEPT !.step = "record"] /\ \A o \in Requests \ {r} : request'[o] = request[o]
  BY DEF WritesOptIn, GoTo, ContactsTypeOK
<1>15. \A o \in Requests \ {r} : request'[o] = request[o]
  BY <1>3
<1>4. /\ request'[r].step = "record" /\ request'[r].who = q.who /\ request'[r].chan = q.chan
      /\ request'[r].kind = q.kind /\ request'[r].alone = q.alone /\ IsConsent(request'[r])
  BY <1>1, <1>3 DEF Consenting, IsConsent
<1>5. UNCHANGED <<phone, settled>>
  BY DEF WritesOptIn
<1>6. /\ Exists(q.who) => optIn'[q.who][q.chan] = Target(q.kind)
      /\ \A c \in Contacts, ch \in Channels :
             c # q.who \/ ch # q.chan => optIn'[c][ch] = optIn[c][ch]
  BY <1>2 DEF WritesOptIn, ContactsTypeOK
<1>7. \A o \in Requests : \A c : WorksOn(request'[o], c) <=> WorksOn(request[o], c)
  BY <1>2, <1>15, <1>4 DEF WorksOn, IsConsent
<1>8. settled[q.who][q.chan] = "none"
  BY <1>2 DEF SettledInv, NobodyAsks
<1>9. AloneIsAlone'
  BY <1>2, <1>15, <1>4, <1>7 DEF SettledInv, AloneIsAlone
<1>10. AloneHasWritten'
  <2>1. ASSUME NEW p \in Requests \ {r}, At(p, "record"), request[p].alone,
               Exists(request[p].who)
        PROVE  optIn'[request[p].who][request[p].chan] = Target(request[p].kind)
    <3>1. request[p] \in Consenting
      BY <2>1, Shapes DEF At, ContactsTypeOK, Consent
    <3>2. ~WorksOn(q, request[p].who)
      BY <2>1, <3>1, Shapes DEF SettledInv, AloneIsAlone, Consent
    <3>3. request[p].who # q.who
      BY <1>2, <3>2 DEF WorksOn, IsConsent
    <3> QED
      BY <1>6, <2>1, <3>1, <3>3 DEF SettledInv, AloneHasWritten, Consenting
  <2> QED
    <3>1. \A p \in Requests : At(p, "record")' /\ p # r => At(p, "record")
      BY <1>15 DEF At
    <3>2. ASSUME NEW p \in Requests, At(p, "record")', request'[p].alone,
                 Exists(request[p].who)'
          PROVE  optIn'[request'[p].who][request'[p].chan] = Target(request'[p].kind)
      <4>1. CASE p = r
        BY <1>4, <1>5, <1>6, <3>2, <4>1 DEF Exists
      <4>2. CASE p # r
        BY <1>15, <1>5, <2>1, <3>1, <3>2, <4>2 DEF Exists
      <4> QED
        BY <4>1, <4>2
    <3> QED
      BY <3>2 DEF AloneHasWritten
<1>11. NobodyAsks'
  <2>1. ASSUME NEW p \in Requests, IsConsent(request'[p])
        PROVE  settled'[request'[p].who][request'[p].chan] = "none"
    <3>1. CASE p = r
      BY <1>4, <1>5, <1>8, <3>1
    <3>2. CASE p # r
      BY <1>15, <1>5, <2>1, <3>2 DEF SettledInv, NobodyAsks
    <3> QED
      BY <3>1, <3>2
  <2> QED
    BY <2>1 DEF NobodyAsks
<1>12. WritersSawIt'
  <2>1. ASSUME NEW p \in Requests, At(p, "write")', request'[p].kind = "update"
        PROVE  p # r
    BY <1>4, <2>1 DEF At
  <2> QED
    BY <1>15, <1>5, <2>1 DEF SettledInv, WritersSawIt, At
<1>13. NoRowNoConsent'
  BY <1>5 DEF SettledInv, NoRowNoConsent, Exists
<1>14. SettledStays'
  BY <1>5, <1>6, <1>8 DEF SettledInv, SettledStays
<1> QED
  BY <1>9, <1>10, <1>11, <1>12, <1>13, <1>14 DEF SettledInv

LEMMA WritesContactSettled ==
    ASSUME ContactsTypeOK, ContactsTypeOK', SettledInv,
           NEW r \in Requests, WritesContact(r)
    PROVE  SettledInv'
<1> DEFINE q == request[r]
<1>1. q \in Updating /\ q.step = "write" /\ q.kind = "update"
  BY Shapes DEF WritesContact, At, ContactsTypeOK, Consent
<1>2. q.who \in Contacts /\ q.newPhone \in Phones /\ WorksOn(q, q.who)
  BY <1>1 DEF Updating, WorksOn
<1>3. request'[r] = Idle /\ (\A o \in Requests \ {r} : request'[o] = request[o])
      /\ settled' = settled
  BY DEF WritesContact, Ends, ContactsTypeOK
<1>4. CASE phone' = phone /\ optIn' = optIn
  <2>1. \A o \in Requests : Quiet(o)
    BY EndsIsQuiet DEF WritesContact
  <2> QED
    BY <1>3, <1>4, <2>1, QuietSettled
<1>5. CASE /\ Exists(q.who) /\ phone' = [phone EXCEPT ![q.who] = q.newPhone]
           /\ optIn' = [optIn EXCEPT ![q.who] = q.seen]
  <2>1. \A c \in Contacts : Exists(c)' <=> Exists(c)
    BY <1>2, <1>5, ContactsAssumption DEF Exists, ContactsTypeOK
  <2>2. /\ optIn'[q.who] = q.seen
        /\ \A c \in Contacts \ {q.who} : optIn'[c] = optIn[c]
    BY <1>2, <1>5 DEF ContactsTypeOK
  <2>3. ~IsConsent(Idle) /\ (\A c : ~WorksOn(Idle, c)) /\ Idle.step = "idle"
    BY DEF Idle, IsConsent, WorksOn
  <2>4. AloneIsAlone' /\ NobodyAsks'
    BY <1>3, <2>3 DEF SettledInv, AloneIsAlone, NobodyAsks
  <2>5. AloneHasWritten'
    <3>1. ASSUME NEW p \in Requests \ {r}, At(p, "record"), request[p].alone,
                 Exists(request[p].who)
          PROVE  optIn'[request[p].who][request[p].chan] = Target(request[p].kind)
      <4>1. request[p] \in Consenting /\ IsConsent(request[p])
        BY <3>1, Shapes DEF At, ContactsTypeOK, Consent
      <4>2. request[p].who # q.who /\ request[p].who \in Contacts
        BY <1>2, <3>1, <4>1 DEF SettledInv, AloneIsAlone, Consenting
      <4> QED
        BY <2>2, <3>1, <4>2 DEF SettledInv, AloneHasWritten
    <3>2. \A p \in Requests : At(p, "record")' => p # r /\ request[p] \in Consenting
      BY <1>3, <2>3, Shapes DEF At, ContactsTypeOK, Consent
    <3> QED
      BY <1>3, <2>1, <3>1, <3>2 DEF AloneHasWritten, At, Consenting
  <2>6. WritersSawIt'
    BY <1>3, <2>3 DEF SettledInv, WritersSawIt, At
  <2>7. NoRowNoConsent'
    BY <1>3, <2>1 DEF SettledInv, NoRowNoConsent
  <2>8. SettledStays'
    BY <1>1, <1>2, <1>3, <2>2 DEF SettledInv, SettledStays, WritersSawIt, At
  <2> QED
    BY <2>4, <2>5, <2>6, <2>7, <2>8 DEF SettledInv
<1> QED
  BY <1>4, <1>5 DEF WritesContact

LEMMA CreatesRecordSettled ==
    ASSUME ContactsTypeOK, ContactsTypeOK', SettledInv,
           NEW r \in Requests, CreatesRecord(r)
    PROVE  SettledInv'
<1> DEFINE q == request[r]
<1>1. q \in Consenting /\ IsConsent(q) /\ q.step = "record"
  BY Shapes DEF CreatesRecord, At, ContactsTypeOK, Consent
<1>2. q.who \in Contacts /\ q.chan \in Channels
  BY <1>1 DEF Consenting
<1>3. \A o \in Requests : Quiet(o)
  <2>1. CASE Exists(q.who)
    <3>1. request'[r] = Idle /\ \A o \in Requests \ {r} : request'[o] = NotLate(q.who)[o]
      BY <2>1 DEF CreatesRecord, NotLate
    <3>2. Quiet(r)
      BY <3>1 DEF Quiet, Idle
    <3> QED
      BY <1>2, <3>1, <3>2, NotLateIsQuiet
  <2>2. CASE ~Exists(q.who)
    BY <2>2, EndsIsQuiet DEF CreatesRecord
  <2> QED
    BY <2>1, <2>2
<1>4. UNCHANGED <<phone, optIn>>
  BY DEF CreatesRecord
<1>5. CASE settled' = settled
  BY <1>3, <1>4, <1>5, QuietSettled
<1>6. CASE /\ Exists(q.who) /\ q.alone
           /\ settled' = [settled EXCEPT ![q.who][q.chan] = Target(q.kind)]
  <2>1. /\ settled'[q.who][q.chan] = Target(q.kind)
        /\ \A c \in Contacts, ch \in Channels :
               c # q.who \/ ch # q.chan => settled'[c][ch] = settled[c][ch]
        /\ \A c \in Contacts \ {q.who} : settled'[c] = settled[c]
    BY <1>2, <1>6 DEF ContactsTypeOK
  <2>2. optIn[q.who][q.chan] = Target(q.kind)
    BY <1>1, <1>6 DEF SettledInv, AloneHasWritten, At
  <2>3. request'[r] = Idle
    BY <1>6 DEF CreatesRecord, NotLate
  <2>4. \A o \in Requests : ~WorksOn(request'[o], q.who)
    BY <1>1, <1>3, <1>6, <2>3, QuietMeans DEF SettledInv, AloneIsAlone, WorksOn, Idle
  <2>5. AloneIsAlone'
    BY <1>3, QuietMeans DEF SettledInv, AloneIsAlone
  <2>6. AloneHasWritten'
    BY <1>3, <1>4, QuietMeans DEF SettledInv, AloneHasWritten, At, Exists
  <2>7. NobodyAsks'
    BY <1>3, <2>1, <2>4, QuietMeans DEF SettledInv, NobodyAsks, WorksOn, IsConsent
  <2>8. WritersSawIt'
    BY <1>3, <2>1, <2>4, QuietMeans DEF SettledInv, WritersSawIt, At, WorksOn
  <2>9. NoRowNoConsent'
    BY <1>4, <1>6, <2>1 DEF SettledInv, NoRowNoConsent, Exists
  <2>10. SettledStays'
    BY <1>4, <2>1, <2>2 DEF SettledInv, SettledStays
  <2> QED
    BY <2>5, <2>6, <2>7, <2>8, <2>9, <2>10 DEF SettledInv
<1> QED
  BY <1>5, <1>6 DEF CreatesRecord

LEMMA InsertsContactSettled ==
    ASSUME ContactsTypeOK, ContactsTypeOK', SettledInv,
           NEW r \in Requests, InsertsContact(r)
    PROVE  SettledInv'
<1>1. \A o \in Requests : Quiet(o)
  BY EndsIsQuiet DEF InsertsContact
<1>2. settled' = settled
  BY DEF InsertsContact
<1>3. CASE UNCHANGED <<phone, optIn>>
  BY <1>1, <1>2, <1>3, QuietSettled
<1>4. ASSUME NEW c \in Contacts, ~Exists(c), \A o \in Requests : ~WorksOn(request[o], c),
             phone' = [phone EXCEPT ![c] = request[r].newPhone],
             optIn' = [optIn EXCEPT ![c] = Unknown]
      PROVE  SettledInv'
  <2>1. settled[c] = None /\ \A ch \in Channels : settled[c][ch] = "none"
    BY <1>4 DEF SettledInv, NoRowNoConsent, None
  <2>2. \A d \in Contacts \ {c} : phone'[d] = phone[d] /\ optIn'[d] = optIn[d]
    BY <1>4 DEF ContactsTypeOK
  <2>3. \A o \in Requests : ~WorksOn(request'[o], c)
    BY <1>1, <1>4, QuietMeans
  <2>4. AloneIsAlone'
    BY <1>1, QuietMeans DEF SettledInv, AloneIsAlone
  <2>5. AloneHasWritten'
    BY <1>1, <2>2, <2>3, QuietMeans DEF SettledInv, AloneHasWritten, At, Exists, WorksOn
  <2>6. NobodyAsks' /\ WritersSawIt'
    BY <1>1, <1>2, QuietMeans DEF SettledInv, NobodyAsks, WritersSawIt, At
  <2>7. NoRowNoConsent'
    BY <1>2, <2>1, <2>2 DEF SettledInv, NoRowNoConsent, Exists
  <2>8. SettledStays'
    BY <1>2, <2>1, <2>2 DEF SettledInv, SettledStays
  <2> QED
    BY <2>4, <2>5, <2>6, <2>7, <2>8 DEF SettledInv
<1> QED
  BY <1>3, <1>4 DEF InsertsContact

LEMMA ContactsStepSettled ==
    ASSUME ContactsTypeOK, SettledInv, [ContactsNext]_contactVars
    PROVE  SettledInv'
<1>8. ContactsTypeOK'
  BY ContactsStepType
<1>1. ASSUME NEW r \in Requests, NEW k \in Consents, NEW c \in Contacts, NEW ch \in Channels,
             BeginsConsent(r, k, c, ch)
      PROVE  SettledInv'
  BY <1>1, <1>8, ReadsContactSettled DEF BeginsConsent, MayExpire, Expiries
<1>2. ASSUME NEW r \in Requests, NEW p \in Phones, LooksForPhone(r, p)
      PROVE  SettledInv'
  <2>1. \A o \in Requests : Quiet(o)
    BY <1>2 DEF LooksForPhone, Quiet, ContactsTypeOK
  <2> QED
    BY <1>2, <1>8, <2>1, QuietSettled DEF LooksForPhone
<1>3. ASSUME NEW r \in Requests, ListsRecords(r)
      PROVE  SettledInv'
  <2>1. request[r] \in Consenting /\ request[r].step = "list"
    BY <1>3, Shapes DEF ListsRecords, At, ContactsTypeOK, Consent
  <2>2. CASE Ends(r)
    BY <1>3, <1>8, <2>2, EndsIsQuiet, QuietSettled DEF ListsRecords
  <2>3. CASE GoTo(r, "write")
    <3>1. \A o \in Requests : Quiet(o)
      BY <2>1, <2>3 DEF GoTo, Quiet, ContactsTypeOK, Consenting
    <3> QED
      BY <1>3, <1>8, <3>1, QuietSettled DEF ListsRecords
  <2> QED
    BY <1>3, <2>2, <2>3 DEF ListsRecords
<1>4. ASSUME NEW c \in Contacts, Deletes(c)
      PROVE  SettledInv'
  <2>1. \A o \in Requests : Quiet(o)
    BY <1>4, NotLateIsQuiet DEF Deletes
  <2>2. \A d \in Contacts :
            \/ optIn'[d] = optIn[d] /\ settled'[d] = settled[d] /\ phone'[d] = phone[d]
            \/ ~Exists(d)' /\ settled'[d] = None
    BY <1>4 DEF Deletes, Exists, ContactsTypeOK
  <2> QED
    BY <1>8, <2>1, <2>2, QuietSettled
<1>5. ASSUME NEW r \in Requests, Fails(r)
      PROVE  SettledInv'
  BY <1>5, <1>8, EndsIsQuiet, QuietSettled DEF Fails
<1>6. CASE QuestionsExpire
  BY <1>6, <1>8, QuietSettled DEF QuestionsExpire, Quiet
<1>7. CASE UNCHANGED contactVars
  BY <1>7, <1>8, QuietSettled DEF contactVars, Quiet
<1> QED
  BY <1>8, <1>1, <1>2, <1>3, <1>4, <1>5, <1>6, <1>7, BeginsUpdateSettled, WritesOptInSettled,
     WritesContactSettled, CreatesRecordSettled, InsertsContactSettled
  DEF ContactsNext, BeginsCreate, BeginsImport

\* What a contact decided, undisturbed, stays until somebody asks for another
\* status: no update, import, confirmation or repeated request changes it.
THEOREM SettledConsentStays == ContactsSpec => []SettledStays
<1>1. ContactsInit => ContactsTypeOK /\ SettledInv
  BY InitialTypes, InitiallySettled
<1>2. ContactsTypeOK /\ SettledInv /\ [ContactsNext]_contactVars
          => (ContactsTypeOK /\ SettledInv)'
  BY ContactsStepType, ContactsStepSettled
<1>3. SettledInv => SettledStays
  BY DEF SettledInv
<1> QED
  BY <1>1, <1>2, <1>3, PTL DEF ContactsSpec
-----------------------------------------------------------------------------
(* The evidence of a settled consent.  Its record comes with it, and while it  *)
(* is settled nobody asks (NobodyAsks), so no newer one is of its channel.     *)

\* A new record in front moves the others by one place.
LEMMA InFront ==
    ASSUME NEW l \in Seq(Record), NEW e \in Record
    PROVE  LET n == <<e>> \o l IN
           /\ n[1] = e /\ 1 \in DOMAIN n
           /\ \A i \in DOMAIN l : i + 1 \in DOMAIN n /\ n[i + 1] = l[i]
OBVIOUS

\* No record is made, and no consent is settled anew.
LEMMA RecordedStays ==
    ASSUME ContactsTypeOK, SettledIsRecorded, NEW c \in Contacts, NEW ch \in Channels,
           records'[c] = records[c], settled'[c][ch] = settled[c][ch],
           settled[c][ch] # "none"
    PROVE  \E i \in DOMAIN records'[c] :
               /\ records'[c][i].channel = ch /\ records'[c][i].status = settled'[c][ch]
               /\ \A j \in 1 .. i - 1 : records'[c][j].channel # ch
BY DEF SettledIsRecorded

LEMMA CreatesRecordRecorded ==
    ASSUME ContactsTypeOK, ContactsTypeOK', SettledInv, SettledIsRecorded,
           NEW r \in Requests, CreatesRecord(r)
    PROVE  SettledIsRecorded'
<1> DEFINE q == request[r]
           e == Evidence(q)
<1>1. q \in Consenting /\ IsConsent(q)
  BY Shapes DEF CreatesRecord, At, ContactsTypeOK, Consent
<1>2. q.who \in Contacts /\ q.chan \in Channels /\ e \in Record
  BY <1>1, TargetType DEF Consenting, Evidence, Record
<1>3. settled[q.who][q.chan] = "none"
  BY <1>1 DEF SettledInv, NobodyAsks
<1>4. CASE ~Exists(q.who)
  BY <1>4, RecordedStays DEF CreatesRecord, SettledIsRecorded
<1>5. CASE Exists(q.who)
  <2>1. SUFFICES ASSUME NEW c \in Contacts, NEW ch \in Channels, settled'[c][ch] # "none"
                 PROVE  \E i \in DOMAIN records'[c] :
                            /\ records'[c][i].channel = ch
                            /\ records'[c][i].status = settled'[c][ch]
                            /\ \A j \in 1 .. i - 1 : records'[c][j].channel # ch
    BY DEF SettledIsRecorded
  <2>2. /\ records' = [records EXCEPT ![q.who] = <<e>> \o @]
        /\ settled' = IF q.alone
                      THEN [settled EXCEPT ![q.who][q.chan] = Target(q.kind)] ELSE settled
    BY <1>5 DEF CreatesRecord
  <2>3. /\ e.channel = q.chan /\ e.status = Target(q.kind)
        /\ records[q.who] \in Seq(Record)
    BY <1>2 DEF Evidence, ContactsTypeOK
  <2> HIDE DEF q, e
  <2>4. /\ records'[q.who] = <<e>> \o records[q.who]
        /\ \A d \in Contacts \ {q.who} : records'[d] = records[d]
    BY <1>2, <2>2 DEF ContactsTypeOK
  <2>5. CASE c # q.who
    <3>1. settled'[c][ch] = settled[c][ch]
      BY <1>2, <2>2, <2>5 DEF ContactsTypeOK
    <3> QED
      BY <2>1, <2>4, <2>5, <3>1, RecordedStays
  <2>6. CASE c = q.who /\ ch = q.chan
    <3>1. settled'[c][ch] = Target(q.kind)
      BY <1>2, <1>3, <2>1, <2>2, <2>6 DEF ContactsTypeOK
    <3>2. records'[c][1] = e /\ 1 \in DOMAIN records'[c]
      BY <1>2, <2>3, <2>4, <2>6, InFront
    <3> QED
      BY <2>3, <2>6, <3>1, <3>2
  <2>7. CASE c = q.who /\ ch # q.chan
    <3>1. settled'[c][ch] = settled[c][ch]
      BY <1>2, <2>2, <2>7 DEF ContactsTypeOK
    <3>2. PICK i \in DOMAIN records[c] :
              /\ records[c][i].channel = ch /\ records[c][i].status = settled[c][ch]
              /\ \A j \in 1 .. i - 1 : records[c][j].channel # ch
      BY <2>1, <3>1 DEF SettledIsRecorded
    <3>3. i \in Nat \ {0} /\ DOMAIN records[c] = 1 .. Len(records[c]) /\ Len(records[c]) \in Nat
      BY <2>3, <2>7
    <3>4. /\ records'[c][1] = e
          /\ \A k \in DOMAIN records[c] :
                 k + 1 \in DOMAIN records'[c] /\ records'[c][k + 1] = records[c][k]
      BY <1>2, <2>3, <2>4, <2>7, InFront
    <3>5. ASSUME NEW j \in 1 .. i PROVE records'[c][j].channel # ch
      <4>1. CASE j = 1
        BY <2>3, <2>7, <3>4, <4>1
      <4>2. CASE j # 1
        <5>1. j - 1 \in 1 .. i - 1 /\ j - 1 \in DOMAIN records[c] /\ (j - 1) + 1 = j
          BY <3>2, <3>3, <3>5, <4>2
        <5> QED
          BY <3>2, <3>4, <5>1
      <4> QED
        BY <4>1, <4>2
    <3>6. (i + 1) - 1 = i
      BY <3>3
    <3> QED
      BY <3>1, <3>2, <3>4, <3>5, <3>6
  <2> QED
    BY <2>5, <2>6, <2>7
<1> QED
  BY <1>4, <1>5

LEMMA ReadsContactRecorded ==
    ASSUME ContactsTypeOK, SettledIsRecorded,
           NEW r, NEW k, NEW c, NEW ch, NEW e, ReadsContact(r, k, c, ch, e)
    PROVE  SettledIsRecorded'
<1>1. /\ records' = records
      /\ \A d \in Contacts, x \in Channels : settled'[d][x] \in {settled[d][x], "none"}
  BY DEF ReadsContact, ContactsTypeOK
<1> QED
  BY <1>1, RecordedStays DEF SettledIsRecorded

\* Time changes no record's channel or status.
LEMMA ExpiringKeeps ==
    ASSUME ContactsTypeOK, QuestionsExpire, NEW c \in Contacts
    PROVE  /\ DOMAIN records'[c] = DOMAIN records[c]
           /\ \A i \in DOMAIN records[c] :
                 /\ records'[c][i].channel = records[c][i].channel
                 /\ records'[c][i].status = records[c][i].status
                 /\ records'[c][i].expires = Ages(records[c][i].expires)
                 /\ records'[c][i] \in Record
<1>1. records'[c] = [i \in DOMAIN records[c] |-> [records[c][i] EXCEPT !.expires = Ages(@)]]
  BY DEF QuestionsExpire
<1>2. \A i \in DOMAIN records[c] : records[c][i] \in Record
  BY DEF ContactsTypeOK
<1>3. ASSUME NEW e \in Record
      PROVE  LET n == [e EXCEPT !.expires = Ages(@)] IN
             /\ n.channel = e.channel /\ n.status = e.status /\ n.expires = Ages(e.expires)
             /\ n \in Record
  BY DEF Record, Ages, Expiries
<1> QED
  BY <1>1, <1>2, <1>3

LEMMA ContactsStepRecorded ==
    ASSUME ContactsTypeOK, ContactsTypeOK', SettledInv, SettledIsRecorded,
           [ContactsNext]_contactVars
    PROVE  SettledIsRecorded'
<1>1. ASSUME records' = records,
             \A c \in Contacts, ch \in Channels : settled'[c][ch] \in {settled[c][ch], "none"}
      PROVE  SettledIsRecorded'
  BY <1>1, RecordedStays DEF SettledIsRecorded
<1>2. ASSUME NEW r, NEW k, NEW c, NEW ch, BeginsConsent(r, k, c, ch)
      PROVE  SettledIsRecorded'
  BY <1>2, ReadsContactRecorded DEF BeginsConsent
<1>3. ASSUME NEW c \in Contacts, Deletes(c) PROVE SettledIsRecorded'
  <2>1. /\ settled'[c] = None
        /\ \A d \in Contacts \ {c} : records'[d] = records[d] /\ settled'[d] = settled[d]
    BY <1>3 DEF Deletes, ContactsTypeOK
  <2> QED
    BY <2>1, RecordedStays DEF SettledIsRecorded, None
<1>4. CASE QuestionsExpire
  <2>1. settled' = settled
    BY <1>4 DEF QuestionsExpire
  <2>2. SUFFICES ASSUME NEW c \in Contacts, NEW ch \in Channels, settled[c][ch] # "none"
                 PROVE  \E i \in DOMAIN records'[c] :
                            /\ records'[c][i].channel = ch
                            /\ records'[c][i].status = settled[c][ch]
                            /\ \A j \in 1 .. i - 1 : records'[c][j].channel # ch
    BY <2>1 DEF SettledIsRecorded
  <2>3. PICK i \in DOMAIN records[c] :
            /\ records[c][i].channel = ch /\ records[c][i].status = settled[c][ch]
            /\ \A j \in 1 .. i - 1 : records[c][j].channel # ch
    BY <2>2 DEF SettledIsRecorded
  <2>4. \A j \in 1 .. i - 1 : j \in DOMAIN records[c]
    BY <2>3 DEF ContactsTypeOK
  <2> QED
    BY <1>4, <2>3, <2>4, ExpiringKeeps
<1>5. ASSUME UNCHANGED <<records, settled>> PROVE SettledIsRecorded'
  BY <1>1, <1>5
<1> QED
  BY <1>2, <1>3, <1>4, <1>5, CreatesRecordRecorded
  DEF ContactsNext, contactVars, BeginsUpdate, BeginsCreate, BeginsImport, LooksForPhone,
      ListsRecords, WritesOptIn, WritesContact, InsertsContact, Fails

\* The newest consent record of a channel says what was settled for it.
THEOREM SettledHasEvidence == ContactsSpec => []SettledIsRecorded
<1>1. ContactsInit => ContactsTypeOK /\ SettledInv /\ SettledIsRecorded
  BY InitialTypes, InitiallySettled DEF ContactsInit, SettledIsRecorded, None
<1>2. ContactsTypeOK /\ SettledInv /\ SettledIsRecorded /\ [ContactsNext]_contactVars
          => (ContactsTypeOK /\ SettledInv /\ SettledIsRecorded)'
  BY ContactsStepType, ContactsStepSettled, ContactsStepRecorded
<1> QED
  BY <1>1, <1>2, PTL DEF ContactsSpec
-----------------------------------------------------------------------------
(* A late confirmation.  It has only read the contact, and the question it     *)
(* came too late for is still the newest record, so the list ends it.          *)

LateInv == \A r \in Requests : IsConsent(request[r]) /\ request[r].late =>
    At(r, "list") /\ QuestionIsOver(request[r].who, request[r].chan)

\* If o is late after the step, it was so before, and its records are as they were.
StillLate(o) == IsConsent(request'[o]) /\ request'[o].late =>
    /\ IsConsent(request[o]) /\ request[o].late /\ request'[o].step = request[o].step
    /\ request'[o].who = request[o].who /\ request'[o].chan = request[o].chan
    /\ records'[request[o].who] = records[request[o].who]

LEMMA StillLateInv ==
    ASSUME LateInv, \A o \in Requests : StillLate(o)
    PROVE  LateInv'
BY DEF LateInv, StillLate, At, QuestionIsOver

LEMMA SameIsStillLate ==
    ASSUME NEW r, records' = records, \A o \in Requests \ {r} : request'[o] = request[o],
           r \in Requests => ~IsConsent(request'[r]) \/ ~request'[r].late
    PROVE  \A o \in Requests : StillLate(o)
BY DEF StillLate

LEMMA NotLateIsStillLate ==
    ASSUME ContactsTypeOK, NEW c \in Contacts, NEW o \in Requests,
           request'[o] = NotLate(c)[o], \A d \in Contacts \ {c} : records'[d] = records[d]
    PROVE  StillLate(o)
<1>1. request[o] \in Consent
  BY DEF ContactsTypeOK, Consent
<1>2. CASE IsConsent(request[o]) /\ request[o].who = c
  BY <1>1, <1>2, Shapes DEF NotLate, StillLate, Consenting
<1>3. CASE ~(IsConsent(request[o]) /\ request[o].who = c)
  BY <1>1, <1>3, Shapes DEF NotLate, StillLate, Consenting
<1> QED
  BY <1>2, <1>3

\* A question that is over and is the newest record is found by ConfirmOptIn.
LEMMA OverIsFound ==
    ASSUME ContactsTypeOK, NEW c \in Contacts, NEW ch, QuestionIsOver(c, ch)
    PROVE  PendingConsentExpired(c, ch)
<1>1. records[c] \in Seq(Record) /\ records[c] # <<>>
  BY DEF QuestionIsOver, ContactsTypeOK
<1>2. 1 \in FirstPage(c)
  BY <1>1, ContactsAssumption DEF FirstPage
<1>3. /\ Asks(records[c][1], ch) /\ records[c][1].expires = "past"
      /\ \A j \in 1 .. 1 - 1 : ~Asks(records[c][j], ch)
  BY DEF QuestionIsOver, Asks
<1> QED
  BY <1>2, <1>3 DEF PendingConsentExpired

LEMMA ReadsContactLate ==
    ASSUME ContactsTypeOK, ContactsTypeOK', LateInv,
           NEW r \in Requests, NEW k \in Consents, NEW c \in Contacts,
           NEW ch \in Channels, NEW e \in Expiries, ReadsContact(r, k, c, ch, e)
    PROVE  LateInv'
<1> DEFINE q == [step |-> IF k = "confirm" THEN "list" ELSE "write",
                 kind |-> k, who |-> c, chan |-> ch, until |-> e,
                 alone |-> \A o \in Requests \ {r} : ~WorksOn(request[o], c),
                 late |-> k = "confirm" /\ QuestionIsOver(c, ch)]
<1>1. q \in Consent
  <2>1. (\A o \in Requests \ {r} : ~WorksOn(request[o], c)) \in BOOLEAN
    OBVIOUS
  <2>2. (k = "confirm" /\ QuestionIsOver(c, ch)) \in BOOLEAN
    OBVIOUS
  <2> HIDE DEF WorksOn, QuestionIsOver
  <2> QED
    BY <2>1, <2>2 DEF Consent, Consenting
<1>2. q.who = c /\ q.chan = ch /\ (q.late => q.step = "list" /\ QuestionIsOver(c, ch))
  OBVIOUS
<1>3. request' = Joins(q, r, c) /\ records' = records
  BY DEF ReadsContact
<1>4. \A o \in Requests : request[o] \in Consent /\ request'[o] \in Consent
  BY DEF ContactsTypeOK, Consent
<1> HIDE DEF q
<1>5. request'[r] = q /\ \A o \in Requests \ {r} : StillLate(o)
  BY <1>1, <1>3, <1>4, JoinsKeeps, Shapes DEF StillLate
<1> QED
  BY <1>2, <1>3, <1>5 DEF LateInv, StillLate, At, QuestionIsOver

LEMMA ContactsStepLate ==
    ASSUME ContactsTypeOK, ContactsTypeOK', LateInv, [ContactsNext]_contactVars
    PROVE  LateInv'
<1>1. \A o \in Requests : request[o] \in Consent /\ request'[o] \in Consent
  BY DEF ContactsTypeOK, Consent
<1>2. ASSUME NEW r \in Requests, NEW k \in Consents, NEW c \in Contacts, NEW ch \in Channels,
             NEW e \in Expiries, ReadsContact(r, k, c, ch, e)
      PROVE  LateInv'
  BY <1>2, ReadsContactLate
<1>3. ASSUME NEW r \in Requests, NEW c \in Contacts, NEW p \in Phones, BeginsUpdate(r, c, p)
      PROVE  LateInv'
  <2> DEFINE q == [step |-> "write", kind |-> "update", who |-> c,
                   newPhone |-> p, seen |-> optIn[c]]
  <2>1. q \in Consent /\ ~IsConsent(q)
    BY DEF Consent, Updating, ContactsTypeOK, IsConsent, Consents
  <2>2. request' = Joins(q, r, c) /\ records' = records
    BY <1>3 DEF BeginsUpdate
  <2> HIDE DEF q
  <2>3. \A o \in Requests : StillLate(o)
    BY <1>1, <2>1, <2>2, JoinsKeeps, Shapes DEF StillLate
  <2> QED
    BY <2>3, StillLateInv
<1>4. ASSUME NEW r \in Requests, ListsRecords(r) PROVE LateInv'
  <2>1. request[r] \in Consenting /\ IsConsent(request[r])
    BY <1>4, Shapes, <1>1 DEF ListsRecords, At
  <2>2. request[r].late => Ends(r)
    BY <1>4, <2>1, OverIsFound DEF LateInv, ListsRecords, Consenting
  <2>3. /\ records' = records /\ \A o \in Requests \ {r} : request'[o] = request[o]
        /\ ~IsConsent(request'[r]) \/ ~request'[r].late
    BY <1>4, <2>1, <2>2 DEF ListsRecords, Ends, GoTo, ContactsTypeOK, Consenting, IsConsent, Idle
  <2> QED
    BY <2>3, SameIsStillLate, StillLateInv
<1>5. ASSUME NEW r \in Requests, WritesOptIn(r) PROVE LateInv'
  <2>1. request[r] \in Consenting /\ ~request[r].late
    BY <1>1, <1>5, Shapes DEF WritesOptIn, LateInv, At
  <2>2. /\ records' = records /\ \A o \in Requests \ {r} : request'[o] = request[o]
        /\ ~request'[r].late
    BY <1>5, <2>1 DEF WritesOptIn, GoTo, ContactsTypeOK, Consenting
  <2> QED
    BY <2>2, SameIsStillLate, StillLateInv
<1>6. ASSUME NEW r \in Requests, Ends(r), records' = records PROVE LateInv'
  <2>1. (\A o \in Requests \ {r} : request'[o] = request[o]) /\ ~IsConsent(request'[r])
    BY <1>6 DEF Ends, ContactsTypeOK, IsConsent, Idle
  <2> QED
    BY <1>6, <2>1, SameIsStillLate, StillLateInv
<1>7. ASSUME NEW r \in Requests, NEW p, LooksForPhone(r, p) PROVE LateInv'
  <2>1. (\A o \in Requests \ {r} : request'[o] = request[o]) /\ ~IsConsent(request'[r])
        /\ records' = records
    BY <1>7 DEF LooksForPhone, ContactsTypeOK, IsConsent
  <2> QED
    BY <2>1, SameIsStillLate, StillLateInv
<1>8. ASSUME NEW r \in Requests, CreatesRecord(r), Exists(request[r].who) PROVE LateInv'
  <2>1. request[r].who \in Contacts
    BY <1>1, <1>8, Shapes DEF CreatesRecord, At, Consenting
  <2>2. /\ \A d \in Contacts \ {request[r].who} : records'[d] = records[d]
        /\ request' = [NotLate(request[r].who) EXCEPT ![r] = Idle]
    BY <1>8 DEF CreatesRecord, ContactsTypeOK
  <2>3. request'[r] = Idle /\ \A o \in Requests \ {r} : request'[o] = NotLate(request[r].who)[o]
    BY <2>2 DEF NotLate
  <2>4. ~IsConsent(Idle)
    BY DEF IsConsent, Idle
  <2>5. \A o \in Requests : StillLate(o)
    BY <2>1, <2>2, <2>3, <2>4, NotLateIsStillLate DEF StillLate
  <2> QED
    BY <2>5, StillLateInv
<1>9. ASSUME NEW c \in Contacts, Deletes(c) PROVE LateInv'
  <2>1. request' = NotLate(c) /\ \A d \in Contacts \ {c} : records'[d] = records[d]
    BY <1>9 DEF Deletes, ContactsTypeOK
  <2> QED
    BY <2>1, NotLateIsStillLate, StillLateInv
<1>10. CASE QuestionsExpire
  <2>1. request' = request
    BY <1>10 DEF QuestionsExpire
  <2>2. ASSUME NEW c \in Contacts, NEW ch \in Channels, QuestionIsOver(c, ch)
        PROVE  QuestionIsOver(c, ch)'
    <3>1. records[c] \in Seq(Record) /\ records'[c] \in Seq(Record) /\ records[c] # <<>>
      BY <2>2 DEF QuestionIsOver, ContactsTypeOK
    <3>2. 1 \in DOMAIN records[c]
      BY <3>1
    <3>3. /\ 1 \in DOMAIN records'[c] /\ records'[c][1] \in Record
          /\ records'[c][1].channel = ch /\ records'[c][1].status = "double_opt_in_pending"
          /\ records'[c][1].expires = "past"
      BY <1>10, <2>2, <3>2, ExpiringKeeps DEF QuestionIsOver, Ages
    <3> QED
      BY <3>1, <3>3 DEF QuestionIsOver, Record
  <2>3. \A o \in Requests : IsConsent(request[o]) =>
            request[o].who \in Contacts /\ request[o].chan \in Channels
    BY <1>1, Shapes DEF Consenting
  <2> QED
    BY <2>1, <2>2, <2>3 DEF LateInv, At
<1>11. CASE UNCHANGED contactVars
  BY <1>11, StillLateInv DEF contactVars, StillLate
<1> QED
  BY <1>2, <1>3, <1>4, <1>5, <1>6, <1>7, <1>8, <1>9, <1>10, <1>11
  DEF ContactsNext, BeginsConsent, MayExpire, Expiries, BeginsCreate, BeginsImport,
      WritesContact, CreatesRecord, InsertsContact, Fails

\* A confirmation that comes when the question has expired opts nobody in.
THEOREM LateIsRefused == ContactsSpec => []ExpiredIsNotConfirmed
<1>1. ContactsInit => ContactsTypeOK /\ LateInv
  BY InitialTypes DEF ContactsInit, LateInv, IsConsent, Idle
<1>2. ContactsTypeOK /\ LateInv /\ [ContactsNext]_contactVars => (ContactsTypeOK /\ LateInv)'
  BY ContactsStepType, ContactsStepLate
<1>3. LateInv => ExpiredIsNotConfirmed
  BY DEF LateInv, ExpiredIsNotConfirmed, At
<1> QED
  BY <1>1, <1>2, <1>3, PTL DEF ContactsSpec
-----------------------------------------------------------------------------
(* Module Inbox. *)

Handler == {Idle} \cup Receiving \cup Sending

LEMMA HandlerShapes ==
    ASSUME NEW q \in Handler
    PROVE  /\ q.step \in {"message", "keyword"} => q \in Receiving
           /\ q.step \in {"window", "outbound", "create"} => q \in Sending
BY DEF Handler, Idle, Receiving, Sending

LEMMA HandlerSteps ==
    ASSUME NEW q
    PROVE  /\ q \in Receiving => [q EXCEPT !.step = "keyword"] \in Receiving
           /\ q \in Sending => \A st \in {"outbound", "create"} :
                                   [q EXCEPT !.step = st] \in Sending
BY DEF Receiving, Sending

LEMMA InboxInitialTypes == Init => TypeOK
BY InitialTypes, InboxAssumption
   DEF Init, TypeOK, Times, Conversation, NoConversation, ConversationStatuses

LEMMA UpsertType ==
    ASSUME TypeOK, NEW x \in Phones, NEW t \in Times, UpsertInbound(x, t)
    PROVE  conversation' \in [Phones -> Conversation]
<1>1. conversation[x].window \in 0 .. MaxClock + Window
  BY DEF TypeOK, Conversation
<1>2. Larger(conversation[x].window, t + Window) \in 0 .. MaxClock + Window
  BY <1>1, InboxAssumption DEF Larger, Times
<1> QED
  BY <1>2 DEF UpsertInbound, TypeOK, Conversation, ConversationStatuses

\* The contacts' part of a step of Inbox.
LEMMA KeywordReads ==
    ASSUME TypeOK, NEW h \in Handlers, HandlesKeyword(h)
    PROVE  \E r \in Requests, k \in Consents, c \in Contacts :
               ReadsContact(r, k, c, WhatsApp, "never")
BY DEF HandlesKeyword, ContactByRecipient, KeywordKind, Consents

\* Whatever the requests of module Contacts keep, those begun by a keyword keep too.
LEMMA InboxStepContacts ==
    ASSUME TypeOK, SettledInv, [Next]_vars
    PROVE  /\ ContactsTypeOK' /\ SettledInv'
           /\ SettledIsRecorded => SettledIsRecorded'
           /\ LateInv => LateInv'
<1>1. ContactsTypeOK
  BY DEF TypeOK
<1>2. ASSUME [ContactsNext]_contactVars
      PROVE  /\ ContactsTypeOK' /\ SettledInv'
             /\ SettledIsRecorded => SettledIsRecorded'
             /\ LateInv => LateInv'
  BY <1>1, <1>2, ContactsStepType, ContactsStepSettled, ContactsStepRecorded, ContactsStepLate
<1>3. ASSUME NEW h \in Handlers, HandlesKeyword(h)
      PROVE  /\ ContactsTypeOK' /\ SettledInv'
             /\ SettledIsRecorded => SettledIsRecorded'
             /\ LateInv => LateInv'
  <2>1. PICK r \in Requests, k \in Consents, c \in Contacts :
                 ReadsContact(r, k, c, WhatsApp, "never")
    BY <1>3, KeywordReads
  <2>2. WhatsApp \in Channels /\ "never" \in Expiries
    BY InboxAssumption DEF Expiries
  <2>3. ContactsTypeOK'
    BY <1>1, <2>1, <2>2, ReadsContactType
  <2> QED
    BY <1>1, <2>1, <2>2, <2>3, ReadsContactSettled, ReadsContactRecorded, ReadsContactLate
<1> QED
  BY <1>2, <1>3 DEF Next, vars, Receives, StoresMessage, DropsKeyword, BeginsSend,
     ChecksWindow, TouchesConversation, CreatesMessage, UpdatesConversation, Tick

LEMMA InboxStepType ==
    ASSUME TypeOK, [Next]_vars, ContactsTypeOK'
    PROVE  TypeOK'
<1> DEFINE Rest == /\ clock \in Times
                   /\ conversation \in [Phones -> Conversation]
                   /\ heard \in [Wires -> SUBSET Times]
                   /\ handler \in [Handlers -> Handler]
<1>1. Rest
  BY DEF TypeOK, Handler
<1>2. ASSUME NEW h \in Handlers, NEW w \in Wires, NEW word \in Words, NEW t \in Times,
             Receives(h, w, word, t)
      PROVE  Rest'
  <2>1. w \in Phones
    BY InboxAssumption
  <2>2. conversation' \in [Phones -> Conversation]
    BY <1>1, <1>2, <2>1, UpsertType DEF Receives
  <2>3. heard' \in [Wires -> SUBSET Times]
    BY <1>1, <1>2 DEF Receives
  <2>4. handler' \in [Handlers -> Handler]
    BY <1>1, <1>2 DEF Receives, Handler, Receiving
  <2> QED
    BY <1>1, <1>2, <2>2, <2>3, <2>4 DEF Receives
<1>3. ASSUME NEW h \in Handlers, StoresMessage(h)
      PROVE  Rest'
  <2>1. handler' \in [Handlers -> Handler]
    BY <1>1, <1>3, HandlerShapes, HandlerSteps
       DEF StoresMessage, Continues, Finishes, Handles, Handler
  <2> QED
    BY <1>1, <1>3, <2>1 DEF StoresMessage
<1>4. ASSUME NEW h \in Handlers, HandlesKeyword(h) \/ DropsKeyword(h) \/ CreatesMessage(h)
      PROVE  Rest'
  <2>1. handler' \in [Handlers -> Handler]
    BY <1>1, <1>4 DEF HandlesKeyword, DropsKeyword, CreatesMessage, Finishes, Handler
  <2> QED
    BY <1>1, <1>4, <2>1 DEF HandlesKeyword, DropsKeyword, CreatesMessage
<1>5. ASSUME NEW h \in Handlers, NEW text \in BOOLEAN, NEW p \in Phones, BeginsSend(h, text, p)
      PROVE  Rest'
  <2>1. PICK c \in Contacts : handler' = [handler EXCEPT ![h] =
               [step |-> IF text THEN "window" ELSE "outbound", text |-> text, to |-> p,
                began |-> clock, refused |-> settled[c][WhatsApp] = "opted_out"]]
    BY <1>5 DEF BeginsSend
  <2>2. [step |-> IF text THEN "window" ELSE "outbound", text |-> text, to |-> p,
         began |-> clock, refused |-> settled[c][WhatsApp] = "opted_out"] \in Handler
    BY <1>1 DEF Handler, Sending
  <2>3. handler' \in [Handlers -> Handler]
    BY <1>1, <2>1, <2>2
  <2> QED
    BY <1>1, <1>5, <2>3 DEF BeginsSend
<1>6. ASSUME NEW h \in Handlers, ChecksWindow(h)
      PROVE  Rest'
  <2>1. handler' \in [Handlers -> Handler]
    BY <1>1, <1>6, HandlerShapes, HandlerSteps
       DEF ChecksWindow, Continues, Finishes, Handles, Handler
  <2> QED
    BY <1>1, <1>6, <2>1 DEF ChecksWindow
<1>7. ASSUME NEW h \in Handlers, TouchesConversation(h)
      PROVE  Rest'
  <2>1. handler[h] \in Sending
    BY <1>1, <1>7, HandlerShapes DEF TouchesConversation, Handles
  <2>2. handler' \in [Handlers -> Handler]
    BY <1>1, <1>7, <2>1, HandlerSteps DEF TouchesConversation, Continues, Handler
  <2>3. conversation' \in [Phones -> Conversation]
    BY <1>1, <1>7 DEF TouchesConversation, UpsertOutbound, Conversation
  <2> QED
    BY <1>1, <1>7, <2>2, <2>3 DEF TouchesConversation
<1>8. ASSUME NEW x \in Phones, NEW st \in ConversationStatuses \cup {"absent"},
             UpdatesConversation(x, st)
      PROVE  Rest'
  <2>1. conversation' \in [Phones -> Conversation]
    BY <1>1, <1>8 DEF UpdatesConversation, UpdateConversationInbox, Conversation,
                      ConversationStatuses
  <2> QED
    BY <1>1, <1>8, <2>1 DEF UpdatesConversation
<1>9. ASSUME Tick PROVE Rest'
  BY <1>1, <1>9, InboxAssumption DEF Tick, Times
<1>10. ASSUME UNCHANGED inboxVars PROVE Rest'
  BY <1>1, <1>10 DEF inboxVars
<1>11. Rest'
  BY <1>2, <1>3, <1>4, <1>5, <1>6, <1>7, <1>8, <1>9, <1>10 DEF Next, vars
<1> QED
  BY <1>11 DEF TypeOK, Handler

\* The tables of contacts and conversations, and all that works on them, have
\* their types.
THEOREM InboxTypeCorrect == Spec => []TypeOK
<1>1. Init => TypeOK /\ SettledInv
  BY InboxInitialTypes, InitiallySettled DEF Init
<1>2. TypeOK /\ SettledInv /\ [Next]_vars => (TypeOK /\ SettledInv)'
  BY InboxStepContacts, InboxStepType
<1> QED
  BY <1>1, <1>2, PTL DEF Spec

\* What module Contacts promises of consents holds also with the opt-ins and opt-outs
\* that WhatsApp messages begin, at any time and between any steps of the others.
THEOREM KeywordsKeepPromises ==
    Spec => [](SettledStays /\ SettledIsRecorded /\ ExpiredIsNotConfirmed)
<1>1. Init => TypeOK /\ SettledInv /\ SettledIsRecorded /\ LateInv
  BY InboxInitialTypes, InitiallySettled
  DEF Init, ContactsInit, SettledIsRecorded, None, LateInv, IsConsent, Idle
<1>2. TypeOK /\ SettledInv /\ SettledIsRecorded /\ LateInv /\ [Next]_vars
          => (TypeOK /\ SettledInv /\ SettledIsRecorded /\ LateInv)'
  BY InboxStepContacts, InboxStepType
<1>3. SettledInv /\ LateInv => SettledStays /\ ExpiredIsNotConfirmed
  BY DEF SettledInv, LateInv, ExpiredIsNotConfirmed, At
<1> QED
  BY <1>1, <1>2, <1>3, PTL DEF Spec

\* A send that found its contact opted in found no settled opt-out.
LEMMA SendsStep ==
    ASSUME TypeOK, SettledInv, NothingSentAfterOptOut, [Next]_vars
    PROVE  NothingSentAfterOptOut'
<1> DEFINE Ok(q) == q.step \in {"window", "outbound", "create"} => ~q.refused
<1>1. \A h \in Handlers : handler[h] \in Handler /\ Ok(handler[h])
  BY DEF TypeOK, Handler, NothingSentAfterOptOut
<1>2. \A h \in Handlers :
          \/ handler'[h] = handler[h]
          \/ handler'[h].step \in {"idle", "message", "keyword"}
          \/ handler'[h].step = "window" /\ ~handler'[h].refused
          \/ handler'[h].step = "outbound" /\ ~handler'[h].refused
          \/ handler'[h].step = "create" /\ ~handler'[h].refused
  <2>1. ASSUME NEW g \in Handlers, NEW text \in BOOLEAN, NEW p \in Phones, BeginsSend(g, text, p)
        PROVE  \A h \in Handlers : handler'[h] = handler[h] \/
                 (handler'[h].step \in {"window", "outbound"} /\ ~handler'[h].refused)
    <3>1. PICK c \in Contacts :
              /\ MaySendTo(c, p)
              /\ handler' = [handler EXCEPT ![g] =
                     [step |-> IF text THEN "window" ELSE "outbound", text |-> text, to |-> p,
                      began |-> clock, refused |-> settled[c][WhatsApp] = "opted_out"]]
      BY <2>1 DEF BeginsSend
    <3>2. settled[c][WhatsApp] # "opted_out"
      BY <3>1, InboxAssumption DEF MaySendTo, SettledInv, SettledStays
    <3> QED
      BY <3>1, <3>2 DEF TypeOK
  <2>2. ASSUME NEW g \in Handlers, ChecksWindow(g) \/ TouchesConversation(g)
        PROVE  \A h \in Handlers : handler'[h] = handler[h] \/ handler'[h].step = "idle" \/
                 (handler'[h].step \in {"outbound", "create"} /\ ~handler'[h].refused)
    <3>1. handler[g] \in Sending /\ ~handler[g].refused
      BY <1>1, <2>2, HandlerShapes DEF ChecksWindow, TouchesConversation, Handles
    <3> QED
      BY <2>2, <3>1 DEF ChecksWindow, TouchesConversation, Continues, Finishes, Idle, TypeOK,
                        Sending
  <2>3. ASSUME NEW g \in Handlers, StoresMessage(g)
        PROVE  \A h \in Handlers : handler'[h] = handler[h] \/
                                   handler'[h].step \in {"idle", "keyword"}
    <3>1. handler[g] \in Receiving
      BY <1>1, <2>3, HandlerShapes DEF StoresMessage, Handles
    <3> QED
      BY <2>3, <3>1 DEF StoresMessage, Continues, Finishes, Idle, TypeOK, Receiving
  <2>4. ASSUME NEW g \in Handlers,
               \/ HandlesKeyword(g) \/ DropsKeyword(g) \/ CreatesMessage(g)
               \/ \E w \in Wires, word \in Words, t \in Times : Receives(g, w, word, t)
        PROVE  \A h \in Handlers : handler'[h] = handler[h] \/
                                   handler'[h].step \in {"idle", "message"}
    BY <2>4 DEF HandlesKeyword, DropsKeyword, CreatesMessage, Receives, Finishes, Idle, TypeOK
  <2>5. CASE UNCHANGED handler
    BY <2>5
  <2> QED
    BY <2>1, <2>2, <2>3, <2>4, <2>5
    DEF Next, vars, inboxVars, Tick, UpdatesConversation
<1> QED
  BY <1>1, <1>2 DEF NothingSentAfterOptOut

\* Send makes no message for a contact whose opt-out was settled when it began.
THEOREM OptOutIsRespected == Spec => []NothingSentAfterOptOut
<1>1. Init => TypeOK /\ SettledInv /\ NothingSentAfterOptOut
  BY InboxInitialTypes, InitiallySettled DEF Init, NothingSentAfterOptOut, Idle
<1>2. TypeOK /\ SettledInv /\ NothingSentAfterOptOut /\ [Next]_vars
          => (TypeOK /\ SettledInv /\ NothingSentAfterOptOut)'
  BY InboxStepContacts, InboxStepType, SendsStep
<1> QED
  BY <1>1, <1>2, PTL DEF Spec
-----------------------------------------------------------------------------
(* The service window: that of a number which wrote is the largest of its       *)
(* messages' windows, and no other conversation has one.                        *)

IsNewest(w) ==
    /\ heard[w] = {} => conversation[w].window = 0
    /\ \A t \in heard[w] : t + Window <= conversation[w].window
    /\ heard[w] # {} => \E t \in heard[w] : conversation[w].window = t + Window

WindowInv ==
    /\ \A w \in Wires : IsNewest(w)
    /\ \A x \in Phones \ Wires : conversation[x].window = 0

LEMMA WindowInitially == Init => WindowInv
BY InboxAssumption DEF Init, WindowInv, IsNewest, NoConversation

\* Steps that leave every window and what was heard.
LEMMA WindowKept ==
    ASSUME WindowInv, heard' = heard,
           \A x \in Phones : conversation'[x].window = conversation[x].window
    PROVE  WindowInv'
BY InboxAssumption DEF WindowInv, IsNewest

LEMMA WindowStep ==
    ASSUME TypeOK, WindowInv, [Next]_vars
    PROVE  WindowInv'
<1>1. ASSUME NEW h \in Handlers, NEW w \in Wires, NEW word \in Words, NEW t \in Times,
             Receives(h, w, word, t)
      PROVE  WindowInv'
  <2>1. CASE UNCHANGED <<conversation, heard>>
    BY <2>1, WindowKept
  <2>2. CASE UpsertInbound(w, t) /\ heard' = [heard EXCEPT ![w] = @ \cup {t}]
    <3>1. w \in Phones /\ conversation[w].window \in Nat /\ t \in Nat /\ Window \in Nat
      BY InboxAssumption DEF TypeOK, Conversation, Times
    <3>2. /\ conversation'[w].window = Larger(conversation[w].window, t + Window)
          /\ \A x \in Phones \ {w} : conversation'[x] = conversation[x]
      BY <2>2, <3>1 DEF UpsertInbound, TypeOK
    <3>3. /\ heard'[w] = heard[w] \cup {t} /\ heard[w] \subseteq Nat
          /\ \A v \in Wires \ {w} : heard'[v] = heard[v]
      BY <2>2 DEF TypeOK, Times
    <3>4. IsNewest(w)'
      <4>1. CASE conversation[w].window > t + Window
        <5>1. conversation'[w].window = conversation[w].window
          BY <3>2, <4>1 DEF Larger
        <5>2. heard[w] # {}
          BY <3>1, <4>1 DEF WindowInv, IsNewest
        <5> QED
          BY <3>1, <3>3, <4>1, <5>1, <5>2 DEF WindowInv, IsNewest
      <4>2. CASE ~(conversation[w].window > t + Window)
        <5>1. conversation'[w].window = t + Window
          BY <3>2, <4>2 DEF Larger
        <5>2. \A s \in heard[w] : s + Window <= t + Window
          BY <3>1, <3>3, <4>2 DEF WindowInv, IsNewest
        <5> QED
          BY <3>1, <3>3, <5>1, <5>2 DEF IsNewest
      <4> QED
        BY <4>1, <4>2
    <3> QED
      BY <3>2, <3>3, <3>4, InboxAssumption DEF WindowInv, IsNewest
  <2> QED
    BY <1>1, <2>1, <2>2 DEF Receives
<1>2. ASSUME NEW h \in Handlers, TouchesConversation(h)
      PROVE  WindowInv'
  <2>1. \A x \in Phones : conversation'[x].window = conversation[x].window
    BY <1>2 DEF TouchesConversation, UpsertOutbound, TypeOK, Conversation
  <2> QED
    BY <1>2, <2>1, WindowKept DEF TouchesConversation
<1>3. ASSUME NEW x \in Phones, NEW st \in ConversationStatuses \cup {"absent"},
             UpdatesConversation(x, st)
      PROVE  WindowInv'
  <2>1. \A y \in Phones : conversation'[y].window = conversation[y].window
    BY <1>3 DEF UpdatesConversation, UpdateConversationInbox, TypeOK, Conversation
  <2> QED
    BY <1>3, <2>1, WindowKept DEF UpdatesConversation
<1>4. CASE UNCHANGED <<conversation, heard>>
  BY <1>4, WindowKept
<1> QED
  BY <1>1, <1>2, <1>3, <1>4
  DEF Next, vars, inboxVars, StoresMessage, HandlesKeyword, DropsKeyword, BeginsSend,
      ChecksWindow, CreatesMessage, Tick

LEMMA WindowInvSays == TypeOK /\ WindowInv => WindowFollowsNewest
<1> SUFFICES ASSUME TypeOK, WindowInv, NEW w \in Wires
             PROVE  conversation[w].window = IF heard[w] = {} THEN 0
                        ELSE Window + (CHOOSE t \in heard[w] : \A o \in heard[w] : o <= t)
  BY DEF WindowFollowsNewest
<1>1. heard[w] \subseteq Nat /\ Window \in Nat
  BY InboxAssumption DEF TypeOK, Times
<1>2. CASE heard[w] = {}
  BY <1>2 DEF WindowInv, IsNewest
<1>3. CASE heard[w] # {}
  <2>1. PICK n \in heard[w] : conversation[w].window = n + Window
    BY <1>3 DEF WindowInv, IsNewest
  <2>2. \A o \in heard[w] : o <= n
    BY <1>1, <2>1 DEF WindowInv, IsNewest
  <2> DEFINE m == CHOOSE t \in heard[w] : \A o \in heard[w] : o <= t
  <2>3. m \in heard[w] /\ \A o \in heard[w] : o <= m
    BY <2>2
  <2>4. m = n
    BY <1>1, <2>2, <2>3
  <2>5. conversation[w].window = Window + m
    <3> HIDE DEF m
    <3> QED
      BY <1>1, <2>1, <2>4
  <2> QED
    BY <1>3, <2>5
<1> QED
  BY <1>2, <1>3

\* The window follows the newest message, in whatever order messages come.
THEOREM NewestMessageSetsWindow == Spec => []WindowFollowsNewest
<1>1. Init => TypeOK /\ SettledInv /\ WindowInv
  BY InboxInitialTypes, InitiallySettled, WindowInitially DEF Init
<1>2. TypeOK /\ SettledInv /\ WindowInv /\ [Next]_vars
          => (TypeOK /\ SettledInv /\ WindowInv)'
  BY InboxStepContacts, InboxStepType, WindowStep
<1> QED
  BY <1>1, <1>2, WindowInvSays, PTL DEF Spec

\* Whoever sends began at a time that has been, and texts were written to.
TextsInv ==
    /\ \A h \in Handlers : handler[h] \in Sending => handler[h].began <= clock
    /\ TextsAreInWindow

LEMMA WindowIsOfAMessage ==
    ASSUME TypeOK, WindowInv, NEW x \in Phones, HasActiveConversation(x)
    PROVE  \E t \in HeardFrom(x) : t + Window > clock
<1>1. conversation[x].window > clock /\ clock \in Nat
  BY DEF HasActiveConversation, TypeOK, Times
<1>2. x \in Wires
  BY <1>1 DEF WindowInv
<1>3. PICK t \in heard[x] : conversation[x].window = t + Window
  BY <1>1, <1>2 DEF WindowInv, IsNewest
<1>4. t \in HeardFrom(x)
  BY <1>2, <1>3 DEF HeardFrom
<1> QED
  BY <1>1, <1>3, <1>4

LEMMA HeardGrows ==
    ASSUME TypeOK, [Next]_vars, NEW x
    PROVE  HeardFrom(x) \subseteq HeardFrom(x)'
<1>1. \A w \in Wires : heard[w] \subseteq heard'[w]
  BY DEF Next, vars, inboxVars, Receives, StoresMessage, HandlesKeyword, DropsKeyword,
         BeginsSend, ChecksWindow, TouchesConversation, CreatesMessage,
         UpdatesConversation, Tick, TypeOK
<1> QED
  BY <1>1 DEF HeardFrom

LEMMA TextsStep ==
    ASSUME TypeOK, TypeOK', WindowInv, TextsInv, [Next]_vars
    PROVE  TextsInv'
<1> DEFINE Told(q) == \E t \in HeardFrom(q.to) : t + Window > q.began
<1> DEFINE Out(q) == q.step \in {"outbound", "create"}
<1>1. clock \in Nat /\ clock' \in Nat /\ clock <= clock' /\ Window \in Nat
  BY InboxAssumption DEF TypeOK, Times, Next, vars, inboxVars, Receives, StoresMessage,
     HandlesKeyword, DropsKeyword, BeginsSend, ChecksWindow, TouchesConversation,
     CreatesMessage, UpdatesConversation, Tick
<1>2. \A h \in Handlers : handler[h] \in Handler /\ handler'[h] \in Handler
  BY DEF TypeOK, Handler
<1>3. \A h \in Handlers : handler[h] \in Sending => handler[h].began \in Nat
  BY DEF Sending, Times
\* What becomes of a handler: it starts a send now, or it goes on with one, and
\* to make a text it must have seen the window or have been on its way before.
<1>4. ASSUME NEW h \in Handlers, handler'[h] \in Sending
      PROVE  \/ handler[h] = handler'[h]
             \/ /\ handler'[h].began = clock
                /\ Out(handler'[h]) => ~handler'[h].text
             \/ /\ handler[h] \in Sending
                /\ handler'[h].began = handler[h].began /\ handler'[h].to = handler[h].to
                /\ handler'[h].text = handler[h].text
                /\ HasActiveConversation(handler[h].to) \/ Out(handler[h])
  <2>1. ASSUME NEW g \in Handlers, NEW text \in BOOLEAN, NEW p \in Phones, BeginsSend(g, text, p)
        PROVE  \/ handler[h] = handler'[h]
               \/ handler'[h].began = clock /\ (Out(handler'[h]) => ~handler'[h].text)
    BY <2>1 DEF BeginsSend, TypeOK
  <2>2. ASSUME NEW g \in Handlers, ChecksWindow(g) \/ TouchesConversation(g)
        PROVE  \/ handler[h] = handler'[h]
               \/ /\ handler[h] \in Sending
                  /\ handler'[h].began = handler[h].began /\ handler'[h].to = handler[h].to
                  /\ handler'[h].text = handler[h].text
                  /\ HasActiveConversation(handler[h].to) \/ Out(handler[h])
    <3>1. handler[g] \in Sending
      BY <1>2, <2>2, HandlerShapes DEF ChecksWindow, TouchesConversation, Handles
    <3> QED
      BY <1>4, <2>2, <3>1
      DEF ChecksWindow, TouchesConversation, Continues, Finishes, Handles, Idle, TypeOK, Sending
  <2>3. ASSUME NEW g \in Handlers, StoresMessage(g)
        PROVE  handler[h] = handler'[h]
    <3>1. handler[g] \in Receiving
      BY <1>2, <2>3, HandlerShapes DEF StoresMessage, Handles
    <3> QED
      BY <1>4, <2>3, <3>1 DEF StoresMessage, Continues, Finishes, Idle, TypeOK, Receiving, Sending
  <2>4. ASSUME NEW g \in Handlers,
               \/ HandlesKeyword(g) \/ DropsKeyword(g) \/ CreatesMessage(g)
               \/ \E w \in Wires, word \in Words, t \in Times : Receives(g, w, word, t)
        PROVE  handler[h] = handler'[h]
    BY <1>4, <2>4
    DEF HandlesKeyword, DropsKeyword, CreatesMessage, Receives, Finishes, Idle, TypeOK, Sending
  <2>5. CASE UNCHANGED handler
    BY <2>5
  <2> HIDE DEF Out
  <2> QED
    BY <2>1, <2>2, <2>3, <2>4, <2>5 DEF Next, vars, inboxVars, Tick, UpdatesConversation
<1>5. \A h \in Handlers : handler'[h] \in Sending => handler'[h].began <= clock'
  BY <1>1, <1>3, <1>4 DEF TextsInv
<1>6. ASSUME NEW h \in Handlers, Out(handler'[h]), handler'[h].text
      PROVE  \E t \in HeardFrom(handler[h].to)' : t + Window > handler'[h].began
  <2>1. handler'[h] \in Sending
    BY <1>2, <1>6, HandlerShapes
  <2>2. \A x : HeardFrom(x) \subseteq HeardFrom(x)'
    BY HeardGrows
  <2>3. CASE Out(handler[h]) /\ handler[h].text /\ handler[h].to = handler'[h].to
             /\ handler[h].began = handler'[h].began
    BY <2>2, <2>3 DEF TextsInv, TextsAreInWindow
  <2>4. CASE /\ handler[h] \in Sending /\ HasActiveConversation(handler[h].to)
             /\ handler[h].to = handler'[h].to /\ handler[h].began = handler'[h].began
    <3>1. PICK t \in HeardFrom(handler[h].to) : t + Window > clock
      BY <2>4, WindowIsOfAMessage DEF Sending
    <3>2. t \in Nat
      BY DEF HeardFrom, TypeOK, Times
    <3>3. handler[h].began <= clock /\ handler[h].began \in Nat
      BY <1>3, <2>4 DEF TextsInv
    <3> QED
      BY <1>1, <2>2, <2>4, <3>1, <3>2, <3>3
  <2> QED
    BY <1>4, <1>6, <2>1, <2>3, <2>4
<1>7. TextsAreInWindow'
  BY <1>6 DEF TextsAreInWindow
<1> QED
  BY <1>5, <1>7 DEF TextsInv

\* A text goes only to somebody who wrote in the 24 hours before Send began, or
\* since, whatever the webhook, the agents and the clock did meanwhile.
THEOREM TextsFollowMessages == Spec => []TextsAreInWindow
<1>1. Init => TypeOK /\ SettledInv /\ WindowInv /\ TextsInv
  <2>1. Init => TextsInv
    BY DEF Init, TextsInv, TextsAreInWindow, Idle, Sending
  <2> QED
    BY <2>1, InboxInitialTypes, InitiallySettled, WindowInitially DEF Init
<1>2. TypeOK /\ SettledInv /\ WindowInv /\ TextsInv /\ [Next]_vars
          => (TypeOK /\ SettledInv /\ WindowInv /\ TextsInv)'
  BY InboxStepContacts, InboxStepType, WindowStep, TextsStep
<1>3. TextsInv => TextsAreInWindow
  BY DEF TextsInv
<1> QED
  BY <1>1, <1>2, <1>3, PTL DEF Spec
=============================================================================
