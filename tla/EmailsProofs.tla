---------------------------- MODULE EmailsProofs ----------------------------
(***************************************************************************)
(* That a template and a version name one content, and what a mail says    *)
(* (Emails), for any number of templates, editors, messages and contents,  *)
(* and type correctness.                                                   *)
(*                                                                         *)
(* Versions: the row of a template is the last of its states that were     *)
(* committed and has the highest version of them.  Mails: a message is     *)
(* what Send composed of one request and, with a template, of one          *)
(* committed state, and a mail is what an adapter made of the message.     *)
(***************************************************************************)
EXTENDS Emails, FiniteSetTheorems, TLAPS

RowsType ==
    /\ rows \in [Ids -> Rows \cup {Gone}]
    /\ editing \in [Editors -> [id : Ids, copy : Rows] \cup {Idle}]
    /\ published \subseteq [id : Ids, row : Rows]

\* Every version was committed once: there are as many states as versions, and
\* the row, if it is there, is the last of them.
VersionsInv ==
    /\ IsFiniteSet(published)
    /\ \A p \in published : p.row.version <= Cardinality(published)
    /\ Cardinality(published) <= MaxVersions
    /\ \A i \in Ids : GetEmailTemplateByID(i) =>
           /\ [id |-> i, row |-> rows[i]] \in published
           /\ \A p \in published : p.id = i => p.row.version <= rows[i].version
    /\ VersionNamesContent

TemplatesInv == RowsType /\ VersionsInv

LEMMA MaxVersionsType == MaxVersions \in Nat \ {0}
BY EmailsAssumption

LEMMA InitialTemplates == Init => TemplatesInv
<1> SUFFICES ASSUME Init PROVE TemplatesInv
  OBVIOUS
<1>1. RowsType
  BY DEF Init, RowsType
<1>2. IsFiniteSet(published) /\ Cardinality(published) = 0
  BY FS_EmptySet DEF Init
<1> QED
  BY <1>1, <1>2, MaxVersionsType
     DEF Init, TemplatesInv, VersionsInv, GetEmailTemplateByID, VersionNamesContent

\* A row but for the bound on its version.
RowLike == [name : Names, subject : Subjects \cup {Empty}, html : Texts, text : Texts,
            version : Nat]

\* A new state of template i, whose version is higher than those there were.
LEMMA PublishKeeps ==
    ASSUME TemplatesInv, NEW i \in Ids, NEW row \in RowLike, Publish(i, row),
           row.version >= 1, row.version <= Cardinality(published) + 1,
           \A p \in published : p.id = i => p.row.version < row.version
    PROVE  /\ VersionsInv'
           /\ rows' \in [Ids -> Rows \cup {Gone}]
           /\ published' \subseteq [id : Ids, row : Rows]
<1> DEFINE new == [id |-> i, row |-> row]
<1>1. /\ IsFiniteSet(published)
      /\ Cardinality(published) \in Nat /\ Cardinality(published) < MaxVersions
      /\ published' = published \cup {new} /\ rows' = [rows EXCEPT ![i] = row]
  BY FS_CardinalityType DEF TemplatesInv, VersionsInv, Publish
<1>2. row \in Rows
  BY <1>1, MaxVersionsType DEF Rows, RowLike
<1>3. new \notin published
  BY <1>2 DEF Rows
<1>4. IsFiniteSet(published') /\ Cardinality(published') = Cardinality(published) + 1
  BY <1>1, <1>3, FS_AddElement
<1>5. /\ rows' \in [Ids -> Rows \cup {Gone}]
      /\ published' \subseteq [id : Ids, row : Rows]
  BY <1>1, <1>2 DEF TemplatesInv, RowsType
<1>6. \A p \in published : p.row.version \in Nat
  BY MaxVersionsType DEF TemplatesInv, RowsType, Rows
<1>7. /\ \A p \in published' : p.row.version <= Cardinality(published')
      /\ Cardinality(published') <= MaxVersions
  BY <1>1, <1>4, <1>6, MaxVersionsType DEF TemplatesInv, VersionsInv
<1>8. ASSUME NEW j \in Ids, rows'[j] # Gone
      PROVE  /\ [id |-> j, row |-> rows'[j]] \in published'
             /\ \A p \in published' : p.id = j => p.row.version <= rows'[j].version
  <2>1. CASE j = i
    <3>1. rows'[j] = row
      BY <1>1, <2>1 DEF TemplatesInv, RowsType
    <3>2. \A p \in published' : p.id = i => p.row.version <= row.version
      BY <1>1, <1>2, <1>6 DEF Rows
    <3> QED
      BY <1>1, <2>1, <3>1, <3>2
  <2>2. CASE j # i
    <3>1. rows'[j] = rows[j]
      BY <1>1, <2>2 DEF TemplatesInv, RowsType
    <3> QED
      BY <1>1, <1>8, <2>2, <3>1 DEF TemplatesInv, VersionsInv, GetEmailTemplateByID
  <2> QED
    BY <2>1, <2>2
<1>9. VersionNamesContent'
  BY <1>1, <1>2, <1>6 DEF TemplatesInv, VersionsInv, VersionNamesContent, Rows
<1> QED
  BY <1>4, <1>5, <1>7, <1>8, <1>9 DEF VersionsInv, GetEmailTemplateByID

\* The row of a template that is there, and what an editor has read.
LEMMA RowTypes ==
    ASSUME TemplatesInv
    PROVE  /\ \A i \in Ids : GetEmailTemplateByID(i) => rows[i] \in Rows
           /\ \A e \in Editors : editing[e] # Idle =>
                  editing[e].id \in Ids /\ editing[e].copy \in Rows
BY DEF TemplatesInv, RowsType, GetEmailTemplateByID

LEMMA CreateEmailTemplateKeeps ==
    ASSUME TemplatesInv, NEW i \in Ids, NEW t \in RowLike, CreateEmailTemplate(i, t)
    PROVE  /\ VersionsInv'
           /\ rows' \in [Ids -> Rows \cup {Gone}]
           /\ published' \subseteq [id : Ids, row : Rows]
<1> DEFINE row == [t EXCEPT !.version = 1]
<1>1. row \in RowLike /\ row.version = 1
  BY DEF RowLike
<1>2. Publish(i, row) /\ \A p \in published : p.id # i
  BY DEF CreateEmailTemplate
<1>3. Cardinality(published) \in Nat
  BY FS_CardinalityType DEF TemplatesInv, VersionsInv
<1> HIDE DEF row
<1> QED
  BY <1>1, <1>2, <1>3, PublishKeeps

LEMMA UpdateEmailTemplateKeeps ==
    ASSUME TemplatesInv, NEW i \in Ids, NEW t \in RowLike, UpdateEmailTemplate(i, t)
    PROVE  /\ VersionsInv'
           /\ rows' \in [Ids -> Rows \cup {Gone}]
           /\ published' \subseteq [id : Ids, row : Rows]
<1> DEFINE v == rows[i].version + 1
           row == [t EXCEPT !.version = v]
<1>1. GetEmailTemplateByID(i) /\ Publish(i, row)
  BY DEF UpdateEmailTemplate, NextVersion
<1>2. rows[i].version \in 1 .. MaxVersions
  BY <1>1, RowTypes DEF Rows
<1>3. row \in RowLike /\ row.version = v
  BY <1>2, MaxVersionsType DEF RowLike
<1>4. /\ [id |-> i, row |-> rows[i]] \in published
      /\ \A p \in published : p.id = i => p.row.version <= rows[i].version
      /\ rows[i].version <= Cardinality(published)
  BY <1>1 DEF TemplatesInv, VersionsInv
<1>5. \A p \in published : p.row.version \in Nat
  BY MaxVersionsType DEF TemplatesInv, RowsType, Rows
<1>6. Cardinality(published) \in Nat
  BY FS_CardinalityType DEF TemplatesInv, VersionsInv
<1>7. /\ row.version >= 1 /\ row.version <= Cardinality(published) + 1
      /\ \A p \in published : p.id = i => p.row.version < row.version
  BY <1>2, <1>3, <1>4, <1>5, <1>6, MaxVersionsType
<1> HIDE DEF row
<1> QED
  BY <1>1, <1>3, <1>7, PublishKeeps

LEMMA RowsAreLikeRows == Rows \subseteq RowLike
BY MaxVersionsType DEF Rows, RowLike

LEMMA CreateKeeps ==
    ASSUME TemplatesInv, NEW i \in Ids, NEW n \in Names, NEW w \in Written, Create(i, n, w)
    PROVE  TemplatesInv'
<1> DEFINE t == [name |-> n, subject |-> w.subject, html |-> w.html,
                 text |-> IF w.text = {} THEN w.html ELSE w.text, version |-> 1]
<1>1. \A b \in Bodies : b \in Texts
  BY EmailsAssumption DEF Texts
<1>2. w.subject \in Subjects \cup {Empty} /\ w.html \in Bodies /\ w.text \in Bodies
  BY DEF Written
<1>3. t \in RowLike
  BY <1>1, <1>2 DEF RowLike
<1>4. CreateEmailTemplate(i, t) /\ editing' = editing
  BY DEF Create
<1> HIDE DEF t
<1> QED
  BY <1>3, <1>4, CreateEmailTemplateKeeps DEF TemplatesInv, RowsType

LEMMA EditKeeps ==
    ASSUME TemplatesInv, NEW e \in Editors, Edit(e)
    PROVE  TemplatesInv'
<1>1. ASSUME NEW i \in Ids, Reads(e, i)
      PROVE  TemplatesInv'
  <2>1. rows[i] \in Rows
    BY <1>1, RowTypes DEF Reads
  <2> QED
    BY <1>1, <2>1
       DEF Reads, TemplatesInv, RowsType, VersionsInv, GetEmailTemplateByID, VersionNamesContent
<1>2. ASSUME NEW c \in Changes, Update(e, c)
      PROVE  TemplatesInv'
  <2> DEFINE old == editing[e].copy
             t == [old EXCEPT !.subject = Merge(old.subject, c.subject),
                              !.html    = Merge(old.html, c.html),
                              !.text    = Merge(old.text, c.text)]
  <2>1. editing[e].id \in Ids /\ old \in Rows
    BY <1>2, RowTypes DEF Update
  <2>2. \A b \in Bodies : b \in Texts
    BY EmailsAssumption DEF Texts
  <2>3. /\ Merge(old.subject, c.subject) \in Subjects \cup {Empty}
        /\ Merge(old.html, c.html) \in Texts /\ Merge(old.text, c.text) \in Texts
    BY <2>1, <2>2 DEF Merge, Changes, Rows
  <2>4. t \in RowLike
    BY <2>1, <2>3, RowsAreLikeRows DEF RowLike
  <2>5. UpdateEmailTemplate(editing[e].id, t) /\ editing' = [editing EXCEPT ![e] = Idle]
    BY <1>2 DEF Update, Ends
  <2> HIDE DEF t
  <2> QED
    BY <2>1, <2>4, <2>5, UpdateEmailTemplateKeeps DEF TemplatesInv, RowsType
<1>3. ASSUME NEW i \in Ids, NEW n \in Names, Duplicate(e, i, n)
      PROVE  TemplatesInv'
  <2> DEFINE t == [editing[e].copy EXCEPT !.name = n]
  <2>1. editing[e].copy \in RowLike
    BY <1>3, RowTypes, RowsAreLikeRows DEF Duplicate
  <2>2. t \in RowLike
    BY <2>1 DEF RowLike
  <2>3. CreateEmailTemplate(i, t) /\ editing' = [editing EXCEPT ![e] = Idle]
    BY <1>3 DEF Duplicate, Ends
  <2> HIDE DEF t
  <2> QED
    BY <2>2, <2>3, CreateEmailTemplateKeeps DEF TemplatesInv, RowsType
<1>4. ASSUME EditFails(e)
      PROVE  TemplatesInv'
  BY <1>4 DEF EditFails, Ends, TemplatesInv, RowsType, VersionsInv, GetEmailTemplateByID,
     VersionNamesContent
<1> QED
  BY <1>1, <1>2, <1>3, <1>4 DEF Edit

LEMMA TemplatesStep ==
    ASSUME TemplatesInv, [Next]_vars
    PROVE  TemplatesInv' /\ published \subseteq published'
<1>1. ASSUME NEW i \in Ids, Delete(i)
      PROVE  TemplatesInv'
  <2>1. /\ rows' = [rows EXCEPT ![i] = Gone] /\ UNCHANGED <<editing, published>>
    BY <1>1 DEF Delete, DeleteEmailTemplate
  <2>2. RowsType'
    BY <2>1 DEF TemplatesInv, RowsType
  <2>3. \A j \in Ids : rows'[j] # Gone => rows'[j] = rows[j]
    BY <2>1 DEF TemplatesInv, RowsType
  <2> QED
    BY <2>1, <2>2, <2>3 DEF TemplatesInv, VersionsInv, GetEmailTemplateByID, VersionNamesContent
<1>2. CASE UNCHANGED <<rows, editing, published>>
  BY <1>2 DEF TemplatesInv, RowsType, VersionsInv, GetEmailTemplateByID, VersionNamesContent
<1>3. TemplatesInv'
  BY <1>1, <1>2, CreateKeeps, EditKeeps DEF Next, vars, SendEmail, CampaignCreates, Transmit
<1>4. published \subseteq published'
  <2>1. ASSUME NEW i, NEW row, Publish(i, row)
        PROVE  published \subseteq published'
    BY <2>1 DEF Publish
  <2>2. ASSUME NEW i \in Ids, NEW n \in Names, NEW w \in Written, Create(i, n, w)
        PROVE  published \subseteq published'
    BY <2>1, <2>2 DEF Create, CreateEmailTemplate
  <2>3. ASSUME NEW e \in Editors, Edit(e)
        PROVE  published \subseteq published'
    <3>1. ASSUME NEW i, NEW n, Reads(e, i) \/ EditFails(e) \/ Duplicate(e, i, n)
          PROVE  published \subseteq published'
      BY <2>1, <3>1 DEF Reads, EditFails, Duplicate, CreateEmailTemplate
    <3>2. ASSUME NEW change, Update(e, change)
          PROVE  published \subseteq published'
      BY <2>1, <3>2 DEF Update, UpdateEmailTemplate
    <3> QED
      BY <2>3, <3>1, <3>2 DEF Edit
  <2> QED
    BY <1>2, <2>2, <2>3 DEF Next, vars, SendEmail, CampaignCreates, Transmit, Delete
<1> QED
  BY <1>3, <1>4

\* A template and a version name one content, however updates overlapped.
THEOREM VersionsNameContents == Spec => []VersionNamesContent
<1>1. TemplatesInv /\ [Next]_vars => TemplatesInv'
  BY TemplatesStep
<1>2. TemplatesInv => VersionNamesContent
  BY DEF TemplatesInv, VersionsInv
<1> QED
  BY InitialTemplates, <1>1, <1>2, PTL DEF Spec
-----------------------------------------------------------------------------
(* What the messages and the mails are. *)

MessageRows ==
    [origin : {"send", "campaign"}, asked : Requests, subject : Subjects \cup {Empty},
     html : SUBSET Parts, text : Texts, body : Texts, headers : Headers]
MailRows ==
    [subject : Subjects \cup {Empty}, html : SUBSET Parts, text : Texts, headers : Headers]

LEMMA BodiesAreTexts == \A b \in Bodies \cup Bare : b \in Texts
BY EmailsAssumption DEF Texts

LEMMA NothingIsText == {} \in Texts
BY DEF Texts

LEMMA AskedAreRequests == Asked \subseteq Requests
<1>1. /\ \A w \in Written : /\ w.subject \in Subjects \cup {Empty}
                            /\ w.html \in Texts /\ w.text \in Texts
      /\ NoMetadata.subject = Empty /\ NoMetadata.html = {} /\ NoMetadata.text = {}
  BY BodiesAreTexts DEF Written, NoMetadata
<1>2. "unset" \in Tracking /\ "transactional" \in Categories
  BY DEF Tracking, Categories
<1>3. AskedByAPI \subseteq Requests
  BY <1>1, BodiesAreTexts, NothingIsText DEF AskedByAPI, Request, Requests
<1>4. AskedByGateway \subseteq Requests
  BY <1>1, <1>2, NothingIsText DEF AskedByGateway, Request, Requests
<1>5. AskedBySender \subseteq Requests
  <2>1. ASSUME NEW w \in Written
        PROVE  Request(NoName, w.html, [NoMetadata EXCEPT !.subject = w.subject],
                       "transactional", "unset") \in Requests
    <3>1. /\ [NoMetadata EXCEPT !.subject = w.subject].subject = w.subject
          /\ [NoMetadata EXCEPT !.subject = w.subject].html = {}
          /\ [NoMetadata EXCEPT !.subject = w.subject].text = {}
      BY DEF NoMetadata
    <3> QED
      BY <1>1, <1>2, <2>1, <3>1, NothingIsText DEF Request, Requests
  <2> QED
    BY <2>1 DEF AskedBySender
<1>6. AskedWithTemplate \subseteq Requests
  <2>1. \A n \in Names : Request(n, {}, NoMetadata, "transactional", "unset") \in Requests
    BY <1>1, <1>2, NothingIsText DEF Request, Requests
  <2> QED
    BY <2>1 DEF AskedWithTemplate
<1> QED
  BY <1>3, <1>4, <1>5, <1>6 DEF Asked

LEMMA RenderedType ==
    ASSUME NEW r \in Requests, NEW row \in Rows
    PROVE  Rendered(r, row) \in Requests
BY DEF Rendered, Requests, Rows

LEMMA ComposedType ==
    ASSUME NEW r \in Requests, NEW x \in Requests
    PROVE  Composed(r, x) \in MessageRows
<1>1. x.html \subseteq Contents /\ x.body \subseteq Contents
  BY DEF Requests, Texts
<1>2. WithLink(x) \subseteq Parts
  BY <1>1 DEF WithLink, Parts
<1>3. WithPixel(r, WithLink(x)) \subseteq Parts
  BY <1>2 DEF WithPixel, Parts
<1>4. x.subject \in Subjects \cup {Empty} /\ x.text \in Texts /\ x.body \in Texts
  BY DEF Requests
<1>5. (IF IsMarketing(r) THEN {"List-Unsubscribe"} ELSE {}) \in Headers
  BY DEF Headers
<1> QED
  BY <1>3, <1>4, <1>5 DEF Composed, MessageRows

\* What an adapter sends of a message: all of it but perhaps the headers.
LEMMA MailSays ==
    ASSUME NEW p, NEW msg \in MessageRows
    PROVE  /\ MailOf(p, EmailRequest(msg)) \in MailRows
           /\ MailOf(p, EmailRequest(msg)).subject = msg.subject
           /\ MailOf(p, EmailRequest(msg)).html = MailHtml(msg)
           /\ MailOf(p, EmailRequest(msg)).text = msg.text
<1> DEFINE q == EmailRequest(msg)
<1>1. MailHtml(msg) \in SUBSET Parts
  BY DEF MailHtml, MessageRows, Texts, Parts
<1>2. /\ q \in MailRows /\ q.subject = msg.subject /\ q.html = MailHtml(msg)
      /\ q.text = msg.text
  BY <1>1 DEF EmailRequest, MessageRows, MailRows
<1>3. {} \in Headers
  BY DEF Headers
<1> HIDE DEF q
<1>4. [q EXCEPT !.headers = {}] \in MailRows /\ [q EXCEPT !.headers = {}].subject = q.subject
      /\ [q EXCEPT !.headers = {}].html = q.html /\ [q EXCEPT !.headers = {}].text = q.text
  BY <1>2, <1>3 DEF MailRows
<1>5. MailOf(p, q) \in {q, [q EXCEPT !.headers = {}]}
  BY DEF MailOf, SendGridMail, MailgunMail, PostmarkMail, SMTPMail
<1>6. MailOf(p, q) = MailOf(p, EmailRequest(msg))
  BY DEF q
<1> QED
  BY <1>2, <1>4, <1>5, <1>6

\* A message is what somebody asked Send for, with a committed state of the
\* template if there is one, or it is the executor's.
IsComposed(msg) ==
    \/ msg.origin = "campaign"
    \/ \E r \in Requests :
           \/ r.template = NoName /\ msg = Composed(r, r)
           \/ \E p \in published :
                  r.template = p.row.name /\ msg = Composed(r, Rendered(r, p.row))

MessagesInv ==
    /\ message \in [Messages -> MessageRows \cup {NoMessage}]
    /\ mail \in [Messages -> MailRows \cup {NoMail}]
    /\ \A m \in Messages : message[m] # NoMessage => IsComposed(message[m])
    /\ \A m \in Messages : mail[m] # NoMail =>
           /\ message[m] # NoMessage
           /\ \E p \in Registered : mail[m] = MailOf(p, EmailRequest(message[m]))

MailsInv == TemplatesInv /\ MessagesInv

LEMMA MessageInserted ==
    ASSUME MailsInv, TemplatesInv', published' = published, NEW m \in Messages,
           message[m] = NoMessage, NEW msg \in MessageRows, IsComposed(msg),
           message' = [message EXCEPT ![m] = msg], mail' = mail
    PROVE  MailsInv'
<1>1. message'[m] = msg /\ \A n \in Messages \ {m} : message'[n] = message[n]
  BY DEF MailsInv, MessagesInv
<1>2. message' \in [Messages -> MessageRows \cup {NoMessage}]
  BY DEF MailsInv, MessagesInv
<1>3. \A n \in Messages : message'[n] # NoMessage => IsComposed(message[n])'
  BY <1>1 DEF MailsInv, MessagesInv, IsComposed
<1>4. \A n \in Messages : mail[n] # NoMail => n # m
  BY DEF MailsInv, MessagesInv
<1> QED
  BY <1>1, <1>2, <1>3, <1>4 DEF MailsInv, MessagesInv

LEMMA SendEmailStep ==
    ASSUME MailsInv, TemplatesInv', NEW m \in Messages, NEW r \in Asked, SendEmail(m, r)
    PROVE  MailsInv'
<1>1. r \in Requests
  BY AskedAreRequests
<1>2. UNCHANGED <<rows, editing, mail, published>> /\ message[m] = NoMessage
  BY DEF SendEmail
<1>3. CASE r.template = NoName /\ message' = [message EXCEPT ![m] = Composed(r, r)]
  <2>1. Composed(r, r) \in MessageRows /\ IsComposed(Composed(r, r))
    BY <1>1, <1>3, ComposedType DEF IsComposed
  <2> QED
    BY <1>2, <1>3, <2>1, MessageInserted
<1>4. ASSUME NEW i \in GetEmailTemplateByName(r.template),
             message' = [message EXCEPT ![m] = Composed(r, Rendered(r, rows[i]))]
      PROVE  MailsInv'
  <2>1. /\ i \in Ids /\ GetEmailTemplateByID(i) /\ rows[i].name = r.template
    BY DEF GetEmailTemplateByName
  <2>2. rows[i] \in Rows /\ [id |-> i, row |-> rows[i]] \in published
    BY <2>1, RowTypes DEF MailsInv, TemplatesInv, VersionsInv
  <2>3. Composed(r, Rendered(r, rows[i])) \in MessageRows
    BY <1>1, <2>2, RenderedType, ComposedType
  <2>4. IsComposed(Composed(r, Rendered(r, rows[i])))
    <3>1. PICK p \in published : p.row = rows[i]
      BY <2>2
    <3>2. Composed(r, Rendered(r, rows[i])) = Composed(r, Rendered(r, p.row))
      BY <3>1
    <3>3. r.template = p.row.name
      BY <2>1, <3>1
    <3> QED
      BY <1>1, <3>2, <3>3 DEF IsComposed
  <2> QED
    BY <1>2, <1>4, <2>3, <2>4, MessageInserted
<1> QED
  BY <1>3, <1>4 DEF SendEmail

LEMMA CampaignStep ==
    ASSUME MailsInv, TemplatesInv', NEW m \in Messages, CampaignCreates(m)
    PROVE  MailsInv'
<1> DEFINE msg == [origin |-> "campaign",
                   asked |-> Request(NoName, {}, NoMetadata, Empty, "unset"),
                   subject |-> Empty, html |-> {}, text |-> {}, body |-> {}, headers |-> {}]
<1>1. Request(NoName, {}, NoMetadata, Empty, "unset") \in Requests
  BY NothingIsText DEF Request, Requests, NoMetadata, Categories, Tracking
<1>2. msg \in MessageRows
  BY <1>1, NothingIsText DEF MessageRows, Headers
<1>3. IsComposed(msg)
  BY DEF IsComposed
<1>4. /\ message[m] = NoMessage /\ message' = [message EXCEPT ![m] = msg]
      /\ mail' = mail /\ published' = published
  BY DEF CampaignCreates
<1> HIDE DEF msg
<1> QED
  BY <1>2, <1>3, <1>4, MessageInserted

LEMMA TransmitStep ==
    ASSUME MailsInv, TemplatesInv', NEW m \in Messages, NEW p \in Registered, Transmit(m, p)
    PROVE  MailsInv'
<1> DEFINE q == MailOf(p, EmailRequest(message[m]))
<1>1. /\ message[m] # NoMessage /\ message[m] \in MessageRows
      /\ mail' = [mail EXCEPT ![m] = q] /\ UNCHANGED <<message, published>>
  BY DEF Transmit, MailsInv, MessagesInv
<1>2. q \in MailRows
  BY <1>1, MailSays
<1>3. mail'[m] = q /\ \A n \in Messages \ {m} : mail'[n] = mail[n]
  BY <1>1 DEF MailsInv, MessagesInv
<1>4. mail' \in [Messages -> MailRows \cup {NoMail}]
  BY <1>1, <1>2 DEF MailsInv, MessagesInv
<1>5. \E a \in Registered : q = MailOf(a, EmailRequest(message'[m]))
  BY <1>1
<1> HIDE DEF q
<1> QED
  BY <1>1, <1>3, <1>4, <1>5 DEF MailsInv, MessagesInv, IsComposed

\* A step of the templates commits more states, and changes no message.
LEMMA TemplatesLeaveMessages ==
    ASSUME MailsInv, TemplatesInv', published \subseteq published',
           UNCHANGED <<message, mail>>
    PROVE  MailsInv'
<1>1. \A m \in Messages : message[m] # NoMessage => IsComposed(message[m])'
  BY DEF MailsInv, MessagesInv, IsComposed
<1> QED
  BY <1>1 DEF MailsInv, MessagesInv

LEMMA MailsStep ==
    ASSUME MailsInv, [Next]_vars
    PROVE  MailsInv'
<1>1. TemplatesInv' /\ published \subseteq published'
  BY TemplatesStep DEF MailsInv
<1>2. CASE UNCHANGED <<message, mail>>
  BY <1>1, <1>2, TemplatesLeaveMessages
<1>3. CASE ~UNCHANGED <<message, mail>>
  <2>1. \/ \E m \in Messages, r \in Asked : SendEmail(m, r)
        \/ \E m \in Messages : CampaignCreates(m)
        \/ \E m \in Messages, p \in Registered : Transmit(m, p)
    BY <1>3 DEF Next, vars, Create, Delete, Edit, Reads, Update, Duplicate, EditFails
  <2> QED
    BY <1>1, <2>1, SendEmailStep, CampaignStep, TransmitStep
<1> QED
  BY <1>2, <1>3

LEMMA InitialMails == Init => MailsInv
<1> SUFFICES ASSUME Init PROVE MailsInv
  OBVIOUS
<1>1. MessagesInv
  BY DEF Init, MessagesInv
<1> QED
  BY <1>1, InitialTemplates DEF MailsInv

\* The templates, the editors' copies, the messages and the mails have their types.
THEOREM TypeCorrect == Spec => []TypeOK
<1>1. MailsInv /\ [Next]_vars => MailsInv'
  BY MailsStep
<1>2. MailsInv => TypeOK
  BY DEF MailsInv, TemplatesInv, RowsType, MessagesInv, MessageRows, MailRows, TypeOK
<1> QED
  BY InitialMails, <1>1, <1>2, PTL DEF Spec
-----------------------------------------------------------------------------
(* What a mail says. *)

\* The mail of a message that Send composed of r, with x for its content.
LEMMA MailComposed ==
    ASSUME MailsInv, NEW m \in Messages, BySend(m)
    PROVE  \E r \in Requests, x \in Requests :
             LET msg == Composed(r, x) IN
             /\ message[m].asked = r
             /\ mail[m].subject = x.subject /\ mail[m].html = MailHtml(msg)
             /\ mail[m].text = x.text
             /\ \/ r.template = NoName /\ x = r
                \/ \E p \in published : r.template = p.row.name /\ x = Rendered(r, p.row)
<1>1. /\ message[m] \in MessageRows /\ IsComposed(message[m])
      /\ message[m].origin = "send"
      /\ \E p \in Registered : mail[m] = MailOf(p, EmailRequest(message[m]))
  BY DEF BySend, MailsInv, MessagesInv
<1>2. /\ mail[m].subject = message[m].subject /\ mail[m].html = MailHtml(message[m])
      /\ mail[m].text = message[m].text
  BY <1>1, MailSays
<1>3. PICK r \in Requests :
          \/ r.template = NoName /\ message[m] = Composed(r, r)
          \/ \E p \in published :
                 r.template = p.row.name /\ message[m] = Composed(r, Rendered(r, p.row))
  BY <1>1 DEF IsComposed
<1>4. PICK x \in Requests :
          /\ message[m] = Composed(r, x)
          /\ \/ r.template = NoName /\ x = r
             \/ \E p \in published : r.template = p.row.name /\ x = Rendered(r, p.row)
  <2>1. CASE r.template = NoName /\ message[m] = Composed(r, r)
    BY <2>1
  <2>2. ASSUME NEW p \in published, r.template = p.row.name,
               message[m] = Composed(r, Rendered(r, p.row))
        PROVE  \E x \in Requests :
                   /\ message[m] = Composed(r, x)
                   /\ \/ r.template = NoName /\ x = r
                      \/ \E s \in published :
                             r.template = s.row.name /\ x = Rendered(r, s.row)
    <3>1. Rendered(r, p.row) \in Requests
      BY RenderedType DEF MailsInv, TemplatesInv, RowsType
    <3> QED
      BY <2>2, <3>1
  <2> QED
    BY <1>3, <2>1, <2>2
<1>5. /\ message[m].asked = r /\ message[m].subject = x.subject /\ message[m].text = x.text
  BY <1>4 DEF Composed
<1> QED
  BY <1>2, <1>4, <1>5

\* The HTML of a mail: the link and the pixel aside, it is the HTML that was to be
\* said, or the Text where there is none.
LEMMA HtmlSays ==
    ASSUME NEW r \in Requests, NEW x \in Requests
    PROVE  LET html == MailHtml(Composed(r, x)) \cap Contents IN
           /\ x.html # {} => html = x.html
           /\ x.html = {} => html \in {{}, x.body}
           /\ x.html = {} /\ (IsMarketing(x) \/ ~TracksOpens(r)) => html = x.body
<1>1. x.html \subseteq Contents /\ x.body \subseteq Contents
  BY DEF Requests, Texts
<1>2. "link" \notin Contents /\ "pixel" \notin Contents
  BY EmailsAssumption
<1>3. /\ Composed(r, x).html = WithPixel(r, WithLink(x))
      /\ Composed(r, x).body = x.body
  BY DEF Composed
<1>4. /\ WithPixel(r, WithLink(x)) \cap Contents = WithLink(x) \cap Contents
      /\ ~TracksOpens(r) => WithPixel(r, WithLink(x)) = WithLink(x)
  BY <1>2 DEF WithPixel
<1>5. /\ x.html # {} => WithLink(x) \cap Contents = x.html /\ WithLink(x) # {}
      /\ x.html = {} => WithLink(x) \cap Contents \in {{}, x.body}
      /\ x.html = {} /\ IsMarketing(x) => WithLink(x) \cap Contents = x.body /\ WithLink(x) # {}
      /\ x.html = {} /\ ~IsMarketing(x) => WithLink(x) = {}
  BY <1>1, <1>2 DEF WithLink
<1>6. WithLink(x) # {} => WithPixel(r, WithLink(x)) # {}
  BY DEF WithPixel
<1> DEFINE w == WithPixel(r, WithLink(x))
<1>7. MailHtml(Composed(r, x)) = IF w = {} THEN x.body ELSE w
  BY <1>3 DEF MailHtml
<1> QED
  BY <1>1, <1>4, <1>5, <1>6, <1>7

LEMMA SaysTheRequestHolds ==
    ASSUME MailsInv, NEW m \in Messages, NEW r \in Requests, r.template = NoName,
           message[m].asked = r, mail[m].subject = r.subject, mail[m].text = r.text,
           mail[m].html = MailHtml(Composed(r, r))
    PROVE  SaysTheRequest(m)
<1> DEFINE h == MailHtml(Composed(r, r)) \cap Contents
           said == (mail[m].html \cup mail[m].text) \cap Contents
           asked == r.html \cup r.text \cup r.body
<1>1. /\ r.html # {} => h = r.html
      /\ r.html = {} => h \in {{}, r.body}
      /\ r.html = {} /\ (IsMarketing(r) \/ ~TracksOpens(r)) => h = r.body
  BY HtmlSays
<1>2. r.text \subseteq Contents
  BY DEF Requests, Texts
<1>3. said = h \cup r.text
  BY <1>2
<1> HIDE DEF h, said
<1>4. said \subseteq asked
  BY <1>1, <1>3
<1>5. asked # {} /\ ~LosesItsBody(r) => said # {}
  BY <1>1, <1>3 DEF LosesItsBody
<1> QED
  BY <1>4, <1>5 DEF SaysTheRequest, said

LEMMA SaysOneVersionHolds ==
    ASSUME MailsInv, NEW m \in Messages, NEW r \in Requests, NEW p \in published,
           r.template = p.row.name, message[m].asked = r,
           mail[m].subject = Rendered(r, p.row).subject,
           mail[m].text = Rendered(r, p.row).text,
           mail[m].html = MailHtml(Composed(r, Rendered(r, p.row)))
    PROVE  SaysOneVersion(m)
<1> DEFINE x == Rendered(r, p.row)
<1>1. p.row \in Rows
  BY DEF MailsInv, TemplatesInv, RowsType
<1>2. x \in Requests
  BY <1>1, RenderedType
<1>3. /\ x.subject = p.row.subject /\ x.html = p.row.html /\ x.body = p.row.html
      /\ x.text = IF p.row.text = {} THEN p.row.html ELSE p.row.text
  BY DEF Rendered, Requests
<1>4. mail[m].html = MailHtml(Composed(r, x)) /\ mail[m].subject = x.subject
      /\ mail[m].text = x.text
  OBVIOUS
<1> HIDE DEF x
<1>5. /\ x.html # {} => MailHtml(Composed(r, x)) \cap Contents = x.html
      /\ x.html = {} => MailHtml(Composed(r, x)) \cap Contents \in {{}, x.body}
  BY <1>2, HtmlSays
<1>6. mail[m].html \cap Contents = p.row.html
  BY <1>3, <1>4, <1>5
<1> QED
  BY <1>3, <1>4, <1>6 DEF SaysOneVersion

LEMMA MailsSay == MailsInv => SaysWhatWasAsked
<1> SUFFICES ASSUME MailsInv, NEW m \in Messages, BySend(m)
             PROVE  IF message[m].asked.template = NoName THEN SaysTheRequest(m)
                    ELSE SaysOneVersion(m)
  BY DEF SaysWhatWasAsked
<1>1. PICK r \in Requests, x \in Requests :
          /\ message[m].asked = r
          /\ mail[m].subject = x.subject /\ mail[m].html = MailHtml(Composed(r, x))
          /\ mail[m].text = x.text
          /\ \/ r.template = NoName /\ x = r
             \/ \E p \in published : r.template = p.row.name /\ x = Rendered(r, p.row)
  BY MailComposed
<1>2. CASE r.template = NoName /\ x = r
  BY <1>1, <1>2, SaysTheRequestHolds
<1>3. ASSUME NEW p \in published, r.template = p.row.name, x = Rendered(r, p.row)
      PROVE  r.template # NoName /\ SaysOneVersion(m)
  <2>1. p.row.name \in Names
    BY DEF MailsInv, TemplatesInv, RowsType, Rows
  <2>2. r.template # NoName
    BY <1>3, <2>1, EmailsAssumption
  <2> QED
    BY <1>1, <1>3, <2>2, SaysOneVersionHolds
<1> QED
  BY <1>1, <1>2, <1>3

LEMMA MailsTell == MailsInv => CanBeUnsubscribed
<1> SUFFICES ASSUME MailsInv, NEW m \in Messages, BySend(m),
                    message[m].asked.category # "transactional"
             PROVE  "link" \in mail[m].html \/ mail[m].html \cap Mentioning # {}
  BY DEF CanBeUnsubscribed
<1>1. PICK r \in Requests, x \in Requests :
          /\ message[m].asked = r /\ mail[m].html = MailHtml(Composed(r, x))
          /\ \/ r.template = NoName /\ x = r
             \/ \E p \in published : r.template = p.row.name /\ x = Rendered(r, p.row)
  BY MailComposed
<1>2. x.category = r.category
  BY <1>1 DEF Rendered, Requests
<1>3. IsMarketing(x)
  BY <1>1, <1>2 DEF IsMarketing
<1>4. "link" \in WithLink(x) \/ WithLink(x) \cap Mentioning # {}
  BY <1>3 DEF WithLink
<1>5. WithLink(x) \subseteq WithPixel(r, WithLink(x))
  BY DEF WithPixel
<1>6. MailHtml(Composed(r, x)) = WithPixel(r, WithLink(x))
  <2>1. Composed(r, x).html = WithPixel(r, WithLink(x))
    BY DEF Composed
  <2>2. WithPixel(r, WithLink(x)) # {}
    BY <1>4, <1>5
  <2> QED
    BY <2>1, <2>2 DEF MailHtml
<1> QED
  BY <1>1, <1>4, <1>5, <1>6

\* A mail that Send made says what it was asked to say, or what one committed
\* state of the template said, through whatever adapter it is sent.
THEOREM MailsSayWhatWasAsked == Spec => []SaysWhatWasAsked
<1>1. MailsInv /\ [Next]_vars => MailsInv'
  BY MailsStep
<1> QED
  BY InitialMails, <1>1, MailsSay, PTL DEF Spec

\* Every mail that is not transactional tells its reader how to unsubscribe, in its
\* HTML, so that an adapter which drops the header takes nothing away.
THEOREM MailsTellHow == Spec => []CanBeUnsubscribed
<1>1. MailsInv /\ [Next]_vars => MailsInv'
  BY MailsStep
<1> QED
  BY InitialMails, <1>1, MailsTell, PTL DEF Spec
=============================================================================
