-------------------------------- MODULE Emails --------------------------------
(***************************************************************************)
(* The e-mail templates of one tenant (core/services/email_template_       *)
(* service.go) and the e-mails made with them and without: what Send of    *)
(* core/services/message_service.go puts into a message, and what the      *)
(* Sender and the adapter of an e-mail service make of it.                 *)
(*                                                                         *)
(* A text is the set of its parts: the contents somebody wrote, the        *)
(* unsubscribe link and the tracking pixel; {} is the empty string.        *)
(* Whether a message may be sent at all is the business of Dispatch and    *)
(* Contacts.                                                               *)
(***************************************************************************)
EXTENDS Providers, Naturals, FiniteSets

CONSTANTS
    Ids,             \* rows of messaging.email_templates
    Names,           \* names of templates
    Editors,         \* requests that update or copy a template
    Messages,        \* rows of messaging.messages, of the e-mail channel
    Subjects,        \* subjects somebody may write
    Contents,        \* contents somebody may write
    Bodies,          \* those of a template, and of the metadata of a request
    Bare,            \* those of a request's Text
    Mentioning,      \* the contents that hold the word "unsubscribe"
    EmailTrackOpens, \* the platform's default, "yes" or "no"
    MaxVersions,     \* bounds the number of rows written, over all templates
    Registered,      \* the e-mail adapters GetProvider may return
    Gone, Idle, Unnamed, NoMessage, NoMail, NoName

Empty == ""      \* the empty string, of a subject or a category

ASSUME EmailsAssumption ==
    /\ Mentioning \subseteq Contents
    /\ {} \in Bodies /\ Bodies \cup Bare \subseteq SUBSET Contents
    /\ "link" \notin Contents /\ "pixel" \notin Contents
    /\ EmailTrackOpens \in {"yes", "no"}
    /\ MaxVersions \in Nat \ {0}
    /\ Registered \subseteq EmailAdapters
    /\ Empty \notin Subjects
    /\ NoName \notin Names
    /\ Unnamed \notin Subjects \cup {Empty}
    /\ \A t \in SUBSET Contents : t # Unnamed

VARIABLES
    rows,       \* messaging.email_templates: a row for each id, or Gone
    editing,    \* what a request has read: Idle, or the id and a copy of the row
    message,    \* what the row of each message says, NoMessage before its insert
    mail,       \* the last mail an adapter handed to its service for a message
    published   \* every state a row was committed in, a history variable

vars == <<rows, editing, message, mail, published>>

Texts == SUBSET Contents
Written == [subject : Subjects \cup {Empty}, html : Bodies, text : Bodies]
Rows == [name : Names, subject : Subjects \cup {Empty}, html : Texts,
         text : Texts, version : 1 .. MaxVersions]

\* The fields an update may leave unnamed, for the row to keep them.
Changes == [subject : Subjects \cup {Empty, Unnamed},
            html : Bodies \cup {Unnamed}, text : Bodies \cup {Unnamed}]

Init ==
    /\ rows = [i \in Ids |-> Gone]
    /\ editing = [e \in Editors |-> Idle]
    /\ message = [m \in Messages |-> NoMessage]
    /\ mail = [m \in Messages |-> NoMail]
    /\ published = {}
-----------------------------------------------------------------------------
(* The templates *)

GetEmailTemplateByID(i)   == rows[i] # Gone
GetEmailTemplateByName(n) == {i \in Ids : GetEmailTemplateByID(i) /\ rows[i].name = n}

Publish(i, row) ==
    /\ Cardinality(published) < MaxVersions
    /\ rows' = [rows EXCEPT ![i] = row]
    /\ published' = published \cup {[id |-> i, row |-> row]}

\* A fresh id; UNIQUE (tenant_id, name); the column's default makes it version 1.
CreateEmailTemplate(i, t) ==
    /\ i \notin {p.id : p \in published}
    /\ GetEmailTemplateByName(t.name) = {}
    /\ Publish(i, [t EXCEPT !.version = 1])

NextVersion_Slip(i, t) == t.version + 1

\* version = version + 1: the row's own, whatever the caller read.
NextVersion(i, t) == rows[i].version + 1

\* Every column is written but the name.
UpdateEmailTemplate(i, t) ==
    /\ GetEmailTemplateByID(i)
    /\ Publish(i, [t EXCEPT !.version = NextVersion(i, t)])

DeleteEmailTemplate(i) == rows' = [rows EXCEPT ![i] = Gone]

\* validateEmailTemplate, of the handler that creates only.
ValidateEmailTemplate(w) == w.subject # Empty /\ w.html # {}

\* Without a text body the HTML is taken as it is.
Create(i, name, w) ==
    /\ ValidateEmailTemplate(w)
    /\ CreateEmailTemplate(i, [name |-> name, subject |-> w.subject, html |-> w.html,
           text |-> IF w.text = {} THEN w.html ELSE w.text, version |-> 1])
    /\ UNCHANGED <<editing, message, mail>>

\* Update and Duplicate read the row ...
Reads(e, i) ==
    /\ editing[e] = Idle
    /\ GetEmailTemplateByID(i)
    /\ editing' = [editing EXCEPT ![e] = [id |-> i, copy |-> rows[i]]]
    /\ UNCHANGED <<rows, message, mail, published>>

Ends(e) == editing' = [editing EXCEPT ![e] = Idle]

Merge(old, change) == IF change = Unnamed THEN old ELSE change

\* ... and Update writes back what it read, with the fields the request names.
Update(e, change) ==
    /\ editing[e] # Idle
    /\ LET t == editing[e].copy
       IN  UpdateEmailTemplate(editing[e].id,
               [t EXCEPT !.subject = Merge(t.subject, change.subject),
                         !.html    = Merge(t.html, change.html),
                         !.text    = Merge(t.text, change.text)])
    /\ Ends(e)
    /\ UNCHANGED <<message, mail>>

\* Duplicate inserts the copy under a new name.
Duplicate(e, i, name) ==
    /\ editing[e] # Idle
    /\ CreateEmailTemplate(i, [editing[e].copy EXCEPT !.name = name])
    /\ Ends(e)
    /\ UNCHANGED <<message, mail>>

\* The row is gone, the name is taken, or the statement fails.
EditFails(e) ==
    /\ editing[e] # Idle
    /\ Ends(e)
    /\ UNCHANGED <<rows, message, mail, published>>

Delete(i) ==
    /\ GetEmailTemplateByID(i)
    /\ DeleteEmailTemplate(i)
    /\ UNCHANGED <<editing, message, mail, published>>
-----------------------------------------------------------------------------
(* What Send is asked for.  body is the Text of the request; subject, html, *)
(* text and category are entries of its metadata, empty when missing.       *)

Categories == {"transactional", "marketing", Empty}
Tracking == {"yes", "no", "unset"}

Requests == [template : Names \cup {NoName}, body : Texts, subject : Subjects \cup {Empty},
             html : Texts, text : Texts, category : Categories, trackOpens : Tracking]

Request(name, body, w, category, track) ==
    [template |-> name, body |-> body, subject |-> w.subject, html |-> w.html,
     text |-> w.text, category |-> category, trackOpens |-> track]

NoMetadata == [subject |-> Empty, html |-> {}, text |-> {}]

\* MessageHandler.SendMessage: text and metadata as the caller likes.  With a
\* template they are written over, and left out here.
AskedByAPI ==
    {Request(NoName, b, w, c, t) :
        b \in Bare, w \in Written, c \in Categories, t \in Tracking}
    \cup {Request(n, {}, NoMetadata, c, t) :
        n \in Names, c \in Categories, t \in Tracking}

\* MessagingGateway.Submit: the HTML is the Text as well, or else the text is.
AskedByGateway ==
    {Request(NoName, IF w.html # {} THEN w.html ELSE w.text, w, c, "unset") :
        w \in Written, c \in Categories}
    \cup {Request(n, {}, NoMetadata, c, "unset") : n \in Names, c \in Categories}

\* EmailSender.SendTransactional: the HTML is the Text and nothing else.
AskedBySender ==
    {Request(NoName, w.html, [NoMetadata EXCEPT !.subject = w.subject],
             "transactional", "unset") : w \in Written}

\* EmailSender.SendWithTemplate
AskedWithTemplate ==
    {Request(n, {}, NoMetadata, "transactional", "unset") : n \in Names}

Asked == AskedByAPI \cup AskedByGateway \cup AskedBySender \cup AskedWithTemplate

\* resolveBool
TracksOpens(r) ==
    (IF r.trackOpens = "unset" THEN EmailTrackOpens ELSE r.trackOpens) = "yes"

IsMarketing_Slip(r) == r.category = "marketing"

\* Also when there is no category.
IsMarketing(r) == r.category # "transactional"

\* Rendering writes over the metadata and the Text; nobody asks whether the
\* template is active.
Rendered(r, row) ==
    [r EXCEPT !.subject = row.subject, !.html = row.html, !.body = row.html,
              !.text = IF row.text = {} THEN row.html ELSE row.text]

\* The link comes behind the HTML of the metadata, or else behind the Text,
\* unless the word is there already.
WithLink(r) ==
    LET html == IF r.html # {} THEN r.html ELSE r.body
    IN  IF ~IsMarketing(r)              THEN r.html
        ELSE IF html \cap Mentioning # {} THEN html
        ELSE html \cup {"link"}

\* The pixel comes behind the HTML of the metadata, were it empty.
WithPixel(r, html) == IF TracksOpens(r) THEN html \cup {"pixel"} ELSE html

Composed(r, rendered) ==
    [origin |-> "send", asked |-> r, subject |-> rendered.subject,
     html |-> WithPixel(r, WithLink(rendered)), text |-> rendered.text,
     body |-> rendered.body,
     headers |-> IF IsMarketing(r) THEN {"List-Unsubscribe"} ELSE {}]

\* Send reads the template once and inserts a row of its own: one step.
SendEmail(m, r) ==
    /\ message[m] = NoMessage
    /\ \/ /\ r.template = NoName
          /\ message' = [message EXCEPT ![m] = Composed(r, r)]
       \/ \E i \in GetEmailTemplateByName(r.template) :
              message' = [message EXCEPT ![m] = Composed(r, Rendered(r, rows[i]))]
    /\ UNCHANGED <<rows, editing, mail, published>>

\* The executor's message of a campaign has neither metadata nor text.
CampaignCreates(m) ==
    /\ message[m] = NoMessage
    /\ message' = [message EXCEPT ![m] =
           [origin |-> "campaign", asked |-> Request(NoName, {}, NoMetadata, Empty, "unset"),
            subject |-> Empty, html |-> {}, text |-> {}, body |-> {}, headers |-> {}]]
    /\ UNCHANGED <<rows, editing, mail, published>>
-----------------------------------------------------------------------------
(* The Sender and the adapters *)

MailHtml_Slip(msg) == msg.html

\* sendWithCfg: the Text stands in for an HTML that is empty.
MailHtml(msg) == IF msg.html = {} THEN msg.body ELSE msg.html

EmailRequest(msg) ==
    [subject |-> msg.subject, html |-> MailHtml(msg), text |-> msg.text,
     headers |-> msg.headers]

\* Two adapters make a request of their own that has no place for headers.
SendGridMail(q) == [q EXCEPT !.headers = {}]
MailgunMail(q)  == [q EXCEPT !.headers = {}]
PostmarkMail(q) == q
SMTPMail(q)     == q

\* validateSMTPRequest, and alike before the dev adapter's file is written.
HasContent(q) == q.subject # Empty /\ (q.html # {} \/ q.text # {})

MailOf(p, q) ==
    CASE p = "sendgrid" -> SendGridMail(q)
      [] p = "mailgun"  -> MailgunMail(q)
      [] p = "postmark" -> PostmarkMail(q)
      [] OTHER          -> SMTPMail(q)

\* One attempt of sendWithCfg, and as many as the Sender makes: a later one may
\* meet another adapter.
Transmit(m, p) ==
    /\ message[m] # NoMessage
    /\ LET q == EmailRequest(message[m])
       IN  /\ p \in {"smtp", "dev_email"} => HasContent(q)
           /\ mail' = [mail EXCEPT ![m] = MailOf(p, q)]
    /\ UNCHANGED <<rows, editing, message, published>>
-----------------------------------------------------------------------------
Edit(e) ==
    \/ \E i \in Ids : Reads(e, i)
    \/ \E c \in Changes : Update(e, c)
    \/ \E i \in Ids, n \in Names : Duplicate(e, i, n)
    \/ EditFails(e)

Next ==
    \/ \E i \in Ids, n \in Names, w \in Written : Create(i, n, w)
    \/ \E i \in Ids : Delete(i)
    \/ \E e \in Editors : Edit(e)
    \/ \E m \in Messages, r \in Asked : SendEmail(m, r)
    \/ \E m \in Messages : CampaignCreates(m)
    \/ \E m \in Messages, p \in Registered : Transmit(m, p)

Spec == Init /\ [][Next]_vars
-----------------------------------------------------------------------------
(* Properties *)

Parts == Contents \cup {"link", "pixel"}
Headers == SUBSET {"List-Unsubscribe"}

TypeOK ==
    /\ rows \in [Ids -> Rows \cup {Gone}]
    /\ editing \in [Editors -> [id : Ids, copy : Rows] \cup {Idle}]
    /\ message \in [Messages ->
           [origin : {"send", "campaign"}, asked : Requests, subject : Subjects \cup {Empty},
            html : SUBSET Parts, text : Texts, body : Texts, headers : Headers]
           \cup {NoMessage}]
    /\ mail \in [Messages ->
           [subject : Subjects \cup {Empty}, html : SUBSET Parts, text : Texts,
            headers : Headers] \cup {NoMail}]
    /\ published \subseteq [id : Ids, row : Rows]

\* A template and a version name one content: whoever noted them, in a log or in
\* a cache, can tell what was sent, however updates overlapped.
VersionNamesContent ==
    \A p, q \in published :
        p.id = q.id /\ p.row.version = q.row.version => p = q

BySend(m) == mail[m] # NoMail /\ message[m].origin = "send"

\* A transactional mail with nothing but its Text, and open tracking: the pixel
\* makes an HTML of its own, and the Text is not used.
LosesItsBody(r) ==
    /\ ~IsMarketing(r) /\ TracksOpens(r)
    /\ r.template = NoName /\ r.html = {} /\ r.text = {}

\* A mail made with a template says what one committed state of that template
\* said, in subject, HTML and text.
SaysOneVersion(m) ==
    \E p \in published :
        /\ p.row.name = message[m].asked.template
        /\ mail[m].subject = p.row.subject
        /\ mail[m].html \cap Contents = p.row.html
        /\ mail[m].text = IF p.row.text = {} THEN p.row.html ELSE p.row.text

\* Any other mail has the subject it was asked to have, says nothing that was not
\* asked for, and says something if anything was.
SaysTheRequest(m) ==
    LET r     == message[m].asked
        asked == r.html \cup r.text \cup r.body
        said  == (mail[m].html \cup mail[m].text) \cap Contents
    IN  /\ mail[m].subject = r.subject
        /\ said \subseteq asked
        /\ asked # {} /\ ~LosesItsBody(r) => said # {}

\* A mail that Send made says what it was asked to say, whatever became of the
\* template since, and however often and through whatever adapter it is sent.
SaysWhatWasAsked ==
    \A m \in Messages : BySend(m) =>
        IF message[m].asked.template = NoName THEN SaysTheRequest(m) ELSE SaysOneVersion(m)

\* Whatever is not transactional tells its reader how to unsubscribe, by a link,
\* by a header or in the words of its author, also through the adapters that
\* drop the header.
CanBeUnsubscribed ==
    \A m \in Messages :
        BySend(m) /\ message[m].asked.category # "transactional" =>
            \/ "link" \in mail[m].html
            \/ mail[m].html \cap Mentioning # {}
            \/ mail[m].headers # {}
=============================================================================
