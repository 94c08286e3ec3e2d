------------------------------- MODULE Inbox -------------------------------
(***************************************************************************)
(* WhatsApp in both directions, over the contacts of module Contacts:      *)
(*                                                                         *)
(*   - an inbound message (webhook_service.go, processWhatsAppIncoming)    *)
(*     opens the conversation's service window for 24 hours, is stored,    *)
(*     and opts its sender in or out when its text is a keyword;           *)
(*   - Send (message_service.go) wants an opted-in contact and, for text,  *)
(*     a conversation with an open window;                                 *)
(*   - agents update conversations (conversation_service.go).              *)
(*                                                                         *)
(* Messages arrive late, out of order and more than once.  WhatsApp names  *)
(* a number without the "+" that the HTTP API demands of a phone:          *)
(* StoredPhone[w].  The application around the module calls the services   *)
(* itself and may store a number as it is.                                 *)
(* The rest of Send - suppression, e-mail, idempotency keys - is in the    *)
(* modules Dispatch and Emails.  Further Events:                           *)
(*   "inbound", "send", "agent"                                            *)
(*   "upsert", "store"   the statement of the webhook fails                *)
(***************************************************************************)
EXTENDS Contacts, FiniteSets

CONSTANTS
    Wires,        \* numbers as WhatsApp names them
    StoredPhone,  \* StoredPhone[w]: the phone of a contact with number w
    WhatsApp,     \* the channel
    Window,       \* 24 hours
    MaxClock,
    Handlers      \* webhook messages and sends in progress at one time

ASSUME InboxAssumption ==
    /\ StoredPhone \in [Wires -> Phones] /\ Wires \subseteq Phones
    /\ WhatsApp \in Channels
    /\ Window \in Nat \ {0} /\ MaxClock \in Nat

VARIABLES
    clock,
    conversation,  \* by recipient, in either form
    handler,       \* handler[h]: an inbound message, or a Send, in progress
    heard          \* history: times of w's messages that were upserted

inboxVars == <<clock, conversation, handler, heard>>
vars == <<contactVars, inboxVars>>

Times      == 0 .. MaxClock
Words      == {"hello", "stop", "start"}
\* "closed" also stands for pending and resolved: the window asks for open ones.
ConversationStatuses == {"open", "closed"}
\* exists FALSE: no row.  The window is 0 while service_window_until is NULL.
Conversation   == [exists : BOOLEAN, status : ConversationStatuses, window : 0 .. MaxClock + Window]
NoConversation == [exists |-> FALSE, status |-> "open", window |-> 0]

Receiving == [step : {"message", "keyword"}, from : Wires, word : Words]
\* began: when Send began; refused: the contact had settled to opt out by then.
Sending   == [step : {"window", "outbound", "create"}, text : BOOLEAN, to : Phones,
              began : Times, refused : BOOLEAN]

TypeOK ==
    /\ ContactsTypeOK
    /\ clock \in Times
    /\ conversation \in [Phones -> Conversation]
    /\ heard \in [Wires -> SUBSET Times]
    /\ handler \in [Handlers -> {Idle} \cup Receiving \cup Sending]

Init ==
    /\ ContactsInit
    /\ clock = 0
    /\ conversation = [x \in Phones |-> NoConversation]
    /\ heard = [w \in Wires |-> {}]
    /\ handler = [h \in Handlers |-> Idle]

Larger(a, b)     == IF a > b THEN a ELSE b
Handles(h, s)    == handler[h].step = s
Continues(h, s)  == handler' = [handler EXCEPT ![h].step = s]
Finishes(h)      == handler' = [handler EXCEPT ![h] = Idle]

\* ON CONFLICT: the conversation opens again and the window only grows.
UpsertInbound_Slip(x, t) == \* the last delivered message sets the window
    conversation' = [conversation EXCEPT ![x] =
        [exists |-> TRUE, status |-> "open", window |-> t + Window]]
UpsertInbound(x, t) == conversation' = [conversation EXCEPT ![x] =
    [exists |-> TRUE, status |-> "open", window |-> Larger(@.window, t + Window)]]

\* ON CONFLICT: only last_outbound_at.
UpsertOutbound(x) == conversation' = [conversation EXCEPT ![x].exists = TRUE]

HasActiveConversation_Slip(x) == \* the window is not looked at
    conversation[x].exists /\ conversation[x].status = "open"
HasActiveConversation(x) ==
    /\ conversation[x].exists
    /\ conversation[x].status = "open"
    /\ conversation[x].window > clock

\* A message sent by w at time t <= clock reaches the webhook.  An upsert that
\* fails is only logged.
Receives(h, w, word, t) ==
    /\ May("inbound")
    /\ Handles(h, "idle")
    /\ t <= clock
    /\ \/ UpsertInbound(w, t) /\ heard' = [heard EXCEPT ![w] = @ \cup {t}]
       \/ May("upsert") /\ UNCHANGED <<conversation, heard>>
    /\ handler' = [handler EXCEPT ![h] = [step |-> "message", from |-> w, word |-> word]]
    /\ UNCHANGED <<contactVars, clock>>

\* The message is stored, or the failure ends the handling of it.
StoresMessage(h) ==
    /\ Handles(h, "message")
    /\ \/ handler[h].word # "hello" /\ Continues(h, "keyword")
       \/ (handler[h].word = "hello" \/ May("store")) /\ Finishes(h)
    /\ UNCHANGED <<contactVars, clock, conversation, heard>>

\* The contact whose phone is the number, as it is or with a plus.
ContactByRecipient(w) == {c \in Contacts : phone[c] \in {w, StoredPhone[w]}}

KeywordKind(word) == IF word = "stop" THEN "optout" ELSE "optin"

\* OptIn or OptOut follows, as one more request of module Contacts.
HandlesKeyword(h) ==
    /\ Handles(h, "keyword")
    /\ \E c \in ContactByRecipient(handler[h].from), r \in Requests :
           ReadsContact(r, KeywordKind(handler[h].word), c, WhatsApp, "never")
    /\ Finishes(h)
    /\ UNCHANGED <<clock, conversation, heard>>

\* No contact, or nothing to change.
DropsKeyword(h) ==
    /\ Handles(h, "keyword")
    /\ \A c \in ContactByRecipient(handler[h].from) :
           ~Proceeds(KeywordKind(handler[h].word), optIn[c][WhatsApp])
    /\ Finishes(h)
    /\ UNCHANGED <<contactVars, clock, conversation, heard>>

\* Send reads the contact of the recipient and checks its opt-in.
MaySendTo_Slip(c, p) == phone[c] = p /\ optIn[c][WhatsApp] \notin {"pending", "double_opt_in_pending"}
MaySendTo(c, p) == phone[c] = p /\ optIn[c][WhatsApp] = "opted_in"

BeginsSend(h, text, p) ==
    /\ May("send")
    /\ Handles(h, "idle")
    /\ \E c \in Contacts :
        /\ MaySendTo(c, p)
        /\ handler' = [handler EXCEPT ![h] =
               [step |-> IF text THEN "window" ELSE "outbound", text |-> text, to |-> p,
                began |-> clock, refused |-> settled[c][WhatsApp] = "opted_out"]]
    /\ UNCHANGED <<contactVars, clock, conversation, heard>>

ChecksWindow(h) ==
    /\ Handles(h, "window")
    /\ IF HasActiveConversation(handler[h].to) THEN Continues(h, "outbound") ELSE Finishes(h)
    /\ UNCHANGED <<contactVars, clock, conversation, heard>>

TouchesConversation(h) ==
    /\ Handles(h, "outbound")
    /\ UpsertOutbound(handler[h].to)
    /\ Continues(h, "create")
    /\ UNCHANGED <<contactVars, clock, heard>>

\* The message is created and queued: module Dispatch.
CreatesMessage(h) ==
    /\ Handles(h, "create")
    /\ Finishes(h)
    /\ UNCHANGED <<contactVars, clock, conversation, heard>>

\* COALESCE: an absent status leaves the one of the row.
UpdateConversationInbox(x, s) ==
    conversation' = [conversation EXCEPT ![x].status = IF s = "absent" THEN @ ELSE s]

\* An agent assigns or tags a conversation that exists, or sets its status.
UpdatesConversation(x, s) ==
    /\ May("agent")
    /\ s \in ConversationStatuses \cup {"absent"}
    /\ conversation[x].exists
    /\ UpdateConversationInbox(x, s)
    /\ UNCHANGED <<contactVars, clock, handler, heard>>

Tick ==
    /\ clock < MaxClock
    /\ clock' = clock + 1
    /\ UNCHANGED <<contactVars, conversation, handler, heard>>

Next ==
    \/ ContactsNext /\ UNCHANGED inboxVars
    \/ \E h \in Handlers :
        \/ \E w \in Wires, word \in Words, t \in Times : Receives(h, w, word, t)
        \/ StoresMessage(h) \/ HandlesKeyword(h) \/ DropsKeyword(h)
        \/ \E text \in BOOLEAN, p \in Phones : BeginsSend(h, text, p)
        \/ ChecksWindow(h) \/ TouchesConversation(h) \/ CreatesMessage(h)
    \/ \E x \in Phones, s \in ConversationStatuses \cup {"absent"} : UpdatesConversation(x, s)
    \/ Tick

Spec == Init /\ [][Next]_vars

(* No message is created for a contact whose opt-out was settled when Send  *)
(* began: whatever was written to the row before, Send read that status.    *)
NothingSentAfterOptOut == \A h \in Handlers :
    handler[h].step \in {"window", "outbound", "create"} => ~handler[h].refused

(* The window is that of the newest message WhatsApp delivered, in whatever *)
(* order the messages came.                                                 *)
WindowFollowsNewest == \A w \in Wires :
    conversation[w].window = IF heard[w] = {} THEN 0
                             ELSE Window + (CHOOSE t \in heard[w] : \A o \in heard[w] : o <= t)

(* A text message is created only for a recipient who had written in the    *)
(* last 24 hours when Send began, or wrote since.                           *)
HeardFrom(x) == UNION {heard[w] : w \in {v \in Wires : x \in {v, StoredPhone[v]}}}
TextsAreInWindow == \A h \in Handlers :
    handler[h].step \in {"outbound", "create"} /\ handler[h].text
        => \E t \in HeardFrom(handler[h].to) : t + Window > handler[h].began
=============================================================================
