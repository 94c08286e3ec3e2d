------------------------------ MODULE Providers ------------------------------
(***************************************************************************)
(* What the provider adapters (adapters/providers) make of the answers of  *)
(* their services.  Replies says what a service did with the request it    *)
(* was sent; the answers are what sendWithCfg of worker/sender.go gets:    *)
(*                                                                         *)
(*   "result"   the service has the message and gave it an id              *)
(*   "unnamed"  the service has the message, and the id is empty           *)
(*   "lost"     the service has the message, and an error says otherwise   *)
(*   "limited"  domain.ErrRateLimitExceeded                                *)
(*   "auth"     ErrCredentialsExpired or ErrForbidden                      *)
(*   "error"    any other error                                            *)
(***************************************************************************)
\* The names they are registered under, by channel.
WhatsAppAdapters == {"meta_cloud"}
EmailAdapters    == {"sendgrid", "mailgun", "postmark", "smtp", "dev_email"}
SMSAdapters      == {"msg91", "twilio"}
Adapters == WhatsAppAdapters \cup EmailAdapters \cup SMSAdapters

SameChannel(p, q) ==
    \E c \in {WhatsAppAdapters, EmailAdapters, SMSAdapters} : {p, q} \subseteq c

\* "unnamed": taken, without an id; "garbled": taken, with a body that does not
\* parse; "silent": taken, and no answer comes in time.
Replies == {"accepted", "unnamed", "garbled", "silent",
            "limited", "denied", "forbidden", "refused"}

Took == {"accepted", "unnamed", "garbled", "silent"}

Answers == {"result", "unnamed", "lost", "limited", "auth", "error"}
-----------------------------------------------------------------------------
(* One operator per adapter.  All but Meta's have one error for whatever is *)
(* not a success.                                                           *)

Error(r) == IF r \in Took THEN "lost" ELSE "error"

\* The answer is parsed for the id, which may be empty.
IdInBody(r) ==
    CASE r = "accepted" -> {"result"}
      [] r = "unnamed"  -> {"unnamed"}
      [] OTHER          -> {Error(r)}

MailgunSend(r)  == IdInBody(r)
PostmarkSend(r) == IdInBody(r)
MSG91Send(r)    == IdInBody(r)
TwilioSend(r)   == IdInBody(r)

\* SendGrid's id is a header and its body is not read.
SendGridSend(r) ==
    CASE r \in {"accepted", "garbled"} -> {"result"}
      [] r = "unnamed"                 -> {"unnamed"}
      [] OTHER                         -> {Error(r)}

\* The dialogue with the server: what fails after the end of DATA, QUIT included,
\* is an error though the server has the mail.
SMTPDialogue(r) == IF r \in {"accepted", "unnamed"} THEN "ok" ELSE Error(r)

\* The id is made here, before the mail is sent.
SMTPSend(r) == {IF a = "ok" THEN "result" ELSE a : a \in {SMTPDialogue(r)}}

\* A file in the outbox: it is written or it is not.
DevSend(r) == IF r \in Took THEN {"result"} ELSE {"error"}

\* decodeError: what Meta says of a request it did not take, or only "http" when
\* the body holds no error that parses.
MetaErrors(r) == {r, "http"}

IsRateLimit(e)       == e = "limited"
IsAuthError(e)       == e = "denied"
IsPermissionError(e) == e = "forbidden"

\* mapMetaError; the Sender makes no difference between the two refusals.
MapMetaError(e) ==
    CASE IsRateLimit(e)                         -> "limited"
      [] IsAuthError(e) \/ IsPermissionError(e) -> "auth"
      [] OTHER                                  -> "error"

\* client.do
MetaDo(r) == IF r \in Took THEN IdInBody(r)
                           ELSE {MapMetaError(e) : e \in MetaErrors(r)}

WhatsAppSend(r) == MetaDo(r)

Send(p, r) ==
    CASE p = "meta_cloud" -> WhatsAppSend(r)
      [] p = "sendgrid"   -> SendGridSend(r)
      [] p = "mailgun"    -> MailgunSend(r)
      [] p = "postmark"   -> PostmarkSend(r)
      [] p = "smtp"       -> SMTPSend(r)
      [] p = "dev_email"  -> DevSend(r)
      [] p = "msg91"      -> MSG91Send(r)
      [] p = "twilio"     -> TwilioSend(r)
      [] OTHER            -> {"error"} \* not registered
-----------------------------------------------------------------------------
(* Whose credentials an adapter needs: the config an attempt uses may be of *)
(* another adapter of the channel than the provider it calls.               *)

\* The platform's configs (module.go) hold an API key or the sender of MSG91:
\* nothing that Mailgun (a domain), Twilio (a token) or Meta could use.
PlatformConfigSuits == {"sendgrid", "postmark", "msg91"}

\* Can p work with a config of q that belongs to owner?  SMTP falls back on the
\* environment, the outbox needs none.
HasCredentials(p, owner, q) ==
    \/ p \in {"smtp", "dev_email"}
    \/ p = q /\ (owner = "tenant" \/ p \in PlatformConfigSuits)

\* What an attempt may come back with while the services give replies R.
AnswersTo(p, owner, q, R) ==
    IF HasCredentials(p, owner, q) THEN UNION {Send(p, r) : r \in R}
                                   ELSE {"error"}
=============================================================================
