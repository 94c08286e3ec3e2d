---------------------------- MODULE MessageStatus ----------------------------
(***************************************************************************)
(* The lifecycle of a message row (core/domain/message.go): the statuses   *)
(* a message may have and the rank that orders them.  The order is partial *)
(* in effect: the four ways a message ends share the highest rank, and     *)
(* "read" and "opened" are the same step on two channels.                  *)
(***************************************************************************)
EXTENDS Integers

Statuses == {"created", "validated", "queued", "provider_submitted", "sent",
             "delivered", "read", "opened", "clicked", "replied",
             "failed", "cancelled", "expired", "suppressed"}

Ended == {"failed", "cancelled", "expired", "suppressed"}

\* MessageStatusRank: -1 is the rank of a string that is no status.
Rank(s) ==
    CASE s = "created"            -> 0
      [] s = "validated"          -> 10
      [] s = "queued"             -> 20
      [] s = "provider_submitted" -> 30
      [] s = "sent"               -> 40
      [] s = "delivered"          -> 50
      [] s \in {"read", "opened"} -> 60
      [] s = "clicked"            -> 70
      [] s = "replied"            -> 80
      [] s \in Ended              -> 100
      [] OTHER                    -> -1

\* The guard of both webhook handlers: a report is applied only when it moves
\* the message strictly forward.
Advances(from, to) == Rank(to) > Rank(from)

\* mapWhatsAppStatus: what Meta reports, as a status; anything the mapping
\* does not know becomes "provider_submitted".
MetaReports == {"sent", "delivered", "read", "failed", "other"}

\* A wrong version, which takes the report as it comes; nothing uses it.
MapWhatsAppStatus_Slip(r) == r

MapWhatsAppStatus(r) ==
    IF r \in {"sent", "delivered", "read", "failed"} THEN r
                                                     ELSE "provider_submitted"
=============================================================================
