------------------------------ MODULE MCInbox ------------------------------
(***************************************************************************)
(* One number in its two forms, and one contact.                           *)
(***************************************************************************)
EXTENDS Inbox, TLC

CONSTANTS w1, p1

HandlerSymmetry == Permutations(Handlers)

OneWire  == {w1}
BothForms == {w1, p1}
Plus     == w1 :> p1
=============================================================================
