------------------------------ MODULE MCEmails ------------------------------
(***************************************************************************)
(* A small instance of Emails.                                             *)
(***************************************************************************)
EXTENDS Emails, TLC

Interchangeable == Permutations(Ids) \cup Permutations(Editors) \cup Permutations(Names)
=============================================================================
