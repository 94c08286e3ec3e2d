---------------------------- MODULE MCCampaigns ----------------------------
(***************************************************************************)
(* Small instances of Campaigns: contacts, in lists with and without a     *)
(* repetition, and a segment of them.                                      *)
(***************************************************************************)
EXTENDS Campaigns, TLC

CONSTANTS c1, c2

OneContact  == {c1}
TwoContacts == {c1, c2}
Nobody      == {}
TheSecond   == {c2}
Repeated    == {<<c1>>, <<c1, c1>>}
Mixed       == {<<c2, c1>>}
JustOne     == <<c1>>
Reversed    == <<c2, c1>>
=============================================================================
