---------------------------- MODULE MCTemplates ----------------------------
EXTENDS Templates, TLC

\* Nothing tells rows, names, contents or requests apart.
Symmetry ==
    Permutations(Ids) \cup Permutations(Keys) \cup Permutations(Contents) \cup
    Permutations(Requests)
=============================================================================
