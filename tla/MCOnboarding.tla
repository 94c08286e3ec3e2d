---------------------------- MODULE MCOnboarding ----------------------------
EXTENDS Onboarding, TLC

\* Nothing tells tenants, WABAs, numbers or requests apart.
Symmetry ==
    Permutations(Tenants) \cup Permutations(Wabas) \cup Permutations(Phones) \cup
    Permutations(Requests)
=============================================================================
