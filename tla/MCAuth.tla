------------------------------- MODULE MCAuth -------------------------------
EXTENDS Auth, TLC
RequestSymmetry == Permutations(Requests)
=============================================================================
