------------------------------- MODULE MCNodes -------------------------------
(* Nodes on a small instance; worker processes and sessions are alike. *)
EXTENDS Nodes, TLC
Symmetric == Permutations(Workers) \cup Permutations(Sessions)
=============================================================================
