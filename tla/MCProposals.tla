----------------------------- MODULE MCProposals -----------------------------
(* Instances of Proposals for TLC. *)
EXTENDS Proposals, TLC

CONSTANTS p1, n1, t1, t2

OneNode == [p \in Props |-> n1]
=============================================================================
