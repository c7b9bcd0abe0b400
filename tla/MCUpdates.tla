------------------------------ MODULE MCUpdates ------------------------------
(* Updates on a small instance: one node, two updates that may overlap. *)
EXTENDS Updates, TLC
=============================================================================
