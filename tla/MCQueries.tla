------------------------------ MODULE MCQueries ------------------------------
(* Queries on a small instance: two calls at a time, two sessions. *)
EXTENDS Queries, TLC
=============================================================================
