------------------------------ MODULE MCPlugins ------------------------------
(* Plugins on a small instance: two requests at a time, one hook call. *)
EXTENDS Plugins, TLC
=============================================================================
