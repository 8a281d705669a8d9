------------------------------- MODULE MCPost -------------------------------
(* Post for TLC: two slots of three in view, one filter per kind at start. *)
EXTENDS Post
=============================================================================
