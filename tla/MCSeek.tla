------------------------------- MODULE MCSeek -------------------------------
(* Small instances of Seek for TLC. *)
EXTENDS Seek

BothWays == {10, -10}
=============================================================================
