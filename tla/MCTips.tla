------------------------------- MODULE MCTips -------------------------------
(* Small instances of Tips for TLC. *)
EXTENDS Tips

CONSTANTS w1, w2, plain
=============================================================================
