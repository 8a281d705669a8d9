------------------------------ MODULE MCWindows ------------------------------
(* A small instance of Windows for TLC. *)
EXTENDS Windows

CONSTANTS h, listener
==============================================================================
