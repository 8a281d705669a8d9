----------------------------- MODULE MCShutdown -----------------------------
(* A small instance of Shutdown for TLC: every thread there is. *)
EXTENDS Shutdown

AllThreads == {Gui, Listener, Slider, StdCtl, Lirc, Session}
=============================================================================
