----------------------------- MODULE MCWidgets -----------------------------
(* Small instances of Widgets for TLC. *)
EXTENDS Widgets, TLC

CONSTANTS w1, w2

(* Three windows of two widgets each; the wheel turns in the last, over
   either and while the slider is held. *)
Window(k1, k2) == w1 :> k1 @@ w2 :> k2
WithWheel == Window("position", "label")
MCKinds == {Window("button", "slider"), Window("input", "link"), WithWheel}
MCWheeled == {WithWheel}
=============================================================================
