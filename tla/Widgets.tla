------------------------------ MODULE Widgets ------------------------------
(***************************************************************************)
(* The widget list of one window: src/xitk/xine-toolkit/widget.c, the      *)
(* mouse and key events of xitk_handle_event in xitk.c, and the input      *)
(* handlers of button.c, slider.c, inputtext.c and label.c.                *)
(*                                                                         *)
(* The list points at the widget with the keyboard focus, the one under    *)
(* the mouse and the one that is held; each widget carries bits that say   *)
(* the same in its own words.  Both are kept by hand in a dozen places,    *)
(* while callbacks and timers move, disable, delete and add widgets,       *)
(* between any two events and inside an event handler.                     *)
(*                                                                         *)
(* An event is handled under the xitk lock, in one step: only the release  *)
(* of a button goes on with the list after the callback, in Ungrab.  What  *)
(* a callback does is any of the Application steps that follow.            *)
(*                                                                         *)
(* A place is an area no two widgets share.  Groups (combo boxes, tabs,    *)
(* browsers, menus), focus redirection and hidden widgets are left out.    *)
(***************************************************************************)
EXTENDS Integers, FiniteSets

CONSTANTS Widget,      \* room for widgets
          Kinds,       \* the windows looked at: the kind of each widget
          Areas,       \* places in the window: 1 .. Areas, in tab order
          MouseButton, \* 1 is left, 3 right, 4 the wheel
          Wheeled,     \* bound: the windows in which the wheel turns
          None         \* NULL

(* "position" is the slider of the panel, a slider without
   WIDGET_KEEP_FOCUS; a "plain" label has no callback, a "link" is a label
   with a callback and a highlight font, which may have the focus. *)
Kind == {"button", "slider", "position", "input", "label", "link", "plain"}

ASSUME WidgetsAssumption ==
  /\ None \notin Widget /\ Areas \in Nat
  /\ Kinds \subseteq [Widget -> Kind]
  /\ MouseButton \subseteq Nat

Bit == {"ENABLE", "CLICK", "MOUSE", "FOCUS"}
Area == 1 .. Areas
Outside == 0
Place == Area \cup {Outside}

VARIABLES
  kind,     \* w->type
  alive,    \* the widgets in the list
  place,    \* where each widget is
  state,    \* w->state
  shown,    \* w->shown_state
  focused,  \* wl->widget_focused
  under,    \* wl->widget_under_mouse
  pressed,  \* wl->widget_pressed
  clip,     \* xitk->clipboard.widget_in
  noMouse,  \* wl->flags & XITK_WL_NO_MOUSE_FOCUS
  mouse,    \* wl->mouse
  held,     \* xitk->qual: the buttons that are down
  move,     \* fx->move.enabled: the window follows the mouse
  cont,     \* "ungrab": a release is being handled, its callback runs
  hit       \* the widget found at the place of that release

pointers == <<focused, under, pressed>>
bits == <<state, shown>>
input == <<mouse, held, move>>
release == <<cont, hit>>
vars == <<kind, alive, place, bits, pointers, clip, noMouse, input, release>>

Button == {w \in Widget : kind[w] = "button"}
Slider == {w \in Widget : kind[w] \in {"slider", "position"}}
Input == {w \in Widget : kind[w] = "input"}
Link == {w \in Widget : kind[w] = "link"}
Label == {w \in Widget : kind[w] = "label"} \cup Link
Focusable == Button \cup Slider \cup Input \cup Link
Keep == {w \in Widget : kind[w] \in {"slider", "input"}}

Init ==
  /\ kind \in Kinds
  /\ alive = Widget
  /\ place \in [Widget -> Area]
  /\ \A v, w \in Widget : v # w => place[v] # place[w]
  /\ state = [w \in Widget |-> {"ENABLE"}] /\ shown = state
  /\ focused = None /\ under = None /\ pressed = None /\ clip = None
  /\ noMouse = FALSE /\ mouse = Outside /\ held = {} /\ move = FALSE
  /\ cont = "none" /\ hit = None

-----------------------------------------------------------------------------
\* Finding widgets.

(* xitk_get_widget_at() *)
At(p) ==
  LET there == {w \in alive : "ENABLE" \in state[w] /\ place[w] = p}
  IN IF p = Outside \/ there = {} THEN None ELSE CHOOSE w \in there : TRUE

\* Mutant of Test: whether the widget is enabled is not asked.
TestAnywhere(w, p) == w # None /\ place[w] = p

(* xitk_widget_test_focus_redirect(), for a widget nothing redirects to *)
Test(w, p) == w # None /\ "ENABLE" \in state[w] /\ place[w] = p

Drop(pointer, w) == IF pointer = w THEN None ELSE pointer

(* xitk_find_nextprev_focus(): the tabbable widgets in the order of their
   places, and the one after or before the focused one. *)
NextFocus(backward) ==
  LET tabs == {w \in alive \cap Focusable : "ENABLE" \in state[w]}
      Before(v, w) == IF backward THEN place[v] > place[w] ELSE place[v] < place[w]
      First(S) == CHOOSE w \in S : \A v \in S : ~Before(v, w)
      later == IF focused \in tabs THEN {w \in tabs : Before(focused, w)} ELSE {}
  IN CASE tabs = {} -> None
       [] later # {} -> First(later)
       [] OTHER -> First(tabs)

-----------------------------------------------------------------------------
\* Changing bits: f is state or shown.

Set(f, w, new) == IF w = None THEN f ELSE [f EXCEPT ![w] = new]
Clear(f, w, gone) == Set(f, w, f[w] \ gone)
Paint(st, w) == Set(shown, w, st[w])

(* Moving the keyboard focus to w: xitk_set_focus_to_next_widget() and
   xitk_set_focus_to_widget(), which leaves the mouse alone. *)
FocusOn(w, byKey) ==
  LET away == byKey /\ under # None /\ under # w
      st1 == IF away THEN Clear(state, under, {"MOUSE"}) ELSE state
      sh1 == IF away /\ under # focused THEN Paint(st1, under) ELSE shown
      lose == focused \in Focusable /\ "ENABLE" \in st1[focused]
      st2 == IF lose THEN Clear(st1, focused, {"FOCUS"}) ELSE st1
      sh2 == IF lose THEN Set(sh1, focused, st2[focused]) ELSE sh1
      gain == w \in Focusable /\ "ENABLE" \in st2[w]
      st3 == IF gain THEN Set(st2, w, st2[w] \cup {"FOCUS"}) ELSE st2
  IN /\ state' = st3
     /\ shown' = IF gain THEN Set(sh2, w, st3[w]) ELSE sh2
     /\ focused' = w
     /\ under' = IF away THEN None ELSE under

FocusNext(backward) ==
  LET w == NextFocus(backward)
  IN IF w \in {None, focused} THEN UNCHANGED <<bits, focused, under>>
     ELSE FocusOn(w, TRUE)

-----------------------------------------------------------------------------
\* What a widget does with a click: _button_input(), _xitk_slider_click(),
\* _notify_click_inputtext(), _label_input().

ClickDown(st, w, b) ==
  IF b = 1 /\ (w \in Input \/ "FOCUS" \in st[w])
  THEN CASE w \in Button \cup Slider -> st[w] \cup {"CLICK"}
         [] w \in Input -> st[w] \cup {"FOCUS"}
         [] OTHER -> st[w]
  ELSE st[w]

ClickUp(st, w, b) ==
  IF b = 1 /\ w \in Button \cup Slider /\ "FOCUS" \in st[w]
  THEN st[w] \ {"CLICK"} ELSE st[w]

(* The event is answered with 1: the window is not to be moved. *)
Handles(st, w, b) ==
  /\ b = 1
  /\ w \in Slider \cup Input \cup Label \/ (w \in Button /\ "FOCUS" \in st[w])

(* A release makes the widget call the application. *)
Calls(st, w, b) ==
  b = 1 /\ (w \in Label \/ (w \in Button \cup Slider /\ "FOCUS" \in st[w]))

-----------------------------------------------------------------------------
\* Mouse events.

(* A held widget is the only one relevant: a slider follows the mouse, any
   other is shown held as long as the mouse is in it. *)
Drag(p) ==
  IF pressed \in Slider
  THEN /\ focused' = pressed
       /\ state' = Set(state, pressed, ClickDown(state, pressed, 1))
       /\ shown' = IF state' # state THEN Paint(state', pressed) ELSE shown
       /\ UNCHANGED under
  ELSE LET in == Test(pressed, p)
           old == state[pressed] \ {"CLICK", "MOUSE", "FOCUS"}
           new == IF in THEN old \cup {"CLICK", "MOUSE", "FOCUS"} ELSE old
       IN /\ under' = IF in THEN pressed ELSE None
          /\ state' = Set(state, pressed, new)
          /\ shown' = IF state' # state THEN Paint(state', pressed) ELSE shown
          /\ UNCHANGED focused

(* The mouse goes from the widget it was over, or the focused one, to w.
   `accepted` is the answer of xitk_tips_show_widget_tips(). *)
Hover(w, accepted) ==
  LET u == IF under = None THEN focused ELSE under
      f == u = focused
      stays == \/ u \notin Focusable
               \/ "ENABLE" \notin state[u]
               \/ f /\ u \in Keep /\ (u \in Input \/ w = None)
      st1 == IF ~stays
             THEN Clear(state, u, IF f THEN {"MOUSE", "FOCUS"} ELSE {"MOUSE"})
             ELSE IF u \in Input /\ f /\ u \in Keep /\ "ENABLE" \in state[u]
             THEN Clear(state, u, {"MOUSE"}) ELSE state
      sh1 == IF u # None /\ st1 # state THEN Set(shown, u, st1[u]) ELSE shown
      foc == IF ~stays /\ f THEN None ELSE focused
      gain == accepted /\ w \in Focusable
      st2 == IF ~gain THEN st1
             ELSE Set(st1, w, st1[w] \cup (IF w \in {pressed, foc}
                                           THEN {"MOUSE", "FOCUS"} ELSE {"MOUSE"}))
  IN IF u # None /\ u = w
     THEN /\ state' = Set(state, u, state[u] \cup {"MOUSE"})
          /\ shown' = Paint(state', u) /\ under' = u /\ UNCHANGED focused
     ELSE /\ state' = st2
          /\ shown' = IF gain THEN Set(sh1, w, st2[w]) ELSE sh1
          /\ under' = w /\ focused' = foc

(* XITK_EV_MOVE, XITK_EV_ENTER, XITK_EV_LEAVE -> xitk_motion_notify_widget_list() *)
Motion(p) ==
  /\ cont = "none" /\ ~move
  /\ mouse' = p
  /\ \/ /\ pressed # None /\ 1 \in held
        /\ Drag(p)
        /\ UNCHANGED noMouse
     \/ /\ ~(pressed # None /\ 1 \in held)
        /\ LET w == IF Test(under, p) THEN under ELSE At(p)
           IN /\ noMouse' = (noMouse /\ (w # None \/ Test(under, p)))
              /\ IF noMouse /\ w # None /\ ~Test(under, p)
                 THEN UNCHANGED <<bits, focused, under>>
                 ELSE \E accepted \in BOOLEAN : Hover(w, accepted)
  /\ UNCHANGED <<alive, place, pressed, clip, held, move, release>>

(* The widget a click is for: while a slider is held, no other. *)
Target(b, p) == IF 1 \in held /\ b # 1 /\ pressed \in Slider THEN pressed ELSE At(p)

(* XITK_EV_BUTTON_DOWN -> xitk_click_notify_widget_list(.., bUp = 0, ..) *)
ButtonDown(b) ==
  /\ cont = "none" /\ b \notin held /\ (held = {} => mouse # Outside)
  /\ LET w == Target(b, mouse)
         grab == 1 \in held /\ b # 1 /\ pressed \in Slider
         foc == IF grab THEN pressed ELSE focused
         able == w \in Focusable /\ "ENABLE" \in state[w]
         new == IF b <= 3 THEN {"MOUSE", "FOCUS"} ELSE {"MOUSE"}
         lose == foc \in Focusable /\ "ENABLE" \in state[foc]
         st1 == IF w # foc /\ lose THEN Clear(state, foc, {"MOUSE", "FOCUS"}) ELSE state
         sh1 == IF w # foc /\ foc # None THEN Paint(st1, foc) ELSE shown
         st2 == CASE able /\ w # foc -> Set(st1, w, st1[w] \cup new)
                  [] able /\ w = foc /\ under = w -> Set(st1, w, st1[w] \cup {"MOUSE", "FOCUS"})
                  [] OTHER -> st1
         sh2 == IF w # foc /\ w # None THEN Set(sh1, w, st2[w]) ELSE sh1
         st3 == IF w = None \/ "ENABLE" \notin st2[w] THEN st2
                ELSE Set(st2, w, ClickDown(st2, w, b))
         handled == w # None /\ "ENABLE" \in st2[w] /\ Handles(st2, w, b)
     IN /\ state' = st3
        /\ shown' = IF handled /\ w \notin Label /\ "FOCUS" \in st3[w]
                 THEN Set(sh2, w, st3[w]) ELSE sh2
        /\ focused' = CASE w = foc -> foc
                        [] w # None /\ ~able -> None
                        [] OTHER -> IF b <= 3 THEN w ELSE foc
        /\ pressed' = IF b = 1 THEN w ELSE pressed
        /\ move' = (b = 1 /\ ~handled)
  /\ held' = held \cup {b}
  /\ UNCHANGED <<alive, place, under, clip, noMouse, mouse, release>>

(* The end of a release: a widget that was held, heard of it, and is not
   under the mouse loses the focus. *)
LetGo(st, sh, foc, w, heard) ==
  LET off == heard /\ pressed # w /\ pressed \in Focusable
      new == Clear(st, pressed, {"MOUSE", "FOCUS"})
  IN /\ state' = IF off THEN new ELSE st
     /\ shown' = IF off THEN Set(sh, pressed, new[pressed]) ELSE sh
     /\ focused' = IF off THEN None ELSE foc
     /\ pressed' = None

(* XITK_EV_BUTTON_UP -> xitk_click_notify_widget_list(.., bUp = 1, ..), up
   to the widget's callback if it has one to call.  The end of a window move
   is no click.  *)
ButtonUp(b) ==
  /\ cont = "none" /\ b \in held
  /\ held' = held \ {b} /\ move' = FALSE
  /\ LET w == Target(b, mouse)
         foc == IF 1 \in held /\ b # 1 /\ pressed \in Slider THEN w ELSE focused
         heard == pressed # None /\ "ENABLE" \in state[pressed]
         calls == heard /\ Calls(state, pressed, b)
         st == IF heard THEN Set(state, pressed, ClickUp(state, pressed, b)) ELSE state
         sh == IF calls /\ pressed \notin Label THEN Set(shown, pressed, st[pressed]) ELSE shown
     IN CASE move -> UNCHANGED <<bits, focused, pressed, release>>
          [] ~move /\ calls -> /\ state' = st /\ shown' = sh /\ focused' = foc
                               /\ cont' = "ungrab" /\ hit' = w
                               /\ UNCHANGED pressed
          [] ~move /\ ~calls /\ b = 1 -> LetGo(st, sh, foc, w, heard) /\ UNCHANGED release
          [] OTHER -> focused' = foc /\ UNCHANGED <<bits, pressed, release>>
  /\ UNCHANGED <<alive, place, under, clip, noMouse, mouse>>

(* The rest of the release after the callback, which may have moved the
   focus or deleted what was held. *)
Ungrab ==
  /\ cont = "ungrab"
  /\ cont' = "none" /\ hit' = None
  /\ LetGo(state, shown, focused, hit, TRUE)
  /\ UNCHANGED <<alive, place, under, clip, noMouse, input>>

-----------------------------------------------------------------------------
\* Key events.

(* Return, or the space bar, goes down: a button is shown held, an input
   field takes its text and gives up the focus bits.  (A link only calls
   back, when the key is up.) *)
ReturnDown ==
  /\ cont = "none" /\ focused \in Button \cup Input
  /\ focused \in Button => "FOCUS" \in state[focused]
  /\ state' = IF focused \in Button
              THEN Set(state, focused, state[focused] \cup {"CLICK"})
              ELSE Clear(state, focused, {"MOUSE", "FOCUS"})
  /\ shown' = Paint(state', focused)
  /\ UNCHANGED <<alive, place, pointers, clip, noMouse, input, release>>

(* ... and up: a button is released and calls back, an input field hands
   the focus to the next widget. *)
ReturnUp ==
  /\ cont = "none" /\ focused \in Button \cup Input
  /\ IF focused \in Input THEN FocusNext(FALSE)
     ELSE /\ "FOCUS" \in state[focused]
          /\ state' = Clear(state, focused, {"CLICK"})
          /\ shown' = Paint(state', focused)
          /\ UNCHANGED <<focused, under>>
  /\ UNCHANGED <<alive, place, pressed, clip, noMouse, input, release>>

Tab(backward) ==
  /\ cont = "none"
  /\ FocusNext(backward)
  /\ UNCHANGED <<alive, place, pressed, clip, noMouse, input, release>>

(* _inputtext_paste(): the text may have to be asked for first. *)
Paste(w) ==
  /\ clip' \in {w, None}
  /\ UNCHANGED <<alive, place, bits, pointers, noMouse, input, release>>

PasteKey == cont = "none" /\ focused \in Input /\ Paste(focused)

(* XITK_EV_CLIP_READY: the text is there, and is pasted *)
ClipReady ==
  /\ cont = "none" /\ clip # None
  /\ clip' = None
  /\ shown' = Paint(state, clip)
  /\ UNCHANGED <<alive, place, state, pointers, noMouse, input, release>>

-----------------------------------------------------------------------------
\* The application: callbacks, timers and threads that hold the xitk lock.

Vacant(p) == \A w \in alive : place[w] # p

(* What _xitk_widget_able() does when a widget is enabled under the mouse:
   it grabs the mouse focus only if the caller wants that. *)
Emerges(w, p, on, was) == on /\ ~was /\ under = None /\ p = mouse

(* xitk_widget_new(), xitk_add_widget() *)
Add(w, p, on) ==
  /\ w \notin alive /\ Vacant(p)
  /\ alive' = alive \cup {w}
  /\ place' = [place EXCEPT ![w] = p]
  /\ state' = [state EXCEPT ![w] = IF on THEN {"ENABLE"} ELSE {}]
  /\ shown' = Paint(state', w)
  /\ noMouse' = (noMouse \/ Emerges(w, p, on, FALSE))
  /\ UNCHANGED <<pointers, clip, input, release>>

(* xitk_widgets_state(.., XITK_WIDGET_STATE_ENABLE, ..), with and without
   XITK_WIDGET_STATE_RECHECK_MOUSE *)
Able(w, on, recheck) ==
  /\ w \in alive
  /\ LET was == "ENABLE" \in shown[w]
         in == Emerges(w, place[w], on, was)
         old == IF on THEN state[w] \cup {"ENABLE"}
                ELSE state[w] \ {"ENABLE", "MOUSE", "FOCUS"}
         new == IF in /\ recheck THEN old \cup {"MOUSE"} ELSE old
         foc == IF ~on /\ was THEN Drop(focused, w) ELSE focused
         Follow(bit, pointer) ==
           CASE bit \in new \ shown[w] -> w
             [] bit \in shown[w] \ new -> Drop(pointer, w)
             [] OTHER -> pointer
     IN /\ state' = [state EXCEPT ![w] = new]
        /\ shown' = Paint(state', w)
        /\ noMouse' = (noMouse \/ (in /\ ~recheck))
        /\ under' = Follow("MOUSE", under)
        /\ focused' = Follow("FOCUS", foc)
  /\ UNCHANGED <<alive, place, pressed, clip, input, release>>

\* Mutant of SetPos: the place is off by one.
SetPosNext(w, p) ==
  /\ w \in alive /\ Vacant(p)
  /\ place' = [place EXCEPT ![w] = p + 1]
  /\ under' = Drop(under, w)
  /\ UNCHANGED <<alive, bits, focused, pressed, clip, noMouse, input, release>>

(* xitk_set_widget_pos() *)
SetPos(w, p) ==
  /\ w \in alive /\ Vacant(p)
  /\ place' = [place EXCEPT ![w] = p]
  /\ under' = Drop(under, w)
  /\ UNCHANGED <<alive, bits, focused, pressed, clip, noMouse, input, release>>

(* xitk_set_focus_to_widget() *)
SetFocus(w) ==
  /\ w \in alive
  /\ FocusOn(w, FALSE)
  /\ UNCHANGED <<alive, place, pressed, clip, noMouse, input, release>>

\* Mutant of Delete: the widget that is held is not let go of.
DeleteHeld(w) ==
  /\ w \in alive
  /\ alive' = alive \ {w}
  /\ focused' = Drop(focused, w) /\ under' = Drop(under, w)
  /\ pressed' = pressed /\ clip' = Drop(clip, w)
  /\ state' = Clear(state, w, {"ENABLE"})
  /\ shown' = Paint(state', w)
  /\ place' = [place EXCEPT ![w] = Outside]
  /\ UNCHANGED <<noMouse, input, release>>

\* Mutant of Delete: the widget under the mouse is not forgotten.
DeleteHovered(w) ==
  /\ w \in alive
  /\ alive' = alive \ {w}
  /\ focused' = Drop(focused, w) /\ under' = under
  /\ pressed' = Drop(pressed, w) /\ clip' = Drop(clip, w)
  /\ state' = Clear(state, w, {"ENABLE"})
  /\ shown' = Paint(state', w)
  /\ place' = [place EXCEPT ![w] = Outside]
  /\ UNCHANGED <<noMouse, input, release>>

(* xitk_widgets_delete() *)
Delete(w) ==
  /\ w \in alive
  /\ alive' = alive \ {w}
  /\ focused' = Drop(focused, w) /\ under' = Drop(under, w)
  /\ pressed' = Drop(pressed, w) /\ clip' = Drop(clip, w)
  /\ state' = Clear(state, w, {"ENABLE"})
  /\ shown' = Paint(state', w)
  /\ place' = [place EXCEPT ![w] = Outside]
  /\ UNCHANGED <<noMouse, input, release>>

Application ==
  \E w \in Widget :
    \/ \E p \in Area, on \in BOOLEAN : Add(w, p, on)
    \/ \E on, recheck \in BOOLEAN : Able(w, on, recheck)
    \/ \E p \in Area : SetPos(w, p)
    \/ SetFocus(w)
    \/ Delete(w)

Event ==
  \/ \E p \in Place : Motion(p)
  \/ \E b \in MouseButton :
       (b > 3 => kind \in Wheeled) /\ (ButtonDown(b) \/ ButtonUp(b))
  \/ Ungrab
  \/ ReturnDown \/ ReturnUp
  \/ \E backward \in BOOLEAN : Tab(backward)
  \/ PasteKey \/ ClipReady

Next == (Application \/ Event) /\ UNCHANGED kind

Spec == Init /\ [][Next]_vars

-----------------------------------------------------------------------------
TypeOK ==
  /\ kind \in Kinds
  /\ alive \subseteq Widget
  /\ place \in [Widget -> Place]
  /\ state \in [Widget -> SUBSET Bit] /\ shown \in [Widget -> SUBSET Bit]
  /\ {focused, under, pressed, clip, hit} \subseteq Widget \cup {None}
  /\ noMouse \in BOOLEAN /\ mouse \in Place
  /\ held \subseteq MouseButton /\ move \in BOOLEAN
  /\ cont \in {"none", "ungrab"}

(* The list and the clipboard point at widgets that are in the list,
   whatever was deleted or added since they were set, callbacks included
   (widget.c:78: "Remember to re-examine widget pointers"). *)
PointersLive == {focused, under, pressed, clip} \subseteq alive \cup {None}

(* A widget that was deleted is not written any more, by no event that was
   being handled and by none that follows. *)
FreedUntouched ==
  [][\A w \in Widget : w \notin alive /\ w \notin alive' =>
        state'[w] = state[w] /\ shown'[w] = shown[w]]_vars

(* A widget that is disabled stays out of it, although the list may still
   hold it, have the mouse over it, or be in the middle of a drag.  No event
   and no call but the one that enables it again gives it a bit (it is not
   pressed, and neither mouse nor keyboard focus are shown on it), and no
   release calls it back.  The keyboard goes to it only if the application
   gives it to it, or if it is a slider that is still held (widget.c:379).

   What it does with the keys it then gets is not said: an input field and a
   link do not ask whether they are enabled (README). *)
DisabledInert ==
  [][\A w \in alive : "ENABLE" \notin state[w] \cup state'[w] =>
       /\ state'[w] \subseteq state[w]
       /\ focused' = w => focused = w \/ SetFocus(w) \/ (w \in Slider /\ pressed = w)
       /\ cont = "none" /\ cont' = "ungrab" => pressed # w]_vars

(* Not kept by the code (README).
   "user may still hold a slider ... ungrab it here" (widget.c:604): a slider
   that nobody holds is not marked as held.  A marked slider ignores the
   positions it is set to (slider.c:651). *)
SliderUngrabbed ==
  \A s \in Slider \cap alive : "CLICK" \in state[s] => pressed = s \/ cont = "ungrab"
=============================================================================
