------------------------------- MODULE Windows -------------------------------
(***************************************************************************)
(* Which windows are on the screen: xitk_window_update_tree of             *)
(* src/xitk/xine-toolkit/xitk.c, what panel.c, videowin.c and actions.c    *)
(* ask of it, and what backend_x11.c makes of it.                          *)
(*                                                                         *)
(* The video window is the main one, the panel its vice, all others are    *)
(* helpers.  What a window is to the program (props, flags) is a copy: the *)
(* server maps and unmaps, the window manager does so when it gets to it   *)
(* or when the user tells it to, and the news arrive as events later.      *)
(*                                                                         *)
(* Left out: stacking, transience, geometry, fullscreen, a separate video  *)
(* display, and the menus and tips (submenus).                             *)
(*                                                                         *)
(* Widgets and Windows are the toolkit; no name is defined in both.        *)
(***************************************************************************)
EXTENDS Integers, Sequences, FiniteSets, SequencesExt

CONSTANTS Main, Vice, Helper,   \* the windows; Helper is a set
          Gui, Others,          \* the thread of xitk_run, threads that play
          Nobody,
          Commands,             \* what the user asks the program for
          Roots,                \* may the root window be the video window?
          Patient,              \* does everybody wait until nothing is under way?
          MaxCalls, MaxTaskBar  \* bounds: calls, clicks into the task bar

Win == {Main, Vice} \cup Helper
Thread == Others \cup {Gui}

ASSUME WindowsAssumption ==
  /\ IsFiniteSet(Helper) /\ Main # Vice /\ {Main, Vice} \cap Helper = {}
  /\ Gui \notin Others /\ Nobody \notin Thread
  /\ Commands \subseteq {"panel", "video", "helper"}
  /\ Roots \subseteq BOOLEAN /\ Patient \in BOOLEAN /\ MaxCalls \in Nat /\ MaxTaskBar \in Nat

VARIABLES
  mapped,    \* X server: map_state of each window
  managed,   \* window manager: "normal", "iconic" or "withdrawn"
  asked,     \* what the window manager has yet to deal with
  events,    \* what the program has yet to read
  event,     \* what the GUI thread has read but not handled: at most one
  props,     \* win->props [XITK_X11_WT_WIN_FLAGS], VISIBLE and ICONIFIED of it
  flags,     \* xwin->flags, likewise
  show,      \* vwin->show: 2 shown, 1 iconified, 0 hidden
  wanted,    \* the helpers whose `visible` is set
  root,      \* gui->use_root_window
  xitk,      \* who holds xitk->mutex
  vwin,      \* who holds vwin->mutex
  todo,      \* what each thread has yet to do
  calls, clicks  \* what is still to come

screen == <<mapped, asked, events, props, flags>>
winVars == <<screen, managed, event, show, wanted, root, xitk, vwin, todo, calls, clicks>>

Shown == {"visible"}
Iconified == {"iconified"}
Hidden == {}

\* on_start is over; the user may have left out the panel or the video window.
\* (With both left out the panel stays withdrawn: iconifying it has no effect.)
WinInit ==
  /\ root \in Roots
  /\ \E shown \in {{Main}, {Vice}, {Main, Vice}} :
       /\ root => shown = {Main, Vice}
       /\ \E hs \in {{}} \cup (IF Vice \in shown THEN {Helper} ELSE {}) :
            /\ mapped = [w \in Win |-> w \in shown \cup hs]
            /\ wanted = hs
  /\ managed = [w \in Win |-> IF mapped[w] THEN "normal" ELSE "withdrawn"]
  /\ props = [w \in Win |-> IF mapped[w] THEN Shown ELSE Hidden]
  /\ flags = props
  /\ show = IF mapped[Main] THEN 2 ELSE 0
  /\ asked = <<>> /\ events = <<>> /\ event = {}
  /\ xitk = Nobody /\ vwin = Nobody
  /\ todo = [t \in Thread |-> <<>>]
  /\ calls = MaxCalls /\ clicks = MaxTaskBar

-----------------------------------------------------------------------------
(***************************************************************************)
(* backend_x11.c, as functions of the screen as it is, s.                  *)
(***************************************************************************)
Screen == [mapped |-> mapped, asked |-> asked, events |-> events,
           props |-> props, flags |-> flags]

\* s, computed once
Becomes(s) == \E new \in {s} :
  /\ mapped' = new.mapped /\ asked' = new.asked /\ events' = new.events
  /\ props' = new.props /\ flags' = new.flags

Tell(s, w, what) == [s EXCEPT !.asked = Append(@, <<w, what>>)]

\* XUnmapWindow: not for the window manager to decide, it is told.
Unmap(s, w) ==
  IF s.mapped[w]
  THEN [Tell(s, w, "unmapped") EXCEPT !.mapped[w] = FALSE,
                                      !.events = Append(@, <<w, "hide">>)]
  ELSE s

\* The server knows whether a window is visible, not whether it is an icon.
Known(s, w) ==
  (s.props[w] \ Shown) \cup (IF s.mapped[w] THEN Shown ELSE {})

\* _xitk_x11_window_flags
Request(s, w, new) ==
  LET diff == SymDiff(Known(s, w), new)
  IN  IF diff = {} THEN s
      ELSE IF "visible" \in diff \cap new THEN Tell(s, w, "map")
      ELSE IF new = Iconified THEN Tell(s, w, "iconify")
      ELSE Unmap(s, w)

SetProps(s, w, new) ==
  IF s.props[w] = new THEN s
                      ELSE [Request(s, w, new) EXCEPT !.props[w] = new]

GetProps(s, w) == [s EXCEPT !.flags[w] = s.props[w]]

SetAndGet(s, w, new) == GetProps(SetProps(s, w, new), w)

-----------------------------------------------------------------------------
(***************************************************************************)
(* xitk_window_update_tree (w, new).  "Do not hide them both, it would     *)
(* make us nearly unreachable for the user."                               *)
(***************************************************************************)
Visible(s, w) == "visible" \in s.flags[w]

\* The vice is unmapped and mapped again "to tell task bar about the new type".
Remap(s) == SetAndGet(SetProps(s, Vice, Hidden), Vice, Shown)

UpdateMain(s, new) ==
  IF Visible(s, Vice) THEN Remap(SetAndGet(s, Main, new))
  ELSE SetAndGet(s, Main, IF "visible" \in new THEN Shown ELSE Iconified)

\* Mutant of UpdateVice: the bit ICONIFIED is not cleared.
UpdateViceStaysIcon(s, new) ==
  SetAndGet(s, Vice, IF "visible" \in new THEN Shown \cup s.flags[Vice]
                     ELSE IF Visible(s, Main) THEN Hidden ELSE Iconified)

\* Mutant of UpdateVice: the panel is hidden without a look at the main window.
UpdateViceAlone(s, new) ==
  SetAndGet(s, Vice, IF "visible" \in new THEN Shown ELSE Hidden)

UpdateVice(s, new) ==
  SetAndGet(s, Vice, IF "visible" \in new THEN Shown
                     ELSE IF Visible(s, Main) THEN Hidden ELSE Iconified)

\* Helpers follow the vice, in some order.
UpdateHelpers(s) ==
  LET new == [w \in Win |-> IF w \in Helper THEN SetAndGet(s, w, s.flags[Vice]) ELSE s]
      asking == SetToSeq({h \in Helper : new[h].asked # s.asked})
      hiding == SetToSeq({h \in Helper : new[h].events # s.events})
  IN  [mapped |-> [w \in Win |-> new[w].mapped[w]],
       props  |-> [w \in Win |-> new[w].props[w]],
       flags  |-> [w \in Win |-> new[w].flags[w]],
       asked  |-> s.asked \o [i \in DOMAIN asking |-> Last(new[asking[i]].asked)],
       events |-> s.events \o [i \in DOMAIN hiding |-> Last(new[hiding[i]].events)]]

BecomesWithHelpers(s) == \E new \in {s} : Becomes(UpdateHelpers(new))

\* Nothing is asked of w.  When w is the main window, the list of helpers begins
\* with the vice, which is set to what it was when last looked at.
Refresh(s, w) ==
  IF w = Main THEN SetAndGet(GetProps(s, Main), Vice, s.flags[Vice]) ELSE GetProps(s, w)

RefreshTree(w) ==
  IF w \in Helper THEN Becomes(GetProps(Screen, w)) ELSE BecomesWithHelpers(Refresh(Screen, w))

Changes(w, new) ==
  /\ Visible(Screen, w) # ("visible" \in new)
  /\ ~(w = Main /\ root)

UpdateTree(w, new) ==
  \/ w \in Helper /\ Becomes(SetAndGet(Screen, w, new))
  \/ w = Main /\ Changes(w, new) /\ BecomesWithHelpers(UpdateMain(Screen, new))
  \/ w = Vice /\ Changes(w, new) /\ BecomesWithHelpers(UpdateVice(Screen, new))
  \/ w \notin Helper /\ ~Changes(w, new) /\ RefreshTree(w)

-----------------------------------------------------------------------------
(***************************************************************************)
(* What threads do.  A step is what lies between two locks.  The GUI       *)
(* thread holds xitk->mutex from the begin to the end of an event.         *)
(***************************************************************************)
Doing(t, what) == todo[t] # <<>> /\ Head(todo[t]) = what
Then(t, steps) == todo' = [todo EXCEPT ![t] = steps \o Tail(@)]

Free(lock, t) == lock \in {Nobody, t}
Works(t) == t = Gui => xitk = Gui

\* xitk_window_flags (vice, 0, 0), and what _panel_get_visibility makes of it
PanelVisible == "visible" \in props[Vice]
PanelIsSomewhere == props[Vice] # {}
SeePanel(s) == GetProps(s, Vice)

\* _video_window_is_visible
ShowNow == IF "visible" \in props[Main] THEN 2 ELSE IF show = 2 THEN 0 ELSE show
SeeVideo(s) == GetProps(s, Main)

\* _panel_toggle_visibility
Toggle(t) ==
  /\ Doing(t, "toggle")
  /\ Becomes(SeePanel(Screen))
  /\ Then(t, IF PanelVisible THEN <<"look", "focus">> ELSE <<"raise">>)
  /\ UNCHANGED <<managed, event, show, wanted, root, xitk, vwin, calls, clicks>>

LookAtVideo(t) ==
  /\ Doing(t, "look") /\ vwin = Nobody
  /\ Becomes(SeeVideo(Screen)) /\ show' = ShowNow
  /\ Then(t, IF ShowNow > 0 /\ ~root THEN <<"hide">> ELSE <<"iconify">>)
  /\ UNCHANGED <<managed, event, wanted, root, xitk, vwin, calls, clicks>>

SetPanel(t, what, new) ==
  /\ Doing(t, what) /\ Free(xitk, t)
  /\ UpdateTree(Vice, new)
  /\ Then(t, <<>>)
  /\ UNCHANGED <<managed, event, show, wanted, root, xitk, vwin, calls, clicks>>

MovePanel(t) == \/ SetPanel(t, "hide", Hidden)
                \/ SetPanel(t, "iconify", Iconified)
                \/ SetPanel(t, "raise", Shown)

\* video_window_grab_input_focus: takes one lock, then the other
GrabFocus(t) ==
  /\ Doing(t, "focus") /\ vwin = Nobody
  /\ Becomes(SeeVideo(Screen)) /\ show' = ShowNow
  /\ \/ Then(t, <<>>) /\ UNCHANGED vwin
     \/ ShowNow = 2 /\ Then(t, <<"focused">>) /\ vwin' = t
  /\ UNCHANGED <<managed, event, wanted, root, xitk, calls, clicks>>

Focused(t) ==
  /\ Doing(t, "focused") /\ Free(xitk, t)
  /\ LET s == [Screen EXCEPT !.props[Main] = Known(Screen, Main)]
     IN  Becomes(GetProps(s, Main))
  /\ vwin' = Nobody
  /\ Then(t, <<>>)
  /\ UNCHANGED <<managed, event, show, wanted, root, xitk, calls, clicks>>

\* gui_toggle_visibility
ToggleVideo(t) ==
  /\ Doing(t, "toggleVideo") /\ vwin = Nobody
  /\ IF root THEN Then(t, <<>>) /\ UNCHANGED <<screen, show>>
     ELSE /\ Becomes(SeeVideo(Screen)) /\ show' = ShowNow
          /\ Then(t, IF ShowNow < 2 THEN <<"showVideo">> ELSE <<"hideVideo">>)
  /\ UNCHANGED <<managed, event, wanted, root, xitk, vwin, calls, clicks>>

\* video_window_set_visibility, up to the call of xitk_window_flags.
\* "dont unmap both vwin and panel - user needs some handle to get back in."
SetVideo(t) ==
  /\ Doing(t, "showVideo") \/ Doing(t, "hideVideo")
  /\ vwin = Nobody
  /\ IF root THEN Then(t, <<>>) /\ UNCHANGED <<screen, show, vwin>>
     ELSE /\ vwin' = t
          /\ IF Doing(t, "showVideo")
             THEN show' = 2 /\ UNCHANGED screen
             ELSE show' = (IF PanelIsSomewhere THEN 0 ELSE 1) /\ Becomes(SeePanel(Screen))
          /\ Then(t, <<"apply">>)
  /\ UNCHANGED <<managed, event, wanted, root, xitk, calls, clicks>>

\* Mutant of Apply: vwin->mutex is not released.
ApplyKeepsLock(t) ==
  /\ Doing(t, "apply") /\ Free(xitk, t)
  /\ UpdateTree(Main,
               CASE show = 2 -> Shown [] show = 1 -> Iconified [] show = 0 -> Hidden)
  /\ Then(t, <<>>)
  /\ UNCHANGED <<managed, event, show, wanted, root, xitk, vwin, calls, clicks>>

Apply(t) ==
  /\ Doing(t, "apply") /\ Free(xitk, t)
  /\ UpdateTree(Main,
               CASE show = 2 -> Shown [] show = 1 -> Iconified [] show = 0 -> Hidden)
  /\ vwin' = Nobody
  /\ Then(t, <<>>)
  /\ UNCHANGED <<managed, event, show, wanted, root, xitk, calls, clicks>>

(***************************************************************************)
(* _gui_xine_play, when an entry starts: auto_vo_visibility wants a video  *)
(* window for video and the panel for audio, auto_panel_visibility wants   *)
(* the panel out of the way of a video.                                    *)
(***************************************************************************)
IfVideo(t, what, seen, then) ==
  /\ Doing(t, what) /\ vwin = Nobody
  /\ Becomes(seen) /\ show' = ShowNow
  /\ Then(t, then)
  /\ UNCHANGED <<managed, event, wanted, root, xitk, vwin, calls, clicks>>

IfPanel(t, what, then) ==
  /\ Doing(t, what)
  /\ Becomes(SeePanel(Screen))
  /\ Then(t, then)
  /\ UNCHANGED <<managed, event, show, wanted, root, xitk, vwin, calls, clicks>>

When(condition, step) == IF condition THEN <<step>> ELSE <<>>

\* "a && b": the panel is looked at only when the video window is on the screen.
SeeBoth == IF ShowNow = 2 THEN SeePanel(SeeVideo(Screen)) ELSE SeeVideo(Screen)

AutoStep(t) ==
  \/ IfVideo(t, "wantVideo", SeeVideo(Screen), When(ShowNow < 2, "showVideo"))
  \/ IfVideo(t, "wantNoVideo", SeeVideo(Screen), When(ShowNow = 2, "hideVideo"))
  \/ IfVideo(t, "wantNoPanel", SeeBoth, When(ShowNow = 2 /\ PanelVisible, "toggle"))
  \/ IfPanel(t, "wantPanel", When(~PanelVisible, "toggle"))
  \/ IfVideo(t, "wantPanelToo", SeeBoth, When(ShowNow = 2 /\ ~PanelVisible, "toggle"))

Settled == /\ asked = <<>> /\ events = <<>> /\ event = {}
           /\ \A t \in Thread : todo[t] = <<>>
InTime == Patient => Settled

Start(t, steps) ==
  /\ InTime /\ todo[t] = <<>> /\ calls > 0 /\ calls' = calls - 1
  /\ todo' = [todo EXCEPT ![t] = steps]

EntryStarts(t, hasVideo, vo, panel) ==
  /\ t \in Others
  /\ Start(t, IF hasVideo
              THEN When(vo, "wantVideo") \o When(panel, "wantNoPanel")
              ELSE (IF vo THEN <<"wantPanel", "wantNoVideo">> ELSE <<>>)
                   \o When(panel, "wantPanelToo"))
  /\ UNCHANGED <<screen, managed, event, show, wanted, root, xitk, vwin, clicks>>

-----------------------------------------------------------------------------
\* The GUI thread: commands of the user, and events

Command(what, step) ==
  /\ what \in Commands /\ event = {} /\ xitk = Nobody /\ xitk' = Gui
  /\ Start(Gui, <<step, "end">>)
  /\ UNCHANGED <<screen, managed, event, show, wanted, root, vwin, clicks>>

\* toggle_window; "Obviously user has iconified the window, let it be"
ToggleHelper(h) ==
  /\ Doing(Gui, "toggleHelper")
  /\ \/ /\ h \in wanted /\ "visible" \notin props[h]
        /\ IF root THEN UpdateTree(h, Shown)
                   ELSE Becomes(GetProps(Screen, h))
        /\ UNCHANGED wanted
     \/ /\ h \in wanted /\ "visible" \in props[h]
        /\ IF root
           THEN UpdateTree(h, Iconified) /\ UNCHANGED wanted
           ELSE UpdateTree(h, Hidden) /\ wanted' = wanted \ {h}
     \/ /\ h \notin wanted
        /\ UpdateTree(h, Shown) /\ wanted' = wanted \cup {h}
  /\ Then(Gui, <<>>)
  /\ UNCHANGED <<managed, event, show, root, xitk, vwin, calls, clicks>>

EventEnds ==
  /\ Doing(Gui, "end")
  /\ xitk' = Nobody /\ Then(Gui, <<>>)
  /\ UNCHANGED <<screen, managed, event, show, wanted, root, vwin, calls, clicks>>

WmState == [normal |-> Shown, iconic |-> Iconified, withdrawn |-> Hidden]

\* next_event: the copy of the backend is set before xitk->mutex is taken.
ReadEvent ==
  /\ todo[Gui] = <<>> /\ event = {} /\ events # <<>>
  /\ events' = Tail(events)
  /\ LET w == Head(events)[1]
         what == Head(events)[2]
     IN  /\ props' = CASE what = "show"  -> [props EXCEPT ![w] = Shown]
                       [] what = "state" -> [props EXCEPT ![w] = WmState[managed[w]]]
                       [] what = "hide"  -> props
         /\ event' = IF what = "state" THEN {} ELSE {Head(events)}
  /\ UNCHANGED <<mapped, asked, flags, managed, show, wanted, root, xitk, vwin, todo,
                 calls, clicks>>

\* xitk_handle_event
HandleEvent ==
  /\ xitk = Nobody /\ event' = {}
  /\ \E e \in event :
       IF (e[2] = "show") # (flags[e[1]] = Shown) THEN RefreshTree(e[1])
                                                  ELSE UNCHANGED screen
  /\ UNCHANGED <<managed, show, wanted, root, xitk, vwin, todo, calls, clicks>>

-----------------------------------------------------------------------------
(***************************************************************************)
(* The window manager (external): it maps and iconifies what it is asked   *)
(* to, in order, and what the user clicks at.  Whether the window is       *)
(* mapped first or its WM_STATE set first is up to it.                     *)
(***************************************************************************)
Inform(w, what) == \/ events' = events \o <<<<w, what>>, <<w, "state">>>>
                   \/ events' = events \o <<<<w, "state">>, <<w, what>>>>

Manage(w, to) ==
  /\ managed' = [managed EXCEPT ![w] = to]
  /\ mapped' = [mapped EXCEPT ![w] = (to = "normal")]
  /\ IF mapped[w] = (to = "normal")
     THEN events' = IF managed[w] = to THEN events ELSE Append(events, <<w, "state">>)
     ELSE Inform(w, IF to = "normal" THEN "show" ELSE "hide")

WindowManager ==
  /\ asked # <<>> /\ asked' = Tail(asked)
  /\ LET w == Head(asked)[1]
         what == Head(asked)[2]
     IN  \/ what = "map" /\ Manage(w, "normal")
         \/ /\ what = "iconify" /\ managed[w] # "withdrawn"
            /\ Manage(w, "iconic")
         \/ /\ what = "iconify" /\ managed[w] = "withdrawn"
            /\ UNCHANGED <<managed, mapped, events>>
         \/ /\ what = "unmapped"
            /\ managed' = [managed EXCEPT ![w] = "withdrawn"]
            /\ events' = Append(events, <<w, "state">>)
            /\ UNCHANGED mapped
  /\ UNCHANGED <<props, flags, event, show, wanted, root, xitk, vwin, todo, calls, clicks>>

TaskBar(w) ==
  /\ InTime /\ clicks > 0 /\ clicks' = clicks - 1
  /\ ~(w = Main /\ root)
  /\ \/ managed[w] = "normal" /\ mapped[w] /\ Manage(w, "iconic")
     \/ managed[w] = "iconic" /\ Manage(w, "normal")
  /\ UNCHANGED <<asked, props, flags, event, show, wanted, root, xitk, vwin, todo, calls>>

-----------------------------------------------------------------------------
Work(t) == /\ Works(t)
           /\ \/ Toggle(t) \/ LookAtVideo(t) \/ MovePanel(t) \/ GrabFocus(t)
              \/ Focused(t) \/ ToggleVideo(t) \/ SetVideo(t) \/ Apply(t) \/ AutoStep(t)

UserCalls == \/ Command("panel", "toggle") \/ Command("video", "toggleVideo")
             \/ Command("helper", "toggleHelper")

Continue(t) == \/ Work(t)
               \/ t = Gui /\ (\/ EventEnds \/ HandleEvent
                              \/ \E h \in Helper : ToggleHelper(h))

WinNext ==
  \/ UserCalls \/ ReadEvent \/ WindowManager
  \/ \E t \in Thread : Continue(t)
  \/ \E t \in Others, hasVideo, vo, panel \in BOOLEAN : EntryStarts(t, hasVideo, vo, panel)
  \/ \E w \in Win : TaskBar(w)

WinSpec == WinInit /\ [][WinNext]_winVars

\* No thread, no event and no request waits forever; the user may.
Progress == ReadEvent \/ WindowManager \/ \E t \in Thread : Continue(t)
WinFairSpec == WinSpec /\ WF_winVars(Progress)

-----------------------------------------------------------------------------
Order == Win \X {"map", "iconify", "unmapped"}
News == Win \X {"show", "hide", "state"}

Step == {"toggle", "look", "hide", "iconify", "raise", "focus", "focused", "toggleVideo",
         "showVideo", "hideVideo", "apply", "wantVideo", "wantNoVideo", "wantNoPanel",
         "wantPanel", "wantPanelToo", "toggleHelper", "end"}

\* Every variable stays in its domain: no window is ever known to be visible and
\* an icon.
WinTypeOK ==
  /\ mapped \in [Win -> BOOLEAN] /\ managed \in [Win -> DOMAIN WmState]
  /\ asked \in Seq(Order) /\ events \in Seq(News) /\ event \in SUBSET News
  /\ props \in [Win -> {Shown, Iconified, Hidden}]
  /\ flags \in [Win -> {Shown, Iconified, Hidden}]
  /\ show \in 0 .. 2 /\ wanted \subseteq Helper /\ root \in Roots
  /\ xitk \in Thread \cup {Nobody} /\ vwin \in Thread \cup {Nobody}
  /\ todo \in [Thread -> Seq(Step)]
  /\ calls \in 0 .. MaxCalls /\ clicks \in 0 .. MaxTaskBar

\* When the window manager has done all it was asked, w is on the screen or an icon.
Stays(w) ==
  \/ managed[w] # "withdrawn" /\ \A i \in DOMAIN asked : asked[i] # <<w, "unmapped">>
  \/ \E i \in DOMAIN asked : /\ asked[i] = <<w, "map">>
                            /\ \A j \in DOMAIN asked : j > i => asked[j] # <<w, "unmapped">>

(***************************************************************************)
(* The panel and the video window are never both gone: one of them is, or  *)
(* is about to be, on the screen or in the task bar ("do not hide them     *)
(* both, it would make us nearly unreachable for the user", xitk.c; "dont  *)
(* unmap both vwin and panel", videowin.c).  It holds when everybody is    *)
(* Patient, and not otherwise: what a window was asked to become and what  *)
(* is known of it are then two different things.                           *)
(***************************************************************************)
Reachable == Stays(Main) \/ Stays(Vice)

(***************************************************************************)
(* Each change the program makes comes back as an event, which may make it *)
(* change more windows (helpers follow the panel).  This echo dies out,    *)
(* every call returns, and the screen comes to rest.                       *)
(***************************************************************************)
ComesToRest == []<>Settled
=============================================================================
