-------------------------------- MODULE Tips --------------------------------
(***************************************************************************)
(* Tooltips: src/xitk/xine-toolkit/tips.c, and its callers in widget.c and *)
(* xitk.c.                                                                 *)
(*                                                                         *)
(* A thread of its own shows and hides the tips window.  It holds          *)
(* tips->mutex except while it sleeps on the condition `in` and while it   *)
(* maps a new window, which needs the xitk lock.  The GUI thread calls     *)
(* with the xitk lock held and, while a tip is visible, waits on `out`     *)
(* until it is hidden: a widget goes away after such a call.               *)
(*                                                                         *)
(* `in` is always waited for with a timeout, so that the thread may wake   *)
(* at any time, signalled or not.                                          *)
(***************************************************************************)
EXTENDS Integers, FiniteSets

CONSTANTS Widget,     \* the widgets there are at the start
          Tipped,     \* those with a tips_string
          Gui,        \* the thread of xitk_run
          Others,     \* threads that update widgets (the slider thread)
          None, Quit, \* NULL and (xitk_widget_t *)-1
          MaxCalls    \* bound on the calls

ASSUME TipsAssumption ==
  /\ Tipped \subseteq Widget /\ Gui \notin Others /\ IsFiniteSet(Others)
  /\ {None, Quit} \cap Widget = {} /\ None # Quit
  /\ MaxCalls \in Nat

Caller == Others \cup {Gui}

VARIABLES
  widget,     \* tips->widget: whose tip is shown or about to be
  newWidget,  \* tips->new_widget: whose tip is to be shown next
  state,      \* tips->state, what the callers see
  phase,      \* the thread's own `state`
  waiters,    \* tips->num_waiters & 0xffff: callers that are waiting
  fresh,      \* tips->num_waiters >> 16: there are new calls
  loop,       \* where the thread is
  window,     \* xwin of the thread: "none", "made" or "visible"
  asleep,     \* callers in pthread_cond_wait (&tips->out)
  pc,         \* where each caller is
  about,      \* the widget its call is about
  dying,      \* the widget it frees when the call is back
  xitk,       \* who holds the xitk lock
  under,      \* wl->widget_under_mouse
  freed,      \* widgets that are deleted
  left        \* calls still to come

shared == <<widget, newWidget, state, waiters, fresh>>
thread == <<phase, loop, window>>
gui == <<pc, about, dying, xitk, under, freed, left>>
vars == <<shared, thread, asleep, gui>>

Phase == {"idle", "delay", "show", "wait", "hide", "quit"}

Init ==
  /\ widget = None /\ newWidget = None
  /\ state = "idle" /\ phase = "idle" /\ waiters = 0 /\ fresh = FALSE
  /\ loop = "sleep" /\ window = "none" /\ asleep = {}
  /\ pc = [c \in Caller |-> "idle"]
  /\ about = [c \in Caller |-> None] /\ dying = [c \in Caller |-> None]
  /\ xitk = None /\ under = None /\ freed = {} /\ left = MaxCalls

-----------------------------------------------------------------------------
(***************************************************************************)
(* _tips_loop_thread.  One step is one round of the loop, from the test of *)
(* num_waiters to the next wait; no caller comes in between two rounds     *)
(* unless the thread sleeps.                                               *)
(***************************************************************************)

\* Mutant of Called: only new calls count, not those still waiting.
CalledFresh == fresh

Called == waiters > 0 \/ fresh

\* Mutant of Interrupted: what is visible is not hidden first.
InterruptedToIdle(p) == IF Called THEN "idle" ELSE p

\* What a call makes of the phase the thread is in.
Interrupted(p) ==
  IF ~Called THEN p ELSE IF p \in {"wait", "hide"} THEN "hide" ELSE "idle"

\* The end of a round: tips->state is set, callers are woken, and the thread
\* goes on at once in a phase that has no time to wait.
RoundEnds(next) ==
  /\ phase' = next /\ state' = next
  /\ loop' = IF next = "quit" THEN "gone"
             ELSE IF next \in {"show", "hide"} THEN "run" ELSE "sleep"
  /\ asleep' = IF waiters > 0 THEN {} ELSE asleep

\* The next wish is taken: the tip of a widget, or the end of the thread.
TakeWish ==
  /\ newWidget' = None
  /\ \/ newWidget = Quit /\ widget' = None /\ RoundEnds("quit")
     \/ newWidget = None /\ widget' = None /\ RoundEnds("idle")
     \/ newWidget \notin {Quit, None} /\ widget' = newWidget /\ RoundEnds("delay")

Round ==
  /\ loop \in {"sleep", "run"}
  /\ fresh' = FALSE
  /\ LET now == Interrupted(phase) IN
     \/ /\ now \in {"idle", "hide"}
        /\ window' = IF now = "hide" THEN "none" ELSE window
        /\ TakeWish
     \/ /\ now = "delay" /\ RoundEnds("show") /\ UNCHANGED <<widget, newWidget, window>>
     \/ /\ now = "wait" /\ RoundEnds("hide") /\ UNCHANGED <<widget, newWidget, window>>
     \/ /\ now = "show" /\ widget # None    \* and the window can be made
        /\ window' = "made" /\ loop' = "map"
        /\ UNCHANGED <<widget, newWidget, phase, state, asleep>>
     \/ /\ now = "show"
        /\ widget' = None /\ newWidget' = None
        /\ RoundEnds("idle") /\ UNCHANGED window
  /\ UNCHANGED <<waiters, gui>>

\* Mutant of Map: the phase is published before the window is mapped.
MapAnnounced ==
  /\ loop = "map"
  /\ \/ state = "show" /\ state' = "wait" /\ UNCHANGED <<loop, window>>
     \/ xitk = None /\ window' = "visible" /\ loop' = "mapped" /\ UNCHANGED state
  /\ UNCHANGED <<widget, newWidget, waiters, fresh, phase, asleep, gui>>

\* xitk_window_set_role, with tips->mutex unlocked: the xitk lock is taken
\* and released again.
Map ==
  /\ loop = "map" /\ xitk = None
  /\ window' = "visible" /\ loop' = "mapped"
  /\ UNCHANGED <<shared, phase, asleep, gui>>

Mapped ==
  /\ loop = "mapped"
  /\ RoundEnds("wait")
  /\ UNCHANGED <<widget, newWidget, waiters, fresh, window, gui>>

-----------------------------------------------------------------------------
(***************************************************************************)
(* xitk_tips_show_widget_tips (w), w = None to hide.                       *)
(***************************************************************************)
At(c, p) == pc[c] = p
Goto(c, p) == pc' = [pc EXCEPT ![c] = p]
MutexFree == loop # "run"

\* The GUI thread goes on with its event, others with what they were doing.
Back(c) == IF c = Gui THEN "event" ELSE "idle"

Ask(c) ==
  /\ At(c, "ask") /\ MutexFree
  /\ LET v == IF about[c] \in Tipped THEN about[c] ELSE None IN
     IF state # "quit" /\ v # widget
     THEN /\ newWidget' = v /\ fresh' = TRUE
          /\ IF state = "wait"
             THEN waiters' = waiters + 1 /\ asleep' = asleep \cup {c} /\ Goto(c, "wait")
             ELSE UNCHANGED <<waiters, asleep>> /\ Goto(c, "done")
     ELSE UNCHANGED <<newWidget, fresh, waiters, asleep>> /\ Goto(c, "done")
  /\ UNCHANGED <<widget, state, thread, about, dying, xitk, under, freed, left>>

\* Mutant of Wake: the caller does not count itself out.
WakeUncounted(c) ==
  /\ At(c, "wait") /\ c \notin asleep /\ MutexFree
  /\ IF state = "wait"
     THEN asleep' = asleep \cup {c} /\ UNCHANGED pc
     ELSE Goto(c, "done") /\ UNCHANGED asleep
  /\ UNCHANGED <<shared, thread, about, dying, xitk, under, freed, left>>

\* The caller is woken, and looks again.
Wake(c) ==
  /\ At(c, "wait") /\ c \notin asleep /\ MutexFree
  /\ IF state = "wait"
     THEN asleep' = asleep \cup {c} /\ UNCHANGED <<waiters, pc>>
     ELSE waiters' = waiters - 1 /\ Goto(c, "done") /\ UNCHANGED asleep
  /\ UNCHANGED <<widget, newWidget, state, fresh, thread, about, dying, xitk, under, freed,
                 left>>

\* Back in the caller: a widget to delete is freed now.
Done(c) ==
  /\ At(c, "done")
  /\ freed' = (freed \cup {dying[c]}) \ {None}
  /\ under' = IF dying[c] # None THEN None ELSE under
  /\ Goto(c, Back(c))
  /\ about' = [about EXCEPT ![c] = None] /\ dying' = [dying EXCEPT ![c] = None]
  /\ UNCHANGED <<shared, thread, asleep, xitk, left>>

-----------------------------------------------------------------------------
\* The callers

\* xitk_run: an event is handled under the xitk lock, with any number of calls.
BeginEvent ==
  /\ At(Gui, "idle") /\ left > 0 /\ xitk = None
  /\ xitk' = Gui /\ Goto(Gui, "event")
  /\ UNCHANGED <<shared, thread, asleep, about, dying, under, freed, left>>

EndEvent ==
  /\ At(Gui, "event")
  /\ xitk' = None /\ Goto(Gui, "idle")
  /\ UNCHANGED <<shared, thread, asleep, about, dying, under, freed, left>>

Call(c, w, free) ==
  /\ left > 0 /\ left' = left - 1
  /\ Goto(c, "ask")
  /\ about' = [about EXCEPT ![c] = w] /\ dying' = [dying EXCEPT ![c] = free]

\* xitk_motion_notify_widget_list, and a click or a key when w = under
Motion(w) ==
  /\ At(Gui, "event") /\ w \notin freed
  /\ under' = w
  /\ Call(Gui, w, None)
  /\ UNCHANGED <<shared, thread, asleep, xitk, freed>>

HideTips ==
  /\ At(Gui, "event")
  /\ Call(Gui, None, None)
  /\ UNCHANGED <<shared, thread, asleep, xitk, under, freed>>

\* xitk_widgets_delete
DeleteWidget(w) ==
  /\ At(Gui, "event") /\ w \notin freed
  /\ IF w = under
     THEN Call(Gui, None, w) /\ UNCHANGED freed
     ELSE freed' = freed \cup {w} /\ UNCHANGED <<pc, about, dying, left>>
  /\ UNCHANGED <<shared, thread, asleep, xitk, under>>

\* xitk_set_widget_tips_and_timeout in another thread
UpdateTips(c) ==
  /\ c \in Others /\ At(c, "idle") /\ pc[Gui] \notin {"join", "joined"}
  /\ under # None
  /\ Call(c, None, None)
  /\ UNCHANGED <<shared, thread, asleep, xitk, under, freed>>

\* xitk_tips_delete, in xitk_run after the last event; the other threads are gone.
DeleteTips ==
  /\ At(Gui, "idle") /\ MutexFree
  /\ \A c \in Others : At(c, "idle")
  /\ newWidget' = Quit /\ fresh' = TRUE
  /\ Goto(Gui, "join")
  /\ UNCHANGED <<widget, state, waiters, thread, asleep, about, dying, xitk, under, freed,
                 left>>

Join ==
  /\ At(Gui, "join") /\ loop = "gone"
  /\ Goto(Gui, "joined")
  /\ UNCHANGED <<shared, thread, asleep, about, dying, xitk, under, freed, left>>

-----------------------------------------------------------------------------
TipsThread == Round \/ Map \/ Mapped

Return(c) == Ask(c) \/ Wake(c) \/ Done(c)

GuiCall ==
  \/ \E w \in Widget \cup {None} : Motion(w)
  \/ HideTips
  \/ \E w \in Widget : DeleteWidget(w)

Next ==
  \/ TipsThread
  \/ \E c \in Caller : Return(c) \/ UpdateTips(c)
  \/ BeginEvent \/ EndEvent \/ GuiCall \/ DeleteTips \/ Join

Spec == Init /\ [][Next]_vars

\* The thread's waits time out; a call that can go on does.
Fairness ==
  /\ WF_vars(TipsThread)
  /\ \A c \in Caller : WF_vars(Return(c))
  /\ WF_vars(EndEvent) /\ WF_vars(Join)

FairSpec == Spec /\ Fairness

-----------------------------------------------------------------------------
Waiting == {c \in Caller : At(c, "wait")}

TypeOK ==
  /\ widget \in Tipped \cup {None} /\ newWidget \in Tipped \cup {None, Quit}
  /\ state \in Phase /\ phase \in Phase
  /\ waiters = Cardinality(Waiting) /\ fresh \in BOOLEAN
  /\ loop \in {"sleep", "run", "map", "mapped", "gone"}
  /\ window \in {"none", "made", "visible"}
  /\ asleep \subseteq Waiting
  /\ pc \in [Caller -> {"idle", "event", "ask", "wait", "done", "join", "joined"}]
  /\ about \in [Caller -> Widget \cup {None}] /\ dying \in [Caller -> Widget \cup {None}]
  /\ xitk \in {None, Gui} /\ under \in Widget \cup {None}
  /\ freed \subseteq Widget /\ left \in 0 .. MaxCalls

(***************************************************************************)
(* A caller that had to wait finds no tips window when it goes on, not     *)
(* even that of the next widget: "Wait until tips are hidden".             *)
(***************************************************************************)
WaitsUntilHidden ==
  [][\A c \in Caller : At(c, "wait") /\ ~At(c, "wait")' => window = "none"]_vars

\* The thread leaves no window behind, and one window is gone before the next.
OneWindow ==
  /\ loop = "gone" => window = "none"
  /\ phase = "show" /\ loop = "run" => window = "none"

(***************************************************************************)
(* Nobody waits for ever.  Every call returns: the caller, which has the   *)
(* xitk lock, never waits for a thread that waits for that lock.  And      *)
(* xitk_tips_delete comes back: the thread gets the message to quit.       *)
(***************************************************************************)
CallsReturn == \A c \in Caller : At(c, "ask") ~> At(c, "done")
QuitEnds == At(Gui, "join") ~> At(Gui, "joined")
EveryWaitEnds == CallsReturn /\ QuitEnds

(***************************************************************************)
(* Not kept by the code (README): the thread does not read a widget that   *)
(* was deleted; the call made before saw to that ("a race condition        *)
(* causing a segfault").                                                   *)
(***************************************************************************)
NoFreedUse == loop = "run" /\ phase = "show" => widget \notin freed
=============================================================================
