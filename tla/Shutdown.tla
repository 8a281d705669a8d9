------------------------------ MODULE Shutdown ------------------------------
(***************************************************************************)
(* Start and end of the program, and the gate every action goes through:   *)
(* gui_execute_action_id, gui_deinit and gui_run in src/xitk/event.c,      *)
(* gui_exit and gui_exit_2 in actions.c, the remote control threads of     *)
(* stdctl.c and lirc.c, the slider thread of panel.c, the reference        *)
(* counted on screen menu of oxine/oxine.c.                                *)
(*                                                                         *)
(* A step ends where another thread can come in.  An object is `alive`     *)
(* until it is freed and `set` while the pointer to it is not NULL; what a *)
(* thread has fetched (`holds`) may be freed before it is used.            *)
(***************************************************************************)
EXTENDS Integers, FiniteSets

CONSTANTS Gui, Listener, Slider,  \* GUI, event listener, slider thread
          StdCtl, Lirc,           \* remote controls: go through the gate
          Session,                \* session server: does not
          Threads,                \* the threads of this instance
          MenuOpen,               \* the on screen menu is open
          Kinds,                  \* what actions are executed
          MaxCalls                \* bound: calls of all threads together

Remotes == {StdCtl, Lirc} \cap Threads
Object == {"panel", "stream", "vwin", "kbindings", "gui"}
Kind == {"input", "plain", "window", "quit"}
Direct == {"direct", "close"}   \* calls past the gate; close: gui_exit
Nobody == "nobody"

ASSUME ShutdownAssumption ==
  /\ Gui \in Threads /\ IsFiniteSet(Threads) /\ Nobody \notin Threads
  /\ Threads \subseteq {Gui, Listener, Slider, StdCtl, Lirc, Session}
  /\ LET who == <<Gui, Listener, Slider, StdCtl, Lirc, Session>>
     IN \A i, j \in 1 .. 6 : i # j => who[i] # who[j]
  /\ MenuOpen \in BOOLEAN /\ Kinds \subseteq Kind /\ MaxCalls \in Nat

VARIABLES
  pc, act,      \* what each thread does next, the action it executes
  ret,          \* where it goes on after the call
  holds,        \* the objects it has pointers to
  reject, pending,   \* gui->event_reject, event_pending
  asleep,       \* gui_deinit sleeps on event_safe
  extra,        \* how often ACTID_QUIT has left the gate early (history)
  instance, locks,   \* oxine_instance # NULL, oxine_instance_locks
  running,      \* gui->running
  looping,      \* xitk->running
  slRun, going, \* panel->sl.run, going of session.c
  onQuit,       \* gui->on_quit
  xitk,         \* who holds the xitk lock
  alive, set,   \* objects not yet freed, pointers not NULL
  bad,          \* uses of freed objects: by whom, of what (history)
  crashed,      \* the menu was destroyed without being there
  asked,        \* how often the program was told to end (history)
  calls         \* calls so far

gate  == <<reject, pending, asleep, extra>>
menu  == <<instance, locks>>
flags == <<running, looping, slRun, going, onQuit>>
heap  == <<alive, set>>
past  == <<bad, crashed, asked>>
control == <<pc, act, ret, holds>>
vars == <<control, gate, menu, flags, xitk, heap, past, calls>>

\* gui_init is done, the threads of gui_run are started
Init ==
  /\ pc = [t \in Threads |-> CASE t = Gui -> "oxine" [] t \in Remotes -> "test"
                               [] OTHER -> "loop"]
  /\ act = [t \in Threads |-> "plain"] /\ ret = [t \in Threads |-> "loop"]
  /\ holds = [t \in Threads |-> {}]
  /\ reject = FALSE /\ pending = 0 /\ asleep = FALSE /\ extra = 0
  /\ instance = FALSE /\ locks = 0
  /\ running = TRUE /\ looping = FALSE /\ slRun = TRUE /\ going = TRUE
  /\ onQuit = FALSE /\ xitk = Nobody
  /\ alive = Object /\ set = Object
  /\ bad = {} /\ crashed = FALSE /\ asked = 0 /\ calls = 0

-----------------------------------------------------------------------------
On(t, p) == pc[t] = p
Goto(t, p) == pc' = [pc EXCEPT ![t] = p]
XitkFree(t) == xitk \in {Nobody, t}

Fetched(t, os) == holds' = [holds EXCEPT ![t] = os \cap set]

\* A pointer that was fetched is used.
Used(t) ==
  /\ bad' = bad \cup {<<t, o>> : o \in holds[t] \ alive}
  /\ holds' = [holds EXCEPT ![t] = {}]

\* Mutant of Released: the last action out does not wake gui_deinit.
ReleasedSilently ==
  /\ pending' = pending - 1
  /\ asleep' = asleep

\* event_pending--, and gui_deinit is woken when it was the last
Released ==
  /\ pending' = pending - 1
  /\ asleep' = (asleep /\ ~(pending' <= 0 /\ reject))

-----------------------------------------------------------------------------
\* gui_execute_action_id

After(t) == IF act[t] \in Direct THEN ret[t] ELSE "leave"

\* event_reject is tested without the mutex, ...
Peek(t) ==
  /\ On(t, "peek")
  /\ Goto(t, IF reject THEN ret[t] ELSE "enter")
  /\ UNCHANGED <<act, ret, holds, gate, menu, flags, xitk, heap, past, calls>>

Todo(t) == CASE act[t] = "input" -> "get" [] act[t] = "quit" -> "quit" [] OTHER -> "body"

\* Mutant of Enter: the flag is not tested again once the mutex is held.
EnterUnchecked(t) ==
  /\ On(t, "enter")
  /\ pending' = pending + 1 /\ Goto(t, Todo(t))
  /\ UNCHANGED <<act, ret, holds, reject, asleep, extra, menu, flags, xitk, heap,
                 past, calls>>

\* ... and again with it
Enter(t) ==
  /\ On(t, "enter")
  /\ IF reject THEN Goto(t, ret[t]) /\ UNCHANGED pending
               ELSE Goto(t, Todo(t)) /\ pending' = pending + 1
  /\ UNCHANGED <<act, ret, holds, reject, asleep, extra, menu, flags, xitk, heap,
                 past, calls>>

\* oxine_action_event: does the menu take the event?
Get(t) ==
  /\ On(t, "get")
  /\ IF instance THEN locks' = locks + 1 /\ Goto(t, "menu")
                 ELSE UNCHANGED locks /\ Goto(t, "body")
  /\ UNCHANGED <<act, ret, holds, gate, instance, flags, xitk, heap, past, calls>>

(***************************************************************************)
(* The menu is closed, or it draws itself anew, or the entry chosen plays  *)
(* an mrl, which may open a window, or is "shutdown", an ACTID_QUIT inside *)
(* of the action: counted in, counted out once before gui_exit.            *)
(***************************************************************************)
Menu(t) ==
  /\ On(t, "menu")
  /\ \/ Goto(t, "unget")
     \/ MenuOpen /\ Goto(t, "menuWindow")
     \/ MenuOpen /\ ~reject /\ Goto(t, "exit")
  /\ UNCHANGED <<act, ret, holds, gate, menu, flags, xitk, heap, past, calls>>

MenuWindow(t) ==
  /\ On(t, "menuWindow") /\ XitkFree(t)
  /\ Goto(t, "unget")
  /\ UNCHANGED <<act, ret, holds, gate, menu, flags, xitk, heap, past, calls>>

\* Mutant of Unget: the way out of the menu releases it once more.
UngetTwice(t) ==
  /\ On(t, "unget")
  /\ locks' = locks - 2
  /\ Goto(t, IF MenuOpen THEN "leave" ELSE "body")
  /\ UNCHANGED <<act, ret, holds, gate, instance, flags, xitk, heap, past, calls>>

\* oxine_instance_unget
Unget(t) ==
  /\ On(t, "unget")
  /\ locks' = locks - 1
  /\ Goto(t, IF MenuOpen THEN "leave" ELSE "body")
  /\ UNCHANGED <<act, ret, holds, gate, instance, flags, xitk, heap, past, calls>>

\* What the action does: its pointers are fetched, later used.
Body(t) ==
  /\ On(t, "body")
  /\ Fetched(t, {"panel", "stream", "vwin"}) /\ Goto(t, "work")
  /\ UNCHANGED <<act, ret, gate, menu, flags, xitk, heap, past, calls>>

Work(t) ==
  /\ On(t, "work")
  /\ act[t] = "window" => XitkFree(t)
  /\ Used(t) /\ Goto(t, After(t))
  /\ UNCHANGED <<act, ret, gate, menu, flags, xitk, heap, crashed, asked, calls>>

\* ACTID_QUIT: counted out here, and once more in Leave
Quit(t) ==
  /\ On(t, "quit")
  /\ Released /\ extra' = extra + 1
  /\ Goto(t, "exit")
  /\ UNCHANGED <<act, ret, holds, reject, menu, flags, xitk, heap, past, calls>>

\* The end of an action: after an input event in its branch, else at 1171
Leave(t) ==
  /\ On(t, "leave")
  /\ Released
  /\ Goto(t, ret[t])
  /\ UNCHANGED <<act, ret, holds, reject, extra, menu, flags, xitk, heap, past,
                 calls>>

-----------------------------------------------------------------------------
\* gui_exit

\* oxine_exit: no new users of the menu, wait for those there are, ...
Exit(t) ==
  /\ On(t, "exit")
  /\ asked' = asked + (IF ret[t] = "queue" THEN 0 ELSE 1)
  /\ IF instance
     THEN /\ instance' = FALSE /\ locks' = locks - 1
          /\ Goto(t, "exitWait") /\ UNCHANGED crashed
     ELSE crashed' = TRUE /\ UNCHANGED <<menu, pc>>
  /\ UNCHANGED <<act, ret, holds, gate, flags, xitk, heap, bad, calls>>

\* ... then destroy it
ExitWait(t) ==
  /\ On(t, "exitWait") /\ locks <= 0
  /\ Goto(t, "exitStop")
  /\ UNCHANGED <<act, ret, holds, gate, menu, flags, xitk, heap, past, calls>>

\* xine_stop, on_quit = 1, xitk_stop
ExitStop(t) ==
  /\ On(t, "exitStop")
  /\ bad' = bad \cup {<<t, o>> : o \in {"stream", "gui"} \ alive}
  /\ onQuit' = TRUE /\ looping' = FALSE
  /\ Goto(t, After(t))
  /\ UNCHANGED <<act, ret, holds, gate, menu, running, slRun, going, xitk, heap,
                 crashed, asked, calls>>

-----------------------------------------------------------------------------
\* The other threads

Begin(t, p, a, r) ==
  /\ pc' = [pc EXCEPT ![t] = p] /\ act' = [act EXCEPT ![t] = a]
  /\ ret' = [ret EXCEPT ![t] = r]

\* ... and one more call is spent
Spend == calls < MaxCalls /\ calls' = calls + 1

\* event_listener, session commands: work of their own, or gui_exit
Serve(t) ==
  /\ t \in {Listener, Session} /\ On(t, "loop") /\ (t = Session => going)
  /\ Spend
  /\ \/ Begin(t, "body", "direct", "loop")
     \/ Begin(t, "exit", "close", "loop")
  /\ UNCHANGED <<holds, gate, menu, flags, xitk, heap, past>>

\* Mutant of SliderLoop: sl.run is not looked at.
SliderForever(t) ==
  /\ t = Slider /\ On(t, "loop")
  /\ Begin(t, "body", "direct", "loop")
  /\ UNCHANGED <<holds, gate, menu, flags, xitk, heap, past, calls>>

\* slider_loop: a round, which may end the program ("quit when done")
SliderLoop(t) ==
  /\ t = Slider /\ On(t, "loop")
  /\ \/ ~slRun /\ Goto(t, "dead") /\ UNCHANGED <<act, ret, calls>>
     \/ slRun /\ Spend /\ Begin(t, "body", "direct", "loop")
     \/ slRun /\ Spend /\ Begin(t, "exit", "close", "loop")
  /\ UNCHANGED <<holds, gate, menu, flags, xitk, heap, past>>

\* while (gui->running) ...
Test(t) ==
  /\ t \in Remotes /\ On(t, "test")
  /\ bad' = bad \cup {<<t, o>> : o \in {"gui"} \ alive}
  /\ Goto(t, IF running THEN "select" ELSE "dead")
  /\ UNCHANGED <<act, ret, holds, gate, menu, flags, xitk, heap, crashed, asked,
                 calls>>

(***************************************************************************)
(* select () times out, or there is a command: looked up in the key        *)
(* bindings, executed, the panel is drawn.  lirc: PlaylistFrom is no       *)
(* action.  stdctl: at the end of stdin the panel is drawn, then ACTID_QUIT *)
(* is executed and the thread ends.                                        *)
(***************************************************************************)
Select(t) ==
  /\ t \in Remotes /\ On(t, "select")
  /\ \/ Goto(t, IF t = StdCtl THEN "poll" ELSE "test") /\ UNCHANGED <<act, ret, bad, calls>>
     \/ /\ Spend
        /\ bad' = bad \cup {<<t, o>> : o \in {"kbindings"} \ alive}
        /\ \/ \E a \in Kinds : Begin(t, "peek", a, "paint")
           \/ t = Lirc /\ Begin(t, "body", "direct", "paint")
           \/ t = StdCtl /\ Begin(t, "paint", "quit", "dead")
  /\ UNCHANGED <<holds, gate, menu, flags, xitk, heap, crashed, asked>>

\* panel_paint
Paint(t) ==
  /\ On(t, "paint")
  /\ Fetched(t, {"panel"}) /\ Goto(t, "painting")
  /\ UNCHANGED <<act, ret, gate, menu, flags, xitk, heap, past, calls>>

Painting(t) ==
  /\ On(t, "painting")
  /\ Used(t)
  /\ Goto(t, CASE ret[t] = "dead" -> "peek" [] t = StdCtl -> "poll" [] OTHER -> "test")
  /\ UNCHANGED <<act, ret, gate, menu, flags, xitk, heap, crashed, asked, calls>>

\* gui_xine_get_pos_length (gui, gui->stream, ...)
Poll(t) ==
  /\ On(t, "poll")
  /\ Fetched(t, {"stream"}) /\ Goto(t, "polling")
  /\ UNCHANGED <<act, ret, gate, menu, flags, xitk, heap, past, calls>>

Polling(t) ==
  /\ On(t, "polling")
  /\ Used(t) /\ Goto(t, "test")
  /\ UNCHANGED <<act, ret, gate, menu, flags, xitk, heap, crashed, asked, calls>>

-----------------------------------------------------------------------------
\* The GUI thread: gui_run, xitk_run

OxineInit ==
  /\ On(Gui, "oxine")
  /\ instance' = TRUE /\ locks' = 1 /\ Goto(Gui, "run")
  /\ UNCHANGED <<act, ret, holds, gate, flags, xitk, heap, past, calls>>

Run ==
  /\ On(Gui, "run")
  /\ looping' = TRUE /\ Goto(Gui, "loop")
  /\ UNCHANGED <<act, ret, holds, gate, menu, running, slRun, going, onQuit, xitk,
                 heap, past, calls>>

\* An event: a key, or a window is closed.
GuiEvent ==
  /\ On(Gui, "loop") /\ looping /\ xitk = Nobody
  /\ Spend /\ xitk' = Gui
  /\ \/ \E a \in Kinds : Begin(Gui, "peek", a, "event")
     \/ Begin(Gui, "exit", "close", "event")
  /\ UNCHANGED <<holds, gate, menu, flags, heap, past>>

EventEnd ==
  /\ On(Gui, "event")
  /\ xitk' = Nobody /\ Goto(Gui, "loop")
  /\ UNCHANGED <<act, ret, holds, gate, menu, flags, heap, past, calls>>

\* xitk_signal_handler: SIGHUP, SIGUSR1, SIGUSR2
Signal ==
  /\ looping /\ Spend
  /\ looping' = FALSE /\ asked' = asked + 1
  /\ UNCHANGED <<control, gate, menu, running, slRun, going, onQuit, xitk, heap,
                 bad, crashed>>

-----------------------------------------------------------------------------
\* The GUI thread: gui_exit_2, the end of gui_run and of main

\* Mutant of Stopped: gui_exit although it was what stopped the loop.
StoppedAgain ==
  /\ On(Gui, "loop") /\ ~looping
  /\ Begin(Gui, "exit", "close", "queue")
  /\ UNCHANGED <<holds, gate, menu, flags, xitk, heap, past, calls>>

\* if (!gui->on_quit) gui_exit ()
Stopped ==
  /\ On(Gui, "loop") /\ ~looping
  /\ IF onQuit THEN Goto(Gui, "queue") /\ UNCHANGED <<act, ret>>
               ELSE Begin(Gui, "exit", "close", "queue")
  /\ UNCHANGED <<holds, gate, menu, flags, xitk, heap, past, calls>>

Step(p, q) == On(Gui, p) /\ Goto(Gui, q)
Freed(o) == alive' = alive \ {o}
Cleared(o) == set' = set \ {o}

\* xine_event_dispose_queue joins the listener
DisposeQueue ==
  /\ On(Gui, "queue") /\ (Listener \in Threads => On(Listener, "loop"))
  /\ pc' = [t \in Threads |-> CASE t = Gui -> "panel" [] t = Listener -> "dead"
                                [] OTHER -> pc[t]]
  /\ UNCHANGED <<act, ret, holds, gate, menu, flags, xitk, heap, past, calls>>

\* _panel_exit
StopSlider ==
  /\ Step("panel", "joinSlider") /\ slRun' = FALSE
  /\ UNCHANGED <<act, ret, holds, gate, menu, running, looping, going, onQuit,
                 xitk, heap, past, calls>>

\* Mutant of FreePanel: the slider thread is not joined.
FreePanelAtOnce ==
  /\ Step("joinSlider", "gate")
  /\ Freed("panel") /\ Cleared("panel")
  /\ UNCHANGED <<act, ret, holds, gate, menu, flags, xitk, past, calls>>

FreePanel ==
  /\ Step("joinSlider", "gate") /\ (Slider \in Threads => On(Slider, "dead"))
  /\ Freed("panel") /\ Cleared("panel")
  /\ UNCHANGED <<act, ret, holds, gate, menu, flags, xitk, past, calls>>

\* gui_deinit
CloseGate ==
  /\ Step("gate", "waitGate")
  /\ reject' = TRUE /\ asleep' = (pending > 0)
  /\ UNCHANGED <<act, ret, holds, pending, extra, menu, flags, xitk, heap, past,
                 calls>>

WaitGate ==
  /\ Step("waitGate", "close") /\ ~asleep
  /\ UNCHANGED <<act, ret, holds, gate, menu, flags, xitk, heap, past, calls>>

Close ==
  /\ Step("close", "dispose") /\ running' = FALSE
  /\ UNCHANGED <<act, ret, holds, gate, menu, looping, slRun, going, onQuit, xitk,
                 heap, past, calls>>

DisposeStream ==
  /\ Step("dispose", "forget") /\ Freed("stream")
  /\ UNCHANGED <<act, ret, holds, gate, menu, flags, xitk, set, past, calls>>

ForgetStream ==
  /\ Step("forget", "vwin") /\ Cleared("stream")
  /\ UNCHANGED <<act, ret, holds, gate, menu, flags, xitk, alive, past, calls>>

ExitVideo ==
  /\ Step("vwin", "join") /\ Freed("vwin")
  /\ UNCHANGED <<act, ret, holds, gate, menu, flags, xitk, set, past, calls>>

\* vwin = NULL, lirc_stop, stdctl_stop
JoinRemotes ==
  /\ Step("join", "session") /\ (\A t \in Remotes : On(t, "dead"))
  /\ Cleared("vwin")
  /\ UNCHANGED <<act, ret, holds, gate, menu, flags, xitk, alive, past, calls>>

\* deinit_session, kbindings_free_kbinding
DeinitSession ==
  /\ Step("session", "free") /\ going' = FALSE
  /\ Freed("kbindings") /\ Cleared("kbindings")
  /\ UNCHANGED <<act, ret, holds, gate, menu, running, looping, slRun, onQuit, xitk,
                 past, calls>>

FreeGui ==
  /\ Step("free", "done") /\ Freed("gui")
  /\ UNCHANGED <<act, ret, holds, gate, menu, flags, xitk, set, past, calls>>

-----------------------------------------------------------------------------
\* A thread goes on with its call.
InCall(t) ==
  \/ Peek(t) \/ Enter(t) \/ Get(t) \/ Menu(t) \/ MenuWindow(t) \/ Unget(t)
  \/ Body(t) \/ Work(t) \/ Quit(t) \/ Leave(t)
  \/ Exit(t) \/ ExitWait(t) \/ ExitStop(t)
  \/ Test(t) \/ Paint(t) \/ Painting(t) \/ Poll(t) \/ Polling(t)

Ending ==
  \/ OxineInit \/ Run \/ EventEnd \/ Stopped
  \/ DisposeQueue \/ StopSlider \/ FreePanel \/ CloseGate \/ WaitGate \/ Close
  \/ DisposeStream \/ ForgetStream \/ ExitVideo \/ JoinRemotes \/ DeinitSession
  \/ FreeGui

Next ==
  /\ ~crashed
  /\ \/ \E t \in Threads : InCall(t) \/ Serve(t) \/ SliderLoop(t) \/ Select(t)
     \/ GuiEvent \/ Signal \/ Ending

Spec == Init /\ [][Next]_vars

\* Threads run, select () times out, the slider's timed wait ends.
Fairness ==
  /\ \A t \in Threads : /\ WF_vars(~crashed /\ InCall(t))
                        /\ WF_vars(~crashed /\ SliderLoop(t))
                        /\ WF_vars(~crashed /\ Select(t))
  /\ WF_vars(~crashed /\ Ending)

FairSpec == Spec /\ Fairness

-----------------------------------------------------------------------------
\* The threads that are counted in.
Counted ==
  {t \in Threads : /\ act[t] \notin Direct
                   /\ pc[t] \in {"get", "menu", "menuWindow", "unget", "body", "work",
                                 "quit", "exit", "exitWait", "exitStop", "leave"}}

(***************************************************************************)
(* event_pending counts the threads in an action, less one for every       *)
(* ACTID_QUIT ever executed: that one is counted out twice.                *)
(***************************************************************************)
PendingCounts == pending = Cardinality(Counted) - extra

TypeOK ==
  /\ act \in [Threads -> Kind \cup Direct]
  /\ DOMAIN pc = Threads /\ DOMAIN ret = Threads
  /\ holds \in [Threads -> SUBSET Object]
  /\ reject \in BOOLEAN /\ PendingCounts /\ asleep \in BOOLEAN /\ extra \in Nat
  /\ instance \in BOOLEAN /\ locks \in Nat
  /\ running \in BOOLEAN /\ looping \in BOOLEAN /\ slRun \in BOOLEAN
  /\ going \in BOOLEAN /\ onQuit \in BOOLEAN
  /\ xitk \in {Nobody, Gui}
  /\ alive \subseteq Object /\ set \subseteq Object
  /\ bad \subseteq Threads \X Object /\ crashed \in BOOLEAN
  /\ asked \in Nat /\ calls \in 0 .. MaxCalls

(***************************************************************************)
(* The event listener, the slider and the GUI thread never use what is     *)
(* freed, nor do the remote controls use the key bindings or gui itself:   *)
(* each of them is joined before.  (Not so the session server, and not the *)
(* stream that stdctl polls.)                                              *)
(***************************************************************************)
JoinedBeforeFreed ==
  \A t \in Threads, o \in Object :
    <<t, o>> \in bad =>
      \/ t = Session
      \/ t \in Remotes /\ o \notin {"kbindings", "gui"}

(***************************************************************************)
(* Nobody is left behind a door that was shut.  Once gui_deinit is over,   *)
(* no more actions are under way than ACTID_QUIT was executed: none, when  *)
(* the program was ended by closing a window.  And the on screen menu is   *)
(* not destroyed while a thread is in it: oxine_exit counted them out.     *)
(***************************************************************************)
Beyond == {"close", "dispose", "forget", "vwin", "join", "session", "free", "done"}
InMenu == {t \in Threads : pc[t] \in {"menu", "menuWindow", "unget"}}

GateHolds == pc[Gui] \in Beyond => Cardinality(Counted) <= extra
MenuKept == \A t \in Threads : On(t, "exitStop") => (InMenu = {})
NobodyLeftInside == GateHolds /\ MenuKept

(***************************************************************************)
(* gui_exit, which destroys the menu, runs once when the program is told   *)
(* once to end, by whatever thread, key, window or signal.  (Told twice, or *)
(* before oxine_init, it destroys what is not there.)                      *)
(***************************************************************************)
OneExitIsSafe == crashed => (asked > 1 \/ pc[Gui] = "oxine")

(***************************************************************************)
(* Once gui_exit has stopped the event loop the program ends, whatever the *)
(* other threads are doing.                                                *)
(***************************************************************************)
ShutdownEnds ==
  (On(Gui, "loop") /\ ~looping) ~> (On(Gui, "done") \/ crashed)

(***************************************************************************)
(* Not kept by the code (README): gui_exit does "not wait for threads that *)
(* try to use xitk here".                                                  *)
(***************************************************************************)
ExitWaitsForNoXitkUser ==
  xitk = Gui /\ On(Gui, "exitWait") => \A t \in Threads : ~On(t, "menuWindow")
=============================================================================
