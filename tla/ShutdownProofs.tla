--------------------------- MODULE ShutdownProofs ---------------------------
(***************************************************************************)
(* What holds of the end of the program for any of its threads, actions    *)
(* and any number of calls.                                                *)
(***************************************************************************)
EXTENDS Shutdown, FiniteSetTheorems, TLAPS

-----------------------------------------------------------------------------
(***************************************************************************)
(* Where threads are and what they execute there.  Only an action that is  *)
(* counted in gets to the points where it is counted out.                  *)
(***************************************************************************)
InAction == {"get", "menu", "menuWindow", "unget", "quit", "leave"}
InGate == InAction \cup {"body", "work", "exit", "exitWait", "exitStop"}
Return == {"loop", "event", "queue", "paint", "dead"}
Taking == {"close", "dispose", "forget", "vwin", "join", "session", "free", "done"}
Pc == InGate \cup Return \cup Taking
      \cup {"peek", "enter", "test", "select", "painting", "poll", "polling",
            "oxine", "run", "panel", "joinSlider", "gate", "waitGate"}

Places ==
  /\ pc \in [Threads -> Pc] /\ ret \in [Threads -> Return]
  /\ act \in [Threads -> Kind \cup Direct]
  /\ \A t \in Threads :
       /\ pc[t] \in InAction \cup {"peek", "enter"} => act[t] \notin Direct
       /\ ret[t] = "dead" => act[t] \notin Direct
       /\ ret[t] = "queue" => t = Gui /\ act[t] = "close"

Numbers == pending \in Int /\ extra \in Nat /\ locks \in Int /\ asked \in Nat
           /\ calls \in 0 .. MaxCalls

Flags == /\ reject \in BOOLEAN /\ asleep \in BOOLEAN /\ instance \in BOOLEAN
         /\ running \in BOOLEAN /\ looping \in BOOLEAN /\ slRun \in BOOLEAN
         /\ going \in BOOLEAN /\ onQuit \in BOOLEAN /\ crashed \in BOOLEAN
         /\ xitk \in {Nobody, Gui}

Things == /\ holds \in [Threads -> SUBSET {"panel", "stream", "vwin"}]
          /\ alive \subseteq Object /\ set \subseteq Object
          /\ bad \subseteq Threads \X Object

Values == Numbers /\ Flags /\ Things

(***************************************************************************)
(* The gate: event_reject is set while the GUI thread is behind it, and    *)
(* from then on gui_deinit sleeps as long as event_pending is positive.    *)
(***************************************************************************)
Behind == {"waitGate"} \cup Beyond

GateWorks ==
  /\ PendingCounts
  /\ pc[Gui] \in Behind => reject
  /\ pc[Gui] \in Beyond => ~asleep
  /\ reject => asleep \/ pending <= 0

(***************************************************************************)
(* The menu: each thread in it has a lock, and so has the instance itself. *)
(* (A thread that ends the program out of the menu keeps its lock.)  Who   *)
(* is about to destroy it has taken the instance away.                     *)
(***************************************************************************)
MenuCounts ==
  /\ (IF instance THEN 1 ELSE 0) + Cardinality(InMenu) <= locks
  /\ pc[Gui] = "oxine" => ~instance /\ locks = 0
  /\ \A t \in Threads :
       /\ pc[t] \in {"exitWait", "exitStop"} => ~instance /\ pc[Gui] # "oxine"
       /\ pc[t] = "exitStop" => InMenu = {}

(***************************************************************************)
(* The order in which things are taken down: what is freed belongs to      *)
(* threads that were joined.                                               *)
(***************************************************************************)
NoListener == {"panel", "joinSlider", "gate"} \cup Behind
NoPanel == {"gate"} \cup Behind

InOrder ==
  /\ pc[Gui] \in NoListener /\ Listener \in Threads => pc[Listener] = "dead"
  /\ pc[Gui] \in NoPanel /\ Slider \in Threads => pc[Slider] = "dead"
  /\ pc[Gui] \notin NoPanel => alive = Object
  /\ pc[Gui] \in {"session", "free", "done"} => \A t \in Remotes : pc[t] = "dead"
  /\ "kbindings" \notin alive => pc[Gui] \in {"free", "done"}
  /\ "gui" \notin alive => pc[Gui] = "done"

(***************************************************************************)
(* How often the program was told to end: the menu is gone or the loop is  *)
(* left only for a reason, and for two when both happen and none is the    *)
(* consequence of the other.                                               *)
(***************************************************************************)
Told ==
  /\ pc[Gui] # "oxine" /\ ~instance => asked >= 1
  /\ pc[Gui] \notin {"oxine", "run"} /\ ~looping => asked >= 1
  /\ ret[Gui] = "queue" => asked >= 1
  /\ pc[Gui] \notin {"oxine", "run"} /\ ~looping /\ ~onQuit /\ ~instance =>
       \/ asked >= 2
       \/ pc[Gui] \in {"exitWait", "exitStop"} /\ ret[Gui] = "queue"
  /\ pc[Gui] = "exit" /\ ret[Gui] = "queue" /\ ~instance => asked >= 2
  /\ OneExitIsSafe

IInv == Places /\ Values /\ GateWorks /\ MenuCounts /\ InOrder /\ JoinedBeforeFreed /\ Told

-----------------------------------------------------------------------------
LEMMA Distinct ==
  /\ Gui \in Threads /\ Gui # Listener /\ Gui # Slider /\ Gui # Session
  /\ Gui \notin Remotes /\ Listener \notin Remotes /\ Slider \notin Remotes
  /\ Listener # Slider /\ Listener # Session /\ Slider # Session
<1> DEFINE who == <<Gui, Listener, Slider, StdCtl, Lirc, Session>>
<1>1. \A i, j \in 1 .. 6 : i # j => who[i] # who[j]
  BY ShutdownAssumption
<1>2. /\ who[1] = Gui /\ who[2] = Listener /\ who[3] = Slider
      /\ who[4] = StdCtl /\ who[5] = Lirc /\ who[6] = Session
  OBVIOUS
<1> HIDE DEF who
<1>3. /\ Gui # Listener /\ Gui # Slider /\ Gui # Session /\ Gui # StdCtl /\ Gui # Lirc
      /\ Listener # Slider /\ Listener # Session /\ Slider # Session
      /\ Listener # StdCtl /\ Listener # Lirc /\ Slider # StdCtl /\ Slider # Lirc
  BY <1>1, <1>2
<1> QED
  BY <1>3, ShutdownAssumption DEF Remotes

LEMMA PlacesStep ==
  ASSUME Places, [Next]_vars
  PROVE  Places'
<1> USE Distinct, ShutdownAssumption
    DEF Places, Pc, InGate, InAction, Return, Taking, Kind, Direct, On, Goto, Begin
<1>1. ASSUME NEW t \in Threads, InCall(t) PROVE Places'
  <2>1. CASE Peek(t) \/ Enter(t) \/ Get(t) \/ Menu(t) \/ MenuWindow(t) \/ Unget(t)
    BY <2>1 DEF Peek, Enter, Todo, Get, Menu, MenuWindow, Unget
  <2>2. CASE Body(t) \/ Work(t) \/ Quit(t) \/ Leave(t)
    BY <2>2 DEF Body, Work, Quit, Leave, After
  <2>3. CASE Exit(t) \/ ExitWait(t) \/ ExitStop(t)
    BY <2>3 DEF Exit, ExitWait, ExitStop, After
  <2>4. CASE Test(t) \/ Paint(t) \/ Painting(t) \/ Poll(t) \/ Polling(t)
    BY <2>4 DEF Test, Paint, Painting, Poll, Polling
  <2> QED
    BY <1>1, <2>1, <2>2, <2>3, <2>4 DEF InCall
<1>2. ASSUME NEW t \in Threads, Serve(t) \/ SliderLoop(t) \/ Select(t) PROVE Places'
  BY <1>2 DEF Serve, SliderLoop, Select
<1>3. CASE GuiEvent \/ Signal
  BY <1>3 DEF GuiEvent, Signal, control
<1>4. CASE OxineInit \/ Run \/ EventEnd \/ Stopped \/ DisposeQueue
  BY <1>4 DEF OxineInit, Run, EventEnd, Stopped, DisposeQueue
<1>5. CASE \/ StopSlider \/ FreePanel \/ CloseGate \/ WaitGate \/ Close \/ DisposeStream
           \/ ForgetStream \/ ExitVideo \/ JoinRemotes \/ DeinitSession \/ FreeGui
  BY <1>5 DEF Step, StopSlider, FreePanel, CloseGate, WaitGate, Close, DisposeStream,
              ForgetStream, ExitVideo, JoinRemotes, DeinitSession, FreeGui
<1>6. CASE UNCHANGED vars
  BY <1>6 DEF vars, control
<1> QED
  BY <1>1, <1>2, <1>3, <1>4, <1>5, <1>6 DEF Next, Ending

-----------------------------------------------------------------------------
LEMMA NumbersStep ==
  ASSUME Numbers, [Next]_vars
  PROVE  Numbers'
<1> USE ShutdownAssumption DEF Numbers, gate, menu, past
<1>1. ASSUME NEW t \in Threads, InCall(t) PROVE Numbers'
  <2>1. CASE Peek(t) \/ Enter(t) \/ Get(t) \/ Menu(t) \/ MenuWindow(t) \/ Unget(t)
    BY <2>1 DEF Peek, Enter, Get, Menu, MenuWindow, Unget
  <2>2. CASE Body(t) \/ Work(t)
    BY <2>2 DEF Body, Work
  <2>3. CASE Quit(t) \/ Leave(t)
    BY <2>3 DEF Quit, Leave, Released
  <2>4. CASE Exit(t) \/ ExitWait(t) \/ ExitStop(t)
    BY <2>4 DEF Exit, ExitWait, ExitStop
  <2>5. CASE Test(t) \/ Paint(t) \/ Painting(t) \/ Poll(t) \/ Polling(t)
    BY <2>5 DEF Test, Paint, Painting, Poll, Polling
  <2> QED
    BY <1>1, <2>1, <2>2, <2>3, <2>4, <2>5 DEF InCall
<1>2. ASSUME NEW t \in Threads, Serve(t) \/ SliderLoop(t) \/ Select(t) PROVE Numbers'
  BY <1>2 DEF Serve, SliderLoop, Select, Spend
<1>3. CASE GuiEvent \/ Signal
  BY <1>3 DEF GuiEvent, Signal, control, Spend
<1>4. CASE OxineInit \/ Run \/ EventEnd \/ Stopped \/ DisposeQueue
  BY <1>4 DEF OxineInit, Run, EventEnd, Stopped, DisposeQueue
<1>5. CASE StopSlider \/ FreePanel \/ CloseGate \/ WaitGate \/ Close
  BY <1>5 DEF StopSlider, FreePanel, CloseGate, WaitGate, Close, Freed, Cleared
<1>6. CASE \/ DisposeStream \/ ForgetStream \/ ExitVideo \/ JoinRemotes
           \/ DeinitSession \/ FreeGui
  BY <1>6 DEF DisposeStream, ForgetStream, ExitVideo, JoinRemotes, DeinitSession,
              FreeGui, Freed, Cleared
<1>7. CASE UNCHANGED vars
  BY <1>7 DEF vars, control
<1> QED
  BY <1>1, <1>2, <1>3, <1>4, <1>5, <1>6, <1>7 DEF Next, Ending

LEMMA FlagsStep ==
  ASSUME Numbers, Flags, [Next]_vars
  PROVE  Flags'
<1> USE DEF Flags, gate, menu, flags, past
<1>1. ASSUME NEW t \in Threads, InCall(t) PROVE Flags'
  <2>1. CASE Peek(t) \/ Enter(t) \/ Get(t) \/ Menu(t) \/ MenuWindow(t) \/ Unget(t)
    BY <2>1 DEF Peek, Enter, Get, Menu, MenuWindow, Unget
  <2>2. CASE Body(t) \/ Work(t)
    BY <2>2 DEF Body, Work
  <2>3. CASE Quit(t) \/ Leave(t)
    BY <2>3 DEF Quit, Leave, Released
  <2>4. CASE Exit(t) \/ ExitWait(t) \/ ExitStop(t)
    BY <2>4, ZenonT(40) DEF Exit, ExitWait, ExitStop
  <2>5. CASE Test(t) \/ Paint(t) \/ Painting(t) \/ Poll(t) \/ Polling(t)
    BY <2>5 DEF Test, Paint, Painting, Poll, Polling
  <2> QED
    BY <1>1, <2>1, <2>2, <2>3, <2>4, <2>5 DEF InCall
<1>2. ASSUME NEW t \in Threads, Serve(t) \/ SliderLoop(t) \/ Select(t) PROVE Flags'
  BY <1>2 DEF Serve, SliderLoop, Select, Spend
<1>3. CASE GuiEvent \/ Signal
  BY <1>3 DEF GuiEvent, Signal, control, Spend
<1>4. CASE OxineInit \/ Run
  BY <1>4, ZenonT(40) DEF OxineInit, Run
<1>5. CASE EventEnd \/ Stopped \/ DisposeQueue \/ FreePanel \/ WaitGate
  BY <1>5 DEF EventEnd, Stopped, DisposeQueue, FreePanel, WaitGate
<1>6. CASE StopSlider \/ Close \/ DeinitSession
  BY <1>6, ZenonT(40) DEF StopSlider, Close, DeinitSession
<1>9. CASE CloseGate
  BY <1>9 DEF CloseGate, Numbers
<1>8. CASE DisposeStream \/ ForgetStream \/ ExitVideo \/ JoinRemotes \/ FreeGui
  BY <1>8 DEF DisposeStream, ForgetStream, ExitVideo, JoinRemotes, FreeGui
<1>7. CASE UNCHANGED vars
  BY <1>7 DEF vars, control
<1> QED
  BY <1>1, <1>2, <1>3, <1>4, <1>5, <1>6, <1>7, <1>8, <1>9 DEF Next, Ending

LEMMA ThingsStep ==
  ASSUME Places, Things, [Next]_vars
  PROVE  Things'
<1> USE Distinct DEF Things, Object, Places, control, heap, past
<1>1. ASSUME NEW t \in Threads, InCall(t) PROVE Things'
  <2>1. CASE Peek(t) \/ Enter(t) \/ Get(t) \/ Menu(t) \/ MenuWindow(t) \/ Unget(t)
    BY <2>1 DEF Peek, Enter, Get, Menu, MenuWindow, Unget
  <2>2. CASE Body(t) \/ Work(t)
    BY <2>2 DEF Body, Work, Fetched, Used
  <2>3. CASE Quit(t) \/ Leave(t)
    BY <2>3 DEF Quit, Leave
  <2>4. CASE Exit(t) \/ ExitWait(t)
    BY <2>4 DEF Exit, ExitWait
  <2>6. CASE ExitStop(t)
    BY <2>6 DEF ExitStop
  <2>5. CASE Test(t) \/ Paint(t) \/ Painting(t) \/ Poll(t) \/ Polling(t)
    BY <2>5 DEF Test, Paint, Painting, Poll, Polling, Fetched, Used
  <2> QED
    BY <1>1, <2>1, <2>2, <2>3, <2>4, <2>5, <2>6 DEF InCall
<1>2. ASSUME NEW t \in Threads, Serve(t) \/ SliderLoop(t) \/ Select(t) PROVE Things'
  <2>1. CASE Serve(t) \/ SliderLoop(t)
    BY <2>1 DEF Serve, SliderLoop
  <2>2. CASE Select(t)
    <3>1. bad' = bad \/ bad' = bad \cup {<<t, o>> : o \in {"kbindings"} \ alive}
      BY <2>2 DEF Select
    <3> QED
      BY <2>2, <3>1 DEF Select
  <2> QED
    BY <1>2, <2>1, <2>2
<1>3. CASE GuiEvent \/ Signal
  BY <1>3 DEF GuiEvent, Signal, control, Spend
<1>4. CASE OxineInit \/ Run \/ EventEnd \/ Stopped \/ DisposeQueue
  BY <1>4 DEF OxineInit, Run, EventEnd, Stopped, DisposeQueue
<1>5. CASE StopSlider \/ FreePanel \/ CloseGate \/ WaitGate \/ Close
  BY <1>5 DEF StopSlider, FreePanel, CloseGate, WaitGate, Close, Freed, Cleared
<1>6. CASE \/ DisposeStream \/ ForgetStream \/ ExitVideo \/ JoinRemotes
           \/ DeinitSession \/ FreeGui
  BY <1>6 DEF DisposeStream, ForgetStream, ExitVideo, JoinRemotes, DeinitSession,
              FreeGui, Freed, Cleared
<1>7. CASE UNCHANGED vars
  BY <1>7 DEF vars, control
<1> QED
  BY <1>1, <1>2, <1>3, <1>4, <1>5, <1>6, <1>7 DEF Next, Ending

-----------------------------------------------------------------------------
(***************************************************************************)
(* Counting threads: one comes to a set of them, one leaves it.            *)
(***************************************************************************)
LEMMA CountOneMore ==
  ASSUME NEW S, S \subseteq Threads, NEW t \in Threads, t \notin S
  PROVE  Cardinality(S \cup {t}) = Cardinality(S) + 1
BY ShutdownAssumption, FS_Subset, FS_AddElement

LEMMA CountOneLess ==
  ASSUME NEW S, S \subseteq Threads, NEW t \in S
  PROVE  Cardinality(S \ {t}) = Cardinality(S) - 1
BY ShutdownAssumption, FS_Subset, FS_RemoveElement

LEMMA CountOf ==
  ASSUME NEW S, S \subseteq Threads
  PROVE  Cardinality(S) \in Nat /\ (Cardinality(S) = 0 <=> S = {})
BY ShutdownAssumption, FS_Subset, FS_EmptySet, FS_CardinalityType

(***************************************************************************)
(* What a step of thread t does to the threads in an action and in the     *)
(* menu depends on t only.                                                 *)
(***************************************************************************)
OnlyMoves(t) == \A u \in Threads \ {t} : pc'[u] = pc[u] /\ act'[u] = act[u]

LEMMA CountedMoves ==
  ASSUME NEW t \in Threads, OnlyMoves(t)
  PROVE  /\ t \in Counted /\ t \in Counted' => Counted' = Counted
         /\ t \notin Counted /\ t \notin Counted' => Counted' = Counted
         /\ t \notin Counted /\ t \in Counted' => Counted' = Counted \cup {t}
         /\ t \in Counted /\ t \notin Counted' => Counted' = Counted \ {t}
BY DEF Counted, OnlyMoves

LEMMA InMenuMoves ==
  ASSUME NEW t \in Threads, OnlyMoves(t)
  PROVE  /\ t \in InMenu /\ t \in InMenu' => InMenu' = InMenu
         /\ t \notin InMenu /\ t \notin InMenu' => InMenu' = InMenu
         /\ t \notin InMenu /\ t \in InMenu' => InMenu' = InMenu \cup {t}
         /\ t \in InMenu /\ t \notin InMenu' => InMenu' = InMenu \ {t}
BY DEF InMenu, OnlyMoves

(***************************************************************************)
(* A thread that is in a call, or begins one, moves alone, is not dead and *)
(* is not taking things down.                                              *)
(***************************************************************************)
ThreadStep(t) == InCall(t) \/ Serve(t) \/ SliderLoop(t) \/ Select(t)

LEMMA CallMoves ==
  ASSUME Places, NEW t \in Threads, ThreadStep(t)
  PROVE  /\ OnlyMoves(t) /\ pc' = [pc EXCEPT ![t] = pc'[t]]
         /\ pc[t] \notin NoListener \cup {"dead", "oxine", "run"}
         /\ pc'[t] \notin NoListener \cup {"oxine", "run"}
<1> USE ShutdownAssumption
    DEF OnlyMoves, NoListener, Behind, Beyond, Places, Return, On, Goto, Begin
<1>1. CASE Peek(t) \/ Enter(t) \/ Get(t) \/ Menu(t) \/ MenuWindow(t) \/ Unget(t)
  BY <1>1 DEF Peek, Enter, Todo, Get, Menu, MenuWindow, Unget
<1>2. CASE Body(t) \/ Work(t) \/ Quit(t) \/ Leave(t)
  BY <1>2 DEF Body, Work, Quit, Leave, After
<1>3. CASE Exit(t) \/ ExitWait(t) \/ ExitStop(t)
  BY <1>3 DEF Exit, ExitWait, ExitStop, After
<1>4. CASE Test(t) \/ Paint(t) \/ Painting(t) \/ Poll(t) \/ Polling(t)
  BY <1>4 DEF Test, Paint, Painting, Poll, Polling
<1>5. CASE Serve(t) \/ SliderLoop(t) \/ Select(t)
  BY <1>5 DEF Serve, SliderLoop, Select
<1> QED
  BY <1>1, <1>2, <1>3, <1>4, <1>5 DEF ThreadStep, InCall

-----------------------------------------------------------------------------
(***************************************************************************)
(* The gate                                                                *)
(***************************************************************************)
LEMMA GateSame ==
  ASSUME GateWorks, Counted' = Counted, UNCHANGED gate,
         pc'[Gui] \in Behind => pc'[Gui] = pc[Gui]
  PROVE  GateWorks'
BY DEF GateWorks, PendingCounts, gate, Behind

LEMMA CountedSubset == Counted \subseteq Threads
BY DEF Counted

LEMMA GateStep ==
  ASSUME Places, Numbers, Flags, GateWorks, [Next]_vars
  PROVE  GateWorks'
<1> USE Distinct
<1>1. ASSUME NEW t \in Threads, ThreadStep(t) PROVE GateWorks'
  <2>1. /\ OnlyMoves(t) /\ pc' = [pc EXCEPT ![t] = pc'[t]]
        /\ pc'[Gui] \in Behind => pc'[Gui] = pc[Gui] /\ t # Gui
    BY <1>1, CallMoves DEF Places, NoListener
  <2>2. CASE Enter(t) /\ ~reject
    <3>1. t \notin Counted /\ t \in Counted'
      BY <2>2 DEF Enter, Counted, Places, InAction, On, Goto, Todo
    <3>2. Cardinality(Counted') = Cardinality(Counted) + 1
      BY <2>1, <3>1, CountedMoves, CountOneMore, CountedSubset
    <3>3. pending' = pending + 1 /\ UNCHANGED <<reject, asleep, extra>>
      BY <2>2 DEF Enter
    <3> QED
      BY <2>1, <2>2, <3>2, <3>3, CountOf, CountedSubset
         DEF GateWorks, PendingCounts, Numbers, Behind
  <2>3. CASE Quit(t)
    <3>1. t \in Counted /\ t \in Counted'
      BY <2>3 DEF Quit, Counted, Places, InAction, On, Goto
    <3>2. Counted' = Counted
      BY <2>1, <3>1, CountedMoves
    <3>3. /\ pending' = pending - 1 /\ extra' = extra + 1 /\ reject' = reject
          /\ asleep' = (asleep /\ ~(pending' <= 0 /\ reject))
      BY <2>3 DEF Quit, Released
    <3> QED
      BY <2>1, <3>2, <3>3, CountOf, CountedSubset
         DEF GateWorks, PendingCounts, Numbers, Flags, Behind
  <2>4. CASE Leave(t)
    <3>1. t \in Counted /\ t \notin Counted'
      BY <2>4 DEF Leave, Counted, Places, InAction, On, Goto, Return
    <3>2. Cardinality(Counted') = Cardinality(Counted) - 1
      BY <2>1, <3>1, CountedMoves, CountOneLess, CountedSubset
    <3>3. /\ pending' = pending - 1 /\ UNCHANGED <<extra, reject>>
          /\ asleep' = (asleep /\ ~(pending' <= 0 /\ reject))
      BY <2>4 DEF Leave, Released
    <3> QED
      BY <2>1, <3>2, <3>3, CountOf, CountedSubset
         DEF GateWorks, PendingCounts, Numbers, Flags, Behind
  <2>5. CASE ~(Enter(t) /\ ~reject) /\ ~Quit(t) /\ ~Leave(t)
    <3>1. UNCHANGED gate
      BY <1>1, <2>5 DEF ThreadStep, InCall, Peek, Enter, Get, Menu, MenuWindow, Unget, Body,
         Work, Exit, ExitWait, ExitStop, Test, Paint, Painting, Poll, Polling, Serve,
         SliderLoop, Select, gate
    <3>2. t \in Counted <=> t \in Counted'
      <4> USE DEF Counted, Places, InAction, Return, Direct, On, Goto, Begin
      <4>1. CASE Peek(t) \/ (Enter(t) /\ reject) \/ Get(t) \/ Menu(t) \/ MenuWindow(t) \/ Unget(t)
        BY <4>1 DEF Peek, Enter, Get, Menu, MenuWindow, Unget
      <4>2. CASE Body(t) \/ Work(t)
        BY <4>2 DEF Body, Work, After
      <4>3. CASE Exit(t) \/ ExitWait(t) \/ ExitStop(t)
        BY <4>3 DEF Exit, ExitWait, ExitStop, After
      <4>4. CASE Test(t) \/ Paint(t) \/ Painting(t) \/ Poll(t) \/ Polling(t)
        BY <4>4 DEF Test, Paint, Painting, Poll, Polling
      <4>5. CASE Serve(t) \/ SliderLoop(t) \/ Select(t)
        BY <4>5 DEF Serve, SliderLoop, Select
      <4> QED
        BY <1>1, <2>5, <4>1, <4>2, <4>3, <4>4, <4>5 DEF ThreadStep, InCall
    <3> QED
      BY <2>1, <3>1, <3>2, CountedMoves, GateSame
  <2> QED
    BY <2>2, <2>3, <2>4, <2>5
<1>2. CASE GuiEvent \/ OxineInit \/ Run \/ EventEnd \/ Stopped
  <2>1. OnlyMoves(Gui) /\ UNCHANGED gate /\ pc'[Gui] \notin Behind
    BY <1>2 DEF GuiEvent, OxineInit, Run, EventEnd, Stopped, Begin, Goto, OnlyMoves, Places,
                Behind, Beyond
  <2>2. Gui \notin Counted /\ Gui \notin Counted'
    BY <1>2 DEF GuiEvent, OxineInit, Run, EventEnd, Stopped, Begin, Goto, On, Counted,
                Places, Direct
  <2> QED
    BY <2>1, <2>2, CountedMoves, GateSame
<1>3. CASE DisposeQueue
  <2>1. Counted' = Counted
    BY <1>3 DEF DisposeQueue, Counted, On, Places
  <2> QED
    BY <1>3, <2>1, GateSame DEF DisposeQueue, Places, Behind, Beyond
<1>4. CASE Signal \/ UNCHANGED vars
  <2>1. Counted' = Counted /\ UNCHANGED <<gate, pc>>
    BY <1>4 DEF Signal, vars, control, Counted
  <2> QED
    BY <2>1, GateSame
<1>5. CASE \/ StopSlider \/ FreePanel \/ CloseGate \/ WaitGate \/ Close \/ DisposeStream
           \/ ForgetStream \/ ExitVideo \/ JoinRemotes \/ DeinitSession \/ FreeGui
  <2>1. /\ OnlyMoves(Gui) /\ UNCHANGED <<act, pending, extra>>
        /\ Gui \notin Counted /\ Gui \notin Counted'
    BY <1>5 DEF StopSlider, FreePanel, CloseGate, WaitGate, Close, DisposeStream,
       ForgetStream, ExitVideo, JoinRemotes, DeinitSession, FreeGui, Step, On, Goto, OnlyMoves,
       Places, Counted, gate
  <2>2. Counted' = Counted
    BY <2>1, CountedMoves
  <2>3. CASE CloseGate
    <3>1. reject' = TRUE /\ asleep' = (pending > 0) /\ pending' = pending
      BY <2>3 DEF CloseGate
    <3>2. pc'[Gui] \notin Beyond
      BY <2>3 DEF CloseGate, Step, Goto, Places, Beyond
    <3>3. pending > 0 \/ pending <= 0
      BY DEF Numbers
    <3>4. PendingCounts'
      BY <2>1, <2>2 DEF GateWorks, PendingCounts
    <3> QED
      BY <3>1, <3>2, <3>3, <3>4 DEF GateWorks
  <2>4. CASE WaitGate
    BY <2>1, <2>2, <2>4 DEF WaitGate, Step, Goto, On, GateWorks, PendingCounts, Places,
                            Behind, gate
  <2>5. CASE StopSlider \/ FreePanel
    BY <2>1, <2>2, <2>5, GateSame DEF StopSlider, FreePanel, Step, Goto, Places, Behind, Beyond
  <2>6. CASE \/ Close \/ DisposeStream \/ ForgetStream \/ ExitVideo \/ JoinRemotes
             \/ DeinitSession \/ FreeGui
    <3>1. pc[Gui] \in Beyond /\ UNCHANGED gate
      BY <2>6 DEF Close, DisposeStream, ForgetStream, ExitVideo, JoinRemotes, DeinitSession,
                  FreeGui, Step, On, Beyond
    <3> QED
      BY <2>2, <3>1 DEF GateWorks, PendingCounts, gate, Behind
  <2> QED
    BY <1>5, <2>3, <2>4, <2>5, <2>6
<1> QED
  BY <1>1, <1>2, <1>3, <1>4, <1>5 DEF Next, Ending, ThreadStep

-----------------------------------------------------------------------------
(***************************************************************************)
(* The menu                                                                *)
(***************************************************************************)
LEMMA InMenuSubset == InMenu \subseteq Threads
BY DEF InMenu

LEMMA MenuSame ==
  ASSUME MenuCounts, InMenu' = InMenu, UNCHANGED menu,
         pc'[Gui] = "oxine" => pc[Gui] = "oxine",
         \A u \in Threads : pc'[u] \in {"exitWait", "exitStop"} => pc'[u] = pc[u]
  PROVE  MenuCounts'
BY DEF MenuCounts, menu

LEMMA MenuStep ==
  ASSUME Places, Numbers, Flags, MenuCounts, [Next]_vars
  PROVE  MenuCounts'
<1> USE Distinct
<1>1. ASSUME NEW t \in Threads, ThreadStep(t) PROVE MenuCounts'
  <2>1. /\ OnlyMoves(t) /\ pc' = [pc EXCEPT ![t] = pc'[t]]
        /\ pc'[Gui] = "oxine" <=> pc[Gui] = "oxine"
    BY <1>1, CallMoves DEF Places
  <2>2. Cardinality(InMenu) \in Nat /\ (Cardinality(InMenu) = 0 <=> InMenu = {})
    BY CountOf, InMenuSubset
  <2>3. CASE Get(t) /\ instance
    <3>1. t \notin InMenu /\ t \in InMenu' /\ pc'[t] = "menu"
      BY <2>3 DEF Get, InMenu, Places, On, Goto
    <3>2. Cardinality(InMenu') = Cardinality(InMenu) + 1
      BY <2>1, <3>1, InMenuMoves, CountOneMore, InMenuSubset
    <3>3. locks' = locks + 1 /\ instance' = instance
      BY <2>3 DEF Get
    <3> QED
      BY <2>1, <2>2, <2>3, <3>1, <3>2, <3>3 DEF MenuCounts, Numbers, OnlyMoves
  <2>4. CASE Unget(t) \/ (Menu(t) /\ pc'[t] = "exit")
    <3>1. t \in InMenu /\ t \notin InMenu' /\ pc'[t] \notin {"exitWait", "exitStop"}
      BY <2>4 DEF Unget, Menu, InMenu, Places, On, Goto
    <3>2. Cardinality(InMenu') = Cardinality(InMenu) - 1
      BY <2>1, <3>1, InMenuMoves, CountOneLess, InMenuSubset
    <3>3. locks' \in {locks, locks - 1} /\ instance' = instance /\ locks \in Int
      BY <2>4 DEF Unget, Menu, menu, Numbers
    <3>4. pc[Gui] # "oxine"
      BY <2>2, <3>1 DEF MenuCounts
    <3> QED
      BY <2>1, <2>2, <3>1, <3>2, <3>3, <3>4 DEF MenuCounts, OnlyMoves
  <2>5. CASE Exit(t) /\ instance
    <3>1. t \notin InMenu /\ t \notin InMenu' /\ pc'[t] = "exitWait"
      BY <2>5 DEF Exit, InMenu, Places, On, Goto
    <3>2. InMenu' = InMenu
      BY <2>1, <3>1, InMenuMoves
    <3>3. locks' = locks - 1 /\ instance' = FALSE
      BY <2>5 DEF Exit
    <3> QED
      BY <2>1, <2>2, <2>5, <3>1, <3>2, <3>3 DEF MenuCounts, Numbers, OnlyMoves
  <2>6. CASE ExitWait(t)
    <3>1. t \notin InMenu /\ t \notin InMenu' /\ pc[t] = "exitWait" /\ pc'[t] = "exitStop"
      BY <2>6 DEF ExitWait, InMenu, Places, On, Goto
    <3>2. InMenu' = InMenu
      BY <2>1, <3>1, InMenuMoves
    <3>3. UNCHANGED menu /\ locks <= 0
      BY <2>6 DEF ExitWait
    <3>4. InMenu = {}
      BY <2>2, <3>3 DEF MenuCounts, Numbers, Flags
    <3> QED
      BY <2>1, <3>1, <3>2, <3>3, <3>4 DEF MenuCounts, OnlyMoves, menu
  <2>7. CASE /\ ~(Get(t) /\ instance) /\ ~Unget(t) /\ ~(Menu(t) /\ pc'[t] = "exit")
             /\ ~(Exit(t) /\ instance) /\ ~ExitWait(t)
    <3>1. /\ UNCHANGED menu /\ (t \in InMenu <=> t \in InMenu')
          /\ pc'[t] \in {"exitWait", "exitStop"} => pc'[t] = pc[t]
      <4> USE DEF InMenu, Places, Return, On, Goto, Begin, menu
      <4>1. CASE Peek(t) \/ Enter(t) \/ Get(t) \/ Menu(t) \/ MenuWindow(t)
        BY <2>7, <4>1 DEF Peek, Enter, Todo, Get, Menu, MenuWindow
      <4>2. CASE Body(t) \/ Work(t) \/ Quit(t) \/ Leave(t)
        BY <4>2 DEF Body, Work, After, Quit, Leave
      <4>3. CASE Exit(t) \/ ExitStop(t)
        BY <2>7, <4>3 DEF Exit, ExitStop, After
      <4>4. CASE Test(t) \/ Paint(t) \/ Painting(t) \/ Poll(t) \/ Polling(t)
        BY <4>4 DEF Test, Paint, Painting, Poll, Polling
      <4>5. CASE Serve(t) \/ SliderLoop(t) \/ Select(t)
        BY <4>5 DEF Serve, SliderLoop, Select
      <4> QED
        BY <1>1, <2>7, <4>1, <4>2, <4>3, <4>4, <4>5 DEF ThreadStep, InCall
    <3> QED
      BY <2>1, <3>1, InMenuMoves, MenuSame DEF OnlyMoves
  <2> QED
    BY <2>3, <2>4, <2>5, <2>6, <2>7
<1>2. CASE OxineInit
  <2>1. InMenu = {} /\ InMenu' = InMenu
    <3>1. Cardinality(InMenu) <= 0
      BY <1>2, CountOf, InMenuSubset DEF OxineInit, MenuCounts, On
    <3>2. OnlyMoves(Gui) /\ Gui \notin InMenu /\ Gui \notin InMenu'
      BY <1>2 DEF OxineInit, OnlyMoves, On, Goto, Places, InMenu
    <3> QED
      BY <3>1, <3>2, CountOf, InMenuSubset, InMenuMoves
  <2>2. Cardinality(InMenu') = 0
    BY <2>1, FS_EmptySet
  <2> QED
    BY <1>2, <2>1, <2>2 DEF OxineInit, MenuCounts, On, Goto, Places
<1>3. CASE GuiEvent \/ Run \/ EventEnd \/ Stopped
  <2>1. /\ OnlyMoves(Gui) /\ UNCHANGED menu /\ Gui \notin InMenu /\ Gui \notin InMenu'
        /\ pc'[Gui] \notin {"oxine", "exitWait", "exitStop"}
    BY <1>3 DEF GuiEvent, Run, EventEnd, Stopped, Begin, Goto, On, OnlyMoves, Places, InMenu
  <2> QED
    BY <2>1, InMenuMoves, MenuSame DEF OnlyMoves
<1>4. CASE DisposeQueue
  <2>1. InMenu' = InMenu
    BY <1>4 DEF DisposeQueue, InMenu, On, Places
  <2> QED
    BY <1>4, <2>1, MenuSame DEF DisposeQueue, Places
<1>5. CASE Signal \/ UNCHANGED vars
  <2>1. InMenu' = InMenu /\ UNCHANGED <<menu, pc>>
    BY <1>5 DEF Signal, vars, control, InMenu
  <2> QED
    BY <2>1, MenuSame
<1>6. CASE \/ StopSlider \/ FreePanel \/ CloseGate \/ WaitGate \/ Close \/ DisposeStream
           \/ ForgetStream \/ ExitVideo \/ JoinRemotes \/ DeinitSession \/ FreeGui
  <2>1. /\ OnlyMoves(Gui) /\ UNCHANGED menu /\ Gui \notin InMenu /\ Gui \notin InMenu'
        /\ pc'[Gui] \notin {"oxine", "exitWait", "exitStop"}
    BY <1>6 DEF StopSlider, FreePanel, CloseGate, WaitGate, Close, DisposeStream,
       ForgetStream, ExitVideo, JoinRemotes, DeinitSession, FreeGui, Step, On, Goto, OnlyMoves,
       Places, InMenu
  <2> QED
    BY <2>1, InMenuMoves, MenuSame DEF OnlyMoves
<1> QED
  BY <1>1, <1>2, <1>3, <1>4, <1>5, <1>6 DEF Next, Ending, ThreadStep

-----------------------------------------------------------------------------
(***************************************************************************)
(* The order of taking down                                                *)
(***************************************************************************)
\* What a thread that moves finds alive.
LEMMA StillAlive ==
  ASSUME Places, InOrder, NEW t \in Threads, ThreadStep(t)
  PROVE  /\ t \notin Remotes \cup {Session} => alive = Object
         /\ t \in Remotes => {"kbindings", "gui"} \subseteq alive
<1>1. pc[t] \notin NoListener /\ pc[t] # "dead"
  BY CallMoves
<1>2. t \in {Gui, Listener, Slider, Session} \cup Remotes
  BY ShutdownAssumption DEF Remotes
<1>3. CASE t \in {Gui, Listener, Slider}
  <2>1. pc[Gui] \notin NoPanel
    BY <1>1, <1>3 DEF InOrder, NoPanel, NoListener
  <2> QED
    BY <1>3, <2>1, Distinct DEF InOrder
<1>4. CASE t \in Remotes
  BY <1>1, <1>4, Distinct DEF InOrder
<1> QED
  BY <1>2, <1>3, <1>4

LEMMA InOrderStep ==
  ASSUME Places, InOrder, [Next]_vars
  PROVE  InOrder'
<1> USE Distinct DEF InOrder, Object
<1>1. ASSUME NEW t \in Threads, ThreadStep(t) PROVE InOrder'
  <2>1. /\ \A u \in Threads \ {t} : pc'[u] = pc[u]
        /\ pc[t] \notin NoListener \cup {"dead"} /\ pc'[t] \notin NoListener
    BY <1>1, CallMoves DEF OnlyMoves
  <2>2. alive' = alive
    BY <1>1 DEF ThreadStep, InCall, Peek, Enter, Get, Menu, MenuWindow, Unget, Body, Work,
       Quit, Leave, Exit, ExitWait, ExitStop, Test, Paint, Painting, Poll, Polling, Serve,
       SliderLoop, Select, heap
  <2>3. CASE t = Gui
    BY <2>1, <2>2, <2>3 DEF NoPanel, NoListener, Behind, Beyond
  <2>4. CASE t # Gui
    BY <2>1, <2>2, <2>4 DEF Remotes
  <2> QED
    BY <2>3, <2>4
<1>2. CASE GuiEvent \/ OxineInit \/ Run \/ EventEnd \/ Stopped
  <2>1. /\ \A u \in Threads \ {Gui} : pc'[u] = pc[u]
        /\ pc[Gui] \notin NoListener /\ pc'[Gui] \notin NoListener /\ alive' = alive
    BY <1>2 DEF GuiEvent, OxineInit, Run, EventEnd, Stopped, Begin, Goto, On, Places, heap,
                NoListener, Behind, Beyond
  <2> QED
    BY <2>1 DEF NoPanel, NoListener, Behind, Beyond
<1>3. CASE DisposeQueue
  BY <1>3 DEF DisposeQueue, On, Places, heap, NoListener, NoPanel, Behind, Beyond, Remotes
<1>4. CASE Signal \/ UNCHANGED vars
  BY <1>4 DEF Signal, vars, control, heap
<1>5. CASE StopSlider \/ FreePanel \/ CloseGate \/ WaitGate \/ Close
  BY <1>5 DEF StopSlider, FreePanel, CloseGate, WaitGate, Close, Step, On, Goto, Places, heap,
     Freed, NoListener, NoPanel, Behind, Beyond, Remotes
<1>6. CASE \/ DisposeStream \/ ForgetStream \/ ExitVideo \/ JoinRemotes
           \/ DeinitSession \/ FreeGui
  BY <1>6 DEF DisposeStream, ForgetStream, ExitVideo, JoinRemotes, DeinitSession, FreeGui,
     Step, On, Goto, Places, heap, Freed, NoListener, NoPanel, Behind, Beyond, Remotes
<1> QED
  BY <1>1, <1>2, <1>3, <1>4, <1>5, <1>6 DEF Next, Ending, ThreadStep

LEMMA JoinedStep ==
  ASSUME Places, Things, InOrder, JoinedBeforeFreed, [Next]_vars
  PROVE  JoinedBeforeFreed'
<1>1. ASSUME NEW t \in Threads, ThreadStep(t) PROVE JoinedBeforeFreed'
  <2>1. /\ t \notin Remotes \cup {Session} => alive = Object
        /\ t \in Remotes => {"kbindings", "gui"} \subseteq alive
    BY <1>1, StillAlive
  <2>2. CASE Work(t) \/ Painting(t) \/ Polling(t)
    <3>1. bad' = bad \cup {<<t, o>> : o \in holds[t] \ alive}
      BY <2>2 DEF Work, Painting, Polling, Used
    <3> QED
      BY <2>1, <3>1 DEF JoinedBeforeFreed, Things, Object
  <2>3. CASE ExitStop(t)
    BY <2>1, <2>3 DEF ExitStop, JoinedBeforeFreed, Object
  <2>4. CASE Test(t)
    BY <2>1, <2>4 DEF Test, JoinedBeforeFreed
  <2>5. CASE Select(t)
    <3>1. bad' = bad \/ bad' = bad \cup {<<t, o>> : o \in {"kbindings"} \ alive}
      BY <2>5 DEF Select
    <3> QED
      BY <2>1, <2>5, <3>1 DEF Select, JoinedBeforeFreed
  <2>6. CASE \/ Peek(t) \/ Enter(t) \/ Get(t) \/ Menu(t) \/ MenuWindow(t) \/ Unget(t)
             \/ Body(t) \/ Quit(t) \/ Leave(t) \/ Exit(t) \/ ExitWait(t) \/ Paint(t) \/ Poll(t)
             \/ Serve(t) \/ SliderLoop(t)
    BY <2>6 DEF Peek, Enter, Get, Menu, MenuWindow, Unget, Body, Quit, Leave, Exit, ExitWait,
       Paint, Poll, Serve, SliderLoop, past, JoinedBeforeFreed
  <2> QED
    BY <1>1, <2>2, <2>3, <2>4, <2>5, <2>6 DEF ThreadStep, InCall
<1>2. CASE GuiEvent \/ Signal \/ Ending \/ UNCHANGED vars
  <2>1. bad' = bad
    BY <1>2 DEF GuiEvent, Signal, Ending, OxineInit, Run, EventEnd, Stopped, DisposeQueue,
       StopSlider, FreePanel, CloseGate, WaitGate, Close, DisposeStream, ForgetStream,
       ExitVideo, JoinRemotes, DeinitSession, FreeGui, past, vars
  <2> QED
    BY <2>1 DEF JoinedBeforeFreed
<1> QED
  BY <1>1, <1>2 DEF Next, ThreadStep

-----------------------------------------------------------------------------
(***************************************************************************)
(* How often the program was told to end                                   *)
(***************************************************************************)
\* Of a call, only the last steps of gui_exit say anything.
LEMMA ToldSame ==
  ASSUME Told, NEW t \in Threads, OnlyMoves(t), UNCHANGED <<instance, looping, onQuit, asked, crashed>>,
         pc'[Gui] \in {"oxine", "run"} <=> pc[Gui] \in {"oxine", "run"},
         pc'[Gui] = "oxine" <=> pc[Gui] = "oxine",
         ret'[Gui] = ret[Gui],
         pc[Gui] \in {"exitWait", "exitStop"} => pc'[Gui] \in {"exitWait", "exitStop"},
         pc'[Gui] = "exit" => pc[Gui] = "exit" \/ ret[Gui] # "queue"
  PROVE  Told'
BY DEF Told, OneExitIsSafe

LEMMA ToldStep ==
  ASSUME Places, Numbers, Flags, MenuCounts, Told, [Next]_vars
  PROVE  Told'
<1> USE Distinct
<1>1. ASSUME NEW t \in Threads, ThreadStep(t), ~crashed PROVE Told'
  <2>1. /\ OnlyMoves(t)
        /\ pc'[Gui] \in {"oxine", "run"} <=> pc[Gui] \in {"oxine", "run"}
        /\ pc'[Gui] = "oxine" <=> pc[Gui] = "oxine"
    BY <1>1, CallMoves DEF OnlyMoves
  <2>2. CASE Exit(t)
    <3>1. asked \in Nat /\ asked' = asked + (IF ret[t] = "queue" THEN 0 ELSE 1)
      BY <2>2 DEF Exit, Numbers
    <3>2. /\ UNCHANGED <<looping, onQuit, ret>> /\ pc[t] = "exit"
          /\ ret[t] = "queue" => t = Gui
      BY <2>2 DEF Exit, flags, Places, On
    <3>3. ret[t] # "queue" => asked' = asked + 1
      BY <3>1
    <3>4. ret[t] = "queue" => asked' = asked
      BY <3>1
    <3>5. CASE instance
      <4>1. instance' = FALSE /\ pc' = [pc EXCEPT ![t] = "exitWait"] /\ crashed' = crashed
        BY <2>2, <3>5 DEF Exit, Goto
      <4> QED
        BY <1>1, <2>1, <3>1, <3>2, <3>3, <3>4, <3>5, <4>1 DEF Told, OneExitIsSafe, Places
    <3>6. CASE ~instance
      <4>1. UNCHANGED <<instance, pc>>
        BY <2>2, <3>6 DEF Exit, menu
      <4> QED
        BY <1>1, <2>1, <3>1, <3>2, <3>3, <3>4, <3>6, <4>1 DEF Told, OneExitIsSafe, Places
    <3> QED
      BY <3>5, <3>6
  <2>3. CASE ExitStop(t)
    <3>1. ~instance /\ pc[Gui] # "oxine"
      BY <2>3 DEF ExitStop, MenuCounts, On
    <3>2. /\ onQuit' = TRUE /\ UNCHANGED <<instance, asked, crashed, ret>>
          /\ pc'[t] \in {ret[t], "leave"}
      BY <2>3 DEF ExitStop, menu, After, Goto, Places
    <3> QED
      BY <1>1, <2>1, <3>1, <3>2 DEF Told, OneExitIsSafe, Places, Return, OnlyMoves
  <2>4. CASE ~Exit(t) /\ ~ExitStop(t)
    <3>1. /\ UNCHANGED <<instance, looping, onQuit, asked, crashed>>
      BY <1>1, <2>4 DEF ThreadStep, InCall, Peek, Enter, Get, Menu, MenuWindow, Unget, Body, Work,
         Quit, Leave, ExitWait, Test, Paint, Painting, Poll, Polling, Serve, SliderLoop, Select,
         flags, menu, past
    <3>2. ret'[Gui] = ret[Gui]
      BY <1>1, <2>4 DEF ThreadStep, InCall, Peek, Enter, Get, Menu, MenuWindow, Unget, Body, Work,
         Quit, Leave, ExitWait, Test, Paint, Painting, Poll, Polling, Serve, SliderLoop, Select,
         Begin, Places
    <3>3. pc[Gui] \in {"exitWait", "exitStop"} => pc'[Gui] \in {"exitWait", "exitStop"}
      <4>1. ASSUME t = Gui, pc[Gui] \in {"exitWait", "exitStop"}
            PROVE  pc'[Gui] \in {"exitWait", "exitStop"}
        BY <1>1, <2>4, <4>1 DEF ThreadStep, InCall, Peek, Enter, Get, Menu, MenuWindow, Unget, Body,
           Work, Quit, Leave, ExitWait, Test, Paint, Painting, Poll, Polling, Serve, SliderLoop,
           Select, On, Goto, Places
      <4> QED
        BY <2>1, <4>1 DEF OnlyMoves
    <3>4. pc'[Gui] = "exit" => pc[Gui] = "exit" \/ ret[Gui] # "queue"
      <4> SUFFICES ASSUME t = Gui, pc'[Gui] = "exit", ret[Gui] = "queue"
                   PROVE  FALSE
        BY <2>1 DEF OnlyMoves
      <4>1. act[Gui] = "close" /\ pc[Gui] \notin InAction \cup {"peek", "enter"}
        BY DEF Places, Direct
      <4>2. CASE Body(t) \/ Work(t)
        BY <4>1, <4>2 DEF Body, Work, After, Goto, Places, Direct, Return
      <4>3. CASE ExitWait(t) \/ Test(t) \/ Paint(t) \/ Painting(t) \/ Poll(t) \/ Polling(t)
        BY <4>1, <4>3 DEF ExitWait, Test, Paint, Painting, Poll, Polling, Goto, Places
      <4>4. CASE Serve(t) \/ SliderLoop(t) \/ Select(t)
        BY <4>4 DEF Serve, SliderLoop, Select
      <4> QED
        BY <1>1, <2>4, <4>1, <4>2, <4>3, <4>4 DEF ThreadStep, InCall, Peek, Enter, Get, Menu,
           MenuWindow, Unget, Quit, Leave, On, InAction
    <3> QED
      BY <2>1, <3>1, <3>2, <3>3, <3>4, ToldSame
  <2> QED
    BY <2>2, <2>3, <2>4
<1>2. CASE (OxineInit \/ Run \/ EventEnd) /\ ~crashed
  BY <1>2 DEF OxineInit, Run, EventEnd, On, Goto, Places, menu, flags, past, Told, OneExitIsSafe
<1>3. CASE GuiEvent /\ ~crashed
  BY <1>3 DEF GuiEvent, On, Begin, Places, menu, flags, past, Told, OneExitIsSafe
<1>4. CASE Signal /\ ~crashed
  BY <1>4 DEF Signal, control, menu, Told, OneExitIsSafe, Numbers
<1>5. CASE Stopped /\ ~crashed
  BY <1>5 DEF Stopped, On, Goto, Begin, Places, menu, flags, past, Told, OneExitIsSafe
<1>6. CASE DisposeQueue
  BY <1>6 DEF DisposeQueue, On, Places, menu, flags, past, Told, OneExitIsSafe
<1>7. CASE StopSlider \/ FreePanel \/ CloseGate \/ WaitGate \/ Close
  BY <1>7 DEF StopSlider, FreePanel, CloseGate, WaitGate, Close, Step, On, Goto, Places, menu,
     flags, past, Told, OneExitIsSafe
<1>8. CASE \/ DisposeStream \/ ForgetStream \/ ExitVideo \/ JoinRemotes
           \/ DeinitSession \/ FreeGui
  BY <1>8 DEF DisposeStream, ForgetStream, ExitVideo, JoinRemotes, DeinitSession, FreeGui,
     Step, On, Goto, Places, menu, flags, past, Told, OneExitIsSafe
<1>9. CASE UNCHANGED vars
  BY <1>9 DEF vars, control, menu, flags, past, Told, OneExitIsSafe
<1> QED
  BY <1>1, <1>2, <1>3, <1>4, <1>5, <1>6, <1>7, <1>8, <1>9 DEF Next, Ending, ThreadStep

-----------------------------------------------------------------------------
LEMMA InitHolds == Init => IInv
<1> SUFFICES ASSUME Init PROVE IInv
  OBVIOUS
<1> USE Distinct, ShutdownAssumption DEF Init
<1>1. Places
  BY DEF Places, Pc, Return, Kind, Direct
<1>2. Values
  <2>1. Numbers
    BY DEF Numbers
  <2>2. Flags
    BY DEF Flags
  <2>3. Things
    BY DEF Things, Object
  <2> QED
    BY <2>1, <2>2, <2>3 DEF Values
<1>3. \A t \in Threads : pc[t] \in {"oxine", "test", "loop"}
  OBVIOUS
<1>4. pc[Gui] = "oxine"
  OBVIOUS
<1>5. Counted = {} /\ InMenu = {}
  BY <1>3 DEF Counted, InMenu
<1>6. Cardinality(Counted) = 0 /\ Cardinality(InMenu) = 0
  BY <1>5, FS_EmptySet
<1>7. GateWorks
  BY <1>4, <1>6 DEF GateWorks, PendingCounts, Behind, Beyond
<1>8. MenuCounts
  BY <1>3, <1>5, <1>6 DEF MenuCounts
<1>9. InOrder /\ JoinedBeforeFreed
  BY <1>4 DEF InOrder, JoinedBeforeFreed, NoListener, NoPanel, Behind, Beyond, Object
<1>10. Told
  BY <1>4 DEF Told, OneExitIsSafe
<1> QED
  BY <1>1, <1>2, <1>7, <1>8, <1>9, <1>10 DEF IInv

(***************************************************************************)
(* The inductive invariant.                                                *)
(***************************************************************************)
THEOREM Inductive == Spec => []IInv
<1>1. IInv /\ [Next]_vars => IInv'
  BY PlacesStep, NumbersStep, FlagsStep, ThingsStep, GateStep, MenuStep, InOrderStep,
     JoinedStep, ToldStep DEF IInv, Values
<1> QED
  BY InitHolds, <1>1, PTL DEF Spec

(***************************************************************************)
(* The types: among them, event_pending is the number of threads in an     *)
(* action less that of ACTID_QUIT executed, and the menu is never released *)
(* more often than it was taken.                                           *)
(***************************************************************************)
THEOREM TypeCorrect == Spec => []TypeOK
<1>1. IInv => TypeOK
  <2> SUFFICES ASSUME IInv PROVE TypeOK
    OBVIOUS
  <2>1. locks \in Nat
    BY CountOf, InMenuSubset DEF IInv, Values, Numbers, Flags, MenuCounts
  <2>2. holds \in [Threads -> SUBSET Object]
    BY DEF IInv, Values, Things, Object
  <2> QED
    BY <2>1, <2>2 DEF IInv, Values, Places, Numbers, Flags, Things, GateWorks, TypeOK
<1> QED
  BY Inductive, <1>1, PTL

(***************************************************************************)
(* Once gui_deinit is over no more actions are under way than ACTID_QUIT   *)
(* was executed, and oxine_exit destroys the menu when no thread is in it. *)
(***************************************************************************)
THEOREM NobodyIsLeftInside == Spec => []NobodyLeftInside
<1>1. IInv => NobodyLeftInside
  <2> SUFFICES ASSUME IInv PROVE NobodyLeftInside
    OBVIOUS
  <2>1. MenuKept
    BY DEF IInv, MenuCounts, MenuKept, On
  <2>2. ASSUME pc[Gui] \in Beyond PROVE Cardinality(Counted) <= extra
    <3>1. pending <= 0 /\ pending = Cardinality(Counted) - extra
      BY <2>2 DEF IInv, GateWorks, PendingCounts, Behind
    <3> QED
      BY <3>1, CountOf, CountedSubset DEF IInv, Values, Numbers
  <2> QED
    BY <2>1, <2>2 DEF NobodyLeftInside, GateHolds
<1> QED
  BY Inductive, <1>1, PTL

(***************************************************************************)
(* gui_exit_2 frees what a thread uses after it has joined the thread: the *)
(* listener, the slider and the GUI thread use nothing freed, the remote   *)
(* controls neither the key bindings nor gui.                              *)
(***************************************************************************)
THEOREM JoinedFirst == Spec => []JoinedBeforeFreed
BY Inductive, PTL DEF IInv

(***************************************************************************)
(* gui_exit destroys a menu that is not there only when the program was    *)
(* told twice to end, or before oxine_init.                                *)
(***************************************************************************)
THEOREM OneExitSafe == Spec => []OneExitIsSafe
<1>1. IInv => OneExitIsSafe
  BY DEF IInv, Told
<1> QED
  BY Inductive, <1>1, PTL
=============================================================================
