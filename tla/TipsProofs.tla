----------------------------- MODULE TipsProofs -----------------------------
(***************************************************************************)
(* What holds of the tips for any widgets, threads and number of calls.    *)
(***************************************************************************)
EXTENDS Tips, FiniteSetTheorems, TLAPS

-----------------------------------------------------------------------------
(***************************************************************************)
(* num_waiters is the number of callers that wait.  A caller enters the    *)
(* set or leaves it with one step of its own.                              *)
(***************************************************************************)
Pc == {"idle", "event", "ask", "wait", "done", "join", "joined"}

LEMMA FiniteWaiting == IsFiniteSet(Waiting) /\ Cardinality(Waiting) \in Nat
<1>1. IsFiniteSet(Caller)
  BY TipsAssumption, FS_AddElement DEF Caller
<1> QED
  BY <1>1, FS_Subset, FS_CardinalityType DEF Waiting

LEMMA SameWaiting ==
  ASSUME NEW c \in Caller, NEW p, pc \in [Caller -> Pc], Goto(c, p),
         p # "wait", ~At(c, "wait")
  PROVE  Waiting' = Waiting
BY DEF Waiting, Goto, At

LEMMA OneMoreWaits ==
  ASSUME NEW c \in Caller, pc \in [Caller -> Pc], Goto(c, "wait"), ~At(c, "wait")
  PROVE  Cardinality(Waiting') = Cardinality(Waiting) + 1
<1>1. Waiting' = Waiting \cup {c} /\ c \notin Waiting
  BY DEF Waiting, Goto, At
<1> QED
  BY <1>1, FiniteWaiting, FS_AddElement

LEMMA OneLessWaits ==
  ASSUME NEW c \in Caller, NEW p, pc \in [Caller -> Pc], Goto(c, p),
         p # "wait", At(c, "wait")
  PROVE  Cardinality(Waiting') = Cardinality(Waiting) - 1
<1>1. Waiting' = Waiting \ {c} /\ c \in Waiting
  BY DEF Waiting, Goto, At
<1> QED
  BY <1>1, FiniteWaiting, FS_RemoveElement

LEMMA SomeoneWaits ==
  ASSUME NEW c \in Caller, At(c, "wait")
  PROVE  Cardinality(Waiting) > 0
<1>1. Waiting # {}
  BY DEF Waiting
<1> QED
  BY <1>1, FiniteWaiting, FS_EmptySet

-----------------------------------------------------------------------------
(***************************************************************************)
(* The variables have their types, and num_waiters counts the callers that *)
(* wait.                                                                   *)
(***************************************************************************)
THEOREM TypeCorrect == Spec => []TypeOK
<1>1. Init => TypeOK
  <2> SUFFICES ASSUME Init PROVE TypeOK
    OBVIOUS
  <2>1. Waiting = {}
    BY DEF Init, Waiting, At
  <2>2. waiters = Cardinality(Waiting)
    BY <2>1, FS_EmptySet DEF Init
  <2> QED
    <3>1. pc \in [Caller -> Pc] /\ about \in [Caller -> Widget \cup {None}]
          /\ dying \in [Caller -> Widget \cup {None}]
      BY DEF Init, Pc
    <3>2. left \in 0 .. MaxCalls
      BY TipsAssumption DEF Init
    <3> QED
      BY <2>2, <3>1, <3>2 DEF Init, TypeOK, Phase, Pc
<1>2. TypeOK /\ [Next]_vars => TypeOK'
  <2> SUFFICES ASSUME TypeOK, [Next]_vars PROVE TypeOK'
    OBVIOUS
  <2> USE TipsAssumption DEF Pc
  <2>t. pc \in [Caller -> Pc]
    BY DEF TypeOK, Pc
  <2>w. waiters = Cardinality(Waiting) /\ asleep \subseteq Waiting
    BY DEF TypeOK
  <2>g. Gui \in Caller
    BY DEF Caller
  <2> DEFINE Rest == /\ widget' \in Tipped \cup {None} /\ newWidget' \in Tipped \cup {None, Quit}
                     /\ state' \in Phase /\ phase' \in Phase /\ fresh' \in BOOLEAN
                     /\ loop' \in {"sleep", "run", "map", "mapped", "gone"}
                     /\ window' \in {"none", "made", "visible"}
                     /\ pc' \in [Caller -> Pc]
                     /\ about' \in [Caller -> Widget \cup {None}]
                     /\ dying' \in [Caller -> Widget \cup {None}]
                     /\ xitk' \in {None, Gui} /\ under' \in Widget \cup {None}
                     /\ freed' \subseteq Widget /\ left' \in 0 .. MaxCalls
  <2>q. ASSUME Rest, waiters' = Cardinality(Waiting'), asleep' \subseteq Waiting'
        PROVE  TypeOK'
    BY <2>q DEF TypeOK
  <2>1. CASE TipsThread
    <3>1. Waiting' = Waiting /\ UNCHANGED <<waiters, pc>> /\ asleep' \subseteq asleep
      BY <2>1 DEF TipsThread, Round, Map, Mapped, RoundEnds, TakeWish, gui, shared, Waiting, At
    <3>2. Rest
      <4> USE DEF TypeOK, RoundEnds, gui, Phase
      <4>1. CASE Round
        BY <4>1 DEF Round, TakeWish
      <4>2. CASE Map \/ Mapped
        BY <4>2 DEF Map, Mapped, shared
      <4> QED
        BY <2>1, <4>1, <4>2 DEF TipsThread
    <3> QED
      BY <2>q, <2>w, <3>1, <3>2
  <2>2. ASSUME NEW c \in Caller, Ask(c) PROVE TypeOK'
    <3>1. Rest
      BY <2>2 DEF TypeOK, Ask, Goto, At, thread
    <3>2. CASE Goto(c, "wait")
      <4>1. waiters' = waiters + 1 /\ asleep' = asleep \cup {c}
        BY <2>2, <2>t, <3>2 DEF Ask, Goto
      <4>2. Waiting' = Waiting \cup {c}
        BY <2>t, <3>2 DEF Waiting, Goto, At
      <4> QED
        BY <2>2, <2>q, <2>t, <2>w, <3>1, <3>2, <4>1, <4>2, OneMoreWaits DEF Ask, At
    <3>3. CASE Goto(c, "done")
      <4>1. waiters' = waiters /\ asleep' = asleep
        BY <2>2, <2>t, <3>3 DEF Ask, Goto
      <4>2. Waiting' = Waiting
        BY <2>2, <2>t, <3>3, SameWaiting DEF Ask, At
      <4> QED
        BY <2>q, <2>w, <3>1, <4>1, <4>2
    <3> QED
      BY <2>2, <3>2, <3>3 DEF Ask
  <2>3. ASSUME NEW c \in Caller, Wake(c) PROVE TypeOK'
    <3>1. Rest
      BY <2>3 DEF TypeOK, Wake, Goto, At, thread
    <3>2. CASE state = "wait"
      <4>1. UNCHANGED <<waiters, pc>> /\ asleep' = asleep \cup {c}
        BY <2>3, <3>2 DEF Wake
      <4>2. Waiting' = Waiting /\ c \in Waiting
        BY <2>3, <4>1 DEF Waiting, At, Wake
      <4> QED
        BY <2>q, <2>w, <3>1, <4>1, <4>2
    <3>3. CASE state # "wait"
      <4>1. waiters' = waiters - 1 /\ asleep' = asleep /\ Goto(c, "done")
        BY <2>3, <3>3 DEF Wake
      <4>2. Waiting' = Waiting \ {c} /\ c \notin asleep
        BY <2>3, <2>t, <4>1 DEF Waiting, Goto, At, Wake
      <4> QED
        BY <2>3, <2>q, <2>t, <2>w, <3>1, <4>1, <4>2, OneLessWaits DEF Wake, At
    <3> QED
      BY <3>2, <3>3
  <2>4. ASSUME NEW c \in Caller, Done(c) PROVE TypeOK'
    <3>1. Rest
      BY <2>4 DEF TypeOK, Done, Goto, At, Back, shared, thread
    <3>2. UNCHANGED <<waiters, asleep>> /\ Waiting' = Waiting
      BY <2>4, <2>t, SameWaiting DEF Done, At, Back, shared
    <3> QED
      BY <2>q, <2>w, <3>1, <3>2
  <2>5. ASSUME NEW c \in Caller, UpdateTips(c) PROVE TypeOK'
    <3>1. Rest
      BY <2>5 DEF TypeOK, UpdateTips, Call, Goto, At, shared, thread
    <3>2. UNCHANGED <<waiters, asleep>> /\ Waiting' = Waiting
      BY <2>5, <2>t, SameWaiting DEF UpdateTips, Call, At, shared
    <3> QED
      BY <2>q, <2>w, <3>1, <3>2
  <2>6. CASE BeginEvent \/ EndEvent \/ DeleteTips \/ Join
    <3>1. Rest
      BY <2>6 DEF TypeOK, BeginEvent, EndEvent, DeleteTips, Join, Goto, At, shared, thread
    <3>2. UNCHANGED <<waiters, asleep>> /\ Waiting' = Waiting
      BY <2>6, <2>g, <2>t, SameWaiting DEF BeginEvent, EndEvent, DeleteTips, Join, At, shared
    <3> QED
      BY <2>q, <2>w, <3>1, <3>2
  <2>7. CASE GuiCall
    <3>1. Rest
      BY <2>7, <2>g DEF TypeOK, GuiCall, Motion, HideTips, DeleteWidget, Call, Goto, At,
                        shared, thread
    <3>2. UNCHANGED <<waiters, asleep>> /\ Waiting' = Waiting
      <4>1. CASE UNCHANGED pc
        BY <2>7, <4>1 DEF GuiCall, Motion, HideTips, DeleteWidget, shared, Waiting, At
      <4>2. CASE Goto(Gui, "ask") /\ At(Gui, "event")
        BY <2>7, <2>g, <2>t, <4>2, SameWaiting
           DEF GuiCall, Motion, HideTips, DeleteWidget, shared, At
      <4> QED
        BY <2>7, <4>1, <4>2 DEF GuiCall, Motion, HideTips, DeleteWidget, Call
    <3> QED
      BY <2>q, <2>w, <3>1, <3>2
  <2>8. CASE UNCHANGED vars
    BY <2>8 DEF TypeOK, vars, shared, thread, gui, Waiting, At
  <2> QED
    BY <2>1, <2>2, <2>3, <2>4, <2>5, <2>6, <2>7, <2>8 DEF Next, Return
<1> QED
  BY <1>1, <1>2, PTL DEF Spec

-----------------------------------------------------------------------------
(***************************************************************************)
(* The inductive invariant behind the two properties of the window: it is  *)
(* there while it is being mapped and in the phases that show and hide it, *)
(* and no caller waits in a phase that puts it up or takes it down.        *)
(***************************************************************************)
WindowInPhase ==
  /\ state = phase
  /\ window # "none" => loop \in {"map", "mapped"} \/ phase \in {"wait", "hide"}
  /\ loop \in {"map", "mapped"} => phase = "show"
  /\ loop = "gone" => phase = "quit"
  /\ waiters > 0 => phase \notin {"show", "hide"}

LEMMA WindowStays ==
  ASSUME WindowInPhase, UNCHANGED <<state, phase, window, loop, waiters>>
  PROVE  WindowInPhase'
BY DEF WindowInPhase

LEMMA WindowFollows == Spec => []WindowInPhase
<1>1. Init => WindowInPhase
  BY DEF Init, WindowInPhase
<1>2. TypeOK /\ WindowInPhase /\ [Next]_vars => WindowInPhase'
  <2> SUFFICES ASSUME TypeOK, WindowInPhase, [Next]_vars PROVE WindowInPhase'
    OBVIOUS
  <2>w. waiters \in Nat
    BY FiniteWaiting DEF TypeOK
  <2>1. CASE Round
    <3> USE <2>1, <2>w DEF Round, Interrupted, Called, RoundEnds, WindowInPhase
    <3>1. UNCHANGED waiters
      OBVIOUS
    <3>2. CASE Interrupted(phase) \in {"idle", "hide"}
      <4>1. phase' \in {"idle", "delay", "quit"} /\ state' = phase'
        BY <3>2 DEF TakeWish
      <4>2. loop' = IF phase' = "quit" THEN "gone" ELSE "sleep"
        BY <3>2 DEF TakeWish
      <4>3. window' = "none"
        BY <3>2
      <4> QED
        BY <4>1, <4>2, <4>3
    <3>3. CASE Interrupted(phase) = "delay"
      BY <3>3
    <3>4. CASE Interrupted(phase) = "wait"
      BY <3>4
    <3>5. CASE Interrupted(phase) = "show"
      BY <3>5
    <3> QED
      BY <3>2, <3>3, <3>4, <3>5
  <2>2. CASE Map
    BY <2>2 DEF Map, WindowInPhase, shared
  <2>3. CASE Mapped
    BY <2>3 DEF Mapped, RoundEnds, WindowInPhase
  <2>4. ASSUME NEW c \in Caller, Ask(c) PROVE WindowInPhase'
    BY <2>4, <2>w DEF Ask, WindowInPhase, thread
  <2>5. ASSUME NEW c \in Caller, Wake(c) PROVE WindowInPhase'
    BY <2>5, <2>w DEF Wake, WindowInPhase, thread
  <2>6. ASSUME NEW c \in Caller, Done(c) \/ UpdateTips(c) PROVE WindowInPhase'
    BY <2>6, WindowStays DEF Done, UpdateTips, shared, thread
  <2>7. CASE BeginEvent \/ EndEvent \/ DeleteTips \/ Join
    BY <2>7, WindowStays DEF BeginEvent, EndEvent, DeleteTips, Join, shared, thread
  <2>8. CASE GuiCall
    BY <2>8, WindowStays DEF GuiCall, Motion, HideTips, DeleteWidget, shared, thread
  <2>9. CASE UNCHANGED vars
    BY <2>9, WindowStays DEF vars, shared, thread
  <2> QED
    BY <2>1, <2>2, <2>3, <2>4, <2>5, <2>6, <2>7, <2>8, <2>9 DEF Next, TipsThread, Return
<1> QED
  BY <1>1, <1>2, TypeCorrect, PTL DEF Spec

-----------------------------------------------------------------------------
(***************************************************************************)
(* The thread makes a window only when the one before is gone, and leaves  *)
(* none behind: a call that comes in while a tip is visible takes it down  *)
(* before the next wish is looked at.                                      *)
(***************************************************************************)
THEOREM OneWindowAtATime == Spec => []OneWindow
<1>1. WindowInPhase => OneWindow
  BY DEF WindowInPhase, OneWindow
<1> QED
  BY <1>1, WindowFollows, PTL

(***************************************************************************)
(* A caller that had to wait, with the xitk lock in its hands, goes on     *)
(* only when there is no tips window: as long as it is counted the thread  *)
(* cannot get to the phase that shows the next one.                        *)
(***************************************************************************)
THEOREM CallersSeeNoWindow == Spec => WaitsUntilHidden
<1> DEFINE Leaves == \A c \in Caller : At(c, "wait") /\ ~At(c, "wait")' => window = "none"
<1>1. TypeOK /\ WindowInPhase /\ [Next]_vars => [Leaves]_vars
  <2> SUFFICES ASSUME TypeOK, WindowInPhase, Next, NEW c \in Caller,
                      At(c, "wait"), ~At(c, "wait")'
               PROVE  window = "none"
    BY DEF Leaves
  <2>t. pc \in [Caller -> Pc] /\ Gui \in Caller
    BY DEF TypeOK, Pc, Caller
  <2>w. waiters > 0
    BY SomeoneWaits DEF TypeOK
  <2>1. ASSUME NEW d \in Caller, Wake(d) PROVE window = "none"
    BY <2>1, <2>t, <2>w DEF Wake, Goto, At, WindowInPhase
  <2>2. ASSUME NEW d \in Caller, NEW p, Goto(d, p), ~At(d, "wait") PROVE FALSE
    BY <2>2, <2>t DEF Goto, At
  <2>3. ~UNCHANGED pc
    BY DEF At
  <2>4. ASSUME NEW d \in Caller, Ask(d) \/ Done(d) \/ UpdateTips(d) PROVE FALSE
    BY <2>2, <2>4 DEF Ask, Done, UpdateTips, Call, At
  <2>5. CASE TipsThread
    BY <2>3, <2>5 DEF TipsThread, Round, Map, Mapped, gui
  <2>6. CASE BeginEvent \/ EndEvent \/ DeleteTips \/ Join
    BY <2>2, <2>6, <2>t DEF BeginEvent, EndEvent, DeleteTips, Join, At
  <2>7. CASE GuiCall
    BY <2>2, <2>3, <2>7, <2>t DEF GuiCall, Motion, HideTips, DeleteWidget, Call, At
  <2> QED
    BY <2>1, <2>4, <2>5, <2>6, <2>7 DEF Next, Return
<1> QED
  BY <1>1, TypeCorrect, WindowFollows, PTL DEF Spec, WaitsUntilHidden
=============================================================================
