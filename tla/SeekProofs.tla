----------------------------- MODULE SeekProofs -----------------------------
(***************************************************************************)
(* What holds of deferred seeking for any threads, positions and offsets.  *)
(***************************************************************************)
EXTENDS Seek, TLAPS

USE DEF NONE

-----------------------------------------------------------------------------
(***************************************************************************)
(* The variables have their types: in particular every pc is one the code  *)
(* has, and what is asked for is what a caller asked for, or nothing.      *)
(***************************************************************************)
THEOREM TypeCorrect == Spec => []TypeOK
<1>1. Init => TypeOK
  BY SeekAssumption DEF Init, TypeOK, Working, CallerPc, Kind
<1>2. TypeOK /\ [Next]_vars => TypeOK'
  <2> SUFFICES ASSUME TypeOK, [Next]_vars PROVE TypeOK'
    OBVIOUS
  <2> USE SeekAssumption DEF TypeOK, CallerPc, Working, request, engine, thread, Kind
  <2>1. ASSUME NEW c \in Caller, Call(c) PROVE TypeOK'
    <3>1. ASSUME NEW where \in Positions, SetPosition(c, where) PROVE TypeOK'
      BY <3>1 DEF SetPosition, Ask, Goto
    <3>2. ASSUME NEW by \in Offsets, SeekRelative(c, by) PROVE TypeOK'
      BY <3>2 DEF SeekRelative, Ask, Goto
    <3>3. CASE Stop(c)
      BY <3>3 DEF Stop, Goto
    <3> QED
      BY <2>1, <3>1, <3>2, <3>3 DEF Call
  <2>2. ASSUME NEW c \in Caller, Create(c) PROVE TypeOK'
    BY <2>2 DEF Create, CreateFails, CreateThread, Reset, Goto
  <2>3. ASSUME NEW c \in Caller, Stopping(c) PROVE TypeOK'
    BY <2>3 DEF Stopping, Halt, LogoBegin, Show, LogoEnd, Goto
  <2>4. ASSUME NEW s \in Seeker, Seek(s) PROVE TypeOK'
    <3>1. CASE Start(s)
      BY <3>1 DEF Start, OpenEntry, Step
    <3>2. CASE Check(s) \/ Reopen(s) \/ Claim(s)
      BY <3>2 DEF Check, Reopen, Claim, OpenEntry, Step
    <3>3. CASE Done(s) \/ TakePosition(s) \/ TakeOffset(s)
      BY <3>3 DEF Done, TakePosition, TakeOffset, Step
    <3>4. CASE Go(s) \/ Flag(s)
      BY <3>4 DEF Go, Flag, PlayFrom, Step
    <3>5. CASE Measure(s) \/ Move(s) \/ Moved(s)
      BY <3>5 DEF Measure, Move, Moved, PlayFrom, Step
    <3>6. CASE Leave(s) \/ GiveUp(s)
      BY <3>6 DEF Leave, GiveUp, Reset, Step
    <3> QED
      BY <2>4, <3>1, <3>2, <3>3, <3>4, <3>5, <3>6 DEF Seek
  <2>5. CASE StreamEnds
    BY <2>5 DEF StreamEnds
  <2>6. CASE UNCHANGED vars
    BY <2>6 DEF vars
  <2> QED
    BY <2>1, <2>2, <2>3, <2>4, <2>5, <2>6 DEF Next
<1> QED
  BY <1>1, <1>2, PTL DEF Spec

-----------------------------------------------------------------------------
(***************************************************************************)
(* When no seek is under way, none is left over: no step clears            *)
(* seek_running and leaves something in seek_pos or seek_timestep, and no  *)
(* step puts something there without setting it.                           *)
(***************************************************************************)
THEOREM NothingIsLeftOver == Spec => []NothingLeftOver
<1>1. Init => NothingLeftOver
  BY DEF Init, NothingLeftOver
<1>2. NothingLeftOver /\ [Next]_vars => NothingLeftOver'
  <2> SUFFICES ASSUME NothingLeftOver, [Next]_vars PROVE NothingLeftOver'
    OBVIOUS
  <2> USE DEF NothingLeftOver, request, thread
  <2>1. ASSUME NEW c \in Caller, Call(c) PROVE NothingLeftOver'
    BY <2>1 DEF Call, SetPosition, SeekRelative, Ask, Stop
  <2>2. ASSUME NEW c \in Caller, Create(c) \/ Stopping(c) PROVE NothingLeftOver'
    BY <2>2 DEF Create, CreateFails, CreateThread, Reset,
                Stopping, Halt, LogoBegin, Show, LogoEnd
  <2>3. ASSUME NEW s \in Seeker, Seek(s) PROVE NothingLeftOver'
    BY <2>3 DEF Seek, Start, Check, Reopen, Claim, Done, TakePosition, TakeOffset,
                Go, Flag, Measure, Move, Moved, Leave, GiveUp, Reset
  <2>4. CASE StreamEnds \/ UNCHANGED vars
    BY <2>4 DEF StreamEnds, vars
  <2> QED
    BY <2>1, <2>2, <2>3, <2>4 DEF Next
<1> QED
  BY <1>1, <1>2, PTL DEF Spec

-----------------------------------------------------------------------------
(***************************************************************************)
(* A step that neither starts nor ends the ownership of seek_running.      *)
(***************************************************************************)
LEMMA SameOwners ==
  ASSUME OneOwner, Owners' = Owners, running' = running
  PROVE  OneOwner'
BY DEF OneOwner

LEMMA SeekerWorksOn ==
  ASSUME NEW s \in Seeker, pc[s] \in Working, UNCHANGED caller,
         pc'[s] \in Working, \A r \in Seeker \ {s} : pc'[r] = pc[r]
  PROVE  Owners' = Owners
BY DEF Owners

(***************************************************************************)
(* What uniqueness says of a thread that owns seek_running, and of a time  *)
(* when nobody does.                                                       *)
(***************************************************************************)
LEMMA OwnerIsAlone ==
  ASSUME OneOwner, NEW x \in Owners
  PROVE  /\ running = 1
         /\ \A c \in Caller \ {x} : caller[c] # "create"
         /\ \A s \in Seeker \ {x} : pc[s] \notin Working
BY DEF OneOwner, Owners

LEMMA NobodyOwns ==
  ASSUME OneOwner, running # 1
  PROVE  /\ \A c \in Caller : caller[c] # "create"
         /\ \A s \in Seeker : pc[s] \notin Working
BY DEF OneOwner, Owners

(***************************************************************************)
(* The ownership ends with its owner, or goes over to another thread.      *)
(***************************************************************************)
LEMMA OwnerLeaves ==
  ASSUME \A c \in Caller : caller'[c] # "create",
         \A s \in Seeker : pc'[s] \notin Working, running' = 0
  PROVE  OneOwner'
BY DEF OneOwner, Owners

LEMMA OwnerAppears ==
  ASSUME NEW x, x \in Owners', running' = 1,
         \A c \in Caller \ {x} : caller'[c] # "create",
         \A s \in Seeker \ {x} : pc'[s] \notin Working
  PROVE  OneOwner'
BY DEF OneOwner, Owners

(***************************************************************************)
(* seek_running is set exactly while one thread owns it, however many      *)
(* threads call and however the old seek threads end.  OneOwner is         *)
(* inductive with TypeOK: the caller that sets the flag is the only owner, *)
(* it hands over to its thread, and that thread, being the only one, ends  *)
(* the ownership when it clears the flag.                                  *)
(***************************************************************************)
THEOREM SeekIsOwned == Spec => []OneOwner
<1>1. Init => OneOwner
  BY DEF Init, OneOwner, Owners, Working
<1>2. TypeOK /\ OneOwner /\ [Next]_vars => OneOwner'
  <2> SUFFICES ASSUME TypeOK, OneOwner, [Next]_vars PROVE OneOwner'
    OBVIOUS
  <2> USE DEF request, thread
  <2>t. /\ caller \in [Caller -> CallerPc]
        /\ pc \in [Seeker -> Working \cup {"unborn", "leave"}]
        /\ running \in 0 .. 1
    BY DEF TypeOK
  <2>1. ASSUME NEW c \in Caller, Call(c) PROVE OneOwner'
    <3>1. CASE Stop(c)
      <4>1. Owners' = Owners
        BY <3>1, <2>t DEF Stop, Goto, Owners
      <4> QED
        BY <3>1, <4>1, SameOwners DEF Stop
    <3>2. ASSUME NEW where, NEW by, Ask(c, where, by) PROVE OneOwner'
      <4>1. CASE running = 1
        <5>1. Owners' = Owners /\ running' = running
          BY <3>2, <4>1 DEF Ask, Owners
        <5> QED
          BY <5>1, SameOwners
      <4>2. CASE running # 1
        <5>1. caller' = [caller EXCEPT ![c] = "create"] /\ pc' = pc /\ running' = 1
          BY <3>2, <4>2, <2>t DEF Ask, Goto
        <5>2. c \in Owners'
          BY <5>1, <2>t DEF Owners
        <5>3. \A d \in Caller \ {c} : caller'[d] # "create"
          BY <5>1, <4>2, <2>t, NobodyOwns
        <5>4. \A s \in Seeker : pc'[s] \notin Working
          BY <5>1, <4>2, NobodyOwns
        <5> QED
          BY <5>1, <5>2, <5>3, <5>4, OwnerAppears
      <4> QED
        BY <4>1, <4>2
    <3> QED
      BY <2>1, <3>1, <3>2 DEF Call, SetPosition, SeekRelative
  <2>2. ASSUME NEW c \in Caller, CreateFails(c) PROVE OneOwner'
    <3>1. /\ c \in Owners
          /\ caller' = [caller EXCEPT ![c] = "idle"] /\ pc' = pc /\ running' = 0
      BY <2>2 DEF CreateFails, Goto, Reset, Owners
    <3>2. \A d \in Caller : caller'[d] # "create"
      BY <3>1, <2>t, OwnerIsAlone
    <3>3. \A s \in Seeker : pc'[s] \notin Working
      BY <3>1, OwnerIsAlone, SeekAssumption
    <3> QED
      BY <3>1, <3>2, <3>3, OwnerLeaves
  <2>3. ASSUME NEW c \in Caller, NEW s \in Seeker, CreateThread(c, s)
        PROVE  OneOwner'
    <3>1. /\ c \in Owners
          /\ caller' = [caller EXCEPT ![c] = "idle"]
          /\ pc' = [pc EXCEPT ![s] = "start"] /\ running' = running
      BY <2>3 DEF CreateThread, Goto, Owners
    <3>2. s \in Owners'
      BY <3>1, <2>t DEF Owners, Working
    <3>3. running' = 1 /\ \A d \in Caller : caller'[d] # "create"
      BY <3>1, <2>t, OwnerIsAlone
    <3>4. \A r \in Seeker \ {s} : pc'[r] \notin Working
      BY <3>1, <2>t, OwnerIsAlone, SeekAssumption
    <3> QED
      BY <3>2, <3>3, <3>4, OwnerAppears
  <2>4. ASSUME NEW c \in Caller, Stopping(c) PROVE OneOwner'
    <3>1. Owners' = Owners
      BY <2>4, <2>t DEF Stopping, Halt, LogoBegin, Show, LogoEnd, Goto,
                        Owners
    <3>2. running' = running
      BY <2>4 DEF Stopping, Halt, LogoBegin, Show, LogoEnd
    <3> QED
      BY <3>1, <3>2, SameOwners
  <2>5. ASSUME NEW s \in Seeker, Seek(s) PROVE OneOwner'
    <3>1. CASE Done(s) \/ GiveUp(s)
      <4>1. /\ s \in Owners /\ pc[s] \in Working /\ caller' = caller /\ running' = 0
            /\ pc' = [pc EXCEPT ![s] = pc'[s]] /\ pc'[s] \notin Working
        BY <3>1, <2>t DEF Done, GiveUp, Step, Reset, Owners, Working
      <4>2. \A r \in Seeker : pc'[r] \notin Working
        BY <4>1, <2>t, OwnerIsAlone
      <4>3. \A c \in Caller : caller'[c] # "create"
        BY <4>1, <2>t, OwnerIsAlone, SeekAssumption
      <4> QED
        BY <4>1, <4>2, <4>3, OwnerLeaves
    <3>2. CASE Leave(s)
      <4>1. Owners' = Owners
        BY <3>2, <2>t DEF Leave, Step, Owners, Working
      <4> QED
        BY <3>2, <4>1, SameOwners DEF Leave
    <3>3. CASE Start(s) \/ Check(s) \/ Reopen(s) \/ Claim(s) \/ TakePosition(s)
               \/ TakeOffset(s) \/ Go(s) \/ Flag(s)
      <4>1. Owners' = Owners
        BY <3>3, <2>t, SeekerWorksOn
           DEF Start, Check, Reopen, Claim, TakePosition, TakeOffset, Go, Flag,
               Step, Working
      <4>2. running' = running
        BY <3>3 DEF Start, Check, Reopen, Claim, TakePosition, TakeOffset, Go, Flag,
                    request
      <4> QED
        BY <4>1, <4>2, SameOwners
    <3>4. CASE Measure(s) \/ Move(s) \/ Moved(s)
      <4>1. Owners' = Owners
        BY <3>4, <2>t, SeekerWorksOn DEF Measure, Move, Moved, Step, Working
      <4>2. running' = running
        BY <3>4 DEF Measure, Move, Moved
      <4> QED
        BY <4>1, <4>2, SameOwners
    <3> QED
      BY <2>5, <3>1, <3>2, <3>3, <3>4 DEF Seek
  <2>6. CASE StreamEnds \/ UNCHANGED vars
    <3>1. Owners' = Owners /\ running' = running
      BY <2>6 DEF StreamEnds, vars, Owners
    <3> QED
      BY <3>1, SameOwners
  <2> QED
    BY <2>1, <2>2, <2>3, <2>4, <2>5, <2>6 DEF Next, Create
<1> QED
  BY <1>1, <1>2, TypeCorrect, PTL DEF Spec

-----------------------------------------------------------------------------
(***************************************************************************)
(* Those who have still to clear ignore_next: a caller that is about to    *)
(* stop the stream, and a seek thread from Claim to Leave.                 *)
(***************************************************************************)
Clearing == {"look", "go", "flag", "measure", "move", "moved", "leave"}

Releasers == {c \in Caller : caller[c] \in {"stop", "stop_again"}}
             \cup {s \in Seeker : pc[s] \in Clearing}

(***************************************************************************)
(* A raised ignore_next has somebody to clear it.  This is what lets the   *)
(* flag be shared by threads that clear it for each other: whoever clears  *)
(* it leaves nothing to be done, whoever raises it stays a releaser.       *)
(***************************************************************************)
Watched == ignoreNext # 0 => Releasers # {}

LEMMA ReleasersStay ==
  ASSUME Watched, ignoreNext' = ignoreNext, Releasers \subseteq Releasers'
  PROVE  Watched'
BY DEF Watched

(***************************************************************************)
(* When all calls and seek threads are over, ignore_next is clear, for any *)
(* callers that seek and stop and any number of seek threads.              *)
(***************************************************************************)
THEOREM IgnoreReleased == Spec => []IgnoreIsReleased
<1>1. Init => Watched
  BY DEF Init, Watched
<1>2. TypeOK /\ Watched /\ [Next]_vars => Watched'
  <2> SUFFICES ASSUME TypeOK, Watched, [Next]_vars PROVE Watched'
    OBVIOUS
  <2> USE DEF TypeOK, request, thread, engine
  <2>1. ASSUME NEW c \in Caller, Call(c) PROVE Watched'
    <3>1. CASE Stop(c)
      <4>1. c \in Releasers'
        BY <3>1 DEF Stop, Goto, Releasers
      <4> QED
        BY <4>1 DEF Watched
    <3>2. CASE ~Stop(c)
      <4>1. PICK where, by : Ask(c, where, by)
        BY <2>1, <3>2 DEF Call, SetPosition, SeekRelative
      <4>2. Releasers \subseteq Releasers'
        BY <4>1 DEF Ask, Goto, Releasers
      <4> QED
        BY <4>1, <4>2, ReleasersStay DEF Ask
    <3> QED
      BY <3>1, <3>2
  <2>2. ASSUME NEW c \in Caller, Create(c) PROVE Watched'
    <3>1. ignoreNext' = ignoreNext
      BY <2>2 DEF Create, CreateFails, CreateThread, Reset
    <3>2. Releasers \subseteq Releasers'
      BY <2>2 DEF Create, CreateFails, CreateThread, Goto, Releasers, Clearing
    <3> QED
      BY <3>1, <3>2, ReleasersStay
  <2>3. ASSUME NEW c \in Caller, Stopping(c) PROVE Watched'
    <3>1. CASE Halt(c)
      BY <3>1 DEF Halt, Watched
    <3>2. CASE LogoBegin(c) /\ status = "play"
      <4>1. c \in Releasers'
        BY <3>2 DEF LogoBegin, Goto, Releasers
      <4> QED
        BY <4>1 DEF Watched
    <3>3. CASE (LogoBegin(c) /\ status # "play") \/ Show(c) \/ LogoEnd(c)
      <4>1. ignoreNext' = ignoreNext
        BY <3>3 DEF LogoBegin, Show, LogoEnd
      <4>2. Releasers \subseteq Releasers'
        BY <3>3 DEF LogoBegin, Show, LogoEnd, Goto, Releasers
      <4> QED
        BY <4>1, <4>2, ReleasersStay
    <3> QED
      BY <2>3, <3>1, <3>2, <3>3 DEF Stopping
  <2>4. ASSUME NEW s \in Seeker, Seek(s) PROVE Watched'
    <3>1. CASE Moved(s) \/ Leave(s)
      BY <3>1 DEF Moved, Leave, Watched
    <3>2. CASE Claim(s) \/ Measure(s)
      <4>1. s \in Releasers'
        BY <3>2 DEF Claim, Measure, Step, Releasers, Clearing
      <4> QED
        BY <4>1 DEF Watched
    <3>3. CASE Start(s) \/ Check(s) \/ Reopen(s) \/ GiveUp(s)
      <4>1. ignoreNext' = ignoreNext
        BY <3>3 DEF Start, Check, Reopen, GiveUp, Reset
      <4>2. Releasers \subseteq Releasers'
        BY <3>3 DEF Start, Check, Reopen, GiveUp, Step, Releasers, Clearing
      <4> QED
        BY <4>1, <4>2, ReleasersStay
    <3>4. CASE Done(s) \/ TakePosition(s) \/ TakeOffset(s) \/ Go(s) \/ Flag(s) \/ Move(s)
      <4>1. ignoreNext' = ignoreNext
        BY <3>4 DEF Done, TakePosition, TakeOffset, Go, Flag, Move
      <4>2. Releasers \subseteq Releasers'
        BY <3>4 DEF Done, TakePosition, TakeOffset, Go, Flag, Move, Step, Releasers,
                    Clearing
      <4> QED
        BY <4>1, <4>2, ReleasersStay
    <3> QED
      BY <2>4, <3>1, <3>2, <3>3, <3>4 DEF Seek
  <2>5. CASE StreamEnds \/ UNCHANGED vars
    BY <2>5 DEF StreamEnds, vars, Watched, Releasers
  <2> QED
    BY <2>1, <2>2, <2>3, <2>4, <2>5 DEF Next
<1>3. Watched => IgnoreIsReleased
  BY DEF Watched, Releasers, IgnoreIsReleased, Quiet, Clearing
<1> QED
  BY <1>1, <1>2, <1>3, TypeCorrect, PTL DEF Spec
=============================================================================
