-------------------------------- MODULE Seek --------------------------------
(***************************************************************************)
(* Deferred seeking: gui_set_current_position, gui_seek_relative and       *)
(* gui_seek_thread of src/xitk/actions.c.                                  *)
(*                                                                         *)
(* A caller leaves what it wants in seek_pos or seek_timestep; the first   *)
(* one sets seek_running and creates a detached thread, which works until  *)
(* nothing is left.  A critical section of seek_mutex is one step; what    *)
(* the seek thread does outside of it (ignore_next, logo_mode, the engine) *)
(* interleaves with a later seek thread, with the stop key and with the    *)
(* end of the stream.                                                      *)
(***************************************************************************)
EXTENDS Integers, FiniteSets

CONSTANTS Caller,     \* threads that seek: GUI, network, stdctl, lirc
          Seeker,     \* the seek threads there can be at a time
          Positions,  \* slider positions asked for
          Offsets,    \* relative seeks, in milliseconds
          CanStop,    \* there is a stop key, too
          MaxCalls    \* bound on the calls

NONE == -1

ASSUME SeekAssumption ==
  /\ Caller \cap Seeker = {}
  /\ Positions \subseteq Nat /\ Offsets \subseteq Int \ {0}
  /\ CanStop \in BOOLEAN /\ MaxCalls \in Nat

VARIABLES
  running,     \* gui->seek_running
  seekPos,     \* gui->seek_pos
  timestep,    \* gui->seek_timestep
  ignoreNext,  \* gui->ignore_next
  logoMode,    \* gui->logo_mode: 0 the entry, 1 the logo, 2 the logo on its way
  open,        \* what the engine has open
  status,      \* xine_get_status: "stop" or "play"
  place,       \* where it was last sent to
  kind,        \* the current entry is "seekable", not so ("live"), or "broken"
  caller,      \* where each caller is
  pc,          \* where each seek thread is
  pos, step,   \* its own copies of seek_pos and seek_timestep
  left         \* calls still to come

request == <<running, seekPos, timestep>>
engine == <<open, status, place>>
thread == <<pc, pos, step>>
vars == <<request, ignoreNext, logoMode, engine, kind, caller, thread,
          left>>

Kind == {"seekable", "live", "broken"}

Init ==
  /\ running = 0 /\ seekPos = NONE /\ timestep = 0
  /\ ignoreNext = 0
  /\ kind \in Kind
  /\ \/ logoMode = 0 /\ kind # "broken" /\ open = "entry"
     \/ logoMode = 1 /\ open = "logo"
  /\ status = "play" /\ place = 0
  /\ caller = [c \in Caller |-> "idle"]
  /\ pc = [s \in Seeker |-> "unborn"]
  /\ pos = [s \in Seeker |-> NONE] /\ step = [s \in Seeker |-> 0]
  /\ left = MaxCalls

-----------------------------------------------------------------------------
\* The callers

Goto(c, where) == caller' = [caller EXCEPT ![c] = where]

\* Mutant of Ask: seek_running is left to the new thread to set.
AskRunningLate(c, where, by) ==
  /\ caller[c] = "idle" /\ left > 0
  /\ left' = left - 1
  /\ seekPos' = where /\ timestep' = by
  /\ IF running # 0 THEN UNCHANGED caller ELSE Goto(c, "create")
  /\ UNCHANGED <<running, ignoreNext, logoMode, engine, kind, thread>>

\* The first critical section: whoever finds no seek thread will create one.
Ask(c, where, by) ==
  /\ caller[c] = "idle" /\ left > 0
  /\ left' = left - 1
  /\ running' = 1
  /\ seekPos' = where /\ timestep' = by
  /\ IF running # 0 THEN UNCHANGED caller ELSE Goto(c, "create")
  /\ UNCHANGED <<ignoreNext, logoMode, engine, kind, thread>>

\* gui_set_current_position
SetPosition(c, where) == Ask(c, where, timestep)

\* Mutant of SeekRelative: offsets add up.
SeekRelativeAdding(c, by) == Ask(c, seekPos, timestep + by)

\* gui_seek_relative
SeekRelative(c, by) == Ask(c, seekPos, by)

\* pthread_create
CreateThread(c, s) ==
  /\ caller[c] = "create" /\ pc[s] = "unborn"
  /\ pc' = [pc EXCEPT ![s] = "start"]
  /\ pos' = [pos EXCEPT ![s] = NONE]
  /\ Goto(c, "idle")
  /\ UNCHANGED <<request, ignoreNext, logoMode, engine, kind, step, left>>

\* Mutant of Reset: the offset is left for the next seek.
ResetPositionOnly ==
  running' = 0 /\ seekPos' = NONE /\ UNCHANGED timestep

\* What was asked for is given up.
Reset == running' = 0 /\ seekPos' = NONE /\ timestep' = 0

CreateFails(c) ==
  /\ caller[c] = "create"
  /\ Reset /\ Goto(c, "idle")
  /\ UNCHANGED <<ignoreNext, logoMode, engine, kind, thread, left>>

(***************************************************************************)
(* gui_stop, with gui_display_logo (see Playback) at its end.  It is the   *)
(* other user of ignore_next and of the stream.                            *)
(***************************************************************************)
Stop(c) ==
  /\ CanStop /\ caller[c] = "idle" /\ left > 0
  /\ left' = left - 1
  /\ ignoreNext' = 1
  /\ Goto(c, "stop")
  /\ UNCHANGED <<request, logoMode, engine, kind, thread>>

Halt(c) ==
  /\ caller[c] \in {"stop", "stop_again"}
  /\ status' = "stop" /\ ignoreNext' = 0
  /\ Goto(c, IF caller[c] = "stop" THEN "halted" ELSE "show")
  /\ UNCHANGED <<request, logoMode, open, place, kind, thread, left>>

LogoBegin(c) ==
  /\ caller[c] = "halted"
  /\ logoMode # 2 /\ logoMode' = 2    \* takes logo_mutex
  /\ IF status = "play" THEN ignoreNext' = 1 /\ Goto(c, "stop_again")
                        ELSE UNCHANGED ignoreNext /\ Goto(c, "show")
  /\ UNCHANGED <<request, engine, kind, thread, left>>

Show(c) ==
  /\ caller[c] = "show"
  /\ open' = "logo" /\ status' = "play" /\ place' = 0
  /\ Goto(c, "logo")
  /\ UNCHANGED <<request, ignoreNext, logoMode, kind, thread, left>>

LogoEnd(c) ==
  /\ caller[c] = "logo"
  /\ logoMode' = 1
  /\ Goto(c, "idle")
  /\ UNCHANGED <<request, ignoreNext, engine, kind, thread, left>>

-----------------------------------------------------------------------------
\* gui_seek_thread

Step(s, from, to) == pc[s] = from /\ pc' = [pc EXCEPT ![s] = to]

OpenEntry ==
  /\ open' = IF kind = "broken" THEN "none" ELSE "entry"
  /\ status' = "stop" /\ place' = 0

Seekable == open = "entry" /\ kind = "seekable"

\* xine_open (current entry), if the logo is displayed
Start(s) ==
  /\ IF logoMode = 0 THEN Step(s, "start", "check") /\ UNCHANGED engine
     ELSE OpenEntry /\ Step(s, "start", IF kind = "broken" THEN "give_up" ELSE "check")
  /\ UNCHANGED <<request, ignoreNext, logoMode, kind, caller, pos, step,
                 left>>

Check(s) ==
  /\ Step(s, "check", IF Seekable /\ ignoreNext = 0 THEN "reopen" ELSE "give_up")
  /\ UNCHANGED <<request, ignoreNext, logoMode, engine, kind, caller, pos,
                 step, left>>

Reopen(s) ==
  /\ Step(s, "reopen", "claim")
  /\ IF status = "play" THEN UNCHANGED engine ELSE OpenEntry
  /\ UNCHANGED <<request, ignoreNext, logoMode, kind, caller, pos, step,
                 left>>

Claim(s) ==
  /\ Step(s, "claim", "look")
  /\ ignoreNext' = 1
  /\ UNCHANGED <<request, logoMode, engine, kind, caller, pos, step, left>>

\* Nothing is left: the seek thread gives seek_running back.
Done(s) ==
  /\ Step(s, "look", "leave")
  /\ pos[s] = seekPos /\ timestep = 0
  /\ running' = 0 /\ seekPos' = NONE /\ UNCHANGED timestep
  /\ UNCHANGED <<ignoreNext, logoMode, engine, kind, caller, pos, step,
                 left>>

\* Mutant of TakePosition: the thread does not note what it went to.
TakePositionUnnoted(s) ==
  /\ Step(s, "look", "go")
  /\ pos[s] # seekPos
  /\ UNCHANGED <<request, ignoreNext, logoMode, engine, kind, caller, pos,
                 step, left>>

TakePosition(s) ==
  /\ Step(s, "look", "go")
  /\ pos[s] # seekPos /\ pos' = [pos EXCEPT ![s] = seekPos]
  /\ UNCHANGED <<request, ignoreNext, logoMode, engine, kind, caller,
                 step, left>>

TakeOffset(s) ==
  /\ Step(s, "look", "measure")
  /\ pos[s] = seekPos /\ timestep # 0
  /\ timestep' = 0 /\ step' = [step EXCEPT ![s] = timestep]
  /\ UNCHANGED <<running, seekPos, ignoreNext, logoMode, engine, kind,
                 caller, pos, left>>

\* _gui_xine_play: xine_play (what opens plays, here), then logo_mode
PlayFrom(where) ==
  IF open # "none" THEN status' = "play" /\ place' = where /\ UNCHANGED open
                   ELSE UNCHANGED engine

Go(s) ==
  /\ Step(s, "go", IF open # "none" THEN "flag" ELSE "look")
  /\ PlayFrom(pos[s])
  /\ UNCHANGED <<request, ignoreNext, logoMode, kind, caller, pos, step,
                 left>>

Flag(s) ==
  /\ Step(s, "flag", IF step[s] = 0 THEN "look" ELSE "moved")
  /\ logoMode # 2 /\ logoMode' = 0    \* waits for logo_mutex
  /\ UNCHANGED <<request, ignoreNext, engine, kind, caller, pos, step,
                 left>>

\* A relative seek: only a stream that plays has a time to start from, and
\* xine_get_pos_length need not know it yet.
Measure(s) ==
  /\ \/ /\ Seekable /\ status = "play"
        /\ Step(s, "measure", "move") /\ ignoreNext' = 1 /\ UNCHANGED step
     \/ /\ Step(s, "measure", "look") /\ UNCHANGED ignoreNext
        /\ step' = [step EXCEPT ![s] = 0]
  /\ UNCHANGED <<request, logoMode, engine, kind, caller, pos, left>>

Move(s) ==
  /\ Step(s, "move", IF open # "none" THEN "flag" ELSE "moved")
  /\ PlayFrom(0)
  /\ UNCHANGED <<request, ignoreNext, logoMode, kind, caller, pos, step,
                 left>>

Moved(s) ==
  /\ Step(s, "moved", "look")
  /\ ignoreNext' = 0
  /\ step' = [step EXCEPT ![s] = 0]
  /\ UNCHANGED <<request, logoMode, engine, kind, caller, pos, left>>

\* Mutant of Leave: ignore_next stays.
LeaveIgnoring(s) ==
  /\ Step(s, "leave", "unborn")
  /\ UNCHANGED <<request, ignoreNext, logoMode, engine, kind, caller, pos,
                 step, left>>

\* The end of the thread, seek_running given back before.
Leave(s) ==
  /\ Step(s, "leave", "unborn")
  /\ ignoreNext' = 0
  /\ UNCHANGED <<request, logoMode, engine, kind, caller, pos, step, left>>

GiveUp(s) ==
  /\ Step(s, "give_up", "unborn")
  /\ Reset
  /\ UNCHANGED <<ignoreNext, logoMode, engine, kind, caller, pos, step,
                 left>>

\* xine: the stream comes to its end.
StreamEnds ==
  /\ status = "play" /\ status' = "stop"
  /\ UNCHANGED <<request, ignoreNext, logoMode, open, place, kind, caller,
                 thread, left>>

-----------------------------------------------------------------------------
Seek(s) == Start(s) \/ Check(s) \/ Reopen(s) \/ Claim(s) \/ Done(s)
           \/ TakePosition(s) \/ TakeOffset(s) \/ Go(s) \/ Flag(s) \/ Measure(s)
           \/ Move(s) \/ Moved(s) \/ Leave(s) \/ GiveUp(s)

Create(c) == CreateFails(c) \/ \E s \in Seeker : CreateThread(c, s)

Stopping(c) == Halt(c) \/ LogoBegin(c) \/ Show(c) \/ LogoEnd(c)

Call(c) ==
  \/ \E where \in Positions : SetPosition(c, where)
  \/ \E by \in Offsets : SeekRelative(c, by)
  \/ Stop(c)

Next ==
  \/ \E c \in Caller : Call(c) \/ Create(c) \/ Stopping(c)
  \/ \E s \in Seeker : Seek(s)
  \/ StreamEnds

Spec == Init /\ [][Next]_vars

\* A thread that has work to do does it; nobody has to call.
Fairness == /\ \A c \in Caller : WF_vars(Create(c)) /\ WF_vars(Stopping(c))
            /\ \A s \in Seeker : WF_vars(Seek(s))

FairSpec == Spec /\ Fairness

-----------------------------------------------------------------------------
CallerPc == {"idle", "create", "stop", "halted", "stop_again", "show", "logo"}
Working == {"start", "check", "reopen", "claim", "look", "go", "flag",
            "measure", "move", "moved", "give_up"}

TypeOK ==
  /\ running \in 0 .. 1 /\ seekPos \in Positions \cup {NONE}
  /\ timestep \in Offsets \cup {0}
  /\ ignoreNext \in 0 .. 1 /\ logoMode \in 0 .. 2
  /\ open \in {"entry", "logo", "none"} /\ status \in {"stop", "play"}
  /\ place \in Positions \cup {0, NONE}
  /\ kind \in Kind
  /\ caller \in [Caller -> CallerPc]
  /\ pc \in [Seeker -> Working \cup {"unborn", "leave"}]
  /\ pos \in [Seeker -> Positions \cup {NONE}]
  /\ step \in [Seeker -> Offsets \cup {0}]
  /\ left \in 0 .. MaxCalls

(***************************************************************************)
(* seek_running is set exactly while one thread owns it: the caller that   *)
(* creates the seek thread, then that thread.  It is never left set by     *)
(* nobody, which would end all seeking, and no two threads seek at a time. *)
(***************************************************************************)
Owners == {c \in Caller : caller[c] = "create"}
          \cup {s \in Seeker : pc[s] \in Working}

OneOwner ==
  /\ running = 1 <=> Owners # {}
  /\ \A x, y \in Owners : x = y

(***************************************************************************)
(* When no seek is under way none is left over: what nobody serves would   *)
(* be added to the next seek.                                              *)
(***************************************************************************)
NothingLeftOver == running = 0 => seekPos = NONE /\ timestep = 0

(***************************************************************************)
(* When all calls and seek threads are over, ignore_next is clear, in      *)
(* whatever order they set and cleared it: the playlist can go on.         *)
(***************************************************************************)
Quiet == /\ \A c \in Caller : caller[c] = "idle"
         /\ \A s \in Seeker : pc[s] = "unborn"

IgnoreIsReleased == Quiet => ignoreNext = 0

\* Every seek comes to its end, also when new ones arrive during it.
SeekEnds == running = 1 ~> running = 0

(***************************************************************************)
(* Not kept by the code (README).                                          *)
(* A position asked for on a seekable stream is not dropped: when it is    *)
(* cleared, the engine was sent there.  ("Seek through xine_play () may be *)
(* slow. We defer it to a separate thread.")                               *)
(***************************************************************************)
NotDropped ==
  [][seekPos # NONE /\ seekPos' = NONE =>
       \/ \E c \in Caller : CreateFails(c)
       \/ kind # "seekable" \/ open # "entry"
       \/ place = seekPos]_vars
=============================================================================
