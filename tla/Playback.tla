------------------------------ MODULE Playback ------------------------------
(***************************************************************************)
(* What plays, and what plays next: src/xitk/actions.c and event.c, the    *)
(* event listener of main.c and the slider thread of panel.c.              *)
(*                                                                         *)
(* A thread runs one call at a time.  A step is the code between two       *)
(* places where another thread may come in: a call of the xine engine, or  *)
(* a lock taken or released.  The playlist index, ignore_next and loop are *)
(* used outside of any lock, as in the code.                               *)
(*                                                                         *)
(* The engine (libxine) is external: it opens, plays and stops one stream  *)
(* and reports the end of it with an event that the listener handles later.*)
(*                                                                         *)
(* Left out: --auto-play=q, with which the end of the list calls gui_exit  *)
(* instead of gui_display_logo.                                            *)
(***************************************************************************)
EXTENDS Mediamark

CONSTANTS Gui, Listener, Slider,   \* the threads
          Threads,                 \* those that run
          Logo, DisplayLogo,       \* gui->logo_mrl, and whether it is shown
          Bad, Dead, Odd, Cfg,     \* mrls that do not open, open but do not
                                   \* play, need a missing codec, are cfg:/
          Titled, Timed,           \* streams with a title, entries with an end
          Alternates,              \* alternates of the initial entries
          Lists,                   \* initial playlists
          Loops,                   \* initial loop modes
          Commands,                \* what the user does
          Steps,                   \* numbers of entries to step by
          StdCtl,                  \* gui->stdctl_enable: errors are printed
          MayBeLate,               \* an event may wait for over 3 seconds
          Started,                 \* the first entry plays (--auto-play)
          MaxCommands, MaxEvents,  \* bounds: calls of the user, events queued
          MaxNesting               \* bound: cfg:/ entries opened in each other

Nobody == "nobody"

\* An mrl that opens and plays.
Plain(m) == m \notin Bad \cup Dead \cup Odd \cup Cfg

ASSUME PlaybackAssumption ==
  /\ Threads \subseteq {Gui, Listener, Slider} /\ Nobody \notin Threads
  /\ Logo \notin Mrl /\ Logo # NoMrl /\ DisplayLogo \in BOOLEAN
  /\ Bad \cup Dead \cup Odd \cup Cfg \cup Titled \cup Timed \subseteq Mrl
  /\ Alternates \in Seq(Mrl) /\ Lists \subseteq Seq(Mrl)
  /\ Loops \subseteq LoopMode
  /\ Started => \A ms \in Lists : ms # <<>> /\ Plain(Head(ms))
  /\ StdCtl \in BOOLEAN /\ MayBeLate \in BOOLEAN
  /\ Steps \subseteq Int \ {0} /\ MaxCommands \in Nat /\ MaxEvents \in Nat
  /\ MaxNesting \in Nat

VARIABLES
  mmk, cur, current, loop,  \* gui->playlist and gui->mmk, as in Playlist
  stopAfter,   \* gui->playlist.control, the set of its bits
  controls,    \* panel->playback_widgets.enabled
  ignoreNext,  \* gui->ignore_next
  logoMode,    \* gui->logo_mode: 0 an entry plays, 1 the logo, 2 on its way
  dialog,      \* gui->play_data.running: "Start playback anyway ?" is open
  stream,      \* what the engine has open
  finished,    \* what the PLAYBACK_FINISHED events not yet handled are about
  lock,        \* the recursive mutexes: who holds them, how often
  th,          \* what each thread is doing
  left,        \* calls of the user still to come
  fault        \* an entry that is not in the array was written to

list   == <<mmk, cur, current, loop>>
widget == <<stopAfter, controls, dialog, left>>
engine == <<stream, finished>>
vars == <<list, widget, ignoreNext, logoMode, engine, lock, th, fault>>

\* PLAYLIST_CONTROL_STOP, PLAYLIST_CONTROL_STOP_PERSIST
Control == {"stop", "persist"}

\* The stop has been made: it is forgotten, if it is not to persist.
Obeyed(bits) == IF "persist" \in bits THEN bits ELSE bits \ {"stop"}

Unlocked == [by |-> Nobody, n |-> 0]
Lock == {"xitk", "mmk", "logo"}

Idle == [pc |-> "idle", base |-> "none", call |-> "none", arg |-> NoMrl,
         todo |-> <<>>, report |-> FALSE, to |-> "idle", idx |-> NONE]

\* gui_init, then on_start: the first entry is current, the logo or it plays
Init ==
  /\ \E ms \in Lists :
       mmk = [k \in DOMAIN ms |->
                [mrl |-> ms[k], alts |-> Alternates, played |-> Started /\ k = 1]]
  /\ cur = IF mmk = <<>> THEN NONE ELSE 0
  /\ current = CopyOver([mrl |-> NoMrl, alts |-> <<>>], EntryOrNone(mmk, cur))
  /\ loop \in Loops /\ stopAfter = {} /\ controls = (mmk # <<>>)
  /\ ignoreNext = FALSE /\ dialog = FALSE
  /\ logoMode = IF Started THEN 0 ELSE 1
  /\ stream = IF Started THEN [mrl |-> current.mrl, status |-> "play"]
              ELSE IF DisplayLogo THEN [mrl |-> Logo, status |-> "play"]
              ELSE [mrl |-> NoMrl, status |-> "idle"]
  /\ finished = <<>>
  /\ lock = [l \in Lock |-> Unlocked]
  /\ th = [t \in Threads |-> Idle]
  /\ left = MaxCommands /\ fault = FALSE

-----------------------------------------------------------------------------
\* Threads and locks

On(t, pc) == th[t].pc = pc
Goto(t, pc) == th' = [th EXCEPT ![t].pc = pc]
GotoVia(t, pc, to) == th' = [th EXCEPT ![t].pc = pc, ![t].to = to]

Free(t, l) == lock[l].by \in {Nobody, t}
Taken(t, l) == [lock EXCEPT ![l] = [by |-> t, n |-> @.n + 1]]
\* Mutant of Dropped: the owner is not cleared with the last unlock.
DroppedByCount(l) == [lock EXCEPT ![l].n = @ - 1]

Dropped(l) ==
  [lock EXCEPT ![l] = IF @.n = 1 THEN Unlocked ELSE [by |-> @.by, n |-> @.n - 1]]
DroppedAll(t) ==
  [l \in Lock |-> IF lock[l].by = t THEN Unlocked ELSE lock[l]]

\* Mutant of Finish: gui_step_mrl returns without clearing ignore_next.
FinishKeepingIgnore(t) ==
  /\ On(t, "finish")
  /\ lock' = DroppedAll(t)
  /\ th' = [th EXCEPT ![t] = Idle]
  /\ UNCHANGED <<list, widget, ignoreNext, logoMode, engine, fault>>

\* Mutant of Finish: the double click returns without unlocking mmk_mutex.
FinishHoldingList(t) ==
  /\ On(t, "finish")
  /\ lock' = [DroppedAll(t) EXCEPT !["mmk"] = lock["mmk"]]
  /\ ignoreNext' = IF th[t].base = "step" THEN FALSE ELSE ignoreNext
  /\ th' = [th EXCEPT ![t] = Idle]
  /\ UNCHANGED <<list, widget, logoMode, engine, fault>>

\* The end of a call: what it locked is unlocked again.
Finish(t) ==
  /\ On(t, "finish")
  /\ lock' = DroppedAll(t)
  /\ ignoreNext' = IF th[t].base = "step" THEN FALSE ELSE ignoreNext
  /\ th' = [th EXCEPT ![t] = Idle]
  /\ UNCHANGED <<list, widget, logoMode, engine, fault>>

\* gui_msg: a window is built with the xitk lock held, or the text is printed
Window(t) ==
  /\ On(t, "window")
  /\ StdCtl \/ Free(t, "xitk")
  /\ Goto(t, th[t].to)
  /\ UNCHANGED <<list, widget, ignoreNext, logoMode, engine, lock, fault>>

\* gui_current_set_index: short enough to be one step, under mmk_mutex
SetCurrent(t, index) ==
  /\ Free(t, "mmk")
  /\ cur' = RealIndex(mmk, cur, index)
  /\ current' = CopyOver(current, EntryOrNone(mmk, cur'))
  /\ UNCHANGED <<mmk, loop>>

-----------------------------------------------------------------------------
\* The engine

Status == {"idle", "stop", "play"}

Stopped(s) == IF s.status = "play" THEN [s EXCEPT !.status = "stop"] ELSE s

Opens(m) == m \notin Bad \cup {NoMrl}

Opened(m) == IF Opens(m) THEN [mrl |-> m, status |-> "stop"]
                         ELSE [mrl |-> NoMrl, status |-> "idle"]

Plays(s) == s.status # "idle" /\ s.mrl \notin Dead

StreamEnds ==
  /\ stream.status = "play" /\ Len(finished) < MaxEvents
  /\ finished' = Append(finished, stream.mrl)
  /\ stream' = Stopped(stream)
  /\ UNCHANGED <<list, widget, ignoreNext, logoMode, lock, th, fault>>

Closed == [mrl |-> NoMrl, status |-> "idle"]

\* ignore_next = 1; xine_stop (); ignore_next = 0 -- the second half of it, and
\* the same around the xine_close () that ends gui_close
Halt(t) ==
  /\ On(t, "halt")
  /\ stream' = IF th[t].to = "finish" THEN Closed ELSE Stopped(stream)
  /\ ignoreNext' = FALSE
  /\ Goto(t, th[t].to)
  /\ UNCHANGED <<list, widget, logoMode, finished, lock, fault>>

-----------------------------------------------------------------------------
(***************************************************************************)
(* gui_xine_open_and_play (mrl), called by `call`:                         *)
(*   list, dbl   gui_playlist_play, for the next entry or a clicked one    *)
(*   play, step  gui_play, gui_step_mrl                                    *)
(*   logo        gui_display_logo                                          *)
(*   answer      _start_anyway_done, straight to _gui_xine_play            *)
(* A cfg:/ mrl starts the next entry from in here.  All callers return at  *)
(* once when it comes back, so that the inner call takes the outer's place.*)
(***************************************************************************)
Call(t, who, m, alts, told) ==
  th' = [th EXCEPT ![t].pc = "open", ![t].call = who, ![t].arg = m,
                   ![t].todo = alts, ![t].report = told]

Open(t) ==
  /\ On(t, "open")
  /\ IF th[t].arg \in Cfg
     THEN lock["mmk"].n <= MaxNesting /\ Goto(t, "next") /\ UNCHANGED stream
     ELSE /\ stream' = Opened(th[t].arg)
          /\ Goto(t, IF Opens(th[t].arg) THEN "check" ELSE "openFailed")
  /\ UNCHANGED <<list, widget, ignoreNext, logoMode, finished, lock, fault>>

\* if (!strcmp (mrl, gui->mmk.mrl)) playlist.mmk[playlist.cur]->played = 1
Mark(t) ==
  /\ IF th[t].arg = current.mrl
     THEN IF InRange(mmk, cur)
          THEN mmk' = MarkPlayed(mmk, cur) /\ UNCHANGED fault
          ELSE fault' = TRUE /\ UNCHANGED mmk
     ELSE UNCHANGED <<mmk, fault>>
  /\ UNCHANGED <<cur, current, loop>>

OpenFailed(t) ==
  /\ On(t, "openFailed")
  /\ Mark(t)
  /\ IF th[t].report THEN GotoVia(t, "window", "rejected") ELSE Goto(t, "rejected")
  /\ UNCHANGED <<widget, ignoreNext, logoMode, engine, lock>>

\* gui_xine_play: what it checks before it plays
Check(t) ==
  /\ On(t, "check")
  /\ IF dialog
     THEN Goto(t, "playFailed") /\ UNCHANGED dialog
     ELSE IF stream.mrl \in Odd
     THEN GotoVia(t, "ask", "succeeded") /\ dialog' = TRUE
     ELSE Goto(t, "play") /\ UNCHANGED dialog
  /\ UNCHANGED <<list, stopAfter, controls, left, ignoreNext, logoMode, engine,
                 lock, fault>>

\* xitk_window_dialog_3
Ask(t) ==
  /\ On(t, "ask") /\ Free(t, "xitk")
  /\ Goto(t, th[t].to)
  /\ UNCHANGED <<list, widget, ignoreNext, logoMode, engine, lock, fault>>

\* _gui_xine_play, from xine_play on
Play(t) ==
  /\ On(t, "play")
  /\ IF Plays(stream)
     THEN stream' = [stream EXCEPT !.status = "play"] /\ Goto(t, "flag")
     ELSE GotoVia(t, "window", "playFailed") /\ UNCHANGED stream
  /\ UNCHANGED <<list, widget, ignoreNext, logoMode, finished, lock, fault>>

\* Mutant of Flag: the logo on its way is not told from an entry.
FlagUnchecked(t) ==
  /\ On(t, "flag") /\ Free(t, "logo")
  /\ logoMode' = 0
  /\ Goto(t, IF stream.mrl \in Titled THEN "title" ELSE "succeeded")
  /\ UNCHANGED <<list, widget, ignoreNext, engine, lock, fault>>

Flag(t) ==
  /\ On(t, "flag") /\ Free(t, "logo")
  /\ logoMode' = IF logoMode = 2 THEN 2 ELSE 0
  /\ Goto(t, IF logoMode' = 0 /\ stream.mrl \in Titled THEN "title"
                                                         ELSE "succeeded")
  /\ UNCHANGED <<list, widget, ignoreNext, engine, lock, fault>>

Title(t) ==
  /\ On(t, "title")
  /\ SetCurrent(t, CURRENT)
  /\ Goto(t, "succeeded")
  /\ UNCHANGED <<widget, ignoreNext, logoMode, engine, lock, fault>>

\* Mutant of PlayFailed: an entry that does not play is not marked.
PlayFailedUnmarked(t) ==
  /\ On(t, "playFailed")
  /\ Goto(t, "rejected")
  /\ UNCHANGED <<list, widget, ignoreNext, logoMode, engine, lock, fault>>

PlayFailed(t) ==
  /\ On(t, "playFailed")
  /\ IF th[t].call = "answer" THEN UNCHANGED <<list, fault>> ELSE Mark(t)
  /\ Goto(t, "rejected")
  /\ UNCHANGED <<widget, ignoreNext, logoMode, engine, lock>>

Succeeded(t) ==
  /\ On(t, "succeeded")
  /\ IF th[t].call = "answer" THEN UNCHANGED <<list, fault>> ELSE Mark(t)
  /\ Goto(t, IF th[t].call = "logo" THEN "logoEnd" ELSE "finish")
  /\ UNCHANGED <<widget, ignoreNext, logoMode, engine, lock>>

(***************************************************************************)
(* The call has failed: gui_open_and_play_alternates tries the alternates, *)
(* then it is up to the caller.                                            *)
(***************************************************************************)
Rejected(t) ==
  /\ On(t, "rejected")
  /\ IF th[t].todo # <<>>
     THEN /\ Call(t, th[t].call, Head(th[t].todo), Tail(th[t].todo), FALSE)
          /\ UNCHANGED lock
     ELSE /\ Goto(t, CASE th[t].call = "list" -> "unplayed"
                       [] th[t].call \in {"dbl", "play", "step"} -> "logo"
                       [] th[t].call = "logo" -> "logoEnd"
                       [] th[t].call = "answer" -> "finish")
          /\ lock' = IF th[t].call \in {"list", "dbl"} THEN Dropped("mmk")
                                                       ELSE lock
  /\ UNCHANGED <<list, widget, ignoreNext, logoMode, engine, fault>>

-----------------------------------------------------------------------------
\* gui_display_logo

LogoBegin(t) ==
  /\ On(t, "logo") /\ Free(t, "logo")
  /\ lock' = Taken(t, "logo") /\ logoMode' = 2
  /\ IF stream.status = "play"
     THEN ignoreNext' = TRUE /\ GotoVia(t, "halt", "logoOpen")
     ELSE Goto(t, "logoOpen") /\ UNCHANGED ignoreNext
  /\ UNCHANGED <<list, widget, engine, fault>>

LogoOpen(t) ==
  /\ On(t, "logoOpen")
  /\ IF DisplayLogo THEN Call(t, "logo", Logo, <<>>, TRUE) ELSE Goto(t, "logoEnd")
  /\ UNCHANGED <<list, widget, ignoreNext, logoMode, engine, lock, fault>>

\* Where a call that ends with the logo goes on.
Back(t) == CASE th[t].base = "delete" -> "remove"
             [] th[t].base = "clear"  -> "cleared"
             [] OTHER -> "finish"

LogoEnd(t) ==
  /\ On(t, "logoEnd")
  /\ logoMode' = 1 /\ lock' = Dropped("logo")
  /\ Goto(t, Back(t))
  /\ UNCHANGED <<list, widget, ignoreNext, engine, fault>>

-----------------------------------------------------------------------------
\* gui_playlist_start_next

NextEntry(t) ==
  /\ On(t, "next")
  /\ \/ /\ ignoreNext
        /\ Goto(t, "finish") /\ UNCHANGED <<list, stopAfter, controls>>
     \/ /\ ~ignoreNext /\ "stop" \in stopAfter
        /\ stopAfter' = Obeyed(stopAfter)
        /\ Goto(t, "logo") /\ UNCHANGED <<list, controls>>
     \/ /\ ~ignoreNext /\ "stop" \notin stopAfter /\ controls /\ mmk = <<>>
        /\ SetCurrent(t, NONE) /\ controls' = FALSE
        /\ Goto(t, "logo") /\ UNCHANGED stopAfter
     \/ /\ ~ignoreNext /\ "stop" \notin stopAfter /\ (controls => mmk # <<>>)
        /\ Goto(t, CASE loop \in {"no_loop", "loop"} -> "advance"
                     [] loop = "repeat" -> "list"
                     [] OTHER -> "shuffle")
        /\ UNCHANGED <<list, stopAfter, controls>>
  /\ UNCHANGED <<dialog, left, ignoreNext, logoMode, engine, lock, fault>>

Advance(t) ==
  /\ On(t, "advance")
  /\ cur' = cur + 1
  /\ Goto(t, "wrap")
  /\ UNCHANGED <<mmk, current, loop, widget, ignoreNext, logoMode, engine, lock,
                 fault>>

Wrap(t) ==
  /\ On(t, "wrap")
  /\ \/ /\ cur < Len(mmk) \/ loop \notin {"no_loop", "loop"}
        /\ Goto(t, "list") /\ UNCHANGED list
     \/ /\ cur >= Len(mmk) /\ loop = "no_loop"
        /\ cur' = cur - 1 /\ mmk' = ResetPlayed(mmk)
        /\ Goto(t, "logo") /\ UNCHANGED <<current, loop>>
     \/ /\ cur >= Len(mmk) /\ loop = "loop"
        /\ cur' = 0
        /\ Goto(t, "list") /\ UNCHANGED <<mmk, current, loop>>
  /\ UNCHANGED <<widget, ignoreNext, logoMode, engine, lock, fault>>

Shuffle(t) ==
  /\ On(t, "shuffle")
  /\ IF AllPlayed(mmk)
     THEN /\ mmk' = ResetPlayed(mmk)
          /\ Goto(t, IF loop = "shuf_plus" THEN "draw" ELSE "logo")
     ELSE Goto(t, "draw") /\ UNCHANGED mmk
  /\ UNCHANGED <<cur, current, loop, widget, ignoreNext, logoMode, engine, lock,
                 fault>>

Draw(t) ==
  /\ On(t, "draw")
  /\ cur' \in ShuffleNext(mmk, cur)
  /\ Goto(t, "list")
  /\ UNCHANGED <<mmk, current, loop, widget, ignoreNext, logoMode, engine, lock,
                 fault>>

\* gui_playlist_play (cur)
List(t) ==
  /\ On(t, "list")
  /\ IF cur >= Len(mmk)
     THEN Goto(t, "unplayed") /\ UNCHANGED list
     ELSE /\ SetCurrent(t, cur)
          /\ th' = [th EXCEPT ![t].pc = "listPlay", ![t].call = "list"]
  /\ UNCHANGED <<widget, ignoreNext, logoMode, engine, lock, fault>>

ListPlay(t) ==
  /\ On(t, "listPlay") /\ Free(t, "mmk")
  /\ lock' = Taken(t, "mmk")
  /\ Call(t, th[t].call, current.mrl, current.alts, current.alts = <<>>)
  /\ UNCHANGED <<list, widget, ignoreNext, logoMode, engine, fault>>

\* Mutant of NotPlayed: it returns without the logo.
NotPlayedSilently(t) ==
  /\ On(t, "unplayed")
  /\ Goto(t, IF loop \in {"shuffle", "shuf_plus"} /\ ~AllPlayed(mmk)
             THEN "draw" ELSE "finish")
  /\ UNCHANGED <<list, widget, ignoreNext, logoMode, engine, lock, fault>>

\* What start_next does when the entry cannot be played.
NotPlayed(t) ==
  /\ On(t, "unplayed")
  /\ Goto(t, IF loop \in {"shuffle", "shuf_plus"} /\ ~AllPlayed(mmk)
             THEN "draw" ELSE "logo")
  /\ UNCHANGED <<list, widget, ignoreNext, logoMode, engine, lock, fault>>

-----------------------------------------------------------------------------
\* The user's calls.  The GUI thread handles an event with the xitk lock held.

Begin(t, command, base, pc, index) ==
  /\ command \in Commands
  /\ t = Gui /\ On(t, "idle") /\ left > 0 /\ Free(t, "xitk")
  /\ left' = left - 1
  /\ lock' = Taken(t, "xitk")
  /\ th' = [th EXCEPT ![t].pc = pc, ![t].base = base, ![t].idx = index]

\* gui_play
PlayButton(t) ==
  /\ Begin(t, "play", "play", "gplay", NONE)
  /\ UNCHANGED <<list, stopAfter, controls, dialog, ignoreNext, logoMode, engine,
                 fault>>

GuiPlay(t) ==
  /\ On(t, "gplay")
  /\ \/ /\ mmk = <<>> /\ stream.status # "play"
        /\ Goto(t, "finish") /\ UNCHANGED ignoreNext
     \/ /\ stream.status = "play" /\ logoMode # 0
        /\ ignoreNext' = TRUE /\ GotoVia(t, "halt", "gplay2")
     \/ /\ mmk # <<>> \/ stream.status = "play"
        /\ stream.status # "play" \/ logoMode = 0
        /\ Goto(t, "gplay2") /\ UNCHANGED ignoreNext
  /\ UNCHANGED <<list, widget, logoMode, engine, lock, fault>>

GuiPlay2(t) ==
  /\ On(t, "gplay2")
  /\ IF stream.status = "play" THEN Goto(t, "finish")
     ELSE IF current.mrl = NoMrl THEN GotoVia(t, "window", "finish")
     ELSE Call(t, "play", current.mrl, current.alts, current.alts = <<>>)
  /\ UNCHANGED <<list, widget, ignoreNext, logoMode, engine, lock, fault>>

\* gui_stop and gui_close
StopButton(t) ==
  /\ Begin(t, "stop", "stop", "stop", NONE)
  /\ UNCHANGED <<list, stopAfter, controls, dialog, ignoreNext, logoMode, engine,
                 fault>>

CloseButton(t) ==
  /\ Begin(t, "close", "close", "stop", NONE)
  /\ UNCHANGED <<list, stopAfter, controls, dialog, ignoreNext, logoMode, engine,
                 fault>>

StopBegin(t) ==
  /\ On(t, "stop")
  /\ ignoreNext' = TRUE /\ GotoVia(t, "halt", "stopped")
  /\ UNCHANGED <<list, widget, logoMode, engine, lock, fault>>

StopEnd(t) ==
  /\ On(t, "stopped")
  /\ stopAfter' = Obeyed(stopAfter)
  /\ mmk' = ResetPlayed(mmk)
  /\ IF controls
     THEN /\ Free(t, "mmk")
          /\ cur' = RealIndex(mmk, cur, CURRENT)
          /\ current' = CopyOver(current, EntryOrNone(mmk', cur'))
          /\ controls' = (cur' # NONE)
     ELSE UNCHANGED <<cur, current, controls>>
  /\ IF th[t].base = "close"
     THEN ignoreNext' = TRUE /\ GotoVia(t, "halt", "finish")
     ELSE Goto(t, "logo") /\ UNCHANGED ignoreNext
  /\ UNCHANGED <<loop, dialog, left, logoMode, engine, lock, fault>>

(***************************************************************************)
(* gui_step_mrl (by).  Where it leaves the choice to start_next, it clears *)
(* ignore_next; where it plays the entry itself, it sets ignore_next until *)
(* it returns (see Finish).                                                *)
(***************************************************************************)
StepThrough(t, base, pc, index) ==
  /\ Begin(t, "step", base, pc, NONE)
  /\ ignoreNext' = IF pc = "next" THEN FALSE
                   ELSE IF pc = "step" THEN TRUE ELSE ignoreNext
  /\ cur' = index
  /\ UNCHANGED <<mmk, current, loop, stopAfter, controls, dialog, logoMode,
                 engine, fault>>

StepButton(t, by) ==
  \/ /\ loop \in {"shuffle", "shuf_plus"}
     /\ StepThrough(t, "next", "next", cur)
  \/ /\ by > 0 /\ loop \in {"no_loop", "repeat"}
     /\ IF cur + by < Len(mmk)
        THEN StepThrough(t, "next", "next",
                         IF loop = "no_loop" THEN cur + by - 1 ELSE cur + by)
        ELSE StepThrough(t, "none", "finish", cur)
  \/ /\ by > 0 /\ loop = "loop"
     /\ IF cur + by > Len(mmk)
        THEN StepThrough(t, "step", "step", by - (Len(mmk) - cur))
        ELSE StepThrough(t, "next", "next", cur + by - 1)
  \/ /\ by < 0 /\ loop \in {"no_loop", "repeat"}
     /\ IF cur + by < 0 THEN StepThrough(t, "none", "finish", cur)
        ELSE IF cur + by < Len(mmk) THEN StepThrough(t, "step", "step", cur + by)
        ELSE StepThrough(t, "step", "finish", 0)
  \/ /\ by < 0 /\ loop = "loop"
     /\ IF cur + by < 0 THEN StepThrough(t, "step", "step", cur + by + Len(mmk))
        ELSE IF cur + by < Len(mmk) THEN StepThrough(t, "step", "step", cur + by)
        ELSE StepThrough(t, "step", "finish", 0)

\* Mutant of StepPlay: gui->mmk is not made the mediamark of the new entry.
StepPlayStale(t) ==
  /\ On(t, "step")
  /\ Call(t, "step", EntryOrNone(mmk, RealIndex(mmk, cur, cur)).mrl, <<>>, TRUE)
  /\ UNCHANGED <<list, widget, ignoreNext, logoMode, engine, lock, fault>>

StepPlay(t) ==
  /\ On(t, "step")
  /\ SetCurrent(t, CURRENT)
  /\ Call(t, "step", current'.mrl, <<>>, TRUE)
  /\ UNCHANGED <<widget, ignoreNext, logoMode, engine, lock, fault>>

(***************************************************************************)
(* _playlist_play_on_dbl_click: mmk_mutex is held to the end of the call,  *)
(* gui_display_logo included.                                              *)
(***************************************************************************)
DblClick(t, index) ==
  /\ InRange(mmk, index)
  /\ Begin(t, "dblclick", "dbl", "click", index)
  /\ UNCHANGED <<list, stopAfter, controls, dialog, ignoreNext, logoMode, engine,
                 fault>>

Click(t) ==
  /\ On(t, "click") /\ Free(t, "mmk")
  /\ lock' = Taken(t, "mmk")
  /\ cur' = th[t].idx
  /\ current' = CopyOver(current, EntryOrNone(mmk, cur'))
  /\ th' = [th EXCEPT ![t].pc = "listPlay", ![t].call = "dbl"]
  /\ UNCHANGED <<mmk, loop, widget, ignoreNext, logoMode, engine, fault>>

\* playlist_delete_entry: a stop, if it plays; the removal; then gui->mmk
Delete(t, index) ==
  /\ InRange(mmk, index)
  /\ Begin(t, "delete", "delete",
           IF cur = index /\ stream.status # "stop" THEN "stop" ELSE "remove",
           index)
  /\ UNCHANGED <<list, stopAfter, controls, dialog, ignoreNext, logoMode, engine,
                 fault>>

RemoveEntry(t) ==
  /\ On(t, "remove") /\ Free(t, "mmk")
  /\ mmk' = Remove(mmk, th[t].idx) /\ cur' = CurAfterRemove(mmk, cur)
  /\ Goto(t, "removed")
  /\ UNCHANGED <<current, loop, widget, ignoreNext, logoMode, engine, lock, fault>>

Removed(t) ==
  /\ On(t, "removed")
  /\ IF mmk # <<>>
     THEN SetCurrent(t, CURRENT) /\ Goto(t, "finish") /\ UNCHANGED controls
     ELSE /\ controls' = FALSE
          /\ th' = [th EXCEPT ![t].base = "clear",
                      ![t].pc = IF stream.status # "stop" THEN "stop" ELSE "cleared"]
          /\ UNCHANGED list
  /\ UNCHANGED <<stopAfter, dialog, left, ignoreNext, logoMode, engine, lock, fault>>

\* playlist_delete_all
DeleteAll(t) ==
  /\ Free(t, "mmk")
  /\ Begin(t, "delete_all", "clear",
           IF stream.status # "stop" THEN "stop" ELSE "cleared", NONE)
  /\ mmk' = <<>> /\ cur' = NONE
  /\ UNCHANGED <<current, loop, stopAfter, controls, dialog, ignoreNext, logoMode,
                 engine, fault>>

Cleared(t) ==
  /\ On(t, "cleared")
  /\ SetCurrent(t, NONE) /\ controls' = FALSE
  /\ Goto(t, "finish")
  /\ UNCHANGED <<stopAfter, dialog, left, ignoreNext, logoMode, engine, lock, fault>>

\* ACTID_PLAYLIST_STOP: stop when the entry is over, or do not; for good, if a
\* number was typed before
StopAfterwards(t) ==
  /\ Begin(t, "stop_after", "none", "finish", NONE)
  /\ stopAfter' \in {IF "stop" \in stopAfter THEN {} ELSE {"stop"},
                    {"persist"}, {"stop", "persist"}}
  /\ UNCHANGED <<list, controls, dialog, ignoreNext, logoMode, engine, fault>>

\* _start_anyway_done: "Yes" plays what the stream has open by now.
Answer(t, yes) ==
  /\ dialog /\ dialog' = FALSE
  /\ \A u \in Threads : ~On(u, "ask")
  /\ t = Gui /\ On(t, "idle") /\ Free(t, "xitk")
  /\ lock' = Taken(t, "xitk")
  /\ th' = [th EXCEPT ![t].pc = IF yes THEN "play" ELSE "next",
                      ![t].call = "answer"]
  /\ UNCHANGED <<list, stopAfter, controls, left, ignoreNext, logoMode, engine,
                 fault>>

-----------------------------------------------------------------------------
(***************************************************************************)
(* event_listener, XINE_EVENT_UI_PLAYBACK_FINISHED: ignored while the logo *)
(* is displayed, dropped when it waited for over three seconds.            *)
(***************************************************************************)
FinishedEvent(t) ==
  /\ t = Listener /\ On(t, "idle") /\ finished # <<>>
  /\ finished' = Tail(finished)
  /\ \/ logoMode # 0 /\ UNCHANGED th
     \/ logoMode = 0 /\ MayBeLate /\ UNCHANGED th
     \/ logoMode = 0 /\ Goto(t, "next")
  /\ UNCHANGED <<list, widget, ignoreNext, logoMode, stream, lock, fault>>

(***************************************************************************)
(* slider_loop: gui->mmk has an end, and the time is past the end of the   *)
(* current entry of the playlist (any time is, if that one has no end).    *)
(***************************************************************************)
EndReached(t) ==
  /\ t = Slider /\ On(t, "idle")
  /\ stream.status = "play" /\ InRange(mmk, cur) /\ current.mrl \in Timed
  /\ ignoreNext' = FALSE
  /\ Goto(t, "next")
  /\ UNCHANGED <<list, widget, logoMode, engine, lock, fault>>

-----------------------------------------------------------------------------
Playing(t) == Open(t) \/ OpenFailed(t) \/ Check(t) \/ Ask(t) \/ Play(t) \/ Flag(t)
              \/ Title(t) \/ PlayFailed(t) \/ Succeeded(t) \/ Rejected(t)

ShowingLogo(t) == LogoBegin(t) \/ LogoOpen(t) \/ LogoEnd(t)

Choosing(t) == NextEntry(t) \/ Advance(t) \/ Wrap(t) \/ Shuffle(t) \/ Draw(t)
               \/ List(t) \/ ListPlay(t) \/ NotPlayed(t)

Working(t) == GuiPlay(t) \/ GuiPlay2(t) \/ StopBegin(t) \/ StopEnd(t)
              \/ StepPlay(t) \/ Click(t) \/ RemoveEntry(t) \/ Removed(t)
              \/ Cleared(t)

\* A thread goes on with its call.
Continue(t) == Playing(t) \/ ShowingLogo(t) \/ Choosing(t) \/ Working(t)
               \/ Halt(t) \/ Window(t) \/ Finish(t)

UserCall(t) ==
  \/ PlayButton(t) \/ StopButton(t) \/ CloseButton(t)
  \/ \E by \in Steps : StepButton(t, by)
  \/ \E i \in 0 .. Len(mmk) - 1 : DblClick(t, i) \/ Delete(t, i)
  \/ DeleteAll(t) \/ StopAfterwards(t)

Next ==
  /\ ~fault
  /\ \/ StreamEnds
     \/ \E t \in Threads :
          \/ Continue(t) \/ UserCall(t) \/ FinishedEvent(t) \/ EndReached(t)
          \/ \E yes \in BOOLEAN : Answer(t, yes)

Spec == Init /\ [][Next]_vars

\* A thread that can go on does, and the listener handles its events.
Fairness ==
  \A t \in Threads : /\ WF_vars(~fault /\ Continue(t))
                     /\ WF_vars(~fault /\ FinishedEvent(t))

FairSpec == Spec /\ Fairness

-----------------------------------------------------------------------------
TypeOK ==
  /\ mmk \in Seq(Entry) /\ cur \in Int /\ current \in Current /\ loop \in LoopMode
  /\ stopAfter \subseteq Control /\ controls \in BOOLEAN /\ dialog \in BOOLEAN
  /\ ignoreNext \in BOOLEAN /\ logoMode \in 0 .. 2 /\ fault \in BOOLEAN
  /\ stream \in [mrl : Mrl \cup {NoMrl, Logo}, status : Status]
  /\ finished \in Seq(Mrl \cup {Logo}) /\ left \in 0 .. MaxCommands
  /\ \A l \in Lock : lock[l] # Unlocked => lock[l].by \in Threads /\ lock[l].n > 0

(***************************************************************************)
(* Of the threads that are in a call, one waits for no lock that another   *)
(* one has: they do not all wait for each other.  (Lockers may take the    *)
(* lock or not, depending on the list.)                                    *)
(***************************************************************************)
Busy == {t \in Threads : ~On(t, "idle")}

\* Where a thread is about to take a lock, if only for the time of a step.
Lockers(l) ==
  CASE l = "xitk" -> {"ask"} \cup (IF StdCtl THEN {} ELSE {"window"})
    [] l = "mmk"  -> {"title", "next", "list", "listPlay", "stopped", "step", "click",
                      "remove", "removed", "cleared"}
    [] l = "logo" -> {"flag", "logo"}

WaitsFor(t, l) == th[t].pc \in Lockers(l) /\ ~Free(t, l)

NoDeadlock == Busy # {} => \E t \in Busy : \A l \in Lock : ~WaitsFor(t, l)

(***************************************************************************)
(* logo_mode is "on its way" exactly while one thread is in                *)
(* gui_display_logo: _gui_xine_play relies on it not to claim the logo for *)
(* an entry.                                                               *)
(***************************************************************************)
LogoOnItsWay == logoMode = 2 <=> lock["logo"].by # Nobody

(***************************************************************************)
(* ignore_next is only set during a call: left set, it would keep the      *)
(* playlist from ever going on.                                            *)
(***************************************************************************)
IgnoreIsReleased == Busy = {} => ~ignoreNext

(***************************************************************************)
(* Not kept by the code (README).                                          *)
(* While the engine plays the logo, logo_mode says so: the listener takes  *)
(* the logo's end for the end of an entry otherwise ("that save us from a  *)
(* loop of death").                                                        *)
(***************************************************************************)
LogoIsFlagged == stream = [mrl |-> Logo, status |-> "play"] => logoMode # 0

(***************************************************************************)
(* When a step or a double click is over and an entry plays, it is the     *)
(* current entry of the playlist or an alternate of it, and gui->mmk is    *)
(* its mediamark, whatever was removed, stopped or answered before.  (A    *)
(* step to a cfg:/ entry plays nothing: ignore_next is set.)               *)
(***************************************************************************)
PlaysCurrent ==
  /\ InRange(mmk, cur) /\ At(mmk, cur).mrl = current.mrl
  /\ \/ stream.mrl = current.mrl
     \/ \E k \in DOMAIN At(mmk, cur).alts : stream.mrl = At(mmk, cur).alts[k]

StartsCurrent ==
  [][\A t \in Threads :
       Finish(t) /\ th[t].base \in {"next", "step", "dbl"}
         /\ stream.status = "play" /\ logoMode = 0 /\ current.mrl \notin Cfg
         => PlaysCurrent]_vars

(***************************************************************************)
(* A round of the playlist plays no entry twice, and in "no loop" takes    *)
(* them in the order of the list: the entry that start_next opens has not  *)
(* been played, those before it have.  (cfg:/ entries are never marked.)   *)
(* Nothing is said of "loop" and "repeat", which have no rounds, nor that  *)
(* a round gets to the end of the list.                                    *)
(***************************************************************************)
Turn(i) == /\ ~At(mmk, i).played
           /\ loop = "no_loop" =>
                \A k \in 0 .. i - 1 : At(mmk, k).played \/ At(mmk, k).mrl \in Cfg

InTurn ==
  [][\A t \in Threads :
       Open(t) /\ th[t].call = "list" /\ th[t].arg = current.mrl
         /\ loop \notin {"loop", "repeat"}
         => InRange(mmk, cur) /\ Turn(cur)]_vars

(***************************************************************************)
(* After the end of an entry something is on the screen: the next entry,   *)
(* the logo (unless --no-logo was given), or the question whether to start *)
(* it anyway.                                                              *)
(***************************************************************************)
SomethingShows ==
  DisplayLogo /\ Busy = {} /\ finished = <<>>
    => stream.status = "play" \/ dialog \/ stream.mrl = Logo

\* Not kept by the code (README): no call writes to an entry that is not in the array.
NoFault == ~fault

\* A call comes to its end.
CallsEnd == \A t \in Threads : ~On(t, "idle") ~> On(t, "idle")
=============================================================================
