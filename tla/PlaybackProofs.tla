--------------------------- MODULE PlaybackProofs ---------------------------
(***************************************************************************)
(* Theorems about Playback, for any threads, lists, kinds of mrls, number  *)
(* of calls and of queued events: its state is well typed, logo_mode is    *)
(* "on its way" exactly while a thread is in gui_display_logo, ignore_next *)
(* does not outlive the calls that raise it, and the threads do not        *)
(* deadlock unless one opens a window; and about the listener alone, that  *)
(* something is shown when it is done.                                     *)
(***************************************************************************)
EXTENDS Playback, SequenceTheorems, TLAPS

\* A function on 1 .. n into S is a sequence over S of length n.
LEMMA FunIsSeq ==
  ASSUME NEW S, NEW n \in Nat, NEW f \in [1 .. n -> S]
  PROVE  f \in Seq(S) /\ Len(f) = n
  OBVIOUS

LEMMA EmptyIsSeq == ASSUME NEW S PROVE <<>> \in Seq(S) /\ Len(<<>>) = 0
  OBVIOUS

\* What mediamark_copy leaves in gui->mmk is a mediamark.
LEMMA CopyType ==
  ASSUME NEW s \in Seq(Entry), NEW c \in Current, NEW i \in Int,
         i = NONE \/ InRange(s, i)
  PROVE  CopyOver(c, EntryOrNone(s, i)) \in Current
<1>1. CASE i = NONE
  BY <1>1, EmptyIsSeq DEF EntryOrNone, NoEntry, CopyOver, Current
<1>2. CASE i # NONE
  <2>1. At(s, i) \in Entry
    BY <1>2 DEF At, InRange
  <2> QED
    BY <1>2, <2>1 DEF EntryOrNone, CopyOver, Current, Entry
<1> QED
  BY <1>1, <1>2

\* gui_current_set_index stores NONE or the index of an entry.
LEMMA RealInside ==
  ASSUME NEW s \in Seq(Entry), NEW k \in Int, NEW i \in Int
  PROVE  /\ RealIndex(s, k, i) \in Int
         /\ RealIndex(s, k, i) = NONE \/ InRange(s, RealIndex(s, k, i))
  BY DEF RealIndex, Resolve, NONE, CURRENT

LEMMA ResetType ==
  ASSUME NEW s \in Seq(Entry)
  PROVE  ResetPlayed(s) \in Seq(Entry) /\ Len(ResetPlayed(s)) = Len(s)
<1>1. \A e \in Entry : [e EXCEPT !.played = FALSE] \in Entry
  BY DEF Entry
<1>2. \A k \in 1 .. Len(s) : s[k] \in Entry
  OBVIOUS
<1>3. DOMAIN s = 1 .. Len(s) /\ Len(s) \in Nat
  OBVIOUS
<1>4. [k \in 1 .. Len(s) |-> [s[k] EXCEPT !.played = FALSE]] \in [1 .. Len(s) -> Entry]
  BY <1>1, <1>2
<1> QED
  BY <1>3, <1>4, FunIsSeq DEF ResetPlayed

LEMMA MarkType ==
  ASSUME NEW s \in Seq(Entry), NEW i \in Int, InRange(s, i)
  PROVE  MarkPlayed(s, i) \in Seq(Entry) /\ Len(MarkPlayed(s, i)) = Len(s)
<1>1. i + 1 \in 1 .. Len(s) /\ s[i + 1] \in Entry
  BY DEF InRange
<1>2. [s[i + 1] EXCEPT !.played = TRUE] \in Entry
  BY <1>1 DEF Entry
<1> QED
  BY <1>1, <1>2, ExceptSeq DEF MarkPlayed

LEMMA RemoveType ==
  ASSUME NEW s \in Seq(Entry), NEW i \in Int, InRange(s, i)
  PROVE  Remove(s, i) \in Seq(Entry) /\ Len(Remove(s, i)) = Len(s) - 1
  BY FunIsSeq DEF Remove, InRange

LEMMA ShuffleType ==
  ASSUME NEW s \in Seq(Entry), NEW i \in Int
  PROVE  ShuffleNext(s, i) \subseteq Int
<1>1. CASE Len(s) >= 3 /\ i >= 0
  BY <1>1 DEF ShuffleNext, Unplayed
<1>2. CASE ~(Len(s) >= 3 /\ i >= 0)
  BY <1>2 DEF ShuffleNext
<1> QED
  BY <1>1, <1>2
-----------------------------------------------------------------------------
(***************************************************************************)
(* What a thread is doing.  InCall: in gui_xine_open_and_play or           *)
(* gui_xine_play; it then has a caller.  A thread that plays an entry of   *)
(* the playlist holds mmk_mutex (OfList), one that shows the logo holds    *)
(* logo_mutex (InLogo), one that is to remove an entry, or play the one    *)
(* that was clicked, relies on its index (Indexing).                       *)
(***************************************************************************)
PlayPc == {"open", "openFailed", "check", "ask", "play", "flag", "title", "playFailed",
           "succeeded", "rejected"}

Pc == PlayPc \cup
  {"idle", "finish", "window", "halt", "logo", "logoOpen", "logoEnd", "next", "advance",
   "wrap", "shuffle", "draw", "list", "listPlay", "unplayed", "gplay", "gplay2", "stop",
   "stopped", "step", "click", "remove", "removed", "cleared"}

Doing == [pc : Pc,
          base : {"none", "play", "stop", "close", "next", "step", "dbl", "delete",
                  "clear"},
          call : {"none", "list", "dbl", "play", "step", "logo", "answer"},
          arg : Mrl \cup {NoMrl, Logo}, todo : Seq(Mrl), report : BOOLEAN,
          to : Pc, idx : Int]

InCall(r) ==
  r.pc \in PlayPc \/ (r.pc = "window" /\ r.to \in {"rejected", "playFailed"})

OfList(r) == r.call \in {"list", "dbl"} /\ InCall(r)

InLogo(r) ==
  \/ r.pc \in {"logoOpen", "logoEnd"}
  \/ r.pc = "halt" /\ r.to = "logoOpen"
  \/ r.call = "logo" /\ InCall(r)

Indexing(r) ==
  r.pc = "click" \/ (r.base = "delete" /\ r.pc \notin {"removed", "finish"})

\* What a thread is doing makes sense: where it goes on, and for whom.
Sensible(r) ==
  /\ r.pc = "idle" => r = Idle
  /\ r.pc = "ask" => r.to = "succeeded"
  /\ r.pc = "window" => r.to \in {"rejected", "playFailed", "finish"}
  /\ r.pc = "halt" => r.to \in {"logoOpen", "gplay2", "stopped", "finish"}
  /\ InCall(r) => r.call # "none"
  /\ r.call = "logo" /\ InCall(r) => r.arg = Logo /\ r.todo = <<>>
  /\ r.pc = "listPlay" => r.call \in {"list", "dbl"}
  /\ r.pc \in {"remove", "removed"} => r.base = "delete"
  /\ r.pc = "click" => r.base = "dbl"

(***************************************************************************)
(* The inductive invariant.  ListHeld and LogoHeld say which locks a       *)
(* thread that gives one back has; logo_mode follows logo_mutex; raised    *)
(* ignore_next has somebody who clears it; only the GUI thread, which      *)
(* handles one event at a time, takes entries from the list, so that the   *)
(* index it works on stays one.                                            *)
(***************************************************************************)
Data ==
  /\ mmk \in Seq(Entry) /\ cur \in Int /\ current \in Current /\ loop \in LoopMode
  /\ stopAfter \subseteq Control /\ controls \in BOOLEAN /\ dialog \in BOOLEAN
  /\ ignoreNext \in BOOLEAN /\ logoMode \in 0 .. 2 /\ fault \in BOOLEAN
  /\ stream \in [mrl : Mrl \cup {NoMrl, Logo}, status : Status]
  /\ stream.status # "idle" => stream.mrl # NoMrl
  /\ finished \in Seq(Mrl \cup {Logo}) /\ left \in 0 .. MaxCommands

Locks ==
  /\ lock \in [Lock -> [by : Threads \cup {Nobody}, n : Nat]]
  /\ \A l \in Lock : lock[l].by = Nobody <=> lock[l].n = 0

Doings ==
  /\ th \in [Threads -> Doing]
  /\ \A t \in Threads : Sensible(th[t]) /\ (th[t].base # "none" => t = Gui)

Indexed == \A t \in Threads : Indexing(th[t]) => InRange(mmk, th[t].idx)

ListHeld == \A t \in Threads : OfList(th[t]) => lock["mmk"].by = t

LogoHeld ==
  /\ \A t \in Threads : InLogo(th[t]) <=> lock["logo"].by = t
  /\ lock["logo"].n <= 1
  /\ logoMode = 2 <=> lock["logo"].by # Nobody

IgnoreHeld == ignoreNext => \E t \in Threads : On(t, "halt") \/ th[t].base = "step"

IInv == Data /\ Locks /\ Doings /\ Indexed /\ ListHeld /\ LogoHeld /\ IgnoreHeld
-----------------------------------------------------------------------------
\* A thread that goes from q to r without a lock taken or given back keeps what
\* the invariant says of it.
Kept(q, r) ==
  /\ r \in Doing /\ Sensible(r)
  /\ r.base # "none" => q.base # "none"
  /\ Indexing(r) => Indexing(q) /\ r.idx = q.idx
  /\ OfList(r) => OfList(q)
  /\ InLogo(r) <=> InLogo(q)

Threaded == Doings /\ Indexed /\ ListHeld /\ LogoHeld

LEMMA Moved ==
  ASSUME IInv, NEW t \in Threads, NEW r, Kept(th[t], r), th' = [th EXCEPT ![t] = r],
         lock' = lock, logoMode' = 2 <=> logoMode = 2,
         mmk' \in Seq(Entry), Len(mmk') = Len(mmk)
  PROVE  Locks' /\ Threaded'
<1>1. th \in [Threads -> Doing] /\ r \in Doing
  BY DEF IInv, Doings, Kept
<1>2. \A u \in Threads : th'[u] = IF u = t THEN r ELSE th[u]
  BY <1>1
<1>3. Locks'
  BY DEF IInv, Locks
<1>4. Doings'
  BY <1>1, <1>2 DEF IInv, Doings, Kept
<1>5. Indexed'
  <2>1. \A u \in Threads : Indexing(th'[u]) => Indexing(th[u]) /\ th'[u].idx = th[u].idx
    BY <1>2 DEF Kept
  <2>2. \A i : InRange(mmk', i) <=> InRange(mmk, i)
    BY DEF InRange
  <2> QED
    BY <2>1, <2>2 DEF IInv, Indexed
<1>6. ListHeld'
  BY <1>2 DEF IInv, ListHeld, Kept
<1>7. LogoHeld'
  BY <1>2 DEF IInv, LogoHeld, Kept
<1> QED
  BY <1>3, <1>4, <1>5, <1>6, <1>7 DEF Threaded

\* ignore_next stays as it is, or is cleared, or the thread clears it later.
LEMMA IgnoreMoved ==
  ASSUME IInv, NEW t \in Threads, NEW r, th' = [th EXCEPT ![t] = r],
         ignoreNext' => \/ r.pc = "halt" \/ r.base = "step"
                        \/ ignoreNext /\ th[t].pc # "halt" /\ th[t].base # "step"
  PROVE  IgnoreHeld'
<1>1. th \in [Threads -> Doing]
  BY DEF IInv, Doings
<1>2. \A u \in Threads : th'[u] = IF u = t THEN r ELSE th[u]
  BY <1>1
<1> QED
  BY <1>2 DEF IInv, IgnoreHeld, On

LEMMA InitIInv == Init => IInv
<1> SUFFICES ASSUME Init PROVE IInv
  OBVIOUS
<1>1. PICK ms \in Lists :
        mmk = [k \in DOMAIN ms |->
                 [mrl |-> ms[k], alts |-> Alternates, played |-> Started /\ k = 1]]
  BY DEF Init
<1>2. ms \in Seq(Mrl) /\ Alternates \in Seq(Mrl)
  BY PlaybackAssumption
<1>3. mmk \in Seq(Entry) /\ Len(mmk) = Len(ms)
  <2>1. \A k \in 1 .. Len(ms) :
          [mrl |-> ms[k], alts |-> Alternates, played |-> Started /\ k = 1] \in Entry
    <3> SUFFICES ASSUME NEW k \in 1 .. Len(ms)
                 PROVE  [mrl |-> ms[k], alts |-> Alternates,
                         played |-> Started /\ k = 1] \in Entry
      OBVIOUS
    <3>1. ms[k] \in Mrl
      BY <1>2
    <3>2. (Started /\ k = 1) \in BOOLEAN
      OBVIOUS
    <3> QED
      BY <1>2, <3>1, <3>2 DEF Entry
  <2> QED
    BY <1>1, <1>2, <2>1, FunIsSeq
<1>4. cur \in Int /\ (cur = NONE \/ InRange(mmk, cur))
  BY <1>3, EmptySeq DEF Init, NONE, InRange
<1>5. current \in Current
  <2>1. [mrl |-> NoMrl, alts |-> <<>>] \in Current
    BY EmptyIsSeq DEF Current
  <2> QED
    BY <1>3, <1>4, <2>1, CopyType DEF Init
<1>6. Started => current.mrl \in Mrl
  <2> SUFFICES ASSUME Started PROVE current.mrl \in Mrl
    OBVIOUS
  <2>1. Len(mmk) > 0 /\ mmk # <<>>
    BY <1>2, <1>3, PlaybackAssumption
  <2>2. At(mmk, 0) \in Entry /\ cur = 0
    BY <1>3, <2>1 DEF At, Init
  <2> QED
    BY <2>2 DEF Init, CopyOver, EntryOrNone, Entry, NONE
<1>7. Data
  <2>1. \/ Started /\ stream = [mrl |-> current.mrl, status |-> "play"]
        \/ stream = [mrl |-> Logo, status |-> "play"]
        \/ stream = [mrl |-> NoMrl, status |-> "idle"]
    BY Zenon DEF Init
  <2>2. /\ stream \in [mrl : Mrl \cup {NoMrl, Logo}, status : Status]
        /\ stream.status # "idle" => stream.mrl # NoMrl
    BY <1>6, <2>1, PlaybackAssumption, MrlAssumption DEF Status
  <2>3. loop \in LoopMode /\ left \in 0 .. MaxCommands
    BY PlaybackAssumption DEF Init
  <2>4. controls \in BOOLEAN /\ logoMode \in 0 .. 2
    BY DEF Init
  <2> QED
    BY <1>3, <1>4, <1>5, <2>2, <2>3, <2>4, EmptyIsSeq DEF Init, Data
<1>8. \A l \in Lock : lock[l] = Unlocked
  BY DEF Init
<1>9. Idle \in Doing /\ Sensible(Idle) /\ ~InCall(Idle) /\ ~Indexing(Idle) /\ ~InLogo(Idle)
  BY EmptyIsSeq DEF Idle, Doing, Sensible, InCall, InLogo, Indexing, Pc, PlayPc, NONE
<1>10. th = [t \in Threads |-> Idle]
  BY DEF Init
<1>11. Locks
  BY <1>8 DEF Init, Locks, Unlocked
<1>12. Doings /\ Indexed /\ ListHeld
  BY <1>9, <1>10 DEF Doings, Indexed, ListHeld, OfList, Idle
<1>13. LogoHeld
  <2>1. lock["logo"] = Unlocked
    BY <1>8 DEF Lock
  <2>2. logoMode # 2
    BY DEF Init
  <2> QED
    BY <1>9, <1>10, <2>1, <2>2, PlaybackAssumption DEF LogoHeld, Unlocked
<1>14. IgnoreHeld
  BY DEF Init, IgnoreHeld
<1> QED
  BY <1>7, <1>11, <1>12, <1>13, <1>14 DEF IInv

-----------------------------------------------------------------------------
(* One lemma per action.  Those of gui_xine_open_and_play first. *)

LEMMA Here ==
  ASSUME IInv, NEW t \in Threads
  PROVE  /\ th \in [Threads -> Doing] /\ th[t] \in Doing /\ Sensible(th[t])
         /\ th[t].base # "none" => t = Gui
  BY DEF IInv, Doings

\* r is q, with another place to go on and another one to return to.
Turned(r, q, p, o) ==
  /\ r \in Doing /\ r.pc = p /\ r.to = o
  /\ r.base = q.base /\ r.call = q.call /\ r.arg = q.arg /\ r.todo = q.todo
  /\ r.idx = q.idx

\* Thread t does so.
Goes(t, p, o) ==
  \E r : th' = [th EXCEPT ![t] = r] /\ Turned(r, th[t], p, o)

LEMMA Went ==
  ASSUME IInv, NEW t \in Threads, NEW p \in Pc, Goto(t, p)
  PROVE  Goes(t, p, th[t].to)
<1> DEFINE r == [th[t] EXCEPT !.pc = p]
<1>1. Turned(r, th[t], p, th[t].to)
  BY Here DEF Doing, Turned
<1>2. th' = [th EXCEPT ![t] = r]
  BY DEF Goto
<1> QED
  BY <1>1, <1>2 DEF Goes

LEMMA WentVia ==
  ASSUME IInv, NEW t \in Threads, NEW p \in Pc, NEW o \in Pc, GotoVia(t, p, o)
  PROVE  Goes(t, p, o)
<1> DEFINE r == [th[t] EXCEPT !.pc = p, !.to = o]
<1>1. Turned(r, th[t], p, o)
  BY Here DEF Doing, Turned
<1>2. th' = [th EXCEPT ![t] = r]
  BY DEF GotoVia
<1> QED
  BY <1>1, <1>2 DEF Goes

\* From one place in a call to another one.
LEMMA Inside ==
  ASSUME NEW q \in Doing, Sensible(q), InCall(q), NEW r, NEW p, NEW o,
         Turned(r, q, p, o),
         \/ p \in PlayPc \ {"ask"}
         \/ p = "ask" /\ o = "succeeded"
         \/ p = "window" /\ o \in {"rejected", "playFailed"}
  PROVE  Kept(q, r)
<1>1. /\ InCall(r) /\ p \in PlayPc \cup {"window"}
      /\ q.pc \in PlayPc \cup {"window"}
  BY DEF InCall, Turned, PlayPc
<1>2. r \in Doing /\ (r.base # "none" => q.base # "none")
  BY DEF Turned
<1>3. Sensible(r)
  BY <1>1 DEF Sensible, Turned, PlayPc
<1>4. Indexing(r) => Indexing(q) /\ r.idx = q.idx
  BY <1>1 DEF Indexing, Turned, PlayPc
<1>5. OfList(r) => OfList(q)
  BY <1>1 DEF OfList, Turned
<1>6. InLogo(r) <=> InLogo(q)
  BY <1>1 DEF InLogo, Turned, PlayPc
<1> QED
  BY <1>2, <1>3, <1>4, <1>5, <1>6 DEF Kept

LEMMA InsideStep ==
  ASSUME IInv, NEW t \in Threads, InCall(th[t]), NEW p, NEW o, Goes(t, p, o),
         \/ p \in PlayPc \ {"ask"}
         \/ p = "ask" /\ o = "succeeded"
         \/ p = "window" /\ o \in {"rejected", "playFailed"},
         lock' = lock, logoMode' = 2 <=> logoMode = 2, ignoreNext' => ignoreNext,
         Data', Len(mmk') = Len(mmk)
  PROVE  IInv'
<1>1. PICK r : th' = [th EXCEPT ![t] = r] /\ Turned(r, th[t], p, o)
  BY DEF Goes
<1>2. Kept(th[t], r)
  BY <1>1, Here, Inside
<1>3. Locks' /\ Threaded'
  BY <1>1, <1>2, Moved DEF Data
<1>4. r.base = th[t].base /\ th[t].pc # "halt"
  BY <1>1 DEF Turned, InCall, PlayPc
<1>5. IgnoreHeld'
  BY <1>1, <1>4, IgnoreMoved
<1> QED
  BY <1>3, <1>5 DEF IInv, Threaded

\* Places outside of gui_xine_open_and_play and gui_display_logo where a thread
\* relies on nothing.
Outer == {"finish", "logo", "next", "advance", "wrap", "shuffle", "draw", "list",
          "unplayed", "gplay", "gplay2", "stop", "stopped", "step", "cleared"}

LEMMA Outwards ==
  ASSUME NEW q \in Doing, Sensible(q), ~InLogo(q),
         q.pc \notin {"finish", "removed"}, NEW r, NEW p, NEW o,
         Turned(r, q, p, o),
         \/ p \in Outer
         \/ p = "window" /\ o = "finish"
         \/ p = "halt" /\ o \in {"gplay2", "stopped", "finish"}
  PROVE  Kept(q, r)
<1>1. /\ ~InCall(r) /\ p \in Outer \cup {"window", "halt"}
      /\ p = "window" => o = "finish"
      /\ p = "halt" => o \in {"gplay2", "stopped", "finish"}
  BY DEF InCall, Turned, PlayPc, Outer
<1>2. r \in Doing /\ (r.base # "none" => q.base # "none")
  BY DEF Turned
<1>3. Sensible(r)
  BY <1>1 DEF Sensible, Turned, Outer
<1>4. Indexing(r) => Indexing(q) /\ r.idx = q.idx
  BY <1>1 DEF Indexing, Turned, Outer
<1>5. OfList(r) => OfList(q)
  BY <1>1 DEF OfList
<1>6. ~InLogo(r)
  BY <1>1 DEF InLogo, Turned, Outer
<1> QED
  BY <1>2, <1>3, <1>4, <1>5, <1>6 DEF Kept

LEMMA OuterStep ==
  ASSUME IInv, NEW t \in Threads, ~InLogo(th[t]),
         th[t].pc \notin {"finish", "removed"}, NEW p, NEW o, Goes(t, p, o),
         \/ p \in Outer
         \/ p = "window" /\ o = "finish"
         \/ p = "halt" /\ o \in {"gplay2", "stopped", "finish"},
         lock' = lock, logoMode' = 2 <=> logoMode = 2,
         ignoreNext' => (ignoreNext /\ th[t].pc # "halt") \/ p = "halt",
         Data', Len(mmk') = Len(mmk)
  PROVE  IInv'
<1>1. PICK r : th' = [th EXCEPT ![t] = r] /\ Turned(r, th[t], p, o)
  BY DEF Goes
<1>2. Kept(th[t], r)
  BY <1>1, Here, Outwards
<1>3. Locks' /\ Threaded'
  BY <1>1, <1>2, Moved DEF Data
<1>4. r.base = th[t].base /\ r.pc = p
  BY <1>1 DEF Turned
<1>5. IgnoreHeld'
  BY <1>1, <1>4, IgnoreMoved
<1> QED
  BY <1>3, <1>5 DEF IInv, Threaded

LEMMA OpenedType ==
  ASSUME NEW m \in Mrl \cup {NoMrl, Logo}
  PROVE  /\ Opened(m) \in [mrl : Mrl \cup {NoMrl, Logo}, status : Status]
         /\ Opened(m).status # "idle" => Opened(m).mrl # NoMrl
  BY DEF Opened, Opens, Status

LEMMA OpenKeeps == ASSUME IInv, NEW t \in Threads, Open(t) PROVE IInv'
<1>1. th[t].pc = "open" /\ InCall(th[t])
  BY DEF Open, On, InCall, PlayPc
<1>2. /\ UNCHANGED <<list, widget, ignoreNext, logoMode, finished, lock, fault>>
      /\ stream' \in {stream, Opened(th[t].arg)}
  BY DEF Open
<1>3. Data'
  <2>1. th[t].arg \in Mrl \cup {NoMrl, Logo}
    BY Here DEF Doing
  <2> QED
    BY <1>2, <2>1, OpenedType DEF IInv, Data, list, widget
<1>4. CASE th[t].arg \in Cfg
  <2>1. Goes(t, "next", th[t].to)
    BY <1>4, Went DEF Open, Pc
  <2>2. ~InLogo(th[t])
    BY <1>1, <1>4, Here, PlaybackAssumption DEF Sensible, InLogo
  <2> QED
    BY <1>1, <1>2, <1>3, <2>1, <2>2, OuterStep DEF Outer, list
<1>5. CASE th[t].arg \notin Cfg
  <2>1. Goes(t, "check", th[t].to) \/ Goes(t, "openFailed", th[t].to)
    BY <1>5, Went DEF Open, Pc, PlayPc
  <2> QED
    BY <1>1, <1>2, <1>3, <2>1, InsideStep DEF PlayPc, list
<1> QED
  BY <1>4, <1>5

LEMMA MarkData ==
  ASSUME IInv, NEW t \in Threads, Mark(t),
         UNCHANGED <<widget, ignoreNext, logoMode, engine>>
  PROVE  Data' /\ Len(mmk') = Len(mmk)
<1>1. CASE mmk' = MarkPlayed(mmk, cur) /\ InRange(mmk, cur) /\ UNCHANGED fault
  BY <1>1, MarkType DEF IInv, Data, Mark, widget, engine
<1>2. CASE mmk' = mmk /\ fault' \in {TRUE, fault}
  BY <1>2 DEF IInv, Data, Mark, widget, engine
<1> QED
  BY <1>1, <1>2 DEF Mark

LEMMA OpenFailedKeeps == ASSUME IInv, NEW t \in Threads, OpenFailed(t) PROVE IInv'
<1>1. InCall(th[t])
  BY DEF OpenFailed, On, InCall, PlayPc
<1>2. Mark(t) /\ UNCHANGED <<widget, ignoreNext, logoMode, engine, lock>>
  BY DEF OpenFailed
<1>3. Data' /\ Len(mmk') = Len(mmk)
  BY <1>2, MarkData
<1>4. Goes(t, "window", "rejected") \/ Goes(t, "rejected", th[t].to)
  BY Went, WentVia DEF OpenFailed, Pc, PlayPc
<1> QED
  BY <1>1, <1>2, <1>3, <1>4, InsideStep DEF PlayPc

LEMMA CheckKeeps == ASSUME IInv, NEW t \in Threads, Check(t) PROVE IInv'
<1>1. InCall(th[t])
  BY DEF Check, On, InCall, PlayPc
<1>2. /\ UNCHANGED <<list, stopAfter, controls, left, ignoreNext, logoMode, engine,
                     lock, fault>>
      /\ dialog' \in {TRUE, dialog}
  BY DEF Check
<1>3. Data'
  BY <1>2 DEF IInv, Data, list, engine
<1>4. \/ Goes(t, "playFailed", th[t].to) \/ Goes(t, "play", th[t].to)
      \/ Goes(t, "ask", "succeeded")
  BY Went, WentVia DEF Check, Pc, PlayPc
<1> QED
  BY <1>1, <1>2, <1>3, <1>4, InsideStep DEF PlayPc, list

LEMMA WindowKeeps == ASSUME IInv, NEW t \in Threads, Window(t) PROVE IInv'
<1>1. th[t].pc = "window" /\ th[t].to \in {"rejected", "playFailed", "finish"}
  BY Here DEF Window, On, Sensible
<1>2. UNCHANGED <<list, widget, ignoreNext, logoMode, engine, lock, fault>>
  BY DEF Window
<1>3. Data'
  BY <1>2 DEF IInv, Data, list, widget, engine
<1>4. Goes(t, th[t].to, th[t].to)
  BY <1>1, Went DEF Window, Pc, PlayPc
<1>5. CASE th[t].to = "finish"
  <2>1. ~InLogo(th[t])
    BY <1>1, <1>5 DEF InLogo, InCall, PlayPc
  <2> QED
    BY <1>1, <1>2, <1>3, <1>4, <1>5, <2>1, OuterStep DEF Outer, list
<1>6. CASE th[t].to # "finish"
  <2>1. InCall(th[t])
    BY <1>1, <1>6 DEF InCall
  <2>2. th[t].to \in PlayPc \ {"ask"}
    BY <1>1, <1>6 DEF PlayPc
  <2> QED
    BY <1>2, <1>3, <1>4, <2>1, <2>2, InsideStep DEF list
<1> QED
  BY <1>5, <1>6

LEMMA AskKeeps == ASSUME IInv, NEW t \in Threads, Ask(t) PROVE IInv'
<1>1. th[t].pc = "ask" /\ th[t].to = "succeeded" /\ InCall(th[t])
  BY Here DEF Ask, On, Sensible, InCall, PlayPc
<1>2. UNCHANGED <<list, widget, ignoreNext, logoMode, engine, lock, fault>>
  BY DEF Ask
<1>3. Data'
  BY <1>2 DEF IInv, Data, list, widget, engine
<1>4. Goes(t, "succeeded", "succeeded")
  BY <1>1, Went DEF Ask, Pc, PlayPc
<1> QED
  BY <1>1, <1>2, <1>3, <1>4, InsideStep DEF PlayPc, list

LEMMA PlayKeeps == ASSUME IInv, NEW t \in Threads, Play(t) PROVE IInv'
<1>1. InCall(th[t])
  BY DEF Play, On, InCall, PlayPc
<1>2. UNCHANGED <<list, widget, ignoreNext, logoMode, finished, lock, fault>>
  BY DEF Play
<1>3. Data'
  <2>1. CASE Plays(stream) /\ stream' = [stream EXCEPT !.status = "play"]
    BY <1>2, <2>1 DEF IInv, Data, list, widget, Plays, Status
  <2>2. CASE stream' = stream
    BY <1>2, <2>2 DEF IInv, Data, list, widget
  <2> QED
    BY <2>1, <2>2 DEF Play
<1>4. Goes(t, "flag", th[t].to) \/ Goes(t, "window", "playFailed")
  BY Went, WentVia DEF Play, Pc, PlayPc
<1> QED
  BY <1>1, <1>2, <1>3, <1>4, InsideStep DEF PlayPc, list

LEMMA FlagKeeps == ASSUME IInv, NEW t \in Threads, Flag(t) PROVE IInv'
<1>1. InCall(th[t])
  BY DEF Flag, On, InCall, PlayPc
<1>2. UNCHANGED <<list, widget, ignoreNext, engine, lock, fault>>
  BY DEF Flag
<1>3. logoMode' \in 0 .. 2 /\ (logoMode' = 2 <=> logoMode = 2)
  BY DEF Flag
<1>4. Data'
  BY <1>2, <1>3 DEF IInv, Data, list, widget, engine
<1>5. Goes(t, "title", th[t].to) \/ Goes(t, "succeeded", th[t].to)
  BY Went DEF Flag, Pc, PlayPc
<1> QED
  BY <1>1, <1>2, <1>3, <1>4, <1>5, InsideStep DEF PlayPc, list

\* gui_current_set_index leaves a playlist and a copy of one of its entries.
LEMMA SetData ==
  ASSUME IInv, NEW t \in Threads, NEW i \in Int, SetCurrent(t, i),
         stopAfter' \subseteq Control, controls' \in BOOLEAN, UNCHANGED <<dialog, left>>,
         UNCHANGED <<ignoreNext, logoMode, engine, fault>>
  PROVE  Data' /\ mmk' = mmk
<1>1. cur' \in Int /\ (cur' = NONE \/ InRange(mmk, cur')) /\ mmk' = mmk /\ loop' = loop
  BY RealInside DEF SetCurrent, IInv, Data
<1>2. current' \in Current
  BY <1>1, CopyType DEF SetCurrent, IInv, Data
<1> QED
  BY <1>1, <1>2 DEF IInv, Data, engine

LEMMA TitleKeeps == ASSUME IInv, NEW t \in Threads, Title(t) PROVE IInv'
<1>1. InCall(th[t])
  BY DEF Title, On, InCall, PlayPc
<1>2. /\ SetCurrent(t, CURRENT)
      /\ UNCHANGED <<widget, ignoreNext, logoMode, engine, lock, fault>>
  BY DEF Title
<1>3. Data' /\ mmk' = mmk
  <2>1. CURRENT \in Int /\ stopAfter' \subseteq Control /\ controls' \in BOOLEAN
    BY <1>2 DEF IInv, Data, widget, CURRENT
  <2> QED
    BY <1>2, <2>1, SetData DEF widget
<1>4. Goes(t, "succeeded", th[t].to)
  BY Went DEF Title, Pc, PlayPc
<1> QED
  BY <1>1, <1>2, <1>3, <1>4, InsideStep DEF PlayPc

\* Mark, or nothing for the caller that marks no entry.
LEMMA MarkedData ==
  ASSUME IInv, NEW t \in Threads, Mark(t) \/ UNCHANGED <<list, fault>>,
         UNCHANGED <<widget, ignoreNext, logoMode, engine>>
  PROVE  Data' /\ Len(mmk') = Len(mmk)
<1>1. CASE UNCHANGED <<list, fault>>
  BY <1>1 DEF IInv, Data, list, widget, engine
<1> QED
  BY <1>1, MarkData

LEMMA PlayFailedKeeps == ASSUME IInv, NEW t \in Threads, PlayFailed(t) PROVE IInv'
<1>1. InCall(th[t])
  BY DEF PlayFailed, On, InCall, PlayPc
<1>2. /\ Mark(t) \/ UNCHANGED <<list, fault>>
      /\ UNCHANGED <<widget, ignoreNext, logoMode, engine, lock>>
  BY DEF PlayFailed
<1>3. Data' /\ Len(mmk') = Len(mmk)
  BY <1>2, MarkedData
<1>4. Goes(t, "rejected", th[t].to)
  BY Went DEF PlayFailed, Pc, PlayPc
<1> QED
  BY <1>1, <1>2, <1>3, <1>4, InsideStep DEF PlayPc

\* Within gui_display_logo.
LEMMA LogoStep ==
  ASSUME IInv, NEW t \in Threads, InLogo(th[t]), NEW p \in {"logoOpen", "logoEnd"}, NEW o,
         Goes(t, p, o), lock' = lock, logoMode' = 2 <=> logoMode = 2,
         ignoreNext' => ignoreNext /\ th[t].pc # "halt", Data', Len(mmk') = Len(mmk)
  PROVE  IInv'
<1>1. PICK r : th' = [th EXCEPT ![t] = r] /\ Turned(r, th[t], p, o)
  BY DEF Goes
<1>2. r.pc = p /\ ~InCall(r) /\ InLogo(r)
  BY <1>1 DEF Turned, InCall, InLogo, PlayPc
<1>3. th[t].pc \notin {"removed", "finish"}
  BY DEF InLogo, InCall, PlayPc
<1>4. Indexing(r) => Indexing(th[t]) /\ r.idx = th[t].idx
  BY <1>1, <1>2, <1>3 DEF Indexing, Turned
<1>5. Sensible(r)
  BY <1>2 DEF Sensible
<1>6. Kept(th[t], r)
  BY <1>1, <1>2, <1>4, <1>5 DEF Kept, OfList, Turned
<1>7. Locks' /\ Threaded'
  BY <1>1, <1>6, Moved DEF Data
<1>8. r.base = th[t].base
  BY <1>1 DEF Turned
<1>9. IgnoreHeld'
  BY <1>1, <1>8, IgnoreMoved
<1> QED
  BY <1>7, <1>9 DEF IInv, Threaded

LEMMA SucceededKeeps == ASSUME IInv, NEW t \in Threads, Succeeded(t) PROVE IInv'
<1>1. th[t].pc = "succeeded" /\ InCall(th[t])
  BY DEF Succeeded, On, InCall, PlayPc
<1>2. /\ Mark(t) \/ UNCHANGED <<list, fault>>
      /\ UNCHANGED <<widget, ignoreNext, logoMode, engine, lock>>
  BY DEF Succeeded
<1>3. Data' /\ Len(mmk') = Len(mmk)
  BY <1>2, MarkedData
<1>4. CASE th[t].call = "logo"
  <2>1. Goes(t, "logoEnd", th[t].to)
    BY <1>4, Went DEF Succeeded, Pc
  <2>2. InLogo(th[t])
    BY <1>1, <1>4 DEF InLogo
  <2> QED
    BY <1>1, <1>2, <1>3, <2>1, <2>2, LogoStep
<1>5. CASE th[t].call # "logo"
  <2>1. Goes(t, "finish", th[t].to)
    BY <1>5, Went DEF Succeeded, Pc
  <2>2. ~InLogo(th[t])
    BY <1>1, <1>5 DEF InLogo
  <2> QED
    BY <1>1, <1>2, <1>3, <2>1, <2>2, OuterStep DEF Outer
<1> QED
  BY <1>4, <1>5

-----------------------------------------------------------------------------
(* The locks. *)

LEMMA Take ==
  ASSUME Locks, NEW t \in Threads, NEW l \in Lock, Free(t, l), lock' = Taken(t, l)
  PROVE  /\ Locks'
         /\ lock'[l].by = t /\ lock'[l].n = lock[l].n + 1
         /\ \A k \in Lock \ {l} : lock'[k] = lock[k]
<1>1. lock'[l] = [by |-> t, n |-> lock[l].n + 1]
  BY DEF Locks, Taken
<1>2. \A k \in Lock \ {l} : lock'[k] = lock[k]
  BY DEF Locks, Taken
<1>3. lock[l].n + 1 \in Nat \ {0}
  BY DEF Locks
<1>4. lock' \in [Lock -> [by : Threads \cup {Nobody}, n : Nat]]
  BY <1>3 DEF Locks, Taken
<1>5. \A k \in Lock : lock'[k].by = Nobody <=> lock'[k].n = 0
  <2>1. lock'[l].by # Nobody /\ lock'[l].n # 0
    BY <1>1, <1>3, PlaybackAssumption
  <2> QED
    BY <1>2, <2>1 DEF Locks
<1> QED
  BY <1>1, <1>2, <1>4, <1>5 DEF Locks

LEMMA Drop ==
  ASSUME Locks, NEW t \in Threads, NEW l \in Lock, lock[l].by = t, lock' = Dropped(l)
  PROVE  /\ Locks'
         /\ lock'[l] = Unlocked \/ lock'[l].by = t
         /\ lock[l].n <= 1 => lock'[l] = Unlocked
         /\ \A k \in Lock \ {l} : lock'[k] = lock[k]
<1>1. lock[l] \in [by : Threads \cup {Nobody}, n : Nat] /\ lock[l].n # 0
  BY PlaybackAssumption DEF Locks
<1> DEFINE new == IF lock[l].n = 1 THEN Unlocked ELSE [by |-> lock[l].by, n |-> lock[l].n - 1]
<1>2. lock' = [lock EXCEPT ![l] = new]
  <2>1. CASE lock[l].n = 1
    BY <2>1 DEF Dropped
  <2>2. CASE lock[l].n # 1
    BY <2>2 DEF Dropped
  <2> QED
    BY <2>1, <2>2
<1>3. CASE lock[l].n = 1
  <2>1. new = Unlocked
    BY <1>3
  <2> HIDE DEF new
  <2>2. Unlocked \in [by : Threads \cup {Nobody}, n : Nat]
    BY DEF Unlocked
  <2>3. lock' \in [Lock -> [by : Threads \cup {Nobody}, n : Nat]]
    BY <1>2, <2>1, <2>2 DEF Locks
  <2> QED
    BY <1>2, <2>1, <2>3 DEF Locks, Unlocked
<1>4. CASE lock[l].n # 1
  <2>1. new = [by |-> lock[l].by, n |-> lock[l].n - 1] /\ ~(lock[l].n <= 1)
    BY <1>1, <1>4
  <2>2. new \in [by : Threads \cup {Nobody}, n : Nat] /\ new.by = t /\ new.n # 0
    BY <1>1, <1>4, <2>1
  <2> HIDE DEF new
  <2>3. lock' \in [Lock -> [by : Threads \cup {Nobody}, n : Nat]]
    BY <1>2, <2>2 DEF Locks
  <2> QED
    BY <1>2, <2>1, <2>2, <2>3, PlaybackAssumption DEF Locks
<1> QED
  BY <1>3, <1>4

LEMMA DropAll ==
  ASSUME Locks, NEW t \in Threads, lock' = DroppedAll(t)
  PROVE  /\ Locks'
         /\ \A l \in Lock : lock'[l] = IF lock[l].by = t THEN Unlocked ELSE lock[l]
<1>1. \A l \in Lock : lock'[l] = IF lock[l].by = t THEN Unlocked ELSE lock[l]
  BY DEF DroppedAll
<1>2. Unlocked \in [by : Threads \cup {Nobody}, n : Nat]
  BY DEF Unlocked
<1>3. lock' \in [Lock -> [by : Threads \cup {Nobody}, n : Nat]]
  BY <1>2 DEF DroppedAll, Locks
<1> QED
  BY <1>1, <1>3 DEF Locks, Unlocked

\* The parts of the invariant, when a thread goes on and locks change.
LEMMA DoingMoved ==
  ASSUME Doings, NEW t \in Threads, NEW r \in Doing, th' = [th EXCEPT ![t] = r],
         Sensible(r), r.base # "none" => t = Gui
  PROVE  Doings' /\ \A u \in Threads : th'[u] = IF u = t THEN r ELSE th[u]
<1>1. \A u \in Threads : th'[u] = IF u = t THEN r ELSE th[u]
  BY DEF Doings
<1> QED
  BY <1>1 DEF Doings

LEMMA ListMoved ==
  ASSUME ListHeld, NEW t \in Threads, NEW r,
         \A u \in Threads : th'[u] = IF u = t THEN r ELSE th[u],
         \A u \in Threads \ {t} : lock["mmk"].by = u => lock'["mmk"].by = u,
         OfList(r) => lock'["mmk"].by = t
  PROVE  ListHeld'
  BY DEF ListHeld

LEMMA LogoMoved ==
  ASSUME LogoHeld, NEW t \in Threads, NEW r,
         \A u \in Threads : th'[u] = IF u = t THEN r ELSE th[u],
         lock'["logo"] = lock["logo"], InLogo(r) <=> InLogo(th[t]), logoMode' = logoMode
  PROVE  LogoHeld'
  BY DEF LogoHeld

LEMMA IndexMoved ==
  ASSUME Indexed, NEW t \in Threads, NEW r,
         \A u \in Threads : th'[u] = IF u = t THEN r ELSE th[u],
         Len(mmk') = Len(mmk), Indexing(r) => Indexing(th[t]) /\ r.idx = th[t].idx
  PROVE  Indexed'
<1>1. \A i : InRange(mmk', i) <=> InRange(mmk, i)
  BY DEF InRange
<1> QED
  BY <1>1 DEF Indexed
-----------------------------------------------------------------------------
(* gui_open_and_play_alternates and those who call gui_xine_open_and_play. *)

\* r is q with a call of gui_xine_open_and_play begun.
Begun(r, q, who, m, alts) ==
  /\ r \in Doing /\ r.pc = "open" /\ r.call = who /\ r.arg = m /\ r.todo = alts
  /\ r.base = q.base /\ r.to = q.to /\ r.idx = q.idx

LEMMA Calls ==
  ASSUME IInv, NEW t \in Threads, NEW who \in {"list", "dbl", "play", "step", "logo", "answer"},
         NEW m \in Mrl \cup {NoMrl, Logo}, NEW alts \in Seq(Mrl), NEW told,
         told \in BOOLEAN, Call(t, who, m, alts, told)
  PROVE  \E r : th' = [th EXCEPT ![t] = r] /\ Begun(r, th[t], who, m, alts)
<1> DEFINE r == [th[t] EXCEPT !.pc = "open", !.call = who, !.arg = m, !.todo = alts,
                              !.report = told]
<1>1. th' = [th EXCEPT ![t] = r]
  BY DEF Call
<1>2. r \in Doing
  <2> DEFINE q == [th[t] EXCEPT !.pc = "open", !.call = who]
  <2>1. q \in Doing
    <3>1. "open" \in Pc
      BY DEF Pc, PlayPc
    <3> QED
      BY <3>1, Here DEF Doing
  <2>2. r = [q EXCEPT !.arg = m, !.todo = alts, !.report = told]
    BY Here DEF Doing
  <2> HIDE DEF q
  <2> QED
    BY <2>1, <2>2 DEF Doing
<1>3. Begun(r, th[t], who, m, alts)
  BY <1>2, Here DEF Begun, Doing
<1> QED
  BY <1>1, <1>3

\* Such a record makes sense for every caller but the logo, and for the logo.
LEMMA BegunSense ==
  ASSUME NEW q, NEW r, NEW who, NEW m, NEW alts, Begun(r, q, who, m, alts),
         who \in {"list", "dbl", "play", "step", "answer"}
           \/ (who = "logo" /\ m = Logo /\ alts = <<>>)
  PROVE  /\ Sensible(r) /\ InCall(r)
         /\ OfList(r) <=> who \in {"list", "dbl"}
         /\ InLogo(r) <=> who = "logo"
         /\ r.base = q.base /\ r.idx = q.idx /\ (Indexing(r) <=> r.base = "delete")
<1>1. r.pc = "open" /\ r.call = who /\ r.arg = m /\ r.todo = alts
  BY DEF Begun
<1>2. InCall(r)
  BY <1>1 DEF InCall, PlayPc
<1>3. Sensible(r)
  BY <1>1, <1>2 DEF Sensible
<1> QED
  BY <1>1, <1>2, <1>3 DEF Begun, OfList, InLogo, Indexing

LEMMA CallStep ==
  ASSUME IInv, NEW t \in Threads, NEW who, NEW m, NEW alts, NEW r,
         Begun(r, th[t], who, m, alts), th' = [th EXCEPT ![t] = r],
         who \in {"list", "dbl", "play", "step", "answer"}
           \/ (who = "logo" /\ m = Logo /\ alts = <<>>),
         InLogo(th[t]) <=> who = "logo",
         who \in {"list", "dbl"} => OfList(th[t]),
         th[t].pc \notin {"idle", "removed", "finish", "halt"},
         lock' = lock, ignoreNext' = ignoreNext, logoMode' = logoMode,
         Data', Len(mmk') = Len(mmk)
  PROVE  IInv'
<1>1. Indexing(r) => Indexing(th[t])
  BY BegunSense DEF Indexing
<1>2. Kept(th[t], r)
  BY <1>1, BegunSense DEF Kept, Begun
<1>3. Locks' /\ Threaded'
  BY <1>2, Moved DEF Data
<1>4. r.base = th[t].base
  BY DEF Begun
<1>5. IgnoreHeld'
  BY <1>4, IgnoreMoved
<1> QED
  BY <1>3, <1>5 DEF IInv, Threaded

\* The playlist's mutex is given back, the thread goes on with nothing to rely on.
LEMMA ListDropped ==
  ASSUME IInv, NEW t \in Threads, OfList(th[t]), NEW p \in {"unplayed", "logo"},
         Goes(t, p, th[t].to), lock' = Dropped("mmk"), ignoreNext' = ignoreNext,
         logoMode' = logoMode, Data', Len(mmk') = Len(mmk)
  PROVE  IInv'
<1>1. PICK r : th' = [th EXCEPT ![t] = r] /\ Turned(r, th[t], p, th[t].to)
  BY DEF Goes
<1>2. /\ lock["mmk"].by = t /\ "mmk" \in Lock /\ "logo" \in Lock
      /\ th[t].call # "logo" /\ th[t].pc \in PlayPc \cup {"window"}
  BY DEF IInv, ListHeld, Lock, OfList, InCall
<1>3. ~InLogo(th[t]) /\ th[t].pc \notin {"idle", "finish", "removed", "halt"}
  BY <1>2 DEF InLogo, PlayPc
<1>4. Kept(th[t], r)
  BY <1>1, <1>3, Here, Outwards DEF Outer
<1>5. Locks' /\ lock'["logo"] = lock["logo"]
  BY <1>2, Drop DEF IInv
<1>6. Doings' /\ \A u \in Threads : th'[u] = IF u = t THEN r ELSE th[u]
  BY <1>1, <1>4, Here, DoingMoved DEF Kept, IInv
<1>7. Indexed'
  BY <1>4, <1>6, IndexMoved DEF Kept, IInv
<1>8. ListHeld'
  <2>1. ~OfList(r)
    BY <1>1 DEF OfList, InCall, Turned, PlayPc
  <2> QED
    BY <1>2, <1>6, <2>1, ListMoved DEF IInv
<1>9. LogoHeld'
  BY <1>4, <1>5, <1>6, LogoMoved DEF Kept, IInv
<1>10. IgnoreHeld'
  BY <1>1, <1>3, IgnoreMoved DEF Turned
<1> QED
  BY <1>5, <1>6, <1>7, <1>8, <1>9, <1>10 DEF IInv

LEMMA RejectedKeeps == ASSUME IInv, NEW t \in Threads, Rejected(t) PROVE IInv'
<1>1. th[t].pc = "rejected" /\ InCall(th[t])
  BY DEF Rejected, On, InCall, PlayPc
<1>2. UNCHANGED <<list, widget, ignoreNext, logoMode, engine, fault>>
  BY DEF Rejected
<1>3. Data'
  BY <1>2 DEF IInv, Data, list, widget, engine
<1>4. /\ th[t].call \in {"list", "dbl", "play", "step", "logo", "answer"}
      /\ th[t].todo \in Seq(Mrl) /\ (th[t].call = "logo" => th[t].todo = <<>>)
  BY <1>1, Here DEF Sensible, Doing
<1>5. CASE th[t].todo # <<>>
  <2>1. /\ Call(t, th[t].call, Head(th[t].todo), Tail(th[t].todo), FALSE)
        /\ lock' = lock
    BY <1>5 DEF Rejected
  <2>2. Head(th[t].todo) \in Mrl \cup {NoMrl, Logo} /\ Tail(th[t].todo) \in Seq(Mrl)
    BY <1>4, <1>5, HeadTailProperties
  <2>3. PICK r : /\ th' = [th EXCEPT ![t] = r]
                 /\ Begun(r, th[t], th[t].call, Head(th[t].todo), Tail(th[t].todo))
    BY <1>4, <2>1, <2>2, Calls
  <2>4. th[t].call # "logo" /\ ~InLogo(th[t])
    BY <1>1, <1>4, <1>5 DEF InLogo
  <2>5. th[t].call \in {"list", "dbl"} => OfList(th[t])
    BY <1>1 DEF OfList
  <2> QED
    BY <1>1, <1>2, <1>3, <1>4, <2>1, <2>3, <2>4, <2>5, CallStep DEF list
<1>6. CASE th[t].todo = <<>> /\ th[t].call \in {"list", "dbl"}
  <2>1. lock' = Dropped("mmk") /\ OfList(th[t])
    BY <1>1, <1>6 DEF Rejected, OfList
  <2>2. Goes(t, "unplayed", th[t].to) \/ Goes(t, "logo", th[t].to)
    <3>1. CASE th[t].call = "list"
      BY <1>6, <3>1, Went DEF Rejected, Pc
    <3>2. CASE th[t].call = "dbl"
      BY <1>6, <3>2, Went DEF Rejected, Pc
    <3> QED
      BY <1>6, <3>1, <3>2
  <2> QED
    BY <1>2, <1>3, <2>1, <2>2, ListDropped DEF list
<1>7. CASE th[t].todo = <<>> /\ th[t].call = "logo"
  <2>1. Goes(t, "logoEnd", th[t].to) /\ lock' = lock
    BY <1>7, Went DEF Rejected, Pc
  <2>2. InLogo(th[t])
    BY <1>1, <1>7 DEF InLogo
  <2> QED
    BY <1>1, <1>2, <1>3, <2>1, <2>2, LogoStep DEF list
<1>8. CASE th[t].todo = <<>> /\ th[t].call \in {"play", "step", "answer"}
  <2>1. lock' = lock /\ ~InLogo(th[t])
    BY <1>1, <1>8 DEF Rejected, InLogo
  <2>2. Goes(t, "logo", th[t].to) \/ Goes(t, "finish", th[t].to)
    <3>1. CASE th[t].call \in {"play", "step"}
      BY <1>8, <3>1, Went DEF Rejected, Pc
    <3>2. CASE th[t].call = "answer"
      BY <1>8, <3>2, Went DEF Rejected, Pc
    <3> QED
      BY <1>8, <3>1, <3>2
  <2> QED
    BY <1>1, <1>2, <1>3, <2>1, <2>2, OuterStep DEF Outer, list
<1> QED
  BY <1>4, <1>5, <1>6, <1>7, <1>8

LEMMA ListPlayKeeps == ASSUME IInv, NEW t \in Threads, ListPlay(t) PROVE IInv'
<1>1. /\ th[t].pc = "listPlay" /\ th[t].call \in {"list", "dbl"}
      /\ ~InLogo(th[t]) /\ Free(t, "mmk") /\ lock' = Taken(t, "mmk")
  BY Here DEF ListPlay, On, Sensible, InLogo, InCall, PlayPc
<1>2. UNCHANGED <<list, widget, ignoreNext, logoMode, engine, fault>>
  BY DEF ListPlay
<1>3. Data'
  BY <1>2 DEF IInv, Data, list, widget, engine
<1>4. current.mrl \in Mrl \cup {NoMrl, Logo} /\ current.alts \in Seq(Mrl)
  BY DEF IInv, Data, Current
<1>5. PICK r : /\ th' = [th EXCEPT ![t] = r]
               /\ Begun(r, th[t], th[t].call, current.mrl, current.alts)
  <2>1. PICK told \in BOOLEAN : Call(t, th[t].call, current.mrl, current.alts, told)
    BY Zenon DEF ListPlay
  <2>2. th[t].call \in {"list", "dbl", "play", "step", "logo", "answer"}
    BY <1>1
  <2> QED
    BY <1>4, <2>1, <2>2, Calls
<1>6. Locks' /\ lock'["logo"] = lock["logo"] /\ lock'["mmk"].by = t
  <2>1. "mmk" \in Lock /\ "logo" \in Lock \ {"mmk"}
    BY DEF Lock
  <2> QED
    BY <1>1, <2>1, Take DEF IInv
<1>7. /\ Sensible(r) /\ ~InLogo(r) /\ r.base = th[t].base /\ r.idx = th[t].idx
      /\ Indexing(r) => Indexing(th[t])
  BY <1>1, <1>5, BegunSense DEF Indexing
<1>8. Doings' /\ \A u \in Threads : th'[u] = IF u = t THEN r ELSE th[u]
  BY <1>5, <1>7, Here, DoingMoved DEF Begun, IInv
<1>9. Indexed' /\ LogoHeld'
  BY <1>1, <1>2, <1>6, <1>7, <1>8, IndexMoved, LogoMoved DEF IInv, list
<1>10. ListHeld'
  <2>1. \A u \in Threads \ {t} : lock["mmk"].by # u
    BY <1>1, PlaybackAssumption DEF Free
  <2> QED
    BY <1>6, <1>8, <2>1, ListMoved DEF IInv
<1>11. IgnoreHeld'
  BY <1>1, <1>2, <1>5, <1>7, IgnoreMoved
<1> QED
  BY <1>3, <1>6, <1>8, <1>9, <1>10, <1>11 DEF IInv
-----------------------------------------------------------------------------
(* gui_display_logo and the stop before it. *)

LEMMA LogoBeginKeeps == ASSUME IInv, NEW t \in Threads, LogoBegin(t) PROVE IInv'
<1>1. th[t].pc = "logo" /\ Free(t, "logo") /\ lock' = Taken(t, "logo") /\ logoMode' = 2
  BY DEF LogoBegin, On
<1>2. UNCHANGED <<list, widget, engine, fault>> /\ ignoreNext' \in BOOLEAN
  BY DEF LogoBegin, IInv, Data
<1>3. Data'
  BY <1>1, <1>2 DEF IInv, Data, list, widget, engine
<1>4. ~InLogo(th[t]) /\ lock["logo"].by = Nobody
  <2>1. ~InLogo(th[t])
    BY <1>1 DEF InLogo, InCall, PlayPc
  <2> QED
    BY <1>1, <2>1 DEF IInv, LogoHeld, Free
<1>5. PICK r : /\ th' = [th EXCEPT ![t] = r]
               /\ \/ Turned(r, th[t], "halt", "logoOpen")
                  \/ Turned(r, th[t], "logoOpen", th[t].to) /\ ignoreNext' = ignoreNext
  <2>1. \/ Goes(t, "halt", "logoOpen")
        \/ Goes(t, "logoOpen", th[t].to) /\ ignoreNext' = ignoreNext
    BY Went, WentVia DEF LogoBegin, Pc
  <2> QED
    BY <2>1 DEF Goes
<1>6. /\ r.pc \in {"halt", "logoOpen"} /\ (r.pc = "halt" => r.to = "logoOpen")
      /\ r \in Doing /\ r.base = th[t].base /\ r.idx = th[t].idx
      /\ r.pc = "halt" \/ ignoreNext' = ignoreNext
  BY <1>5 DEF Turned
<1>7. InLogo(r) /\ ~InCall(r) /\ ~OfList(r)
  BY <1>6 DEF InLogo, InCall, OfList, PlayPc
<1>8. Sensible(r) /\ (Indexing(r) => Indexing(th[t]) /\ r.idx = th[t].idx)
  BY <1>1, <1>6, <1>7 DEF Sensible, Indexing
<1>9. Doings' /\ \A u \in Threads : th'[u] = IF u = t THEN r ELSE th[u]
  BY <1>5, <1>6, <1>8, Here, DoingMoved DEF IInv
<1>10. /\ Locks' /\ lock'["mmk"] = lock["mmk"]
       /\ lock'["logo"].by = t /\ lock'["logo"].n = lock["logo"].n + 1
  <2>1. "logo" \in Lock /\ "mmk" \in Lock \ {"logo"}
    BY DEF Lock
  <2> QED
    BY <1>1, <2>1, Take DEF IInv
<1>11. Indexed' /\ ListHeld'
  BY <1>2, <1>7, <1>8, <1>9, <1>10, IndexMoved, ListMoved DEF IInv, list
<1>12. LogoHeld'
  <2>1. lock["logo"].n = 0
    BY <1>4 DEF IInv, Locks, Lock
  <2>2. \A u \in Threads : InLogo(th'[u]) <=> u = t
    BY <1>4, <1>7, <1>9, PlaybackAssumption DEF IInv, LogoHeld
  <2> QED
    BY <1>1, <1>10, <2>1, <2>2, PlaybackAssumption DEF LogoHeld
<1>13. IgnoreHeld'
  <2>1. ignoreNext' => r.pc = "halt" \/ ignoreNext
    BY <1>6
  <2> QED
    BY <1>1, <1>5, <1>6, <2>1, IgnoreMoved
<1> QED
  BY <1>3, <1>9, <1>10, <1>11, <1>12, <1>13 DEF IInv

LEMMA LogoOpenKeeps == ASSUME IInv, NEW t \in Threads, LogoOpen(t) PROVE IInv'
<1>1. th[t].pc = "logoOpen" /\ InLogo(th[t])
  BY DEF LogoOpen, On, InLogo
<1>2. UNCHANGED <<list, widget, ignoreNext, logoMode, engine, lock, fault>>
  BY DEF LogoOpen
<1>3. Data'
  BY <1>2 DEF IInv, Data, list, widget, engine
<1>4. CASE DisplayLogo
  <2>1. PICK told \in BOOLEAN : Call(t, "logo", Logo, <<>>, told)
    BY <1>4, Zenon DEF LogoOpen
  <2>2. <<>> \in Seq(Mrl)
    BY EmptyIsSeq
  <2>3. PICK r : th' = [th EXCEPT ![t] = r] /\ Begun(r, th[t], "logo", Logo, <<>>)
    BY <2>1, <2>2, Calls
  <2> QED
    BY <1>1, <1>2, <1>3, <2>3, CallStep DEF list
<1>5. CASE ~DisplayLogo
  <2>1. Goes(t, "logoEnd", th[t].to)
    BY <1>5, Went DEF LogoOpen, Pc
  <2> QED
    BY <1>1, <1>2, <1>3, <2>1, LogoStep DEF list
<1> QED
  BY <1>4, <1>5

LEMMA LogoEndKeeps == ASSUME IInv, NEW t \in Threads, LogoEnd(t) PROVE IInv'
<1>1. /\ th[t].pc = "logoEnd" /\ InLogo(th[t])
      /\ lock' = Dropped("logo") /\ logoMode' = 1
  BY DEF LogoEnd, On, InLogo
<1>2. UNCHANGED <<list, widget, ignoreNext, engine, fault>>
  BY DEF LogoEnd
<1>3. Data'
  BY <1>1, <1>2 DEF IInv, Data, list, widget, engine
<1>4. PICK p \in {"remove", "cleared", "finish"} :
        Goto(t, p) /\ (p = "remove" => th[t].base = "delete")
  <2>1. /\ Goto(t, Back(t)) /\ Back(t) \in {"remove", "cleared", "finish"}
        /\ Back(t) = "remove" => th[t].base = "delete"
    BY DEF LogoEnd, Back
  <2> QED
    BY <2>1
<1>5. PICK r : th' = [th EXCEPT ![t] = r] /\ Turned(r, th[t], p, th[t].to)
  BY <1>4, Went DEF Goes, Pc
<1>6. ~InLogo(r) /\ ~OfList(r) /\ ~InCall(r)
  BY <1>5 DEF InLogo, OfList, InCall, Turned, PlayPc
<1>7. Sensible(r) /\ (Indexing(r) => Indexing(th[t]) /\ r.idx = th[t].idx)
  BY <1>1, <1>4, <1>5, <1>6 DEF Sensible, Indexing, Turned
<1>8. Doings' /\ \A u \in Threads : th'[u] = IF u = t THEN r ELSE th[u]
  BY <1>5, <1>7, Here, DoingMoved DEF IInv, Turned
<1>9. Locks' /\ lock'["mmk"] = lock["mmk"] /\ lock'["logo"] = Unlocked
  <2>1. "logo" \in Lock /\ "mmk" \in Lock \ {"logo"}
    BY DEF Lock
  <2>2. lock["logo"].by = t /\ lock["logo"].n <= 1
    BY <1>1 DEF IInv, LogoHeld
  <2> QED
    BY <1>1, <2>1, <2>2, Drop DEF IInv
<1>10. Indexed' /\ ListHeld'
  BY <1>2, <1>6, <1>7, <1>8, <1>9, IndexMoved, ListMoved DEF IInv, list
<1>11. LogoHeld'
  <2>1. \A u \in Threads : ~InLogo(th'[u])
    BY <1>1, <1>6, <1>8 DEF IInv, LogoHeld
  <2> QED
    BY <1>1, <1>9, <2>1, PlaybackAssumption DEF LogoHeld, Unlocked
<1>12. IgnoreHeld'
  BY <1>1, <1>2, <1>5, IgnoreMoved DEF Turned
<1> QED
  BY <1>3, <1>8, <1>9, <1>10, <1>11, <1>12 DEF IInv

LEMMA HaltKeeps == ASSUME IInv, NEW t \in Threads, Halt(t) PROVE IInv'
<1>1. th[t].pc = "halt" /\ th[t].to \in {"logoOpen", "gplay2", "stopped", "finish"}
  BY Here DEF Halt, On, Sensible
<1>2. /\ UNCHANGED <<list, widget, logoMode, finished, lock, fault>>
      /\ ignoreNext' = FALSE /\ stream' \in {Closed, Stopped(stream)}
  BY DEF Halt
<1>3. Data'
  <2>1. /\ stream' \in [mrl : Mrl \cup {NoMrl, Logo}, status : Status]
        /\ stream'.status # "idle" => stream'.mrl # NoMrl
    <3>1. CASE stream' = Closed
      BY <3>1 DEF Closed, Status
    <3>2. CASE stream' = Stopped(stream)
      BY <3>2 DEF IInv, Data, Stopped, Status
    <3> QED
      BY <1>2, <3>1, <3>2
  <2> QED
    BY <1>2, <2>1 DEF IInv, Data, list, widget
<1>4. Goes(t, th[t].to, th[t].to)
  BY <1>1, Went DEF Halt, Pc
<1>5. CASE th[t].to = "logoOpen"
  <2>1. InLogo(th[t])
    BY <1>1, <1>5 DEF InLogo
  <2> QED
    BY <1>1, <1>2, <1>3, <1>4, <1>5, <2>1, LogoStep DEF list
<1>6. CASE th[t].to # "logoOpen"
  <2>1. ~InLogo(th[t])
    BY <1>1, <1>6 DEF InLogo, InCall, PlayPc
  <2> QED
    BY <1>1, <1>2, <1>3, <1>4, <1>6, <2>1, OuterStep DEF Outer, list
<1> QED
  BY <1>5, <1>6
-----------------------------------------------------------------------------
(* gui_playlist_start_next *)

\* A thread at an outer place is in neither of the two functions.
LEMMA Out ==
  ASSUME NEW r, r.pc \in Outer \cup {"idle", "listPlay", "click", "remove", "removed"}
  PROVE  ~InLogo(r) /\ ~InCall(r) /\ ~OfList(r)
  BY DEF Outer, InLogo, InCall, OfList, PlayPc

LEMMA NextEntryKeeps == ASSUME IInv, NEW t \in Threads, NextEntry(t) PROVE IInv'
<1>1. th[t].pc = "next" /\ ~InLogo(th[t])
  BY Out DEF NextEntry, On, Outer
<1>2. UNCHANGED <<dialog, left, ignoreNext, logoMode, engine, lock, fault>>
  BY DEF NextEntry
<1>3. PICK p \in {"finish", "logo", "advance", "list", "shuffle"} : Goto(t, p)
  BY DEF NextEntry
<1>4. /\ stopAfter' \subseteq Control /\ controls' \in BOOLEAN
      /\ UNCHANGED list \/ SetCurrent(t, NONE)
  BY DEF NextEntry, Obeyed, IInv, Data
<1>5. Data' /\ mmk' = mmk
  <2>1. CASE UNCHANGED list
    BY <1>2, <1>4, <2>1 DEF IInv, Data, list, engine
  <2>2. CASE SetCurrent(t, NONE)
    BY <1>2, <1>4, <2>2, SetData DEF NONE
  <2> QED
    BY <1>4, <2>1, <2>2
<1>6. Goes(t, p, th[t].to)
  BY <1>3, Went DEF Pc
<1> QED
  BY <1>1, <1>2, <1>5, <1>6, OuterStep DEF Outer

LEMMA AdvanceKeeps == ASSUME IInv, NEW t \in Threads, Advance(t) PROVE IInv'
<1>1. th[t].pc = "advance" /\ ~InLogo(th[t])
  BY Out DEF Advance, On, Outer
<1>2. /\ UNCHANGED <<mmk, current, loop, widget, ignoreNext, logoMode, engine, lock,
                     fault>>
      /\ cur' = cur + 1
  BY DEF Advance
<1>3. Data'
  BY <1>2 DEF IInv, Data, widget, engine
<1>4. Goes(t, "wrap", th[t].to)
  BY Went DEF Advance, Pc
<1> QED
  BY <1>1, <1>2, <1>3, <1>4, OuterStep DEF Outer

LEMMA WrapKeeps == ASSUME IInv, NEW t \in Threads, Wrap(t) PROVE IInv'
<1>1. th[t].pc = "wrap" /\ ~InLogo(th[t])
  BY Out DEF Wrap, On, Outer
<1>2. UNCHANGED <<widget, ignoreNext, logoMode, engine, lock, fault>>
  BY DEF Wrap
<1>3. /\ mmk' \in {mmk, ResetPlayed(mmk)} /\ cur' \in Int
      /\ UNCHANGED <<current, loop>>
  BY DEF Wrap, list, IInv, Data
<1>4. Data' /\ Len(mmk') = Len(mmk)
  BY <1>2, <1>3, ResetType DEF IInv, Data, widget, engine
<1>5. Goes(t, "list", th[t].to) \/ Goes(t, "logo", th[t].to)
  BY Went DEF Wrap, Pc
<1> QED
  BY <1>1, <1>2, <1>4, <1>5, OuterStep DEF Outer

LEMMA ShuffleKeeps == ASSUME IInv, NEW t \in Threads, Shuffle(t) PROVE IInv'
<1>1. th[t].pc = "shuffle" /\ ~InLogo(th[t])
  BY Out DEF Shuffle, On, Outer
<1>2. /\ UNCHANGED <<cur, current, loop, widget, ignoreNext, logoMode, engine, lock,
                     fault>>
      /\ mmk' \in {mmk, ResetPlayed(mmk)}
  BY DEF Shuffle
<1>3. Data' /\ Len(mmk') = Len(mmk)
  BY <1>2, ResetType DEF IInv, Data, widget, engine
<1>4. Goes(t, "draw", th[t].to) \/ Goes(t, "logo", th[t].to)
  BY Went DEF Shuffle, Pc
<1> QED
  BY <1>1, <1>2, <1>3, <1>4, OuterStep DEF Outer

LEMMA DrawKeeps == ASSUME IInv, NEW t \in Threads, Draw(t) PROVE IInv'
<1>1. th[t].pc = "draw" /\ ~InLogo(th[t])
  BY Out DEF Draw, On, Outer
<1>2. /\ UNCHANGED <<mmk, current, loop, widget, ignoreNext, logoMode, engine, lock,
                     fault>>
      /\ cur' \in ShuffleNext(mmk, cur)
  BY DEF Draw
<1>3. Data'
  BY <1>2, ShuffleType DEF IInv, Data, widget, engine
<1>4. Goes(t, "list", th[t].to)
  BY Went DEF Draw, Pc
<1> QED
  BY <1>1, <1>2, <1>3, <1>4, OuterStep DEF Outer

LEMMA ListKeeps == ASSUME IInv, NEW t \in Threads, List(t) PROVE IInv'
<1>1. th[t].pc = "list" /\ ~InLogo(th[t])
  BY Out DEF List, On, Outer
<1>2. UNCHANGED <<widget, ignoreNext, logoMode, engine, lock, fault>>
  BY DEF List
<1>3. CASE cur >= Len(mmk)
  <2>1. UNCHANGED list /\ Goes(t, "unplayed", th[t].to)
    BY <1>3, Went DEF List, Pc
  <2>2. Data'
    BY <1>2, <2>1 DEF IInv, Data, list, widget, engine
  <2> QED
    BY <1>1, <1>2, <2>1, <2>2, OuterStep DEF Outer, list
<1>4. CASE ~(cur >= Len(mmk))
  <2> DEFINE r == [th[t] EXCEPT !.pc = "listPlay", !.call = "list"]
  <2>1. SetCurrent(t, cur) /\ th' = [th EXCEPT ![t] = r]
    BY <1>4 DEF List
  <2>2. Data' /\ mmk' = mmk
    <3>1. cur \in Int /\ stopAfter' \subseteq Control /\ controls' \in BOOLEAN
      BY <1>2 DEF IInv, Data, widget
    <3> QED
      BY <1>2, <2>1, <3>1, SetData DEF widget
  <2>3. /\ r \in Doing /\ r.pc = "listPlay" /\ r.call = "list"
        /\ r.base = th[t].base /\ r.idx = th[t].idx
    <3>1. "listPlay" \in Pc
      BY DEF Pc
    <3> QED
      BY <3>1, Here DEF Doing
  <2> HIDE DEF r
  <2>4. Kept(th[t], r)
    BY <1>1, <2>3, Out DEF Kept, Sensible, Indexing
  <2>5. Locks' /\ Threaded'
    BY <1>2, <2>1, <2>2, <2>4, Moved DEF Data
  <2>6. IgnoreHeld'
    BY <1>1, <1>2, <2>1, <2>3, IgnoreMoved
  <2> QED
    BY <2>2, <2>5, <2>6 DEF IInv, Threaded
<1> QED
  BY <1>3, <1>4

LEMMA NotPlayedKeeps == ASSUME IInv, NEW t \in Threads, NotPlayed(t) PROVE IInv'
<1>1. th[t].pc = "unplayed" /\ ~InLogo(th[t])
  BY Out DEF NotPlayed, On, Outer
<1>2. UNCHANGED <<list, widget, ignoreNext, logoMode, engine, lock, fault>>
  BY DEF NotPlayed
<1>3. Data'
  BY <1>2 DEF IInv, Data, list, widget, engine
<1>4. Goes(t, "draw", th[t].to) \/ Goes(t, "logo", th[t].to)
  BY Went DEF NotPlayed, Pc
<1> QED
  BY <1>1, <1>2, <1>3, <1>4, OuterStep DEF Outer, list

-----------------------------------------------------------------------------
(* The user's calls. *)

LEMMA GuiPlayKeeps == ASSUME IInv, NEW t \in Threads, GuiPlay(t) PROVE IInv'
<1>1. th[t].pc = "gplay" /\ ~InLogo(th[t])
  BY Out DEF GuiPlay, On, Outer
<1>2. UNCHANGED <<list, widget, logoMode, engine, lock, fault>>
  BY DEF GuiPlay
<1>3. \/ Goes(t, "finish", th[t].to) /\ UNCHANGED ignoreNext
      \/ Goes(t, "halt", "gplay2") /\ ignoreNext' = TRUE
      \/ Goes(t, "gplay2", th[t].to) /\ UNCHANGED ignoreNext
  BY Went, WentVia DEF GuiPlay, Pc
<1>4. Data'
  BY <1>2, <1>3 DEF IInv, Data, list, widget, engine
<1> QED
  BY <1>1, <1>2, <1>3, <1>4, OuterStep DEF Outer, list

LEMMA GuiPlay2Keeps == ASSUME IInv, NEW t \in Threads, GuiPlay2(t) PROVE IInv'
<1>1. th[t].pc = "gplay2" /\ ~InLogo(th[t])
  BY Out DEF GuiPlay2, On, Outer
<1>2. UNCHANGED <<list, widget, ignoreNext, logoMode, engine, lock, fault>>
  BY DEF GuiPlay2
<1>3. Data'
  BY <1>2 DEF IInv, Data, list, widget, engine
<1>4. CASE stream.status = "play" \/ current.mrl = NoMrl
  <2>1. Goes(t, "finish", th[t].to) \/ Goes(t, "window", "finish")
    BY <1>4, Went, WentVia DEF GuiPlay2, Pc
  <2> QED
    BY <1>1, <1>2, <1>3, <2>1, OuterStep DEF Outer, list
<1>5. CASE ~(stream.status = "play" \/ current.mrl = NoMrl)
  <2>1. current.mrl \in Mrl \cup {NoMrl, Logo} /\ current.alts \in Seq(Mrl)
    BY DEF IInv, Data, Current
  <2>2. PICK m \in Mrl \cup {NoMrl, Logo}, alts \in Seq(Mrl), told \in BOOLEAN :
          Call(t, "play", m, alts, told)
    BY <1>5, <2>1, Zenon DEF GuiPlay2
  <2>3. PICK r : th' = [th EXCEPT ![t] = r] /\ Begun(r, th[t], "play", m, alts)
    BY <2>2, Calls
  <2> QED
    BY <1>1, <1>2, <1>3, <2>3, CallStep DEF list
<1> QED
  BY <1>4, <1>5

LEMMA StopBeginKeeps == ASSUME IInv, NEW t \in Threads, StopBegin(t) PROVE IInv'
<1>1. th[t].pc = "stop" /\ ~InLogo(th[t])
  BY Out DEF StopBegin, On, Outer
<1>2. UNCHANGED <<list, widget, logoMode, engine, lock, fault>> /\ ignoreNext' = TRUE
  BY DEF StopBegin
<1>3. Data'
  BY <1>2 DEF IInv, Data, list, widget, engine
<1>4. Goes(t, "halt", "stopped")
  BY WentVia DEF StopBegin, Pc
<1> QED
  BY <1>1, <1>2, <1>3, <1>4, OuterStep DEF list

LEMMA StopEndKeeps == ASSUME IInv, NEW t \in Threads, StopEnd(t) PROVE IInv'
<1>1. th[t].pc = "stopped" /\ ~InLogo(th[t])
  BY Out DEF StopEnd, On, Outer
<1>2. /\ UNCHANGED <<loop, dialog, left, logoMode, engine, lock, fault>>
      /\ stopAfter' \subseteq Control /\ mmk' = ResetPlayed(mmk)
  BY DEF StopEnd, Obeyed, IInv, Data
<1>3. mmk' \in Seq(Entry) /\ Len(mmk') = Len(mmk)
  BY <1>2, ResetType DEF IInv, Data
<1>4. cur' \in Int /\ current' \in Current /\ controls' \in BOOLEAN
  <2>1. CASE controls
    <3>1. /\ cur' = RealIndex(mmk, cur, CURRENT)
          /\ current' = CopyOver(current, EntryOrNone(mmk', cur'))
          /\ controls' = (cur' # NONE)
      BY <2>1 DEF StopEnd
    <3>2. cur' \in Int /\ (cur' = NONE \/ InRange(mmk, cur'))
      BY <3>1, RealInside DEF IInv, Data, CURRENT
    <3>3. cur' = NONE \/ InRange(mmk', cur')
      BY <1>3, <3>2 DEF InRange
    <3>4. current' \in Current
      BY <1>3, <3>1, <3>2, <3>3, CopyType DEF IInv, Data
    <3> QED
      BY <3>1, <3>2, <3>4
  <2>2. CASE ~controls
    BY <2>2 DEF StopEnd, IInv, Data
  <2> QED
    BY <2>1, <2>2
<1>5. \/ ignoreNext' = TRUE /\ Goes(t, "halt", "finish")
      \/ ignoreNext' = ignoreNext /\ Goes(t, "logo", th[t].to)
  BY Went, WentVia DEF StopEnd, Pc
<1>6. Data'
  BY <1>2, <1>3, <1>4, <1>5 DEF IInv, Data, engine
<1> QED
  BY <1>1, <1>2, <1>3, <1>5, <1>6, OuterStep DEF Outer

LEMMA StepPlayKeeps == ASSUME IInv, NEW t \in Threads, StepPlay(t) PROVE IInv'
<1>1. th[t].pc = "step" /\ ~InLogo(th[t])
  BY Out DEF StepPlay, On, Outer
<1>2. /\ UNCHANGED <<widget, ignoreNext, logoMode, engine, lock, fault>>
      /\ SetCurrent(t, CURRENT)
  BY DEF StepPlay
<1>3. Data' /\ mmk' = mmk
  <2>1. CURRENT \in Int /\ stopAfter' \subseteq Control /\ controls' \in BOOLEAN
    BY <1>2 DEF IInv, Data, widget, CURRENT
  <2> QED
    BY <1>2, <2>1, SetData DEF widget
<1>4. PICK told \in BOOLEAN : Call(t, "step", current'.mrl, <<>>, told)
  BY Zenon DEF StepPlay
<1>5. current'.mrl \in Mrl \cup {NoMrl, Logo} /\ <<>> \in Seq(Mrl)
  BY <1>3, EmptyIsSeq DEF Data, Current
<1>6. PICK r : th' = [th EXCEPT ![t] = r] /\ Begun(r, th[t], "step", current'.mrl, <<>>)
  BY <1>4, <1>5, Calls
<1> QED
  BY <1>1, <1>2, <1>3, <1>6, CallStep

LEMMA ClickKeeps == ASSUME IInv, NEW t \in Threads, Click(t) PROVE IInv'
<1>1. /\ th[t].pc = "click" /\ Free(t, "mmk") /\ lock' = Taken(t, "mmk")
      /\ ~InLogo(th[t]) /\ Indexing(th[t])
  BY Out DEF Click, On, Indexing
<1>2. /\ UNCHANGED <<mmk, loop, widget, ignoreNext, logoMode, engine, fault>>
      /\ cur' = th[t].idx /\ current' = CopyOver(current, EntryOrNone(mmk, cur'))
  BY DEF Click
<1>3. cur' \in Int /\ InRange(mmk, cur')
  BY <1>1, <1>2, Here DEF IInv, Indexed, Doing
<1>4. current' \in Current
  BY <1>2, <1>3, CopyType DEF IInv, Data
<1>5. Data'
  BY <1>2, <1>3, <1>4 DEF IInv, Data, widget, engine
<1> DEFINE r == [th[t] EXCEPT !.pc = "listPlay", !.call = "dbl"]
<1>6. th' = [th EXCEPT ![t] = r]
  BY DEF Click
<1>7. /\ r \in Doing /\ r.pc = "listPlay" /\ r.call = "dbl"
      /\ r.base = th[t].base /\ r.idx = th[t].idx
  <2>1. "listPlay" \in Pc
    BY DEF Pc
  <2> QED
    BY <2>1, Here DEF Doing
<1> HIDE DEF r
<1>8. Sensible(r) /\ ~InLogo(r) /\ ~OfList(r) /\ (Indexing(r) => r.base = "delete")
  BY <1>7, Out DEF Sensible, Indexing
<1>9. Locks' /\ lock'["logo"] = lock["logo"] /\ lock'["mmk"].by = t
  <2>1. "mmk" \in Lock /\ "logo" \in Lock \ {"mmk"}
    BY DEF Lock
  <2> QED
    BY <1>1, <2>1, Take DEF IInv
<1>10. Doings' /\ \A u \in Threads : th'[u] = IF u = t THEN r ELSE th[u]
  BY <1>6, <1>7, <1>8, Here, DoingMoved DEF IInv
<1>11. Indexed' /\ LogoHeld'
  BY <1>1, <1>2, <1>7, <1>8, <1>9, <1>10, IndexMoved, LogoMoved DEF IInv
<1>12. ListHeld'
  <2>1. \A u \in Threads \ {t} : lock["mmk"].by # u
    BY <1>1, PlaybackAssumption DEF Free
  <2> QED
    BY <1>8, <1>9, <1>10, <2>1, ListMoved DEF IInv
<1>13. IgnoreHeld'
  BY <1>1, <1>2, <1>6, <1>7, IgnoreMoved
<1> QED
  BY <1>5, <1>9, <1>10, <1>11, <1>12, <1>13 DEF IInv

-----------------------------------------------------------------------------
(* The GUI thread takes an event, and changes the list. *)

\* Only the GUI thread relies on an index.
LEMMA OneIndexes ==
  ASSUME IInv, NEW u \in Threads, Indexing(th[u])
  PROVE  u = Gui
  BY Here DEF Indexing, Sensible

LEMMA GuiStep ==
  ASSUME IInv, Gui \in Threads, NEW r \in Doing, Sensible(r), th' = [th EXCEPT ![Gui] = r],
         Locks', lock'["mmk"] = lock["mmk"] \/ lock'["mmk"].by = Gui,
         OfList(r) => OfList(th[Gui]) /\ lock'["mmk"] = lock["mmk"],
         lock["mmk"].by \in {Nobody, Gui} \/ lock'["mmk"] = lock["mmk"],
         lock'["logo"] = lock["logo"], ~InLogo(r), ~InLogo(th[Gui]),
         Indexing(r) => InRange(mmk', r.idx), logoMode' = logoMode,
         ignoreNext' => \/ r.base = "step"
                        \/ ignoreNext /\ th[Gui].pc # "halt" /\ th[Gui].base # "step",
         Data'
  PROVE  IInv'
<1>1. Doings' /\ \A u \in Threads : th'[u] = IF u = Gui THEN r ELSE th[u]
  BY DoingMoved DEF IInv
<1>2. Indexed'
  <2> SUFFICES ASSUME NEW u \in Threads, Indexing(th'[u])
               PROVE  InRange(mmk', th'[u].idx)
    BY DEF Indexed
  <2>1. u = Gui
    BY <1>1, OneIndexes
  <2> QED
    BY <1>1, <2>1
<1>3. ListHeld'
  <2>1. \A u \in Threads \ {Gui} : lock["mmk"].by = u => lock'["mmk"].by = u
    BY PlaybackAssumption
  <2>2. OfList(r) => lock'["mmk"].by = Gui
    BY DEF IInv, ListHeld
  <2> QED
    BY <1>1, <2>1, <2>2, ListMoved DEF IInv
<1>4. LogoHeld'
  BY <1>1, LogoMoved DEF IInv
<1>5. IgnoreHeld'
  BY IgnoreMoved
<1> QED
  BY <1>1, <1>2, <1>3, <1>4, <1>5 DEF IInv

\* An event of the window: the call begins, with the xitk lock taken.
LEMMA BeginStep ==
  ASSUME IInv, NEW t \in Threads, NEW command,
         NEW base \in {"none", "play", "stop", "close", "next", "step", "dbl", "delete",
                       "clear"},
         NEW pc \in Outer \cup {"click", "remove"}, NEW index \in Int,
         Begin(t, command, base, pc, index),
         pc = "click" => base = "dbl", pc = "remove" => base = "delete",
         pc = "click" \/ base = "delete" => InRange(mmk', index),
         logoMode' = logoMode, ignoreNext' => ignoreNext \/ base = "step", Data'
  PROVE  IInv'
<1>1. t = Gui /\ th[t] = Idle
  BY Here DEF Begin, On, Sensible
<1> DEFINE r == [th[t] EXCEPT !.pc = pc, !.base = base, !.idx = index]
<1>2. th' = [th EXCEPT ![t] = r]
  BY DEF Begin
<1>3. /\ r \in Doing /\ r.pc = pc /\ r.base = base /\ r.idx = index
      /\ r.call = "none"
  <2>1. pc \in Pc
    BY DEF Pc, PlayPc, Outer
  <2>2. r \in Doing
    BY <2>1, Here DEF Doing
  <2> QED
    BY <1>1, <2>2, Here DEF Doing, Idle
<1> HIDE DEF r
<1>4. Sensible(r) /\ ~InLogo(r) /\ ~OfList(r)
  <2>1. ~InLogo(r) /\ ~InCall(r) /\ ~OfList(r)
    BY <1>3, Out
  <2> QED
    BY <1>3, <2>1 DEF Sensible, Outer
<1>5. Indexing(r) => InRange(mmk', r.idx)
  BY <1>3 DEF Indexing
<1>6. Locks' /\ lock'["mmk"] = lock["mmk"] /\ lock'["logo"] = lock["logo"]
  <2>1. "xitk" \in Lock /\ "mmk" \in Lock \ {"xitk"} /\ "logo" \in Lock \ {"xitk"}
    BY DEF Lock
  <2>2. Free(t, "xitk") /\ lock' = Taken(t, "xitk")
    BY DEF Begin
  <2> QED
    BY <2>1, <2>2, Take DEF IInv
<1>7. ~InLogo(th[t]) /\ th[t].pc # "halt" /\ th[t].base # "step"
  BY <1>1, Out DEF Idle
<1> QED
  BY <1>1, <1>2, <1>3, <1>4, <1>5, <1>6, <1>7, GuiStep

LEMMA NoIndex == NONE \in Int
  BY DEF NONE

LEMMA LessLeft ==
  ASSUME IInv, NEW t, NEW command, NEW base, NEW pc, NEW index,
         Begin(t, command, base, pc, index)
  PROVE  left' \in 0 .. MaxCommands
  BY PlaybackAssumption DEF Begin, IInv, Data

LEMMA PlayButtonKeeps == ASSUME IInv, NEW t \in Threads, PlayButton(t) PROVE IInv'
<1>1. /\ Begin(t, "play", "play", "gplay", NONE)
      /\ UNCHANGED <<list, stopAfter, controls, dialog, ignoreNext, logoMode, engine,
                     fault>>
  BY DEF PlayButton
<1>2. Data'
  BY <1>1, LessLeft DEF IInv, Data, list, engine
<1> QED
  BY <1>1, <1>2, NoIndex, BeginStep DEF Outer

LEMMA StopButtonKeeps == ASSUME IInv, NEW t \in Threads, StopButton(t) PROVE IInv'
<1>1. /\ Begin(t, "stop", "stop", "stop", NONE)
      /\ UNCHANGED <<list, stopAfter, controls, dialog, ignoreNext, logoMode, engine,
                     fault>>
  BY DEF StopButton
<1>2. Data'
  BY <1>1, LessLeft DEF IInv, Data, list, engine
<1> QED
  BY <1>1, <1>2, NoIndex, BeginStep DEF Outer

LEMMA CloseButtonKeeps == ASSUME IInv, NEW t \in Threads, CloseButton(t) PROVE IInv'
<1>1. /\ Begin(t, "close", "close", "stop", NONE)
      /\ UNCHANGED <<list, stopAfter, controls, dialog, ignoreNext, logoMode, engine,
                     fault>>
  BY DEF CloseButton
<1>2. Data'
  BY <1>1, LessLeft DEF IInv, Data, list, engine
<1> QED
  BY <1>1, <1>2, NoIndex, BeginStep DEF Outer

LEMMA StopAfterwardsKeeps ==
  ASSUME IInv, NEW t \in Threads, StopAfterwards(t) PROVE IInv'
<1>1. /\ Begin(t, "stop_after", "none", "finish", NONE)
      /\ UNCHANGED <<list, controls, dialog, ignoreNext, logoMode, engine, fault>>
      /\ stopAfter' \subseteq Control
  BY DEF StopAfterwards, Control
<1>2. Data'
  BY <1>1, LessLeft DEF IInv, Data, list, engine
<1> QED
  BY <1>1, <1>2, NoIndex, BeginStep DEF Outer

\* gui_step_mrl leaves the choice to start_next, plays the entry or does nothing.
LEMMA StepThroughKeeps ==
  ASSUME IInv, NEW t \in Threads, NEW base \in {"none", "next", "step"},
         NEW pc \in {"next", "step", "finish"}, NEW index \in Int,
         pc = "step" => base = "step", StepThrough(t, base, pc, index)
  PROVE  IInv'
<1>1. /\ Begin(t, "step", base, pc, NONE) /\ cur' = index
      /\ UNCHANGED <<mmk, current, loop, stopAfter, controls, dialog, logoMode,
                     engine, fault>>
  BY DEF StepThrough
<1>2. ignoreNext' \in BOOLEAN /\ (ignoreNext' => ignoreNext \/ base = "step")
  BY DEF StepThrough, IInv, Data
<1>3. Data'
  BY <1>1, <1>2, LessLeft DEF IInv, Data, engine
<1>4. pc \in Outer /\ base # "delete"
  BY DEF Outer
<1> QED
  BY <1>1, <1>2, <1>3, <1>4, NoIndex, BeginStep

LEMMA StepButtonKeeps ==
  ASSUME IInv, NEW t \in Threads, NEW by \in Steps, StepButton(t, by)
  PROVE  IInv'
<1>1. by \in Int /\ cur \in Int /\ Len(mmk) \in Nat
  BY PlaybackAssumption DEF IInv, Data
<1>2. PICK index \in {cur, cur + by - 1, cur + by, by - (Len(mmk) - cur),
                      cur + by + Len(mmk), 0} :
        \/ StepThrough(t, "next", "next", index) \/ StepThrough(t, "step", "step", index)
        \/ StepThrough(t, "none", "finish", index)
        \/ StepThrough(t, "step", "finish", index)
  BY DEF StepButton
<1>3. index \in Int
  BY <1>1
<1> QED
  BY <1>2, <1>3, StepThroughKeeps

LEMMA DblClickKeeps ==
  ASSUME IInv, NEW t \in Threads, NEW i \in 0 .. Len(mmk) - 1, DblClick(t, i)
  PROVE  IInv'
<1>1. /\ Begin(t, "dblclick", "dbl", "click", i) /\ InRange(mmk, i) /\ i \in Int
      /\ UNCHANGED <<list, stopAfter, controls, dialog, ignoreNext, logoMode, engine,
                     fault>>
  BY DEF DblClick, IInv, Data
<1>2. Data' /\ mmk' = mmk
  BY <1>1, LessLeft DEF IInv, Data, list, engine
<1> QED
  BY <1>1, <1>2, BeginStep

LEMMA DeleteKeeps ==
  ASSUME IInv, NEW t \in Threads, NEW i \in 0 .. Len(mmk) - 1, Delete(t, i)
  PROVE  IInv'
<1>1. /\ InRange(mmk, i) /\ i \in Int
      /\ UNCHANGED <<list, stopAfter, controls, dialog, ignoreNext, logoMode, engine,
                     fault>>
  BY DEF Delete, IInv, Data
<1>2. PICK pc \in {"stop", "remove"} : Begin(t, "delete", "delete", pc, i)
  BY Zenon DEF Delete
<1>3. Data' /\ mmk' = mmk
  BY <1>1, <1>2, LessLeft DEF IInv, Data, list, engine
<1>4. pc \in Outer \cup {"click", "remove"} /\ pc # "click"
  BY DEF Outer
<1> QED
  BY <1>1, <1>2, <1>3, <1>4, BeginStep

LEMMA DeleteAllKeeps == ASSUME IInv, NEW t \in Threads, DeleteAll(t) PROVE IInv'
<1>1. /\ UNCHANGED <<current, loop, stopAfter, controls, dialog, ignoreNext, logoMode,
                     engine, fault>>
      /\ mmk' = <<>> /\ cur' = NONE
  BY DEF DeleteAll
<1>2. PICK pc \in {"stop", "cleared"} : Begin(t, "delete_all", "clear", pc, NONE)
  BY Zenon DEF DeleteAll
<1>3. Data'
  BY <1>1, <1>2, LessLeft, EmptyIsSeq DEF IInv, Data, engine, NONE
<1>4. pc \in Outer \cup {"click", "remove"} /\ pc \notin {"click", "remove"}
  BY DEF Outer
<1> QED
  BY <1>1, <1>2, <1>3, <1>4, NoIndex, BeginStep


\* The entry is taken from the array: nobody else relies on an index.
LEMMA RemoveEntryKeeps == ASSUME IInv, NEW t \in Threads, RemoveEntry(t) PROVE IInv'
<1>1. th[t].pc = "remove" /\ th[t].base = "delete" /\ t = Gui
  BY Here DEF RemoveEntry, On, Sensible
<1>2. /\ UNCHANGED <<current, loop, widget, ignoreNext, logoMode, engine, lock, fault>>
      /\ mmk' = Remove(mmk, th[t].idx) /\ cur' = CurAfterRemove(mmk, cur)
  BY DEF RemoveEntry
<1>3. InRange(mmk, th[t].idx) /\ th[t].idx \in Int
  BY <1>1, Here DEF IInv, Indexed, Indexing, Doing
<1>4. mmk' \in Seq(Entry)
  BY <1>2, <1>3, RemoveType DEF IInv, Data
<1>5. cur' \in Int
  BY <1>2 DEF IInv, Data, CurAfterRemove, NONE
<1>6. Data'
  BY <1>2, <1>4, <1>5 DEF IInv, Data, widget, engine
<1>7. PICK r : th' = [th EXCEPT ![t] = r] /\ Turned(r, th[t], "removed", th[t].to)
  BY Went DEF RemoveEntry, Goes, Pc
<1>8. r \in Doing /\ r.pc = "removed" /\ r.base = "delete"
  BY <1>1, <1>7 DEF Turned
<1>9. /\ Sensible(r) /\ ~Indexing(r) /\ ~InLogo(r) /\ ~OfList(r)
      /\ ~InLogo(th[t])
  <2>1. ~InCall(r) /\ ~InLogo(r) /\ ~OfList(r) /\ ~InLogo(th[t])
    BY <1>1, <1>8, Out
  <2> QED
    BY <1>8, <2>1 DEF Sensible, Indexing
<1>10. Locks'
  BY <1>2 DEF IInv, Locks
<1> QED
  BY <1>1, <1>2, <1>6, <1>7, <1>8, <1>9, <1>10, GuiStep

LEMMA RemovedKeeps == ASSUME IInv, NEW t \in Threads, Removed(t) PROVE IInv'
<1>1. th[t].pc = "removed" /\ th[t].base = "delete" /\ t = Gui
  BY Here DEF Removed, On, Sensible
<1>2. UNCHANGED <<stopAfter, dialog, left, ignoreNext, logoMode, engine, lock, fault>>
  BY DEF Removed
<1>3. /\ UNCHANGED list \/ SetCurrent(t, CURRENT)
      /\ stopAfter' \subseteq Control /\ controls' \in BOOLEAN
  BY DEF Removed, IInv, Data
<1>4. Data'
  <2>1. CASE UNCHANGED list
    BY <1>2, <1>3, <2>1 DEF IInv, Data, list, engine
  <2>2. CASE SetCurrent(t, CURRENT)
    BY <1>2, <1>3, <2>2, SetData DEF CURRENT
  <2> QED
    BY <1>3, <2>1, <2>2
<1>5. PICK r \in Doing :
        /\ th' = [th EXCEPT ![t] = r]
        /\ \/ r.pc = "finish" /\ r.base = "delete"
           \/ r.pc \in {"stop", "cleared"} /\ r.base = "clear"
  <2>1. CASE mmk # <<>>
    <3>1. Goes(t, "finish", th[t].to)
      BY <2>1, Went DEF Removed, Pc
    <3> QED
      BY <1>1, <3>1 DEF Goes, Turned
  <2>2. CASE mmk = <<>>
    <3>1. PICK p \in {"stop", "cleared"} :
            th' = [th EXCEPT ![t].base = "clear", ![t].pc = p]
      BY <2>2 DEF Removed
    <3> DEFINE r == [th[t] EXCEPT !.base = "clear", !.pc = p]
    <3>2. th' = [th EXCEPT ![t] = r]
      BY <3>1
    <3>3. p \in Pc
      BY DEF Pc
    <3>4. r \in Doing /\ r.pc = p /\ r.base = "clear"
      BY <3>3, Here DEF Doing
    <3> QED
      BY <3>2, <3>4
  <2> QED
    BY <2>1, <2>2
<1>6. r.pc \in Outer
  BY <1>5 DEF Outer
<1>7. /\ Sensible(r) /\ ~Indexing(r) /\ ~InLogo(r) /\ ~OfList(r)
      /\ ~InLogo(th[t])
  <2>1. ~InCall(r) /\ ~InLogo(r) /\ ~OfList(r) /\ ~InLogo(th[t])
    BY <1>1, <1>6, Out
  <2> QED
    BY <1>5, <2>1 DEF Sensible, Indexing
<1>8. Locks'
  BY <1>2 DEF IInv, Locks
<1> QED
  BY <1>1, <1>2, <1>4, <1>5, <1>7, <1>8, GuiStep

LEMMA ClearedKeeps == ASSUME IInv, NEW t \in Threads, Cleared(t) PROVE IInv'
<1>1. th[t].pc = "cleared" /\ ~InLogo(th[t])
  BY Out DEF Cleared, On, Outer
<1>2. /\ UNCHANGED <<stopAfter, dialog, left, ignoreNext, logoMode, engine, lock, fault>>
      /\ SetCurrent(t, NONE) /\ controls' = FALSE
  BY DEF Cleared
<1>3. Data' /\ mmk' = mmk
  <2>1. stopAfter' \subseteq Control /\ controls' \in BOOLEAN
    BY <1>2 DEF IInv, Data
  <2> QED
    BY <1>2, <2>1, NoIndex, SetData
<1>4. Goes(t, "finish", th[t].to)
  BY Went DEF Cleared, Pc
<1> QED
  BY <1>1, <1>2, <1>3, <1>4, OuterStep DEF Outer

\* "Yes" goes straight into _gui_xine_play, "No" on to the next entry.
LEMMA AnswerKeeps ==
  ASSUME IInv, NEW t \in Threads, NEW yes \in BOOLEAN, Answer(t, yes)
  PROVE  IInv'
<1>1. t = Gui /\ th[t] = Idle /\ Free(t, "xitk") /\ lock' = Taken(t, "xitk")
  BY Here DEF Answer, On, Sensible
<1>2. /\ UNCHANGED <<list, stopAfter, controls, left, ignoreNext, logoMode, engine,
                     fault>>
      /\ dialog' = FALSE
  BY DEF Answer
<1>3. Data'
  BY <1>2 DEF IInv, Data, list, engine
<1>4. PICK p \in {"play", "next"} :
        th' = [th EXCEPT ![t].pc = p, ![t].call = "answer"]
  BY DEF Answer
<1> DEFINE r == [th[t] EXCEPT !.pc = p, !.call = "answer"]
<1>5. th' = [th EXCEPT ![t] = r]
  BY <1>4
<1>6. r \in Doing /\ r.pc = p /\ r.call = "answer" /\ r.base = "none"
  <2>1. p \in Pc
    BY DEF Pc, PlayPc
  <2>2. r \in Doing
    BY <2>1, Here DEF Doing
  <2> QED
    BY <1>1, <2>2, Here DEF Doing, Idle
<1> HIDE DEF r
<1>7. /\ Sensible(r) /\ ~Indexing(r) /\ ~InLogo(r) /\ ~OfList(r)
      /\ ~InLogo(th[t]) /\ th[t].pc # "halt" /\ th[t].base # "step"
  <2>1. ~InLogo(th[t]) /\ th[t].pc # "halt" /\ th[t].base # "step"
    BY <1>1, Out DEF Idle
  <2> QED
    BY <1>6, <2>1 DEF Sensible, Indexing, InLogo, OfList
<1>8. Locks' /\ lock'["mmk"] = lock["mmk"] /\ lock'["logo"] = lock["logo"]
  <2>1. "xitk" \in Lock /\ "mmk" \in Lock \ {"xitk"} /\ "logo" \in Lock \ {"xitk"}
    BY DEF Lock
  <2> QED
    BY <1>1, <2>1, Take DEF IInv
<1> QED
  BY <1>1, <1>2, <1>3, <1>5, <1>6, <1>7, <1>8, GuiStep
-----------------------------------------------------------------------------
(* The end of a call, and the engine's events. *)

LEMMA FinishKeeps == ASSUME IInv, NEW t \in Threads, Finish(t) PROVE IInv'
<1>1. /\ th[t].pc = "finish" /\ ~InLogo(th[t])
      /\ lock' = DroppedAll(t) /\ th' = [th EXCEPT ![t] = Idle]
  BY Out DEF Finish, On, Outer
<1>2. /\ UNCHANGED <<list, widget, logoMode, engine, fault>>
      /\ ignoreNext' \in BOOLEAN
      /\ ignoreNext' => ignoreNext /\ th[t].base # "step"
  BY DEF Finish, IInv, Data
<1>3. Data'
  BY <1>2 DEF IInv, Data, list, widget, engine
<1>4. /\ Idle \in Doing /\ Sensible(Idle) /\ Idle.base = "none"
      /\ ~OfList(Idle) /\ ~Indexing(Idle) /\ ~InLogo(Idle)
  BY EmptyIsSeq DEF Idle, Doing, Sensible, InCall, InLogo, Indexing, OfList, Pc, PlayPc, NONE
<1>5. /\ Locks' /\ lock'["logo"] = lock["logo"]
      /\ \A u \in Threads \ {t} : lock["mmk"].by = u => lock'["mmk"].by = u
  <2>1. lock["logo"].by # t /\ "logo" \in Lock /\ "mmk" \in Lock
    BY <1>1 DEF IInv, LogoHeld, Lock
  <2> QED
    BY <1>1, <2>1, DropAll DEF IInv
<1>6. Doings' /\ \A u \in Threads : th'[u] = IF u = t THEN Idle ELSE th[u]
  BY <1>1, <1>4, DoingMoved DEF IInv
<1>7. Indexed' /\ ListHeld' /\ LogoHeld'
  BY <1>1, <1>2, <1>4, <1>5, <1>6, IndexMoved, ListMoved, LogoMoved DEF IInv, list
<1>8. IgnoreHeld'
  BY <1>1, <1>2, IgnoreMoved
<1> QED
  BY <1>3, <1>5, <1>6, <1>7, <1>8 DEF IInv

\* No thread goes on, no lock changes.
LEMMA Still ==
  ASSUME IInv, UNCHANGED <<th, lock, logoMode, ignoreNext, mmk>>, Data'
  PROVE  IInv'
<1>1. Locks' /\ Doings' /\ Indexed' /\ ListHeld'
  BY DEF IInv, Locks, Doings, Indexed, ListHeld
<1>2. LogoHeld' /\ IgnoreHeld'
  BY DEF IInv, LogoHeld, IgnoreHeld, On
<1> QED
  BY <1>1, <1>2 DEF IInv

LEMMA StreamEndsKeeps == ASSUME IInv, StreamEnds PROVE IInv'
<1>1. /\ UNCHANGED <<list, widget, ignoreNext, logoMode, lock, th, fault>>
      /\ finished' = Append(finished, stream.mrl) /\ stream' = Stopped(stream)
      /\ stream.status = "play"
  BY DEF StreamEnds
<1>2. stream.mrl \in Mrl \cup {Logo} /\ finished \in Seq(Mrl \cup {Logo})
  BY <1>1 DEF IInv, Data
<1>3. finished' \in Seq(Mrl \cup {Logo})
  BY <1>1, <1>2, AppendProperties
<1>4. /\ stream' \in [mrl : Mrl \cup {NoMrl, Logo}, status : Status]
      /\ stream'.mrl # NoMrl
  BY <1>1 DEF IInv, Data, Stopped, Status
<1>5. Data'
  BY <1>1, <1>3, <1>4 DEF IInv, Data, list, widget
<1> QED
  BY <1>1, <1>5, Still DEF list

LEMMA FinishedEventKeeps ==
  ASSUME IInv, NEW t \in Threads, FinishedEvent(t)
  PROVE  IInv'
<1>1. /\ th[t].pc = "idle" /\ ~InLogo(th[t])
      /\ UNCHANGED <<list, widget, ignoreNext, logoMode, stream, lock, fault>>
      /\ finished # <<>> /\ finished' = Tail(finished)
  BY Out DEF FinishedEvent, On
<1>2. finished' \in Seq(Mrl \cup {Logo})
  BY <1>1, HeadTailProperties DEF IInv, Data
<1>3. Data'
  BY <1>1, <1>2 DEF IInv, Data, list, widget
<1>4. CASE UNCHANGED th
  BY <1>1, <1>3, <1>4, Still DEF list
<1>5. CASE Goto(t, "next")
  <2>1. Goes(t, "next", th[t].to)
    BY <1>5, Went DEF Pc
  <2> QED
    BY <1>1, <1>3, <2>1, OuterStep DEF Outer, list
<1> QED
  BY <1>4, <1>5 DEF FinishedEvent

LEMMA EndReachedKeeps == ASSUME IInv, NEW t \in Threads, EndReached(t) PROVE IInv'
<1>1. /\ th[t].pc = "idle" /\ ~InLogo(th[t]) /\ ignoreNext' = FALSE
      /\ UNCHANGED <<list, widget, logoMode, engine, lock, fault>>
  BY Out DEF EndReached, On
<1>2. Data'
  BY <1>1 DEF IInv, Data, list, widget, engine
<1>3. Goes(t, "next", th[t].to)
  BY Went DEF EndReached, Pc
<1> QED
  BY <1>1, <1>2, <1>3, OuterStep DEF Outer, list
-----------------------------------------------------------------------------
(* The theorems. *)

LEMMA ContinueKeeps == ASSUME IInv, NEW t \in Threads, Continue(t) PROVE IInv'
<1>1. CASE Playing(t)
  BY <1>1, OpenKeeps, OpenFailedKeeps, CheckKeeps, AskKeeps, PlayKeeps, FlagKeeps,
     TitleKeeps, PlayFailedKeeps, SucceededKeeps, RejectedKeeps DEF Playing
<1>2. CASE ShowingLogo(t)
  BY <1>2, LogoBeginKeeps, LogoOpenKeeps, LogoEndKeeps DEF ShowingLogo
<1>3. CASE Choosing(t)
  BY <1>3, NextEntryKeeps, AdvanceKeeps, WrapKeeps, ShuffleKeeps, DrawKeeps, ListKeeps,
     ListPlayKeeps, NotPlayedKeeps DEF Choosing
<1>4. CASE Working(t)
  BY <1>4, GuiPlayKeeps, GuiPlay2Keeps, StopBeginKeeps, StopEndKeeps, StepPlayKeeps,
     ClickKeeps, RemoveEntryKeeps, RemovedKeeps, ClearedKeeps DEF Working
<1> QED
  BY <1>1, <1>2, <1>3, <1>4, HaltKeeps, WindowKeeps, FinishKeeps DEF Continue

LEMMA UserCallKeeps == ASSUME IInv, NEW t \in Threads, UserCall(t) PROVE IInv'
  BY PlayButtonKeeps, StopButtonKeeps, CloseButtonKeeps, StepButtonKeeps, DblClickKeeps,
     DeleteKeeps, DeleteAllKeeps, StopAfterwardsKeeps DEF UserCall

LEMMA StepKeeps == IInv /\ [Next]_vars => IInv'
<1> SUFFICES ASSUME IInv, [Next]_vars PROVE IInv'
  OBVIOUS
<1>1. CASE StreamEnds
  BY <1>1, StreamEndsKeeps
<1>2. ASSUME NEW t \in Threads,
             \/ Continue(t) \/ UserCall(t) \/ FinishedEvent(t) \/ EndReached(t)
             \/ \E yes \in BOOLEAN : Answer(t, yes)
      PROVE  IInv'
  BY <1>2, ContinueKeeps, UserCallKeeps, FinishedEventKeeps, EndReachedKeeps,
     AnswerKeeps
<1>3. CASE UNCHANGED vars
  <2>1. UNCHANGED <<list, widget, ignoreNext, logoMode, engine, lock, th, fault>>
    BY <1>3 DEF vars
  <2>2. Data'
    BY <2>1 DEF IInv, Data, list, widget, engine
  <2> QED
    BY <2>1, <2>2, Still DEF list
<1> QED
  BY <1>1, <1>2, <1>3 DEF Next

\* The threads of the player keep the inductive invariant, whatever they do.
THEOREM Inductive == Spec => []IInv
  BY InitIInv, StepKeeps, PTL DEF Spec

(***************************************************************************)
(* The playlist, gui->mmk, the stream and the events are what their types  *)
(* say, and a mutex that is not free has an owner and a count.             *)
(***************************************************************************)
THEOREM TypeCorrect == Spec => []TypeOK
<1>1. IInv => TypeOK
  <2> SUFFICES ASSUME IInv PROVE TypeOK
    OBVIOUS
  <2>1. \A l \in Lock : lock[l] # Unlocked => lock[l].by \in Threads /\ lock[l].n > 0
    <3> SUFFICES ASSUME NEW l \in Lock, lock[l] # Unlocked
                 PROVE  lock[l].by \in Threads /\ lock[l].n > 0
      OBVIOUS
    <3>1. lock[l] \in [by : Threads \cup {Nobody}, n : Nat]
      BY DEF IInv, Locks
    <3>2. lock[l].by # Nobody
      <4> SUFFICES ASSUME lock[l].by = Nobody PROVE FALSE
        OBVIOUS
      <4>1. lock[l].n = 0
        BY DEF IInv, Locks
      <4> QED
        BY <3>1, <4>1 DEF Unlocked
    <3> QED
      BY <3>1, <3>2 DEF IInv, Locks
  <2> QED
    BY <2>1 DEF IInv, Data, TypeOK
<1> QED
  BY <1>1, Inductive, PTL

(***************************************************************************)
(* logo_mode is 2 exactly while a thread is in gui_display_logo, with the  *)
(* logo mutex: no entry that starts to play takes the flag away from it.   *)
(***************************************************************************)
THEOREM LogoIsOnItsWay == Spec => []LogoOnItsWay
<1>1. IInv => LogoOnItsWay
  BY DEF IInv, LogoHeld, LogoOnItsWay
<1> QED
  BY <1>1, Inductive, PTL

(***************************************************************************)
(* ignore_next does not outlive the calls that raise it: with no thread in *)
(* a call it is clear, so that the end of an entry is listened to.         *)
(***************************************************************************)
THEOREM IgnoreReleased == Spec => []IgnoreIsReleased
<1>1. IInv => IgnoreIsReleased
  <2> SUFFICES ASSUME IInv, Busy = {} PROVE ~ignoreNext
    BY DEF IgnoreIsReleased
  <2>1. \A t \in Threads : th[t] = Idle
    BY Here DEF Busy, On, Sensible
  <2> QED
    BY <2>1 DEF IInv, IgnoreHeld, On, Idle
<1> QED
  BY <1>1, Inductive, PTL

-----------------------------------------------------------------------------
(***************************************************************************)
(* Deadlocks.  The owner of a mutex is in a call; whoever shows the logo,  *)
(* and has logo_mutex, has no title to set, which would take mmk_mutex;    *)
(* and the question is only asked about a missing codec.                   *)
(***************************************************************************)
Awake == \A t \in Threads, l \in Lock : lock[l].by = t => th[t].pc # "idle"

Places == \A t \in Threads : /\ th[t].pc = "title" => th[t].call # "logo"
                             /\ th[t].pc = "ask" => Odd # {}

\* A place of a call that is reached whatever the call is for.
Onward(p) == p \notin {"idle", "title"} /\ (p = "ask" => Odd # {})

\* Thread t goes to p, and nobody else gets a lock.
Turns(t, p) == (\A u \in Threads : u # t => th'[u] = th[u]) /\ th'[t].pc = p

Keeps(t) == \A l \in Lock : lock'[l].by \in {lock[l].by, t, Nobody}

LEMMA TurnsBy ==
  ASSUME IInv, NEW t \in Threads, NEW r, th' = [th EXCEPT ![t] = r]
  PROVE  Turns(t, r.pc)
  BY Here DEF Turns

LEMMA TurnsTo ==
  ASSUME IInv, NEW t \in Threads, NEW p,
         Goto(t, p) \/ \E o : GotoVia(t, p, o)
  PROVE  Turns(t, p)
<1>1. th \in [Threads -> Doing] /\ th[t] \in Doing
  BY Here
<1>2. CASE Goto(t, p)
  <2>1. th' = [th EXCEPT ![t] = [th[t] EXCEPT !.pc = p]]
    BY <1>2 DEF Goto
  <2>2. [th[t] EXCEPT !.pc = p].pc = p
    BY <1>1 DEF Doing
  <2> QED
    BY <1>1, <2>1, <2>2 DEF Turns
<1>3. ASSUME NEW o, GotoVia(t, p, o) PROVE Turns(t, p)
  <2>1. th' = [th EXCEPT ![t] = [th[t] EXCEPT !.pc = p, !.to = o]]
    BY <1>3 DEF GotoVia
  <2>2. [th[t] EXCEPT !.pc = p, !.to = o].pc = p
    BY <1>1 DEF Doing
  <2> QED
    BY <1>1, <2>1, <2>2 DEF Turns
<1> QED
  BY <1>2, <1>3

LEMMA TurnsToOpen ==
  ASSUME IInv, NEW t \in Threads, NEW w, NEW m, NEW a, NEW b, Call(t, w, m, a, b)
  PROVE  Turns(t, "open")
<1> DEFINE r == [th[t] EXCEPT !.pc = "open", !.call = w, !.arg = m, !.todo = a,
                              !.report = b]
<1>1. th \in [Threads -> Doing] /\ th[t] \in Doing
  BY Here
<1>2. th' = [th EXCEPT ![t] = r]
  BY DEF Call
<1>3. r.pc = "open"
  BY <1>1 DEF Doing
<1> QED
  BY <1>1, <1>2, <1>3 DEF Turns

LEMMA PlayingTurns ==
  ASSUME IInv, NEW t \in Threads, Playing(t), ~Flag(t)
  PROVE  Keeps(t) /\ \E p : Turns(t, p) /\ Onward(p)
<1>1. th[t] \in Doing /\ Sensible(th[t])
  BY Here
<1>2. CASE Open(t)
  BY <1>2, TurnsTo DEF Open, Keeps, Onward
<1>3. CASE OpenFailed(t)
  <2>1. Turns(t, "window") \/ Turns(t, "rejected")
    BY <1>3, TurnsTo DEF OpenFailed
  <2> QED
    BY <1>3, <2>1 DEF OpenFailed, Keeps, Onward
<1>4. CASE Check(t)
  <2>1. CASE stream.mrl \in Odd /\ ~dialog
    BY <1>4, <2>1, TurnsTo DEF Check, Keeps, Onward
  <2>2. CASE stream.mrl \notin Odd \/ dialog
    BY <1>4, <2>2, TurnsTo DEF Check, Keeps, Onward
  <2> QED
    BY <2>1, <2>2
<1>5. CASE Ask(t)
  BY <1>1, <1>5, TurnsTo DEF Ask, Keeps, Sensible, On, Onward
<1>6. CASE Play(t)
  BY <1>6, TurnsTo DEF Play, Keeps, Onward
<1>7. CASE Title(t)
  BY <1>7, TurnsTo DEF Title, Keeps, Onward
<1>8. CASE PlayFailed(t)
  BY <1>8, TurnsTo DEF PlayFailed, Keeps, Onward
<1>9. CASE Succeeded(t)
  BY <1>9, TurnsTo DEF Succeeded, Keeps, Onward
<1>10. CASE Rejected(t)
  <2>1. CASE th[t].todo # <<>>
    <3>1. Turns(t, "open") /\ lock' = lock
      BY <1>10, <2>1, TurnsToOpen DEF Rejected, Onward
    <3> QED
      BY <3>1 DEF Keeps, Onward
  <2>2. CASE th[t].todo = <<>>
    <3>1. PICK p \in {"unplayed", "logo", "logoEnd", "finish"} : Goto(t, p)
      <4>1. th[t].call \in {"list", "dbl", "play", "step", "logo", "answer"}
        BY <1>1, <1>10 DEF Rejected, Sensible, InCall, On, PlayPc, Doing
      <4> QED
        BY <1>10, <2>2, <4>1 DEF Rejected
    <3>2. Keeps(t)
      BY <1>10, <2>2 DEF Rejected, Keeps, Dropped, Unlocked, IInv, Locks, Lock
    <3> QED
      BY <3>1, <3>2, TurnsTo DEF Onward
  <2> QED
    BY <2>1, <2>2
<1> QED
  BY <1>2, <1>3, <1>4, <1>5, <1>6, <1>7, <1>8, <1>9, <1>10 DEF Playing

LEMMA ChoosingTurns ==
  ASSUME IInv, NEW t \in Threads,
         Choosing(t) \/ ShowingLogo(t) \/ Working(t) \/ Halt(t) \/ Window(t)
  PROVE  Keeps(t) /\ \E p : Turns(t, p) /\ Onward(p)
<1>1. th[t] \in Doing /\ Sensible(th[t])
  BY Here
<1>2. CASE NextEntry(t)
  BY <1>2, TurnsTo DEF NextEntry, Keeps, Onward
<1>3. CASE Advance(t)
  BY <1>3, TurnsTo DEF Advance, Keeps, Onward
<1>4. CASE Wrap(t)
  BY <1>4, TurnsTo DEF Wrap, Keeps, Onward
<1>5. CASE Shuffle(t)
  BY <1>5, TurnsTo DEF Shuffle, Keeps, Onward
<1>6. CASE Draw(t)
  BY <1>6, TurnsTo DEF Draw, Keeps, Onward
<1>7. CASE List(t)
  <2>1. CASE cur >= Len(mmk)
    BY <1>7, <2>1, TurnsTo DEF List, Keeps, Onward
  <2>2. CASE ~(cur >= Len(mmk))
    <3>1. th' = [th EXCEPT ![t] = [th[t] EXCEPT !.pc = "listPlay", !.call = "list"]]
      BY <1>7, <2>2 DEF List
    <3>2. [th[t] EXCEPT !.pc = "listPlay", !.call = "list"].pc = "listPlay"
      BY <1>1 DEF Doing
    <3>3. Turns(t, "listPlay")
      BY <3>1, <3>2, TurnsBy
    <3> QED
      BY <1>7, <3>3 DEF List, Keeps, Onward
  <2> QED
    BY <2>1, <2>2
<1>8. CASE ListPlay(t)
  BY <1>8, TurnsToOpen DEF ListPlay, Keeps, Taken, Onward
<1>9. CASE NotPlayed(t)
  BY <1>9, TurnsTo DEF NotPlayed, Keeps, Onward
<1>10. CASE LogoBegin(t)
  BY <1>10, TurnsTo DEF LogoBegin, Keeps, Taken, Onward
<1>11. CASE LogoOpen(t)
  <2>1. Turns(t, "open") \/ Turns(t, "logoEnd")
    BY <1>11, TurnsTo, TurnsToOpen DEF LogoOpen, Onward
  <2> QED
    BY <1>11, <2>1 DEF LogoOpen, Keeps, Onward
<1>12. CASE LogoEnd(t)
  <2>1. Back(t) \in {"remove", "cleared", "finish"}
    BY DEF Back
  <2>2. Turns(t, Back(t))
    BY <1>12, TurnsTo DEF LogoEnd, Onward
  <2>3. Keeps(t)
    BY <1>12 DEF LogoEnd, Keeps, Dropped, Unlocked, Lock
  <2> QED
    BY <2>1, <2>2, <2>3 DEF Onward
<1>13. CASE Halt(t)
  BY <1>1, <1>13, TurnsTo DEF Halt, Keeps, Sensible, On, Onward
<1>14. CASE Window(t)
  BY <1>1, <1>14, TurnsTo DEF Window, Keeps, Sensible, On, Onward
<1>15. CASE GuiPlay(t)
  <2>1. \E p \in {"finish", "halt", "gplay2"} : Goto(t, p) \/ \E o : GotoVia(t, p, o)
    BY <1>15 DEF GuiPlay
  <2> QED
    BY <1>15, <2>1, TurnsTo DEF GuiPlay, Keeps, Onward
<1>16. CASE GuiPlay2(t)
  <2>1. Turns(t, "finish") \/ Turns(t, "window") \/ Turns(t, "open")
    BY <1>16, TurnsTo, TurnsToOpen DEF GuiPlay2, Onward
  <2> QED
    BY <1>16, <2>1 DEF GuiPlay2, Keeps, Onward
<1>17. CASE StopBegin(t)
  BY <1>17, TurnsTo DEF StopBegin, Keeps, Onward
<1>18. CASE StopEnd(t)
  BY <1>18, TurnsTo DEF StopEnd, Keeps, Onward
<1>19. CASE StepPlay(t)
  <2>1. Turns(t, "open")
    BY <1>19, TurnsToOpen DEF StepPlay, Onward
  <2> QED
    BY <1>19, <2>1 DEF StepPlay, Keeps, Onward
<1>20. CASE Click(t)
  <2>1. th' = [th EXCEPT ![t] = [th[t] EXCEPT !.pc = "listPlay", !.call = "dbl"]]
    BY <1>20 DEF Click
  <2>2. [th[t] EXCEPT !.pc = "listPlay", !.call = "dbl"].pc = "listPlay"
    BY <1>1 DEF Doing
  <2>3. Turns(t, "listPlay")
    BY <2>1, <2>2, TurnsBy
  <2> QED
    BY <1>20, <2>3 DEF Click, Keeps, Taken, Onward
<1>21. CASE RemoveEntry(t)
  BY <1>21, TurnsTo DEF RemoveEntry, Keeps, Onward
<1>22. CASE Removed(t)
  <2>1. CASE mmk # <<>>
    BY <1>22, <2>1, TurnsTo DEF Removed, Keeps, Onward
  <2>2. CASE mmk = <<>>
    <3> DEFINE p == IF stream.status # "stop" THEN "stop" ELSE "cleared"
    <3>1. th' = [th EXCEPT ![t] = [th[t] EXCEPT !.base = "clear", !.pc = p]]
      BY <1>22, <2>2 DEF Removed
    <3>2. [th[t] EXCEPT !.base = "clear", !.pc = p].pc = p
      BY <1>1 DEF Doing
    <3>3. Turns(t, p)
      BY <3>1, <3>2, TurnsBy
    <3> QED
      BY <1>22, <3>3 DEF Removed, Keeps, Onward
  <2> QED
    BY <2>1, <2>2
<1>23. CASE Cleared(t)
  BY <1>23, TurnsTo DEF Cleared, Keeps, Onward
<1> QED
  BY <1>2, <1>3, <1>4, <1>5, <1>6, <1>7, <1>8, <1>9, <1>10, <1>11, <1>12, <1>13, <1>14,
     <1>15, <1>16, <1>17, <1>18, <1>19, <1>20, <1>21, <1>22, <1>23
     DEF Choosing, ShowingLogo, Working

\* xine_play is back: the thread that shows the logo goes on without a title.
LEMMA FlagTurns ==
  ASSUME IInv, NEW t \in Threads, Flag(t)
  PROVE  /\ Keeps(t) /\ (Turns(t, "succeeded") \/ Turns(t, "title"))
         /\ th'[t].pc = "title" => th'[t].call # "logo"
<1>1. th[t] \in Doing /\ th \in [Threads -> Doing]
  BY Here
<1>2. Turns(t, "succeeded") \/ Turns(t, "title")
  BY TurnsTo DEF Flag
<1>3. th'[t].call = th[t].call
  <2>1. PICK p : Goto(t, p)
    BY DEF Flag
  <2> QED
    BY <1>1, <2>1 DEF Goto, Doing
<1>4. th[t].call = "logo" => logoMode = 2
  <2>1. th[t].call = "logo" => InLogo(th[t])
    BY DEF Flag, On, InLogo, InCall, PlayPc
  <2> QED
    BY <2>1, PlaybackAssumption DEF IInv, LogoHeld
<1>5. logoMode = 2 => Goto(t, "succeeded")
  BY DEF Flag
<1>6. Goto(t, "succeeded") => Turns(t, "succeeded")
  BY TurnsTo
<1>7. Keeps(t)
  BY DEF Flag, Keeps
<1> QED
  BY <1>2, <1>3, <1>4, <1>5, <1>6, <1>7 DEF Turns

LEMMA TurnedOn ==
  ASSUME Awake, Places, NEW t \in Threads, Keeps(t), NEW p, Turns(t, p), p # "idle",
         p = "title" => th'[t].call # "logo", p = "ask" => Odd # {}
  PROVE  Awake' /\ Places'
<1>1. \A u \in Threads : u # t => th'[u] = th[u]
  BY DEF Turns
<1>2. th'[t].pc = p
  BY DEF Turns
<1>3. \A l \in Lock : lock'[l].by \in {lock[l].by, t, Nobody}
  BY DEF Keeps
<1>4. Awake'
  BY <1>1, <1>2, <1>3, PlaybackAssumption DEF Awake
<1>5. Places'
  BY <1>1, <1>2 DEF Places
<1> QED
  BY <1>4, <1>5

LEMMA ContinueTurns ==
  ASSUME IInv, Awake, Places, NEW t \in Threads, Continue(t)
  PROVE  Awake' /\ Places'
<1>2. CASE Flag(t)
  BY <1>2, FlagTurns, TurnedOn DEF Turns
<1>3. CASE Finish(t)
  <2>1. \A u \in Threads : th'[u] = IF u = t THEN Idle ELSE th[u]
    BY <1>3, Here DEF Finish
  <2>2. \A l \in Lock : lock'[l].by # t /\ lock'[l].by \in {lock[l].by, Nobody}
    BY <1>3, PlaybackAssumption DEF Finish, DroppedAll, Unlocked
  <2> QED
    BY <2>1, <2>2, PlaybackAssumption DEF Awake, Places, Idle
<1>4. CASE ~Flag(t) /\ ~Finish(t)
  BY <1>4, PlayingTurns, ChoosingTurns, TurnedOn DEF Continue, Onward
<1> QED
  BY <1>2, <1>3, <1>4

\* A call begins: with the xitk lock, or it is the end of an entry.
LEMMA BeginTurns ==
  ASSUME IInv, NEW t \in Threads,
         \/ UserCall(t) \/ FinishedEvent(t) \/ EndReached(t)
         \/ \E yes \in BOOLEAN : Answer(t, yes)
  PROVE  \/ UNCHANGED <<lock, th>>
         \/ Keeps(t) /\ \E p : Turns(t, p) /\ Onward(p)
<1>1. th[t] \in Doing
  BY Here
<1>2. ASSUME NEW c, NEW b, NEW p, NEW i, Begin(t, c, b, p, i)
      PROVE  Keeps(t) /\ Turns(t, p)
  <2>1. th' = [th EXCEPT ![t] = [th[t] EXCEPT !.pc = p, !.base = b, !.idx = i]]
    BY <1>2 DEF Begin
  <2>2. [th[t] EXCEPT !.pc = p, !.base = b, !.idx = i].pc = p
    BY <1>1 DEF Doing
  <2>3. Keeps(t)
    BY <1>2 DEF Begin, Keeps, Taken
  <2> QED
    BY <2>1, <2>2, <2>3, TurnsBy
<1>3. CASE PlayButton(t) \/ StopButton(t) \/ CloseButton(t) \/ StopAfterwards(t)
  BY <1>2, <1>3 DEF PlayButton, StopButton, CloseButton, StopAfterwards, Onward
<1>4. ASSUME NEW by \in Steps, StepButton(t, by)
      PROVE  Keeps(t) /\ \E p : Turns(t, p) /\ Onward(p)
  <2>1. \A b, p, i : StepThrough(t, b, p, i) => Keeps(t) /\ Turns(t, p)
    BY <1>2 DEF StepThrough
  <2> HIDE <1>2
  <2> QED
    BY <1>4, <2>1 DEF StepButton, Onward
<1>5. ASSUME NEW i, DblClick(t, i) \/ Delete(t, i)
      PROVE  Keeps(t) /\ \E p : Turns(t, p) /\ Onward(p)
  BY <1>2, <1>5 DEF DblClick, Delete, Onward
<1>6. CASE DeleteAll(t)
  BY <1>2, <1>6 DEF DeleteAll, Onward
<1>7. CASE FinishedEvent(t) \/ EndReached(t)
  BY <1>7, TurnsTo DEF FinishedEvent, EndReached, Keeps, Onward
<1>8. ASSUME NEW yes \in BOOLEAN, Answer(t, yes)
      PROVE  Keeps(t) /\ \E p : Turns(t, p) /\ Onward(p)
  <2>1. PICK p \in {"play", "next"} :
          th' = [th EXCEPT ![t].pc = p, ![t].call = "answer"]
    BY <1>8 DEF Answer
  <2> DEFINE r == [th[t] EXCEPT !.pc = p, !.call = "answer"]
  <2>2. th' = [th EXCEPT ![t] = r] /\ r.pc = p
    BY <1>1, <2>1 DEF Doing
  <2> HIDE DEF r
  <2>3. Turns(t, p)
    BY <2>2, TurnsBy
  <2> QED
    BY <1>8, <2>3 DEF Answer, Keeps, Taken, Onward
<1> QED
  BY <1>3, <1>4, <1>5, <1>6, <1>7, <1>8 DEF UserCall

LEMMA TurnsStep == IInv /\ Awake /\ Places /\ [Next]_vars => Awake' /\ Places'
<1> SUFFICES ASSUME IInv, Awake, Places, [Next]_vars PROVE Awake' /\ Places'
  OBVIOUS
<1>1. CASE UNCHANGED <<lock, th>>
  BY <1>1 DEF Awake, Places
<1>2. ASSUME NEW t \in Threads, Continue(t) PROVE Awake' /\ Places'
  BY <1>2, ContinueTurns
<1>3. ASSUME NEW t \in Threads, \/ UserCall(t) \/ FinishedEvent(t) \/ EndReached(t)
                                \/ \E yes \in BOOLEAN : Answer(t, yes)
      PROVE  Awake' /\ Places'
  <2>1. CASE Keeps(t) /\ \E p : Turns(t, p) /\ Onward(p)
    BY <2>1, TurnedOn DEF Onward
  <2> QED
    BY <1>1, <1>3, <2>1, BeginTurns
<1> QED
  BY <1>1, <1>2, <1>3 DEF Next, StreamEnds, vars

\* A thread waits for the xitk lock, to open a window.
Windowing == \E t \in Threads : WaitsFor(t, "xitk")

LEMMA Deadlocks == Spec => [](IInv /\ Awake /\ Places)
<1>1. Init => Awake /\ Places
  BY PlaybackAssumption DEF Init, Awake, Places, Unlocked, Idle
<1> QED
  BY <1>1, TurnsStep, Inductive, PTL DEF Spec

(***************************************************************************)
(* Whatever the threads do and however errors are reported: when all that  *)
(* are in a call wait for each other, one of them waits for the xitk lock, *)
(* to open a window.  mmk_mutex and logo_mutex are taken in one order.     *)
(***************************************************************************)
THEOREM OnlyWindowsWait == Spec => [](NoDeadlock \/ Windowing)
<1>1. IInv /\ Awake /\ Places => NoDeadlock \/ Windowing
  <2> SUFFICES ASSUME IInv, Awake, Places, Busy # {}, ~Windowing
               PROVE  \E t \in Busy : \A l \in Lock : ~WaitsFor(t, l)
    BY DEF NoDeadlock
  <2> Lock = {"xitk", "mmk", "logo"}
    BY DEF Lock
  <2>1. CASE lock["logo"].by # Nobody
    <3>1. PICK t \in Threads : lock["logo"].by = t
      BY <2>1 DEF IInv, Locks
    <3>2. InLogo(th[t]) /\ th[t].pc # "idle" /\ th[t].pc # "title"
      BY <3>1 DEF IInv, LogoHeld, Awake, Places, InLogo
    <3>3. th[t].pc \notin Lockers("mmk")
      BY <3>2 DEF Lockers, InLogo, InCall, PlayPc
    <3> QED
      BY <3>1, <3>2, <3>3 DEF Busy, On, WaitsFor, Free, Windowing
  <2>2. CASE lock["logo"].by = Nobody /\ lock["mmk"].by # Nobody
    <3>1. PICK t \in Threads : lock["mmk"].by = t
      BY <2>2 DEF IInv, Locks
    <3> QED
      BY <2>2, <3>1 DEF Awake, Busy, On, WaitsFor, Free, Windowing
  <2>3. CASE lock["logo"].by = Nobody /\ lock["mmk"].by = Nobody
    BY <2>3 DEF Busy, WaitsFor, Free, Windowing
  <2> QED
    BY <2>1, <2>2, <2>3
<1> QED
  BY <1>1, Deadlocks, PTL

Printed == StdCtl /\ Odd = {}

(***************************************************************************)
(* With errors printed and no missing codec to ask about, the threads do   *)
(* not all wait for each other.                                            *)
(***************************************************************************)
THEOREM NoDeadlockPrinted == ASSUME Printed PROVE Spec => []NoDeadlock
<1>1. IInv /\ Awake /\ Places /\ (NoDeadlock \/ Windowing) => NoDeadlock
  BY DEF Printed, Places, Windowing, WaitsFor, Lockers
<1> QED
  BY <1>1, Deadlocks, OnlyWindowsWait, PTL

-----------------------------------------------------------------------------
(***************************************************************************)
(* The listener alone, with nobody at the controls; events that are        *)
(* handled in time.                                                        *)
(***************************************************************************)
Alone == Threads = {Listener} /\ Gui # Listener /\ Slider # Listener

Prompt == ~MayBeLate

Listening == PlayPc \cup
  {"idle", "finish", "window", "halt", "logo", "logoOpen", "logoEnd", "next", "advance",
   "wrap", "shuffle", "draw", "list", "listPlay", "unplayed"}

\* An entry plays, or has come to its end and the listener is to hear of it.
Heard == logoMode = 0 /\ (stream.status = "play" \/ finished # <<>>)

(***************************************************************************)
(* What the listener has on the screen when it is done, and before, where  *)
(* it has started an entry or opened the logo.                             *)
(***************************************************************************)
Showing(r) ==
  /\ r.pc \in Listening /\ r.call \in {"none", "list", "logo"}
  /\ r.pc = "halt" => r.to = "logoOpen"
  /\ r.pc = "window" => r.to # "finish"
  /\ r.pc \in {"idle", "finish"} =>
       \/ MayBeLate \/ ~DisplayLogo
       \/ dialog \/ Heard \/ (logoMode # 0 /\ stream.mrl = Logo)
  /\ r.pc = "ask" => dialog
  /\ r.pc = "flag" => stream.status = "play" \/ finished # <<>>
  /\ r.pc \in {"title", "succeeded"} /\ r.call = "list" => dialog \/ Heard
  /\ r.call = "logo" /\ InCall(r) /\ r.pc # "open" => stream.mrl = Logo
  /\ r.pc = "logoEnd" /\ DisplayLogo => stream.mrl = Logo

Shown == \A t \in Threads : Showing(th[t])

\* Where the listener is, it is alone, and ignore_next is only raised for the logo.
LEMMA Single ==
  ASSUME Alone, IInv, NEW t \in Threads
  PROVE  /\ t = Listener /\ Threads = {t} /\ t # Gui /\ t # Slider
         /\ th[t].base = "none"
         /\ ignoreNext => th[t].pc = "halt"
         /\ logoMode = 2 <=> InLogo(th[t])
<1>1. t = Listener /\ Threads = {t} /\ t # Gui /\ t # Slider
  BY DEF Alone
<1>2. th[t].base = "none"
  BY <1>1, Here
<1>3. ignoreNext => th[t].pc = "halt"
  BY <1>1, <1>2 DEF IInv, IgnoreHeld, On
<1>4. logoMode = 2 <=> InLogo(th[t])
  <2>1. lock["logo"].by \in {t, Nobody} /\ t # Nobody
    BY <1>1, PlaybackAssumption DEF IInv, Locks, Lock
  <2> QED
    BY <2>1 DEF IInv, LogoHeld
<1> QED
  BY <1>1, <1>2, <1>3, <1>4

\* The only thread goes on.
LEMMA OneGoes ==
  ASSUME Alone, IInv, NEW t \in Threads, NEW p, NEW o, Goes(t, p, o)
  PROVE  /\ \A u \in Threads : u = t
         /\ th'[t].pc = p /\ th'[t].to = o /\ th'[t].call = th[t].call
<1>1. PICK r : th' = [th EXCEPT ![t] = r] /\ Turned(r, th[t], p, o)
  BY DEF Goes
<1>2. th'[t] = r
  BY <1>1, Here
<1> QED
  BY <1>1, <1>2, Single DEF Turned

\* To a place where nothing is claimed.
Silent == {"open", "next", "advance", "wrap", "shuffle", "draw", "list", "listPlay",
           "unplayed", "logo", "logoOpen"}

LEMMA SilentShown ==
  ASSUME Alone, IInv, NEW t \in Threads, th'[t].call \in {"none", "list", "logo"},
         \/ th'[t].pc \in Silent
         \/ th'[t].pc = "halt" /\ th'[t].to = "logoOpen"
  PROVE  Shown'
<1>1. Showing(th[t])'
  BY DEF Showing, Silent, Listening, PlayPc, InCall
<1> QED
  BY <1>1, Single DEF Shown

\* To an end that needs no claim, but the logo's one.
LEMMA CallShown ==
  ASSUME Alone, IInv, Shown, NEW t \in Threads, InCall(th[t]), th[t].pc # "open",
         NEW p, NEW o, Goes(t, p, o), stream'.mrl = stream.mrl,
         \/ p \in {"check", "play", "playFailed", "rejected"}
         \/ p = "ask" /\ dialog'
         \/ p = "window" /\ o # "finish"
  PROVE  Shown'
<1>1. th'[t].pc = p /\ th'[t].to = o /\ th'[t].call = th[t].call
  BY OneGoes
<1>2. Showing(th[t])'
  BY <1>1 DEF Shown, Showing, Listening, PlayPc
<1> QED
  BY <1>2, Single DEF Shown

LEMMA OpenShown == ASSUME Alone, IInv, Shown, NEW t \in Threads, Open(t) PROVE Shown'
<1>1. th[t].pc = "open" /\ th[t].call \in {"none", "list", "logo"}
  BY DEF Open, On, Shown, Showing
<1>2. CASE th[t].arg \in Cfg
  <2>1. Goes(t, "next", th[t].to)
    BY <1>2, Went DEF Open, Pc
  <2> QED
    BY <1>1, <2>1, OneGoes, SilentShown DEF Silent
<1>3. CASE th[t].arg \notin Cfg
  <2>1. /\ Goes(t, "check", th[t].to) \/ Goes(t, "openFailed", th[t].to)
        /\ stream' = Opened(th[t].arg)
    BY <1>3, Went DEF Open, Pc, PlayPc
  <2>2. th'[t].pc \in {"check", "openFailed"} /\ th'[t].call = th[t].call
    BY <2>1, OneGoes
  <2>3. th[t].call = "logo" => stream'.mrl = Logo
    <3>1. th[t].call = "logo" => th[t].arg = Logo
      BY <1>1, Here DEF Sensible, InCall, PlayPc
    <3> QED
      BY <2>1, <3>1, PlaybackAssumption DEF Opened, Opens
  <2>4. Showing(th[t])'
    BY <1>1, <2>2, <2>3 DEF Showing, Listening, PlayPc
  <2> QED
    BY <2>4, Single DEF Shown
<1> QED
  BY <1>2, <1>3

LEMMA OpenFailedShown ==
  ASSUME Alone, IInv, Shown, NEW t \in Threads, OpenFailed(t) PROVE Shown'
<1>1. InCall(th[t]) /\ th[t].pc # "open" /\ stream' = stream
  BY DEF OpenFailed, On, InCall, PlayPc, engine
<1>2. Goes(t, "window", "rejected") \/ Goes(t, "rejected", th[t].to)
  BY Went, WentVia DEF OpenFailed, Pc, PlayPc
<1> QED
  BY <1>1, <1>2, CallShown

LEMMA CheckShown == ASSUME Alone, IInv, Shown, NEW t \in Threads, Check(t) PROVE Shown'
<1>1. InCall(th[t]) /\ th[t].pc # "open" /\ stream' = stream
  BY DEF Check, On, InCall, PlayPc, engine
<1>2. \/ Goes(t, "playFailed", th[t].to) \/ Goes(t, "play", th[t].to)
      \/ Goes(t, "ask", "succeeded") /\ dialog' = TRUE
  BY Went, WentVia DEF Check, Pc, PlayPc
<1> QED
  BY <1>1, <1>2, CallShown

LEMMA WindowShown == ASSUME Alone, IInv, Shown, NEW t \in Threads, Window(t) PROVE Shown'
<1>1. /\ th[t].pc = "window" /\ th[t].to \in {"rejected", "playFailed"}
      /\ InCall(th[t]) /\ stream' = stream
  BY Here DEF Window, On, Sensible, Shown, Showing, InCall, engine
<1>2. Goes(t, th[t].to, th[t].to)
  BY <1>1, Went DEF Window, Pc, PlayPc
<1> QED
  BY <1>1, <1>2, CallShown

LEMMA PlayFailedShown ==
  ASSUME Alone, IInv, Shown, NEW t \in Threads, PlayFailed(t) PROVE Shown'
<1>1. InCall(th[t]) /\ th[t].pc # "open" /\ stream' = stream
  BY DEF PlayFailed, On, InCall, PlayPc, engine
<1>2. Goes(t, "rejected", th[t].to)
  BY Went DEF PlayFailed, Pc, PlayPc
<1> QED
  BY <1>1, <1>2, CallShown


LEMMA AskShown == ASSUME Alone, IInv, Shown, NEW t \in Threads, Ask(t) PROVE Shown'
<1>1. /\ th[t].pc = "ask" /\ th[t].to = "succeeded" /\ InCall(th[t])
      /\ dialog /\ dialog' = dialog /\ stream' = stream
  BY Here DEF Ask, On, Sensible, InCall, PlayPc, Shown, Showing, engine, widget
<1>2. Goes(t, "succeeded", "succeeded")
  BY <1>1, Went DEF Ask, Pc, PlayPc
<1>3. th'[t].pc = "succeeded" /\ th'[t].call = th[t].call
  BY <1>2, OneGoes
<1>4. Showing(th[t])'
  BY <1>1, <1>3 DEF Shown, Showing, Listening, PlayPc
<1> QED
  BY <1>4, Single DEF Shown

LEMMA PlayShown == ASSUME Alone, IInv, Shown, NEW t \in Threads, Play(t) PROVE Shown'
<1>1. th[t].pc = "play" /\ InCall(th[t]) /\ finished' = finished
  BY DEF Play, On, InCall, PlayPc
<1>2. CASE Plays(stream)
  <2>1. /\ stream'.status = "play" /\ stream'.mrl = stream.mrl
        /\ Goes(t, "flag", th[t].to)
    BY <1>2, Went DEF Play, Pc, PlayPc, IInv, Data
  <2>2. th'[t].pc = "flag" /\ th'[t].call = th[t].call
    BY <2>1, OneGoes
  <2>3. Showing(th[t])'
    BY <1>1, <2>1, <2>2 DEF Shown, Showing, Listening, PlayPc
  <2> QED
    BY <2>3, Single DEF Shown
<1>3. CASE ~Plays(stream)
  <2>1. stream' = stream /\ Goes(t, "window", "playFailed")
    BY <1>3, WentVia DEF Play, Pc, PlayPc
  <2> QED
    BY <1>1, <2>1, CallShown
<1> QED
  BY <1>2, <1>3

LEMMA FlagShown == ASSUME Alone, IInv, Shown, NEW t \in Threads, Flag(t) PROVE Shown'
<1>1. /\ th[t].pc = "flag" /\ InCall(th[t]) /\ UNCHANGED <<stream, finished>>
      /\ logoMode' = IF logoMode = 2 THEN 2 ELSE 0
  BY DEF Flag, On, InCall, PlayPc, engine
<1>2. Goes(t, "title", th[t].to) \/ Goes(t, "succeeded", th[t].to)
  BY Went DEF Flag, Pc, PlayPc
<1>3. th'[t].pc \in {"title", "succeeded"} /\ th'[t].call = th[t].call
  BY <1>2, OneGoes
<1>4. th[t].call = "list" => logoMode' = 0
  BY <1>1, Single DEF InLogo
<1>5. stream.status = "play" \/ finished # <<>>
  BY <1>1 DEF Shown, Showing
<1>6. th[t].call = "list" => Heard'
  BY <1>1, <1>4, <1>5 DEF Heard
<1>7. Showing(th[t])'
  BY <1>1, <1>3, <1>6 DEF Shown, Showing, Listening, PlayPc
<1> QED
  BY <1>7, Single DEF Shown

LEMMA TitleShown == ASSUME Alone, IInv, Shown, NEW t \in Threads, Title(t) PROVE Shown'
<1>1. /\ th[t].pc = "title" /\ InCall(th[t])
      /\ UNCHANGED <<stream, finished, logoMode, dialog>>
  BY DEF Title, On, InCall, PlayPc, engine, widget
<1>2. Goes(t, "succeeded", th[t].to)
  BY Went DEF Title, Pc, PlayPc
<1>3. th'[t].pc = "succeeded" /\ th'[t].call = th[t].call
  BY <1>2, OneGoes
<1>4. Showing(th[t])'
  BY <1>1, <1>3 DEF Shown, Showing, Listening, PlayPc, Heard
<1> QED
  BY <1>4, Single DEF Shown

LEMMA SucceededShown ==
  ASSUME Alone, IInv, Shown, NEW t \in Threads, Succeeded(t) PROVE Shown'
<1>1. /\ th[t].pc = "succeeded" /\ InCall(th[t]) /\ th[t].call \in {"list", "logo"}
      /\ UNCHANGED <<stream, finished, logoMode, dialog>>
  BY Here DEF Succeeded, On, InCall, PlayPc, Shown, Showing, Sensible, engine, widget
<1>2. CASE th[t].call = "logo"
  <2>1. Goes(t, "logoEnd", th[t].to)
    BY <1>2, Went DEF Succeeded, Pc
  <2>2. th'[t].pc = "logoEnd" /\ th'[t].call = th[t].call
    BY <2>1, OneGoes
  <2>3. Showing(th[t])'
    BY <1>1, <1>2, <2>2 DEF Shown, Showing, Listening, PlayPc, InCall
  <2> QED
    BY <2>3, Single DEF Shown
<1>3. CASE th[t].call = "list"
  <2>1. Goes(t, "finish", th[t].to)
    BY <1>3, Went DEF Succeeded, Pc
  <2>2. th'[t].pc = "finish" /\ th'[t].call = th[t].call
    BY <2>1, OneGoes
  <2>3. Showing(th[t])'
    BY <1>1, <1>3, <2>2 DEF Shown, Showing, Listening, PlayPc, InCall, Heard
  <2> QED
    BY <2>3, Single DEF Shown
<1> QED
  BY <1>1, <1>2, <1>3

LEMMA RejectedShown ==
  ASSUME Alone, IInv, Shown, NEW t \in Threads, Rejected(t) PROVE Shown'
<1>1. /\ th[t].pc = "rejected" /\ InCall(th[t]) /\ th[t].call \in {"list", "logo"}
      /\ UNCHANGED <<stream, finished, logoMode, dialog>>
  BY Here DEF Rejected, On, InCall, PlayPc, Shown, Showing, Sensible, engine, widget
<1>2. CASE th[t].todo # <<>>
  <2>1. PICK m, alts, told : Call(t, th[t].call, m, alts, told)
    BY <1>2, Zenon DEF Rejected
  <2>2. th'[t].pc = "open" /\ th'[t].call = th[t].call
    BY <2>1, Here DEF Call, Doing
  <2> QED
    BY <1>1, <2>2, SilentShown DEF Silent
<1>3. CASE th[t].todo = <<>> /\ th[t].call = "list"
  <2>1. Goes(t, "unplayed", th[t].to)
    BY <1>3, Went DEF Rejected, Pc
  <2> QED
    BY <1>1, <2>1, OneGoes, SilentShown DEF Silent
<1>4. CASE th[t].todo = <<>> /\ th[t].call = "logo"
  <2>1. Goes(t, "logoEnd", th[t].to)
    BY <1>4, Went DEF Rejected, Pc
  <2>2. th'[t].pc = "logoEnd" /\ th'[t].call = th[t].call
    BY <2>1, OneGoes
  <2>3. Showing(th[t])'
    BY <1>1, <1>4, <2>2 DEF Shown, Showing, Listening, PlayPc, InCall
  <2> QED
    BY <2>3, Single DEF Shown
<1> QED
  BY <1>1, <1>2, <1>3, <1>4

LEMMA PlayingShown ==
  ASSUME Alone, IInv, Shown, NEW t \in Threads, Playing(t) PROVE Shown'
  BY OpenShown, OpenFailedShown, CheckShown, AskShown, PlayShown, FlagShown, TitleShown,
     PlayFailedShown, SucceededShown, RejectedShown DEF Playing

LEMMA LogoShown ==
  ASSUME Alone, IInv, Shown, NEW t \in Threads, ShowingLogo(t) \/ Halt(t) PROVE Shown'
<1>1. th[t].call \in {"none", "list", "logo"}
  BY DEF Shown, Showing
<1>2. CASE LogoBegin(t)
  <2>1. Goes(t, "halt", "logoOpen") \/ Goes(t, "logoOpen", th[t].to)
    BY <1>2, Went, WentVia DEF LogoBegin, Pc
  <2> QED
    BY <1>1, <2>1, OneGoes, SilentShown DEF Silent
<1>3. CASE LogoOpen(t)
  <2>1. CASE DisplayLogo
    <3>1. PICK told \in BOOLEAN : Call(t, "logo", Logo, <<>>, told)
      BY <1>3, <2>1, Zenon DEF LogoOpen
    <3>2. th'[t].pc = "open" /\ th'[t].call = "logo"
      BY <3>1, Here DEF Call, Doing
    <3> QED
      BY <3>2, SilentShown DEF Silent
  <2>2. CASE ~DisplayLogo
    <3>1. Goes(t, "logoEnd", th[t].to)
      BY <1>3, <2>2, Went DEF LogoOpen, Pc
    <3>2. th'[t].pc = "logoEnd" /\ th'[t].call = th[t].call
      BY <3>1, OneGoes
    <3>3. Showing(th[t])'
      BY <1>1, <2>2, <3>2 DEF Showing, Listening, PlayPc, InCall
    <3> QED
      BY <3>3, Single DEF Shown
  <2> QED
    BY <2>1, <2>2
<1>4. CASE LogoEnd(t)
  <2>1. /\ stream' = stream /\ logoMode' = 1 /\ (DisplayLogo => stream.mrl = Logo)
    BY <1>4 DEF LogoEnd, On, engine, Shown, Showing
  <2>2. Goes(t, "finish", th[t].to)
    BY <1>4, Single, Went DEF LogoEnd, Back, Pc
  <2>3. th'[t].pc = "finish" /\ th'[t].call = th[t].call
    BY <2>2, OneGoes
  <2>4. Showing(th[t])'
    BY <1>1, <2>1, <2>3 DEF Showing, Listening, PlayPc, InCall
  <2> QED
    BY <2>4, Single DEF Shown
<1>5. CASE Halt(t)
  <2>1. th[t].to = "logoOpen"
    BY <1>5 DEF Halt, On, Shown, Showing
  <2>2. Goes(t, "logoOpen", th[t].to)
    BY <1>5, <2>1, Went DEF Halt, Pc
  <2> QED
    BY <1>1, <2>2, OneGoes, SilentShown DEF Silent
<1> QED
  BY <1>2, <1>3, <1>4, <1>5 DEF ShowingLogo

LEMMA ChoosingShown ==
  ASSUME Alone, IInv, Shown, NEW t \in Threads, Choosing(t) PROVE Shown'
<1>1. th[t].call \in {"none", "list", "logo"}
  BY DEF Shown, Showing
<1>2. ASSUME NEW p \in Silent \cap Pc, Goto(t, p) PROVE Shown'
  BY <1>1, <1>2, Went, OneGoes, SilentShown
<1>3. CASE NextEntry(t)
  <2>1. ~ignoreNext
    BY <1>3, Single DEF NextEntry, On
  <2>2. PICK p \in {"logo", "advance", "list", "shuffle"} : Goto(t, p)
    BY <1>3, <2>1 DEF NextEntry
  <2> QED
    BY <1>2, <2>2 DEF Silent, Pc
<1>4. CASE ListPlay(t)
  <2>1. PICK m, alts, told : Call(t, th[t].call, m, alts, told)
    BY <1>4, Zenon DEF ListPlay
  <2>2. th'[t].pc = "open" /\ th'[t].call = th[t].call
    BY <2>1, Here DEF Call, Doing
  <2> QED
    BY <1>1, <2>2, SilentShown DEF Silent
<1>5. CASE List(t)
  <2>1. CASE Goto(t, "unplayed")
    BY <1>2, <2>1 DEF Silent, Pc
  <2>2. CASE th' = [th EXCEPT ![t].pc = "listPlay", ![t].call = "list"]
    <3>1. th'[t].pc = "listPlay" /\ th'[t].call = "list"
      BY <2>2, Here DEF Doing
    <3> QED
      BY <3>1, SilentShown DEF Silent
  <2> QED
    BY <1>5, <2>1, <2>2 DEF List
<1>6. CASE Advance(t) \/ Wrap(t) \/ Shuffle(t) \/ Draw(t) \/ NotPlayed(t)
  <2>1. PICK p \in {"wrap", "list", "logo", "draw"} : Goto(t, p)
    BY <1>6 DEF Advance, Wrap, Shuffle, Draw, NotPlayed
  <2> QED
    BY <1>2, <2>1 DEF Silent, Pc
<1> QED
  BY <1>3, <1>4, <1>5, <1>6 DEF Choosing

LEMMA FinishShown == ASSUME Alone, IInv, Shown, NEW t \in Threads, Finish(t) PROVE Shown'
<1>1. /\ th[t].pc = "finish" /\ th'[t] = Idle
      /\ UNCHANGED <<stream, finished, logoMode, dialog>>
  BY Here DEF Finish, On, engine, widget
<1>2. Showing(th[t])'
  BY <1>1 DEF Shown, Showing, Listening, PlayPc, InCall, Heard, Idle
<1> QED
  BY <1>2, Single DEF Shown

\* The end of a stream is put in the queue, that of the logo changes nothing.
LEMMA EventShown ==
  ASSUME Alone, IInv, Shown, StreamEnds \/ \E t \in Threads : FinishedEvent(t)
  PROVE  Shown'
<1>1. CASE StreamEnds
  <2>1. /\ th' = th /\ dialog' = dialog /\ logoMode' = logoMode
        /\ finished' # <<>> /\ stream'.mrl = stream.mrl
    BY <1>1, AppendProperties DEF StreamEnds, widget, Stopped, IInv, Data
  <2> QED
    BY <2>1 DEF Shown, Showing, Heard
<1>2. ASSUME NEW t \in Threads, FinishedEvent(t) PROVE Shown'
  <2>1. /\ th[t].pc = "idle" /\ finished # <<>>
        /\ UNCHANGED <<stream, logoMode, dialog>>
    BY <1>2 DEF FinishedEvent, On, widget
  <2>2. CASE Goto(t, "next")
    <3>1. th'[t].pc = "next" /\ th'[t].call = th[t].call
      BY <2>2, Went, OneGoes DEF Pc
    <3> QED
      BY <3>1, SilentShown DEF Silent, Shown, Showing
  <2>3. CASE logoMode # 0 /\ UNCHANGED th
    <3>1. Showing(th[t])'
      BY <2>1, <2>3, Here DEF Shown, Showing, Heard, Sensible, Idle, InCall, PlayPc
    <3> QED
      BY <3>1, Single DEF Shown
  <2>4. CASE MayBeLate /\ UNCHANGED th
    <3>1. Showing(th[t])'
      BY <2>1, <2>4, Here DEF Shown, Showing, Sensible, Idle, InCall, PlayPc
    <3> QED
      BY <3>1, Single DEF Shown
  <2> QED
    BY <1>2, <2>2, <2>3, <2>4 DEF FinishedEvent
<1> QED
  BY <1>1, <1>2

LEMMA ShownStep == Alone /\ IInv /\ Shown /\ [Next]_vars => Shown'
<1> SUFFICES ASSUME Alone, IInv, Shown, [Next]_vars PROVE Shown'
  OBVIOUS
<1>1. ASSUME NEW t \in Threads, Working(t) PROVE Shown'
  BY <1>1 DEF Working, GuiPlay, GuiPlay2, StopBegin, StopEnd, StepPlay, Click, RemoveEntry,
     Removed, Cleared, On, Shown, Showing, Listening, PlayPc
<1>2. ASSUME NEW t \in Threads, Continue(t) PROVE Shown'
  BY <1>1, <1>2, PlayingShown, LogoShown, ChoosingShown, WindowShown, FinishShown
     DEF Continue
<1>3. ASSUME NEW t \in Threads,
             UserCall(t) \/ EndReached(t) \/ \E yes \in BOOLEAN : Answer(t, yes)
      PROVE  FALSE
  <2>1. t # Gui /\ t # Slider
    BY Single
  <2>2. CASE \E yes \in BOOLEAN : Answer(t, yes)
    BY <2>1, <2>2 DEF Answer
  <2>3. CASE EndReached(t)
    BY <2>1, <2>3 DEF EndReached
  <2>4. CASE UserCall(t)
    BY <2>1, <2>4 DEF UserCall, PlayButton, StopButton, CloseButton, StepButton,
       StepThrough, DblClick, Delete, DeleteAll, StopAfterwards, Begin
  <2> QED
    BY <1>3, <2>2, <2>3, <2>4
<1>4. CASE UNCHANGED vars
  <2>1. UNCHANGED <<th, dialog, logoMode, stream, finished>>
    BY <1>4 DEF vars, widget, engine
  <2> QED
    BY <2>1 DEF Shown, Showing, Heard
<1> QED
  BY <1>2, <1>3, <1>4, EventShown DEF Next

LEMMA ShownInit == Init => Shown
<1> SUFFICES ASSUME Init, NEW t \in Threads PROVE Showing(th[t])
  BY DEF Shown
<1>1. th[t] = Idle
  BY DEF Init
<1>2. ~DisplayLogo \/ Heard \/ (logoMode # 0 /\ stream.mrl = Logo)
  BY DEF Init, Heard
<1> QED
  BY <1>1, <1>2 DEF Idle, Showing, Listening, PlayPc, InCall

(***************************************************************************)
(* With the listener alone, and events handled in time, the end of an      *)
(* entry leaves something on the screen, for any list, whatever of it does *)
(* not open, play or decode: an entry plays, the logo is there, or the     *)
(* user is asked.                                                          *)
(***************************************************************************)
THEOREM SomethingIsShown == ASSUME Alone, Prompt PROVE Spec => []SomethingShows
<1>1. Init => Shown
  BY ShownInit
<1>2. IInv /\ Shown /\ [Next]_vars => Shown'
  BY ShownStep
<1>3. Shown => SomethingShows
  <2> SUFFICES ASSUME Shown, DisplayLogo, Busy = {}, finished = <<>>
               PROVE  stream.status = "play" \/ dialog \/ stream.mrl = Logo
    BY DEF SomethingShows
  <2>1. Listener \in Threads
    BY DEF Alone
  <2>2. th[Listener].pc = "idle"
    BY <2>1 DEF Busy, On
  <2> QED
    BY <2>1, <2>2 DEF Shown, Showing, Heard, Prompt
<1> QED
  BY <1>1, <1>2, <1>3, Inductive, PTL DEF Spec

-----------------------------------------------------------------------------
(***************************************************************************)
(* A round of the list, with the listener alone.  The entries are no       *)
(* alternates of each other, and none that is shuffled is cfg:/: an        *)
(* alternate that has the mrl of its entry is opened as the entry, and a   *)
(* cfg:/ entry is never marked, so that of two entries the other one is    *)
(* drawn again.                                                            *)
(***************************************************************************)
Shuffles == {"shuffle", "shuf_plus"}

Ordinary ==
  \A ms \in Lists : \A i \in DOMAIN ms :
    /\ \A k \in DOMAIN Alternates : Alternates[k] # ms[i]
    /\ Loops \cap Shuffles # {} => ms[i] \notin Cfg

Sorted ==
  /\ mmk # <<>> /\ current.alts = Alternates
  /\ \A i \in 0 .. Len(mmk) - 1 :
       /\ At(mmk, i).alts = Alternates
       /\ \A k \in DOMAIN Alternates : Alternates[k] # At(mmk, i).mrl
       /\ loop \in Shuffles => At(mmk, i).mrl \notin Cfg

\* In "no loop" the entries before i have been played, those from i on not.
Past(i) == At(mmk, i).played \/ At(mmk, i).mrl \in Cfg
Before(i) == loop = "no_loop" => \A k \in 0 .. i - 1 : Past(k)
Since(i) == loop = "no_loop" => \A k \in i .. Len(mmk) - 1 : ~At(mmk, k).played

(***************************************************************************)
(* The current entry is the next one to play; it is being tried; it has    *)
(* had its turn, or the round is over.                                     *)
(***************************************************************************)
Upcoming == InRange(mmk, cur) /\ ~At(mmk, cur).played /\ Before(cur) /\ Since(cur)

InHand == /\ InRange(mmk, cur) /\ At(mmk, cur).mrl = current.mrl
          /\ Before(cur) /\ Since(cur + 1)

Unstarted == \A k \in 0 .. Len(mmk) - 1 : ~At(mmk, k).played

Over ==
  /\ InRange(mmk, cur)
  /\ \/ loop = "no_loop" /\ (cur = Len(mmk) - 1 \/ (Before(cur + 1) /\ Since(cur + 1)))
     \/ loop \in Shuffles /\ (At(mmk, cur).played \/ Unstarted)

\* The entry itself has failed: it has been marked, alternates are tried.
Tried(r) ==
  r.arg # current.mrl \/ r.pc = "rejected" \/ (r.pc = "window" /\ r.to = "rejected")

Trying(r) == r.call = "list" /\ InCall(r)

Placed(r) ==
  /\ r.pc \in {"advance", "wrap"} => loop = "no_loop"
  /\ r.pc \in {"shuffle", "draw"} => loop \in Shuffles
  /\ r.pc = "draw" => ~AllPlayed(mmk)
  /\ r.pc = "wrap" => cur = Len(mmk) \/ Upcoming
  /\ r.pc \in {"list", "listPlay"} => Upcoming
  /\ r.pc = "listPlay" => At(mmk, cur).mrl = current.mrl
  /\ Trying(r) => /\ InHand
                  /\ r.pc = "open" /\ r.arg = current.mrl => ~At(mmk, cur).played
                  /\ Tried(r) => At(mmk, cur).played
                  /\ \A k \in DOMAIN r.todo : r.todo[k] # current.mrl
  /\ r.pc \notin {"wrap", "list", "listPlay"} /\ ~Trying(r) => Over

InRound(t) == Sorted /\ loop \notin {"loop", "repeat"} /\ Placed(th[t])

\* When nothing is started, nothing ever is.
Orderly ==
  \A t \in Threads :
    /\ ~Started => th[t].pc = "idle" /\ logoMode = 1
    /\ Started /\ loop \notin {"loop", "repeat"} => InRound(t)

LEMMA Same ==
  ASSUME UNCHANGED <<mmk, cur, loop>>, current'.mrl = current.mrl, current'.alts = current.alts
  PROVE  /\ Sorted' <=> Sorted
         /\ Upcoming' <=> Upcoming
         /\ InHand' <=> InHand
         /\ Over' <=> Over
BY DEF Sorted, Upcoming, InHand, Over, Unstarted, Before, Since, Past

\* The thread goes from where the entry has had its turn to another such place.
LEMMA StaysOver ==
  ASSUME NEW t \in Threads, InRound(t), Over, UNCHANGED list,
         th'[t].pc \notin {"wrap", "list", "listPlay"},
         th'[t].pc \notin PlayPc \cup {"window"} \/ th'[t].call # "list",
         th'[t].pc = "advance" => loop = "no_loop",
         th'[t].pc \in {"shuffle", "draw"} => loop \in Shuffles,
         th'[t].pc = "draw" => ~AllPlayed(mmk)
  PROVE  InRound(t)'
<1>1. UNCHANGED <<mmk, cur, loop, current>>
  BY DEF list
<1>2. ~Trying(th[t])'
  BY DEF Trying, InCall, PlayPc
<1>3. Over' /\ Sorted'
  BY <1>1, Same DEF InRound
<1> QED
  BY <1>1, <1>2, <1>3 DEF InRound, Placed

\* The thread goes on with the entry that it has in hand.
LEMMA StaysInHand ==
  ASSUME NEW t \in Threads, InRound(t), Trying(th[t]), UNCHANGED <<mmk, cur, loop>>,
         current'.mrl = current.mrl, current'.alts = current.alts,
         NEW p, NEW o, th'[t].pc = p, th'[t].to = o, th'[t].call = th[t].call,
         th'[t].arg = th[t].arg, th'[t].todo = th[t].todo,
         \/ p \in PlayPc \ {"open"}
         \/ p = "window" /\ o \in {"rejected", "playFailed"},
         p = "rejected" \/ (p = "window" /\ o = "rejected") => At(mmk, cur).played
  PROVE  InRound(t)'
<1>1. Sorted' /\ InHand'
  BY Same DEF InRound, Placed
<1>2. Trying(th[t])' /\ (Tried(th[t])' => At(mmk, cur)'.played)
  BY DEF Trying, InCall, Tried, InRound, Placed, PlayPc
<1>3. p \notin {"advance", "wrap", "shuffle", "draw", "list", "listPlay", "open"}
  BY DEF PlayPc
<1> QED
  BY <1>1, <1>2, <1>3 DEF InRound, Placed

LEMMA HandedOver ==
  ASSUME IInv, Sorted, loop \notin {"loop", "repeat"}, InHand, Past(cur)
  PROVE  Over
<1>1. cur \in 0 .. Len(mmk) - 1 /\ loop \in LoopMode
  BY DEF IInv, Data, InHand, InRange
<1>2. CASE loop = "no_loop"
  <2>1. Before(cur + 1)
    BY <1>1 DEF InHand, Before
  <2> QED
    BY <1>2, <2>1 DEF InHand, Over
<1>3. CASE loop \in Shuffles
  BY <1>1, <1>3 DEF InHand, Over, Sorted, Past
<1> QED
  BY <1>1, <1>2, <1>3 DEF LoopMode, Shuffles

LEMMA MarkedEntry ==
  ASSUME NEW s \in Seq(Entry), NEW i \in 0 .. Len(s) - 1
  PROVE  LET m == MarkPlayed(s, i) IN
         /\ Len(m) = Len(s)
         /\ \A k \in 0 .. Len(s) - 1 :
              /\ At(m, k).mrl = At(s, k).mrl /\ At(m, k).alts = At(s, k).alts
              /\ At(m, k).played = (k = i \/ At(s, k).played)
<1> DEFINE m == MarkPlayed(s, i)
<1>1. m \in Seq(Entry) /\ Len(m) = Len(s)
  BY MarkType DEF InRange
<1>2. \A k \in 0 .. Len(s) - 1 : k + 1 \in DOMAIN s /\ s[k + 1] \in Entry
  OBVIOUS
<1>3. \A k \in 0 .. Len(s) - 1 :
        m[k + 1] = IF k = i THEN [s[k + 1] EXCEPT !.played = TRUE] ELSE s[k + 1]
  <2> SUFFICES ASSUME NEW k \in 0 .. Len(s) - 1
               PROVE  m[k + 1] = IF k = i THEN [s[k + 1] EXCEPT !.played = TRUE] ELSE s[k + 1]
    OBVIOUS
  <2>1. k + 1 \in DOMAIN s /\ (k + 1 = i + 1 <=> k = i)
    BY <1>2
  <2> QED
    BY <2>1 DEF MarkPlayed
<1>4. ASSUME NEW k \in 0 .. Len(s) - 1
      PROVE  /\ At(m, k).mrl = At(s, k).mrl /\ At(m, k).alts = At(s, k).alts
             /\ At(m, k).played = (k = i \/ At(s, k).played)
  <2>1. m[k + 1] = IF k = i THEN [s[k + 1] EXCEPT !.played = TRUE] ELSE s[k + 1]
    BY <1>3
  <2>2. s[k + 1] \in [mrl : Mrl, alts : Seq(Mrl), played : BOOLEAN]
    BY <1>2 DEF Entry
  <2> HIDE DEF m
  <2> QED
    BY <2>1, <2>2 DEF At
<1> QED
  BY <1>1, <1>4

\* The end of a try: the entry is marked, unless an alternate was tried.
LEMMA MarkedInHand ==
  ASSUME IInv, NEW t \in Threads, InRound(t), Trying(th[t]), Mark(t)
  PROVE  /\ Sorted' /\ InHand' /\ Past(cur)'
         /\ (At(mmk, cur).played)' /\ cur' = cur /\ current' = current /\ loop' = loop
<1>1. /\ InHand /\ Sorted /\ (th[t].arg # current.mrl => At(mmk, cur).played)
      /\ cur \in 0 .. Len(mmk) - 1 /\ mmk \in Seq(Entry)
      /\ UNCHANGED <<cur, current, loop>>
  BY DEF InRound, Placed, Tried, InHand, InRange, IInv, Data, Mark
<1>2. CASE th[t].arg # current.mrl
  <2>1. mmk' = mmk
    BY <1>2 DEF Mark
  <2> QED
    BY <1>1, <1>2, <2>1, Same DEF Past
<1>3. CASE th[t].arg = current.mrl
  <2>1. mmk' = MarkPlayed(mmk, cur)
    BY <1>1, <1>3 DEF Mark, InRange
  <2>2. /\ Len(mmk') = Len(mmk)
        /\ \A k \in 0 .. Len(mmk) - 1 :
             /\ At(mmk', k).mrl = At(mmk, k).mrl /\ At(mmk', k).alts = At(mmk, k).alts
             /\ At(mmk', k).played = (k = cur \/ At(mmk, k).played)
    BY <1>1, <2>1, MarkedEntry
  <2>3. At(mmk', cur).played
    BY <1>1, <2>2
  <2>4. Sorted'
    <3>1. mmk' # <<>>
      BY <1>1, <2>2
    <3>2. ASSUME NEW i \in 0 .. Len(mmk') - 1
          PROVE  /\ At(mmk', i).alts = Alternates
                 /\ \A k \in DOMAIN Alternates : Alternates[k] # At(mmk', i).mrl
                 /\ loop \in Shuffles => At(mmk', i).mrl \notin Cfg
      <4>1. i \in 0 .. Len(mmk) - 1
        BY <2>2
      <4>2. At(mmk', i).mrl = At(mmk, i).mrl /\ At(mmk', i).alts = At(mmk, i).alts
        BY <2>2, <4>1
      <4> QED
        BY <1>1, <4>1, <4>2 DEF Sorted
    <3>3. current'.alts = Alternates
      BY <1>1 DEF Sorted
    <3> QED
      BY <1>1, <3>1, <3>2, <3>3 DEF Sorted
  <2>5. InHand'
    <3>1. Before(cur)'
      <4> SUFFICES ASSUME loop = "no_loop", NEW k \in 0 .. cur - 1 PROVE Past(k)'
        BY <1>1 DEF Before
      <4>1. k \in 0 .. Len(mmk) - 1 /\ Past(k)
        BY <1>1 DEF InHand, Before
      <4> QED
        BY <2>2, <4>1 DEF Past
    <3>2. Since(cur + 1)'
      <4> SUFFICES ASSUME loop = "no_loop", NEW k \in cur + 1 .. Len(mmk) - 1
                   PROVE  ~At(mmk', k).played
        BY <1>1, <2>2 DEF Since
      <4>1. k \in 0 .. Len(mmk) - 1 /\ k # cur /\ ~At(mmk, k).played
        BY <1>1 DEF InHand, Since
      <4> QED
        BY <2>2, <4>1
    <3> QED
      BY <1>1, <2>2, <3>1, <3>2 DEF InHand, InRange
  <2> QED
    BY <1>1, <2>3, <2>4, <2>5 DEF Past
<1> QED
  BY <1>2, <1>3

\* The logo is not in the list: nothing is marked.
LEMMA LogoUnmarked ==
  ASSUME IInv, NEW t \in Threads, th[t].call = "logo", InCall(th[t]), Mark(t)
  PROVE  UNCHANGED list
<1>1. th[t].arg = Logo
  BY Here DEF Sensible
<1>2. current.mrl # Logo
  BY PlaybackAssumption DEF IInv, Data, Current
<1> QED
  BY <1>1, <1>2 DEF Mark, list

\* What the invariant says of the one thread.
Going(t) == Alone /\ Ordinary /\ IInv /\ Shown /\ InRound(t)

LEMMA GoesOn ==
  ASSUME IInv, NEW t \in Threads, NEW p, NEW o, Goes(t, p, o)
  PROVE  /\ th'[t].pc = p /\ th'[t].to = o /\ th'[t].call = th[t].call
         /\ th'[t].arg = th[t].arg /\ th'[t].todo = th[t].todo
         /\ th'[t].base = th[t].base
<1>1. PICK r : th' = [th EXCEPT ![t] = r] /\ Turned(r, th[t], p, o)
  BY DEF Goes
<1>2. th'[t] = r
  BY <1>1, Here
<1> QED
  BY <1>1, <1>2 DEF Turned

\* In a call the listener tries an entry or opens the logo.
LEMMA ListOrLogo ==
  ASSUME NEW t \in Threads, Going(t), InCall(th[t])
  PROVE  \/ Trying(th[t])
         \/ th[t].call = "logo" /\ ~Trying(th[t]) /\ Over /\ th[t].arg = Logo /\ th[t].todo = <<>>
<1>1. th[t].call \in {"list", "logo"}
  BY Here DEF Going, Shown, Showing, Sensible
<1>2. CASE th[t].call = "logo"
  <2>1. ~Trying(th[t]) /\ th[t].arg = Logo /\ th[t].todo = <<>>
    BY <1>2, Here DEF Trying, Going, Sensible
  <2>2. th[t].pc \notin {"wrap", "list", "listPlay"}
    BY DEF InCall, PlayPc
  <2> QED
    BY <1>2, <2>1, <2>2 DEF Going, InRound, Placed
<1> QED
  BY <1>1, <1>2 DEF Trying

\* From one place in a call to another one, with the same list.
LEMMA InsideRound ==
  ASSUME NEW t \in Threads, Going(t), InCall(th[t]), UNCHANGED list,
         NEW p, NEW o, Goes(t, p, o),
         \/ p \in PlayPc \ {"open", "rejected"}
         \/ p = "window" /\ o = "playFailed"
         \/ p = "rejected" /\ th[t].pc = "window" /\ th[t].to = "rejected"
  PROVE  InRound(t)'
<1>1. /\ th'[t].pc = p /\ th'[t].to = o /\ th'[t].call = th[t].call
      /\ th'[t].arg = th[t].arg /\ th'[t].todo = th[t].todo
  BY GoesOn DEF Going
<1>2. UNCHANGED <<mmk, cur, loop, current>>
  BY DEF list
<1>3. CASE Trying(th[t])
  <2>1. p = "rejected" => At(mmk, cur).played
    BY <1>3 DEF Going, InRound, Placed, Tried
  <2> QED
    BY <1>1, <1>2, <1>3, <2>1, StaysInHand DEF Going, PlayPc
<1>4. CASE th[t].call = "logo" /\ Over
  BY <1>1, <1>4, StaysOver DEF Going, PlayPc
<1> QED
  BY <1>3, <1>4, ListOrLogo

LEMMA OpenRound == ASSUME NEW t \in Threads, Going(t), Open(t) PROVE InRound(t)'
<1>1. /\ th[t].pc = "open" /\ InCall(th[t]) /\ IInv /\ UNCHANGED list
  BY DEF Open, On, InCall, PlayPc, Going
<1>2. CASE th[t].arg \in Cfg
  <2>1. th[t].arg # Logo
    BY <1>2, PlaybackAssumption
  <2>2. Trying(th[t])
    BY <1>1, <2>1, ListOrLogo
  <2>3. InHand /\ Past(cur)
    BY <1>2, <2>2 DEF Going, InRound, Placed, Tried, InHand, Past
  <2>4. Over
    BY <1>1, <2>3, HandedOver DEF Going, InRound
  <2>5. Goes(t, "next", th[t].to)
    BY <1>1, <1>2, Went DEF Open, Pc
  <2>6. th'[t].pc = "next"
    BY <1>1, <2>5, GoesOn
  <2> QED
    BY <1>1, <2>4, <2>6, StaysOver DEF Going, PlayPc
<1>3. CASE th[t].arg \notin Cfg
  <2>1. Goes(t, "check", th[t].to) \/ Goes(t, "openFailed", th[t].to)
    BY <1>1, <1>3, Went DEF Open, Pc, PlayPc
  <2> QED
    BY <1>1, <2>1, InsideRound DEF PlayPc
<1> QED
  BY <1>2, <1>3

LEMMA MarkRound ==
  ASSUME NEW t \in Threads, Going(t), InCall(th[t]), Mark(t), NEW p, NEW o, Goes(t, p, o),
         \/ p = "rejected"
         \/ p = "window" /\ o = "rejected"
         \/ p = "finish" /\ th[t].call = "list"
         \/ p = "logoEnd" /\ th[t].call = "logo"
  PROVE  InRound(t)'
<1>1. /\ th'[t].pc = p /\ th'[t].to = o /\ th'[t].call = th[t].call
      /\ th'[t].arg = th[t].arg /\ th'[t].todo = th[t].todo /\ IInv /\ InRound(t)
  BY GoesOn DEF Going
<1>2. CASE th[t].call = "logo" /\ ~Trying(th[t]) /\ Over
  <2>1. UNCHANGED list
    BY <1>1, <1>2, LogoUnmarked
  <2> QED
    BY <1>1, <1>2, <2>1, StaysOver
<1>3. CASE Trying(th[t])
  <2>1. /\ Sorted' /\ InHand' /\ Past(cur)' /\ (At(mmk, cur).played)'
        /\ current' = current /\ loop' = loop
    BY <1>1, <1>3, MarkedInHand
  <2>2. CASE p = "finish"
    <3>1. Over'
      <4>1. /\ cur \in Int /\ loop \in LoopMode /\ cur' = cur
            /\ loop \notin {"loop", "repeat"}
        BY <1>1 DEF IInv, Data, InRound, Mark
      <4>2. Before(cur + 1)'
        BY <2>1, <4>1 DEF InHand, Before
      <4> QED
        BY <2>1, <4>1, <4>2 DEF InHand, Over, LoopMode, Shuffles
    <3>2. ~Trying(th[t])'
      BY <1>1, <2>2 DEF Trying, InCall, PlayPc
    <3> QED
      BY <1>1, <2>1, <2>2, <3>1, <3>2 DEF InRound, Placed
  <2>3. CASE p # "finish"
    <3>1. Trying(th[t])'
      BY <1>1, <1>3, <2>3 DEF Trying, InCall, PlayPc
    <3>2. \A k \in DOMAIN th'[t].todo : th'[t].todo[k] # current'.mrl
      BY <1>1, <1>3, <2>1 DEF InRound, Placed
    <3>3. p \in {"rejected", "window"}
      BY <1>3, <2>3 DEF Trying
    <3> QED
      BY <1>1, <2>1, <3>1, <3>2, <3>3 DEF InRound, Placed
  <2> QED
    BY <2>2, <2>3
<1> QED
  BY <1>2, <1>3, ListOrLogo

\* The title makes the current entry current once more.
LEMMA TitleRound == ASSUME NEW t \in Threads, Going(t), Title(t) PROVE InRound(t)'
<1>1. /\ th[t].pc = "title" /\ InCall(th[t]) /\ IInv /\ InRound(t) /\ UNCHANGED <<mmk, loop>>
      /\ cur' = RealIndex(mmk, cur, CURRENT)
      /\ current' = CopyOver(current, EntryOrNone(mmk, cur'))
  BY DEF Title, SetCurrent, On, InCall, PlayPc, Going
<1>2. Goes(t, "succeeded", th[t].to)
  BY <1>1, Went DEF Title, Pc, PlayPc
<1>3. /\ th'[t].pc = "succeeded" /\ th'[t].to = th[t].to /\ th'[t].call = th[t].call
      /\ th'[t].arg = th[t].arg /\ th'[t].todo = th[t].todo
  BY <1>1, <1>2, GoesOn
<1>4. InRange(mmk, cur) /\ cur \in Int
  BY <1>1, ListOrLogo DEF InRound, Placed, InHand, Over, IInv, Data
<1>5. cur' = cur /\ cur # NONE
  BY <1>1, <1>4 DEF RealIndex, Resolve, InRange, NONE
<1>6. current'.mrl = At(mmk, cur).mrl /\ current'.alts = current.alts
  BY <1>1, <1>4, <1>5 DEF CopyOver, EntryOrNone, InRound, Sorted, InRange
<1>7. CASE Trying(th[t])
  <2>1. current'.mrl = current.mrl
    BY <1>1, <1>6, <1>7 DEF InRound, Placed, InHand
  <2> QED
    BY <1>1, <1>3, <1>5, <1>6, <1>7, <2>1, StaysInHand DEF PlayPc
<1>8. CASE th[t].call = "logo" /\ Over
  <2>1. Sorted' /\ Over'
    <3>1. Sorted'
      BY <1>1, <1>5, <1>6 DEF InRound, Sorted
    <3>2. Over'
      BY <1>1, <1>5, <1>8 DEF Over, Unstarted, Before, Since, Past
    <3> QED
      BY <3>1, <3>2
  <2>2. ~Trying(th[t])'
    BY <1>3, <1>8 DEF Trying
  <2> QED
    BY <1>1, <1>3, <2>1, <2>2 DEF InRound, Placed
<1> QED
  BY <1>1, <1>7, <1>8, ListOrLogo

LEMMA RejectedRound == ASSUME NEW t \in Threads, Going(t), Rejected(t) PROVE InRound(t)'
<1>1. /\ th[t].pc = "rejected" /\ InCall(th[t]) /\ IInv /\ InRound(t) /\ UNCHANGED list
      /\ UNCHANGED <<mmk, cur, loop, current>>
  BY DEF Rejected, On, InCall, PlayPc, Going, list
<1>2. CASE Trying(th[t])
  <2>1. /\ InHand /\ At(mmk, cur).played /\ th[t].call = "list"
        /\ \A k \in DOMAIN th[t].todo : th[t].todo[k] # current.mrl
    BY <1>1, <1>2 DEF InRound, Placed, Tried, Trying
  <2>2. CASE th[t].todo # <<>>
    <3>1. PICK told \in BOOLEAN : Call(t, th[t].call, Head(th[t].todo), Tail(th[t].todo), told)
      BY <2>2, Zenon DEF Rejected
    <3>2. /\ th'[t].pc = "open" /\ th'[t].call = "list"
          /\ th'[t].arg = Head(th[t].todo) /\ th'[t].todo = Tail(th[t].todo)
      BY <1>1, <2>1, <3>1, Here DEF Call, Doing
    <3>3. /\ th[t].todo \in Seq(Mrl)
      BY <1>1, Here DEF Doing
    <3>4. /\ th'[t].arg # current.mrl
          /\ \A k \in DOMAIN th'[t].todo : th'[t].todo[k] # current.mrl
      <4>1. PICK q \in Seq(Mrl) : q = th[t].todo
        BY <3>3
      <4>2. /\ 1 \in DOMAIN q /\ Head(q) = q[1]
            /\ \A k \in DOMAIN Tail(q) : k + 1 \in DOMAIN q /\ Tail(q)[k] = q[k + 1]
        BY <2>2, <4>1
      <4> QED
        BY <2>1, <3>2, <4>1, <4>2
    <3>5. Sorted' /\ InHand' /\ Trying(th[t])'
      BY <1>1, <2>1, <3>2, Same DEF InRound, Trying, InCall, PlayPc
    <3> QED
      BY <1>1, <2>1, <3>2, <3>4, <3>5 DEF InRound, Placed
  <2>3. CASE th[t].todo = <<>>
    <3>1. Goes(t, "unplayed", th[t].to)
      BY <1>1, <2>1, <2>3, Went DEF Rejected, Pc
    <3>2. th'[t].pc = "unplayed"
      BY <1>1, <3>1, GoesOn
    <3>3. Over
      BY <1>1, <2>1, HandedOver DEF InRound, Past
    <3> QED
      BY <1>1, <3>2, <3>3, StaysOver DEF PlayPc
  <2> QED
    BY <2>2, <2>3
<1>3. CASE th[t].call = "logo" /\ Over /\ th[t].todo = <<>>
  <2>1. Goes(t, "logoEnd", th[t].to)
    BY <1>1, <1>3, Went DEF Rejected, Pc
  <2>2. th'[t].pc = "logoEnd"
    BY <1>1, <2>1, GoesOn
  <2> QED
    BY <1>1, <1>3, <2>2, StaysOver DEF PlayPc
<1> QED
  BY <1>1, <1>2, <1>3, ListOrLogo

LEMMA PlayingRound == ASSUME NEW t \in Threads, Going(t), Playing(t) PROVE InRound(t)'
<1> IInv
  BY DEF Going
<1> USE DEF On, InCall, PlayPc, Pc
<1>1. CASE OpenFailed(t)
  <2>1. Goes(t, "window", "rejected") \/ Goes(t, "rejected", th[t].to)
    BY <1>1, Went, WentVia DEF OpenFailed
  <2> QED
    BY <1>1, <2>1, MarkRound DEF OpenFailed
<1>2. CASE Check(t)
  <2>1. \/ Goes(t, "playFailed", th[t].to) \/ Goes(t, "play", th[t].to)
        \/ Goes(t, "ask", "succeeded")
    BY <1>2, Went, WentVia DEF Check
  <2> QED
    BY <1>2, <2>1, InsideRound DEF Check
<1>3. CASE Ask(t)
  <2>1. th[t].to = "succeeded"
    BY <1>3, Here DEF Ask, Sensible
  <2>2. Goes(t, "succeeded", "succeeded")
    BY <1>3, <2>1, Went DEF Ask
  <2> QED
    BY <1>3, <2>2, InsideRound DEF Ask
<1>4. CASE Play(t)
  <2>1. Goes(t, "flag", th[t].to) \/ Goes(t, "window", "playFailed")
    BY <1>4, Went, WentVia DEF Play
  <2> QED
    BY <1>4, <2>1, InsideRound DEF Play
<1>5. CASE Flag(t)
  <2>1. Goes(t, "title", th[t].to) \/ Goes(t, "succeeded", th[t].to)
    BY <1>5, Went DEF Flag
  <2> QED
    BY <1>5, <2>1, InsideRound DEF Flag
<1>6. CASE PlayFailed(t) \/ Succeeded(t)
  <2>1. InCall(th[t]) /\ th[t].call \in {"list", "logo"}
    BY <1>6, Here DEF PlayFailed, Succeeded, Going, Shown, Showing, Sensible
  <2>2. Mark(t)
    BY <1>6, <2>1 DEF PlayFailed, Succeeded
  <2>3. CASE PlayFailed(t)
    <3>1. Goes(t, "rejected", th[t].to)
      BY <2>3, Went DEF PlayFailed
    <3> QED
      BY <2>1, <2>2, <3>1, MarkRound
  <2>4. CASE Succeeded(t)
    <3>1. \/ Goes(t, "logoEnd", th[t].to) /\ th[t].call = "logo"
          \/ Goes(t, "finish", th[t].to) /\ th[t].call = "list"
      BY <2>1, <2>4, Went DEF Succeeded
    <3> QED
      BY <2>1, <2>2, <3>1, MarkRound
  <2> QED
    BY <1>6, <2>3, <2>4
<1> QED
  BY <1>1, <1>2, <1>3, <1>4, <1>5, <1>6, OpenRound, TitleRound, RejectedRound DEF Playing

\* Where the entry has had its turn.
LEMMA IsOver ==
  ASSUME NEW t \in Threads, InRound(t), ~InCall(th[t]),
         th[t].pc \notin {"wrap", "list", "listPlay"}
  PROVE  Over
BY DEF InRound, Placed, Trying

LEMMA LogoRound ==
  ASSUME NEW t \in Threads, Going(t), ShowingLogo(t) \/ Halt(t) PROVE InRound(t)'
<1>1. /\ IInv /\ InRound(t) /\ UNCHANGED list
      /\ th[t].pc \in {"logo", "logoOpen", "logoEnd", "halt"}
  BY DEF Going, ShowingLogo, Halt, LogoBegin, LogoOpen, LogoEnd, On
<1>2. Over
  BY <1>1, IsOver DEF InCall, PlayPc
<1>3. \/ th'[t].pc \in {"halt", "logoOpen", "logoEnd", "finish"}
      \/ (th'[t].pc = "open" /\ th'[t].call = "logo")
  <2>1. CASE LogoBegin(t)
    <3>1. Goes(t, "halt", "logoOpen") \/ Goes(t, "logoOpen", th[t].to)
      BY <1>1, <2>1, Went, WentVia DEF LogoBegin, Pc
    <3> QED
      BY <1>1, <3>1, GoesOn
  <2>2. CASE LogoOpen(t)
    <3>1. CASE DisplayLogo
      <4>1. PICK told \in BOOLEAN : Call(t, "logo", Logo, <<>>, told)
        BY <2>2, <3>1, Zenon DEF LogoOpen
      <4> QED
        BY <1>1, <4>1, Here DEF Call, Doing
    <3>2. CASE ~DisplayLogo
      <4>1. Goes(t, "logoEnd", th[t].to)
        BY <1>1, <2>2, <3>2, Went DEF LogoOpen, Pc
      <4> QED
        BY <1>1, <4>1, GoesOn
    <3> QED
      BY <3>1, <3>2
  <2>3. CASE LogoEnd(t)
    <3>1. Goes(t, "finish", th[t].to)
      BY <1>1, <2>3, Single, Went DEF LogoEnd, Back, Pc, Going
    <3> QED
      BY <1>1, <3>1, GoesOn
  <2>4. CASE Halt(t)
    <3>1. th[t].to = "logoOpen"
      BY <2>4 DEF Halt, On, Shown, Showing, Going
    <3>2. Goes(t, "logoOpen", th[t].to)
      BY <1>1, <2>4, <3>1, Went DEF Halt, Pc
    <3> QED
      BY <1>1, <3>2, GoesOn
  <2> QED
    BY <2>1, <2>2, <2>3, <2>4 DEF ShowingLogo
<1> QED
  BY <1>1, <1>2, <1>3, StaysOver DEF PlayPc

\* The marks are cleared: the round is over.
LEMMA ResetOver ==
  ASSUME IInv, Sorted, NEW i \in 0 .. Len(mmk) - 1, mmk' = ResetPlayed(mmk), cur' = i,
         current' = current, loop' = loop,
         loop = "no_loop" => i = Len(mmk) - 1, loop \in Shuffles \cup {"no_loop"}
  PROVE  Sorted' /\ Over' /\ ~AllPlayed(mmk')
<1>1. /\ mmk \in Seq(Entry) /\ mmk' \in Seq(Entry) /\ Len(mmk') = Len(mmk) /\ Len(mmk) \in Nat
  BY ResetType DEF IInv, Data
<1>2. ASSUME NEW k \in 0 .. Len(mmk) - 1
      PROVE  /\ At(mmk', k).mrl = At(mmk, k).mrl /\ At(mmk', k).alts = At(mmk, k).alts
             /\ ~At(mmk', k).played /\ k + 1 \in DOMAIN mmk'
  <2>1. k + 1 \in DOMAIN mmk /\ mmk[k + 1] \in Entry /\ k + 1 \in DOMAIN mmk'
    BY <1>1
  <2>2. mmk'[k + 1] = [mmk[k + 1] EXCEPT !.played = FALSE]
    BY <2>1 DEF ResetPlayed
  <2> QED
    BY <2>1, <2>2 DEF At, Entry
<1>3. Sorted'
  <2>1. ASSUME NEW k \in 0 .. Len(mmk') - 1
        PROVE  /\ At(mmk', k).alts = Alternates
               /\ \A j \in DOMAIN Alternates : Alternates[j] # At(mmk', k).mrl
               /\ loop \in Shuffles => At(mmk', k).mrl \notin Cfg
    <3>1. k \in 0 .. Len(mmk) - 1
      BY <1>1
    <3>2. At(mmk', k).mrl = At(mmk, k).mrl /\ At(mmk', k).alts = At(mmk, k).alts
      BY <1>2, <3>1
    <3> QED
      BY <3>1, <3>2 DEF Sorted
  <2>2. mmk' # <<>> /\ current'.alts = Alternates
    BY <1>1 DEF Sorted
  <2> QED
    BY <2>1, <2>2 DEF Sorted
<1>4. Over'
  <2>1. Unstarted'
    BY <1>1, <1>2 DEF Unstarted
  <2> QED
    BY <1>1, <2>1 DEF Over, InRange
<1>5. ~AllPlayed(mmk')
  <2>1. ~At(mmk', i).played /\ i + 1 \in DOMAIN mmk'
    BY <1>2
  <2> QED
    BY <2>1 DEF AllPlayed, At
<1> QED
  BY <1>3, <1>4, <1>5

LEMMA NextEntryRound == ASSUME NEW t \in Threads, Going(t), NextEntry(t) PROVE InRound(t)'
<1>1. /\ IInv /\ InRound(t) /\ th[t].pc = "next" /\ mmk # <<>> /\ loop \in LoopMode
      /\ loop \notin {"loop", "repeat"}
  BY DEF Going, NextEntry, On, InRound, Sorted, IInv, Data
<1>2. /\ UNCHANGED list
      /\ \/ Goto(t, "finish") \/ Goto(t, "logo")
         \/ Goto(t, "advance") /\ loop = "no_loop"
         \/ Goto(t, "shuffle") /\ loop \in Shuffles
  BY <1>1 DEF NextEntry, LoopMode, Shuffles
<1>3. Over
  BY <1>1, IsOver DEF InCall, PlayPc
<1>4. \/ th'[t].pc \in {"finish", "logo"}
      \/ th'[t].pc = "advance" /\ loop = "no_loop"
      \/ th'[t].pc = "shuffle" /\ loop \in Shuffles
  BY <1>1, <1>2, Went, GoesOn DEF Pc
<1> QED
  BY <1>1, <1>2, <1>3, <1>4, StaysOver DEF PlayPc

LEMMA AdvanceRound == ASSUME NEW t \in Threads, Going(t), Advance(t) PROVE InRound(t)'
<1>1. /\ IInv /\ InRound(t) /\ th[t].pc = "advance" /\ Goto(t, "wrap")
      /\ cur' = cur + 1 /\ UNCHANGED <<mmk, current, loop>> /\ cur \in Int
      /\ mmk \in Seq(Entry)
  BY DEF Going, Advance, On, IInv, Data
<1>2. Over /\ loop = "no_loop" /\ Sorted
  BY <1>1, IsOver DEF InCall, PlayPc, InRound, Placed
<1>3. th'[t].pc = "wrap"
  BY <1>1, Went, GoesOn DEF Pc
<1>4. Sorted'
  BY <1>1, <1>2 DEF Sorted
<1>5. cur' = Len(mmk') \/ Upcoming'
  <2>1. cur \in 0 .. Len(mmk) - 1 /\ Len(mmk) \in Nat
    BY <1>1, <1>2 DEF Over, InRange
  <2>2. CASE cur = Len(mmk) - 1
    BY <1>1, <2>1, <2>2
  <2>3. CASE cur # Len(mmk) - 1
    <3>1. Before(cur + 1) /\ Since(cur + 1)
      BY <1>2, <2>3 DEF Over, Shuffles
    <3>2. Before(cur)' /\ Since(cur)'
      BY <1>1, <3>1 DEF Before, Since, Past
    <3>3. InRange(mmk', cur')
      BY <1>1, <2>1, <2>3 DEF InRange
    <3>4. ~At(mmk', cur').played
      BY <1>1, <1>2, <2>1, <2>3, <3>1 DEF Since
    <3> QED
      BY <3>2, <3>3, <3>4 DEF Upcoming
  <2> QED
    BY <2>2, <2>3
<1>6. ~Trying(th[t])'
  BY <1>3 DEF Trying, InCall, PlayPc
<1> QED
  BY <1>1, <1>2, <1>3, <1>4, <1>5, <1>6 DEF InRound, Placed

LEMMA WrapRound == ASSUME NEW t \in Threads, Going(t), Wrap(t) PROVE InRound(t)'
<1>1. /\ IInv /\ InRound(t) /\ th[t].pc = "wrap" /\ cur \in Int /\ mmk \in Seq(Entry)
  BY DEF Going, Wrap, On, IInv, Data
<1>2. loop = "no_loop" /\ Sorted /\ (cur = Len(mmk) \/ Upcoming)
  BY <1>1 DEF InRound, Placed
<1>3. CASE cur < Len(mmk) /\ Goto(t, "list") /\ UNCHANGED list
  <2>1. th'[t].pc = "list"
    BY <1>1, <1>3, Went, GoesOn DEF Pc
  <2>2. UNCHANGED <<mmk, cur, current, loop>>
    BY <1>3 DEF list
  <2>3. Sorted' /\ Upcoming'
    BY <1>1, <1>2, <1>3, <2>2, Same
  <2>4. ~Trying(th[t])'
    BY <2>1 DEF Trying, InCall, PlayPc
  <2> QED
    BY <1>2, <2>1, <2>2, <2>3, <2>4 DEF InRound, Placed
<1>4. CASE /\ cur >= Len(mmk) /\ Goto(t, "logo") /\ cur' = cur - 1
           /\ mmk' = ResetPlayed(mmk) /\ UNCHANGED <<current, loop>>
  <2>1. th'[t].pc = "logo"
    BY <1>1, <1>4, Went, GoesOn DEF Pc
  <2>2. Len(mmk) \in Nat /\ Len(mmk) # 0
    BY <1>1, <1>2 DEF Sorted
  <2>3. cur' = Len(mmk) - 1 /\ cur' \in 0 .. Len(mmk) - 1
    BY <1>1, <1>2, <1>4, <2>2 DEF Upcoming, InRange
  <2>4. Sorted' /\ Over'
    BY <1>1, <1>2, <1>4, <2>3, ResetOver
  <2>5. ~Trying(th[t])'
    BY <2>1 DEF Trying, InCall, PlayPc
  <2> QED
    BY <1>2, <1>4, <2>1, <2>4, <2>5 DEF InRound, Placed
<1> QED
  BY <1>2, <1>3, <1>4 DEF Wrap

LEMMA ShuffleRound == ASSUME NEW t \in Threads, Going(t), Shuffle(t) PROVE InRound(t)'
<1>1. /\ IInv /\ InRound(t) /\ th[t].pc = "shuffle" /\ UNCHANGED <<cur, current, loop>>
      /\ mmk \in Seq(Entry) /\ cur \in Int
  BY DEF Going, Shuffle, On, IInv, Data
<1>2. loop \in Shuffles /\ Sorted /\ Over
  BY <1>1, IsOver DEF InCall, PlayPc, InRound, Placed
<1>3. CASE AllPlayed(mmk)
  <2>1. /\ mmk' = ResetPlayed(mmk)
        /\ Goto(t, "draw") \/ Goto(t, "logo")
    BY <1>3 DEF Shuffle
  <2>2. th'[t].pc \in {"draw", "logo"}
    BY <1>1, <2>1, Went, GoesOn DEF Pc
  <2>3. cur \in 0 .. Len(mmk) - 1
    BY <1>1, <1>2 DEF Over, InRange
  <2>4. Sorted' /\ Over' /\ ~AllPlayed(mmk')
    BY <1>1, <1>2, <2>1, <2>3, ResetOver DEF Shuffles
  <2>5. ~Trying(th[t])'
    BY <2>2 DEF Trying, InCall, PlayPc
  <2> QED
    BY <1>1, <1>2, <2>2, <2>4, <2>5 DEF InRound, Placed, Shuffles
<1>4. CASE ~AllPlayed(mmk)
  <2>1. UNCHANGED list /\ Goto(t, "draw")
    BY <1>1, <1>4 DEF Shuffle, list
  <2>2. th'[t].pc = "draw"
    BY <1>1, <2>1, Went, GoesOn DEF Pc
  <2> QED
    BY <1>1, <1>2, <1>4, <2>1, <2>2, StaysOver DEF PlayPc
<1> QED
  BY <1>3, <1>4

\* What is drawn has not been played.
LEMMA DrawRound == ASSUME NEW t \in Threads, Going(t), Draw(t) PROVE InRound(t)'
<1>1. /\ IInv /\ InRound(t) /\ th[t].pc = "draw" /\ UNCHANGED <<mmk, current, loop>>
      /\ mmk \in Seq(Entry) /\ cur \in Int /\ cur' \in ShuffleNext(mmk, cur)
      /\ Goto(t, "list") /\ Len(mmk) \in Nat
  BY DEF Going, Draw, On, IInv, Data
<1>2. loop \in Shuffles /\ Sorted /\ Over /\ ~AllPlayed(mmk)
  BY <1>1, IsOver DEF InCall, PlayPc, InRound, Placed
<1>3. th'[t].pc = "list"
  BY <1>1, Went, GoesOn DEF Pc
<1>4. PICK k \in 0 .. Len(mmk) - 1 : ~At(mmk, k).played
  <2>1. PICK i \in DOMAIN mmk : ~mmk[i].played
    BY <1>2 DEF AllPlayed
  <2>2. i \in 1 .. Len(mmk)
    BY <1>1, <2>1
  <2>3. i - 1 \in 0 .. Len(mmk) - 1 /\ (i - 1) + 1 = i
    BY <1>1, <2>2
  <2> QED
    BY <2>1, <2>3 DEF At
<1>5. cur \in 0 .. Len(mmk) - 1 /\ (At(mmk, cur).played \/ Unstarted)
  BY <1>1, <1>2 DEF Over, InRange, Shuffles
<1>6. cur' \in 0 .. Len(mmk) - 1 /\ ~At(mmk, cur').played
  <2>1. CASE Len(mmk) >= 3
    BY <1>1, <1>5, <2>1 DEF ShuffleNext, Unplayed
  <2>2. CASE Len(mmk) = 2
    <3>1. cur' = 1 - cur /\ cur \in {0, 1} /\ k \in {0, 1}
      BY <1>1, <1>5, <2>2 DEF ShuffleNext
    <3>2. CASE Unstarted
      BY <2>2, <3>1, <3>2 DEF Unstarted
    <3>3. CASE At(mmk, cur).played
      <4>1. k # cur
        BY <1>4, <3>3
      <4>2. k = cur'
        BY <3>1, <4>1
      <4> QED
        BY <1>4, <4>2
    <3> QED
      BY <1>5, <3>2, <3>3
  <2>3. CASE Len(mmk) = 1
    BY <1>1, <1>4, <1>5, <2>3 DEF ShuffleNext
  <2>4. Len(mmk) >= 3 \/ Len(mmk) = 2 \/ Len(mmk) = 1
    <3>1. Len(mmk) \in Nat /\ Len(mmk) # 0
      BY <1>1, <1>2 DEF Sorted
    <3>2. \A n \in Nat : n # 0 => n >= 3 \/ n = 2 \/ n = 1
      OBVIOUS
    <3> QED
      BY <3>1, <3>2, Zenon
  <2> QED
    BY <2>1, <2>2, <2>3, <2>4
<1>7. Upcoming'
  <2>1. Before(cur)' /\ Since(cur)'
    BY <1>1, <1>2 DEF Before, Since, Shuffles
  <2> QED
    BY <1>1, <1>6, <2>1 DEF Upcoming, InRange
<1>8. Sorted' /\ ~Trying(th[t])'
  BY <1>1, <1>2, <1>3 DEF Sorted, Trying, InCall, PlayPc
<1> QED
  BY <1>1, <1>2, <1>3, <1>7, <1>8 DEF InRound, Placed, Shuffles

LEMMA ListRound == ASSUME NEW t \in Threads, Going(t), List(t) PROVE InRound(t)'
<1>1. /\ IInv /\ InRound(t) /\ th[t].pc = "list" /\ cur \in Int /\ mmk \in Seq(Entry)
  BY DEF Going, List, On, IInv, Data
<1>2. Upcoming /\ Sorted
  BY <1>1 DEF InRound, Placed
<1>3. cur \in 0 .. Len(mmk) - 1 /\ cur < Len(mmk) /\ cur # CURRENT /\ cur # NONE
  BY <1>1, <1>2 DEF Upcoming, InRange, CURRENT, NONE
<1>4. SetCurrent(t, cur) /\ th' = [th EXCEPT ![t].pc = "listPlay", ![t].call = "list"]
  BY <1>1, <1>3 DEF List
<1>5. cur' = cur /\ UNCHANGED <<mmk, loop>> /\ current' = CopyOver(current, At(mmk, cur))
  BY <1>2, <1>3, <1>4 DEF SetCurrent, RealIndex, Resolve, Upcoming, EntryOrNone
<1>6. current'.mrl = At(mmk, cur).mrl /\ current'.alts = current.alts
  BY <1>2, <1>3, <1>5 DEF CopyOver, Sorted
<1>7. th'[t].pc = "listPlay"
  BY <1>1, <1>4, Here DEF Doing
<1>8. Sorted' /\ Upcoming'
  <2>1. Sorted'
    BY <1>2, <1>5, <1>6 DEF Sorted
  <2>2. Upcoming'
    BY <1>2, <1>5 DEF Upcoming, Before, Since, Past
  <2> QED
    BY <2>1, <2>2
<1>9. ~Trying(th[t])'
  BY <1>7 DEF Trying, InCall, PlayPc
<1> QED
  BY <1>1, <1>5, <1>6, <1>7, <1>8, <1>9 DEF InRound, Placed

LEMMA ListPlayRound == ASSUME NEW t \in Threads, Going(t), ListPlay(t) PROVE InRound(t)'
<1>1. /\ IInv /\ InRound(t) /\ th[t].pc = "listPlay" /\ UNCHANGED list
      /\ cur \in Int /\ mmk \in Seq(Entry)
  BY DEF Going, ListPlay, On, IInv, Data
<1>2. Upcoming /\ Sorted /\ At(mmk, cur).mrl = current.mrl
  BY <1>1 DEF InRound, Placed
<1>3. th[t].call = "list"
  BY <1>1, Here DEF Sensible, Going, Shown, Showing
<1>4. PICK told \in BOOLEAN : Call(t, th[t].call, current.mrl, current.alts, told)
  BY Zenon DEF ListPlay
<1>5. /\ th'[t].pc = "open" /\ th'[t].call = "list" /\ th'[t].arg = current.mrl
      /\ th'[t].todo = current.alts
  BY <1>1, <1>3, <1>4, Here DEF Call, Doing
<1>6. UNCHANGED <<mmk, cur, current, loop>>
  BY <1>1 DEF list
<1>7. InHand /\ cur \in 0 .. Len(mmk) - 1
  BY <1>1, <1>2 DEF Upcoming, InHand, InRange, Since
<1>8. Sorted' /\ InHand' /\ Trying(th[t])'
  BY <1>2, <1>5, <1>6, <1>7, Same DEF Trying, InCall, PlayPc
<1>9. ~Tried(th[t])' /\ \A k \in DOMAIN th'[t].todo : th'[t].todo[k] # current'.mrl
  BY <1>2, <1>5, <1>6, <1>7 DEF Tried, Sorted
<1> QED
  BY <1>1, <1>2, <1>5, <1>6, <1>8, <1>9 DEF InRound, Placed, Upcoming

LEMMA NotPlayedRound == ASSUME NEW t \in Threads, Going(t), NotPlayed(t) PROVE InRound(t)'
<1>1. /\ IInv /\ InRound(t) /\ th[t].pc = "unplayed" /\ UNCHANGED list
  BY DEF Going, NotPlayed, On
<1>2. Over
  BY <1>1, IsOver DEF InCall, PlayPc
<1>3. \/ Goto(t, "logo")
      \/ Goto(t, "draw") /\ loop \in Shuffles /\ ~AllPlayed(mmk)
  BY DEF NotPlayed, Shuffles
<1>4. \/ th'[t].pc = "logo"
      \/ th'[t].pc = "draw" /\ loop \in Shuffles /\ ~AllPlayed(mmk)
  BY <1>1, <1>3, Went, GoesOn DEF Pc
<1> QED
  BY <1>1, <1>2, <1>4, StaysOver DEF PlayPc

LEMMA OthersRound ==
  ASSUME NEW t \in Threads, Going(t), Window(t) \/ Finish(t) \/ FinishedEvent(t)
  PROVE  InRound(t)'
<1>1. IInv /\ InRound(t) /\ UNCHANGED list
  BY DEF Going, Window, Finish, FinishedEvent
<1>2. CASE Window(t)
  <2>1. InCall(th[t]) /\ th[t].pc = "window" /\ th[t].to \in {"rejected", "playFailed"}
    BY <1>1, <1>2, Here DEF Window, On, Sensible, Going, Shown, Showing, InCall
  <2>2. Goes(t, th[t].to, th[t].to)
    BY <1>1, <1>2, <2>1, Went DEF Window, Pc, PlayPc
  <2> QED
    BY <1>1, <2>1, <2>2, InsideRound DEF PlayPc
<1>3. CASE Finish(t) \/ FinishedEvent(t)
  <2>1. Over
    BY <1>1, <1>3, IsOver DEF InCall, PlayPc, Finish, FinishedEvent, On
  <2>2. th'[t].pc \in {"idle", "next"}
    <3>1. CASE Finish(t)
      BY <1>1, <3>1, Here DEF Finish, Idle
    <3>2. CASE FinishedEvent(t)
      <4>1. th' = th \/ Goto(t, "next")
        BY <3>2 DEF FinishedEvent
      <4>2. Goto(t, "next") => th'[t].pc = "next"
        BY <1>1, Went, GoesOn DEF Pc
      <4> QED
        BY <3>2, <4>1, <4>2 DEF FinishedEvent, On
    <3> QED
      BY <1>3, <3>1, <3>2
  <2> QED
    BY <1>1, <2>1, <2>2, StaysOver DEF PlayPc
<1> QED
  BY <1>2, <1>3

LEMMA OrderlyStep == Alone /\ Ordinary /\ IInv /\ Shown /\ Orderly /\ [Next]_vars => Orderly'
<1> SUFFICES ASSUME Alone, Ordinary, IInv, Shown, Orderly, [Next]_vars,
                    NEW t \in Threads
             PROVE  /\ ~Started => th'[t].pc = "idle" /\ logoMode' = 1
                    /\ Started /\ loop' \notin {"loop", "repeat"} => InRound(t)'
  BY DEF Orderly
<1>1. \/ Continue(t) \/ FinishedEvent(t) \/ StreamEnds \/ UNCHANGED vars
  <2>1. Threads = {t} /\ t # Gui /\ t # Slider
    BY Single
  <2>2. ~UserCall(t) /\ ~EndReached(t) /\ \A yes \in BOOLEAN : ~Answer(t, yes)
    <3>1. ~EndReached(t)
      BY <2>1 DEF EndReached
    <3>2. \A yes \in BOOLEAN : ~Answer(t, yes)
      BY <2>1 DEF Answer
    <3>3. \A c, b, p, i : ~Begin(t, c, b, p, i)
      BY <2>1 DEF Begin
    <3>4. ~UserCall(t)
      BY <3>3 DEF UserCall, PlayButton, StopButton, CloseButton, StepButton, StepThrough,
                  DblClick, Delete, DeleteAll, StopAfterwards
    <3> QED
      BY <3>1, <3>2, <3>4
  <2> QED
    BY <2>1, <2>2 DEF Next
<1>2. ~Working(t)
  BY DEF Working, GuiPlay, GuiPlay2, StopBegin, StopEnd, StepPlay, Click, RemoveEntry,
         Removed, Cleared, On, Shown, Showing, Listening, PlayPc
<1>3. ASSUME ~Started PROVE th'[t].pc = "idle" /\ logoMode' = 1
  <2>1. th[t].pc = "idle" /\ logoMode = 1
    BY <1>3 DEF Orderly
  <2>2. ~Continue(t)
    BY <2>1 DEF Continue, Playing, ShowingLogo, Choosing, Working, Halt, Window, Finish,
       Open, OpenFailed, Check, Ask, Play, Flag, Title, PlayFailed, Succeeded, Rejected,
       LogoBegin, LogoOpen, LogoEnd, NextEntry, Advance, Wrap, Shuffle, Draw, List, ListPlay,
       NotPlayed, GuiPlay, GuiPlay2, StopBegin, StopEnd, StepPlay, Click, RemoveEntry,
       Removed, Cleared, On
  <2> QED
    BY <1>1, <2>1, <2>2 DEF FinishedEvent, StreamEnds, vars
<1>4. ASSUME Started, loop' \notin {"loop", "repeat"} PROVE InRound(t)'
  <2>1. CASE UNCHANGED <<list, th>>
    <3>1. UNCHANGED <<mmk, cur, current, loop, th>>
      BY <2>1 DEF list
    <3>2. InRound(t)
      BY <1>4, <3>1 DEF Orderly
    <3>3. Sorted' /\ (Placed(th[t])' <=> Placed(th[t]))
      BY <3>1, <3>2, Same DEF InRound, Placed, Trying, Tried, InCall
    <3> QED
      BY <3>1, <3>2, <3>3 DEF InRound
  <2>2. CASE Continue(t) \/ FinishedEvent(t)
    <3>1. loop' = loop
      BY <1>2, <2>2 DEF Continue, Playing, ShowingLogo, Choosing, Halt, Window, Finish,
         FinishedEvent, Open, OpenFailed, Check, Ask, Play, Flag, Title, PlayFailed, Succeeded,
         Rejected, LogoBegin, LogoOpen, LogoEnd, NextEntry, Advance, Wrap, Shuffle, Draw, List,
         ListPlay, NotPlayed, Mark, SetCurrent, list
    <3>2. Going(t)
      BY <1>4, <3>1 DEF Orderly, Going
    <3> QED
      BY <1>2, <2>2, <3>2, PlayingRound, LogoRound, OthersRound, NextEntryRound,
         AdvanceRound, WrapRound, ShuffleRound, DrawRound, ListRound, ListPlayRound,
         NotPlayedRound DEF Continue, Choosing
  <2> QED
    BY <1>1, <2>1, <2>2 DEF StreamEnds, vars
<1> QED
  BY <1>3, <1>4

LEMMA OrderlyInit == Ordinary /\ Init => Orderly
<1> SUFFICES ASSUME Ordinary, Init, NEW t \in Threads
             PROVE  /\ ~Started => th[t].pc = "idle" /\ logoMode = 1
                    /\ Started /\ loop \notin {"loop", "repeat"} => InRound(t)
  BY DEF Orderly
<1>1. th[t] = Idle
  BY DEF Init
<1>2. ~Started => logoMode = 1
  BY DEF Init
<1>3. ASSUME Started, loop \notin {"loop", "repeat"} PROVE InRound(t)
  <2>1. PICK ms \in Lists :
          mmk = [k \in DOMAIN ms |->
                   [mrl |-> ms[k], alts |-> Alternates, played |-> Started /\ k = 1]]
    BY DEF Init
  <2>2. ms \in Seq(Mrl) /\ ms # <<>> /\ Alternates \in Seq(Mrl)
    BY <1>3, PlaybackAssumption
  <2>3. /\ Len(ms) \in Nat /\ Len(ms) > 0 /\ DOMAIN ms = 1 .. Len(ms)
    BY <2>2
  <2>4. mmk \in Seq(Entry) /\ Len(mmk) = Len(ms)
    <3> DEFINE e(k) == [mrl |-> ms[k], alts |-> Alternates, played |-> Started /\ k = 1]
    <3>1. \A k \in 1 .. Len(ms) : e(k) \in Entry
      BY <2>2, <2>3 DEF Entry
    <3>2. mmk = [k \in 1 .. Len(ms) |-> e(k)]
      BY <2>1, <2>3
    <3> HIDE DEF e
    <3> QED
      BY <2>3, <3>1, <3>2, FunIsSeq
  <2>5. mmk # <<>> /\ cur = 0
    BY <2>3, <2>4 DEF Init
  <2>6. ASSUME NEW i \in 0 .. Len(mmk) - 1
        PROVE  /\ At(mmk, i).mrl = ms[i + 1] /\ At(mmk, i).alts = Alternates
               /\ At(mmk, i).played = (i = 0) /\ i + 1 \in DOMAIN ms
    BY <1>3, <2>1, <2>3, <2>4 DEF At
  <2>7. loop \in Loops /\ loop \in LoopMode
    BY PlaybackAssumption DEF Init
  <2>8. 0 \in 0 .. Len(mmk) - 1
    BY <2>3, <2>4
  <2>9. At(mmk, 0).played /\ At(mmk, 0).alts = Alternates
    BY <2>6, <2>8
  <2>10. current.alts = Alternates
    BY <2>5, <2>9 DEF Init, CopyOver, EntryOrNone, NONE
  <2>11. Sorted
    BY <2>5, <2>6, <2>7, <2>10 DEF Sorted, Ordinary
  <2>12. Over
    <3>1. Before(cur + 1)
      BY <2>5, <2>9 DEF Before, Past
    <3>2. Since(cur + 1)
      <4> SUFFICES ASSUME NEW k \in 1 .. Len(mmk) - 1 PROVE ~At(mmk, k).played
        BY <2>5 DEF Since
      <4>1. k \in 0 .. Len(mmk) - 1 /\ k # 0
        BY <2>3, <2>4
      <4> QED
        BY <2>6, <4>1
    <3> QED
      BY <1>3, <2>5, <2>7, <2>8, <2>9, <3>1, <3>2 DEF Over, InRange, LoopMode, Shuffles
  <2> QED
    BY <1>1, <1>3, <2>11, <2>12 DEF InRound, Placed, Idle, Trying
<1> QED
  BY <1>1, <1>2, <1>3 DEF Idle

LEMMA Listened == ASSUME Alone, Ordinary PROVE Spec => [](IInv /\ Shown /\ Orderly)
<1>1. Init => Shown /\ Orderly
  BY OrderlyInit, ShownInit
<1>2. IInv /\ Shown /\ Orderly /\ [Next]_vars => Shown' /\ Orderly'
  BY ShownStep, OrderlyStep
<1> QED
  BY <1>1, <1>2, Inductive, PTL DEF Spec

(***************************************************************************)
(* With the listener alone a round plays each entry once, and in "no loop" *)
(* in the order of the list, for any ordinary list, whatever of it fails:  *)
(* the entry that start_next opens has not been played, those before it    *)
(* have.                                                                   *)
(***************************************************************************)
THEOREM PlaysInTurn == ASSUME Alone, Ordinary PROVE Spec => InTurn
<1>1. ASSUME IInv, Orderly, NEW t \in Threads, Open(t), th[t].call = "list",
             th[t].arg = current.mrl, loop \notin {"loop", "repeat"}
      PROVE  InRange(mmk, cur) /\ Turn(cur)
  <2>1. th[t].pc = "open"
    BY <1>1 DEF Open, On
  <2>2. InRound(t)
    BY <1>1, <2>1 DEF Orderly
  <2>3. InHand /\ ~At(mmk, cur).played
    BY <1>1, <2>1, <2>2 DEF InRound, Placed, Trying, InCall, PlayPc
  <2> QED
    BY <2>3 DEF InHand, Turn, Before, Past
<1>2. IInv /\ Orderly => [\A t \in Threads :
        Open(t) /\ th[t].call = "list" /\ th[t].arg = current.mrl
          /\ loop \notin {"loop", "repeat"}
          => InRange(mmk, cur) /\ Turn(cur)]_vars
  BY <1>1
<1> QED
  BY <1>2, Listened, PTL DEF InTurn

-----------------------------------------------------------------------------
(***************************************************************************)
(* Steps and double clicks, with the GUI thread alone.  All entries have   *)
(* the same alternates; gui->mmk keeps those of an earlier entry when the  *)
(* list is emptied (mediamark_copy).                                       *)
(***************************************************************************)
GuiAlone == Threads = {Gui}

Alike ==
  /\ \A i \in 0 .. Len(mmk) - 1 : At(mmk, i).alts = Alternates
  /\ current.alts = Alternates \/ (Len(mmk) = 0 /\ current.alts = <<>>)

IsAlternate(m) == \E k \in DOMAIN Alternates : Alternates[k] = m

\* gui->mmk is the mediamark of the current entry, or of none.
Matching ==
  IF InRange(mmk, cur) THEN current.mrl = At(mmk, cur).mrl ELSE current.mrl = NoMrl

OfEntry(r) == r.call \in {"list", "dbl", "step"} /\ InCall(r)

\* What is tried is the current entry or an alternate of it; with no current
\* entry it is no mrl, which does not open.
Chosen(r) ==
  /\ Matching
  /\ r.arg = current.mrl \/ IsAlternate(r.arg)
  /\ \A k \in DOMAIN r.todo : IsAlternate(r.todo[k])
  /\ ~InRange(mmk, cur) => r.arg = NoMrl /\ r.pc \in {"open", "openFailed"}
  /\ r.pc # "open" => stream.mrl \in {r.arg, NoMrl}
  /\ r.call = "step" => r.arg = current.mrl /\ r.todo = <<>>

\* Where ignore_next may be set: next to a stop, in a step, at the logo of one.
Ignoring(r) ==
  \/ r.pc \in {"halt", "step", "next", "finish", "logo", "logoOpen", "logoEnd"}
  \/ r.call \in {"step", "logo"} /\ InCall(r)

\* Calls that end with an entry that is the current one.
Starts == {"next", "step", "dbl"}

\* Where other calls are only.
NoStart(r) ==
  \/ r.pc \in {"gplay", "gplay2", "cleared"}
  \/ r.pc \in {"window", "halt"} /\ r.to \in {"finish", "gplay2"}
  \/ r.call \in {"play", "answer"} /\ InCall(r)

\* Between two calls the index is at most one past the list.
Near(r) ==
  /\ r.pc \notin {"step", "wrap"} => cur <= Len(mmk)
  /\ r.pc \in {"advance", "wrap"} => loop \in {"no_loop", "loop"}
  /\ r.pc = "wrap" => cur <= Len(mmk) + 1

Ended(r) ==
  r.pc = "finish" /\ r.base \in Starts /\ stream.status = "play" /\ logoMode = 0
    /\ current.mrl \notin Cfg
  => PlaysCurrent

Rated(r) ==
  /\ OfEntry(r) => Chosen(r)
  /\ r.pc = "listPlay" => Matching
  /\ ignoreNext => Ignoring(r) /\ (r.pc = "next" => current.mrl \in Cfg)
  /\ Near(r)
  /\ NoStart(r) => r.base \notin Starts
  /\ Ended(r)

\* A step outside of the list ends in a fault.
Steered == fault \/ (Alike /\ \A t \in Threads : Rated(th[t]))

\* What the invariant says of the one thread, and what is to be shown.
Held(t) == Threads = {t} /\ IInv /\ Alike /\ Rated(th[t])
Holds(t) == fault \/ (Alike /\ Rated(th[t]))

\* The list as it was, but for the played flags.
SameList ==
  /\ Len(mmk') = Len(mmk) /\ UNCHANGED <<cur, current, loop>>
  /\ \A i \in 0 .. Len(mmk) - 1 :
       At(mmk', i).mrl = At(mmk, i).mrl /\ At(mmk', i).alts = At(mmk, i).alts

LEMMA ListSame == UNCHANGED list => SameList
  BY DEF list, SameList

LEMMA SameFacts ==
  ASSUME IInv, SameList, Alike
  PROVE  /\ Alike' /\ (Matching' <=> Matching)
         /\ InRange(mmk, cur)' <=> InRange(mmk, cur)
         /\ Len(mmk') = Len(mmk) /\ cur' = cur /\ current' = current /\ loop' = loop
<1>1. Alike'
  BY DEF SameList, Alike
<1>2. Len(mmk) \in Nat /\ cur \in Int
  BY DEF IInv, Data
<1>3. InRange(mmk, cur)' <=> InRange(mmk, cur)
  BY DEF SameList, InRange
<1>4. InRange(mmk, cur) => cur \in 0 .. Len(mmk) - 1
  BY <1>2 DEF InRange
<1>5. Matching' <=> Matching
  BY <1>3, <1>4 DEF Matching, SameList
<1> QED
  BY <1>1, <1>3, <1>5 DEF SameList

LEMMA MarkSame ==
  ASSUME IInv, NEW t \in Threads, Mark(t)
  PROVE  \/ fault' /\ ~InRange(mmk, cur)
         \/ SameList /\ (th[t].arg = current.mrl => InRange(mmk, cur))
<1>1. CASE th[t].arg = current.mrl /\ InRange(mmk, cur)
  <2>1. mmk' = MarkPlayed(mmk, cur) /\ UNCHANGED <<cur, current, loop>>
    BY <1>1 DEF Mark
  <2>2. mmk \in Seq(Entry) /\ cur \in 0 .. Len(mmk) - 1
    BY <1>1 DEF IInv, Data, InRange
  <2>3. SameList
    BY <2>1, <2>2, MarkedEntry DEF SameList
  <2> QED
    BY <1>1, <2>3
<1>2. CASE th[t].arg = current.mrl /\ ~InRange(mmk, cur)
  BY <1>2 DEF Mark
<1>3. CASE th[t].arg # current.mrl
  BY <1>3 DEF Mark, SameList
<1> QED
  BY <1>1, <1>2, <1>3

LEMMA AlikeReset ==
  ASSUME IInv, Alike, mmk' = ResetPlayed(mmk), UNCHANGED current PROVE Alike'
<1>1. mmk \in Seq(Entry) /\ Len(mmk') = Len(mmk) /\ DOMAIN mmk = 1 .. Len(mmk)
  BY ResetType DEF IInv, Data
<1>2. ASSUME NEW i \in 0 .. Len(mmk) - 1 PROVE At(mmk', i).alts = Alternates
  <2>1. i + 1 \in DOMAIN mmk /\ mmk[i + 1] \in Entry
    BY <1>1
  <2>2. mmk'[i + 1] = [mmk[i + 1] EXCEPT !.played = FALSE]
    BY <2>1 DEF ResetPlayed
  <2> QED
    BY <2>1, <2>2 DEF At, Entry, Alike
<1> QED
  BY <1>1, <1>2 DEF Alike

\* With one thread ignore_next is set next to a stop or in a step only.
LEMMA IgnoredBy ==
  ASSUME NEW t \in Threads, Held(t)
  PROVE  ignoreNext => th[t].pc = "halt" \/ th[t].base = "step"
BY DEF Held, IInv, IgnoreHeld, On

\* From one place in a call to another one.
LEMMA InsideHolds ==
  ASSUME NEW t \in Threads, Held(t), InCall(th[t]), SameList, NEW p, NEW o, Goes(t, p, o),
         p \in PlayPc \ {"open", "openFailed"}
           \/ (p = "window" /\ o \in {"rejected", "playFailed"}),
         th[t].pc # "open", stream'.mrl = stream.mrl, ignoreNext' => ignoreNext,
         th[t].pc = "openFailed" /\ OfEntry(th[t]) => InRange(mmk, cur)
  PROVE  Holds(t)'
<1>1. /\ th'[t].pc = p /\ th'[t].to = o /\ th'[t].call = th[t].call
      /\ th'[t].arg = th[t].arg /\ th'[t].todo = th[t].todo /\ th'[t].base = th[t].base
  BY GoesOn DEF Held
<1>2. InCall(th[t])'
  BY <1>1 DEF InCall
<1>3. /\ Alike' /\ (Matching' <=> Matching) /\ (InRange(mmk, cur)' <=> InRange(mmk, cur))
      /\ Len(mmk') = Len(mmk) /\ cur' = cur /\ current' = current /\ loop' = loop
  BY SameFacts DEF Held
<1>4. p \in PlayPc \cup {"window"} /\ p \notin {"open", "openFailed"}
  BY DEF PlayPc
<1>5. (OfEntry(th[t]) => Chosen(th[t]))'
  <2> SUFFICES ASSUME OfEntry(th[t]) PROVE Chosen(th[t])'
    BY <1>1 DEF OfEntry
  <2>1. Chosen(th[t])
    BY DEF Held, Rated
  <2> QED
    BY <1>1, <1>3, <1>4, <2>1 DEF Chosen
<1>6. (ignoreNext => Ignoring(th[t]) /\ (th[t].pc = "next" => current.mrl \in Cfg))'
  <2> SUFFICES ASSUME ignoreNext PROVE Ignoring(th[t])'
    BY <1>1, <1>4 DEF PlayPc
  <2>1. th[t].call \in {"step", "logo"}
    BY DEF Held, Rated, Ignoring, InCall, PlayPc
  <2> QED
    BY <1>1, <1>2, <2>1 DEF Ignoring
<1>7. Near(th[t])'
  <2>1. cur <= Len(mmk)
    BY DEF Held, Rated, Near, InCall, PlayPc
  <2> QED
    BY <1>1, <1>3, <1>4, <2>1 DEF Near, PlayPc
<1>8. (NoStart(th[t]) => th[t].base \notin Starts)'
  <2> SUFFICES ASSUME NoStart(th[t])' PROVE th[t].base \notin Starts
    BY <1>1
  <2>1. th[t].call \in {"play", "answer"}
    BY <1>1, <1>4 DEF NoStart, PlayPc
  <2> QED
    BY <2>1 DEF Held, Rated, NoStart
<1>9. p \notin {"listPlay", "finish"}
  BY <1>4 DEF PlayPc
<1> QED
  BY <1>1, <1>3, <1>5, <1>6, <1>7, <1>8, <1>9 DEF Holds, Rated, Ended

\* To a place outside of calls where little is claimed.
Quiet == {"logo", "logoOpen", "logoEnd", "unplayed", "advance", "shuffle", "draw", "list",
          "stop", "stopped", "remove", "removed", "click", "gplay", "gplay2", "cleared"}

LEMMA QuietAfter ==
  ASSUME NEW t \in Threads, Alike', cur' <= Len(mmk'), NEW p \in Quiet, th'[t].pc = p,
         ignoreNext' => p \in {"logo", "logoOpen", "logoEnd"},
         p = "advance" => loop' \in {"no_loop", "loop"},
         p \in {"gplay", "gplay2", "cleared"} => th'[t].base \notin Starts
  PROVE  Holds(t)'
<1>1. p \notin PlayPc \cup {"window", "listPlay", "step", "wrap", "halt", "finish", "next"}
  BY DEF Quiet, PlayPc
<1>2. ~InCall(th[t])'
  BY <1>1 DEF InCall
<1> QED
  BY <1>1, <1>2 DEF Holds, Rated, OfEntry, Ignoring, NoStart, Near, Ended

LEMMA QuietHolds ==
  ASSUME NEW t \in Threads, Held(t), SameList, NEW p \in Quiet, NEW o, Goes(t, p, o),
         th[t].pc \notin {"step", "wrap"},
         ignoreNext' => ignoreNext /\ p \in {"logo", "logoOpen", "logoEnd"},
         p = "advance" => loop \in {"no_loop", "loop"},
         p \in {"gplay", "gplay2", "cleared"} => th[t].base \notin Starts
  PROVE  Holds(t)'
<1>1. th'[t].pc = p /\ th'[t].base = th[t].base
  BY GoesOn DEF Held
<1>2. Alike' /\ Len(mmk') = Len(mmk) /\ cur' = cur /\ loop' = loop
  BY SameFacts DEF Held
<1>3. cur <= Len(mmk)
  BY DEF Held, Rated, Near
<1> QED
  BY <1>1, <1>2, <1>3, QuietAfter

\* To the end of a call that starts nothing.
LEMMA EndHolds ==
  ASSUME NEW t \in Threads, Held(t), SameList, NEW o, Goes(t, "finish", o),
         th[t].pc \notin {"step", "wrap"}, ignoreNext' => ignoreNext, Ended(th[t])'
  PROVE  Holds(t)'
<1>1. th'[t].pc = "finish" /\ th'[t].base = th[t].base
  BY GoesOn DEF Held
<1>2. ~InCall(th[t])'
  BY <1>1 DEF InCall, PlayPc
<1>3. /\ Alike' /\ Len(mmk') = Len(mmk) /\ cur' = cur /\ current' = current
  BY SameFacts DEF Held
<1>4. cur <= Len(mmk)
  BY DEF Held, Rated, Near
<1> QED
  BY <1>1, <1>2, <1>3, <1>4 DEF Holds, Rated, OfEntry, Ignoring, NoStart, Near

LEMMA OpenHolds == ASSUME NEW t \in Threads, Held(t), Open(t) PROVE Holds(t)'
<1>1. /\ th[t].pc = "open" /\ InCall(th[t]) /\ UNCHANGED <<list, ignoreNext, logoMode, fault>>
      /\ IInv
  BY DEF Open, On, InCall, PlayPc, Held
<1>2. SameList /\ UNCHANGED <<mmk, cur, current, loop>>
  BY <1>1, ListSame DEF list
<1>3. /\ Alike' /\ (Matching' <=> Matching) /\ (InRange(mmk, cur)' <=> InRange(mmk, cur))
      /\ Len(mmk') = Len(mmk) /\ cur <= Len(mmk)
  BY <1>1, <1>2, SameFacts DEF Held, Rated, Near
<1>4. CASE th[t].arg \in Cfg
  <2>1. th'[t].pc = "next" /\ th'[t].base = th[t].base
    BY <1>1, <1>4, Went, GoesOn DEF Open, Pc
  <2>2. ~InCall(th[t])'
    BY <2>1 DEF InCall, PlayPc
  <2>3. ignoreNext => current.mrl \in Cfg
    <3> SUFFICES ASSUME ignoreNext PROVE current.mrl \in Cfg
      OBVIOUS
    <3>1. th[t].call \in {"step", "logo"}
      BY <1>1 DEF Held, Rated, Ignoring
    <3>2. th[t].call # "logo"
      BY <1>1, <1>4, Here, PlaybackAssumption DEF Sensible
    <3> QED
      BY <1>1, <1>4, <3>1, <3>2 DEF Held, Rated, OfEntry, Chosen
  <2> QED
    BY <1>1, <1>2, <1>3, <2>1, <2>2, <2>3
       DEF Holds, Rated, OfEntry, Ignoring, NoStart, Near, Ended
<1>5. CASE th[t].arg \notin Cfg
  <2>1. /\ \/ Opens(th[t].arg) /\ Goto(t, "check")
           \/ ~Opens(th[t].arg) /\ Goto(t, "openFailed")
        /\ stream' = Opened(th[t].arg)
    BY <1>5 DEF Open
  <2>2. /\ \/ Opens(th[t].arg) /\ th'[t].pc = "check"
           \/ ~Opens(th[t].arg) /\ th'[t].pc = "openFailed"
        /\ th'[t].call = th[t].call /\ th'[t].base = th[t].base
        /\ th'[t].arg = th[t].arg /\ th'[t].todo = th[t].todo
    BY <1>1, <2>1, Went, GoesOn DEF Pc, PlayPc
  <2>3. InCall(th[t])' /\ stream'.mrl \in {th[t].arg, NoMrl}
    BY <2>1, <2>2 DEF InCall, PlayPc, Opened
  <2>4. (OfEntry(th[t]) => Chosen(th[t]))'
    <3> SUFFICES ASSUME OfEntry(th[t])' PROVE Chosen(th[t])'
      OBVIOUS
    <3>1. Chosen(th[t])
      BY <1>1, <2>2 DEF Held, Rated, OfEntry
    <3>2. ~InRange(mmk, cur) => th'[t].pc = "openFailed"
      BY <2>2, <3>1 DEF Chosen, Opens
    <3> QED
      BY <1>2, <1>3, <2>2, <2>3, <3>1, <3>2 DEF Chosen
  <2>5. (NoStart(th[t]) => th[t].base \notin Starts)'
    BY <1>1, <2>2 DEF Held, Rated, NoStart
  <2>6. ignoreNext' => Ignoring(th[t])'
    BY <1>1, <2>2, <2>3 DEF Held, Rated, Ignoring
  <2> QED
    BY <1>1, <1>2, <1>3, <2>2, <2>4, <2>5, <2>6 DEF Holds, Rated, Near, Ended
<1> QED
  BY <1>4, <1>5

\* An entry of the call has been tried: it is marked, or there is a fault.
LEMMA MarkHolds ==
  ASSUME NEW t \in Threads, Held(t), OpenFailed(t) \/ PlayFailed(t) PROVE Holds(t)'
<1>1. /\ IInv /\ InCall(th[t]) /\ th[t].pc # "open" /\ UNCHANGED <<engine, ignoreNext>>
      /\ Mark(t) \/ (th[t].pc = "playFailed" /\ UNCHANGED list)
  BY DEF OpenFailed, PlayFailed, On, InCall, PlayPc, Held
<1>2. Goes(t, "rejected", th[t].to) \/ Goes(t, "window", "rejected")
  BY <1>1, Went, WentVia DEF OpenFailed, PlayFailed, Pc, PlayPc
<1>3. \/ fault'
      \/ SameList /\ (th[t].pc = "openFailed" /\ OfEntry(th[t]) => InRange(mmk, cur))
  <2>1. CASE Mark(t)
    <3>1. SUFFICES ASSUME SameList, th[t].arg = current.mrl => InRange(mmk, cur),
                          OfEntry(th[t])
                   PROVE  InRange(mmk, cur)
      BY <1>1, <2>1, MarkSame
    <3>2. ~InRange(mmk, cur) => th[t].arg = current.mrl
      BY <3>1 DEF Held, Rated, Chosen, Matching
    <3> QED
      BY <3>1, <3>2
  <2>2. CASE th[t].pc = "playFailed" /\ UNCHANGED list
    BY <2>2, ListSame
  <2> QED
    BY <1>1, <2>1, <2>2
<1> QED
  BY <1>1, <1>2, <1>3, InsideHolds DEF PlayPc, engine, Holds

LEMMA SucceededHolds == ASSUME NEW t \in Threads, Held(t), Succeeded(t) PROVE Holds(t)'
<1>1. /\ IInv /\ th[t].pc = "succeeded" /\ InCall(th[t])
      /\ UNCHANGED <<engine, ignoreNext, logoMode>>
      /\ Mark(t) \/ UNCHANGED list
  BY DEF Succeeded, On, InCall, PlayPc, Held
<1>2. SUFFICES ASSUME SameList PROVE Holds(t)'
  BY <1>1, MarkSame, ListSame DEF Holds
<1>3. CASE th[t].call = "logo"
  <2>1. Goes(t, "logoEnd", th[t].to)
    BY <1>1, <1>3, Went DEF Succeeded, Pc
  <2> QED
    BY <1>1, <1>2, <2>1, QuietHolds DEF Quiet
<1>4. CASE th[t].call # "logo"
  <2>1. Goes(t, "finish", th[t].to)
    BY <1>1, <1>4, Went DEF Succeeded, Pc
  <2>2. Ended(th[t])'
    <3> SUFFICES ASSUME th'[t].base \in Starts, stream'.status = "play" PROVE PlaysCurrent'
      BY DEF Ended
    <3>1. th[t].base \in Starts /\ stream.mrl # NoMrl
      BY <1>1, <2>1, GoesOn DEF engine, IInv, Data
    <3>2. OfEntry(th[t])
      BY <1>1, <1>4, <3>1, Here DEF Held, Rated, NoStart, OfEntry, Doing, Sensible
    <3>3. Chosen(th[t])
      BY <3>2 DEF Held, Rated
    <3>4. InRange(mmk, cur) /\ current.mrl = At(mmk, cur).mrl
      BY <1>1, <3>3 DEF Chosen, Matching
    <3>5. cur \in 0 .. Len(mmk) - 1
      BY <1>1, <3>4 DEF InRange, IInv, Data
    <3>6. stream.mrl = current.mrl \/ IsAlternate(stream.mrl)
      BY <1>1, <3>1, <3>3 DEF Chosen
    <3>7. At(mmk', cur').alts = Alternates /\ At(mmk', cur').mrl = current.mrl
      BY <1>2, <3>4, <3>5 DEF SameList, Held, Alike
    <3> QED
      BY <1>1, <1>2, <3>4, <3>6, <3>7, SameFacts
         DEF PlaysCurrent, IsAlternate, engine, SameList, Held
  <2> QED
    BY <1>1, <1>2, <2>1, <2>2, EndHolds
<1> QED
  BY <1>3, <1>4

\* The places between opening and marking.
LEMMA TryingHolds ==
  ASSUME NEW t \in Threads, Held(t), Check(t) \/ Ask(t) \/ Play(t) \/ Flag(t)
  PROVE  Holds(t)'
<1>1. /\ IInv /\ InCall(th[t]) /\ th[t].pc \notin {"open", "openFailed"}
      /\ UNCHANGED <<list, ignoreNext>> /\ (th[t].pc = "ask" => th[t].to = "succeeded")
  BY Here DEF Check, Ask, Play, Flag, On, InCall, PlayPc, Held, Sensible
<1>2. \/ \E p \in {"playFailed", "play", "succeeded", "flag", "title"} : Goto(t, p)
      \/ GotoVia(t, "ask", "succeeded") \/ GotoVia(t, "window", "playFailed")
  BY <1>1 DEF Check, Ask, Play, Flag, On
<1>3. PICK p, o : /\ Goes(t, p, o)
                  /\ \/ p \in {"playFailed", "play", "succeeded", "flag", "title", "ask"}
                     \/ p = "window" /\ o = "playFailed"
  BY <1>1, <1>2, Went, WentVia DEF Pc, PlayPc
<1>4. stream'.mrl = stream.mrl
  BY <1>1 DEF Check, Ask, Play, Flag, engine, IInv, Data
<1>5. SameList
  BY <1>1, ListSame
<1>6. p \in PlayPc \ {"open", "openFailed"}
        \/ (p = "window" /\ o \in {"rejected", "playFailed"})
  BY <1>3 DEF PlayPc
<1> QED
  BY <1>1, <1>3, <1>4, <1>5, <1>6, InsideHolds

LEMMA WindowHolds == ASSUME NEW t \in Threads, Held(t), Window(t) PROVE Holds(t)'
<1>1. /\ IInv /\ th[t].pc = "window" /\ th[t].to \in {"rejected", "playFailed", "finish"}
      /\ UNCHANGED <<list, ignoreNext, engine>> /\ Goto(t, th[t].to)
  BY Here DEF Window, On, Held, Sensible
<1>2. Goes(t, th[t].to, th[t].to)
  BY <1>1, Went DEF Pc, PlayPc
<1>3. CASE th[t].to = "finish"
  <2>1. th[t].base \notin Starts
    BY <1>1, <1>3 DEF Held, Rated, NoStart
  <2>2. Ended(th[t])'
    BY <1>1, <1>2, <2>1, GoesOn DEF Ended
  <2> QED
    BY <1>1, <1>2, <1>3, <2>2, ListSame, EndHolds
<1>4. CASE th[t].to # "finish"
  BY <1>1, <1>2, <1>4, ListSame, InsideHolds DEF InCall, PlayPc, engine
<1> QED
  BY <1>3, <1>4

\* gui_current_set_index leaves the mediamark of its entry, or none, in gui->mmk.
LEMMA SetMatches ==
  ASSUME NEW t \in Threads, Held(t), NEW i \in Int, SetCurrent(t, i)
  PROVE  /\ Alike' /\ Matching' /\ mmk' = mmk /\ loop' = loop /\ cur' <= Len(mmk)
         /\ cur' = RealIndex(mmk, cur, i)
         /\ current'.alts = current.alts
<1>1. /\ cur' = RealIndex(mmk, cur, i) /\ current' = CopyOver(current, EntryOrNone(mmk, cur'))
      /\ mmk' = mmk /\ loop' = loop
  BY DEF SetCurrent
<1>2. mmk \in Seq(Entry) /\ cur \in Int /\ Len(mmk) \in Nat
  BY DEF Held, IInv, Data
<1>3. cur' \in Int /\ (cur' = NONE \/ InRange(mmk, cur'))
  BY <1>1, <1>2, RealInside
<1>4. CASE cur' = NONE
  <2>1. current'.mrl = NoMrl /\ current'.alts = current.alts /\ ~InRange(mmk, cur')
    BY <1>1, <1>4 DEF CopyOver, EntryOrNone, NoEntry, InRange, NONE
  <2> QED
    BY <1>1, <1>2, <1>4, <2>1 DEF Held, Alike, Matching, NONE
<1>5. CASE cur' # NONE
  <2>1. InRange(mmk, cur') /\ cur' \in 0 .. Len(mmk) - 1
    BY <1>2, <1>3, <1>5 DEF InRange
  <2>2. At(mmk, cur').alts = Alternates /\ current.alts = Alternates
    BY <1>2, <2>1 DEF Held, Alike
  <2>3. current'.mrl = At(mmk, cur').mrl /\ current'.alts = current.alts
    BY <1>1, <1>5, <2>2 DEF CopyOver, EntryOrNone
  <2> QED
    BY <1>1, <1>2, <2>1, <2>2, <2>3 DEF Held, Alike, Matching
<1> QED
  BY <1>4, <1>5

LEMMA TitleHolds == ASSUME NEW t \in Threads, Held(t), Title(t) PROVE Holds(t)'
<1>1. /\ IInv /\ InCall(th[t]) /\ th[t].pc = "title" /\ SetCurrent(t, CURRENT)
      /\ UNCHANGED <<ignoreNext, engine>> /\ CURRENT \in Int
      /\ mmk \in Seq(Entry) /\ cur \in Int
  BY DEF Title, On, InCall, PlayPc, Held, CURRENT, IInv, Data
<1>2. /\ th'[t].pc = "succeeded" /\ th'[t].call = th[t].call /\ th'[t].base = th[t].base
      /\ th'[t].arg = th[t].arg /\ th'[t].todo = th[t].todo
  BY <1>1, Went, GoesOn DEF Title, Pc, PlayPc
<1>3. InCall(th[t])'
  BY <1>2 DEF InCall, PlayPc
<1>4. /\ Alike' /\ Matching' /\ mmk' = mmk /\ loop' = loop /\ cur' <= Len(mmk)
      /\ cur' = RealIndex(mmk, cur, CURRENT)
  BY <1>1, SetMatches
<1>5. (OfEntry(th[t]) => Chosen(th[t]))'
  <2> SUFFICES ASSUME OfEntry(th[t])' PROVE Chosen(th[t])'
    OBVIOUS
  <2>1. Chosen(th[t])
    BY <1>1, <1>2 DEF Held, Rated, OfEntry
  <2>2. InRange(mmk, cur) /\ current.mrl = At(mmk, cur).mrl
    BY <1>1, <2>1 DEF Chosen, Matching
  <2>3. cur' = cur /\ InRange(mmk', cur')
    BY <1>4, <2>2 DEF RealIndex, Resolve
  <2>4. current'.mrl = current.mrl
    BY <1>4, <2>2, <2>3 DEF Matching
  <2> QED
    BY <1>1, <1>2, <1>4, <2>1, <2>3, <2>4 DEF Chosen, engine
<1>6. (NoStart(th[t]) => th[t].base \notin Starts)'
  BY <1>1, <1>2 DEF Held, Rated, NoStart
<1>7. ignoreNext' => Ignoring(th[t])'
  BY <1>1, <1>2, <1>3 DEF Held, Rated, Ignoring
<1> QED
  BY <1>1, <1>2, <1>4, <1>5, <1>6, <1>7 DEF Holds, Rated, Near, Ended

LEMMA RejectedHolds == ASSUME NEW t \in Threads, Held(t), Rejected(t) PROVE Holds(t)'
<1>1. /\ IInv /\ th[t].pc = "rejected" /\ InCall(th[t])
      /\ UNCHANGED <<list, ignoreNext, logoMode, engine>>
  BY DEF Rejected, On, InCall, PlayPc, Held
<1>2. SameList
  BY <1>1, ListSame
<1>3. CASE th[t].todo # <<>>
  <2>1. Call(t, th[t].call, Head(th[t].todo), Tail(th[t].todo), FALSE)
    BY <1>3 DEF Rejected
  <2>2. /\ th'[t].pc = "open" /\ th'[t].call = th[t].call /\ th'[t].base = th[t].base
        /\ th'[t].arg = Head(th[t].todo) /\ th'[t].todo = Tail(th[t].todo)
    BY <1>1, <2>1, Here DEF Call, Doing
  <2>3. InCall(th[t])'
    BY <2>2 DEF InCall, PlayPc
  <2>4. (OfEntry(th[t]) => Chosen(th[t]))'
    <3> SUFFICES ASSUME OfEntry(th[t])' PROVE Chosen(th[t])'
      OBVIOUS
    <3>1. Chosen(th[t])
      BY <1>1, <2>2 DEF Held, Rated, OfEntry
    <3>2. th[t].todo \in Seq(Mrl)
      BY <1>1, Here DEF Doing
    <3>3. 1 \in DOMAIN th[t].todo /\ th'[t].arg = th[t].todo[1]
      BY <1>3, <2>2, <3>2
    <3>4. \A k \in DOMAIN th'[t].todo :
            k + 1 \in DOMAIN th[t].todo /\ th'[t].todo[k] = th[t].todo[k + 1]
      BY <1>3, <2>2, <3>2
    <3>5. IsAlternate(th'[t].arg) /\ \A k \in DOMAIN th'[t].todo : IsAlternate(th'[t].todo[k])
      BY <3>1, <3>3, <3>4 DEF Chosen
    <3>6. Matching' /\ InRange(mmk, cur)'
      BY <1>1, <1>2, <3>1, SameFacts DEF Chosen, Held
    <3>7. th'[t].call # "step"
      BY <1>3, <2>2, <3>1 DEF Chosen
    <3> QED
      BY <2>2, <3>5, <3>6, <3>7 DEF Chosen, IsAlternate
  <2>5. (NoStart(th[t]) => th[t].base \notin Starts)'
    BY <1>1, <2>2 DEF Held, Rated, NoStart
  <2>6. ignoreNext' => Ignoring(th[t])'
    BY <1>1, <2>2, <2>3 DEF Held, Rated, Ignoring
  <2>7. Alike' /\ Near(th[t])'
    BY <1>1, <1>2, <2>2, SameFacts DEF Held, Rated, Near
  <2> QED
    BY <2>2, <2>4, <2>5, <2>6, <2>7 DEF Holds, Rated, Ended
<1>4. CASE th[t].todo = <<>>
  <2>1. th[t].call \in {"list", "dbl", "play", "step", "logo", "answer"}
    BY <1>1, Here DEF Doing, Sensible
  <2>2. \/ th[t].call = "list" /\ Goto(t, "unplayed")
        \/ th[t].call \in {"dbl", "play", "step"} /\ Goto(t, "logo")
        \/ th[t].call = "logo" /\ Goto(t, "logoEnd")
        \/ th[t].call = "answer" /\ Goto(t, "finish")
    BY <1>4, <2>1 DEF Rejected
  <2>3. ignoreNext => th[t].call \in {"step", "logo"}
    BY <1>1 DEF Held, Rated, Ignoring
  <2>4. CASE th[t].call # "answer"
    <3>1. PICK p \in {"unplayed", "logo", "logoEnd"} :
            Goto(t, p) /\ (ignoreNext => p # "unplayed")
      BY <2>2, <2>3, <2>4
    <3>2. Goes(t, p, th[t].to)
      BY <1>1, <3>1, Went DEF Pc
    <3> QED
      BY <1>1, <1>2, <3>1, <3>2, QuietHolds DEF Quiet
  <2>5. CASE th[t].call = "answer"
    <3>1. Goes(t, "finish", th[t].to)
      BY <1>1, <2>2, <2>5, Went DEF Pc
    <3>2. th[t].base \notin Starts
      BY <1>1, <2>5 DEF Held, Rated, NoStart
    <3>3. Ended(th[t])'
      BY <1>1, <3>1, <3>2, GoesOn DEF Ended
    <3> QED
      BY <1>1, <1>2, <3>1, <3>3, EndHolds
  <2> QED
    BY <2>4, <2>5
<1> QED
  BY <1>3, <1>4

LEMMA PlayingHolds == ASSUME NEW t \in Threads, Held(t), Playing(t) PROVE Holds(t)'
BY OpenHolds, MarkHolds, SucceededHolds, TryingHolds, TitleHolds, RejectedHolds DEF Playing

-----------------------------------------------------------------------------
\* A stop begins; after it, it is not for the user's play that this call goes on.
LEMMA HaltBegins ==
  ASSUME NEW t \in Threads, Held(t), UNCHANGED list, NEW o, Goes(t, "halt", o),
         th[t].pc \notin {"step", "wrap"}, o # "finish",
         o = "gplay2" => th[t].base \notin Starts
  PROVE  Holds(t)'
<1>1. th'[t].pc = "halt" /\ th'[t].to = o /\ th'[t].base = th[t].base
  BY GoesOn DEF Held
<1>2. ~InCall(th[t])'
  BY <1>1 DEF InCall, PlayPc
<1>3. Alike' /\ Len(mmk') = Len(mmk) /\ cur' = cur
  BY ListSame, SameFacts DEF Held
<1>4. cur <= Len(mmk)
  BY DEF Held, Rated, Near
<1> QED
  BY <1>1, <1>2, <1>3, <1>4 DEF Holds, Rated, OfEntry, Ignoring, NoStart, Near, Ended

LEMMA HaltHolds == ASSUME NEW t \in Threads, Held(t), Halt(t) PROVE Holds(t)'
<1>1. /\ IInv /\ th[t].pc = "halt"
      /\ th[t].to \in {"logoOpen", "gplay2", "stopped", "finish"}
      /\ UNCHANGED list /\ ~ignoreNext' /\ Goto(t, th[t].to)
  BY Here DEF Halt, On, Held, Sensible
<1>2. Goes(t, th[t].to, th[t].to)
  BY <1>1, Went DEF Pc
<1>3. th[t].to \in {"gplay2", "finish"} => th[t].base \notin Starts
  BY <1>1 DEF Held, Rated, NoStart
<1>4. CASE th[t].to = "finish"
  <2>1. th'[t].base = th[t].base
    BY <1>2, GoesOn DEF Held
  <2> QED
    BY <1>1, <1>2, <1>3, <1>4, <2>1, ListSame, EndHolds DEF Ended
<1>5. CASE th[t].to # "finish"
  BY <1>1, <1>2, <1>3, <1>5, ListSame, QuietHolds DEF Quiet
<1> QED
  BY <1>4, <1>5

LEMMA ShowingLogoHolds == ASSUME NEW t \in Threads, Held(t), ShowingLogo(t) PROVE Holds(t)'
<1>1. IInv /\ UNCHANGED <<list, engine>> /\ cur <= Len(mmk)
  BY DEF ShowingLogo, LogoBegin, LogoOpen, LogoEnd, Held, On, Rated, Near
<1>2. CASE LogoBegin(t)
  <2>1. th[t].pc = "logo"
    BY <1>2 DEF LogoBegin, On
  <2>2. \/ GotoVia(t, "halt", "logoOpen")
        \/ Goto(t, "logoOpen") /\ UNCHANGED ignoreNext
    BY <1>2 DEF LogoBegin
  <2>3. CASE GotoVia(t, "halt", "logoOpen")
    <3>1. Goes(t, "halt", "logoOpen")
      BY <1>1, <2>3, WentVia DEF Pc
    <3> QED
      BY <1>1, <2>1, <3>1, HaltBegins
  <2>4. CASE Goto(t, "logoOpen") /\ UNCHANGED ignoreNext
    <3>1. Goes(t, "logoOpen", th[t].to)
      BY <1>1, <2>4, Went DEF Pc
    <3> QED
      BY <1>1, <2>1, <2>4, <3>1, ListSame, QuietHolds DEF Quiet
  <2> QED
    BY <2>2, <2>3, <2>4
<1>3. CASE LogoOpen(t)
  <2>1. CASE DisplayLogo
    <3>1. th'[t].pc = "open" /\ th'[t].call = "logo"
      BY <1>1, <1>3, <2>1, Here DEF LogoOpen, Call, Doing
    <3>2. InCall(th[t])'
      BY <3>1 DEF InCall, PlayPc
    <3>3. Alike' /\ Len(mmk') = Len(mmk) /\ cur' = cur
      BY <1>1, ListSame, SameFacts DEF Held
    <3> QED
      BY <1>1, <3>1, <3>2, <3>3 DEF Holds, Rated, OfEntry, Ignoring, NoStart, Near, Ended
  <2>2. CASE ~DisplayLogo
    <3>1. Goes(t, "logoEnd", th[t].to) /\ UNCHANGED ignoreNext /\ th[t].pc = "logoOpen"
      BY <1>1, <1>3, <2>2, Went DEF LogoOpen, On, Pc
    <3> QED
      BY <1>1, <3>1, ListSame, QuietHolds DEF Quiet
  <2> QED
    BY <2>1, <2>2
<1>4. CASE LogoEnd(t)
  <2>1. th[t].pc = "logoEnd" /\ logoMode' = 1 /\ UNCHANGED ignoreNext /\ Goto(t, Back(t))
    BY <1>4 DEF LogoEnd, On
  <2>2. ignoreNext => Back(t) = "finish"
    BY <2>1, IgnoredBy DEF Back
  <2>3. Back(t) \in {"remove", "cleared", "finish"}
    BY DEF Back
  <2>4. Goes(t, Back(t), th[t].to)
    BY <1>1, <2>1, <2>3, Went DEF Pc
  <2>5. CASE Back(t) = "finish"
    BY <1>1, <2>1, <2>4, <2>5, ListSame, EndHolds DEF Ended
  <2>6. CASE Back(t) # "finish"
    <3>1. Back(t) = "cleared" => th[t].base \notin Starts
      BY DEF Back, Starts
    <3> QED
      BY <1>1, <2>1, <2>2, <2>3, <2>4, <2>6, <3>1, ListSame, QuietHolds DEF Quiet
  <2> QED
    BY <2>5, <2>6
<1> QED
  BY <1>2, <1>3, <1>4 DEF ShowingLogo

-----------------------------------------------------------------------------
LEMMA NextEntryHolds == ASSUME NEW t \in Threads, Held(t), NextEntry(t) PROVE Holds(t)'
<1>1. IInv /\ th[t].pc = "next" /\ UNCHANGED <<ignoreNext, logoMode, engine>>
  BY DEF NextEntry, On, Held
<1>2. CASE ignoreNext
  <2>1. Goes(t, "finish", th[t].to) /\ UNCHANGED list
    BY <1>1, <1>2, Went DEF NextEntry, Pc
  <2>2. current.mrl \in Cfg
    BY <1>1, <1>2 DEF Held, Rated
  <2>3. Ended(th[t])'
    BY <2>1, <2>2 DEF Ended, list
  <2> QED
    BY <1>1, <2>1, <2>3, ListSame, EndHolds
<1>3. CASE ~ignoreNext /\ ~("stop" \notin stopAfter /\ controls /\ mmk = <<>>)
  <2>1. PICK p \in {"logo", "advance", "list", "shuffle"} :
          /\ Goto(t, p) /\ UNCHANGED list
          /\ p = "advance" => loop \in {"no_loop", "loop"}
    BY <1>1, <1>3 DEF NextEntry
  <2>2. Goes(t, p, th[t].to)
    BY <1>1, <2>1, Went DEF Pc
  <2> QED
    BY <1>1, <1>3, <2>1, <2>2, ListSame, QuietHolds DEF Quiet
<1>4. CASE ~ignoreNext /\ "stop" \notin stopAfter /\ controls /\ mmk = <<>>
  <2>1. SetCurrent(t, NONE) /\ Goto(t, "logo")
    BY <1>1, <1>4 DEF NextEntry
  <2>2. th'[t].pc = "logo"
    BY <1>1, <2>1, Went, GoesOn DEF Pc
  <2>3. Alike' /\ mmk' = mmk /\ cur' <= Len(mmk)
    BY <2>1, SetMatches, NoIndex
  <2> QED
    BY <1>1, <1>4, <2>2, <2>3, QuietAfter DEF Quiet
<1> QED
  BY <1>2, <1>3, <1>4

\* The places of start_next where the index is chosen.
LEMMA IndexHolds ==
  ASSUME NEW t \in Threads, Held(t), Advance(t) \/ Wrap(t) \/ Shuffle(t) \/ Draw(t)
  PROVE  Holds(t)'
<1>1. /\ IInv /\ ~ignoreNext' /\ loop' = loop /\ current' = current
      /\ mmk \in Seq(Entry) /\ cur \in Int /\ Len(mmk) \in Nat
  BY DEF Advance, Wrap, Shuffle, Draw, On, Held, Rated, Ignoring, InCall, PlayPc, IInv, Data,
         list
<1>2. CASE Advance(t)
  <2>1. th'[t].pc = "wrap" /\ cur' = cur + 1 /\ mmk' = mmk
    BY <1>1, <1>2, Went, GoesOn DEF Advance, Pc
  <2>2. cur <= Len(mmk) /\ loop \in {"no_loop", "loop"}
    BY <1>2 DEF Advance, On, Held, Rated, Near
  <2>3. ~InCall(th[t])'
    BY <2>1 DEF InCall, PlayPc
  <2>4. Near(th[t])'
    BY <1>1, <2>1, <2>2 DEF Near
  <2>5. Alike'
    BY <1>1, <2>1 DEF Held, Alike
  <2> QED
    BY <1>1, <2>1, <2>3, <2>4, <2>5 DEF Holds, Rated, OfEntry, NoStart, Ended
<1>3. CASE Wrap(t)
  <2>1. loop \in {"no_loop", "loop"} /\ cur <= Len(mmk) + 1
    BY <1>3 DEF Wrap, On, Held, Rated, Near
  <2>2. \/ Goto(t, "list") /\ UNCHANGED list /\ cur < Len(mmk)
        \/ Goto(t, "logo") /\ cur' = cur - 1 /\ mmk' = ResetPlayed(mmk)
        \/ Goto(t, "list") /\ cur' = 0 /\ UNCHANGED mmk
    BY <1>3, <2>1 DEF Wrap
  <2>3. th'[t].pc \in {"list", "logo"}
    BY <1>1, <2>2, Went, GoesOn DEF Pc
  <2>4. Len(mmk') = Len(mmk) /\ cur' <= Len(mmk)
    BY <1>1, <2>1, <2>2, ResetType DEF list
  <2>5. Alike'
    <3>1. CASE mmk' = mmk
      BY <1>1, <3>1 DEF Held, Alike
    <3>2. CASE mmk' = ResetPlayed(mmk)
      BY <1>1, <3>2, AlikeReset DEF Held
    <3> QED
      BY <2>2, <3>1, <3>2 DEF list
  <2> QED
    BY <1>1, <2>3, <2>4, <2>5, QuietAfter DEF Quiet
<1>4. CASE Shuffle(t)
  <2>1. PICK p \in {"draw", "logo"} : Goto(t, p)
    BY <1>4 DEF Shuffle
  <2>2. th'[t].pc = p
    BY <1>1, <2>1, Went, GoesOn DEF Pc
  <2>3. Alike' /\ Len(mmk') = Len(mmk) /\ cur' = cur
    <3>1. cur' = cur /\ (mmk' = mmk \/ mmk' = ResetPlayed(mmk))
      BY <1>4 DEF Shuffle
    <3>2. mmk' = mmk => Alike'
      BY <1>1 DEF Held, Alike
    <3> QED
      BY <1>1, <3>1, <3>2, AlikeReset, ResetType DEF Held
  <2>4. cur <= Len(mmk)
    BY <1>4 DEF Shuffle, On, Held, Rated, Near
  <2> QED
    BY <1>1, <2>2, <2>3, <2>4, QuietAfter DEF Quiet
<1>5. CASE Draw(t)
  <2>1. th'[t].pc = "list" /\ cur' \in ShuffleNext(mmk, cur) /\ mmk' = mmk
    BY <1>1, <1>5, Went, GoesOn DEF Draw, Pc
  <2>2. cur' \in 0 .. Len(mmk) - 1 \/ cur' = 0 \/ (Len(mmk) = 2 /\ cur' = 1)
    <3>1. Unplayed(mmk) \subseteq 0 .. Len(mmk) - 1
      BY DEF Unplayed
    <3> QED
      BY <2>1, <3>1 DEF ShuffleNext
  <2>3. cur' <= Len(mmk)
    <3>1. Len(mmk) \in Nat
      BY <1>1
    <3> QED
      BY <2>2, <3>1
  <2>4. Alike'
    BY <1>1, <2>1 DEF Held, Alike
  <2> QED
    BY <1>1, <2>1, <2>3, <2>4, QuietAfter DEF Quiet
<1> QED
  BY <1>2, <1>3, <1>4, <1>5

LEMMA ListHolds == ASSUME NEW t \in Threads, Held(t), List(t) PROVE Holds(t)'
<1>1. /\ IInv /\ th[t].pc = "list" /\ ~ignoreNext' /\ ~ignoreNext
      /\ mmk \in Seq(Entry) /\ cur \in Int /\ Len(mmk) \in Nat
  BY DEF List, On, Held, Rated, Ignoring, InCall, PlayPc, IInv, Data
<1>2. CASE cur >= Len(mmk)
  <2>1. Goes(t, "unplayed", th[t].to) /\ UNCHANGED list
    BY <1>1, <1>2, Went DEF List, Pc
  <2> QED
    BY <1>1, <2>1, ListSame, QuietHolds DEF Quiet
<1>3. CASE ~(cur >= Len(mmk))
  <2>1. SetCurrent(t, cur) /\ th' = [th EXCEPT ![t].pc = "listPlay", ![t].call = "list"]
    BY <1>1, <1>3 DEF List
  <2>2. th'[t].pc = "listPlay"
    BY <1>1, <2>1, Here DEF Doing
  <2>3. ~InCall(th[t])'
    BY <2>2 DEF InCall, PlayPc
  <2>4. Alike' /\ Matching' /\ mmk' = mmk /\ cur' <= Len(mmk)
    BY <1>1, <2>1, SetMatches
  <2> QED
    BY <1>1, <2>2, <2>3, <2>4 DEF Holds, Rated, OfEntry, NoStart, Near, Ended
<1> QED
  BY <1>2, <1>3

LEMMA ListPlayHolds == ASSUME NEW t \in Threads, Held(t), ListPlay(t) PROVE Holds(t)'
<1>1. /\ IInv /\ th[t].pc = "listPlay" /\ ~ignoreNext' /\ UNCHANGED list /\ Matching
      /\ cur <= Len(mmk)
  BY DEF ListPlay, On, Held, Rated, Ignoring, InCall, PlayPc, Near
<1>2. th[t].call \in {"list", "dbl"}
  BY <1>1, Here DEF Sensible
<1>3. PICK told \in BOOLEAN : Call(t, th[t].call, current.mrl, current.alts, told)
  BY Zenon DEF ListPlay
<1>4. /\ th'[t].pc = "open" /\ th'[t].call = th[t].call /\ th'[t].arg = current.mrl
      /\ th'[t].todo = current.alts
  BY <1>1, <1>3, Here DEF Call, Doing
<1>5. /\ Alike' /\ Matching' /\ (InRange(mmk, cur)' <=> InRange(mmk, cur))
      /\ Len(mmk') = Len(mmk) /\ cur' = cur /\ current' = current
  BY <1>1, ListSame, SameFacts DEF Held
<1>6. \A k \in DOMAIN current.alts : IsAlternate(current.alts[k])
  <2>1. current.alts = Alternates \/ current.alts = <<>>
    BY DEF Held, Alike
  <2> QED
    BY <2>1 DEF IsAlternate
<1>7. Chosen(th[t])'
  BY <1>1, <1>2, <1>4, <1>5, <1>6 DEF Chosen, Matching, IsAlternate
<1> QED
  BY <1>1, <1>2, <1>4, <1>5, <1>7 DEF Holds, Rated, NoStart, Near, Ended

LEMMA ChoosingHolds == ASSUME NEW t \in Threads, Held(t), Choosing(t) PROVE Holds(t)'
<1>1. CASE NotPlayed(t)
  <2>1. /\ IInv /\ th[t].pc = "unplayed" /\ ~ignoreNext /\ UNCHANGED <<list, ignoreNext>>
    BY <1>1 DEF NotPlayed, On, Held, Rated, Ignoring, InCall, PlayPc
  <2>2. PICK p \in {"draw", "logo"} : Goto(t, p)
    BY <1>1 DEF NotPlayed
  <2>3. Goes(t, p, th[t].to)
    BY <2>1, <2>2, Went DEF Pc
  <2> QED
    BY <2>1, <2>3, ListSame, QuietHolds DEF Quiet
<1> QED
  BY <1>1, NextEntryHolds, IndexHolds, ListHolds, ListPlayHolds DEF Choosing

-----------------------------------------------------------------------------
LEMMA PlayCallHolds ==
  ASSUME NEW t \in Threads, Held(t), GuiPlay(t) \/ GuiPlay2(t) PROVE Holds(t)'
<1>1. /\ IInv /\ th[t].pc \in {"gplay", "gplay2"} /\ ~ignoreNext /\ th[t].base \notin Starts
      /\ UNCHANGED list /\ cur <= Len(mmk)
  BY DEF GuiPlay, GuiPlay2, On, Held, Rated, Ignoring, InCall, PlayPc, NoStart, Near
<1>2. \/ Goto(t, "finish") /\ UNCHANGED ignoreNext
      \/ Goto(t, "gplay2") /\ UNCHANGED ignoreNext
      \/ GotoVia(t, "halt", "gplay2")
      \/ GotoVia(t, "window", "finish") /\ UNCHANGED ignoreNext
      \/ UNCHANGED ignoreNext /\ \E alts, told : Call(t, "play", current.mrl, alts, told)
  BY Zenon DEF GuiPlay, GuiPlay2
<1>3. CASE Goto(t, "finish") /\ UNCHANGED ignoreNext
  <2>1. Goes(t, "finish", th[t].to)
    BY <1>1, <1>3, Went DEF Pc
  <2>2. Ended(th[t])'
    BY <1>1, <2>1, GoesOn DEF Ended
  <2> QED
    BY <1>1, <1>3, <2>1, <2>2, ListSame, EndHolds
<1>4. CASE Goto(t, "gplay2") /\ UNCHANGED ignoreNext
  <2>1. Goes(t, "gplay2", th[t].to)
    BY <1>1, <1>4, Went DEF Pc
  <2> QED
    BY <1>1, <1>4, <2>1, ListSame, QuietHolds DEF Quiet
<1>5. CASE GotoVia(t, "halt", "gplay2")
  <2>1. Goes(t, "halt", "gplay2")
    BY <1>1, <1>5, WentVia DEF Pc
  <2> QED
    BY <1>1, <2>1, HaltBegins
<1>6. CASE /\ UNCHANGED ignoreNext
           /\ \/ GotoVia(t, "window", "finish")
              \/ \E alts, told : Call(t, "play", current.mrl, alts, told)
  <2>1. /\ th'[t].base = th[t].base
        /\ \/ th'[t].pc = "window" /\ th'[t].to = "finish"
           \/ th'[t].pc = "open" /\ th'[t].call = "play"
    <3>1. CASE GotoVia(t, "window", "finish")
      <4>1. Goes(t, "window", "finish")
        BY <1>1, <3>1, WentVia DEF Pc
      <4> QED
        BY <1>1, <4>1, GoesOn
    <3>2. CASE \E alts, told : Call(t, "play", current.mrl, alts, told)
      BY <1>1, <3>2, Here DEF Call, Doing
    <3> QED
      BY <1>6, <3>1, <3>2
  <2>2. ~OfEntry(th[t])'
    BY <2>1 DEF OfEntry, InCall, PlayPc
  <2>3. Alike' /\ Len(mmk') = Len(mmk) /\ cur' = cur
    BY <1>1, ListSame, SameFacts DEF Held
  <2> QED
    BY <1>1, <1>6, <2>1, <2>2, <2>3 DEF Holds, Rated, Near, Ended
<1> QED
  BY <1>2, <1>3, <1>4, <1>5, <1>6

LEMMA StopHolds ==
  ASSUME NEW t \in Threads, Held(t), StopBegin(t) \/ StopEnd(t) PROVE Holds(t)'
<1>1. /\ IInv /\ mmk \in Seq(Entry) /\ cur \in Int /\ Len(mmk) \in Nat
  BY DEF Held, IInv, Data
<1>2. CASE StopBegin(t)
  <2>1. Goes(t, "halt", "stopped") /\ UNCHANGED list /\ th[t].pc = "stop"
    BY <1>1, <1>2, WentVia DEF StopBegin, On, Pc
  <2> QED
    BY <2>1, HaltBegins
<1>3. CASE StopEnd(t)
  <2>1. /\ th[t].pc = "stopped" /\ ~ignoreNext /\ mmk' = ResetPlayed(mmk)
        /\ cur <= Len(mmk) /\ Len(mmk') = Len(mmk)
    BY <1>1, <1>3, ResetType DEF StopEnd, On, Held, Rated, Ignoring, InCall, PlayPc, Near
  <2>2. \A i \in 0 .. Len(mmk) - 1 : At(mmk', i).alts = Alternates
    <3> SUFFICES ASSUME NEW i \in 0 .. Len(mmk) - 1 PROVE At(mmk', i).alts = Alternates
      OBVIOUS
    <3>1. i + 1 \in DOMAIN mmk /\ mmk[i + 1] \in Entry
      BY <1>1
    <3>2. mmk'[i + 1] = [mmk[i + 1] EXCEPT !.played = FALSE]
      BY <2>1, <3>1 DEF ResetPlayed
    <3> QED
      BY <3>1, <3>2 DEF At, Entry, Held, Alike
  <2>3. cur' <= Len(mmk) /\ current'.alts = current.alts
    <3>1. CASE ~controls
      BY <1>3, <2>1, <3>1 DEF StopEnd
    <3>2. CASE controls
      <4>1. /\ cur' = RealIndex(mmk, cur, CURRENT)
            /\ current' = CopyOver(current, EntryOrNone(mmk', cur'))
        BY <1>3, <3>2 DEF StopEnd
      <4>2. cur' \in Int /\ (cur' = NONE \/ cur' \in 0 .. Len(mmk) - 1)
        BY <1>1, <4>1, RealInside DEF InRange, CURRENT
      <4>3. CASE cur' = NONE
        BY <1>1, <4>1, <4>3 DEF CopyOver, EntryOrNone, NoEntry, NONE
      <4>4. CASE cur' # NONE
        <5>1. cur' \in 0 .. Len(mmk) - 1
          BY <4>2, <4>4
        <5>2. At(mmk', cur').alts = Alternates /\ current.alts = Alternates
          BY <1>1, <2>2, <5>1 DEF Held, Alike
        <5> QED
          BY <1>1, <4>1, <4>4, <5>1, <5>2 DEF CopyOver, EntryOrNone
      <4> QED
        BY <4>3, <4>4
    <3> QED
      BY <3>1, <3>2
  <2>4. Alike'
    BY <2>1, <2>2, <2>3 DEF Held, Alike
  <2>5. \/ GotoVia(t, "halt", "finish") /\ th[t].base = "close"
        \/ Goto(t, "logo") /\ ~ignoreNext'
    BY <1>3, <2>1 DEF StopEnd
  <2>6. \/ th'[t].pc = "halt" /\ th'[t].to = "finish" /\ th'[t].base = "close"
        \/ th'[t].pc = "logo" /\ ~ignoreNext'
    <3>1. CASE GotoVia(t, "halt", "finish") /\ th[t].base = "close"
      <4>1. Goes(t, "halt", "finish")
        BY <1>1, <3>1, WentVia DEF Pc
      <4> QED
        BY <1>1, <3>1, <4>1, GoesOn
    <3>2. CASE Goto(t, "logo") /\ ~ignoreNext'
      <4>1. Goes(t, "logo", th[t].to)
        BY <1>1, <3>2, Went DEF Pc
      <4> QED
        BY <1>1, <3>2, <4>1, GoesOn
    <3> QED
      BY <2>5, <3>1, <3>2
  <2>7. CASE th'[t].pc = "logo" /\ ~ignoreNext'
    BY <2>1, <2>3, <2>4, <2>7, QuietAfter DEF Quiet
  <2>8. CASE th'[t].pc = "halt" /\ th'[t].to = "finish" /\ th'[t].base = "close"
    <3>1. ~InCall(th[t])'
      BY <2>8 DEF InCall, PlayPc
    <3> QED
      BY <2>1, <2>3, <2>4, <2>8, <3>1
         DEF Holds, Rated, OfEntry, Ignoring, NoStart, Near, Ended, Starts
  <2> QED
    BY <2>6, <2>7, <2>8
<1> QED
  BY <1>2, <1>3

LEMMA StepPlayHolds == ASSUME NEW t \in Threads, Held(t), StepPlay(t) PROVE Holds(t)'
<1>1. IInv /\ SetCurrent(t, CURRENT) /\ CURRENT \in Int
  BY DEF StepPlay, Held, CURRENT
<1>2. /\ th'[t].pc = "open" /\ th'[t].call = "step" /\ th'[t].arg = current'.mrl
      /\ th'[t].todo = <<>>
  <2>1. Call(t, "step", current'.mrl, <<>>, TRUE)
    BY Zenon DEF StepPlay
  <2> QED
    BY <1>1, <2>1, Here DEF Call, Doing
<1>3. InCall(th[t])'
  BY <1>2 DEF InCall, PlayPc
<1>4. Alike' /\ Matching' /\ mmk' = mmk /\ cur' <= Len(mmk)
  BY <1>1, SetMatches
<1>5. Chosen(th[t])'
  BY <1>2, <1>4 DEF Chosen, Matching
<1> QED
  BY <1>2, <1>3, <1>4, <1>5 DEF Holds, Rated, Ignoring, NoStart, Near, Ended

LEMMA ClickHolds == ASSUME NEW t \in Threads, Held(t), Click(t) PROVE Holds(t)'
<1>1. /\ IInv /\ th[t].pc = "click" /\ ~ignoreNext' /\ mmk' = mmk /\ cur' = th[t].idx
      /\ current' = CopyOver(current, EntryOrNone(mmk, cur'))
      /\ mmk \in Seq(Entry) /\ Len(mmk) \in Nat /\ th[t].idx \in Int
  BY Here DEF Click, On, Held, Rated, Ignoring, InCall, PlayPc, IInv, Data, Doing
<1>2. InRange(mmk, cur') /\ cur' \in 0 .. Len(mmk) - 1
  BY <1>1 DEF IInv, Indexed, Indexing, InRange
<1>3. At(mmk, cur').alts = Alternates /\ current.alts = Alternates
  BY <1>1, <1>2 DEF Held, Alike
<1>4. current'.mrl = At(mmk, cur').mrl /\ current'.alts = current.alts
  BY <1>1, <1>2, <1>3 DEF CopyOver, EntryOrNone, NONE
<1>5. Alike' /\ Matching' /\ cur' <= Len(mmk)
  BY <1>1, <1>2, <1>3, <1>4 DEF Held, Alike, Matching
<1>6. th'[t].pc = "listPlay"
  BY <1>1, Here DEF Click, Doing
<1>7. ~InCall(th[t])'
  BY <1>6 DEF InCall, PlayPc
<1> QED
  BY <1>1, <1>5, <1>6, <1>7 DEF Holds, Rated, OfEntry, NoStart, Near, Ended

LEMMA RemoveEntryHolds ==
  ASSUME NEW t \in Threads, Held(t), RemoveEntry(t) PROVE Holds(t)'
<1>1. /\ IInv /\ th[t].pc = "remove" /\ ~ignoreNext' /\ current' = current
      /\ mmk' = Remove(mmk, th[t].idx) /\ cur' = CurAfterRemove(mmk, cur)
      /\ mmk \in Seq(Entry) /\ Len(mmk) \in Nat /\ th[t].idx \in Int /\ cur \in Int
  BY Here DEF RemoveEntry, On, Held, Rated, Ignoring, InCall, PlayPc, IInv, Data, Doing
<1>2. th[t].base = "delete" /\ th'[t].pc = "removed"
  BY <1>1, Here, Went, GoesOn DEF RemoveEntry, Sensible, Pc
<1>3. InRange(mmk, th[t].idx)
  BY <1>1, <1>2 DEF IInv, Indexed, Indexing
<1>4. Len(mmk') = Len(mmk) - 1 /\ Len(mmk) > 0
  BY <1>1, <1>3, RemoveType DEF InRange
<1>5. cur' <= Len(mmk')
  BY <1>1, <1>4 DEF CurAfterRemove, NONE
<1>6. ASSUME NEW i \in 0 .. Len(mmk') - 1 PROVE At(mmk', i).alts = Alternates
  <2>1. i + 1 \in 1 .. Len(mmk) - 1
    BY <1>1, <1>4
  <2>2. \/ mmk'[i + 1] = mmk[i + 1] /\ i \in 0 .. Len(mmk) - 1
        \/ mmk'[i + 1] = mmk[(i + 1) + 1] /\ i + 1 \in 0 .. Len(mmk) - 1
    BY <1>1, <2>1 DEF Remove
  <2> QED
    BY <2>2 DEF Held, Alike, At
<1>7. Alike'
  BY <1>1, <1>4, <1>6 DEF Held, Alike
<1> QED
  BY <1>1, <1>2, <1>5, <1>7, QuietAfter DEF Quiet

\* The list has been emptied, or gui->mmk follows what is left of it.
LEMMA RemovedHolds ==
  ASSUME NEW t \in Threads, Held(t), Removed(t) \/ Cleared(t) PROVE Holds(t)'
<1>1. /\ IInv /\ th[t].pc \in {"removed", "cleared"} /\ ~ignoreNext' /\ ~ignoreNext
      /\ th[t].base \notin Starts /\ CURRENT \in Int /\ cur <= Len(mmk)
  BY Here DEF Removed, Cleared, On, Held, Rated, Ignoring, InCall, PlayPc, NoStart, Sensible,
     Starts, CURRENT, Near
<1>2. CASE \E i \in {NONE, CURRENT} : SetCurrent(t, i) /\ Goto(t, "finish")
  <2>1. PICK i \in {NONE, CURRENT} : SetCurrent(t, i) /\ Goto(t, "finish")
    BY <1>2
  <2>2. th'[t].pc = "finish" /\ th'[t].base = th[t].base
    BY <1>1, <2>1, Went, GoesOn DEF Pc
  <2>3. ~InCall(th[t])'
    BY <2>2 DEF InCall, PlayPc
  <2>4. Alike' /\ mmk' = mmk /\ cur' <= Len(mmk)
    BY <1>1, <2>1, SetMatches, NoIndex
  <2> QED
    BY <1>1, <2>2, <2>3, <2>4 DEF Holds, Rated, OfEntry, NoStart, Near, Ended
<1>3. CASE /\ UNCHANGED list
           /\ th' = [th EXCEPT ![t].base = "clear",
                     ![t].pc = IF stream.status # "stop" THEN "stop" ELSE "cleared"]
  <2>1. th'[t].base = "clear" /\ th'[t].pc \in {"stop", "cleared"}
    BY <1>1, <1>3, Here DEF Doing
  <2>2. Alike' /\ Len(mmk') = Len(mmk) /\ cur' = cur
    BY <1>1, <1>3, ListSame, SameFacts DEF Held
  <2> QED
    BY <1>1, <2>1, <2>2, QuietAfter DEF Quiet, Starts
<1> QED
  BY <1>2, <1>3 DEF Removed, Cleared

LEMMA WorkingHolds == ASSUME NEW t \in Threads, Held(t), Working(t) PROVE Holds(t)'
BY PlayCallHolds, StopHolds, StepPlayHolds, ClickHolds, RemoveEntryHolds, RemovedHolds
   DEF Working

LEMMA FinishHolds == ASSUME NEW t \in Threads, Held(t), Finish(t) PROVE Holds(t)'
<1>1. IInv /\ th[t].pc = "finish" /\ UNCHANGED list /\ cur <= Len(mmk)
  BY DEF Finish, On, Held, Rated, Near
<1>2. ~ignoreNext'
  BY <1>1, IgnoredBy DEF Finish, IInv, Data
<1>3. th'[t] = Idle
  BY <1>1, Here DEF Finish
<1>4. th'[t].pc = "idle" /\ ~InCall(th[t])'
  BY <1>3 DEF Idle, InCall, PlayPc
<1>5. Alike' /\ Len(mmk') = Len(mmk) /\ cur' = cur
  BY <1>1, ListSame, SameFacts DEF Held
<1> QED
  BY <1>1, <1>2, <1>4, <1>5 DEF Holds, Rated, OfEntry, NoStart, Near, Ended

LEMMA ContinueHolds == ASSUME NEW t \in Threads, Held(t), Continue(t) PROVE Holds(t)'
BY PlayingHolds, ShowingLogoHolds, ChoosingHolds, WorkingHolds, HaltHolds, WindowHolds,
   FinishHolds DEF Continue

-----------------------------------------------------------------------------
\* A call of the user begins: what the one thread does then.
LEMMA Begins ==
  ASSUME NEW t \in Threads, Held(t), NEW c, NEW base, NEW p, NEW i, Begin(t, c, base, p, i)
  PROVE  /\ th'[t].pc = p /\ th'[t].base = base /\ th'[t].call = "none"
         /\ ~ignoreNext /\ cur <= Len(mmk) /\ IInv
         /\ mmk \in Seq(Entry) /\ cur \in Int /\ Len(mmk) \in Nat
<1>1. IInv /\ th[t].pc = "idle" /\ th[t] \in Doing
  BY Here DEF Begin, On, Held
<1>2. th[t].call = "none"
  BY <1>1, Here DEF Sensible, Idle
<1>3. th'[t] = [th[t] EXCEPT !.pc = p, !.base = base, !.idx = i]
  BY <1>1, Here DEF Begin
<1>4. th'[t].pc = p /\ th'[t].base = base /\ th'[t].call = "none"
  BY <1>1, <1>2, <1>3 DEF Doing
<1>5. ~ignoreNext /\ cur <= Len(mmk)
  BY <1>1 DEF Held, Rated, Ignoring, InCall, PlayPc, Near
<1> QED
  BY <1>1, <1>4, <1>5 DEF IInv, Data

LEMMA ButtonHolds ==
  ASSUME NEW t \in Threads, Held(t),
         \/ PlayButton(t) \/ StopButton(t) \/ CloseButton(t) \/ StopAfterwards(t)
         \/ \E i \in 0 .. Len(mmk) - 1 : DblClick(t, i) \/ Delete(t, i)
  PROVE  Holds(t)'
<1>1. /\ UNCHANGED <<list, ignoreNext>>
      /\ \E c, i : \/ \E p \in {"gplay", "stop", "click", "remove"} :
                        \E base \in {"play", "stop", "close", "dbl", "delete"} :
                          /\ Begin(t, c, base, p, i)
                          /\ p = "gplay" => base = "play"
                   \/ Begin(t, c, "none", "finish", i)
  BY DEF PlayButton, StopButton, CloseButton, StopAfterwards, DblClick, Delete
<1>2. /\ ~ignoreNext' /\ cur <= Len(mmk)
      /\ \/ /\ th'[t].pc \in {"gplay", "stop", "click", "remove"}
            /\ th'[t].pc = "gplay" => th'[t].base = "play"
         \/ th'[t].pc = "finish" /\ th'[t].base = "none"
  BY <1>1, Begins
<1>3. Alike' /\ Len(mmk') = Len(mmk) /\ cur' = cur
  BY <1>1, ListSame, SameFacts DEF Held
<1>4. CASE th'[t].pc # "finish"
  BY <1>2, <1>3, <1>4, QuietAfter DEF Quiet, Starts
<1>5. CASE th'[t].pc = "finish"
  <2>1. ~InCall(th[t])'
    BY <1>5 DEF InCall, PlayPc
  <2> QED
    BY <1>2, <1>3, <1>5, <2>1 DEF Holds, Rated, OfEntry, NoStart, Near, Ended, Starts
<1> QED
  BY <1>4, <1>5

LEMMA DeleteAllHolds == ASSUME NEW t \in Threads, Held(t), DeleteAll(t) PROVE Holds(t)'
<1>1. PICK p \in {"stop", "cleared"} : Begin(t, "delete_all", "clear", p, NONE)
  BY DEF DeleteAll
<1>2. /\ mmk' = <<>> /\ cur' = NONE /\ UNCHANGED <<current, ignoreNext>>
  BY DEF DeleteAll
<1>3. th'[t].pc = p /\ th'[t].base = "clear" /\ ~ignoreNext'
  BY <1>1, <1>2, Begins
<1>4. Len(mmk') = 0
  BY <1>2
<1>5. Alike' /\ cur' <= Len(mmk')
  BY <1>2, <1>4 DEF Held, Alike, NONE
<1> QED
  BY <1>3, <1>5, QuietAfter DEF Quiet, Starts

\* A step that ends at once starts nothing: the index is not past the list.
LEMMA StepHolds ==
  ASSUME NEW t \in Threads, Held(t), NEW by \in Steps, StepButton(t, by) PROVE Holds(t)'
<1>1. \E base, p, i : StepThrough(t, base, p, i)
  BY DEF StepButton
<1>2. ~ignoreNext /\ cur <= Len(mmk) /\ cur \in Int /\ Len(mmk) \in Nat
  BY <1>1, Begins DEF StepThrough
<1>3. \E q \in {"next", "step", "finish"}, j \in Int, b \in {"next", "none", "step"} :
        /\ StepThrough(t, b, q, j)
        /\ q # "step" => j <= Len(mmk)
        /\ q = "finish" => b = "none"
  <2>1. by \in Int \ {0}
    BY PlaybackAssumption
  <2> QED
    BY <1>2, <2>1 DEF StepButton
<1>4. PICK q \in {"next", "step", "finish"}, j \in Int, b \in {"next", "none", "step"} :
        /\ StepThrough(t, b, q, j)
        /\ q # "step" => j <= Len(mmk)
        /\ q = "finish" => b = "none"
  BY <1>3
<1>5. /\ th'[t].pc = q /\ th'[t].base = b /\ cur' = j /\ mmk' = mmk /\ current' = current
      /\ (ignoreNext' => q = "step")
  <2>1. Begin(t, "step", b, q, NONE)
    BY <1>4 DEF StepThrough
  <2>2. th'[t].pc = q /\ th'[t].base = b
    BY <2>1, Begins
  <2> QED
    BY <1>2, <1>4, <2>2 DEF StepThrough
<1>6. ~InCall(th[t])'
  BY <1>5 DEF InCall, PlayPc
<1>7. Alike'
  BY <1>5 DEF Held, Alike
<1> QED
  BY <1>4, <1>5, <1>6, <1>7
     DEF Holds, Rated, OfEntry, Ignoring, NoStart, Near, Ended, Starts

LEMMA AnswerHolds ==
  ASSUME NEW t \in Threads, Held(t), NEW yes \in BOOLEAN, Answer(t, yes) PROVE Holds(t)'
<1>1. /\ IInv /\ th[t].pc = "idle" /\ UNCHANGED <<list, ignoreNext>> /\ ~ignoreNext
      /\ cur <= Len(mmk)
  BY DEF Answer, On, Held, Rated, Ignoring, InCall, PlayPc, Near
<1>2. th[t].base = "none"
  BY <1>1, Here DEF Sensible, Idle
<1>3. /\ th'[t].pc \in {"play", "next"} /\ th'[t].call = "answer" /\ th'[t].base = "none"
  BY <1>1, <1>2, Here DEF Answer, Doing
<1>4. Alike' /\ Len(mmk') = Len(mmk) /\ cur' = cur
  BY <1>1, ListSame, SameFacts DEF Held
<1> QED
  BY <1>1, <1>3, <1>4 DEF Holds, Rated, OfEntry, Near, Ended, Starts

LEMMA EventHolds ==
  ASSUME NEW t \in Threads, Held(t),
         StreamEnds \/ FinishedEvent(t) \/ EndReached(t) \/ UNCHANGED vars
  PROVE  Holds(t)'
<1>1. IInv /\ UNCHANGED list
  BY DEF Held, StreamEnds, FinishedEvent, EndReached, vars
<1>2. /\ Alike' /\ (Matching' <=> Matching) /\ (InRange(mmk, cur)' <=> InRange(mmk, cur))
      /\ Len(mmk') = Len(mmk) /\ cur' = cur /\ current' = current /\ loop' = loop
  BY <1>1, ListSame, SameFacts DEF Held
<1>3. CASE th' = th
  <2>1. ~EndReached(t)
    <3>1. EndReached(t) => th[t].pc = "idle" /\ th'[t].pc = "next"
      BY <1>1, Went, GoesOn DEF EndReached, On, Pc
    <3> QED
      BY <1>3, <3>1
  <2>2. /\ stream'.mrl = stream.mrl /\ ignoreNext' = ignoreNext /\ logoMode' = logoMode
        /\ stream' = stream \/ stream'.status # "play"
    BY <1>1, <2>1 DEF StreamEnds, FinishedEvent, vars, engine, Stopped, IInv, Data
  <2>3. Rated(th[t])
    BY DEF Held
  <2>4. (OfEntry(th[t]) => Chosen(th[t]))'
    BY <1>2, <1>3, <2>2, <2>3 DEF Rated, OfEntry, Chosen
  <2>5. Ended(th[t])'
    <3>1. stream' = stream => (PlaysCurrent' <=> PlaysCurrent)
      BY <1>1 DEF PlaysCurrent, list
    <3> QED
      BY <1>2, <1>3, <2>2, <2>3, <3>1 DEF Rated, Ended
  <2> QED
    BY <1>2, <1>3, <2>2, <2>3, <2>4, <2>5 DEF Holds, Rated, Ignoring, Near, NoStart
<1>4. CASE th' # th
  <2>1. th[t].pc = "idle" /\ Goto(t, "next") /\ (ignoreNext' => ignoreNext)
    BY <1>4 DEF StreamEnds, FinishedEvent, EndReached, vars, On
  <2>2. ~ignoreNext' /\ cur <= Len(mmk)
    BY <2>1 DEF Held, Rated, Ignoring, InCall, PlayPc, Near
  <2>3. th'[t].pc = "next"
    BY <1>1, <2>1, Went, GoesOn DEF Pc
  <2>4. ~InCall(th[t])'
    BY <2>3 DEF InCall, PlayPc
  <2> QED
    BY <1>2, <2>2, <2>3, <2>4 DEF Holds, Rated, OfEntry, NoStart, Near, Ended
<1> QED
  BY <1>3, <1>4

LEMMA SteeredStep == GuiAlone /\ IInv /\ Steered /\ [Next]_vars => Steered'
<1> SUFFICES ASSUME GuiAlone, IInv, Steered, [Next]_vars PROVE Steered'
  OBVIOUS
<1>1. CASE fault
  BY <1>1 DEF Steered, Next, vars
<1>2. CASE ~fault
  <2>1. Gui \in Threads /\ Threads = {Gui}
    BY DEF GuiAlone
  <2>2. Held(Gui)
    BY <1>2, <2>1 DEF Held, Steered
  <2>3. \/ Continue(Gui) \/ UserCall(Gui) \/ \E yes \in BOOLEAN : Answer(Gui, yes)
        \/ StreamEnds \/ FinishedEvent(Gui) \/ EndReached(Gui) \/ UNCHANGED vars
    BY <2>1 DEF Next
  <2>4. UserCall(Gui) => Holds(Gui)'
    BY <2>1, <2>2, ButtonHolds, DeleteAllHolds, StepHolds DEF UserCall
  <2>5. Holds(Gui)'
    BY <2>1, <2>2, <2>3, <2>4, ContinueHolds, AnswerHolds, EventHolds
  <2> QED
    BY <2>1, <2>5 DEF Holds, Steered
<1> QED
  BY <1>1, <1>2

LEMMA SteeredInit == Init => Steered
<1> SUFFICES ASSUME Init PROVE Alike /\ \A t \in Threads : Rated(th[t])
  BY DEF Steered
<1>1. (\A t \in Threads : th[t] = Idle) /\ ~ignoreNext
  BY DEF Init
<1>2. PICK ms \in Lists :
        mmk = [k \in DOMAIN ms |->
                 [mrl |-> ms[k], alts |-> Alternates, played |-> Started /\ k = 1]]
  BY DEF Init
<1>3. IInv /\ mmk \in Seq(Entry) /\ ms \in Seq(Mrl) /\ Len(mmk) \in Nat
  BY InitIInv, PlaybackAssumption DEF IInv, Data
<1>4. \A i \in 0 .. Len(mmk) - 1 : At(mmk, i).alts = Alternates
  <2>1. DOMAIN mmk = DOMAIN ms /\ DOMAIN mmk = 1 .. Len(mmk)
    BY <1>2, <1>3
  <2>2. \A k \in DOMAIN ms : mmk[k].alts = Alternates
    BY <1>2
  <2>3. \A i \in 0 .. Len(mmk) - 1 : i + 1 \in DOMAIN ms
    BY <1>3, <2>1
  <2> QED
    BY <2>2, <2>3 DEF At
<1>5. cur <= Len(mmk) /\ (current.alts = Alternates \/ (Len(mmk) = 0 /\ current.alts = <<>>))
  <2>1. CASE mmk = <<>>
    BY <2>1 DEF Init, NONE, CopyOver, EntryOrNone, NoEntry
  <2>2. CASE mmk # <<>>
    <3>1. cur = 0 /\ 0 \in 0 .. Len(mmk) - 1
      BY <1>3, <2>2 DEF Init
    <3>2. At(mmk, 0).alts = Alternates
      BY <1>4, <3>1
    <3> QED
      BY <1>3, <3>1, <3>2 DEF Init, CopyOver, EntryOrNone, NONE
  <2> QED
    BY <2>1, <2>2
<1>6. ~InCall(Idle) /\ Idle.pc = "idle"
  BY DEF Idle, InCall, PlayPc
<1> QED
  BY <1>1, <1>4, <1>5, <1>6 DEF Alike, Rated, OfEntry, NoStart, Near, Ended

(***************************************************************************)
(* With the GUI thread alone, a step or a double click that ends with an   *)
(* entry playing has started the current entry or an alternate of it, for  *)
(* any list, steps of any width, whatever fails, was removed or stopped.   *)
(***************************************************************************)
THEOREM StepsStartCurrent == ASSUME GuiAlone PROVE Spec => StartsCurrent
<1>1. IInv /\ Steered /\ [Next]_vars =>
        [\A t \in Threads :
           Finish(t) /\ th[t].base \in {"next", "step", "dbl"}
             /\ stream.status = "play" /\ logoMode = 0 /\ current.mrl \notin Cfg
             => PlaysCurrent]_vars
  <2> SUFFICES ASSUME IInv, Steered, [Next]_vars, vars' # vars, NEW t \in Threads, Finish(t),
                      th[t].base \in {"next", "step", "dbl"},
                      stream.status = "play", logoMode = 0, current.mrl \notin Cfg
               PROVE  PlaysCurrent
    OBVIOUS
  <2>1. ~fault
    BY DEF Next
  <2>2. Ended(th[t])
    BY <2>1 DEF Steered, Rated
  <2> QED
    BY <2>2 DEF Ended, Starts, Finish, On
<1>2. Init => Steered
  BY SteeredInit
<1>3. IInv /\ Steered /\ [Next]_vars => Steered'
  BY SteeredStep
<1> QED
  BY <1>1, <1>2, <1>3, Inductive, PTL DEF Spec, StartsCurrent
=============================================================================
