------------------------------ MODULE Playlist ------------------------------
(***************************************************************************)
(* The playlist of the GUI behind mediamark.h: gui->playlist, gui->mmk and *)
(* the functions that change them.  Every function holds the recursive     *)
(* mmk_mutex from its first read to its last write, so a call is one step; *)
(* the threads that call them (GUI callbacks, the xine event listener, the *)
(* network server, the session socket) are the ways to choose the next     *)
(* call.                                                                   *)
(***************************************************************************)
EXTENDS Mediamark

CONSTANTS Chunk,       \* entries the array grows by (32 in the code)
          GuessKinds,  \* index in guess_functions of a playlist file's type
          FileSizes,   \* numbers of entries in playlist files
          Modes,       \* loop modes the user selects, or numbers of none
          Disc,        \* the mrls with a scheme ("dvd:/"), all the same one
          MaxEntries,  \* bound on num
          MaxAlts,     \* bound on the alternates of an entry
          MaxLive      \* bound on the mediamarks allocated

ASSUME PlaylistAssumption ==
  /\ Chunk \in Nat \ {0}
  /\ MaxEntries \in Nat
  /\ MaxAlts \in Nat /\ MaxLive \in Nat
  /\ FileSizes \subseteq Nat \ {0}
  /\ GuessKinds \subseteq 0 .. Chunk - 1
  /\ Disc \subseteq Mrl

VARIABLES
  mmk,        \* the num entries set in gui->playlist.mmk
  spare,      \* what the max - num slots behind them hold
  cur,        \* gui->playlist.cur
  refAppend,  \* gui->playlist.ref_append
  loop,       \* gui->playlist.loop
  current,    \* gui->mmk
  live,       \* number of mediamarks allocated for the array, not yet freed
  fault       \* undefined behaviour met: see Fault

vars == <<mmk, spare, cur, refAppend, loop, current, live, fault>>

Slot == {"null", "junk", "stale"}   \* NULL, never written, already dropped

\* a slot nobody initialised was freed; an array was indexed past its end;
\* a string was searched that is not there
Fault == {"none", "junk_freed", "index_past_end", "null_read"}

Fill(n, what) == [k \in 1 .. n |-> what]

\* gui_playlist_init; gui->mmk is still zeroed memory
Init ==
  /\ mmk = <<>> /\ spare = <<>>
  /\ cur = NONE /\ refAppend = 0 /\ loop = "no_loop"
  /\ current = [mrl |-> NoMrl, alts |-> <<>>]
  /\ live = 0 /\ fault = "none"

(***************************************************************************)
(* gui_current_set_index, with the gui_pl_updated it ends in.              *)
(***************************************************************************)
SetIndex(index) ==
  LET real == RealIndex(mmk, cur, index)
  IN  /\ cur' = real
      /\ current' = CopyOver(current, EntryOrNone(mmk, real))
      /\ refAppend' = real
      /\ UNCHANGED <<mmk, spare, loop, live, fault>>

\* The insertion proper: a full array first gains Chunk NULL slots.
InsertEntry(index, m) ==
  LET slots == IF spare = <<>> THEN Fill(Chunk, "null") ELSE spare
  IN  /\ Len(mmk) < MaxEntries
      /\ mmk' = Insert(mmk, InsertIndex(mmk, index), NewEntry(m))
      /\ spare' = Tail(slots)
      /\ live' = live + 1
      /\ UNCHANGED <<cur, loop, current, fault>>

\* gui_playlist_append
Append1(m) ==
  /\ InsertEntry(-1, m)
  /\ UNCHANGED refAppend

(***************************************************************************)
(* The two uses the event listener makes of an mrl reference: a new entry  *)
(* behind the last reference, or an alternate of the entry it belongs to.  *)
(***************************************************************************)
MrlReference(m) ==
  /\ mmk # <<>> /\ refAppend < MaxEntries
  /\ refAppend' = refAppend + 1
  /\ InsertEntry(refAppend + 1, m)

MrlAlternate(m) ==
  LET index == Resolve(cur, refAppend)
  IN  /\ mmk # <<>>
      /\ InRange(mmk, index)
      /\ Len(At(mmk, index).alts) < MaxAlts
      /\ mmk' = AddAlternate(mmk, index, m)
      /\ UNCHANGED <<spare, cur, refAppend, loop, current, live, fault>>

(***************************************************************************)
(* gui_playlist_move.  (Here and below, a call with an index outside of    *)
(* the array changes nothing: a stuttering step.)                          *)
(***************************************************************************)
Move(index, n, diff) ==
  LET i == Resolve(cur, index)
      c == ClampedCount(mmk, i, n)
      d == ClampedDiff(mmk, i, c, diff)
  IN  /\ InRange(mmk, i)
      /\ mmk' = MoveEntries(mmk, i, c, d)
      /\ cur' = CurAfterMove(cur, i, c, d)
      /\ UNCHANGED <<spare, refAppend, loop, current, live, fault>>

(***************************************************************************)
(* gui_playlist_remove: the slot behind the shrunk array is set to NULL.   *)
(***************************************************************************)
RemoveEntry(index) ==
  LET i == Resolve(cur, index)
  IN  /\ InRange(mmk, i)
      /\ mmk' = Remove(mmk, i)
      /\ spare' = <<"null">> \o spare
      /\ cur' = CurAfterRemove(mmk, cur)
      /\ live' = live - 1
      /\ UNCHANGED <<refAppend, loop, current, fault>>

\* gui_playlist_free
FreeAll ==
  /\ mmk # <<>>
  /\ mmk' = <<>> /\ spare' = <<>> /\ cur' = NONE
  /\ live' = live - Len(mmk)
  /\ UNCHANGED <<refAppend, loop, current, fault>>

(***************************************************************************)
(* gui_eject when the drive opens.  A current entry with a scheme takes    *)
(* all entries of that scheme along, any other one goes alone; then the    *)
(* index and gui->mmk are set anew.  (When the drive does not open, or     *)
(* the list is empty: RemoveEntry(CURRENT) or SetIndex(CURRENT).)          *)
(*                                                                         *)
(* The scheme to compare with is read through the mrl of the current       *)
(* entry, which the loop frees when it gets there: which of the entries    *)
(* behind it still match is anyone's guess.  Picks are the index sequences *)
(* of the entries that stay.                                               *)
(***************************************************************************)
Picks ==
  {pick \in UNION {[1 .. n -> DOMAIN mmk] : n \in 0 .. Len(mmk)} :
     \A j, k \in DOMAIN pick : j < k => pick[j] < pick[k]}

DropsDisc(pick) ==
  \A i \in 1 .. cur + 1 :
     (mmk[i].mrl \in Disc) <=> (\A k \in DOMAIN pick : pick[k] # i)

Ejected(kept, index) ==
  /\ mmk' = kept /\ cur' = index /\ refAppend' = index
  /\ spare' = Fill(Len(mmk) - Len(kept), "null") \o spare
  /\ current' = CopyOver(current, EntryOrNone(kept, index))
  /\ live' = live - (Len(mmk) - Len(kept))
  /\ UNCHANGED <<loop, fault>>

EjectEntry ==
  /\ InRange(mmk, cur) /\ At(mmk, cur).mrl \notin Disc
  /\ Ejected(Remove(mmk, cur), CurAfterRemove(mmk, cur))

EjectDisc ==
  /\ InRange(mmk, cur) /\ At(mmk, cur).mrl \in Disc
  /\ \E pick \in Picks :
       /\ DropsDisc(pick)
       /\ Ejected([k \in DOMAIN pick |-> mmk[pick[k]]],
                  IF pick = <<>> THEN NONE ELSE 0)

\* No entry is current: strstr() is called with NULL.
EjectNone ==
  /\ mmk # <<>> /\ cur = NONE
  /\ fault' = "null_read"
  /\ UNCHANGED <<mmk, spare, cur, refAppend, loop, current, live>>

(***************************************************************************)
(* _gui_playlist_add_lf: a playlist file's entries go behind num; when max *)
(* is too small the array is extended to a multiple of Chunk, and realloc  *)
(* does not initialise what it adds.                                       *)
(***************************************************************************)
Rounded(n) == ((n + Chunk) \div Chunk) * Chunk

Extended(num, slots, used) ==
  IF num + used > num + Len(slots)
  THEN slots \o Fill(Rounded(num + used) - num - Len(slots), "junk")
  ELSE slots

NewEntries(ms) == [k \in DOMAIN ms |-> NewEntry(ms[k])]

\* _gui_playlist_add_playlist, replace = 0
LoadPlaylist(ms) ==
  LET slots == Extended(Len(mmk), spare, Len(ms))
  IN  /\ Len(mmk) + Len(ms) <= MaxEntries
      /\ mmk' = mmk \o NewEntries(ms)
      /\ spare' = SubSeq(slots, Len(ms) + 1, Len(slots))
      /\ cur' = IF cur < 0 THEN Len(mmk) ELSE cur
      /\ live' = live + Len(ms)
      /\ UNCHANGED <<refAppend, loop, current, fault>>

(***************************************************************************)
(* _gui_playlist_add_playlist, replace = 1: the loop that should free the  *)
(* old entries frees slot `guess`, the index of the function that knew the *)
(* file's type, as often as there are entries (the first time resets it).  *)
(***************************************************************************)
FreedSlot(guess) ==
  IF mmk = <<>> THEN "null"
  ELSE IF guess < Len(mmk) THEN "entry" ELSE spare[guess - Len(mmk) + 1]

ReplacePlaylist(ms, guess) ==
  LET old == [k \in 1 .. Len(mmk) + Len(spare) |->
                IF mmk # <<>> /\ k = guess + 1 THEN "null"
                ELSE IF k <= Len(mmk) THEN "stale" ELSE spare[k - Len(mmk)]]
      slots == Extended(0, old, Len(ms))
      freed == IF FreedSlot(guess) \in {"entry", "stale"} THEN 1 ELSE 0
  IN  /\ Len(ms) <= MaxEntries /\ live + Len(ms) - freed <= MaxLive
      /\ mmk' = NewEntries(ms)
      /\ spare' = SubSeq(slots, Len(ms) + 1, Len(slots))
      /\ IF loop = "shuffle" THEN cur' \in ShuffleNext(mmk', cur) ELSE cur' = 0
      /\ live' = live + Len(ms) - freed
      /\ fault' = IF FreedSlot(guess) = "junk" THEN "junk_freed"
                  ELSE IF loop = "shuffle" /\ Len(ms) >= 3 /\ cur >= Len(ms)
                  THEN "index_past_end" ELSE fault
      /\ UNCHANGED <<refAppend, loop, current>>

\* Mutant of LoopModeSet: the number typed is taken as it is.
LoopModeUnchecked(mode) ==
  /\ loop' = mode
  /\ UNCHANGED <<mmk, spare, cur, refAppend, current, live, fault>>

\* ACTID_LOOPMODE: a number that names no mode selects "no loop".
LoopModeSet(mode) ==
  /\ loop' = IF mode \in LoopMode THEN mode ELSE "no_loop"
  /\ UNCHANGED <<mmk, spare, cur, refAppend, current, live, fault>>

Files == {[k \in 1 .. n |-> m] : n \in FileSizes, m \in Mrl}

(***************************************************************************)
(* The calls the GUI makes, until one of them meets undefined behaviour.   *)
(* The indices go up to the count itself: a client may type any number,    *)
(* and an entry a window shows may be gone.  Entries are moved one place   *)
(* at a time (_playlist_move_current_updown).                              *)
(***************************************************************************)
Indices == CURRENT .. Len(mmk)

Next ==
  /\ fault = "none"
  /\ \/ \E i \in Indices : SetIndex(i) \/ RemoveEntry(i)
     \/ \E m \in Mrl : Append1(m) \/ MrlReference(m) \/ MrlAlternate(m)
     \/ \E i \in Indices, diff \in {-1, 1} : Move(i, 1, diff)
     \/ FreeAll
     \/ EjectEntry \/ EjectDisc \/ EjectNone
     \/ \E ms \in Files : LoadPlaylist(ms)
     \/ \E ms \in Files, g \in GuessKinds : ReplacePlaylist(ms, g)
     \/ \E mode \in Modes : LoopModeSet(mode)

Spec == Init /\ [][Next]_vars

-----------------------------------------------------------------------------
TypeOK ==
  /\ mmk \in Seq(Entry) /\ spare \in Seq(Slot)
  /\ cur \in Int /\ refAppend \in Int
  /\ loop \in LoopMode /\ current \in Current
  /\ live \in Int /\ fault \in Fault

(***************************************************************************)
(* playlist.cur is GUI_MMK_NONE or the index of an entry that is set:      *)
(* mediamark_get_current_mmk, the slider thread and the played marks of    *)
(* actions.c index the array with it, with no check against num.           *)
(***************************************************************************)
CurInRange == cur = NONE \/ InRange(mmk, cur)

(***************************************************************************)
(* What gui_playlist_move does wherever it may be called: the n entries    *)
(* arrive together and in order at the index it returns, the others keep   *)
(* their order, and the entry that was current stays current.              *)
(***************************************************************************)
BlockAt(s, i, n) == [k \in 1 .. n |-> s[i + k]]
AllBut(s, i, n) ==
  [k \in 1 .. Len(s) - n |-> IF k <= i THEN s[k] ELSE s[k + n]]

MovedWhole(new, i, n, to) ==
  /\ BlockAt(new, to, n) = BlockAt(mmk, i, n)
  /\ AllBut(new, to, n) = AllBut(mmk, i, n)

SameCurrent(new, newCur) ==
  IF cur = NONE THEN newCur = NONE
  ELSE InRange(new, newCur) /\ At(new, newCur) = At(mmk, cur)

Counts(i) == {ClampedCount(mmk, i, n) : n \in 1 .. MaxEntries}

Ways(i, n) ==
  {ClampedDiff(mmk, i, n, diff) : diff \in -MaxEntries .. MaxEntries}

MoveContract ==
  \A i \in 0 .. Len(mmk) - 1 : \A c \in Counts(i) : \A d \in Ways(i, c) :
     /\ MovedWhole(MoveEntries(mmk, i, c, d), i, c, i + d)
     /\ SameCurrent(MoveEntries(mmk, i, c, d), CurAfterMove(cur, i, c, d))

(***************************************************************************)
(* Not kept by the code (README): each mediamark allocated for the array   *)
(* is in it until it is freed ("previous playlist items will be dropped    *)
(* first").                                                                *)
(***************************************************************************)
NoneLost == live = Len(mmk)
=============================================================================
