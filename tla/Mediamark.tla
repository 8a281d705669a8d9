----------------------------- MODULE Mediamark -----------------------------
(***************************************************************************)
(* The data of src/xitk/mediamark.c: mediamarks, the playlist array and    *)
(* what each playlist function computes from it.  The operators are pure:  *)
(* Playlist and Playback apply them to their variables.                    *)
(*                                                                         *)
(* An index is the C index (0-based); entry i of the array is mmk[i + 1].  *)
(* The text fields of a mediamark (ident, sub, offsets) are left out: only *)
(* the mrl, the alternates and the played flag steer the program.          *)
(***************************************************************************)
EXTENDS Integers, Sequences, FiniteSets

CONSTANTS Mrl,      \* what a user or a stream can ask to play
          NoMrl     \* the "There is no MRL." text of an empty gui->mmk

ASSUME MrlAssumption == NoMrl \notin Mrl

NONE    == -1       \* GUI_MMK_NONE
CURRENT == -2       \* GUI_MMK_CURRENT

LoopMode == {"no_loop", "loop", "repeat", "shuffle", "shuf_plus"}

Entry == [mrl : Mrl, alts : Seq(Mrl), played : BOOLEAN]

\* gui->mmk: a copy of an entry, or of the "none" mediamark
Current == [mrl : Mrl \cup {NoMrl}, alts : Seq(Mrl)]

NewEntry(m) == [mrl |-> m, alts |-> <<>>, played |-> FALSE]

NoEntry == [mrl |-> NoMrl, alts |-> <<>>, played |-> FALSE]

Entries(mmk) == {mmk[i] : i \in DOMAIN mmk}

InRange(mmk, i) == 0 <= i /\ i < Len(mmk)

At(mmk, i) == mmk[i + 1]

(***************************************************************************)
(* mediamark_copy into gui->mmk.  mediamark_duplicate_alternates returns   *)
(* early when the source has none: the target then keeps its old list.     *)
(***************************************************************************)
CopyOver(current, e) ==
  [mrl |-> e.mrl, alts |-> IF e.alts # <<>> THEN e.alts ELSE current.alts]

\* The index gui_current_set_index, _move and _remove work on.
Resolve(cur, index) == IF index = CURRENT THEN cur ELSE index

\* gui_current_set_index: the index it stores, and the mediamark it copies
RealIndex(mmk, cur, index) ==
  IF InRange(mmk, Resolve(cur, index)) THEN Resolve(cur, index) ELSE NONE

EntryOrNone(mmk, index) ==
  IF index = NONE THEN NoEntry ELSE At(mmk, index)

\* gui_playlist_insert: the index used, and the array with a gap filled there
InsertIndex(mmk, index) ==
  IF index < 0 \/ index >= Len(mmk) THEN Len(mmk) ELSE index

Insert(mmk, index, e) ==
  [k \in 1 .. Len(mmk) + 1 |->
     IF k <= index THEN mmk[k]
     ELSE IF k = index + 1 THEN e ELSE mmk[k - 1]]

\* gui_playlist_remove: the rest of the array closes up
Remove(mmk, index) ==
  [k \in 1 .. Len(mmk) - 1 |-> IF k <= index THEN mmk[k] ELSE mmk[k + 1]]

\* Mutant of CurAfterRemove: the current index is not looked after at all.
CurAfterRemoveUnchecked(mmk, cur) == cur

CurAfterRemove(mmk, cur) == IF cur >= Len(mmk) - 1 THEN NONE ELSE cur

(***************************************************************************)
(* gui_playlist_move: n entries from index on exchange their place with    *)
(* the |diff| entries before or after them; n and diff are first clamped   *)
(* to what the array holds.  Exchange(a, b, c) swaps a .. b - 1 with       *)
(* b .. c - 1, what the memcpy/memmove sequence does either way.           *)
(***************************************************************************)
ClampedCount(mmk, index, n) ==
  IF n > Len(mmk) - index THEN Len(mmk) - index ELSE n

ClampedDiff(mmk, index, n, diff) ==
  IF diff < 0
  THEN IF -diff > index THEN -index ELSE diff
  ELSE IF diff > Len(mmk) - index - n THEN Len(mmk) - index - n ELSE diff

Exchange(mmk, a, b, c) ==
  [k \in 1 .. Len(mmk) |->
     IF k <= a \/ k > c THEN mmk[k]
     ELSE IF k <= a + (c - b) THEN mmk[k + (b - a)] ELSE mmk[k - (c - b)]]

MoveEntries(mmk, index, n, d) ==
  IF d < 0 THEN Exchange(mmk, index + d, index, index + n)
           ELSE Exchange(mmk, index, index + n, index + n + d)

\* Mutant of CurAfterMove: entries that make room are taken for moved ones.
CurAfterMoveBlockOnly(cur, index, n, d) ==
  IF index <= cur /\ cur < index + n THEN cur + d ELSE cur

CurAfterMove(cur, index, n, d) ==
  IF d < 0
  THEN IF cur < index
       THEN IF cur >= index + d THEN cur + n ELSE cur
       ELSE IF cur < index + n THEN cur + d ELSE cur
  ELSE IF cur < index + n
       THEN IF cur >= index THEN cur + d ELSE cur
       ELSE IF cur < index + n + d THEN cur - n ELSE cur

\* mediamark_append_alternate_mrl on entry i
AddAlternate(mmk, i, m) == [mmk EXCEPT ![i + 1].alts = Append(@, m)]

ResetPlayed(mmk) == [k \in DOMAIN mmk |-> [mmk[k] EXCEPT !.played = FALSE]]

MarkPlayed(mmk, i) == [mmk EXCEPT ![i + 1].played = TRUE]

AllPlayed(mmk) == \A k \in DOMAIN mmk : mmk[k].played

(***************************************************************************)
(* mediamark_get_shuffle_next: the indices it may return.  It draws until  *)
(* an entry other than cur is unplayed.  `remain` starts at num and counts *)
(* the played entries drawn, but cur is never drawn: it reaches 1, not 0,  *)
(* so with nothing left to find the loop has no end.  The empty set stands *)
(* for a call that does not return.                                        *)
(***************************************************************************)
Unplayed(mmk) == {i \in 0 .. Len(mmk) - 1 : ~At(mmk, i).played}

ShuffleNext(mmk, cur) ==
  IF Len(mmk) >= 3 /\ cur >= 0 THEN Unplayed(mmk) \ {cur}
  ELSE IF Len(mmk) = 2 /\ cur = 0 THEN {1} ELSE {0}
=============================================================================
