--------------------------- MODULE PlaylistProofs ---------------------------
(***************************************************************************)
(* Theorems about Playlist, for every number of entries, every chunk size  *)
(* and every set of mrls: its state is well typed, cur is always NONE or   *)
(* the index of an entry, and a move only reorders the array.              *)
(***************************************************************************)
EXTENDS Playlist, SequenceTheorems, TLAPS

\* A function on 1 .. n into S is a sequence over S of length n.
LEMMA FunIsSeq ==
  ASSUME NEW S, NEW n \in Nat, NEW f \in [1 .. n -> S]
  PROVE  f \in Seq(S) /\ Len(f) = n
  OBVIOUS

LEMMA EmptyIsSeq == ASSUME NEW S PROVE <<>> \in Seq(S) /\ Len(<<>>) = 0
  OBVIOUS

LEMMA ConcatType ==
  ASSUME NEW S, NEW s \in Seq(S), NEW t \in Seq(S)
  PROVE  s \o t \in Seq(S) /\ Len(s \o t) = Len(s) + Len(t)
  BY ConcatProperties

LEMMA NewEntryType == ASSUME NEW m \in Mrl PROVE NewEntry(m) \in Entry
  BY EmptyIsSeq DEF NewEntry, Entry

LEMMA InsertType ==
  ASSUME NEW s \in Seq(Entry), NEW e \in Entry, NEW i \in 0 .. Len(s)
  PROVE  Insert(s, i, e) \in Seq(Entry) /\ Len(Insert(s, i, e)) = Len(s) + 1
  BY FunIsSeq DEF Insert

LEMMA RemoveType ==
  ASSUME NEW s \in Seq(Entry), NEW i \in Int, InRange(s, i)
  PROVE  Remove(s, i) \in Seq(Entry) /\ Len(Remove(s, i)) = Len(s) - 1
  BY FunIsSeq DEF Remove, InRange

LEMMA ExchangeType ==
  ASSUME NEW s \in Seq(Entry), NEW a \in Nat, NEW b \in Nat, NEW c \in Nat,
         a <= b, b <= c, c <= Len(s)
  PROVE  Exchange(s, a, b, c) \in Seq(Entry) /\ Len(Exchange(s, a, b, c)) = Len(s)
  BY FunIsSeq DEF Exchange

\* The clamps of gui_playlist_move leave a block and a way that fit the array.
LEMMA ClampedCountFits ==
  ASSUME NEW s \in Seq(Entry), NEW i \in Int, InRange(s, i), NEW n \in Nat \ {0}
  PROVE  ClampedCount(s, i, n) \in 1 .. Len(s) - i
  BY DEF ClampedCount, InRange

LEMMA ClampedDiffFits ==
  ASSUME NEW s \in Seq(Entry), NEW i \in Int, InRange(s, i),
         NEW c \in Int, 1 <= c, c <= Len(s) - i, NEW diff \in Int
  PROVE  /\ ClampedDiff(s, i, c, diff) \in Int
         /\ 0 <= i + ClampedDiff(s, i, c, diff)
         /\ i + c + ClampedDiff(s, i, c, diff) <= Len(s)
<1>1. Len(s) \in Nat /\ 0 <= i /\ i < Len(s)
  BY DEF InRange
<1>2. CASE diff < 0 /\ -diff > i
  BY <1>1, <1>2 DEF ClampedDiff
<1>3. CASE diff < 0 /\ ~(-diff > i)
  BY <1>1, <1>3 DEF ClampedDiff
<1>4. CASE ~(diff < 0) /\ diff > Len(s) - i - c
  BY <1>1, <1>4 DEF ClampedDiff
<1>5. CASE ~(diff < 0) /\ ~(diff > Len(s) - i - c)
  BY <1>1, <1>5 DEF ClampedDiff
<1> QED BY <1>2, <1>3, <1>4, <1>5

LEMMA MoveType ==
  ASSUME NEW s \in Seq(Entry), NEW i \in Nat, NEW c \in Nat, NEW d \in Int,
         0 <= i + d, i + c <= Len(s), i + c + d <= Len(s)
  PROVE  MoveEntries(s, i, c, d) \in Seq(Entry) /\ Len(MoveEntries(s, i, c, d)) = Len(s)
  BY ExchangeType DEF MoveEntries

LEMMA FillType ==
  ASSUME NEW n \in Nat, NEW S, NEW w \in S
  PROVE  Fill(n, w) \in Seq(S) /\ Len(Fill(n, w)) = n
  BY FunIsSeq DEF Fill

LEMMA RoundedBound ==
  ASSUME NEW n \in Nat PROVE Rounded(n) \in Nat /\ Rounded(n) > n
  BY PlaylistAssumption DEF Rounded

\* Rounding up leaves room for all of a file's entries.
LEMMA ExtendedType ==
  ASSUME NEW num \in Nat, NEW slots \in Seq(Slot), NEW used \in Nat
  PROVE  /\ Extended(num, slots, used) \in Seq(Slot)
         /\ Len(Extended(num, slots, used)) >= used
<1>1. CASE num + used > num + Len(slots)
  <2>0. num + used \in Nat /\ Len(slots) \in Nat
    OBVIOUS
  <2>r. Rounded(num + used) \in Nat /\ Rounded(num + used) > num + used
    BY <2>0, RoundedBound
  <2>1. Rounded(num + used) - num - Len(slots) \in Nat
    BY <1>1, <2>0, <2>r
  <2> DEFINE k == Rounded(num + used) - num - Len(slots)
  <2>2. Fill(k, "junk") \in Seq(Slot) /\ Len(Fill(k, "junk")) = k
    BY <2>1, FillType DEF Slot
  <2>3. slots \o Fill(k, "junk") \in Seq(Slot)
         /\ Len(slots \o Fill(k, "junk")) = Len(slots) + k
    BY <2>2, ConcatProperties
  <2> QED BY <1>1, <2>0, <2>1, <2>2, <2>3, <2>r DEF Extended
<1>2. CASE ~(num + used > num + Len(slots))
  BY <1>2 DEF Extended
<1> QED BY <1>1, <1>2

LEMMA NewEntriesType ==
  ASSUME NEW ms \in Seq(Mrl)
  PROVE  NewEntries(ms) \in Seq(Entry) /\ Len(NewEntries(ms)) = Len(ms)
  BY NewEntryType, FunIsSeq DEF NewEntries

LEMMA FilesType == ASSUME NEW ms \in Files
                   PROVE  ms \in Seq(Mrl) /\ Len(ms) \in Nat \ {0}
  BY PlaylistAssumption, FunIsSeq DEF Files

\* What mediamark_get_shuffle_next returns is an index of the array.
LEMMA ShuffleInside ==
  ASSUME NEW s \in Seq(Entry), s # <<>>, NEW i \in Int, NEW j \in ShuffleNext(s, i)
  PROVE  j \in Int /\ InRange(s, j)
<1>1. Len(s) \in Nat /\ Len(s) > 0
  BY EmptySeq
<1>2. CASE Len(s) >= 3 /\ i >= 0
  BY <1>1, <1>2 DEF ShuffleNext, Unplayed, InRange
<1>3. CASE ~(Len(s) >= 3 /\ i >= 0)
  BY <1>1, <1>3 DEF ShuffleNext, InRange
<1> QED BY <1>2, <1>3
-----------------------------------------------------------------------------
(***************************************************************************)
(* Type correctness and the range of cur go together: the index a shuffle  *)
(* or a move yields depends on cur, and cur is typed by what it indexes.   *)
(***************************************************************************)
IInv == TypeOK /\ CurInRange

LEMMA InitIInv == Init => IInv
  BY EmptyIsSeq DEF Init, IInv, TypeOK, CurInRange, Current, LoopMode, Fault, NONE

LEMMA SetIndexIInv ==
  ASSUME IInv, NEW index \in Indices, SetIndex(index) PROVE IInv'
<1> DEFINE real == RealIndex(mmk, cur, index)
<1>1. real \in Int /\ (real = NONE \/ InRange(mmk, real))
  BY DEF RealIndex, Resolve, Indices, CURRENT, NONE, IInv, TypeOK
<1>2. CopyOver(current, EntryOrNone(mmk, real)) \in Current
  <2>1. CASE real = NONE
    BY <2>1, EmptyIsSeq DEF EntryOrNone, NoEntry, CopyOver, Current, IInv, TypeOK
  <2>2. CASE real # NONE
    <3>1. At(mmk, real) \in Entry
      BY <1>1, <2>2 DEF At, InRange, IInv, TypeOK
    <3> QED BY <2>2, <3>1 DEF EntryOrNone, CopyOver, Current, Entry, IInv, TypeOK
  <2> QED BY <2>1, <2>2
<1> QED BY <1>1, <1>2 DEF SetIndex, IInv, TypeOK, CurInRange

LEMMA InsertEntryIInv ==
  ASSUME IInv, NEW index \in Int, NEW m \in Mrl, InsertEntry(index, m),
         refAppend' \in Int, UNCHANGED loop
  PROVE  IInv'
<1> DEFINE slots == IF spare = <<>> THEN Fill(Chunk, "null") ELSE spare
<1>1. slots \in Seq(Slot) /\ slots # <<>>
  <2>1. Fill(Chunk, "null") \in Seq(Slot) /\ Len(Fill(Chunk, "null")) = Chunk
    BY PlaylistAssumption, FillType DEF Slot
  <2> QED BY <2>1, PlaylistAssumption DEF IInv, TypeOK
<1>2. Tail(slots) \in Seq(Slot)
  BY <1>1, HeadTailProperties
<1>3. InsertIndex(mmk, index) \in 0 .. Len(mmk)
  BY DEF InsertIndex, IInv, TypeOK
<1>4. mmk' \in Seq(Entry) /\ Len(mmk') = Len(mmk) + 1
  BY <1>3, NewEntryType, InsertType DEF InsertEntry, IInv, TypeOK
<1> QED BY <1>2, <1>4 DEF InsertEntry, IInv, TypeOK, CurInRange, InRange

LEMMA MrlAlternateIInv ==
  ASSUME IInv, NEW m \in Mrl, MrlAlternate(m) PROVE IInv'
<1> DEFINE index == Resolve(cur, refAppend)
<1>1. index \in Int /\ InRange(mmk, index)
  BY DEF MrlAlternate, Resolve, IInv, TypeOK
<1>2. mmk[index + 1] \in Entry
  BY <1>1 DEF InRange, IInv, TypeOK
<1>3. [mmk[index + 1] EXCEPT !.alts = Append(@, m)] \in Entry
  BY <1>2, SMTT(30) DEF Entry
<1>4. mmk' = [mmk EXCEPT ![index + 1] = [mmk[index + 1] EXCEPT !.alts = Append(@, m)]]
  BY DEF MrlAlternate, AddAlternate
<1>5. mmk' \in Seq(Entry) /\ Len(mmk') = Len(mmk)
  <2>1. index + 1 \in 1 .. Len(mmk) /\ mmk \in Seq(Entry)
    BY <1>1 DEF InRange, IInv, TypeOK
  <2> HIDE DEF index
  <2> QED BY <2>1, <1>3, <1>4, ExceptSeq
<1> QED BY <1>5 DEF MrlAlternate, IInv, TypeOK, CurInRange, InRange

\* The entry that is current before a move is an entry after it.
LEMMA CurAfterMoveInside ==
  ASSUME NEW L \in Nat, NEW k \in Int, NEW i \in Nat, NEW c \in Nat, NEW d \in Int,
         0 <= i + d, i + c <= L, i + c + d <= L
  PROVE  /\ k = NONE => CurAfterMove(k, i, c, d) = NONE
         /\ 0 <= k /\ k < L
              => /\ CurAfterMove(k, i, c, d) \in Int
                 /\ 0 <= CurAfterMove(k, i, c, d) /\ CurAfterMove(k, i, c, d) < L
<1>1. CASE d < 0
  BY <1>1 DEF CurAfterMove, NONE
<1>2. CASE d >= 0
  BY <1>2 DEF CurAfterMove, NONE
<1> QED BY <1>1, <1>2

LEMMA MoveIInv ==
  ASSUME IInv, NEW index \in Indices, NEW n \in Nat \ {0}, NEW diff \in Int,
         Move(index, n, diff)
  PROVE  IInv'
<1> DEFINE i == Resolve(cur, index)
           c == ClampedCount(mmk, i, n)
           d == ClampedDiff(mmk, i, c, diff)
<1>1. i \in Int /\ InRange(mmk, i) /\ i \in Nat /\ Len(mmk) \in Nat
  BY DEF Move, Resolve, Indices, CURRENT, InRange, IInv, TypeOK
<1>2. c \in 1 .. Len(mmk) - i
  BY <1>1, ClampedCountFits DEF IInv, TypeOK
<1>3. d \in Int /\ 0 <= i + d /\ i + c + d <= Len(mmk)
  BY <1>1, <1>2, ClampedDiffFits DEF IInv, TypeOK
<1>4. mmk' = MoveEntries(mmk, i, c, d) /\ cur' = CurAfterMove(cur, i, c, d)
  BY DEF Move
<1>5. c \in Nat /\ i + c <= Len(mmk)
  BY <1>1, <1>2
<1> HIDE DEF i, c, d
<1>6. mmk' \in Seq(Entry) /\ Len(mmk') = Len(mmk)
  BY <1>1, <1>3, <1>4, <1>5, MoveType DEF IInv, TypeOK
<1>7. cur' \in Int /\ (cur' = NONE \/ InRange(mmk', cur'))
  <2>1. cur \in Int /\ (cur = NONE \/ (0 <= cur /\ cur < Len(mmk)))
    BY DEF IInv, TypeOK, CurInRange, InRange
  <2>2. CASE cur = NONE
    BY <1>1, <1>3, <1>4, <1>5, <2>2, CurAfterMoveInside, SMTT(30) DEF NONE
  <2>3. CASE cur # NONE
    <3>1. /\ CurAfterMove(cur, i, c, d) \in Int
          /\ 0 <= CurAfterMove(cur, i, c, d)
          /\ CurAfterMove(cur, i, c, d) < Len(mmk)
      BY <1>1, <1>3, <1>5, <2>1, <2>3, CurAfterMoveInside
    <3> QED BY <1>4, <1>6, <3>1 DEF InRange
  <2> QED BY <2>2, <2>3
<1> QED BY <1>6, <1>7 DEF Move, IInv, TypeOK, CurInRange

LEMMA RemoveEntryIInv ==
  ASSUME IInv, NEW index \in Indices, RemoveEntry(index) PROVE IInv'
<1> DEFINE i == Resolve(cur, index)
<1>1. i \in Int /\ InRange(mmk, i)
  BY DEF RemoveEntry, Resolve, Indices, CURRENT, IInv, TypeOK
<1>2. mmk' \in Seq(Entry) /\ Len(mmk') = Len(mmk) - 1
  BY <1>1, RemoveType DEF RemoveEntry, IInv, TypeOK
<1>3. <<"null">> \o spare \in Seq(Slot)
  BY ConcatProperties DEF Slot, IInv, TypeOK
<1>4. cur' \in Int /\ (cur' = NONE \/ InRange(mmk', cur'))
  BY <1>2 DEF RemoveEntry, CurAfterRemove, IInv, TypeOK, CurInRange, InRange, NONE
<1> QED BY <1>2, <1>3, <1>4 DEF RemoveEntry, IInv, TypeOK, CurInRange

\* gui_eject: the rest is a playlist, and its new index names an entry or none.
LEMMA EjectedIInv ==
  ASSUME IInv, NEW kept \in Seq(Entry), Len(kept) <= Len(mmk),
         NEW index \in Int, index = NONE \/ InRange(kept, index),
         Ejected(kept, index)
  PROVE  IInv'
<1>1. CopyOver(current, EntryOrNone(kept, index)) \in Current
  <2>1. CASE index = NONE
    BY <2>1, EmptyIsSeq DEF EntryOrNone, NoEntry, CopyOver, Current, IInv, TypeOK
  <2>2. CASE index # NONE
    <3>1. At(kept, index) \in Entry
      BY <2>2 DEF At, InRange
    <3> QED BY <2>2, <3>1 DEF EntryOrNone, CopyOver, Current, Entry, IInv, TypeOK
  <2> QED BY <2>1, <2>2
<1>2. Len(mmk) - Len(kept) \in Nat
  BY DEF IInv, TypeOK
<1>3. Fill(Len(mmk) - Len(kept), "null") \o spare \in Seq(Slot)
  BY <1>2, FillType, ConcatProperties DEF Slot, IInv, TypeOK
<1> QED BY <1>1, <1>2, <1>3 DEF Ejected, IInv, TypeOK, CurInRange

LEMMA EjectIInv == ASSUME IInv, EjectEntry \/ EjectDisc \/ EjectNone PROVE IInv'
<1>1. CASE EjectEntry
  <2>1. cur \in Int /\ InRange(mmk, cur)
    BY <1>1 DEF EjectEntry, IInv, TypeOK
  <2>2. /\ Remove(mmk, cur) \in Seq(Entry)
        /\ Len(Remove(mmk, cur)) = Len(mmk) - 1
    BY <2>1, RemoveType DEF IInv, TypeOK
  <2>3. CurAfterRemove(mmk, cur) \in Int
    BY <2>1 DEF CurAfterRemove, NONE
  <2>4. \/ CurAfterRemove(mmk, cur) = NONE
        \/ InRange(Remove(mmk, cur), CurAfterRemove(mmk, cur))
    BY <2>1, <2>2 DEF CurAfterRemove, InRange, IInv, TypeOK
  <2> QED BY <1>1, <2>2, <2>3, <2>4, EjectedIInv DEF EjectEntry, IInv, TypeOK
<1>2. CASE EjectDisc
  <2>1. PICK pick \in Picks :
          Ejected([k \in DOMAIN pick |-> mmk[pick[k]]], IF pick = <<>> THEN NONE ELSE 0)
    BY <1>2 DEF EjectDisc
  <2>2. PICK n \in 0 .. Len(mmk) : pick \in [1 .. n -> DOMAIN mmk]
    BY DEF Picks
  <2>3. mmk \in Seq(Entry) /\ Len(mmk) \in Nat /\ DOMAIN mmk = 1 .. Len(mmk)
    BY DEF IInv, TypeOK
  <2> DEFINE kept  == [k \in DOMAIN pick |-> mmk[pick[k]]]
             index == IF pick = <<>> THEN NONE ELSE 0
  <2>4. kept \in [1 .. n -> Entry]
    BY <2>2, <2>3
  <2>5. kept \in Seq(Entry) /\ Len(kept) = n
    BY <2>2, <2>4, FunIsSeq
  <2>6. index \in Int /\ (index = NONE \/ InRange(kept, index))
    <3>1. CASE n = 0
      BY <2>2, <3>1 DEF NONE
    <3>2. CASE n > 0
      BY <2>2, <2>5, <3>2 DEF InRange, NONE
    <3> QED BY <2>2, <3>1, <3>2
  <2> HIDE DEF kept, index
  <2>7. Len(kept) <= Len(mmk)
    BY <2>2, <2>3, <2>5
  <2>8. Ejected(kept, index)
    BY <2>1 DEF kept, index
  <2> QED BY <2>5, <2>6, <2>7, <2>8, EjectedIInv
<1>3. CASE EjectNone
  BY <1>3 DEF EjectNone, Fault, IInv, TypeOK, CurInRange
<1> QED BY <1>1, <1>2, <1>3

LEMMA LoadPlaylistIInv ==
  ASSUME IInv, NEW ms \in Files, LoadPlaylist(ms) PROVE IInv'
<1> DEFINE slots == Extended(Len(mmk), spare, Len(ms))
<1>1. ms \in Seq(Mrl) /\ Len(ms) \in Nat \ {0}
  BY FilesType
<1>2. slots \in Seq(Slot) /\ Len(slots) >= Len(ms)
  BY <1>1, ExtendedType DEF IInv, TypeOK
<1>3. NewEntries(ms) \in Seq(Entry) /\ Len(NewEntries(ms)) = Len(ms)
  BY <1>1, NewEntriesType
<1>4. mmk' \in Seq(Entry) /\ Len(mmk') = Len(mmk) + Len(ms)
  <2>1. mmk' = mmk \o NewEntries(ms) /\ mmk \in Seq(Entry)
    BY DEF LoadPlaylist, IInv, TypeOK
  <2>2. /\ mmk \o NewEntries(ms) \in Seq(Entry)
        /\ Len(mmk \o NewEntries(ms)) = Len(mmk) + Len(NewEntries(ms))
    BY <1>3, <2>1, ConcatType
  <2> QED BY <1>3, <2>1, <2>2
<1>5. spare' \in Seq(Slot)
  <2> HIDE DEF slots
  <2>1. SubSeq(slots, Len(ms) + 1, Len(slots)) \in Seq(Slot)
    BY <1>1, <1>2, SubSeqProperties
  <2> QED BY <2>1 DEF LoadPlaylist, slots
<1>6. cur' \in Int /\ InRange(mmk', cur')
  BY <1>1, <1>4 DEF LoadPlaylist, IInv, TypeOK, CurInRange, InRange, NONE
<1> QED BY <1>1, <1>4, <1>5, <1>6 DEF LoadPlaylist, IInv, TypeOK, CurInRange

LEMMA ReplacePlaylistIInv ==
  ASSUME IInv, NEW ms \in Files, NEW guess \in GuessKinds, ReplacePlaylist(ms, guess)
  PROVE  IInv'
<1> DEFINE old == [k \in 1 .. Len(mmk) + Len(spare) |->
                     IF mmk # <<>> /\ k = guess + 1 THEN "null"
                     ELSE IF k <= Len(mmk) THEN "stale" ELSE spare[k - Len(mmk)]]
           slots == Extended(0, old, Len(ms))
<1>1. ms \in Seq(Mrl) /\ Len(ms) \in Nat \ {0}
  BY FilesType
<1>2. old \in Seq(Slot)
  <2>1. Len(mmk) + Len(spare) \in Nat
    BY DEF IInv, TypeOK
  <2>2. old \in [1 .. Len(mmk) + Len(spare) -> Slot]
    BY DEF Slot, IInv, TypeOK
  <2> QED BY <2>1, <2>2, FunIsSeq
<1>3. slots \in Seq(Slot) /\ Len(slots) >= Len(ms)
  <2> HIDE DEF old
  <2> QED BY <1>1, <1>2, ExtendedType
<1>4. mmk' \in Seq(Entry) /\ Len(mmk') = Len(ms)
  BY <1>1, NewEntriesType DEF ReplacePlaylist
<1>5. spare' \in Seq(Slot)
  <2>1. spare' = SubSeq(slots, Len(ms) + 1, Len(slots))
    BY DEF ReplacePlaylist
  <2> HIDE DEF slots
  <2> QED BY <1>1, <1>3, <2>1, SubSeqProperties
<1>6. cur' \in Int /\ InRange(mmk', cur')
  <2>1. mmk' # <<>>
    BY <1>1, <1>4
  <2>2. CASE loop = "shuffle"
    BY <1>4, <2>1, <2>2, ShuffleInside DEF ReplacePlaylist, IInv, TypeOK
  <2>3. CASE loop # "shuffle"
    BY <1>1, <1>4, <2>3 DEF ReplacePlaylist, InRange
  <2> QED BY <2>2, <2>3
<1>7. live' \in Int /\ fault' \in Fault
  BY <1>1 DEF ReplacePlaylist, Fault, IInv, TypeOK
<1> QED BY <1>4, <1>5, <1>6, <1>7 DEF ReplacePlaylist, IInv, TypeOK, CurInRange

LEMMA NextIInv == IInv /\ [Next]_vars => IInv'
<1> SUFFICES ASSUME IInv, [Next]_vars PROVE IInv'
  OBVIOUS
<1>1. ASSUME NEW i \in Indices, SetIndex(i) \/ RemoveEntry(i) PROVE IInv'
  BY <1>1, SetIndexIInv, RemoveEntryIInv
<1>2. ASSUME NEW m \in Mrl, Append1(m) PROVE IInv'
  BY <1>2, InsertEntryIInv DEF Append1, InsertEntry, IInv, TypeOK
<1>3. ASSUME NEW m \in Mrl, MrlReference(m) PROVE IInv'
  BY <1>3, InsertEntryIInv DEF MrlReference, InsertEntry, IInv, TypeOK
<1>4. ASSUME NEW m \in Mrl, MrlAlternate(m) PROVE IInv'
  BY <1>4, MrlAlternateIInv
<1>5. ASSUME NEW i \in Indices, NEW diff \in {-1, 1}, Move(i, 1, diff) PROVE IInv'
  BY <1>5, MoveIInv
<1>6. CASE FreeAll
  BY <1>6, EmptyIsSeq DEF FreeAll, IInv, TypeOK, CurInRange, NONE
<1>7. ASSUME NEW ms \in Files, LoadPlaylist(ms) PROVE IInv'
  BY <1>7, LoadPlaylistIInv
<1>8. ASSUME NEW ms \in Files, NEW g \in GuessKinds, ReplacePlaylist(ms, g) PROVE IInv'
  BY <1>8, ReplacePlaylistIInv
<1>9. ASSUME NEW mode \in Modes, LoopModeSet(mode) PROVE IInv'
  BY <1>9 DEF LoopModeSet, LoopMode, IInv, TypeOK, CurInRange, InRange
<1>10. CASE UNCHANGED vars
  BY <1>10 DEF vars, IInv, TypeOK, CurInRange, InRange
<1>11. CASE EjectEntry \/ EjectDisc \/ EjectNone
  BY <1>11, EjectIInv
<1> QED BY <1>1, <1>2, <1>3, <1>4, <1>5, <1>6, <1>7, <1>8, <1>9, <1>10, <1>11
     DEF Next

\* The callers keep the inductive invariant, in any order.
THEOREM Inductive == Spec => []IInv
  BY InitIInv, NextIInv, PTL DEF Spec

(***************************************************************************)
(* The array, gui->mmk and the loop mode keep their types, whatever is     *)
(* appended, inserted, moved, loaded or freed.                             *)
(***************************************************************************)
THEOREM TypeCorrect == Spec => []TypeOK
<1>1. IInv => TypeOK
  BY DEF IInv
<1> QED
  BY <1>1, Inductive, PTL

(***************************************************************************)
(* Whatever the callers do, in any order, playlist.cur names an entry that *)
(* is set or is GUI_MMK_NONE.                                              *)
(***************************************************************************)
THEOREM PlaylistSafe == Spec => []CurInRange
<1>1. IInv => CurInRange
  BY DEF IInv
<1> QED
  BY <1>1, Inductive, PTL

-----------------------------------------------------------------------------
\* Moving up: the block i .. i + c - 1 changes places with the -d entries before it.
LEMMA MoveUp ==
  ASSUME NEW s \in Seq(Entry), NEW i \in Nat, NEW c \in Nat, NEW d \in Int,
         d < 0, 0 <= i + d, i + c <= Len(s)
  PROVE  LET new == MoveEntries(s, i, c, d)
         IN  /\ BlockAt(new, i + d, c) = BlockAt(s, i, c)
             /\ AllBut(new, i + d, c) = AllBut(s, i, c)
             /\ \A k \in 0 .. Len(s) - 1 :
                  At(new, CurAfterMove(k, i, c, d)) = At(s, k)
<1> DEFINE new == MoveEntries(s, i, c, d)
           L == Len(s)
<1>1. L \in Nat
  OBVIOUS
<1>2. new = [k \in 1 .. L |-> IF k <= i + d \/ k > i + c THEN s[k]
                              ELSE IF k <= i + d + c THEN s[k - d] ELSE s[k - c]]
  BY DEF MoveEntries, Exchange
<1>3. Len(new) = L
  BY <1>1, <1>2
<1> HIDE DEF new, L
<1>4. BlockAt(new, i + d, c) = BlockAt(s, i, c)
  BY <1>1, <1>2 DEF BlockAt, L
<1>5. AllBut(new, i + d, c) = AllBut(s, i, c)
  BY <1>1, <1>2, <1>3 DEF AllBut, L
<1>6. \A k \in 0 .. L - 1 : At(new, CurAfterMove(k, i, c, d)) = At(s, k)
  BY <1>1, <1>2 DEF At, CurAfterMove, L
<1> QED BY <1>4, <1>5, <1>6 DEF new, L

\* Moving down: it changes places with the d entries behind it.
LEMMA MoveDown ==
  ASSUME NEW s \in Seq(Entry), NEW i \in Nat, NEW c \in Nat, NEW d \in Nat,
         i + c + d <= Len(s)
  PROVE  LET new == MoveEntries(s, i, c, d)
         IN  /\ BlockAt(new, i + d, c) = BlockAt(s, i, c)
             /\ AllBut(new, i + d, c) = AllBut(s, i, c)
             /\ \A k \in 0 .. Len(s) - 1 :
                  At(new, CurAfterMove(k, i, c, d)) = At(s, k)
<1> DEFINE new == MoveEntries(s, i, c, d)
           L == Len(s)
<1>1. L \in Nat
  OBVIOUS
<1>2. new = [k \in 1 .. L |-> IF k <= i \/ k > i + c + d THEN s[k]
                              ELSE IF k <= i + d THEN s[k + c] ELSE s[k - d]]
  BY DEF MoveEntries, Exchange
<1>3. Len(new) = L
  BY <1>1, <1>2
<1> HIDE DEF new, L
<1>4. BlockAt(new, i + d, c) = BlockAt(s, i, c)
  BY <1>1, <1>2 DEF BlockAt, L
<1>5. AllBut(new, i + d, c) = AllBut(s, i, c)
  BY <1>1, <1>2, <1>3 DEF AllBut, L
<1>6. \A k \in 0 .. L - 1 : At(new, CurAfterMove(k, i, c, d)) = At(s, k)
  BY <1>1, <1>2 DEF At, CurAfterMove, L
<1> QED BY <1>4, <1>5, <1>6 DEF new, L

LEMMA MoveIsReorder ==
  ASSUME IInv, NEW i \in 0 .. Len(mmk) - 1, NEW c \in Nat, NEW d \in Int,
         0 <= i + d, i + c <= Len(mmk), i + c + d <= Len(mmk)
  PROVE  /\ MovedWhole(MoveEntries(mmk, i, c, d), i, c, i + d)
         /\ SameCurrent(MoveEntries(mmk, i, c, d), CurAfterMove(cur, i, c, d))
<1> DEFINE new == MoveEntries(mmk, i, c, d)
<1>1. mmk \in Seq(Entry) /\ Len(mmk) \in Nat /\ i \in Nat
  BY DEF IInv, TypeOK
<1>2. cur = NONE \/ cur \in 0 .. Len(mmk) - 1
  BY DEF IInv, TypeOK, CurInRange, InRange
<1>3. Len(new) = Len(mmk)
  BY <1>1, MoveType
<1>4. /\ BlockAt(new, i + d, c) = BlockAt(mmk, i, c)
      /\ AllBut(new, i + d, c) = AllBut(mmk, i, c)
      /\ \A k \in 0 .. Len(mmk) - 1 : At(new, CurAfterMove(k, i, c, d)) = At(mmk, k)
  <2>1. CASE d < 0
    BY <1>1, <2>1, MoveUp
  <2>2. CASE d >= 0
    BY <1>1, <2>2, MoveDown
  <2> QED BY <2>1, <2>2
<1> HIDE DEF new
<1>5. SameCurrent(new, CurAfterMove(cur, i, c, d))
  <2>1. CASE cur = NONE
    BY <1>1, <2>1, CurAfterMoveInside DEF SameCurrent, NONE
  <2>2. CASE cur \in 0 .. Len(mmk) - 1
    <3>1. /\ CurAfterMove(cur, i, c, d) \in Int
          /\ 0 <= CurAfterMove(cur, i, c, d)
          /\ CurAfterMove(cur, i, c, d) < Len(mmk)
      <4>1. cur \in Int /\ 0 <= cur /\ cur < Len(mmk)
        BY <1>1, <2>2
      <4>2. 0 <= i + d /\ i + c <= Len(mmk) /\ i + c + d <= Len(mmk)
        OBVIOUS
      <4> QED BY <1>1, <4>1, <4>2, CurAfterMoveInside
    <3>2. InRange(new, CurAfterMove(cur, i, c, d))
      BY <1>3, <3>1 DEF InRange
    <3> QED BY <1>4, <2>2, <3>2 DEF SameCurrent, NONE
  <2> QED BY <1>2, <2>1, <2>2
<1> QED BY <1>4, <1>5 DEF MovedWhole, new

(***************************************************************************)
(* gui_playlist_move keeps its contract in every reachable state: the      *)
(* block is at the index it returns, nothing is lost or reordered beside   *)
(* it, and the current entry stays current.                                *)
(***************************************************************************)
THEOREM MoveCorrect == Spec => []MoveContract
<1>1. IInv => MoveContract
  <2> SUFFICES ASSUME IInv, NEW i \in 0 .. Len(mmk) - 1,
                      NEW c \in Counts(i), NEW d \in Ways(i, c)
               PROVE  /\ MovedWhole(MoveEntries(mmk, i, c, d), i, c, i + d)
                      /\ SameCurrent(MoveEntries(mmk, i, c, d),
                                     CurAfterMove(cur, i, c, d))
    BY DEF MoveContract
  <2>1. mmk \in Seq(Entry) /\ InRange(mmk, i) /\ i \in Int
    BY DEF InRange, IInv, TypeOK
  <2>2. c \in 1 .. Len(mmk) - i
    <3>1. PICK n \in 1 .. MaxEntries : c = ClampedCount(mmk, i, n)
      BY DEF Counts
    <3> QED BY <2>1, <3>1, PlaylistAssumption, ClampedCountFits, SMTT(30)
  <2>3. c \in Nat /\ 1 <= c /\ i + c <= Len(mmk)
    BY <2>1, <2>2
  <2>4. d \in Int /\ 0 <= i + d /\ i + c + d <= Len(mmk)
    <3>1. PICK diff \in -MaxEntries .. MaxEntries : d = ClampedDiff(mmk, i, c, diff)
      BY DEF Ways
    <3>2. diff \in Int
      BY PlaylistAssumption
    <3> QED BY <2>1, <2>2, <2>3, <3>1, <3>2, ClampedDiffFits
  <2> QED BY <2>3, <2>4, MoveIsReorder
<1> QED BY <1>1, InitIInv, NextIInv, PTL DEF Spec
=============================================================================
