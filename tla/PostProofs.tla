----------------------------- MODULE PostProofs -----------------------------
(***************************************************************************)
(* What holds of chains of any length, however often they are edited.      *)
(***************************************************************************)
EXTENDS Post, SequenceTheorems, FiniteSetTheorems, NaturalsInduction,
        WellFoundedInduction, TLAPS

\* The posts of a pool.
Of(pool) == {pool} \X (Nat \ {0})

(***************************************************************************)
(* The settings and the stream.                                            *)
(***************************************************************************)
Settled ==
  /\ phase \in {"run", "closing", "closed", "forgotten", "done"}
  /\ open \in [Kind -> BOOLEAN] /\ first \in [Kind -> Nat]
  /\ enable \in [Kind -> BOOLEAN] /\ deinterlace \in BOOLEAN /\ oldMethod \in BOOLEAN
  /\ ignore \in BOOLEAN /\ enabled \in Off .. StreamAnim /\ running \in No .. Hidden
  /\ anim \in BOOLEAN /\ ended \in BOOLEAN
  /\ hasVideo \in BOOLEAN /\ playing \in BOOLEAN /\ shown \in BOOLEAN
  /\ edits \in 0 .. MaxEdits
  /\ phase \in {"closed", "forgotten", "done"} => \A k \in Kind : ~open[k]

(***************************************************************************)
(* The chains: posts of their own pool, each once; and what a window shows *)
(* of its chain is the chain, with a "No filter" below it.                 *)
(***************************************************************************)
Chained ==
  /\ slots \in [Kind -> Seq(Posts \cup {NoPost})] /\ elements \in [Kind -> Seq(Posts)]
  /\ \A k \in Kind : /\ elements[k] \in Seq(Of(k)) /\ IsInjective(elements[k])
                     /\ Len(elements[k]) <= MaxSlots
  /\ deint \in Seq(Of("deint")) /\ Len(deint) <= 1
  /\ visual \in Of("visual") \cup {NoPost}
  /\ phase \in {"forgotten", "done"} => visual = NoPost
  /\ phase = "done" => deint = <<>> /\ \A k \in Kind : elements[k] = <<>>

Window(k) ==
  IF ~open[k] THEN slots[k] = <<>>
  ELSE /\ \/ elements[k] # <<>> /\ slots[k] = elements[k]
          \/ slots[k] = Append(elements[k], NoPost)
       /\ Len(slots[k]) <= MaxSlots
       /\ first[k] <= LastFirst(Len(slots[k]))

Windows == \A k \in Kind : Window(k)

(***************************************************************************)
(* Nothing leaks, and nothing is used after it was disposed.               *)
(***************************************************************************)
Kept ==
  Range(elements["audio"]) \cup Range(elements["video"]) \cup Range(deint)
    \cup ({visual} \ {NoPost})

Living == live = Kept /\ live \subseteq Posts /\ IsFiniteSet(live)

(***************************************************************************)
(* When the visualization is there, and what may be: no other settings     *)
(* keep VisualFits.                                                        *)
(***************************************************************************)
Fitting ==
  phase = "run" => /\ VisualFits
                   /\ enabled = Off => running # Yes
                   /\ Visualizes /\ playing => ~hasVideo

(***************************************************************************)
(* The wires, and those that are left when the program ends.               *)
(***************************************************************************)
VideoWires ==
  phase # "done" =>
    wired["video"] = JoinVideo(elements["video"], enable["video"], deint, deinterlace)

AudioWires ==
  /\ phase = "run" =>
       wired["audio"] = JoinAudio(elements["audio"], enable["audio"], ignore, visual)
  /\ \A p \in Range(wired["audio"]) :
       \/ enable["audio"] /\ phase # "done" /\ p \in Range(elements["audio"])
       \/ p = visual /\ p # NoPost
       \/ p[1] = "visual" /\ visual = NoPost

Wiring ==
  /\ wired \in [Kind -> Seq(Posts)] /\ VideoWires /\ AudioWires
  /\ phase = "done" => wired["video"] = <<>>

IInv == Settled /\ Chained /\ Windows /\ Living /\ Fitting /\ Wiring

-----------------------------------------------------------------------------
(* Posts and sequences of them. *)
LEMMA Pools ==
  /\ \A pool \in Pool : Of(pool) \subseteq Posts
  /\ NoPost \notin Posts
  /\ \A p, q \in Pool : p # q => Of(p) \cap Of(q) = {}
  /\ \A x \in Of("visual") : x[1] = "visual"
  /\ Kind \subseteq Pool /\ "deint" \in Pool /\ "visual" \in Pool
  /\ "deint" \notin Kind /\ "visual" \notin Kind
BY DEF Of, Posts, NoPost, Pool, Kind

\* The least element of a set of natural numbers.
LEMMA LeastNatural ==
  ASSUME NEW T, T \subseteq Nat, T # {}
  PROVE  \E m \in T : \A n \in T : m <= n
<1> DEFINE R == OpToRel(<, Nat)
<1>1. \A m, n \in Nat : <<m, n>> \in R <=> m < n
  BY DEF OpToRel
<1>2. IsWellFoundedOn(R, Nat)
  BY NatLessThanWellFounded
<1> HIDE DEF R
<1>3. PICK m \in T : \A n \in T : ~(<<n, m>> \in R)
  BY <1>2, WFMin
<1>4. ASSUME NEW n \in T PROVE m <= n
  <2>1. m \in Nat /\ n \in Nat
    OBVIOUS
  <2>2. ~(n < m)
    BY <1>1, <1>3, <2>1
  <2> QED
    BY <2>1, <2>2
<1> QED
  BY <1>4

LEMMA FreshPost ==
  ASSUME Living, NEW pool \in Pool
  PROVE  Fresh(pool) \in Of(pool) /\ Fresh(pool) \notin live
<1> DEFINE N == Cardinality(live) + 1
           S == {i \in 1 .. N : <<pool, i>> \notin live}
<1>1. Cardinality(live) \in Nat /\ IsFiniteSet(live)
  BY FS_CardinalityType DEF Living
<1>2. S # {}
  <2>1. SUFFICES ASSUME \A i \in 1 .. N : <<pool, i>> \in live PROVE FALSE
    OBVIOUS
  <2> DEFINE f == [i \in 1 .. N |-> <<pool, i>>]
  <2>2. f \in Injection(1 .. N, live)
    BY <2>1 DEF Injection, IsInjective
  <2>3. IsFiniteSet(1 .. N) /\ Cardinality(1 .. N) = N
    <3>1. 1 \in Int /\ N \in Int /\ ~(1 > N) /\ N - 1 + 1 = N
      BY <1>1
    <3> HIDE DEF N
    <3> QED
      BY <3>1, FS_Interval
  <2>4. Cardinality(1 .. N) <= Cardinality(live)
    BY <1>1, <2>2, FS_Injection
  <2> QED
    BY <1>1, <2>3, <2>4
<1>3. S \in SUBSET Nat
  BY <1>1
<1>4. PICK n \in S : \A m \in S : n <= m
  BY <1>2, <1>3, LeastNatural
<1>5. n \in 1 .. N /\ <<pool, n>> \notin live /\ \A j \in 1 .. n - 1 : <<pool, j>> \in live
  BY <1>1, <1>4
<1> DEFINE Free(i) == <<pool, i>> \notin live /\ \A j \in 1 .. i - 1 : <<pool, j>> \in live
<1>6. Fresh(pool) = <<pool, CHOOSE i \in 1 .. N : Free(i)>>
  BY DEF Fresh
<1>7. \E i \in 1 .. N : Free(i)
  BY <1>5
<1> HIDE DEF Free
<1>8. (CHOOSE i \in 1 .. N : Free(i)) \in 1 .. N /\ Free(CHOOSE i \in 1 .. N : Free(i))
  BY <1>7
<1>9. PICK c : c = (CHOOSE i \in 1 .. N : Free(i))
  OBVIOUS
<1> QED
  BY <1>1, <1>6, <1>8, <1>9, SMTT(30) DEF Of, Free

\* A chain with a "No filter" below it.
LEMMA WithNone ==
  ASSUME NEW S, NEW s \in Seq(S), NEW e
  PROVE  /\ Append(s, e) # <<>> /\ Len(Append(s, e)) = Len(s) + 1
         /\ Last(Append(s, e)) = e /\ Front(Append(s, e)) = s
<1>1. s \in Seq(S \cup {e}) /\ e \in S \cup {e}
  BY SeqMonotonic
<1>2. Append(s, e) # <<>> /\ Len(Append(s, e)) = Len(s) + 1 /\ Append(s, e)[Len(s) + 1] = e
  BY <1>1
<1>3. SubSeq(Append(s, e), 1, Len(s)) = s
  BY <1>1, AppendProperties, SubSeqProperties
<1> QED
  BY <1>1, <1>2, <1>3 DEF Last, Front

\* What a window saves is its chain.
LEMMA Saved ==
  ASSUME IInv, NEW k \in Kind
  PROVE  SaveChain(k) = elements[k]
<1>0. elements[k] \in Seq(Of(k)) /\ Window(k)
  BY Pools DEF IInv, Chained, Windows
<1>1. CASE ~open[k]
  BY <1>1 DEF SaveChain
<1>2. CASE open[k] /\ elements[k] # <<>> /\ slots[k] = elements[k]
  <2>1. Last(slots[k]) \in Of(k)
    BY <1>0, <1>2 DEF Last
  <2>2. Last(slots[k]) # NoPost
    BY <2>1, Pools
  <2> QED
    BY <1>2, <2>2 DEF SaveChain
<1>3. CASE open[k] /\ slots[k] = Append(elements[k], NoPost)
  BY <1>0, <1>3, WithNone DEF SaveChain
<1> QED
  BY <1>0, <1>1, <1>2, <1>3 DEF Window

LEMMA VideoJoined ==
  ASSUME NEW e \in Seq(Posts), NEW d \in Seq(Posts), NEW on, NEW b
  PROVE  /\ Rewire(Unwired, JoinVideo(e, on, d, b)) = JoinVideo(e, on, d, b)
         /\ JoinVideo(e, on, d, b) \in Seq(Posts)
         /\ Range(JoinVideo(e, on, d, b)) \subseteq Range(e) \cup Range(d)
<1>1. <<>> \in Seq(Posts) /\ Range(<<>>) = {} /\ \A s \in Seq(Posts) : <<>> \o s = s
  BY ConcatEmptySeq DEF Range
<1> DEFINE l == IF b THEN d ELSE <<>>
           r == IF on THEN e ELSE <<>>
<1>2. JoinVideo(e, on, d, b) = l \o r
  BY DEF JoinVideo
<1>3. l \in Seq(Posts) /\ r \in Seq(Posts) /\ Range(l) \subseteq Range(d) /\ Range(r) \subseteq Range(e)
  BY <1>1
<1> HIDE DEF l, r
<1>4. l \o r \in Seq(Posts) /\ Range(l \o r) = Range(l) \cup Range(r)
  BY <1>3, ConcatProperties, RangeConcatenation
<1> QED
  BY <1>2, <1>3, <1>4 DEF Rewire, Unwired

LEMMA AudioJoined ==
  ASSUME NEW e \in Seq(Posts), NEW on, NEW ign, NEW v,
         ign \/ v \in Posts
  PROVE  /\ Rewire(Unwired, JoinAudio(e, on, ign, v)) = JoinAudio(e, on, ign, v)
         /\ JoinAudio(e, on, ign, v) \in Seq(Posts)
         /\ \A p \in Range(JoinAudio(e, on, ign, v)) : (on /\ p \in Range(e)) \/ (~ign /\ p = v)
<1>1. <<>> \in Seq(Posts) /\ Range(<<>>) = {} /\ \A s \in Seq(Posts) : s \o <<>> = s
  BY ConcatEmptySeq DEF Range
<1> DEFINE l == IF on THEN e ELSE <<>>
           r == IF ign THEN <<>> ELSE <<v>>
<1>2. JoinAudio(e, on, ign, v) = l \o r
  BY DEF JoinAudio
<1>3. /\ l \in Seq(Posts) /\ r \in Seq(Posts) /\ \A p \in Range(l) : on /\ p \in Range(e)
      /\ \A p \in Range(r) : ~ign /\ p = v
  <2>1. Range(<<v>>) = {v}
    BY DEF Range
  <2>2. ~ign => <<v>> \in Seq(Posts)
    OBVIOUS
  <2> QED
    BY <1>1, <2>1, <2>2
<1> HIDE DEF l, r
<1>4. l \o r \in Seq(Posts) /\ Range(l \o r) = Range(l) \cup Range(r)
  BY <1>3, ConcatProperties, RangeConcatenation
<1> QED
  BY <1>2, <1>3, <1>4 DEF Rewire, Unwired

\* Saving changes nothing, and a chain is a sequence of posts.
LEMMA Chains ==
  ASSUME IInv
  PROVE  /\ \A k \in Kind : [elements EXCEPT ![k] = SaveChain(k)] = elements
         /\ elements["audio"] \in Seq(Posts) /\ elements["video"] \in Seq(Posts)
         /\ deint \in Seq(Posts)
<1>1. elements \in [Kind -> Seq(Posts)] /\ "audio" \in Kind /\ "video" \in Kind
  BY DEF IInv, Chained, Kind
<1>2. \A k \in Kind : SaveChain(k) = elements[k]
  BY Saved
<1>3. deint \in Seq(Posts)
  <2>1. deint \in Seq(Of("deint")) /\ Of("deint") \subseteq Posts
    BY Pools DEF IInv, Chained
  <2> QED
    BY <2>1, SeqMonotonic
<1> QED
  BY <1>1, <1>2, <1>3

LEMMA VideoWired ==
  ASSUME wired \in [Kind -> Seq(Posts)], NEW e \in Seq(Posts), NEW on,
         NEW d \in Seq(Posts), NEW b, WireVideo(e, on, d, b)
  PROVE  /\ wired' \in [Kind -> Seq(Posts)] /\ wired'["video"] = JoinVideo(e, on, d, b)
         /\ wired'["audio"] = wired["audio"]
<1>1. /\ Rewire(Unwired, JoinVideo(e, on, d, b)) = JoinVideo(e, on, d, b)
      /\ JoinVideo(e, on, d, b) \in Seq(Posts)
  BY VideoJoined
<1> QED
  BY <1>1 DEF WireVideo, Kind

LEMMA AudioWired ==
  ASSUME wired \in [Kind -> Seq(Posts)], NEW e \in Seq(Posts), NEW on,
         NEW ign, NEW v, ign \/ v \in Posts, WireAudio(e, on, ign, v)
  PROVE  /\ wired' \in [Kind -> Seq(Posts)] /\ wired'["audio"] = JoinAudio(e, on, ign, v)
         /\ wired'["video"] = wired["video"]
         /\ \A p \in Range(wired'["audio"]) : (on /\ p \in Range(e)) \/ (~ign /\ p = v)
<1>1. /\ Rewire(Unwired, JoinAudio(e, on, ign, v)) = JoinAudio(e, on, ign, v)
      /\ JoinAudio(e, on, ign, v) \in Seq(Posts)
      /\ \A p \in Range(JoinAudio(e, on, ign, v)) : (on /\ p \in Range(e)) \/ (~ign /\ p = v)
  BY AudioJoined
<1> QED
  BY <1>1 DEF WireAudio, Kind

-----------------------------------------------------------------------------
(* The stream and the visualization. *)

\* What holds of the chains where no post comes or goes.
LEMMA ChainsStay ==
  ASSUME IInv, elements' = elements, UNCHANGED <<phase, window, deint, visual, live>>
  PROVE  Chained' /\ Windows' /\ Living'
BY DEF IInv, Chained, Windows, Window, Living, Kept, window

LEMMA WiresStay ==
  ASSUME IInv, KeepWires, UNCHANGED <<phase, deint, deinterlace, visual>>
  PROVE  elements' = elements /\ enable' = enable /\ ignore' = ignore /\ Wiring'
<1>1. elements' = elements /\ enable' = enable /\ ignore' = ignore /\ wired' = wired
  BY DEF KeepWires, chains
<1> QED
  BY <1>1 DEF IInv, Wiring, VideoWires, AudioWires

LEMMA VisualWired ==
  ASSUME IInv, NEW ign \in BOOLEAN, WireVisual(ign), Serving, ign \/ visual # NoPost,
         UNCHANGED <<phase, deint, deinterlace, visual>>
  PROVE  elements' = elements /\ enable' = enable /\ ignore' = ign /\ Wiring'
<1>1. elements' = elements /\ enable' = enable /\ ignore' = ign
  BY Chains DEF WireVisual, Kind
<1>2. WireAudio(elements["audio"], enable["audio"], ign, visual)
  BY Saved DEF WireVisual, Kind
<1>3. ign \/ visual \in Posts
  BY Pools DEF IInv, Chained
<1>4. wired \in [Kind -> Seq(Posts)] /\ enable["audio"] \in BOOLEAN
  BY DEF IInv, Wiring, Settled, Kind
<1>5. /\ wired' \in [Kind -> Seq(Posts)] /\ wired'["video"] = wired["video"]
      /\ wired'["audio"] = JoinAudio(elements["audio"], enable["audio"], ign, visual)
      /\ \A p \in Range(wired'["audio"]) :
           (enable["audio"] /\ p \in Range(elements["audio"])) \/ (~ign /\ p = visual)
  BY <1>2, <1>3, <1>4, Chains, AudioWired
<1>6. phase # "done" /\ VideoWires
  BY DEF IInv, Wiring, Serving
<1>7. VideoWires'
  BY <1>1, <1>5, <1>6 DEF VideoWires
<1>8. AudioWires'
  BY <1>1, <1>3, <1>5, <1>6, Pools DEF AudioWires
<1> QED
  BY <1>1, <1>5, <1>6, <1>7, <1>8 DEF Wiring

\* post_rewire_audio_port_to_stream and post_rewire_audio_post_to_stream
LEMMA Asked ==
  /\ WireVisual(TRUE) => ignore' /\ ignore' \in BOOLEAN /\ WireVisual(ignore')
  /\ WireVisual(FALSE) => ~ignore' /\ ignore' \in BOOLEAN /\ WireVisual(ignore')
BY DEF WireVisual, WireAudio, JoinAudio

\* What is where the action leaves the wires or takes the visualization in or out.
WiresRight ==
  /\ elements' = elements /\ enable' = enable /\ ignore' \in BOOLEAN /\ Wiring'

LEMMA PlayWires ==
  ASSUME IInv, Serving, Wires, UNCHANGED <<phase, deint, deinterlace, visual>>
  PROVE  /\ WiresRight
         /\ StepBack => ignore'
         /\ StepIn => ~ignore'
         /\ ~StepBack /\ ~StepIn => ignore' = ignore
<1>1. CASE StepBack /\ WireVisual(TRUE)
  <2>1. ignore' /\ ignore' \in BOOLEAN /\ WireVisual(ignore')
    BY <1>1, Asked
  <2>2. ~StepIn
    BY <1>1 DEF StepBack, StepIn
  <2> QED
    BY <1>1, <2>1, <2>2, VisualWired DEF WiresRight
<1>2. CASE StepIn /\ WireVisual(FALSE)
  <2>1. ~ignore' /\ ignore' \in BOOLEAN /\ WireVisual(ignore') /\ visual # NoPost
    BY <1>2, Asked DEF StepIn
  <2>2. ~StepBack
    BY <1>2 DEF StepBack, StepIn
  <2> QED
    BY <1>2, <2>1, <2>2, VisualWired DEF WiresRight
<1>3. CASE ~StepBack /\ ~StepIn /\ KeepWires
  BY <1>3, WiresStay DEF WiresRight, IInv, Settled
<1> QED
  BY <1>1, <1>2, <1>3 DEF Wires

LEMMA PlayKeeps ==
  ASSUME IInv, NEW how \in {"entry", "logo", "fails"}, Play(how)
  PROVE  IInv'
<1>1. /\ UNCHANGED <<phase, window, deint, deinterlace, oldMethod, visual, enabled, ended,
                     live, hasVideo, shown, edits>>
      /\ Serving /\ Wires /\ playing' \in BOOLEAN
      /\ how = "logo" => hasVideo
  BY DEF Play, deints
<1>2. /\ WiresRight
      /\ StepBack => ignore'
      /\ StepIn => ~ignore'
      /\ ~StepBack /\ ~StepIn => ignore' = ignore
  BY <1>1, PlayWires
<1>3. Chained' /\ Windows' /\ Living'
  BY <1>1, <1>2, ChainsStay DEF WiresRight
<1>4. \/ Animate
      \/ running' = StillRunning /\ UNCHANGED anim
  BY DEF Play
<1>5. StillRunning \in No .. Hidden /\ running \in No .. Hidden
  BY DEF IInv, Settled, StillRunning, No, Yes, Hidden
<1>6. running' \in No .. Hidden /\ anim' \in BOOLEAN
  <2>1. running' \in {StillRunning, No, Yes, Hidden}
    BY <1>4 DEF Animate, StreamStops, StreamPlays
  <2>2. anim' \in BOOLEAN \/ anim' = anim
    BY <1>4 DEF Animate, StreamStops, StreamPlays
  <2> QED
    BY <1>5, <2>1, <2>2 DEF IInv, Settled, No, Yes, Hidden
<1>7. Settled'
  BY <1>1, <1>2, <1>6 DEF IInv, Settled, WiresRight, window
<1>8. Fitting'
  <2>0. visual # NoPost => visual \in live
    BY DEF IInv, Living, Kept
  <2>1. CASE running' = StillRunning /\ UNCHANGED anim
    BY <1>1, <1>2, <2>0, <2>1
       DEF IInv, Settled, Fitting, VisualFits, Visualizes, StepBack, StepIn, StillRunning,
           No, Yes, Hidden, Off, PostPlugin, StreamAnim
  <2>2. CASE Animate
    BY <1>1, <1>2, <2>0, <2>2
       DEF IInv, Settled, Fitting, VisualFits, Visualizes, StepBack, StepIn, StillRunning, Animate,
           StreamPlays, StreamStops, No, Yes, Hidden, Off, PostPlugin, StreamAnim
  <2> QED
    BY <1>4, <2>1, <2>2
<1> QED
  BY <1>2, <1>3, <1>7, <1>8 DEF IInv, WiresRight

\* A visualization there is was not disposed.
LEMMA Alive ==
  ASSUME IInv
  PROVE  visual # NoPost => visual \in live
BY DEF IInv, Living, Kept

LEMMA OpenKeeps ==
  ASSUME IInv, NEW video \in BOOLEAN, Open(video)
  PROVE  IInv'
<1>1. /\ UNCHANGED <<phase, window, chains, deints, visuals, animation, wired, live, shown, edits>>
      /\ hasVideo' \in BOOLEAN /\ ~playing' /\ playing' \in BOOLEAN /\ Serving
  BY DEF Open
<1>2. KeepWires /\ UNCHANGED <<phase, deint, deinterlace, visual, window, live>>
  BY <1>1 DEF KeepWires, visuals, deints
<1>3. Wiring' /\ Chained' /\ Windows' /\ Living'
  BY <1>2, WiresStay, ChainsStay
<1>4. Settled'
  BY <1>1 DEF IInv, Settled, window, chains, deints, visuals, animation
<1>5. Fitting'
  BY <1>1, Alive DEF IInv, Fitting, VisualFits, Visualizes, window, chains, deints, visuals, animation
<1> QED
  BY <1>3, <1>4, <1>5 DEF IInv

LEMMA StopKeeps ==
  ASSUME IInv, Stop
  PROVE  IInv'
<1>1. /\ UNCHANGED <<phase, window, deint, deinterlace, oldMethod, visual, enabled, ended, live, hasVideo, shown, edits>>
      /\ KeepWires /\ ~playing' /\ playing' \in BOOLEAN
      /\ \/ running # No /\ enabled = StreamAnim /\ ~anim' /\ anim' \in BOOLEAN /\ running' = No
         \/ ~(running # No /\ enabled = StreamAnim) /\ UNCHANGED <<anim, running>>
  BY DEF Stop, deints, AnimStop, StreamStops
<1>2. Wiring' /\ elements' = elements /\ enable' = enable /\ ignore' = ignore
  BY <1>1, WiresStay
<1>3. Chained' /\ Windows' /\ Living'
  BY <1>1, <1>2, ChainsStay
<1>4. Settled'
  BY <1>1, <1>2 DEF IInv, Settled, window, No, Yes, Hidden
<1>5. Fitting'
  BY <1>1, <1>2, Alive
     DEF IInv, Fitting, VisualFits, Visualizes, No, Yes, Hidden, Off, PostPlugin, StreamAnim
<1> QED
  BY <1>2, <1>3, <1>4, <1>5 DEF IInv

LEMMA AnimEndsKeeps ==
  ASSUME IInv, AnimEnds
  PROVE  IInv'
<1>1. /\ UNCHANGED <<phase, window, deint, deinterlace, oldMethod, visual, enabled, running, live, hasVideo, playing, shown, edits>>
      /\ KeepWires /\ ~anim' /\ anim' \in BOOLEAN /\ ended' \in BOOLEAN
  BY DEF AnimEnds, deints, visuals, stream, KeepWires
<1>2. Wiring' /\ elements' = elements /\ enable' = enable /\ ignore' = ignore
  BY <1>1, WiresStay
<1>3. Chained' /\ Windows' /\ Living'
  BY <1>1, <1>2, ChainsStay
<1>4. Settled'
  BY <1>1, <1>2 DEF IInv, Settled, window
<1>5. Fitting'
  BY <1>1, <1>2, Alive DEF IInv, Fitting, VisualFits, Visualizes
<1> QED
  BY <1>2, <1>3, <1>4, <1>5 DEF IInv

LEMMA AnimNextKeeps ==
  ASSUME IInv, AnimNext
  PROVE  IInv'
<1>1. /\ UNCHANGED <<phase, window, deint, deinterlace, oldMethod, visual, enabled, live, hasVideo, playing, shown, edits>>
      /\ KeepWires /\ ended' \in BOOLEAN
      /\ \/ enabled = StreamAnim /\ anim' \in BOOLEAN /\ running' = Yes
         \/ enabled # StreamAnim /\ UNCHANGED <<anim, running>>
  BY DEF AnimNext, deints, stream, AnimPlay, StreamPlays
<1>2. Wiring' /\ elements' = elements /\ enable' = enable /\ ignore' = ignore
  BY <1>1, WiresStay
<1>3. Chained' /\ Windows' /\ Living'
  BY <1>1, <1>2, ChainsStay
<1>4. Settled'
  BY <1>1, <1>2 DEF IInv, Settled, window, No, Yes, Hidden
<1>5. Fitting'
  BY <1>1, <1>2, Alive
     DEF IInv, Fitting, VisualFits, Visualizes, No, Yes, Hidden, Off, PostPlugin, StreamAnim
<1> QED
  BY <1>2, <1>3, <1>4, <1>5 DEF IInv

LEMMA ToggleVideoKeeps ==
  ASSUME IInv, ToggleVideo
  PROVE  IInv'
<1>1. /\ UNCHANGED <<phase, window, deint, deinterlace, oldMethod, visual, enabled, ended, live, hasVideo, playing, edits>>
      /\ KeepWires /\ shown' \in BOOLEAN
      /\ \/ enabled = StreamAnim /\ anim' \in BOOLEAN /\ running' = Yes
         \/ UNCHANGED <<anim, running>>
         \/ /\ running' = IF running # No THEN Hidden ELSE No
            /\ anim' = (anim /\ ~(running # No /\ enabled = StreamAnim))
  BY DEF ToggleVideo, deints, stream, AnimPlay, StreamPlays
<1>2. Wiring' /\ elements' = elements /\ enable' = enable /\ ignore' = ignore
  BY <1>1, WiresStay
<1>3. Chained' /\ Windows' /\ Living'
  BY <1>1, <1>2, ChainsStay
<1>4. running' \in No .. Hidden /\ anim' \in BOOLEAN
  <2>1. running' \in {running, Yes, Hidden, No}
    BY <1>1
  <2>2. anim' \in BOOLEAN \/ anim' = anim
    BY <1>1
  <2> QED
    BY <2>1, <2>2 DEF IInv, Settled, No, Yes, Hidden
<1>5. Settled'
  BY <1>1, <1>2, <1>4 DEF IInv, Settled, window
<1>6. Fitting'
  BY <1>1, <1>2, Alive
     DEF IInv, Settled, Fitting, VisualFits, Visualizes, No, Yes, Hidden, Off, PostPlugin,
         StreamAnim
<1> QED
  BY <1>2, <1>3, <1>5, <1>6 DEF IInv

LEMMA VisualAnimKeeps ==
  ASSUME IInv, NEW new \in Off .. StreamAnim, VisualAnim(new)
  PROVE  IInv'
<1> DEFINE ends == running # No /\ (enabled = PostPlugin \/ enabled = StreamAnim)
           left == IF ends THEN No ELSE running
           free == ~hasVideo /\ left = No
<1>1. /\ UNCHANGED <<phase, window, deint, deinterlace, oldMethod, visual, ended, live, hasVideo,
                     playing, shown>>
      /\ Running /\ Serving /\ new # enabled /\ enabled' = new
      /\ edits < MaxEdits /\ edits' = edits + 1
  BY DEF VisualAnim, deints, stream, Edit, Running, Serving
<1>2. \/ /\ new = PostPlugin /\ free /\ visual # NoPost
         /\ WireVisual(FALSE) /\ running' = Yes /\ anim' = (anim /\ ~ends)
      \/ /\ new = StreamAnim /\ free
         /\ (IF ends THEN WireVisual(TRUE) ELSE KeepWires)
         /\ StreamPlays
      \/ /\ ~(free /\ (new = StreamAnim \/ (new = PostPlugin /\ visual # NoPost)))
         /\ (IF ends /\ enabled = PostPlugin THEN WireVisual(TRUE) ELSE KeepWires)
         /\ running' = left /\ anim' = (anim /\ ~ends)
  BY DEF VisualAnim
<1> HIDE DEF ends, left, free
<1>3. \/ WiresRight /\ ~ignore' /\ visual # NoPost /\ WireVisual(FALSE)
      \/ WiresRight /\ ignore' /\ WireVisual(TRUE)
      \/ WiresRight /\ ignore' = ignore /\ KeepWires
  <2>1. CASE WireVisual(FALSE) /\ visual # NoPost
    <3>1. ~ignore' /\ ignore' \in BOOLEAN /\ WireVisual(ignore')
      BY <2>1, Asked
    <3> QED
      BY <1>1, <2>1, <3>1, VisualWired DEF WiresRight
  <2>2. CASE WireVisual(TRUE)
    <3>1. ignore' /\ ignore' \in BOOLEAN /\ WireVisual(ignore')
      BY <2>2, Asked
    <3> QED
      BY <1>1, <2>2, <3>1, VisualWired DEF WiresRight
  <2>3. CASE KeepWires
    BY <1>1, <2>3, WiresStay DEF WiresRight, IInv, Settled
  <2> QED
    BY <1>2, <2>1, <2>2, <2>3
<1>4. Wiring' /\ elements' = elements /\ enable' = enable /\ ignore' \in BOOLEAN
  BY <1>3 DEF WiresRight
<1>5. Chained' /\ Windows' /\ Living'
  BY <1>1, <1>4, ChainsStay
<1>6. running' \in No .. Hidden /\ anim' \in BOOLEAN
  <2>1. running' \in {running, Yes, No}
    BY <1>2 DEF StreamPlays, left
  <2>2. anim' \in BOOLEAN
    BY <1>2 DEF StreamPlays
  <2> QED
    BY <2>1, <2>2 DEF IInv, Settled, No, Yes, Hidden
<1>7. Settled'
  <2>1. edits' \in 0 .. MaxEdits
    BY <1>1, PostAssumption DEF IInv, Settled
  <2> QED
    BY <1>1, <1>4, <1>6, <2>1 DEF IInv, Settled, window
<1>8. Fitting'
  <2>1. CASE /\ new = PostPlugin /\ free /\ visual # NoPost
             /\ WireVisual(FALSE) /\ running' = Yes /\ anim' = (anim /\ ~ends)
    <3>1. ~ignore'
      BY <2>1, Asked
    <3> QED
      BY <1>1, <1>6, <2>1, <3>1, Alive
         DEF IInv, Settled, Fitting, VisualFits, Visualizes, No, Yes, Hidden, Off, PostPlugin,
             StreamAnim, free, left, ends, Running
  <2>2. CASE /\ new = StreamAnim /\ free
             /\ (IF ends THEN WireVisual(TRUE) ELSE KeepWires)
             /\ StreamPlays
    <3>1. \/ ends /\ ignore'
          \/ ~ends /\ ignore' = ignore
      BY <2>2, Asked DEF KeepWires
    <3> QED
      BY <1>1, <1>6, <2>2, <3>1, Alive
         DEF IInv, Settled, Fitting, VisualFits, Visualizes, No, Yes, Hidden, Off, PostPlugin,
             StreamAnim, free, left, ends, StreamPlays, Running
  <2>3. CASE /\ ~(free /\ (new = StreamAnim \/ (new = PostPlugin /\ visual # NoPost)))
             /\ (IF ends /\ enabled = PostPlugin THEN WireVisual(TRUE) ELSE KeepWires)
             /\ running' = left /\ anim' = (anim /\ ~ends)
    <3>1. \/ ends /\ enabled = PostPlugin /\ ignore'
          \/ ~(ends /\ enabled = PostPlugin) /\ ignore' = ignore
      BY <2>3, Asked DEF KeepWires
    <3>2. ignore'
      BY <1>1, <3>1 DEF IInv, Fitting, VisualFits, ends, Running
    <3>3. ~anim'
      BY <1>1, <2>3 DEF IInv, Fitting, VisualFits, ends, Running
    <3>4. running' # Yes
      BY <1>1, <2>3
         DEF IInv, Settled, Fitting, No, Yes, Hidden, Off, PostPlugin, StreamAnim, left,
             ends, Running
    <3> QED
      BY <3>2, <3>3, <3>4 DEF Fitting, VisualFits, Visualizes
  <2> QED
    BY <1>2, <2>1, <2>2, <2>3
<1> QED
  BY <1>4, <1>5, <1>7, <1>8 DEF IInv

LEMMA GuiExitKeeps ==
  ASSUME IInv, GuiExit
  PROVE  IInv'
<1>1. /\ UNCHANGED <<window, elements, enable, deint, deinterlace, oldMethod, visual, ignore,
                     enabled, running, ended, live, hasVideo, shown, edits>>
      /\ phase = "run" /\ phase' = "closing" /\ ~playing' /\ playing' \in BOOLEAN
      /\ anim' \in BOOLEAN \/ anim' = anim
  BY DEF GuiExit, Running, chains, deints, visuals
<1>2. \/ wired' = [wired EXCEPT !["audio"] = Unwired]
      \/ wired' = wired
  BY DEF GuiExit
<1>3. Wiring'
  <2>1. Range(<<>>) = {} /\ <<>> \in Seq(Posts)
    BY DEF Range
  <2>2. /\ wired' \in [Kind -> Seq(Posts)] /\ wired'["video"] = wired["video"]
        /\ wired'["audio"] = wired["audio"] \/ Range(wired'["audio"]) = {}
    BY <1>2, <2>1 DEF IInv, Wiring, Kind, Unwired
  <2>3. VideoWires' /\ AudioWires'
    BY <1>1, <2>2 DEF IInv, Wiring, VideoWires, AudioWires
  <2> QED
    BY <1>1, <2>2, <2>3 DEF Wiring
<1>4. Settled'
  BY <1>1 DEF IInv, Settled, window
<1>5. Chained' /\ Windows' /\ Living'
  BY <1>1 DEF IInv, Chained, Windows, Window, Living, Kept, window
<1>6. Fitting'
  BY <1>1 DEF Fitting
<1> QED
  BY <1>3, <1>4, <1>5, <1>6 DEF IInv


-----------------------------------------------------------------------------
(* The windows and the settings. *)

\* What holds of the visualization where nothing of it changes.
LEMMA FittingStays ==
  ASSUME IInv, UNCHANGED <<phase, visual, ignore, enabled, running, anim, hasVideo, playing>>,
         visual # NoPost => visual \in live'
  PROVE  Fitting'
<1>1. visual \in live => visual # NoPost
  BY Pools DEF IInv, Living
<1> QED
  BY <1>1 DEF IInv, Fitting, VisualFits, Visualizes

\* A whole chain has room in a window.
LEMMA WholeChain ==
  ASSUME NEW S, NEW s \in Seq(S), Len(s) <= MaxSlots, ~(Len(s) < MaxSlots)
  PROVE  SubSeq(s, 1, MaxSlots) = s /\ s # <<>>
<1>1. Len(s) = MaxSlots /\ MaxSlots \in Nat /\ MaxSlots # 0
  BY PostAssumption
<1> QED
  BY <1>1, SubSeqProperties

LEMMA ShowKeeps ==
  ASSUME IInv, NEW k \in Kind, Show(k)
  PROVE  IInv'
<1>1. /\ UNCHANGED <<phase, elements, enable, deint, deinterlace, oldMethod, visual, ignore,
                     enabled, running, anim, ended, wired, live, hasVideo, playing, shown>>
      /\ edits < MaxEdits /\ edits' = edits + 1 /\ phase = "run"
      /\ open' = [open EXCEPT ![k] = TRUE] /\ first' = [first EXCEPT ![k] = 0]
  BY DEF Show, Edit, Running, chains, deints, visuals, animation, stream
<1>2. PICK c : c = IF Len(elements[k]) < MaxSlots THEN Append(elements[k], NoPost)
                   ELSE SubSeq(elements[k], 1, MaxSlots)
  OBVIOUS
<1>3. slots' = [slots EXCEPT ![k] = c]
  BY <1>2 DEF Show
<1>4. elements[k] \in Seq(Posts) /\ Len(elements[k]) <= MaxSlots
  BY DEF IInv, Chained
<1>5. /\ c \in Seq(Posts \cup {NoPost}) /\ Len(c) \in 0 .. MaxSlots
      /\ c = Append(elements[k], NoPost) \/ (c = elements[k] /\ elements[k] # <<>>)
  <2>1. elements[k] \in Seq(Posts \cup {NoPost})
    BY <1>4, SeqMonotonic
  <2>2. CASE Len(elements[k]) < MaxSlots
    BY <1>2, <2>1, <2>2, PostAssumption
  <2>3. CASE ~(Len(elements[k]) < MaxSlots)
    <3>1. c = elements[k] /\ elements[k] # <<>>
      BY <1>2, <1>4, <2>3, WholeChain
    <3>2. Len(elements[k]) \in 0 .. MaxSlots
      BY <1>4, PostAssumption
    <3> QED
      BY <2>1, <3>1, <3>2
  <2> QED
    BY <2>2, <2>3
<1>6. Settled'
  <2>1. edits' \in 0 .. MaxEdits
    BY <1>1, PostAssumption DEF IInv, Settled
  <2> QED
    BY <1>1, <2>1 DEF IInv, Settled
<1>7. Chained'
  BY <1>1, <1>3, <1>5 DEF IInv, Chained
<1>8. Windows'
  <2>1. 0 <= LastFirst(Len(c))
    BY <1>5, PostAssumption DEF LastFirst
  <2>2. ASSUME NEW j \in Kind PROVE Window(j)'
    <3>1. CASE j = k
      BY <1>1, <1>3, <1>5, <2>1, <3>1 DEF IInv, Settled, Chained, Window
    <3>2. CASE j # k
      BY <1>1, <1>3, <3>2 DEF IInv, Settled, Chained, Windows, Window
    <3> QED
      BY <3>1, <3>2
  <2> QED
    BY <2>2 DEF Windows
<1>9. Living' /\ Fitting' /\ Wiring'
  BY <1>1, FittingStays, Alive DEF IInv, Living, Kept, Wiring, VideoWires, AudioWires
<1> QED
  BY <1>6, <1>7, <1>8, <1>9 DEF IInv

LEMMA CloseKeeps ==
  ASSUME IInv, NEW k \in Kind, Close(k)
  PROVE  IInv'
<1>1. /\ UNCHANGED <<phase, first, enable, deint, deinterlace, oldMethod, visual, ignore,
                     enabled, running, anim, ended, wired, live, hasVideo, playing, shown>>
      /\ edits < MaxEdits /\ edits' = edits + 1 /\ phase = "run"
      /\ open' = [open EXCEPT ![k] = FALSE] /\ slots' = [slots EXCEPT ![k] = <<>>]
      /\ elements' = [elements EXCEPT ![k] = SaveChain(k)]
  BY DEF Close, Exit, Edit, Running, deints, visuals, animation, stream
<1>2. elements' = elements
  BY <1>1, Chains
<1>3. Settled'
  <2>1. edits' \in 0 .. MaxEdits
    BY <1>1, PostAssumption DEF IInv, Settled
  <2> QED
    BY <1>1, <2>1 DEF IInv, Settled
<1>4. Chained'
  <2>1. <<>> \in Seq(Posts \cup {NoPost})
    OBVIOUS
  <2> QED
    BY <1>1, <1>2, <2>1 DEF IInv, Chained
<1>5. ASSUME NEW j \in Kind PROVE Window(j)'
  <2>1. CASE j = k
    BY <1>1, <2>1 DEF IInv, Settled, Chained, Window
  <2>2. CASE j # k
    BY <1>1, <1>2, <2>2 DEF IInv, Settled, Chained, Windows, Window
  <2> QED
    BY <2>1, <2>2
<1>6. Living' /\ Fitting' /\ Wiring'
  BY <1>1, <1>2, FittingStays, Alive DEF IInv, Living, Kept, Wiring, VideoWires, AudioWires
<1> QED
  BY <1>3, <1>4, <1>5, <1>6 DEF IInv, Windows

LEMMA ScrollKeeps ==
  ASSUME IInv, NEW k \in Kind, NEW f \in 0 .. MaxSlots, Scroll(k, f)
  PROVE  IInv'
<1>1. /\ UNCHANGED <<phase, open, slots, elements, enable, deint, deinterlace, oldMethod, visual,
                     ignore, enabled, running, anim, ended, wired, live, hasVideo, playing,
                     shown, edits>>
      /\ open[k] /\ f \in 0 .. LastFirst(Len(slots[k]))
      /\ first' = [first EXCEPT ![k] = f]
  BY DEF Scroll, chains, deints, visuals, animation, stream
<1>2. f \in Nat
  BY PostAssumption
<1>3. Settled' /\ Chained'
  BY <1>1, <1>2 DEF IInv, Settled, Chained
<1>4. LastFirst(Len(slots[k])) \in Int
  <2>1. Len(slots[k]) \in Nat
    BY DEF IInv, Chained
  <2> QED
    BY <2>1, PostAssumption DEF LastFirst
<1>5. f <= LastFirst(Len(slots[k]))
  BY <1>1, <1>2, <1>4
<1>6. ASSUME NEW j \in Kind PROVE Window(j)'
  <2>1. CASE j = k
    BY <1>1, <1>5, <2>1 DEF IInv, Settled, Windows, Window
  <2>2. CASE j # k
    BY <1>1, <2>2 DEF IInv, Settled, Windows, Window
  <2> QED
    BY <2>1, <2>2
<1>7. Living' /\ Fitting' /\ Wiring'
  BY <1>1, FittingStays, Alive DEF IInv, Living, Kept, Wiring, VideoWires, AudioWires
<1> QED
  BY <1>3, <1>6, <1>7 DEF IInv, Windows

\* A chain that was changed, or enabled or disabled, is wired as it is now.
LEMMA ChainWired ==
  ASSUME IInv, Running, NEW k \in Kind, NEW e \in Seq(Posts), NEW on, Wire(k, e, on),
         elements' = [elements EXCEPT ![k] = e], enable' = [enable EXCEPT ![k] = on],
         UNCHANGED <<phase, deint, deinterlace, ignore, visual>>
  PROVE  Wiring'
<1>1. wired \in [Kind -> Seq(Posts)] /\ phase = "run" /\ phase' = "run" /\ VideoWires /\ AudioWires
  BY DEF IInv, Wiring, Running
<1>2. elements'[k] = e /\ enable'[k] = on
  BY DEF IInv, Chained, Settled
<1>3. CASE k = "video"
  <2>1. WireVideo(e, on, deint, deinterlace)
    BY <1>3 DEF Wire
  <2>2. /\ wired' \in [Kind -> Seq(Posts)] /\ wired'["video"] = JoinVideo(e, on, deint, deinterlace)
        /\ wired'["audio"] = wired["audio"]
    BY <1>1, <2>1, Chains, VideoWired
  <2>3. elements'["audio"] = elements["audio"] /\ enable'["audio"] = enable["audio"]
    BY <1>3 DEF IInv, Chained, Settled, Kind
  <2>4. VideoWires'
    BY <1>2, <1>3, <2>2 DEF VideoWires
  <2>5. AudioWires'
    BY <1>1, <2>2, <2>3 DEF AudioWires
  <2> QED
    BY <1>1, <2>2, <2>4, <2>5 DEF Wiring
<1>4. CASE k = "audio"
  <2>1. WireAudio(e, on, ignore, visual)
    BY <1>4 DEF Wire
  <2>2. ignore \/ visual \in Posts
    BY <1>1 DEF IInv, Fitting, VisualFits, Living
  <2>3. /\ wired' \in [Kind -> Seq(Posts)] /\ wired'["audio"] = JoinAudio(e, on, ignore, visual)
        /\ wired'["video"] = wired["video"]
        /\ \A p \in Range(wired'["audio"]) : (on /\ p \in Range(e)) \/ (~ignore /\ p = visual)
    BY <1>1, <2>1, <2>2, AudioWired
  <2>4. elements'["video"] = elements["video"] /\ enable'["video"] = enable["video"]
    BY <1>4 DEF IInv, Chained, Settled, Kind
  <2>5. VideoWires'
    BY <1>1, <2>3, <2>4 DEF VideoWires
  <2>6. AudioWires'
    BY <1>1, <1>2, <1>4, <2>2, <2>3, Pools DEF AudioWires
  <2> QED
    BY <1>1, <2>3, <2>5, <2>6 DEF Wiring
<1> QED
  BY <1>3, <1>4 DEF Kind

LEMMA EnableKeeps ==
  ASSUME IInv, NEW k \in Kind, Enable(k)
  PROVE  IInv'
<1>1. /\ UNCHANGED <<phase, open, slots, first, deint, deinterlace, oldMethod, visual, ignore,
                     enabled, running, anim, ended, live, hasVideo, playing, shown>>
      /\ edits < MaxEdits /\ edits' = edits + 1 /\ Running
      /\ elements' = [elements EXCEPT ![k] = SaveChain(k)]
  BY DEF Enable, Edit, window, deints, visuals, animation, stream
<1>2. PICK on \in BOOLEAN : on = (~enable[k])
  OBVIOUS
<1>3. enable' = [enable EXCEPT ![k] = on] /\ Wire(k, SaveChain(k), on)
  BY <1>2 DEF Enable, IInv, Settled
<1>4. elements' = elements /\ SaveChain(k) = elements[k]
  BY <1>1, Chains, Saved
<1>5. Wiring'
  <2>1. elements[k] \in Seq(Posts) /\ elements' = [elements EXCEPT ![k] = elements[k]]
    BY <1>4 DEF IInv, Chained
  <2> QED
    BY <1>1, <1>3, <1>4, <2>1, ChainWired
<1>6. Settled'
  <2>1. edits' \in 0 .. MaxEdits
    BY <1>1, PostAssumption DEF IInv, Settled
  <2>2. enable' \in [Kind -> BOOLEAN]
    BY <1>3 DEF IInv, Settled
  <2> QED
    BY <1>1, <2>1, <2>2 DEF IInv, Settled
<1>7. Chained' /\ Windows' /\ Living' /\ Fitting'
  BY <1>1, <1>4, ChainsStay, FittingStays, Alive DEF window
<1> QED
  BY <1>5, <1>6, <1>7 DEF IInv

LEMMA ToggleInterlacedKeeps ==
  ASSUME IInv, ToggleInterlaced
  PROVE  IInv'
<1>1. /\ UNCHANGED <<phase, open, slots, first, enable, deint, visual, ignore,
                     enabled, running, anim, ended, live, hasVideo, playing, shown>>
      /\ edits < MaxEdits /\ edits' = edits + 1 /\ phase = "run"
      /\ deinterlace' = ~deinterlace
  BY DEF ToggleInterlaced, Edit, Running, window, visuals, animation, stream
<1>2. deinterlace' \in BOOLEAN /\ oldMethod' \in BOOLEAN
  BY <1>1 DEF ToggleInterlaced, IInv, Settled
<1>3. elements' = elements
  BY Chains DEF ToggleInterlaced, Kind
<1>4. wired' \in [Kind -> Seq(Posts)] /\ wired'["audio"] = wired["audio"] /\ VideoWires'
  <2>1. CASE deint = <<>> /\ wired' = wired
    <3>1. JoinVideo(elements["video"], enable["video"], deint, deinterlace)
            = JoinVideo(elements["video"], enable["video"], deint, deinterlace')
      BY <2>1 DEF JoinVideo
    <3> QED
      BY <1>1, <1>3, <2>1, <3>1 DEF IInv, Wiring, VideoWires
  <2>2. CASE WireVideo(SaveChain("video"), enable["video"], deint, deinterlace')
    <3>1. WireVideo(elements["video"], enable["video"], deint, deinterlace')
      BY <2>2, Saved DEF Kind
    <3>2. /\ wired' \in [Kind -> Seq(Posts)] /\ wired'["audio"] = wired["audio"]
          /\ wired'["video"]
               = JoinVideo(elements["video"], enable["video"], deint, deinterlace')
      BY <3>1, Chains, VideoWired DEF IInv, Wiring
    <3> QED
      BY <1>1, <1>3, <3>2 DEF VideoWires
  <2> QED
    BY <2>1, <2>2 DEF ToggleInterlaced
<1>5. Wiring'
  BY <1>1, <1>3, <1>4 DEF IInv, Wiring, AudioWires
<1>6. Settled'
  <2>1. edits' \in 0 .. MaxEdits
    BY <1>1, PostAssumption DEF IInv, Settled
  <2> QED
    BY <1>1, <1>2, <2>1 DEF IInv, Settled
<1>7. Chained' /\ Windows' /\ Living' /\ Fitting'
  BY <1>1, <1>3, ChainsStay, FittingStays, Alive DEF window
<1> QED
  BY <1>5, <1>6, <1>7 DEF IInv

\* The four places keep posts of different pools.
LEMMA Apart ==
  ASSUME IInv
  PROVE  /\ Range(elements["audio"]) \subseteq Of("audio")
         /\ Range(elements["video"]) \subseteq Of("video")
         /\ Range(deint) \subseteq Of("deint") /\ {visual} \ {NoPost} \subseteq Of("visual")
<1>1. \A S : \A s \in Seq(S) : Range(s) \subseteq S
  BY DEF Range
<1> QED
  BY <1>1 DEF IInv, Chained, Kind

LEMMA Disjoint ==
  ASSUME NEW p \in Pool, NEW q \in Pool, p # q, NEW S, NEW T, S \subseteq Of(p), T \subseteq Of(q)
  PROVE  S \cap T = {}
BY Pools

LEMMA Names ==
  /\ "audio" \in Pool /\ "video" \in Pool /\ "deint" \in Pool /\ "visual" \in Pool
  /\ "audio" # "video" /\ "audio" # "deint" /\ "audio" # "visual" /\ "video" # "deint"
  /\ "video" # "visual" /\ "deint" # "visual" /\ "audio" \in Kind /\ "video" \in Kind
BY DEF Pool, Kind

\* A deinterlacer, or none.
LEMMA AtMostOne ==
  ASSUME NEW S, NEW p \in S, NEW d, d = <<p>> \/ d = <<>>
  PROVE  d \in Seq(S) /\ Len(d) <= 1 /\ IsFiniteSet(Range(d))
<1>1. CASE d = <<>>
  <2>1. Range(d) = {} /\ Len(d) = 0
    BY <1>1 DEF Range
  <2>2. d \in Seq(S)
    BY <1>1
  <2>3. IsFiniteSet(Range(d))
    BY <2>1, FS_EmptySet
  <2> QED
    BY <2>1, <2>2, <2>3
<1>2. CASE d = <<p>>
  <2>1. Range(d) = {p} /\ Len(d) = 1 /\ d \in Seq(S)
    BY <1>2 DEF Range
  <2>2. IsFiniteSet({p})
    BY FS_Singleton
  <2> QED
    BY <2>1, <2>2
<1> QED
  BY <1>1, <1>2

LEMMA DeinterlacePluginKeeps ==
  ASSUME IInv, NEW exists \in BOOLEAN, DeinterlacePlugin(exists)
  PROVE  IInv'
<1>1. /\ UNCHANGED <<phase, open, slots, first, enable, deinterlace, oldMethod, visual, ignore,
                     enabled, running, anim, ended, hasVideo, playing, shown>>
      /\ edits < MaxEdits /\ edits' = edits + 1 /\ phase = "run"
      /\ live' = (live \ Range(deint)) \cup Range(deint')
  BY DEF DeinterlacePlugin, Edit, Running, window, visuals, animation, stream
<1>2. PICK d : d = deint'
  OBVIOUS
<1>3. d \in Seq(Of("deint")) /\ d \in Seq(Posts) /\ Len(d) <= 1 /\ IsFiniteSet(Range(d))
  <2>1. Fresh("deint") \in Of("deint")
    BY FreshPost, Names DEF IInv
  <2>2. PICK p \in Of("deint") : p = Fresh("deint")
    BY <2>1
  <2>3. d = <<p>> \/ d = <<>>
    BY <1>2, <2>2 DEF DeinterlacePlugin
  <2>4. Of("deint") \subseteq Posts
    BY Pools
  <2>5. d \in Seq(Of("deint")) /\ Len(d) <= 1 /\ IsFiniteSet(Range(d))
    BY <2>3, AtMostOne
  <2>6. d \in Seq(Posts)
    BY <2>4, <2>5, SeqMonotonic
  <2> QED
    BY <2>5, <2>6
<1>4. elements' = elements
  BY Chains, Names DEF DeinterlacePlugin
<1>5. wired' \in [Kind -> Seq(Posts)] /\ wired'["audio"] = wired["audio"] /\ VideoWires'
  <2>1. CASE ~deinterlace
    <3>1. JoinVideo(elements["video"], enable["video"], deint, deinterlace)
            = JoinVideo(elements["video"], enable["video"], deint', deinterlace)
      BY <2>1 DEF JoinVideo
    <3>2. wired' = wired
      BY <2>1 DEF DeinterlacePlugin
    <3> QED
      BY <1>1, <1>4, <3>1, <3>2 DEF IInv, Wiring, VideoWires
  <2>2. CASE deinterlace
    <3>1. WireVideo(elements["video"], enable["video"], d, deinterlace)
      BY <1>2, <2>2, Saved, Names DEF DeinterlacePlugin, WireVideo, JoinVideo
    <3>2. /\ wired' \in [Kind -> Seq(Posts)] /\ wired'["audio"] = wired["audio"]
          /\ wired'["video"] = JoinVideo(elements["video"], enable["video"], d, deinterlace)
      BY <1>3, <3>1, Chains, VideoWired DEF IInv, Wiring
    <3> QED
      BY <1>1, <1>2, <1>4, <3>2 DEF VideoWires
  <2> QED
    BY <2>1, <2>2
<1>6. Wiring'
  BY <1>1, <1>4, <1>5 DEF IInv, Wiring, AudioWires
<1>7. Settled'
  <2>1. edits' \in 0 .. MaxEdits
    BY <1>1, PostAssumption DEF IInv, Settled
  <2> QED
    BY <1>1, <2>1 DEF IInv, Settled
<1>8. Chained' /\ Windows'
  BY <1>1, <1>2, <1>3, <1>4 DEF IInv, Chained, Windows, Window
<1>9. Living'
  <2>1. Range(d) \subseteq Posts
    BY <1>3 DEF Range
  <2>2. live' = Kept'
    <3> DEFINE a == Range(elements["audio"])
               v == Range(elements["video"])
               o == {visual} \ {NoPost}
    <3>1. a \cap Range(deint) = {} /\ v \cap Range(deint) = {} /\ o \cap Range(deint) = {}
      BY Apart, Disjoint, Names
    <3>2. live = a \cup v \cup Range(deint) \cup o
      BY DEF IInv, Living, Kept
    <3>3. Kept' = a \cup v \cup Range(d) \cup o
      BY <1>1, <1>2, <1>4 DEF Kept
    <3>4. live' = (live \ Range(deint)) \cup Range(d)
      BY <1>1, <1>2
    <3> HIDE DEF a, v, o
    <3> QED
      BY <3>1, <3>2, <3>3, <3>4
  <2>3. IsFiniteSet(live')
    BY <1>1, <1>2, <1>3, FS_Difference, FS_Union DEF IInv, Living
  <2> QED
    BY <1>1, <1>2, <2>1, <2>2, <2>3 DEF IInv, Living
<1>10. Fitting'
  <2>1. visual # NoPost => visual \in live'
    BY <1>1, <1>9 DEF Living, Kept
  <2> QED
    BY <1>1, <2>1, FittingStays
<1> QED
  BY <1>6, <1>7, <1>8, <1>9, <1>10 DEF IInv

LEMMA AudioPluginKeeps ==
  ASSUME IInv, NEW made \in BOOLEAN, AudioPlugin(made)
  PROVE  IInv'
<1>1. /\ UNCHANGED <<phase, open, slots, first, enable, deint, deinterlace, oldMethod,
                     enabled, running, anim, ended, hasVideo, playing, shown>>
      /\ edits < MaxEdits /\ edits' = edits + 1 /\ phase = "run"
      /\ visual' = IF made THEN Fresh("visual") ELSE NoPost
      /\ live' = (live \ {visual}) \cup ({visual'} \ {NoPost})
  BY DEF AudioPlugin, Edit, Running, window, deints, animation, stream
<1>2. PICK new : new = visual'
  OBVIOUS
<1>3. IF made THEN new \in Of("visual") ELSE new = NoPost
  <2>1. Fresh("visual") \in Of("visual")
    BY FreshPost, Names DEF IInv
  <2> QED
    BY <1>1, <1>2, <2>1
<1>4. PICK g : g = ignore'
  OBVIOUS
<1>5. /\ made /\ Visualizes => ~g
      /\ ~(made /\ Visualizes) /\ visual # NoPost => g
      /\ ~(made /\ Visualizes) /\ visual = NoPost => g = ignore
      /\ g \in BOOLEAN
  <2>1. g = IF made /\ Visualizes THEN FALSE ELSE IF visual = NoPost THEN ignore ELSE TRUE
    BY <1>4 DEF AudioPlugin
  <2> QED
    BY <2>1 DEF IInv, Settled
<1>6. visual = NoPost => ignore
  BY Pools DEF IInv, Fitting, VisualFits, Living, AudioPlugin, Edit, Running
<1>7. ~g => new \in Of("visual") /\ made /\ Visualizes
  BY <1>3, <1>5, <1>6
<1>8. g \/ new \in Posts
  BY <1>7, Pools
<1>9. elements' = elements
  BY Chains, Names DEF AudioPlugin
<1>10. /\ wired' \in [Kind -> Seq(Posts)] /\ wired'["video"] = wired["video"]
       /\ wired'["audio"] = JoinAudio(elements["audio"], enable["audio"], g, new)
  <2>1. CASE visual = NoPost /\ g = ignore /\ wired' = wired
    <3>1. ignore /\ g
      BY <1>6, <2>1
    <3>2. JoinAudio(elements["audio"], enable["audio"], ignore, visual)
            = JoinAudio(elements["audio"], enable["audio"], g, new)
      BY <3>1 DEF JoinAudio
    <3> QED
      BY <1>1, <2>1, <3>2 DEF IInv, Wiring, AudioWires
  <2>2. CASE WireAudio(SaveChain("audio"), enable["audio"], g, new)
    <3>1. WireAudio(elements["audio"], enable["audio"], g, new)
      BY <2>2, Saved, Names
    <3> QED
      BY <1>8, <3>1, Chains, AudioWired DEF IInv, Wiring
  <2>3. /\ ignore' = IF made /\ Visualizes THEN FALSE
                     ELSE IF visual = NoPost THEN ignore ELSE TRUE
        /\ visual' = IF made THEN Fresh("visual") ELSE NoPost
    BY DEF AudioPlugin
  <2>4. \/ visual = NoPost /\ g = ignore /\ wired' = wired
        \/ WireAudio(SaveChain("audio"), enable["audio"], g, new)
    BY <1>2, <1>4, <2>3 DEF AudioPlugin
  <2> QED
    BY <2>1, <2>2, <2>4
<1>11. Wiring'
  <2>1. VideoWires'
    BY <1>1, <1>9, <1>10 DEF IInv, Wiring, VideoWires
  <2>2. \A p \in Range(wired'["audio"]) :
          (enable["audio"] /\ p \in Range(elements["audio"])) \/ (~g /\ p = new)
    BY <1>8, <1>10, Chains, AudioJoined
  <2>3. AudioWires'
    BY <1>1, <1>2, <1>4, <1>8, <1>9, <1>10, <2>2, Pools DEF AudioWires
  <2> QED
    BY <1>1, <1>10, <2>1, <2>3 DEF Wiring
<1>12. Settled'
  <2>1. edits' \in 0 .. MaxEdits
    BY <1>1, PostAssumption DEF IInv, Settled
  <2> QED
    BY <1>1, <1>4, <1>5, <2>1 DEF IInv, Settled
<1>13. Chained' /\ Windows'
  BY <1>1, <1>2, <1>3, <1>9 DEF IInv, Chained, Windows, Window
<1>14. Living'
  <2>1. live' \subseteq Posts
    BY <1>1, <1>2, <1>3, Pools DEF IInv, Living
  <2>2. live' = Kept'
    <3> DEFINE a == Range(elements["audio"])
               v == Range(elements["video"])
               d == Range(deint)
    <3>1. a \cap ({visual} \ {NoPost}) = {} /\ v \cap ({visual} \ {NoPost}) = {}
            /\ d \cap ({visual} \ {NoPost}) = {}
      BY Apart, Disjoint, Names
    <3>2. live = a \cup v \cup d \cup ({visual} \ {NoPost}) /\ NoPost \notin live
      BY Pools DEF IInv, Living, Kept
    <3>3. Kept' = a \cup v \cup d \cup ({new} \ {NoPost})
      BY <1>1, <1>2, <1>9 DEF Kept
    <3>4. live' = (live \ {visual}) \cup ({new} \ {NoPost})
      BY <1>1, <1>2
    <3> HIDE DEF a, v, d
    <3> QED
      BY <3>1, <3>2, <3>3, <3>4
  <2>3. IsFiniteSet({new} \ {NoPost})
    BY FS_Singleton, FS_Difference
  <2>4. IsFiniteSet(live')
    BY <1>1, <1>2, <2>3, FS_Difference, FS_Union DEF IInv, Living
  <2> QED
    BY <2>1, <2>2, <2>4 DEF Living
<1>15. Fitting'
  <2>1. visual' # NoPost => made /\ visual' \in live'
    BY <1>1
  <2>2. /\ Visualizes /\ made => ~ignore'
        /\ ~ignore' => Visualizes /\ made /\ visual' \in live'
    BY <1>2, <1>3, <1>4, <1>5, <1>7, <2>1, Pools
  <2>3. /\ Visualizes /\ playing => ~hasVideo
        /\ enabled = Off => running # Yes
        /\ anim => enabled = StreamAnim /\ running # No
    BY <1>1 DEF IInv, Fitting, VisualFits
  <2>4. Visualizes' <=> Visualizes
    BY <1>1 DEF Visualizes
  <2>5. Visualizes => enabled = PostPlugin /\ running # No
    BY DEF Visualizes, No, Yes
  <2> QED
    BY <1>1, <2>1, <2>2, <2>3, <2>4, <2>5 DEF Fitting, VisualFits
<1> QED
  BY <1>11, <1>12, <1>13, <1>14, <1>15 DEF IInv


-----------------------------------------------------------------------------
(* The program's end. *)
LEMMA EndWindowsKeeps ==
  ASSUME IInv, EndWindows
  PROVE  IInv'
<1>1. /\ UNCHANGED <<first, enable, deint, deinterlace, oldMethod, visual, ignore, enabled,
                     running, anim, ended, wired, live, hasVideo, playing, shown, edits>>
      /\ phase = "closing" /\ phase' = "closed"
      /\ open' = [k \in Kind |-> FALSE] /\ slots' = [k \in Kind |-> <<>>]
  BY DEF EndWindows, deints, visuals, animation, stream
<1>2. elements' = elements
  <2>1. \A k \in Kind : SaveChain(k) = elements[k]
    BY Saved
  <2>2. elements' = [k \in Kind |-> SaveChain(k)] /\ elements \in [Kind -> Seq(Posts)]
    BY DEF EndWindows, IInv, Chained
  <2> QED
    BY <2>1, <2>2
<1>3. Settled'
  BY <1>1 DEF IInv, Settled
<1>4. Chained' /\ Windows'
  <2>1. <<>> \in Seq(Posts \cup {NoPost})
    OBVIOUS
  <2> QED
    BY <1>1, <1>2, <2>1 DEF IInv, Chained, Windows, Window
<1>5. Living' /\ Fitting' /\ Wiring'
  BY <1>1, <1>2 DEF IInv, Living, Kept, Fitting, Wiring, VideoWires, AudioWires
<1> QED
  BY <1>3, <1>4, <1>5 DEF IInv

LEMMA DisposeVisualKeeps ==
  ASSUME IInv, DisposeVisual
  PROVE  IInv'
<1>1. /\ UNCHANGED <<open, slots, first, elements, enable, deint, deinterlace, oldMethod, ignore,
                     enabled, running, anim, ended, wired, hasVideo, playing, shown, edits>>
      /\ phase = "closed" /\ phase' = "forgotten"
      /\ visual' = NoPost /\ live' = live \ {visual}
  BY DEF DisposeVisual, window, chains, deints, animation, stream
<1>2. Settled' /\ Chained' /\ Windows' /\ Fitting'
  BY <1>1 DEF IInv, Settled, Chained, Windows, Window, Fitting
<1>3. Living'
  <2> DEFINE a == Range(elements["audio"])
             v == Range(elements["video"])
             d == Range(deint)
             o == {visual} \ {NoPost}
  <2>1. a \cap o = {} /\ v \cap o = {} /\ d \cap o = {}
    BY Apart, Disjoint, Names
  <2>2. live = a \cup v \cup d \cup o /\ NoPost \notin live
    BY Pools DEF IInv, Living, Kept
  <2>3. Kept' = a \cup v \cup d \cup ({NoPost} \ {NoPost})
    BY <1>1 DEF Kept
  <2> HIDE DEF a, v, d
  <2>4. live' = Kept'
    BY <1>1, <2>1, <2>2, <2>3
  <2>5. IsFiniteSet(live')
    BY <1>1, FS_Difference DEF IInv, Living
  <2> QED
    BY <1>1, <2>4, <2>5 DEF IInv, Living
<1>4. Wiring'
  <2>1. visual = NoPost \/ visual[1] = "visual"
    BY Pools DEF IInv, Chained
  <2> QED
    BY <1>1, <2>1 DEF IInv, Wiring, VideoWires, AudioWires
<1> QED
  BY <1>2, <1>3, <1>4 DEF IInv

LEMMA PostDeinitKeeps ==
  ASSUME IInv, PostDeinit
  PROVE  IInv'
<1>1. /\ UNCHANGED <<open, slots, first, enable, deinterlace, oldMethod, visual, ignore,
                     enabled, running, anim, ended, hasVideo, playing, shown, edits>>
      /\ phase = "forgotten" /\ phase' = "done" /\ deint' = <<>>
      /\ elements' = [k \in Kind |-> <<>>]
      /\ live' = live \ ((UNION {Range(elements[k]) : k \in Kind}) \cup Range(deint))
  BY DEF PostDeinit, window, visuals, animation, stream
<1>2. Range(<<>>) = {} /\ <<>> \in Seq(Posts) /\ IsInjective(<<>>) /\ Len(<<>>) = 0
        /\ \A S : <<>> \in Seq(S)
  BY DEF Range, IsInjective
<1>3. visual = NoPost /\ Range(elements'["audio"]) = {} /\ Range(elements'["video"]) = {}
  BY <1>1, <1>2, Names DEF IInv, Chained
<1>4. Settled' /\ Fitting'
  BY <1>1 DEF IInv, Settled, Fitting
<1>5. Chained'
  <2>1. slots' \in [Kind -> Seq(Posts \cup {NoPost})] /\ visual' = NoPost
    BY <1>1, <1>3 DEF IInv, Chained
  <2>2. /\ elements' \in [Kind -> Seq(Posts)]
        /\ \A k \in Kind : elements'[k] = <<>>
    BY <1>1, <1>2
  <2>3. 0 <= MaxSlots
    BY PostAssumption
  <2> QED
    BY <1>1, <1>2, <2>1, <2>2, <2>3 DEF Chained
<1>6. Windows'
  <2>1. \A k \in Kind : ~open[k] /\ slots[k] = <<>>
    BY <1>1 DEF IInv, Settled, Windows, Window
  <2> QED
    BY <1>1, <2>1 DEF Windows, Window
<1>7. Living'
  <2>1. live = Range(elements["audio"]) \cup Range(elements["video"]) \cup Range(deint)
    BY <1>3 DEF IInv, Living, Kept
  <2>2. live' = {}
    BY <1>1, <2>1, Names
  <2>3. Kept' = {}
    BY <1>1, <1>2, <1>3 DEF Kept
  <2> QED
    BY <2>2, <2>3, FS_EmptySet DEF Living
<1>8. Wiring'
  <2>1. wired' = [wired EXCEPT
                    !["video"] = IF enable["video"] \/ deinterlace THEN Unwired ELSE @,
                    !["audio"] = IF enable["audio"] THEN Unwired ELSE @]
    BY DEF PostDeinit
  <2>2. wired \in [Kind -> Seq(Posts)] /\ VideoWires /\ AudioWires
    BY DEF IInv, Wiring
  <2>3. wired'["video"] = <<>>
    <3>1. CASE enable["video"] \/ deinterlace
      BY <2>1, <2>2, <3>1, Names DEF Unwired
    <3>2. CASE ~enable["video"] /\ ~deinterlace
      <4>1. wired["video"] = <<>> \o <<>>
        BY <1>1, <2>2, <3>2 DEF VideoWires, JoinVideo
      <4>2. <<>> \o <<>> = <<>>
        BY <1>2, ConcatEmptySeq
      <4> QED
        BY <2>1, <2>2, <3>2, <4>1, <4>2, Names
    <3> QED
      BY <3>1, <3>2
  <2>4. wired'["audio"] = IF enable["audio"] THEN <<>> ELSE wired["audio"]
    BY <2>1, <2>2, Names DEF Unwired
  <2>5. wired' \in [Kind -> Seq(Posts)]
    BY <1>2, <2>1, <2>2 DEF Unwired
  <2>6. \A p \in Range(wired'["audio"]) : p[1] = "visual" /\ visual = NoPost
    BY <1>1, <1>2, <1>3, <2>2, <2>4 DEF AudioWires
  <2> QED
    BY <1>1, <2>3, <2>5, <2>6 DEF Wiring, VideoWires, AudioWires
<1> QED
  BY <1>4, <1>5, <1>6, <1>7, <1>8 DEF IInv


-----------------------------------------------------------------------------
(* The edits. *)
LEMMA FiniteRange ==
  ASSUME NEW S, NEW s \in Seq(S)
  PROVE  IsFiniteSet(Range(s)) /\ Range(s) \subseteq S
<1>1. Len(s) \in Nat /\ DOMAIN s = 1 .. Len(s) /\ s \in [1 .. Len(s) -> S]
  OBVIOUS
<1>2. s \in Surjection(1 .. Len(s), Range(s))
  BY <1>1 DEF Surjection, Range
<1>3. IsFiniteSet(1 .. Len(s))
  <2>1. 1 \in Int /\ Len(s) \in Int
    BY <1>1
  <2> QED
    BY <2>1, FS_Interval
<1>4. IsFiniteSet(Range(s))
  BY <1>2, <1>3, FS_Surjection
<1>5. Range(s) \subseteq S
  BY <1>1 DEF Range
<1> QED
  BY <1>4, <1>5

\* What the slots show, with or without a "No filter" below.
Shows(new, e) == (e # <<>> /\ new = e) \/ new = Append(e, NoPost)

\* An edit's end: the chain is what its slots show, and what went was disposed.
LEMMA EditKeeps ==
  ASSUME IInv, NEW k \in Kind, NEW e \in Seq(Of(k)), NEW new, NEW f \in Nat,
         IsInjective(e), Shows(new, e), Len(new) <= MaxSlots, f <= LastFirst(Len(new)),
         Edit, open[k], Edited(k, new), first' = [first EXCEPT ![k] = f],
         live' = (live \ Range(elements[k])) \cup Range(e)
  PROVE  IInv'
<1>1. /\ UNCHANGED <<phase, open, enable, deint, deinterlace, oldMethod, visual, ignore,
                     enabled, running, anim, ended, hasVideo, playing, shown>>
      /\ edits < MaxEdits /\ edits' = edits + 1 /\ Running
      /\ slots' = [slots EXCEPT ![k] = new]
  BY DEF Edited, Edit, deints, visuals, animation, stream
<1>2. e \in Seq(Posts) /\ Len(e) \in Nat /\ Of(k) \subseteq Posts /\ k \in Pool
  BY Pools, SeqMonotonic
<1>3. (IF Last(new) = NoPost THEN Front(new) ELSE new) = e
  <2>1. CASE e # <<>> /\ new = e
    <3>1. Last(e) \in Of(k)
      BY <2>1 DEF Last
    <3>2. Last(e) # NoPost
      BY <1>2, <3>1, Pools
    <3> QED
      BY <2>1, <3>2
  <2>2. CASE new = Append(e, NoPost)
    BY <2>2, WithNone
  <2> QED
    BY <2>1, <2>2 DEF Shows
<1>4. elements' = [elements EXCEPT ![k] = e] /\ Wire(k, e, enable[k])
  BY <1>3 DEF Edited
<1>5. Wiring'
  <2>1. enable' = [enable EXCEPT ![k] = enable[k]]
    BY <1>1 DEF IInv, Settled
  <2> QED
    BY <1>1, <1>2, <1>4, <2>1, ChainWired
<1>6. Settled'
  <2>1. edits' \in 0 .. MaxEdits
    BY <1>1, PostAssumption DEF IInv, Settled
  <2> QED
    BY <1>1, <2>1 DEF IInv, Settled
<1>7. new \in Seq(Posts \cup {NoPost}) /\ Len(e) <= MaxSlots
  <2>1. e \in Seq(Posts \cup {NoPost})
    BY <1>2, SeqMonotonic
  <2> QED
    BY <2>1, PostAssumption DEF Shows
<1>8. Chained'
  <2>1. phase = "run" /\ phase' = "run"
    BY <1>1 DEF Running
  <2>2. slots' \in [Kind -> Seq(Posts \cup {NoPost})] /\ elements' \in [Kind -> Seq(Posts)]
    BY <1>1, <1>2, <1>4, <1>7 DEF IInv, Chained
  <2>3. \A j \in Kind : /\ elements'[j] \in Seq(Of(j)) /\ IsInjective(elements'[j])
                        /\ Len(elements'[j]) <= MaxSlots
    BY <1>4, <1>7 DEF IInv, Chained
  <2> QED
    BY <1>1, <2>1, <2>2, <2>3 DEF IInv, Chained
<1>9. ASSUME NEW j \in Kind PROVE Window(j)'
  <2>1. CASE j = k
    <3>1. slots'[k] = new /\ elements'[k] = e /\ first'[k] = f /\ open'[k]
      BY <1>1, <1>4 DEF IInv, Settled, Chained
    <3> QED
      BY <2>1, <3>1 DEF Window, Shows
  <2>2. CASE j # k
    <3>1. /\ slots'[j] = slots[j] /\ elements'[j] = elements[j] /\ first'[j] = first[j]
          /\ open'[j] = open[j]
      BY <1>1, <1>4, <2>2 DEF IInv, Settled, Chained
    <3> QED
      BY <3>1 DEF IInv, Windows, Window
  <2> QED
    BY <2>1, <2>2
<1>10. Living'
  <2>1. live' \subseteq Posts /\ IsFiniteSet(live')
    BY <1>2, FiniteRange, FS_Difference, FS_Union DEF IInv, Living
  <2>2. Range(e) \subseteq Of(k)
    BY FiniteRange
  <2> DEFINE a == Range(elements["audio"])
             v == Range(elements["video"])
             d == Range(deint)
             o == {visual} \ {NoPost}
  <2>3. /\ a \cap v = {} /\ a \cap d = {} /\ a \cap o = {}
        /\ v \cap d = {} /\ v \cap o = {}
    BY Apart, Disjoint, Names
  <2>4. live = a \cup v \cup d \cup o
    BY DEF IInv, Living, Kept
  <2>5. CASE k = "audio"
    <3>1. Kept' = Range(e) \cup v \cup d \cup o
      BY <1>1, <1>4, <2>5, Names DEF Kept, IInv, Chained
    <3>2. live' = (live \ a) \cup Range(e)
      BY <2>5
    <3> HIDE DEF a, v, d, o
    <3>3. live' = Kept'
      BY <2>3, <2>4, <3>1, <3>2
    <3> QED
      BY <2>1, <3>3 DEF Living
  <2>6. CASE k = "video"
    <3>1. Kept' = a \cup Range(e) \cup d \cup o
      BY <1>1, <1>4, <2>6, Names DEF Kept, IInv, Chained
    <3>2. live' = (live \ v) \cup Range(e)
      BY <2>6
    <3> HIDE DEF a, v, d, o
    <3>3. live' = Kept'
      BY <2>3, <2>4, <3>1, <3>2
    <3> QED
      BY <2>1, <3>3 DEF Living
  <2> QED
    BY <2>5, <2>6 DEF Kind
<1>11. Fitting'
  <2>1. visual # NoPost => visual \in live'
    BY <1>1, <1>10 DEF Living, Kept
  <2> QED
    BY <1>1, <2>1, FittingStays
<1> QED
  BY <1>5, <1>6, <1>8, <1>9, <1>10, <1>11 DEF IInv, Windows

\* What an open window shows, slot by slot.
Reaches(k, e, s) ==
  /\ e \in Seq(Of(k)) /\ IsInjective(e) /\ Len(e) \in Nat
  /\ Shows(s, e) /\ Len(s) \in Nat /\ Len(s) <= MaxSlots /\ s \in Seq(Posts \cup {NoPost})
  /\ \A i \in 1 .. Len(e) : s[i] = e[i] /\ s[i] \in Of(k) /\ s[i] # NoPost
  /\ Len(s) = Len(e) \/ (Len(s) = Len(e) + 1 /\ s[Len(e) + 1] = NoPost)

LEMMA Slots ==
  ASSUME IInv, NEW k \in Kind, open[k]
  PROVE  /\ Reaches(k, elements[k], slots[k])
         /\ first[k] \in Nat /\ first[k] <= LastFirst(Len(slots[k]))
<1>1. PICK e : e = elements[k]
  OBVIOUS
<1>2. PICK s : s = slots[k]
  OBVIOUS
<1>3. /\ e \in Seq(Of(k)) /\ IsInjective(e) /\ Len(e) \in Nat
      /\ Shows(s, e) /\ Len(s) \in Nat /\ Len(s) <= MaxSlots /\ s \in Seq(Posts \cup {NoPost})
      /\ first[k] \in Nat /\ first[k] <= LastFirst(Len(s))
  BY <1>1, <1>2 DEF IInv, Settled, Chained, Windows, Window, Shows
<1>4. \A i \in 1 .. Len(e) : e[i] \in Of(k) /\ e[i] # NoPost
  BY <1>3, Pools
<1>5. CASE s = e
  BY <1>1, <1>2, <1>3, <1>4, <1>5 DEF Reaches
<1>6. CASE s = Append(e, NoPost)
  BY <1>1, <1>2, <1>3, <1>4, <1>6 DEF Reaches
<1> QED
  BY <1>3, <1>5, <1>6 DEF Shows

Parts(k, e, n, l, r) ==
  /\ l \in Seq(Of(k)) /\ Len(l) = n /\ IsInjective(l)
  /\ Range(l) \subseteq Range(e) /\ Range(l) \cap Range(r) = {}
  /\ Range(e) \subseteq Range(l) \cup Range(r)
  /\ Range(r) \subseteq Range(e) \cup {NoPost}

\* The slots above the one that was set to "No filter", and the others.
LEMMA Parted ==
  ASSUME NEW k, NEW e, NEW s, Reaches(k, e, s), NEW i \in 1 .. Len(s)
  PROVE  Parts(k, e, i - 1, SubSeq(s, 1, i - 1), SubSeq(s, i, Len(s)))
<1> PICK l : l = SubSeq(s, 1, i - 1)
  OBVIOUS
<1> PICK r : r = SubSeq(s, i, Len(s))
  OBVIOUS
<1>1. /\ e \in Seq(Of(k)) /\ IsInjective(e) /\ Len(e) \in Nat /\ Len(s) \in Nat
      /\ s \in Seq(Posts \cup {NoPost})
      /\ \A j \in 1 .. Len(e) : s[j] = e[j] /\ s[j] \in Of(k) /\ s[j] # NoPost
      /\ Len(s) = Len(e) \/ (Len(s) = Len(e) + 1 /\ s[Len(e) + 1] = NoPost)
  BY DEF Reaches
<1>2. i \in Nat /\ 1 <= i /\ i <= Len(s) /\ i - 1 \in Nat /\ i - 1 <= Len(e)
  BY <1>1
<1>3. /\ Len(l) = i - 1 /\ DOMAIN l = 1 .. i - 1 /\ DOMAIN e = 1 .. Len(e)
      /\ \A j \in 1 .. i - 1 : j \in 1 .. Len(e) /\ l[j] = e[j]
  <2>1. /\ Len(l) = i - 1 /\ DOMAIN l = 1 .. i - 1 /\ DOMAIN e = 1 .. Len(e)
        /\ \A j \in 1 .. i - 1 : l[j] = s[j]
    BY <1>1, <1>2, SubSeqProperties
  <2>2. \A j \in 1 .. i - 1 : j \in 1 .. Len(e)
    BY <1>1, <1>2
  <2> QED
    BY <1>1, <2>1, <2>2
<1>4. l \in Seq(Of(k))
  <2>1. l \in Seq(Posts \cup {NoPost})
    BY <1>1, <1>2, SubSeqProperties
  <2>2. \A j \in 1 .. Len(l) : l[j] \in Of(k)
    BY <1>1, <1>3
  <2> QED
    BY <2>1, <2>2
<1>5. /\ DOMAIN r = 1 .. Len(s) - i + 1
      /\ \A j \in 1 .. Len(s) - i + 1 : r[j] = s[i + j - 1]
  BY <1>1, <1>2, SubSeqProperties
<1>6. \A x \in Range(r) : \E j \in i .. Len(s) : x = s[j]
  <2>1. \A j \in 1 .. Len(s) - i + 1 : i + j - 1 \in i .. Len(s)
    BY <1>1, <1>2
  <2> QED
    BY <1>5, <2>1 DEF Range
<1>7. \A j \in i .. Len(s) : s[j] \in Range(r)
  <2>1. ASSUME NEW j \in i .. Len(s) PROVE s[j] \in Range(r)
    <3>1. j - i + 1 \in 1 .. Len(s) - i + 1 /\ i + (j - i + 1) - 1 = j
      BY <1>1, <1>2
    <3>2. r[j - i + 1] = s[j]
      BY <1>5, <3>1
    <3> QED
      BY <1>5, <3>1, <3>2 DEF Range
  <2> QED
    BY <2>1
<1>8. Range(l) \subseteq Range(e)
  BY <1>3 DEF Range
<1>9. Range(l) \cap Range(r) = {}
  <2>1. ASSUME NEW j \in 1 .. i - 1, NEW m \in i .. Len(s) PROVE l[j] # s[m]
    <3>1. j \in 1 .. Len(e) /\ j # m /\ l[j] = e[j] /\ (m \in 1 .. Len(e) \/ m = Len(e) + 1)
      BY <1>1, <1>2, <1>3
    <3>2. CASE m \in 1 .. Len(e)
      BY <1>1, <1>3, <3>1, <3>2 DEF IsInjective
    <3>3. CASE m \notin 1 .. Len(e)
      BY <1>1, <3>1, <3>3
    <3> QED
      BY <3>2, <3>3
  <2> QED
    BY <1>3, <1>6, <2>1 DEF Range
<1>10. Range(e) \subseteq Range(l) \cup Range(r)
  <2>1. ASSUME NEW j \in 1 .. Len(e) PROVE e[j] \in Range(l) \cup Range(r)
    <3>1. j \in 1 .. i - 1 \/ (j \in i .. Len(s) /\ s[j] = e[j])
      BY <1>1, <1>2
    <3> QED
      BY <1>3, <1>7, <3>1 DEF Range
  <2> QED
    BY <1>3, <2>1 DEF Range
<1>11. Range(r) \subseteq Range(e) \cup {NoPost}
  <2>1. ASSUME NEW j \in i .. Len(s) PROVE s[j] \in Range(e) \cup {NoPost}
    <3>1. (j \in 1 .. Len(e) /\ s[j] = e[j]) \/ s[j] = NoPost
      BY <1>1, <1>2
    <3> QED
      BY <1>3, <3>1 DEF Range
  <2> QED
    BY <1>6, <2>1
<1>12. IsInjective(l)
  <2>1. ASSUME NEW a \in 1 .. i - 1, NEW b \in 1 .. i - 1, l[a] = l[b] PROVE a = b
    <3>1. a \in 1 .. Len(e) /\ b \in 1 .. Len(e) /\ e[a] = e[b]
      BY <1>3, <2>1
    <3> QED
      BY <1>1, <1>3, <3>1 DEF IsInjective
  <2> QED
    BY <1>3, <2>1 DEF IsInjective
<1> QED
  BY <1>3, <1>4, <1>8, <1>9, <1>10, <1>11, <1>12 DEF Parts

LEMMA SelectNoneKeeps ==
  ASSUME IInv, NEW k \in Kind, NEW i \in 1 .. MaxSlots, SelectNone(k, i)
  PROVE  IInv'
<1>1. Edit /\ open[k] /\ i \in DOMAIN slots[k]
  BY DEF SelectNone, Displayed
<1>2. PICK e : e = elements[k]
  OBVIOUS
<1>3. PICK s : s = slots[k]
  OBVIOUS
<1>4. Reaches(k, e, s) /\ first[k] \in Nat /\ first[k] <= LastFirst(Len(s))
  BY <1>1, <1>2, <1>3, Slots
<1>5. i \in 1 .. Len(s) /\ i \in Nat /\ i <= MaxSlots /\ Len(s) \in Nat
  BY <1>1, <1>3, <1>4, PostAssumption DEF Reaches
<1>6. PICK l : l = SubSeq(s, 1, i - 1)
  OBVIOUS
<1>7. PICK r : r = SubSeq(s, i, Len(s))
  OBVIOUS
<1>8. Parts(k, e, i - 1, l, r)
  BY <1>4, <1>5, <1>6, <1>7, Parted
<1>9. live' = (live \ Range(elements[k])) \cup Range(l)
  <2>1. live' = live \ Range(r)
    BY <1>3, <1>7 DEF SelectNone
  <2>2. NoPost \notin live /\ Range(elements[k]) \subseteq live
    BY Pools DEF IInv, Living, Kept, Kind
  <2> QED
    BY <1>2, <1>8, <2>1, <2>2 DEF Parts
<1>10. PICK new : new = Append(l, NoPost)
  OBVIOUS
<1>11. Shows(new, l) /\ Len(new) = i
  BY <1>5, <1>8, <1>10, WithNone DEF Shows, Parts
<1>12. Edited(k, new)
  BY <1>3, <1>6, <1>10 DEF SelectNone
<1>13. PICK f : f = IF i <= MaxDisplay THEN 0
                    ELSE IF i - first[k] < MaxDisplay THEN i - MaxDisplay ELSE first[k]
  OBVIOUS
<1>14. f \in Nat /\ f <= LastFirst(i)
  BY <1>4, <1>5, <1>13, PostAssumption DEF LastFirst
<1>15. first' = [first EXCEPT ![k] = f]
  BY <1>13 DEF SelectNone, IInv, Settled
<1> QED
  BY <1>1, <1>5, <1>8, <1>9, <1>11, <1>12, <1>14, <1>15, EditKeeps DEF Parts

\* A sequence with one more element, as a function.
Longer(a, s, q, S) ==
  /\ a = Append(s, q) /\ a \in [1 .. Len(s) + 1 -> S \cup {q}]
  /\ a[Len(s) + 1] = q /\ \A m \in 1 .. Len(s) : a[m] = s[m]

LEMMA Appended ==
  ASSUME NEW S, NEW s \in Seq(S), NEW q
  PROVE  \E a : Longer(a, s, q, S)
<1>1. s \in Seq(S \cup {q}) /\ q \in S \cup {q}
  BY SeqMonotonic
<1>2. /\ Append(s, q) \in Seq(S \cup {q}) /\ Len(Append(s, q)) = Len(s) + 1
      /\ Append(s, q)[Len(s) + 1] = q /\ \A m \in 1 .. Len(s) : Append(s, q)[m] = s[m]
  BY <1>1, AppendProperties
<1>3. PICK a : a = Append(s, q)
  OBVIOUS
<1>4. a \in [1 .. Len(s) + 1 -> S \cup {q}]
  <2>1. a \in Seq(S \cup {q}) /\ Len(a) = Len(s) + 1
    BY <1>2, <1>3
  <2> QED
    BY <2>1
<1> QED
  BY <1>2, <1>3, <1>4 DEF Longer

Another(S, e, i, p, o) ==
  /\ o \in Seq(S) /\ Len(o) = Len(e) /\ IsInjective(o)
  /\ Range(o) = (Range(e) \ {e[i]}) \cup {p}
  /\ \A q : Append(o, q) = [Append(e, q) EXCEPT ![i] = p]

\* A chain with another post at one place.
LEMMA OtherPost ==
  ASSUME NEW S, NEW e \in Seq(S), IsInjective(e), NEW i \in 1 .. Len(e),
         NEW p \in S, p \notin Range(e)
  PROVE  Another(S, e, i, p, [e EXCEPT ![i] = p])
<1> PICK o : o = [e EXCEPT ![i] = p]
  OBVIOUS
<1>1. Len(e) \in Nat /\ DOMAIN e = 1 .. Len(e) /\ e \in [1 .. Len(e) -> S]
  OBVIOUS
<1>2. o \in [1 .. Len(e) -> S] /\ \A j \in 1 .. Len(e) : o[j] = IF j = i THEN p ELSE e[j]
  BY <1>1
<1>3. o \in Seq(S) /\ Len(o) = Len(e)
  BY <1>1, <1>2
<1>4. \A j \in 1 .. Len(e) : e[j] # p /\ e[j] \in Range(e)
  BY <1>1 DEF Range
<1>5. IsInjective(o)
  BY <1>1, <1>2, <1>4 DEF IsInjective
<1>6. Range(o) = (Range(e) \ {e[i]}) \cup {p}
  <2>1. ASSUME NEW x \in Range(o) PROVE x \in (Range(e) \ {e[i]}) \cup {p}
    <3>1. PICK j \in 1 .. Len(e) : x = o[j]
      BY <1>2 DEF Range
    <3> QED
      BY <1>1, <1>2, <1>4, <3>1 DEF IsInjective
  <2>2. ASSUME NEW x \in (Range(e) \ {e[i]}) PROVE x \in Range(o)
    <3>1. PICK j \in 1 .. Len(e) : x = e[j]
      BY <1>1 DEF Range
    <3>2. o[j] = x
      BY <1>2, <3>1
    <3> QED
      BY <1>2, <3>2 DEF Range
  <2>3. p \in Range(o)
    BY <1>2 DEF Range
  <2> QED
    BY <2>1, <2>2, <2>3
<1>7. ASSUME NEW q PROVE Append(o, q) = [Append(e, q) EXCEPT ![i] = p]
  <2>0. PICK x : Longer(x, o, q, S)
    BY <1>3, Appended
  <2>1. PICK y : Longer(y, e, q, S)
    BY Appended
  <2>2. i # Len(e) + 1 /\ i \in 1 .. Len(e) + 1
    BY <1>1
  <2>3. \A j \in 1 .. Len(e) + 1 : j = Len(e) + 1 \/ j \in 1 .. Len(e)
    BY <1>1
  <2>4. x = [y EXCEPT ![i] = p]
    BY <1>2, <1>3, <2>0, <2>1, <2>2, <2>3, ZenonT(40) DEF Longer
  <2> QED
    BY <2>0, <2>1, <2>4 DEF Longer
<1> QED
  BY <1>3, <1>5, <1>6, <1>7 DEF Another

Reordered(S, e, i, j, o) ==
  /\ o \in Seq(S) /\ Len(o) = Len(e) /\ IsInjective(o) /\ Range(o) = Range(e)
  /\ \A q : Append(o, q) = Swap(Append(e, q), i, j)

\* A chain with two posts exchanged.
LEMMA Exchanged ==
  ASSUME NEW S, NEW e \in Seq(S), IsInjective(e), NEW i \in 1 .. Len(e), NEW j \in 1 .. Len(e)
  PROVE  Reordered(S, e, i, j, Swap(e, i, j))
<1> PICK o : o = Swap(e, i, j)
  OBVIOUS
<1>1. Len(e) \in Nat /\ DOMAIN e = 1 .. Len(e) /\ e \in [1 .. Len(e) -> S]
  OBVIOUS
<1>2. o \in [1 .. Len(e) -> S]
        /\ \A m \in 1 .. Len(e) : o[m] = IF m = j THEN e[i] ELSE IF m = i THEN e[j] ELSE e[m]
  BY <1>1 DEF Swap
<1>3. o \in Seq(S) /\ Len(o) = Len(e)
  BY <1>1, <1>2
<1>4. IsInjective(o)
  BY <1>1, <1>2 DEF IsInjective
<1>5. Range(o) = Range(e)
  <2>1. ASSUME NEW m \in 1 .. Len(e) PROVE o[m] \in Range(e)
    BY <1>1, <1>2 DEF Range
  <2>2. ASSUME NEW m \in 1 .. Len(e) PROVE e[m] \in Range(o)
    <3>1. e[m] = o[IF m = i THEN j ELSE IF m = j THEN i ELSE m]
      BY <1>2
    <3> QED
      BY <1>2, <3>1 DEF Range
  <2> QED
    BY <1>1, <1>2, <2>1, <2>2, ZenonT(40) DEF Range
<1>6. ASSUME NEW q PROVE Append(o, q) = Swap(Append(e, q), i, j)
  <2>0. PICK x : Longer(x, o, q, S)
    BY <1>3, Appended
  <2>1. PICK y : Longer(y, e, q, S)
    BY Appended
  <2>2. i # Len(e) + 1 /\ i \in 1 .. Len(e) + 1 /\ j # Len(e) + 1 /\ j \in 1 .. Len(e) + 1
    BY <1>1
  <2>3. \A m \in 1 .. Len(e) + 1 : m = Len(e) + 1 \/ m \in 1 .. Len(e)
    BY <1>1
  <2>4. x = Swap(y, i, j)
    BY <1>2, <1>3, <2>0, <2>1, <2>2, <2>3, ZenonT(40) DEF Swap, Longer
  <2> QED
    BY <2>0, <2>1, <2>4 DEF Longer
<1> QED
  BY <1>3, <1>4, <1>5, <1>6 DEF Reordered

Grown(S, e, p, o) ==
  o \in Seq(S) /\ IsInjective(o) /\ Range(o) = Range(e) \cup {p} /\ o # <<>>

\* A chain with one more post.
LEMMA OneMore ==
  ASSUME NEW S, NEW e \in Seq(S), IsInjective(e), NEW p \in S, p \notin Range(e)
  PROVE  Grown(S, e, p, Append(e, p))
<1> PICK o : o = Append(e, p)
  OBVIOUS
<1>1. Len(e) \in Nat /\ DOMAIN e = 1 .. Len(e) /\ \A j \in 1 .. Len(e) : e[j] \in Range(e)
  BY DEF Range
<1>2. Longer(o, e, p, S)
  <2>1. PICK a : Longer(a, e, p, S)
    BY Appended
  <2>2. a = o
    BY <2>1 DEF Longer
  <2> QED
    BY <2>1, <2>2
<1>3. /\ o \in Seq(S) /\ o # <<>> /\ DOMAIN o = 1 .. Len(e) + 1
      /\ \A j \in 1 .. Len(e) + 1 :
           (j = Len(e) + 1 /\ o[j] = p) \/ (j \in 1 .. Len(e) /\ o[j] = e[j])
  BY <1>1, <1>2 DEF Longer
<1>4. IsInjective(o)
  BY <1>1, <1>3 DEF IsInjective
<1>5. Range(o) = Range(e) \cup {p}
  <2>1. \A j \in 1 .. Len(e) : j \in 1 .. Len(e) + 1 /\ o[j] = e[j]
    BY <1>1, <1>3
  <2>2. Len(e) + 1 \in 1 .. Len(e) + 1 /\ o[Len(e) + 1] = p
    BY <1>1, <1>3
  <2> QED
    BY <1>1, <1>3, <2>1, <2>2 DEF Range
<1> QED
  BY <1>3, <1>4, <1>5 DEF Grown

\* The chain after a post was chosen for a slot, and what the slots show of it.
Chosen(k, e, s, i, p, o) ==
  /\ o \in Seq(Of(k)) /\ IsInjective(o) /\ o # <<>>
  /\ Range(o) = (Range(e) \ {s[i]}) \cup {p}
  /\ \/ [s EXCEPT ![i] = p] = o
     \/ [s EXCEPT ![i] = p] = Append(o, NoPost) /\ i # Len(s)

LEMMA PostChosen ==
  ASSUME NEW k \in Kind, NEW e, NEW s, Reaches(k, e, s), NEW i \in 1 .. Len(s),
         NEW p \in Of(k), p \notin Range(e)
  PROVE  \E o : Chosen(k, e, s, i, p, o)
<1>1. /\ e \in Seq(Of(k)) /\ IsInjective(e) /\ Len(e) \in Nat /\ Len(s) \in Nat
      /\ \A j \in 1 .. Len(e) : s[j] = e[j]
      /\ Len(s) = Len(e) \/ (Len(s) = Len(e) + 1 /\ s[Len(e) + 1] = NoPost)
      /\ s = e \/ s = Append(e, NoPost)
  BY DEF Reaches, Shows
<1>2. CASE i \in 1 .. Len(e)
  <2>1. PICK o : o = [e EXCEPT ![i] = p]
    OBVIOUS
  <2>2. Another(Of(k), e, i, p, o)
    BY <1>1, <1>2, <2>1, OtherPost
  <2>3. o # <<>>
    BY <1>1, <1>2, <2>2 DEF Another
  <2>4. CASE s = e
    BY <1>1, <1>2, <2>1, <2>2, <2>3, <2>4 DEF Another, Chosen
  <2>5. CASE s = Append(e, NoPost)
    <3>1. Len(s) = Len(e) + 1 /\ i # Len(s)
      BY <1>1, <1>2, <2>5
    <3> QED
      BY <1>1, <1>2, <2>2, <2>3, <2>5, <3>1 DEF Another, Chosen
  <2> QED
    BY <1>1, <2>4, <2>5
<1>3. CASE i \notin 1 .. Len(e)
  <2>1. i = Len(e) + 1 /\ Len(s) = Len(e) + 1 /\ s = Append(e, NoPost) /\ s[i] = NoPost
    BY <1>1, <1>3
  <2>2. PICK o : o = Append(e, p)
    OBVIOUS
  <2>3. Grown(Of(k), e, p, o)
    BY <1>1, <2>2, OneMore
  <2>4. NoPost \notin Range(e)
    BY <1>1, FiniteRange, Pools
  <2>5. [s EXCEPT ![i] = p] = o
    <3>1. PICK x : Longer(x, e, p, Of(k))
      BY <1>1, Appended
    <3>2. PICK y : Longer(y, e, NoPost, Of(k))
      BY <1>1, Appended
    <3>3. \A m \in 1 .. Len(e) + 1 : m = Len(e) + 1 \/ m \in 1 .. Len(e)
      BY <1>1
    <3>4. x = [y EXCEPT ![i] = p]
      BY <2>1, <3>1, <3>2, <3>3 DEF Longer
    <3> QED
      BY <2>1, <2>2, <3>1, <3>2, <3>4 DEF Longer
  <2> QED
    BY <2>1, <2>3, <2>4, <2>5 DEF Chosen, Grown
<1> QED
  BY <1>2, <1>3

LEMMA SelectFilterKeeps ==
  ASSUME IInv, NEW k \in Kind, NEW i \in 1 .. MaxSlots, SelectFilter(k, i)
  PROVE  IInv'
<1>1. Edit /\ open[k] /\ i \in DOMAIN slots[k] /\ UNCHANGED first
  BY DEF SelectFilter, Displayed
<1>2. PICK e : e = elements[k]
  OBVIOUS
<1>3. PICK s : s = slots[k]
  OBVIOUS
<1>4. Reaches(k, e, s) /\ first[k] \in Nat /\ first[k] <= LastFirst(Len(s))
  BY <1>1, <1>2, <1>3, Slots
<1>5. i \in 1 .. Len(s) /\ i \in Nat /\ Len(s) \in Nat /\ Len(s) <= MaxSlots
  BY <1>1, <1>3, <1>4, PostAssumption DEF Reaches
<1>6. PICK p : p = Fresh(k)
  OBVIOUS
<1>7. p \in Of(k) /\ p \notin live /\ Range(e) \subseteq live /\ NoPost \notin live
  BY <1>2, <1>6, FreshPost, Pools DEF IInv, Living, Kept, Kind
<1>8. PICK o : Chosen(k, e, s, i, p, o)
  BY <1>4, <1>5, <1>7, PostChosen
<1>9. PICK set : set = [s EXCEPT ![i] = p]
  OBVIOUS
<1>10. PICK new : new = IF i = Len(set) /\ i < MaxSlots THEN Append(set, NoPost) ELSE set
  OBVIOUS
<1>11. live' = (live \ Range(elements[k])) \cup Range(o)
  <2>1. live' = (live \ {s[i]}) \cup {p}
    BY <1>3, <1>6 DEF SelectFilter
  <2>2. s[i] \in Range(e) \/ s[i] = NoPost
    <3>1. i \in 1 .. Len(e) \/ s[i] = NoPost
      BY <1>4, <1>5 DEF Reaches
    <3>2. \A j \in 1 .. Len(e) : s[j] = e[j] /\ j \in DOMAIN e
      BY <1>4 DEF Reaches
    <3> QED
      BY <3>1, <3>2 DEF Range
  <2> QED
    BY <1>2, <1>7, <1>8, <2>1, <2>2 DEF Chosen
<1>12. Len(set) = Len(s)
  BY <1>4, <1>5, <1>9 DEF Reaches
<1>13. Shows(new, o) /\ Len(new) \in Nat /\ Len(new) <= MaxSlots /\ Len(s) <= Len(new)
  <2>1. Len(o) \in Nat /\ o \in Seq(Of(k)) /\ o # <<>>
    BY <1>8 DEF Chosen
  <2>2. CASE set = o
    <3>1. CASE i = Len(set) /\ i < MaxSlots
      <4>1. new = Append(o, NoPost) /\ Len(new) = Len(o) + 1
        BY <1>10, <2>1, <2>2, <3>1, WithNone
      <4> QED
        BY <1>5, <1>12, <2>1, <2>2, <3>1, <4>1, PostAssumption DEF Shows
    <3>2. CASE ~(i = Len(set) /\ i < MaxSlots)
      BY <1>5, <1>10, <1>12, <2>1, <2>2, <3>2 DEF Shows
    <3> QED
      BY <3>1, <3>2
  <2>3. CASE set = Append(o, NoPost) /\ i # Len(s)
    BY <1>5, <1>10, <1>12, <2>1, <2>3 DEF Shows
  <2> QED
    BY <1>8, <1>9, <2>2, <2>3 DEF Chosen
<1>14. first[k] <= LastFirst(Len(new)) /\ first' = [first EXCEPT ![k] = first[k]]
  <2>1. first[k] <= LastFirst(Len(new))
    BY <1>4, <1>5, <1>13, PostAssumption DEF LastFirst
  <2> QED
    BY <1>1, <2>1 DEF IInv, Settled
<1>15. Edited(k, new)
  BY <1>3, <1>6, <1>9, <1>10 DEF SelectFilter
<1> QED
  BY <1>1, <1>4, <1>8, <1>11, <1>13, <1>14, <1>15, EditKeeps DEF Chosen

\* Two posts of a chain, exchanged in the window.
Moved(k, e, s, i, j, o, new) ==
  Reordered(Of(k), e, i, j, o) /\ Shows(new, o) /\ Len(new) = Len(s)

LEMMA PostsExchanged ==
  ASSUME NEW k \in Kind, NEW e, NEW s, Reaches(k, e, s),
         NEW i \in 1 .. Len(e), NEW j \in 1 .. Len(e)
  PROVE  Moved(k, e, s, i, j, Swap(e, i, j), Swap(s, i, j))
<1>1. /\ e \in Seq(Of(k)) /\ IsInjective(e) /\ Len(e) \in Nat /\ Len(s) \in Nat
      /\ (s = e /\ e # <<>>) \/ s = Append(e, NoPost)
  BY DEF Reaches, Shows
<1>2. PICK o : o = Swap(e, i, j)
  OBVIOUS
<1>3. Reordered(Of(k), e, i, j, o)
  BY <1>1, <1>2, Exchanged
<1>4. Len(Swap(s, i, j)) = Len(s)
  BY DEF Swap, Reaches
<1>5. Shows(Swap(s, i, j), o)
  <2>1. CASE s = e /\ e # <<>>
    <3>1. o # <<>>
      BY <1>1, <1>3, <2>1 DEF Reordered
    <3> QED
      BY <1>2, <2>1, <3>1 DEF Shows
  <2>2. CASE s = Append(e, NoPost)
    BY <1>3, <2>2 DEF Shows, Reordered
  <2> QED
    BY <1>1, <2>1, <2>2
<1> QED
  BY <1>2, <1>3, <1>4, <1>5 DEF Moved

\* MoveUp and MoveDown.
LEMMA SwapKeeps ==
  ASSUME IInv, NEW k \in Kind, Edit, open[k], UNCHANGED <<first, live>>,
         NEW i \in 1 .. Len(slots[k]), slots[k][i] # NoPost,
         NEW j \in 1 .. Len(slots[k]), slots[k][j] # NoPost,
         Edited(k, Swap(slots[k], i, j))
  PROVE  IInv'
<1>1. PICK e : e = elements[k]
  OBVIOUS
<1>2. PICK s : s = slots[k]
  OBVIOUS
<1>3. Reaches(k, e, s) /\ first[k] \in Nat /\ first[k] <= LastFirst(Len(s))
  BY <1>1, <1>2, Slots
<1>4. i \in 1 .. Len(e) /\ j \in 1 .. Len(e)
  BY <1>2, <1>3 DEF Reaches
<1>5. PICK o : o = Swap(e, i, j)
  OBVIOUS
<1>6. PICK new : new = Swap(s, i, j)
  OBVIOUS
<1>7. Moved(k, e, s, i, j, o, new)
  BY <1>3, <1>4, <1>5, <1>6, PostsExchanged
<1>8. live' = (live \ Range(elements[k])) \cup Range(o)
  <2>1. Range(elements[k]) \subseteq live
    BY DEF IInv, Living, Kept, Kind
  <2> QED
    BY <1>1, <1>7, <2>1 DEF Moved, Reordered
<1>9. first' = [first EXCEPT ![k] = first[k]]
  BY DEF IInv, Settled
<1>10. Edited(k, new) /\ Shows(new, o) /\ Len(new) = Len(s) /\ Len(s) <= MaxSlots
  BY <1>2, <1>3, <1>6, <1>7 DEF Reaches, Moved
<1> QED
  BY <1>3, <1>8, <1>9, <1>10, <1>7, EditKeeps DEF Moved, Reordered

LEMMA MoveKeeps ==
  ASSUME IInv, NEW k \in Kind, NEW i \in 1 .. MaxSlots, MoveUp(k, i) \/ MoveDown(k, i)
  PROVE  IInv'
<1>1. open[k] /\ i \in 1 .. Len(slots[k]) /\ Len(slots[k]) \in Nat
  BY DEF MoveUp, MoveDown, Displayed, IInv, Chained
<1>2. CASE MoveUp(k, i)
  <2>1. /\ Edit /\ i > 1 /\ slots[k][i] # NoPost
        /\ Edited(k, Swap(slots[k], i, i - 1)) /\ UNCHANGED <<first, live>>
    BY <1>2 DEF MoveUp
  <2>2. i - 1 \in 1 .. Len(slots[k]) /\ slots[k][i - 1] # NoPost
    <3>1. Reaches(k, elements[k], slots[k])
      BY <1>1, Slots
    <3>2. i - 1 \in 1 .. Len(slots[k]) /\ i - 1 \in 1 .. Len(elements[k])
      BY <1>1, <2>1, <3>1 DEF Reaches
    <3> QED
      BY <3>1, <3>2 DEF Reaches
  <2> QED
    BY <1>1, <2>1, <2>2, SwapKeeps
<1>3. CASE MoveDown(k, i)
  <2>1. /\ Edit /\ i < Len(slots[k]) /\ slots[k][i] # NoPost /\ slots[k][i + 1] # NoPost
        /\ Edited(k, Swap(slots[k], i, i + 1)) /\ UNCHANGED <<first, live>>
    BY <1>3 DEF MoveDown
  <2>2. i + 1 \in 1 .. Len(slots[k])
    BY <1>1, <2>1
  <2> QED
    BY <1>1, <2>1, <2>2, SwapKeeps
<1> QED
  BY <1>2, <1>3


-----------------------------------------------------------------------------
(* The invariant, and what follows from it. *)
LEMMA Numbered ==
  ASSUME NEW k, NEW n \in Nat, NEW s, s = [i \in 1 .. n |-> <<k, i>>]
  PROVE  s \in Seq(Of(k)) /\ Len(s) = n /\ IsInjective(s)
<1>1. \A i \in 1 .. n : i \in Nat \ {0} /\ <<k, i>> \in Of(k)
  BY DEF Of
<1>2. s \in [1 .. n -> Of(k)]
  BY <1>1
<1>3. s \in Seq(Of(k)) /\ Len(s) = n
  BY <1>2
<1>4. \A i \in 1 .. n : s[i][2] = i
  OBVIOUS
<1>5. IsInjective(s)
  BY <1>2, <1>4 DEF IsInjective
<1> QED
  BY <1>3, <1>5

LEMMA Starts ==
  ASSUME Init
  PROVE  IInv
<1>1. PICK n \in [Kind -> 0 .. MaxFilters] :
        elements = [k \in Kind |-> [i \in 1 .. n[k] |-> <<k, i>>]]
  BY DEF Init
<1>2. PICK m \in 0 .. 1 : deint = [i \in 1 .. m |-> <<"deint", i>>]
  BY DEF Init
<1>3. PICK on \in BOOLEAN : enable = [k \in Kind |-> on]
  BY DEF Init
<1>4. ASSUME NEW k \in Kind
      PROVE  /\ elements[k] \in Seq(Of(k)) /\ IsInjective(elements[k])
             /\ Len(elements[k]) <= MaxSlots
  <2>1. elements[k] = [i \in 1 .. n[k] |-> <<k, i>>] /\ n[k] \in Nat /\ n[k] <= MaxSlots
    BY <1>1, PostAssumption
  <2> QED
    BY <2>1, Numbered
<1>5. deint \in Seq(Of("deint")) /\ Len(deint) <= 1
  <2>1. m \in Nat /\ m <= 1
    OBVIOUS
  <2> QED
    BY <1>2, <2>1, Numbered
<1>6. visual \in Of("visual") \cup {NoPost} /\ (visual = NoPost \/ visual \in Posts)
  <2>1. <<"visual", 1>> \in Of("visual")
    BY DEF Of
  <2>2. visual \in {NoPost, <<"visual", 1>>}
    BY DEF Init
  <2> QED
    BY <2>1, <2>2, Pools
<1>7. Settled
  <2>1. /\ phase = "run" /\ open = [k \in Kind |-> FALSE] /\ first = [k \in Kind |-> 0]
        /\ ~deinterlace /\ deinterlace \in BOOLEAN /\ oldMethod \in BOOLEAN
        /\ ignore \in BOOLEAN /\ enabled \in Off .. StreamAnim /\ running = No
    BY DEF Init
  <2>2. /\ anim \in BOOLEAN /\ ended \in BOOLEAN
        /\ hasVideo \in BOOLEAN /\ playing \in BOOLEAN /\ shown \in BOOLEAN /\ edits = 0
    BY DEF Init
  <2>3. enable \in [Kind -> BOOLEAN]
    BY <1>3
  <2>4. No \in No .. Hidden /\ 0 \in 0 .. MaxEdits
    BY PostAssumption DEF No, Hidden
  <2> QED
    BY <2>1, <2>2, <2>3, <2>4 DEF Settled
<1>8. elements \in [Kind -> Seq(Posts)]
  <2>1. \A k \in Kind : Of(k) \subseteq Posts
    BY Pools
  <2>2. \A k \in Kind : elements[k] \in Seq(Posts)
    BY <1>4, <2>1, SeqMonotonic
  <2>3. elements = [k \in Kind |-> elements[k]]
    BY <1>1
  <2> QED
    BY <2>2, <2>3
<1>9. Chained
  <2>1. slots \in [Kind -> Seq(Posts \cup {NoPost})]
    BY DEF Init
  <2>2. phase = "run"
    BY DEF Init
  <2> QED
    BY <1>4, <1>5, <1>6, <1>8, <2>1, <2>2 DEF Chained
<1>10. Windows
  BY DEF Init, Windows, Window
<1>11. /\ deint \in Seq(Posts) /\ elements["audio"] \in Seq(Posts)
       /\ elements["video"] \in Seq(Posts)
  <2>1. Of("deint") \subseteq Posts
    BY Pools
  <2> QED
    BY <1>5, <1>8, <2>1, Names, SeqMonotonic
<1>12. Living
  <2>1. live = Kept
    BY DEF Init, Kept
  <2>2. /\ IsFiniteSet(Range(elements["audio"])) /\ Range(elements["audio"]) \subseteq Posts
        /\ IsFiniteSet(Range(elements["video"])) /\ Range(elements["video"]) \subseteq Posts
        /\ IsFiniteSet(Range(deint)) /\ Range(deint) \subseteq Posts
    BY <1>11, FiniteRange
  <2>3. IsFiniteSet({visual} \ {NoPost}) /\ {visual} \ {NoPost} \subseteq Posts
    BY <1>6, FS_Singleton, FS_Difference
  <2> QED
    BY <2>1, <2>2, <2>3, FS_Union DEF Living, Kept
<1>13. Fitting
  BY DEF Init, Fitting, VisualFits, Visualizes, No, Yes, Off
<1>14. Wiring
  <2>1. <<>> \in Seq(Posts) /\ Range(<<>>) = {} /\ phase = "run"
          /\ \A s \in Seq(Posts) : <<>> \o s = s /\ s \o <<>> = s
    BY ConcatEmptySeq DEF Range, Init
  <2>2. wired = [k \in Kind |-> IF enable[k] THEN elements[k] ELSE <<>>]
    BY DEF Init, Unwired
  <2>3. ~deinterlace /\ ignore
    BY DEF Init
  <2>4. wired["video"] = JoinVideo(elements["video"], enable["video"], deint, deinterlace)
    BY <1>11, <2>1, <2>2, <2>3, Names DEF JoinVideo
  <2>5. wired["audio"] = JoinAudio(elements["audio"], enable["audio"], ignore, visual)
    BY <1>11, <2>1, <2>2, <2>3, Names DEF JoinAudio
  <2>6. wired \in [Kind -> Seq(Posts)]
    BY <1>8, <2>1, <2>2
  <2>7. \A p \in Range(wired["audio"]) : enable["audio"] /\ p \in Range(elements["audio"])
    BY <2>1, <2>2, Names
  <2> QED
    BY <2>1, <2>4, <2>5, <2>6, <2>7 DEF Wiring, VideoWires, AudioWires
<1> QED
  BY <1>7, <1>9, <1>10, <1>12, <1>13, <1>14 DEF IInv

LEMMA Steps ==
  ASSUME IInv, [Next]_vars
  PROVE  IInv'
<1>1. CASE \E k \in Kind : Filters(k)
  <2>1. PICK k \in Kind : Filters(k)
    BY <1>1
  <2> QED
    BY <2>1, ShowKeeps, CloseKeeps, EnableKeeps, ScrollKeeps, SelectNoneKeeps,
       SelectFilterKeeps, MoveKeeps DEF Filters
<1>2. CASE Settings
  BY <1>2, ToggleInterlacedKeeps, DeinterlacePluginKeeps, AudioPluginKeeps, VisualAnimKeeps
     DEF Settings
<1>3. CASE Entries
  BY <1>3, OpenKeeps, PlayKeeps, StopKeeps, AnimEndsKeeps, AnimNextKeeps, ToggleVideoKeeps
     DEF Entries
<1>4. CASE Ending
  BY <1>4, GuiExitKeeps, EndWindowsKeeps, DisposeVisualKeeps, PostDeinitKeeps DEF Ending
<1>5. CASE UNCHANGED vars
  BY <1>5, SMTT(30)
     DEF IInv, Settled, Chained, Windows, Window, Living, Kept, Fitting, VisualFits,
         Visualizes, Wiring, VideoWires, AudioWires, vars, window, chains, deints, visuals,
         animation, stream
<1> QED
  BY <1>1, <1>2, <1>3, <1>4, <1>5 DEF Next

(***************************************************************************)
(* Whatever thread or window changes them, in any order, the chains, the   *)
(* wires and the visualization stay in step, for chains of any length and  *)
(* any number of edits.                                                    *)
(***************************************************************************)
THEOREM Inductive == Spec => []IInv
<1>1. Init => IInv
  BY Starts
<1>2. IInv /\ [Next]_vars => IInv'
  BY Steps
<1> QED
  BY <1>1, <1>2, PTL DEF Spec

LEMMA Joined ==
  ASSUME NEW S, NEW s \in Seq(S), NEW t \in Seq(S), IsInjective(s), IsInjective(t),
         Range(s) \cap Range(t) = {}
  PROVE  s \o t \in Seq(S) /\ IsInjective(s \o t) /\ Range(s \o t) = Range(s) \cup Range(t)
<1>1. s \o t \in Seq(S) /\ Range(s \o t) = Range(s) \cup Range(t)
  BY ConcatProperties, RangeConcatenation
<1>2. PICK c : c = s \o t
  OBVIOUS
<1>3. /\ Len(s) \in Nat /\ Len(t) \in Nat /\ DOMAIN s = 1 .. Len(s) /\ DOMAIN t = 1 .. Len(t)
      /\ DOMAIN c = 1 .. Len(s) + Len(t)
      /\ \A i \in 1 .. Len(s) + Len(t) : c[i] = IF i <= Len(s) THEN s[i] ELSE t[i - Len(s)]
  BY <1>2, ConcatProperties
<1>4. ASSUME NEW i \in 1 .. Len(s) + Len(t)
      PROVE  \/ i \in 1 .. Len(s) /\ c[i] = s[i] /\ c[i] \in Range(s)
             \/ /\ i > Len(s) /\ i - Len(s) \in 1 .. Len(t) /\ c[i] = t[i - Len(s)]
                /\ c[i] \in Range(t)
  <2>1. CASE i <= Len(s)
    <3>1. i \in 1 .. Len(s) /\ c[i] = s[i]
      BY <1>3, <2>1
    <3> QED
      BY <1>3, <3>1 DEF Range
  <2>2. CASE i > Len(s)
    <3>1. i - Len(s) \in 1 .. Len(t) /\ c[i] = t[i - Len(s)]
      BY <1>3, <2>2
    <3> QED
      BY <1>3, <2>2, <3>1 DEF Range
  <2> QED
    BY <1>3, <2>1, <2>2
<1>5. ASSUME NEW i \in 1 .. Len(s) + Len(t), NEW j \in 1 .. Len(s) + Len(t), c[i] = c[j]
      PROVE  i = j
  <2>1. CASE i \in 1 .. Len(s) /\ j \in 1 .. Len(s)
    BY <1>3, <1>4, <1>5, <2>1 DEF IsInjective
  <2>2. CASE i > Len(s) /\ j > Len(s)
    <3>1. i - Len(s) \in 1 .. Len(t) /\ j - Len(s) \in 1 .. Len(t) /\ t[i - Len(s)] = t[j - Len(s)]
      BY <1>3, <1>4, <1>5, <2>2
    <3>2. i - Len(s) = j - Len(s)
      BY <1>3, <3>1 DEF IsInjective
    <3> QED
      BY <1>3, <3>2
  <2> QED
    BY <1>3, <1>4, <1>5, <2>1, <2>2
<1> QED
  BY <1>1, <1>2, <1>3, <1>5 DEF IsInjective

LEMMA TypeFollows ==
  ASSUME IInv
  PROVE  TypeOK
<1>1. ASSUME NEW k \in Kind
      PROVE  SlotsOK(k) /\ Range(slots[k]) \subseteq Posts \cup {NoPost}
  <2>1. slots[k] \in Seq(Posts \cup {NoPost}) /\ elements[k] \in Seq(Posts) /\ Window(k)
    BY DEF IInv, Chained, Windows
  <2>2. Range(slots[k]) \subseteq Posts \cup {NoPost}
    BY <2>1, FiniteRange
  <2>3. CASE ~open[k]
    <3>1. slots[k] = <<>> /\ Len(slots[k]) = 0 /\ DOMAIN slots[k] = {}
      BY <2>1, <2>3 DEF Window
    <3> QED
      BY <2>2, <2>3, <3>1 DEF SlotsOK
  <2>4. CASE open[k]
    <3>1. PICK e : e = elements[k]
      OBVIOUS
    <3>2. PICK s : s = slots[k]
      OBVIOUS
    <3>3. Reaches(k, e, s) /\ first[k] \in Nat /\ first[k] <= LastFirst(Len(s))
      BY <2>4, <3>1, <3>2, Slots
    <3>4. DOMAIN s = 1 .. Len(s) /\ Len(s) \in Nat /\ Len(s) <= MaxSlots
      BY <3>3 DEF Reaches
    <3>5. \A i \in DOMAIN s : s[i] = NoPost => i = Len(s)
      <4>1. \A i \in 1 .. Len(e) : s[i] # NoPost
        BY <3>3 DEF Reaches
      <4>2. \A i \in 1 .. Len(s) : i \in 1 .. Len(e) \/ i = Len(s)
        BY <3>3 DEF Reaches
      <4> QED
        BY <3>4, <4>1, <4>2
    <3>6. Len(s) # 0
      <4>1. CASE s = e /\ e # <<>>
        BY <3>3, <4>1 DEF Reaches
      <4>2. CASE s = Append(e, NoPost)
        BY <3>3, <4>2, WithNone DEF Reaches
      <4> QED
        BY <3>3, <4>1, <4>2 DEF Reaches, Shows
    <3>7. LastFirst(Len(s)) \in Nat
      BY <3>4, PostAssumption DEF LastFirst
    <3>8. Len(s) \in 1 .. MaxSlots /\ first[k] \in 0 .. LastFirst(Len(s))
      BY <3>3, <3>4, <3>6, <3>7, PostAssumption
    <3> QED
      BY <2>2, <2>4, <3>2, <3>5, <3>8 DEF SlotsOK
  <2> QED
    BY <2>3, <2>4
<1>2. visual \in Posts \cup {NoPost}
  BY Pools DEF IInv, Chained
<1> QED
  BY <1>1, <1>2 DEF IInv, Settled, Living, TypeOK

LEMMA OwnedFollows ==
  ASSUME IInv
  PROVE  Owned
<1>1. \A k \in Kind : elements[k] = SaveChain(k)
  BY Saved
<1>2. PICK a : a = elements["audio"]
  OBVIOUS
<1>3. PICK v : v = elements["video"]
  OBVIOUS
<1>4. PICK d : d = deint
  OBVIOUS
<1>5. PICK o : o = IF visual = NoPost THEN <<>> ELSE <<visual>>
  OBVIOUS
<1>6. /\ a \in Seq(Posts) /\ IsInjective(a) /\ v \in Seq(Posts) /\ IsInjective(v)
      /\ d \in Seq(Posts)
  BY <1>2, <1>3, <1>4, Chains, Names DEF IInv, Chained
<1>7. IsInjective(d)
  BY <1>4, <1>6 DEF IInv, Chained, IsInjective
<1>8. o \in Seq(Posts) /\ IsInjective(o) /\ Range(o) = {visual} \ {NoPost}
  <2>1. CASE visual = NoPost
    BY <1>5, <2>1 DEF IsInjective, Range
  <2>2. CASE visual # NoPost
    <3>1. visual \in Posts /\ o = <<visual>>
      BY <1>5, <2>2, Pools DEF IInv, Chained
    <3> QED
      BY <2>2, <3>1 DEF IsInjective, Range
  <2> QED
    BY <2>1, <2>2
<1>9. /\ Range(a) \cap Range(v) = {} /\ Range(a) \cap Range(d) = {} /\ Range(a) \cap Range(o) = {}
      /\ Range(v) \cap Range(d) = {} /\ Range(v) \cap Range(o) = {} /\ Range(d) \cap Range(o) = {}
  BY <1>2, <1>3, <1>4, <1>8, Apart, Disjoint, Names
<1>10. PICK x : x = a \o v
  OBVIOUS
<1>11. x \in Seq(Posts) /\ IsInjective(x) /\ Range(x) = Range(a) \cup Range(v)
  BY <1>6, <1>9, <1>10, Joined
<1>12. PICK y : y = x \o d
  OBVIOUS
<1>13. y \in Seq(Posts) /\ IsInjective(y) /\ Range(y) = Range(x) \cup Range(d)
  BY <1>6, <1>7, <1>9, <1>11, <1>12, Joined
<1>14. PICK z : z = y \o o
  OBVIOUS
<1>15. IsInjective(z) /\ Range(z) = Range(y) \cup Range(o)
  BY <1>8, <1>9, <1>11, <1>13, <1>14, Joined
<1>16. Held = z
  BY <1>1, <1>2, <1>3, <1>4, <1>5, <1>10, <1>12, <1>14, Names DEF Held
<1>17. Range(z) = live
  BY <1>2, <1>3, <1>4, <1>8, <1>11, <1>13, <1>15 DEF IInv, Living, Kept
<1>18. phase = "done" => live = {}
  <2>1. SUFFICES ASSUME phase = "done" PROVE live = {}
    OBVIOUS
  <2>2. a = <<>> /\ v = <<>> /\ d = <<>> /\ {visual} \ {NoPost} = {}
    BY <1>2, <1>3, <1>4, <2>1, Names DEF IInv, Chained
  <2>3. Range(<<>>) = {}
    BY DEF Range
  <2>4. Range(a) = {} /\ Range(v) = {} /\ Range(d) = {}
    BY <2>2, <2>3
  <2> QED
    BY <1>8, <1>11, <1>13, <1>15, <1>17, <2>2, <2>4
<1> QED
  BY <1>1, <1>15, <1>16, <1>17, <1>18 DEF Owned

LEMMA WiredFollows ==
  ASSUME IInv
  PROVE  Wired
<1>1. /\ wired["video"] = JoinVideo(elements["video"], enable["video"], deint, deinterlace)
        \/ phase = "done"
      /\ phase = "run" =>
           /\ wired["audio"] = JoinAudio(elements["audio"], enable["audio"], ignore, visual)
           /\ VisualFits
  BY DEF IInv, Wiring, VideoWires, AudioWires, Fitting
<1>2. \A p \in Range(wired["video"]) : p \in live
  <2>1. CASE phase = "done"
    BY <2>1 DEF IInv, Wiring, Range
  <2>2. CASE phase # "done"
    <3>1. Range(wired["video"]) \subseteq Range(elements["video"]) \cup Range(deint)
      BY <1>1, <2>2, Chains, VideoJoined
    <3> QED
      BY <3>1 DEF IInv, Living, Kept
  <2> QED
    BY <2>1, <2>2
<1>3. \A p \in Range(wired["audio"]) : p \in live \/ (p[1] = "visual" /\ visual = NoPost)
  BY DEF IInv, Wiring, AudioWires, Living, Kept
<1>4. phase = "run" => phase # "done"
  OBVIOUS
<1> QED
  BY <1>1, <1>2, <1>3, <1>4 DEF Wired, Kind

\* Every variable keeps its type, and every window a slot the user can reach.
THEOREM TypeCorrect == Spec => []TypeOK
BY Inductive, TypeFollows, PTL

(***************************************************************************)
(* post.c's bookkeeping: every post that xine-lib made is in exactly one   *)
(* chain or setting, and every one there was not disposed.                 *)
(***************************************************************************)
THEOREM PostsOwned == Spec => []Owned
BY Inductive, OwnedFollows, PTL

(***************************************************************************)
(* The posts between the stream and its outputs are the ones of the        *)
(* windows and settings, in their order; the visualization is among them   *)
(* only for a stream without video.                                        *)
(***************************************************************************)
THEOREM WiredAsAsked == Spec => []Wired
BY Inductive, WiredFollows, PTL
=============================================================================
