---------------------------- MODULE ToolkitProofs ----------------------------
(***************************************************************************)
(* What holds of the toolkit: of a widget list for any widgets, of         *)
(* whatever kinds and wherever they are, and of the windows for any        *)
(* helpers and any threads that play.                                      *)
(***************************************************************************)
EXTENDS Widgets, Windows, WellFoundedInduction, SequenceTheorems, FiniteSetTheorems, TLAPS

(***************************************************************************)
(* A widget list: the inductive invariant is what the run checks, and that *)
(* only an enabled widget has the focus bit.                               *)
(***************************************************************************)
FocusEnabled == \A w \in alive : "FOCUS" \in state[w] => "ENABLE" \in state[w]

IInv == TypeOK /\ PointersLive /\ FocusEnabled

(***************************************************************************)
(* What an event may make of the bits: only widgets in the list are        *)
(* written, those with the focus bit are enabled, and one that is disabled *)
(* gets no bit.                                                            *)
(***************************************************************************)
Sound(st) ==
  /\ st \in [Widget -> SUBSET Bit]
  /\ \A w \in alive : "FOCUS" \in st[w] => "ENABLE" \in st[w]
  /\ \A w \in Widget \ alive : st[w] = state[w]
  /\ \A w \in alive : "ENABLE" \notin state[w] \cup st[w] => st[w] \subseteq state[w]

Painted(sh) ==
  /\ sh \in [Widget -> SUBSET Bit]
  /\ \A w \in Widget \ alive : sh[w] = shown[w]

Live == alive \cup {None}

(***************************************************************************)
(* What a step leaves behind that neither deletes nor adds a widget.       *)
(***************************************************************************)
Kept ==
  /\ Sound(state') /\ Painted(shown')
  /\ {focused', under', pressed', clip'} \subseteq Live

-----------------------------------------------------------------------------
LEMMA StartsSound ==
  ASSUME IInv
  PROVE  /\ Sound(state) /\ Painted(shown)
         /\ focused \in Live /\ under \in Live /\ pressed \in Live /\ clip \in Live
         /\ alive \subseteq Widget /\ None \notin Widget
BY WidgetsAssumption DEF IInv, TypeOK, PointersLive, FocusEnabled, Sound, Painted, Live

LEMMA SetSound ==
  ASSUME NEW st, Sound(st), alive \subseteq Widget, NEW w \in Live, NEW new,
         w # None => /\ new \in SUBSET Bit
                     /\ "FOCUS" \in new => "ENABLE" \in new
                     /\ "ENABLE" \in new \/ ("ENABLE" \notin st[w] /\ new \subseteq st[w])
  PROVE  Sound(Set(st, w, new))
BY DEF Sound, Set, Live

LEMMA ClearSound ==
  ASSUME NEW st, Sound(st), alive \subseteq Widget, NEW w \in Live, NEW gone,
         "ENABLE" \notin gone
  PROVE  Sound(Clear(st, w, gone))
BY DEF Sound, Set, Clear, Live

LEMMA SetPainted ==
  ASSUME NEW sh, Painted(sh), alive \subseteq Widget, NEW w \in Live, NEW new,
         w # None => new \in SUBSET Bit
  PROVE  Painted(Set(sh, w, new))
BY DEF Painted, Set, Live

LEMMA PaintPainted ==
  ASSUME NEW st, Sound(st), Painted(shown), alive \subseteq Widget, NEW w \in Live
  PROVE  Painted(Paint(st, w))
BY SetPainted DEF Sound, Paint, Live

LEMMA BitsOf ==
  ASSUME NEW st, Sound(st), alive \subseteq Widget, NEW w \in Live
  PROVE  w # None => /\ w \in alive /\ st[w] \in SUBSET Bit
                     /\ "FOCUS" \in st[w] => "ENABLE" \in st[w]
BY DEF Sound, Live

-----------------------------------------------------------------------------
(***************************************************************************)
(* Finding widgets: what is found is in the list, and enabled.             *)
(***************************************************************************)
LEMMA AtFinds ==
  ASSUME NEW p
  PROVE  At(p) # None => At(p) \in alive /\ "ENABLE" \in state[At(p)]
BY DEF At

LEMMA LeastNatural ==
  ASSUME NEW T, T \subseteq Nat, T # {}
  PROVE  \E m \in T : \A n \in T : m <= n
<1> DEFINE R == OpToRel(<, Nat)
<1>1. \A m, n \in Nat : <<m, n>> \in R <=> m < n
  BY DEF OpToRel
<1>2. IsWellFoundedOn(R, Nat)
  BY NatLessThanWellFounded
<1> HIDE DEF R
<1>3. PICK m \in T : \A n \in T : ~(<<n, m>> \in R)
  BY <1>2, WFMin
<1>4. ASSUME NEW n \in T PROVE m <= n
  <2>1. m \in Nat /\ n \in Nat
    OBVIOUS
  <2>2. ~(n < m)
    BY <1>1, <1>3, <2>1
  <2> QED
    BY <2>1, <2>2
<1> QED
  BY <1>4

\* Of widgets, one comes first in tab order, and one last.
LEMMA OneIsFirst ==
  ASSUME place \in [Widget -> Place], NEW S, S \subseteq Widget, S # {},
         NEW backward \in BOOLEAN
  PROVE  \E w \in S : \A v \in S :
           ~(IF backward THEN place[v] > place[w] ELSE place[v] < place[w])
<1>1. \A w \in S : place[w] \in Nat /\ place[w] <= Areas /\ Areas \in Nat
  BY WidgetsAssumption DEF Place, Area, Outside
<1>2. CASE ~backward
  <2> DEFINE T == {place[w] : w \in S}
  <2>1. T \subseteq Nat /\ T # {}
    BY <1>1
  <2>2. PICK m \in T : \A n \in T : m <= n
    BY <2>1, LeastNatural
  <2>3. PICK w \in S : place[w] = m
    BY <2>2
  <2>4. ASSUME NEW v \in S PROVE ~(place[v] < place[w])
    <3>1. place[v] \in T
      OBVIOUS
    <3> QED
      BY <1>1, <2>2, <2>3, <3>1
  <2> QED
    BY <1>2, <2>4
<1>3. CASE backward
  <2> DEFINE T == {Areas - place[w] : w \in S}
  <2>1. T \subseteq Nat /\ T # {}
    BY <1>1
  <2>2. PICK m \in T : \A n \in T : m <= n
    BY <2>1, LeastNatural
  <2>3. PICK w \in S : Areas - place[w] = m
    BY <2>2
  <2>4. ASSUME NEW v \in S PROVE ~(place[v] > place[w])
    <3>1. Areas - place[v] \in T
      OBVIOUS
    <3> HIDE DEF T
    <3>2. Areas - place[w] <= Areas - place[v]
      BY <2>2, <2>3, <3>1
    <3> QED
      BY <1>1, <3>2
  <2> QED
    BY <1>3, <2>4
<1> QED
  BY <1>2, <1>3

LEMMA NextFocusLive ==
  ASSUME IInv, NEW backward \in BOOLEAN
  PROVE  NextFocus(backward) # None =>
           NextFocus(backward) \in alive /\ "ENABLE" \in state[NextFocus(backward)]
<1> DEFINE tabs == {w \in alive \cap Focusable : "ENABLE" \in state[w]}
           Prior(v, w) == IF backward THEN place[v] > place[w] ELSE place[v] < place[w]
           First(S) == CHOOSE w \in S : \A v \in S : ~Prior(v, w)
           later == IF focused \in tabs THEN {w \in tabs : Prior(focused, w)} ELSE {}
<1>1. NextFocus(backward) = CASE tabs = {} -> None
                              [] later # {} -> First(later)
                              [] OTHER -> First(tabs)
  BY DEF NextFocus
<1>2. tabs \subseteq alive /\ later \subseteq tabs /\ \A w \in tabs : "ENABLE" \in state[w]
  OBVIOUS
<1>3. place \in [Widget -> Place] /\ alive \subseteq Widget
  BY DEF IInv, TypeOK
<1> HIDE DEF tabs, later
<1>4. ASSUME NEW S, S \subseteq alive, S # {} PROVE First(S) \in S
  <2>1. \E w \in S : \A v \in S : ~Prior(v, w)
    BY <1>3, <1>4, OneIsFirst
  <2> QED
    BY <2>1
<1> HIDE DEF First
<1>5. later # {} => First(later) \in tabs
  BY <1>2, <1>4
<1>6. tabs # {} => First(tabs) \in tabs
  BY <1>2, <1>4
<1> QED
  BY <1>1, <1>2, <1>5, <1>6

-----------------------------------------------------------------------------
(***************************************************************************)
(* Moving the keyboard focus                                               *)
(***************************************************************************)
LEMMA FocusOnKeeps ==
  ASSUME IInv, NEW w \in alive, NEW byKey \in BOOLEAN, FocusOn(w, byKey)
  PROVE  /\ Sound(state') /\ Painted(shown') /\ focused' \in Live /\ under' \in Live
<1> DEFINE away == byKey /\ under # None /\ under # w
           st1 == IF away THEN Clear(state, under, {"MOUSE"}) ELSE state
           sh1 == IF away /\ under # focused THEN Paint(st1, under) ELSE shown
           lose == focused \in Focusable /\ "ENABLE" \in st1[focused]
           st2 == IF lose THEN Clear(st1, focused, {"FOCUS"}) ELSE st1
           sh2 == IF lose THEN Set(sh1, focused, st2[focused]) ELSE sh1
           gain == w \in Focusable /\ "ENABLE" \in st2[w]
           st3 == IF gain THEN Set(st2, w, st2[w] \cup {"FOCUS"}) ELSE st2
<1>1. /\ state' = st3 /\ shown' = IF gain THEN Set(sh2, w, st3[w]) ELSE sh2
      /\ focused' = w /\ under' = IF away THEN None ELSE under
  BY DEF FocusOn
<1>2. /\ alive \subseteq Widget /\ None \in Live /\ w \in Live /\ focused \in Live
      /\ under \in Live /\ Sound(state) /\ Painted(shown)
  BY StartsSound DEF Live
<1>3. Sound(st1)
  BY <1>2, ClearSound
<1>4. Painted(sh1)
  BY <1>2, <1>3, PaintPainted
<1> HIDE DEF st1, sh1
<1>5. Sound(st2)
  BY <1>2, <1>3, ClearSound
<1>6. Painted(sh2)
  BY <1>2, <1>4, <1>5, BitsOf, SetPainted
<1> HIDE DEF st2, sh2
<1>7. Sound(st3)
  BY <1>2, <1>5, BitsOf, SetSound DEF Bit
<1> HIDE DEF st3
<1>8. Painted(shown')
  BY <1>1, <1>2, <1>6, <1>7, BitsOf, SetPainted
<1> QED
  BY <1>1, <1>2, <1>7, <1>8

LEMMA FocusNextKeeps ==
  ASSUME IInv, NEW backward \in BOOLEAN, FocusNext(backward)
  PROVE  /\ Sound(state') /\ Painted(shown') /\ focused' \in Live /\ under' \in Live
<1>1. CASE NextFocus(backward) \in {None, focused}
  <2>1. UNCHANGED <<bits, focused, under>>
    BY <1>1 DEF FocusNext
  <2> QED
    BY <2>1, StartsSound DEF bits
<1>2. CASE NextFocus(backward) \notin {None, focused}
  <2>1. NextFocus(backward) \in alive /\ FocusOn(NextFocus(backward), TRUE)
    BY <1>2, NextFocusLive DEF FocusNext, Live
  <2> QED
    BY <2>1, FocusOnKeeps
<1> QED
  BY <1>1, <1>2

-----------------------------------------------------------------------------
(***************************************************************************)
(* Mouse events                                                            *)
(***************************************************************************)
LEMMA ClickDownBits ==
  ASSUME NEW st, Sound(st), alive \subseteq Widget, NEW w \in alive, "ENABLE" \in st[w],
         NEW b
  PROVE  ClickDown(st, w, b) \in SUBSET Bit /\ "ENABLE" \in ClickDown(st, w, b)
BY DEF ClickDown, Sound, Bit

LEMMA DragKeeps ==
  ASSUME IInv, pressed # None, NEW p \in Place, Drag(p)
  PROVE  /\ Sound(state') /\ Painted(shown') /\ focused' \in Live /\ under' \in Live
<1>1. /\ alive \subseteq Widget /\ None \in Live /\ pressed \in alive /\ focused \in Live
      /\ under \in Live /\ Sound(state) /\ Painted(shown)
  BY StartsSound DEF Live
<1>2. Sound(state')
  <2>1. CASE pressed \in Slider
    <3>1. state' = Set(state, pressed, ClickDown(state, pressed, 1))
      BY <2>1 DEF Drag
    <3>2. /\ ClickDown(state, pressed, 1) \in SUBSET Bit
          /\ "FOCUS" \in ClickDown(state, pressed, 1) =>
                "ENABLE" \in ClickDown(state, pressed, 1)
          /\ \/ "ENABLE" \in ClickDown(state, pressed, 1)
             \/ ClickDown(state, pressed, 1) = state[pressed]
      <4>1. \/ ClickDown(state, pressed, 1) = state[pressed]
            \/ /\ "FOCUS" \in state[pressed]
               /\ ClickDown(state, pressed, 1) = state[pressed] \cup {"CLICK"}
        BY <2>1 DEF ClickDown, Slider, Input
      <4> QED
        BY <1>1, <4>1 DEF Sound, Bit
    <3> QED
      BY <1>1, <3>1, <3>2, SetSound DEF Live
  <2>2. CASE pressed \notin Slider
    <3> DEFINE old == state[pressed] \ {"CLICK", "MOUSE", "FOCUS"}
               new == IF Test(pressed, p) THEN old \cup {"CLICK", "MOUSE", "FOCUS"} ELSE old
    <3>1. state' = Set(state, pressed, new)
      BY <2>2 DEF Drag
    <3>2. /\ new \in SUBSET Bit /\ ("FOCUS" \in new => "ENABLE" \in new)
          /\ "ENABLE" \in new \/ ("ENABLE" \notin state[pressed] /\ new \subseteq state[pressed])
      BY <1>1 DEF Sound, Test, Bit
    <3> HIDE DEF new
    <3> QED
      BY <1>1, <3>1, <3>2, SetSound DEF Live
  <2> QED
    BY <2>1, <2>2
<1>3. shown' \in {shown, Paint(state', pressed)} /\ focused' \in Live /\ under' \in Live
  BY <1>1 DEF Drag, Live
<1>4. Painted(shown')
  BY <1>1, <1>2, <1>3, PaintPainted DEF Live
<1> QED
  BY <1>2, <1>3, <1>4

LEMMA HoverKeeps ==
  ASSUME IInv, NEW w \in Live, w # None => "ENABLE" \in state[w], NEW accepted \in BOOLEAN,
         Hover(w, accepted)
  PROVE  /\ Sound(state') /\ Painted(shown') /\ focused' \in Live /\ under' \in Live
<1> DEFINE u == IF under = None THEN focused ELSE under
           f == u = focused
           stays == \/ u \notin Focusable
                    \/ "ENABLE" \notin state[u]
                    \/ f /\ u \in Keep /\ (u \in Input \/ w = None)
           st1 == IF ~stays
                  THEN Clear(state, u, IF f THEN {"MOUSE", "FOCUS"} ELSE {"MOUSE"})
                  ELSE IF u \in Input /\ f /\ u \in Keep /\ "ENABLE" \in state[u]
                  THEN Clear(state, u, {"MOUSE"}) ELSE state
           sh1 == IF u # None /\ st1 # state THEN Set(shown, u, st1[u]) ELSE shown
           foc == IF ~stays /\ f THEN None ELSE focused
           gain == accepted /\ w \in Focusable
           more == IF w \in {pressed, foc} THEN {"MOUSE", "FOCUS"} ELSE {"MOUSE"}
           st2 == IF ~gain THEN st1 ELSE Set(st1, w, st1[w] \cup more)
<1>1. /\ alive \subseteq Widget /\ None \in Live /\ w \in Live /\ focused \in Live
      /\ under \in Live /\ Sound(state) /\ Painted(shown)
  BY StartsSound DEF Live
<1>2. u \in Live /\ foc \in Live
  BY <1>1
<1>3. CASE u # None /\ u = w
  <2>1. /\ state' = Set(state, u, state[u] \cup {"MOUSE"}) /\ shown' = Paint(state', u)
        /\ under' = u /\ focused' = focused
    BY <1>3 DEF Hover
  <2>2. Sound(state')
    <3>1. state[u] \cup {"MOUSE"} \in SUBSET Bit /\ "ENABLE" \in state[u] \cup {"MOUSE"}
      BY <1>1, <1>2, <1>3, BitsOf DEF Bit
    <3> HIDE DEF u
    <3> QED
      BY <1>1, <1>2, <2>1, <3>1, SetSound
  <2> QED
    BY <1>1, <1>2, <2>1, <2>2, PaintPainted
<1>4. CASE ~(u # None /\ u = w)
  <2>1. /\ state' = st2 /\ shown' = IF gain THEN Set(sh1, w, st2[w]) ELSE sh1
        /\ under' = w /\ focused' = foc
    BY <1>4 DEF Hover
  <2>2. Sound(st1)
    BY <1>1, <1>2, ClearSound
  <2>3. w # None => "ENABLE" \in st1[w]
    BY <1>1, <1>2 DEF Clear, Set, Live, Sound
  <2>4. Painted(sh1)
    BY <1>1, <1>2, <2>2, BitsOf, SetPainted
  <2>5. more \subseteq Bit
    BY DEF Bit
  <2> HIDE DEF st1, sh1, more, u, foc
  <2>6. Sound(st2)
    BY <1>1, <2>2, <2>3, <2>5, BitsOf, SetSound
  <2> HIDE DEF st2
  <2> QED
    BY <1>1, <1>2, <2>1, <2>4, <2>6, BitsOf, SetPainted
<1> QED
  BY <1>3, <1>4

LEMMA MotionKeeps ==
  ASSUME IInv, NEW p \in Place, Motion(p)
  PROVE  Kept
<1>1. pressed' = pressed /\ clip' = clip
  BY DEF Motion
<1>2. /\ Sound(state') /\ Painted(shown') /\ focused' \in Live /\ under' \in Live
  <2>1. CASE pressed # None /\ Drag(p)
    BY <2>1, DragKeeps
  <2>2. CASE UNCHANGED <<bits, focused, under>>
    BY <2>2, StartsSound DEF bits
  <2>3. ASSUME NEW accepted \in BOOLEAN,
               Hover(IF Test(under, p) THEN under ELSE At(p), accepted)
        PROVE  /\ Sound(state') /\ Painted(shown') /\ focused' \in Live /\ under' \in Live
    <3> DEFINE w == IF Test(under, p) THEN under ELSE At(p)
    <3>1. w \in Live /\ (w # None => "ENABLE" \in state[w])
      BY StartsSound, AtFinds DEF Test, Live
    <3> HIDE DEF w
    <3> QED
      BY <2>3, <3>1, HoverKeeps DEF w
  <2> QED
    BY <2>1, <2>2, <2>3 DEF Motion
<1> QED
  BY <1>1, <1>2, StartsSound DEF Kept

LEMMA ButtonDownKeeps ==
  ASSUME IInv, NEW b \in MouseButton, ButtonDown(b)
  PROVE  Kept
<1> DEFINE w == Target(b, mouse)
           grab == 1 \in held /\ b # 1 /\ pressed \in Slider
           foc == IF grab THEN pressed ELSE focused
           able == w \in Focusable /\ "ENABLE" \in state[w]
           new == IF b <= 3 THEN {"MOUSE", "FOCUS"} ELSE {"MOUSE"}
           lose == foc \in Focusable /\ "ENABLE" \in state[foc]
           st1 == IF w # foc /\ lose THEN Clear(state, foc, {"MOUSE", "FOCUS"}) ELSE state
           sh1 == IF w # foc /\ foc # None THEN Paint(st1, foc) ELSE shown
           st2 == CASE able /\ w # foc -> Set(st1, w, st1[w] \cup new)
                    [] able /\ w = foc /\ under = w -> Set(st1, w, st1[w] \cup {"MOUSE", "FOCUS"})
                    [] OTHER -> st1
           sh2 == IF w # foc /\ w # None THEN Set(sh1, w, st2[w]) ELSE sh1
           st3 == IF w = None \/ "ENABLE" \notin st2[w] THEN st2
                  ELSE Set(st2, w, ClickDown(st2, w, b))
           handled == w # None /\ "ENABLE" \in st2[w] /\ Handles(st2, w, b)
<1>1. /\ state' = st3
      /\ shown' = IF handled /\ w \notin Label /\ "FOCUS" \in st3[w]
                  THEN Set(sh2, w, st3[w]) ELSE sh2
      /\ focused' = CASE w = foc -> foc
                      [] w # None /\ ~able -> None
                      [] OTHER -> IF b <= 3 THEN w ELSE foc
      /\ pressed' = IF b = 1 THEN w ELSE pressed
      /\ under' = under /\ clip' = clip
  BY DEF ButtonDown
<1>2. /\ alive \subseteq Widget /\ None \in Live /\ focused \in Live /\ under \in Live
      /\ pressed \in Live /\ clip \in Live /\ Sound(state) /\ Painted(shown)
  BY StartsSound DEF Live
<1>3. w \in Live /\ foc \in Live
  BY <1>2, AtFinds DEF Target, Live
<1>4. Sound(st1)
  BY <1>2, <1>3, ClearSound
<1>5. Painted(sh1)
  BY <1>2, <1>3, <1>4, PaintPainted
<1>6. able => w # None /\ "ENABLE" \in st1[w]
  <2>1. able => w \in alive
    BY <1>2, <1>3, WidgetsAssumption DEF Live, Focusable, Button, Slider, Input, Link
  <2> QED
    BY <1>2, <1>3, <2>1, WidgetsAssumption DEF Clear, Set, Live, Sound
<1>7. new \subseteq Bit /\ {"MOUSE", "FOCUS"} \subseteq Bit
  BY DEF Bit
<1> HIDE DEF w, foc, st1, sh1, new, able
<1>8. Sound(st2)
  <2>1. ASSUME able, NEW more, more \subseteq Bit PROVE Sound(Set(st1, w, st1[w] \cup more))
    BY <1>2, <1>3, <1>4, <1>6, <2>1, BitsOf, SetSound
  <2> QED
    BY <1>4, <1>7, <2>1
<1>9. Painted(sh2)
  BY <1>2, <1>3, <1>5, <1>8, BitsOf, SetPainted
<1> HIDE DEF st2, sh2
<1>10. Sound(st3)
  BY <1>2, <1>3, <1>8, ClickDownBits, SetSound DEF Live
<1> HIDE DEF st3
<1>11. Painted(shown')
  BY <1>1, <1>2, <1>3, <1>9, <1>10, BitsOf, SetPainted
<1>12. focused' \in Live /\ pressed' \in Live
  BY <1>1, <1>2, <1>3
<1> QED
  BY <1>1, <1>2, <1>10, <1>11, <1>12 DEF Kept

(***************************************************************************)
(* The release of a button                                                 *)
(***************************************************************************)
LEMMA LetGoKeeps ==
  ASSUME IInv, NEW st, Sound(st), NEW sh, Painted(sh), NEW foc \in Live, NEW w, NEW heard,
         LetGo(st, sh, foc, w, heard)
  PROVE  Sound(state') /\ Painted(shown') /\ focused' \in Live /\ pressed' \in Live
<1> DEFINE off == heard /\ pressed # w /\ pressed \in Focusable
           new == Clear(st, pressed, {"MOUSE", "FOCUS"})
<1>1. /\ state' = IF off THEN new ELSE st
      /\ shown' = IF off THEN Set(sh, pressed, new[pressed]) ELSE sh
      /\ focused' = IF off THEN None ELSE foc
      /\ pressed' = None
  BY DEF LetGo
<1>2. alive \subseteq Widget /\ None \in Live /\ pressed \in Live
  BY StartsSound DEF Live
<1>3. Sound(new)
  BY <1>2, ClearSound
<1> HIDE DEF new
<1>4. Painted(Set(sh, pressed, new[pressed]))
  BY <1>2, <1>3, BitsOf, SetPainted
<1> QED
  BY <1>1, <1>2, <1>3, <1>4

LEMMA ButtonUpKeeps ==
  ASSUME IInv, NEW b \in MouseButton, ButtonUp(b)
  PROVE  Kept
<1> DEFINE w == Target(b, mouse)
           foc == IF 1 \in held /\ b # 1 /\ pressed \in Slider THEN w ELSE focused
           heard == pressed # None /\ "ENABLE" \in state[pressed]
           tells == heard /\ Calls(state, pressed, b)
           st == IF heard THEN Set(state, pressed, ClickUp(state, pressed, b)) ELSE state
           sh == IF tells /\ pressed \notin Label THEN Set(shown, pressed, st[pressed])
                 ELSE shown
<1>1. /\ \/ UNCHANGED <<bits, focused, pressed>>
         \/ state' = st /\ shown' = sh /\ focused' = foc /\ pressed' = pressed
         \/ LetGo(st, sh, foc, w, heard)
         \/ focused' = foc /\ UNCHANGED <<bits, pressed>>
      /\ under' = under /\ clip' = clip
  BY DEF ButtonUp
<1>2. /\ alive \subseteq Widget /\ None \in Live /\ focused \in Live /\ under \in Live
      /\ pressed \in Live /\ clip \in Live /\ Sound(state) /\ Painted(shown)
  BY StartsSound DEF Live
<1>3. foc \in Live
  BY <1>2, AtFinds DEF Target, Live
<1>4. Sound(st)
  <2>1. heard => /\ ClickUp(state, pressed, b) \in SUBSET Bit
                 /\ "ENABLE" \in ClickUp(state, pressed, b)
    BY <1>2, BitsOf DEF ClickUp
  <2> QED
    BY <1>2, <2>1, SetSound
<1>5. Painted(sh)
  BY <1>2, <1>4, BitsOf, SetPainted
<1> HIDE DEF st, sh, foc, heard
<1> QED
  BY <1>1, <1>2, <1>3, <1>4, <1>5, LetGoKeeps DEF Kept, bits

LEMMA UngrabKeeps ==
  ASSUME IInv, Ungrab
  PROVE  Kept
<1>1. LetGo(state, shown, focused, hit, TRUE) /\ under' = under /\ clip' = clip
  BY DEF Ungrab
<1> QED
  BY <1>1, StartsSound, LetGoKeeps DEF Kept

-----------------------------------------------------------------------------
(***************************************************************************)
(* Keys                                                                    *)
(***************************************************************************)
LEMMA KeysKeep ==
  ASSUME IInv, NEW backward \in BOOLEAN,
         ReturnDown \/ ReturnUp \/ Tab(backward) \/ PasteKey \/ ClipReady
  PROVE  Kept
<1>1. /\ alive \subseteq Widget /\ None \in Live /\ focused \in Live /\ under \in Live
      /\ pressed \in Live /\ clip \in Live /\ Sound(state) /\ Painted(shown)
  BY StartsSound DEF Live
<1>2. CASE ReturnDown
  <2>1. UNCHANGED <<pointers, clip>> /\ shown' = Paint(state', focused)
    BY <1>2 DEF ReturnDown
  <2>2. focused \in alive
    BY <1>1, <1>2, WidgetsAssumption DEF ReturnDown, Button, Input, Live
  <2>3. Sound(state')
    <3>1. CASE focused \in Button
      <4>1. /\ state' = Set(state, focused, state[focused] \cup {"CLICK"})
            /\ "FOCUS" \in state[focused]
        BY <1>2, <3>1 DEF ReturnDown
      <4> QED
        BY <1>1, <2>2, <4>1, BitsOf, SetSound DEF Bit
    <3>2. CASE focused \notin Button
      <4>1. state' = Clear(state, focused, {"MOUSE", "FOCUS"})
        BY <1>2, <3>2 DEF ReturnDown
      <4> QED
        BY <1>1, <4>1, ClearSound
    <3> QED
      BY <3>1, <3>2
  <2>4. Painted(shown')
    BY <1>1, <2>1, <2>3, PaintPainted
  <2> QED
    BY <1>1, <2>1, <2>3, <2>4 DEF Kept, pointers
<1>3. CASE ReturnUp
  <2>1. pressed' = pressed /\ clip' = clip
    BY <1>3 DEF ReturnUp
  <2>2. CASE FocusNext(FALSE)
    BY <1>1, <2>1, <2>2, FocusNextKeeps DEF Kept
  <2>3. CASE ~FocusNext(FALSE)
    <3>1. /\ state' = Clear(state, focused, {"CLICK"}) /\ shown' = Paint(state', focused)
          /\ UNCHANGED <<focused, under>>
      BY <1>3, <2>3 DEF ReturnUp
    <3>2. Sound(state')
      BY <1>1, <3>1, ClearSound
    <3> QED
      BY <1>1, <2>1, <3>1, <3>2, PaintPainted DEF Kept
  <2> QED
    BY <2>2, <2>3
<1>4. CASE Tab(backward)
  BY <1>1, <1>4, FocusNextKeeps DEF Tab, Kept
<1>5. CASE PasteKey
  BY <1>1, <1>5 DEF PasteKey, Paste, Kept, bits, pointers
<1>6. CASE ClipReady
  BY <1>1, <1>6, PaintPainted DEF ClipReady, Kept, pointers
<1> QED
  BY <1>2, <1>3, <1>4, <1>5, <1>6

-----------------------------------------------------------------------------
(***************************************************************************)
(* The application                                                         *)
(***************************************************************************)
LEMMA AbleKeeps ==
  ASSUME IInv, NEW w \in Widget, NEW on \in BOOLEAN, NEW recheck \in BOOLEAN,
         Able(w, on, recheck)
  PROVE  Kept
<1> DEFINE was == "ENABLE" \in shown[w]
           in == Emerges(w, place[w], on, was)
           old == IF on THEN state[w] \cup {"ENABLE"}
                  ELSE state[w] \ {"ENABLE", "MOUSE", "FOCUS"}
           new == IF in /\ recheck THEN old \cup {"MOUSE"} ELSE old
           foc == IF ~on /\ was THEN Drop(focused, w) ELSE focused
           Follow(bit, pointer) ==
             CASE bit \in new \ shown[w] -> w
               [] bit \in shown[w] \ new -> Drop(pointer, w)
               [] OTHER -> pointer
<1>1. /\ w \in alive
      /\ state' = [state EXCEPT ![w] = new] /\ shown' = Paint(state', w)
      /\ under' = Follow("MOUSE", under) /\ focused' = Follow("FOCUS", foc)
      /\ UNCHANGED <<pressed, clip>>
  BY DEF Able
<1>2. /\ alive \subseteq Widget /\ None \in Live /\ focused \in Live /\ under \in Live
      /\ pressed \in Live /\ clip \in Live /\ Sound(state) /\ Painted(shown)
  BY StartsSound DEF Live
<1>3. /\ new \in SUBSET Bit /\ ("FOCUS" \in new => "ENABLE" \in new)
      /\ "ENABLE" \notin new => new \subseteq state[w]
  BY <1>1, <1>2 DEF Sound, Bit, Emerges
<1>4. foc \in Live /\ w \in Live
  BY <1>1, <1>2 DEF Drop, Live
<1> HIDE DEF new, foc
<1>5. Sound(state')
  BY <1>1, <1>2, <1>3 DEF Sound
<1>6. under' \in Live /\ focused' \in Live
  BY <1>1, <1>2, <1>4 DEF Drop
<1> QED
  BY <1>1, <1>2, <1>4, <1>5, <1>6, PaintPainted DEF Kept

LEMMA SetPosKeeps ==
  ASSUME IInv, NEW w \in Widget, NEW p \in Area, SetPos(w, p)
  PROVE  Kept
BY StartsSound DEF SetPos, Kept, Drop, bits, Live

-----------------------------------------------------------------------------
(***************************************************************************)
(* The rest of the state                                                   *)
(***************************************************************************)
Rest ==
  /\ kind \in Kinds /\ alive \subseteq Widget /\ place \in [Widget -> Place]
  /\ hit \in Widget \cup {None} /\ noMouse \in BOOLEAN /\ mouse \in Place
  /\ held \subseteq MouseButton /\ move \in BOOLEAN /\ cont \in {"none", "ungrab"}

LEMMA RestStep ==
  ASSUME IInv, Next
  PROVE  Rest' /\ (Event => alive' = alive)
<1>1. Rest /\ kind' = kind
  BY DEF IInv, TypeOK, Rest, Next
<1>4. Event => alive' = alive
  <2>1. ASSUME NEW p \in Place, Motion(p) PROVE alive' = alive
    BY <2>1 DEF Motion
  <2>2. ASSUME NEW b \in MouseButton, ButtonDown(b) \/ ButtonUp(b) PROVE alive' = alive
    BY <2>2 DEF ButtonDown, ButtonUp
  <2>3. ASSUME NEW backward \in BOOLEAN, Tab(backward) PROVE alive' = alive
    BY <2>3 DEF Tab
  <2>4. ASSUME Ungrab \/ ReturnDown \/ ReturnUp \/ PasteKey \/ ClipReady
        PROVE  alive' = alive
    BY <2>4 DEF Ungrab, ReturnDown, ReturnUp, PasteKey, Paste, ClipReady
  <2> QED
    BY <2>1, <2>2, <2>3, <2>4 DEF Event
<1>2. CASE Application
  <2>1. PICK w \in Widget :
          \/ \E p \in Area, on \in BOOLEAN : Add(w, p, on)
          \/ \E on, recheck \in BOOLEAN : Able(w, on, recheck)
          \/ \E p \in Area : SetPos(w, p)
          \/ SetFocus(w)
          \/ Delete(w)
    BY <1>2 DEF Application
  <2>2. ASSUME NEW p \in Area, NEW on \in BOOLEAN, Add(w, p, on) PROVE Rest'
    <3>1. /\ alive' = alive \cup {w} /\ place' = [place EXCEPT ![w] = p]
          /\ noMouse' \in BOOLEAN /\ UNCHANGED <<input, release>>
      BY <2>2 DEF Add
    <3> QED
      BY <1>1, <3>1 DEF Rest, Place, input, release
  <2>3. CASE \E on, recheck \in BOOLEAN : Able(w, on, recheck)
    BY <1>1, <2>3 DEF Able, Rest, input, release
  <2>4. CASE SetFocus(w)
    BY <1>1, <2>4 DEF SetFocus, Rest, input, release
  <2>8. ASSUME Delete(w) PROVE Rest'
    <3>1. /\ alive' = alive \ {w} /\ place' = [place EXCEPT ![w] = Outside]
          /\ UNCHANGED <<noMouse, input, release>>
      BY <2>8 DEF Delete
    <3>2. place' \in [Widget -> Place] /\ alive' \subseteq Widget
      BY <1>1, <3>1 DEF Rest, Place
    <3> QED
      BY <1>1, <3>1, <3>2 DEF Rest, input, release
  <2>5. CASE \E p \in Area : SetPos(w, p)
    BY <1>1, <2>5 DEF SetPos, Rest, Place, input, release
  <2>6. Rest'
    BY <2>1, <2>2, <2>3, <2>4, <2>5, <2>8
  <2> QED
    BY <2>6, <1>4
<1>3. CASE Event
  <2>1. CASE \E p \in Place : Motion(p)
    BY <1>1, <2>1 DEF Motion, Rest, release
  <2>2. ASSUME NEW b \in MouseButton, ButtonDown(b) PROVE Rest'
    <3>1. /\ move' \in BOOLEAN /\ held' = held \cup {b}
          /\ UNCHANGED <<alive, place, noMouse, mouse, release>>
      BY <2>2 DEF ButtonDown
    <3> QED
      BY <1>1, <3>1 DEF Rest, release
  <2>3. ASSUME NEW b \in MouseButton, ButtonUp(b) PROVE Rest' /\ alive' = alive
    <3>1. Target(b, mouse) \in Widget \cup {None}
      BY StartsSound, AtFinds DEF Target, Live
    <3> QED
      BY <1>1, <2>3, <3>1 DEF ButtonUp, Rest, release
  <2>4. CASE Ungrab
    BY <1>1, <2>4 DEF Ungrab, Rest, input
  <2>5. CASE \/ ReturnDown \/ ReturnUp \/ (\E backward \in BOOLEAN : Tab(backward))
             \/ PasteKey \/ ClipReady
    BY <1>1, <2>5 DEF ReturnDown, ReturnUp, Tab, PasteKey, Paste, ClipReady, Rest, input,
                      release
  <2> QED
    BY <1>3, <1>4, <2>1, <2>2, <2>3, <2>4, <2>5 DEF Event
<1> QED
  BY <1>2, <1>3 DEF Next

-----------------------------------------------------------------------------
(***************************************************************************)
(* A step keeps the invariant, leaves alone what is not in the list, and   *)
(* gives a disabled widget no bit.                                         *)
(***************************************************************************)
Bare == \A w \in alive : "ENABLE" \notin state[w] \cup state'[w] => state'[w] \subseteq state[w]

Untouched ==
  \A w \in Widget : w \notin alive /\ w \notin alive' =>
     state'[w] = state[w] /\ shown'[w] = shown[w]

LEMMA KeptStep ==
  ASSUME IInv, Kept, Rest', alive' = alive
  PROVE  IInv' /\ Untouched /\ Bare
BY WidgetsAssumption DEF IInv, TypeOK, PointersLive, FocusEnabled, Kept, Rest, Sound, Painted,
   Live, Untouched, Bare

LEMMA EventStep ==
  ASSUME IInv, Event, Next
  PROVE  IInv' /\ Untouched /\ Bare
<1>1. Kept
  BY MotionKeeps, ButtonDownKeeps, ButtonUpKeeps, UngrabKeeps, KeysKeep DEF Event
<1> QED
  BY <1>1, RestStep, KeptStep

LEMMA AddStep ==
  ASSUME IInv, Rest', NEW w \in Widget, NEW p \in Area, NEW on \in BOOLEAN, Add(w, p, on)
  PROVE  IInv' /\ Untouched /\ Bare
<1>1. /\ alive \subseteq Widget /\ None \notin Widget /\ Sound(state) /\ Painted(shown)
      /\ {focused, under, pressed, clip} \subseteq Live
  BY StartsSound
<1>2. /\ w \notin alive /\ alive' = alive \cup {w}
      /\ state' = [state EXCEPT ![w] = IF on THEN {"ENABLE"} ELSE {}]
      /\ shown' = [shown EXCEPT ![w] = state'[w]]
      /\ UNCHANGED <<focused, under, pressed, clip>>
  BY <1>1 DEF Add, Paint, Set, pointers
<1>3. /\ state' \in [Widget -> SUBSET Bit] /\ shown' \in [Widget -> SUBSET Bit]
      /\ FocusEnabled' /\ Untouched /\ Bare
  BY <1>1, <1>2 DEF Sound, Painted, FocusEnabled, Untouched, Bare, Bit
<1>4. PointersLive'
  BY <1>1, <1>2 DEF PointersLive, Live
<1>5. {focused', under', pressed', clip'} \subseteq Widget \cup {None}
  BY <1>1, <1>2 DEF Live
<1> QED
  BY <1>3, <1>4, <1>5 DEF IInv, TypeOK, Rest

LEMMA DeleteStep ==
  ASSUME IInv, Rest', NEW w \in Widget, Delete(w)
  PROVE  IInv' /\ Untouched /\ Bare
<1>1. /\ alive \subseteq Widget /\ None \notin Widget /\ Sound(state) /\ Painted(shown)
      /\ {focused, under, pressed, clip} \subseteq Live
  BY StartsSound
<1>2. /\ w \in alive /\ alive' = alive \ {w}
      /\ state' = [state EXCEPT ![w] = state[w] \ {"ENABLE"}]
      /\ shown' = [shown EXCEPT ![w] = state'[w]]
      /\ focused' = Drop(focused, w) /\ under' = Drop(under, w)
      /\ pressed' = Drop(pressed, w) /\ clip' = Drop(clip, w)
  BY <1>1 DEF Delete, Clear, Paint, Set
<1>3. /\ state' \in [Widget -> SUBSET Bit] /\ shown' \in [Widget -> SUBSET Bit]
      /\ FocusEnabled' /\ Untouched /\ Bare
  BY <1>1, <1>2 DEF Sound, Painted, FocusEnabled, Untouched, Bare
<1>4. PointersLive'
  BY <1>1, <1>2 DEF PointersLive, Live, Drop
<1>5. {focused', under', pressed', clip'} \subseteq Widget \cup {None}
  BY <1>1, <1>2 DEF Live, Drop
<1> QED
  BY <1>3, <1>4, <1>5 DEF IInv, TypeOK, Rest

LEMMA ApplicationStep ==
  ASSUME IInv, Application, Next
  PROVE  IInv' /\ Untouched /\ Bare
<1>1. PICK w \in Widget :
        \/ \E p \in Area, on \in BOOLEAN : Add(w, p, on)
        \/ \E on, recheck \in BOOLEAN : Able(w, on, recheck)
        \/ \E p \in Area : SetPos(w, p)
        \/ SetFocus(w)
        \/ Delete(w)
  BY DEF Application
<1>2. Rest'
  BY RestStep
<1>3. CASE \E p \in Area, on \in BOOLEAN : Add(w, p, on)
  BY <1>2, <1>3, AddStep
<1>4. CASE \E on, recheck \in BOOLEAN : Able(w, on, recheck)
  <2>1. PICK on \in BOOLEAN, recheck \in BOOLEAN : Able(w, on, recheck)
    BY <1>4
  <2>2. Kept /\ alive' = alive
    BY <2>1, AbleKeeps DEF Able
  <2> QED
    BY <1>2, <2>2, KeptStep
<1>5. CASE \E p \in Area : SetPos(w, p)
  <2>1. Kept /\ alive' = alive
    BY <1>5, SetPosKeeps DEF SetPos
  <2> QED
    BY <1>2, <2>1, KeptStep
<1>6. CASE SetFocus(w)
  <2>1. /\ FocusOn(w, FALSE) /\ w \in alive
        /\ UNCHANGED <<alive, pressed, clip>>
    BY <1>6 DEF SetFocus
  <2>2. Kept
    BY <2>1, StartsSound, FocusOnKeeps DEF Kept
  <2> QED
    BY <1>2, <2>1, <2>2, KeptStep
<1>7. CASE Delete(w)
  BY <1>2, <1>7, DeleteStep
<1> QED
  BY <1>1, <1>3, <1>4, <1>5, <1>6, <1>7

LEMMA InitHolds == Init => IInv
<1> SUFFICES ASSUME Init PROVE IInv
  OBVIOUS
<1>1. /\ alive = Widget /\ state = [w \in Widget |-> {"ENABLE"}] /\ shown = state
      /\ focused = None /\ under = None /\ pressed = None /\ clip = None /\ hit = None
  BY DEF Init
<1>2. state \in [Widget -> SUBSET Bit] /\ shown \in [Widget -> SUBSET Bit]
  BY <1>1 DEF Bit
<1>3. place \in [Widget -> Place]
  BY DEF Init, Place
<1>4. kind \in Kinds /\ noMouse \in BOOLEAN /\ mouse \in Place
  BY DEF Init, Place
<1>5. held \subseteq MouseButton /\ move \in BOOLEAN /\ cont \in {"none", "ungrab"}
  BY DEF Init
<1>6. TypeOK
  BY <1>1, <1>2, <1>3, <1>4, <1>5 DEF TypeOK
<1>7. PointersLive /\ FocusEnabled
  BY <1>1 DEF PointersLive, FocusEnabled
<1> QED
  BY <1>6, <1>7 DEF IInv

LEMMA StepHolds ==
  ASSUME IInv, [Next]_vars
  PROVE  IInv' /\ [Untouched /\ Bare]_vars
<1>1. CASE Next
  BY <1>1, EventStep, ApplicationStep DEF Next
<1>2. CASE UNCHANGED vars
  BY <1>2 DEF vars, bits, pointers, input, release, IInv, TypeOK, PointersLive, FocusEnabled
<1> QED
  BY <1>1, <1>2

(***************************************************************************)
(* The types, PointersLive and FocusEnabled are inductive together.        *)
(***************************************************************************)
THEOREM Inductive == Spec => []IInv
BY InitHolds, StepHolds, PTL DEF Spec

(***************************************************************************)
(* The values of the list, its widgets and the input are what they are     *)
(* meant to be.                                                            *)
(***************************************************************************)
THEOREM TypeCorrect == Spec => []TypeOK
BY Inductive, PTL DEF IInv

(***************************************************************************)
(* No pointer of the list, nor the clipboard's, points at a widget that    *)
(* was deleted: neither an event nor what a callback does leaves one.      *)
(***************************************************************************)
THEOREM PointersStayLive == Spec => []PointersLive
BY Inductive, PTL DEF IInv

(***************************************************************************)
(* No event and no callback writes to a widget that was deleted.           *)
(***************************************************************************)
THEOREM FreedStayUntouched == Spec => FreedUntouched
<1>1. IInv /\ [Next]_vars => [Untouched /\ Bare]_vars
  BY StepHolds
<1>2. IInv /\ [Next]_vars => [Untouched]_vars
  BY <1>1
<1> QED
  BY Inductive, <1>2, PTL DEF Spec, FreedUntouched, Untouched

(***************************************************************************)
(* Whom a step gives the keyboard to: a widget that has it, that is        *)
(* enabled, or a slider that is held; and whom a release calls back.       *)
(***************************************************************************)
Chosen ==
  focused' \in alive => \/ focused' = focused
                        \/ "ENABLE" \in state[focused'] \cup state'[focused']
                        \/ focused' \in Slider /\ pressed = focused'

Called == cont = "none" /\ cont' = "ungrab" => "ENABLE" \in state[pressed]

LEMMA FocusNextChosen ==
  ASSUME IInv, NEW backward \in BOOLEAN, FocusNext(backward)
  PROVE  Chosen
<1>1. CASE NextFocus(backward) \in {None, focused}
  BY <1>1 DEF FocusNext, Chosen
<1>2. CASE NextFocus(backward) \notin {None, focused}
  <2>1. focused' = NextFocus(backward)
    BY <1>2 DEF FocusNext, FocusOn
  <2> QED
    BY <1>2, <2>1, NextFocusLive DEF Chosen
<1> QED
  BY <1>1, <1>2

LEMMA MouseChosen ==
  ASSUME IInv,
         \/ \E p \in Place : Motion(p)
         \/ \E b \in MouseButton : ButtonDown(b) \/ ButtonUp(b)
         \/ Ungrab
  PROVE  Chosen /\ Called
<1>1. None \notin alive /\ focused \in Live /\ pressed \in Live
  BY StartsSound
<1>2. CASE \E p \in Place : Motion(p)
  <2>1. PICK p \in Place : Motion(p)
    BY <1>2
  <2>2. \/ focused' \in {None, focused}
        \/ pressed \in Slider /\ focused' = pressed
    <3>1. CASE Drag(p)
      BY <3>1 DEF Drag
    <3>2. CASE UNCHANGED <<bits, focused, under>>
      BY <3>2
    <3>3. ASSUME NEW w, NEW accepted \in BOOLEAN, Hover(w, accepted)
          PROVE  focused' \in {None, focused}
      BY <3>3 DEF Hover
    <3> QED
      BY <2>1, <3>1, <3>2, <3>3 DEF Motion
  <2> QED
    BY <1>1, <2>1, <2>2 DEF Chosen, Called, Motion, release
<1>3. ASSUME NEW b \in MouseButton, ButtonDown(b) PROVE Chosen /\ Called
  <2> DEFINE w == Target(b, mouse)
             grab == 1 \in held /\ b # 1 /\ pressed \in Slider
             foc == IF grab THEN pressed ELSE focused
             able == w \in Focusable /\ "ENABLE" \in state[w]
  <2>1. /\ focused' = CASE w = foc -> foc
                        [] w # None /\ ~able -> None
                        [] OTHER -> IF b <= 3 THEN w ELSE foc
        /\ cont' = cont
    BY <1>3 DEF ButtonDown, release
  <2> HIDE DEF w
  <2>2. focused' \in {None, focused} \/ (able /\ focused' = w)
          \/ (pressed \in Slider /\ focused' = pressed)
    BY <2>1
  <2> QED
    BY <1>1, <2>1, <2>2 DEF Chosen, Called
<1>4. ASSUME NEW b \in MouseButton, ButtonUp(b) PROVE Chosen /\ Called
  <2> DEFINE w == Target(b, mouse)
             foc == IF 1 \in held /\ b # 1 /\ pressed \in Slider THEN w ELSE focused
             heard == pressed # None /\ "ENABLE" \in state[pressed]
  <2>1. foc = focused \/ (pressed \in Slider /\ foc = pressed)
    BY DEF Target
  <2>2. focused' \in {None, focused, foc} /\ (cont' # cont => heard)
    BY <1>4 DEF ButtonUp, LetGo, release
  <2> HIDE DEF foc
  <2> QED
    BY <1>1, <2>1, <2>2 DEF Chosen, Called
<1>5. CASE Ungrab
  BY <1>1, <1>5 DEF Ungrab, LetGo, Chosen, Called
<1> QED
  BY <1>2, <1>3, <1>4, <1>5

LEMMA KeyChosen ==
  ASSUME IInv, NEW backward \in BOOLEAN,
         ReturnDown \/ ReturnUp \/ Tab(backward) \/ PasteKey \/ ClipReady
  PROVE  Chosen /\ Called
<1>1. cont' = cont
  BY DEF ReturnDown, ReturnUp, Tab, PasteKey, Paste, ClipReady, release
<1>2. focused' = focused \/ FocusNext(FALSE) \/ FocusNext(backward)
  BY DEF ReturnDown, ReturnUp, Tab, PasteKey, Paste, ClipReady, pointers
<1> QED
  BY <1>1, <1>2, FocusNextChosen DEF Chosen, Called

\* SetFocus(v) gives the keyboard to v, whether v is enabled or not.
LEMMA CallChosen ==
  ASSUME IInv, NEW w \in Widget,
         \/ \E p \in Area, on \in BOOLEAN : Add(w, p, on)
         \/ \E on, recheck \in BOOLEAN : Able(w, on, recheck)
         \/ \E p \in Area : SetPos(w, p)
         \/ SetFocus(w)
         \/ Delete(w)
  PROVE  (Chosen \/ (SetFocus(w) /\ focused' = w)) /\ Called
<1>1. None \notin alive /\ focused \in Live
  BY StartsSound
<1>2. CASE \E on, recheck \in BOOLEAN : Able(w, on, recheck)
  <2>1. PICK on \in BOOLEAN, recheck \in BOOLEAN : Able(w, on, recheck)
    BY <1>2
  <2>2. /\ w \in alive /\ cont' = cont
        /\ \/ focused' \in {focused, None}
           \/ focused' = w /\ "FOCUS" \in state'[w]
    BY <2>1 DEF Able, Drop, release, IInv, TypeOK
  <2>3. Sound(state')
    BY <2>1, AbleKeeps DEF Kept
  <2> QED
    BY <1>1, <2>2, <2>3 DEF Sound, Chosen, Called
<1>3. CASE SetFocus(w)
  BY <1>3 DEF SetFocus, FocusOn, Called, release
<1>4. CASE \/ \E p \in Area, on \in BOOLEAN : Add(w, p, on)
           \/ \E p \in Area : SetPos(w, p)
           \/ Delete(w)
  BY <1>1, <1>4 DEF Add, SetPos, Delete, Drop, Chosen, Called, pointers, release
<1> QED
  BY <1>2, <1>3, <1>4

LEMMA StepChosen ==
  ASSUME IInv, Next
  PROVE  Called /\ (Chosen \/ \E w \in alive : SetFocus(w) /\ focused' = w)
<1>1. CASE Event
  BY <1>1, MouseChosen, KeyChosen DEF Event
<1>2. CASE Application
  BY <1>2, CallChosen DEF Application, SetFocus
<1> QED
  BY <1>1, <1>2 DEF Next

(***************************************************************************)
(* A disabled widget gets no bit, is given the keyboard only by the        *)
(* application or as a slider that is held, and is not called back: by no  *)
(* event or call, in any list.                                             *)
(***************************************************************************)
THEOREM DisabledStayInert == Spec => DisabledInert
<1>1. ASSUME IInv, [Next]_vars
      PROVE  [\A w \in alive : "ENABLE" \notin state[w] \cup state'[w] =>
                /\ state'[w] \subseteq state[w]
                /\ focused' = w =>
                     focused = w \/ SetFocus(w) \/ (w \in Slider /\ pressed = w)
                /\ cont = "none" /\ cont' = "ungrab" => pressed # w]_vars
  <2>1. CASE Next /\ ~UNCHANGED vars
    <3>1. Bare
      BY <1>1, <2>1, StepHolds
    <3>2. Called /\ (Chosen \/ \E w \in alive : SetFocus(w) /\ focused' = w)
      BY <1>1, <2>1, StepChosen
    <3> QED
      BY <3>1, <3>2 DEF Bare, Called, Chosen
  <2>2. CASE UNCHANGED vars
    BY <2>2
  <2> QED
    BY <1>1, <2>1, <2>2
<1> QED
  BY Inductive, <1>1, PTL DEF Spec, DisabledInert

-----------------------------------------------------------------------------
(***************************************************************************)
(* What there is in a sequence of requests or of events.                   *)
(***************************************************************************)
Has(q, w, x) == \E i \in DOMAIN q : q[i] = <<w, x>>
Names(q, w) == \E i \in DOMAIN q : q[i][1] = w
Twice(q, w, x) == \E i, j \in DOMAIN q : i < j /\ q[i] = <<w, x>> /\ q[j] = <<w, x>>
Again(q, w) == \E i, j \in DOMAIN q : i < j /\ q[i][1] = w /\ q[j][1] = w
Followed(q, w, x, y) == \E i, j \in DOMAIN q : i < j /\ q[i] = <<w, x>> /\ q[j] = <<w, y>>

Asked(q, w) == Has(q, w, "map") \/ Has(q, w, "iconify") \/ Has(q, w, "unmapped")
Told(q, w) == Has(q, w, "show") \/ Has(q, w, "hide") \/ Has(q, w, "state")

\* An event of the main window that is still to be handled.
Due(x) == Has(events, Main, x) \/ <<Main, x>> \in event

\* What Stays says of a window that is not hidden after it was shown.
Safe(w) == \/ Has(asked, w, "map")
           \/ managed[w] # "withdrawn" /\ ~Has(asked, w, "unmapped")

\* The main window is on the screen, or was last asked to be.
Up == \/ Has(asked, Main, "map")
      \/ managed[Main] = "normal" /\ ~Asked(asked, Main)

\* This call, or the last one, has shown the main window.
Showing == flags[Main] = Shown /\ props[Main] = Shown /\ Up /\ ~Due("hide")

(***************************************************************************)
(* The main window is asked for something once, and when nothing is under  *)
(* way.                                                                    *)
(***************************************************************************)
MainInv ==
  /\ ~Again(asked, Main)
  /\ mapped[Main] <=> managed[Main] = "normal" /\ ~Has(asked, Main, "unmapped")
  /\ Asked(asked, Main) => ~Due("show") /\ ~Has(events, Main, "state")
  /\ Has(asked, Main, "map") \/ Has(asked, Main, "iconify") => ~Due("hide")
  /\ ~Asked(asked, Main) /\ Due("show") => managed[Main] = "normal"
  /\ ~Asked(asked, Main) /\ ~Has(events, Main, "show") /\ ~Has(events, Main, "state") =>
       props[Main] = WmState[managed[Main]]
  /\ Has(asked, Main, "iconify") =>
       managed[Main] = "normal" /\ props[Main] = Iconified /\ flags[Main] = Iconified
  /\ Has(asked, Main, "map") => managed[Main] # "normal"
  /\ ~Safe(Main) => props[Main] = Hidden /\ flags[Main] = Hidden
  /\ ~Twice(events, Main, "hide")
  /\ <<Main, "hide">> \in event => ~Has(events, Main, "hide")
  /\ Due("hide") => ~Up
  /\ <<Main, "show">> \in event => props[Main] = Shown

(***************************************************************************)
(* The panel may be asked for more than one thing, but is not hidden after *)
(* it was shown.                                                           *)
(***************************************************************************)
ViceInv ==
  /\ mapped[Vice] => managed[Vice] = "normal" /\ ~Has(asked, Vice, "unmapped")
  /\ ~Followed(asked, Vice, "map", "unmapped")
  /\ /\ mapped[Vice] /\ ~Has(asked, Vice, "iconify")
     /\ ~Has(events, Vice, "show") /\ ~Has(events, Vice, "state")
     => props[Vice] = Shown

(***************************************************************************)
(* A call is the sequence q of its steps to come.                          *)
(***************************************************************************)
QEnd == <<"end">>
QFocus == <<"focus">>
QFocusEnd == <<"focus">> \o QEnd
QPanelToo == <<"wantPanelToo">>
QNoVideo == <<"wantNoVideo">>
QNoVideoToo == <<"wantNoVideo">> \o QPanelToo
QNoPanel == <<"wantNoPanel">>

Does(q, h) == q # <<>> /\ Head(q) = h

Ending(q) == q \in {<<>>, QEnd}
Video(q) == q \in {QNoVideo, QNoVideoToo}

Legal(q) ==
  /\ Does(q, "wantPanel") => Video(Tail(q))
  /\ Does(q, "toggle") \/ Does(q, "raise") => Ending(Tail(q)) \/ Video(Tail(q))
  /\ Does(q, "look") \/ Does(q, "hide") \/ Does(q, "iconify") => Tail(q) \in {QFocus, QFocusEnd}
  /\ Does(q, "focus") \/ Does(q, "focused") => Ending(Tail(q))
  /\ Does(q, "wantVideo") => Tail(q) \in {<<>>, QNoPanel}
  /\ Does(q, "wantNoVideo") => Tail(q) \in {<<>>, QPanelToo}
  /\ Does(q, "showVideo") => Ending(Tail(q)) \/ Tail(q) = QNoPanel
  /\ Does(q, "hideVideo") => Ending(Tail(q)) \/ Tail(q) = QPanelToo
  /\ Does(q, "apply") => Ending(Tail(q)) \/ Tail(q) \in {QNoPanel, QPanelToo}
  /\ Does(q, "toggleVideo") \/ Does(q, "toggleHelper") => Tail(q) = QEnd
  /\ Does(q, "wantNoPanel") \/ Does(q, "wantPanelToo") \/ Does(q, "end") => Tail(q) = <<>>

\* The main window may still be shown or hidden.
VideoLeft(q) ==
  \/ Does(q, "wantVideo") \/ Does(q, "wantPanel") \/ Does(q, "toggleVideo") \/ Does(q, "wantNoVideo")
  \/ Does(q, "showVideo") \/ Does(q, "hideVideo") \/ Does(q, "apply")
  \/ (Does(q, "toggle") \/ Does(q, "raise")) /\ Video(Tail(q))

PanelLeft(q) ==
  /\ \/ Does(q, "wantNoPanel") \/ Does(q, "toggle") \/ Does(q, "raise")
     \/ Does(q, "look") \/ Does(q, "hide") \/ Does(q, "iconify")
  /\ ~VideoLeft(q)

MainQuiet == /\ ~Asked(asked, Main) /\ ~Told(events, Main)
             /\ ~Due("show") /\ ~Due("hide")
ViceQuiet == ~Asked(asked, Vice) /\ ~Told(events, Vice)
ViceClean ==
  \/ ViceQuiet
  \/ /\ props[Vice] = Shown
     /\ ~Has(asked, Vice, "unmapped") /\ ~Has(asked, Vice, "iconify")
     /\ Has(events, Vice, "state") => managed[Vice] = "normal"
Ready == MainQuiet /\ ViceClean

ShowsVideo(q) == Does(q, "showVideo") \/ (Does(q, "apply") /\ show = 2)
HidesVideo(q) == Does(q, "hideVideo") \/ (Does(q, "apply") /\ show # 2)

Stage(q) ==
  /\ VideoLeft(q) =>
       /\ Ready
       /\ ViceQuiet \/ Does(q, "wantNoVideo") \/ Does(q, "hideVideo")
                    \/ (Does(q, "apply") /\ show = 0)
       /\ Does(q, "toggle") => props[Vice] # Shown
  /\ HidesVideo(q) => props[Main] = Shown /\ flags[Main] = Shown /\ Tail(q) # QNoPanel
  /\ ShowsVideo(q) => flags[Main] # Shown /\ Tail(q) # QPanelToo
  /\ Does(q, "apply") => ~root
  /\ PanelLeft(q) => Ready \/ Showing
  /\ Does(q, "wantPanelToo") => Ready \/ ~Up
  /\ Does(q, "focus") \/ Does(q, "focused") => MainQuiet \/ Showing
  /\ Does(q, "focused") => Up /\ props[Main] # Iconified
  /\ Does(q, "toggleHelper") => MainQuiet

(***************************************************************************)
(* The panel was asked to be shown twice: it will not be hidden.  When the *)
(* user has iconified the main window, the panel may be set to what it was.*)
(***************************************************************************)
ShownTwice(q) ==
  (mapped[Vice] /\ Has(asked, Vice, "map")) \/ Twice(asked, Vice, "map") =>
    ~VideoLeft(q) /\ (~Safe(Main) \/ (Showing /\ Ending(q)))

HiddenByUser(q) == Due("hide") /\ flags[Main] = Shown => ViceQuiet /\ q = <<>>

Between(q) == q # <<>> /\ props[Main] = Shown => Up

CallInv(q) == Legal(q) /\ Stage(q) /\ ShownTwice(q) /\ HiddenByUser(q) /\ Between(q)

\* Only one thread is in a call, or none.
OneCall == \E t \in Thread : /\ \A u \in Thread \ {t} : todo[u] = <<>>
                             /\ CallInv(todo[t])

EventInv == \A e \in event : e[2] # "state" /\ \A f \in event : e = f


-----------------------------------------------------------------------------
(***************************************************************************)
(* What sequences have when something is added to them or taken away.      *)
(***************************************************************************)
LEMMA Nothing ==
  ASSUME NEW w, NEW x, NEW y
  PROVE  /\ ~Has(<<>>, w, x) /\ ~Names(<<>>, w) /\ ~Twice(<<>>, w, x)
         /\ ~Again(<<>>, w) /\ ~Followed(<<>>, w, x, y)
BY DEF Has, Names, Twice, Again, Followed

LEMMA Added ==
  ASSUME NEW S, NEW q \in Seq(S), NEW e \in S, NEW w
  PROVE  LET p == Append(q, e) IN
         /\ p \in Seq(S)
         /\ \A x : Has(p, w, x) <=> Has(q, w, x) \/ e = <<w, x>>
         /\ Names(p, w) <=> Names(q, w) \/ e[1] = w
         /\ \A x : Twice(p, w, x) <=> Twice(q, w, x) \/ (Has(q, w, x) /\ e = <<w, x>>)
         /\ Again(p, w) <=> Again(q, w) \/ (Names(q, w) /\ e[1] = w)
         /\ \A x, y : Followed(p, w, x, y) <=> Followed(q, w, x, y) \/ (Has(q, w, x) /\ e = <<w, y>>)
<1> DEFINE p == Append(q, e)
           n == Len(q)
<1>1. /\ n \in Nat /\ DOMAIN q = 1 .. n /\ DOMAIN p = 1 .. n + 1
      /\ \A i \in 1 .. n : p[i] = q[i]
      /\ p[n + 1] = e /\ p \in Seq(S)
  OBVIOUS
<1> HIDE DEF p, n
<1>2. \A i \in DOMAIN p : (i \in DOMAIN q /\ p[i] = q[i]) \/ (i = n + 1 /\ p[i] = e)
  BY <1>1
<1>3. /\ \A i \in DOMAIN q : i \in DOMAIN p /\ p[i] = q[i] /\ i < n + 1
      /\ n + 1 \in DOMAIN p /\ p[n + 1] = e
      /\ \A i, j \in DOMAIN p : i < j => i \in DOMAIN q
  BY <1>1
<1>4. \A x : Has(p, w, x) <=> Has(q, w, x) \/ e = <<w, x>>
  BY <1>2, <1>3 DEF Has
<1>5. Names(p, w) <=> Names(q, w) \/ e[1] = w
  BY <1>2, <1>3 DEF Names
<1>6. \A x : Twice(p, w, x) <=> Twice(q, w, x) \/ (Has(q, w, x) /\ e = <<w, x>>)
  BY <1>2, <1>3 DEF Twice, Has
<1>7. Again(p, w) <=> Again(q, w) \/ (Names(q, w) /\ e[1] = w)
  BY <1>2, <1>3 DEF Again, Names
<1>8. \A x, y : Followed(p, w, x, y) <=> Followed(q, w, x, y) \/ (Has(q, w, x) /\ e = <<w, y>>)
  BY <1>2, <1>3 DEF Followed, Has
<1> QED
  BY <1>1, <1>4, <1>5, <1>6, <1>7, <1>8 DEF p

LEMMA Taken ==
  ASSUME NEW S, NEW q \in Seq(S), q # <<>>, NEW w
  PROVE  LET e == Head(q)
             p == Tail(q) IN
         /\ p \in Seq(S) /\ e \in S
         /\ \A x : Has(q, w, x) <=> Has(p, w, x) \/ e = <<w, x>>
         /\ Names(q, w) <=> Names(p, w) \/ e[1] = w
         /\ \A x : Twice(q, w, x) <=> Twice(p, w, x) \/ (Has(p, w, x) /\ e = <<w, x>>)
         /\ Again(q, w) <=> Again(p, w) \/ (Names(p, w) /\ e[1] = w)
         /\ \A x, y : Followed(q, w, x, y) <=> Followed(p, w, x, y) \/ (Has(p, w, y) /\ e = <<w, x>>)
<1> DEFINE e == Head(q)
           p == Tail(q)
           n == Len(q)
<1>1. /\ n \in Nat /\ n >= 1 /\ DOMAIN q = 1 .. n /\ DOMAIN p = 1 .. n - 1
      /\ \A i \in 1 .. n - 1 : p[i] = q[i + 1]
      /\ q[1] = e /\ p \in Seq(S) /\ e \in S
  OBVIOUS
<1> HIDE DEF p, e, n
<1>2. \A i \in DOMAIN q : (i - 1 \in DOMAIN p /\ q[i] = p[i - 1]) \/ (i = 1 /\ q[i] = e)
  <2> SUFFICES ASSUME NEW i \in 1 .. n, i # 1 PROVE i - 1 \in 1 .. n - 1 /\ q[i] = p[i - 1]
    BY <1>1
  <2>1. i - 1 \in 1 .. n - 1 /\ (i - 1) + 1 = i
    BY <1>1
  <2> QED
    BY <1>1, <2>1
<1>3. /\ \A i \in DOMAIN p : i + 1 \in DOMAIN q /\ q[i + 1] = p[i] /\ 1 < i + 1
      /\ 1 \in DOMAIN q /\ q[1] = e
      /\ \A i, j \in DOMAIN q : i < j => j - 1 \in DOMAIN p /\ q[j] = p[j - 1] /\ j # 1
      /\ \A i, j \in DOMAIN p : i < j => i + 1 < j + 1
      /\ \A i, j \in DOMAIN q : i < j => i - 1 < j - 1
  BY <1>1, <1>2
<1>4. \A x : Has(q, w, x) <=> Has(p, w, x) \/ e = <<w, x>>
  BY <1>2, <1>3 DEF Has
<1>5. Names(q, w) <=> Names(p, w) \/ e[1] = w
  BY <1>2, <1>3 DEF Names
<1>6. \A x : Twice(q, w, x) <=> Twice(p, w, x) \/ (Has(p, w, x) /\ e = <<w, x>>)
  BY <1>2, <1>3 DEF Twice, Has
<1>7. Again(q, w) <=> Again(p, w) \/ (Names(p, w) /\ e[1] = w)
  BY <1>2, <1>3 DEF Again, Names
<1>8. \A x, y : Followed(q, w, x, y) <=> Followed(p, w, x, y) \/ (Has(p, w, y) /\ e = <<w, x>>)
  BY <1>2, <1>3 DEF Followed, Has
<1> QED
  BY <1>1, <1>4, <1>5, <1>6, <1>7, <1>8 DEF p, e

\* Helpers do not matter.
OnlyHelpers(q) == \A i \in DOMAIN q : q[i][1] \in Helper

LEMMA OfHelpers ==
  ASSUME NEW S, NEW q \in Seq(S), NEW r \in Seq(S), OnlyHelpers(r),
         NEW w \in {Main, Vice}
  PROVE  LET p == q \o r IN
         /\ p \in Seq(S)
         /\ \A x : Has(p, w, x) <=> Has(q, w, x)
         /\ Names(p, w) <=> Names(q, w)
         /\ \A x : Twice(p, w, x) <=> Twice(q, w, x)
         /\ Again(p, w) <=> Again(q, w)
         /\ \A x, y : Followed(p, w, x, y) <=> Followed(q, w, x, y)
<1> DEFINE p == q \o r
           n == Len(q)
           m == Len(r)
<1>1. /\ n \in Nat /\ m \in Nat /\ DOMAIN q = 1 .. n /\ DOMAIN r = 1 .. m /\ DOMAIN p = 1 .. n + m
      /\ p \in Seq(S)
      /\ \A i \in 1 .. n : p[i] = q[i]
      /\ \A i \in n + 1 .. n + m : p[i] = r[i - n]
  BY ConcatProperties
<1> HIDE DEF p, n, m
<1>2. \A i \in DOMAIN q : i \in DOMAIN p /\ p[i] = q[i]
  BY <1>1
<1>3. \A i \in DOMAIN p : p[i][1] = w => i \in DOMAIN q /\ p[i] = q[i]
  <2> SUFFICES ASSUME NEW i \in 1 .. n + m, p[i][1] = w, i \notin 1 .. n PROVE FALSE
    BY <1>1
  <2>1. i \in n + 1 .. n + m /\ i - n \in 1 .. m
    BY <1>1
  <2>2. w \notin Helper
    BY WindowsAssumption
  <2> QED
    BY <1>1, <2>1, <2>2 DEF OnlyHelpers
<1>4. \A z : \A i \in DOMAIN p : p[i] = <<w, z>> => i \in DOMAIN q /\ q[i] = <<w, z>>
  BY <1>3
<1>5. \A x : Has(p, w, x) <=> Has(q, w, x)
  BY <1>2, <1>4 DEF Has
<1>6. Names(p, w) <=> Names(q, w)
  BY <1>2, <1>3 DEF Names
<1>7. \A x : Twice(p, w, x) <=> Twice(q, w, x)
  BY <1>2, <1>4 DEF Twice
<1>8. Again(p, w) <=> Again(q, w)
  BY <1>2, <1>3 DEF Again
<1>9. \A x, y : Followed(p, w, x, y) <=> Followed(q, w, x, y)
  BY <1>2, <1>4 DEF Followed
<1> QED
  BY <1>1, <1>5, <1>6, <1>7, <1>8, <1>9 DEF p

-----------------------------------------------------------------------------
(***************************************************************************)
(* What the functions of the backend do.                                   *)
(***************************************************************************)
Flags == {Shown, Iconified, Hidden}

Screens == [mapped : [Win -> BOOLEAN], asked : Seq(Order), events : Seq(News),
            props : [Win -> Flags], flags : [Win -> Flags]]

LEMMA Differ ==
  /\ Shown # Iconified /\ Shown # Hidden /\ Iconified # Hidden
  /\ "visible" \in Shown /\ "visible" \notin Iconified /\ "visible" \notin Hidden
BY DEF Shown, Iconified, Hidden

LEMMA KnownIs ==
  ASSUME NEW s \in Screens, NEW w \in Win
  PROVE  /\ s.mapped[w] => Known(s, w) = IF s.props[w] = Iconified THEN Shown \cup Iconified
                                                                  ELSE Shown
         /\ ~s.mapped[w] => Known(s, w) = IF s.props[w] = Iconified THEN Iconified ELSE Hidden
<1>1. s.props[w] \in Flags
  BY DEF Screens
<1>2. Shown \ Shown = Hidden /\ Iconified \ Shown = Iconified /\ Hidden \ Shown = Hidden
  BY DEF Shown, Iconified, Hidden
<1>3. /\ Hidden \cup Shown = Shown /\ Iconified \cup Shown = Shown \cup Iconified
      /\ Hidden \cup {} = Hidden /\ Iconified \cup {} = Iconified
  BY DEF Hidden
<1>4. s.props[w] \ Shown = IF s.props[w] = Iconified THEN Iconified ELSE Hidden
  BY <1>1, <1>2 DEF Flags
<1> QED
  BY <1>3, <1>4 DEF Known

LEMMA ScreenParts ==
  ASSUME NEW s \in Screens
  PROVE  /\ s.mapped \in [Win -> BOOLEAN] /\ s.asked \in Seq(Order) /\ s.events \in Seq(News)
         /\ s.props \in [Win -> Flags] /\ s.flags \in [Win -> Flags]
BY DEF Screens

LEMMA RequestDoes ==
  ASSUME NEW s \in Screens, NEW w \in Win, NEW new \in Flags, s.props[w] # new
  PROVE  LET t == Request(s, w, new) IN
         \/ /\ t = s
            /\ (new = Shown /\ s.mapped[w]) \/ (new = Hidden /\ ~s.mapped[w])
         \/ new = Shown /\ ~s.mapped[w] /\ t = Tell(s, w, "map")
         \/ new = Iconified /\ t = Tell(s, w, "iconify")
         \/ /\ s.mapped[w] /\ t = Unmap(s, w)
            /\ new = Hidden \/ (new = Shown /\ s.props[w] = Iconified)
<1> DEFINE k == Known(s, w)
           diff == SymDiff(k, new)
<1>1. s.props[w] \in Flags
  BY DEF Screens
<1>2. k \in {Shown \cup Iconified, Shown, Iconified, Hidden}
  BY KnownIs
<1>3. /\ "visible" \in k <=> s.mapped[w]
      /\ ~s.mapped[w] => k = IF s.props[w] = Iconified THEN Iconified ELSE Hidden
      /\ s.mapped[w] => k = IF s.props[w] = Iconified THEN Shown \cup Iconified ELSE Shown
  BY KnownIs, Differ
<1>4. /\ diff = {} <=> k = new
      /\ "visible" \in diff \cap new <=> "visible" \in new /\ "visible" \notin k
  BY DEF SymDiff
<1>5. Request(s, w, new) = IF diff = {} THEN s
                           ELSE IF "visible" \in diff \cap new THEN Tell(s, w, "map")
                           ELSE IF new = Iconified THEN Tell(s, w, "iconify")
                           ELSE Unmap(s, w)
  BY DEF Request
<1>6. /\ Shown \cup Iconified \notin Flags
      /\ ~s.mapped[w] => Unmap(s, w) = s
  BY DEF Flags, Shown, Iconified, Hidden, Unmap
<1> HIDE DEF k, diff
<1>7. CASE new = Shown
  BY <1>1, <1>3, <1>4, <1>5, <1>6, <1>7, Differ DEF Flags
<1>8. CASE new = Iconified
  BY <1>1, <1>3, <1>4, <1>5, <1>6, <1>8, Differ DEF Flags
<1>9. CASE new = Hidden
  BY <1>1, <1>3, <1>4, <1>5, <1>6, <1>9, Differ DEF Flags
<1> QED
  BY <1>7, <1>8, <1>9 DEF Flags

\* What a window is asked, and what comes of it at once.
Asks(s, t, w, x) ==
  /\ t.asked = Append(s.asked, <<w, x>>)
  /\ IF x = "unmapped"
     THEN /\ t.mapped = [s.mapped EXCEPT ![w] = FALSE]
          /\ t.events = Append(s.events, <<w, "hide">>)
     ELSE t.mapped = s.mapped /\ t.events = s.events

Same(s, t) == t.mapped = s.mapped /\ t.asked = s.asked /\ t.events = s.events

LEMMA SetPropsDoes ==
  ASSUME NEW s \in Screens, NEW w \in Win, NEW new \in Flags
  PROVE  LET t == SetProps(s, w, new) IN
         /\ t \in Screens
         /\ t.props = [s.props EXCEPT ![w] = new] /\ t.flags = s.flags
         /\ \/ /\ Same(s, t)
               /\ \/ s.props[w] = new
                  \/ new = Shown /\ s.mapped[w]
                  \/ new = Hidden /\ ~s.mapped[w]
            \/ s.props[w] # new /\ new = Shown /\ ~s.mapped[w] /\ Asks(s, t, w, "map")
            \/ s.props[w] # new /\ new = Iconified /\ Asks(s, t, w, "iconify")
            \/ /\ s.props[w] # new /\ s.mapped[w] /\ Asks(s, t, w, "unmapped")
               /\ new = Hidden \/ (new = Shown /\ s.props[w] = Iconified)
<1> DEFINE t == SetProps(s, w, new)
           u == Request(s, w, new)
<1>0. /\ s.mapped \in [Win -> BOOLEAN] /\ s.asked \in Seq(Order) /\ s.events \in Seq(News)
      /\ s.props \in [Win -> Flags] /\ s.flags \in [Win -> Flags]
  BY ScreenParts
<1>1. s = [mapped |-> s.mapped, asked |-> s.asked, events |-> s.events,
           props |-> s.props, flags |-> s.flags]
  BY DEF Screens
<1>2. CASE s.props[w] = new
  <2>1. t = s
    BY <1>2 DEF SetProps
  <2>2. s.props = [s.props EXCEPT ![w] = new]
    BY <1>0, <1>2
  <2> QED
    BY <1>2, <2>1, <2>2 DEF Same
<1>3. ASSUME s.props[w] # new, NEW v \in Screens, u = v, v.props = s.props, v.flags = s.flags
      PROVE  /\ t \in Screens
             /\ t.props = [s.props EXCEPT ![w] = new] /\ t.flags = s.flags
             /\ t.mapped = v.mapped /\ t.asked = v.asked /\ t.events = v.events
  <2>1. v = [mapped |-> v.mapped, asked |-> v.asked, events |-> v.events,
             props |-> v.props, flags |-> v.flags]
    BY DEF Screens
  <2>2. t = [v EXCEPT !.props[w] = new]
    BY <1>3 DEF SetProps
  <2>3. t = [mapped |-> v.mapped, asked |-> v.asked, events |-> v.events,
             props |-> [v.props EXCEPT ![w] = new], flags |-> v.flags]
    BY <2>1, <2>2
  <2>4. [v.props EXCEPT ![w] = new] \in [Win -> Flags]
    BY <1>0, <1>3
  <2>5. t \in Screens
    BY <2>3, <2>4 DEF Screens
  <2> QED
    BY <1>3, <2>3, <2>5
<1>4. ASSUME NEW x \in {"map", "iconify", "unmapped"}
      PROVE  LET v == Tell(s, w, x) IN
             /\ v \in Screens /\ v.props = s.props /\ v.flags = s.flags
             /\ v.asked = Append(s.asked, <<w, x>>) /\ v.mapped = s.mapped
             /\ v.events = s.events
  <2>1. <<w, x>> \in Order
    BY DEF Order
  <2>2. Append(s.asked, <<w, x>>) \in Seq(Order)
    BY <1>0, <2>1
  <2>3. Tell(s, w, x) = [mapped |-> s.mapped, asked |-> Append(s.asked, <<w, x>>),
                         events |-> s.events, props |-> s.props, flags |-> s.flags]
    <3>1. Tell(s, w, x) = [s EXCEPT !.asked = Append(s.asked, <<w, x>>)]
      BY DEF Tell
    <3> QED
      BY <1>1, <3>1
  <2> QED
    BY <1>0, <2>2, <2>3 DEF Screens
<1>5. s.mapped[w] =>
        LET v == Unmap(s, w) IN
        /\ v \in Screens /\ v.props = s.props /\ v.flags = s.flags
        /\ v.asked = Append(s.asked, <<w, "unmapped">>)
        /\ v.mapped = [s.mapped EXCEPT ![w] = FALSE]
        /\ v.events = Append(s.events, <<w, "hide">>)
  <2> SUFFICES ASSUME s.mapped[w]
               PROVE  LET v == Unmap(s, w) IN
                      /\ v \in Screens /\ v.props = s.props /\ v.flags = s.flags
                      /\ v.asked = Append(s.asked, <<w, "unmapped">>)
                      /\ v.mapped = [s.mapped EXCEPT ![w] = FALSE]
                      /\ v.events = Append(s.events, <<w, "hide">>)
    OBVIOUS
  <2> DEFINE a == Tell(s, w, "unmapped")
  <2>1. /\ a \in Screens /\ a.props = s.props /\ a.flags = s.flags
        /\ a.asked = Append(s.asked, <<w, "unmapped">>)
        /\ a.mapped = s.mapped /\ a.events = s.events
    BY <1>4
  <2>2. Unmap(s, w) = [a EXCEPT !.mapped[w] = FALSE, !.events = Append(@, <<w, "hide">>)]
    BY DEF Unmap
  <2> HIDE DEF a
  <2>3. a = [mapped |-> a.mapped, asked |-> a.asked, events |-> a.events,
             props |-> a.props, flags |-> a.flags]
    BY <2>1 DEF Screens
  <2>4. Unmap(s, w) = [mapped |-> [a.mapped EXCEPT ![w] = FALSE], asked |-> a.asked,
                       events |-> Append(a.events, <<w, "hide">>),
                       props |-> a.props, flags |-> a.flags]
    BY <2>2, <2>3
  <2>5. [a.mapped EXCEPT ![w] = FALSE] \in [Win -> BOOLEAN]
    BY <2>1, <1>0
  <2>6. <<w, "hide">> \in News
    BY DEF News
  <2>7. Append(a.events, <<w, "hide">>) \in Seq(News)
    BY <1>0, <2>1, <2>6
  <2>8. Unmap(s, w) \in Screens
    <3>1. a.asked \in Seq(Order) /\ a.props \in [Win -> Flags] /\ a.flags \in [Win -> Flags]
      BY <2>1, ScreenParts
    <3> QED
      BY <2>4, <2>5, <2>7, <3>1 DEF Screens
  <2> QED
    BY <2>1, <2>4, <2>8
<1> HIDE DEF t, u
<1>6. CASE s.props[w] # new
  <2>1. CASE /\ u = s
             /\ (new = Shown /\ s.mapped[w]) \/ (new = Hidden /\ ~s.mapped[w])
    <3>1. /\ t \in Screens /\ t.props = [s.props EXCEPT ![w] = new] /\ t.flags = s.flags
          /\ Same(s, t)
      BY <1>3, <1>6, <2>1 DEF Same
    <3> QED
      BY <2>1, <3>1 DEF t
  <2>2. CASE new = Shown /\ ~s.mapped[w] /\ u = Tell(s, w, "map")
    <3>1. t \in Screens /\ t.props = [s.props EXCEPT ![w] = new] /\ t.flags = s.flags
          /\ Asks(s, t, w, "map")
      BY <1>3, <1>4, <1>6, <2>2 DEF Asks
    <3> QED
      BY <1>6, <2>2, <3>1 DEF t
  <2>3. CASE new = Iconified /\ u = Tell(s, w, "iconify")
    <3>1. t \in Screens /\ t.props = [s.props EXCEPT ![w] = new] /\ t.flags = s.flags
          /\ Asks(s, t, w, "iconify")
      BY <1>3, <1>4, <1>6, <2>3 DEF Asks
    <3> QED
      BY <1>6, <2>3, <3>1 DEF t
  <2>4. CASE /\ s.mapped[w] /\ u = Unmap(s, w)
             /\ new = Hidden \/ (new = Shown /\ s.props[w] = Iconified)
    <3>1. t \in Screens /\ t.props = [s.props EXCEPT ![w] = new] /\ t.flags = s.flags
          /\ Asks(s, t, w, "unmapped")
      BY <1>3, <1>5, <1>6, <2>4 DEF Asks
    <3> QED
      BY <1>6, <2>4, <3>1 DEF t
  <2> QED
    BY <1>6, <2>1, <2>2, <2>3, <2>4, RequestDoes DEF u
<1> QED
  BY <1>2, <1>6 DEF t

LEMMA GetPropsDoes ==
  ASSUME NEW s \in Screens, NEW w \in Win
  PROVE  LET t == GetProps(s, w) IN
         /\ t \in Screens /\ Same(s, t) /\ t.props = s.props
         /\ t.flags = [s.flags EXCEPT ![w] = s.props[w]]
<1> DEFINE t == GetProps(s, w)
<1>1. s = [mapped |-> s.mapped, asked |-> s.asked, events |-> s.events,
           props |-> s.props, flags |-> s.flags]
  BY DEF Screens
<1>2. t = [s EXCEPT !.flags = [s.flags EXCEPT ![w] = s.props[w]]]
  BY <1>1 DEF GetProps
<1>3. t = [mapped |-> s.mapped, asked |-> s.asked, events |-> s.events,
           props |-> s.props, flags |-> [s.flags EXCEPT ![w] = s.props[w]]]
  BY <1>1, <1>2
<1>4. [s.flags EXCEPT ![w] = s.props[w]] \in [Win -> Flags]
  BY ScreenParts
<1> QED
  BY <1>3, <1>4, ScreenParts DEF Screens, Same

\* SetAndGet asks for what SetProps asks.
Outcome(s, t, w, new) ==
  \/ /\ Same(s, t)
     /\ \/ s.props[w] = new
        \/ new = Shown /\ s.mapped[w]
        \/ new = Hidden /\ ~s.mapped[w]
  \/ s.props[w] # new /\ new = Shown /\ ~s.mapped[w] /\ Asks(s, t, w, "map")
  \/ s.props[w] # new /\ new = Iconified /\ Asks(s, t, w, "iconify")
  \/ /\ s.props[w] # new /\ s.mapped[w] /\ Asks(s, t, w, "unmapped")
     /\ new = Hidden \/ (new = Shown /\ s.props[w] = Iconified)

LEMMA SetAndGetDoes ==
  ASSUME NEW s \in Screens, NEW w \in Win, NEW new \in Flags
  PROVE  LET t == SetAndGet(s, w, new) IN
         /\ t \in Screens
         /\ t.props = [s.props EXCEPT ![w] = new]
         /\ t.flags = [s.flags EXCEPT ![w] = new]
         /\ Outcome(s, t, w, new)
<1> DEFINE u == SetProps(s, w, new)
           t == SetAndGet(s, w, new)
<1>1. /\ u \in Screens /\ u.props = [s.props EXCEPT ![w] = new] /\ u.flags = s.flags
      /\ Outcome(s, u, w, new)
  BY SetPropsDoes DEF Outcome
<1>2. t = GetProps(u, w)
  BY DEF SetAndGet
<1> HIDE DEF u, t
<1>3. /\ t \in Screens /\ Same(u, t) /\ t.props = u.props
      /\ t.flags = [u.flags EXCEPT ![w] = u.props[w]]
  BY <1>1, <1>2, GetPropsDoes
<1>4. u.props[w] = new
  BY <1>1, ScreenParts
<1>5. Outcome(s, t, w, new)
  BY <1>1, <1>3 DEF Outcome, Same, Asks
<1> QED
  BY <1>1, <1>3, <1>4, <1>5 DEF t

LEMMA InSomeOrder ==
  ASSUME NEW S, IsFiniteSet(S)
  PROVE  SetToSeq(S) \in Seq(S)
<1> DEFINE n == Cardinality(S)
<1>1. n \in Nat /\ ExistsBijection(1 .. n, S)
  BY FS_CardinalityType
<1>2. PICK f \in [1 .. n -> S] : IsInjective(f)
  BY <1>1 DEF ExistsBijection, Bijection, Injection
<1>3. SetToSeq(S) \in [1 .. n -> S]
  BY <1>2 DEF SetToSeq
<1> QED
  BY <1>1, <1>3

\* Nothing has come of w, nor is asked of it.
Likewise(s, t, w) ==
  /\ t.mapped[w] <=> s.mapped[w]
  /\ Again(t.asked, w) <=> Again(s.asked, w)
  /\ \A x : Has(t.asked, w, x) <=> Has(s.asked, w, x)
  /\ \A x : Has(t.events, w, x) <=> Has(s.events, w, x)
  /\ \A x : Twice(t.asked, w, x) <=> Twice(s.asked, w, x)
  /\ \A x : Twice(t.events, w, x) <=> Twice(s.events, w, x)
  /\ \A x, y : Followed(t.asked, w, x, y) <=> Followed(s.asked, w, x, y)

Alike(s, t, w) ==
  Likewise(s, t, w) /\ t.props[w] = s.props[w] /\ t.flags[w] = s.flags[w]

HelpersOnly(s, t) == Alike(s, t, Main) /\ Alike(s, t, Vice)

LEMMA UpdateHelpersDoes ==
  ASSUME NEW s \in Screens
  PROVE  UpdateHelpers(s) \in Screens /\ HelpersOnly(s, UpdateHelpers(s))
<1> DEFINE new == [w \in Win |-> IF w \in Helper THEN SetAndGet(s, w, s.flags[Vice]) ELSE s]
           hAsk == {h \in Helper : new[h].asked # s.asked}
           hHide == {h \in Helper : new[h].events # s.events}
           asking == SetToSeq(hAsk)
           hiding == SetToSeq(hHide)
           more == [i \in DOMAIN asking |-> Last(new[asking[i]].asked)]
           gone == [i \in DOMAIN hiding |-> Last(new[hiding[i]].events)]
           t == UpdateHelpers(s)
<1>0. /\ s.mapped \in [Win -> BOOLEAN] /\ s.asked \in Seq(Order) /\ s.events \in Seq(News)
      /\ s.props \in [Win -> Flags] /\ s.flags \in [Win -> Flags]
      /\ s.flags[Vice] \in Flags /\ Helper \subseteq Win
  BY ScreenParts DEF Win
<1>1. /\ t.mapped = [w \in Win |-> new[w].mapped[w]]
      /\ t.props = [w \in Win |-> new[w].props[w]]
      /\ t.flags = [w \in Win |-> new[w].flags[w]]
      /\ t.asked = s.asked \o more /\ t.events = s.events \o gone
      /\ t = [mapped |-> t.mapped, props |-> t.props, flags |-> t.flags,
              asked |-> t.asked, events |-> t.events]
  BY DEF UpdateHelpers
<1>2. \A w \in Win : new[w] \in Screens
  BY <1>0, SetAndGetDoes
<1>3. \A w \in Win : w \notin Helper => new[w] = s
  OBVIOUS
<1>4. ASSUME NEW h \in Helper
      PROVE  Outcome(s, new[h], h, s.flags[Vice])
  BY <1>0, SetAndGetDoes
<1>5. ASSUME NEW h \in hAsk
      PROVE  Last(new[h].asked) \in Helper \X {"map", "iconify", "unmapped"}
  <2>1. h \in Helper /\ new[h].asked # s.asked
    OBVIOUS
  <2> HIDE DEF new
  <2>2. PICK x \in {"map", "iconify", "unmapped"} : new[h].asked = Append(s.asked, <<h, x>>)
    BY <1>4, <2>1 DEF Outcome, Same, Asks
  <2>3. Last(Append(s.asked, <<h, x>>)) = <<h, x>>
    BY <1>0 DEF Last
  <2>4. Last(new[h].asked) = <<h, x>>
    BY <2>2, <2>3
  <2> QED
    BY <2>1, <2>4
<1>6. ASSUME NEW h \in hHide
      PROVE  Last(new[h].events) \in Helper \X {"hide"}
  <2>1. h \in Helper /\ new[h].events # s.events
    OBVIOUS
  <2> HIDE DEF new
  <2>2. new[h].events = Append(s.events, <<h, "hide">>)
    BY <1>4, <2>1 DEF Outcome, Same, Asks
  <2>3. Last(Append(s.events, <<h, "hide">>)) = <<h, "hide">>
    BY <1>0 DEF Last
  <2>4. Last(new[h].events) = <<h, "hide">>
    BY <2>2, <2>3
  <2> QED
    BY <2>1, <2>4
<1>7. asking \in Seq(hAsk) /\ hiding \in Seq(hHide)
  <2>1. IsFiniteSet(hAsk) /\ IsFiniteSet(hHide)
    BY WindowsAssumption, FS_Subset
  <2> QED
    BY <2>1, InSomeOrder
<1> HIDE DEF new, hAsk, hHide, asking, hiding
<1>8. /\ more \in Seq(Order) /\ OnlyHelpers(more)
  <2>1. DOMAIN asking = 1 .. Len(asking) /\ Len(asking) \in Nat
        /\ \A i \in DOMAIN asking : asking[i] \in hAsk
    BY <1>7
  <2>2. \A i \in DOMAIN asking : more[i] \in Helper \X {"map", "iconify", "unmapped"}
    BY <1>5, <2>1
  <2>3. \A i \in DOMAIN asking : more[i] \in Order /\ more[i][1] \in Helper
    BY <1>0, <2>2 DEF Order
  <2> QED
    BY <2>1, <2>3 DEF OnlyHelpers
<1>9. /\ gone \in Seq(News) /\ OnlyHelpers(gone)
  <2>1. DOMAIN hiding = 1 .. Len(hiding) /\ Len(hiding) \in Nat
        /\ \A i \in DOMAIN hiding : hiding[i] \in hHide
    BY <1>7
  <2>2. \A i \in DOMAIN hiding : gone[i] \in Helper \X {"hide"}
    BY <1>6, <2>1
  <2>3. \A i \in DOMAIN hiding : gone[i] \in News /\ gone[i][1] \in Helper
    BY <1>0, <2>2 DEF News
  <2> QED
    BY <2>1, <2>3 DEF OnlyHelpers
<1> HIDE DEF more, gone
<1>10. t \in Screens
  <2>1. /\ t.mapped \in [Win -> BOOLEAN] /\ t.props \in [Win -> Flags]
        /\ t.flags \in [Win -> Flags]
    BY <1>1, <1>2, ScreenParts
  <2>2. t.asked \in Seq(Order) /\ t.events \in Seq(News)
    BY <1>0, <1>1, <1>8, <1>9
  <2> HIDE DEF t
  <2> QED
    BY <1>1, <2>1, <2>2 DEF Screens
<1>11. ASSUME NEW w \in {Main, Vice}
       PROVE  t.mapped[w] = s.mapped[w] /\ t.props[w] = s.props[w] /\ t.flags[w] = s.flags[w]
  <2>1. w \in Win /\ w \notin Helper
    BY WindowsAssumption DEF Win
  <2>2. new[w] = s
    BY <1>3, <2>1
  <2> HIDE DEF t
  <2> QED
    BY <1>1, <2>1, <2>2
<1> HIDE DEF t
<1>14. s.asked \in Seq(Order) /\ s.events \in Seq(News)
  BY <1>0
<1>12. ASSUME NEW w \in {Main, Vice}
       PROVE  /\ Again(t.asked, w) <=> Again(s.asked, w)
              /\ \A x : Has(t.asked, w, x) <=> Has(s.asked, w, x)
              /\ \A x : Twice(t.asked, w, x) <=> Twice(s.asked, w, x)
              /\ \A x, y : Followed(t.asked, w, x, y) <=> Followed(s.asked, w, x, y)
  <2>1. t.asked = s.asked \o more
    BY <1>1
  <2> QED
    BY <1>14, <1>8, <2>1, OfHelpers
<1>13. ASSUME NEW w \in {Main, Vice}
       PROVE  /\ \A x : Has(t.events, w, x) <=> Has(s.events, w, x)
              /\ \A x : Twice(t.events, w, x) <=> Twice(s.events, w, x)
  <2>1. t.events = s.events \o gone
    BY <1>1
  <2> QED
    BY <1>14, <1>9, <2>1, OfHelpers
<1> QED
  BY <1>10, <1>11, <1>12, <1>13 DEF HelpersOnly, Alike, Likewise, t

LEMMA AskedNames ==
  ASSUME NEW q \in Seq(Order), NEW w
  PROVE  Names(q, w) <=> Asked(q, w)
<1>1. \A i \in DOMAIN q : /\ q[i] = <<q[i][1], q[i][2]>>
                          /\ q[i][2] \in {"map", "iconify", "unmapped"}
  <2> SUFFICES ASSUME NEW i \in DOMAIN q
               PROVE  q[i] = <<q[i][1], q[i][2]>> /\ q[i][2] \in {"map", "iconify", "unmapped"}
    OBVIOUS
  <2>1. q[i] \in Order
    OBVIOUS
  <2> QED
    BY <2>1 DEF Order
<1>2. \A x : \A i \in DOMAIN q : q[i] = <<w, x>> => q[i][1] = w
  OBVIOUS
<1> QED
  BY <1>1, <1>2 DEF Names, Asked, Has

\* w is asked for something.
AskedFor(s, t, w, x) ==
  /\ t.mapped[w] <=> s.mapped[w] /\ x # "unmapped"
  /\ Again(t.asked, w) <=> Again(s.asked, w) \/ Asked(s.asked, w)
  /\ \A y : Has(t.asked, w, y) <=> Has(s.asked, w, y) \/ y = x
  /\ \A y : Has(t.events, w, y) <=> Has(s.events, w, y) \/ (y = "hide" /\ x = "unmapped")
  /\ \A y : Twice(t.asked, w, y) <=> Twice(s.asked, w, y) \/ (Has(s.asked, w, y) /\ y = x)
  /\ \A y : Twice(t.events, w, y) <=>
       Twice(s.events, w, y) \/ (Has(s.events, w, y) /\ y = "hide" /\ x = "unmapped")
  /\ \A y, z : Followed(t.asked, w, y, z) <=>
       Followed(s.asked, w, y, z) \/ (Has(s.asked, w, y) /\ z = x)

LEMMA AsksDoes ==
  ASSUME NEW s \in Screens, NEW t \in Screens, NEW w \in Win,
         NEW x \in {"map", "iconify", "unmapped"}, Asks(s, t, w, x)
  PROVE  AskedFor(s, t, w, x) /\ \A v \in Win \ {w} : Likewise(s, t, v)
<1>1. s.asked \in Seq(Order) /\ s.events \in Seq(News) /\ s.mapped \in [Win -> BOOLEAN]
  BY ScreenParts
<1>2. <<w, x>> \in Order /\ <<w, "hide">> \in News
  BY DEF Order, News
<1>3. \A v \in Win : t.mapped[v] <=> s.mapped[v] /\ (v = w => x # "unmapped")
  BY <1>1 DEF Asks
<1>4. t.asked = Append(s.asked, <<w, x>>)
  BY DEF Asks
<1>5. ASSUME NEW v \in Win
      PROVE  /\ Again(t.asked, v) <=> Again(s.asked, v) \/ (Asked(s.asked, v) /\ v = w)
             /\ \A y : Has(t.asked, v, y) <=> Has(s.asked, v, y) \/ (y = x /\ v = w)
             /\ \A y : Twice(t.asked, v, y) <=>
                  Twice(s.asked, v, y) \/ (Has(s.asked, v, y) /\ y = x /\ v = w)
             /\ \A y, z : Followed(t.asked, v, y, z) <=>
                  Followed(s.asked, v, y, z) \/ (Has(s.asked, v, y) /\ z = x /\ v = w)
  <2> DEFINE e == <<w, x>>
             q == s.asked
             p == t.asked
  <2>1. (\A y : e = <<v, y>> <=> y = x /\ v = w) /\ e[1] = w
    OBVIOUS
  <2>2. q \in Seq(Order) /\ e \in Order /\ p = Append(q, e)
    BY <1>1, <1>2, <1>4
  <2>3. Names(q, v) <=> Asked(q, v)
    BY <1>1, AskedNames
  <2> HIDE DEF e, q, p
  <2>4. /\ Again(p, v) <=> Again(q, v) \/ (Names(q, v) /\ e[1] = v)
        /\ \A y : Has(p, v, y) <=> Has(q, v, y) \/ e = <<v, y>>
        /\ \A y : Twice(p, v, y) <=> Twice(q, v, y) \/ (Has(q, v, y) /\ e = <<v, y>>)
        /\ \A y, z : Followed(p, v, y, z) <=>
             Followed(q, v, y, z) \/ (Has(q, v, y) /\ e = <<v, z>>)
    BY <2>2, Added
  <2>5. /\ Again(p, v) <=> Again(q, v) \/ (Asked(q, v) /\ v = w)
        /\ \A y : Has(p, v, y) <=> Has(q, v, y) \/ (y = x /\ v = w)
        /\ \A y : Twice(p, v, y) <=> Twice(q, v, y) \/ (Has(q, v, y) /\ y = x /\ v = w)
        /\ \A y, z : Followed(p, v, y, z) <=>
             Followed(q, v, y, z) \/ (Has(q, v, y) /\ z = x /\ v = w)
    BY <2>1, <2>3, <2>4
  <2> QED
    BY <2>5 DEF p, q
<1>6. ASSUME NEW v \in Win
      PROVE  /\ \A y : Has(t.events, v, y) <=>
                  Has(s.events, v, y) \/ (y = "hide" /\ x = "unmapped" /\ v = w)
             /\ \A y : Twice(t.events, v, y) <=>
                  Twice(s.events, v, y) \/ (Has(s.events, v, y) /\ y = "hide"
                                            /\ x = "unmapped" /\ v = w)
  <2>1. CASE x # "unmapped"
    BY <2>1 DEF Asks
  <2>2. CASE x = "unmapped"
    <3> DEFINE e == <<w, "hide">>
               q == s.events
               p == t.events
    <3>1. \A y : e = <<v, y>> <=> y = "hide" /\ v = w
      OBVIOUS
    <3>2. q \in Seq(News) /\ e \in News /\ p = Append(q, e)
      BY <1>1, <1>2, <2>2 DEF Asks
    <3> HIDE DEF e, q, p
    <3>3. /\ \A y : Has(p, v, y) <=> Has(q, v, y) \/ e = <<v, y>>
          /\ \A y : Twice(p, v, y) <=> Twice(q, v, y) \/ (Has(q, v, y) /\ e = <<v, y>>)
      BY <3>2, Added
    <3>4. /\ \A y : Has(p, v, y) <=> Has(q, v, y) \/ (y = "hide" /\ v = w)
          /\ \A y : Twice(p, v, y) <=>
               Twice(q, v, y) \/ (Has(q, v, y) /\ y = "hide" /\ v = w)
      BY <3>1, <3>3
    <3> QED
      BY <2>2, <3>4 DEF p, q
  <2> QED
    BY <2>1, <2>2
<1>7. AskedFor(s, t, w, x)
  BY <1>3, <1>5, <1>6 DEF AskedFor
<1>8. ASSUME NEW v \in Win \ {w}
      PROVE  Likewise(s, t, v)
  BY <1>3, <1>5, <1>6 DEF Likewise
<1> QED
  BY <1>7, <1>8

\* w is set to x.
Sets(s, t, w, x) ==
  /\ t.props[w] = x
  /\ \/ /\ Likewise(s, t, w)
        /\ s.props[w] = x \/ (x = Shown /\ s.mapped[w]) \/ (x = Hidden /\ ~s.mapped[w])
     \/ s.props[w] # x /\ x = Shown /\ ~s.mapped[w] /\ AskedFor(s, t, w, "map")
     \/ s.props[w] # x /\ x = Iconified /\ AskedFor(s, t, w, "iconify")
     \/ /\ s.props[w] # x /\ s.mapped[w] /\ AskedFor(s, t, w, "unmapped")
        /\ x = Hidden \/ (x = Shown /\ s.props[w] = Iconified)

LEMMA OutcomeDoes ==
  ASSUME NEW s \in Screens, NEW t \in Screens, NEW w \in Win, NEW x \in Flags,
         t.props = [s.props EXCEPT ![w] = x], Outcome(s, t, w, x)
  PROVE  /\ Sets(s, t, w, x)
         /\ \A v \in Win \ {w} : Likewise(s, t, v) /\ t.props[v] = s.props[v]
<1>1. t.props[w] = x /\ \A v \in Win \ {w} : t.props[v] = s.props[v]
  BY ScreenParts
<1>2. CASE Same(s, t)
  <2>1. \A v \in Win : Likewise(s, t, v)
    BY <1>2 DEF Same, Likewise
  <2>2. s.props[w] = x \/ (x = Shown /\ s.mapped[w]) \/ (x = Hidden /\ ~s.mapped[w])
        \/ \E y : Asks(s, t, w, y)
    BY DEF Outcome
  <2>3. ASSUME NEW y PROVE ~Asks(s, t, w, y)
    <3>1. s.asked \in Seq(Order)
      BY ScreenParts
    <3>2. Append(s.asked, <<w, y>>) # s.asked
      BY <3>1
    <3> QED
      BY <1>2, <3>2 DEF Same, Asks
  <2> QED
    BY <1>1, <2>1, <2>2, <2>3 DEF Sets
<1>3. ASSUME NEW y \in {"map", "iconify", "unmapped"}, Asks(s, t, w, y)
      PROVE  AskedFor(s, t, w, y) /\ \A v \in Win \ {w} : Likewise(s, t, v)
  BY <1>3, AsksDoes
<1>4. CASE s.props[w] # x /\ x = Shown /\ ~s.mapped[w] /\ Asks(s, t, w, "map")
  BY <1>1, <1>3, <1>4 DEF Sets
<1>5. CASE s.props[w] # x /\ x = Iconified /\ Asks(s, t, w, "iconify")
  BY <1>1, <1>3, <1>5 DEF Sets
<1>6. CASE /\ s.props[w] # x /\ s.mapped[w] /\ Asks(s, t, w, "unmapped")
           /\ x = Hidden \/ (x = Shown /\ s.props[w] = Iconified)
  BY <1>1, <1>3, <1>6 DEF Sets
<1> QED
  BY <1>2, <1>4, <1>5, <1>6 DEF Outcome

LEMMA SetsProps ==
  ASSUME NEW s \in Screens, NEW w \in Win, NEW x \in Flags
  PROVE  LET t == SetProps(s, w, x) IN
         /\ t \in Screens /\ Sets(s, t, w, x) /\ t.flags = s.flags
         /\ \A v \in Win \ {w} : Alike(s, t, v)
<1> DEFINE t == SetProps(s, w, x)
<1>1. /\ t \in Screens /\ t.props = [s.props EXCEPT ![w] = x] /\ t.flags = s.flags
      /\ Outcome(s, t, w, x)
  BY SetPropsDoes DEF Outcome
<1> HIDE DEF t
<1>2. /\ Sets(s, t, w, x)
      /\ \A v \in Win \ {w} : Likewise(s, t, v) /\ t.props[v] = s.props[v]
  BY <1>1, OutcomeDoes
<1> QED
  BY <1>1, <1>2 DEF Alike, t

LEMMA SetsAndGets ==
  ASSUME NEW s \in Screens, NEW w \in Win, NEW x \in Flags
  PROVE  LET t == SetAndGet(s, w, x) IN
         /\ t \in Screens /\ Sets(s, t, w, x) /\ t.flags[w] = x
         /\ \A v \in Win \ {w} : Alike(s, t, v)
<1> DEFINE t == SetAndGet(s, w, x)
<1>1. /\ t \in Screens /\ t.props = [s.props EXCEPT ![w] = x]
      /\ t.flags = [s.flags EXCEPT ![w] = x] /\ Outcome(s, t, w, x)
  BY SetAndGetDoes
<1> HIDE DEF t
<1>2. /\ Sets(s, t, w, x)
      /\ \A v \in Win \ {w} : Likewise(s, t, v) /\ t.props[v] = s.props[v]
  BY <1>1, OutcomeDoes
<1>3. t.flags[w] = x /\ \A v \in Win \ {w} : t.flags[v] = s.flags[v]
  BY <1>1, ScreenParts
<1> QED
  BY <1>1, <1>2, <1>3 DEF Alike, t

LEMMA Gets ==
  ASSUME NEW s \in Screens, NEW w \in Win
  PROVE  LET t == GetProps(s, w) IN
         /\ t \in Screens /\ Likewise(s, t, w)
         /\ t.props[w] = s.props[w] /\ t.flags[w] = s.props[w]
         /\ \A v \in Win \ {w} : Alike(s, t, v)
<1> DEFINE t == GetProps(s, w)
<1>1. /\ t \in Screens /\ Same(s, t) /\ t.props = s.props
      /\ t.flags = [s.flags EXCEPT ![w] = s.props[w]]
  BY GetPropsDoes
<1> HIDE DEF t
<1>2. \A v \in Win : Likewise(s, t, v)
  BY <1>1 DEF Same, Likewise
<1>3. t.flags[w] = s.props[w] /\ \A v \in Win \ {w} : t.flags[v] = s.flags[v]
  BY <1>1, ScreenParts
<1> QED
  BY <1>1, <1>2, <1>3 DEF Alike, t

-----------------------------------------------------------------------------
(***************************************************************************)
(* What the operations on the tree of windows do.                          *)
(***************************************************************************)
LEMMA ScreenIs ==
  ASSUME WinTypeOK
  PROVE  Screen \in Screens
BY DEF WinTypeOK, Screen, Screens, Flags

LEMMA NowIs ==
  ASSUME NEW s \in Screens, Becomes(s)
  PROVE  Screen' = s
<1>1. s = [mapped |-> s.mapped, asked |-> s.asked, events |-> s.events,
           props |-> s.props, flags |-> s.flags]
  BY DEF Screens
<1>2. /\ mapped' = s.mapped /\ asked' = s.asked /\ events' = s.events
      /\ props' = s.props /\ flags' = s.flags
  BY DEF Becomes
<1> QED
  BY <1>1, <1>2 DEF Screen

LEMMA Windows3 ==
  /\ Main \in Win /\ Vice \in Win /\ Main # Vice
  /\ \A h \in Helper : h \in Win /\ h # Main /\ h # Vice
  /\ Main \notin Helper /\ Vice \notin Helper
BY WindowsAssumption DEF Win

LEMMA AlikeThen ==
  ASSUME NEW s, NEW u, NEW t, NEW w, Alike(s, u, w), Alike(u, t, w)
  PROVE  Alike(s, t, w)
BY DEF Alike, Likewise

LEMMA LikewiseThen ==
  ASSUME NEW s, NEW u, NEW t, NEW w, Likewise(s, u, w), Alike(u, t, w)
  PROVE  Likewise(s, t, w)
BY DEF Alike, Likewise

LEMMA AlikeFlags ==
  ASSUME NEW u, NEW t, NEW w, Alike(u, t, w)
  PROVE  t.props[w] = u.props[w] /\ t.flags[w] = u.flags[w]
BY DEF Alike

LEMMA ForThen ==
  ASSUME NEW s, NEW u, NEW t, NEW w, NEW x, Alike(u, t, w), AskedFor(s, u, w, x)
  PROVE  AskedFor(s, t, w, x)
BY DEF Alike, Likewise, AskedFor

LEMMA ThenFor ==
  ASSUME NEW s, NEW u, NEW t, NEW w, NEW x, Alike(s, u, w), AskedFor(u, t, w, x)
  PROVE  AskedFor(s, t, w, x)
BY DEF Alike, Likewise, AskedFor, Asked

LEMMA SetsThen ==
  ASSUME NEW s, NEW u, NEW t, NEW w, NEW x, Alike(u, t, w), Sets(s, u, w, x)
  PROVE  Sets(s, t, w, x)
BY LikewiseThen, ForThen, AlikeFlags DEF Sets

LEMMA ThenSets ==
  ASSUME NEW s, NEW u, NEW t, NEW w, NEW x, Alike(s, u, w), Sets(u, t, w, x)
  PROVE  Sets(s, t, w, x)
<1>1. /\ u.mapped[w] <=> s.mapped[w]
      /\ u.props[w] = s.props[w]
      /\ Likewise(u, t, w) => Likewise(s, t, w)
  BY DEF Alike, Likewise
<1> QED
  BY <1>1, ThenFor DEF Sets

LEMMA HelpersThen ==
  ASSUME NEW s \in Screens, BecomesWithHelpers(s)
  PROVE  Screen' \in Screens /\ Alike(s, Screen', Main) /\ Alike(s, Screen', Vice)
<1>1. Becomes(UpdateHelpers(s))
  BY DEF BecomesWithHelpers
<1>2. UpdateHelpers(s) \in Screens /\ HelpersOnly(s, UpdateHelpers(s))
  BY UpdateHelpersDoes
<1>3. Screen' = UpdateHelpers(s)
  BY <1>1, <1>2, NowIs
<1> QED
  BY <1>2, <1>3 DEF HelpersOnly

\* Only a helper is looked at or changed.
Elsewhere == Screen' \in Screens /\ Alike(Screen, Screen', Main) /\ Alike(Screen, Screen', Vice)

LEMMA HelperDoes ==
  ASSUME WinTypeOK, NEW h \in Helper, NEW new \in Flags,
         Becomes(GetProps(Screen, h)) \/ UpdateTree(h, new) \/ RefreshTree(h)
  PROVE  Elsewhere
<1>1. Screen \in Screens
  BY ScreenIs
<1>2. Becomes(GetProps(Screen, h)) \/ Becomes(SetAndGet(Screen, h, new))
  BY Windows3 DEF UpdateTree, RefreshTree
<1>3. CASE Becomes(GetProps(Screen, h))
  <2>1. /\ GetProps(Screen, h) \in Screens
        /\ Alike(Screen, GetProps(Screen, h), Main) /\ Alike(Screen, GetProps(Screen, h), Vice)
    BY <1>1, Gets, Windows3
  <2> QED
    BY <1>3, <2>1, NowIs DEF Elsewhere
<1>4. CASE Becomes(SetAndGet(Screen, h, new))
  <2>1. /\ SetAndGet(Screen, h, new) \in Screens
        /\ Alike(Screen, SetAndGet(Screen, h, new), Main)
        /\ Alike(Screen, SetAndGet(Screen, h, new), Vice)
    BY <1>1, SetsAndGets, Windows3
  <2> QED
    BY <1>4, <2>1, NowIs DEF Elsewhere
<1> QED
  BY <1>2, <1>3, <1>4

\* The panel is looked at.
ViceSeen ==
  /\ Screen' \in Screens /\ Alike(Screen, Screen', Main)
  /\ Likewise(Screen, Screen', Vice) /\ Screen'.props[Vice] = Screen.props[Vice]

LEMMA RefreshViceDoes ==
  ASSUME WinTypeOK, RefreshTree(Vice)
  PROVE  ViceSeen
<1> DEFINE u == GetProps(Screen, Vice)
<1>1. u \in Screens /\ Alike(Screen, u, Main) /\ Likewise(Screen, u, Vice)
      /\ u.props[Vice] = Screen.props[Vice]
  BY ScreenIs, Gets, Windows3
<1>2. BecomesWithHelpers(u)
  BY Windows3 DEF RefreshTree, Refresh
<1> HIDE DEF u
<1>3. Screen' \in Screens /\ Alike(u, Screen', Main) /\ Alike(u, Screen', Vice)
  BY <1>1, <1>2, HelpersThen
<1> QED
  BY <1>1, <1>3, AlikeThen, LikewiseThen, AlikeFlags DEF ViceSeen

\* The main window is looked at, the panel is set to x.
MainSeen(x) ==
  /\ Screen' \in Screens
  /\ Likewise(Screen, Screen', Main) /\ Screen'.props[Main] = Screen.props[Main]
  /\ Screen'.flags[Main] = Screen.props[Main]
  /\ Sets(Screen, Screen', Vice, x)

LEMMA RefreshMainDoes ==
  ASSUME WinTypeOK, RefreshTree(Main)
  PROVE  \E x \in Flags : MainSeen(x)
<1> DEFINE x == Screen.flags[Vice]
           u == GetProps(Screen, Main)
           v == SetAndGet(u, Vice, x)
<1>1. Screen \in Screens /\ x \in Flags
  BY ScreenIs, ScreenParts, Windows3
<1>2. /\ u \in Screens /\ Likewise(Screen, u, Main) /\ Alike(Screen, u, Vice)
      /\ u.props[Main] = Screen.props[Main] /\ u.flags[Main] = Screen.props[Main]
  BY <1>1, Gets, Windows3
<1>3. BecomesWithHelpers(v)
  BY Windows3 DEF RefreshTree, Refresh
<1> HIDE DEF u, x
<1>4. v \in Screens /\ Sets(u, v, Vice, x) /\ Alike(u, v, Main)
  BY <1>1, <1>2, SetsAndGets, Windows3
<1> HIDE DEF v
<1>5. Screen' \in Screens /\ Alike(v, Screen', Main) /\ Alike(v, Screen', Vice)
  BY <1>3, <1>4, HelpersThen
<1>6. /\ Likewise(Screen, v, Main) /\ v.props[Main] = Screen.props[Main]
      /\ v.flags[Main] = Screen.props[Main]
  BY <1>2, <1>4, LikewiseThen, AlikeFlags
<1>7. /\ Likewise(Screen, Screen', Main) /\ Screen'.props[Main] = Screen.props[Main]
      /\ Screen'.flags[Main] = Screen.props[Main]
  BY <1>5, <1>6, LikewiseThen, AlikeFlags
<1>8. Sets(Screen, Screen', Vice, x)
  BY <1>2, <1>4, <1>5, SetsThen, ThenSets
<1> QED
  BY <1>1, <1>5, <1>7, <1>8 DEF MainSeen

LEMMA UpdateViceDoes ==
  ASSUME WinTypeOK, NEW new \in Flags, UpdateTree(Vice, new)
  PROVE  \/ ViceSeen
         \/ /\ Screen' \in Screens
            /\ Alike(Screen, Screen', Main)
            /\ Sets(Screen, Screen', Vice,
                    IF new = Shown THEN Shown
                    ELSE IF flags[Main] = Shown THEN Hidden ELSE Iconified)
<1> DEFINE x == IF new = Shown THEN Shown
                ELSE IF flags[Main] = Shown THEN Hidden ELSE Iconified
           u == SetAndGet(Screen, Vice, x)
<1>1. CASE RefreshTree(Vice)
  BY <1>1, RefreshViceDoes
<1>2. CASE BecomesWithHelpers(UpdateVice(Screen, new))
  <2>1. "visible" \in new <=> new = Shown
    BY Differ DEF Flags
  <2>2. Visible(Screen, Main) <=> flags[Main] = Shown
    <3>1. flags[Main] \in Flags
      BY Windows3 DEF WinTypeOK, Flags
    <3> QED
      BY <3>1, Differ DEF Visible, Screen, Flags
  <2>3. UpdateVice(Screen, new) = u
    BY <2>1, <2>2 DEF UpdateVice
  <2>4. x \in Flags
    BY DEF Flags
  <2> HIDE DEF x
  <2>5. u \in Screens /\ Sets(Screen, u, Vice, x) /\ Alike(Screen, u, Main)
    BY <2>4, ScreenIs, SetsAndGets, Windows3
  <2>6. BecomesWithHelpers(u)
    BY <1>2, <2>3
  <2> HIDE DEF u
  <2>7. Screen' \in Screens /\ Alike(u, Screen', Main) /\ Alike(u, Screen', Vice)
    BY <2>5, <2>6, HelpersThen
  <2>8. Alike(Screen, Screen', Main)
    BY <2>5, <2>7, AlikeThen
  <2>9. Sets(Screen, Screen', Vice, x)
    BY <2>5, <2>7, SetsThen
  <2> QED
    BY <2>7, <2>8, <2>9 DEF x
<1> QED
  BY <1>1, <1>2, Windows3 DEF UpdateTree

\* The main window is set to x, the panel is left alone.
MainSet(x) ==
  /\ Screen' \in Screens /\ Screen'.flags[Main] = x
  /\ Sets(Screen, Screen', Main, x) /\ Alike(Screen, Screen', Vice)

\* The main window is set to x, the panel is hidden and shown.
MainTold(x) ==
  /\ Screen' \in Screens /\ Screen'.flags[Main] = x
  /\ Sets(Screen, Screen', Main, x)
  /\ \E u \in Screens : Sets(Screen, u, Vice, Hidden) /\ Sets(u, Screen', Vice, Shown)

LEMMA UpdateMainDoes ==
  ASSUME WinTypeOK, NEW new \in Flags, UpdateTree(Main, new)
  PROVE  \/ (\E x \in Flags : MainSeen(x)) /\ (root \/ (flags[Main] = Shown <=> new = Shown))
         \/ /\ MainTold(new) \/ MainSet(IF new = Shown THEN Shown ELSE Iconified)
            /\ flags[Main] = Shown <=> new # Shown
<1>0. /\ "visible" \in new <=> new = Shown
      /\ Visible(Screen, Main) <=> flags[Main] = Shown
      /\ Screen \in Screens
  <2>1. flags[Main] \in Flags
    BY Windows3 DEF WinTypeOK, Flags
  <2> QED
    BY <2>1, Differ, ScreenIs DEF Visible, Screen, Flags
<1>1. CASE ~Changes(Main, new) /\ RefreshTree(Main)
  <2>1. root \/ (flags[Main] = Shown <=> new = Shown)
    BY <1>0, <1>1 DEF Changes
  <2> QED
    BY <1>1, <2>1, RefreshMainDoes
<1>2. CASE Changes(Main, new) /\ BecomesWithHelpers(UpdateMain(Screen, new))
  <2>1. flags[Main] = Shown <=> new # Shown
    BY <1>0, <1>2 DEF Changes, Visible
  <2>2. CASE Visible(Screen, Vice)
    <3> DEFINE a == SetAndGet(Screen, Main, new)
               b == SetProps(a, Vice, Hidden)
               c == SetAndGet(b, Vice, Shown)
    <3>1. BecomesWithHelpers(c)
      BY <1>2, <2>2 DEF UpdateMain, Remap
    <3>2. /\ a \in Screens /\ Sets(Screen, a, Main, new) /\ Alike(Screen, a, Vice)
          /\ a.flags[Main] = new
      BY <1>0, SetsAndGets, Windows3
    <3> HIDE DEF a
    <3>3. b \in Screens /\ Sets(a, b, Vice, Hidden) /\ Alike(a, b, Main)
      BY <3>2, SetsProps, Windows3 DEF Flags
    <3> HIDE DEF b
    <3>4. c \in Screens /\ Sets(b, c, Vice, Shown) /\ Alike(b, c, Main)
      BY <3>3, SetsAndGets, Windows3 DEF Flags
    <3> HIDE DEF c
    <3>5. Screen' \in Screens /\ Alike(c, Screen', Main) /\ Alike(c, Screen', Vice)
      BY <3>1, <3>4, HelpersThen
    <3>6. Sets(Screen, b, Vice, Hidden)
      BY <3>2, <3>3, ThenSets
    <3>7. Sets(b, Screen', Vice, Shown)
      BY <3>4, <3>5, SetsThen
    <3>8. Alike(a, Screen', Main)
      BY <3>3, <3>4, <3>5, AlikeThen
    <3>9. Sets(Screen, Screen', Main, new) /\ Screen'.flags[Main] = new
      BY <3>2, <3>8, SetsThen, AlikeFlags
    <3> QED
      BY <2>1, <3>3, <3>5, <3>6, <3>7, <3>9 DEF MainTold
  <2>3. CASE ~Visible(Screen, Vice)
    <3> DEFINE x == IF new = Shown THEN Shown ELSE Iconified
               u == SetAndGet(Screen, Main, x)
    <3>1. BecomesWithHelpers(u)
      BY <1>0, <1>2, <2>3 DEF UpdateMain
    <3>2. x \in Flags
      BY DEF Flags
    <3> HIDE DEF x
    <3>3. /\ u \in Screens /\ Sets(Screen, u, Main, x) /\ Alike(Screen, u, Vice)
          /\ u.flags[Main] = x
      BY <1>0, <3>2, SetsAndGets, Windows3
    <3> HIDE DEF u
    <3>4. Screen' \in Screens /\ Alike(u, Screen', Main) /\ Alike(u, Screen', Vice)
      BY <3>1, <3>3, HelpersThen
    <3>5. Alike(Screen, Screen', Vice)
      BY <3>3, <3>4, AlikeThen
    <3>6. Sets(Screen, Screen', Main, x) /\ Screen'.flags[Main] = x
      BY <3>3, <3>4, SetsThen, AlikeFlags
    <3> QED
      BY <2>1, <3>4, <3>5, <3>6 DEF MainSet, x
  <2> QED
    BY <2>2, <2>3
<1> QED
  BY <1>1, <1>2, Windows3 DEF UpdateTree

-----------------------------------------------------------------------------
LEMMA SafeStays ==
  ASSUME MainInv, ViceInv, WinTypeOK, Safe(Main) \/ Safe(Vice)
  PROVE  Reachable
<1>1. /\ asked \in Seq(Order)
      /\ \A i, j \in DOMAIN asked : i > j <=> j < i
  <2>1. asked \in Seq(Order)
    BY DEF WinTypeOK
  <2>2. \A i \in DOMAIN asked : i \in Nat
    BY <2>1
  <2> QED
    BY <2>1, <2>2
<1>2. ASSUME NEW w, Safe(w), ~Followed(asked, w, "map", "unmapped")
      PROVE  Stays(w)
  <2>1. CASE Has(asked, w, "map")
    <3>1. PICK i \in DOMAIN asked : asked[i] = <<w, "map">>
      BY <2>1 DEF Has
    <3>2. \A j \in DOMAIN asked : j > i => asked[j] # <<w, "unmapped">>
      BY <1>1, <1>2, <3>1 DEF Followed
    <3> QED
      BY <3>1, <3>2 DEF Stays
  <2>2. CASE managed[w] # "withdrawn" /\ ~Has(asked, w, "unmapped")
    BY <2>2 DEF Stays, Has
  <2> QED
    BY <1>2, <2>1, <2>2 DEF Safe
<1>3. ~Followed(asked, Main, "map", "unmapped")
  BY DEF MainInv, Again, Followed
<1>4. ~Followed(asked, Vice, "map", "unmapped")
  BY DEF ViceInv
<1> QED
  BY <1>2, <1>3, <1>4 DEF Reachable

LEMMA Values ==
  ASSUME WinTypeOK
  PROVE  /\ props[Main] \in Flags /\ flags[Main] \in Flags
         /\ props[Vice] \in Flags /\ flags[Vice] \in Flags
         /\ managed[Main] \in {"normal", "iconic", "withdrawn"}
         /\ managed[Vice] \in {"normal", "iconic", "withdrawn"}
         /\ show \in {0, 1, 2} /\ root \in BOOLEAN
<1>1. DOMAIN WmState = {"normal", "iconic", "withdrawn"}
  BY DEF WmState
<1>2. /\ props \in [Win -> Flags] /\ flags \in [Win -> Flags]
      /\ managed \in [Win -> {"normal", "iconic", "withdrawn"}]
      /\ show \in 0 .. 2 /\ root \in BOOLEAN
  BY <1>1, WindowsAssumption DEF WinTypeOK, Flags
<1> QED
  BY <1>2, Windows3

LEMMA States ==
  WmState["normal"] = Shown /\ WmState["iconic"] = Iconified /\ WmState["withdrawn"] = Hidden
BY DEF WmState

\* The names of the tails.
LEMMA Tails ==
  /\ \A q \in {QEnd, QFocus, QFocusEnd, QNoVideo, QNoVideoToo, QNoPanel, QPanelToo} :
       q \in Seq(Step) /\ q # <<>>
  /\ Head(QEnd) = "end" /\ Tail(QEnd) = <<>>
  /\ Head(QFocus) = "focus" /\ Tail(QFocus) = <<>>
  /\ Head(QFocusEnd) = "focus" /\ Tail(QFocusEnd) = QEnd
  /\ Head(QNoVideo) = "wantNoVideo" /\ Tail(QNoVideo) = <<>>
  /\ Head(QNoVideoToo) = "wantNoVideo" /\ Tail(QNoVideoToo) = QPanelToo
  /\ Head(QNoPanel) = "wantNoPanel" /\ Tail(QNoPanel) = <<>>
  /\ Head(QPanelToo) = "wantPanelToo" /\ Tail(QPanelToo) = <<>>
<1>1. ASSUME NEW a \in Step
      PROVE  <<a>> \in Seq(Step) /\ <<a>> # <<>> /\ Head(<<a>>) = a /\ Tail(<<a>>) = <<>>
  OBVIOUS
<1>2. ASSUME NEW a \in Step, NEW q \in Seq(Step)
      PROVE  /\ <<a>> \o q \in Seq(Step) /\ <<a>> \o q # <<>>
             /\ Head(<<a>> \o q) = a /\ Tail(<<a>> \o q) = q
  OBVIOUS
<1>3. /\ "end" \in Step /\ "focus" \in Step /\ "wantNoVideo" \in Step
      /\ "wantPanelToo" \in Step /\ "wantNoPanel" \in Step
  BY DEF Step
<1>4. /\ QEnd \in Seq(Step) /\ QEnd # <<>> /\ Head(QEnd) = "end" /\ Tail(QEnd) = <<>>
      /\ QFocus \in Seq(Step) /\ QFocus # <<>> /\ Head(QFocus) = "focus" /\ Tail(QFocus) = <<>>
  BY <1>1, <1>3 DEF QEnd, QFocus
<1>5. /\ QNoVideo \in Seq(Step) /\ QNoVideo # <<>>
      /\ Head(QNoVideo) = "wantNoVideo" /\ Tail(QNoVideo) = <<>>
      /\ QNoPanel \in Seq(Step) /\ QNoPanel # <<>>
      /\ Head(QNoPanel) = "wantNoPanel" /\ Tail(QNoPanel) = <<>>
      /\ QPanelToo \in Seq(Step) /\ QPanelToo # <<>>
      /\ Head(QPanelToo) = "wantPanelToo" /\ Tail(QPanelToo) = <<>>
  BY <1>1, <1>3 DEF QNoVideo, QNoPanel, QPanelToo
<1>6. /\ QFocusEnd \in Seq(Step) /\ QFocusEnd # <<>>
      /\ Head(QFocusEnd) = "focus" /\ Tail(QFocusEnd) = QEnd
  BY <1>2, <1>3, <1>4 DEF QFocusEnd
<1>7. /\ QNoVideoToo \in Seq(Step) /\ QNoVideoToo # <<>>
      /\ Head(QNoVideoToo) = "wantNoVideo" /\ Tail(QNoVideoToo) = QPanelToo
  BY <1>2, <1>3, <1>5 DEF QNoVideoToo
<1> QED
  BY <1>4, <1>5, <1>6, <1>7

\* All but the types and the calls.
WindowsInv == EventInv /\ MainInv /\ ViceInv /\ (Safe(Main) \/ Safe(Vice))

\* The panel was asked to be shown although it is, or will be.
ViceTwice == (mapped[Vice] /\ Has(asked, Vice, "map")) \/ Twice(asked, Vice, "map")

\* Nothing is under way for the main window, and it is set to x.
LEMMA MainTurns ==
  ASSUME WinTypeOK, WindowsInv, MainQuiet, NEW x \in Flags, x # Shown => props[Main] = Shown,
         Sets(Screen, Screen', Main, x), flags'[Main] = x, UNCHANGED <<managed, event>>
  PROVE  /\ MainInv' /\ EventInv' /\ props'[Main] = x
         /\ x = Shown => Showing' /\ Safe(Main)'
         /\ x # Shown => ~Up'
         /\ x = Iconified => Safe(Main)'
         /\ x = Hidden => ~Safe(Main)'
<1>1. /\ props[Main] = WmState[managed[Main]] /\ (mapped[Main] <=> managed[Main] = "normal")
      /\ \A y : Due(y) => y \notin {"show", "hide"}
      /\ \A y \in {"map", "iconify", "unmapped"} : ~Has(asked, Main, y)
      /\ \A y \in {"show", "hide", "state"} : ~Has(events, Main, y)
      /\ ~Again(asked, Main) /\ ~Twice(events, Main, "hide") /\ ~Asked(asked, Main)
      /\ <<Main, "show">> \notin event /\ <<Main, "hide">> \notin event
  BY DEF WindowsInv, MainInv, MainQuiet, Asked, Told, Due
<1>2. props[Main] = Shown <=> managed[Main] = "normal"
  BY <1>1, Values, States, Differ
<1>3. props'[Main] = x /\ EventInv'
  BY DEF Sets, Screen, WindowsInv, EventInv
<1>4. \/ x = Shown /\ managed[Main] = "normal" /\ Likewise(Screen, Screen', Main)
      \/ x = Shown /\ managed[Main] # "normal" /\ AskedFor(Screen, Screen', Main, "map")
      \/ x = Iconified /\ managed[Main] = "normal" /\ AskedFor(Screen, Screen', Main, "iconify")
      \/ x = Hidden /\ managed[Main] = "normal" /\ AskedFor(Screen, Screen', Main, "unmapped")
  BY <1>1, <1>2, Differ DEF Sets, Screen, Flags
<1>5. CASE x = Shown /\ managed[Main] = "normal" /\ Likewise(Screen, Screen', Main)
  <2>1. /\ mapped'[Main] /\ ~Again(asked', Main) /\ ~Twice(events', Main, "hide")
        /\ \A y \in {"map", "iconify", "unmapped"} : ~Has(asked', Main, y)
        /\ \A y \in {"show", "hide", "state"} : ~Has(events', Main, y)
    BY <1>1, <1>5 DEF Likewise, Screen
  <2>2. Up' /\ Safe(Main)' /\ ~Due("hide")' /\ ~Due("show")'
    BY <1>1, <1>5, <2>1 DEF Up, Safe, Asked, Due
  <2>3. MainInv'
    BY <1>1, <1>3, <1>5, <2>1, <2>2, States DEF MainInv, Asked
  <2> QED
    BY <1>3, <1>5, <2>2, <2>3, Differ DEF Showing
<1>6. CASE x = Shown /\ managed[Main] # "normal" /\ AskedFor(Screen, Screen', Main, "map")
  <2>1. /\ ~mapped'[Main] /\ ~Again(asked', Main) /\ ~Twice(events', Main, "hide")
        /\ Has(asked', Main, "map")
        /\ \A y \in {"iconify", "unmapped"} : ~Has(asked', Main, y)
        /\ \A y \in {"show", "hide", "state"} : ~Has(events', Main, y)
    BY <1>1, <1>6 DEF AskedFor, Screen
  <2>2. Up' /\ Safe(Main)' /\ ~Due("hide")' /\ ~Due("show")'
    BY <1>1, <2>1 DEF Up, Safe, Due
  <2>3. MainInv'
    BY <1>1, <1>3, <1>6, <2>1, <2>2 DEF MainInv, Asked
  <2> QED
    BY <1>3, <1>6, <2>2, <2>3, Differ DEF Showing
<1>7. CASE x = Iconified /\ managed[Main] = "normal" /\ AskedFor(Screen, Screen', Main, "iconify")
  <2>1. /\ mapped'[Main] /\ ~Again(asked', Main) /\ ~Twice(events', Main, "hide")
        /\ Has(asked', Main, "iconify")
        /\ \A y \in {"map", "unmapped"} : ~Has(asked', Main, y)
        /\ \A y \in {"show", "hide", "state"} : ~Has(events', Main, y)
    BY <1>1, <1>7 DEF AskedFor, Screen
  <2>2. ~Up' /\ Safe(Main)' /\ ~Due("hide")' /\ ~Due("show")'
    BY <1>1, <1>7, <2>1 DEF Up, Safe, Due, Asked
  <2>3. MainInv'
    BY <1>1, <1>3, <1>7, <2>1, <2>2 DEF MainInv, Asked
  <2> QED
    BY <1>3, <1>7, <2>2, <2>3, Differ
<1>8. CASE x = Hidden /\ managed[Main] = "normal" /\ AskedFor(Screen, Screen', Main, "unmapped")
  <2>1. /\ ~mapped'[Main] /\ ~Again(asked', Main) /\ ~Twice(events', Main, "hide")
        /\ Has(asked', Main, "unmapped")
        /\ \A y \in {"map", "iconify"} : ~Has(asked', Main, y)
        /\ \A y \in {"show", "state"} : ~Has(events', Main, y)
    BY <1>1, <1>8 DEF AskedFor, Screen
  <2>2. ~Up' /\ ~Safe(Main)' /\ ~Due("show")'
    BY <1>1, <1>8, <2>1 DEF Up, Safe, Due, Asked
  <2>3. MainInv'
    BY <1>1, <1>3, <1>8, <2>1, <2>2 DEF MainInv, Asked
  <2> QED
    BY <1>3, <1>8, <2>2, <2>3, Differ
<1> QED
  BY <1>4, <1>5, <1>6, <1>7, <1>8

\* The panel is hidden and shown.
LEMMA ViceTold ==
  ASSUME WindowsInv, ~ViceTwice, ViceClean, NEW u, UNCHANGED managed,
         Sets(Screen, u, Vice, Hidden), Sets(u, Screen', Vice, Shown)
  PROVE  ViceInv' /\ Safe(Vice)' /\ (ViceQuiet => ~ViceTwice')
<1>1. mapped[Vice] => props[Vice] = Shown /\ ~Has(asked, Vice, "map")
  BY DEF WindowsInv, ViceInv, ViceClean, ViceQuiet, ViceTwice, Asked, Told
<1>2. /\ u.props[Vice] = Hidden
      /\ ~u.mapped[Vice]
      /\ \A y : Twice(u.asked, Vice, y) /\ y = "map" => Twice(asked, Vice, y)
      /\ Has(u.asked, Vice, "map") <=> Has(asked, Vice, "map")
      /\ ~Followed(u.asked, Vice, "map", "unmapped")
  <2>1. u.props[Vice] = Hidden
    BY DEF Sets
  <2>2. CASE ~mapped[Vice] /\ Likewise(Screen, u, Vice)
    BY <2>1, <2>2 DEF Likewise, Screen, WindowsInv, ViceInv
  <2>3. CASE mapped[Vice] /\ AskedFor(Screen, u, Vice, "unmapped")
    BY <1>1, <2>1, <2>3 DEF AskedFor, Screen, WindowsInv, ViceInv
  <2> QED
    BY <1>1, <2>2, <2>3, Differ DEF Sets, Screen
<1>3. props'[Vice] = Shown /\ AskedFor(u, Screen', Vice, "map")
  BY <1>2, Differ DEF Sets, Screen
<1>4. /\ ~mapped'[Vice] /\ Has(asked', Vice, "map")
      /\ ~Followed(asked', Vice, "map", "unmapped")
      /\ Twice(asked', Vice, "map") <=> Twice(u.asked, Vice, "map") \/ Has(u.asked, Vice, "map")
  BY <1>2, <1>3 DEF AskedFor, Screen
<1>5. ViceInv' /\ Safe(Vice)'
  BY <1>4 DEF ViceInv, Safe
<1>6. ViceQuiet => ~ViceTwice'
  <2>1. ViceQuiet => ~Has(asked, Vice, "map")
    BY DEF ViceQuiet, Asked
  <2>2. ~Twice(u.asked, Vice, "map")
    BY <1>2 DEF ViceTwice
  <2> QED
    BY <1>2, <1>4, <2>1, <2>2 DEF ViceTwice
<1> QED
  BY <1>5, <1>6

LEMMA ApplyKeeps ==
  ASSUME WinTypeOK, WindowsInv, NEW q \in Seq(Step), CallInv(q), Does(q, "apply"),
         UpdateTree(Main, CASE show = 2 -> Shown [] show = 1 -> Iconified [] show = 0 -> Hidden),
         UNCHANGED <<managed, event, show, root>>
  PROVE  WindowsInv' /\ CallInv(Tail(q))'
<1> DEFINE new == CASE show = 2 -> Shown [] show = 1 -> Iconified [] show = 0 -> Hidden
           r == Tail(q)
<1>1. /\ new \in Flags
      /\ new = Shown <=> show = 2
      /\ show = 0 => new = Hidden
      /\ show = 1 => new = Iconified
      /\ show \in {0, 1, 2}
  BY Values, Differ DEF Flags
<1>2. UpdateTree(Main, new)
  OBVIOUS
<1> HIDE DEF new
<1>3. /\ Ready
      /\ ViceQuiet \/ show = 0
      /\ show # 2 => props[Main] = Shown /\ flags[Main] = Shown /\ Tail(q) # QNoPanel
      /\ show = 2 => flags[Main] # Shown /\ Tail(q) # QPanelToo
      /\ ~root
      /\ q # <<>>
      /\ Tail(q) \in {<<>>, QEnd, QNoPanel, QPanelToo}
      /\ ~ViceTwice
  BY DEF CallInv, ShownTwice, Legal, Stage, Does, VideoLeft, ShowsVideo, HidesVideo, Ending,
         ViceTwice
<1>4. /\ \A h \in {"focus", "focused", "apply", "toggleHelper"} : ~Does(r, h)
      /\ ~VideoLeft(r)
      /\ PanelLeft(r) => show = 2
      /\ Does(r, "wantPanelToo") => show # 2
      /\ Legal(r)
      /\ ~HidesVideo(r)' /\ ~ShowsVideo(r)'
  <2>1. /\ \A h \in {"toggle", "raise", "look", "hide", "iconify", "focus", "focused",
                     "wantVideo", "wantPanel", "toggleVideo", "wantNoVideo", "showVideo",
                     "hideVideo", "apply", "toggleHelper"} : ~Does(r, h)
        /\ Does(r, "wantNoPanel") => show = 2
        /\ Does(r, "wantPanelToo") => show # 2
        /\ Legal(r)
    BY <1>3, Tails DEF Does, Legal, Video, Ending
  <2> HIDE DEF r
  <2> QED
    BY <2>1 DEF VideoLeft, PanelLeft, HidesVideo, ShowsVideo
<1> HIDE DEF r
<1>5. /\ MainTold(new) \/ MainSet(IF new = Shown THEN Shown ELSE Iconified)
      /\ flags[Main] = Shown <=> show # 2
  BY <1>1, <1>2, <1>3, UpdateMainDoes
<1>6. PICK x \in Flags :
        /\ \/ x = new /\ MainTold(x)
           \/ x = (IF new = Shown THEN Shown ELSE Iconified) /\ MainSet(x)
        /\ Sets(Screen, Screen', Main, x) /\ flags'[Main] = x
  <2>1. (IF new = Shown THEN Shown ELSE Iconified) \in Flags
    BY DEF Flags
  <2>2. CASE MainTold(new)
    BY <1>1, <2>2 DEF MainTold, Screen
  <2>3. CASE MainSet(IF new = Shown THEN Shown ELSE Iconified)
    BY <2>1, <2>3 DEF MainSet, Screen
  <2> QED
    BY <1>5, <2>2, <2>3
<1>7. (x = Shown <=> show = 2) /\ (x = Hidden => show = 0)
  BY <1>1, <1>6, Differ
<1>8. /\ MainInv' /\ EventInv' /\ props'[Main] = x
      /\ x = Shown => Showing' /\ Safe(Main)'
      /\ x # Shown => ~Up'
      /\ x = Iconified => Safe(Main)'
      /\ x = Hidden => ~Safe(Main)'
  BY <1>3, <1>6, <1>7, MainTurns DEF Ready
<1>9. ViceInv' /\ (Safe(Main) \/ Safe(Vice))' /\ (ViceTwice' => ~Safe(Main)')
  <2>1. CASE x = new /\ MainTold(x)
    <3>1. ViceInv' /\ Safe(Vice)' /\ (ViceQuiet => ~ViceTwice')
      BY <1>3, <2>1, ViceTold DEF MainTold, Ready
    <3>2. x = Iconified /\ show = 0 => FALSE
      BY <1>1, <2>1, Differ
    <3> QED
      BY <1>3, <1>7, <1>8, <3>1, <3>2 DEF Flags
  <2>2. CASE x = (IF new = Shown THEN Shown ELSE Iconified) /\ MainSet(x)
    <3>1. ViceInv' /\ (Safe(Vice)' <=> Safe(Vice)) /\ ~ViceTwice'
      <4>1. Likewise(Screen, Screen', Vice) /\ props'[Vice] = props[Vice]
        BY <2>2 DEF MainSet, Alike, Screen
      <4>2. ViceInv'
        BY <4>1 DEF Likewise, Screen, WindowsInv, ViceInv
      <4>3. (Safe(Vice)' <=> Safe(Vice)) /\ ~ViceTwice'
        BY <1>3, <4>1 DEF Likewise, Screen, Safe, ViceTwice
      <4> QED
        BY <4>2, <4>3
    <3>2. x = Shown \/ x = Iconified
      BY <2>2, <1>6 DEF Flags
    <3> QED
      BY <1>8, <3>1, <3>2
  <2> QED
    BY <1>6, <2>1, <2>2
<1>10. Stage(r)'
  BY <1>4, <1>7, <1>8 DEF Stage
<1>11. ShownTwice(r)'
  BY <1>4, <1>9 DEF ShownTwice, ViceTwice
<1>12. HiddenByUser(r)' /\ Between(r)'
  BY <1>6, <1>8 DEF HiddenByUser, Between, Showing
<1> QED
  BY <1>4, <1>8, <1>9, <1>10, <1>11, <1>12 DEF WindowsInv, CallInv, r

-----------------------------------------------------------------------------
(***************************************************************************)
(* Steps which only look.                                                  *)
(***************************************************************************)
\* What is known of the main window is looked at, or not.
Looks(known) == /\ UNCHANGED <<mapped, asked, events, props>>
                /\ flags' \in [Win -> Flags] /\ flags'[Main] = known

LEMMA SeesDo ==
  ASSUME WinTypeOK
  PROVE  /\ Becomes(SeePanel(Screen)) => Looks(flags[Main])
         /\ Becomes(SeeVideo(Screen)) => Looks(props[Main])
         /\ Becomes(SeePanel(SeeVideo(Screen))) => Looks(props[Main])
<1>1. Screen \in Screens
  BY ScreenIs
<1>2. ASSUME NEW s \in Screens, Becomes(s), Same(Screen, s), s.props = Screen.props
      PROVE  Looks(s.flags[Main])
  BY <1>2, ScreenParts DEF Becomes, Same, Screen, Looks
<1>3. ASSUME Becomes(SeePanel(Screen)) PROVE Looks(flags[Main])
  <2> DEFINE s == SeePanel(Screen)
  <2>1. s \in Screens /\ Same(Screen, s) /\ s.props = Screen.props
    BY <1>1, GetPropsDoes, Windows3 DEF SeePanel
  <2>2. s.flags[Main] = Screen.flags[Main]
    <3>1. s.flags = [Screen.flags EXCEPT ![Vice] = Screen.props[Vice]]
      BY <1>1, GetPropsDoes, Windows3 DEF SeePanel
    <3> QED
      BY <1>1, <3>1, ScreenParts, Windows3
  <2>3. Looks(s.flags[Main])
    BY <1>2, <1>3, <2>1
  <2> QED
    BY <2>2, <2>3 DEF Screen
<1>4. ASSUME Becomes(SeeVideo(Screen)) PROVE Looks(props[Main])
  <2> DEFINE s == SeeVideo(Screen)
  <2>1. s \in Screens /\ Same(Screen, s) /\ s.props = Screen.props
    BY <1>1, GetPropsDoes, Windows3 DEF SeeVideo
  <2>2. s.flags[Main] = Screen.props[Main]
    BY <1>1, Gets, Windows3 DEF SeeVideo
  <2>3. Looks(s.flags[Main])
    BY <1>2, <1>4, <2>1
  <2> QED
    BY <2>2, <2>3 DEF Screen
<1>5. ASSUME Becomes(SeePanel(SeeVideo(Screen))) PROVE Looks(props[Main])
  <2> DEFINE u == SeeVideo(Screen)
             s == SeePanel(u)
  <2>1. u \in Screens /\ Same(Screen, u) /\ u.props = Screen.props
        /\ u.flags[Main] = Screen.props[Main]
    BY <1>1, GetPropsDoes, Gets, Windows3 DEF SeeVideo
  <2> HIDE DEF u
  <2>2. /\ s \in Screens /\ Same(u, s) /\ s.props = u.props
        /\ s.flags = [u.flags EXCEPT ![Vice] = u.props[Vice]]
    BY <2>1, GetPropsDoes, Windows3 DEF SeePanel
  <2>3. s.flags[Main] = u.flags[Main]
    BY <2>1, <2>2, ScreenParts, Windows3
  <2> HIDE DEF s
  <2>4. Same(Screen, s) /\ s.props = Screen.props
    BY <2>1, <2>2 DEF Same
  <2>5. Looks(s.flags[Main])
    BY <1>2, <1>5, <2>2, <2>4 DEF s, u
  <2> QED
    BY <2>1, <2>3, <2>5 DEF Screen
<1> QED
  BY <1>3, <1>4, <1>5

LEMMA LookKeeps ==
  ASSUME WinTypeOK, WindowsInv, NEW q \in Seq(Step), NEW r \in Seq(Step),
         q # <<>>, ~Ending(q), CallInv(q), VideoLeft(r) => VideoLeft(q),
         Looks(flags[Main]) \/ Looks(props[Main]), UNCHANGED <<managed, event>>
  PROVE  WindowsInv' /\ ShownTwice(r)' /\ HiddenByUser(r)' /\ Between(r)'
<1>1. /\ UNCHANGED <<mapped, asked, events, props, managed, event>>
      /\ flags'[Main] \in {flags[Main], props[Main]}
  BY DEF Looks
<1> USE DEF WindowsInv, Safe, Up, Due
<1>2. EventInv' /\ ViceInv' /\ (Safe(Main) \/ Safe(Vice))'
  BY <1>1 DEF EventInv, ViceInv
<1>3. MainInv'
  BY <1>1 DEF MainInv, Asked
<1>4. /\ q # <<>> /\ props[Main] = Shown => Up
      /\ Due("hide") /\ flags[Main] = Shown => q = <<>>
  BY DEF CallInv, Between, HiddenByUser
<1>5. ~(Due("hide")' /\ flags'[Main] = Shown)
  BY <1>1, <1>4 DEF MainInv
<1>6. HiddenByUser(r)' /\ Between(r)'
  BY <1>1, <1>4, <1>5 DEF HiddenByUser, Between, Asked
<1>7. ShownTwice(r)'
  BY <1>1 DEF CallInv, ShownTwice
<1> QED
  BY <1>2, <1>3, <1>6, <1>7

LEMMA OneStep ==
  ASSUME NEW a \in Step, NEW q \in Seq(Step), NEW r, r = <<a>> \o q
  PROVE  r \in Seq(Step) /\ Does(r, a) /\ Tail(r) = q
BY DEF Does

LEMMA TwoSteps ==
  ASSUME NEW a \in Step, NEW b \in Step, NEW q \in Seq(Step), NEW r, r = <<a, b>> \o q
  PROVE  r \in Seq(Step) /\ Does(r, a) /\ Tail(r) = <<b>> \o q
BY DEF Does

LEMMA FocusThen ==
  ASSUME NEW q, Ending(q)
  PROVE  <<"focus">> \o q \in {QFocus, QFocusEnd}
<1>1. <<"focus">> \o <<>> = <<"focus">>
  OBVIOUS
<1> QED
  BY <1>1 DEF Ending, QFocus, QFocusEnd

\* What is left of a call when a step is done, or does not start another.
LEMMA LegalThen ==
  ASSUME NEW q \in Seq(Step), Legal(q), q # <<>>
  PROVE  Tail(q) \in Seq(Step) /\ Legal(Tail(q))
<1>1. Tail(q) \in Seq(Step) /\ q = <<Head(q)>> \o Tail(q) /\ Head(q) \in Step
  OBVIOUS
<1>2. Tail(q) \in {<<>>, QEnd, QFocus, QFocusEnd, QNoVideo, QNoVideoToo, QNoPanel, QPanelToo}
  BY <1>1 DEF Legal, Does, Step, Ending, Video
<1> DEFINE r == Tail(q)
<1> HIDE DEF r
<1>3. r \in {<<>>, QEnd, QFocus, QFocusEnd, QNoVideo, QNoVideoToo, QNoPanel, QPanelToo}
  BY <1>2 DEF r
<1>4. Legal(r)
  BY <1>3, Tails DEF Legal, Does, Ending, Video
<1> QED
  BY <1>1, <1>4 DEF r

LEMMA ToggleHides ==
  ASSUME WinTypeOK, WindowsInv, NEW q \in Seq(Step), CallInv(q), Does(q, "toggle"),
         Becomes(SeePanel(Screen)), UNCHANGED <<managed, event, show, root>>,
         NEW r \in Seq(Step), PanelVisible, Does(r, "look"), Tail(r) = <<"focus">> \o Tail(q)
  PROVE  WindowsInv' /\ CallInv(r)'
<1>1. /\ q # <<>> /\ Head(q) = "toggle" /\ (Ending(Tail(q)) \/ Video(Tail(q)))
      /\ Looks(flags[Main])
      /\ PanelVisible <=> props[Vice] = Shown
  BY SeesDo, Values, Differ DEF Does, CallInv, Legal, PanelVisible, Flags
<1>2. ~Ending(q)
  BY <1>1, Tails DEF Ending
<1>3. Ending(Tail(q)) /\ ~VideoLeft(q)
  BY <1>1 DEF CallInv, Stage, VideoLeft, Does
<1>4. Tail(r) \in {QFocus, QFocusEnd}
  BY <1>3, FocusThen
<1>5. Legal(r) /\ ~VideoLeft(r)
  BY <1>4 DEF Legal, VideoLeft, Does
<1>6. WindowsInv' /\ ShownTwice(r)' /\ HiddenByUser(r)' /\ Between(r)'
  BY <1>1, <1>2, <1>5, LookKeeps
<1>7. Ready \/ Showing
  BY <1>1, <1>3 DEF CallInv, Stage, PanelLeft, Does
<1>8. (Ready \/ Showing)'
  BY <1>1, <1>7 DEF Looks, Ready, Showing, MainQuiet, ViceClean, ViceQuiet, Asked, Told, Up, Due
<1>9. Stage(r)'
  BY <1>5, <1>8 DEF Stage, Does, HidesVideo, ShowsVideo
<1> QED
  BY <1>5, <1>6, <1>9 DEF CallInv

LEMMA ToggleShows ==
  ASSUME WinTypeOK, WindowsInv, NEW q \in Seq(Step), CallInv(q), Does(q, "toggle"),
         Becomes(SeePanel(Screen)), UNCHANGED <<managed, event, show, root>>,
         NEW r \in Seq(Step), ~PanelVisible, Does(r, "raise"), Tail(r) = Tail(q)
  PROVE  WindowsInv' /\ CallInv(r)'
<1>1. /\ q # <<>> /\ Head(q) = "toggle" /\ (Ending(Tail(q)) \/ Video(Tail(q)))
      /\ Looks(flags[Main])
      /\ PanelVisible <=> props[Vice] = Shown
  BY SeesDo, Values, Differ DEF Does, CallInv, Legal, PanelVisible, Flags
<1>2. ~Ending(q)
  BY <1>1, Tails DEF Ending
<1>3. Legal(r) /\ (VideoLeft(r) <=> VideoLeft(q)) /\ (PanelLeft(r) <=> PanelLeft(q))
  BY <1>1 DEF Legal, VideoLeft, PanelLeft, Does
<1>4. WindowsInv' /\ ShownTwice(r)' /\ HiddenByUser(r)' /\ Between(r)'
  BY <1>1, <1>2, <1>3, LookKeeps
<1>5. /\ VideoLeft(q) => Ready /\ ViceQuiet
      /\ PanelLeft(q) => Ready \/ Showing
  BY <1>1 DEF CallInv, Stage, Does
<1>6. /\ VideoLeft(r) => (Ready /\ ViceQuiet)'
      /\ PanelLeft(r) => (Ready \/ Showing)'
  BY <1>1, <1>3, <1>5
     DEF Looks, Ready, Showing, MainQuiet, ViceClean, ViceQuiet, Asked, Told, Up, Due
<1>7. Stage(r)'
  BY <1>6 DEF Stage, Does, HidesVideo, ShowsVideo
<1> QED
  BY <1>3, <1>4, <1>7 DEF CallInv

\* Every other step which only looks.
SeesVideo(q) ==
  /\ Looks(props[Main]) /\ UNCHANGED <<managed, event, root>> /\ show' = ShowNow

SeesPanel(q) ==
  Looks(flags[Main]) /\ UNCHANGED <<managed, event, root, show>>

LEMMA NowShown ==
  ASSUME WinTypeOK
  PROVE  /\ ShowNow = 2 <=> props[Main] = Shown
         /\ ShowNow < 2 <=> props[Main] # Shown
BY Values, Differ DEF ShowNow, Flags

LEMMA LookAtVideoKeeps ==
  ASSUME WinTypeOK, WindowsInv, NEW q \in Seq(Step), CallInv(q), Does(q, "look"), SeesVideo(q),
         NEW r \in Seq(Step), Does(r, "hide") \/ Does(r, "iconify"), Tail(r) = Tail(q)
  PROVE  WindowsInv' /\ CallInv(r)'
<1>1. q # <<>> /\ Head(q) = "look" /\ ~Ending(q) /\ Tail(q) \in {QFocus, QFocusEnd}
  BY Tails DEF Does, Ending, CallInv, Legal
<1>2. Legal(r) /\ ~VideoLeft(r) /\ PanelLeft(q)
  BY <1>1 DEF Legal, VideoLeft, PanelLeft, Does
<1>3. WindowsInv' /\ ShownTwice(r)' /\ HiddenByUser(r)' /\ Between(r)'
  BY <1>1, <1>2, LookKeeps DEF SeesVideo
<1>4. (Ready \/ Showing)'
  BY <1>2 DEF CallInv, Stage, SeesVideo, Looks, Ready, Showing, MainQuiet, ViceClean, ViceQuiet,
              Asked, Told, Up, Due
<1>5. Stage(r)'
  BY <1>2, <1>4 DEF Stage, Does, HidesVideo, ShowsVideo
<1> QED
  BY <1>2, <1>3, <1>5 DEF CallInv

LEMMA GrabFocusKeeps ==
  ASSUME WinTypeOK, WindowsInv, NEW q \in Seq(Step), CallInv(q), Does(q, "focus"), SeesVideo(q),
         NEW r \in Seq(Step),
         r = Tail(q) \/ (Does(r, "focused") /\ Tail(r) = Tail(q) /\ ShowNow = 2)
  PROVE  WindowsInv' /\ CallInv(r)'
<1>1. q # <<>> /\ Head(q) = "focus" /\ ~Ending(q) /\ Ending(Tail(q))
  BY Tails DEF Does, Ending, CallInv, Legal
<1>2. Legal(r) /\ ~VideoLeft(r) /\ ~PanelLeft(r)
  BY <1>1, Tails DEF Legal, VideoLeft, PanelLeft, Does, Ending
<1>3. WindowsInv' /\ ShownTwice(r)' /\ HiddenByUser(r)' /\ Between(r)'
  BY <1>1, <1>2, LookKeeps DEF SeesVideo
<1>4. (MainQuiet \/ Showing)'
  BY DEF CallInv, Stage, SeesVideo, Looks, Showing, MainQuiet, Asked, Told, Up, Due
<1>5. Does(r, "focused") => (Up /\ props[Main] # Iconified)'
  <2>1. Does(r, "focused") => props[Main] = Shown
    BY <1>1, NowShown, Tails DEF Does, Ending
  <2> QED
    BY <1>1, <2>1, Differ DEF CallInv, Between, SeesVideo, Looks, Up, Asked
<1>6. Stage(r)'
  BY <1>1, <1>2, <1>4, <1>5, Tails DEF Stage, Does, HidesVideo, ShowsVideo, Ending
<1> QED
  BY <1>2, <1>3, <1>6 DEF CallInv

-----------------------------------------------------------------------------
LEMMA ReadyLooks ==
  ASSUME \E known : Looks(known), UNCHANGED <<managed, event>>
  PROVE  /\ Ready' <=> Ready
         /\ ViceQuiet' <=> ViceQuiet
         /\ Up' <=> Up
BY DEF Looks, Ready, MainQuiet, ViceClean, ViceQuiet, Asked, Told, Up, Due

LEMMA ToggleVideoKeeps ==
  ASSUME WinTypeOK, WindowsInv, NEW q \in Seq(Step), CallInv(q), Does(q, "toggleVideo"),
         SeesVideo(q), NEW r \in Seq(Step), ~root, Tail(r) = Tail(q),
         IF ShowNow < 2 THEN Does(r, "showVideo") ELSE Does(r, "hideVideo")
  PROVE  WindowsInv' /\ CallInv(r)'
<1>1. q # <<>> /\ Head(q) = "toggleVideo" /\ ~Ending(q) /\ Tail(q) = QEnd
  BY Tails DEF Does, Ending, CallInv, Legal
<1>2. /\ r # <<>> /\ VideoLeft(q) /\ VideoLeft(r) /\ Legal(r) /\ ~PanelLeft(r)
      /\ Tail(r) = QEnd /\ QEnd # QNoPanel /\ QEnd # QPanelToo
      /\ \/ Head(r) = "showVideo" /\ props[Main] # Shown
         \/ Head(r) = "hideVideo" /\ props[Main] = Shown
  BY <1>1, NowShown, Tails DEF Legal, VideoLeft, PanelLeft, Does, Ending
<1>3. WindowsInv' /\ ShownTwice(r)' /\ HiddenByUser(r)' /\ Between(r)'
  BY <1>1, <1>2, LookKeeps DEF SeesVideo
<1>4. (Ready /\ ViceQuiet)'
  <2>1. Ready /\ ViceQuiet
    BY <1>1, <1>2 DEF CallInv, Stage, Does
  <2> QED
    BY <2>1, ReadyLooks DEF SeesVideo
<1>5. flags'[Main] = props[Main] /\ props' = props
  BY DEF SeesVideo, Looks
<1>6. Stage(r)'
  BY <1>2, <1>4, <1>5 DEF Stage, Does, HidesVideo, ShowsVideo
<1> QED
  BY <1>2, <1>3, <1>6 DEF CallInv

LEMMA WantVideoKeeps ==
  ASSUME WinTypeOK, WindowsInv, NEW q \in Seq(Step), CallInv(q), SeesVideo(q),
         Does(q, "wantVideo"), NEW r \in Seq(Step),
         r = Tail(q) \/ (Does(r, "showVideo") /\ Tail(r) = Tail(q) /\ ShowNow < 2)
  PROVE  WindowsInv' /\ CallInv(r)'
<1>1. q # <<>> /\ Head(q) = "wantVideo" /\ ~Ending(q) /\ Tail(q) \in {<<>>, QNoPanel}
  BY Tails DEF Does, Ending, CallInv, Legal
<1>2. /\ VideoLeft(q) /\ Legal(r)
      /\ r \in {<<>>, QNoPanel} \/ (/\ Does(r, "showVideo") /\ Tail(r) \in {<<>>, QNoPanel}
                                    /\ props[Main] # Shown)
  BY <1>1, NowShown, Tails DEF Legal, VideoLeft, Does, Ending
<1>3. WindowsInv' /\ ShownTwice(r)' /\ HiddenByUser(r)' /\ Between(r)'
  BY <1>1, <1>2, LookKeeps DEF SeesVideo
<1>4. (Ready /\ ViceQuiet)'
  <2>1. Ready /\ ViceQuiet
    BY <1>1, <1>2 DEF CallInv, Stage, Does
  <2> QED
    BY <2>1, ReadyLooks DEF SeesVideo
<1>5. flags'[Main] = props[Main] /\ props' = props
  BY DEF SeesVideo, Looks
<1>6. Stage(r)'
  BY <1>2, <1>4, <1>5, Tails DEF Stage, Does, HidesVideo, ShowsVideo
<1> QED
  BY <1>2, <1>3, <1>6 DEF CallInv

LEMMA WantNoVideoKeeps ==
  ASSUME WinTypeOK, WindowsInv, NEW q \in Seq(Step), CallInv(q), SeesVideo(q),
         Does(q, "wantNoVideo"), NEW r \in Seq(Step),
         r = Tail(q) \/ (Does(r, "hideVideo") /\ Tail(r) = Tail(q) /\ ShowNow = 2)
  PROVE  WindowsInv' /\ CallInv(r)'
<1>1. q # <<>> /\ Head(q) = "wantNoVideo" /\ ~Ending(q) /\ Tail(q) \in {<<>>, QPanelToo}
  BY Tails DEF Does, Ending, CallInv, Legal
<1>2. /\ VideoLeft(q) /\ Legal(r)
      /\ r \in {<<>>, QPanelToo} \/ (/\ Does(r, "hideVideo") /\ Tail(r) \in {<<>>, QPanelToo}
                                     /\ props[Main] = Shown)
  BY <1>1, NowShown, Tails DEF Legal, VideoLeft, Does, Ending
<1>3. WindowsInv' /\ ShownTwice(r)' /\ HiddenByUser(r)' /\ Between(r)'
  BY <1>1, <1>2, LookKeeps DEF SeesVideo
<1>4. Ready'
  <2>1. Ready
    BY <1>1, <1>2 DEF CallInv, Stage, Does
  <2> QED
    BY <2>1, ReadyLooks DEF SeesVideo
<1>5. flags'[Main] = props[Main] /\ props' = props
  BY DEF SeesVideo, Looks
<1>6. QPanelToo # QNoPanel /\ <<>> # QNoPanel
  BY Tails
<1>7. Stage(r)'
  <2>1. CASE Does(r, "hideVideo")
    BY <1>2, <1>4, <1>5, <1>6, <2>1, Tails DEF Stage, Does, HidesVideo, ShowsVideo, PanelLeft
  <2>2. CASE r \in {<<>>, QPanelToo}
    BY <1>4, <2>2, Tails DEF Stage, Does, HidesVideo, ShowsVideo, VideoLeft, PanelLeft
  <2> QED
    BY <1>2, <2>1, <2>2
<1> QED
  BY <1>2, <1>3, <1>7 DEF CallInv

LEMMA WantPanelKeeps ==
  ASSUME WinTypeOK, WindowsInv, NEW q \in Seq(Step), CallInv(q), SeesPanel(q),
         Does(q, "wantPanel"), NEW r \in Seq(Step),
         r = Tail(q) \/ (Does(r, "toggle") /\ Tail(r) = Tail(q) /\ ~PanelVisible)
  PROVE  WindowsInv' /\ CallInv(r)'
<1>1. q # <<>> /\ Head(q) = "wantPanel" /\ ~Ending(q) /\ Video(Tail(q))
  BY Tails DEF Does, Ending, CallInv, Legal
<1>2. /\ VideoLeft(q) /\ Legal(r)
      /\ \/ r \in {QNoVideo, QNoVideoToo}
         \/ Does(r, "toggle") /\ Video(Tail(r)) /\ props[Vice] # Shown
  BY <1>1, Values, Differ, Tails DEF Legal, VideoLeft, Does, Video, PanelVisible, Flags
<1>3. WindowsInv' /\ ShownTwice(r)' /\ HiddenByUser(r)' /\ Between(r)'
  BY <1>1, <1>2, LookKeeps DEF SeesPanel
<1>4. (Ready /\ ViceQuiet)'
  <2>1. Ready /\ ViceQuiet
    BY <1>1, <1>2 DEF CallInv, Stage, Does
  <2> QED
    BY <2>1, ReadyLooks DEF SeesPanel
<1>5. props' = props
  BY DEF SeesPanel, Looks
<1>6. Stage(r)'
  BY <1>2, <1>4, <1>5, Tails DEF Stage, Does, HidesVideo, ShowsVideo
<1> QED
  BY <1>2, <1>3, <1>6 DEF CallInv

LEMMA WantPanelLastKeeps ==
  ASSUME WinTypeOK, WindowsInv, NEW q \in Seq(Step), CallInv(q), SeesVideo(q),
         Does(q, "wantNoPanel") \/ Does(q, "wantPanelToo"), NEW r \in Seq(Step),
         r = Tail(q) \/ (Does(r, "toggle") /\ Tail(r) = Tail(q) /\ ShowNow = 2)
  PROVE  WindowsInv' /\ CallInv(r)'
<1>1. q # <<>> /\ ~Ending(q) /\ Tail(q) = <<>>
  BY Tails DEF Does, Ending, CallInv, Legal
<1>2. /\ Legal(r) /\ ~VideoLeft(r)
      /\ r = <<>> \/ (Does(r, "toggle") /\ Tail(r) = <<>> /\ props[Main] = Shown)
  BY <1>1, NowShown, Tails DEF Legal, VideoLeft, Does, Video, Ending
<1>3. WindowsInv' /\ ShownTwice(r)' /\ HiddenByUser(r)' /\ Between(r)'
  BY <1>1, <1>2, LookKeeps DEF SeesVideo
<1>4. Does(r, "toggle") => (Ready \/ Showing)'
  <2> SUFFICES ASSUME Does(r, "toggle") PROVE (Ready \/ Showing)'
    OBVIOUS
  <2>1. props[Main] = Shown /\ Up
    BY <1>1, <1>2 DEF CallInv, Between, Does
  <2>2. Ready \/ Showing
    BY <2>1 DEF CallInv, Stage, PanelLeft, VideoLeft, Does
  <2> QED
    BY <2>1, <2>2, ReadyLooks DEF SeesVideo, Looks, Showing, Due
<1>6. Stage(r)'
  BY <1>2, <1>4 DEF Stage, Does, HidesVideo, ShowsVideo, PanelLeft
<1> QED
  BY <1>2, <1>3, <1>6 DEF CallInv

\* video_window_set_visibility, before the call of xitk_window_flags
LEMMA SetVideoKeeps ==
  ASSUME WinTypeOK, WindowsInv, NEW q \in Seq(Step), CallInv(q), Looks(flags[Main]),
         Does(q, "showVideo") \/ Does(q, "hideVideo"), UNCHANGED <<managed, event, root>>,
         NEW r \in Seq(Step), Does(r, "apply"), Tail(r) = Tail(q), ~root,
         show' = IF Does(q, "showVideo") THEN 2 ELSE IF PanelIsSomewhere THEN 0 ELSE 1
  PROVE  WindowsInv' /\ CallInv(r)'
<1>1. /\ q # <<>> /\ r # <<>> /\ ~Ending(q) /\ VideoLeft(q) /\ VideoLeft(r) /\ Legal(r)
      /\ ~PanelLeft(r)
  BY Tails DEF Does, Ending, CallInv, Legal, VideoLeft, PanelLeft
<1>2. WindowsInv' /\ ShownTwice(r)' /\ HiddenByUser(r)' /\ Between(r)'
  BY <1>1, LookKeeps
<1>3. Ready /\ (ViceQuiet \/ (Does(q, "hideVideo") /\ props[Vice] = Shown))
  BY <1>1 DEF CallInv, Stage, Does, Ready, ViceClean
<1>4. Ready' /\ (ViceQuiet \/ show = 0)'
  <2>1. Does(q, "hideVideo") /\ props[Vice] = Shown => show' = 0
    BY Differ DEF Does, PanelIsSomewhere, Hidden
  <2> QED
    BY <1>3, <2>1, ReadyLooks
<1>5. /\ show' = 2 <=> Does(q, "showVideo")
      /\ flags'[Main] = flags[Main] /\ props' = props
  BY DEF Looks, Does
<1>6. /\ Does(q, "showVideo") => flags[Main] # Shown /\ Tail(q) # QPanelToo
      /\ Does(q, "hideVideo") =>
           props[Main] = Shown /\ flags[Main] = Shown /\ Tail(q) # QNoPanel
  BY DEF CallInv, Stage, ShowsVideo, HidesVideo
<1>7. Stage(r)'
  BY <1>1, <1>4, <1>5, <1>6 DEF Stage, Does, HidesVideo, ShowsVideo
<1> QED
  BY <1>1, <1>2, <1>7 DEF CallInv

\* The root window is neither shown nor hidden.
LEMMA RootKeeps ==
  ASSUME WinTypeOK, WindowsInv, NEW q \in Seq(Step), CallInv(q),
         Does(q, "toggleVideo") \/ Does(q, "showVideo") \/ Does(q, "hideVideo"),
         UNCHANGED <<screen, managed, event, show, root>>
  PROVE  WindowsInv' /\ CallInv(Tail(q))'
<1> DEFINE r == Tail(q)
<1>1. /\ q # <<>> /\ ~Ending(q) /\ VideoLeft(q)
      /\ r \in {<<>>, QEnd, QNoPanel, QPanelToo} /\ Legal(r) /\ ~VideoLeft(r)
  BY Tails DEF Does, Ending, CallInv, Legal, VideoLeft
<1>2. r \in Seq(Step)
  BY <1>1, Tails
<1> HIDE DEF r
<1>3. Looks(flags[Main])
  BY DEF Looks, screen, WinTypeOK, Flags
<1>4. WindowsInv' /\ ShownTwice(r)' /\ HiddenByUser(r)' /\ Between(r)'
  BY <1>1, <1>2, <1>3, LookKeeps
<1>5. Ready'
  BY <1>1, <1>3, ReadyLooks DEF CallInv, Stage
<1>6. Stage(r)'
  BY <1>1, <1>5, Tails DEF Stage, Does, HidesVideo, ShowsVideo
<1> QED
  BY <1>1, <1>4, <1>6 DEF CallInv, r

-----------------------------------------------------------------------------
(***************************************************************************)
(* Steps which move the panel, or something else.                          *)
(***************************************************************************)
MainStays ==
  /\ Alike(Screen, Screen', Main) /\ managed'[Main] = managed[Main]
  /\ <<Main, "show">> \in event' <=> <<Main, "show">> \in event
  /\ <<Main, "hide">> \in event' <=> <<Main, "hide">> \in event

ViceStays ==
  Likewise(Screen, Screen', Vice) /\ props'[Vice] = props[Vice] /\ managed'[Vice] = managed[Vice]

LEMMA MainStaysDoes ==
  ASSUME MainStays
  PROVE  /\ MainInv => MainInv'
         /\ Safe(Main)' <=> Safe(Main)
         /\ MainQuiet' <=> MainQuiet
         /\ Showing' <=> Showing
         /\ Up' <=> Up
         /\ Due("hide")' <=> Due("hide")
         /\ props'[Main] = props[Main] /\ flags'[Main] = flags[Main]
<1> USE DEF MainStays, Alike, Likewise, Screen
<1>1. MainInv => MainInv'
  BY DEF MainInv, Safe, Up, Due, Asked
<1>2. Safe(Main)' <=> Safe(Main)
  BY DEF Safe
<1>3. MainQuiet' <=> MainQuiet
  BY DEF MainQuiet, Asked, Told, Due
<1>4. (Up' <=> Up) /\ (Showing' <=> Showing)
  BY DEF Showing, Up, Asked, Due
<1>5. /\ Due("hide")' <=> Due("hide")
      /\ props'[Main] = props[Main] /\ flags'[Main] = flags[Main]
  BY DEF Due
<1> QED
  BY <1>1, <1>2, <1>3, <1>4, <1>5

LEMMA ViceStaysDoes ==
  ASSUME ViceStays
  PROVE  /\ ViceInv => ViceInv'
         /\ Safe(Vice)' <=> Safe(Vice)
         /\ ViceQuiet' <=> ViceQuiet
         /\ ViceClean' <=> ViceClean
         /\ (mapped[Vice] /\ Has(asked, Vice, "map"))' <=> mapped[Vice] /\ Has(asked, Vice, "map")
         /\ Twice(asked, Vice, "map")' <=> Twice(asked, Vice, "map")
         /\ props'[Vice] = props[Vice]
<1> USE DEF ViceStays, Likewise, Screen
<1>1. ViceInv => ViceInv'
  BY DEF ViceInv
<1>2. Safe(Vice)' <=> Safe(Vice)
  BY DEF Safe
<1>3. (ViceQuiet' <=> ViceQuiet) /\ (ViceClean' <=> ViceClean)
  BY DEF ViceQuiet, ViceClean, Asked, Told
<1> QED
  BY <1>1, <1>2, <1>3

LEMMA BothStay ==
  ASSUME MainStays, ViceStays, UNCHANGED <<show, root>>, NEW q, CallInv(q),
         MainInv, ViceInv, Safe(Main) \/ Safe(Vice)
  PROVE  CallInv(q)' /\ MainInv' /\ ViceInv' /\ (Safe(Main) \/ Safe(Vice))'
<1>1. MainInv' /\ ViceInv' /\ (Safe(Main) \/ Safe(Vice))'
  BY MainStaysDoes, ViceStaysDoes
<1>2. Stage(q)'
  BY MainStaysDoes, ViceStaysDoes DEF CallInv, Stage, Ready, HidesVideo, ShowsVideo
<1>3. ShownTwice(q)' /\ HiddenByUser(q)' /\ Between(q)'
  BY MainStaysDoes, ViceStaysDoes DEF CallInv, ShownTwice, HiddenByUser, Between
<1> QED
  BY <1>1, <1>2, <1>3 DEF CallInv

LEMMA MainAlike ==
  ASSUME Alike(Screen, Screen', Main), UNCHANGED <<managed, event>>
  PROVE  /\ MainInv => MainInv'
         /\ Safe(Main)' <=> Safe(Main)
         /\ MainQuiet' <=> MainQuiet
         /\ Showing' <=> Showing
         /\ Up' <=> Up
         /\ Due("hide")' <=> Due("hide")
         /\ props'[Main] = props[Main] /\ flags'[Main] = flags[Main]
<1>1. MainStays
  BY DEF MainStays
<1> QED
  BY <1>1, MainStaysDoes

LEMMA ViceAlike ==
  ASSUME Likewise(Screen, Screen', Vice), UNCHANGED managed, props'[Vice] = props[Vice]
  PROVE  /\ ViceInv => ViceInv'
         /\ Safe(Vice)' <=> Safe(Vice)
         /\ ViceQuiet' <=> ViceQuiet
         /\ ViceClean' <=> ViceClean
         /\ (mapped[Vice] /\ Has(asked, Vice, "map"))' <=> mapped[Vice] /\ Has(asked, Vice, "map")
         /\ Twice(asked, Vice, "map")' <=> Twice(asked, Vice, "map")
<1>1. ViceStays
  BY DEF ViceStays
<1> QED
  BY <1>1, ViceStaysDoes

HidesPanel(q, new) == \/ Does(q, "hide") /\ new = Hidden
                      \/ Does(q, "iconify") /\ new = Iconified

LEMMA HidePanelKeeps ==
  ASSUME WinTypeOK, WindowsInv, NEW q \in Seq(Step), CallInv(q),
         NEW new \in Flags, HidesPanel(q, new), UpdateTree(Vice, new),
         UNCHANGED <<managed, event, show, root>>
  PROVE  WindowsInv' /\ CallInv(Tail(q))'
<1> DEFINE r == Tail(q)
           x == IF flags[Main] = Shown THEN Hidden ELSE Iconified
<1>1. /\ q # <<>> /\ ~Ending(q) /\ ~VideoLeft(q) /\ PanelLeft(q) /\ r \in {QFocus, QFocusEnd}
      /\ Legal(r) /\ new # Shown
  BY Tails, Differ DEF Does, Ending, CallInv, Legal, VideoLeft, PanelLeft, HidesPanel, Video
<1> HIDE DEF r
<1>2. \/ ViceSeen
      \/ /\ Screen' \in Screens /\ Alike(Screen, Screen', Main)
         /\ Sets(Screen, Screen', Vice, x)
  BY <1>1, UpdateViceDoes
<1>3. Alike(Screen, Screen', Main)
  BY <1>2 DEF ViceSeen
<1>4. MainInv' /\ EventInv'
  BY <1>3, MainAlike DEF WindowsInv, EventInv
<1>5. /\ (mapped[Vice] /\ Has(asked, Vice, "map")) \/ Twice(asked, Vice, "map") =>
           ~Safe(Main)
      /\ Ready \/ Showing
      /\ ~(Due("hide") /\ flags[Main] = Shown)
      /\ props[Main] = Shown => Up
      /\ ~Safe(Main) => flags[Main] = Hidden
  BY <1>1 DEF CallInv, ShownTwice, Stage, HiddenByUser, Between, WindowsInv, MainInv
<1>6. ASSUME ViceSeen
      PROVE  /\ ViceInv' /\ (Safe(Main) \/ Safe(Vice))'
             /\ ((mapped[Vice] /\ Has(asked, Vice, "map")) \/ Twice(asked, Vice, "map"))'
                  => ~Safe(Main)'
  <2>1. Likewise(Screen, Screen', Vice) /\ props'[Vice] = props[Vice]
    BY <1>6 DEF ViceSeen, Screen
  <2>2. ViceInv' /\ (Safe(Main) \/ Safe(Vice))'
    BY <1>3, <2>1, MainAlike, ViceAlike DEF WindowsInv
  <2>3. ((mapped[Vice] /\ Has(asked, Vice, "map")) \/ Twice(asked, Vice, "map"))'
          => ~Safe(Main)'
    BY <1>3, <1>5, <2>1, MainAlike, ViceAlike
  <2> QED
    BY <2>2, <2>3
<1>7. ASSUME Screen' \in Screens /\ Sets(Screen, Screen', Vice, x)
      PROVE  /\ ViceInv' /\ (Safe(Main) \/ Safe(Vice))'
             /\ ((mapped[Vice] /\ Has(asked, Vice, "map")) \/ Twice(asked, Vice, "map"))'
                  => ~Safe(Main)'
  <2>1. /\ x = Hidden => Safe(Main)
        /\ x # Shown /\ Hidden # Iconified
        /\ x = Hidden \/ x = Iconified
    BY <1>5, Differ
  <2> HIDE DEF x
  <2>2. ViceInv'
    BY <1>5, <1>7, <2>1, Differ DEF WindowsInv, ViceInv, Sets, Likewise, AskedFor, Screen
  <2>3. (Safe(Main) \/ Safe(Vice))'
    <3>1. CASE x = Hidden
      BY <1>3, <2>1, <3>1, MainAlike
    <3>2. CASE x = Iconified
      BY <1>3, <1>7, <2>1, <3>2, Differ, MainAlike
         DEF WindowsInv, Safe, Sets, Likewise, AskedFor, Screen
    <3> QED
      BY <2>1, <3>1, <3>2
  <2>4. ((mapped[Vice] /\ Has(asked, Vice, "map")) \/ Twice(asked, Vice, "map"))'
          => ~Safe(Main)'
    <3>1. ~Safe(Main) <=> ~Safe(Main)'
      BY <1>3, MainAlike
    <3> QED
      BY <1>5, <1>7, <2>1, <3>1 DEF Sets, Likewise, AskedFor, Screen
  <2> QED
    BY <2>2, <2>3, <2>4
<1>8. Stage(r)'
  <2>1. (MainQuiet \/ Showing)'
    BY <1>3, <1>5, MainAlike DEF Ready
  <2> QED
    BY <1>1, <2>1, Tails DEF Stage, Does, HidesVideo, ShowsVideo, VideoLeft, PanelLeft
<1>9. ShownTwice(r)' /\ HiddenByUser(r)' /\ Between(r)'
  <2>1. ((mapped[Vice] /\ Has(asked, Vice, "map")) \/ Twice(asked, Vice, "map"))'
          => ~Safe(Main)'
    BY <1>2, <1>6, <1>7
  <2>2. ~VideoLeft(r)
    BY <1>1, Tails DEF VideoLeft, Does
  <2> QED
    BY <1>3, <1>5, <2>1, <2>2, MainAlike DEF ShownTwice, HiddenByUser, Between
<1> QED
  BY <1>1, <1>2, <1>4, <1>6, <1>7, <1>8, <1>9 DEF WindowsInv, CallInv, r

LEMMA ReadyVice ==
  ASSUME WinTypeOK, WindowsInv, Ready
  PROVE  mapped[Vice] => props[Vice] = Shown
BY Values, States DEF WindowsInv, ViceInv, Ready, ViceClean, ViceQuiet, Asked, Told

LEMMA RaisePanelKeeps ==
  ASSUME WinTypeOK, WindowsInv, NEW q \in Seq(Step), CallInv(q), Does(q, "raise"),
         UpdateTree(Vice, Shown), UNCHANGED <<managed, event, show, root>>
  PROVE  WindowsInv' /\ CallInv(Tail(q))'
<1> DEFINE r == Tail(q)
<1>1. /\ q # <<>> /\ ~Ending(q) /\ (Ending(r) \/ Video(r))
      /\ VideoLeft(q) <=> Video(r)
      /\ VideoLeft(q) \/ PanelLeft(q)
      /\ Video(r) => ~Ending(r)
      /\ Does(q, "raise")
      /\ ~Does(q, "wantNoVideo") /\ ~Does(q, "hideVideo") /\ ~Does(q, "apply")
  BY Tails DEF Does, Ending, CallInv, Legal, VideoLeft, PanelLeft, Video
<1> HIDE DEF r
<1>2. /\ Legal(r) /\ (VideoLeft(r) <=> Video(r)) /\ ~PanelLeft(r)
      /\ VideoLeft(r) => Does(r, "wantNoVideo")
      /\ \A h \in {"toggle", "apply", "hideVideo", "showVideo", "wantPanelToo", "focus",
                    "focused", "toggleHelper"} : ~Does(r, h)
  BY <1>1, Tails DEF Does, Ending, Legal, VideoLeft, PanelLeft, Video
<1>3. \/ ViceSeen
      \/ /\ Screen' \in Screens /\ Alike(Screen, Screen', Main)
         /\ Sets(Screen, Screen', Vice, Shown)
  BY UpdateViceDoes DEF Flags
<1>4. Alike(Screen, Screen', Main)
  BY <1>3 DEF ViceSeen
<1>5. MainInv' /\ EventInv'
  BY <1>4, MainAlike DEF WindowsInv, EventInv
<1>6. /\ (mapped[Vice] /\ Has(asked, Vice, "map")) \/ Twice(asked, Vice, "map") =>
           ~VideoLeft(q) /\ ~Safe(Main)
      /\ VideoLeft(q) => Ready /\ ViceQuiet
      /\ Ready \/ Showing
      /\ ~(Due("hide") /\ flags[Main] = Shown)
      /\ props[Main] = Shown => Up
      /\ Showing => Safe(Main)
  BY <1>1 DEF CallInv, ShownTwice, Stage, HiddenByUser, Between, WindowsInv, MainInv,
              Showing, Up, Safe, Asked
<1>7. ASSUME ViceSeen
      PROVE  /\ ViceInv' /\ (Safe(Main) \/ Safe(Vice))'
             /\ ((mapped[Vice] /\ Has(asked, Vice, "map")) \/ Twice(asked, Vice, "map"))'
                  => ~VideoLeft(r) /\ (~Safe(Main) \/ (Showing /\ Ending(r)))'
             /\ VideoLeft(r) => Ready'
  <2>1. Likewise(Screen, Screen', Vice) /\ props'[Vice] = props[Vice]
    BY <1>7 DEF ViceSeen, Screen
  <2>2. ViceInv' /\ (Safe(Main) \/ Safe(Vice))'
    BY <1>4, <2>1, MainAlike, ViceAlike DEF WindowsInv
  <2>3. ((mapped[Vice] /\ Has(asked, Vice, "map")) \/ Twice(asked, Vice, "map"))'
          => ~VideoLeft(r) /\ ~Safe(Main)'
    BY <1>1, <1>2, <1>4, <1>6, <2>1, MainAlike, ViceAlike
  <2>4. VideoLeft(r) => Ready'
    BY <1>1, <1>2, <1>4, <1>6, <2>1, MainAlike, ViceAlike DEF Ready
  <2> QED
    BY <2>2, <2>3, <2>4
<1>8. ASSUME Sets(Screen, Screen', Vice, Shown)
      PROVE  /\ ViceInv' /\ (Safe(Main) \/ Safe(Vice))'
             /\ ((mapped[Vice] /\ Has(asked, Vice, "map")) \/ Twice(asked, Vice, "map"))'
                  => ~VideoLeft(r) /\ (~Safe(Main) \/ (Showing /\ Ending(r)))'
             /\ VideoLeft(r) => Ready'
  <2>1. /\ mapped[Vice] /\ props[Vice] # Shown => Showing /\ ~VideoLeft(q)
        /\ props[Vice] # Shown /\ ~ViceQuiet => Showing /\ ~VideoLeft(q)
    BY <1>6, ReadyVice DEF Ready, ViceClean
  <2>2. ViceInv'
    BY <1>6, <1>8, <2>1, Differ DEF WindowsInv, ViceInv, Sets, Likewise, AskedFor, Screen
  <2>3. (Safe(Main) \/ Safe(Vice))'
    <3>1. CASE Safe(Main)
      BY <1>4, <3>1, MainAlike
    <3>2. CASE ~Safe(Main)
      BY <1>6, <1>8, <2>1, <3>2, Differ DEF WindowsInv, Safe, Sets, Likewise, AskedFor, Screen
    <3> QED
      BY <3>1, <3>2
  <2>4. ((mapped[Vice] /\ Has(asked, Vice, "map")) \/ Twice(asked, Vice, "map"))'
          => ~VideoLeft(q) /\ (~Safe(Main) \/ Showing)
    BY <1>6, <1>8, <2>1, Differ DEF Sets, Likewise, AskedFor, Screen, ViceQuiet, Asked
  <2>5. /\ ~Safe(Main) => ~Safe(Main)'
        /\ Showing => Showing'
    BY <1>4, MainAlike
  <2>6. VideoLeft(r) => Ready'
    <3> SUFFICES ASSUME VideoLeft(r) PROVE Ready'
      OBVIOUS
    <3>1. MainQuiet' /\ ViceQuiet
      BY <1>1, <1>2, <1>4, <1>6, MainAlike DEF Ready
    <3>2. ViceClean'
      BY <1>1, <1>2, <1>8, <2>1, <3>1, Differ
         DEF Sets, Likewise, AskedFor, Screen, ViceClean, ViceQuiet, Asked, Told
    <3> QED
      BY <3>1, <3>2 DEF Ready
  <2> QED
    BY <1>1, <1>2, <2>2, <2>3, <2>4, <2>5, <2>6
<1>9. Stage(r)'
  BY <1>2, <1>3, <1>7, <1>8 DEF Stage, HidesVideo, ShowsVideo
<1>10. ShownTwice(r)' /\ HiddenByUser(r)' /\ Between(r)'
  BY <1>3, <1>4, <1>6, <1>7, <1>8, MainAlike DEF ShownTwice, HiddenByUser, Between
<1> QED
  BY <1>2, <1>3, <1>5, <1>7, <1>8, <1>9, <1>10 DEF WindowsInv, CallInv, r

\* The bits of the backend become what the server says.
LEMMA FocusedKeeps ==
  ASSUME WinTypeOK, WindowsInv, NEW q \in Seq(Step), CallInv(q), Does(q, "focused"),
         UNCHANGED <<mapped, asked, events, managed, event, show, root>>,
         props' = [props EXCEPT ![Main] = IF mapped[Main] THEN Shown ELSE Hidden],
         flags'[Main] = props'[Main]
  PROVE  WindowsInv' /\ CallInv(Tail(q))'
<1> DEFINE r == Tail(q)
<1>1. /\ q # <<>> /\ ~Ending(q) /\ Ending(r) /\ Legal(r)
      /\ \A h \in Step \ {"end"} : ~Does(r, h)
      /\ ~VideoLeft(r) /\ ~PanelLeft(r)
  BY Tails DEF Does, Ending, CallInv, Legal, VideoLeft, PanelLeft
<1> HIDE DEF r
<1>2. /\ props'[Main] = IF mapped[Main] THEN Shown ELSE Hidden
      /\ props'[Vice] = props[Vice]
  BY Windows3 DEF WinTypeOK
<1>3. /\ Up /\ Safe(Main) /\ ~Due("hide")
      /\ ~((mapped[Vice] /\ Has(asked, Vice, "map")) \/ Twice(asked, Vice, "map"))
  BY <1>1 DEF CallInv, Stage, ShownTwice, Up, Safe, Asked, WindowsInv, MainInv
<1>4. EventInv' /\ ViceInv' /\ Safe(Main)' /\ Up'
  BY <1>2, <1>3 DEF WindowsInv, EventInv, ViceInv, Safe, Up, Asked
<1>5. MainInv'
  BY <1>2, <1>3, Values, States, Differ DEF WindowsInv, MainInv, Safe, Up, Asked, Due
<1>6. Stage(r)'
  BY <1>1 DEF Stage, HidesVideo, ShowsVideo, Step
<1>7. ShownTwice(r)' /\ HiddenByUser(r)' /\ Between(r)'
  BY <1>3, <1>4 DEF ShownTwice, HiddenByUser, Between, Due
<1> QED
  BY <1>1, <1>4, <1>5, <1>6, <1>7 DEF WindowsInv, CallInv, r

LEMMA ElsewhereKeeps ==
  ASSUME WinTypeOK, WindowsInv, NEW q \in Seq(Step), CallInv(q), Does(q, "toggleHelper"),
         Elsewhere, UNCHANGED <<managed, event, show, root>>
  PROVE  WindowsInv' /\ CallInv(Tail(q))'
<1>1. Tail(q) = QEnd /\ Legal(QEnd) /\ q # <<>> /\ ~Ending(q)
      /\ \A h \in Step \ {"end"} : ~Does(QEnd, h)
  BY Tails DEF Does, Ending, CallInv, Legal
<1>2. ~VideoLeft(QEnd) /\ ~PanelLeft(QEnd)
  BY <1>1 DEF VideoLeft, PanelLeft, Step
<1>3. MainInv' /\ ViceInv' /\ EventInv' /\ (Safe(Main) \/ Safe(Vice))'
  BY MainAlike, ViceAlike DEF Elsewhere, Alike, WindowsInv, EventInv, Screen
<1>4. Stage(QEnd)'
  BY <1>1, <1>2 DEF Stage, HidesVideo, ShowsVideo, Step
<1>5. ShownTwice(QEnd)' /\ HiddenByUser(QEnd)' /\ Between(QEnd)'
  <2>1. /\ (mapped[Vice] /\ Has(asked, Vice, "map"))' <=> mapped[Vice] /\ Has(asked, Vice, "map")
        /\ Twice(asked, Vice, "map")' <=> Twice(asked, Vice, "map")
    BY ViceAlike DEF Elsewhere, Alike, Screen
  <2> QED
    BY <1>1, <1>2, <2>1, MainAlike DEF Elsewhere, CallInv, ShownTwice, HiddenByUser, Between
<1> QED
  BY <1>1, <1>3, <1>4, <1>5 DEF WindowsInv, CallInv

\* An event ends.
LEMMA EndKeeps ==
  ASSUME WindowsInv, NEW q \in Seq(Step), CallInv(q), Does(q, "end"),
         UNCHANGED <<screen, managed, event, show, root>>
  PROVE  WindowsInv' /\ CallInv(Tail(q))'
<1>1. Tail(q) = <<>> /\ q # <<>> /\ \A h : ~Does(<<>>, h)
  BY DEF Does, CallInv, Legal
<1>2. ~VideoLeft(<<>>) /\ ~PanelLeft(<<>>) /\ Legal(<<>>) /\ Ending(<<>>)
  BY <1>1 DEF VideoLeft, PanelLeft, Legal, Ending
<1>3. UNCHANGED <<mapped, asked, events, props, flags, managed, event, show, root>>
  BY DEF screen
<1>4. WindowsInv'
  BY <1>3 DEF WindowsInv, EventInv, MainInv, ViceInv, Safe, Up, Asked, Due
<1>5. Stage(<<>>)'
  BY <1>1, <1>2 DEF Stage, HidesVideo, ShowsVideo
<1>6. ShownTwice(<<>>)' /\ HiddenByUser(<<>>)' /\ Between(<<>>)'
  BY <1>1, <1>2, <1>3
     DEF CallInv, ShownTwice, HiddenByUser, Between, Showing, Safe, Up, Asked, Due
<1> QED
  BY <1>1, <1>2, <1>4, <1>5, <1>6 DEF CallInv

-----------------------------------------------------------------------------
(***************************************************************************)
(* The window manager and the user.                                        *)
(***************************************************************************)
\* q and the news x of w.
Adds(q, p, w, X) ==
  \A v \in {Main, Vice} : \A y :
    /\ Has(p, v, y) <=> Has(q, v, y) \/ (v = w /\ y \in X)
    /\ Twice(p, v, y) <=> Twice(q, v, y) \/ (Has(q, v, y) /\ v = w /\ y \in X)

LEMMA AddsOne ==
  ASSUME NEW q \in Seq(News), NEW w \in Win, NEW x \in {"show", "hide", "state"}
  PROVE  Append(q, <<w, x>>) \in Seq(News) /\ Adds(q, Append(q, <<w, x>>), w, {x})
<1> DEFINE e == <<w, x>>
           p == Append(q, e)
<1>1. (\A v, y : e = <<v, y>> <=> v = w /\ y = x) /\ e \in News
  BY DEF News
<1> HIDE DEF e
<1>2. p \in Seq(News)
  BY <1>1
<1>3. ASSUME NEW v
      PROVE  /\ \A y : Has(p, v, y) <=> Has(q, v, y) \/ e = <<v, y>>
             /\ \A y : Twice(p, v, y) <=> Twice(q, v, y) \/ (Has(q, v, y) /\ e = <<v, y>>)
  BY <1>1, Added
<1> HIDE DEF p
<1>4. Adds(q, p, w, {x})
  BY <1>1, <1>3 DEF Adds
<1> QED
  BY <1>2, <1>4 DEF e, p

LEMMA AddsTwo ==
  ASSUME NEW q \in Seq(News), NEW w \in Win,
         NEW x \in {"show", "hide", "state"}, NEW y \in {"show", "hide", "state"}, x # y
  PROVE  LET p == q \o <<<<w, x>>, <<w, y>>>>
         IN  p \in Seq(News) /\ Adds(q, p, w, {x, y})
<1> DEFINE u == Append(q, <<w, x>>)
           p == Append(u, <<w, y>>)
<1>1. u \in Seq(News) /\ Adds(q, u, w, {x})
  BY AddsOne
<1>2. p = q \o <<<<w, x>>, <<w, y>>>>
  <2> DEFINE a == <<w, x>>
             b == <<w, y>>
  <2>1. a \in News /\ b \in News
    BY DEF News
  <2> HIDE DEF a, b
  <2>2. Append(Append(q, a), b) = q \o <<a, b>>
    BY <2>1
  <2> QED
    BY <2>2 DEF a, b
<1> HIDE DEF u
<1>3. p \in Seq(News) /\ Adds(u, p, w, {y})
  BY <1>1, AddsOne
<1> HIDE DEF p
<1>4. Adds(q, p, w, {x, y})
  BY <1>1, <1>3 DEF Adds
<1> QED
  BY <1>2, <1>3, <1>4

\* What Manage does: news X of w.
Managed(w, to, X) ==
  /\ managed'[w] = to /\ \A v \in Win \ {w} : managed'[v] = managed[v]
  /\ mapped'[w] <=> to = "normal"
  /\ \A v \in Win \ {w} : mapped'[v] <=> mapped[v]
  /\ Adds(events, events', w, X)
  /\ X = IF mapped[w] <=> to = "normal"
         THEN IF managed[w] = to THEN {} ELSE {"state"}
         ELSE {"state", IF to = "normal" THEN "show" ELSE "hide"}

LEMMA ManageDoes ==
  ASSUME WinTypeOK, NEW w \in Win, NEW to \in {"normal", "iconic"}, Manage(w, to)
  PROVE  /\ \E X : Managed(w, to, X)
         /\ managed' \in [Win -> DOMAIN WmState] /\ mapped' \in [Win -> BOOLEAN]
         /\ events' \in Seq(News)
<1>1. /\ events \in Seq(News) /\ mapped \in [Win -> BOOLEAN]
      /\ managed \in [Win -> DOMAIN WmState] /\ to \in DOMAIN WmState
  BY DEF WinTypeOK, WmState
<1>2. /\ managed' = [managed EXCEPT ![w] = to]
      /\ mapped' = [mapped EXCEPT ![w] = (to = "normal")]
      /\ \/ /\ mapped[w] <=> to = "normal"
            /\ managed[w] = to /\ events' = events
         \/ /\ mapped[w] <=> to = "normal"
            /\ managed[w] # to /\ events' = Append(events, <<w, "state">>)
         \/ /\ ~(mapped[w] <=> to = "normal")
            /\ Inform(w, IF to = "normal" THEN "show" ELSE "hide")
  BY <1>1 DEF Manage
<1>3. /\ managed'[w] = to /\ \A v \in Win \ {w} : managed'[v] = managed[v]
      /\ mapped'[w] <=> to = "normal"
      /\ \A v \in Win \ {w} : mapped'[v] <=> mapped[v]
      /\ managed' \in [Win -> DOMAIN WmState] /\ mapped' \in [Win -> BOOLEAN]
  BY <1>1, <1>2
<1>4. CASE /\ mapped[w] <=> to = "normal"
           /\ managed[w] = to /\ events' = events
  <2>1. Adds(events, events', w, {})
    BY <1>4 DEF Adds
  <2>2. Managed(w, to, {})
    BY <1>3, <1>4, <2>1 DEF Managed
  <2> QED
    BY <1>1, <1>3, <1>4, <2>2
<1>5. CASE /\ mapped[w] <=> to = "normal"
           /\ managed[w] # to /\ events' = Append(events, <<w, "state">>)
  <2>1. events' \in Seq(News) /\ Adds(events, events', w, {"state"})
    BY <1>1, <1>5, AddsOne
  <2>2. Managed(w, to, {"state"})
    BY <1>3, <1>5, <2>1 DEF Managed
  <2> QED
    BY <1>3, <2>1, <2>2
<1>6. CASE /\ ~(mapped[w] <=> to = "normal")
           /\ Inform(w, IF to = "normal" THEN "show" ELSE "hide")
  <2> DEFINE x == IF to = "normal" THEN "show" ELSE "hide"
             X == {"state", x}
  <2>1. x \in {"show", "hide", "state"} /\ x # "state"
    OBVIOUS
  <2>2. \/ events' = events \o <<<<w, x>>, <<w, "state">>>>
        \/ events' = events \o <<<<w, "state">>, <<w, x>>>>
    BY <1>6 DEF Inform
  <2> HIDE DEF x
  <2>3. events' \in Seq(News) /\ Adds(events, events', w, X)
    <3>1. CASE events' = events \o <<<<w, x>>, <<w, "state">>>>
      <4>1. events' \in Seq(News) /\ Adds(events, events', w, {x, "state"})
        BY <1>1, <2>1, <3>1, AddsTwo
      <4> QED
        BY <4>1 DEF Adds
    <3>2. CASE events' = events \o <<<<w, "state">>, <<w, x>>>>
      BY <1>1, <2>1, <3>2, AddsTwo
    <3> QED
      BY <2>2, <3>1, <3>2
  <2>4. Managed(w, to, X)
    BY <1>3, <1>6, <2>3 DEF Managed, x
  <2> QED
    BY <1>3, <2>3, <2>4
<1> QED
  BY <1>2, <1>4, <1>5, <1>6

\* The first request, x of w, is dealt with.
Served(w, x) ==
  \A v \in {Main, Vice} :
    /\ Again(asked, v) <=> Again(asked', v) \/ (Asked(asked', v) /\ v = w)
    /\ \A y : Has(asked, v, y) <=> Has(asked', v, y) \/ (v = w /\ y = x)
    /\ \A y : Twice(asked, v, y) <=> Twice(asked', v, y) \/ (Has(asked', v, y) /\ v = w /\ y = x)
    /\ \A y, z : Followed(asked, v, y, z) <=>
         Followed(asked', v, y, z) \/ (Has(asked', v, z) /\ v = w /\ y = x)

LEMMA ServedDoes ==
  ASSUME WinTypeOK, asked # <<>>, asked' = Tail(asked),
         NEW w, NEW x, w = Head(asked)[1], x = Head(asked)[2]
  PROVE  /\ w \in Win /\ x \in {"map", "iconify", "unmapped"}
         /\ asked' \in Seq(Order) /\ Served(w, x)
<1> DEFINE e == Head(asked)
           q == asked
           p == asked'
<1>1. q \in Seq(Order) /\ q # <<>> /\ p = Tail(q)
  BY DEF WinTypeOK
<1>2. e \in Order /\ p \in Seq(Order) /\ e = Head(q)
  BY <1>1
<1>3. w = e[1] /\ x = e[2]
  OBVIOUS
<1> HIDE DEF e, p, q
<1>4. \A v, y : e = <<v, y>> <=> v = w /\ y = x
  BY <1>2, <1>3 DEF Order
<1>5. w \in Win /\ x \in {"map", "iconify", "unmapped"}
  BY <1>2, <1>3 DEF Order
<1>6. ASSUME NEW v \in {Main, Vice}
      PROVE  /\ Again(q, v) <=> Again(p, v) \/ (Asked(p, v) /\ v = w)
             /\ \A y : Has(q, v, y) <=> Has(p, v, y) \/ (v = w /\ y = x)
             /\ \A y : Twice(q, v, y) <=> Twice(p, v, y) \/ (Has(p, v, y) /\ v = w /\ y = x)
             /\ \A y, z : Followed(q, v, y, z) <=>
                  Followed(p, v, y, z) \/ (Has(p, v, z) /\ v = w /\ y = x)
  <2>1. /\ \A y : Has(q, v, y) <=> Has(p, v, y) \/ e = <<v, y>>
        /\ Again(q, v) <=> Again(p, v) \/ (Names(p, v) /\ e[1] = v)
        /\ \A y : Twice(q, v, y) <=> Twice(p, v, y) \/ (Has(p, v, y) /\ e = <<v, y>>)
        /\ \A y, z : Followed(q, v, y, z) <=>
             Followed(p, v, y, z) \/ (Has(p, v, z) /\ e = <<v, y>>)
    <3>1. /\ \A y : Has(q, v, y) <=> Has(Tail(q), v, y) \/ Head(q) = <<v, y>>
          /\ Again(q, v) <=> Again(Tail(q), v) \/ (Names(Tail(q), v) /\ Head(q)[1] = v)
          /\ \A y : Twice(q, v, y) <=>
               Twice(Tail(q), v, y) \/ (Has(Tail(q), v, y) /\ Head(q) = <<v, y>>)
          /\ \A y, z : Followed(q, v, y, z) <=>
               Followed(Tail(q), v, y, z) \/ (Has(Tail(q), v, z) /\ Head(q) = <<v, y>>)
      BY <1>1, Taken
    <3> QED
      BY <1>1, <1>2, <3>1
  <2>2. Again(q, v) <=> Again(p, v) \/ (Asked(p, v) /\ v = w)
    <3>1. Names(p, v) <=> Asked(p, v)
      BY <1>2, AskedNames
    <3> QED
      BY <1>3, <2>1, <3>1
  <2>3. \A y : Has(q, v, y) <=> Has(p, v, y) \/ (v = w /\ y = x)
    BY <1>4, <2>1
  <2>4. \A y : Twice(q, v, y) <=> Twice(p, v, y) \/ (Has(p, v, y) /\ v = w /\ y = x)
    BY <1>4, <2>1
  <2>5. \A y, z : Followed(q, v, y, z) <=>
          Followed(p, v, y, z) \/ (Has(p, v, z) /\ v = w /\ y = x)
    BY <1>4, <2>1
  <2> QED
    BY <2>2, <2>3, <2>4, <2>5
<1>7. Served(w, x)
  BY <1>6 DEF Served, p, q
<1> QED
  BY <1>2, <1>5, <1>7 DEF p

LEMMA WindowManagerDoes ==
  ASSUME WinTypeOK, WindowManager
  PROVE  /\ asked' \in Seq(Order) /\ events' \in Seq(News)
         /\ managed' \in [Win -> DOMAIN WmState] /\ mapped' \in [Win -> BOOLEAN]
         /\ \E w \in Win, x \in {"map", "iconify", "unmapped"} :
              /\ Served(w, x)
              /\ \/ x = "map" /\ \E X : Managed(w, "normal", X)
                 \/ x = "iconify" /\ managed[w] # "withdrawn" /\ \E X : Managed(w, "iconic", X)
                 \/ x = "iconify" /\ managed[w] = "withdrawn" /\ UNCHANGED <<managed, mapped, events>>
                 \/ /\ x = "unmapped" /\ managed'[w] = "withdrawn"
                    /\ \A v \in Win \ {w} : managed'[v] = managed[v]
                    /\ mapped' = mapped /\ Adds(events, events', w, {"state"})
<1> DEFINE w == Head(asked)[1]
           x == Head(asked)[2]
<1>1. /\ w \in Win /\ x \in {"map", "iconify", "unmapped"}
      /\ asked' \in Seq(Order) /\ Served(w, x)
  BY ServedDoes DEF WindowManager
<1>2. \/ x = "map" /\ Manage(w, "normal")
      \/ x = "iconify" /\ managed[w] # "withdrawn" /\ Manage(w, "iconic")
      \/ x = "iconify" /\ managed[w] = "withdrawn" /\ UNCHANGED <<managed, mapped, events>>
      \/ /\ x = "unmapped" /\ managed' = [managed EXCEPT ![w] = "withdrawn"]
         /\ events' = Append(events, <<w, "state">>) /\ mapped' = mapped
  BY DEF WindowManager
<1> HIDE DEF w, x
<1>3. /\ events \in Seq(News) /\ managed \in [Win -> DOMAIN WmState] /\ mapped \in [Win -> BOOLEAN]
      /\ "withdrawn" \in DOMAIN WmState
  BY DEF WinTypeOK, WmState
<1>4. ASSUME NEW to \in {"normal", "iconic"}, Manage(w, to)
      PROVE  /\ \E X : Managed(w, to, X)
             /\ managed' \in [Win -> DOMAIN WmState] /\ mapped' \in [Win -> BOOLEAN]
             /\ events' \in Seq(News)
  BY <1>1, <1>4, ManageDoes
<1>5. CASE x = "map" /\ Manage(w, "normal")
  BY <1>1, <1>4, <1>5
<1>6. CASE x = "iconify" /\ managed[w] # "withdrawn" /\ Manage(w, "iconic")
  BY <1>1, <1>4, <1>6
<1>7. CASE x = "iconify" /\ managed[w] = "withdrawn" /\ UNCHANGED <<managed, mapped, events>>
  BY <1>1, <1>3, <1>7
<1>8. CASE /\ x = "unmapped" /\ managed' = [managed EXCEPT ![w] = "withdrawn"]
           /\ events' = Append(events, <<w, "state">>) /\ mapped' = mapped
  <2>1. events' \in Seq(News) /\ Adds(events, events', w, {"state"})
    BY <1>1, <1>3, <1>8, AddsOne
  <2>2. /\ managed'[w] = "withdrawn" /\ \A v \in Win \ {w} : managed'[v] = managed[v]
        /\ managed' \in [Win -> DOMAIN WmState]
    BY <1>1, <1>3, <1>8
  <2> QED
    BY <1>1, <1>3, <1>8, <2>1, <2>2
<1> QED
  BY <1>2, <1>5, <1>6, <1>7, <1>8

\* What does not concern a window does not change it.
LEMMA OtherServed ==
  ASSUME NEW w \in Win, NEW x, Served(w, x), NEW v \in {Main, Vice}, v # w,
         UNCHANGED <<props, flags>>, mapped'[v] <=> mapped[v],
         events' = events \/ \E X : Adds(events, events', w, X)
  PROVE  Alike(Screen, Screen', v)
<1>1. /\ \A y : Has(events', v, y) <=> Has(events, v, y)
      /\ \A y : Twice(events', v, y) <=> Twice(events, v, y)
  BY DEF Adds
<1>2. /\ Again(asked, v) <=> Again(asked', v)
      /\ \A y : Has(asked, v, y) <=> Has(asked', v, y)
      /\ \A y : Twice(asked, v, y) <=> Twice(asked', v, y)
      /\ \A y, z : Followed(asked, v, y, z) <=> Followed(asked', v, y, z)
  BY DEF Served
<1> QED
  BY <1>1, <1>2 DEF Alike, Likewise, Screen

-----------------------------------------------------------------------------
\* Something under way for the panel, or for the main window, comes to an end:
\* what the call relied on still holds.
LEMMA ViceMoves ==
  ASSUME MainStays, UNCHANGED <<show, root>>, NEW q, CallInv(q),
         ~ViceQuiet, ViceClean => ViceClean', ViceTwice' => ViceTwice,
         WindowsInv, ViceInv', Safe(Vice) => Safe(Vice)', EventInv'
  PROVE  WindowsInv' /\ CallInv(q)'
<1>1. WindowsInv'
  BY MainStaysDoes DEF WindowsInv
<1>2. VideoLeft(q) => ~Does(q, "toggle") /\ ~Does(q, "showVideo")
  BY DEF CallInv, Stage, Does, ShowsVideo
<1>3. Stage(q)'
  BY <1>2, MainStaysDoes DEF CallInv, Stage, Ready, HidesVideo, ShowsVideo
<1>4. ShownTwice(q)' /\ HiddenByUser(q)' /\ Between(q)'
  BY MainStaysDoes DEF CallInv, ShownTwice, ViceTwice, HiddenByUser, Between
<1> QED
  BY <1>1, <1>3, <1>4 DEF CallInv

LEMMA MainMoves ==
  ASSUME ViceStays, UNCHANGED <<show, root>>, NEW q, CallInv(q),
         ~MainQuiet, Showing => Showing', Up' => Up, Safe(Main)' <=> Safe(Main),
         WindowsInv, MainInv', EventInv', HiddenByUser(q)', Between(q)'
  PROVE  WindowsInv' /\ CallInv(q)'
<1>1. WindowsInv'
  BY ViceStaysDoes DEF WindowsInv
<1>2. ~VideoLeft(q) /\ ~Ready /\ ~HidesVideo(q) /\ ~ShowsVideo(q)
  BY DEF CallInv, Stage, Ready, HidesVideo, ShowsVideo, VideoLeft
<1>3. ~HidesVideo(q)' /\ ~ShowsVideo(q)'
  BY <1>2 DEF HidesVideo, ShowsVideo
<1>4. ~Does(q, "apply")
  BY <1>2 DEF VideoLeft
<1>5. Showing' => Up' /\ props'[Main] # Iconified
  BY Differ DEF Showing
<1>6. Stage(q)'
  BY <1>2, <1>3, <1>4, <1>5 DEF CallInv, Stage
<1>7. ShownTwice(q)'
  BY <1>2, ViceStaysDoes DEF CallInv, ShownTwice
<1> QED
  BY <1>1, <1>6, <1>7 DEF CallInv

LEMMA MainServed ==
  ASSUME WinTypeOK, WindowsInv, NEW q, CallInv(q), NEW x \in {"map", "iconify", "unmapped"},
         Served(Main, x), UNCHANGED <<props, flags, event, show, root>>, ViceStays,
         \/ x = "map" /\ \E X : Managed(Main, "normal", X)
         \/ x = "iconify" /\ managed[Main] # "withdrawn" /\ \E X : Managed(Main, "iconic", X)
         \/ x = "iconify" /\ managed[Main] = "withdrawn" /\ UNCHANGED <<managed, mapped, events>>
         \/ /\ x = "unmapped" /\ managed'[Main] = "withdrawn"
            /\ mapped' = mapped /\ Adds(events, events', Main, {"state"})
  PROVE  WindowsInv' /\ CallInv(q)'
<1>1. /\ Has(asked, Main, x) /\ ~Again(asked', Main) /\ ~Asked(asked', Main)
      /\ \A y \in {"map", "iconify", "unmapped"} : Has(asked, Main, y) => y = x
  <2>1. /\ Again(asked, Main) <=> Again(asked', Main) \/ Asked(asked', Main)
        /\ \A y : Has(asked, Main, y) <=> Has(asked', Main, y) \/ y = x
    BY DEF Served
  <2>2. ~Again(asked, Main)
    BY DEF WindowsInv, MainInv
  <2> QED
    BY <2>1, <2>2 DEF Asked
<1>2. Asked(asked, Main) /\ ~MainQuiet
  BY <1>1 DEF Asked, MainQuiet
<1>3. EventInv'
  BY DEF WindowsInv, EventInv
<1>4. CASE x = "map" /\ \E X : Managed(Main, "normal", X)
  <2>1. /\ managed[Main] # "normal" /\ ~mapped[Main] /\ ~Has(asked, Main, "unmapped")
        /\ ~Due("show") /\ ~Due("hide") /\ Safe(Main) /\ Up
        /\ ~Has(events, Main, "state") /\ ~Twice(events, Main, "hide")
    BY <1>1, <1>2, <1>4 DEF WindowsInv, MainInv, Safe, Up
  <2>2. /\ managed'[Main] = "normal" /\ mapped'[Main]
        /\ \A y : Has(events', Main, y) <=> Has(events, Main, y) \/ y \in {"state", "show"}
        /\ Twice(events', Main, "hide") <=> Twice(events, Main, "hide")
    BY <1>4, <2>1 DEF Managed, Adds
  <2>3. ~Due("hide")' /\ Safe(Main)' /\ Up'
    BY <1>1, <2>1, <2>2 DEF Due, Safe, Up, Asked
  <2>4. MainInv'
    BY <1>1, <2>1, <2>2, <2>3 DEF MainInv, Asked, Due
  <2>5. HiddenByUser(q)' /\ Between(q)' /\ (Showing => Showing')
    BY <2>3 DEF HiddenByUser, Between, Showing
  <2> QED
    BY <1>2, <1>3, <2>1, <2>3, <2>4, <2>5, MainMoves
<1>5. ASSUME x = "iconify"
      PROVE  /\ managed[Main] = "normal" /\ mapped[Main] /\ ~Has(asked, Main, "unmapped")
             /\ ~Has(asked, Main, "map")
             /\ ~Due("show") /\ ~Due("hide") /\ Safe(Main) /\ ~Up
             /\ props[Main] = Iconified /\ flags[Main] = Iconified
             /\ ~Has(events, Main, "state") /\ ~Twice(events, Main, "hide")
  <2>1. Has(asked, Main, "iconify") /\ ~Has(asked, Main, "unmapped") /\ ~Has(asked, Main, "map")
    BY <1>1, <1>5
  <2> QED
    BY <1>2, <2>1 DEF WindowsInv, MainInv, Safe, Up
<1>6. CASE x = "iconify" /\ managed[Main] # "withdrawn" /\ \E X : Managed(Main, "iconic", X)
  <2>1. /\ managed'[Main] = "iconic" /\ ~mapped'[Main]
        /\ \A y : Has(events', Main, y) <=> Has(events, Main, y) \/ y \in {"state", "hide"}
        /\ Twice(events', Main, "hide") <=>
             Twice(events, Main, "hide") \/ Has(events, Main, "hide")
    BY <1>5, <1>6 DEF Managed, Adds
  <2>2. Safe(Main)' /\ ~Up' /\ ~Due("show")'
    BY <1>1, <1>5, <1>6, <2>1 DEF Due, Safe, Up, Asked
  <2>3. MainInv'
    BY <1>1, <1>5, <1>6, <2>1, <2>2 DEF MainInv, Asked, Due
  <2>4. HiddenByUser(q)' /\ Between(q)' /\ ~Showing
    BY <1>5, <1>6, Differ DEF HiddenByUser, Between, Showing
  <2> QED
    BY <1>2, <1>3, <1>5, <1>6, <2>2, <2>3, <2>4, MainMoves
<1>7. CASE /\ x = "unmapped" /\ managed'[Main] = "withdrawn"
           /\ mapped' = mapped /\ Adds(events, events', Main, {"state"})
  <2>1. ~Has(asked, Main, "map") /\ ~Has(asked, Main, "iconify") /\ Has(asked, Main, "unmapped")
    BY <1>1, <1>7
  <2>2. /\ ~mapped[Main] /\ ~Due("show") /\ ~Safe(Main) /\ ~Up
        /\ props[Main] = Hidden /\ flags[Main] = Hidden
        /\ ~Twice(events, Main, "hide")
        /\ <<Main, "hide">> \in event => ~Has(events, Main, "hide")
    BY <1>2, <2>1 DEF WindowsInv, MainInv, Safe, Up
  <2>3. /\ \A y : Has(events', Main, y) <=> Has(events, Main, y) \/ y = "state"
        /\ Twice(events', Main, "hide") <=> Twice(events, Main, "hide")
    BY <1>7 DEF Adds
  <2>4. ~Safe(Main)' /\ ~Up' /\ ~Due("show")'
    BY <1>1, <1>7, <2>2, <2>3 DEF Due, Safe, Up, Asked
  <2>5. MainInv'
    BY <1>1, <1>7, <2>1, <2>2, <2>3, <2>4 DEF MainInv, Asked, Due
  <2>6. HiddenByUser(q)' /\ Between(q)' /\ ~Showing
    BY <2>2, Differ DEF HiddenByUser, Between, Showing
  <2> QED
    BY <1>2, <1>3, <2>2, <2>4, <2>5, <2>6, MainMoves
<1> QED
  BY <1>4, <1>5, <1>6, <1>7

LEMMA ViceServed ==
  ASSUME WinTypeOK, WindowsInv, NEW q, CallInv(q), NEW x \in {"map", "iconify", "unmapped"},
         Served(Vice, x), UNCHANGED <<props, flags, event, show, root>>, MainStays,
         \/ x = "map" /\ \E X : Managed(Vice, "normal", X)
         \/ x = "iconify" /\ managed[Vice] # "withdrawn" /\ \E X : Managed(Vice, "iconic", X)
         \/ x = "iconify" /\ managed[Vice] = "withdrawn" /\ UNCHANGED <<managed, mapped, events>>
         \/ /\ x = "unmapped" /\ managed'[Vice] = "withdrawn"
            /\ mapped' = mapped /\ Adds(events, events', Vice, {"state"})
  PROVE  WindowsInv' /\ CallInv(q)'
<1>1. /\ Has(asked, Vice, x)
      /\ \A y : Has(asked, Vice, y) <=> Has(asked', Vice, y) \/ y = x
      /\ \A y : Twice(asked, Vice, y) <=> Twice(asked', Vice, y) \/ (Has(asked', Vice, y) /\ y = x)
      /\ \A y, z : Followed(asked, Vice, y, z) <=>
           Followed(asked', Vice, y, z) \/ (Has(asked', Vice, z) /\ y = x)
  BY DEF Served
<1>2. ~ViceQuiet
  BY <1>1 DEF ViceQuiet, Asked
<1>3. EventInv'
  BY DEF WindowsInv, EventInv
<1>4. CASE x = "map" /\ \E X : Managed(Vice, "normal", X)
  <2>1. /\ ~Has(asked', Vice, "unmapped") /\ ~Followed(asked', Vice, "map", "unmapped")
        /\ managed'[Vice] = "normal" /\ mapped'[Vice]
        /\ IF mapped[Vice]
           THEN managed[Vice] = "normal" /\ \A y : Has(events', Vice, y) <=> Has(events, Vice, y)
           ELSE Has(events', Vice, "show")
    BY <1>1, <1>4 DEF WindowsInv, ViceInv, Managed, Adds
  <2>2. ViceInv'
    BY <1>1, <1>4, <2>1 DEF WindowsInv, ViceInv
  <2>3. Safe(Vice)' /\ (ViceClean => ViceClean')
    BY <1>1, <1>2, <2>1 DEF Safe, ViceClean
  <2>4. ViceTwice' => ViceTwice
    BY <1>1, <1>4 DEF ViceTwice
  <2> QED
    BY <1>2, <1>3, <2>2, <2>3, <2>4, ViceMoves
<1>5. ASSUME x # "map", ~mapped'[Vice],
             x = "iconify" /\ managed'[Vice] = "withdrawn" => managed[Vice] = "withdrawn"
      PROVE  WindowsInv' /\ CallInv(q)'
  <2>1. ViceInv' /\ ~ViceClean
    BY <1>1, <1>2, <1>5 DEF WindowsInv, ViceInv, ViceClean
  <2>2. Safe(Vice) => Safe(Vice)'
    BY <1>1, <1>5 DEF Safe
  <2>3. ViceTwice' => ViceTwice
    BY <1>1, <1>5 DEF ViceTwice
  <2> QED
    BY <1>2, <1>3, <2>1, <2>2, <2>3, ViceMoves
<1>6. x = "unmapped" \/ (x = "iconify" /\ managed[Vice] = "withdrawn") => ~mapped[Vice]
  BY <1>1 DEF WindowsInv, ViceInv
<1> QED
  BY <1>4, <1>5, <1>6 DEF Managed

LEMMA WindowManagerKeeps ==
  ASSUME WinTypeOK, WindowsInv, NEW q, CallInv(q), WindowManager
  PROVE  /\ WindowsInv' /\ CallInv(q)'
         /\ asked' \in Seq(Order) /\ events' \in Seq(News)
         /\ managed' \in [Win -> DOMAIN WmState] /\ mapped' \in [Win -> BOOLEAN]
<1>1. UNCHANGED <<props, flags, event, show, root>>
  BY DEF WindowManager
<1>2. PICK w \in Win, x \in {"map", "iconify", "unmapped"} :
        /\ Served(w, x)
        /\ \/ x = "map" /\ \E X : Managed(w, "normal", X)
           \/ x = "iconify" /\ managed[w] # "withdrawn" /\ \E X : Managed(w, "iconic", X)
           \/ x = "iconify" /\ managed[w] = "withdrawn" /\ UNCHANGED <<managed, mapped, events>>
           \/ /\ x = "unmapped" /\ managed'[w] = "withdrawn"
              /\ \A v \in Win \ {w} : managed'[v] = managed[v]
              /\ mapped' = mapped /\ Adds(events, events', w, {"state"})
  BY WindowManagerDoes
<1>3. \A v \in Win \ {w} : managed'[v] = managed[v] /\ (mapped'[v] <=> mapped[v])
  BY <1>2 DEF Managed
<1>4. events' = events \/ \E X : Adds(events, events', w, X)
  BY <1>2 DEF Managed
<1>5. \A v \in {Main, Vice} \ {w} : Alike(Screen, Screen', v) /\ managed'[v] = managed[v]
  BY <1>1, <1>2, <1>3, <1>4, OtherServed, Windows3
<1>6. /\ w # Main => MainStays
      /\ w # Vice => ViceStays
  BY <1>1, <1>5 DEF MainStays, ViceStays, Alike, Screen
<1>7. CASE w = Main
  <2>1. w # Vice
    BY <1>7, Windows3
  <2> QED
    BY <1>1, <1>2, <1>6, <1>7, <2>1, MainServed, WindowManagerDoes
<1>8. CASE w = Vice
  <2>1. w # Main
    BY <1>8, Windows3
  <2> QED
    BY <1>1, <1>2, <1>6, <1>8, <2>1, ViceServed, WindowManagerDoes
<1>9. CASE w # Main /\ w # Vice
  <2>1. MainInv /\ ViceInv /\ (Safe(Main) \/ Safe(Vice)) /\ EventInv
    BY DEF WindowsInv
  <2>2. CallInv(q)' /\ MainInv' /\ ViceInv' /\ (Safe(Main) \/ Safe(Vice))'
    BY <1>1, <1>6, <1>9, <2>1, BothStay
  <2> QED
    BY <1>1, <2>1, <2>2, WindowManagerDoes DEF WindowsInv, EventInv
<1> QED
  BY <1>7, <1>8, <1>9

-----------------------------------------------------------------------------
\* When nothing is under way.
LEMMA CallOver ==
  ASSUME ~ViceTwice', Due("hide")' /\ flags'[Main] = Shown => ViceQuiet'
  PROVE  CallInv(<<>>)'
<1>1. \A h : ~Does(<<>>, h)
  BY DEF Does
<1>2. ~VideoLeft(<<>>) /\ ~PanelLeft(<<>>) /\ Legal(<<>>)
  BY <1>1 DEF VideoLeft, PanelLeft, Legal
<1>3. Stage(<<>>)'
  BY <1>1, <1>2 DEF Stage, HidesVideo, ShowsVideo
<1>4. ShownTwice(<<>>)' /\ HiddenByUser(<<>>)' /\ Between(<<>>)'
  BY DEF ShownTwice, ViceTwice, HiddenByUser, Between
<1> QED
  BY <1>2, <1>3, <1>4 DEF CallInv

LEMMA AtRest ==
  ASSUME Settled
  PROVE  /\ \A w, x : ~Has(asked, w, x) /\ ~Twice(asked, w, x) /\ ~Has(events, w, x)
                      /\ ~Twice(events, w, x)
         /\ \A w, x, y : ~Followed(asked, w, x, y)
         /\ \A w : ~Again(asked, w)
         /\ ~Due("show") /\ ~Due("hide") /\ Ready /\ ViceQuiet /\ ~ViceTwice
<1>1. /\ \A w, x : ~Has(asked, w, x) /\ ~Twice(asked, w, x) /\ ~Has(events, w, x)
                   /\ ~Twice(events, w, x)
      /\ \A w, x, y : ~Followed(asked, w, x, y)
      /\ \A w : ~Again(asked, w)
  BY DEF Settled, Has, Twice, Followed, Again
<1>2. ~Due("show") /\ ~Due("hide")
  BY <1>1 DEF Due, Settled
<1>3. ViceQuiet /\ MainQuiet /\ ~ViceTwice
  BY <1>1, <1>2 DEF ViceQuiet, MainQuiet, ViceTwice, Asked, Told
<1> QED
  BY <1>1, <1>2, <1>3 DEF Ready, ViceClean

LEMMA TaskBarKeeps ==
  ASSUME WinTypeOK, WindowsInv, Settled, NEW w \in Win, TaskBar(w)
  PROVE  /\ WindowsInv' /\ CallInv(<<>>)'
         /\ events' \in Seq(News)
         /\ managed' \in [Win -> DOMAIN WmState] /\ mapped' \in [Win -> BOOLEAN]
<1>1. UNCHANGED <<asked, props, flags, event>>
  BY DEF TaskBar
<1>2. PICK to \in {"normal", "iconic"} :
        /\ to = "normal" => managed[w] = "iconic"
        /\ to = "iconic" => managed[w] = "normal" /\ mapped[w]
        /\ Manage(w, to)
  BY DEF TaskBar
<1>3. PICK X : Managed(w, to, X)
  BY <1>2, ManageDoes
<1>4. /\ \A v, x : ~Has(asked', v, x) /\ ~Twice(asked', v, x) /\ ~Has(events, v, x)
                   /\ ~Twice(events, v, x)
      /\ \A v, x, y : ~Followed(asked', v, x, y)
      /\ \A v : ~Again(asked', v)
      /\ event = {} /\ event' = {}
  BY <1>1, AtRest DEF Settled
<1>5. ~ViceTwice'
  BY <1>4 DEF ViceTwice
<1>6. \A v \in {Main, Vice} \ {w} :
        /\ Alike(Screen, Screen', v) /\ managed'[v] = managed[v]
  <2>1. ASSUME NEW v \in {Main, Vice} \ {w}
        PROVE  Alike(Screen, Screen', v) /\ managed'[v] = managed[v]
    <3>1. /\ \A y : Has(events', v, y) <=> Has(events, v, y)
          /\ \A y : Twice(events', v, y) <=> Twice(events, v, y)
          /\ managed'[v] = managed[v] /\ (mapped'[v] <=> mapped[v])
      BY <1>3, Windows3 DEF Managed, Adds
    <3> QED
      BY <1>1, <3>1 DEF Alike, Likewise, Screen
  <2> QED
    BY <2>1
<1>7. w # Main => MainStays
  BY <1>1, <1>6 DEF MainStays
<1>8. w # Vice => ViceStays
  BY <1>1, <1>6 DEF ViceStays, Alike, Screen
<1>9. EventInv'
  BY <1>4 DEF EventInv
<1>10. MainInv' /\ (Safe(Main) \/ Safe(Vice))' /\ (Due("hide")' => w = Main)
  <2>1. CASE w = Main
    <3>1. /\ managed'[Main] = to /\ (mapped'[Main] <=> to = "normal")
          /\ \A y : Has(events', Main, y) <=> y \in X
          /\ \A y : ~Twice(events', Main, y)
          /\ X = {"state", IF to = "normal" THEN "show" ELSE "hide"}
      <4>1. mapped[Main] <=> to = "iconic"
        BY <1>1, <1>2, <1>4, <2>1 DEF WindowsInv, MainInv
      <4> QED
        BY <1>3, <1>4, <2>1, <4>1 DEF Managed, Adds
    <3>2. Safe(Main)'
      BY <1>4, <3>1 DEF Safe
    <3>3. MainInv'
      BY <1>4, <3>1, <3>2 DEF MainInv, Asked, Due, Up
    <3> QED
      BY <2>1, <3>2, <3>3
  <2>2. CASE w # Main
    <3>1. MainInv' /\ (Safe(Main)' <=> Safe(Main)) /\ (Due("hide")' <=> Due("hide"))
      BY <1>7, <2>2, MainStaysDoes DEF WindowsInv
    <3>2. ~Due("hide")
      BY AtRest
    <3>3. Safe(Vice) => Safe(Vice)'
      <4>1. CASE w = Vice
        BY <1>3, <1>4, <4>1 DEF Safe, Managed
      <4>2. CASE w # Vice
        BY <1>8, <4>2, ViceStaysDoes
      <4> QED
        BY <4>1, <4>2
    <3> QED
      BY <3>1, <3>2, <3>3 DEF WindowsInv
  <2> QED
    BY <2>1, <2>2
<1>11. ViceInv' /\ (w = Main => ViceQuiet')
  <2>1. CASE w = Vice
    <3>1. /\ managed'[Vice] = to /\ (mapped'[Vice] <=> to = "normal")
          /\ \A y : Has(events', Vice, y) <=> y \in X
          /\ to = "normal" => "show" \in X
      <4>1. to = "normal" => ~mapped[Vice]
        BY <1>2, <2>1 DEF WindowsInv, ViceInv
      <4> QED
        BY <1>3, <1>4, <2>1, <4>1 DEF Managed, Adds
    <3> QED
      BY <1>4, <2>1, <3>1, Windows3 DEF ViceInv
  <2>2. CASE w # Vice
    <3>1. ViceStays /\ ViceQuiet
      BY <1>8, <2>2, AtRest
    <3> QED
      BY <3>1, ViceStaysDoes DEF WindowsInv
  <2> QED
    BY <2>1, <2>2
<1>12. CallInv(<<>>)'
  BY <1>5, <1>10, <1>11, CallOver
<1> QED
  BY <1>2, <1>9, <1>10, <1>11, <1>12, ManageDoes DEF WindowsInv

-----------------------------------------------------------------------------
\* The first event, x of w, is read.
Read(w, x) ==
  \A v \in {Main, Vice} : \A y :
    /\ Has(events, v, y) <=> Has(events', v, y) \/ (v = w /\ y = x)
    /\ Twice(events, v, y) <=> Twice(events', v, y) \/ (Has(events', v, y) /\ v = w /\ y = x)

LEMMA ReadEventDoes ==
  ASSUME WinTypeOK, ReadEvent
  PROVE  /\ events' \in Seq(News) /\ event' \in SUBSET News /\ EventInv'
         /\ props' \in [Win -> {Shown, Iconified, Hidden}]
         /\ \E w \in Win, x \in {"show", "hide", "state"} :
              /\ Read(w, x)
              /\ \A v \in Win \ {w} : props'[v] = props[v]
              /\ \/ x = "show" /\ props'[w] = Shown /\ event' = {<<w, "show">>}
                 \/ x = "state" /\ props'[w] = WmState[managed[w]] /\ event' = {}
                 \/ x = "hide" /\ props' = props /\ event' = {<<w, "hide">>}
<1> DEFINE e == Head(events)
           q == events
           p == events'
<1>1. q \in Seq(News) /\ q # <<>> /\ p = Tail(q)
  BY DEF WinTypeOK, ReadEvent
<1>2. e \in News /\ p \in Seq(News) /\ e = Head(q)
  BY <1>1
<1>3. /\ props \in [Win -> {Shown, Iconified, Hidden}]
      /\ managed \in [Win -> {"normal", "iconic", "withdrawn"}]
  BY DEF WinTypeOK, WmState
<1>4. /\ props' = CASE e[2] = "show"  -> [props EXCEPT ![e[1]] = Shown]
                    [] e[2] = "state" -> [props EXCEPT ![e[1]] = WmState[managed[e[1]]]]
                    [] e[2] = "hide"  -> props
      /\ event' = IF e[2] = "state" THEN {} ELSE {e}
  BY DEF ReadEvent
<1> HIDE DEF e, p, q
<1>5. PICK w \in Win, x \in {"show", "hide", "state"} : e = <<w, x>>
  BY <1>2 DEF News
<1>6. \A v, y : e = <<v, y>> <=> v = w /\ y = x
  BY <1>5
<1>7. ASSUME NEW v
      PROVE  /\ \A y : Has(q, v, y) <=> Has(p, v, y) \/ e = <<v, y>>
             /\ \A y : Twice(q, v, y) <=> Twice(p, v, y) \/ (Has(p, v, y) /\ e = <<v, y>>)
  BY <1>1, <1>2, Taken
<1>8. Read(w, x)
  <2>1. \A v, y : /\ Has(q, v, y) <=> Has(p, v, y) \/ (v = w /\ y = x)
                  /\ Twice(q, v, y) <=> Twice(p, v, y) \/ (Has(p, v, y) /\ v = w /\ y = x)
    BY <1>6, <1>7
  <2> QED
    BY <2>1 DEF Read, p, q
<1>9. /\ \/ x = "show" /\ props' = [props EXCEPT ![w] = Shown] /\ event' = {<<w, "show">>}
         \/ x = "state" /\ props' = [props EXCEPT ![w] = WmState[managed[w]]] /\ event' = {}
         \/ x = "hide" /\ props' = props /\ event' = {<<w, "hide">>}
  BY <1>4, <1>5
<1>10. WmState[managed[w]] \in {Shown, Iconified, Hidden}
  BY <1>3, States
<1>11. event' \in SUBSET News /\ EventInv'
  BY <1>2, <1>5, <1>9 DEF EventInv
<1>12. /\ props' \in [Win -> {Shown, Iconified, Hidden}]
       /\ \A v \in Win \ {w} : props'[v] = props[v]
       /\ x = "show" => props'[w] = Shown
       /\ x = "state" => props'[w] = WmState[managed[w]]
  BY <1>3, <1>9, <1>10
<1>13. /\ \/ x = "show" /\ props'[w] = Shown /\ event' = {<<w, "show">>}
          \/ x = "state" /\ props'[w] = WmState[managed[w]] /\ event' = {}
          \/ x = "hide" /\ props' = props /\ event' = {<<w, "hide">>}
  BY <1>9, <1>12
<1> QED
  BY <1>2, <1>8, <1>11, <1>12, <1>13 DEF p

LEMMA ReadEventKeeps ==
  ASSUME WinTypeOK, WindowsInv, NEW q, CallInv(q), ReadEvent
  PROVE  WindowsInv' /\ CallInv(q)'
<1>1. /\ UNCHANGED <<mapped, asked, flags, managed, show, root>> /\ event = {} /\ EventInv'
  BY ReadEventDoes DEF ReadEvent
<1>2. PICK w \in Win, x \in {"show", "hide", "state"} :
        /\ Read(w, x)
        /\ \A v \in Win \ {w} : props'[v] = props[v]
        /\ \/ x = "show" /\ props'[w] = Shown /\ event' = {<<w, "show">>}
           \/ x = "state" /\ props'[w] = WmState[managed[w]] /\ event' = {}
           \/ x = "hide" /\ props' = props /\ event' = {<<w, "hide">>}
  BY ReadEventDoes
<1>3. \A y : <<Main, y>> \in event' <=> w = Main /\ x = y /\ x # "state"
  BY <1>2
<1>4. w # Main => MainStays
  BY <1>1, <1>2, <1>3, Windows3 DEF Read, MainStays, Alike, Likewise, Screen
<1>5. w # Vice => ViceStays
  BY <1>1, <1>2, Windows3 DEF Read, ViceStays, Likewise, Screen
<1>6. CASE w = Main
  <2>1. /\ Has(events, Main, x) /\ ViceStays
        /\ \A y : Has(events, Main, y) <=> Has(events', Main, y) \/ y = x
        /\ \A y : Twice(events, Main, y) <=> Twice(events', Main, y) \/ (Has(events', Main, y) /\ y = x)
    BY <1>2, <1>5, <1>6, Windows3 DEF Read
  <2>2. ~MainQuiet /\ (Due(x) <=> TRUE)
    BY <2>1 DEF MainQuiet, Told, Due
  <2>3. \A y : Due(y)' <=> Has(events', Main, y) \/ (x = y /\ x # "state")
    BY <1>3, <1>6 DEF Due
  <2>4. Due("hide")' <=> Due("hide")
    BY <1>1, <2>1, <2>3 DEF Due
  <2>5. (Safe(Main)' <=> Safe(Main)) /\ (Up' <=> Up)
    BY <1>1 DEF Safe, Up, Asked
  <2>6. CASE x = "show"
    <3>1. ~Asked(asked, Main) /\ managed[Main] = "normal" /\ Up /\ Safe(Main) /\ ~Due("hide")
      BY <2>2, <2>6 DEF WindowsInv, MainInv, Up, Safe, Asked
    <3>2. props'[Main] = Shown
      BY <1>2, <1>6, <2>6
    <3>3. MainInv'
      BY <1>1, <1>3, <2>1, <2>3, <2>4, <2>5, <2>6, <3>1, <3>2, States
         DEF WindowsInv, MainInv, Asked, Due
    <3>4. HiddenByUser(q)' /\ Between(q)' /\ (Showing => Showing')
      BY <1>1, <2>4, <2>5, <3>1, <3>2 DEF HiddenByUser, Between, Showing
    <3> QED
      BY <1>1, <2>1, <2>2, <2>5, <3>3, <3>4, MainMoves
  <2>7. CASE x = "state"
    <3>1. ~Asked(asked, Main)
      BY <2>1, <2>7 DEF WindowsInv, MainInv
    <3>2. props'[Main] = WmState[managed[Main]]
      BY <1>2, <1>6, <2>7
    <3>3. /\ ~Safe(Main) => managed[Main] = "withdrawn" /\ flags[Main] = Hidden
          /\ Up <=> managed[Main] = "normal"
      BY <3>1 DEF WindowsInv, MainInv, Safe, Up, Asked
    <3>4. /\ props'[Main] = Shown <=> Up
          /\ ~Safe(Main) => props'[Main] = Hidden
      BY <3>2, <3>3, Values, States, Differ
    <3>5. \A y : Due(y)' => Due(y)
      BY <2>1, <2>3, <2>7 DEF Due
    <3>6. MainInv'
      BY <1>1, <1>3, <2>1, <2>3, <2>4, <2>5, <2>7, <3>1, <3>2, <3>3, <3>4, <3>5
         DEF WindowsInv, MainInv, Asked
    <3>7. ViceQuiet' <=> ViceQuiet
      BY <2>1, ViceStaysDoes
    <3>8. HiddenByUser(q)' /\ Between(q)' /\ (Showing => Showing')
      BY <1>1, <2>4, <2>5, <3>4, <3>7 DEF CallInv, HiddenByUser, Between, Showing
    <3> QED
      BY <1>1, <2>1, <2>2, <2>5, <3>6, <3>8, MainMoves
  <2>8. CASE x = "hide"
    <3>1. /\ ~Up /\ Due("hide") /\ ~Has(events', Main, "hide")
          /\ props' = props
      BY <1>2, <2>1, <2>2, <2>8 DEF WindowsInv, MainInv
    <3>2. /\ ~Has(asked, Main, "map") /\ ~Has(asked, Main, "iconify")
          /\ Due("show")' <=> Due("show")
      BY <1>1, <2>1, <2>3, <2>8, <3>1 DEF WindowsInv, MainInv, Due
    <3>3. MainInv'
      BY <1>1, <1>3, <2>1, <2>3, <2>4, <2>5, <2>8, <3>1, <3>2
         DEF WindowsInv, MainInv, Asked
    <3>4. ViceQuiet' <=> ViceQuiet
      BY <2>1, ViceStaysDoes
    <3>5. HiddenByUser(q)' /\ Between(q)' /\ ~Showing
      BY <1>1, <2>4, <2>5, <3>1, <3>4 DEF CallInv, HiddenByUser, Between, Showing
    <3> QED
      BY <1>1, <2>1, <2>2, <2>5, <3>3, <3>5, MainMoves
  <2> QED
    BY <2>6, <2>7, <2>8
<1>7. CASE w = Vice
  <2>1. /\ Has(events, Vice, x) /\ MainStays
        /\ \A y : Has(events, Vice, y) <=> Has(events', Vice, y) \/ y = x
    BY <1>2, <1>4, <1>7, Windows3 DEF Read
  <2>2. /\ ~ViceQuiet /\ (ViceTwice' <=> ViceTwice) /\ (Safe(Vice)' <=> Safe(Vice))
    BY <1>1, <2>1 DEF ViceQuiet, Told, ViceTwice, Safe
  <2>3. /\ x = "show" => props'[Vice] = Shown
        /\ x = "state" => props'[Vice] = WmState[managed[Vice]]
        /\ x = "hide" => props'[Vice] = props[Vice]
    BY <1>2, <1>7
  <2>4. ViceInv'
    BY <1>1, <2>1, <2>3, States DEF WindowsInv, ViceInv
  <2>5. ViceClean => ViceClean'
    BY <1>1, <2>1, <2>2, <2>3, States DEF ViceClean
  <2> QED
    BY <1>1, <2>1, <2>2, <2>4, <2>5, ViceMoves
<1>8. CASE w # Main /\ w # Vice
  <2>1. MainInv /\ ViceInv /\ (Safe(Main) \/ Safe(Vice))
    BY DEF WindowsInv
  <2> QED
    BY <1>1, <1>4, <1>5, <1>8, <2>1, BothStay DEF WindowsInv
<1> QED
  BY <1>6, <1>7, <1>8

-----------------------------------------------------------------------------
\* A call that has nothing more to do with the windows.
LEMMA OnlyEnding ==
  ASSUME NEW q \in Seq(Step), CallInv(q), ~MainQuiet, ~Showing, Up
  PROVE  Ending(q) /\ ~VideoLeft(q)
<1>1. ~Ready /\ ~VideoLeft(q) /\ ~PanelLeft(q) /\ Legal(q)
  BY DEF CallInv, Stage, Ready
<1>2. \A h \in Step \ {"end"} : ~Does(q, h)
  <2>1. /\ ~Does(q, "wantPanelToo") /\ ~Does(q, "focus") /\ ~Does(q, "focused")
        /\ ~Does(q, "toggleHelper")
    BY <1>1 DEF CallInv, Stage
  <2>2. /\ ~Does(q, "wantVideo") /\ ~Does(q, "wantPanel") /\ ~Does(q, "toggleVideo")
        /\ ~Does(q, "wantNoVideo") /\ ~Does(q, "showVideo") /\ ~Does(q, "hideVideo")
        /\ ~Does(q, "apply")
    BY <1>1 DEF VideoLeft
  <2>3. /\ ~Does(q, "wantNoPanel") /\ ~Does(q, "toggle") /\ ~Does(q, "raise") /\ ~Does(q, "look")
        /\ ~Does(q, "hide") /\ ~Does(q, "iconify")
    BY <1>1 DEF PanelLeft
  <2> QED
    BY <2>1, <2>2, <2>3 DEF Step
<1>3. CASE q = <<>>
  BY <1>1, <1>3 DEF Ending
<1>4. CASE q # <<>>
  <2>1. Head(q) \in Step /\ q = <<Head(q)>> \o Tail(q)
    BY <1>4
  <2>2. Does(q, "end")
    BY <1>2, <1>4, <2>1 DEF Does
  <2>3. q = <<"end">> \o <<>>
    BY <1>1, <2>1, <2>2 DEF Legal, Does
  <2>4. q = <<"end">>
    BY <2>3
  <2> QED
    BY <1>1, <2>4 DEF Ending, QEnd
<1> QED
  BY <1>3, <1>4

\* The panel is set to x, and was not asked to be shown twice.
LEMMA ViceSet ==
  ASSUME WindowsInv, ~ViceTwice, NEW x, Sets(Screen, Screen', Vice, x), UNCHANGED managed
  PROVE  ViceInv'
<1>1. \/ Likewise(Screen, Screen', Vice) /\ (props[Vice] = x \/ (x = Shown /\ mapped[Vice])
                                             \/ (x = Hidden /\ ~mapped[Vice]))
      \/ x = Shown /\ ~mapped[Vice] /\ AskedFor(Screen, Screen', Vice, "map")
      \/ AskedFor(Screen, Screen', Vice, "iconify")
      \/ mapped[Vice] /\ AskedFor(Screen, Screen', Vice, "unmapped")
  BY DEF Sets, Screen
<1>2. props'[Vice] = x
  BY DEF Sets, Screen
<1>3. CASE Likewise(Screen, Screen', Vice) /\ (props[Vice] = x \/ (x = Shown /\ mapped[Vice])
                                               \/ (x = Hidden /\ ~mapped[Vice]))
  BY <1>2, <1>3 DEF Likewise, Screen, WindowsInv, ViceInv
<1>4. CASE x = Shown /\ ~mapped[Vice] /\ AskedFor(Screen, Screen', Vice, "map")
  BY <1>2, <1>4 DEF AskedFor, Screen, WindowsInv, ViceInv
<1>5. CASE AskedFor(Screen, Screen', Vice, "iconify")
  BY <1>2, <1>5 DEF AskedFor, Screen, WindowsInv, ViceInv
<1>6. CASE mapped[Vice] /\ AskedFor(Screen, Screen', Vice, "unmapped")
  BY <1>2, <1>6 DEF AskedFor, Screen, WindowsInv, ViceInv, ViceTwice
<1> QED
  BY <1>1, <1>3, <1>4, <1>5, <1>6

LEMMA MainSeenKeeps ==
  ASSUME WinTypeOK, WindowsInv, NEW q \in Seq(Step), CallInv(q), NEW e, e \in event,
         e = <<Main, "show">> \/ e = <<Main, "hide">>,
         ~(e[2] = "show" <=> flags[Main] = Shown), event' = {},
         NEW x \in Flags, MainSeen(x), UNCHANGED <<managed, show, root>>
  PROVE  WindowsInv' /\ CallInv(q)'
<1>1. /\ ~MainQuiet /\ event = {e} /\ Due(e[2])
  BY DEF MainQuiet, Due, WindowsInv, EventInv
<1>2. /\ mapped'[Main] <=> mapped[Main]
      /\ Again(asked', Main) <=> Again(asked, Main)
      /\ \A y : Has(asked', Main, y) <=> Has(asked, Main, y)
      /\ \A y : Has(events', Main, y) <=> Has(events, Main, y)
      /\ \A y : Twice(events', Main, y) <=> Twice(events, Main, y)
      /\ props'[Main] = props[Main] /\ flags'[Main] = props[Main]
      /\ Sets(Screen, Screen', Vice, x)
  BY DEF MainSeen, Likewise, Screen
<1>3. /\ Safe(Main)' <=> Safe(Main)
      /\ Up' <=> Up
      /\ \A y : Due(y)' => Due(y)
  BY <1>2 DEF Safe, Up, Asked, Due
<1>4. Safe(Main) => MainInv' /\ EventInv'
  BY <1>2, <1>3 DEF WindowsInv, MainInv, EventInv, Asked
<1>5. CASE e = <<Main, "show">>
  <2>1. Due("show") /\ flags[Main] # Shown
    BY <1>1, <1>5
  <2>2. /\ Up /\ Safe(Main) /\ ~Due("hide") /\ props[Main] = Shown
    BY <1>1, <1>5, <2>1 DEF WindowsInv, MainInv, Up, Safe, Asked
  <2>3. ~Showing
    BY <2>1 DEF Showing
  <2>4. Ending(q) /\ ~VideoLeft(q)
    BY <1>1, <2>2, <2>3, OnlyEnding
  <2>5. Showing' /\ ~Due("hide")' /\ Up'
    BY <1>2, <1>3, <2>2 DEF Showing
  <2>6. ~ViceTwice
    BY <2>2, <2>3 DEF CallInv, ShownTwice, ViceTwice
  <2>7. ViceInv'
    BY <2>6, <1>2, ViceSet
  <2>8. \A h \in Step \ {"end"} : ~Does(q, h)
    BY <2>4, Tails DEF Ending, Does
  <2>9. ~PanelLeft(q) /\ \A h \in {"apply", "showVideo", "hideVideo", "wantPanelToo", "focus",
                                    "focused", "toggleHelper"} : ~Does(q, h)
    BY <2>8 DEF PanelLeft, Step
  <2>10. Stage(q)'
    BY <2>4, <2>9 DEF Stage, HidesVideo, ShowsVideo
  <2>11. ShownTwice(q)' /\ HiddenByUser(q)' /\ Between(q)'
    BY <2>4, <2>5 DEF ShownTwice, HiddenByUser, Between
  <2> QED
    BY <1>3, <1>4, <2>2, <2>7, <2>10, <2>11 DEF WindowsInv, CallInv
<1>6. CASE e = <<Main, "hide">>
  <2>1. Due("hide") /\ flags[Main] = Shown
    BY <1>1, <1>6
  <2>2. ViceQuiet /\ q = <<>>
    BY <2>1 DEF CallInv, HiddenByUser
  <2>3. Safe(Main) /\ ~Due("hide")'
    <3>1. Safe(Main)
      BY <2>1, Differ DEF WindowsInv, MainInv
    <3>2. ~Has(events, Main, "hide")
      BY <1>6 DEF WindowsInv, MainInv
    <3> QED
      BY <1>2, <3>1, <3>2 DEF Due
  <2>4. /\ ~Has(asked, Vice, "map") /\ ~Has(asked, Vice, "unmapped") /\ ~ViceTwice
        /\ ~ViceTwice'
    <3>1. ~Has(asked, Vice, "map") /\ ~Has(asked, Vice, "unmapped")
      BY <2>2 DEF ViceQuiet, Asked
    <3>2. ~Twice(asked, Vice, "map")
      BY <3>1 DEF Twice, Has
    <3>3. ~ViceTwice'
      BY <1>2, <3>1, <3>2 DEF Sets, Likewise, AskedFor, Screen, ViceTwice
    <3> QED
      BY <3>1, <3>2, <3>3 DEF ViceTwice
  <2>5. ViceInv'
    BY <1>2, <2>4, ViceSet
  <2>6. CallInv(<<>>)'
    BY <2>3, <2>4, CallOver
  <2> QED
    BY <1>3, <1>4, <2>2, <2>3, <2>5, <2>6 DEF WindowsInv
<1> QED
  BY <1>5, <1>6

LEMMA HandleEventKeeps ==
  ASSUME WinTypeOK, WindowsInv, NEW q \in Seq(Step), CallInv(q), HandleEvent
  PROVE  WindowsInv' /\ CallInv(q)' /\ Screen' \in Screens
<1>1. UNCHANGED <<managed, show, root>> /\ event' = {} /\ EventInv'
  BY DEF HandleEvent, EventInv
<1>2. PICK e \in event :
        \/ ~(e[2] = "show" <=> flags[e[1]] = Shown) /\ RefreshTree(e[1])
        \/ UNCHANGED screen
  BY DEF HandleEvent
<1>3. PICK w \in Win, x \in {"show", "hide"} : e = <<w, x>>
  BY DEF WinTypeOK, WindowsInv, EventInv, News
<1>4. event = {e}
  BY DEF WindowsInv, EventInv
<1>5. /\ w # Main => \A y : <<Main, y>> \notin event
      /\ <<Main, "show">> \notin event' /\ <<Main, "hide">> \notin event'
  BY <1>1, <1>3, <1>4
<1>6. MainInv /\ ViceInv /\ (Safe(Main) \/ Safe(Vice))
  BY DEF WindowsInv
<1>7. Screen \in Screens
  BY ScreenIs
<1>8. CASE UNCHANGED screen
  <2>1. /\ Alike(Screen, Screen', Main) /\ Alike(Screen, Screen', Vice)
        /\ Screen' = Screen /\ UNCHANGED <<mapped, asked, events, props, flags>>
    BY <1>8 DEF screen, Alike, Likewise, Screen
  <2>2. ViceStays
    BY <1>1, <2>1 DEF ViceStays, Alike, Screen
  <2>3. CASE w # Main
    <3>1. MainStays
      BY <1>1, <1>5, <2>1, <2>3 DEF MainStays
    <3> QED
      BY <1>1, <1>6, <1>7, <2>1, <2>2, <3>1, BothStay DEF WindowsInv
  <2>4. CASE w = Main
    <3>1. ~MainQuiet
      BY <1>3, <2>4 DEF MainQuiet, Due
    <3>2. (Safe(Main)' <=> Safe(Main)) /\ (Up' <=> Up) /\ (\A y : Due(y)' => Due(y))
      BY <1>1, <2>1 DEF Safe, Up, Asked, Due
    <3>3. MainInv'
      BY <1>1, <1>6, <2>1, <3>2 DEF MainInv, Asked
    <3>4. HiddenByUser(q)' /\ Between(q)' /\ (Showing => Showing')
      BY <2>1, <2>2, <3>2, ViceStaysDoes DEF CallInv, HiddenByUser, Between, Showing
    <3> QED
      BY <1>1, <1>7, <2>1, <2>2, <3>1, <3>2, <3>3, <3>4, MainMoves
  <2> QED
    BY <2>3, <2>4
<1>9. CASE ~(e[2] = "show" <=> flags[e[1]] = Shown) /\ RefreshTree(e[1])
  <2>1. CASE w = Main
    <3>1. PICK y \in Flags : MainSeen(y)
      BY <1>3, <1>9, <2>1, RefreshMainDoes
    <3>2. /\ e = <<Main, "show">> \/ e = <<Main, "hide">>
          /\ ~(e[2] = "show" <=> flags[Main] = Shown)
      BY <1>3, <1>9, <2>1
    <3>3. WindowsInv' /\ CallInv(q)'
      BY <1>1, <3>1, <3>2, MainSeenKeeps
    <3> QED
      BY <3>1, <3>3 DEF MainSeen
  <2>2. CASE w # Main
    <3>1. /\ Screen' \in Screens /\ Alike(Screen, Screen', Main)
          /\ Likewise(Screen, Screen', Vice) /\ Screen'.props[Vice] = Screen.props[Vice]
      <4>1. CASE w = Vice
        BY <1>3, <1>9, <4>1, RefreshViceDoes DEF ViceSeen
      <4>2. CASE w \in Helper
        <5>1. Shown \in Flags
          BY DEF Flags
        <5>2. Elsewhere
          BY <1>3, <1>9, <4>2, <5>1, HelperDoes
        <5> QED
          BY <5>2 DEF Elsewhere, Alike
      <4> QED
        BY <2>2, <4>1, <4>2 DEF Win
    <3>2. MainStays /\ ViceStays
      BY <1>1, <1>5, <2>2, <3>1 DEF MainStays, ViceStays, Screen
    <3> QED
      BY <1>1, <1>6, <3>1, <3>2, BothStay DEF WindowsInv
  <2> QED
    BY <2>1, <2>2
<1> QED
  BY <1>2, <1>8, <1>9

-----------------------------------------------------------------------------
(***************************************************************************)
(* What a thread does: the call in t is now r.                             *)
(***************************************************************************)
Moved(t) ==
  /\ WindowsInv' /\ Screen' \in Screens
  /\ \E r \in Seq(Step) : todo' = [todo EXCEPT ![t] = r] /\ CallInv(r)'

LEMMA DoingIs ==
  ASSUME WinTypeOK, NEW t \in Thread, NEW h, Doing(t, h)
  PROVE  /\ todo[t] \in Seq(Step) /\ Does(todo[t], h) /\ Tail(todo[t]) \in Seq(Step)
         /\ \A steps : Then(t, steps) => todo' = [todo EXCEPT ![t] = steps \o Tail(todo[t])]
         /\ Then(t, <<>>) => todo' = [todo EXCEPT ![t] = Tail(todo[t])]
<1>1. todo[t] \in Seq(Step) /\ todo[t] # <<>> /\ Does(todo[t], h)
  BY DEF WinTypeOK, Doing, Does
<1>2. Tail(todo[t]) \in Seq(Step) /\ <<>> \o Tail(todo[t]) = Tail(todo[t])
  BY <1>1
<1>3. \A steps : Then(t, steps) => todo' = [todo EXCEPT ![t] = steps \o Tail(todo[t])]
  BY DEF Then
<1> QED
  BY <1>1, <1>2, <1>3

LEMMA LooksType ==
  ASSUME WinTypeOK, NEW known, Looks(known)
  PROVE  Screen' \in Screens
BY DEF WinTypeOK, Looks, Screen, Screens, Flags

LEMMA Named ==
  /\ "look" \in Step /\ "focus" \in Step /\ "raise" \in Step /\ "hide" \in Step
  /\ "iconify" \in Step /\ "focused" \in Step /\ "showVideo" \in Step
  /\ "hideVideo" \in Step /\ "apply" \in Step /\ "toggle" \in Step
BY DEF Step

LEMMA StepThen ==
  ASSUME NEW q \in Seq(Step)
  PROVE  \A a \in Step : <<a>> \o q \in Seq(Step) /\ Does(<<a>> \o q, a) /\ Tail(<<a>> \o q) = q
<1>1. ASSUME NEW a \in Step
      PROVE  <<a>> \o q \in Seq(Step) /\ Does(<<a>> \o q, a) /\ Tail(<<a>> \o q) = q
  BY OneStep
<1> QED
  BY <1>1

LEMMA StepsThen ==
  ASSUME NEW q \in Seq(Step)
  PROVE  \A a, b \in Step : /\ <<a, b>> \o q \in Seq(Step) /\ Does(<<a, b>> \o q, a)
                            /\ Tail(<<a, b>> \o q) = <<b>> \o q
<1>1. ASSUME NEW a \in Step, NEW b \in Step
      PROVE  /\ <<a, b>> \o q \in Seq(Step) /\ Does(<<a, b>> \o q, a)
             /\ Tail(<<a, b>> \o q) = <<b>> \o q
  BY DEF Does
<1> QED
  BY <1>1

LEMMA ToggleMoves ==
  ASSUME WinTypeOK, WindowsInv, NEW t \in Thread, CallInv(todo[t]), Toggle(t)
  PROVE  Moved(t)
<1> DEFINE q == todo[t]
<1>1. /\ q \in Seq(Step) /\ Does(q, "toggle") /\ Tail(q) \in Seq(Step) /\ CallInv(q)
      /\ \A steps : Then(t, steps) => todo' = [todo EXCEPT ![t] = steps \o Tail(q)]
  BY DoingIs DEF Toggle
<1>2. /\ Becomes(SeePanel(Screen)) /\ UNCHANGED <<managed, event, show, root>>
      /\ Then(t, IF PanelVisible THEN <<"look", "focus">> ELSE <<"raise">>)
  BY DEF Toggle
<1> HIDE DEF q
<1>3. Screen' \in Screens
  BY <1>2, SeesDo, LooksType
<1>4. CASE PanelVisible
  <2>1. PICK r : r = <<"look", "focus">> \o Tail(q)
    OBVIOUS
  <2>2. r \in Seq(Step) /\ Does(r, "look") /\ Tail(r) = <<"focus">> \o Tail(q)
    BY <1>1, <2>1, StepsThen, Named
  <2>3. todo' = [todo EXCEPT ![t] = r]
    BY <1>1, <1>2, <1>4, <2>1
  <2> QED
    BY <1>1, <1>2, <1>3, <1>4, <2>2, <2>3, ToggleHides DEF Moved
<1>5. CASE ~PanelVisible
  <2>1. PICK r : r = <<"raise">> \o Tail(q)
    OBVIOUS
  <2>2. r \in Seq(Step) /\ Does(r, "raise") /\ Tail(r) = Tail(q)
    BY <1>1, <2>1, StepThen, Named
  <2>3. todo' = [todo EXCEPT ![t] = r]
    BY <1>1, <1>2, <1>5, <2>1
  <2> QED
    BY <1>1, <1>2, <1>3, <1>5, <2>2, <2>3, ToggleShows DEF Moved
<1> QED
  BY <1>4, <1>5

LEMMA LookAtVideoMoves ==
  ASSUME WinTypeOK, WindowsInv, NEW t \in Thread, CallInv(todo[t]), LookAtVideo(t)
  PROVE  Moved(t)
<1> DEFINE q == todo[t]
<1>1. /\ q \in Seq(Step) /\ Does(q, "look") /\ Tail(q) \in Seq(Step) /\ CallInv(q)
      /\ \A steps : Then(t, steps) => todo' = [todo EXCEPT ![t] = steps \o Tail(q)]
  BY DoingIs DEF LookAtVideo
<1>2. PICK a \in {"hide", "iconify"} : Then(t, <<a>>)
  BY DEF LookAtVideo
<1>3. SeesVideo(q)
  BY SeesDo DEF LookAtVideo, SeesVideo
<1> HIDE DEF q
<1>4. PICK r : r = <<a>> \o Tail(q)
  OBVIOUS
<1>5. /\ r \in Seq(Step) /\ Does(r, a) /\ Tail(r) = Tail(q)
      /\ todo' = [todo EXCEPT ![t] = r]
  BY <1>1, <1>2, <1>4, StepThen, Named
<1>6. Does(r, "hide") \/ Does(r, "iconify")
  BY <1>5
<1>7. WindowsInv' /\ CallInv(r)'
  BY <1>1, <1>3, <1>5, <1>6, LookAtVideoKeeps
<1> QED
  BY <1>3, <1>5, <1>7, LooksType DEF Moved, SeesVideo

LEMMA MovePanelMoves ==
  ASSUME WinTypeOK, WindowsInv, NEW t \in Thread, CallInv(todo[t]), MovePanel(t)
  PROVE  Moved(t)
<1> DEFINE q == todo[t]
<1>1. ASSUME NEW what, NEW new \in Flags, SetPanel(t, what, new)
      PROVE  /\ q \in Seq(Step) /\ Does(q, what) /\ Tail(q) \in Seq(Step) /\ CallInv(q)
             /\ todo' = [todo EXCEPT ![t] = Tail(q)]
             /\ UpdateTree(Vice, new) /\ UNCHANGED <<managed, event, show, root>>
             /\ Screen' \in Screens
  <2>1. Screen' \in Screens
    BY <1>1, UpdateViceDoes DEF SetPanel, ViceSeen
  <2> QED
    BY <1>1, <2>1, DoingIs DEF SetPanel
<1> HIDE DEF q
<1>2. CASE SetPanel(t, "hide", Hidden)
  <2>1. Hidden \in Flags /\ (Does(q, "hide") => HidesPanel(q, Hidden))
    BY DEF Flags, HidesPanel
  <2> QED
    BY <1>1, <1>2, <2>1, HidePanelKeeps DEF Moved
<1>3. CASE SetPanel(t, "iconify", Iconified)
  <2>1. Iconified \in Flags /\ (Does(q, "iconify") => HidesPanel(q, Iconified))
    BY DEF Flags, HidesPanel
  <2> QED
    BY <1>1, <1>3, <2>1, HidePanelKeeps DEF Moved
<1>4. CASE SetPanel(t, "raise", Shown)
  <2>1. Shown \in Flags
    BY DEF Flags
  <2> QED
    BY <1>1, <1>4, <2>1, RaisePanelKeeps DEF Moved
<1> QED
  BY <1>2, <1>3, <1>4 DEF MovePanel

LEMMA GrabFocusMoves ==
  ASSUME WinTypeOK, WindowsInv, NEW t \in Thread, CallInv(todo[t]), GrabFocus(t)
  PROVE  Moved(t)
<1> DEFINE q == todo[t]
<1>1. /\ q \in Seq(Step) /\ Does(q, "focus") /\ Tail(q) \in Seq(Step) /\ CallInv(q)
      /\ \A steps : Then(t, steps) => todo' = [todo EXCEPT ![t] = steps \o Tail(q)]
      /\ Then(t, <<>>) => todo' = [todo EXCEPT ![t] = Tail(q)]
  BY DoingIs DEF GrabFocus
<1>2. Then(t, <<>>) \/ (ShowNow = 2 /\ Then(t, <<"focused">>))
  BY DEF GrabFocus
<1>3. SeesVideo(q)
  BY SeesDo DEF GrabFocus, SeesVideo
<1> HIDE DEF q
<1>4. PICK r \in Seq(Step) :
        /\ todo' = [todo EXCEPT ![t] = r]
        /\ r = Tail(q) \/ (Does(r, "focused") /\ Tail(r) = Tail(q) /\ ShowNow = 2)
  <2>1. PICK r : r = <<"focused">> \o Tail(q)
    OBVIOUS
  <2>2. r \in Seq(Step) /\ Does(r, "focused") /\ Tail(r) = Tail(q)
    BY <1>1, <2>1, StepThen, Named
  <2> QED
    BY <1>1, <1>2, <2>1, <2>2
<1>5. WindowsInv' /\ CallInv(r)'
  BY <1>1, <1>3, <1>4, GrabFocusKeeps
<1> QED
  BY <1>3, <1>4, <1>5, LooksType DEF Moved, SeesVideo

LEMMA FocusedMoves ==
  ASSUME WinTypeOK, WindowsInv, NEW t \in Thread, CallInv(todo[t]), Focused(t)
  PROVE  Moved(t)
<1> DEFINE new == IF mapped[Main] THEN Shown ELSE Hidden
           s == [Screen EXCEPT !.props[Main] = Known(Screen, Main)]
<1>0. PICK q : q = todo[t]
  OBVIOUS
<1>1. /\ q \in Seq(Step) /\ Does(q, "focused") /\ CallInv(q)
      /\ todo' = [todo EXCEPT ![t] = Tail(q)] /\ Tail(q) \in Seq(Step)
  BY <1>0, DoingIs DEF Focused
<1>2. props[Main] # Iconified
  BY <1>1 DEF CallInv, Stage
<1>3. Screen \in Screens
  BY ScreenIs
<1>4. Known(Screen, Main) = new
  BY <1>2, <1>3, KnownIs, Windows3 DEF Screen
<1>5. s = [mapped |-> mapped, asked |-> asked, events |-> events,
           props |-> [props EXCEPT ![Main] = new], flags |-> flags]
  BY <1>4 DEF Screen
<1>6. new \in Flags
  BY DEF Flags
<1> HIDE DEF new
<1>7. s \in Screens /\ s.props[Main] = new
  <2>1. props \in [Win -> Flags]
    BY DEF WinTypeOK, Flags
  <2>2. [props EXCEPT ![Main] = new] \in [Win -> Flags] /\ [props EXCEPT ![Main] = new][Main] = new
    BY <1>6, <2>1, Windows3
  <2>3. /\ mapped \in [Win -> BOOLEAN] /\ asked \in Seq(Order) /\ events \in Seq(News)
        /\ flags \in [Win -> Flags]
    BY DEF WinTypeOK, Flags
  <2> HIDE DEF s
  <2> QED
    BY <1>5, <2>2, <2>3 DEF Screens
<1> HIDE DEF s
<1> DEFINE u == GetProps(s, Main)
<1>8. u \in Screens /\ Same(s, u) /\ u.props = s.props
      /\ u.flags = [s.flags EXCEPT ![Main] = s.props[Main]]
  BY <1>7, GetPropsDoes, Windows3
<1>9. /\ Becomes(u) /\ UNCHANGED <<managed, event, show, root>>
  BY DEF Focused, s
<1> HIDE DEF u
<1>10. /\ UNCHANGED <<mapped, asked, events>>
       /\ props' = [props EXCEPT ![Main] = new] /\ flags' = [flags EXCEPT ![Main] = new]
       /\ Screen' \in Screens
  <2>1. Screen' = u
    BY <1>8, <1>9, NowIs
  <2> QED
    BY <1>5, <1>7, <1>8, <1>9, <2>1 DEF Becomes, Same
<1>11. flags'[Main] = props'[Main]
  BY <1>10, Windows3 DEF WinTypeOK
<1>12. WindowsInv' /\ CallInv(Tail(q))'
  BY <1>1, <1>9, <1>10, <1>11, FocusedKeeps DEF new
<1> QED
  BY <1>1, <1>10, <1>12 DEF Moved

-----------------------------------------------------------------------------
LEMMA RootMoves ==
  ASSUME WinTypeOK, WindowsInv, NEW t \in Thread, CallInv(todo[t]),
         Doing(t, "toggleVideo") \/ Doing(t, "showVideo") \/ Doing(t, "hideVideo"),
         Then(t, <<>>), UNCHANGED <<screen, managed, event, show, root>>
  PROVE  Moved(t)
<1>1. PICK q : q = todo[t]
  OBVIOUS
<1>2. /\ q \in Seq(Step) /\ Tail(q) \in Seq(Step) /\ CallInv(q)
      /\ Does(q, "toggleVideo") \/ Does(q, "showVideo") \/ Does(q, "hideVideo")
      /\ todo' = [todo EXCEPT ![t] = Tail(q)]
  BY <1>1, DoingIs
<1>3. Screen' \in Screens
  <2>1. Screen' = Screen
    BY DEF screen, Screen
  <2> QED
    BY <2>1, ScreenIs
<1> QED
  BY <1>2, <1>3, RootKeeps DEF Moved

LEMMA ToggleVideoMoves ==
  ASSUME WinTypeOK, WindowsInv, NEW t \in Thread, CallInv(todo[t]), ToggleVideo(t)
  PROVE  Moved(t)
<1>1. CASE root
  BY <1>1, RootMoves DEF ToggleVideo
<1>2. CASE ~root
  <2>1. PICK q : q = todo[t]
    OBVIOUS
  <2>2. /\ q \in Seq(Step) /\ Does(q, "toggleVideo") /\ Tail(q) \in Seq(Step) /\ CallInv(q)
        /\ \A steps : Then(t, steps) => todo' = [todo EXCEPT ![t] = steps \o Tail(q)]
    BY <2>1, DoingIs DEF ToggleVideo
  <2>3. SeesVideo(q)
    BY <1>2, SeesDo DEF ToggleVideo, SeesVideo
  <2>4. PICK a \in {"showVideo", "hideVideo"} :
          Then(t, <<a>>) /\ (a = "showVideo" <=> ShowNow < 2)
    BY <1>2 DEF ToggleVideo
  <2>5. PICK r : r = <<a>> \o Tail(q)
    OBVIOUS
  <2>6. /\ r \in Seq(Step) /\ Does(r, a) /\ Tail(r) = Tail(q)
        /\ todo' = [todo EXCEPT ![t] = r]
    BY <2>2, <2>4, <2>5, StepThen, Named
  <2>7. IF ShowNow < 2 THEN Does(r, "showVideo") ELSE Does(r, "hideVideo")
    BY <2>4, <2>6
  <2>8. WindowsInv' /\ CallInv(r)'
    BY <1>2, <2>2, <2>3, <2>6, <2>7, ToggleVideoKeeps
  <2> QED
    BY <2>3, <2>6, <2>8, LooksType DEF Moved, SeesVideo
<1> QED
  BY <1>1, <1>2

LEMMA SetVideoMoves ==
  ASSUME WinTypeOK, WindowsInv, NEW t \in Thread, CallInv(todo[t]), SetVideo(t)
  PROVE  Moved(t)
<1>1. CASE root
  BY <1>1, RootMoves DEF SetVideo
<1>2. CASE ~root
  <2>1. PICK q : q = todo[t]
    OBVIOUS
  <2>2. /\ q \in Seq(Step) /\ Tail(q) \in Seq(Step) /\ CallInv(q)
        /\ Does(q, "showVideo") \/ Does(q, "hideVideo")
        /\ Does(q, "showVideo") <=> Doing(t, "showVideo")
        /\ \A steps : Then(t, steps) => todo' = [todo EXCEPT ![t] = steps \o Tail(q)]
    BY <2>1, DoingIs DEF SetVideo, Does, Doing
  <2>3. /\ UNCHANGED <<managed, event, root>> /\ Then(t, <<"apply">>)
        /\ show' = IF Does(q, "showVideo") THEN 2 ELSE IF PanelIsSomewhere THEN 0 ELSE 1
        /\ UNCHANGED screen \/ Becomes(SeePanel(Screen))
    BY <1>2, <2>2 DEF SetVideo
  <2>4. Looks(flags[Main])
    <3>1. UNCHANGED screen => Looks(flags[Main])
      BY DEF screen, Looks, WinTypeOK, Flags
    <3> QED
      BY <2>3, <3>1, SeesDo
  <2>5. PICK r : r = <<"apply">> \o Tail(q)
    OBVIOUS
  <2>6. /\ r \in Seq(Step) /\ Does(r, "apply") /\ Tail(r) = Tail(q)
        /\ todo' = [todo EXCEPT ![t] = r]
    BY <2>2, <2>3, <2>5, StepThen, Named
  <2>7. WindowsInv' /\ CallInv(r)'
    BY <1>2, <2>2, <2>3, <2>4, <2>6, SetVideoKeeps
  <2> QED
    BY <2>4, <2>6, <2>7, LooksType DEF Moved
<1> QED
  BY <1>1, <1>2

LEMMA ApplyMoves ==
  ASSUME WinTypeOK, WindowsInv, NEW t \in Thread, CallInv(todo[t]), Apply(t)
  PROVE  Moved(t)
<1>1. PICK q : q = todo[t]
  OBVIOUS
<1>2. /\ q \in Seq(Step) /\ Tail(q) \in Seq(Step) /\ CallInv(q) /\ Does(q, "apply")
      /\ todo' = [todo EXCEPT ![t] = Tail(q)]
  BY <1>1, DoingIs DEF Apply
<1>3. /\ UNCHANGED <<managed, event, show, root>>
      /\ UpdateTree(Main, CASE show = 2 -> Shown [] show = 1 -> Iconified [] show = 0 -> Hidden)
  BY DEF Apply
<1>4. WindowsInv' /\ CallInv(Tail(q))'
  BY <1>2, <1>3, ApplyKeeps
<1>5. Screen' \in Screens
  <2>1. (CASE show = 2 -> Shown [] show = 1 -> Iconified [] show = 0 -> Hidden) \in Flags
    BY Values DEF Flags
  <2> QED
    BY <1>3, <2>1, UpdateMainDoes DEF MainSeen, MainTold, MainSet
<1> QED
  BY <1>2, <1>4, <1>5 DEF Moved

LEMMA AutoStepMoves ==
  ASSUME WinTypeOK, WindowsInv, NEW t \in Thread, CallInv(todo[t]), AutoStep(t)
  PROVE  Moved(t)
<1>1. PICK q : q = todo[t]
  OBVIOUS
<1>2. ASSUME NEW h, NEW c \in BOOLEAN, NEW a \in Step, Doing(t, h), Then(t, When(c, a))
      PROVE  /\ q \in Seq(Step) /\ CallInv(q) /\ Does(q, h)
             /\ \E r \in Seq(Step) : /\ todo' = [todo EXCEPT ![t] = r]
                                     /\ r = Tail(q) \/ (Does(r, a) /\ Tail(r) = Tail(q) /\ c)
  <2>1. /\ q \in Seq(Step) /\ Does(q, h) /\ Tail(q) \in Seq(Step) /\ CallInv(q)
        /\ \A steps : Then(t, steps) => todo' = [todo EXCEPT ![t] = steps \o Tail(q)]
        /\ Then(t, <<>>) => todo' = [todo EXCEPT ![t] = Tail(q)]
    BY <1>1, <1>2, DoingIs
  <2>2. Then(t, <<>>) \/ (c /\ Then(t, <<a>>))
    BY <1>2 DEF When
  <2>3. PICK r : r = <<a>> \o Tail(q)
    OBVIOUS
  <2>4. r \in Seq(Step) /\ Does(r, a) /\ Tail(r) = Tail(q)
    BY <2>1, <2>3, StepThen
  <2> QED
    BY <2>1, <2>2, <2>3, <2>4
<1>3. ASSUME NEW h, NEW seen \in {SeeVideo(Screen), SeeBoth}, NEW steps, IfVideo(t, h, seen, steps)
      PROVE  Doing(t, h) /\ Then(t, steps) /\ SeesVideo(q) /\ Screen' \in Screens
  <2>1. Becomes(SeeVideo(Screen)) \/ Becomes(SeePanel(SeeVideo(Screen)))
    BY <1>3 DEF IfVideo, SeeBoth
  <2>2. SeesVideo(q)
    BY <1>3, <2>1, SeesDo DEF IfVideo, SeesVideo
  <2> QED
    BY <1>3, <2>2, LooksType DEF IfVideo, SeesVideo
<1>4. CASE IfVideo(t, "wantVideo", SeeVideo(Screen), When(ShowNow < 2, "showVideo"))
  <2>1. /\ Doing(t, "wantVideo") /\ Then(t, When(ShowNow < 2, "showVideo"))
        /\ SeesVideo(q) /\ Screen' \in Screens
    BY <1>3, <1>4
  <2>2. PICK c \in BOOLEAN : (c <=> (ShowNow < 2)) /\ When(ShowNow < 2, "showVideo") = When(c, "showVideo")
    BY DEF When
  <2>3. /\ q \in Seq(Step) /\ CallInv(q) /\ Does(q, "wantVideo")
        /\ \E r \in Seq(Step) :
             /\ todo' = [todo EXCEPT ![t] = r]
             /\ r = Tail(q) \/ (Does(r, "showVideo") /\ Tail(r) = Tail(q) /\ ShowNow < 2)
    BY <1>2, <2>1, <2>2, Named
  <2> QED
    BY <2>1, <2>3, WantVideoKeeps DEF Moved
<1>5. CASE IfVideo(t, "wantNoVideo", SeeVideo(Screen), When(ShowNow = 2, "hideVideo"))
  <2>1. /\ Doing(t, "wantNoVideo") /\ Then(t, When(ShowNow = 2, "hideVideo"))
        /\ SeesVideo(q) /\ Screen' \in Screens
    BY <1>3, <1>5
  <2>2. PICK c \in BOOLEAN : (c <=> (ShowNow = 2)) /\ When(ShowNow = 2, "hideVideo") = When(c, "hideVideo")
    BY DEF When
  <2>3. /\ q \in Seq(Step) /\ CallInv(q) /\ Does(q, "wantNoVideo")
        /\ \E r \in Seq(Step) :
             /\ todo' = [todo EXCEPT ![t] = r]
             /\ r = Tail(q) \/ (Does(r, "hideVideo") /\ Tail(r) = Tail(q) /\ ShowNow = 2)
    BY <1>2, <2>1, <2>2, Named
  <2> QED
    BY <2>1, <2>3, WantNoVideoKeeps DEF Moved
<1>6. CASE IfVideo(t, "wantNoPanel", SeeBoth, When(ShowNow = 2 /\ PanelVisible, "toggle"))
  <2>1. /\ Doing(t, "wantNoPanel") /\ Then(t, When(ShowNow = 2 /\ PanelVisible, "toggle"))
        /\ SeesVideo(q) /\ Screen' \in Screens
    BY <1>3, <1>6
  <2>2. PICK c \in BOOLEAN : (c <=> (ShowNow = 2 /\ PanelVisible)) /\ When(ShowNow = 2 /\ PanelVisible, "toggle") = When(c, "toggle")
    BY DEF When
  <2>3. /\ q \in Seq(Step) /\ CallInv(q) /\ Does(q, "wantNoPanel")
        /\ \E r \in Seq(Step) :
             /\ todo' = [todo EXCEPT ![t] = r]
             /\ r = Tail(q) \/ (Does(r, "toggle") /\ Tail(r) = Tail(q) /\ ShowNow = 2 /\ PanelVisible)
    BY <1>2, <2>1, <2>2, Named
  <2> QED
    BY <2>1, <2>3, WantPanelLastKeeps DEF Moved
<1>7. CASE IfPanel(t, "wantPanel", When(~PanelVisible, "toggle"))
  <2>1. Doing(t, "wantPanel") /\ Then(t, When(~PanelVisible, "toggle")) /\ SeesPanel(q)
    BY <1>7, SeesDo DEF IfPanel, SeesPanel
  <2>2. Screen' \in Screens
    BY <2>1, LooksType DEF SeesPanel
  <2>3. PICK c \in BOOLEAN : (c <=> (~PanelVisible)) /\ When(~PanelVisible, "toggle") = When(c, "toggle")
    BY DEF When
  <2>4. /\ q \in Seq(Step) /\ CallInv(q) /\ Does(q, "wantPanel")
        /\ \E r \in Seq(Step) :
             /\ todo' = [todo EXCEPT ![t] = r]
             /\ r = Tail(q) \/ (Does(r, "toggle") /\ Tail(r) = Tail(q) /\ ~PanelVisible)
    BY <1>2, <2>1, <2>3, Named
  <2> QED
    BY <2>1, <2>2, <2>4, WantPanelKeeps DEF Moved
<1>8. CASE IfVideo(t, "wantPanelToo", SeeBoth, When(ShowNow = 2 /\ ~PanelVisible, "toggle"))
  <2>1. /\ Doing(t, "wantPanelToo") /\ Then(t, When(ShowNow = 2 /\ ~PanelVisible, "toggle"))
        /\ SeesVideo(q) /\ Screen' \in Screens
    BY <1>3, <1>8
  <2>2. PICK c \in BOOLEAN : (c <=> (ShowNow = 2 /\ ~PanelVisible)) /\ When(ShowNow = 2 /\ ~PanelVisible, "toggle") = When(c, "toggle")
    BY DEF When
  <2>3. /\ q \in Seq(Step) /\ CallInv(q) /\ Does(q, "wantPanelToo")
        /\ \E r \in Seq(Step) :
             /\ todo' = [todo EXCEPT ![t] = r]
             /\ r = Tail(q) \/ (Does(r, "toggle") /\ Tail(r) = Tail(q) /\ ShowNow = 2 /\ ~PanelVisible)
    BY <1>2, <2>1, <2>2, Named
  <2> QED
    BY <2>1, <2>3, WantPanelLastKeeps DEF Moved
<1> QED
  BY <1>4, <1>5, <1>6, <1>7, <1>8 DEF AutoStep

LEMMA ToggleHelperMoves ==
  ASSUME WinTypeOK, WindowsInv, CallInv(todo[Gui]), NEW h \in Helper, ToggleHelper(h)
  PROVE  Moved(Gui) /\ wanted' \subseteq Helper
<1>1. PICK q : q = todo[Gui]
  OBVIOUS
<1>2. /\ q \in Seq(Step) /\ Tail(q) \in Seq(Step) /\ CallInv(q) /\ Does(q, "toggleHelper")
      /\ todo' = [todo EXCEPT ![Gui] = Tail(q)]
  BY <1>1, DoingIs DEF ToggleHelper, Thread
<1>3. /\ Becomes(GetProps(Screen, h)) \/ \E new \in Flags : UpdateTree(h, new)
      /\ UNCHANGED <<managed, event, show, root>> /\ wanted' \subseteq Helper
  BY DEF ToggleHelper, Flags, WinTypeOK
<1>4. Elsewhere
  BY <1>3, HelperDoes DEF Flags
<1>5. WindowsInv' /\ CallInv(Tail(q))'
  BY <1>2, <1>3, <1>4, ElsewhereKeeps
<1> QED
  BY <1>2, <1>3, <1>4, <1>5 DEF Moved, Elsewhere

LEMMA EventEndsMoves ==
  ASSUME WinTypeOK, WindowsInv, CallInv(todo[Gui]), EventEnds
  PROVE  Moved(Gui)
<1>1. PICK q : q = todo[Gui]
  OBVIOUS
<1>2. /\ q \in Seq(Step) /\ Tail(q) \in Seq(Step) /\ CallInv(q) /\ Does(q, "end")
      /\ todo' = [todo EXCEPT ![Gui] = Tail(q)]
  BY <1>1, DoingIs DEF EventEnds, Thread
<1>3. UNCHANGED <<screen, managed, event, show, root>>
  BY DEF EventEnds
<1>4. WindowsInv' /\ CallInv(Tail(q))'
  BY <1>2, <1>3, EndKeeps
<1>5. Screen' \in Screens
  <2>1. Screen' = Screen
    BY <1>3 DEF screen, Screen
  <2> QED
    BY <2>1, ScreenIs
<1> QED
  BY <1>2, <1>4, <1>5 DEF Moved

-----------------------------------------------------------------------------
\* What a call may begin with.
Begins(r) ==
  \/ r \in {<<>>, QNoPanel, QPanelToo}
  \/ Does(r, "wantVideo") /\ Tail(r) \in {<<>>, QNoPanel}
  \/ Does(r, "wantPanel") /\ Video(Tail(r))
  \/ Does(r, "toggle") /\ Tail(r) = QEnd
  \/ Does(r, "toggleVideo") /\ Tail(r) = QEnd
  \/ Does(r, "toggleHelper") /\ Tail(r) = QEnd

LEMMA StartKeeps ==
  ASSUME WinTypeOK, WindowsInv, Settled, UNCHANGED <<screen, managed, event, show, root>>,
         NEW r \in Seq(Step), Begins(r)
  PROVE  WindowsInv' /\ CallInv(r)'
<1>1. UNCHANGED <<mapped, asked, events, props, flags, managed, event, show, root>>
  BY DEF screen
<1>2. WindowsInv'
  BY <1>1 DEF WindowsInv, EventInv, MainInv, ViceInv, Safe, Up, Asked, Due
<1>3. /\ Ready /\ ViceQuiet /\ MainQuiet /\ ~Due("hide") /\ ~ViceTwice
      /\ \A x : ~Has(asked, Main, x) /\ ~Has(events, Main, x)
  BY AtRest DEF Ready
<1>4. props[Main] = Shown => Up
  <2>1. props[Main] = WmState[managed[Main]] /\ ~Asked(asked, Main)
    BY <1>3 DEF WindowsInv, MainInv, Asked
  <2> QED
    BY <2>1, Values, States, Differ DEF Up
<1>5. /\ ~HidesVideo(r)' /\ ~ShowsVideo(r)' /\ Legal(r)
      /\ ~Does(r, "apply") /\ ~Does(r, "focus") /\ ~Does(r, "focused")
      /\ Does(r, "toggle") => ~VideoLeft(r)
  BY Tails DEF Begins, Does, Legal, HidesVideo, ShowsVideo, Video, Ending, VideoLeft
<1>6. (Ready /\ ViceQuiet /\ MainQuiet)'
  BY <1>1, <1>3 DEF Ready, MainQuiet, ViceClean, ViceQuiet, Asked, Told, Due
<1>7. Stage(r)'
  BY <1>5, <1>6 DEF Stage
<1>8. ShownTwice(r)' /\ HiddenByUser(r)' /\ Between(r)'
  BY <1>1, <1>3, <1>4 DEF ShownTwice, ViceTwice, HiddenByUser, Between, Due, Up, Asked
<1> QED
  BY <1>2, <1>5, <1>7, <1>8 DEF CallInv

LEMMA EntryBegins ==
  ASSUME NEW hasVideo \in BOOLEAN, NEW vo \in BOOLEAN, NEW panel \in BOOLEAN
  PROVE  LET r == IF hasVideo
                  THEN When(vo, "wantVideo") \o When(panel, "wantNoPanel")
                  ELSE (IF vo THEN <<"wantPanel", "wantNoVideo">> ELSE <<>>)
                       \o When(panel, "wantPanelToo")
         IN  r \in Seq(Step) /\ Begins(r)
<1>1. /\ "wantVideo" \in Step /\ "wantNoPanel" \in Step /\ "wantPanel" \in Step
      /\ "wantNoVideo" \in Step /\ "wantPanelToo" \in Step
  BY DEF Step
<1>2. /\ When(TRUE, "wantVideo") = <<"wantVideo">> /\ When(FALSE, "wantVideo") = <<>>
      /\ When(TRUE, "wantNoPanel") = QNoPanel /\ When(FALSE, "wantNoPanel") = <<>>
      /\ When(TRUE, "wantPanelToo") = QPanelToo /\ When(FALSE, "wantPanelToo") = <<>>
  BY DEF When, QNoPanel, QPanelToo
<1>3. /\ QNoPanel \in Seq(Step) /\ QPanelToo \in Seq(Step) /\ <<>> \in Seq(Step)
  BY Tails
<1>4. /\ <<>> \o QNoPanel = QNoPanel /\ <<>> \o QPanelToo = QPanelToo /\ <<>> \o <<>> = <<>>
  BY <1>3
<1>5. ASSUME NEW p \in {<<>>, QNoPanel}
      PROVE  <<"wantVideo">> \o p \in Seq(Step) /\ Begins(<<"wantVideo">> \o p)
  BY <1>1, <1>3, StepThen DEF Begins
<1>6. ASSUME NEW p \in {<<>>, QPanelToo}
      PROVE  /\ <<"wantPanel", "wantNoVideo">> \o p \in Seq(Step)
             /\ Begins(<<"wantPanel", "wantNoVideo">> \o p)
  <2>1. /\ <<"wantPanel", "wantNoVideo">> \o p \in Seq(Step)
        /\ Does(<<"wantPanel", "wantNoVideo">> \o p, "wantPanel")
        /\ Tail(<<"wantPanel", "wantNoVideo">> \o p) = <<"wantNoVideo">> \o p
    BY <1>1, <1>3, StepsThen
  <2>2. <<"wantNoVideo">> \o <<>> = <<"wantNoVideo">>
    OBVIOUS
  <2>3. Video(<<"wantNoVideo">> \o p)
    BY <2>2 DEF Video, QNoVideo, QNoVideoToo
  <2> QED
    BY <2>1, <2>3 DEF Begins
<1>7. Begins(<<>>) /\ Begins(QNoPanel) /\ Begins(QPanelToo)
  BY DEF Begins
<1>8. CASE hasVideo = TRUE
  BY <1>2, <1>3, <1>4, <1>5, <1>7, <1>8
<1>9. CASE hasVideo = FALSE
  BY <1>2, <1>3, <1>4, <1>6, <1>7, <1>9
<1> QED
  BY <1>8, <1>9

LEMMA CommandBegins ==
  ASSUME NEW a \in {"toggle", "toggleVideo", "toggleHelper"}
  PROVE  <<a, "end">> \in Seq(Step) /\ Begins(<<a, "end">>)
<1>1. <<"end">> \in Seq(Step) /\ a \in Step
  BY DEF Step
<1>2. <<a, "end">> = <<a>> \o <<"end">>
  OBVIOUS
<1>3. /\ <<a, "end">> \in Seq(Step) /\ Does(<<a, "end">>, a)
      /\ Tail(<<a, "end">>) = <<"end">>
  BY <1>1, <1>2, StepThen
<1> QED
  BY <1>3 DEF Begins, QEnd

-----------------------------------------------------------------------------
(***************************************************************************)
(* The threads: all but one are not in a call.                             *)
(***************************************************************************)
LEMMA InCall ==
  ASSUME WinTypeOK, OneCall, NEW t \in Thread, todo[t] # <<>>
  PROVE  CallInv(todo[t]) /\ \A u \in Thread \ {t} : todo[u] = <<>>
BY DEF OneCall

LEMMA AnyCall ==
  ASSUME WinTypeOK, OneCall
  PROVE  \E q \in Seq(Step) : /\ CallInv(q)
                              /\ todo' = todo /\ CallInv(q)' => OneCall'
<1>1. PICK t \in Thread : (\A u \in Thread \ {t} : todo[u] = <<>>) /\ CallInv(todo[t])
  BY DEF OneCall
<1>2. PICK q : q = todo[t]
  OBVIOUS
<1>3. q \in Seq(Step) /\ CallInv(q)
  BY <1>1, <1>2 DEF WinTypeOK
<1>4. ASSUME todo' = todo, CallInv(q)' PROVE OneCall'
  <2>1. todo'[t] = q /\ \A u \in Thread \ {t} : todo'[u] = <<>>
    BY <1>1, <1>2, <1>4
  <2> QED
    BY <1>4, <2>1 DEF OneCall
<1> QED
  BY <1>3, <1>4

LEMMA CallGoesOn ==
  ASSUME WinTypeOK, NEW t \in Thread, \A u \in Thread \ {t} : todo[u] = <<>>, Moved(t)
  PROVE  OneCall' /\ todo' \in [Thread -> Seq(Step)]
<1>1. PICK r \in Seq(Step) : todo' = [todo EXCEPT ![t] = r] /\ CallInv(r)'
  BY DEF Moved
<1>2. /\ todo' \in [Thread -> Seq(Step)] /\ todo'[t] = r
      /\ \A u \in Thread \ {t} : todo'[u] = <<>>
  BY <1>1 DEF WinTypeOK
<1> QED
  BY <1>1, <1>2 DEF OneCall

-----------------------------------------------------------------------------
(***************************************************************************)
(* The types of what is not on the screen, and the theorems.               *)
(***************************************************************************)
RestOK ==
  /\ show \in 0 .. 2 /\ wanted \subseteq Helper /\ root \in Roots
  /\ xitk \in Thread \cup {Nobody} /\ vwin \in Thread \cup {Nobody}
  /\ calls \in 0 .. MaxCalls /\ clicks \in 0 .. MaxTaskBar

LEMMA TypeParts ==
  /\ WinTypeOK <=> /\ Screen \in Screens /\ managed \in [Win -> DOMAIN WmState]
                   /\ event \in SUBSET News /\ todo \in [Thread -> Seq(Step)] /\ RestOK
  /\ WinTypeOK' <=> /\ Screen' \in Screens /\ managed' \in [Win -> DOMAIN WmState]
                    /\ event' \in SUBSET News /\ todo' \in [Thread -> Seq(Step)] /\ RestOK'
BY DEF WinTypeOK, Screen, Screens, RestOK, Flags

LEMMA WorkRest ==
  ASSUME WinTypeOK, NEW t \in Thread, Work(t)
  PROVE  RestOK' /\ UNCHANGED <<managed, event>>
<1> USE DEF WinTypeOK, RestOK
<1>1. ShowNow \in 0 .. 2
  BY DEF ShowNow
<1>2. CASE Toggle(t)
  BY <1>2 DEF Toggle
<1>3. CASE LookAtVideo(t)
  BY <1>1, <1>3 DEF LookAtVideo
<1>4. CASE MovePanel(t)
  BY <1>4 DEF MovePanel, SetPanel
<1>5. CASE GrabFocus(t)
  BY <1>1, <1>5 DEF GrabFocus
<1>6. CASE Focused(t)
  BY <1>6 DEF Focused
<1>7. CASE ToggleVideo(t)
  BY <1>1, <1>7 DEF ToggleVideo
<1>8. CASE SetVideo(t)
  BY <1>8 DEF SetVideo
<1>9. CASE Apply(t)
  BY <1>9 DEF Apply
<1>10. CASE AutoStep(t)
  <2>1. /\ UNCHANGED <<managed, event, wanted, root, xitk, vwin, calls, clicks>>
        /\ show' \in {show, ShowNow}
    BY <1>10 DEF AutoStep, IfVideo, IfPanel
  <2> QED
    BY <1>1, <2>1
<1> QED
  BY <1>2, <1>3, <1>4, <1>5, <1>6, <1>7, <1>8, <1>9, <1>10 DEF Work

LEMMA WorkMoves ==
  ASSUME WinTypeOK, WindowsInv, NEW t \in Thread, CallInv(todo[t]), Work(t)
  PROVE  Moved(t)
BY ToggleMoves, LookAtVideoMoves, MovePanelMoves, GrabFocusMoves, FocusedMoves,
   ToggleVideoMoves, SetVideoMoves, ApplyMoves, AutoStepMoves DEF Work

LEMMA Busy ==
  ASSUME NEW t \in Thread, Work(t)
  PROVE  todo[t] # <<>>
BY DEF Work, Toggle, LookAtVideo, MovePanel, SetPanel, GrabFocus, Focused, ToggleVideo, SetVideo,
       Apply, AutoStep, IfVideo, IfPanel, Doing

(***************************************************************************)
(* The inductive invariant: what is known and what is under way of each    *)
(* window (WindowsInv), and what the one call that may be in progress has  *)
(* seen of them and is still going to do (OneCall).                        *)
(***************************************************************************)
IWin == WinTypeOK /\ WindowsInv /\ OneCall

LEMMA WinInitOK == WinInit => IWin
<1> SUFFICES ASSUME WinInit PROVE IWin
  OBVIOUS
<1>1. PICK up \in {{Main}, {Vice}, {Main, Vice}}, hs \in SUBSET Helper :
        mapped = [w \in Win |-> w \in up \cup hs] /\ wanted = hs
  BY DEF WinInit
<1>2. /\ managed = [w \in Win |-> IF mapped[w] THEN "normal" ELSE "withdrawn"]
      /\ props = [w \in Win |-> IF mapped[w] THEN Shown ELSE Hidden]
      /\ flags = props /\ asked = <<>> /\ events = <<>> /\ event = {}
      /\ todo = [t \in Thread |-> <<>>] /\ root \in Roots
      /\ show = IF mapped[Main] THEN 2 ELSE 0
      /\ xitk = Nobody /\ vwin = Nobody /\ calls = MaxCalls /\ clicks = MaxTaskBar
  BY DEF WinInit
<1>3. Settled
  BY <1>2 DEF Settled
<1>4. WinTypeOK
  <2>1. mapped \in [Win -> BOOLEAN]
    BY <1>1
  <2>2. managed \in [Win -> DOMAIN WmState]
    BY <1>2 DEF WmState
  <2>3. props \in [Win -> {Shown, Iconified, Hidden}] /\ flags \in [Win -> {Shown, Iconified, Hidden}]
    BY <1>2
  <2>4. /\ asked \in Seq(Order) /\ events \in Seq(News) /\ event \in SUBSET News
        /\ todo \in [Thread -> Seq(Step)]
    BY <1>2
  <2> QED
    BY <1>1, <1>2, <2>1, <2>2, <2>3, <2>4, WindowsAssumption DEF WinTypeOK
<1>5. WindowsInv
  <2>1. /\ mapped[Main] <=> managed[Main] = "normal"
        /\ mapped[Main] \/ managed[Main] = "withdrawn"
        /\ mapped[Vice] <=> managed[Vice] = "normal"
        /\ props[Main] = WmState[managed[Main]] /\ flags[Main] = props[Main]
        /\ mapped[Vice] => props[Vice] = Shown
        /\ ~mapped[Main] => props[Main] = Hidden
        /\ mapped[Main] \/ mapped[Vice]
    BY <1>1, <1>2, Windows3, States
  <2>2. /\ \A w, x : ~Has(asked, w, x) /\ ~Has(events, w, x) /\ ~Twice(events, w, x)
        /\ \A w, x, y : ~Followed(asked, w, x, y)
        /\ \A w : ~Again(asked, w)
        /\ ~Due("show") /\ ~Due("hide") /\ event = {}
    BY <1>2, <1>3, AtRest
  <2>3. MainInv
    BY <2>1, <2>2 DEF MainInv, Asked, Safe
  <2>4. ViceInv
    BY <2>1, <2>2 DEF ViceInv
  <2>5. Safe(Main) \/ Safe(Vice)
    BY <2>1, <2>2 DEF Safe
  <2> QED
    BY <2>2, <2>3, <2>4, <2>5 DEF WindowsInv, EventInv
<1>6. OneCall
  <2>1. Gui \in Thread /\ \A t \in Thread : todo[t] = <<>>
    BY <1>2 DEF Thread
  <2>2. \A h : ~Does(<<>>, h)
    BY DEF Does
  <2>3. ~VideoLeft(<<>>) /\ ~PanelLeft(<<>>) /\ Legal(<<>>)
    BY <2>2 DEF VideoLeft, PanelLeft, Legal
  <2>4. CallInv(<<>>)
    BY <1>3, <2>2, <2>3, AtRest
       DEF CallInv, Stage, HidesVideo, ShowsVideo, ShownTwice, ViceTwice, HiddenByUser, Between
  <2> QED
    BY <2>1, <2>4 DEF OneCall
<1> QED
  BY <1>4, <1>5, <1>6 DEF IWin

LEMMA StartMoves ==
  ASSUME IWin, Patient, NEW t \in Thread, NEW r \in Seq(Step), Begins(r), Start(t, r),
         UNCHANGED <<screen, managed, event, show, wanted, root, vwin, clicks>>,
         xitk' \in Thread \cup {Nobody}
  PROVE  IWin'
<1>1. /\ Settled /\ todo' = [todo EXCEPT ![t] = r] /\ calls > 0 /\ calls' = calls - 1
  BY DEF Start, InTime
<1>2. WindowsInv' /\ CallInv(r)'
  BY <1>1, StartKeeps DEF IWin
<1>3. Screen' \in Screens
  <2>1. Screen' = Screen
    BY DEF screen, Screen
  <2> QED
    BY <2>1, ScreenIs DEF IWin
<1>4. Moved(t)
  BY <1>1, <1>2, <1>3 DEF Moved
<1>5. OneCall' /\ todo' \in [Thread -> Seq(Step)]
  BY <1>1, <1>4, CallGoesOn DEF IWin, Settled
<1>6. RestOK'
  BY <1>1, WindowsAssumption DEF IWin, WinTypeOK, RestOK
<1> QED
  BY <1>2, <1>3, <1>5, <1>6, TypeParts DEF IWin

LEMMA ContinueKeeps ==
  ASSUME IWin, NEW t \in Thread, Continue(t)
  PROVE  IWin'
<1>1. ASSUME Moved(t), todo[t] # <<>>, RestOK', UNCHANGED <<managed, event>>
      PROVE  IWin'
  <2>1. OneCall' /\ todo' \in [Thread -> Seq(Step)]
    BY <1>1, InCall, CallGoesOn DEF IWin
  <2> QED
    BY <1>1, <2>1, TypeParts DEF IWin, Moved
<1>2. CASE Work(t)
  <2>1. todo[t] # <<>>
    BY <1>2, Busy
  <2> QED
    BY <1>1, <1>2, <2>1, InCall, WorkMoves, WorkRest DEF IWin
<1>3. CASE t = Gui /\ EventEnds
  <2>1. todo[t] # <<>>
    BY <1>3 DEF EventEnds, Doing
  <2>2. RestOK' /\ UNCHANGED <<managed, event>>
    BY <1>3 DEF EventEnds, IWin, WinTypeOK, RestOK
  <2> QED
    BY <1>1, <1>3, <2>1, <2>2, InCall, EventEndsMoves DEF IWin
<1>4. CASE t = Gui /\ HandleEvent
  <2>1. PICK q \in Seq(Step) : CallInv(q) /\ (todo' = todo /\ CallInv(q)' => OneCall')
    BY AnyCall DEF IWin
  <2>2. WindowsInv' /\ CallInv(q)' /\ Screen' \in Screens
    BY <1>4, <2>1, HandleEventKeeps DEF IWin
  <2>3. RestOK' /\ UNCHANGED <<managed, todo>> /\ event' = {}
    BY <1>4 DEF HandleEvent, IWin, WinTypeOK, RestOK
  <2> QED
    BY <2>1, <2>2, <2>3, TypeParts DEF IWin
<1>5. CASE t = Gui /\ \E h \in Helper : ToggleHelper(h)
  <2>1. PICK h \in Helper : ToggleHelper(h)
    BY <1>5
  <2>2. todo[t] # <<>>
    BY <1>5, <2>1 DEF ToggleHelper, Doing
  <2>3. Moved(t) /\ wanted' \subseteq Helper
    BY <1>5, <2>1, <2>2, InCall, ToggleHelperMoves DEF IWin
  <2>4. RestOK' /\ UNCHANGED <<managed, event>>
    BY <2>1, <2>3 DEF ToggleHelper, IWin, WinTypeOK, RestOK
  <2> QED
    BY <1>1, <2>2, <2>3, <2>4
<1> QED
  BY <1>2, <1>3, <1>4, <1>5 DEF Continue

LEMMA WinNextOK ==
  ASSUME Patient, IWin, [WinNext]_winVars
  PROVE  IWin'
<1>1. Gui \in Thread
  BY DEF Thread
<1>2. ASSUME NEW what, NEW a \in {"toggle", "toggleVideo", "toggleHelper"}, Command(what, a)
      PROVE  IWin'
  <2>1. /\ Start(Gui, <<a, "end">>) /\ xitk' = Gui
        /\ UNCHANGED <<screen, managed, event, show, wanted, root, vwin, clicks>>
    BY <1>2 DEF Command
  <2> QED
    BY <1>1, <2>1, CommandBegins, StartMoves
<1>3. CASE UserCalls
  BY <1>2, <1>3 DEF UserCalls
<1>4. CASE ReadEvent
  <2>1. PICK q \in Seq(Step) : CallInv(q) /\ (todo' = todo /\ CallInv(q)' => OneCall')
    BY AnyCall DEF IWin
  <2>2. WindowsInv' /\ CallInv(q)'
    BY <1>4, <2>1, ReadEventKeeps DEF IWin
  <2>3. /\ RestOK' /\ UNCHANGED <<managed, todo>> /\ UNCHANGED <<mapped, asked, flags>>
    BY <1>4 DEF ReadEvent, IWin, WinTypeOK, RestOK
  <2>4. Screen' \in Screens /\ event' \in SUBSET News
    BY <1>4, <2>3, ReadEventDoes DEF IWin, WinTypeOK, Screen, Screens, Flags
  <2> QED
    BY <2>1, <2>2, <2>3, <2>4, TypeParts DEF IWin
<1>5. CASE WindowManager
  <2>1. PICK q \in Seq(Step) : CallInv(q) /\ (todo' = todo /\ CallInv(q)' => OneCall')
    BY AnyCall DEF IWin
  <2>2. /\ WindowsInv' /\ CallInv(q)'
        /\ asked' \in Seq(Order) /\ events' \in Seq(News)
        /\ managed' \in [Win -> DOMAIN WmState] /\ mapped' \in [Win -> BOOLEAN]
    BY <1>5, <2>1, WindowManagerKeeps DEF IWin
  <2>3. RestOK' /\ UNCHANGED <<todo, event, props, flags>>
    BY <1>5 DEF WindowManager, IWin, WinTypeOK, RestOK
  <2>4. Screen' \in Screens
    BY <2>2, <2>3 DEF IWin, WinTypeOK, Screen, Screens, Flags
  <2> QED
    BY <2>1, <2>2, <2>3, <2>4, TypeParts DEF IWin
<1>6. CASE \E t \in Thread : Continue(t)
  BY <1>6, ContinueKeeps
<1>7. CASE \E t \in Others, hasVideo, vo, panel \in BOOLEAN : EntryStarts(t, hasVideo, vo, panel)
  <2>1. PICK t \in Others, hasVideo \in BOOLEAN, vo \in BOOLEAN, panel \in BOOLEAN :
          EntryStarts(t, hasVideo, vo, panel)
    BY <1>7
  <2>2. PICK r : r = IF hasVideo
                     THEN When(vo, "wantVideo") \o When(panel, "wantNoPanel")
                     ELSE (IF vo THEN <<"wantPanel", "wantNoVideo">> ELSE <<>>)
                          \o When(panel, "wantPanelToo")
    OBVIOUS
  <2>3. r \in Seq(Step) /\ Begins(r)
    BY <2>2, EntryBegins
  <2>4. /\ Start(t, r) /\ xitk' = xitk
        /\ UNCHANGED <<screen, managed, event, show, wanted, root, vwin, clicks>>
    BY <2>1, <2>2 DEF EntryStarts
  <2>5. t \in Thread /\ xitk' \in Thread \cup {Nobody}
    BY <2>4 DEF Thread, IWin, WinTypeOK
  <2> QED
    BY <2>3, <2>4, <2>5, StartMoves
<1>8. CASE \E w \in Win : TaskBar(w)
  <2>1. PICK w \in Win : TaskBar(w)
    BY <1>8
  <2>2. Settled /\ UNCHANGED <<asked, props, flags, event, todo>>
    BY <2>1 DEF TaskBar, InTime
  <2>3. /\ WindowsInv' /\ CallInv(<<>>)' /\ events' \in Seq(News)
        /\ managed' \in [Win -> DOMAIN WmState] /\ mapped' \in [Win -> BOOLEAN]
    BY <2>1, <2>2, TaskBarKeeps DEF IWin
  <2>4. OneCall'
    <3>1. \A t \in Thread : todo'[t] = <<>>
      BY <2>2 DEF Settled
    <3> QED
      BY <1>1, <2>3, <3>1 DEF OneCall
  <2>5. RestOK'
    BY <2>1, WindowsAssumption DEF TaskBar, IWin, WinTypeOK, RestOK
  <2>6. Screen' \in Screens
    BY <2>2, <2>3 DEF IWin, WinTypeOK, Screen, Screens, Flags
  <2> QED
    BY <2>2, <2>3, <2>4, <2>5, <2>6, TypeParts DEF IWin
<1>9. CASE UNCHANGED winVars
  <2>1. PICK q \in Seq(Step) : CallInv(q) /\ (todo' = todo /\ CallInv(q)' => OneCall')
    BY AnyCall DEF IWin
  <2>2. /\ UNCHANGED <<mapped, asked, events, props, flags>>
        /\ UNCHANGED <<managed, event, show, wanted, root, xitk, vwin, todo, calls, clicks>>
    BY <1>9 DEF winVars, screen
  <2>3. MainStays /\ ViceStays
    BY <2>2 DEF MainStays, ViceStays, Alike, Likewise, Screen
  <2>4. MainInv /\ ViceInv /\ (Safe(Main) \/ Safe(Vice)) /\ EventInv
    BY DEF IWin, WindowsInv
  <2>5. CallInv(q)' /\ MainInv' /\ ViceInv' /\ (Safe(Main) \/ Safe(Vice))'
    BY <2>1, <2>2, <2>3, <2>4, BothStay
  <2>6. WindowsInv'
    BY <2>2, <2>4, <2>5 DEF WindowsInv, EventInv
  <2>7. WinTypeOK'
    BY <2>2 DEF IWin, WinTypeOK
  <2> QED
    BY <2>1, <2>2, <2>5, <2>6, <2>7 DEF IWin
<1> QED
  BY <1>3, <1>4, <1>5, <1>6, <1>7, <1>8, <1>9 DEF WinNext

(***************************************************************************)
(* Whatever helpers and threads there are, a window is known to be         *)
(* visible, an icon or hidden and never two of these                       *)
(* (_xitk_x11_window_flags, xitk_window_update_tree).                      *)
(***************************************************************************)
THEOREM WinTypeCorrect == ASSUME Patient PROVE WinSpec => []WinTypeOK
<1>1. IWin => WinTypeOK
  BY DEF IWin
<1> QED
  BY <1>1, WinInitOK, WinNextOK, PTL DEF WinSpec

(***************************************************************************)
(* The program never takes both the panel and the video window off the     *)
(* screen and the task bar, not even for a moment, when the user and the   *)
(* threads that play wait until nothing is under way (the two bits of      *)
(* xitk_window_update_tree, video_window_set_visibility).                  *)
(***************************************************************************)
THEOREM AlwaysReachable == ASSUME Patient PROVE WinSpec => []Reachable
<1>1. IWin => Reachable
  BY SafeStays DEF IWin, WindowsInv
<1> QED
  BY <1>1, WinInitOK, WinNextOK, PTL DEF WinSpec
==============================================================================
