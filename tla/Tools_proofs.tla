---------------------------- MODULE Tools_proofs ----------------------------
(***************************************************************************)
(* Proofs about the programs that work beside the driver: the tools that   *)
(* write the servo map, the standing test and the identification runner,   *)
(* each for every value of its constants.  Every theorem is about one of   *)
(* the three; the variables of LaboratoryRun are those of the program its  *)
(* specification names.                                                    *)
(***************************************************************************)
EXTENDS ServoMapTools, StandingCharacterization, ServoIdentification,
        SequenceTheorems, FiniteSetTheorems, WellFoundedInduction, TLAPS

(***************************************************************************)
(* Induction over data: a set with 0 and all successors holds every        *)
(* natural number, hence a fold takes the steps one expects of it.         *)
(***************************************************************************)

\* A set of natural numbers has a least element.
LEMMA LeastNatural ==
  ASSUME NEW T \in SUBSET Nat, T # {}
  PROVE  \E x \in T : \A y \in T : x <= y
<1>1. IsWellFoundedOn(OpToRel(<, Nat), Nat)
  BY NatLessThanWellFounded
<1>2. PICK x \in T : \A y \in T : <<y, x>> \notin OpToRel(<, Nat)
  BY <1>1, WFMin
<1>3. \A y \in T : ~(y < x)
  BY <1>2 DEF OpToRel
<1> QED
  BY <1>3

LEMMA Induction ==
  ASSUME NEW S, 0 \in S, \A n \in Nat : n \in S => n + 1 \in S
  PROVE  Nat \subseteq S
<1> DEFINE T == Nat \ S
<1>1. SUFFICES ASSUME T # {} PROVE FALSE
  OBVIOUS
<1>2. PICK x \in T : \A y \in T : x <= y
  BY <1>1, LeastNatural
<1>3. x # 0 /\ x - 1 \in Nat /\ x - 1 \notin T
  BY <1>2
<1> QED
  BY <1>3, x - 1 + 1 = x

\* The same up to a bound.
LEMMA InductionTo ==
  ASSUME NEW n \in Nat, NEW S, 0 \in S, \A i \in 1 .. n : i - 1 \in S => i \in S
  PROVE  0 .. n \subseteq S
<1> DEFINE R == {i \in Nat : i <= n => i \in S}
<1>1. 0 \in R
  OBVIOUS
<1>2. ASSUME NEW i \in Nat, i \in R
      PROVE  i + 1 \in R
  <2>1. CASE i + 1 <= n
    <3>1. i + 1 \in 1 .. n /\ (i + 1) - 1 = i /\ i \in S
      BY <1>2, <2>1
    <3> QED
      BY <3>1
  <2> QED
    BY <2>1
<1>3. Nat \subseteq R
  <2> HIDE DEF R
  <2> QED
    BY <1>1, <1>2, Induction
<1> QED
  BY <1>3

\* The largest of some of the first numbers.
LEMMA MaxOfSome ==
  ASSUME NEW n \in Nat, NEW t \in SUBSET (1 .. n), t # {}
  PROVE  Max(t) \in t /\ \A y \in t : y <= Max(t)
<1> DEFINE T == {n - x : x \in t}
<1>0. \A x \in t : x \in Int /\ x <= n /\ n - x \in Nat
  <2>1. \A x \in t : x \in 1 .. n
    OBVIOUS
  <2> QED
    BY <2>1
<1>1. T \in SUBSET Nat /\ T # {}
  BY <1>0
<1>2. PICK z \in T : \A y \in T : z <= y
  BY <1>1, LeastNatural
<1>3. PICK x \in t : z = n - x
  OBVIOUS
<1>4. \A y \in t : x >= y
  <2>1. ASSUME NEW y \in t PROVE n - x <= n - y
    BY <1>2, <1>3
  <2> QED
    BY <1>0, <2>1
<1> QED
  BY <1>0, <1>4 DEF Max

LEMMA MaxIsLast ==
  ASSUME NEW n \in Nat, NEW t \in SUBSET (1 .. n), n \in t
  PROVE  Max(t) = n
<1>1. Max(t) \in t /\ n <= Max(t)
  BY MaxOfSome
<1>2. Max(t) \in 1 .. n
  BY <1>1
<1> QED
  BY <1>1, <1>2

\* The table of a fold over 1 .. n by F, from b: what it makes of each set of places.
IsFold(g, n, V, b, F) ==
  /\ g \in [SUBSET (1 .. n) -> V]
  /\ g = [t \in SUBSET (1 .. n) |-> IF t = {} THEN b ELSE F[Max(t)][g[t \ {Max(t)}]]]

LEMMA FoldExists ==
  ASSUME NEW n \in Nat, NEW V, NEW b \in V, NEW F \in [1 .. n -> [V -> V]]
  PROVE  \E g : IsFold(g, n, V, b, F)
<1> DEFINE Step(g, t) == IF t = {} THEN b ELSE F[Max(t)][g[t \ {Max(t)}]]
           Good(m, g) == /\ g \in [SUBSET (1 .. m) -> V]
                         /\ \A t \in SUBSET (1 .. m) : g[t] = Step(g, t)
           S == {m \in Nat : m <= n => \E g : Good(m, g)}
<1>1. 0 \in S
  <2> DEFINE g == [t \in SUBSET (1 .. 0) |-> b]
  <2>1. \A t \in SUBSET (1 .. 0) : t = {}
    OBVIOUS
  <2>2. Good(0, g)
    BY <2>1
  <2> HIDE DEF Good
  <2> QED
    BY <2>2
<1>2. ASSUME NEW m \in Nat, m \in S
      PROVE  m + 1 \in S
  <2>1. SUFFICES ASSUME m + 1 <= n PROVE \E g : Good(m + 1, g)
    <3> HIDE DEF Good
    <3> QED
      OBVIOUS
  <2>2. PICK h : Good(m, h)
    <3> HIDE DEF Good
    <3> QED
      BY <1>2, <2>1
  <2> DEFINE g == [t \in SUBSET (1 .. m + 1) |->
                     IF m + 1 \in t THEN F[m + 1][h[t \ {m + 1}]] ELSE h[t]]
  <2>3. ASSUME NEW t \in SUBSET (1 .. m + 1), m + 1 \in t
        PROVE  g[t] \in V /\ g[t] = Step(g, t)
    <3>1. Max(t) = m + 1
      BY <2>3, MaxIsLast
    <3>2. t \ {m + 1} \in SUBSET (1 .. m)
      OBVIOUS
    <3>3. g[t \ {m + 1}] = h[t \ {m + 1}] /\ h[t \ {m + 1}] \in V
      BY <3>2, <2>2
    <3>4. g[t] = F[m + 1][h[t \ {m + 1}]]
      BY <2>3
    <3>5. m + 1 \in 1 .. n
      BY <2>1
    <3> QED
      BY <3>1, <3>3, <3>4, <3>5, <2>3
  <2>4. ASSUME NEW t \in SUBSET (1 .. m + 1), m + 1 \notin t
        PROVE  g[t] \in V /\ g[t] = Step(g, t)
    <3>1. t \in SUBSET (1 .. m)
      BY <2>4
    <3>2. g[t] = h[t] /\ h[t] = Step(h, t) /\ h[t] \in V
      BY <2>2, <2>4, <3>1
    <3>3. t \ {Max(t)} \in SUBSET (1 .. m) /\ m + 1 \notin t \ {Max(t)}
      BY <3>1, <2>4
    <3>4. g[t \ {Max(t)}] = h[t \ {Max(t)}]
      BY <3>3
    <3> QED
      BY <3>2, <3>4
  <2>5. Good(m + 1, g)
    <3>1. \A t \in SUBSET (1 .. m + 1) : g[t] \in V /\ g[t] = Step(g, t)
      BY <2>3, <2>4
    <3> HIDE DEF Step
    <3> QED
      BY <3>1
  <2> HIDE DEF Good
  <2> QED
    BY <2>5
<1>3. n \in S
  <2> HIDE DEF S
  <2> QED
    BY <1>1, <1>2, Induction
<1>4. PICK g : Good(n, g)
  <2> HIDE DEF Good
  <2> QED
    BY <1>3
<1>5. IsFold(g, n, V, b, F)
  <2>1. g = [t \in SUBSET (1 .. n) |-> Step(g, t)]
    <3> HIDE DEF Step
    <3> QED
      BY <1>4
  <2> QED
    BY <1>4, <2>1 DEF IsFold
<1> QED
  BY <1>5

LEMMA Upto ==
  ASSUME NEW n \in Nat, NEW i \in 1 .. n
  PROVE  /\ 1 .. i \in SUBSET (1 .. n) /\ 1 .. i - 1 \in SUBSET (1 .. n)
         /\ 1 .. i # {} /\ Max(1 .. i) = i /\ (1 .. i) \ {i} = 1 .. i - 1
<1>1. i \in Nat /\ 1 .. i \in SUBSET (1 .. i) /\ i \in 1 .. i
  OBVIOUS
<1>2. Max(1 .. i) = i
  BY <1>1, MaxIsLast
<1> QED
  BY <1>1, <1>2

\* What a fold has made of the first i places, for every i.
FoldsTo(h, n, V, b, F) ==
  h \in [0 .. n -> V] /\ h[0] = b /\ \A i \in 1 .. n : h[i] = F[i][h[i - 1]]

\* A table that folds by F wherever its values are of V.
FoldsBy(g, n, V, b, F) ==
  /\ g[{}] = b
  /\ \A t \in SUBSET (1 .. n) :
       t # {} /\ g[t \ {Max(t)}] \in V => g[t] = F[Max(t)][g[t \ {Max(t)}]]

\* A fold takes one place after the other, whatever it makes of values that do not occur.
LEMMA FoldSteps ==
  ASSUME NEW n \in Nat, NEW V, NEW b \in V, NEW F \in [1 .. n -> [V -> V]], NEW g,
         FoldsBy(g, n, V, b, F)
  PROVE  \E h : FoldsTo(h, n, V, b, F) /\ h[n] = g[1 .. n]
<1> DEFINE h == [i \in 0 .. n |-> g[1 .. i]]
           S == {i \in 0 .. n : g[1 .. i] \in V}
<1>1. g[1 .. 0] = b
  <2>1. 1 .. 0 = {}
    OBVIOUS
  <2> QED
    BY <2>1 DEF FoldsBy
<1>2. ASSUME NEW i \in 1 .. n, g[1 .. i - 1] \in V
      PROVE  g[1 .. i] = F[i][g[1 .. i - 1]] /\ g[1 .. i] \in V
  <2> DEFINE t == 1 .. i
  <2>1. t \in SUBSET (1 .. n) /\ t # {} /\ Max(t) = i /\ t \ {i} = 1 .. i - 1
    BY Upto
  <2> HIDE DEF t
  <2>2. g[t] = F[i][g[1 .. i - 1]]
    BY <1>2, <2>1 DEF FoldsBy
  <2>3. F[i][g[1 .. i - 1]] \in V
    BY <1>2
  <2> QED
    BY <2>2, <2>3 DEF t
<1>3. 0 .. n \subseteq S
  <2>1. 0 \in S
    BY <1>1
  <2>2. \A i \in 1 .. n : i - 1 \in S => i \in S
    BY <1>2
  <2> HIDE DEF S
  <2> QED
    BY <2>1, <2>2, InductionTo
<1>4. h \in [0 .. n -> V] /\ h[n] = g[1 .. n] /\ h[0] = b
  <2>1. n \in 0 .. n /\ 0 \in 0 .. n
    OBVIOUS
  <2> QED
    BY <1>1, <1>3, <2>1
<1>5. ASSUME NEW i \in 1 .. n
      PROVE  h[i] = F[i][h[i - 1]]
  <2>1. i \in 0 .. n /\ i - 1 \in 0 .. n
    OBVIOUS
  <2> QED
    BY <1>2, <1>3, <2>1
<1> QED
  BY <1>4, <1>5 DEF FoldsTo

(***************************************************************************)
(* The tools that write the servo map.                                     *)
(***************************************************************************)

MapAssumption == ServoMapAssumption /\ ThresholdAssumption /\ MarginAssumption

\* Raw limits are integers, in order if the limits are.
LEMMA RawLimitsOrdered ==
  ASSUME MapAssumption, NEW j \in Joints, NEW c \in Int, NEW lo \in Int, NEW hi \in Int
  PROVE  /\ RawLimits(j, c, lo, hi).minStep \in Int
         /\ RawLimits(j, c, lo, hi).maxStep \in Int
         /\ lo < hi => RawLimits(j, c, lo, hi).minStep < RawLimits(j, c, lo, hi).maxStep
<1>1. Sign[j] = 1 \/ Sign[j] = -1
  BY DEF MapAssumption, ServoMapAssumption
<1>2. CASE Sign[j] = 1
  BY <1>2 DEF RawLimits, ToStep
<1>3. CASE Sign[j] = -1
  BY <1>3 DEF RawLimits, ToStep
<1> QED
  BY <1>1, <1>2, <1>3

\* Limits that keep Align off the stops, around a centre that is Align off at most, stay
\* between the stops in raw steps.
LEMMA InnerIsPhysical ==
  ASSUME MapAssumption, NEW j \in Joints, NEW c \in Int, NEW z \in Int,
         NEW lo \in Int, NEW hi \in Int, lo < hi,
         Magnitude(c - z) <= Align,
         Stop[j].lower + Align <= lo, hi <= Stop[j].upper - Align
  PROVE  LET raw == RawLimits(j, c, lo, hi)
             stops == RawLimits(j, z, Stop[j].lower, Stop[j].upper)
         IN  stops.minStep <= raw.minStep /\ raw.minStep < raw.maxStep /\ raw.maxStep <= stops.maxStep
<1>1. /\ Sign[j] = 1 \/ Sign[j] = -1
      /\ Stop[j].lower \in Int /\ Stop[j].upper \in Int /\ Stop[j].lower < Stop[j].upper
      /\ Align \in Nat
  BY DEF MapAssumption, ServoMapAssumption
<1>2. c - z <= Align /\ z - c <= Align
  BY <1>1 DEF Magnitude
<1>3. CASE Sign[j] = 1
  BY <1>1, <1>2, <1>3 DEF RawLimits, ToStep
<1>4. CASE Sign[j] = -1
  BY <1>1, <1>2, <1>4 DEF RawLimits, ToStep
<1> QED
  BY <1>1, <1>3, <1>4

\* A record holds angles; taken with a calibrated centre they are Align off the stops at most.
LEMMA RecordHolds ==
  ASSUME MapAssumption, NEW j \in Joints, NEW c \in Int, zero[j] \in Int
  PROVE  LET r == Record(j, c)
         IN  /\ r.lower \in Int /\ r.upper \in Int /\ r.sound \in BOOLEAN
             /\ r.sound => Stop[j].lower - Align <= r.lower /\ r.upper <= Stop[j].upper + Align
<1>1. /\ Sign[j] = 1 \/ Sign[j] = -1
      /\ Stop[j].lower \in Int /\ Stop[j].upper \in Int /\ Stop[j].lower < Stop[j].upper
      /\ Align \in Nat
  BY DEF MapAssumption, ServoMapAssumption
<1>2. Calibrated(j, c) => c - zero[j] <= Align /\ zero[j] - c <= Align
  BY <1>1 DEF Calibrated, Magnitude
<1>3. Calibrated(j, c) \in BOOLEAN
  BY DEF Calibrated
<1>4. /\ Record(j, c).sound = Calibrated(j, c)
  BY DEF Record
<1>5. CASE Sign[j] = 1
  <2>1. Record(j, c).lower = Stop[j].lower + (zero[j] - c)
        /\ Record(j, c).upper = Stop[j].upper + (zero[j] - c)
    BY <1>1, <1>5 DEF Record, ToAngle, ToStep
  <2> QED
    BY <1>1, <1>2, <1>3, <1>4, <2>1
<1>6. CASE Sign[j] = -1
  <2>1. Record(j, c).lower = Stop[j].lower - (zero[j] - c)
        /\ Record(j, c).upper = Stop[j].upper - (zero[j] - c)
    BY <1>1, <1>6 DEF Record, ToAngle, ToStep
  <2> QED
    BY <1>1, <1>2, <1>3, <1>4, <2>1
<1> QED
  BY <1>1, <1>5, <1>6

\* A rendering of good records is a good map, with the centres it was rendered from.
LEMMA RenderedHolds ==
  ASSUME MapAssumption, NEW m \in [Joints -> MapEntry], NEW recs,
         RecordsHold(recs), Renderable(recs, m)
  PROVE  LET g == Rendered(recs, m)
         IN  /\ MapHolds(g.map, g.sound)
             /\ \A j \in Joints : g.map[j].center = g.hash[j].center
<1> DEFINE g == Rendered(recs, m)
<1>1. ASSUME NEW j \in Joints
      PROVE  /\ g.map[j] \in MapEntry /\ g.map[j].center = m[j].center
             /\ g.map[j].lower < g.map[j].upper
             /\ RawAgrees(g.map[j], j) /\ g.sound[j] \in BOOLEAN
             /\ g.sound[j] => Inner(g.map[j], j)
  <2> DEFINE lo == recs[j].lower + MarginSteps
             hi == recs[j].upper - MarginSteps
  <2>1. /\ Align \in Nat /\ MarginSteps \in Nat /\ MarginSteps >= 2 * Align
        /\ Stop[j].lower \in Int /\ Stop[j].upper \in Int
    BY DEF MapAssumption, ServoMapAssumption, MarginAssumption
  <2>2. /\ j \in DOMAIN recs /\ recs[j].lower \in Int /\ recs[j].upper \in Int
        /\ recs[j].sound \in BOOLEAN
        /\ recs[j].sound => /\ Stop[j].lower - Align <= recs[j].lower
                               /\ recs[j].upper <= Stop[j].upper + Align
        /\ lo < hi
    BY DEF Renderable, RecordsHold
  <2>3. lo \in Int /\ hi \in Int
    BY <2>1, <2>2
  <2>4. recs[j].sound => Stop[j].lower + Align <= lo /\ hi <= Stop[j].upper - Align
    BY <2>1, <2>2
  <2>5. /\ g.map[j] = [center |-> m[j].center, lower |-> lo, upper |-> hi,
                       minStep |-> RawLimits(j, m[j].center, lo, hi).minStep,
                       maxStep |-> RawLimits(j, m[j].center, lo, hi).maxStep]
        /\ g.sound[j] = recs[j].sound
    BY DEF Rendered
  <2>6. m[j].center \in Int
    BY DEF MapEntry
  <2> HIDE DEF g, lo, hi
  <2>7. /\ RawLimits(j, m[j].center, lo, hi).minStep \in Int
        /\ RawLimits(j, m[j].center, lo, hi).maxStep \in Int
    BY <2>3, <2>6, RawLimitsOrdered
  <2> QED
    BY <2>2, <2>3, <2>4, <2>5, <2>6, <2>7 DEF MapEntry, RawAgrees, Inner
<1>2. /\ g.map = [j \in Joints |-> g.map[j]] /\ g.sound = [j \in Joints |-> g.sound[j]]
      /\ g.hash = m
  BY DEF Rendered
<1> HIDE DEF g
<1>3. g.map \in [Joints -> MapEntry] /\ g.sound \in [Joints -> BOOLEAN]
  BY <1>1, <1>2
<1> QED
  BY <1>1, <1>2, <1>3 DEF MapHolds, Loads, g

\* The map every run of the tools starts from.
LEMMA MapInitInv == MapAssumption /\ MapToolsInit => MapToolsIInv
<1> SUFFICES ASSUME MapAssumption, MapToolsInit PROVE MapToolsIInv
  OBVIOUS
<1> USE DEF MapToolsInit, ServoMapInit, CalibrationInit, LimitsInit
<1>1. zero \in [Joints -> Zeros] /\ Zeros \subseteq Int
  BY DEF MapAssumption, ServoMapAssumption
<1>2. ASSUME NEW j \in Joints
      PROVE  /\ map[j] \in MapEntry /\ map[j].lower < map[j].upper
             /\ RawAgrees(map[j], j) /\ Inner(map[j], j)
  <2> DEFINE lo == Stop[j].lower + Align
             hi == Stop[j].upper - Align
  <2>1. map[j] = [center |-> zero[j], lower |-> lo, upper |-> hi,
                  minStep |-> RawLimits(j, zero[j], lo, hi).minStep,
                  maxStep |-> RawLimits(j, zero[j], lo, hi).maxStep]
    OBVIOUS
  <2>2. lo \in Int /\ hi \in Int /\ lo < hi /\ zero[j] \in Int
    <3>1. /\ Stop[j].lower \in Int /\ Stop[j].upper \in Int /\ Align \in Nat
          /\ Stop[j].lower + Align < Stop[j].upper - Align
      BY DEF MapAssumption, ServoMapAssumption
    <3>2. zero[j] \in Int
      BY <1>1
    <3> QED
      BY <3>1, <3>2
  <2>3. lo <= lo /\ hi <= hi
    BY <2>2
  <2>4. Inner(map[j], j)
    BY <2>1, <2>3 DEF Inner
  <2> HIDE DEF lo, hi
  <2>5. /\ RawLimits(j, zero[j], lo, hi).minStep \in Int
        /\ RawLimits(j, zero[j], lo, hi).maxStep \in Int
    BY <2>2, RawLimitsOrdered
  <2> QED
    BY <2>1, <2>2, <2>4, <2>5 DEF MapEntry, RawAgrees
<1>3. map = [j \in Joints |-> map[j]]
  OBVIOUS
<1>4. map \in [Joints -> MapEntry]
  BY <1>2, <1>3
<1>5. MapHolds(map, sound)
  BY <1>2, <1>4 DEF MapHolds, Loads
<1>6. MirrorHolds
  BY DEF MirrorHolds, Nothing
<1> QED
  BY <1>1, <1>5, <1>6 DEF MapToolsIInv, ProposalHolds, SessionHolds, RecordedHolds,
     GeneratedHolds

\* Each part speaks of few variables, and stays while those do.
LEMMA MapPartsStay ==
  /\ UNCHANGED proposal => (ProposalHolds => ProposalHolds')
  /\ UNCHANGED session => (SessionHolds => SessionHolds')
  /\ UNCHANGED recorded => (RecordedHolds => RecordedHolds')
  /\ UNCHANGED generated => (GeneratedHolds => GeneratedHolds')
  /\ UNCHANGED <<applied, unmirrored, mirror, map>> => (MirrorHolds => MirrorHolds')
  /\ UNCHANGED <<map, sound>> => (MapHolds(map, sound) => MapHolds(map, sound)')
<1>1. UNCHANGED proposal => (ProposalHolds => ProposalHolds')
  BY DEF ProposalHolds
<1>2. UNCHANGED session => (SessionHolds => SessionHolds')
  BY DEF SessionHolds
<1>3. UNCHANGED recorded => (RecordedHolds => RecordedHolds')
  BY DEF RecordedHolds
<1>4. UNCHANGED generated => (GeneratedHolds => GeneratedHolds')
  BY DEF GeneratedHolds
<1>5. UNCHANGED <<applied, unmirrored, mirror, map>> => (MirrorHolds => MirrorHolds')
  BY DEF MirrorHolds
<1>6. UNCHANGED <<map, sound>> => (MapHolds(map, sound) => MapHolds(map, sound)')
  BY DEF MapHolds, Loads
<1> QED
  BY <1>1, <1>2, <1>3, <1>4, <1>5, <1>6

\* Captures of a calibration: reading the map, measuring, giving up.
LEMMA CaptureInv ==
  ASSUME MapAssumption, MapToolsIInv,
         \/ StartCapture \/ CancelCapture
         \/ \E joints \in SUBSET Joints, reference \in References, moving \in Joints \cup {0} :
              \E offset \in [joints -> {-Align, Align}] :
                FinishCapture(joints, reference, offset, moving),
         UNCHANGED limitVars
  PROVE  MapToolsIInv'
<1> USE DEF limitVars, mapVars
<1>1. CASE StartCapture
  <2>1. /\ UNCHANGED <<zero, map, sound, proposal, session, recorded, generated, applied, unmirrored,
                       mirror>>
        /\ capture' = map
    BY <1>1 DEF StartCapture
  <2>2. capture' \in [Joints -> MapEntry]
    BY <2>1 DEF MapToolsIInv, MapHolds
  <2> QED
    BY <2>1, <2>2, MapPartsStay DEF MapToolsIInv
<1>2. CASE CancelCapture
  <2>1. /\ UNCHANGED <<zero, map, sound, proposal, session, recorded, generated, applied, unmirrored,
                       mirror>>
        /\ capture' = NoProposal
    BY <1>2 DEF CancelCapture
  <2> QED
    BY <2>1, MapPartsStay DEF MapToolsIInv
<1>3. ASSUME NEW joints \in SUBSET Joints, NEW reference \in References,
             NEW moving \in Joints \cup {0}, NEW offset \in [joints -> {-Align, Align}],
             FinishCapture(joints, reference, offset, moving)
      PROVE  MapToolsIInv'
  <2>1. /\ UNCHANGED <<zero, map, sound, session, recorded, generated, applied, unmirrored, mirror>>
        /\ capture' = NoProposal /\ capture # NoProposal
        /\ proposal' =
             [hash |-> capture,
              joints |-> [j \in joints |->
                ProposedJoint(j, capture[j],
                  ToStep(j, reference[j] + offset[j], zero[j]), reference[j], j # moving)]]
    BY <1>3 DEF FinishCapture
  <2>2. capture \in [Joints -> MapEntry]
    BY <2>1 DEF MapToolsIInv
  <2>3. ASSUME NEW j \in joints
        PROVE  LET p == proposal'.joints[j]  old == capture[j]
                   raw == RawLimits(j, p.center, old.lower, old.upper)
               IN  /\ p.center \in Int /\ p.minStep = raw.minStep /\ p.maxStep = raw.maxStep
                   /\ Magnitude(p.center - old.center) > Inspect => Blocked(p.status, FALSE)
    <3> DEFINE p == proposal'.joints[j]
               old == capture[j]
               step == ToStep(j, reference[j] + offset[j], zero[j])
               center == step - Sign[j] * reference[j]
               raw == RawLimits(j, center, old.lower, old.upper)
    <3>1. p = [center |-> center, minStep |-> raw.minStep, maxStep |-> raw.maxStep,
               status |-> IF j # moving
                          THEN ClassifyCorrection(center - old.center, RawLimitsValid(raw))
                          ELSE "UNSTABLE_CAPTURE"]
      BY <2>1 DEF ProposedJoint
    <3>2. /\ reference[j] \in Int /\ offset[j] \in Int /\ zero[j] \in Int
          /\ Sign[j] = 1 \/ Sign[j] = -1
          /\ old.center \in Int
      <4>1. /\ Default[j] \in Int /\ Align \in Nat /\ Zeros \subseteq Int
            /\ Sign[j] = 1 \/ Sign[j] = -1
        BY DEF MapAssumption, ServoMapAssumption
      <4>2. reference[j] \in Int
        BY <4>1 DEF References
      <4>3. offset[j] = -Align \/ offset[j] = Align
        OBVIOUS
      <4>4. zero[j] \in Int
        BY <4>1 DEF MapToolsIInv
      <4>5. old.center \in Int
        BY <2>2 DEF MapEntry
      <4> QED
        BY <4>1, <4>2, <4>3, <4>4, <4>5
    <3>3. center \in Int
      BY <3>2 DEF ToStep
    <3>4. p.center = center /\ p.minStep = raw.minStep /\ p.maxStep = raw.maxStep
      BY <3>1
    <3>5. Magnitude(center - old.center) > Inspect => Blocked(p.status, FALSE)
      <4> DEFINE c == center - old.center
                 ok == RawLimitsValid(raw)
      <4>1. c \in Int /\ ok \in BOOLEAN
        BY <3>2, <3>3 DEF RawLimitsValid
      <4> HIDE DEF c, ok
      <4>2. ok /\ Magnitude(c) > Inspect
              => ClassifyCorrection(c, ok) = "MECHANICAL_REINDEX_RECOMMENDED"
        BY <4>1 DEF ClassifyCorrection, Magnitude, MapAssumption, ThresholdAssumption
      <4>3. ~ok => ClassifyCorrection(c, ok) = "RAW_RANGE_OUT_OF_BOUNDS"
        BY <4>1 DEF ClassifyCorrection
      <4>4. p.status = IF j # moving THEN ClassifyCorrection(c, ok) ELSE "UNSTABLE_CAPTURE"
        BY <3>1 DEF c, ok
      <4>5. Magnitude(c) > Inspect => Blocked(p.status, FALSE)
        BY <4>1, <4>2, <4>3, <4>4 DEF Blocked
      <4> QED
        BY <4>5 DEF c
    <3> QED
      BY <3>3, <3>4, <3>5
  <2>4. proposal'.hash = capture /\ DOMAIN proposal'.joints = joints
    BY <2>1
  <2>5. ProposalHolds'
    BY <2>2, <2>3, <2>4 DEF ProposalHolds
  <2> QED
    BY <2>1, <2>5, MapPartsStay DEF MapToolsIInv
<1> QED
  BY <1>1, <1>2, <1>3

\* An apply moves centres and the raw limits that go with them, and leaves the mirror in
\* step or the text that will bring it there.
LEMMA ApplyInv ==
  ASSUME MapAssumption, MapToolsIInv,
         NEW large \in BOOLEAN, NEW mismatch \in BOOLEAN, NEW sync \in BOOLEAN,
         ApplyToMap(large, mismatch, sync),
         UNCHANGED limitVars
  PROVE  MapToolsIInv'
<1> DEFINE p == proposal.joints
<1>1. /\ UNCHANGED <<zero, sound, proposal, session, recorded, generated, capture, mirror>>
      /\ map' = Patched(map, p)
      /\ unmirrored' = IF MirrorDue(p, sync) THEN MirrorText(p) ELSE NoProposal
      /\ applied' = [joints |-> DOMAIN p, sync |-> sync, large |-> large,
                     mismatch |-> mismatch, done |-> ~MirrorDue(p, sync)]
  BY DEF ApplyToMap, limitVars
<1>2. /\ DOMAIN p \subseteq Joints /\ proposal.hash \in [Joints -> MapEntry]
      /\ \A j \in DOMAIN p :
           LET old == proposal.hash[j]
               raw == RawLimits(j, p[j].center, old.lower, old.upper)
           IN  p[j].center \in Int /\ p[j].minStep = raw.minStep /\ p[j].maxStep = raw.maxStep
      /\ \A j \in DOMAIN p : /\ proposal.hash[j].lower = map[j].lower
                             /\ proposal.hash[j].upper = map[j].upper
  BY DEF ApplyToMap, MapToolsIInv, ProposalHolds, Accepted, ValidAgainst
<1> HIDE DEF p
<1>3. MapHolds(map, sound)
  BY DEF MapToolsIInv
<1>4. ASSUME NEW j \in Joints
      PROVE  /\ map'[j] \in MapEntry
             /\ map'[j].lower < map'[j].upper
             /\ RawAgrees(map'[j], j) /\ (sound[j] => Inner(map'[j], j))
             /\ j \in DOMAIN p => MirrorOf(map'[j]) = MirrorOf(p[j])
  <2>1. /\ map[j] \in MapEntry /\ RawAgrees(map[j], j) /\ map[j].lower < map[j].upper
        /\ sound[j] => Inner(map[j], j)
    BY <1>3 DEF MapHolds, Loads
  <2>2. CASE j \notin DOMAIN p
    BY <1>1, <2>1, <2>2 DEF Patched
  <2>3. CASE j \in DOMAIN p
    <3> DEFINE raw == RawLimits(j, p[j].center, map[j].lower, map[j].upper)
    <3>1. map'[j] = [map[j] EXCEPT !.center = p[j].center, !.minStep = p[j].minStep,
                                   !.maxStep = p[j].maxStep]
      BY <1>1, <2>3 DEF Patched
    <3>2. p[j].center \in Int /\ p[j].minStep = raw.minStep /\ p[j].maxStep = raw.maxStep
      BY <1>2, <2>3
    <3>3. map[j].lower \in Int /\ map[j].upper \in Int
      BY <2>1 DEF MapEntry
    <3>4. raw.minStep \in Int /\ raw.maxStep \in Int
      BY <3>2, <3>3, RawLimitsOrdered
    <3>5. map'[j] = [center |-> p[j].center, lower |-> map[j].lower, upper |-> map[j].upper,
                     minStep |-> raw.minStep, maxStep |-> raw.maxStep]
      BY <2>1, <3>1, <3>2 DEF MapEntry
    <3> HIDE DEF raw
    <3>6. map'[j] \in MapEntry
      BY <3>2, <3>3, <3>4, <3>5 DEF MapEntry
    <3>7. MirrorOf(map'[j]) = MirrorOf(p[j])
      BY <3>2, <3>5 DEF MirrorOf
    <3>8. RawAgrees(map'[j], j)
      BY <3>5 DEF RawAgrees, raw
    <3>9. sound[j] => Inner(map'[j], j)
      BY <2>1, <3>5 DEF Inner
    <3> QED
      BY <2>1, <3>5, <3>6, <3>7, <3>8, <3>9
  <2> QED
    BY <2>2, <2>3
<1>5. MapHolds(map, sound)'
  <2>1. map' = [j \in Joints |-> map'[j]]
    BY <1>1 DEF Patched
  <2>2. map' \in [Joints -> MapEntry]
    BY <1>4, <2>1
  <2> QED
    BY <1>1, <1>3, <1>4, <2>2 DEF MapHolds, Loads
<1>6. MirrorHolds'
  <2>1. ASSUME NEW j \in DOMAIN p
        PROVE  MirrorText(p)[j] = MirrorOf(map'[j])
    BY <1>2, <1>4 DEF MirrorText
  <2>2. /\ applied'.joints = DOMAIN p /\ applied'.sync = sync
        /\ applied'.done = ~MirrorDue(p, sync)
        /\ DOMAIN applied' = DOMAIN Nothing
    BY <1>1 DEF Nothing
  <2>3. applied'.done /\ applied'.sync => mirror' = MirrorText(p)
    BY <1>1, <2>2 DEF MirrorDue
  <2>4. unmirrored' # NoProposal => unmirrored' = MirrorText(p)
    BY <1>1
  <2> QED
    BY <1>2, <2>1, <2>2, <2>3, <2>4 DEF MirrorHolds
<1> QED
  BY <1>1, <1>5, <1>6, MapPartsStay DEF MapToolsIInv

\* The second write, the death before it, and a rendering copied over the map.
LEMMA FilesInv ==
  ASSUME MapAssumption, MapToolsIInv,
         \/ (ApplyToMirror \/ ApplyDies) /\ UNCHANGED limitVars
         \/ InstallRendered
  PROVE  MapToolsIInv'
<1> USE DEF limitVars, mapVars
<1>1. CASE ApplyToMirror /\ UNCHANGED limitVars
  <2>1. /\ UNCHANGED <<zero, map, sound, capture, proposal, session, recorded, generated>>
        /\ unmirrored # NoProposal /\ mirror' = unmirrored /\ unmirrored' = NoProposal
        /\ applied' = [applied EXCEPT !.done = TRUE]
    BY <1>1 DEF ApplyToMirror
  <2>2. MirrorHolds'
    BY <2>1 DEF MapToolsIInv, MirrorHolds, Nothing, MirrorOf
  <2> QED
    BY <2>1, <2>2, MapPartsStay DEF MapToolsIInv
<1>2. CASE ApplyDies /\ UNCHANGED limitVars
  <2>1. /\ UNCHANGED <<zero, map, sound, capture, proposal, session, recorded, generated, applied, mirror>>
        /\ unmirrored' = NoProposal
    BY <1>2 DEF ApplyDies
  <2>2. MirrorHolds'
    BY <2>1 DEF MapToolsIInv, MirrorHolds, Nothing, MirrorOf
  <2> QED
    BY <2>1, <2>2, MapPartsStay DEF MapToolsIInv
<1>3. CASE InstallRendered
  <2>1. /\ UNCHANGED <<zero, capture, proposal, session, recorded, generated, mirror, unmirrored>>
        /\ generated # NoFile /\ unmirrored = NoProposal
        /\ map' = generated.map /\ sound' = generated.sound /\ applied' = Nothing
    BY <1>3 DEF InstallRendered
  <2>2. MapHolds(map, sound)'
    BY <2>1 DEF MapToolsIInv, GeneratedHolds, MapHolds, Loads
  <2>3. MirrorHolds'
    BY <2>1 DEF MirrorHolds, Nothing
  <2> QED
    BY <2>1, <2>2, <2>3, MapPartsStay DEF MapToolsIInv
<1> QED
  BY <1>1, <1>2, <1>3

\* A limit capture keeps good records, and renders good maps from them.
LEMMA SessionInv ==
  ASSUME MapAssumption, MapToolsIInv,
         \/ \E resume \in BOOLEAN, again \in SUBSET Joints : StartSession(resume, again)
         \/ \E j \in Joints : CaptureJoint(j) \/ SkipJoint(j)
         \/ EndSession \/ BreakSession \/ Render
  PROVE  MapToolsIInv'
<1> USE DEF mapVars, calibrationVars
<1> DEFINE Rest == <<zero, map, mirror, capture, proposal, unmirrored, applied, sound>>
<1>0. /\ zero \in [Joints -> Zeros] /\ Zeros \subseteq Int
      /\ map \in [Joints -> MapEntry]
      /\ SessionHolds /\ RecordedHolds
  BY DEF MapToolsIInv, MapHolds, MapAssumption, ServoMapAssumption
<1>1. ASSUME UNCHANGED Rest, SessionHolds', RecordedHolds', GeneratedHolds'
      PROVE  MapToolsIInv'
  BY <1>1, MapPartsStay DEF MapToolsIInv
<1>2. ASSUME NEW resume \in BOOLEAN, NEW again \in SUBSET Joints, StartSession(resume, again)
      PROVE  MapToolsIInv'
  <2>1. /\ UNCHANGED Rest /\ UNCHANGED <<recorded, generated>>
        /\ session' = [centers |-> [j \in Joints |-> map[j].center], next |-> 1, again |-> again,
                       records |-> IF resume /\ recorded # NoFile THEN recorded ELSE <<>>]
    BY <1>2 DEF StartSession
  <2>2. [j \in Joints |-> map[j].center] \in [Joints -> Int]
    BY <1>0 DEF MapEntry
  <2>3. RecordsHold(<<>>)
    BY DEF RecordsHold
  <2>4. RecordsHold(session'.records)
    BY <1>0, <2>1, <2>3 DEF RecordedHolds
  <2>5. SessionHolds'
    BY <2>1, <2>2, <2>4 DEF SessionHolds, RecordsHold
  <2> QED
    BY <1>1, <2>1, <2>5, MapPartsStay DEF MapToolsIInv
<1>3. ASSUME NEW j \in Joints, CaptureJoint(j)
      PROVE  MapToolsIInv'
  <2> DEFINE taken == [k \in DOMAIN session.records \cup {j} |->
                           IF k = j THEN Record(j, session.centers[j]) ELSE session.records[k]]
  <2>1. /\ UNCHANGED Rest /\ UNCHANGED generated /\ session # NoFile
        /\ session' = [session EXCEPT !.records = taken, !.next = j + 1]
        /\ recorded' = taken
    BY <1>3 DEF CaptureJoint, Offered
  <2>2. /\ DOMAIN session = {"centers", "next", "again", "records"}
        /\ RecordsHold(session.records) /\ session.centers \in [Joints -> Int]
    BY <1>0, <2>1 DEF SessionHolds
  <2>3. zero[j] \in Int /\ session.centers[j] \in Int
    BY <1>0, <2>2
  <2>4. RecordsHold(taken)
    BY <2>2, <2>3, RecordHolds DEF RecordsHold
  <2> HIDE DEF taken
  <2>5. session'.records = taken /\ session'.centers = session.centers /\ DOMAIN session' = DOMAIN session
    BY <2>1, <2>2
  <2>6. SessionHolds' /\ RecordedHolds'
    BY <2>1, <2>2, <2>4, <2>5 DEF SessionHolds, RecordedHolds, RecordsHold
  <2> QED
    BY <1>1, <2>1, <2>6, MapPartsStay DEF MapToolsIInv
<1>4. ASSUME NEW j \in Joints, SkipJoint(j)
      PROVE  MapToolsIInv'
  <2>1. /\ UNCHANGED Rest /\ UNCHANGED <<recorded, generated>> /\ session # NoFile
        /\ session' = [session EXCEPT !.next = j + 1]
    BY <1>4 DEF SkipJoint, Offered
  <2>2. SessionHolds'
    BY <1>0, <2>1 DEF SessionHolds, RecordsHold
  <2> QED
    BY <1>1, <2>1, <2>2, MapPartsStay DEF MapToolsIInv
<1>5. CASE EndSession
  <2>1. /\ UNCHANGED Rest /\ session # NoFile /\ session' = NoFile
        /\ recorded' = session.records
        /\ generated' = IF Joints \subseteq DOMAIN session.records
                             /\ Renderable(session.records, map)
                        THEN Rendered(session.records, map) ELSE generated
    BY <1>5 DEF EndSession
  <2>2. RecordsHold(session.records)
    BY <1>0, <2>1 DEF SessionHolds
  <2>3. SessionHolds' /\ RecordedHolds'
    BY <2>1, <2>2 DEF SessionHolds, RecordedHolds, RecordsHold
  <2>4. CASE generated' = generated
    BY <1>1, <2>1, <2>3, <2>4, MapPartsStay DEF MapToolsIInv
  <2>5. CASE Renderable(session.records, map) /\ generated' = Rendered(session.records, map)
    <3>1. GeneratedHolds'
      BY <1>0, <2>2, <2>5, RenderedHolds DEF GeneratedHolds, MapHolds, Loads
    <3> QED
      BY <1>1, <2>1, <2>3, <3>1
  <2> QED
    BY <2>1, <2>4, <2>5
<1>6. CASE BreakSession
  <2>1. UNCHANGED Rest /\ UNCHANGED <<recorded, generated>> /\ session' = NoFile
    BY <1>6 DEF BreakSession
  <2>2. SessionHolds'
    BY <2>1 DEF SessionHolds
  <2> QED
    BY <1>1, <2>1, <2>2, MapPartsStay DEF MapToolsIInv
<1>7. CASE Render
  <2>1. /\ UNCHANGED Rest /\ UNCHANGED <<recorded, session>> /\ recorded # NoFile
        /\ Renderable(recorded, map) /\ generated' = Rendered(recorded, map)
    BY <1>7 DEF Render
  <2>2. GeneratedHolds'
    BY <1>0, <2>1, RenderedHolds DEF RecordedHolds, GeneratedHolds, MapHolds, Loads
  <2> QED
    BY <1>1, <2>1, <2>2, MapPartsStay DEF MapToolsIInv
<1> QED
  BY <1>2, <1>3, <1>4, <1>5, <1>6, <1>7

\* A servo is exchanged under whatever is running.
LEMMA ReplaceInv ==
  ASSUME MapToolsIInv, NEW j \in Joints, ReplaceServo(j),
         UNCHANGED <<calibrationVars, limitVars>>
  PROVE  MapToolsIInv'
<1>1. zero' \in [Joints -> Zeros]
  BY DEF ReplaceServo, MapToolsIInv
<1> QED
  BY <1>1, MapPartsStay DEF ReplaceServo, MapToolsIInv, calibrationVars, limitVars

\* What is in the files and in the hands of a running tool stays consistent through every
\* step of every tool and every exchange of a servo: the invariant is inductive.
THEOREM MapInvariance == MapToolsSpec => []MapToolsIInv
<1>1. ASSUME MapAssumption, MapToolsIInv, [MapToolsNext]_mapToolsVars
      PROVE  MapToolsIInv'
  <2>1. CASE Job
    BY <1>1, <2>1, ReplaceInv, CaptureInv, SessionInv DEF Job
  <2>2. CASE Work
    <3>1. CASE \E large, mismatch, sync \in BOOLEAN :
                 ApplyToMap(large, mismatch, sync) /\ UNCHANGED limitVars
      BY <1>1, <3>1, ApplyInv
    <3> QED
      BY <1>1, <2>2, <3>1, CaptureInv, FilesInv, SessionInv DEF Work
  <2>3. CASE UNCHANGED mapToolsVars
    BY <1>1, <2>3, MapPartsStay DEF MapToolsIInv, mapToolsVars, mapVars, calibrationVars,
       limitVars
  <2> QED
    BY <1>1, <2>1, <2>2, <2>3 DEF MapToolsNext
<1>2. ASSUME MapAssumption PROVE MapToolsSpec => []MapToolsIInv
  <2>1. MapToolsInit => MapToolsIInv
    BY <1>2, MapInitInv
  <2>2. MapToolsIInv /\ [MapToolsNext]_mapToolsVars => MapToolsIInv'
    BY <1>1, <1>2
  <2> QED
    BY <2>1, <2>2, PTL DEF MapToolsSpec
<1> QED
  BY <1>2, ServoMapAssumption, ThresholdAssumption, MarginAssumption
     DEF MapAssumption, ServoMapAssumption, ThresholdAssumption, MarginAssumption

\* Whoever exchanged servos, calibrated, captured and rendered, in whatever order: with a
\* centre aligned as well as can be and limits captured with such a centre, the raw steps
\* the driver clamps to lie between the mechanical stops.
THEOREM PhysicalLimits == MapToolsSpec => []LimitsStayPhysical
<1>1. ASSUME MapAssumption, MapToolsIInv PROVE LimitsStayPhysical
  <2> SUFFICES ASSUME NEW j \in Joints, Calibrated(j, map[j].center), sound[j]
               PROVE  LET stops == RawLimits(j, zero[j], Stop[j].lower, Stop[j].upper)
                      IN  stops.minStep <= map[j].minStep /\ map[j].minStep < map[j].maxStep
                          /\ map[j].maxStep <= stops.maxStep
    BY DEF LimitsStayPhysical
  <2>1. /\ map[j].center \in Int /\ map[j].lower \in Int /\ map[j].upper \in Int
        /\ map[j].lower < map[j].upper
        /\ RawAgrees(map[j], j) /\ Inner(map[j], j)
    BY <1>1 DEF MapToolsIInv, MapHolds, Loads, MapEntry
  <2>2. zero[j] \in Int
    BY <1>1 DEF MapToolsIInv, MapAssumption, ServoMapAssumption
  <2> QED
    BY <1>1, <2>1, <2>2, InnerIsPhysical DEF RawAgrees, Inner, Calibrated
<1>2. ASSUME MapAssumption PROVE MapToolsSpec => []LimitsStayPhysical
  <2>1. MapToolsIInv => LimitsStayPhysical
    BY <1>1, <1>2
  <2>2. MapToolsSpec => []MapToolsIInv
    BY <1>2, MapInvariance
  <2> QED
    BY <2>1, <2>2, PTL
<1> QED
  BY <1>2, ServoMapAssumption, ThresholdAssumption, MarginAssumption
     DEF MapAssumption, ServoMapAssumption, ThresholdAssumption, MarginAssumption

\* An apply that says it is done has written both files, also after one that died
\* between the two.
THEOREM MirrorKept == MapToolsSpec => []MirrorInStep
<1>1. MapToolsIInv => MirrorInStep
  BY DEF MapToolsIInv, MirrorHolds, MirrorInStep
<1>2. ASSUME MapAssumption PROVE MapToolsSpec => []MirrorInStep
  <2>1. MapToolsSpec => []MapToolsIInv
    BY <1>2, MapInvariance
  <2> QED
    BY <1>1, <2>1, PTL
<1> QED
  BY <1>2, ServoMapAssumption, ThresholdAssumption, MarginAssumption
     DEF MapAssumption, ServoMapAssumption, ThresholdAssumption, MarginAssumption

\* Only an apply with one of the operator's two consents moves a centre far.
LEMMA LargeMoveStep ==
  ASSUME MapAssumption, MapToolsIInv, MapToolsNext,
         NEW j \in Joints, Magnitude(map'[j].center - map[j].center) > Inspect
  PROVE  applied'.large \/ applied'.mismatch
<1>1. map[j].center \in Int /\ Inspect \in Nat
  BY DEF MapToolsIInv, MapHolds, MapEntry, MapAssumption, ThresholdAssumption
<1>2. map'[j].center # map[j].center
  BY <1>1 DEF Magnitude
<1>3. CASE InstallRendered
  BY <1>2, <1>3 DEF InstallRendered, MapToolsIInv, GeneratedHolds
<1>4. ASSUME NEW large \in BOOLEAN, NEW mismatch \in BOOLEAN, NEW sync \in BOOLEAN,
             ApplyToMap(large, mismatch, sync)
      PROVE  applied'.large \/ applied'.mismatch
  <2> DEFINE p == proposal.joints
  <2>1. /\ proposal # NoProposal /\ Accepted(proposal, large, mismatch)
        /\ map' = Patched(map, p)
        /\ applied'.large = large /\ applied'.mismatch = mismatch
    BY <1>4 DEF ApplyToMap
  <2>2. j \in DOMAIN p /\ map'[j] = [map[j] EXCEPT !.center = p[j].center,
                                       !.minStep = p[j].minStep, !.maxStep = p[j].maxStep]
    BY <1>2, <2>1 DEF Patched
  <2>3. map'[j].center = p[j].center
    BY <2>2 DEF MapToolsIInv, MapHolds, MapEntry
  <2>4. CASE mismatch
    BY <2>1, <2>4
  <2>5. CASE ~mismatch
    <3>1. proposal.hash = map /\ ~Blocked(p[j].status, large)
      BY <2>1, <2>2, <2>5 DEF Accepted
    <3>2. Blocked(p[j].status, FALSE)
      BY <2>1, <2>2, <2>3, <3>1 DEF MapToolsIInv, ProposalHolds
    <3> QED
      BY <2>1, <3>1, <3>2 DEF Blocked
  <2> QED
    BY <2>4, <2>5
<1> QED
  BY <1>2, <1>3, <1>4 DEF MapToolsNext, Job, Work, ReplaceServo, StartCapture,
     StartSession, CancelCapture, ApplyToMirror, ApplyDies, FinishCapture,
     CaptureJoint, SkipJoint, EndSession, BreakSession, Render, mapVars

\* No centre moves by more than inspect_threshold_steps without the operator's word for
\* it, however old the proposal, and whatever was rendered and installed in between.
THEOREM LargeMovesReviewed == MapToolsSpec => LargeMovesAreReviewed
<1> DEFINE Step ==
      (\E j \in Joints : Magnitude(map'[j].center - map[j].center) > Inspect)
        => applied'.large \/ applied'.mismatch
<1>1. ASSUME MapAssumption PROVE MapToolsSpec => LargeMovesAreReviewed
  <2>1. MapToolsIInv /\ [MapToolsNext]_mapToolsVars => [Step]_mapToolsVars
    BY <1>1, LargeMoveStep
  <2>2. LargeMovesAreReviewed <=> [][Step]_mapToolsVars
    BY DEF LargeMovesAreReviewed
  <2>3. MapToolsSpec => []MapToolsIInv
    BY <1>1, MapInvariance
  <2> HIDE DEF Step
  <2> QED
    BY <2>1, <2>2, <2>3, PTL DEF MapToolsSpec
<1> QED
  BY <1>1, ServoMapAssumption, ThresholdAssumption, MarginAssumption
     DEF MapAssumption, ServoMapAssumption, ThresholdAssumption, MarginAssumption

\* What is written to the mirror, and what is remembered of an apply, is well-formed.
MirrorEntry == [center : Int, minStep : Int, maxStep : Int]
WritingIsTyped ==
  /\ mirror \in [Joints -> MirrorEntry]
  /\ unmirrored \in [Joints -> MirrorEntry] \cup {NoProposal}
  /\ applied \in [joints : SUBSET Joints, sync : BOOLEAN, large : BOOLEAN, mismatch : BOOLEAN,
                  done : BOOLEAN]

LEMMA WritingInit == MapAssumption /\ MapToolsInit => WritingIsTyped
<1> SUFFICES ASSUME MapAssumption, MapToolsInit PROVE WritingIsTyped
  OBVIOUS
<1>1. MapHolds(map, sound)
  BY MapInitInv DEF MapToolsIInv
<1>2. \A j \in Joints : MirrorOf(map[j]) \in MirrorEntry
  BY <1>1 DEF MapHolds, MapEntry, MirrorOf, MirrorEntry
<1> QED
  BY <1>2 DEF MapToolsInit, ServoMapInit, CalibrationInit, Nothing, WritingIsTyped

LEMMA WritingStep ==
  ASSUME MapAssumption, MapToolsIInv, WritingIsTyped, [MapToolsNext]_mapToolsVars
  PROVE  WritingIsTyped'
<1>1. ASSUME NEW large \in BOOLEAN, NEW mismatch \in BOOLEAN, NEW sync \in BOOLEAN,
             ApplyToMap(large, mismatch, sync)
      PROVE  WritingIsTyped'
  <2> DEFINE p == proposal.joints
  <2>1. /\ proposal # NoProposal /\ mirror' = mirror
        /\ unmirrored' = IF MirrorDue(p, sync) THEN MirrorText(p) ELSE NoProposal
        /\ applied' = [joints |-> DOMAIN p, sync |-> sync, large |-> large,
                       mismatch |-> mismatch, done |-> ~MirrorDue(p, sync)]
    BY <1>1 DEF ApplyToMap
  <2>2. /\ DOMAIN p \subseteq Joints /\ proposal.hash \in [Joints -> MapEntry]
        /\ \A j \in DOMAIN p :
             LET old == proposal.hash[j]
                 raw == RawLimits(j, p[j].center, old.lower, old.upper)
             IN  p[j].center \in Int /\ p[j].minStep = raw.minStep /\ p[j].maxStep = raw.maxStep
    BY <2>1 DEF MapToolsIInv, ProposalHolds
  <2> HIDE DEF p
  <2>3. ASSUME NEW j \in DOMAIN p PROVE MirrorOf(p[j]) \in MirrorEntry
    <3>1. proposal.hash[j].lower \in Int /\ proposal.hash[j].upper \in Int /\ j \in Joints
      BY <2>2 DEF MapEntry
    <3>2. p[j].center \in Int /\ p[j].minStep \in Int /\ p[j].maxStep \in Int
      BY <2>2, <3>1, RawLimitsOrdered
    <3> QED
      BY <3>2 DEF MirrorOf, MirrorEntry
  <2>4. MirrorText(p) \in [Joints -> MirrorEntry]
    <3>1. \A j \in Joints : mirror[j] \in MirrorEntry
      BY DEF WritingIsTyped
    <3> QED
      BY <2>3, <3>1 DEF MirrorText
  <2>5. MirrorDue(p, sync) \in BOOLEAN
    BY DEF MirrorDue
  <2> QED
    BY <2>1, <2>2, <2>4, <2>5 DEF WritingIsTyped
<1>2. CASE ApplyToMirror
  BY <1>2 DEF ApplyToMirror, WritingIsTyped
<1>3. CASE ApplyDies
  BY <1>3 DEF ApplyDies, WritingIsTyped, mapVars
<1>4. CASE InstallRendered
  BY <1>4 DEF InstallRendered, WritingIsTyped, Nothing
<1>5. CASE UNCHANGED <<mirror, unmirrored, applied>>
  BY <1>5 DEF WritingIsTyped
<1> QED
  BY <1>1, <1>2, <1>3, <1>4, <1>5 DEF MapToolsNext, Job, Work, ReplaceServo, StartCapture,
     StartSession, CancelCapture, FinishCapture, CaptureJoint, SkipJoint, EndSession, BreakSession,
     Render, mapToolsVars, calibrationVars, mapVars

JobsAreCounted == jobs \in 0 .. MaxJobs

LEMMA JobsCounted ==
  ASSUME MaxJobs \in Nat, JobsAreCounted, [MapToolsNext]_mapToolsVars
  PROVE  JobsAreCounted'
<1>1. CASE Job
  BY <1>1 DEF Job, JobsAreCounted
<1>2. CASE Work \/ UNCHANGED mapToolsVars
  BY <1>2 DEF Work, mapToolsVars, JobsAreCounted
<1> QED
  BY <1>1, <1>2 DEF MapToolsNext

\* The files, and what a tool holds between reading and writing them, are well-formed.
THEOREM MapTypes == MapToolsSpec => []MapToolsTypeOK
<1>1. ASSUME MapAssumption, MaxJobs \in Nat PROVE MapToolsSpec => []MapToolsTypeOK
  <2>1. MapToolsInit => WritingIsTyped /\ JobsAreCounted
    BY <1>1, WritingInit DEF MapToolsInit, JobsAreCounted
  <2>2. MapToolsIInv /\ WritingIsTyped /\ JobsAreCounted /\ [MapToolsNext]_mapToolsVars
          => WritingIsTyped' /\ JobsAreCounted'
    BY <1>1, WritingStep, JobsCounted
  <2>3. MapToolsIInv /\ WritingIsTyped /\ JobsAreCounted => MapToolsTypeOK
    BY DEF MapToolsIInv, MapHolds, WritingIsTyped, MirrorEntry, JobsAreCounted, MapToolsTypeOK,
       ServoMapTypeOK
  <2>4. MapToolsSpec => []MapToolsIInv
    BY <1>1, MapInvariance
  <2> QED
    BY <2>1, <2>2, <2>3, <2>4, PTL DEF MapToolsSpec
<1> QED
  BY <1>1, ServoMapAssumption, ThresholdAssumption, MarginAssumption, JobsAssumption
     DEF MapAssumption, ServoMapAssumption, ThresholdAssumption, MarginAssumption, JobsAssumption

\* What is reported of a capture: no training limits beyond the measured ones are called inside.
LEMMA ComparisonHolds ==
  ASSUME MarginAssumption, ServoMapAssumption
  PROVE  ComparisonIsSound
<1> DEFINE Ranges == {r \in [lower : -4 .. 3, upper : -3 .. 4] : r.lower < r.upper}
           In == {"MATCH", "TRAINING_TRIMMED_INSIDE_HARDWARE"}
<1>1. MarginSteps \in Nat
  BY DEF MarginAssumption
<1>2. ASSUME NEW record \in Ranges, NEW training \in Ranges, NEW tolerance \in 0 .. MarginSteps - 1,
             record.lower + MarginSteps < record.upper - MarginSteps
      PROVE  LET c == Compared(record, training, tolerance)
                 beyond == record.lower - training.lower > tolerance
                             \/ training.upper - record.upper > tolerance
             IN  /\ c.physical \in In <=> ~beyond
                 /\ c.safe \in In => c.physical \in In
                 /\ training = record => c.safe = "TRAINING_EXCEEDS_MEASURED_SAFE_RANGE"
  <2>1. /\ record.lower \in Int /\ record.upper \in Int /\ training.lower \in Int
        /\ training.upper \in Int /\ tolerance \in Nat /\ tolerance < MarginSteps
    BY <1>1
  <2> DEFINE safe == [lower |-> record.lower + MarginSteps, upper |-> record.upper - MarginSteps]
  <2>2. /\ Compared(record, training, tolerance).physical = Comparison(record, training, tolerance)
        /\ Compared(record, training, tolerance).safe = Comparison(safe, training, tolerance)
        /\ safe.lower = record.lower + MarginSteps /\ safe.upper = record.upper - MarginSteps
    BY DEF Compared
  <2> HIDE DEF safe
  <2>3. Comparison(record, training, tolerance) \in In <=>
          record.lower - training.lower <= tolerance /\ training.upper - record.upper <= tolerance
    BY <2>1 DEF Comparison
  <2>4. Comparison(safe, training, tolerance) \in In <=>
          safe.lower - training.lower <= tolerance /\ training.upper - safe.upper <= tolerance
    BY <2>1 DEF Comparison
  <2>5. training = record =>
          Comparison(safe, training, tolerance) = "TRAINING_EXCEEDS_MEASURED_SAFE_RANGE"
    BY <1>1, <2>1, <2>2 DEF Comparison
  <2> QED
    BY <1>1, <2>1, <2>2, <2>3, <2>4, <2>5
<1> QED
  BY <1>2 DEF ComparisonIsSound

(***************************************************************************)
(* The wire: sums of bytes, where a frame may begin, and what the read     *)
(* loop makes of a reply that is late, altered, or in noise.               *)
(***************************************************************************)

\* The sum of a sequence, place by place.
LEMMA TotalSteps ==
  ASSUME NEW s \in Seq(Int)
  PROVE  \E h \in [0 .. Len(s) -> Int] :
           h[0] = 0 /\ (\A i \in 1 .. Len(s) : h[i] = h[i - 1] + s[i]) /\ Total(s) = h[Len(s)]
<1> DEFINE n == Len(s)
           V == Int
           b == 0
           F == [i \in 1 .. n |-> [v \in Int |-> v + s[i]]]
           Table(g) == g = [t \in SUBSET (1 .. n) |->
                              IF t = {} THEN b ELSE g[t \ {Max(t)}] + s[Max(t)]]
<1>1. b \in V /\ n \in Nat /\ DOMAIN s = 1 .. n /\ \A i \in 1 .. n : s[i] \in Int
  OBVIOUS
<1>2. F \in [1 .. n -> [V -> V]]
  BY <1>1
<1>3. Total(s) = (CHOOSE g : Table(g))[1 .. n]
  BY <1>1 DEF Total, FoldLeft, MapThenFoldSet
<1>4. \E g : Table(g)
  <2> HIDE DEF n, V, b, F
  <2>1. PICK g : IsFold(g, n, V, b, F)
    BY <1>1, <1>2, FoldExists
  <2>2. ASSUME NEW t \in SUBSET (1 .. n), t # {}
        PROVE  F[Max(t)][g[t \ {Max(t)}]] = g[t \ {Max(t)}] + s[Max(t)]
    <3>1. Max(t) \in 1 .. n /\ t \ {Max(t)} \in SUBSET (1 .. n)
      BY <1>1, <2>2, MaxOfSome
    <3>2. g[t \ {Max(t)}] \in V
      BY <2>1, <3>1 DEF IsFold
    <3> QED
      BY <3>1, <3>2 DEF F, V
  <2>3. Table(g)
    BY <2>1, <2>2 DEF IsFold
  <2> HIDE DEF Table
  <2> QED
    BY <2>3
<1>5. PICK f : Total(s) = f[1 .. n] /\ Table(f)
  <2> HIDE DEF Table, n
  <2> QED
    BY <1>3, <1>4
<1>6. f[{}] = b
  <2> HIDE DEF n, b
  <2> QED
    BY <1>5
<1>7. ASSUME NEW t \in SUBSET (1 .. n), t # {}, f[t \ {Max(t)}] \in V
      PROVE  f[t] = F[Max(t)][f[t \ {Max(t)}]]
  <2>1. Max(t) \in 1 .. n
    BY <1>1, <1>7, MaxOfSome
  <2>2. f[t] = f[t \ {Max(t)}] + s[Max(t)]
    <3> HIDE DEF n, b
    <3> QED
      BY <1>5, <1>7
  <2> QED
    BY <1>7, <2>1, <2>2
<1>8. FoldsBy(f, n, V, b, F)
  <2> HIDE DEF n, V, b, F
  <2> QED
    BY <1>6, <1>7 DEF FoldsBy
<1>9. PICK h : FoldsTo(h, n, V, b, F) /\ h[n] = f[1 .. n]
  <2> HIDE DEF n, V, b, F
  <2> QED
    BY <1>1, <1>2, <1>8, FoldSteps
<1>10. ASSUME NEW i \in 1 .. n
       PROVE  h[i] = h[i - 1] + s[i]
  <2>1. h[i - 1] \in V
    <3>1. i - 1 \in 0 .. n /\ h \in [0 .. n -> V]
      BY <1>1, <1>9 DEF FoldsTo
    <3> HIDE DEF n, V
    <3> QED
      BY <3>1
  <2> QED
    BY <1>9, <2>1 DEF FoldsTo
<1> QED
  BY <1>5, <1>9, <1>10 DEF FoldsTo

\* The sums a frame of this protocol needs.
LEMMA ShortTotals ==
  ASSUME NEW s \in Seq(Int)
  PROVE  /\ Len(s) = 4 => Total(s) = s[1] + s[2] + s[3] + s[4]
         /\ Len(s) = 5 => Total(s) = s[1] + s[2] + s[3] + s[4] + s[5]
         /\ Len(s) = 6 => Total(s) = s[1] + s[2] + s[3] + s[4] + s[5] + s[6]
<1>1. PICK h \in [0 .. Len(s) -> Int] :
        h[0] = 0 /\ (\A i \in 1 .. Len(s) : h[i] = h[i - 1] + s[i]) /\ Total(s) = h[Len(s)]
  BY TotalSteps
<1>2. ASSUME Len(s) >= 4
      PROVE  h[4] = s[1] + s[2] + s[3] + s[4] /\ \A i \in 1 .. 4 : s[i] \in Int
  <2>1. \A i \in 1 .. 4 : s[i] \in Int /\ h[i] = h[i - 1] + s[i]
    <3>1. Len(s) \in Nat /\ \A i \in 1 .. 4 : i \in 1 .. Len(s)
      BY <1>2
    <3> QED
      BY <1>1, <3>1
  <2>2. h[1] = h[0] + s[1] /\ h[2] = h[1] + s[2] /\ h[3] = h[2] + s[3] /\ h[4] = h[3] + s[4]
    BY <2>1
  <2> QED
    BY <1>1, <2>1, <2>2
<1>3. Len(s) >= 5 => h[5] = h[4] + s[5] /\ s[5] \in Int
  BY <1>1
<1>4. Len(s) >= 6 => h[6] = h[5] + s[6] /\ s[6] \in Int
  BY <1>1
<1>5. ASSUME NEW n \in 4 .. 6, Len(s) = n
      PROVE  Total(s) = h[n]
  BY <1>1, <1>5
<1> QED
  BY <1>2, <1>3, <1>4, <1>5

\* A reader that has received nothing.
NoBytes == [rx |-> <<>>, result |-> <<"none">>]

\* What is read from one chunk and from two.
LEMMA ReadOne ==
  ASSUME NEW c, NEW id, NEW strict
  PROVE  ReadFrame(<<c>>, id, strict) = Turn(NoBytes, c, id, strict).result
<1> DEFINE chunks == <<c>>
           Table(g) == g = [t \in SUBSET (1 .. 1) |->
                              IF t = {} THEN NoBytes
                              ELSE Turn(g[t \ {Max(t)}], chunks[Max(t)], id, strict)]
<1>1. DOMAIN chunks = 1 .. 1 /\ chunks[1] = c
  OBVIOUS
<1>2. ReadFrame(chunks, id, strict) = (CHOOSE g : Table(g))[1 .. 1].result
  BY <1>1 DEF ReadFrame, FoldLeft, MapThenFoldSet, NoBytes
<1> HIDE DEF chunks
<1>3. Max({1}) = 1 /\ 1 .. 1 = {1} /\ SUBSET (1 .. 1) = {{}, {1}} /\ {1} \ {1} = {} /\ {1} # {}
  <2>1. 1 \in Nat /\ {1} \in SUBSET (1 .. 1) /\ 1 \in {1}
    OBVIOUS
  <2>2. Max({1}) = 1
    BY <2>1, MaxIsLast
  <2>3. 1 .. 1 = {1}
    OBVIOUS
  <2>4. \A t \in SUBSET {1} : t = {} \/ t = {1}
    OBVIOUS
  <2> QED
    BY <2>2, <2>3, <2>4
<1>4. \E g : Table(g)
  <2> DEFINE g == [t \in SUBSET (1 .. 1) |-> IF t = {} THEN NoBytes ELSE Turn(NoBytes, c, id, strict)]
  <2>1. Table(g)
    <3>1. \A t \in SUBSET (1 .. 1) : t = {} \/ t = {1}
      BY <1>3
    <3>2. g[{}] = NoBytes
      BY <1>3
    <3>3. \A t \in SUBSET (1 .. 1) : t # {} =>
            Turn(NoBytes, c, id, strict) = Turn(g[t \ {Max(t)}], chunks[Max(t)], id, strict)
      BY <1>1, <1>3, <3>1, <3>2
    <3> QED
      BY <3>3
  <2> QED
    BY <2>1
<1>5. PICK f : ReadFrame(chunks, id, strict) = f[1 .. 1].result /\ Table(f)
  <2> HIDE DEF Table
  <2> QED
    BY <1>2, <1>4
<1>6. f[{}] = NoBytes /\ f[{1}] = Turn(f[{}], chunks[1], id, strict)
  <2>1. {} \in SUBSET (1 .. 1) /\ {1} \in SUBSET (1 .. 1)
    BY <1>3
  <2> QED
    BY <1>3, <1>5, <2>1
<1> QED
  BY <1>1, <1>3, <1>5, <1>6 DEF chunks

LEMMA ReadTwo ==
  ASSUME NEW c, NEW d, NEW id, NEW strict
  PROVE  ReadFrame(<<c, d>>, id, strict) = Turn(Turn(NoBytes, c, id, strict), d, id, strict).result
<1> DEFINE chunks == <<c, d>>
           Table(g) == g = [t \in SUBSET (1 .. 2) |->
                              IF t = {} THEN NoBytes
                              ELSE Turn(g[t \ {Max(t)}], chunks[Max(t)], id, strict)]
<1>1. DOMAIN chunks = 1 .. 2 /\ chunks[1] = c /\ chunks[2] = d
  OBVIOUS
<1>2. ReadFrame(chunks, id, strict) = (CHOOSE g : Table(g))[1 .. 2].result
  BY <1>1 DEF ReadFrame, FoldLeft, MapThenFoldSet, NoBytes
<1> HIDE DEF chunks
<1>3. /\ Max({1}) = 1 /\ Max({2}) = 2 /\ Max({1, 2}) = 2 /\ 1 .. 2 = {1, 2}
      /\ SUBSET (1 .. 2) = {{}, {1}, {2}, {1, 2}}
      /\ {1} \ {1} = {} /\ {2} \ {2} = {} /\ {1, 2} \ {2} = {1}
      /\ {1} # {} /\ {2} # {} /\ {1, 2} # {} /\ {1} # {2} /\ {1} # {1, 2} /\ {2} # {1, 2}
  <2>1. /\ 1 \in Nat /\ {1} \in SUBSET (1 .. 1) /\ 1 \in {1}
        /\ 2 \in Nat /\ {2} \in SUBSET (1 .. 2) /\ {1, 2} \in SUBSET (1 .. 2) /\ 2 \in {2}
        /\ 2 \in {1, 2}
    OBVIOUS
  <2>2. Max({1}) = 1 /\ Max({2}) = 2 /\ Max({1, 2}) = 2
    BY <2>1, MaxIsLast
  <2>3. 1 .. 2 = {1, 2}
    OBVIOUS
  <2>4. \A t \in SUBSET {1, 2} : t = {} \/ t = {1} \/ t = {2} \/ t = {1, 2}
    OBVIOUS
  <2>5. /\ {1} \ {1} = {} /\ {2} \ {2} = {} /\ {1, 2} \ {2} = {1}
        /\ {1} # {} /\ {2} # {} /\ {1, 2} # {} /\ {1} # {2} /\ {1} # {1, 2} /\ {2} # {1, 2}
    OBVIOUS
  <2> QED
    BY <2>2, <2>3, <2>4, <2>5
<1>4. \E g : Table(g)
  <2> DEFINE a == Turn(NoBytes, c, id, strict)
             g == [t \in SUBSET (1 .. 2) |->
                     IF t = {} THEN NoBytes ELSE IF t = {1} THEN a
                     ELSE IF t = {2} THEN Turn(NoBytes, d, id, strict) ELSE Turn(a, d, id, strict)]
             Next1(t) == IF t = {} THEN NoBytes
                         ELSE Turn(g[t \ {Max(t)}], chunks[Max(t)], id, strict)
  <2>1. {} \in SUBSET (1 .. 2) /\ {1} \in SUBSET (1 .. 2) /\ {2} \in SUBSET (1 .. 2)
        /\ {1, 2} \in SUBSET (1 .. 2)
    BY <1>3
  <2> HIDE DEF a
  <2>2. /\ g[{}] = NoBytes /\ g[{1}] = a /\ g[{2}] = Turn(NoBytes, d, id, strict)
        /\ g[{1, 2}] = Turn(a, d, id, strict)
    BY <1>3, <2>1
  <2>3. g = [t \in SUBSET (1 .. 2) |-> g[t]]
    OBVIOUS
  <2> HIDE DEF g
  <2>4. ASSUME NEW t \in SUBSET (1 .. 2) PROVE g[t] = Next1(t)
    <3>1. t \in {{}, {1}, {2}, {1, 2}}
      BY <1>3
    <3>2. CASE t = {}
      BY <2>2, <3>2
    <3>3. CASE t = {1}
      BY <1>1, <1>3, <2>2, <3>3 DEF a
    <3>4. CASE t = {2}
      BY <1>1, <1>3, <2>2, <3>4
    <3>5. CASE t = {1, 2}
      BY <1>1, <1>3, <2>2, <3>5
    <3> QED
      BY <3>1, <3>2, <3>3, <3>4, <3>5
  <2>5. Table(g)
    <3>1. g = [t \in SUBSET (1 .. 2) |-> Next1(t)]
      <4> HIDE DEF Next1
      <4> QED
        BY <2>3, <2>4
    <3> QED
      BY <3>1
  <2> HIDE DEF Table
  <2> QED
    BY <2>5
<1>5. PICK f : ReadFrame(chunks, id, strict) = f[1 .. 2].result /\ Table(f)
  <2> HIDE DEF Table
  <2> QED
    BY <1>2, <1>4
<1>6. /\ f[{}] = NoBytes /\ f[{1}] = Turn(f[{}], chunks[1], id, strict)
      /\ f[{1, 2}] = Turn(f[{1}], chunks[2], id, strict)
  <2>1. {} \in SUBSET (1 .. 2) /\ {1} \in SUBSET (1 .. 2) /\ {1, 2} \in SUBSET (1 .. 2)
    BY <1>3
  <2>2. \A t \in SUBSET (1 .. 2) :
          f[t] = IF t = {} THEN NoBytes ELSE Turn(f[t \ {Max(t)}], chunks[Max(t)], id, strict)
    BY <1>5
  <2>3. f[{}] = NoBytes
    BY <2>1, <2>2
  <2>4. f[{1}] = Turn(f[{1} \ {Max({1})}], chunks[Max({1})], id, strict)
    BY <1>3, <2>1, <2>2
  <2>5. f[{1, 2}] = Turn(f[{1, 2} \ {Max({1, 2})}], chunks[Max({1, 2})], id, strict)
    BY <1>3, <2>1, <2>2
  <2> QED
    BY <1>3, <2>3, <2>4, <2>5
<1> QED
  BY <1>1, <1>3, <1>5, <1>6 DEF chunks

\* Either part of a concatenation.
LEMMA ConcatParts ==
  ASSUME NEW S, NEW p \in Seq(S), NEW q \in Seq(S)
  PROVE  /\ p \o q \in Seq(S) /\ Len(p \o q) = Len(p) + Len(q)
         /\ \A i \in 1 .. Len(p) : (p \o q)[i] = p[i]
         /\ \A i \in 1 .. Len(q) : (p \o q)[Len(p) + i] = q[i]
<1>1. Len(p) \in Nat /\ Len(q) \in Nat
  OBVIOUS
<1>2. /\ p \o q \in Seq(S) /\ Len(p \o q) = Len(p) + Len(q)
      /\ \A i \in 1 .. Len(p) + Len(q) : (p \o q)[i] = IF i <= Len(p) THEN p[i] ELSE q[i - Len(p)]
  BY ConcatProperties
<1>3. \A i \in 1 .. Len(p) : i \in 1 .. Len(p) + Len(q) /\ i <= Len(p)
  BY <1>1
<1>4. \A i \in 1 .. Len(q) : /\ Len(p) + i \in 1 .. Len(p) + Len(q) /\ ~(Len(p) + i <= Len(p))
                             /\ (Len(p) + i) - Len(p) = i
  BY <1>1
<1>5. \A i \in 1 .. Len(p) : (p \o q)[i] = p[i]
  BY <1>2, <1>3
<1>6. \A i \in 1 .. Len(q) : (p \o q)[Len(p) + i] = q[i]
  BY <1>2, <1>4
<1> QED
  BY <1>2, <1>5, <1>6

\* The first place where a frame may begin.
MayBegin(rx, k) == Len(rx) - k < 2 \/ (rx[k + 1] = Header /\ rx[k + 2] = Header)

LEMMA AlignedAt ==
  ASSUME NEW rx, Len(rx) \in Nat, NEW k \in 0 .. Len(rx), MayBegin(rx, k),
         \A j \in 0 .. k - 1 : ~MayBegin(rx, j)
  PROVE  Aligned(rx) = SubSeq(rx, k + 1, Len(rx))
<1> DEFINE BeginsAt(i) == MayBegin(rx, i) /\ \A j \in 0 .. i - 1 : ~MayBegin(rx, j)
           c == CHOOSE i \in 0 .. Len(rx) : BeginsAt(i)
<1>1. BeginsAt(k)
  OBVIOUS
<1>2. c \in 0 .. Len(rx) /\ BeginsAt(c)
  <2> HIDE DEF BeginsAt
  <2> QED
    BY <1>1
<1>3. ASSUME NEW i \in 0 .. Len(rx), BeginsAt(i) PROVE i = k
  <2>1. ~(i < k)
    BY <1>1, <1>3
  <2>2. ~(k < i)
    BY <1>1, <1>3
  <2> QED
    BY <2>1, <2>2
<1>4. c = k
  BY <1>2, <1>3
<1>5. Aligned(rx) = SubSeq(rx, c + 1, Len(rx))
  BY DEF Aligned, MayBegin
<1> QED
  BY <1>4, <1>5

\* r is p and then q, which are sequences of numbers.
IsJoin(r, p, q) ==
  /\ r \in Seq(Int) /\ Len(p) \in Nat /\ Len(q) \in Nat /\ Len(r) = Len(p) + Len(q)
  /\ \A i \in 1 .. Len(p) : r[i] = p[i]
  /\ \A i \in 1 .. Len(q) : r[Len(p) + i] = q[i]

LEMMA JoinIs ==
  ASSUME NEW p \in Seq(Int), NEW q \in Seq(Int)
  PROVE  IsJoin(p \o q, p, q)
<1>1. Len(p) \in Nat /\ Len(q) \in Nat
  OBVIOUS
<1> QED
  BY <1>1, ConcatParts DEF IsJoin

\* A part of a sequence, place by place.
LEMMA PartOf ==
  ASSUME NEW s \in Seq(Int), NEW m \in 1 .. Len(s) + 1, NEW n \in m - 1 .. Len(s)
  PROVE  /\ SubSeq(s, m, n) \in Seq(Int) /\ Len(SubSeq(s, m, n)) = n - m + 1
         /\ \A i \in 1 .. n - m + 1 : SubSeq(s, m, n)[i] = s[m + i - 1]
<1>1. Len(s) \in Nat /\ m \in Int /\ n \in Int
  OBVIOUS
<1>2. \A i \in m .. n : s[i] \in Int
  BY <1>1
<1> QED
  BY <1>1, <1>2, SubSeqProperties

\* A packet with one or two bytes of parameters.
IsPacket(s, id, params, n) ==
  /\ s \in Seq(Int) /\ Len(s) = n + 6
  /\ s[1] = 255 /\ s[2] = 255 /\ s[3] = id /\ s[4] = n + 2 /\ s[5] = 0
  /\ s[6] = params[1]
  /\ n = 2 => /\ s[7] = params[2]
              /\ s[8] = 255 - ((id + 4 + params[1] + params[2]) % 256)

LEMMA PacketIs ==
  ASSUME NEW id \in Int, NEW params \in Seq(Int), NEW n \in 1 .. 2, Len(params) = n
  PROVE  IsPacket(Packet(id, 0, params), id, params, n)
<1> DEFINE s == Packet(id, 0, params)
           opening == <<id, n + 2, 0>>
           b == opening \o params
           head == <<Header, Header>>
           sum == Total(b) % 256
           tail == <<255 - sum>>
           hb == head \o b
<1>1. s = hb \o tail
  BY DEF Packet
<1> HIDE DEF s
<1>2. /\ opening \in Seq(Int) /\ Len(opening) = 3 /\ opening[1] = id /\ opening[2] = n + 2
      /\ opening[3] = 0
  OBVIOUS
<1>3. head \in Seq(Int) /\ Len(head) = 2 /\ head[1] = 255 /\ head[2] = 255
  BY DEF Header
<1>4. IsJoin(b, opening, params)
  <2> HIDE DEF opening
  <2> QED
    BY <1>2, JoinIs
<1> HIDE DEF b
<1>5. /\ b \in Seq(Int) /\ Len(b) = 3 + n /\ b[1] = id /\ b[2] = n + 2 /\ b[3] = 0
      /\ b[4] = params[1] /\ (n = 2 => b[5] = params[2])
  <2> HIDE DEF opening
  <2>1. /\ b \in Seq(Int) /\ Len(b) = 3 + n /\ (\A i \in 1 .. 3 : b[i] = opening[i])
        /\ \A i \in 1 .. n : b[3 + i] = params[i]
    BY <1>2, <1>4 DEF IsJoin
  <2>2. b[3 + 1] = params[1] /\ (n = 2 => b[3 + 2] = params[2])
    BY <2>1
  <2> QED
    BY <1>2, <2>1, <2>2
<1>6. sum \in 0 .. 255
  <2>1. PICK h \in [0 .. Len(b) -> Int] : Total(b) = h[Len(b)]
    BY <1>5, TotalSteps
  <2>2. Total(b) \in Int
    BY <1>5, <2>1
  <2>3. \A t \in Int : t % 256 \in 0 .. 255
    OBVIOUS
  <2> QED
    BY <2>2, <2>3
<1>7. n = 2 => Total(b) = id + 4 + params[1] + params[2]
  <2>1. n = 2 => Total(b) = b[1] + b[2] + b[3] + b[4] + b[5]
    BY <1>5, ShortTotals
  <2>2. params[1] \in Int /\ (n = 2 => params[2] \in Int)
    OBVIOUS
  <2> QED
    BY <1>5, <2>1, <2>2
<1> HIDE DEF sum
<1>8. tail \in Seq(Int) /\ Len(tail) = 1 /\ tail[1] = 255 - sum
  BY <1>6
<1>9. IsJoin(hb, head, b)
  <2> HIDE DEF head
  <2> QED
    BY <1>3, <1>5, JoinIs
<1> HIDE DEF hb, head
<1>10. hb \in Seq(Int) /\ Len(hb) = 5 + n
  BY <1>3, <1>5, <1>9 DEF IsJoin
<1>11. IsJoin(s, hb, tail)
  <2> HIDE DEF tail
  <2> QED
    BY <1>1, <1>8, <1>10, JoinIs
<1> HIDE DEF tail
<1>12. /\ hb[1] = 255 /\ hb[2] = 255 /\ hb[3] = id /\ hb[4] = n + 2 /\ hb[5] = 0
       /\ hb[6] = params[1] /\ (n = 2 => hb[7] = params[2])
  <2>1. (\A i \in 1 .. 2 : hb[i] = head[i]) /\ \A i \in 1 .. 3 + n : hb[2 + i] = b[i]
    BY <1>3, <1>5, <1>9 DEF IsJoin
  <2>2. /\ hb[2 + 1] = b[1] /\ hb[2 + 2] = b[2] /\ hb[2 + 3] = b[3] /\ hb[2 + 4] = b[4]
        /\ (n = 2 => hb[2 + 5] = b[5])
    BY <2>1
  <2> QED
    BY <1>3, <1>5, <2>1, <2>2
<1>13. /\ s \in Seq(Int) /\ Len(s) = 6 + n /\ (\A i \in 1 .. 5 + n : s[i] = hb[i])
       /\ s[5 + n + 1] = tail[1]
  BY <1>8, <1>10, <1>11 DEF IsJoin
<1>14. /\ s[1] = 255 /\ s[2] = 255 /\ s[3] = id /\ s[4] = n + 2 /\ s[5] = 0
       /\ s[6] = params[1] /\ (n = 2 => s[7] = params[2])
  <2>1. \A i \in 1 .. 5 + n : s[i] = hb[i]
    BY <1>13
  <2>2. \A i \in 1 .. 6 : i \in 1 .. 5 + n
    OBVIOUS
  <2>3. n = 2 => 7 \in 1 .. 5 + n
    OBVIOUS
  <2> QED
    BY <1>12, <2>1, <2>2, <2>3
<1>15. n = 2 => s[8] = 255 - ((id + 4 + params[1] + params[2]) % 256)
  <2>1. n = 2 => s[8] = 255 - sum
    BY <1>8, <1>13
  <2> QED
    BY <1>7, <2>1 DEF sum
<1> QED
  BY <1>13, <1>14, <1>15 DEF IsPacket, s

\* A reply of a servo with two bytes of data.
ReplyFields(s) ==
  /\ s[1] = 255 /\ s[2] = 255 /\ s[3] \in {1, 4} /\ s[4] = 4 /\ s[5] = 0
  /\ s[6] \in {0, 255} /\ s[7] \in {0, 2, 128} /\ s[8] \in 0 .. 254
ReplySum(s) == (s[3] + 4 + s[6] + s[7] + s[8]) % 256 = 255
IsReply(s) == s \in Seq(Int) /\ Len(s) = 8 /\ ReplyFields(s) /\ ReplySum(s)

LEMMA RepliesAreReplies ==
  ASSUME NEW s \in Replies PROVE IsReply(s)
<1>1. PICK id \in {1, 4}, low \in {0, 255}, high \in {0, 2, 128} : s = Packet(id, 0, <<low, high>>)
  BY DEF Replies
<1> DEFINE params == <<low, high>>
<1>2. /\ params \in Seq(Int) /\ Len(params) = 2 /\ params[1] = low /\ params[2] = high
      /\ id \in Int /\ 2 \in 1 .. 2
  OBVIOUS
<1>3. s = Packet(id, 0, params)
  BY <1>1
<1> HIDE DEF params
<1>4. /\ s \in Seq(Int) /\ Len(s) = 8 /\ s[1] = 255 /\ s[2] = 255 /\ s[3] = id /\ s[4] = 4
      /\ s[5] = 0 /\ s[6] = low /\ s[7] = high /\ s[8] = 255 - ((id + 4 + low + high) % 256)
  <2>1. IsPacket(s, id, params, 2)
    BY <1>2, <1>3, PacketIs
  <2> QED
    BY <1>2, <2>1 DEF IsPacket
<1>5. /\ s[8] \in 0 .. 254 /\ (s[3] + 4 + s[6] + s[7] + s[8]) % 256 = 255
  <2>1. LET t == id + 4 + low + high
            c == 255 - (t % 256)
        IN  c \in 0 .. 254 /\ (t + c) % 256 = 255
    <3>1. id \in {1, 4} /\ low \in {0, 255} /\ high \in {0, 2, 128}
      OBVIOUS
    <3> QED
      BY <3>1
  <2> QED
    BY <1>4, <2>1
<1> QED
  BY <1>4, <1>5 DEF IsReply, ReplyFields, ReplySum

\* s is the n bytes of b after the first k.
IsPart(s, b, k, n) == s \in Seq(Int) /\ Len(s) = n /\ \A i \in 1 .. n : s[i] = b[k + i]

LEMMA PartIs ==
  ASSUME NEW b \in Seq(Int), NEW k \in Nat, NEW n \in Nat, k + n <= Len(b)
  PROVE  IsPart(SubSeq(b, k + 1, k + n), b, k, n)
<1> DEFINE s == SubSeq(b, k + 1, k + n)
<1>1. Len(b) \in Nat /\ k + 1 \in 1 .. Len(b) + 1 /\ k + n \in (k + 1) - 1 .. Len(b)
  OBVIOUS
<1>2. /\ s \in Seq(Int) /\ Len(s) = (k + n) - (k + 1) + 1
      /\ \A i \in 1 .. (k + n) - (k + 1) + 1 : s[i] = b[(k + 1) + i - 1]
  BY <1>1, PartOf
<1> HIDE DEF s
<1>3. (k + n) - (k + 1) + 1 = n /\ \A i \in Int : (k + 1) + i - 1 = k + i
  OBVIOUS
<1>4. \A i \in 1 .. n : s[i] = b[k + i]
  BY <1>2, <1>3
<1> QED
  BY <1>2, <1>3, <1>4 DEF IsPart, s

\* k bytes are dropped before a frame may begin.
Drops(b, k) == k \in 0 .. Len(b) /\ MayBegin(b, k) /\ \A j \in 0 .. k - 1 : ~MayBegin(b, j)

LEMMA AlignedPart ==
  ASSUME NEW b \in Seq(Int), NEW k \in Nat, Drops(b, k)
  PROVE  Aligned(b) = SubSeq(b, k + 1, Len(b)) /\ IsPart(Aligned(b), b, k, Len(b) - k)
<1>1. Len(b) \in Nat /\ k \in 0 .. Len(b) /\ MayBegin(b, k) /\ \A j \in 0 .. k - 1 : ~MayBegin(b, j)
  BY DEF Drops
<1>2. Aligned(b) = SubSeq(b, k + 1, Len(b))
  BY <1>1, AlignedAt
<1>3. Len(b) - k \in Nat /\ k + (Len(b) - k) = Len(b) /\ k + (Len(b) - k) <= Len(b)
  BY <1>1
<1>4. IsPart(SubSeq(b, k + 1, k + (Len(b) - k)), b, k, Len(b) - k)
  BY <1>3, PartIs
<1> QED
  BY <1>2, <1>3, <1>4

\* The bytes of the frame that begins after k bytes end before the frame does.
Waits(b, k) ==
  Len(b) - k < 4 \/ (b[k + 4] \in 2 .. 256 /\ Len(b) - k < 4 + b[k + 4])

\* A reader that waits holds b when the chunk has arrived.
Gets(reader, chunk, b) ==
  reader.result = <<"none">> /\ b \in Seq(Int) /\ b = reader.rx \o chunk

LEMMA Sizes ==
  ASSUME NEW rx \in Seq(Int)
  PROVE  /\ Malformed(rx) <=> Len(rx) >= 4 /\ rx[4] \notin 2 .. 256
         /\ Complete(rx) <=> Len(rx) >= 4 /\ rx[4] \in 2 .. 256 /\ Len(rx) >= 4 + rx[4]
<1>1. Len(rx) \in Nat /\ (Len(rx) >= 4 => rx[4] \in Int)
  OBVIOUS
<1>2. \A y \in Int : 4 + y \in 6 .. 260 <=> y \in 2 .. 256
  OBVIOUS
<1>3. Malformed(rx) <=> Len(rx) >= 4 /\ rx[4] \notin 2 .. 256
  <2>1. Len(rx) >= 4 => (4 + rx[4] \in 6 .. 260 <=> rx[4] \in 2 .. 256)
    BY <1>1, <1>2
  <2> QED
    BY <2>1, Zenon DEF Malformed
<1>4. Complete(rx) <=> Len(rx) >= 4 /\ rx[4] \in 2 .. 256 /\ Len(rx) >= 4 + rx[4]
  BY <1>3, Zenon DEF Complete
<1> QED
  BY <1>3, <1>4

LEMMA FourthOfPart ==
  ASSUME NEW s, NEW b \in Seq(Int), NEW k \in Nat, IsPart(s, b, k, Len(b) - k), Len(b) - k >= 4
  PROVE  s[4] = b[k + 4] /\ s[4] \in Int
<1>1. Len(b) \in Nat /\ 4 \in 1 .. Len(b) - k
  OBVIOUS
<1>2. s \in Seq(Int) /\ Len(s) = Len(b) - k /\ s[4] = b[k + 4]
  BY <1>1 DEF IsPart
<1>3. s[4] \in Int
  BY <1>1, <1>2
<1> QED
  BY <1>2, <1>3

LEMMA TurnWaits ==
  ASSUME NEW reader, NEW chunk, NEW b, Gets(reader, chunk, b), NEW k \in Nat, Drops(b, k), Waits(b, k), NEW id, NEW strict
  PROVE  Turn(reader, chunk, id, strict) = [rx |-> SubSeq(b, k + 1, Len(b)), result |-> <<"none">>]
<1> b \in Seq(Int) /\ reader.result = <<"none">>
  BY DEF Gets
<1> DEFINE rx == Aligned(b)
<1>1. rx = SubSeq(b, k + 1, Len(b)) /\ IsPart(rx, b, k, Len(b) - k)
  BY AlignedPart
<1> HIDE DEF rx
<1>2. /\ Len(b) \in Nat /\ rx \in Seq(Int) /\ Len(rx) = Len(b) - k
      /\ Len(b) - k >= 4 => rx[4] = b[k + 4]
  BY <1>1, FourthOfPart DEF IsPart
<1>3. ~Malformed(rx) /\ ~Complete(rx)
  <2>1. CASE Len(b) - k < 4
    <3>1. ~(Len(rx) >= 4)
      BY <1>2, <2>1
    <3> QED
      BY <1>2, <3>1, Sizes
  <2>2. CASE Len(b) - k >= 4 /\ b[k + 4] \in 2 .. 256 /\ Len(b) - k < 4 + b[k + 4]
    <3>1. rx[4] \in 2 .. 256 /\ Len(rx) < 4 + rx[4]
      BY <1>2, <2>2
    <3>2. Len(rx) \in Int /\ \A x \in Int, y \in 2 .. 256 : x < 4 + y => ~(x >= 4 + y)
      BY <1>2
    <3>3. ~(Len(rx) >= 4 + rx[4])
      BY <3>1, <3>2, Zenon
    <3> QED
      BY <1>2, <3>1, <3>3, Sizes
  <2> QED
    BY <1>2, <2>1, <2>2 DEF Waits
<1>4. rx = Aligned(reader.rx \o chunk)
  BY DEF rx, Gets
<1> QED
  BY <1>1, <1>3, <1>4 DEF Turn

LEMMA TurnMalformed ==
  ASSUME NEW reader, NEW chunk, NEW b, Gets(reader, chunk, b), NEW k \in Nat, Drops(b, k), Len(b) - k >= 4, b[k + 4] \notin 2 .. 256,
         NEW id, NEW strict
  PROVE  Turn(reader, chunk, id, strict).result = IF strict THEN <<"malformed">> ELSE <<"none">>
<1> b \in Seq(Int) /\ reader.result = <<"none">>
  BY DEF Gets
<1> DEFINE rx == Aligned(b)
<1>1. IsPart(rx, b, k, Len(b) - k)
  BY AlignedPart
<1> HIDE DEF rx
<1>2. /\ Len(b) \in Nat /\ rx \in Seq(Int) /\ Len(rx) = Len(b) - k
      /\ rx[4] = b[k + 4]
  <2>1. Len(b) \in Nat /\ rx \in Seq(Int) /\ Len(rx) = Len(b) - k
    BY <1>1 DEF IsPart
  <2>2. rx[4] = b[k + 4]
    BY <1>1, FourthOfPart
  <2> QED
    BY <2>1, <2>2
<1>3. Malformed(rx)
  BY <1>2, Sizes
<1>4. rx = Aligned(reader.rx \o chunk)
  BY DEF rx, Gets
<1> QED
  BY <1>3, <1>4 DEF Turn

\* What is made of a frame that is complete.
Verdict(f, id) ==
  IF ~ValidChecksum(f) THEN <<"checksum">>
  ELSE IF f[3] # id THEN <<"wrong_id">> ELSE <<"frame", f>>

\* The bytes of the frame that begins after k bytes are all there.
Completes(b, k) ==
  Len(b) - k >= 4 /\ b[k + 4] \in 2 .. 256 /\ Len(b) - k >= 4 + b[k + 4]

LEMMA TurnFrame ==
  ASSUME NEW reader, NEW chunk, NEW b, Gets(reader, chunk, b), NEW k \in Nat, Drops(b, k), Completes(b, k),
         NEW id, NEW strict
  PROVE  \E f \in Seq(Int) : /\ IsPart(f, b, k, 4 + b[k + 4])
                             /\ Turn(reader, chunk, id, strict).result = Verdict(f, id)
<1> b \in Seq(Int) /\ reader.result = <<"none">>
  BY DEF Gets
<1> DEFINE rx == Aligned(b)
           f == SubSeq(rx, 1, 4 + rx[4])
<1>1. IsPart(rx, b, k, Len(b) - k)
  BY AlignedPart
<1>2. rx = Aligned(reader.rx \o chunk)
  BY DEF Gets
<1> HIDE DEF rx
<1>3. /\ Len(b) \in Nat /\ rx \in Seq(Int) /\ Len(rx) = Len(b) - k
      /\ \A i \in 1 .. Len(b) - k : rx[i] = b[k + i]
  BY <1>1 DEF IsPart
<1>4. rx[4] = b[k + 4] /\ rx[4] \in 2 .. 256 /\ Len(b) - k >= 4 /\ Len(rx) >= 4 + rx[4]
  <2>1. b[k + 4] \in 2 .. 256 /\ Len(b) - k >= 4 /\ Len(b) - k >= 4 + b[k + 4]
    BY DEF Completes
  <2>2. rx[4] = b[k + 4]
    BY <1>1, <2>1, FourthOfPart
  <2> QED
    BY <1>3, <2>1, <2>2
<1>5. ~Malformed(rx) /\ Complete(rx)
  BY <1>3, <1>4, Sizes
<1>6. IsPart(f, rx, 0, 4 + rx[4])
  <2> DEFINE n == 4 + rx[4]
  <2>1. n \in Nat /\ 0 \in Nat /\ 0 + n <= Len(rx) /\ 0 + 1 = 1 /\ 0 + n = n
    <3>1. rx[4] \in Int /\ Len(rx) >= 4 + rx[4]
      BY <1>3, <1>4
    <3>2. \A y \in 2 .. 256 : 4 + y \in Nat /\ 0 + (4 + y) = 4 + y
      OBVIOUS
    <3>3. n \in Nat /\ 0 + n = n /\ n <= Len(rx)
      <4>1. Len(rx) \in Int /\ \A x \in Int, y \in 2 .. 256 : x >= 4 + y => 4 + y <= x
        BY <1>3
      <4> QED
        BY <1>4, <3>1, <3>2, <4>1, Zenon
    <3> HIDE DEF n
    <3> QED
      BY <3>3
  <2> HIDE DEF n
  <2>2. IsPart(SubSeq(rx, 0 + 1, 0 + n), rx, 0, n)
    BY <1>3, <2>1, PartIs
  <2> QED
    BY <2>1, <2>2 DEF n
<1>7. Turn(reader, chunk, id, strict).result = Verdict(f, id)
  BY <1>2, <1>5 DEF Turn, Verdict
<1> HIDE DEF f
<1>8. f \in Seq(Int) /\ IsPart(f, b, k, 4 + b[k + 4])
  <2>1. f \in Seq(Int) /\ Len(f) = 4 + rx[4] /\ \A i \in 1 .. 4 + rx[4] : f[i] = rx[0 + i]
    BY <1>6 DEF IsPart
  <2>2. \A i \in 1 .. 4 + rx[4] : 0 + i = i /\ i \in 1 .. Len(b) - k
    BY <1>3, <1>4, SMTT(30)
  <2>3. \A i \in 1 .. 4 + rx[4] : f[i] = b[k + i]
    BY <1>3, <2>1, <2>2
  <2> QED
    BY <1>4, <2>1, <2>3 DEF IsPart
<1> QED
  BY <1>7, <1>8

\* The checksums of short frames.
SumOfSix(f) == f[3] + f[4] + f[5] + f[6]
SumOfSeven(f) == f[3] + f[4] + f[5] + f[6] + f[7]
SumOfEight(f) == f[3] + f[4] + f[5] + f[6] + f[7] + f[8]

LEMMA Checksums ==
  ASSUME NEW f \in Seq(Int)
  PROVE  /\ Len(f) = 6 => (ValidChecksum(f) <=> SumOfSix(f) % 256 = 255)
         /\ Len(f) = 7 => (ValidChecksum(f) <=> SumOfSeven(f) % 256 = 255)
         /\ Len(f) = 8 => (ValidChecksum(f) <=> SumOfEight(f) % 256 = 255)
<1>1. ASSUME NEW n \in 6 .. 8, Len(f) = n
      PROVE  /\ ValidChecksum(f) <=> Total(SubSeq(f, 3, n)) % 256 = 255
             /\ n = 6 => Total(SubSeq(f, 3, n)) = SumOfSix(f)
             /\ n = 7 => Total(SubSeq(f, 3, n)) = SumOfSeven(f)
             /\ n = 8 => Total(SubSeq(f, 3, n)) = SumOfEight(f)
  <2> DEFINE s == SubSeq(f, 3, n)
  <2>1. IsPart(s, f, 2, n - 2)
    <3>1. 2 \in Nat /\ n - 2 \in Nat /\ 2 + (n - 2) <= Len(f) /\ 2 + 1 = 3 /\ 2 + (n - 2) = n
      BY <1>1
    <3>2. IsPart(SubSeq(f, 2 + 1, 2 + (n - 2)), f, 2, n - 2)
      BY <3>1, PartIs
    <3> QED
      BY <3>1, <3>2
  <2>2. ValidChecksum(f) <=> Total(s) % 256 = 255
    BY <1>1 DEF ValidChecksum
  <2> HIDE DEF s
  <2>3. /\ s \in Seq(Int) /\ Len(s) = n - 2 /\ s[1] = f[3] /\ s[2] = f[4] /\ s[3] = f[5]
        /\ s[4] = f[6] /\ (n > 6 => s[5] = f[7]) /\ (n > 7 => s[6] = f[8])
    <3>1. s \in Seq(Int) /\ Len(s) = n - 2 /\ \A i \in 1 .. n - 2 : s[i] = f[2 + i]
      BY <2>1 DEF IsPart
    <3>2. /\ s[1] = f[2 + 1] /\ s[2] = f[2 + 2] /\ s[3] = f[2 + 3] /\ s[4] = f[2 + 4]
          /\ (n > 6 => s[5] = f[2 + 5]) /\ (n > 7 => s[6] = f[2 + 6])
      BY <3>1
    <3> QED
      BY <3>1, <3>2
  <2>4. n = 6 => Total(s) = f[3] + f[4] + f[5] + f[6]
    <3>1. n = 6 => Len(s) = 4
      BY <2>3
    <3>2. Len(s) = 4 => Total(s) = s[1] + s[2] + s[3] + s[4]
      BY <2>3, ShortTotals
    <3> QED
      BY <2>3, <3>1, <3>2
  <2>5. n = 7 => Total(s) = f[3] + f[4] + f[5] + f[6] + f[7]
    <3>1. n = 7 => Len(s) = 5
      BY <2>3
    <3>2. Len(s) = 5 => Total(s) = s[1] + s[2] + s[3] + s[4] + s[5]
      BY <2>3, ShortTotals
    <3> QED
      BY <2>3, <3>1, <3>2, SMTT(30)
  <2>6. n = 8 => Total(s) = f[3] + f[4] + f[5] + f[6] + f[7] + f[8]
    <3>1. n = 8 => Len(s) = 6
      BY <2>3
    <3>2. Len(s) = 6 => Total(s) = s[1] + s[2] + s[3] + s[4] + s[5] + s[6]
      BY <2>3, ShortTotals
    <3>3. n = 8 => s[5] = f[7] /\ s[6] = f[8]
      BY <2>3
    <3> QED
      BY <2>3, <3>1, <3>2, <3>3, Zenon
  <2> QED
    BY <2>2, <2>4, <2>5, <2>6, Zenon DEF s, SumOfSix, SumOfSeven, SumOfEight
<1>2. 6 \in 6 .. 8 /\ 7 \in 6 .. 8 /\ 8 \in 6 .. 8
  OBVIOUS
<1>3. ASSUME Len(f) = 6 PROVE ValidChecksum(f) <=> SumOfSix(f) % 256 = 255
  BY <1>1, <1>2, <1>3
<1>4. ASSUME Len(f) = 7 PROVE ValidChecksum(f) <=> SumOfSeven(f) % 256 = 255
  BY <1>1, <1>2, <1>4
<1>5. ASSUME Len(f) = 8 PROVE ValidChecksum(f) <=> SumOfEight(f) % 256 = 255
  BY <1>1, <1>2, <1>5
<1> QED
  BY <1>3, <1>4, <1>5

\* No frame begins in the first k bytes.
NoneBefore(b, k) == \A j \in 0 .. k - 1 : ~(b[j + 1] = 255 /\ b[j + 2] = 255)

LEMMA DropsTo ==
  ASSUME NEW b \in Seq(Int), NEW k \in Nat, k + 2 <= Len(b), b[k + 1] = 255, b[k + 2] = 255,
         NoneBefore(b, k)
  PROVE  Drops(b, k)
<1>1. Len(b) \in Nat /\ k \in 0 .. Len(b)
  OBVIOUS
<1>2. MayBegin(b, k)
  BY DEF MayBegin, Header
<1>3. ASSUME NEW j \in 0 .. k - 1 PROVE ~MayBegin(b, j)
  <2>1. ~(Len(b) - j < 2)
    BY <1>1
  <2> QED
    BY <2>1 DEF NoneBefore, MayBegin, Header
<1> QED
  BY <1>1, <1>2, <1>3 DEF Drops

\* What replies are made of, with their types.
LEMMA ReplyBytes ==
  ASSUME NEW r, IsReply(r)
  PROVE  /\ r \in Seq(Int) /\ Len(r) = 8 /\ r[1] = 255 /\ r[2] = 255 /\ r[4] = 4 /\ r[5] = 0
         /\ r[3] \in 0 .. 255 /\ r[6] \in 0 .. 255 /\ r[7] \in 0 .. 255 /\ r[8] \in 0 .. 255
<1>1. ReplyFields(r)
  BY DEF IsReply
<1>2. r[3] \in 0 .. 255
  BY <1>1 DEF ReplyFields
<1>3. r[6] \in 0 .. 255
  BY <1>1 DEF ReplyFields
<1>4. r[7] \in 0 .. 255
  BY <1>1 DEF ReplyFields
<1>5. r[8] \in 0 .. 255
  BY <1>1 DEF ReplyFields
<1> QED
  BY <1>1, <1>2, <1>3, <1>4, <1>5 DEF IsReply, ReplyFields

\* The frame r is what there is after k bytes.
Holds(b, k, r) == Len(b) >= k + 8 /\ \A i \in 1 .. 8 : b[k + i] = r[i]

\* A reply that is all there, with nothing before it that looks like a frame, is the
\* frame that is found.
LEMMA WholeFrame ==
  ASSUME NEW r, IsReply(r), NEW reader, NEW chunk, NEW b, Gets(reader, chunk, b), NEW k \in Nat, Holds(b, k, r),
         NoneBefore(b, k), NEW id, NEW strict
  PROVE  Turn(reader, chunk, id, strict).result =
           IF r[3] # id THEN <<"wrong_id">> ELSE <<"frame", r>>
<1> b \in Seq(Int)
  BY DEF Gets
<1>1. /\ r \in Seq(Int) /\ Len(r) = 8 /\ r[1] = 255 /\ r[2] = 255 /\ r[4] = 4 /\ r[5] = 0
  BY ReplyBytes
<1>2. b[k + 1] = 255 /\ b[k + 2] = 255 /\ b[k + 4] = 4
  BY <1>1 DEF Holds
<1>3. Len(b) \in Nat /\ k + 2 <= Len(b) /\ Len(b) - k >= 4 /\ Len(b) - k >= 4 + 4
  <2>1. Len(b) \in Nat /\ Len(b) >= k + 8
    BY DEF Holds
  <2> QED
    BY <2>1
<1>4. Drops(b, k)
  BY <1>2, <1>3, DropsTo
<1>5. b[k + 4] \in 2 .. 256 /\ Len(b) - k >= 4 + b[k + 4] /\ 4 + b[k + 4] = 8
  BY <1>2, <1>3
<1>6. Completes(b, k)
  BY <1>3, <1>5 DEF Completes
<1>7. PICK f \in Seq(Int) : /\ IsPart(f, b, k, 4 + b[k + 4])
                            /\ Turn(reader, chunk, id, strict).result = Verdict(f, id)
  BY <1>4, <1>6, TurnFrame
<1>8. IsPart(f, b, k, 8)
  BY <1>5, <1>7
<1>9. f = r
  <2>1. Len(f) = 8 /\ \A i \in 1 .. 8 : f[i] = r[i]
    BY <1>8 DEF IsPart, Holds
  <2>2. Len(f) = Len(r) /\ \A i \in 1 .. Len(f) : f[i] = r[i]
    BY <1>1, <2>1
  <2> QED
    BY <1>1, <2>2, SeqEqual, Zenon
<1>10. ValidChecksum(r)
  <2>1. ValidChecksum(r) <=> SumOfEight(r) % 256 = 255
    BY <1>1, Checksums
  <2>2. SumOfEight(r) = r[3] + 4 + r[6] + r[7] + r[8]
    <3>1. r[3] \in Int /\ r[6] \in Int /\ r[7] \in Int /\ r[8] \in Int
      BY ReplyBytes, SMTT(30)
    <3> QED
      BY <1>1, <3>1 DEF SumOfEight
  <2> QED
    BY <2>1, <2>2 DEF IsReply, ReplySum
<1> QED
  BY <1>7, <1>9, <1>10 DEF Verdict

\* What read_bytes makes of a frame.
LEMMA DataOf ==
  ASSUME NEW r, IsReply(r), NEW chunks, NEW id, NEW strict,
         ReadFrame(chunks, id, strict) = <<"frame", r>>
  PROVE  /\ ReadBytes(chunks, id, 2, strict) = <<"data", SubSeq(r, 6, 7)>>
         /\ ReadBytes(chunks, id, 1, strict) = <<"length">>
<1>1. Len(r) = 8 /\ r[5] = 0
  BY ReplyBytes
<1>2. 6 + 2 = 8 /\ 6 + 1 # 8 /\ 5 + 2 = 7
  OBVIOUS
<1>3. <<"frame", r>>[1] = "frame" /\ <<"frame", r>>[2] = r
  OBVIOUS
<1> QED
  BY <1>1, <1>2, <1>3 DEF ReadBytes

LEMMA NoData ==
  ASSUME NEW chunks, NEW id, NEW strict, NEW n, ReadFrame(chunks, id, strict)[1] # "frame"
  PROVE  ReadBytes(chunks, id, n, strict) = ReadFrame(chunks, id, strict)
  BY DEF ReadBytes

\* The first chunk.
LEMMA FirstChunk ==
  ASSUME NEW c \in Seq(Int)
  PROVE  Gets(NoBytes, c, c)
  BY ConcatEmptySeq DEF Gets, NoBytes

\* A chunk that begins with a reply.
LEMMA FirstReply ==
  ASSUME NEW r, IsReply(r), NEW q \in Seq(Int), NEW id, NEW strict
  PROVE  ReadFrame(<<r \o q>>, id, strict) = IF r[3] # id THEN <<"wrong_id">> ELSE <<"frame", r>>
<1> DEFINE b == r \o q
<1>1. r \in Seq(Int) /\ Len(r) = 8
  BY ReplyBytes
<1>2. IsJoin(b, r, q)
  BY <1>1, JoinIs
<1>3. ReadFrame(<<b>>, id, strict) = Turn(NoBytes, b, id, strict).result
  BY ReadOne
<1> HIDE DEF b
<1>4. b \in Seq(Int) /\ Holds(b, 0, r)
  <2>1. b \in Seq(Int) /\ Len(q) \in Nat /\ Len(b) = 8 + Len(q) /\ \A i \in 1 .. 8 : b[i] = r[i]
    BY <1>1, <1>2 DEF IsJoin
  <2>2. Len(b) >= 0 + 8 /\ \A i \in 1 .. 8 : b[0 + i] = r[i]
    BY <2>1
  <2> QED
    BY <2>1, <2>2 DEF Holds
<1>5. 0 \in Nat /\ NoneBefore(b, 0)
  BY DEF NoneBefore
<1>6. Gets(NoBytes, b, b)
  BY <1>4, FirstChunk
<1>7. Turn(NoBytes, b, id, strict).result = IF r[3] # id THEN <<"wrong_id">> ELSE <<"frame", r>>
  BY <1>4, <1>5, <1>6, WholeFrame
<1> QED
  BY <1>3, <1>7 DEF b

\* A late reply is not taken for another servo's, nor for a shorter register's.
LEMMA LateReplies == LateRepliesAreToldApart
<1> SUFFICES ASSUME NEW late \in Replies, NEW reply \in Replies, NEW strict \in BOOLEAN
             PROVE  LET r == ReadBytes(<<late \o reply>>, reply[3], 2, strict)
                    IN  /\ late[3] # reply[3] => r = <<"wrong_id">>
                        /\ late[3] = reply[3] => r = <<"data", SubSeq(late, 6, 7)>>
                        /\ ReadBytes(<<late \o Packet(late[3], 0, <<1>>)>>, late[3], 1, strict)
                             = <<"length">>
  BY DEF LateRepliesAreToldApart
<1>1. IsReply(late) /\ IsReply(reply)
  BY RepliesAreReplies
<1>2. reply \in Seq(Int) /\ Packet(late[3], 0, <<1>>) \in Seq(Int)
  <2> DEFINE params == <<1>>
  <2>1. params \in Seq(Int) /\ Len(params) = 1 /\ 1 \in 1 .. 2
    OBVIOUS
  <2>2. late[3] \in Int
    BY <1>1, ReplyBytes
  <2> HIDE DEF params
  <2>3. IsPacket(Packet(late[3], 0, params), late[3], params, 1)
    BY <2>1, <2>2, PacketIs
  <2>4. Packet(late[3], 0, params) \in Seq(Int)
    BY <2>3 DEF IsPacket
  <2> QED
    BY <1>1, <2>4, ReplyBytes DEF params
<1> DEFINE first == <<late \o reply>>
           second == <<late \o Packet(late[3], 0, <<1>>)>>
<1>3. ReadFrame(first, reply[3], strict)
        = IF late[3] # reply[3] THEN <<"wrong_id">> ELSE <<"frame", late>>
  BY <1>1, <1>2, FirstReply
<1>4. ReadFrame(second, late[3], strict) = <<"frame", late>>
  <2>1. ReadFrame(second, late[3], strict)
          = IF late[3] # late[3] THEN <<"wrong_id">> ELSE <<"frame", late>>
    BY <1>1, <1>2, FirstReply
  <2> QED
    BY <2>1
<1> HIDE DEF first, second
<1>5. ReadBytes(second, late[3], 1, strict) = <<"length">>
  BY <1>1, <1>4, DataOf
<1>6. late[3] = reply[3] => ReadBytes(first, reply[3], 2, strict) = <<"data", SubSeq(late, 6, 7)>>
  BY <1>1, <1>3, DataOf
<1>7. late[3] # reply[3] => ReadBytes(first, reply[3], 2, strict) = <<"wrong_id">>
  <2>1. <<"wrong_id">>[1] # "frame"
    OBVIOUS
  <2> QED
    BY <1>3, <2>1, NoData
<1> QED
  BY <1>5, <1>6, <1>7 DEF first, second

\* The sign of a position.
LEMMA Positions == PositionsAreDecoded
<1>1. ASSUME NEW reply \in Replies
      PROVE  Position(SubSeq(reply, 6, 7)) \in {0, 255, 512, 767, -255}
  <2>1. IsReply(reply)
    BY RepliesAreReplies
  <2>2. IsPart(SubSeq(reply, 5 + 1, 5 + 2), reply, 5, 2)
    <3>1. reply \in Seq(Int) /\ Len(reply) = 8 /\ 5 \in Nat /\ 2 \in Nat /\ 5 + 2 <= Len(reply)
      BY <2>1, ReplyBytes
    <3> QED
      BY <3>1, PartIs
  <2> DEFINE data == SubSeq(reply, 6, 7)
  <2>3. IsPart(data, reply, 5, 2)
    BY <2>2
  <2> HIDE DEF data
  <2>4. data[1] = reply[6] /\ data[2] = reply[7]
    <3>1. data[1] = reply[5 + 1] /\ data[2] = reply[5 + 2]
      BY <2>3 DEF IsPart
    <3> QED
      BY <3>1
  <2>5. reply[6] \in {0, 255} /\ reply[7] \in {0, 2, 128}
    BY <2>1 DEF IsReply, ReplyFields
  <2>6. \A low \in {0, 255}, high \in {0, 2, 128} :
          LET raw == low + 256 * high
          IN  (IF raw >= 32768 THEN 32768 - raw ELSE raw) \in {0, 255, 512, 767, -255}
    OBVIOUS
  <2>7. Position(data) \in {0, 255, 512, 767, -255}
    BY <2>4, <2>5, <2>6 DEF Position
  <2> QED
    BY <2>7 DEF data
<1>2. ASSUME NEW low \in {0, 255}, NEW high \in {0, 2, 128}
      PROVE  \E reply \in Replies :
               Position(SubSeq(reply, 6, 7)) =
                 LET raw == low + 256 * high IN IF raw >= 32768 THEN 32768 - raw ELSE raw
  <2> DEFINE params == <<low, high>>
             reply == Packet(1, 0, params)
             data == SubSeq(reply, 6, 7)
  <2>1. params \in Seq(Int) /\ Len(params) = 2 /\ params[1] = low /\ params[2] = high /\ 2 \in 1 .. 2
    OBVIOUS
  <2>2. reply \in Replies
    BY DEF Replies
  <2>3. IsPacket(reply, 1, params, 2)
    <3> HIDE DEF params
    <3> QED
      BY <2>1, PacketIs
  <2> HIDE DEF params, reply
  <2>4. reply \in Seq(Int) /\ Len(reply) = 8 /\ reply[6] = low /\ reply[7] = high
    BY <2>1, <2>3 DEF IsPacket
  <2>5. IsPart(SubSeq(reply, 5 + 1, 5 + 2), reply, 5, 2)
    <3> HIDE DEF data
    <3>1. reply \in Seq(Int) /\ 5 \in Nat /\ 2 \in Nat /\ 5 + 2 <= Len(reply)
      BY <2>4
    <3> QED
      BY <3>1, PartIs
  <2>6. IsPart(data, reply, 5, 2)
    BY <2>5
  <2> HIDE DEF data
  <2>7. data[1] = low /\ data[2] = high
    <3>1. data[1] = reply[5 + 1] /\ data[2] = reply[5 + 2]
      BY <2>6 DEF IsPart
    <3> QED
      BY <2>4, <3>1
  <2>8. Position(data) = LET raw == low + 256 * high IN IF raw >= 32768 THEN 32768 - raw ELSE raw
    BY <2>7 DEF Position
  <2> QED
    BY <2>2, <2>8 DEF data
<1>3. {Position(SubSeq(reply, 6, 7)) : reply \in Replies} = {0, 255, 512, 767, -255}
  <2> DEFINE P(reply) == Position(SubSeq(reply, 6, 7))
  <2>1. \A reply \in Replies : P(reply) \in {0, 255, 512, 767, -255}
    BY <1>1
  <2>2. \A low \in {0, 255}, high \in {0, 2, 128} : \E reply \in Replies :
          P(reply) = LET raw == low + 256 * high IN IF raw >= 32768 THEN 32768 - raw ELSE raw
    BY <1>2
  <2> HIDE DEF P
  <2>3. /\ \E reply \in Replies : P(reply) = 0
        /\ \E reply \in Replies : P(reply) = 255
        /\ \E reply \in Replies : P(reply) = 512
        /\ \E reply \in Replies : P(reply) = 767
        /\ \E reply \in Replies : P(reply) = -255
    <3>1. \E reply \in Replies : P(reply) = 0
      <4>1. 0 + 256 * 0 = 0 /\ ~(0 + 256 * 0 >= 32768)
        OBVIOUS
      <4> QED
        BY <2>2, <4>1
    <3>2. \E reply \in Replies : P(reply) = 255
      BY <2>2
    <3>3. \E reply \in Replies : P(reply) = 512
      BY <2>2
    <3>4. \E reply \in Replies : P(reply) = 767
      BY <2>2
    <3>5. \E reply \in Replies : P(reply) = -255
      BY <2>2
    <3> QED
      BY <3>1, <3>2, <3>3, <3>4, <3>5
  <2>4. {P(reply) : reply \in Replies} = {0, 255, 512, 767, -255}
    BY <2>1, <2>3
  <2> QED
    BY <2>4 DEF P
<1>4. \A x \in {-4095, -1, 1, 4095} :
        LET raw == IF x < 0 THEN 32768 - x ELSE x IN Position(<<raw % 256, raw \div 256>>) = x
  <2>1. \A a, b : Position(<<a, b>>) =
          IF a + 256 * b >= 32768 THEN 32768 - (a + 256 * b) ELSE a + 256 * b
    BY DEF Position
  <2>2. \A x \in {-4095, -1, 1, 4095} :
          LET raw == IF x < 0 THEN 32768 - x ELSE x
              a == raw % 256
              b == raw \div 256
          IN  (IF a + 256 * b >= 32768 THEN 32768 - (a + 256 * b) ELSE a + 256 * b) = x
    OBVIOUS
  <2> QED
    BY <2>1, <2>2
<1> QED
  BY <1>3, <1>4 DEF PositionsAreDecoded

\* The results that carry no data.
Refused == {<<"none">>, <<"malformed">>, <<"checksum">>, <<"wrong_id">>}

LEMMA RefusedNoData ==
  ASSUME NEW chunks, NEW id, NEW strict, NEW n, ReadFrame(chunks, id, strict) \in Refused
  PROVE  ReadBytes(chunks, id, n, strict) \in Refused /\ ReadBytes(chunks, id, n, strict)[1] # "data"
<1>1. \A r \in Refused : r[1] # "frame" /\ r[1] # "data"
  BY DEF Refused
<1> QED
  BY <1>1, NoData

\* A frame in which the sum of a good one is off by less than a byte is refused.
LEMMA WrongSum ==
  ASSUME NEW s \in Int, s % 256 = 255, NEW d \in -255 .. 255, d # 0
  PROVE  (s + d) % 256 # 255
  OBVIOUS

GoodSum(s) == s \in Int /\ s % 256 = 255
OffBy(d) == d \in -255 .. 255 /\ d # 0

LEMMA NoSum ==
  ASSUME NEW f \in Seq(Int), Len(f) = 8, NEW s, NEW d, GoodSum(s), OffBy(d), SumOfEight(f) = s + d, NEW id
  PROVE  Verdict(f, id) = <<"checksum">>
<1>2. ValidChecksum(f) <=> SumOfEight(f) % 256 = 255
  BY Checksums
<1>3. (s + d) % 256 # 255
  BY WrongSum DEF GoodSum, OffBy
<1>4. ~ValidChecksum(f)
  BY <1>2, <1>3
<1> QED
  BY <1>4 DEF Verdict

\* r with another byte in one place.
Corrupted(c, r, i, byte) ==
  /\ c \in Seq(Int) /\ Len(c) = 8 /\ c[i] = byte /\ byte # r[i]
  /\ \A j \in 1 .. 8 : j # i => c[j] = r[j]

LEMMA CorruptedIs ==
  ASSUME NEW r \in Seq(Int), Len(r) = 8, NEW i \in 1 .. 8, NEW byte \in Byte
  PROVE  byte # r[i] => Corrupted([r EXCEPT ![i] = byte], r, i, byte)
<1>1. byte \in Int /\ i \in 1 .. Len(r)
  BY DEF Byte
<1> DEFINE c == [r EXCEPT ![i] = byte]
<1>2. /\ c \in Seq(Int) /\ Len(c) = Len(r)
      /\ \A j \in 1 .. Len(r) : c[j] = IF j = i THEN byte ELSE r[j]
  <2>1. byte \in Int
    BY <1>1
  <2>2. i \in 1 .. Len(r)
    BY <1>1
  <2>3. c \in Seq(Int)
    BY <2>1, <2>2, ExceptSeq
  <2>4. Len(c) = Len(r)
    BY <2>1, <2>2, ExceptSeq
  <2>5. \A j \in 1 .. Len(r) : c[j] = IF j = i THEN byte ELSE r[j]
    BY <2>1, <2>2, ExceptSeq
  <2> QED
    BY <2>3, <2>4, <2>5
<1> HIDE DEF c
<1>3. byte # r[i] => Corrupted(c, r, i, byte)
  BY <1>1, <1>2 DEF Corrupted
<1> QED
  BY <1>3 DEF c

LEMMA HeaderLost ==
  ASSUME NEW r, IsReply(r), NEW i \in 1 .. 2, NEW byte \in Byte, NEW c,
         Corrupted(c, r, i, byte), NEW id, NEW strict
  PROVE  Turn(NoBytes, c, id, strict).result \in Refused
<1>1. /\ c \in Seq(Int) /\ Len(c) = 8 /\ c[i] # 255
      /\ \A j \in 3 .. 8 : c[j] = r[j]
  <2>1. r[i] = 255
    BY ReplyBytes, SMTT(30)
  <2> QED
    BY <2>1 DEF Corrupted
<1>2. c[3] # 255 /\ c[4] # 255 /\ c[5] # 255 /\ c[7] # 255
  <2>1. r[3] # 255 /\ r[4] # 255 /\ r[5] # 255 /\ r[7] # 255
    BY DEF IsReply, ReplyFields
  <2> QED
    BY <1>1, <2>1
<1>3. ASSUME NEW j \in 0 .. 6 PROVE ~(c[j + 1] = 255 /\ c[j + 2] = 255)
  <2>1. j \in {0, 1, 2, 3, 4, 5, 6} /\ i \in {1, 2}
    OBVIOUS
  <2>2. CASE j = 0
    BY <1>1, <2>1, <2>2
  <2>3. CASE j = 1
    BY <1>2, <2>3
  <2>4. CASE j = 2
    BY <1>2, <2>4
  <2>5. CASE j = 3
    BY <1>2, <2>5
  <2>6. CASE j = 4
    BY <1>2, <2>6
  <2>7. CASE j = 5
    BY <1>2, <2>7
  <2>8. CASE j = 6
    BY <1>2, <2>8
  <2> QED
    BY <2>1, <2>2, <2>3, <2>4, <2>5, <2>6, <2>7, <2>8
<1>4. Drops(c, 7)
  <2>1. MayBegin(c, 7) /\ 7 \in 0 .. Len(c)
    BY <1>1 DEF MayBegin
  <2>2. ASSUME NEW j \in 0 .. 7 - 1 PROVE ~MayBegin(c, j)
    <3>1. j \in 0 .. 6 /\ ~(8 - j < 2)
      OBVIOUS
    <3> QED
      BY <1>1, <1>3, <3>1 DEF MayBegin, Header
  <2> QED
    BY <2>1, <2>2 DEF Drops
<1>5. Waits(c, 7)
  BY <1>1 DEF Waits
<1>6. Gets(NoBytes, c, c) /\ 7 \in Nat
  BY <1>1, FirstChunk
<1>7. Turn(NoBytes, c, id, strict) = [rx |-> SubSeq(c, 7 + 1, Len(c)), result |-> <<"none">>]
  BY <1>4, <1>5, <1>6, TurnWaits
<1> QED
  BY <1>7 DEF Refused

\* A frame that starts at once and is all there.
Opens(c) == c \in Seq(Int) /\ Len(c) = 8 /\ c[1] = 255 /\ c[2] = 255

LEMMA AtOnce ==
  ASSUME NEW c, Opens(c)
  PROVE  Drops(c, 0) /\ Gets(NoBytes, c, c)
<1> c \in Seq(Int)
  BY DEF Opens
<1>1. 0 \in Nat /\ 0 + 2 <= Len(c) /\ c[0 + 1] = 255 /\ c[0 + 2] = 255
  BY DEF Opens
<1>2. NoneBefore(c, 0)
  BY DEF NoneBefore
<1> QED
  BY <1>1, <1>2, DropsTo, FirstChunk

Announces(c, n) == c[4] = n - 4

LEMMA FrameAtOnce ==
  ASSUME NEW c, Opens(c), NEW n \in 6 .. 8, Announces(c, n), NEW id, NEW strict
  PROVE  \E f \in Seq(Int) : /\ Len(f) = n /\ \A i \in 1 .. n : f[i] = c[i]
                             /\ Turn(NoBytes, c, id, strict).result = Verdict(f, id)
<1>1. Drops(c, 0) /\ Gets(NoBytes, c, c) /\ 0 \in Nat
  BY AtOnce
<1>2. Completes(c, 0) /\ 4 + c[0 + 4] = n
  BY DEF Completes, Opens, Announces
<1>3. PICK f \in Seq(Int) : /\ IsPart(f, c, 0, 4 + c[0 + 4])
                            /\ Turn(NoBytes, c, id, strict).result = Verdict(f, id)
  BY <1>1, <1>2, TurnFrame
<1>4. Len(f) = n /\ \A i \in 1 .. n : f[i] = c[i]
  <2>1. IsPart(f, c, 0, n)
    BY <1>2, <1>3
  <2>2. Len(f) = n /\ \A i \in 1 .. n : f[i] = c[0 + i]
    BY <2>1 DEF IsPart
  <2>3. \A i \in 1 .. n : 0 + i = i
    OBVIOUS
  <2> QED
    BY <2>2, <2>3
<1> QED
  BY <1>3, <1>4

LEMMA SumLost ==
  ASSUME NEW r, IsReply(r), NEW i \in {3, 5, 6, 7, 8}, NEW byte \in Byte, NEW c,
         Corrupted(c, r, i, byte), NEW id, NEW strict
  PROVE  Turn(NoBytes, c, id, strict).result \in Refused
<1>1. /\ c \in Seq(Int) /\ Len(c) = 8 /\ c[i] = byte /\ byte # r[i]
      /\ \A j \in 1 .. 8 : j # i => c[j] = r[j]
  BY DEF Corrupted
<1>2. /\ r[1] = 255 /\ r[2] = 255 /\ r[4] = 4 /\ r[5] = 0
      /\ r[3] \in 0 .. 255 /\ r[6] \in 0 .. 255 /\ r[7] \in 0 .. 255 /\ r[8] \in 0 .. 255
  BY ReplyBytes
<1>3. Opens(c) /\ Announces(c, 8) /\ 8 \in 6 .. 8
  <2>1. 1 # i /\ 2 # i /\ 4 # i
    OBVIOUS
  <2> QED
    BY <1>1, <1>2, <2>1, SMTT(30) DEF Opens, Announces
<1>4. PICK f \in Seq(Int) : /\ Len(f) = 8 /\ \A j \in 1 .. 8 : f[j] = c[j]
                            /\ Turn(NoBytes, c, id, strict).result = Verdict(f, id)
  BY <1>3, FrameAtOnce
<1> DEFINE s == r[3] + 4 + r[6] + r[7] + r[8]
           d == byte - r[i]
<1>5. r[3] \in Int /\ r[6] \in Int /\ r[7] \in Int /\ r[8] \in Int /\ byte \in Int
  BY ReplyBytes, SMTT(30) DEF Byte
<1>6. GoodSum(s)
  <2>1. \A t, u, v, w \in Int : t + 4 + u + v + w \in Int
    OBVIOUS
  <2>2. s \in Int
    BY <1>5, <2>1, Zenon
  <2>3. s % 256 = 255
    BY Zenon DEF IsReply, ReplySum
  <2> QED
    BY <2>2, <2>3, Zenon DEF GoodSum
<1>7. OffBy(d)
  <2>1. \A x, y \in 0 .. 255 : x # y => x - y \in -255 .. 255 /\ x - y # 0
    OBVIOUS
  <2>2. 0 \in 0 .. 255
    OBVIOUS
  <2>3. r[5] \in 0 .. 255
    BY <1>2, <2>2, Zenon
  <2>4. r[i] \in 0 .. 255
    BY <1>2, <2>3, Zenon
  <2>5. byte \in 0 .. 255
    BY Zenon DEF Byte
  <2> QED
    BY <1>1, <2>1, <2>4, <2>5, ZenonT(40) DEF OffBy
<1>8. SumOfEight(f) = s + d
  <2>1. \A j \in 3 .. 8 : f[j] = IF j = i THEN byte ELSE r[j]
    BY <1>1, <1>4
  <2>2. /\ f[3] = (IF 3 = i THEN byte ELSE r[3]) /\ f[4] = (IF 4 = i THEN byte ELSE 4)
        /\ f[5] = (IF 5 = i THEN byte ELSE 0) /\ f[6] = (IF 6 = i THEN byte ELSE r[6])
        /\ f[7] = (IF 7 = i THEN byte ELSE r[7]) /\ f[8] = (IF 8 = i THEN byte ELSE r[8])
    BY <1>2, <2>1, SMTT(30)
  <2>3. PICK t, u, v, w \in Int : t = r[3] /\ u = r[6] /\ v = r[7] /\ w = r[8]
    BY <1>5
  <2>4. /\ byte + 4 + 0 + u + v + w = s + (byte - t)
        /\ t + 4 + byte + u + v + w = s + (byte - 0)
        /\ t + 4 + 0 + byte + v + w = s + (byte - u)
        /\ t + 4 + 0 + u + byte + w = s + (byte - v)
        /\ t + 4 + 0 + u + v + byte = s + (byte - w)
    <3>1. s = t + 4 + u + v + w
      BY <2>3
    <3>2. byte \in Int
      BY <1>5
    <3> HIDE DEF s
    <3> QED
      BY <3>1, <3>2
  <2> HIDE DEF s
  <2>5. CASE i = 3
    <3>1. /\ f[3] = byte /\ f[4] = 4 /\ f[5] = 0 /\ f[6] = r[6] /\ f[7] = r[7] /\ f[8] = r[8]
          /\ d = byte - r[3]
      BY <2>2, <2>5
    <3> QED
      BY <2>3, <2>4, <3>1, Zenon DEF SumOfEight
  <2>6. CASE i = 5
    <3>1. /\ f[3] = r[3] /\ f[4] = 4 /\ f[5] = byte /\ f[6] = r[6] /\ f[7] = r[7] /\ f[8] = r[8]
          /\ d = byte - 0
      BY <1>2, <2>2, <2>6, SMTT(30)
    <3> QED
      BY <2>3, <2>4, <3>1, Zenon DEF SumOfEight
  <2>7. CASE i = 6
    <3>1. /\ f[3] = r[3] /\ f[4] = 4 /\ f[5] = 0 /\ f[6] = byte /\ f[7] = r[7] /\ f[8] = r[8]
          /\ d = byte - r[6]
      BY <2>2, <2>7
    <3> QED
      BY <2>3, <2>4, <3>1, Zenon DEF SumOfEight
  <2>8. CASE i = 7
    <3>1. /\ f[3] = r[3] /\ f[4] = 4 /\ f[5] = 0 /\ f[6] = r[6] /\ f[7] = byte /\ f[8] = r[8]
          /\ d = byte - r[7]
      BY <2>2, <2>8
    <3> QED
      BY <2>3, <2>4, <3>1, Zenon DEF SumOfEight
  <2>9. CASE i = 8
    <3>1. /\ f[3] = r[3] /\ f[4] = 4 /\ f[5] = 0 /\ f[6] = r[6] /\ f[7] = r[7] /\ f[8] = byte
          /\ d = byte - r[8]
      BY <2>2, <2>9
    <3> QED
      BY <2>3, <2>4, <3>1, Zenon DEF SumOfEight
  <2> QED
    BY <2>5, <2>6, <2>7, <2>8, <2>9
<1> HIDE DEF s, d
<1>9. Verdict(f, id) = <<"checksum">>
  BY <1>4, <1>6, <1>7, <1>8, NoSum
<1> QED
  BY <1>4, <1>9 DEF Refused

LEMMA LengthLost ==
  ASSUME NEW r, IsReply(r), NEW byte \in Byte, NEW c, Corrupted(c, r, 4, byte),
         NEW id, NEW strict
  PROVE  Turn(NoBytes, c, id, strict).result \in Refused
<1>1. /\ c \in Seq(Int) /\ Len(c) = 8 /\ c[4] = byte /\ \A j \in 1 .. 8 : j # 4 => c[j] = r[j]
  BY DEF Corrupted
<1>2. c[1] = 255 /\ c[2] = 255 /\ c[3] \in {1, 4} /\ c[5] = 0 /\ c[6] \in {0, 255} /\ c[7] \in {0, 2, 128}
  <2>1. /\ r[1] = 255 /\ r[2] = 255 /\ r[3] \in {1, 4} /\ r[5] = 0 /\ r[6] \in {0, 255}
        /\ r[7] \in {0, 2, 128}
    BY DEF IsReply, ReplyFields
  <2> QED
    BY <1>1, <2>1
<1>3. Opens(c) /\ Drops(c, 0) /\ Gets(NoBytes, c, c) /\ 0 \in Nat
  BY <1>1, <1>2, AtOnce DEF Opens
<1>4. byte \in 0 .. 255
  BY DEF Byte
<1>5. CASE byte < 2
  <2>1. c[0 + 4] \notin 2 .. 256 /\ Len(c) - 0 >= 4
    <3>1. byte \notin 2 .. 256 /\ 0 + 4 = 4
      BY <1>4, <1>5
    <3> QED
      BY <1>1, <3>1
  <2>2. Turn(NoBytes, c, id, strict).result = IF strict THEN <<"malformed">> ELSE <<"none">>
    BY <1>3, <2>1, TurnMalformed
  <2> QED
    BY <2>2 DEF Refused
<1>6. CASE byte > 4
  <2>1. Waits(c, 0)
    <3>1. byte \in 2 .. 256 /\ 8 - 0 < 4 + byte /\ 0 + 4 = 4
      BY <1>4, <1>6
    <3> QED
      BY <1>1, <3>1 DEF Waits
  <2>2. Turn(NoBytes, c, id, strict) = [rx |-> SubSeq(c, 0 + 1, Len(c)), result |-> <<"none">>]
    BY <1>3, <2>1, TurnWaits
  <2> QED
    BY <2>2 DEF Refused
<1>7. CASE byte = 2
  <2>1. Announces(c, 6) /\ 6 \in 6 .. 8
    BY <1>1, <1>7 DEF Announces
  <2>2. PICK f \in Seq(Int) : /\ Len(f) = 6 /\ \A j \in 1 .. 6 : f[j] = c[j]
                              /\ Turn(NoBytes, c, id, strict).result = Verdict(f, id)
    BY <1>3, <2>1, FrameAtOnce
  <2>3. f[3] = c[3] /\ f[4] = 2 /\ f[5] = 0 /\ f[6] = c[6]
    BY <1>1, <1>2, <1>7, <2>2
  <2>4. \A a \in {1, 4}, b \in {0, 255} : (a + 2 + 0 + b) % 256 # 255
    OBVIOUS
  <2>5. SumOfSix(f) % 256 # 255
    <3>1. (c[3] + 2 + 0 + c[6]) % 256 # 255
      BY <1>2, <2>4
    <3> QED
      BY <2>3, <3>1 DEF SumOfSix
  <2>6. ValidChecksum(f) <=> SumOfSix(f) % 256 = 255
    BY <2>2, Checksums
  <2> QED
    BY <2>2, <2>5, <2>6 DEF Verdict, Refused
<1>8. CASE byte = 3
  <2>1. Announces(c, 7) /\ 7 \in 6 .. 8
    BY <1>1, <1>8 DEF Announces
  <2>2. PICK f \in Seq(Int) : /\ Len(f) = 7 /\ \A j \in 1 .. 7 : f[j] = c[j]
                              /\ Turn(NoBytes, c, id, strict).result = Verdict(f, id)
    BY <1>3, <2>1, FrameAtOnce
  <2>3. f[3] = c[3] /\ f[4] = 3 /\ f[5] = 0 /\ f[6] = c[6] /\ f[7] = c[7]
    BY <1>1, <1>2, <1>8, <2>2
  <2>4. \A a \in {1, 4}, b \in {0, 255}, h \in {0, 2, 128} : (a + 3 + 0 + b + h) % 256 # 255
    OBVIOUS
  <2>5. SumOfSeven(f) % 256 # 255
    <3>1. (c[3] + 3 + 0 + c[6] + c[7]) % 256 # 255
      BY <1>2, <2>4, SMTT(30)
    <3> QED
      BY <2>3, <3>1 DEF SumOfSeven
  <2>6. ValidChecksum(f) <=> SumOfSeven(f) % 256 = 255
    BY <2>2, Checksums
  <2> QED
    BY <2>2, <2>5, <2>6 DEF Verdict, Refused
<1>9. byte # 4
  BY DEF Corrupted, IsReply, ReplyFields
<1>10. byte < 2 \/ byte > 4 \/ byte = 2 \/ byte = 3
  BY <1>4, <1>9
<1> QED
  BY <1>5, <1>6, <1>7, <1>8, <1>10

\* No single byte that changes on the wire changes what is read.
LEMMA Corruption == CorruptionIsNoticed
<1>0. SUFFICES ASSUME NEW reply \in Replies, NEW i \in 1 .. 8, NEW byte \in Byte,
                      NEW strict \in BOOLEAN
               PROVE  byte # reply[i] =>
                        ReadBytes(<<[reply EXCEPT ![i] = byte]>>, reply[3], 2, strict)[1] # "data"
  BY DEF CorruptionIsNoticed
<1> DEFINE c == [reply EXCEPT ![i] = byte]
<1>1. IsReply(reply) /\ reply \in Seq(Int) /\ Len(reply) = 8
  BY RepliesAreReplies, ReplyBytes
<1>2. byte # reply[i] => Corrupted(c, reply, i, byte)
  BY <1>1, CorruptedIs
<1>3. ReadFrame(<<c>>, reply[3], strict) = Turn(NoBytes, c, reply[3], strict).result
  BY ReadOne
<1> HIDE DEF c
<1>4. CASE i \in 1 .. 2
  BY <1>1, <1>2, <1>3, <1>4, HeaderLost, RefusedNoData, Zenon DEF c
<1>5. CASE i \in {3, 5, 6, 7, 8}
  BY <1>1, <1>2, <1>3, <1>5, SumLost, RefusedNoData, ZenonT(40) DEF c
<1>6. CASE i = 4
  BY <1>1, <1>2, <1>3, <1>6, LengthLost, RefusedNoData, Zenon DEF c
<1>7. i \in 1 .. 2 \/ i = 4 \/ i \in {3, 5, 6, 7, 8}
  OBVIOUS
<1> QED
  BY <1>4, <1>5, <1>6, <1>7

\* b is n bytes of noise and then the reply r.
Noisy(b, n, r) ==
  /\ IsReply(r) /\ b \in Seq(Int) /\ n \in 0 .. 4 /\ Len(b) = n + 8 /\ Holds(b, n, r)
  /\ \A i \in 1 .. n : b[i] \in {0, 1, 255}

\* The reply is one of the servo that was asked.
From(r, id) == id = r[3]

LEMMA CleanFound ==
  ASSUME NEW b, NEW n, NEW r, Noisy(b, n, r), NoneBefore(b, n), NEW id, From(r, id), NEW strict
  PROVE  ReadFrame(<<b>>, id, strict) = <<"frame", r>>
<1>1. IsReply(r) /\ b \in Seq(Int) /\ n \in Nat /\ Holds(b, n, r)
  BY DEF Noisy
<1>2. Gets(NoBytes, b, b)
  BY <1>1, FirstChunk
<1>3. Turn(NoBytes, b, id, strict).result = <<"frame", r>>
  <2>1. Turn(NoBytes, b, id, strict).result = IF r[3] # id THEN <<"wrong_id">> ELSE <<"frame", r>>
    BY <1>1, <1>2, WholeFrame
  <2> QED
    BY <2>1 DEF From
<1>4. ReadFrame(<<b>>, id, strict) = Turn(NoBytes, b, id, strict).result
  BY ReadOne
<1> QED
  BY <1>3, <1>4

LEMMA NoisyBytes ==
  ASSUME NEW b, NEW n, NEW r, Noisy(b, n, r)
  PROVE  /\ b[n + 1] = 255 /\ b[n + 2] = 255 /\ b[n + 3] = r[3] /\ b[n + 4] = 4 /\ b[n + 5] = 0
         /\ r[3] \in {1, 4}
<1>1. ReplyFields(r) /\ Holds(b, n, r)
  BY DEF Noisy, IsReply
<1> QED
  BY <1>1, SMTT(30) DEF ReplyFields, Holds

\* The frame after k bytes has a header where the servo's number should be.
NotOf(b, k, id) == b[k + 3] = 255 /\ id # 255

LEMMA OtherFrame ==
  ASSUME NEW reader, NEW chunk, NEW b, Gets(reader, chunk, b), NEW k \in Nat, Drops(b, k),
         Completes(b, k), NEW id, NotOf(b, k, id), NEW strict
  PROVE  Turn(reader, chunk, id, strict).result \in Refused
<1>1. PICK f \in Seq(Int) : /\ IsPart(f, b, k, 4 + b[k + 4])
                            /\ Turn(reader, chunk, id, strict).result = Verdict(f, id)
  BY TurnFrame
<1>2. f[3] = 255
  <2>1. 3 \in 1 .. 4 + b[k + 4]
    <3>1. PICK y \in 2 .. 256 : y = b[k + 4]
      BY DEF Completes
    <3>2. 3 \in 1 .. 4 + y
      OBVIOUS
    <3> QED
      BY <3>1, <3>2
  <2>2. f[3] = b[k + 3]
    BY <1>1, <2>1 DEF IsPart
  <2> QED
    BY <2>2 DEF NotOf
<1>3. Verdict(f, id) \in Refused
  <2>1. id # 255
    BY DEF NotOf
  <2> QED
    BY <1>2, <2>1 DEF Verdict, Refused
<1> QED
  BY <1>1, <1>3

\* The frame that noise begins is refused, and the reply is lost with it.
LEMMA ReplyLost ==
  ASSUME NEW b, NEW n, NEW r, Noisy(b, n, r), ~NoneBefore(b, n), NEW id, From(r, id)
  PROVE  ReadFrame(<<b>>, id, TRUE) \in Refused
<1>1. b \in Seq(Int) /\ n \in 0 .. 4 /\ Len(b) = n + 8 /\ \A i \in 1 .. n : b[i] \in {0, 1, 255}
  BY DEF Noisy
<1> DEFINE T == {j \in 0 .. n - 1 : b[j + 1] = 255 /\ b[j + 2] = 255}
<1>2. T \in SUBSET Nat /\ T # {}
  BY DEF NoneBefore
<1>3. PICK k \in T : \A j \in T : k <= j
  BY <1>2, LeastNatural
<1>4. k \in 0 .. n - 1 /\ b[k + 1] = 255 /\ b[k + 2] = 255
  BY <1>3
<1>5. NoneBefore(b, k)
  <2>1. ASSUME NEW j \in 0 .. k - 1, b[j + 1] = 255 /\ b[j + 2] = 255 PROVE FALSE
    <3>1. j \in 0 .. n - 1 /\ ~(k <= j)
      BY <1>1, <1>4
    <3>2. j \in T
      BY <2>1, <3>1
    <3> QED
      BY <1>3, <3>1, <3>2
  <2> QED
    BY <2>1 DEF NoneBefore
<1> HIDE DEF T
<1>6. k \in Nat /\ k + 2 <= Len(b) /\ n - k \in 1 .. 4 /\ Len(b) - k = (n - k) + 8
  BY <1>1, <1>4
<1>7. Drops(b, k)
  BY <1>1, <1>4, <1>5, <1>6, DropsTo
<1>8. Gets(NoBytes, b, b)
  BY <1>1, FirstChunk
<1>9. ReadFrame(<<b>>, id, TRUE) = Turn(NoBytes, b, id, TRUE).result
  BY ReadOne
<1>10. /\ b[n + 1] = 255 /\ b[n + 2] = 255 /\ b[n + 3] = id /\ id \in {1, 4}
  BY NoisyBytes DEF From
<1>11. ASSUME b[k + 4] = 255 PROVE Turn(NoBytes, b, id, TRUE).result \in Refused
  <2>1. Waits(b, k)
    <3>1. 255 \in 2 .. 256 /\ Len(b) - k < 4 + 255
      BY <1>6
    <3> QED
      BY <1>11, <3>1 DEF Waits
  <2>2. Turn(NoBytes, b, id, TRUE) = [rx |-> SubSeq(b, k + 1, Len(b)), result |-> <<"none">>]
    BY <1>6, <1>7, <1>8, <2>1, TurnWaits
  <2>3. Turn(NoBytes, b, id, TRUE).result = <<"none">>
    <3>1. \A x, y : [rx |-> x, result |-> y].result = y
      OBVIOUS
    <3> QED
      BY <2>2, <3>1, Zenon
  <2> QED
    BY <2>3 DEF Refused
<1>12. ASSUME b[k + 4] \in {0, 1} PROVE Turn(NoBytes, b, id, TRUE).result \in Refused
  <2>1. Len(b) - k >= 4
    BY <1>6
  <2>2. b[k + 4] \notin 2 .. 256
    <3>1. \A y \in {0, 1} : y \notin 2 .. 256
      OBVIOUS
    <3> QED
      BY <1>12, <3>1, Zenon
  <2>3. Turn(NoBytes, b, id, TRUE).result = IF TRUE THEN <<"malformed">> ELSE <<"none">>
    BY <1>6, <1>7, <1>8, <2>1, <2>2, TurnMalformed
  <2> QED
    BY <2>3 DEF Refused
<1>13. CASE n - k = 1
  <2>1. k + 3 = n + 2 /\ k + 4 = n + 3
    BY <1>1, <1>6, <1>13
  <2>2. b[k + 3] = 255 /\ b[k + 4] = id
    BY <1>10, <2>1
  <2>3. CASE id = 1
    BY <1>9, <1>12, <2>2, <2>3
  <2>4. CASE id = 4
    <3>1. Completes(b, k)
      <4>1. 4 \in 2 .. 256 /\ Len(b) - k >= 4 + 4 /\ Len(b) - k >= 4
        BY <1>6
      <4>2. b[k + 4] = 4
        BY <2>2, <2>4
      <4> QED
        BY <4>1, <4>2 DEF Completes
    <3>2. NotOf(b, k, id) /\ k \in Nat
      BY <1>6, <2>2, <2>4 DEF NotOf
    <3>3. Turn(NoBytes, b, id, TRUE).result \in Refused
      BY <1>7, <1>8, <3>1, <3>2, OtherFrame
    <3> QED
      BY <1>9, <3>3
  <2> QED
    BY <1>10, <2>3, <2>4
<1>14. CASE n - k = 2
  <2>1. k + 4 = n + 2
    BY <1>1, <1>6, <1>14
  <2>2. b[k + 4] = 255
    BY <1>10, <2>1
  <2> QED
    BY <1>9, <1>11, <2>2
<1>15. CASE n - k = 3
  <2>1. k + 4 = n + 1
    BY <1>1, <1>6, <1>15
  <2>2. b[k + 4] = 255
    BY <1>10, <2>1
  <2> QED
    BY <1>9, <1>11, <2>2
<1>16. CASE n - k = 4
  <2>1. k + 4 = n /\ n \in 1 .. n
    BY <1>1, <1>6, <1>16
  <2>2. b[k + 4] \in {0, 1, 255}
    BY <1>1, <2>1
  <2> QED
    BY <1>9, <1>11, <1>12, <2>2
<1>17. n - k = 1 \/ n - k = 2 \/ n - k = 3 \/ n - k = 4
  BY <1>6
<1> QED
  BY <1>13, <1>14, <1>15, <1>16, <1>17

\* A first chunk that ends within the reply, or before it, waits for the rest.
LEMMA FirstWaits ==
  ASSUME NEW b, NEW n, NEW r, Noisy(b, n, r), NoneBefore(b, n), NEW cut \in 1 .. Len(b) - 1,
         NEW a, IsPart(a, b, 0, cut)
  PROVE  \E k \in 0 .. n : k <= cut /\ Drops(a, k) /\ Waits(a, k)
<1>1. b \in Seq(Int) /\ n \in 0 .. 4 /\ Len(b) = n + 8
  BY DEF Noisy
<1>2. a \in Seq(Int) /\ Len(a) = cut /\ \A i \in 1 .. cut : a[i] = b[i]
  <2>1. \A i \in 1 .. cut : 0 + i = i
    BY <1>1
  <2> QED
    BY <2>1 DEF IsPart
<1>3. b[n + 1] = 255 /\ b[n + 2] = 255 /\ b[n + 4] = 4
  BY NoisyBytes
<1>4. cut \in Nat /\ cut >= 1 /\ cut <= n + 7
  BY <1>1
<1>5. ASSUME NEW j \in 0 .. n - 1, j + 2 <= cut PROVE ~MayBegin(a, j)
  <2>1. ~(Len(a) - j < 2) /\ j + 1 \in 1 .. cut /\ j + 2 \in 1 .. cut
    BY <1>1, <1>2, <1>4, <1>5
  <2>2. ~(b[j + 1] = 255 /\ b[j + 2] = 255)
    BY DEF NoneBefore
  <2>3. a[j + 1] = b[j + 1] /\ a[j + 2] = b[j + 2]
    BY <1>2, <2>1
  <2> QED
    BY <2>1, <2>2, <2>3 DEF MayBegin, Header
<1>6. CASE cut <= n + 1
  <2> DEFINE k == cut - 1
  <2>1. k \in 0 .. n /\ k <= cut /\ k \in 0 .. Len(a) /\ Len(a) - k < 2 /\ Len(a) - k < 4
    BY <1>1, <1>2, <1>4, <1>6
  <2>2. \A j \in 0 .. k - 1 : j \in 0 .. n - 1 /\ j + 2 <= cut
    BY <1>1, <1>4, <1>6
  <2> HIDE DEF k
  <2>3. Drops(a, k)
    BY <1>5, <2>1, <2>2 DEF Drops, MayBegin
  <2>4. Waits(a, k)
    BY <2>1 DEF Waits
  <2> QED
    BY <2>1, <2>3, <2>4
<1>7. CASE cut >= n + 2
  <2>1. n \in 0 .. n /\ n <= cut /\ n \in 0 .. Len(a) /\ n + 1 \in 1 .. cut /\ n + 2 \in 1 .. cut
    BY <1>1, <1>2, <1>4, <1>7
  <2>2. \A j \in 0 .. n - 1 : j + 2 <= cut
    BY <1>1, <1>4, <1>7
  <2>3. a[n + 1] = 255 /\ a[n + 2] = 255
    BY <1>2, <1>3, <2>1
  <2>4. Drops(a, n)
    BY <1>5, <2>1, <2>2, <2>3 DEF Drops, MayBegin, Header
  <2>5. Waits(a, n)
    <3>1. CASE Len(a) - n < 4
      BY <3>1 DEF Waits
    <3>2. CASE n + 4 <= cut
      <4>1. n + 4 \in 1 .. cut /\ 4 \in 2 .. 256 /\ Len(a) - n < 4 + 4
        BY <1>1, <1>2, <1>4, <3>2
      <4>2. a[n + 4] = 4
        BY <1>2, <1>3, <4>1
      <4> QED
        BY <4>1, <4>2 DEF Waits
    <3>3. Len(a) - n < 4 \/ n + 4 <= cut
      BY <1>1, <1>2, <1>4
    <3> QED
      BY <3>1, <3>2, <3>3
  <2> QED
    BY <2>1, <2>4, <2>5
<1>8. cut <= n + 1 \/ cut >= n + 2
  BY <1>1, <1>4
<1> QED
  BY <1>6, <1>7, <1>8

\* What a reader that dropped k bytes holds when the rest of b has come.
LEMMA TheRest ==
  ASSUME NEW b \in Seq(Int), NEW cut \in Nat, cut <= Len(b), NEW k \in Nat, k <= cut,
         NEW a, IsPart(a, b, 0, cut), NEW p, IsPart(p, a, k, cut - k),
         NEW d, IsPart(d, b, cut, Len(b) - cut), NEW w, IsJoin(w, p, d)
  PROVE  IsPart(w, b, k, Len(b) - k)
<1>1. Len(b) \in Nat
  OBVIOUS
<1>2. /\ Len(p) = cut - k /\ Len(d) = Len(b) - cut
      /\ \A i \in 1 .. cut - k : p[i] = a[k + i]
      /\ \A i \in 1 .. Len(b) - cut : d[i] = b[cut + i]
      /\ \A i \in 1 .. cut : a[i] = b[0 + i]
  BY DEF IsPart
<1>3. /\ w \in Seq(Int) /\ Len(w) = Len(p) + Len(d)
      /\ \A i \in 1 .. Len(p) : w[i] = p[i]
      /\ \A i \in 1 .. Len(d) : w[Len(p) + i] = d[i]
  BY DEF IsJoin
<1>4. Len(w) = Len(b) - k
  BY <1>1, <1>2, <1>3
<1>5. ASSUME NEW i \in 1 .. Len(b) - k PROVE w[i] = b[k + i]
  <2>1. CASE i <= cut - k
    <3>1. i \in 1 .. cut - k /\ k + i \in 1 .. cut /\ 0 + (k + i) = k + i
      BY <1>1, <2>1
    <3>2. w[i] = p[i] /\ p[i] = a[k + i] /\ a[k + i] = b[0 + (k + i)]
      BY <1>2, <1>3, <3>1
    <3> QED
      BY <3>1, <3>2
  <2>2. CASE ~(i <= cut - k)
    <3> DEFINE m == i - (cut - k)
    <3>1. m \in 1 .. Len(b) - cut /\ (cut - k) + m = i /\ cut + m = k + i
      BY <1>1, <2>2
    <3> HIDE DEF m
    <3>2. w[(cut - k) + m] = d[m] /\ d[m] = b[cut + m]
      BY <1>2, <1>3, <3>1
    <3> QED
      BY <3>1, <3>2
  <2> QED
    BY <2>1, <2>2
<1> QED
  BY <1>3, <1>4, <1>5 DEF IsPart

\* However the bytes are cut, the reply is found.
LEMMA CutFound ==
  ASSUME NEW b, NEW n, NEW r, Noisy(b, n, r), NoneBefore(b, n), NEW cut \in 1 .. Len(b) - 1,
         NEW id, From(r, id), NEW strict
  PROVE  ReadFrame(Split(b, cut), id, strict) = <<"frame", r>>
<1> DEFINE a == SubSeq(b, 1, cut)
           d == SubSeq(b, cut + 1, Len(b))
<1>1. IsReply(r) /\ b \in Seq(Int) /\ n \in 0 .. 4 /\ Len(b) = n + 8 /\ Holds(b, n, r)
  BY DEF Noisy
<1>2. Len(b) \in Nat /\ cut \in Nat /\ cut <= Len(b)
  BY <1>1
<1>3. IsPart(a, b, 0, cut)
  <2>1. 0 \in Nat /\ 0 + cut <= Len(b) /\ 0 + 1 = 1 /\ 0 + cut = cut
    BY <1>2
  <2>2. IsPart(SubSeq(b, 0 + 1, 0 + cut), b, 0, cut)
    BY <1>1, <1>2, <2>1, PartIs
  <2> QED
    BY <2>1, <2>2
<1>4. IsPart(d, b, cut, Len(b) - cut)
  <2>1. Len(b) - cut \in Nat /\ cut + (Len(b) - cut) <= Len(b) /\ cut + (Len(b) - cut) = Len(b)
    BY <1>2
  <2>2. IsPart(SubSeq(b, cut + 1, cut + (Len(b) - cut)), b, cut, Len(b) - cut)
    BY <1>1, <1>2, <2>1, PartIs
  <2> QED
    BY <2>1, <2>2
<1>5. ReadFrame(Split(b, cut), id, strict) = Turn(Turn(NoBytes, a, id, strict), d, id, strict).result
  BY ReadTwo DEF Split
<1> HIDE DEF a, d
<1>6. a \in Seq(Int) /\ d \in Seq(Int) /\ Len(a) = cut
  BY <1>3, <1>4 DEF IsPart
<1>7. PICK k \in 0 .. n : k <= cut /\ Drops(a, k) /\ Waits(a, k)
  BY <1>3, FirstWaits
<1>8. k \in Nat /\ n - k \in Nat /\ cut - k \in Nat /\ k + (cut - k) = cut
  BY <1>1, <1>2, <1>7
<1> DEFINE p == SubSeq(a, k + 1, cut)
           w == p \o d
           reader == [rx |-> p, result |-> <<"none">>]
<1>9. IsPart(p, a, k, cut - k)
  <2>1. k + (cut - k) <= Len(a)
    BY <1>2, <1>6, <1>8
  <2>2. IsPart(SubSeq(a, k + 1, k + (cut - k)), a, k, cut - k)
    BY <1>6, <1>8, <2>1, PartIs
  <2> QED
    BY <1>8, <2>2
<1>10. Turn(NoBytes, a, id, strict) = reader
  <2>1. Gets(NoBytes, a, a)
    BY <1>6, FirstChunk
  <2>2. Turn(NoBytes, a, id, strict) = [rx |-> SubSeq(a, k + 1, Len(a)), result |-> <<"none">>]
    BY <1>7, <1>8, <2>1, TurnWaits
  <2> QED
    BY <1>6, <2>2
<1>11. reader.rx = p /\ reader.result = <<"none">>
  OBVIOUS
<1> HIDE DEF p, reader
<1>12. p \in Seq(Int)
  BY <1>9 DEF IsPart
<1>13. IsJoin(w, p, d)
  BY <1>6, <1>12, JoinIs
<1>14. w = reader.rx \o d
  BY <1>11
<1> HIDE DEF w
<1>15. IsPart(w, b, k, Len(b) - k)
  BY <1>1, <1>2, <1>3, <1>4, <1>7, <1>8, <1>9, <1>13, TheRest
<1>16. /\ w \in Seq(Int) /\ Len(w) = (n - k) + 8
       /\ \A i \in 1 .. (n - k) + 8 : w[i] = b[k + i]
  <2>1. Len(b) - k = (n - k) + 8
    BY <1>1, <1>8
  <2> QED
    BY <1>15, <2>1 DEF IsPart
<1>17. Gets(reader, d, w)
  BY <1>11, <1>14, <1>16 DEF Gets
<1>18. Holds(w, n - k, r)
  <2>1. ASSUME NEW i \in 1 .. 8 PROVE w[(n - k) + i] = r[i]
    <3>1. (n - k) + i \in 1 .. (n - k) + 8 /\ k + ((n - k) + i) = n + i
      BY <1>1, <1>8
    <3>2. w[(n - k) + i] = b[k + ((n - k) + i)]
      BY <1>16, <3>1
    <3>3. b[n + i] = r[i]
      BY <1>1 DEF Holds
    <3> QED
      BY <3>1, <3>2, <3>3
  <2>2. Len(w) >= (n - k) + 8
    BY <1>8, <1>16
  <2> QED
    BY <2>1, <2>2 DEF Holds
<1>19. NoneBefore(w, n - k)
  <2>1. ASSUME NEW j \in 0 .. (n - k) - 1 PROVE ~(w[j + 1] = 255 /\ w[j + 2] = 255)
    <3>1. /\ j + 1 \in 1 .. (n - k) + 8 /\ j + 2 \in 1 .. (n - k) + 8 /\ k + j \in 0 .. n - 1
          /\ k + (j + 1) = (k + j) + 1 /\ k + (j + 2) = (k + j) + 2
      BY <1>1, <1>8
    <3>2. w[j + 1] = b[(k + j) + 1] /\ w[j + 2] = b[(k + j) + 2]
      BY <1>16, <3>1
    <3>3. ~(b[(k + j) + 1] = 255 /\ b[(k + j) + 2] = 255)
      BY <3>1 DEF NoneBefore
    <3> QED
      BY <3>2, <3>3
  <2> QED
    BY <2>1 DEF NoneBefore
<1>20. Turn(reader, d, id, strict).result = IF r[3] # id THEN <<"wrong_id">> ELSE <<"frame", r>>
  <2>1. IsReply(r)
    BY <1>1
  <2>2. n - k \in Nat
    BY <1>8
  <2> QED
    BY <1>17, <1>18, <1>19, <2>1, <2>2, WholeFrame
<1>21. r[3] = id
  BY DEF From
<1> QED
  BY <1>5, <1>10, <1>20, <1>21

\* In the model's words: no header of the noise is followed by another.
Clean(noise, b) == \A i \in 1 .. Len(noise) : noise[i] = Header => b[i + 1] # Header

LEMMA CleanIs ==
  ASSUME NEW noise, NEW reply, NEW b, IsJoin(b, noise, reply), NEW n \in Nat, Len(noise) = n
  PROVE  Clean(noise, b) <=> NoneBefore(b, n)
<1>1. \A i \in 1 .. n : b[i] = noise[i]
  BY DEF IsJoin
<1>2. ASSUME Clean(noise, b), NEW j \in 0 .. n - 1 PROVE ~(b[j + 1] = 255 /\ b[j + 2] = 255)
  <2>1. j + 1 \in 1 .. n /\ (j + 1) + 1 = j + 2
    OBVIOUS
  <2>2. noise[j + 1] = 255 => b[(j + 1) + 1] # 255
    BY <1>2, <2>1 DEF Clean, Header
  <2> QED
    BY <1>1, <2>1, <2>2
<1>3. ASSUME NoneBefore(b, n), NEW i \in 1 .. n, noise[i] = 255 PROVE b[i + 1] # 255
  <2> DEFINE j == i - 1
  <2>1. j \in 0 .. n - 1 /\ j + 1 = i /\ j + 2 = i + 1
    OBVIOUS
  <2> HIDE DEF j
  <2>2. ~(b[j + 1] = 255 /\ b[j + 2] = 255)
    BY <1>3, <2>1 DEF NoneBefore
  <2> QED
    BY <1>1, <1>3, <2>1, <2>2
<1> QED
  BY <1>2, <1>3 DEF Clean, NoneBefore, Header

LEMMA NoiseBytes ==
  ASSUME NEW noise \in Noise
  PROVE  noise \in Seq(Int) /\ Len(noise) \in 0 .. 4 /\ \A i \in 1 .. Len(noise) : noise[i] \in {0, 1, 255}
<1>1. PICK n \in 0 .. 4 : noise \in [1 .. n -> {0, 1, 255}]
  BY DEF Noise, Header
<1>2. noise \in [1 .. n -> Int]
  BY <1>1
<1>3. noise \in Seq(Int) /\ Len(noise) = n
  BY <1>1, <1>2
<1> QED
  BY <1>1, <1>3

LEMMA NoisyReply ==
  ASSUME NEW noise \in Noise, NEW reply, IsReply(reply), NEW b, IsJoin(b, noise, reply)
  PROVE  Noisy(b, Len(noise), reply)
<1>1. Len(noise) \in 0 .. 4 /\ \A i \in 1 .. Len(noise) : noise[i] \in {0, 1, 255}
  BY NoiseBytes
<1>2. Len(reply) = 8
  BY ReplyBytes
<1>3. /\ b \in Seq(Int) /\ Len(b) = Len(noise) + 8
      /\ \A i \in 1 .. Len(noise) : b[i] = noise[i]
      /\ \A i \in 1 .. 8 : b[Len(noise) + i] = reply[i]
  BY <1>2 DEF IsJoin
<1>4. Holds(b, Len(noise), reply)
  <2>1. Len(b) >= Len(noise) + 8
    BY <1>1, <1>3
  <2> QED
    BY <1>3, <2>1 DEF Holds
<1>5. \A i \in 1 .. Len(noise) : b[i] \in {0, 1, 255}
  <2>1. \A i \in 1 .. Len(noise) : b[i] = noise[i]
    BY <1>3
  <2> QED
    BY <1>1, <2>1, Zenon
<1> QED
  BY <1>1, <1>3, <1>4, <1>5 DEF Noisy

\* Noise before a reply costs the reply only where it looks like a frame.
LEMMA NoiseSkipped == NoiseIsSkipped
<1> SUFFICES ASSUME NEW noise \in Noise, NEW reply \in Replies
             PROVE  LET bytes == noise \o reply
                        clean == \A i \in 1 .. Len(noise) : noise[i] = Header => bytes[i + 1] # Header
                        found == <<"data", SubSeq(reply, 6, 7)>>
                    IN  /\ ReadBytes(<<bytes>>, reply[3], 2, TRUE) = found <=> clean
                        /\ clean => \A cut \in 1 .. Len(bytes) - 1, strict \in BOOLEAN :
                                      ReadBytes(Split(bytes, cut), reply[3], 2, strict) = found
  BY DEF NoiseIsSkipped
<1> DEFINE bytes == noise \o reply
           n == Len(noise)
           id == reply[3]
           found == <<"data", SubSeq(reply, 6, 7)>>
<1>1. IsReply(reply)
  BY RepliesAreReplies
<1>2. IsJoin(bytes, noise, reply)
  <2>1. noise \in Seq(Int) /\ reply \in Seq(Int)
    BY <1>1, NoiseBytes, ReplyBytes
  <2> QED
    BY <2>1, JoinIs
<1>3. From(reply, id)
  BY DEF From
<1>4. found[1] = "data"
  OBVIOUS
<1> HIDE DEF bytes, id, found
<1>5. n \in 0 .. 4 /\ n \in Nat
  BY NoiseBytes
<1>6. Noisy(bytes, n, reply)
  BY <1>1, <1>2, NoisyReply
<1>7. Clean(noise, bytes) <=> NoneBefore(bytes, n)
  BY <1>2, <1>5, CleanIs
<1> HIDE DEF n
<1>8. ASSUME Clean(noise, bytes) PROVE ReadBytes(<<bytes>>, id, 2, TRUE) = found
  <2>1. ReadFrame(<<bytes>>, id, TRUE) = <<"frame", reply>>
    BY <1>3, <1>6, <1>7, <1>8, CleanFound
  <2> QED
    BY <1>1, <2>1, DataOf DEF found
<1>9. ASSUME ~Clean(noise, bytes) PROVE ReadBytes(<<bytes>>, id, 2, TRUE) # found
  <2>1. ReadFrame(<<bytes>>, id, TRUE) \in Refused
    BY <1>3, <1>6, <1>7, <1>9, ReplyLost
  <2>2. ReadBytes(<<bytes>>, id, 2, TRUE)[1] # "data"
    BY <2>1, RefusedNoData
  <2> QED
    BY <1>4, <2>2
<1>10. ASSUME Clean(noise, bytes), NEW cut \in 1 .. Len(bytes) - 1, NEW strict \in BOOLEAN
       PROVE  ReadBytes(Split(bytes, cut), id, 2, strict) = found
  <2>1. ReadFrame(Split(bytes, cut), id, strict) = <<"frame", reply>>
    BY <1>3, <1>6, <1>7, <1>10, CutFound
  <2> QED
    BY <1>1, <2>1, DataOf DEF found
<1>11. /\ ReadBytes(<<bytes>>, id, 2, TRUE) = found <=> Clean(noise, bytes)
       /\ Clean(noise, bytes) => \A cut \in 1 .. Len(bytes) - 1, strict \in BOOLEAN :
                                   ReadBytes(Split(bytes, cut), id, 2, strict) = found
  BY <1>8, <1>9, <1>10
<1> QED
  BY <1>11 DEF bytes, id, found, Clean

\* What is read from the wire.
LEMMA FramesAreSound == FramingIsSound
  BY NoiseSkipped, Corruption, LateReplies, Positions DEF FramingIsSound

\* The files are well-formed, replies are told from noise, corruption and other servos'
\* replies, no limits beyond the measured ones are called inside, and the mirror is in
\* step with the map.
THEOREM MapToolsAreCorrect == MapToolsSpec => []MapToolsInv
<1>1. MapToolsTypeOK /\ MirrorInStep => MapToolsInv
  BY FramesAreSound, ComparisonHolds, MarginAssumption, ServoMapAssumption DEF MapToolsInv
<1> QED
  BY <1>1, MapTypes, MirrorKept, PTL

(***************************************************************************)
(* The standing test.                                                      *)
(***************************************************************************)

\* A sequence of members of S is one of its own entries, which are in S.
LEMMA InRange ==
  ASSUME NEW S, NEW s \in Seq(S)
  PROVE  s \in Seq(Range(s)) /\ Range(s) \subseteq S
<1>1. DOMAIN s = 1 .. Len(s) /\ \A i \in 1 .. Len(s) : s[i] \in S
  OBVIOUS
<1>2. \A i \in 1 .. Len(s) : s[i] \in Range(s)
  BY <1>1 DEF Range
<1>3. s \in Seq(Range(s))
  BY <1>1, <1>2
<1>4. Range(s) \subseteq S
  BY <1>1 DEF Range
<1> QED
  BY <1>3, <1>4

\* Positions counted from the end of a queue that got longer by one.
LEMMA FromTheEnd ==
  ASSUME NEW f, NEW m \in Nat, NEW i \in Nat, NEW a \in Nat, NEW b \in Nat, f = m + 1
  PROVE  b <= a + 1 /\ i > f - b => i > m - a
OBVIOUS

\* Positions counted from the end of a queue that gave up n entries in front.
LEMMA FromTheFront ==
  ASSUME NEW f, NEW g, NEW m \in Nat, NEW i \in Nat, NEW n \in Nat, NEW b \in Nat,
         f = m + 1, g = m + 1 - n
  PROVE  i > g - b => n + i > f - b
OBVIOUS

\* t is what is left of s with e behind it when n entries in front are given up.
FlowFacts(s, flow, t, n, e) ==
  /\ Len(s) \in Nat /\ Len(flow) = Len(s) + 1
  /\ \A i \in 1 .. Len(s) : flow[i] = s[i]
  /\ flow[Len(s) + 1] = e
  /\ t \in Seq(Range(t)) /\ Len(t) = Len(flow) - n
  /\ DOMAIN s = 1 .. Len(s) /\ DOMAIN t = 1 .. Len(t)
  /\ \A i \in 1 .. Len(t) : t[i] = flow[n + i]

\* A queue that takes one entry behind and gives up some in front.
LEMMA FlowOn ==
  ASSUME NEW s, s \in Seq(Range(s)), NEW e, NEW n \in 0 .. Len(s) + 1
  PROVE  FlowFacts(s, Append(s, e), SubSeq(Append(s, e), n + 1, Len(Append(s, e))), n, e)
<1> DEFINE S == Range(s) \cup {e}
           flow == Append(s, e)
           t == SubSeq(flow, n + 1, Len(flow))
<1>1. s \in Seq(S) /\ e \in S
  <2>1. ASSUME NEW i \in 1 .. Len(s) PROVE s[i] \in S
    OBVIOUS
  <2> QED
    BY <2>1
<1>2. /\ Len(s) \in Nat /\ flow \in Seq(S) /\ Len(flow) = Len(s) + 1
      /\ \A i \in 1 .. Len(s) : flow[i] = s[i]
      /\ flow[Len(s) + 1] = e /\ DOMAIN s = 1 .. Len(s)
  BY <1>1
<1> HIDE DEF flow, S
<1>3. /\ t \in Seq(S) /\ Len(t) = Len(flow) - n /\ DOMAIN t = 1 .. Len(t)
      /\ \A i \in 1 .. Len(t) : t[i] = flow[n + i]
  BY <1>2, SMTT(30)
<1> HIDE DEF t
<1>4. t \in Seq(Range(t))
  <2>1. \A i \in 1 .. Len(t) : t[i] \in Range(t)
    BY <1>3 DEF Range
  <2> QED
    BY <1>3, <2>1
<1> QED
  BY <1>2, <1>3, <1>4 DEF FlowFacts, flow, t

\* What a tick does to the queue, the clocks and the counters, without the samples' values.
LEMMA TickFacts ==
  ASSUME EvaluationAssumption, LoopTypes, Tick
  PROVE  /\ \E over \in BOOLEAN :
              LET flow == Append(transit, [ref |-> followed', over |-> over])
              IN  \E n \in 0 .. Len(flow) :
                    /\ Len(flow) - n <= Delay /\ transit' = SubSeq(flow, n + 1, Len(flow))
                    /\ \/ /\ seen' = seen /\ age' = IF age > Stale THEN age ELSE age + 1
                          /\ records' = {}
                       \/ \E newest \in 1 .. n : \E others \in SUBSET (1 .. newest - 1) :
                            /\ age' = 0 /\ seen' = flow[newest].over
                            /\ records' =
                                 {[pose |-> plan[1], source |-> source, ref |-> flow[i].ref,
                                   phase |-> phase] : i \in others \cup {newest}}
                    /\ overFor' = IF ~over THEN 0
                                  ELSE IF overFor > Trips THEN overFor ELSE overFor + 1
         /\ due = 0 => age <= Stale
         /\ due = 0 /\ seen => count' = count + 1
         /\ due # 0 => count' = count
         /\ count' \in 0 .. GuardCount - 1
         /\ due' \in 0 .. GuardEvery - 1 /\ (due # 0 => due' <= due - 1)
         /\ left' \in Nat
<1>1. /\ GuardEvery \in Nat \ {0} /\ GuardCount \in Nat \ {0} /\ Moving \in Nat /\ Settle \in Nat
      /\ HoldSec \in Nat
  BY DEF EvaluationAssumption
<1>2. Guard /\ Receive /\ left > 0
  BY DEF Tick
<1>3. /\ due = 0 => age <= Stale
      /\ due = 0 /\ seen => count' = count + 1
      /\ due # 0 => count' = count
      /\ count' \in 0 .. GuardCount - 1
  BY <1>1, <1>2 DEF Guard, Counted, LoopTypes
<1>4. /\ due' \in 0 .. GuardEvery - 1 /\ (due # 0 => due' <= due - 1)
      /\ left' \in Nat
  <2>1. CASE left > 1
    BY <1>1, <2>1, SMTT(30) DEF Tick, LoopTypes
  <2>2. CASE ~(left > 1)
    <3>1. due' = 0 /\ left' \in {0, Moving, Settle, HoldSec}
      BY <2>2 DEF Tick, NextPhase, Begin
    <3> QED
      BY <1>1, <3>1 DEF LoopTypes
  <2> QED
    BY <2>1, <2>2
<1> QED
  BY <1>2, <1>3, <1>4 DEF Receive

\* The number of guards that count an overload, times the ticks between them.
LEMMA CountedTicks ==
  ASSUME NEW k \in Nat, NEW n \in Nat, NEW m \in Nat
  PROVE  /\ n * k \in Nat /\ (n + 1) * k = n * k + k
         /\ n < m => n * k + k <= m * k
<1>1. n * k \in Nat /\ (n + 1) * k = n * k + k
  OBVIOUS
<1>2. ASSUME n < m PROVE n * k + k <= m * k
  <2>1. PICK d \in Nat : m = n + 1 + d
    <3>1. m - n - 1 \in Nat /\ m = n + 1 + (m - n - 1)
      BY <1>2
    <3> QED
      BY <3>1
  <2>2. m * k = (n * k + k) + d * k /\ d * k \in Nat
    BY <2>1
  <2> QED
    BY <1>1, <2>2
<1> QED
  BY <1>1, <1>2

\* The types of what the bound below is about.
AccountTypes(s, a, d, o, t) ==
  /\ GuardEvery \in Nat \ {0} /\ Delay \in Nat /\ Stale \in Nat
  /\ s \in BOOLEAN /\ a \in 0 .. Stale + 1 /\ d \in 0 .. GuardEvery - 1
  /\ o \in Nat /\ t \in Nat

\* The bound on an overload o ticks old: whether the telemetry shows it, the telemetry's
\* age, the ticks to the guard, and the ticks the guard has counted.
Bound(s, a, d, o, t) ==
  /\ ~s /\ a <= Stale => o <= a + Delay
  /\ ~s /\ a > Stale => o <= Stale + Delay + (GuardEvery - d)
  /\ s => o <= Stale + Delay + t + (GuardEvery - d)

\* What a tick may do to them.
Onward(s1, a1, d1, o1, t1, s2, a2, d2, o2, t2) ==
  /\ o2 <= o1 + 1
  /\ d1 = 0 => a1 <= Stale
  /\ d1 # 0 => d2 <= d1 - 1
  /\ d1 = 0 /\ s1 => t2 = t1 + GuardEvery
  /\ d1 # 0 => t2 = t1
  /\ \/ s2 = s1 /\ a2 = IF a1 > Stale THEN a1 ELSE a1 + 1
     \/ a2 = 0 /\ (~s2 => o2 <= Delay)

\* The bound moves on with a tick.
LEMMA TrackStep ==
  ASSUME NEW s1, NEW a1, NEW d1, NEW o1, NEW t1, NEW s2, NEW a2, NEW d2, NEW o2, NEW t2,
         AccountTypes(s1, a1, d1, o1, t1), AccountTypes(s2, a2, d2, o2, t2),
         Bound(s1, a1, d1, o1, t1), Onward(s1, a1, d1, o1, t1, s2, a2, d2, o2, t2)
  PROVE  Bound(s2, a2, d2, o2, t2)
<1> USE DEF Bound, Onward
<1>0. /\ GuardEvery \in Nat \ {0} /\ Delay \in Nat /\ Stale \in Nat
      /\ s1 \in BOOLEAN /\ a1 \in 0 .. Stale + 1 /\ d1 \in 0 .. GuardEvery - 1
      /\ o1 \in Nat /\ t1 \in Nat
      /\ s2 \in BOOLEAN /\ a2 \in 0 .. Stale + 1 /\ d2 \in 0 .. GuardEvery - 1
      /\ o2 \in Nat /\ t2 \in Nat
  BY DEF AccountTypes
<1>1. CASE ~s2
  <2>1. CASE s2 = s1 /\ a2 = IF a1 > Stale THEN a1 ELSE a1 + 1
    BY <1>0, <1>1, <2>1
  <2>2. CASE a2 = 0 /\ (~s2 => o2 <= Delay)
    BY <1>0, <1>1, <2>2
  <2> QED
    BY <2>1, <2>2
<1>2. CASE s2 /\ s1
  <2>1. CASE d1 = 0
    BY <1>0, <1>2, <2>1
  <2>2. CASE d1 # 0
    BY <1>0, <1>2, <2>2
  <2> QED
    BY <2>1, <2>2
<1>3. CASE s2 /\ ~s1
  <2>1. CASE a1 <= Stale
    BY <1>0, <1>3, <2>1
  <2>2. CASE a1 > Stale
    BY <1>0, <1>3, <2>2
  <2> QED
    BY <1>0, <2>1, <2>2
<1> QED
  BY <1>1, <1>2, <1>3

\* A tick keeps the types of the loop and the account of an overload.
LEMMA TickTracks ==
  ASSUME EvaluationAssumption, LoopTypes, OverloadIsTracked, Tick
  PROVE  LoopTypes' /\ OverloadIsTracked'
<1>1. /\ GuardEvery \in Nat \ {0} /\ GuardCount \in Nat \ {0} /\ Delay \in Nat /\ Stale \in Nat
  BY DEF EvaluationAssumption
<1>2. PICK over \in BOOLEAN :
        LET flow == Append(transit, [ref |-> followed', over |-> over])
        IN  \E n \in 0 .. Len(flow) :
              /\ Len(flow) - n <= Delay /\ transit' = SubSeq(flow, n + 1, Len(flow))
              /\ \/ /\ seen' = seen /\ age' = IF age > Stale THEN age ELSE age + 1
                    /\ records' = {}
                 \/ \E newest \in 1 .. n : \E others \in SUBSET (1 .. newest - 1) :
                      /\ age' = 0 /\ seen' = flow[newest].over
                      /\ records' =
                           {[pose |-> plan[1], source |-> source, ref |-> flow[i].ref,
                             phase |-> phase] : i \in others \cup {newest}}
              /\ overFor' = IF ~over THEN 0
                            ELSE IF overFor > Trips THEN overFor ELSE overFor + 1
  BY TickFacts
<1> DEFINE flow == Append(transit, [ref |-> followed', over |-> over])
<1>3. PICK n \in 0 .. Len(flow) :
        /\ Len(flow) - n <= Delay /\ transit' = SubSeq(flow, n + 1, Len(flow))
        /\ \/ seen' = seen /\ age' = IF age > Stale THEN age ELSE age + 1
           \/ \E newest \in 1 .. n : age' = 0 /\ seen' = flow[newest].over
        /\ overFor' = IF ~over THEN 0
                      ELSE IF overFor > Trips THEN overFor ELSE overFor + 1
  BY <1>2
<1>4. /\ transit \in Seq(Range(transit)) /\ Len(transit) <= Delay
      /\ \A i \in DOMAIN transit : transit[i].over \in BOOLEAN
      /\ seen \in BOOLEAN /\ age \in 0 .. Stale + 1 /\ count \in 0 .. GuardCount - 1
      /\ due \in 0 .. GuardEvery - 1 /\ overFor \in Nat
  BY DEF LoopTypes
<1>5. /\ Len(transit) \in Nat /\ Len(flow) = Len(transit) + 1
      /\ \A i \in 1 .. Len(transit) : flow[i] = transit[i]
      /\ flow[Len(transit) + 1] = [ref |-> followed', over |-> over]
      /\ transit' \in Seq(Range(transit')) /\ Len(transit') = Len(flow) - n
      /\ DOMAIN transit = 1 .. Len(transit) /\ DOMAIN transit' = 1 .. Len(transit')
      /\ \A i \in 1 .. Len(transit') : transit'[i] = flow[n + i]
  <2>1. Len(flow) = Len(transit) + 1
    BY <1>4
  <2>2. n \in 0 .. Len(transit) + 1
    BY <1>3, <2>1
  <2>3. transit' = SubSeq(flow, n + 1, Len(flow)) /\ transit \in Seq(Range(transit))
    BY <1>3, <1>4
  <2>4. FlowFacts(transit, flow, transit', n, [ref |-> followed', over |-> over])
    BY <2>2, <2>3, FlowOn
  <2> QED
    BY <2>4 DEF FlowFacts
<1> HIDE DEF flow
<1>6. overFor' \in Nat /\ overFor' <= overFor + 1 /\ (~over => overFor' = 0)
  <2>1. overFor' = IF ~over THEN 0
                   ELSE IF overFor > Trips THEN overFor ELSE overFor + 1
    BY <1>3
  <2>2. overFor \in Nat
    BY <1>4
  <2> QED
    BY <2>1, <2>2
<1>17. Len(transit) \in Nat /\ Len(flow) = Len(transit) + 1 /\ n \in 0 .. Len(transit) + 1 /\ overFor \in Nat
       /\ Len(transit') = Len(transit) + 1 - n /\ Len(transit) <= Delay /\ Len(flow) - n <= Delay
  <2>1. Len(transit) \in Nat /\ Len(flow) = Len(transit) + 1 /\ Len(transit') = Len(flow) - n
    BY <1>5
  <2>2. n \in 0 .. Len(flow) /\ Len(flow) - n <= Delay
    BY <1>3
  <2>3. overFor \in Nat /\ Len(transit) <= Delay
    BY <1>4
  <2> QED
    BY <2>1, <2>2, <2>3
<1>7. ASSUME NEW i \in 1 .. Len(flow)
      PROVE  flow[i].over \in BOOLEAN /\ (i > Len(flow) - overFor' => flow[i].over)
  <2>1. CASE i = Len(transit) + 1
    <3>1. flow[i].over = over
      BY <1>5, <2>1
    <3> QED
      BY <1>6, <1>17, <2>1, <3>1
  <2>2. CASE i \in 1 .. Len(transit)
    <3>1. flow[i] = transit[i] /\ transit[i].over \in BOOLEAN
      BY <1>4, <1>5, <2>2
    <3>2. i > Len(flow) - overFor' => i > Len(transit) - overFor
      <4>1. Len(transit) \in Nat /\ i \in Nat /\ overFor \in Nat /\ overFor' \in Nat
            /\ overFor' <= overFor + 1 /\ Len(flow) = Len(transit) + 1
        BY <1>6, <1>17, <2>2
      <4> QED
        BY <4>1, FromTheEnd
    <3>3. i > Len(transit) - overFor => transit[i].over
      BY <1>5, <2>2 DEF OverloadIsTracked
    <3> QED
      BY <3>1, <3>2, <3>3
  <2> QED
    <3>1. i = Len(transit) + 1 \/ i \in 1 .. Len(transit)
      BY <1>17, SMTT(30)
    <3> QED
      BY <2>1, <2>2, <3>1
<1>8. ASSUME NEW i \in DOMAIN transit'
      PROVE  transit'[i].over \in BOOLEAN /\ (i > Len(transit') - overFor' => transit'[i].over)
  <2>1. i \in 1 .. Len(transit') /\ n + i \in 1 .. Len(flow) /\ transit'[i] = flow[n + i]
    <3>1. i \in 1 .. Len(transit') /\ (i \in 1 .. Len(transit') => transit'[i] = flow[n + i])
      BY <1>5
    <3>2. i \in 1 .. Len(transit) + 1 - n => n + i \in 1 .. Len(transit) + 1
      BY <1>17, SMTT(30)
    <3> QED
      BY <1>17, <3>1, <3>2
  <2>2. i > Len(transit') - overFor' => n + i > Len(flow) - overFor'
    <3>1. Len(transit) \in Nat /\ i \in Nat /\ n \in Nat /\ overFor' \in Nat
          /\ Len(transit') = Len(transit) + 1 - n /\ Len(flow) = Len(transit) + 1
      BY <1>6, <1>17, <2>1, SMTT(30)
    <3> QED
      BY <3>1, FromTheFront, Zenon
  <2> QED
    BY <1>7, <2>1, <2>2
<1>9. \/ seen' = seen /\ age' = IF age > Stale THEN age ELSE age + 1
      \/ age' = 0 /\ seen' \in BOOLEAN /\ (~seen' => overFor' <= Delay)
  <2>1. ASSUME NEW newest \in 1 .. n, age' = 0, seen' = flow[newest].over
        PROVE  seen' \in BOOLEAN /\ (~seen' => overFor' <= Delay)
    <3>1. newest \in 1 .. Len(flow) /\ n \in Int
      BY <1>17
    <3>2. seen' \in BOOLEAN /\ (newest > Len(flow) - overFor' => seen')
      BY <1>7, <2>1, <3>1
    <3>3. ~seen' => newest <= Len(flow) - overFor'
      <4>1. newest \in Int /\ Len(flow) \in Int /\ overFor' \in Int
        BY <1>6, <1>17, <3>1
      <4> QED
        BY <3>2, <4>1
    <3>4. Len(flow) <= Delay + 1
      BY <1>1, <1>17
    <3> QED
      BY <1>1, <1>17, <1>6, <3>1, <3>2, <3>3, <3>4, SMTT(30)
  <2> QED
    BY <1>3, <2>1
<1>10. /\ due = 0 => age <= Stale
       /\ due = 0 /\ seen => count' = count + 1
       /\ due # 0 => count' = count
       /\ count' \in 0 .. GuardCount - 1
       /\ due' \in 0 .. GuardEvery - 1 /\ (due # 0 => due' <= due - 1)
       /\ left' \in Nat
  BY TickFacts
<1>11. LoopTypes'
  <2>1. seen' \in BOOLEAN /\ age' \in 0 .. Stale + 1
    BY <1>1, <1>4, <1>9
  <2>2. Len(transit') <= Delay
    BY <1>3, <1>5
  <2> QED
    BY <1>5, <1>6, <1>8, <1>10, <2>1, <2>2 DEF LoopTypes
<1>12. /\ count * GuardEvery \in Nat /\ (count + 1) * GuardEvery = count * GuardEvery + GuardEvery
       /\ count' * GuardEvery \in Nat
  <2>1. GuardEvery \in Nat /\ count \in Nat /\ count' \in Nat
    BY <1>1, <1>4, <1>10
  <2> QED
    BY <2>1, CountedTicks
<1>13. Bound(seen, age, due, overFor, count * GuardEvery)
  BY DEF Bound, OverloadIsTracked
<1>14. Onward(seen, age, due, overFor, count * GuardEvery,
              seen', age', due', overFor', count' * GuardEvery)
  BY <1>6, <1>9, <1>10, <1>12 DEF Onward
<1>15. Bound(seen', age', due', overFor', count' * GuardEvery)
  <2>1. AccountTypes(seen, age, due, overFor, count * GuardEvery)
    BY <1>1, <1>4, <1>12 DEF AccountTypes
  <2>2. AccountTypes(seen', age', due', overFor', count' * GuardEvery)
    <3>1. /\ seen' \in BOOLEAN /\ age' \in 0 .. Stale + 1 /\ due' \in 0 .. GuardEvery - 1
          /\ overFor' \in Nat
      BY <1>11 DEF LoopTypes
    <3> QED
      BY <1>1, <1>12, <3>1 DEF AccountTypes
  <2> QED
    BY <1>13, <1>14, <2>1, <2>2, TrackStep, Zenon
<1>16. OverloadIsTracked'
  BY <1>8, <1>15 DEF OverloadIsTracked, Bound
<1> QED
  BY <1>11, <1>16

LEMMA StandInit == EvaluationAssumption /\ StandingInit => StandingIInv /\ PlanHolds
<1> SUFFICES ASSUME EvaluationAssumption, StandingInit PROVE StandingIInv /\ PlanHolds
  OBVIOUS
<1>1. /\ GuardEvery \in Nat \ {0} /\ GuardCount \in Nat \ {0} /\ Delay \in Nat /\ Stale \in Nat
  BY DEF EvaluationAssumption
<1>2. LoopTypes /\ OverloadIsTracked
  <2>1. transit = <<>> /\ transit \in Seq(Range(transit)) /\ Len(transit) = 0
    BY DEF StandingInit
  <2>2. ~seen /\ age = 0 /\ count = 0 /\ due = 0 /\ left = 0 /\ overFor = 0 /\ seen \in BOOLEAN
    BY DEF StandingInit
  <2> QED
    BY <1>1, <2>1, <2>2 DEF LoopTypes, OverloadIsTracked
<1>3. BeforeTheRun /\ RefsBelong /\ SamplesBelong /\ PlanHolds
  BY DEF StandingInit, BeforeTheRun, RefsBelong, SamplesBelong, HoldRows,
     TransitionRows, PlanHolds
<1> QED
  BY <1>2, <1>3 DEF StandingIInv

\* What a tick does to the queue and to the log, in the references alone.
Carried(flow, n) ==
  /\ Len(transit) \in Nat /\ Len(flow) = Len(transit) + 1 /\ n \in 0 .. Len(flow)
  /\ Len(transit) <= Delay
  /\ DOMAIN transit = 1 .. Len(transit) /\ DOMAIN transit' = 1 .. Len(transit')
  /\ Len(transit') = Len(flow) - n /\ Len(flow) - n <= Delay
  /\ \A i \in 1 .. Len(transit) : flow[i].ref = transit[i].ref
  /\ flow[Len(transit) + 1].ref = followed'
  /\ \A i \in 1 .. Len(transit') : n + i \in 1 .. Len(flow) /\ transit'[i].ref = flow[n + i].ref
  /\ \A r \in records' :
       /\ r.pose = plan[1] /\ r.source = source /\ r.phase = phase
       /\ \E i \in 1 .. Len(flow) : r.ref = flow[i].ref

LEMMA TickFlow ==
  ASSUME EvaluationAssumption, LoopTypes, Tick
  PROVE  \E flow, n : Carried(flow, n)
<1>1. PICK over \in BOOLEAN :
        LET flow == Append(transit, [ref |-> followed', over |-> over])
        IN  \E n \in 0 .. Len(flow) :
              /\ Len(flow) - n <= Delay /\ transit' = SubSeq(flow, n + 1, Len(flow))
              /\ \/ records' = {}
                 \/ \E newest \in 1 .. n : \E others \in SUBSET (1 .. newest - 1) :
                      records' =
                           {[pose |-> plan[1], source |-> source, ref |-> flow[i].ref,
                             phase |-> phase] : i \in others \cup {newest}}
  BY TickFacts
<1> DEFINE e == [ref |-> followed', over |-> over]
           flow == Append(transit, e)
<1>2. PICK n \in 0 .. Len(flow) :
        /\ Len(flow) - n <= Delay /\ transit' = SubSeq(flow, n + 1, Len(flow))
        /\ \/ records' = {}
           \/ \E newest \in 1 .. n : \E others \in SUBSET (1 .. newest - 1) :
                records' = {[pose |-> plan[1], source |-> source, ref |-> flow[i].ref,
                             phase |-> phase] : i \in others \cup {newest}}
  BY <1>1
<1>3. transit \in Seq(Range(transit)) /\ Len(transit) <= Delay
  BY DEF LoopTypes
<1>4. Len(transit) \in Nat /\ Len(flow) = Len(transit) + 1
  BY <1>3
<1>5. FlowFacts(transit, flow, transit', n, e)
  <2>1. n \in 0 .. Len(transit) + 1
    BY <1>2, <1>4
  <2> QED
    BY <1>2, <1>3, <2>1, FlowOn
<1>6. ASSUME NEW r \in records'
      PROVE  /\ r.pose = plan[1] /\ r.source = source /\ r.phase = phase
             /\ \E i \in 1 .. Len(flow) : r.ref = flow[i].ref
  <2> HIDE DEF flow
  <2>1. PICK newest \in 1 .. n : \E others \in SUBSET (1 .. newest - 1) :
          records' = {[pose |-> plan[1], source |-> source, ref |-> flow[i].ref,
                       phase |-> phase] : i \in others \cup {newest}}
    BY <1>2, <1>6
  <2>2. PICK others \in SUBSET (1 .. newest - 1) :
          records' = {[pose |-> plan[1], source |-> source, ref |-> flow[i].ref,
                       phase |-> phase] : i \in others \cup {newest}}
    BY <2>1
  <2>3. PICK i \in others \cup {newest} :
          r = [pose |-> plan[1], source |-> source, ref |-> flow[i].ref, phase |-> phase]
    BY <1>6, <2>2
  <2>4. i \in 1 .. Len(flow)
    <3>1. n \in 0 .. Len(flow) /\ Len(flow) \in Nat /\ newest \in 1 .. n
      BY <1>2, <1>4
    <3> QED
      BY <2>2, <2>3, <3>1
  <2> QED
    BY <2>3, <2>4
<1>7. \A i \in 1 .. Len(transit') : n + i \in 1 .. Len(flow)
  <2>1. n \in Nat /\ Len(flow) \in Nat /\ Len(transit') = Len(flow) - n
    BY <1>2, <1>4, <1>5 DEF FlowFacts
  <2> QED
    BY <2>1
<1>8. flow[Len(transit) + 1].ref = followed' /\ \A i \in 1 .. Len(transit) : flow[i] = transit[i]
  BY <1>5 DEF FlowFacts
<1>9. /\ DOMAIN transit = 1 .. Len(transit) /\ DOMAIN transit' = 1 .. Len(transit')
      /\ Len(transit') = Len(flow) - n
      /\ \A i \in 1 .. Len(transit') : transit'[i] = flow[n + i]
  BY <1>5 DEF FlowFacts
<1> HIDE DEF flow
<1> QED
  <2>1. Carried(flow, n)
    BY <1>2, <1>3, <1>4, <1>6, <1>7, <1>8, <1>9 DEF Carried
  <2> QED
    BY <2>1

\* Where the settling phase stands when the queue takes one entry behind.
LEMMA SettleOn ==
  ASSUME NEW f, NEW m \in Nat, NEW i \in 1 .. f, NEW l \in 1 .. Settle, f = m + 1,
         Settle \in Nat
  PROVE  /\ i \in 1 .. m \/ i = m + 1
         /\ i > f - (Settle - (l - 1)) => i > m - (Settle - l)
         /\ Settle > f /\ l = 1 /\ i \in 1 .. m => i > m - (Settle - l)
OBVIOUS

\* A tick logs and carries on what belongs to its phase.
LEMMA TickBelongs ==
  ASSUME EvaluationAssumption, LoopTypes, RefsBelong, Tick
  PROVE  RefsBelong' /\ SamplesBelong'
<1>1. /\ Moving \in Nat \ {0} /\ Settle \in Nat \ {0} /\ HoldSec \in Nat \ {0} /\ Delay \in Nat
      /\ Settle > Delay + 1 /\ left \in Nat
  BY DEF EvaluationAssumption, LoopTypes
<1>2. PICK flow, n : Carried(flow, n)
  BY TickFlow
<1>3. /\ at = "run" /\ at' = "run" /\ left > 0
      /\ ref' = IF phase = "transition" /\ left > 1 THEN "between" ELSE plan[1]
      /\ followed' \in {ref, ref'}
      /\ left > 1 => left' = left - 1 /\ plan' = plan /\ source' = source /\ phase' = phase
      /\ ~(left > 1) => NextPhase
  BY DEF Tick, Publish, Follow
<1>4. ASSUME NEW i \in 1 .. Len(flow) PROVE i \in 1 .. Len(transit) \/ i = Len(transit) + 1
  BY <1>2, <1>4 DEF Carried
<1>5. CASE phase = "transition"
  <2>1. followed' \in {source, "between", plan[1]} /\ ref' \in {source, "between", plan[1]}
    BY <1>3, <1>5 DEF RefsBelong
  <2>2. \A i \in 1 .. Len(flow) : flow[i].ref \in {source, "between", plan[1]}
    BY <1>2, <1>3, <1>4, <1>5, <2>1 DEF RefsBelong, Carried
  <2>3. SamplesBelong'
    BY <1>2, <1>5, <2>2 DEF SamplesBelong, HoldRows, TransitionRows, Carried
  <2>4. CASE left > 1
    <3>1. phase' = phase /\ plan' = plan /\ source' = source
          /\ {ref', followed'} \subseteq {source', "between", plan'[1]}
      BY <1>3, <2>1, <2>4
    <3>2. \A i \in DOMAIN transit' : transit'[i].ref \in {source', "between", plan'[1]}
      BY <1>2, <2>2, <3>1 DEF Carried
    <3> QED
      BY <1>5, <2>3, <3>1, <3>2 DEF RefsBelong, Settled
  <2>5. CASE ~(left > 1)
    <3>1. phase' = "settle" /\ left' = Settle /\ plan' = plan /\ ref' = plan[1]
      BY <1>3, <1>5, <2>5 DEF NextPhase, Begin
    <3>2. left' \in 1 .. Settle /\ ~(left' < Settle)
      BY <1>1, <3>1
    <3>3. ASSUME NEW i \in 1 .. Len(transit') PROVE ~(i > Len(transit') - (Settle - left'))
      BY <1>1, <1>2, <3>1 DEF Carried
    <3> QED
      BY <1>2, <3>1, <3>2, <3>3, <2>3 DEF RefsBelong, Settled, Carried
  <2> QED
    BY <2>3, <2>4, <2>5
<1>6. CASE phase = "settle"
  <2>1. ref = plan[1] /\ ref' = plan[1] /\ followed' = plan[1] /\ left \in 1 .. Settle
    BY <1>3, <1>6 DEF RefsBelong
  <2>2. ASSUME NEW i \in 1 .. Len(flow),
               i > Len(flow) - (Settle - (left - 1)) \/ left = 1
        PROVE  flow[i].ref = plan[1]
    <3>1. CASE i = Len(transit) + 1
      BY <1>2, <2>1, <3>1 DEF Carried
    <3>2. CASE i \in 1 .. Len(transit)
      <4>1. Settle > Len(flow)
        BY <1>1, <1>2 DEF Carried
      <4>2. i > Len(transit) - (Settle - left)
        BY <1>1, <1>2, <2>1, <2>2, <3>2, <4>1, SettleOn DEF Carried
      <4>3. transit[i].ref = plan[1]
        BY <1>2, <1>3, <1>6, <3>2, <4>2 DEF RefsBelong, Settled, Carried
      <4> QED
        BY <1>2, <3>2, <4>3 DEF Carried
    <3> QED
      BY <1>4, <3>1, <3>2
  <2>3. SamplesBelong'
    BY <1>2, <1>6 DEF SamplesBelong, HoldRows, TransitionRows, Carried
  <2>4. CASE left > 1
    <3>1. /\ phase' = "settle" /\ left' = left - 1 /\ plan' = plan /\ source' = source
          /\ left' \in 1 .. Settle
      BY <1>1, <1>3, <1>6, <2>1, <2>4
    <3>2. ASSUME NEW i \in 1 .. Len(transit'), i > Len(transit') - (Settle - left')
          PROVE  transit'[i].ref = plan[1]
      <4>1. n + i \in 1 .. Len(flow) /\ transit'[i].ref = flow[n + i].ref
        BY <1>2 DEF Carried
      <4>2. n + i > Len(flow) - (Settle - (left - 1))
        <5>1. /\ Settle - left' \in Nat /\ i \in Nat /\ n \in Nat /\ Len(transit) \in Nat
              /\ Len(flow) = Len(transit) + 1 /\ Len(transit') = Len(transit) + 1 - n
          BY <1>1, <1>2, <3>1 DEF Carried
        <5>2. n + i > Len(flow) - (Settle - left')
          BY <3>2, <5>1, FromTheFront, Zenon
        <5> QED
          BY <3>1, <5>2
      <4> QED
        BY <2>2, <4>1, <4>2
    <3> QED
      BY <1>2, <2>1, <3>1, <3>2, <2>3 DEF RefsBelong, Settled, Carried
  <2>5. CASE ~(left > 1)
    <3>1. phase' = "hold" /\ plan' = plan /\ left = 1
      BY <1>3, <1>6, <2>1, <2>5 DEF NextPhase, Begin
    <3>2. \A i \in 1 .. Len(transit') : transit'[i].ref = plan[1]
      BY <1>2, <2>2, <3>1 DEF Carried
    <3> QED
      BY <1>2, <2>1, <3>1, <3>2, <2>3 DEF RefsBelong, Settled, Carried
  <2> QED
    BY <2>4, <2>5
<1>7. CASE phase = "hold"
  <2>1. ref = plan[1] /\ ref' = plan[1] /\ followed' = plan[1]
    BY <1>3, <1>7 DEF RefsBelong
  <2>2. \A i \in 1 .. Len(flow) : flow[i].ref = plan[1]
    BY <1>2, <1>3, <1>4, <1>7, <2>1 DEF RefsBelong, Settled, Carried
  <2>3. SamplesBelong'
    BY <1>2, <1>7, <2>2 DEF SamplesBelong, HoldRows, TransitionRows, Carried
  <2>4. \A i \in 1 .. Len(transit') : transit'[i].ref = plan[1]
    BY <1>2, <2>2 DEF Carried
  <2>5. \/ phase' = "hold" /\ plan' = plan
        \/ phase' = "transition" /\ source' = plan[1]
    BY <1>3, <1>7 DEF NextPhase, Begin
  <2> QED
    BY <1>2, <2>1, <2>3, <2>4, <2>5 DEF RefsBelong, Settled, Carried
<1> QED
  BY <1>3, <1>5, <1>6, <1>7 DEF RefsBelong

\* The rest of the loop keeps the types and the account of an overload, whatever the phase.
LEMMA QuietLoop ==
  ASSUME EvaluationAssumption, LoopTypes, OverloadIsTracked,
         <<seen, age, count, due, transit, overFor>>' = <<seen, age, count, due, transit, overFor>>,
         left' \in Nat
  PROVE  LoopTypes' /\ OverloadIsTracked'
<1>1. /\ seen' = seen /\ age' = age /\ count' = count /\ due' = due /\ transit' = transit
      /\ overFor' = overFor /\ left' \in Nat
  OBVIOUS
<1>2. LoopTypes'
  BY <1>1 DEF LoopTypes
<1>3. OverloadIsTracked'
  BY <1>1 DEF OverloadIsTracked
<1> QED
  BY <1>2, <1>3

\* Nothing is logged when the log does not change.
LEMMA QuietLog == ASSUME SamplesBelong, UNCHANGED records PROVE SamplesBelong'
  BY DEF SamplesBelong, HoldRows, TransitionRows

\* A tick keeps the whole invariant.
LEMMA TickKeeps ==
  ASSUME EvaluationAssumption, StandingIInv, Tick PROVE StandingIInv'
<1>1. LoopTypes /\ OverloadIsTracked /\ RefsBelong
  BY DEF StandingIInv
<1>2. LoopTypes' /\ OverloadIsTracked'
  BY <1>1, TickTracks
<1>3. RefsBelong' /\ SamplesBelong'
  BY <1>1, TickBelongs
<1>4. BeforeTheRun'
  BY DEF Tick, BeforeTheRun
<1> QED
  BY <1>2, <1>3, <1>4 DEF StandingIInv

\* So does an evaluation or a capture that starts from nothing.
LEMMA StartKeeps ==
  ASSUME EvaluationAssumption, Start PROVE StandingIInv'
<1>1. /\ GuardEvery \in Nat \ {0} /\ GuardCount \in Nat \ {0} /\ Delay \in Nat /\ Stale \in Nat
  BY DEF EvaluationAssumption
<1>2. /\ transit' = <<>> /\ transit' \in Seq(Range(transit')) /\ Len(transit') = 0
      /\ ~seen' /\ age' = 0 /\ count' = 0 /\ due' = 0 /\ left' = 0 /\ overFor' = 0
      /\ seen' \in BOOLEAN
  <2>1. /\ transit' = <<>>
        /\ ~seen' /\ age' = 0 /\ count' = 0 /\ due' = 0 /\ left' = 0 /\ overFor' = 0
        /\ seen' = FALSE
    BY DEF Start
  <2>2. <<>> \in Seq({}) /\ Len(<<>>) = 0
    OBVIOUS
  <2>3. transit' \in Seq(Range(transit'))
    BY <2>1, <2>2, InRange
  <2> QED
    BY <2>1, <2>2, <2>3
<1>3. LoopTypes' /\ OverloadIsTracked'
  BY <1>1, <1>2 DEF LoopTypes, OverloadIsTracked
<1>4. at' # "run"
  BY DEF Start
<1>5. BeforeTheRun' /\ RefsBelong' /\ SamplesBelong'
  BY <1>4 DEF Start, BeforeTheRun, RefsBelong, SamplesBelong,
     HoldRows, TransitionRows
<1> QED
  BY <1>3, <1>5 DEF StandingIInv

\* Each of the other actions leaves the loop alone, up to where a run begins.
LEMMA OtherKeeps ==
  ASSUME EvaluationAssumption, StandingIInv,
         \/ MapChanged \/ CaptureMode \/ EnableHold \/ ReleaseOverride
         \/ LoggingStarts \/ Key \/ GuardTrips \/ GuardFinds \/ Leave
  PROVE  StandingIInv'
<1>1. /\ LoopTypes /\ BeforeTheRun /\ OverloadIsTracked /\ SamplesBelong
      /\ Moving \in Nat
  BY DEF StandingIInv, EvaluationAssumption
<1>2. CASE LoggingStarts
  <2>1. /\ transit' = transit /\ transit = <<>> /\ DOMAIN transit' = {}
        /\ UNCHANGED <<seen, age, count, overFor, records, source, ref, followed>>
        /\ due' = due /\ left' \in Nat
        /\ ref = "measured" /\ followed = "measured" /\ source = "measured"
    BY <1>1, <1>2 DEF LoggingStarts, BeforeTheRun, Begin, Exit,
       LoopTypes
  <2>2. LoopTypes' /\ OverloadIsTracked' /\ SamplesBelong'
    BY <1>1, <2>1, QuietLoop, QuietLog
  <2>3. at' = "exited" \/ (at' = "run" /\ phase' = "transition")
    BY <1>2 DEF LoggingStarts, Begin, Exit
  <2>4. BeforeTheRun' /\ RefsBelong'
    BY <2>1, <2>3 DEF BeforeTheRun, RefsBelong, Settled
  <2> QED
    BY <2>2, <2>4 DEF StandingIInv
<1>3. CASE ~LoggingStarts
  <2>1. /\ UNCHANGED <<seen, age, count, due, transit, overFor, left, records, source>>
        /\ at' # "run"
        /\ \/ UNCHANGED <<ref, followed>>
           \/ ref' = "measured" /\ followed' = "measured"
        /\ at' \notin {"exited", "run", "abort"} => at \notin {"exited", "run", "abort"}
    <3>1. CASE MapChanged
      BY <3>1 DEF MapChanged, loopVars
    <3>2. CASE CaptureMode
      BY <3>2 DEF CaptureMode, loopVars, Capture, CaptureArmed,
         CaptureTorqueSeen, CaptureRejected, CaptureSaved, CaptureEnds,
         Exit
    <3>3. CASE EnableHold \/ ReleaseOverride
      BY <3>3 DEF EnableHold, ReleaseOverride, Exit
    <3>4. CASE Key \/ GuardTrips \/ GuardFinds \/ Leave
      BY <3>4 DEF Key, GuardTrips, GuardFinds, Abort, Leave,
         Finish, Held, Interrupted, ShutDown, Exit, loopVars
    <3> QED
      BY <1>3, <3>1, <3>2, <3>3, <3>4
  <2>2. left' \in Nat
    BY <1>1, <2>1 DEF LoopTypes
  <2>3. LoopTypes' /\ OverloadIsTracked' /\ SamplesBelong'
    BY <1>1, <2>1, <2>2, QuietLoop, QuietLog
  <2>4. BeforeTheRun' /\ RefsBelong'
    BY <1>1, <2>1 DEF BeforeTheRun, RefsBelong
  <2> QED
    BY <2>3, <2>4 DEF StandingIInv
<1> QED
  BY <1>2, <1>3

LEMMA StandStep ==
  ASSUME EvaluationAssumption, StandingIInv, [StandingNext]_standingVars PROVE StandingIInv'
<1>1. CASE Start
  BY <1>1, StartKeeps
<1>2. CASE Tick
  BY <1>2, TickKeeps
<1>3. CASE \/ MapChanged \/ CaptureMode \/ EnableHold \/ ReleaseOverride
           \/ LoggingStarts \/ Key \/ GuardTrips \/ GuardFinds \/ Leave
  BY <1>3, OtherKeeps
<1>4. CASE UNCHANGED standingVars
  <2>1. /\ UNCHANGED <<seen, age, count, due, transit, overFor, left, records, source, phase>>
        /\ UNCHANGED <<at, ref, followed, plan>>
    BY <1>4 DEF standingVars, loopVars
  <2>2. /\ LoopTypes /\ OverloadIsTracked /\ SamplesBelong /\ left' \in Nat
    BY <2>1 DEF StandingIInv, LoopTypes
  <2>3. LoopTypes' /\ OverloadIsTracked' /\ SamplesBelong'
    BY <2>1, <2>2, QuietLoop, QuietLog
  <2>4. BeforeTheRun' /\ RefsBelong'
    BY <2>1 DEF StandingIInv, BeforeTheRun, RefsBelong, Settled
  <2> QED
    BY <2>3, <2>4 DEF StandingIInv
<1> QED
  BY <1>1, <1>2, <1>3, <1>4 DEF StandingNext

\* The loop's numbers, the account of an overload, and where every reference that is
\* published, followed or on its way belongs, hold in every reachable state.
THEOREM StandInvariance == StandingSpec => []StandingIInv
<1>1. ASSUME EvaluationAssumption PROVE StandingSpec => []StandingIInv
  <2>1. StandingInit => StandingIInv
    BY <1>1, StandInit
  <2>2. StandingIInv /\ [StandingNext]_standingVars => StandingIInv'
    BY <1>1, StandStep
  <2> QED
    BY <2>1, <2>2, PTL DEF StandingSpec
<1> QED
  BY <1>1, EvaluationAssumption DEF EvaluationAssumption

\* An overload that lasts stops the motion within GuardEvery * GuardCount + Delay + Stale
\* ticks, whatever telemetry is lost or late and whatever the phase.
THEOREM OverloadStops == StandingSpec => []OverloadStopsMotion
<1>1. ASSUME EvaluationAssumption, StandingIInv PROVE OverloadStopsMotion
  <2>1. /\ GuardEvery \in Nat \ {0} /\ GuardCount \in Nat \ {0} /\ Delay \in Nat /\ Stale \in Nat
    BY <1>1 DEF EvaluationAssumption
  <2>2. /\ seen \in BOOLEAN /\ age \in 0 .. Stale + 1 /\ count \in 0 .. GuardCount - 1
        /\ due \in 0 .. GuardEvery - 1 /\ overFor \in Nat
        /\ ~seen /\ age <= Stale => overFor <= age + Delay
        /\ ~seen /\ age > Stale => overFor <= Stale + Delay + (GuardEvery - due)
        /\ seen => overFor <= Stale + Delay + count * GuardEvery + (GuardEvery - due)
    BY <1>1 DEF StandingIInv, LoopTypes, OverloadIsTracked
  <2>3. /\ count * GuardEvery \in Nat
        /\ count * GuardEvery + GuardEvery <= GuardCount * GuardEvery
        /\ GuardCount * GuardEvery = GuardEvery * GuardCount
        /\ GuardEvery * GuardCount \in Nat /\ GuardEvery <= GuardEvery * GuardCount
    <3>1. GuardEvery \in Nat /\ count \in Nat /\ GuardCount \in Nat /\ count < GuardCount
      BY <2>1, <2>2
    <3>2. /\ count * GuardEvery \in Nat
          /\ count * GuardEvery + GuardEvery <= GuardCount * GuardEvery
      BY <3>1, CountedTicks
    <3>3. GuardCount * GuardEvery = GuardEvery * GuardCount /\ GuardEvery * GuardCount \in Nat
      BY <3>1
    <3> QED
      BY <3>1, <3>2, <3>3
  <2> DEFINE all == GuardEvery * GuardCount
             counted == count * GuardEvery
  <2>4. /\ all \in Nat /\ counted \in Nat /\ counted + GuardEvery <= all
    BY <2>3
  <2>5. seen => overFor <= Stale + Delay + counted + (GuardEvery - due)
    BY <2>2
  <2> HIDE DEF all, counted
  <2>6. overFor <= all + Delay + Stale
    BY <2>1, <2>2, <2>4, <2>5
  <2> QED
    BY <2>6 DEF all, OverloadStopsMotion, Trips
<1>2. ASSUME EvaluationAssumption PROVE StandingSpec => []OverloadStopsMotion
  <2>1. StandingIInv => OverloadStopsMotion
    BY <1>1, <1>2
  <2>2. StandingSpec => []StandingIInv
    BY <1>2, StandInvariance
  <2> QED
    BY <2>1, <2>2, PTL
<1> QED
  BY <1>2, EvaluationAssumption DEF EvaluationAssumption

\* What is logged as holding a pose was measured in that pose, and what is logged as a
\* transition not before the pose it leaves.
THEOREM SamplesLabelled == StandingSpec => []SamplesBelong
<1>1. StandingIInv => SamplesBelong
  BY DEF StandingIInv
<1> QED
  BY <1>1, StandInvariance, PTL

(***************************************************************************)
(* The numbers of the standing test: its smooth step, its audit, its       *)
(* medians and percentiles, and the order of the poses of an evaluation.   *)
(***************************************************************************)

LEMMA MulMono ==
  ASSUME NEW a \in Int, NEW b \in Int, NEW c \in Int, a <= b, 0 <= c
  PROVE  a * c <= b * c
<1>1. 0 <= (b - a) * c
  OBVIOUS
<1>2. (b - a) * c = b * c - a * c
  OBVIOUS
<1> QED
  BY <1>1, <1>2

\* One tick of the smooth step covers at most three halves of an n-th of the way.
LEMMA SmoothStep ==
  ASSUME NEW n \in Int, NEW k \in Int
  PROVE  2 * (Smooth(k + 1, n) - Smooth(k, n)) <= 3 * (n * n)
<1> DEFINE e == n - 2 * k - 1
<1>1. Smooth(k + 1, n) - Smooth(k, n) = 6 * (n * k) - 6 * (k * k) - 6 * k + 3 * n - 2
  <2>1. Smooth(k, n) = 3 * (n * k * k) - 2 * (k * k * k)
    BY DEF Smooth
  <2>2. (k + 1) * (k + 1) = k * k + 2 * k + 1
    OBVIOUS
  <2>3. Smooth(k + 1, n) = (k * k + 2 * k + 1) * (3 * n - 2 * k - 2)
    BY <2>2 DEF Smooth
  <2> QED
    BY <2>1, <2>3
<1>2. e * e = n * n + 4 * (k * k) + 1 - 4 * (n * k) - 2 * n + 4 * k
  OBVIOUS
<1>3. e * e >= 0
  <2>1. \A x \in Int : x * x >= 0
    OBVIOUS
  <2> QED
    BY <2>1
<1> QED
  BY <1>1, <1>2, <1>3

\* The peak of a transition of any length stays below its speed limit.
LEMMA TransitionSpeed ==
  ASSUME NEW delta \in Nat, NEW speed \in Nat \ {0}, NEW least \in Nat, NEW k \in Int
  PROVE  LET n == Duration(delta, speed, least)
         IN  n \in Nat /\ delta * (Smooth(k + 1, n) - Smooth(k, n)) <= speed * n * n * n
<1> DEFINE n == Duration(delta, speed, least)
           D == Smooth(k + 1, n) - Smooth(k, n)
           x == 3 * delta + 2 * speed - 1
           y == 2 * speed
           q == x \div y
<1>1. x \in Nat /\ y \in Nat \ {0} /\ q \in Nat /\ x = y * q + (x % y) /\ x % y < y
  OBVIOUS
<1>2. 3 * delta <= 2 * (speed * q)
  BY <1>1
<1>3. n \in Nat /\ n >= q
  BY <1>1 DEF Duration
<1> HIDE DEF q, n
<1>4. q * speed <= n * speed
  BY <1>1, <1>3, MulMono
<1>5. 3 * delta <= 2 * (n * speed)
  BY <1>1, <1>2, <1>3, <1>4
<1>6. n * n \in Nat /\ D \in Int
  BY <1>3 DEF Smooth
<1>7. 2 * D <= 3 * (n * n)
  BY <1>3, SmoothStep
<1> HIDE DEF D
<1>8. (2 * D) * delta <= (3 * (n * n)) * delta
  BY <1>3, <1>6, <1>7, MulMono
<1>9. (3 * delta) * (n * n) <= (2 * (n * speed)) * (n * n)
  BY <1>3, <1>5, <1>6, MulMono
<1>10. (3 * (n * n)) * delta = (3 * delta) * (n * n) /\ (2 * D) * delta = 2 * (delta * D)
  BY <1>3, <1>6
<1>11. (2 * (n * speed)) * (n * n) = 2 * (speed * n * n * n)
  BY <1>3
<1>12. delta * D \in Int /\ speed * n * n * n \in Int
  BY <1>3, <1>6
<1>13. 2 * (delta * D) <= 2 * (speed * n * n * n)
  <2>1. (3 * (n * n)) * delta \in Int /\ (2 * (n * speed)) * (n * n) \in Int
    BY <1>3
  <2> QED
    BY <1>8, <1>9, <1>10, <1>11, <1>12, <2>1
<1>14. delta * D <= speed * n * n * n
  BY <1>12, <1>13
<1> QED
  BY <1>3, <1>14 DEF n, D

LEMMA SpeedsAreLimited == SpeedIsLimited
<1>1. ASSUME NEW delta \in 0 .. 7, NEW speed \in 1 .. 3,
             NEW k \in 0 .. Duration(delta, speed, 2) - 1
      PROVE  LET n == Duration(delta, speed, 2)
             IN  delta * (Smooth(k + 1, n) - Smooth(k, n)) <= speed * n * n * n
  <2>1. delta \in Nat /\ speed \in Nat \ {0} /\ 2 \in Nat
    OBVIOUS
  <2>2. Duration(delta, speed, 2) \in Nat
    BY <2>1, TransitionSpeed, 0 \in Int
  <2>3. k \in Int
    BY <2>2
  <2> QED
    BY <2>1, <2>3, TransitionSpeed
<1> QED
  BY <1>1 DEF SpeedIsLimited

LEMMA AuditsAgree ==
  ASSUME PoseAssumption
  PROVE  AuditAgrees
<1>1. ASSUME NEW twice \in {2 * a : a \in Angles} \cup {2 * a + 1 : a \in Angles},
             NEW l \in LimitChoices
      PROVE  Guarded(twice, l) <=> AuditStatus(twice, l) = "OK"
  <2>1. twice \in Int /\ l.lo \in Int /\ l.hi \in Int /\ Margin \in Int
    BY DEF PoseAssumption
  <2> QED
    BY <2>1 DEF Guarded, AuditStatus
<1> QED
  BY <1>1 DEF AuditAgrees

LEMMA LeastInteger ==
  ASSUME NEW T \in SUBSET Int, T # {}, NEW m \in Int, \A v \in T : m <= v
  PROVE  Min(T) \in T /\ \A v \in T : Min(T) <= v
<1> DEFINE N == {v - m : v \in T}
<1>1. N \in SUBSET Nat /\ N # {}
  <2>1. \A v \in T : v - m \in Nat
    OBVIOUS
  <2> QED
    BY <2>1
<1>2. PICK z \in N : \A y \in N : z <= y
  BY <1>1, LeastNatural
<1>3. PICK u \in T : z = u - m
  OBVIOUS
<1>4. ASSUME NEW v \in T PROVE u <= v
  <2>1. u - m <= v - m
    BY <1>2, <1>3
  <2> QED
    BY <2>1
<1> QED
  BY <1>4 DEF Min

LEMMA GreatestInteger ==
  ASSUME NEW T \in SUBSET Int, T # {}, NEW m \in Int, \A v \in T : v <= m
  PROVE  Max(T) \in T /\ \A v \in T : v <= Max(T)
<1> DEFINE N == {m - v : v \in T}
<1>1. N \in SUBSET Nat /\ N # {}
  <2>1. \A v \in T : m - v \in Nat
    OBVIOUS
  <2> QED
    BY <2>1
<1>2. PICK z \in N : \A y \in N : z <= y
  BY <1>1, LeastNatural
<1>3. PICK u \in T : z = m - u
  OBVIOUS
<1>4. ASSUME NEW v \in T PROVE v <= u
  <2>1. m - u <= m - v
    BY <1>2, <1>3
  <2> QED
    BY <2>1
<1> QED
  BY <1>4 DEF Max

\* The values of a sequence have bounds.
LEMMA SamplesAreBounded ==
  ASSUME NEW w \in Seq(Int)
  PROVE  \E lo, hi \in Int : \A v \in ToSet(w) : lo <= v /\ v <= hi
<1> DEFINE n == Len(w)
           Inside(i, lo, hi) == \A j \in 1 .. i : lo <= w[j] /\ w[j] <= hi
           S == {i \in 0 .. n : \E lo, hi \in Int : Inside(i, lo, hi)}
<1>1. n \in Nat /\ \A i \in 1 .. n : w[i] \in Int
  OBVIOUS
<1>2. 0 \in S
  <2>1. Inside(0, 0, 0)
    OBVIOUS
  <2> QED
    BY <1>1, <2>1
<1>3. ASSUME NEW i \in 1 .. n, i - 1 \in S
      PROVE  i \in S
  <2>1. PICK lo, hi \in Int : Inside(i - 1, lo, hi)
    BY <1>3
  <2> DEFINE a == IF w[i] < lo THEN w[i] ELSE lo
             b == IF w[i] > hi THEN w[i] ELSE hi
  <2>2. a \in Int /\ b \in Int
    BY <1>1
  <2>3. ASSUME NEW j \in 1 .. i PROVE a <= w[j] /\ w[j] <= b
    <3>1. CASE j = i
      BY <1>1, <3>1
    <3>2. CASE j # i
      <4>1. j \in 1 .. i - 1 /\ j \in 1 .. n
        BY <1>1, <3>2
      <4>2. lo <= w[j] /\ w[j] <= hi
        BY <2>1, <4>1
      <4> QED
        BY <1>1, <4>1, <4>2
    <3> QED
      BY <3>1, <3>2
  <2>4. i \in 0 .. n /\ Inside(i, a, b)
    BY <2>3
  <2> HIDE DEF a, b, Inside
  <2> QED
    BY <2>2, <2>4
<1>4. n \in S
  <2>1. 0 .. n \subseteq S
    <3> HIDE DEF S, n
    <3> QED
      BY <1>1, <1>2, <1>3, InductionTo
  <2>2. n \in 0 .. n
    BY <1>1
  <2> HIDE DEF S, n
  <2> QED
    BY <2>1, <2>2
<1>5. PICK lo, hi \in Int : Inside(n, lo, hi)
  BY <1>4
<1>6. \A v \in ToSet(w) : \E j \in 1 .. n : v = w[j]
  BY DEF ToSet
<1>7. \A v \in ToSet(w) : lo <= v /\ v <= hi
  BY <1>5, <1>6
<1> QED
  BY <1>7

\* The least and the largest sample.
LEMMA Extremes ==
  ASSUME NEW w \in Seq(Int), w # <<>>
  PROVE  /\ ToSet(w) \in SUBSET Int /\ ToSet(w) # {}
         /\ Smallest(w) \in ToSet(w) /\ Largest(w) \in ToSet(w)
         /\ \A v \in ToSet(w) : Smallest(w) <= v /\ v <= Largest(w)
<1>1. ToSet(w) \in SUBSET Int /\ ToSet(w) # {}
  <2>1. 1 \in DOMAIN w
    OBVIOUS
  <2> QED
    BY <2>1 DEF ToSet
<1>2. PICK lo, hi \in Int : \A v \in ToSet(w) : lo <= v /\ v <= hi
  BY SamplesAreBounded
<1>3. Smallest(w) \in ToSet(w) /\ \A v \in ToSet(w) : Smallest(w) <= v
  BY <1>1, <1>2, LeastInteger DEF Smallest
<1>4. Largest(w) \in ToSet(w) /\ \A v \in ToSet(w) : v <= Largest(w)
  BY <1>1, <1>2, GreatestInteger DEF Largest
<1> QED
  BY <1>1, <1>3, <1>4

\* The places whose sample is at most v, and the samples that k places do not exceed.
AtMost(w, v) == {i \in 1 .. Len(w) : w[i] <= v}
Reaching(w, k) == {v \in ToSet(w) : Cardinality(AtMost(w, v)) >= k}

LEMMA Counts ==
  ASSUME NEW w \in Seq(Int), NEW v \in Int
  PROVE  /\ Cardinality(AtMost(w, v)) \in 0 .. Len(w)
         /\ Cardinality(AtMost(w, v)) >= Len(w) <=> \A i \in 1 .. Len(w) : w[i] <= v
         /\ (\E i \in 1 .. Len(w) : w[i] = v) => Cardinality(AtMost(w, v)) >= 1
<1> DEFINE n == Len(w)
           A == AtMost(w, v)
<1>1. n \in Nat /\ IsFiniteSet(1 .. n) /\ Cardinality(1 .. n) = n
  <2>1. n \in Nat /\ n \in Int /\ 1 \in Int
    OBVIOUS
  <2>2. IsFiniteSet(1 .. n) /\ Cardinality(1 .. n) = IF 1 > n THEN 0 ELSE n - 1 + 1
    BY <2>1, FS_Interval
  <2> QED
    BY <2>1, <2>2
<1>2. A \subseteq 1 .. n
  BY DEF AtMost
<1>3. IsFiniteSet(A) /\ Cardinality(A) \in Nat /\ Cardinality(A) <= n
      /\ (Cardinality(A) = n => A = 1 .. n)
  BY <1>1, <1>2, FS_Subset, FS_CardinalityType
<1>4. (\E i \in 1 .. n : w[i] = v) => Cardinality(A) >= 1
  <2>1. ASSUME NEW i \in 1 .. n, w[i] = v PROVE A # {}
    BY <2>1 DEF AtMost
  <2>2. A # {} => Cardinality(A) # 0
    BY <1>3, FS_EmptySet
  <2> QED
    BY <1>3, <2>1, <2>2
<1>5. (\A i \in 1 .. n : w[i] <= v) => A = 1 .. n
  BY DEF AtMost
<1>6. A = 1 .. n => \A i \in 1 .. n : w[i] <= v
  BY DEF AtMost
<1>7. Cardinality(A) >= n <=> A = 1 .. n
  BY <1>1, <1>3
<1> QED
  BY <1>1, <1>3, <1>4, <1>5, <1>6, <1>7

\* Sorting leaves samples, in order, from the least to the largest.
LEMMA SortedInOrder ==
  ASSUME NEW w \in Seq(Int), w # <<>>
  PROVE  /\ DOMAIN Sorted(w) = 1 .. Len(w)
         /\ \A k \in 1 .. Len(w) : Sorted(w)[k] \in ToSet(w) /\ Sorted(w)[k] \in Int
         /\ \A j, k \in 1 .. Len(w) : j <= k => Sorted(w)[j] <= Sorted(w)[k]
         /\ Sorted(w)[1] = Smallest(w) /\ Sorted(w)[Len(w)] = Largest(w)
<1> DEFINE n == Len(w)
           s == Sorted(w)
           T == ToSet(w)
<1>1. n \in Nat \ {0} /\ DOMAIN w = 1 .. n /\ T = {w[i] : i \in 1 .. n}
      /\ \A i \in 1 .. n : w[i] \in Int /\ w[i] \in T
  BY DEF ToSet
<1>2. /\ T \in SUBSET Int /\ Smallest(w) \in T /\ Largest(w) \in T
      /\ \A v \in T : Smallest(w) <= v /\ v <= Largest(w)
  BY Extremes
<1>3. DOMAIN s = 1 .. n /\ \A k \in 1 .. n : s[k] = Min(Reaching(w, k))
  BY <1>1 DEF Sorted, Reaching, AtMost
<1>4. ASSUME NEW k \in 1 .. n
      PROVE  s[k] \in Reaching(w, k) /\ \A v \in Reaching(w, k) : s[k] <= v
  <2>1. Largest(w) \in Reaching(w, k)
    <3>1. Cardinality(AtMost(w, Largest(w))) >= n
      BY <1>1, <1>2, Counts
    <3>2. Cardinality(AtMost(w, Largest(w))) \in 0 .. n
      BY <1>1, <1>2, Counts
    <3> QED
      BY <1>1, <1>2, <3>1, <3>2 DEF Reaching
  <2>2. Reaching(w, k) \in SUBSET Int /\ \A v \in Reaching(w, k) : Smallest(w) <= v
    BY <1>2 DEF Reaching
  <2>3. Smallest(w) \in Int
    BY <1>2
  <2> QED
    BY <1>3, <2>1, <2>2, <2>3, LeastInteger
<1> HIDE DEF s
<1>5. \A k \in 1 .. n : s[k] \in T /\ s[k] \in Int
  BY <1>2, <1>4 DEF Reaching
<1>6. ASSUME NEW j \in 1 .. n, NEW k \in 1 .. n, j <= k
      PROVE  s[j] <= s[k]
  <2>1. Cardinality(AtMost(w, s[k])) \in 0 .. n /\ Cardinality(AtMost(w, s[k])) >= k
    BY <1>4, <1>5, Counts DEF Reaching
  <2>2. Cardinality(AtMost(w, s[k])) >= j
    BY <1>1, <1>6, <2>1
  <2>3. s[k] \in Reaching(w, j)
    BY <1>5, <2>2 DEF Reaching
  <2> QED
    BY <1>4, <2>3
<1>7. s[1] = Smallest(w)
  <2>1. Cardinality(AtMost(w, Smallest(w))) >= 1
    BY <1>1, <1>2, Counts
  <2>2. 1 \in 1 .. n /\ Smallest(w) \in Reaching(w, 1)
    BY <1>1, <1>2, <2>1 DEF Reaching
  <2>3. s[1] <= Smallest(w) /\ Smallest(w) <= s[1]
    BY <1>2, <1>4, <1>5, <2>2
  <2>4. s[1] \in Int /\ Smallest(w) \in Int
    BY <1>2, <1>5, <2>2
  <2> QED
    BY <2>3, <2>4
<1>8. s[n] = Largest(w)
  <2>1. n \in 1 .. n
    BY <1>1
  <2>2. Cardinality(AtMost(w, s[n])) >= n /\ s[n] \in Int
    BY <1>4, <1>5, <2>1 DEF Reaching
  <2>3. \A i \in 1 .. n : w[i] <= s[n]
    BY <2>2, Counts
  <2>4. Largest(w) <= s[n] /\ s[n] <= Largest(w) /\ Largest(w) \in Int
    BY <1>1, <1>2, <1>5, <2>1, <2>3
  <2> QED
    BY <2>2, <2>4
<1> QED
  BY <1>3, <1>5, <1>6, <1>7, <1>8 DEF s

\* A point in hundredths of a place of a sorted sequence, and the value there.
ValueAt(s, x) ==
  LET lo == x \div 100  w == x % 100
  IN  IF w = 0 THEN 100 * s[lo + 1] ELSE s[lo + 1] * (100 - w) + s[lo + 2] * w

LEMMA Weighted ==
  ASSUME NEW a \in Int, NEW b \in Int, a <= b, NEW u \in 0 .. 100, NEW v \in 0 .. 100, u <= v
  PROVE  a * (100 - u) + b * u <= a * (100 - v) + b * v
<1>1. a * (v - u) <= b * (v - u)
  BY MulMono
<1> QED
  BY <1>1

LEMMA BetweenGrows ==
  ASSUME NEW n \in Nat \ {0}, NEW s, \A k \in 1 .. n : s[k] \in Int,
         \A j, k \in 1 .. n : j <= k => s[j] <= s[k],
         NEW x \in 0 .. 100 * (n - 1), NEW y \in 0 .. 100 * (n - 1), x <= y
  PROVE  ValueAt(s, x) <= ValueAt(s, y)
<1> DEFINE lo == x \div 100
           w == x % 100
           hi == y \div 100
           z == y % 100
           a == s[lo + 1]
           b == s[lo + 2]
           c == s[hi + 1]
           d == s[hi + 2]
<1>1. /\ lo \in Nat /\ hi \in Nat /\ w \in 0 .. 99 /\ z \in 0 .. 99
      /\ x = 100 * lo + w /\ y = 100 * hi + z /\ n \in Int
  OBVIOUS
<1>2. /\ ValueAt(s, x) = IF w = 0 THEN 100 * a ELSE a * (100 - w) + b * w
      /\ ValueAt(s, y) = IF z = 0 THEN 100 * c ELSE c * (100 - z) + d * z
  BY DEF ValueAt
<1> HIDE DEF lo, w, hi, z
<1>3. lo + 1 \in 1 .. n /\ hi + 1 \in 1 .. n /\ lo <= hi
      /\ (w # 0 => lo + 2 \in 1 .. n) /\ (z # 0 => hi + 2 \in 1 .. n)
  BY <1>1
<1>4. a \in Int /\ c \in Int /\ a <= c
  BY <1>1, <1>3
<1>5. w # 0 => b \in Int /\ a <= b
  BY <1>1, <1>3
<1>6. z # 0 => d \in Int /\ c <= d
  BY <1>1, <1>3
<1>7. w # 0 /\ lo # hi => b <= c
  BY <1>1, <1>3
<1>8. lo = hi => a = c /\ b = d /\ w <= z
  BY <1>1
<1> HIDE DEF a, b, c, d
<1>9. 0 \in 0 .. 100 /\ 100 \in 0 .. 100 /\ w \in 0 .. 100 /\ z \in 0 .. 100 /\ 0 <= z /\ w <= 100
  BY <1>1
<1>10. ValueAt(s, y) >= 100 * c /\ ValueAt(s, y) \in Int
  <2>1. CASE z = 0
    BY <1>2, <1>4, <2>1
  <2>2. CASE z # 0
    <3>1. c * (100 - 0) + d * 0 <= c * (100 - z) + d * z
      BY <1>4, <1>6, <1>9, <2>2, Weighted
    <3> QED
      BY <1>1, <1>2, <1>4, <1>6, <2>2, <3>1
  <2> QED
    BY <2>1, <2>2
<1>11. CASE w = 0
  BY <1>2, <1>4, <1>10, <1>11
<1>12. CASE w # 0 /\ lo = hi
  <2>1. a * (100 - w) + b * w <= a * (100 - z) + b * z
    BY <1>4, <1>5, <1>8, <1>9, <1>12, Weighted
  <2>2. z # 0
    BY <1>1, <1>8, <1>12
  <2> QED
    BY <1>2, <1>8, <1>12, <2>1, <2>2
<1>13. CASE w # 0 /\ lo # hi
  <2>1. a * (100 - w) + b * w <= a * (100 - 100) + b * 100
    BY <1>4, <1>5, <1>9, <1>13, Weighted
  <2>2. b \in Int /\ b <= c
    BY <1>5, <1>7, <1>13
  <2> QED
    BY <1>1, <1>2, <1>4, <1>10, <1>13, <2>1, <2>2
<1> QED
  BY <1>11, <1>12, <1>13

LEMMA PercentileIs ==
  ASSUME NEW w \in Seq(Int), NEW pct \in Int
  PROVE  Percentile(w, pct) = ValueAt(Sorted(w), pct * (Len(w) - 1))
BY DEF Percentile, ValueAt

\* The order statistics of a sequence of integers.
LEMMA OrderOfStatistics ==
  ASSUME NEW w \in Seq(Int), w # <<>>
  PROVE  /\ 50 * TwiceMedian(w) = Percentile(w, 50)
         /\ 100 * Smallest(w) = Percentile(w, 0) /\ 100 * Largest(w) = Percentile(w, 100)
         /\ \A p, q \in 0 .. 100 : p <= q => Percentile(w, p) <= Percentile(w, q)
<1> DEFINE n == Len(w)
           s == Sorted(w)
<1>1. n \in Nat \ {0}
  OBVIOUS
<1>2. /\ \A k \in 1 .. n : s[k] \in Int
      /\ \A j, k \in 1 .. n : j <= k => s[j] <= s[k]
      /\ s[1] = Smallest(w) /\ s[n] = Largest(w)
  BY SortedInOrder
<1>3. TwiceMedian(w) = IF n % 2 = 1 THEN 2 * s[n \div 2 + 1] ELSE s[n \div 2] + s[n \div 2 + 1]
  BY DEF TwiceMedian
<1>4. \A p \in 0 .. 100 : Percentile(w, p) = ValueAt(s, p * (n - 1))
  <2>1. \A p \in 0 .. 100 : p \in Int
    OBVIOUS
  <2> QED
    BY <2>1, PercentileIs
<1> HIDE DEF s, n
<1>5. ASSUME NEW p \in 0 .. 100, NEW q \in 0 .. 100, p <= q
      PROVE  Percentile(w, p) <= Percentile(w, q)
  <2>1. n - 1 \in Int /\ 0 <= n - 1 /\ p \in Int /\ q \in Int /\ 100 \in Int /\ 0 \in Int
        /\ 0 <= p /\ q <= 100
    BY <1>1
  <2>2. p * (n - 1) <= q * (n - 1) /\ 0 * (n - 1) <= p * (n - 1) /\ q * (n - 1) <= 100 * (n - 1)
    BY <1>5, <2>1, MulMono
  <2>3. p * (n - 1) \in 0 .. 100 * (n - 1) /\ q * (n - 1) \in 0 .. 100 * (n - 1)
    BY <1>5, <2>1, <2>2
  <2> QED
    BY <1>1, <1>2, <1>4, <2>2, <2>3, BetweenGrows
<1>6. 100 * Smallest(w) = Percentile(w, 0)
  <2>1. Percentile(w, 0) = ValueAt(s, 0 * (n - 1)) /\ 0 * (n - 1) = 0
    BY <1>1, <1>4
  <2>2. ValueAt(s, 0) = 100 * s[1]
    BY DEF ValueAt
  <2> QED
    BY <1>2, <2>1, <2>2
<1>7. 100 * Largest(w) = Percentile(w, 100)
  <2>1. (100 * (n - 1)) \div 100 = n - 1 /\ (100 * (n - 1)) % 100 = 0 /\ n - 1 + 1 = n
    BY <1>1
  <2>2. Percentile(w, 100) = ValueAt(s, 100 * (n - 1))
    BY <1>4
  <2>3. ValueAt(s, 100 * (n - 1)) = 100 * s[n]
    BY <2>1 DEF ValueAt
  <2> QED
    BY <1>2, <2>2, <2>3
<1>8. 50 * TwiceMedian(w) = Percentile(w, 50)
  <2> DEFINE m == n \div 2
  <2>1. m \in Nat /\ n = 2 * m + (n % 2) /\ n % 2 \in 0 .. 1
    BY <1>1
  <2> HIDE DEF m
  <2>2. CASE n % 2 = 1
    <3>1. 50 * (n - 1) = 100 * m /\ (100 * m) \div 100 = m /\ (100 * m) % 100 = 0
      BY <2>1, <2>2
    <3>2. Percentile(w, 50) = 100 * s[m + 1] /\ m + 1 \in 1 .. n
      <4>1. Percentile(w, 50) = ValueAt(s, 50 * (n - 1))
        BY <1>4
      <4>2. ValueAt(s, 100 * m) = 100 * s[m + 1]
        BY <3>1 DEF ValueAt
      <4> QED
        BY <1>1, <2>1, <2>2, <3>1, <4>1, <4>2
    <3>3. TwiceMedian(w) = 2 * s[m + 1] /\ s[m + 1] \in Int
      BY <1>2, <1>3, <2>2, <3>2 DEF m
    <3> QED
      BY <3>2, <3>3
  <2>3. CASE n % 2 = 0
    <3>1. m >= 1 /\ 50 * (n - 1) = 100 * (m - 1) + 50
      BY <1>1, <2>1, <2>3
    <3>2. (100 * (m - 1) + 50) \div 100 = m - 1 /\ (100 * (m - 1) + 50) % 100 = 50
      BY <2>1, <3>1
    <3>3. m - 1 + 1 = m /\ m - 1 + 2 = m + 1 /\ m \in 1 .. n /\ m + 1 \in 1 .. n
      BY <2>1, <2>3, <3>1
    <3>4. Percentile(w, 50) = s[m] * 50 + s[m + 1] * 50
      <4> DEFINE x == 50 * (n - 1)
      <4>1. Percentile(w, 50) = ValueAt(s, x)
        BY <1>4
      <4>2. x \div 100 = m - 1 /\ x % 100 = 50
        BY <3>1, <3>2
      <4> HIDE DEF x
      <4>3. ValueAt(s, x) = s[m] * (100 - 50) + s[m + 1] * 50
        BY <3>3, <4>2 DEF ValueAt
      <4> QED
        BY <4>1, <4>3
    <3>5. TwiceMedian(w) = s[m] + s[m + 1] /\ s[m] \in Int /\ s[m + 1] \in Int
      BY <1>2, <1>3, <2>3, <3>3 DEF m
    <3> QED
      BY <3>4, <3>5
  <2> QED
    BY <2>1, <2>2, <2>3
<1> QED
  BY <1>5, <1>6, <1>7, <1>8

LEMMA MedianIsInteger ==
  ASSUME NEW w \in Seq(Int), w # <<>>
  PROVE  TwiceMedian(w) \in Int
<1> DEFINE n == Len(w)
           m == n \div 2
           s == Sorted(w)
<1>1. n \in Nat \ {0} /\ m \in Nat /\ n = 2 * m + (n % 2) /\ n % 2 \in 0 .. 1
  OBVIOUS
<1>2. \A k \in 1 .. n : s[k] \in Int
  BY SortedInOrder
<1>3. TwiceMedian(w) = IF n % 2 = 1 THEN 2 * s[m + 1] ELSE s[m] + s[m + 1]
  BY DEF TwiceMedian
<1> HIDE DEF s, n, m
<1>4. m + 1 \in 1 .. n /\ (n % 2 # 1 => m \in 1 .. n)
  BY <1>1
<1> QED
  BY <1>2, <1>3, <1>4

LEMMA WindowsAreSamples ==
  ASSUME PoseAssumption, NEW w \in Windows
  PROVE  w \in Seq(Int) /\ (Usable(w) => w # <<>>)
<1>1. PICK n \in 0 .. MaxSamples : w \in [1 .. n -> Angles]
  BY DEF Windows
<1>2. n \in Nat /\ Angles \subseteq Int /\ MinSamples \in Nat \ {0}
  BY DEF PoseAssumption
<1>3. w \in Seq(Int)
  <2>1. n \in Nat /\ w \in [1 .. n -> Int]
    BY <1>1, <1>2
  <2> QED
    BY <2>1, SeqDef
<1> QED
  BY <1>2, <1>3 DEF Usable

LEMMA StatisticsInOrder ==
  ASSUME PoseAssumption
  PROVE  StatisticsAreOrdered
<1>1. ASSUME NEW w \in Windows \ {<<>>}
      PROVE  /\ 50 * TwiceMedian(w) = Percentile(w, 50)
             /\ 100 * Smallest(w) = Percentile(w, 0) /\ 100 * Largest(w) = Percentile(w, 100)
             /\ \A p \in {0, 25, 50, 75} : Percentile(w, p) <= Percentile(w, p + 25)
  <2>1. w \in Seq(Int) /\ w # <<>>
    BY WindowsAreSamples
  <2>2. \A p \in {0, 25, 50, 75} : p \in 0 .. 100 /\ p + 25 \in 0 .. 100 /\ p <= p + 25
    OBVIOUS
  <2> QED
    BY <2>1, <2>2, OrderOfStatistics, SMTT(30)
<1> QED
  BY <1>1 DEF StatisticsAreOrdered

\* A sequence of poses that starts and ends upright and is upright at every other pose.
Upright(s) ==
  /\ s # <<>> /\ s[1] = Standing /\ s[Len(s)] = Standing
  /\ \A i \in 1 .. Len(s) - 1 : (s[i] = Standing) # (s[i + 1] = Standing)

LEMMA VisitUpright ==
  ASSUME PoseAssumption, NEW s \in Seq(Poses), NEW p \in Poses, Upright(s)
  PROVE  /\ VisitPose(s, p) \in Seq(Poses) /\ Upright(VisitPose(s, p))
         /\ ToSet(VisitPose(s, p)) = ToSet(s) \cup {p}
<1>1. Len(s) \in Nat \ {0} /\ Last(s) = Standing /\ Standing \in Poses /\ Standing \in ToSet(s)
  BY DEF Upright, Last, ToSet, PoseAssumption
<1>2. CASE p = Standing
  <2>1. VisitPose(s, p) = s
    BY <1>1, <1>2 DEF VisitPose, AddPose, Upright
  <2> QED
    BY <1>1, <1>2, <2>1
<1>3. CASE p # Standing
  <2> DEFINE t == Append(s, p)
             u == Append(t, Standing)
  <2>1. AddPose(s, p) = t
    BY <1>1, <1>3 DEF AddPose, Upright
  <2>2. /\ t \in Seq(Poses) /\ Len(t) = Len(s) + 1 /\ t[Len(s) + 1] = p
        /\ \A i \in 1 .. Len(s) : t[i] = s[i]
    OBVIOUS
  <2>3. Last(t) = p
    BY <2>2 DEF Last
  <2>4. VisitPose(s, p) = u
    BY <1>3, <2>1, <2>3 DEF VisitPose
  <2>5. /\ u \in Seq(Poses) /\ Len(u) = Len(s) + 2 /\ u[Len(s) + 1] = p /\ u[Len(s) + 2] = Standing
        /\ \A i \in 1 .. Len(s) : u[i] = s[i]
    <3> HIDE DEF t
    <3> QED
      BY <1>1, <2>2
  <2> HIDE DEF u
  <2>6. u # <<>> /\ u[1] = Standing /\ u[Len(u)] = Standing
    BY <1>1, <2>5 DEF Upright
  <2>7. ASSUME NEW i \in 1 .. Len(u) - 1
        PROVE  (u[i] = Standing) # (u[i + 1] = Standing)
    <3>1. CASE i \in 1 .. Len(s) - 1
      <4>1. i \in 1 .. Len(s) /\ i + 1 \in 1 .. Len(s)
        BY <1>1, <3>1
      <4>2. u[i] = s[i] /\ u[i + 1] = s[i + 1]
        BY <2>5, <4>1
      <4> QED
        BY <3>1, <4>2 DEF Upright
    <3>2. CASE i = Len(s)
      BY <1>1, <1>3, <2>5, <3>2 DEF Upright
    <3>3. CASE i = Len(s) + 1
      BY <1>1, <1>3, <2>5, <3>3
    <3> QED
      BY <1>1, <2>5, <3>1, <3>2, <3>3
  <2>8. ToSet(u) = ToSet(s) \cup {p}
    <3>1. ToSet(u) = {u[i] : i \in 1 .. Len(s) + 2} /\ ToSet(s) = {s[i] : i \in 1 .. Len(s)}
      BY <2>5, SMTT(30) DEF ToSet
    <3>2. \A i \in 1 .. Len(s) + 2 : i \in 1 .. Len(s) \/ i = Len(s) + 1 \/ i = Len(s) + 2
      BY <1>1
    <3>3. Len(s) + 1 \in 1 .. Len(s) + 2 /\ 1 .. Len(s) \subseteq 1 .. Len(s) + 2
      BY <1>1
    <3>4. ASSUME NEW i \in 1 .. Len(s) + 2 PROVE u[i] \in ToSet(s) \cup {p}
      <4>1. CASE i \in 1 .. Len(s)
        BY <2>5, <3>1, <4>1
      <4>2. CASE i = Len(s) + 1
        BY <2>5, <4>2
      <4>3. CASE i = Len(s) + 2
        <5>1. Standing \in ToSet(s)
          BY <1>1, <3>1
        <5> QED
          BY <2>5, <4>3, <5>1
      <4> QED
        BY <3>2, <4>1, <4>2, <4>3
    <3>5. ASSUME NEW i \in 1 .. Len(s) PROVE s[i] \in ToSet(u)
      BY <1>1, <2>5, <3>1
    <3>6. p \in ToSet(u)
      BY <2>5, <3>1, <3>3
    <3> QED
      BY <3>1, <3>4, <3>5, <3>6
  <2> QED
    BY <2>4, <2>5, <2>6, <2>7, <2>8 DEF Upright
<1> QED
  BY <1>2, <1>3

\* What the fold over a request makes of its first poses, one after the other.
LEMMA EvalSteps ==
  ASSUME PoseAssumption, NEW r \in Seq(Poses)
  PROVE  \E h \in [0 .. Len(r) -> Seq(Poses)] :
           /\ h[0] = IF r[1] # Standing THEN <<Standing>> ELSE <<>>
           /\ \A i \in 1 .. Len(r) : h[i] = VisitPose(h[i - 1], r[i])
           /\ EvalSequence(r) = h[Len(r)]
<1> DEFINE n == Len(r)
           V == Seq(Poses)
           b == IF r[1] # Standing THEN <<Standing>> ELSE <<>>
           F == [i \in 1 .. n |-> [v \in V |-> VisitPose(v, r[i])]]
           Table(g) == g = [t \in SUBSET (1 .. n) |->
                              IF t = {} THEN b ELSE VisitPose(g[t \ {Max(t)}], r[Max(t)])]
<1>1. n \in Nat /\ DOMAIN r = 1 .. n /\ \A i \in 1 .. n : r[i] \in Poses
  OBVIOUS
<1>2. b \in V
  BY DEF PoseAssumption
<1>3. \A v \in V, p \in Poses : VisitPose(v, p) \in V
  <2>1. ASSUME NEW v \in V, NEW p \in Poses
        PROVE  VisitPose(v, p) \in V
    <3>1. AddPose(v, p) \in V
      BY DEF AddPose
    <3> QED
      BY <3>1 DEF VisitPose, PoseAssumption
  <2> QED
    BY <2>1
<1>4. F \in [1 .. n -> [V -> V]]
  BY <1>1, <1>3
<1>5. EvalSequence(r) = (CHOOSE g : Table(g))[1 .. n]
  BY <1>1 DEF EvalSequence, FoldLeft, MapThenFoldSet
<1>6. \E g : Table(g)
  <2> HIDE DEF n, V, b, F
  <2>1. PICK g : IsFold(g, n, V, b, F)
    BY <1>1, <1>2, <1>4, FoldExists
  <2>2. ASSUME NEW t \in SUBSET (1 .. n), t # {}
        PROVE  F[Max(t)][g[t \ {Max(t)}]] = VisitPose(g[t \ {Max(t)}], r[Max(t)])
    <3>1. Max(t) \in 1 .. n /\ t \ {Max(t)} \in SUBSET (1 .. n)
      BY <1>1, <2>2, MaxOfSome
    <3>2. g[t \ {Max(t)}] \in V
      BY <2>1, <3>1 DEF IsFold
    <3> QED
      BY <3>1, <3>2 DEF F
  <2>3. Table(g)
    BY <2>1, <2>2 DEF IsFold
  <2> HIDE DEF Table
  <2> QED
    BY <2>3
<1>7. PICK f : EvalSequence(r) = f[1 .. n] /\ Table(f)
  <2> HIDE DEF Table, n
  <2> QED
    BY <1>5, <1>6
<1>8. f[{}] = b
  <2> HIDE DEF n, b
  <2> QED
    BY <1>7
<1>9. ASSUME NEW t \in SUBSET (1 .. n), t # {}, f[t \ {Max(t)}] \in V
      PROVE  f[t] = F[Max(t)][f[t \ {Max(t)}]]
  <2>1. Max(t) \in 1 .. n
    BY <1>1, <1>9, MaxOfSome
  <2>2. f[t] = VisitPose(f[t \ {Max(t)}], r[Max(t)])
    <3> HIDE DEF n, b
    <3> QED
      BY <1>7, <1>9
  <2> HIDE DEF V
  <2> QED
    BY <1>9, <2>1, <2>2
<1>10. FoldsBy(f, n, V, b, F)
  <2> HIDE DEF n, V, b, F
  <2> QED
    BY <1>8, <1>9 DEF FoldsBy
<1>11. PICK h : FoldsTo(h, n, V, b, F) /\ h[n] = f[1 .. n]
  <2> HIDE DEF n, V, b, F
  <2> QED
    BY <1>1, <1>2, <1>4, <1>10, FoldSteps
<1>12. ASSUME NEW i \in 1 .. n
       PROVE  h[i] = VisitPose(h[i - 1], r[i])
  <2>1. h[i - 1] \in V
    <3>1. i - 1 \in 0 .. n
      BY <1>1
    <3> HIDE DEF n, V
    <3> QED
      BY <1>11, <3>1 DEF FoldsTo
  <2> HIDE DEF V
  <2> QED
    BY <1>11, <2>1 DEF FoldsTo
<1> QED
  BY <1>7, <1>11, <1>12 DEF FoldsTo

\* A single standing pose.
LEMMA OneStanding ==
  ASSUME PoseAssumption
  PROVE  /\ <<Standing>> \in Seq(Poses) /\ Upright(<<Standing>>) /\ ToSet(<<Standing>>) = {Standing}
         /\ VisitPose(<<>>, Standing) = <<Standing>>
<1> DEFINE s == <<Standing>>
<1>1. s \in Seq(Poses) /\ Len(s) = 1 /\ s[1] = Standing /\ s # <<>>
  BY DEF PoseAssumption
<1>2. AddPose(<<>>, Standing) = s
  BY DEF AddPose
<1>3. ToSet(s) = {Standing}
  BY <1>1 DEF ToSet
<1> HIDE DEF s
<1>4. Upright(s)
  BY <1>1 DEF Upright
<1> QED
  BY <1>1, <1>2, <1>3, <1>4 DEF VisitPose, s

\* The sequence of an evaluation is upright, and visits what was asked for and standing.
LEMMA EvalIsUpright ==
  ASSUME PoseAssumption, NEW r \in Seq(Poses), r # <<>>
  PROVE  /\ EvalSequence(r) \in Seq(Poses) /\ Upright(EvalSequence(r))
         /\ ToSet(EvalSequence(r)) = ToSet(r) \cup {Standing}
<1> DEFINE n == Len(r)
           Asked(i) == {r[j] : j \in 1 .. i}
<1>1. n \in Nat \ {0} /\ \A i \in 1 .. n : r[i] \in Poses
  OBVIOUS
<1>2. PICK h \in [0 .. n -> Seq(Poses)] :
        /\ h[0] = IF r[1] # Standing THEN <<Standing>> ELSE <<>>
        /\ \A i \in 1 .. n : h[i] = VisitPose(h[i - 1], r[i])
        /\ EvalSequence(r) = h[n]
  BY EvalSteps
<1> DEFINE Good(i) == Upright(h[i]) /\ ToSet(h[i]) = Asked(i) \cup {Standing}
           S == {i \in 0 .. n : i # 0 => Good(i)}
<1>3. ASSUME NEW i \in 1 .. n, Upright(h[i - 1])
      PROVE  Upright(h[i]) /\ ToSet(h[i]) = ToSet(h[i - 1]) \cup {r[i]}
  <2>1. i - 1 \in 0 .. n /\ i \in 0 .. n
    BY <1>1
  <2>2. h[i - 1] \in Seq(Poses) /\ r[i] \in Poses
    BY <1>1, <2>1
  <2>3. h[i] = VisitPose(h[i - 1], r[i])
    BY <1>2
  <2> QED
    BY <1>3, <2>2, <2>3, VisitUpright, ZenonT(40)
<1>4. \A i \in 1 .. n : i \in Int /\ Asked(i) = Asked(i - 1) \cup {r[i]}
  OBVIOUS
<1>5. 0 \in S
  BY <1>1
<1>6. ASSUME NEW i \in 1 .. n, i - 1 \in S
      PROVE  i \in S
  <2>0. i \in 0 .. n
    OBVIOUS
  <2>1. CASE i - 1 # 0
    <3>1. Good(i - 1)
      BY <1>6, <2>1
    <3>2. Good(i)
      BY <1>3, <1>4, <3>1
    <3> QED
      BY <2>0, <3>2
  <2>2. CASE i = 1 /\ r[1] # Standing
    <3>1. h[i - 1] = <<Standing>> /\ Asked(i - 1) = {}
      BY <1>2, <2>2
    <3>2. Good(i)
      BY <1>3, <1>4, <3>1, OneStanding
    <3> QED
      BY <2>0, <3>2
  <2>3. CASE i = 1 /\ r[1] = Standing
    <3>1. h[i - 1] = <<>> /\ Asked(i - 1) = {}
      BY <1>2, <2>3
    <3>2. h[i] = <<Standing>>
      BY <1>2, <2>3, <3>1, OneStanding
    <3>3. Good(i)
      BY <1>4, <2>3, <3>1, <3>2, OneStanding
    <3> QED
      BY <2>0, <3>3
  <2>4. i \in Int
    BY <1>4
  <2> HIDE DEF S, n
  <2> QED
    BY <2>1, <2>2, <2>3, <2>4, SMTT(30)
<1>7. n \in S
  <2>1. 0 .. n \subseteq S
    <3> HIDE DEF S, n
    <3> QED
      BY <1>1, <1>5, <1>6, InductionTo
  <2>2. n \in 0 .. n
    BY <1>1
  <2> HIDE DEF S, n
  <2> QED
    BY <2>1, <2>2
<1>8. Asked(n) = ToSet(r)
  BY DEF ToSet
<1>9. n \in 0 .. n
  BY <1>1
<1> QED
  BY <1>1, <1>2, <1>7, <1>8, <1>9

\* The sequence of every evaluation, with the kinds of its transitions.
LEMMA EvalIsSafe ==
  ASSUME PoseAssumption, NEW r \in Seq(Poses), r # <<>>
  PROVE  LET s == EvalSequence(r)
         IN  /\ s[1] = Standing /\ Last(s) = Standing
             /\ \A i \in 1 .. Len(s) - 1 : (s[i] = Standing) # (s[i + 1] = Standing)
             /\ ToSet(s) = ToSet(r) \cup {Standing}
             /\ \A height \in [Poses -> 1 .. 3] :
                  (\A p \in Poses \ {Standing} : height[p] < height[Standing]) =>
                    \A i \in 1 .. Len(s) - 1 :
                      TransitionKind(height[s[i]], height[s[i + 1]])
                        = IF s[i] = Standing THEN "crouch" ELSE "stand_return"
<1> DEFINE s == EvalSequence(r)
<1>1. s \in Seq(Poses) /\ Upright(s) /\ ToSet(s) = ToSet(r) \cup {Standing}
  BY EvalIsUpright
<1> HIDE DEF s
<1>2. ASSUME NEW height \in [Poses -> 1 .. 3],
             \A p \in Poses \ {Standing} : height[p] < height[Standing],
             NEW i \in 1 .. Len(s) - 1
      PROVE  TransitionKind(height[s[i]], height[s[i + 1]])
               = IF s[i] = Standing THEN "crouch" ELSE "stand_return"
  <2>1. i \in 1 .. Len(s) /\ i + 1 \in 1 .. Len(s)
    BY <1>1
  <2>2. s[i] \in Poses /\ s[i + 1] \in Poses /\ (s[i] = Standing) # (s[i + 1] = Standing)
    BY <1>1, <2>1 DEF Upright
  <2> DEFINE a == height[s[i]]
             c == height[s[i + 1]]
  <2>3. a \in Int /\ c \in Int /\ (IF s[i] = Standing THEN c < a ELSE c > a)
    BY <1>2, <2>2
  <2>4. Missing \notin {a, c}
    BY <2>3 DEF PoseAssumption
  <2> HIDE DEF a, c
  <2>5. TransitionKind(a, c) = IF s[i] = Standing THEN "crouch" ELSE "stand_return"
    BY <2>3, <2>4 DEF TransitionKind
  <2> QED
    BY <2>5 DEF a, c
<1>3. s[1] = Standing /\ Last(s) = Standing
  BY <1>1 DEF Upright, Last
<1>4. \A i \in 1 .. Len(s) - 1 : (s[i] = Standing) # (s[i + 1] = Standing)
  BY <1>1 DEF Upright
<1> QED
  BY <1>1, <1>2, <1>3, <1>4 DEF s

LEMMA SequencesAreSafe ==
  ASSUME PoseAssumption
  PROVE  SequenceIsSafe
<1>1. ASSUME NEW r \in UNION {[1 .. n -> Poses] : n \in 1 .. 3}
      PROVE  r \in Seq(Poses) /\ r # <<>>
  <2>1. PICK n \in 1 .. 3 : r \in [1 .. n -> Poses]
    OBVIOUS
  <2>2. n \in Nat /\ r[1] \in Poses /\ DOMAIN r = 1 .. n /\ 1 \in 1 .. n
    BY <2>1
  <2>3. r \in Seq(Poses)
    BY <2>1, <2>2, SeqDef
  <2>4. r # <<>>
    BY <2>2
  <2> QED
    BY <2>3, <2>4
<1> QED
  BY <1>1, EvalIsSafe DEF SequenceIsSafe

\* The contract fits the limits, and the plan lies inside them, from the start to the exit.
LEMMA PlanStep ==
  ASSUME PoseAssumption, RequestAssumption, PlanHolds, [StandingNext]_standingVars
  PROVE  PlanHolds'
<1>1. ASSUME at' # "exited" PROVE contract'.lo = limits'.lo /\ contract'.hi = limits'.hi
  <2>1. CASE Start
    BY <1>1, <2>1 DEF Start, ContractMatches
  <2>2. CASE UNCHANGED <<limits, contract>> /\ at # "exited"
    BY <2>2 DEF PlanHolds
  <2> QED
    BY <1>1, <2>1, <2>2 DEF StandingNext, standingVars, MapChanged, CaptureMode,
       Capture, CaptureArmed, CaptureTorqueSeen, CaptureRejected,
       CaptureSaved, CaptureEnds, EnableHold, ReleaseOverride,
       LoggingStarts, Key, GuardTrips, GuardFinds, Abort,
       Tick, Leave, Finish, Held, Interrupted, ShutDown,
       Exit
<1>2. ASSUME at' \in {"enabled", "released", "run"}
      PROVE  plan' \in Seq(Range(plan')) /\ \A p \in Range(plan') : Guarded(library'[p], limits')
  <2>1. CASE EnableHold
    <3>1. PICK r \in Requests : Streamable(r) /\ plan' = EvalSequence(r)
      BY <1>2, <2>1 DEF EnableHold, Exit
    <3>2. plan' \in Seq(ToStream(r))
      <4>1. r \in Seq(Poses) /\ r # <<>>
        BY DEF RequestAssumption
      <4>2. plan' \in Seq(Poses) /\ ToSet(plan') = ToStream(r)
        BY <3>1, <4>1, EvalIsUpright DEF ToStream
      <4>3. Range(plan') = ToSet(plan')
        BY DEF Range, ToSet
      <4> QED
        BY <4>2, <4>3, InRange
    <3>3. plan' \in Seq(Range(plan')) /\ Range(plan') \subseteq ToStream(r)
      BY <3>2, InRange
    <3>4. limits' = limits /\ library' = library
      BY <2>1 DEF EnableHold
    <3> QED
      BY <3>1, <3>3, <3>4 DEF Streamable
  <2>2. CASE ~EnableHold
    <3>1. /\ at \in {"enabled", "released", "run"}
          /\ limits' = limits /\ library' = library
          /\ \/ plan' = plan
             \/ Len(plan) > 1 /\ plan' = Tail(plan)
      <4>1. CASE Tick
        BY <1>2, <4>1 DEF Tick, NextPhase, Begin
      <4>2. CASE ReleaseOverride \/ LoggingStarts
        BY <1>2, <4>2 DEF ReleaseOverride, LoggingStarts, Exit
      <4>3. CASE \/ Start \/ MapChanged \/ CaptureMode
        BY <1>2, <4>3 DEF Start, MapChanged, CaptureMode,
           Capture, CaptureArmed, CaptureTorqueSeen, CaptureRejected,
           CaptureSaved, CaptureEnds, Exit
      <4>4. CASE Key \/ GuardTrips \/ GuardFinds \/ Leave
        BY <1>2, <4>4 DEF Key, GuardTrips, GuardFinds, Abort, Leave,
           Finish, Held, Interrupted, ShutDown, Exit
      <4>5. CASE UNCHANGED standingVars
        BY <1>2, <4>5 DEF standingVars, loopVars
      <4> QED
        BY <2>2, <4>1, <4>2, <4>3, <4>4, <4>5 DEF StandingNext
    <3>2. plan \in Seq(Range(plan)) /\ \A p \in Range(plan) : Guarded(library[p], limits)
      BY <3>1 DEF PlanHolds
    <3>3. CASE plan' = plan
      BY <3>1, <3>2, <3>3
    <3>4. CASE Len(plan) > 1 /\ plan' = Tail(plan)
      <4>1. plan # <<>>
        BY <3>4
      <4>2. plan' \in Seq(Range(plan))
        BY <3>2, <3>4, <4>1
      <4>3. plan' \in Seq(Range(plan')) /\ Range(plan') \subseteq Range(plan)
        BY <4>2, InRange
      <4> QED
        BY <3>1, <3>2, <4>3
    <3> QED
      BY <3>1, <3>3, <3>4
  <2> QED
    BY <2>1, <2>2
<1> QED
  BY <1>1, <1>2 DEF PlanHolds

\* Whatever was captured under other limits or another contract, an evaluation streams only
\* poses inside the guarded limits of the servo map, and of the contract, of its run.
THEOREM PosesStreamed == StandingSpec => []StreamedAreGuarded
<1>1. ASSUME PlanHolds PROVE StreamedAreGuarded
  <2>1. ASSUME at \in {"enabled", "released", "run"}, NEW i \in DOMAIN plan
        PROVE  Guarded(library[plan[i]], limits) /\ Guarded(library[plan[i]], contract)
    <3>1. plan[i] \in Range(plan) /\ at # "exited"
      BY <2>1 DEF Range
    <3>2. Guarded(library[plan[i]], limits) /\ contract.lo = limits.lo /\ contract.hi = limits.hi
      BY <1>1, <2>1, <3>1 DEF PlanHolds
    <3> QED
      BY <3>2 DEF Guarded
  <2> QED
    BY <2>1 DEF StreamedAreGuarded
<1>2. ASSUME EvaluationAssumption, PoseAssumption, RequestAssumption
      PROVE  StandingSpec => []StreamedAreGuarded
  <2>1. StandingInit => PlanHolds
    BY <1>2, StandInit
  <2>2. PlanHolds /\ [StandingNext]_standingVars => PlanHolds'
    BY <1>2, PlanStep
  <2>3. PlanHolds => StreamedAreGuarded
    BY <1>1
  <2> QED
    BY <2>1, <2>2, <2>3, PTL DEF StandingSpec
<1> QED
  BY <1>2, EvaluationAssumption, PoseAssumption, RequestAssumption
     DEF EvaluationAssumption, PoseAssumption, RequestAssumption

\* The types, with those of the plan and of the telemetry on its way.
PlanIsTyped ==
  at \in {"enabled", "released", "run"} => plan \in Seq(Poses) /\ plan # <<>>
TransitIsTyped == \A i \in DOMAIN transit : transit[i].ref \in ReferenceLabels
StandingTypes == StandingTypeOK /\ PlanIsTyped /\ TransitIsTyped

LEMMA StandTypesInit ==
  PoseAssumption /\ EvaluationAssumption /\ StandingInit => StandingTypes
<1> SUFFICES ASSUME PoseAssumption, EvaluationAssumption, StandingInit PROVE StandingTypes
  OBVIOUS
<1>1. /\ GuardEvery \in Nat \ {0} /\ GuardCount \in Nat \ {0} /\ Delay \in Nat /\ Stale \in Nat
      /\ Moving \in Nat /\ Settle \in Nat /\ HoldSec \in Nat
  BY DEF EvaluationAssumption
<1>2. Trips \in Nat
  <2>1. GuardEvery * GuardCount \in Nat
    BY <1>1
  <2> QED
    BY <1>1, <2>1 DEF Trips
<1>3. left = 0 /\ due = 0 /\ age = 0 /\ count = 0 /\ overFor = 0 /\ transit = <<>> /\ Len(transit) = 0
  BY DEF StandingInit
<1>4. /\ left \in 0 .. Moving + Settle + HoldSec /\ due \in 0 .. GuardEvery
      /\ Len(transit) <= Delay /\ age \in 0 .. Stale + 1 /\ count \in 0 .. GuardCount
      /\ overFor \in 0 .. Trips + 1
  BY <1>1, <1>2, <1>3
<1>5. library \in [Poses -> Int \cup {Missing}] /\ limits \in LimitChoices /\ contract \in Contracts
  BY DEF StandingInit
<1>6. /\ at = "exited" /\ code = "0" /\ override = TRUE /\ source = "measured" /\ phase = "hold"
      /\ ref = "measured" /\ followed = "measured" /\ seen = FALSE /\ records = {}
  BY DEF StandingInit
<1>7. StandingTypeOK
  BY <1>4, <1>5, <1>6 DEF StandingTypeOK, ReferenceLabels
<1>8. PlanIsTyped /\ TransitIsTyped
  BY <1>3, <1>6 DEF PlanIsTyped, TransitIsTyped
<1> QED
  BY <1>7, <1>8 DEF StandingTypes

\* What a tick leaves in the plan, the phase and the references.
LEMMA TickTypes ==
  ASSUME PoseAssumption, EvaluationAssumption, LoopTypes, StandingTypes, Tick
  PROVE  StandingTypes'
<1>1. /\ GuardEvery \in Nat \ {0} /\ GuardCount \in Nat \ {0} /\ Delay \in Nat /\ Stale \in Nat
      /\ Moving \in Nat \ {0} /\ Settle \in Nat \ {0} /\ HoldSec \in Nat \ {0}
  BY DEF EvaluationAssumption
<1>2. Trips \in Nat
  <2>1. GuardEvery * GuardCount \in Nat
    BY <1>1
  <2> QED
    BY <1>1, <2>1 DEF Trips
<1>3. /\ StandingTypeOK /\ PlanIsTyped /\ TransitIsTyped /\ at = "run" /\ left > 0
      /\ UNCHANGED <<limits, contract, library, at, code, override>>
  BY DEF Tick, StandingTypes
<1>4. plan \in Seq(Poses) /\ plan # <<>> /\ plan[1] \in Poses
  BY <1>3 DEF PlanIsTyped
<1>5. ref' \in ReferenceLabels /\ followed' \in ReferenceLabels
  BY <1>3, <1>4 DEF Tick, Publish, Follow, StandingTypeOK, ReferenceLabels
<1>6. /\ plan' \in Seq(Poses) /\ plan' # <<>> /\ source' \in Poses \cup {"measured"}
      /\ phase' \in {"transition", "settle", "hold"} /\ left' \in 0 .. Moving + Settle + HoldSec
  <2>1. CASE left > 1
    <3>1. left' = left - 1 /\ plan' = plan /\ source' = source /\ phase' = phase
      BY <2>1 DEF Tick
    <3>2. left \in 0 .. Moving + Settle + HoldSec /\ source \in Poses \cup {"measured"}
          /\ phase \in {"transition", "settle", "hold"}
      BY <1>3 DEF StandingTypeOK
    <3> QED
      BY <1>1, <1>4, <2>1, <3>1, <3>2
  <2>2. CASE ~(left > 1)
    <3>1. left' \in {Moving, Settle, HoldSec, 0} /\ phase' \in {"transition", "settle", "hold"}
      BY <2>2 DEF Tick, NextPhase, Begin
    <3>2. \/ plan' = plan /\ source' = source
          \/ Len(plan) > 1 /\ plan' = Tail(plan) /\ source' = plan[1]
      BY <2>2 DEF Tick, NextPhase
    <3>3. source \in Poses \cup {"measured"}
      BY <1>3 DEF StandingTypeOK
    <3>4. plan' \in Seq(Poses) /\ plan' # <<>>
      <4>1. Len(plan) > 1 => Tail(plan) \in Seq(Poses) /\ Len(Tail(plan)) = Len(plan) - 1
        BY <1>4
      <4>2. Len(plan) > 1 => Tail(plan) # <<>>
        <5>1. \A s \in Seq(Poses) : Len(s) > 0 => s # <<>>
          OBVIOUS
        <5>2. Len(plan) > 1 => Len(plan) - 1 > 0
          BY <1>4
        <5> QED
          BY <4>1, <5>1, <5>2
      <4> QED
        BY <1>4, <3>2, <4>1, <4>2
    <3> QED
      BY <1>1, <1>4, <3>1, <3>2, <3>3, <3>4
  <2> QED
    BY <2>1, <2>2
<1>7. due' \in 0 .. GuardEvery /\ count' \in 0 .. GuardCount
  <2>1. due' \in 0 .. GuardEvery - 1 /\ count' \in 0 .. GuardCount - 1
    BY TickFacts
  <2> QED
    BY <1>1, <2>1
<1>8. PICK flow, n : Carried(flow, n)
  BY TickFlow
<1>9. \A i \in 1 .. Len(flow) : flow[i].ref \in ReferenceLabels
  <2>1. ASSUME NEW i \in 1 .. Len(flow) PROVE flow[i].ref \in ReferenceLabels
    <3>0. Len(transit) \in Nat /\ Len(flow) = Len(transit) + 1
      BY <1>8 DEF Carried
    <3>1. i \in 1 .. Len(transit) \/ i = Len(transit) + 1
      BY <3>0, SMTT(30)
    <3> QED
      BY <1>3, <1>5, <1>8, <3>1 DEF Carried, TransitIsTyped
  <2> QED
    BY <2>1
<1>10. TransitIsTyped'
  BY <1>8, <1>9 DEF Carried, TransitIsTyped, ReferenceLabels
<1>11. PICK over \in BOOLEAN :
        LET flow0 == Append(transit, [ref |-> followed', over |-> over])
        IN  \E m \in 0 .. Len(flow0) :
              /\ Len(flow0) - m <= Delay /\ transit' = SubSeq(flow0, m + 1, Len(flow0))
              /\ \/ /\ seen' = seen /\ age' = IF age > Stale THEN age ELSE age + 1
                    /\ records' = {}
                 \/ \E newest \in 1 .. m : \E others \in SUBSET (1 .. newest - 1) :
                      /\ age' = 0 /\ seen' = flow0[newest].over
                      /\ records' =
                           {[pose |-> plan[1], source |-> source, ref |-> flow0[i].ref,
                             phase |-> phase] : i \in others \cup {newest}}
              /\ overFor' = IF ~over THEN 0
                            ELSE IF overFor > Trips THEN overFor ELSE overFor + 1
  BY TickFacts
<1> DEFINE e == [ref |-> followed', over |-> over]
           late == Append(transit, e)
<1>12. /\ Len(late) = Len(transit) + 1 /\ Len(transit) \in Nat
       /\ \A i \in 1 .. Len(late) : late[i].ref \in ReferenceLabels /\ late[i].over \in BOOLEAN
  <2>1. /\ transit \in Seq(Range(transit)) /\ DOMAIN transit = 1 .. Len(transit)
        /\ \A i \in DOMAIN transit : transit[i].over \in BOOLEAN
    BY DEF LoopTypes
  <2>2. /\ Len(late) = Len(transit) + 1 /\ Len(transit) \in Nat /\ late[Len(transit) + 1] = e
        /\ \A i \in 1 .. Len(transit) : late[i] = transit[i]
    BY <2>1
  <2>3. e.ref \in ReferenceLabels /\ e.over \in BOOLEAN
    BY <1>5, <1>11
  <2> HIDE DEF late, e
  <2>4. ASSUME NEW i \in 1 .. Len(late)
        PROVE  late[i].ref \in ReferenceLabels /\ late[i].over \in BOOLEAN
    <3>1. i \in 1 .. Len(transit) \/ i = Len(transit) + 1
      BY <2>2, SMTT(30)
    <3> QED
      BY <1>3, <2>1, <2>2, <2>3, <3>1 DEF TransitIsTyped
  <2> QED
    BY <2>2, <2>4
<1>13. PICK m \in 0 .. Len(late) :
         /\ Len(late) - m <= Delay /\ transit' = SubSeq(late, m + 1, Len(late))
         /\ \/ /\ seen' = seen /\ age' = IF age > Stale THEN age ELSE age + 1
               /\ records' = {}
            \/ \E newest \in 1 .. m : \E others \in SUBSET (1 .. newest - 1) :
                 /\ age' = 0 /\ seen' = late[newest].over
                 /\ records' =
                      {[pose |-> plan[1], source |-> source, ref |-> late[i].ref,
                        phase |-> phase] : i \in others \cup {newest}}
         /\ overFor' = IF ~over THEN 0
                       ELSE IF overFor > Trips THEN overFor ELSE overFor + 1
  BY <1>11
<1> HIDE DEF late
<1>14. /\ seen \in BOOLEAN /\ age \in 0 .. Stale + 1 /\ overFor \in 0 .. Trips + 1
       /\ source \in Poses \cup {"measured"} /\ phase \in {"transition", "settle", "hold"}
  BY <1>3 DEF StandingTypeOK
<1>15. overFor' \in 0 .. Trips + 1
  BY <1>2, <1>13, <1>14, SMTT(30)
<1>16. /\ seen' \in BOOLEAN /\ age' \in 0 .. Stale + 1
       /\ records' \subseteq [pose : Poses, source : Poses \cup {"measured"}, ref : ReferenceLabels,
                              phase : {"transition", "settle", "hold"}]
  <2>1. CASE records' = {} /\ seen' = seen /\ age' = IF age > Stale THEN age ELSE age + 1
    BY <1>1, <1>14, <2>1
  <2>2. ASSUME NEW newest \in 1 .. m, NEW others \in SUBSET (1 .. newest - 1),
               age' = 0, seen' = late[newest].over,
               records' = {[pose |-> plan[1], source |-> source, ref |-> late[i].ref,
                            phase |-> phase] : i \in others \cup {newest}}
        PROVE  /\ seen' \in BOOLEAN /\ age' \in 0 .. Stale + 1
               /\ records' \subseteq [pose : Poses, source : Poses \cup {"measured"},
                                      ref : ReferenceLabels,
                                      phase : {"transition", "settle", "hold"}]
    <3>1. \A i \in others \cup {newest} : i \in 1 .. Len(late)
      BY <1>12, <1>13, SMTT(30)
    <3>2. \A i \in others \cup {newest} : late[i].ref \in ReferenceLabels
      BY <1>12, <3>1
    <3>3. seen' \in BOOLEAN
      BY <1>12, <2>2, <3>1
    <3>4. age' \in 0 .. Stale + 1
      BY <1>1, <2>2
    <3>5. ASSUME NEW r \in records'
          PROVE  r \in [pose : Poses, source : Poses \cup {"measured"}, ref : ReferenceLabels,
                        phase : {"transition", "settle", "hold"}]
      <4>1. PICK i \in others \cup {newest} :
              r = [pose |-> plan[1], source |-> source, ref |-> late[i].ref, phase |-> phase]
        BY <2>2, <3>5
      <4>2. late[i].ref \in ReferenceLabels
        BY <3>2
      <4> QED
        BY <1>4, <1>14, <4>1, <4>2
    <3> QED
      BY <3>3, <3>4, <3>5
  <2> QED
    BY <1>13, <2>1, <2>2
<1>17. Len(transit') <= Delay
  BY <1>8 DEF Carried
<1>18. PlanIsTyped'
  BY <1>6 DEF PlanIsTyped
<1>19. StandingTypeOK'
  BY <1>3, <1>5, <1>6, <1>7, <1>15, <1>16, <1>17 DEF StandingTypeOK, ReferenceLabels
<1> QED
  BY <1>10, <1>18, <1>19 DEF StandingTypes

\* The types of the loop's variables alone.
LoopIsTyped ==
  /\ phase \in {"transition", "settle", "hold"}
  /\ left \in 0 .. Moving + Settle + HoldSec /\ due \in 0 .. GuardEvery
  /\ {ref, followed} \subseteq ReferenceLabels /\ source \in Poses \cup {"measured"}
  /\ Len(transit) <= Delay /\ age \in 0 .. Stale + 1 /\ count \in 0 .. GuardCount
  /\ overFor \in 0 .. Trips + 1
  /\ records \subseteq [pose : Poses, source : Poses \cup {"measured"}, ref : ReferenceLabels,
                         phase : {"transition", "settle", "hold"}]
  /\ seen \in BOOLEAN

\* Outside the tick the loop stays as it is, starts over, or gets its first reference or phase.
LEMMA LoopTyped ==
  ASSUME EvaluationAssumption, StandingTypes, ~Tick, [StandingNext]_standingVars
  PROVE  LoopIsTyped' /\ TransitIsTyped'
<1>1. /\ GuardEvery \in Nat \ {0} /\ GuardCount \in Nat \ {0} /\ Delay \in Nat /\ Stale \in Nat
      /\ Moving \in Nat \ {0} /\ Settle \in Nat \ {0} /\ HoldSec \in Nat \ {0}
  BY DEF EvaluationAssumption
<1>2. Trips \in Nat
  <2>1. GuardEvery * GuardCount \in Nat
    BY <1>1
  <2> QED
    BY <1>1, <2>1 DEF Trips
<1>3. LoopIsTyped /\ TransitIsTyped
  BY DEF StandingTypes, StandingTypeOK, LoopIsTyped
<1>4. CASE Start
  <2>1. /\ source' = "measured" /\ phase' = "hold" /\ left' = 0 /\ due' = 0
        /\ ref' = "measured" /\ followed' = "measured" /\ transit' = <<>>
        /\ seen' = FALSE /\ age' = 0 /\ count' = 0 /\ overFor' = 0 /\ records' = {}
    BY <1>4 DEF Start
  <2>2. Len(transit') = 0 /\ DOMAIN transit' = {}
    BY <2>1
  <2>3. /\ left' \in 0 .. Moving + Settle + HoldSec /\ due' \in 0 .. GuardEvery
        /\ Len(transit') <= Delay /\ age' \in 0 .. Stale + 1 /\ count' \in 0 .. GuardCount
        /\ overFor' \in 0 .. Trips + 1
    BY <1>1, <1>2, <2>1, <2>2
  <2> QED
    BY <2>1, <2>2, <2>3 DEF LoopIsTyped, TransitIsTyped, ReferenceLabels
<1>5. CASE LoggingStarts
  <2>1. /\ UNCHANGED <<source, ref, followed, transit, seen, age, count, overFor, records>>
        /\ \/ phase' = "transition" /\ left' = Moving /\ due' = 0
           \/ UNCHANGED <<phase, left, due>>
    BY <1>5 DEF LoggingStarts, Begin
  <2>2. left' \in 0 .. Moving + Settle + HoldSec /\ due' \in 0 .. GuardEvery
    BY <1>1, <1>3, <2>1 DEF LoopIsTyped
  <2> QED
    BY <1>3, <2>1, <2>2 DEF LoopIsTyped, TransitIsTyped, ReferenceLabels
<1>6. CASE ReleaseOverride
  <2>1. /\ UNCHANGED <<source, phase, left, due, transit, seen, age, count, overFor, records>>
        /\ ref' = "measured" /\ followed' = "measured"
    BY <1>6 DEF ReleaseOverride
  <2> QED
    BY <1>3, <2>1 DEF LoopIsTyped, TransitIsTyped, ReferenceLabels
<1>7. CASE ~(Start \/ LoggingStarts \/ ReleaseOverride)
  <2>1. UNCHANGED <<source, phase, left, due, ref, followed, transit, seen, age, count, overFor,
                    records>>
    <3>1. CASE MapChanged \/ CaptureMode \/ Key \/ GuardTrips \/ GuardFinds \/ Leave
      BY <3>1 DEF MapChanged, CaptureMode, Key, GuardTrips, GuardFinds, Abort, Leave, loopVars
    <3>2. CASE EnableHold
      BY <3>2 DEF EnableHold
    <3>3. CASE UNCHANGED standingVars
      BY <3>3 DEF standingVars, loopVars
    <3> QED
      BY <1>7, <3>1, <3>2, <3>3 DEF StandingNext
  <2> QED
    BY <1>3, <2>1 DEF LoopIsTyped, TransitIsTyped, ReferenceLabels
<1> QED
  BY <1>4, <1>5, <1>6, <1>7

\* A plan is made when the pose is held, and is there until the run ends.
LEMMA PlanTyped ==
  ASSUME PoseAssumption, RequestAssumption, PlanIsTyped, ~Tick, [StandingNext]_standingVars
  PROVE  PlanIsTyped'
<1>1. SUFFICES ASSUME at' \in {"enabled", "released", "run"}
      PROVE plan' \in Seq(Poses) /\ plan' # <<>>
  BY DEF PlanIsTyped
<1>2. CASE EnableHold
  <2>1. PICK r \in Requests : Streamable(r) /\ plan' = EvalSequence(r)
    BY <1>1, <1>2 DEF EnableHold, Exit
  <2>2. r \in Seq(Poses) /\ r # <<>>
    BY DEF RequestAssumption
  <2> QED
    BY <2>1, <2>2, EvalIsUpright DEF Upright
<1>3. CASE ~EnableHold
  <2>1. at \in {"enabled", "released", "run"} /\ plan' = plan
    <3>1. CASE ReleaseOverride \/ LoggingStarts
      BY <1>1, <3>1 DEF ReleaseOverride, LoggingStarts, Exit
    <3>2. CASE \/ Start \/ MapChanged \/ CaptureMode
      BY <1>1, <3>2 DEF Start, MapChanged, CaptureMode,
         Capture, CaptureArmed, CaptureTorqueSeen, CaptureRejected,
         CaptureSaved, CaptureEnds, Exit
    <3>3. CASE Key \/ GuardTrips \/ GuardFinds \/ Leave
      BY <1>1, <3>3 DEF Key, GuardTrips, GuardFinds, Abort, Leave,
         Finish, Held, Interrupted, ShutDown, Exit
    <3>4. CASE UNCHANGED standingVars
      BY <1>1, <3>4 DEF standingVars, loopVars
    <3> QED
      BY <1>3, <3>1, <3>2, <3>3, <3>4 DEF StandingNext
  <2> QED
    BY <2>1 DEF PlanIsTyped
<1> QED
  BY <1>2, <1>3

\* What a capture saves is a number.
LEMMA LibraryTyped ==
  ASSUME PoseAssumption, library \in [Poses -> Int \cup {Missing}], ~Tick,
         [StandingNext]_standingVars
  PROVE  library' \in [Poses -> Int \cup {Missing}]
<1>1. CASE CaptureSaved
  <2>1. PICK w \in Windows, name \in Poses :
          Usable(w) /\ library' = [library EXCEPT ![name] = TwiceMedian(w)]
    BY <1>1 DEF CaptureSaved
  <2>2. w \in Seq(Int) /\ w # <<>>
    BY <2>1, WindowsAreSamples
  <2>3. TwiceMedian(w) \in Int
    BY <2>2, MedianIsInteger
  <2> QED
    BY <2>1, <2>3
<1>2. CASE ~CaptureSaved
  <2>1. library' = library
    <3>1. CASE MapChanged \/ CaptureMode
      BY <1>2, <3>1 DEF MapChanged, CaptureMode, Capture, CaptureRejected, CaptureEnds
    <3>2. CASE Start \/ EnableHold \/ ReleaseOverride \/ LoggingStarts
      BY <3>2 DEF Start, EnableHold, ReleaseOverride, LoggingStarts
    <3>3. CASE Key \/ GuardTrips \/ GuardFinds \/ Leave
      BY <3>3 DEF Key, GuardTrips, GuardFinds, Abort, Leave
    <3>4. CASE UNCHANGED standingVars
      BY <3>4 DEF standingVars
    <3> QED
      BY <3>1, <3>2, <3>3, <3>4 DEF StandingNext
  <2> QED
    BY <2>1
<1> QED
  BY <1>1, <1>2

ToolStates == {"exited", "capture", "torqueOff", "placing", "saved", "preflight", "enabled",
           "released", "run", "abort"}
ExitCodes == {"none", "0", "3", "5", "7", "70", "130"}

LEMMA ControlTyped ==
  ASSUME limits \in LimitChoices, contract \in Contracts, at \in ToolStates, code \in ExitCodes,
         override \in BOOLEAN, ~Tick, [StandingNext]_standingVars
  PROVE  /\ limits' \in LimitChoices /\ contract' \in Contracts /\ at' \in ToolStates
         /\ code' \in ExitCodes /\ override' \in BOOLEAN
<1>1. CASE Start \/ EnableHold \/ ReleaseOverride \/ LoggingStarts
  BY <1>1 DEF Start, EnableHold, ReleaseOverride, LoggingStarts, Exit, ToolStates, ExitCodes
<1>2. CASE MapChanged
  BY <1>2 DEF MapChanged
<1>3. CASE CaptureMode
  <2>1. limits' = limits /\ contract' = contract /\ override' = (override \/ at' = "placing") /\ Capture
    BY <1>3 DEF CaptureMode
  <2>2. at' \in ToolStates /\ code' \in ExitCodes
    BY <2>1 DEF Capture, CaptureArmed, CaptureTorqueSeen, CaptureRejected, CaptureSaved,
       CaptureEnds, Exit, ToolStates, ExitCodes
  <2>3. override' \in BOOLEAN
    BY <2>1, Zenon
  <2> QED
    BY <2>1, <2>2, <2>3
<1>4. CASE Key \/ GuardTrips \/ GuardFinds
  BY <1>4 DEF Key, GuardTrips, GuardFinds, Abort, ToolStates
<1>5. CASE Leave
  BY <1>5 DEF Leave, Finish, Held, Interrupted, ShutDown, Exit, ToolStates, ExitCodes
<1>6. CASE UNCHANGED standingVars
  BY <1>6 DEF standingVars
<1> QED
  BY <1>1, <1>2, <1>3, <1>4, <1>5, <1>6 DEF StandingNext

LEMMA StandTypesStep ==
  ASSUME PoseAssumption, EvaluationAssumption, RequestAssumption, LoopTypes, StandingTypes,
         [StandingNext]_standingVars
  PROVE  StandingTypes'
<1>1. CASE Tick
  BY <1>1, TickTypes
<1>2. CASE ~Tick
  <2>1. LoopIsTyped' /\ TransitIsTyped'
    BY <1>2, LoopTyped
  <2>2. PlanIsTyped'
    BY <1>2, PlanTyped DEF StandingTypes
  <2>3. library' \in [Poses -> Int \cup {Missing}]
    BY <1>2, LibraryTyped DEF StandingTypes, StandingTypeOK
  <2>4. /\ limits \in LimitChoices /\ contract \in Contracts /\ at \in ToolStates
        /\ code \in ExitCodes /\ override \in BOOLEAN
    BY DEF StandingTypes, StandingTypeOK, ToolStates, ExitCodes
  <2>5. /\ limits' \in LimitChoices /\ contract' \in Contracts /\ at' \in ToolStates
        /\ code' \in ExitCodes /\ override' \in BOOLEAN
    BY <1>2, <2>4, ControlTyped
  <2>6. StandingTypeOK'
    BY <2>1, <2>3, <2>5 DEF LoopIsTyped, StandingTypeOK, ToolStates, ExitCodes
  <2> QED
    BY <2>1, <2>2, <2>6 DEF StandingTypes
<1> QED
  BY <1>1, <1>2

\* The types of the standing test, the numbers it works with -- speeds, sequences, audits and
\* statistics, for every request and every window -- and what it streams, in every reachable state.
THEOREM StandingIsCorrect == StandingSpec => []StandingInv
<1>1. ASSUME PoseAssumption, EvaluationAssumption, RequestAssumption
      PROVE  StandingSpec => []StandingTypeOK
  <2>1. StandingInit => StandingTypes
    BY <1>1, StandTypesInit
  <2>2. LoopTypes /\ StandingTypes /\ [StandingNext]_standingVars => StandingTypes'
    BY <1>1, StandTypesStep
  <2>3. StandingIInv => LoopTypes
    BY DEF StandingIInv
  <2>4. StandingTypes => StandingTypeOK
    BY DEF StandingTypes
  <2> QED
    BY <2>1, <2>2, <2>3, <2>4, StandInvariance, PTL DEF StandingSpec
<1>2. ASSUME PoseAssumption PROVE SpeedIsLimited /\ SequenceIsSafe /\ AuditAgrees /\ StatisticsAreOrdered
  BY <1>2, SpeedsAreLimited, SequencesAreSafe, AuditsAgree, StatisticsInOrder
<1>3. ASSUME PoseAssumption, EvaluationAssumption, RequestAssumption
      PROVE  StandingSpec => []StandingInv
  <2>1. StandingTypeOK /\ StreamedAreGuarded => StandingInv
    BY <1>2, <1>3 DEF StandingInv
  <2>2. StandingSpec => []StandingTypeOK
    BY <1>1, <1>3
  <2> QED
    BY <2>1, <2>2, PosesStreamed, PTL
<1> QED
  BY <1>3, EvaluationAssumption, PoseAssumption, RequestAssumption
     DEF EvaluationAssumption, PoseAssumption, RequestAssumption

(***************************************************************************)
(* The identification runner.                                              *)
(***************************************************************************)

\* A quotient lies where the division says.
LEMMA Quotient ==
  ASSUME NEW x \in Int, NEW m \in Nat \ {0}
  PROVE  x \div m \in Int /\ m * (x \div m) <= x /\ x < m * (x \div m) + m
OBVIOUS

\* A multiple of m that is less than the next of the multiples of m comes not after it.
LEMMA Multiples ==
  ASSUME NEW m \in Nat \ {0}, NEW q \in Int, NEW d \in Int
  PROVE  /\ m * q \in Int /\ m * d \in Int
         /\ m * q < m * d + m => q <= d
<1>1. ASSUME q > d PROVE m * q >= m * d + m
  <2>1. PICK e \in Nat : q = d + 1 + e
    <3>1. q - d - 1 \in Nat /\ q = d + 1 + (q - d - 1)
      BY <1>1
    <3> QED
      BY <3>1
  <2>2. m * q = m * d + m + m * e /\ m * e \in Nat
    BY <2>1
  <2> QED
    BY <2>2
<1>2. m * q \in Int /\ m * d \in Int
  OBVIOUS
<1> QED
  BY <1>1, <1>2

\* The part a / m of the way d, cut off downwards, is not beyond it.
LEMMA PartOfTheWay ==
  ASSUME NEW d \in Int, NEW m \in Nat \ {0}, NEW a \in 0 .. m
  PROVE  /\ (d * a) \div m \in Int
         /\ d >= 0 => 0 <= (d * a) \div m /\ (d * a) \div m <= d
         /\ d <= 0 => d <= (d * a) \div m /\ (d * a) \div m <= 0
<1> DEFINE x == d * a
           q == x \div m
<1>1. x \in Int /\ a \in Nat
  OBVIOUS
<1>2. q \in Int /\ m * q <= x /\ x < m * q + m
  BY <1>1, Quotient
<1>3. d >= 0 => 0 <= x /\ x <= m * d
  <2>1. PICK b \in Nat : m = a + b
    <3>1. m - a \in Nat /\ m = a + (m - a)
      OBVIOUS
    <3> QED
      BY <3>1
  <2>2. m * d = x + b * d
    BY <2>1
  <2>3. d >= 0 => x >= 0 /\ b * d >= 0
    BY <1>1, <2>1
  <2> QED
    BY <1>1, <2>1, <2>2, <2>3
<1>4. d <= 0 => m * d <= x /\ x <= 0
  <2>1. PICK b \in Nat : m = a + b
    <3>1. m - a \in Nat /\ m = a + (m - a)
      OBVIOUS
    <3> QED
      BY <3>1
  <2>2. m * d = x + b * d
    BY <2>1
  <2>3. d <= 0 => x <= 0 /\ b * d <= 0
    BY <1>1, <2>1
  <2> QED
    BY <1>1, <2>1, <2>2, <2>3
<1>5. m * 0 = 0 /\ 0 \in Int
  OBVIOUS
<1> HIDE DEF x, q
<1>6. d >= 0 => 0 <= q /\ q <= d
  <2>1. ASSUME d >= 0 PROVE m * q < m * d + m /\ m * 0 < m * q + m
    BY <1>1, <1>2, <1>3, <1>5, <2>1, Multiples
  <2> QED
    BY <1>2, <1>5, <2>1, Multiples
<1>7. d <= 0 => d <= q /\ q <= 0
  <2>1. ASSUME d <= 0 PROVE m * q < m * 0 + m /\ m * d < m * q + m
    BY <1>1, <1>2, <1>4, <1>5, <2>1, Multiples
  <2> QED
    BY <1>2, <1>5, <2>1, Multiples
<1> QED
  BY <1>2, <1>6, <1>7 DEF q, x

\* The smoothed part of the way, k ticks of n, lies between nothing and all of it.
LEMMA SmoothPart ==
  ASSUME NEW n \in Nat \ {0}, NEW k \in 1 .. n
  PROVE  n * n * n \in Nat \ {0} /\ Smooth(k, n) \in 0 .. n * n * n
<1>1. PICK b \in Nat : n = k + b
  <2>1. n - k \in Nat /\ n = k + (n - k)
    OBVIOUS
  <2> QED
    BY <2>1
<1>2. k \in Nat \ {0} /\ k * k \in Nat /\ b * b \in Nat /\ n + 2 * k \in Nat /\ k + 3 * b \in Nat
  BY <1>1
<1>3. Smooth(k, n) = k * k * (k + 3 * b)
  BY <1>1, <1>2 DEF Smooth
<1>4. n * n * n = Smooth(k, n) + b * b * (n + 2 * k)
  BY <1>1, <1>2 DEF Smooth
<1>5. k * k * (k + 3 * b) \in Nat /\ b * b * (n + 2 * k) \in Nat /\ n * n * n \in Nat \ {0}
  BY <1>1, <1>2
<1> QED
  BY <1>3, <1>4, <1>5

\* Where the joint may be sent is an interval.
LEMMA SentIsConvex ==
  ASSUME IdentificationAssumption, anchor \in Int, NEW x, NEW y, NEW z \in Int,
         Sent(anchor, x), Sent(anchor, y), (x <= z /\ z <= y) \/ (y <= z /\ z <= x)
  PROVE  Sent(anchor, z)
<1>1. /\ Low \in Int /\ High \in Int /\ Margin \in Int
      /\ x \in Int /\ y \in Int
  BY DEF IdentificationAssumption, Sent
<1> DEFINE lo == Low + Margin
           hi == High - Margin
           In(v) == lo <= v /\ v <= hi
           Between(v) == \E w \in lo .. hi : (w < v /\ v < anchor) \/ (anchor < v /\ v < w)
<1>2. lo \in Int /\ hi \in Int
  BY <1>1
<1>3. \A v : Sendable(anchor, v) <=> In(v) \/ v = anchor \/ Between(v)
  BY DEF Sendable, WithinLimits, Allowed
<1>4. ASSUME NEW v \in Int
      PROVE  In(v) \/ v = anchor \/ Between(v)
               <=> v = anchor \/ (lo <= hi /\ (lo <= v \/ anchor < v) /\ (v <= hi \/ v < anchor))
  <2>1. ASSUME Between(v)
        PROVE  lo <= hi /\ (lo <= v \/ anchor < v) /\ (v <= hi \/ v < anchor)
    BY <1>2, <2>1, SMTT(30)
  <2>2. ASSUME lo <= hi, lo <= v \/ anchor < v, v <= hi \/ v < anchor, ~In(v), v # anchor
        PROVE  Between(v)
    <3>1. lo \in lo .. hi /\ hi \in lo .. hi
      BY <1>2, <2>2, SMTT(30)
    <3>2. (lo < v /\ v < anchor) \/ (hi < v /\ v < anchor) \/ (anchor < v /\ v < lo) \/ (anchor < v /\ v < hi)
      BY <1>2, <2>2
    <3> QED
      BY <3>1, <3>2
  <2>3. In(v) => lo <= hi /\ lo <= v /\ v <= hi
    BY <1>2
  <2> QED
    BY <2>1, <2>2, <2>3
<1> HIDE DEF lo, hi, In, Between
<1>5. /\ x = anchor \/ (lo <= hi /\ (lo <= x \/ anchor < x) /\ (x <= hi \/ x < anchor))
      /\ y = anchor \/ (lo <= hi /\ (lo <= y \/ anchor < y) /\ (y <= hi \/ y < anchor))
  BY <1>1, <1>3, <1>4 DEF Sent
<1>6. z = anchor \/ (lo <= hi /\ (lo <= z \/ anchor < z) /\ (z <= hi \/ z < anchor))
  BY <1>1, <1>2, <1>5
<1> QED
  BY <1>3, <1>4, <1>6 DEF Sent

\* A smooth move from one place the joint may be sent to, to another, leads nowhere else.
LEMMA MoveIsSent ==
  ASSUME IdentificationAssumption, anchor \in Int, NEW f, NEW g, Sent(anchor, f), Sent(anchor, g),
         NEW k \in 1 .. Move
  PROVE  Sent(anchor, f + ((g - f) * Smooth(k, Move)) \div (Move * Move * Move))
<1>1. Move \in Nat \ {0} /\ f \in Int /\ g \in Int /\ g - f \in Int
  BY DEF IdentificationAssumption, Sent
<1> DEFINE m == Move * Move * Move
           a == Smooth(k, Move)
           part == ((g - f) * a) \div m
<1>2. m \in Nat \ {0} /\ a \in 0 .. m
  BY <1>1, SmoothPart
<1> HIDE DEF m, a
<1>3. /\ part \in Int
      /\ g - f >= 0 => 0 <= part /\ part <= g - f
      /\ g - f <= 0 => g - f <= part /\ part <= 0
  BY <1>1, <1>2, PartOfTheWay
<1> HIDE DEF part
<1>4. f + part \in Int /\ ((f <= f + part /\ f + part <= g) \/ (g <= f + part /\ f + part <= f))
  BY <1>1, <1>3
<1>5. Sent(anchor, f + part)
  BY <1>4, SentIsConvex
<1> QED
  BY <1>5 DEF part, m, a

\* What is known of a sequence of members of S, and of a function that is one.
LEMMA Entries ==
  ASSUME NEW S, NEW s \in Seq(S)
  PROVE  /\ Len(s) \in Nat /\ DOMAIN s = 1 .. Len(s)
         /\ \A i \in 1 .. Len(s) : s[i] \in S /\ s[i] \in ToSet(s)
BY DEF ToSet

LEMMA Listed ==
  ASSUME NEW S, NEW n \in Nat, NEW f \in [1 .. n -> S]
  PROVE  f \in Seq(S) /\ Len(f) = n
OBVIOUS

LEMMA Three ==
  ASSUME NEW S, NEW a \in S, NEW b \in S, NEW c \in S
  PROVE  /\ <<a>> \in Seq(S) /\ <<a, b>> \in Seq(S) /\ <<a, b, c>> \in Seq(S)
         /\ \A i \in 1 .. 3 : <<a, b, c>>[i] \in S
<1>1. ASSUME NEW i \in 1 .. 3 PROVE <<a, b, c>>[i] \in S
  <2>1. i = 1 \/ i = 2 \/ i = 3
    OBVIOUS
  <2> QED
    BY <2>1
<1>2. <<a>> \in Seq(S) /\ <<a, b>> \in Seq(S) /\ <<a, b, c>> \in Seq(S)
  OBVIOUS
<1> QED
  BY <1>1, <1>2

\* The first number of the pair, or of the three, that k belongs to.
LEMMA PairsAndTriples ==
  ASSUME NEW n \in Nat, NEW k \in Nat \ {0}
  PROVE  /\ k <= 2 * n /\ k % 2 = 1 => (k + 1) \div 2 \in 1 .. n
         /\ k <= 2 * n /\ k % 2 # 1 => k \div 2 \in 1 .. n
         /\ k <= 3 * n => (k + 2) \div 3 \in 1 .. n
         /\ ((k - 1) % 3) + 1 \in 1 .. 3
OBVIOUS

\* Two entries in front of a sequence and two behind.
Framed(s, c, h, t, m, e, F, S) ==
  /\ s \in Seq(S) /\ Len(t) \in Nat /\ Len(s) = Len(t) + 4
  /\ s[1] = c /\ s[2] = h /\ s[Len(s) - 1] = m /\ s[Len(s)] = e
  /\ \A i \in 2 .. Len(s) : s[i] \in F

LEMMA Framing ==
  ASSUME NEW F, NEW S, F \subseteq S, NEW c \in S, NEW h \in F, NEW t \in Seq(F), NEW m \in F,
         NEW e \in F
  PROVE  Framed(<<c, h>> \o t \o <<m, e>>, c, h, t, m, e, F, S)
<1> DEFINE a == <<c, h>>
           b == <<m, e>>
           p == a \o t
           s == p \o b
<1>1. /\ a \in Seq(S) /\ t \in Seq(S) /\ b \in Seq(S)
      /\ Len(a) = 2 /\ Len(b) = 2 /\ Len(t) \in Nat
      /\ a[1] = c /\ a[2] = h /\ b[1] = m /\ b[2] = e
  OBVIOUS
<1>2. \A i \in 1 .. Len(t) : t[i] \in F
  OBVIOUS
<1> HIDE DEF a, b
<1>3. /\ p \in Seq(S) /\ Len(p) = Len(t) + 2
      /\ \A i \in 1 .. Len(t) + 2 : p[i] = IF i <= 2 THEN a[i] ELSE t[i - 2]
  <2>1. /\ p \in Seq(S) /\ Len(p) = Len(a) + Len(t)
        /\ \A i \in 1 .. Len(a) + Len(t) : p[i] = IF i <= Len(a) THEN a[i] ELSE t[i - Len(a)]
    BY <1>1, ConcatProperties
  <2>2. Len(a) + Len(t) = Len(t) + 2 /\ Len(a) = 2
    BY <1>1
  <2> HIDE DEF p
  <2> QED
    BY <2>1, <2>2
<1> HIDE DEF p
<1>4. /\ s \in Seq(S) /\ Len(s) = Len(t) + 4
      /\ \A i \in 1 .. Len(t) + 4 : s[i] = IF i <= Len(t) + 2 THEN p[i] ELSE b[i - (Len(t) + 2)]
  <2>1. /\ s \in Seq(S) /\ Len(s) = Len(p) + Len(b)
        /\ \A i \in 1 .. Len(p) + Len(b) : s[i] = IF i <= Len(p) THEN p[i] ELSE b[i - Len(p)]
    BY <1>1, <1>3, ConcatProperties
  <2>2. Len(p) + Len(b) = Len(t) + 4 /\ Len(p) = Len(t) + 2
    BY <1>1, <1>3
  <2> HIDE DEF s
  <2> QED
    BY <2>1, <2>2
<1> HIDE DEF s
<1>5. s[1] = c /\ s[2] = h /\ s[Len(s) - 1] = m /\ s[Len(s)] = e
  <2>1. s[1] = p[1] /\ s[2] = p[2] /\ p[1] = a[1] /\ p[2] = a[2]
    BY <1>1, <1>3, <1>4
  <2>2. /\ Len(t) + 3 \in 1 .. Len(t) + 4 /\ Len(t) + 4 \in 1 .. Len(t) + 4
        /\ ~(Len(t) + 3 <= Len(t) + 2) /\ ~(Len(t) + 4 <= Len(t) + 2)
        /\ Len(t) + 3 - (Len(t) + 2) = 1 /\ Len(t) + 4 - (Len(t) + 2) = 2
        /\ Len(s) - 1 = Len(t) + 3
    BY <1>1, <1>4
  <2>3. s[Len(t) + 3] = b[1] /\ s[Len(t) + 4] = b[2]
    BY <1>4, <2>2
  <2> QED
    BY <1>1, <1>4, <2>1, <2>2, <2>3
<1>6. ASSUME NEW i \in 2 .. Len(s) PROVE s[i] \in F
  <2>1. CASE i = 2
    BY <1>5, <2>1
  <2>2. CASE i \in 3 .. Len(t) + 2
    <3>1. i - 2 \in 1 .. Len(t) /\ s[i] = t[i - 2]
      BY <1>1, <1>3, <1>4, <2>2
    <3> QED
      BY <1>2, <3>1
  <2>3. CASE i \in {Len(t) + 3, Len(t) + 4}
    BY <1>1, <1>4, <1>5, <2>3
  <2> QED
    BY <1>1, <1>4, <2>1, <2>2, <2>3
<1> QED
  BY <1>1, <1>4, <1>5, <1>6 DEF Framed, s, p, a, b

\* The segments a plan may hold after its countdown.
Further == {s \in Fitting(anchor, request) : s.kind # "countdown"}

\* Every test is a list of such segments.
LEMMA TestFits ==
  ASSUME IdentificationAssumption, anchor \in Int, request \in Requests,
         ArgumentsOK(request), Planned(anchor, request)
  PROVE  Test(request) \in Seq(Further)
<1> DEFINE o == request.offsets
           S == Seq(Further)
<1>1. /\ request.mode \in {"step_sweep", "deadband_staircase", "triangle", "hold_under_load"}
      /\ o \in Seq(Int) /\ request.centre \in Int /\ MaxOffset \in Nat
      /\ request.mode \in {"triangle", "hold_under_load"} => Len(o) = 1
  BY DEF IdentificationAssumption, ArgumentsOK
<1> HIDE DEF o
<1>2. ASSUME NEW x \in Int, NEW trial \in BOOLEAN PROVE HoldAt("anchor", x, trial) \in Further
  BY DEF Further, Fitting, Segment, Fits, HoldAt
<1>3. CASE request.mode = "step_sweep"
  <2> DEFINE steps == Steps(o)
             trials == Trials(steps)
             first == <<MoveTo("centre"), HoldAt("centre", 0, FALSE)>>
             last == <<HoldAt("centre", 0, FALSE)>>
  <2>1. Valid(anchor, request.centre)
    BY <1>3 DEF Planned
  <2>2. MoveTo("centre") \in Further /\ HoldAt("centre", 0, FALSE) \in Further
    BY <2>1 DEF Further, Fitting, Segment, Fits, HoldAt, MoveTo
  <2>3. \A i \in 1 .. Len(o) : o[i] \in Int /\ o[i] > 0
    <3>1. \A i \in 1 .. Len(o) : o[i] \in Int /\ o[i] \in ToSet(o)
      BY <1>1, Entries
    <3>2. \A x \in ToSet(o) : x > 0
      BY <1>3 DEF ArgumentsOK, o
    <3> QED
      BY <3>1, <3>2
  <2>4. steps \in Seq(Int \ {0})
    <3>1. ASSUME NEW k \in 1 .. 2 * Len(o)
          PROVE  (IF k % 2 = 1 THEN o[(k + 1) \div 2] ELSE -o[k \div 2]) \in Int \ {0}
      <4>1. Len(o) \in Nat
        BY <1>1
      <4>2. CASE k % 2 = 1
        <5>1. (k + 1) \div 2 \in 1 .. Len(o)
          BY <4>1, <4>2, PairsAndTriples
        <5>2. o[(k + 1) \div 2] \in Int \ {0}
          BY <2>3, <5>1
        <5> QED
          BY <4>2, <5>2
      <4>3. CASE k % 2 # 1
        <5>1. k \div 2 \in 1 .. Len(o)
          BY <4>1, <4>3, PairsAndTriples
        <5>2. o[k \div 2] \in Int /\ o[k \div 2] > 0
          BY <2>3, <5>1
        <5>3. \A x \in Int : x > 0 => -x \in Int \ {0}
          OBVIOUS
        <5>4. -o[k \div 2] \in Int \ {0}
          BY <5>2, <5>3
        <5> QED
          BY <4>3, <5>4
      <4> QED
        BY <4>2, <4>3
    <3>2. 2 * Len(o) \in Nat
      BY <1>1
    <3> QED
      BY <3>1, <3>2 DEF Steps
  <2> HIDE DEF steps
  <2>5. ASSUME NEW x \in Int \ {0}, NEW i \in 1 .. 3 PROVE Trial(x)[i] \in Further
    <3>1. HoldAt("local", x, TRUE) \in Further
      BY DEF Further, Fitting, Segment, Fits, HoldAt
    <3> QED
      <4>1. \A n \in 1 .. 3 : Trial(x)[n] \in Further
        BY <2>2, <3>1, Three, Zenon DEF Trial
      <4> QED
        BY <4>1
  <2>6. trials \in S
    <3>1. Len(steps) \in Nat /\ 3 * Len(steps) \in Nat /\ \A i \in 1 .. Len(steps) : steps[i] \in Int \ {0}
      BY <2>4
    <3>2. ASSUME NEW k \in 1 .. 3 * Len(steps)
          PROVE  Trial(steps[(k + 2) \div 3])[((k - 1) % 3) + 1] \in Further
      <4>1. (k + 2) \div 3 \in 1 .. Len(steps) /\ ((k - 1) % 3) + 1 \in 1 .. 3
        BY <3>1, PairsAndTriples
      <4>2. steps[(k + 2) \div 3] \in Int \ {0}
        BY <3>1, <4>1
      <4> QED
        BY <2>5, <4>1, <4>2
    <3>3. trials \in [1 .. 3 * Len(steps) -> Further]
      BY <3>2 DEF Trials
    <3>4. 3 * Len(steps) \in Nat
      BY <3>1
    <3> HIDE DEF trials
    <3> QED
      BY <3>3, <3>4, Listed
  <2>7. first \in S /\ last \in S
    BY <2>2, Three, Zenon
  <2> HIDE DEF trials, first, last
  <2>8. first \o trials \in S
    BY <2>6, <2>7, ConcatProperties
  <2>9. first \o trials \o last \in S
    BY <2>7, <2>8, ConcatProperties
  <2> QED
    BY <1>3, <2>9 DEF Test, first, trials, last, steps, o
<1>4. CASE request.mode = "deadband_staircase"
  <2> DEFINE down == [i \in DOMAIN o |-> -o[i]]
             zero1 == <<0>>
             stairs == <<0>> \o o \o <<0>> \o down \o <<0>>
  <2>1. down \in Seq(Int) /\ <<0>> \in Seq(Int)
    <3>1. Len(o) \in Nat /\ down \in [1 .. Len(o) -> Int]
      BY <1>1, Entries, SMTT(30)
    <3> QED
      BY <3>1, Listed
  <2> HIDE DEF down
  <2>2. <<0>> \o o \in Seq(Int)
    BY <1>1, <2>1, ConcatProperties
  <2>3. <<0>> \o o \o <<0>> \in Seq(Int)
    BY <2>1, <2>2, ConcatProperties
  <2>4. <<0>> \o o \o <<0>> \o down \in Seq(Int)
    BY <2>1, <2>3, ConcatProperties
  <2>5. stairs \in Seq(Int)
    BY <2>1, <2>4, ConcatProperties
  <2> HIDE DEF stairs
  <2>6. [i \in DOMAIN stairs |-> HoldAt("anchor", stairs[i], TRUE)] \in S
    <3>1. DOMAIN stairs = 1 .. Len(stairs) /\ Len(stairs) \in Nat
          /\ \A i \in 1 .. Len(stairs) : stairs[i] \in Int
      BY <2>5
    <3>2. \A i \in 1 .. Len(stairs) : HoldAt("anchor", stairs[i], TRUE) \in Further
      BY <1>2, <3>1
    <3>3. [i \in DOMAIN stairs |-> HoldAt("anchor", stairs[i], TRUE)]
            \in [1 .. Len(stairs) -> Further]
      BY <3>1, <3>2
    <3> QED
      BY <3>1, <3>3, Listed
  <2> QED
    BY <1>4, <2>6 DEF Test, stairs, down, o
<1>5. CASE request.mode = "triangle"
  <2>1. Len(o) = 1 /\ o[1] \in Int /\ o[1] \in ToSet(o)
    <3>1. Len(o) = 1
      BY <1>1, <1>5
    <3>2. \A i \in 1 .. Len(o) : o[i] \in Int /\ o[i] \in ToSet(o)
      BY <1>1, Entries
    <3> QED
      BY <3>1, <3>2
  <2>2. Valid(anchor, o[1]) /\ Valid(anchor, -o[1])
    BY <1>5, <2>1 DEF Planned, o
  <2>3. Triangle(o[1]) \in Further
    BY <2>1, <2>2 DEF Further, Fitting, Segment, Fits, Triangle
  <2> QED
    BY <1>5, <2>3 DEF Test, o
<1>6. CASE request.mode = "hold_under_load"
  <2>1. Len(o) = 1 /\ o[1] \in Int
    <3>1. Len(o) = 1
      BY <1>1, <1>6
    <3>2. \A i \in 1 .. Len(o) : o[i] \in Int
      BY <1>1, Entries
    <3> QED
      BY <3>1, <3>2
  <2>2. HoldAt("anchor", o[1], FALSE) \in Further /\ HoldAt("anchor", o[1], TRUE) \in Further
    BY <1>2, <2>1
  <2>3. <<HoldAt("anchor", o[1], FALSE), HoldAt("anchor", o[1], FALSE),
          HoldAt("anchor", o[1], TRUE)>> \in S
    BY <2>2, Three
  <2> QED
    BY <1>6, <2>3 DEF Test, o
<1> QED
  BY <1>1, <1>3, <1>4, <1>5, <1>6

\* A plan begins with the countdown and ends with the way back and the anchor held.
LEMMA PlanIsFramed ==
  ASSUME IdentificationAssumption, anchor \in Int, request \in Requests,
         ArgumentsOK(request), Planned(anchor, request)
  PROVE  Framed(Plan(request), Countdown, HoldAt("anchor", 0, FALSE),
                Test(request), MoveTo("anchor"), HoldAt("anchor", 0, FALSE),
                Further, Fitting(anchor, request))
<1>1. Test(request) \in Seq(Further)
  BY TestFits
<1>2. /\ Countdown \in Fitting(anchor, request) /\ HoldAt("anchor", 0, FALSE) \in Further
      /\ MoveTo("anchor") \in Further /\ Further \subseteq Fitting(anchor, request)
  BY DEF Further, Fitting, Segment, Fits, HoldAt, MoveTo, Countdown
<1> QED
  BY <1>1, <1>2, Framing DEF Plan

\* How far the way back is, by the segments that are left.
LEMMA HowFar ==
  ASSUME NEW n \in Nat, NEW l
  PROVE  /\ n = 0 => WayBack(n, l) = Move + Hold
         /\ n = 1 => WayBack(n, l) = Move + Hold - l
         /\ n = 2 => WayBack(n, l) = Move - l
         /\ n > 2 => WayBack(n, l) = 0
         /\ n \in {0, 1, 2} \/ n > 2
<1> USE DEF WayBack
<1>1. /\ n = 0 => WayBack(n, l) = Move + Hold
      /\ n = 1 => WayBack(n, l) = Move + Hold - l
      /\ n = 2 => WayBack(n, l) = Move - l
  OBVIOUS
<1>2. n > 2 => WayBack(n, l) = 0
  <2>1. n > 2 => n # 0 /\ n # 1 /\ n # 2
    OBVIOUS
  <2> QED
    BY <2>1
<1>3. n \in {0, 1, 2} \/ n > 2
  OBVIOUS
<1> QED
  BY <1>1, <1>2, <1>3

\* Where the plan is once the last two segments have begun.
LEMMA WayBackBegun ==
  ASSUME IdentificationAssumption, PlanFits, at = "run"
  PROVE  /\ Hold \in Nat \ {0} /\ Move \in Nat \ {0}
         /\ Len(plan) \in Nat /\ (plan = <<>> <=> Len(plan) = 0)
         /\ \A i \in 1 .. Len(plan) : plan[i] \in Fitting(anchor, request)
         /\ Len(plan) = 1 => plan[1] = HoldAt("anchor", 0, FALSE) /\ left \in 1 .. Hold
         /\ Len(plan) = 2 => plan[1] = MoveTo("anchor") /\ left \in 1 .. Move
         /\ Len(plan) > 0 => left \in Nat
         /\ Elapsed \in Nat
<1>1. Hold \in Nat \ {0} /\ Move \in Nat \ {0}
  BY DEF IdentificationAssumption
<1>2. plan \in Seq(Fitting(anchor, request))
  BY DEF PlanFits
<1>3. /\ Len(plan) \in Nat /\ (plan = <<>> <=> Len(plan) = 0)
      /\ \A i \in 1 .. Len(plan) : plan[i] \in Fitting(anchor, request)
  BY <1>2
<1>4. /\ plan # <<>> => /\ left \in 1 .. (IF plan[1].kind = "move" THEN Move ELSE Hold)
                       /\ plan[Len(plan)] = HoldAt("anchor", 0, FALSE)
      /\ Len(plan) > 1 => plan[Len(plan) - 1] = MoveTo("anchor")
  BY DEF PlanFits, Current
<1>5. Len(plan) = 1 => plan[1] = HoldAt("anchor", 0, FALSE) /\ left \in 1 .. Hold
  BY <1>3, <1>4 DEF HoldAt
<1>6. Len(plan) = 2 => plan[1] = MoveTo("anchor") /\ left \in 1 .. Move
  <2>1. Len(plan) = 2 => Len(plan) - 1 = 1 /\ plan # <<>>
    BY <1>3
  <2> QED
    BY <1>4, <2>1 DEF MoveTo
<1>7. Len(plan) > 0 => left \in Nat
  <2>1. (IF plan[1].kind = "move" THEN Move ELSE Hold) \in Nat
    BY <1>1
  <2>2. plan # <<>> => left \in Nat
    BY <1>4, <2>1
  <2>3. Len(plan) > 0 => Len(plan) # 0
    BY <1>3
  <2> QED
    BY <1>3, <2>2, <2>3
<1>8. Elapsed \in Nat
  <2>1. Len(plan) = 1 => Move + Hold - left \in Nat
    BY <1>1, <1>5
  <2>2. Len(plan) = 2 => Move - left \in Nat
    BY <1>1, <1>6
  <2>3. Move + Hold \in Nat /\ 0 \in Nat
    BY <1>1
  <2>4. Len(plan) \in {0, 1, 2} \/ Len(plan) > 2
    BY <1>3, HowFar, Zenon
  <2> QED
    BY <1>3, <2>1, <2>2, <2>3, <2>4, HowFar DEF Elapsed
<1> QED
  BY <1>1, <1>3, <1>5, <1>6, <1>7, <1>8

\* What a tick does to the plan: it goes on, or the segment ends, and with it the plan.
NextSegment ==
  \/ left > 1 /\ left' = left - 1 /\ plan' = plan /\ from' = from /\ goal' = goal
  \/ left = 1 /\ Len(plan) = 1 /\ plan' = <<>> /\ left' = 0
  \/ /\ left = 1 /\ Len(plan) > 1 /\ plan' = Tail(plan)
     /\ left' = IF plan[2].kind = "move" THEN Move ELSE Hold
     /\ from' = ref'
     /\ \E base \in Bases(plan[2]) :
          /\ plan[2].kind # "hold" \/ Valid(base, plan[2].offset)
          /\ goal' = IF plan[2].base = "none" THEN ref ELSE base + plan[2].offset

LEMMA TickSegments ==
  ASSUME IdentificationAssumption, PlanFits, TelemetryTypes, TestTick,
         at' = "run"
  PROVE  /\ at = "run" /\ Len(plan) > 0 /\ NextSegment
         /\ due' \in 0 .. GuardEvery - 1 /\ (due # 0 => due' <= due - 1)
<1>1. at = "run" /\ left > 0
  BY DEF TestTick
<1>2. Len(plan) \in Nat /\ (plan = <<>> <=> Len(plan) = 0) /\ (Len(plan) > 0 => left \in Nat)
  BY <1>1, WayBackBegun
<1>3. Len(plan) > 0 /\ left \in Nat
  BY <1>1, <1>2 DEF PlanFits
<1>4. GuardEvery \in Nat \ {0} /\ due \in 0 .. GuardEvery - 1
  BY DEF IdentificationAssumption, TelemetryTypes
<1>5. CASE left > 1
  <2>1. left' = left - 1 /\ plan' = plan /\ from' = from /\ goal' = goal
        /\ due' = IF due = 0 THEN GuardEvery - 1 ELSE due - 1
    BY <1>5 DEF TestTick
  <2> QED
    BY <1>1, <1>3, <1>4, <1>5, <2>1 DEF NextSegment
<1>6. CASE ~(left > 1)
  <2>1. left = 1 /\ EndSegment
    BY <1>1, <1>3, <1>6 DEF TestTick
  <2>2. CASE Len(plan) = 1
    <3>1. plan' = <<>> /\ left' = 0 /\ due' = 0
      BY <2>1, <2>2 DEF EndSegment
    <3> QED
      BY <1>1, <1>3, <1>4, <2>1, <2>2, <3>1 DEF NextSegment
  <2>3. CASE Len(plan) # 1
    <3>1. Len(plan) > 1
      <4>1. \A n \in Nat : n > 0 /\ n # 1 => n > 1
        OBVIOUS
      <4> QED
        BY <1>2, <1>3, <2>3, <4>1, Zenon
    <3>2. plan \in Seq(Fitting(anchor, request)) /\ plan # <<>>
      BY <1>1, <1>2, <1>3 DEF PlanFits
    <3>3. Tail(plan)[1] = plan[2]
      BY <3>1, <3>2
    <3>4. PICK base \in Bases(plan[2]) :
            /\ plan[2].kind # "hold" \/ Valid(base, plan[2].offset)
            /\ BeginSegment(Tail(plan), base)
      BY <1>1, <2>1, <2>3 DEF EndSegment
    <3>5. /\ plan' = Tail(plan) /\ due' = 0 /\ from' = ref'
          /\ left' = IF plan[2].kind = "move" THEN Move ELSE Hold
          /\ goal' = IF plan[2].base = "none" THEN ref ELSE base + plan[2].offset
      BY <3>3, <3>4 DEF BeginSegment
    <3>6. NextSegment
      BY <2>1, <3>1, <3>4, <3>5 DEF NextSegment
    <3> QED
      BY <1>1, <1>3, <1>4, <3>5, <3>6
  <2> QED
    BY <2>2, <2>3
<1> QED
  BY <1>5, <1>6

\* The rest of a plan still ends the same way.
LEMMA RestOfPlan ==
  ASSUME NEW S, NEW s \in Seq(S), Len(s) > 1
  PROVE  /\ Tail(s) \in Seq(S) /\ Len(Tail(s)) = Len(s) - 1 /\ Tail(s) # <<>>
         /\ \A i \in 1 .. Len(s) - 1 : Tail(s)[i] = s[i + 1]
<1>1. s # <<>> /\ Len(s) \in Nat
  OBVIOUS
<1>2. /\ Tail(s) \in Seq(S) /\ Len(Tail(s)) = Len(s) - 1
      /\ \A i \in 1 .. Len(s) - 1 : Tail(s)[i] = s[i + 1]
  BY <1>1
<1>3. Tail(s) # <<>>
  <2>1. Len(Tail(s)) # 0
    BY <1>1, <1>2
  <2>2. Len(<<>>) = 0
    OBVIOUS
  <2> QED
    BY <2>1, <2>2, Zenon
<1> QED
  BY <1>2, <1>3

\* A tick keeps what is said of the plan.
LEMMA TickPlan ==
  ASSUME IdentificationAssumption, PlanFits, TelemetryTypes, TestTick
  PROVE  PlanFits'
<1> SUFFICES ASSUME at' = "run" PROVE PlanFits'
  BY DEF PlanFits
<1>1. at = "run" /\ Len(plan) > 0 /\ NextSegment
  BY TickSegments
<1>2. /\ Hold \in Nat \ {0} /\ Move \in Nat \ {0} /\ Len(plan) \in Nat /\ left \in Nat
      /\ plan # <<>>
  <2>1. /\ Hold \in Nat \ {0} /\ Move \in Nat \ {0} /\ Len(plan) \in Nat
        /\ (plan = <<>> <=> Len(plan) = 0) /\ (Len(plan) > 0 => left \in Nat)
    BY <1>1, WayBackBegun
  <2>2. Len(plan) # 0
    BY <1>1, <2>1
  <2> QED
    BY <1>1, <2>1, <2>2
<1>3. /\ plan \in Seq(Fitting(anchor, request))
      /\ \A i \in 2 .. Len(plan) : plan[i].kind # "countdown"
      /\ left \in 1 .. (IF plan[1].kind = "move" THEN Move ELSE Hold)
      /\ plan[Len(plan)] = HoldAt("anchor", 0, FALSE)
      /\ plan[1].kind = "countdown" => Len(plan) > 1 /\ plan[2] = HoldAt("anchor", 0, FALSE)
      /\ Len(plan) > 1 => plan[Len(plan) - 1] = MoveTo("anchor")
  BY <1>1, <1>2 DEF PlanFits, Current
<1>4. anchor' = anchor /\ request' = request
  BY DEF TestTick
<1>5. CASE left > 1 /\ left' = left - 1 /\ plan' = plan
  <2>1. left' \in 1 .. (IF plan[1].kind = "move" THEN Move ELSE Hold)
    BY <1>2, <1>3, <1>5
  <2> QED
    BY <1>2, <1>3, <1>4, <1>5, <2>1 DEF PlanFits, Current
<1>6. CASE plan' = <<>> /\ left' = 0
  BY <1>6 DEF PlanFits, Current
<1>7. CASE /\ Len(plan) > 1 /\ plan' = Tail(plan)
           /\ left' = IF plan[2].kind = "move" THEN Move ELSE Hold
  <2>1. /\ plan' \in Seq(Fitting(anchor, request)) /\ Len(plan') = Len(plan) - 1
        /\ plan' # <<>> /\ \A i \in 1 .. Len(plan) - 1 : plan'[i] = plan[i + 1]
    BY <1>3, <1>7, RestOfPlan
  <2>2. /\ plan'[1] = plan[2] /\ plan'[Len(plan')] = plan[Len(plan)]
        /\ Len(plan') > 1 => plan'[Len(plan') - 1] = plan[Len(plan) - 1]
    BY <1>2, <1>7, <2>1
  <2>3. ASSUME NEW i \in 1 .. Len(plan') PROVE plan'[i].kind # "countdown"
    <3>1. i + 1 \in 2 .. Len(plan) /\ plan'[i] = plan[i + 1]
      BY <1>2, <1>7, <2>1
    <3> QED
      BY <1>3, <3>1
  <2>4. left' \in 1 .. (IF plan'[1].kind = "move" THEN Move ELSE Hold)
    BY <1>2, <1>7, <2>2
  <2>5. plan'[1].kind # "countdown"
    <3>1. 1 \in 1 .. Len(plan')
      BY <1>2, <1>7, <2>1
    <3> QED
      BY <2>3, <3>1
  <2>6. \A i \in 2 .. Len(plan') : plan'[i].kind # "countdown"
    BY <2>3
  <2>7. plan'[Len(plan')] = HoldAt("anchor", 0, FALSE)
        /\ (Len(plan') > 1 => plan'[Len(plan') - 1] = MoveTo("anchor"))
    BY <1>3, <1>7, <2>2
  <2> QED
    BY <1>4, <2>1, <2>4, <2>5, <2>6, <2>7 DEF PlanFits, Current
<1> QED
  BY <1>1, <1>5, <1>6, <1>7 DEF NextSegment

\* A swing by x to one side, to the other, or not at all.
LEMMA Swing ==
  ASSUME NEW a \in Int, NEW x \in Int, NEW s \in {-1, 0, 1}
  PROVE  a + s * x \in {a + x, a + (-x), a}
<1>1. s = -1 \/ s = 0 \/ s = 1
  OBVIOUS
<1>2. -1 * x = -x /\ 0 * x = 0 /\ 1 * x = x
  OBVIOUS
<1> QED
  BY <1>1, <1>2

\* A tick sends the joint nowhere it may not be sent, and sets no such goal.
LEMMA TickSends ==
  ASSUME IdentificationAssumption, PlanFits, TelemetryTypes, RefsFit,
         TestTick, anchor \in Int, request.centre \in Int
  PROVE  RefsFit' /\ (ref' = NoReference \/ Sent(anchor, ref'))
<1>1. /\ Hold \in Nat \ {0} /\ Move \in Nat \ {0} /\ Low \in Int /\ High \in Int /\ Margin \in Int
      /\ Sag \in Nat /\ GuardEvery \in Nat \ {0}
  BY DEF IdentificationAssumption
<1>2. at = "run" /\ left > 0 /\ PublishSegment /\ anchor' = anchor /\ request' = request
  BY DEF TestTick
<1>3. Len(plan) > 0 /\ plan # <<>> /\ left \in Nat /\ Len(plan) \in Nat
      /\ \A i \in 1 .. Len(plan) : plan[i] \in Fitting(anchor, request)
  <2>1. /\ Len(plan) \in Nat /\ (plan = <<>> <=> Len(plan) = 0) /\ (Len(plan) > 0 => left \in Nat)
        /\ \A i \in 1 .. Len(plan) : plan[i] \in Fitting(anchor, request)
    BY <1>2, WayBackBegun
  <2>2. plan # <<>>
    BY <1>2 DEF PlanFits
  <2>3. Len(plan) > 0
    <3>1. Len(plan) # 0 /\ Len(plan) \in Nat
      BY <2>1, <2>2
    <3> QED
      BY <3>1
  <2> QED
    BY <2>1, <2>2, <2>3
<1>4. /\ plan[1] \in Segment /\ Fits(anchor, request, plan[1])
      /\ left \in 1 .. (IF plan[1].kind = "move" THEN Move ELSE Hold)
      /\ plan[1].kind = "countdown" => Len(plan) > 1 /\ plan[2] = HoldAt("anchor", 0, FALSE)
  <2>1. 1 \in 1 .. Len(plan)
    BY <1>3
  <2>2. plan[1] \in Segment /\ Fits(anchor, request, plan[1])
    BY <1>3, <2>1 DEF Fitting
  <2>3. /\ left \in 1 .. (IF plan[1].kind = "move" THEN Move ELSE Hold)
        /\ plan[1].kind = "countdown" => Len(plan) > 1 /\ plan[2] = HoldAt("anchor", 0, FALSE)
    BY <1>2, <1>3 DEF PlanFits, Current
  <2> QED
    BY <2>2, <2>3
<1>5. /\ ref = NoReference \/ Sent(anchor, ref)
      /\ plan[1].kind = "hold" => Sent(anchor, goal)
      /\ plan[1].kind = "move" => Sent(anchor, from) /\ Sent(anchor, goal)
  BY <1>2, <1>3 DEF RefsFit, Current
<1>6. ASSUME NEW x \in Int, Valid(anchor, x) PROVE Sent(anchor, anchor + x)
  BY <1>6 DEF Valid, Sent, Sendable
<1>7. plan[1].kind \in {"countdown", "hold", "move", "triangle"} /\ plan[1].offset \in Int
  BY <1>4 DEF Segment
<1>8. plan[1].kind # "countdown" => Sent(anchor, ref')
  <2>1. CASE plan[1].kind = "hold"
    BY <1>2, <1>5, <2>1 DEF PublishSegment, Current
  <2>2. CASE plan[1].kind = "move"
    <3>1. Move - left + 1 \in 1 .. Move
      BY <1>1, <1>4, <2>2
    <3>2. ref' = from + ((goal - from) * Smooth(Move - left + 1, Move))
                          \div (Move * Move * Move)
      BY <1>2, <2>2 DEF PublishSegment, Current
    <3> QED
      BY <1>5, <2>2, <3>1, <3>2, MoveIsSent
  <2>3. CASE plan[1].kind = "triangle"
    <3> DEFINE step == <<-1, 0, 1, 0>>[((Hold - left) % 4) + 1]
    <3>1. ref' = anchor + step * plan[1].offset
      BY <1>2, <2>3 DEF PublishSegment, Current
    <3>2. step \in {-1, 0, 1}
      <4>1. ((Hold - left) % 4) + 1 \in {1, 2, 3, 4}
        BY <1>1, <1>3
      <4>2. \A i \in {1, 2, 3, 4} : <<-1, 0, 1, 0>>[i] \in {-1, 0, 1}
        BY SMTT(30)
      <4> QED
        BY <4>1, <4>2
    <3>3. Valid(anchor, plan[1].offset) /\ Valid(anchor, -plan[1].offset)
      BY <1>4, <2>3 DEF Fits
    <3>4. /\ Sent(anchor, anchor + plan[1].offset)
          /\ Sent(anchor, anchor + (-plan[1].offset))
          /\ Sent(anchor, anchor)
      <4>1. plan[1].offset \in Int /\ -plan[1].offset \in Int
        BY <1>7
      <4>2. Sent(anchor, anchor)
        BY DEF Sent, Sendable
      <4> QED
        BY <1>6, <3>3, <4>1, <4>2
    <3> HIDE DEF step
    <3>5. \/ ref' = anchor + plan[1].offset \/ ref' = anchor + (-plan[1].offset)
          \/ ref' = anchor
      <4>1. plan[1].offset \in Int /\ step \in {-1, 0, 1} /\ anchor \in Int
        BY <1>7, <3>2
      <4>2. anchor + step * plan[1].offset
              \in {anchor + plan[1].offset, anchor + (-plan[1].offset), anchor}
        BY <4>1, Swing, Zenon
      <4> QED
        BY <3>1, <4>2, Zenon
    <3> QED
      BY <3>4, <3>5
  <2> QED
    BY <1>7, <2>1, <2>2, <2>3
<1>9. ref' = NoReference \/ Sent(anchor, ref')
  <2>1. CASE plan[1].kind = "countdown"
    BY <1>2, <1>5, <2>1 DEF PublishSegment, Current
  <2> QED
    BY <1>8, <2>1
<1>10. ASSUME at' = "run", plan' # <<>>
       PROVE  /\ plan'[1].kind = "hold" => Sent(anchor, goal')
              /\ plan'[1].kind = "move" => Sent(anchor, from') /\ Sent(anchor, goal')
  <2>1. NextSegment
    BY <1>10, TickSegments
  <2>2. CASE plan' = plan /\ from' = from /\ goal' = goal
    BY <1>5, <2>2
  <2>3. CASE /\ Len(plan) > 1 /\ plan' = Tail(plan) /\ from' = ref'
             /\ \E base \in Bases(plan[2]) :
                  /\ plan[2].kind # "hold" \/ Valid(base, plan[2].offset)
                  /\ goal' = IF plan[2].base = "none" THEN ref ELSE base + plan[2].offset
    <3>1. plan'[1] = plan[2]
      <4>1. plan \in Seq(Fitting(anchor, request))
        BY <1>2 DEF PlanFits
      <4> QED
        BY <1>3, <2>3, <4>1, RestOfPlan
    <3>2. plan[2] \in Segment /\ Fits(anchor, request, plan[2])
      BY <1>3, <2>3 DEF Fitting
    <3>3. plan[2].offset \in Int /\ plan[2].base \in {"anchor", "centre", "local", "none"}
      BY <3>2 DEF Segment
    <3>4. PICK base \in Bases(plan[2]) :
            /\ plan[2].kind # "hold" \/ Valid(base, plan[2].offset)
            /\ goal' = IF plan[2].base = "none" THEN ref ELSE base + plan[2].offset
      BY <2>3
    <3>5. plan[2].base = "anchor" => base = anchor
      BY <3>4 DEF Bases
    <3>6. plan[2].base = "centre" => base = anchor + request.centre /\ Sent(anchor, base)
      <4>1. plan[2].base = "centre" => Valid(anchor, request.centre)
        BY <3>2 DEF Fits
      <4>2. plan[2].base = "centre" => base = anchor + request.centre
        BY <3>4 DEF Bases, Centre
      <4> QED
        BY <1>6, <4>1, <4>2
    <3>7. ASSUME plan[2].kind = "hold" PROVE Sent(anchor, goal')
      <4>1. /\ plan[2].base # "none" /\ goal' = base + plan[2].offset
            /\ Valid(base, plan[2].offset)
            /\ plan[2].base = "centre" => plan[2].offset = 0
            /\ plan[2].base = "local" => plan[2].offset # 0
        BY <3>2, <3>4, <3>7 DEF Fits
      <4>2. CASE plan[2].base = "anchor"
        BY <1>6, <3>3, <3>5, <4>1, <4>2
      <4>3. CASE plan[2].base = "centre"
        <5>1. goal' = base
          BY <3>6, <4>1, <4>3 DEF Sent
        <5> QED
          BY <3>6, <4>3, <5>1
      <4>4. CASE plan[2].base = "local"
        <5>1. plan[1].kind # "countdown"
          BY <1>4, <4>4 DEF HoldAt
        <5>2. ref' \in Int
          BY <1>8, <5>1 DEF Sent
        <5>3. base \in Int
          BY <1>1, <3>4, <4>4, <5>2 DEF Bases, Measured
        <5>4. WithinLimits(base + plan[2].offset)
          BY <4>1, <4>4 DEF Valid
        <5> QED
          BY <3>3, <4>1, <5>3, <5>4 DEF Sent, Sendable
      <4> QED
        BY <3>3, <4>1, <4>2, <4>3, <4>4
    <3>8. ASSUME plan[2].kind = "move"
          PROVE  Sent(anchor, from') /\ Sent(anchor, goal')
      <4>1. plan[2].base \in {"anchor", "centre"} /\ plan[2].offset = 0
        BY <3>2, <3>8 DEF Fits
      <4>2. plan[1].kind # "countdown"
        BY <1>4, <3>8 DEF HoldAt
      <4>3. Sent(anchor, from')
        BY <1>8, <2>3, <4>2
      <4>4. Sent(anchor, base)
        BY <3>5, <3>6, <4>1 DEF Sent, Sendable
      <4>5. goal' = base
        BY <3>4, <4>1, <4>4 DEF Sent
      <4> QED
        BY <4>3, <4>4, <4>5
    <3> QED
      BY <3>1, <3>7, <3>8
  <2> QED
    BY <1>10, <2>1, <2>2, <2>3 DEF NextSegment
<1> QED
  <2>1. RefsFit'
    BY <1>2, <1>9, <1>10 DEF RefsFit, Current
  <2> QED
    BY <1>9, <2>1

\* A tick takes the way back one tick further at most, and nothing is tried on it.
LEMMA TickOnTheWay ==
  ASSUME IdentificationAssumption, PlanFits, TelemetryTypes, TestTick,
         at' = "run"
  PROVE  /\ Elapsed \in Nat /\ Elapsed' \in Nat /\ Elapsed' <= Elapsed + 1
         /\ Elapsed' # 0 => ~Current.trial
<1>1. at = "run" /\ Len(plan) > 0 /\ NextSegment
  BY TickSegments
<1>2. PlanFits'
  BY TickPlan
<1>3. /\ Hold \in Nat \ {0} /\ Move \in Nat \ {0} /\ Len(plan) \in Nat
      /\ (plan = <<>> <=> Len(plan) = 0)
      /\ Len(plan) = 1 => plan[1] = HoldAt("anchor", 0, FALSE) /\ left \in 1 .. Hold
      /\ Len(plan) = 2 => plan[1] = MoveTo("anchor") /\ left \in 1 .. Move
      /\ left \in Nat
  BY <1>1, WayBackBegun
<1>8. plan # <<>> /\ Elapsed = WayBack(Len(plan), left)
      /\ Elapsed' = WayBack(Len(plan'), left')
  <2>1. Len(plan) # 0
    BY <1>1
  <2> QED
    BY <1>3, <2>1 DEF Elapsed
<1>9. Len(<<>>) = 0
  OBVIOUS
<1>4. plan \in Seq(Fitting(anchor, request))
  BY <1>1 DEF PlanFits
<1>5. CASE Len(plan) = 1
  <2>1. plan[1] = HoldAt("anchor", 0, FALSE) /\ left \in 1 .. Hold
    BY <1>3, <1>5
  <2>2. Elapsed = Move + Hold - left /\ ~Current.trial
    BY <1>3, <1>5, <1>8, <2>1, HowFar DEF Current, HoldAt
  <2>3. \/ left > 1 /\ Elapsed' = Move + Hold - (left - 1)
        \/ left = 1 /\ Elapsed' = Move + Hold
    <3>1. CASE left > 1 /\ left' = left - 1 /\ plan' = plan
      BY <1>3, <1>5, <1>8, <3>1, HowFar
    <3>2. CASE left = 1 /\ plan' = <<>>
      <4>1. Len(plan') = 0
        BY <1>9, <3>2
      <4> QED
        BY <1>8, <3>2, <4>1, HowFar
    <3> QED
      BY <1>1, <1>5, <3>1, <3>2 DEF NextSegment
  <2> QED
    BY <1>3, <2>1, <2>2, <2>3
<1>6. CASE Len(plan) = 2
  <2>1. plan[1] = MoveTo("anchor") /\ left \in 1 .. Move
    BY <1>3, <1>6
  <2>2. Elapsed = Move - left /\ ~Current.trial
    BY <1>3, <1>6, <1>8, <2>1, HowFar DEF Current, MoveTo
  <2>3. \/ left > 1 /\ Elapsed' = Move - (left - 1)
        \/ left = 1 /\ Elapsed' = Move + Hold - Hold
    <3>1. CASE left > 1 /\ left' = left - 1 /\ plan' = plan
      BY <1>3, <1>6, <1>8, <3>1, HowFar
    <3>2. CASE /\ left = 1 /\ Len(plan) > 1 /\ plan' = Tail(plan)
               /\ left' = IF plan[2].kind = "move" THEN Move ELSE Hold
      <4>1. Len(plan') = 1
        <5>1. Len(plan') = Len(plan) - 1
          BY <1>4, <3>2, RestOfPlan
        <5> QED
          BY <1>6, <5>1
      <4>2. plan[2] = HoldAt("anchor", 0, FALSE)
        <5>1. plan[Len(plan)] = HoldAt("anchor", 0, FALSE)
          BY <1>1, <1>8 DEF PlanFits
        <5> QED
          BY <1>6, <5>1
      <4>3. left' = Hold
        BY <3>2, <4>2 DEF HoldAt
      <4>4. WayBack(1, Hold) = Move + Hold - Hold
        BY HowFar
      <4> QED
        BY <1>8, <3>2, <4>1, <4>3, <4>4
    <3> QED
      BY <1>1, <1>6, <3>1, <3>2 DEF NextSegment
  <2> QED
    BY <1>3, <2>1, <2>2, <2>3
<1>7. CASE Len(plan) > 2
  <2>1. Elapsed = 0
    BY <1>3, <1>7, <1>8, HowFar
  <2>2. Elapsed' = 0
    <3>1. CASE plan' = plan
      BY <1>3, <1>7, <1>8, <3>1, HowFar
    <3>2. CASE /\ left = 1 /\ Len(plan) > 1 /\ plan' = Tail(plan)
               /\ left' = IF plan[2].kind = "move" THEN Move ELSE Hold
      <4>1. Len(plan') = Len(plan) - 1
        BY <1>4, <3>2, RestOfPlan
      <4>2. CASE Len(plan) = 3
        <5>1. plan[2] = MoveTo("anchor")
          <6>1. Len(plan) > 1 => plan[Len(plan) - 1] = MoveTo("anchor")
            BY <1>1 DEF PlanFits
          <6>2. Len(plan) - 1 = 2
            BY <4>2
          <6> QED
            BY <3>2, <6>1, <6>2
        <5>2. left' = Move /\ Len(plan') = 2
          BY <3>2, <4>1, <4>2, <5>1 DEF MoveTo
        <5> QED
          <6>1. WayBack(2, Move) = Move - Move
            BY HowFar
          <6>2. Move - Move = 0
            BY <1>3
          <6> QED
            BY <1>8, <5>2, <6>1, <6>2
      <4>3. CASE Len(plan) > 3
        <5>1. Len(plan') > 2 /\ Len(plan') \in Nat
          <6>1. \A n \in Nat : n > 3 => n - 1 > 2 /\ n - 1 \in Nat
            OBVIOUS
          <6> QED
            BY <1>3, <4>1, <4>3, <6>1, Zenon
        <5> QED
          BY <1>8, <5>1, HowFar
      <4>4. \A n \in Nat : n > 2 => n = 3 \/ n > 3
        OBVIOUS
      <4> QED
        BY <1>3, <1>7, <4>2, <4>3, <4>4, Zenon
    <3>3. Len(plan) # 1
      <4>1. \A n \in Nat : n > 2 => n # 1
        OBVIOUS
      <4> QED
        BY <1>3, <1>7, <4>1, Zenon
    <3> QED
      BY <1>1, <3>1, <3>2, <3>3 DEF NextSegment
  <2> QED
    BY <2>1, <2>2
<1> QED
  <2>1. \A n \in Nat : n > 0 => n = 1 \/ n = 2 \/ n > 2
    OBVIOUS
  <2> QED
    BY <1>1, <1>3, <1>5, <1>6, <1>7, <2>1, Zenon

\* A tick keeps the types of the telemetry and the account of a drop.
LEMMA TickTracksLoss ==
  ASSUME IdentificationAssumption, PlanFits, TelemetryTypes,
         LossIsTracked, TestTick
  PROVE  /\ transit' \in Seq(BOOLEAN) /\ Len(transit') <= Delay
         /\ {known', dropped', spoilt'} \subseteq BOOLEAN /\ age' \in 0 .. Stale + 1
         /\ LossIsTracked'
<1>1. GuardEvery \in Nat \ {0} /\ Delay \in Nat /\ Stale \in Nat
  BY DEF IdentificationAssumption
<1>2. /\ transit \in Seq(BOOLEAN) /\ Len(transit) <= Delay
      /\ known \in BOOLEAN /\ dropped \in BOOLEAN /\ spoilt \in BOOLEAN
      /\ age \in 0 .. Stale + 1 /\ due \in 0 .. GuardEvery - 1
  BY DEF TelemetryTypes
<1>3. at = "run" /\ (due = 0 => ~known /\ age <= Stale)
  BY DEF TestTick, GuardPasses
<1>4. PICK drop \in BOOLEAN :
        /\ dropped' = (dropped \/ drop)
        /\ spoilt' = (spoilt \/ (drop /\ Current.trial))
        /\ LET flow == Append(transit, dropped')
           IN  \E n \in 0 .. Len(flow) :
                 /\ Len(flow) - n <= Delay
                 /\ transit' = SubSeq(flow, n + 1, Len(flow))
                 /\ \E newest \in 0 .. n :
                      IF newest = 0
                      THEN UNCHANGED known /\ age' = IF age > Stale THEN age ELSE age + 1
                      ELSE known' = flow[newest] /\ age' = 0
  BY DEF TestTick, ReceiveTelemetry
<1> DEFINE flow == Append(transit, dropped')
<1>5. PICK n \in 0 .. Len(flow) :
        /\ Len(flow) - n <= Delay
        /\ transit' = SubSeq(flow, n + 1, Len(flow))
        /\ \E newest \in 0 .. n :
             IF newest = 0
             THEN known' = known /\ age' = IF age > Stale THEN age ELSE age + 1
             ELSE known' = flow[newest] /\ age' = 0
  BY <1>4
<1>6. dropped' \in BOOLEAN /\ spoilt' \in BOOLEAN
      /\ (spoilt /\ dropped => dropped') /\ (dropped /\ ~Current.trial => spoilt' = spoilt)
  BY <1>2, <1>4
<1>7. Len(transit) \in Nat /\ Len(flow) = Len(transit) + 1
  BY <1>2
<1>8. FlowFacts(transit, flow, transit', n, dropped')
  <2>1. n \in 0 .. Len(transit) + 1
    BY <1>5, <1>7
  <2>2. transit \in Seq(Range(transit))
    BY <1>2, InRange
  <2> QED
    BY <1>5, <2>1, <2>2, FlowOn
<1>9. \A i \in 1 .. Len(flow) : flow[i] \in BOOLEAN
  <2>1. transit \in Seq(BOOLEAN) /\ dropped' \in BOOLEAN
    BY <1>2, <1>6
  <2>2. flow \in Seq(BOOLEAN)
    BY <2>1
  <2> HIDE DEF flow
  <2> QED
    BY <2>2, Entries
<1> HIDE DEF flow
<1>10. /\ \A i \in 1 .. Len(transit) : flow[i] = transit[i]
       /\ flow[Len(transit) + 1] = dropped'
       /\ transit' \in Seq(Range(transit')) /\ Len(transit') = Len(flow) - n
       /\ DOMAIN transit = 1 .. Len(transit) /\ DOMAIN transit' = 1 .. Len(transit')
       /\ \A i \in 1 .. Len(transit') : transit'[i] = flow[n + i]
  BY <1>8 DEF FlowFacts
<1>11. n \in Nat /\ Len(flow) \in Nat /\ n <= Len(flow) /\ Len(transit') = Len(transit) + 1 - n
       /\ \A i \in 1 .. Len(transit') : n + i \in 1 .. Len(flow)
  BY <1>5, <1>7, <1>10
<1>12. transit' \in Seq(BOOLEAN) /\ Len(transit') <= Delay
  <2>1. \A i \in 1 .. Len(transit') : transit'[i] \in BOOLEAN
    BY <1>9, <1>10, <1>11
  <2>2. Len(transit') <= Delay
    BY <1>5, <1>10
  <2> QED
    BY <1>10, <2>1, <2>2, SMTT(30)
<1>13. \/ known' = known /\ age' = IF age > Stale THEN age ELSE age + 1
       \/ \E newest \in 1 .. n : known' = flow[newest] /\ age' = 0
  BY <1>5, <1>11
<1>14. known' \in BOOLEAN /\ age' \in 0 .. Stale + 1
  <2>1. CASE known' = known /\ age' = IF age > Stale THEN age ELSE age + 1
    BY <1>1, <1>2, <2>1
  <2>2. CASE \E newest \in 1 .. n : known' = flow[newest] /\ age' = 0
    <3>1. PICK newest \in 1 .. n : known' = flow[newest] /\ age' = 0
      BY <2>2
    <3>2. newest \in 1 .. Len(flow)
      BY <1>11
    <3> QED
      BY <1>1, <1>9, <3>1, <3>2
  <2> QED
    BY <1>13, <2>1, <2>2
<1>15. ASSUME at' = "run", spoilt' PROVE LossIsTracked'
  <2>1. /\ Elapsed \in Nat /\ Elapsed' \in Nat
        /\ Elapsed' <= Elapsed + 1
        /\ Elapsed' # 0 => ~Current.trial
    BY <1>15, TickOnTheWay
  <2>2. due' \in 0 .. GuardEvery - 1 /\ (due # 0 => due' <= due - 1)
    BY <1>15, TickSegments
  <2>3. spoilt => /\ dropped
                  /\ \A i \in DOMAIN transit : i > Len(transit) - Elapsed => transit[i]
                  /\ ~known /\ age <= Stale => Elapsed <= age + Delay
                  /\ ~known /\ age > Stale => Elapsed <= Stale + Delay + (GuardEvery - due)
                  /\ known => Elapsed <= Stale + Delay + (GuardEvery - due)
    BY <1>3 DEF LossIsTracked
  <2>4. dropped'
    BY <1>2, <1>4, <1>15, <2>3
  <2>5. CASE Elapsed' = 0
    <3>1. \A i \in DOMAIN transit' : ~(i > Len(transit') - Elapsed')
      <4>1. DOMAIN transit' = 1 .. Len(transit') /\ Len(transit') \in Nat
        BY <1>10, <1>11
      <4>2. \A l \in Nat : \A i \in 1 .. l : ~(i > l - 0)
        OBVIOUS
      <4> QED
        BY <2>5, <4>1, <4>2
    <3>2. /\ Elapsed' <= age' + Delay
          /\ Elapsed' <= Stale + Delay + (GuardEvery - due')
      <4>1. age' \in Nat /\ GuardEvery - due' \in Nat
        <5>1. age' \in Nat
          BY <1>1, <1>14
        <5>2. GuardEvery - due' \in Nat
          <6>1. \A d \in 0 .. GuardEvery - 1 : GuardEvery - d \in Nat
            BY <1>1
          <6> QED
            BY <2>2, <6>1, Zenon
        <5> QED
          BY <5>1, <5>2
      <4>2. \A a, b, c, d \in Nat : 0 <= a + b /\ 0 <= c + b + d
        OBVIOUS
      <4> QED
        BY <1>1, <2>5, <4>1, <4>2
    <3> QED
      BY <2>4, <3>1, <3>2 DEF LossIsTracked
  <2>6. CASE Elapsed' # 0
    <3>1. spoilt
      BY <1>2, <1>4, <1>15, <2>1, <2>6
    <3>2. ASSUME NEW i \in 1 .. Len(flow), i > Len(flow) - Elapsed' PROVE flow[i]
      <4>1. CASE i = Len(transit) + 1
        BY <1>10, <2>4, <4>1
      <4>2. CASE i # Len(transit) + 1
        <5>1. i \in 1 .. Len(transit)
          BY <1>7, <4>2
        <5>2. i > Len(transit) - Elapsed
          <6>1. i \in Nat
            BY <5>1, <1>7
          <6> QED
            BY <1>7, <2>1, <3>2, <6>1, FromTheEnd, Zenon
        <5>3. transit[i] /\ flow[i] = transit[i]
          BY <1>10, <2>3, <3>1, <5>1, <5>2
        <5> QED
          BY <5>3
      <4> QED
        BY <4>1, <4>2
    <3>3. ASSUME NEW i \in DOMAIN transit', i > Len(transit') - Elapsed' PROVE transit'[i]
      <4>1. i \in 1 .. Len(transit') /\ transit'[i] = flow[n + i] /\ n + i \in 1 .. Len(flow)
        BY <1>10, <1>11
      <4>2. n + i > Len(flow) - Elapsed'
        <5>1. i \in Nat /\ Len(flow) = Len(transit) + 1 /\ Len(transit') = Len(transit) + 1 - n
          BY <1>7, <1>11, <4>1, SMTT(30)
        <5> QED
          BY <1>7, <1>11, <2>1, <3>3, <5>1, FromTheFront, Zenon
      <4> QED
        BY <3>2, <4>1, <4>2
    <3>4. \/ known' = known /\ age' = IF age > Stale THEN age ELSE age + 1
          \/ age' = 0 /\ (~known' => Elapsed' <= Delay)
      <4>1. ASSUME NEW newest \in 1 .. n, known' = flow[newest]
            PROVE  ~known' => Elapsed' <= Delay
        <5>1. newest \in 1 .. Len(flow) /\ newest \in Int
          BY <1>11
        <5>2. ~known' => ~(newest > Len(flow) - Elapsed')
          BY <3>2, <4>1, <5>1
        <5>3. Len(flow) <= Delay + 1 /\ Len(flow) \in Int /\ Elapsed' \in Int
          BY <1>1, <1>2, <1>7, <2>1
        <5>4. ~(newest > Len(flow) - Elapsed') => Elapsed' <= Delay
          BY <1>1, <5>1, <5>3
        <5> QED
          BY <5>2, <5>4
      <4> QED
        BY <1>13, <4>1
    <3>5. Bound(known, age, due, Elapsed, 0)
      BY <1>1, <1>2, <2>1, <2>3, <3>1 DEF Bound
    <3>6. Onward(known, age, due, Elapsed, 0, known', age', due', Elapsed', 0)
      BY <1>3, <2>1, <2>2, <3>4 DEF Onward
    <3>7. AccountTypes(known, age, due, Elapsed, 0)
          /\ AccountTypes(known', age', due', Elapsed', 0)
      BY <1>1, <1>2, <1>14, <2>1, <2>2 DEF AccountTypes
    <3>8. Bound(known', age', due', Elapsed', 0)
      BY <3>5, <3>6, <3>7, TrackStep, Zenon
    <3>9. /\ ~known' /\ age' <= Stale => Elapsed' <= age' + Delay
          /\ ~known' /\ age' > Stale => Elapsed' <= Stale + Delay + (GuardEvery - due')
          /\ known' => Elapsed' <= Stale + Delay + (GuardEvery - due')
      BY <1>1, <2>2, <3>8 DEF Bound
    <3> QED
      BY <2>4, <3>3, <3>9 DEF LossIsTracked
  <2> QED
    BY <2>5, <2>6
<1>16. LossIsTracked'
  BY <1>15 DEF LossIsTracked
<1> QED
  BY <1>6, <1>12, <1>14, <1>16

LEMMA ZeroFits ==
  ASSUME NEW e \in Nat \ {0}, NEW s \in Nat, NEW d \in Nat
  PROVE  0 <= d /\ 0 \in 0 .. s + 1 /\ 0 \in 0 .. e - 1
OBVIOUS

LEMMA IdentInit == IdentificationAssumption /\ IdentificationInit => IdentificationIInv
<1> SUFFICES ASSUME IdentificationAssumption, IdentificationInit PROVE IdentificationIInv
  OBVIOUS
<1>1. GuardEvery \in Nat \ {0} /\ Stale \in Nat /\ Delay \in Nat
  BY DEF IdentificationAssumption
<1>2. transit = <<>> /\ Len(transit) = 0 /\ transit \in Seq(BOOLEAN)
  BY DEF IdentificationInit
<1>3. TelemetryTypes
  <2>1. {known, dropped, spoilt} \subseteq BOOLEAN
    BY DEF IdentificationInit
  <2>2. Len(transit) <= Delay /\ age \in 0 .. Stale + 1 /\ due \in 0 .. GuardEvery - 1
    BY <1>1, <1>2, ZeroFits DEF IdentificationInit
  <2> QED
    BY <1>2, <2>1, <2>2 DEF TelemetryTypes
<1>4. RequestHolds /\ PlanFits /\ RefsFit /\ LossIsTracked
  BY DEF IdentificationInit, RequestHolds, PlanFits, RefsFit, LossIsTracked
<1> QED
  BY <1>3, <1>4 DEF IdentificationIInv

\* What is not moving keeps the whole invariant with the request's part and the types.
LEMMA AtRest ==
  ASSUME RequestHolds', TelemetryTypes', at' # "run" PROVE IdentificationIInv'
BY DEF IdentificationIInv, PlanFits, RefsFit, LossIsTracked

\* The types of the telemetry need nothing but the telemetry and the guard's clock.
LEMMA QuietTelemetry ==
  ASSUME TelemetryTypes, UNCHANGED telemetry, UNCHANGED due
  PROVE  TelemetryTypes'
BY DEF TelemetryTypes, telemetry

LEMMA ArmedKeeps ==
  ASSUME IdentificationAssumption, IdentificationIInv, Armed PROVE IdentificationIInv'
<1>1. RequestHolds /\ TelemetryTypes /\ at = "armed"
  BY DEF IdentificationIInv, Armed
<1>2. /\ anchor \in Int /\ request \in Requests /\ ArgumentsOK(request)
      /\ Planned(anchor, request) /\ ~spoilt /\ ref = NoReference
  BY <1>1 DEF RequestHolds
<1>3. request' = request /\ anchor' = anchor /\ ref' = ref /\ UNCHANGED telemetry
      /\ at' \in {"exited", "abort", "run"}
  BY DEF Armed, Exit, Fails
<1>4. spoilt' = spoilt
  BY <1>3 DEF telemetry
<1>5. RequestHolds'
  BY <1>2, <1>3, <1>4 DEF RequestHolds
<1>6. due' = due \/ due' = 0
  BY DEF Armed
<1>7. TelemetryTypes'
  <2>1. GuardEvery \in Nat \ {0} /\ (due' = due \/ due' = 0)
    BY <1>6 DEF IdentificationAssumption
  <2> QED
    BY <1>1, <1>3, <2>1 DEF TelemetryTypes, telemetry
<1>8. CASE at' = "run"
  <2>1. plan' = Plan(request) /\ left' = Hold
    BY <1>8 DEF Armed, Exit, Fails
  <2>2. Framed(plan', Countdown, HoldAt("anchor", 0, FALSE), Test(request),
               MoveTo("anchor"), HoldAt("anchor", 0, FALSE), Further,
               Fitting(anchor, request))
    BY <1>2, <2>1, PlanIsFramed
  <2>3. /\ plan' \in Seq(Fitting(anchor, request)) /\ Len(plan') \in Nat /\ Len(plan') > 1
        /\ plan'[1] = Countdown /\ plan'[2] = HoldAt("anchor", 0, FALSE)
        /\ plan'[Len(plan') - 1] = MoveTo("anchor")
        /\ plan'[Len(plan')] = HoldAt("anchor", 0, FALSE)
        /\ \A i \in 2 .. Len(plan') : plan'[i] \in Further
    BY <2>2 DEF Framed
  <2>4. plan' # <<>> /\ plan'[1].kind = "countdown"
    <3>1. Len(<<>>) = 0 /\ ~(0 > 1)
      OBVIOUS
    <3>2. plan' # <<>>
      BY <2>3, <3>1, Zenon
    <3> QED
      BY <2>3, <3>2 DEF Countdown
  <2>5. \A i \in 2 .. Len(plan') : plan'[i].kind # "countdown"
    BY <2>3 DEF Further
  <2>6. Hold \in 1 .. Hold
    BY DEF IdentificationAssumption
  <2>7. PlanFits'
    BY <1>3, <2>1, <2>3, <2>4, <2>5, <2>6 DEF PlanFits, Current
  <2>8. RefsFit'
    BY <1>2, <1>3, <2>4 DEF RefsFit, Current
  <2>9. LossIsTracked'
    BY <1>2, <1>4 DEF LossIsTracked
  <2> QED
    BY <1>5, <1>7, <2>7, <2>8, <2>9 DEF IdentificationIInv
<1> QED
  BY <1>5, <1>7, <1>8, AtRest

LEMMA IdentTickKeeps ==
  ASSUME IdentificationAssumption, IdentificationIInv, TestTick PROVE IdentificationIInv'
<1>1. /\ RequestHolds /\ TelemetryTypes /\ PlanFits /\ RefsFit
      /\ LossIsTracked /\ at = "run"
  BY DEF IdentificationIInv, TestTick
<1>2. request' = request /\ anchor' = anchor /\ at' \in {"run", "abort"}
  BY DEF TestTick, EndSegment
<1>3. RequestHolds'
  BY <1>1, <1>2 DEF RequestHolds
<1>4. anchor \in Int /\ request.centre \in Int
  <2>1. anchor \in Int /\ ArgumentsOK(request) /\ MaxOffset \in Nat
    BY <1>1 DEF RequestHolds, IdentificationAssumption
  <2> QED
    BY <2>1 DEF ArgumentsOK
<1>5. PlanFits'
  BY <1>1, TickPlan
<1>6. RefsFit'
  BY <1>1, <1>4, TickSends
<1>7. /\ transit' \in Seq(BOOLEAN) /\ Len(transit') <= Delay
      /\ {known', dropped', spoilt'} \subseteq BOOLEAN /\ age' \in 0 .. Stale + 1
      /\ LossIsTracked'
  BY <1>1, TickTracksLoss
<1>8. due' \in 0 .. GuardEvery - 1
  <2>1. CASE at' = "run"
    BY <1>1, <2>1, TickSegments
  <2>2. CASE at' = "abort"
    <3>1. due' = due
      BY <1>1, <2>2 DEF TestTick, EndSegment
    <3> QED
      BY <1>1, <3>1 DEF TelemetryTypes
  <2> QED
    BY <1>2, <2>1, <2>2
<1>9. TelemetryTypes'
  BY <1>7, <1>8 DEF TelemetryTypes
<1> QED
  BY <1>3, <1>5, <1>6, <1>7, <1>9 DEF IdentificationIInv

LEMMA IdentStartKeeps ==
  ASSUME IdentificationAssumption, at = "exited", StartTest PROVE IdentificationIInv'
<1>1. GuardEvery \in Nat \ {0} /\ Stale \in Nat /\ Delay \in Nat
  BY DEF IdentificationAssumption
<1>2. at' # "run" /\ at' \in {"exited", "preflight"}
  BY DEF StartTest
<1>3. /\ request' \in Requests /\ (at' = "preflight" => ArgumentsOK(request'))
      /\ spoilt' = FALSE /\ known' = FALSE /\ dropped' = FALSE /\ ref' = NoReference
      /\ transit' = <<>> /\ age' = 0 /\ due' = 0
  BY DEF StartTest
<1>4. RequestHolds'
  BY <1>2, <1>3 DEF RequestHolds, ArgumentsOK
<1>5. TelemetryTypes'
  <2>1. {known', dropped', spoilt'} \subseteq BOOLEAN
    BY <1>3
  <2>2. transit' \in Seq(BOOLEAN) /\ Len(transit') = 0
    BY <1>3
  <2>3. Len(transit') <= Delay /\ age' \in 0 .. Stale + 1 /\ due' \in 0 .. GuardEvery - 1
    BY <1>1, <1>3, <2>2, ZeroFits
  <2> QED
    BY <2>1, <2>2, <2>3 DEF TelemetryTypes
<1> QED
  BY <1>2, <1>4, <1>5, AtRest

\* Before and after the run, and when it is broken off, nothing moves.
LEMMA IdentOtherKeeps ==
  ASSUME IdentificationAssumption, IdentificationIInv,
         \/ Preflight \/ Prompt \/ TestGuardFinds \/ TestGuardTrips
         \/ TestComplete \/ HoldRequested \/ HoldLeft
  PROVE  IdentificationIInv'
<1>1. RequestHolds /\ TelemetryTypes
  BY DEF IdentificationIInv
<1>2. /\ at' # "run" /\ at # "exited" /\ request' = request
      /\ UNCHANGED telemetry /\ due' = due
  BY DEF Preflight, Prompt, TestGuardFinds, TestGuardTrips, TestComplete,
     HoldRequested, HoldLeft, AbortTest, Fails, Exit, motion
<1>3. TelemetryTypes'
  BY <1>1, <1>2, QuietTelemetry
<1>4. spoilt' = spoilt
  BY <1>2 DEF telemetry
<1>5. RequestHolds'
  <2>1. Low \in Int /\ High \in Int
    BY DEF IdentificationAssumption
  <2>2. CASE Preflight
    <3>1. ref' = ref /\ at = "preflight"
      BY <2>2 DEF Preflight
    <3>2. /\ at' \in {"prompt", "abort", "exited"}
          /\ at' = "prompt" => anchor' \in Low - 1 .. High + 1 /\ Planned(anchor', request)
      BY <2>2 DEF Preflight, Exit, Fails
    <3>3. at' = "prompt" => anchor' \in Int
      BY <2>1, <3>2
    <3>4. ArgumentsOK(request) /\ request \in Requests /\ ~spoilt /\ ref = NoReference
      BY <1>1, <3>1 DEF RequestHolds
    <3> QED
      BY <1>2, <1>4, <3>1, <3>2, <3>3, <3>4 DEF RequestHolds
  <2>3. CASE Prompt
    <3>1. UNCHANGED motion /\ at = "prompt" /\ at' \in {"armed", "exited", "abort"}
      BY <2>3 DEF Prompt, Exit, Fails
    <3>2. ref' = ref /\ anchor' = anchor
      BY <3>1 DEF motion
    <3> QED
      BY <1>1, <1>2, <1>4, <3>1, <3>2 DEF RequestHolds
  <2>4. CASE /\ at' \in {"abort", "exited", "fallback"}
    BY <1>1, <1>2, <2>4 DEF RequestHolds
  <2> QED
    BY <2>2, <2>3, <2>4 DEF TestGuardFinds, TestGuardTrips, TestComplete,
       HoldRequested, HoldLeft, AbortTest, Fails, Exit
<1> QED
  BY <1>2, <1>3, <1>5, AtRest

LEMMA IdentStutter ==
  ASSUME IdentificationIInv, UNCHANGED identificationVars PROVE IdentificationIInv'
<1>1. /\ UNCHANGED <<at, request, anchor, plan, left, due, from, goal, ref>>
      /\ UNCHANGED <<transit, known, age, dropped, spoilt>>
  BY DEF identificationVars, motion, telemetry
<1>2. RequestHolds' /\ TelemetryTypes'
  BY <1>1 DEF IdentificationIInv, RequestHolds, TelemetryTypes
<1>3. PlanFits' /\ RefsFit'
  BY <1>1 DEF IdentificationIInv, PlanFits, RefsFit, Current
<1>4. LossIsTracked'
  BY <1>1 DEF IdentificationIInv, LossIsTracked, Elapsed
<1> QED
  BY <1>2, <1>3, <1>4 DEF IdentificationIInv

\* What was asked for and found possible, the shape of the plan, where the joint is sent
\* and is going, and what is known of a drop, hold in every reachable state.
THEOREM IdentInvariance == IdentificationSpec => []IdentificationIInv
<1>1. ASSUME IdentificationAssumption PROVE IdentificationSpec => []IdentificationIInv
  <2>1. IdentificationInit => IdentificationIInv
    BY <1>1, IdentInit
  <2>2. IdentificationIInv /\ [IdentificationNext]_identificationVars => IdentificationIInv'
    <3> SUFFICES ASSUME IdentificationIInv, [IdentificationNext]_identificationVars PROVE IdentificationIInv'
      OBVIOUS
    <3>1. CASE Armed
      BY <1>1, <3>1, ArmedKeeps
    <3>2. CASE TestTick
      BY <1>1, <3>2, IdentTickKeeps
    <3>3. CASE at = "exited" /\ StartTest
      BY <1>1, <3>3, IdentStartKeeps
    <3>4. CASE \/ Preflight \/ Prompt \/ TestGuardFinds \/ TestGuardTrips
               \/ TestComplete \/ HoldRequested \/ HoldLeft
      BY <1>1, <3>4, IdentOtherKeeps
    <3>5. CASE UNCHANGED identificationVars
      BY <3>5, IdentStutter
    <3> QED
      BY <3>1, <3>2, <3>3, <3>4, <3>5 DEF IdentificationNext
  <2> QED
    BY <2>1, <2>2, PTL DEF IdentificationSpec
<1> QED
  BY <1>1, IdentificationAssumption DEF IdentificationAssumption

\* Whatever the trials start from, a test sends the joint to the guarded range, or to the
\* measured anchor and between the two, and nowhere else.
THEOREM JointIsGuarded == IdentificationSpec => []SentWithinRange
<1>1. IdentificationIInv => SentWithinRange
  BY DEF IdentificationIInv, RefsFit, SentWithinRange, Sent
<1> QED
  BY <1>1, IdentInvariance, PTL

\* A run is not completed if a snapshot was dropped in one of its trials: the way back is
\* long enough for a guard to see it, however late the telemetry and however much is lost.
THEOREM LossNoticed == IdentificationSpec => []LossIsNoticed
<1>1. ASSUME IdentificationAssumption, NoticeAssumption, IdentificationIInv
      PROVE  LossIsNoticed
  <2>1. /\ GuardEvery \in Nat \ {0} /\ Stale \in Nat /\ Delay \in Nat
        /\ Move \in Nat /\ Hold \in Nat /\ Move + Hold > Delay + Stale + GuardEvery
    BY <1>1 DEF IdentificationAssumption, NoticeAssumption
  <2>2. age \in 0 .. Stale + 1 /\ due \in 0 .. GuardEvery - 1 /\ known \in BOOLEAN
    BY <1>1 DEF IdentificationIInv, TelemetryTypes
  <2>3. ASSUME at = "run", plan = <<>>, spoilt PROVE FALSE
    <3>1. Elapsed = Move + Hold
      <4>1. Len(plan) = 0 /\ 0 \in Nat
        BY <2>3
      <4> QED
        BY <4>1, HowFar DEF Elapsed
    <3>2. /\ ~known /\ age <= Stale => Elapsed <= age + Delay
          /\ ~known /\ age > Stale => Elapsed <= Stale + Delay + (GuardEvery - due)
          /\ known => Elapsed <= Stale + Delay + (GuardEvery - due)
      BY <1>1, <2>3 DEF IdentificationIInv, LossIsTracked
    <3>3. Bound(known, age, due, Move + Hold, 0)
      BY <2>1, <2>2, <3>1, <3>2 DEF Bound
    <3> QED
      BY <2>1, <2>2, <3>3 DEF Bound
  <2> QED
    BY <2>3 DEF LossIsNoticed
<1>2. ASSUME IdentificationAssumption, NoticeAssumption
      PROVE  IdentificationSpec => []LossIsNoticed
  <2>1. IdentificationIInv => LossIsNoticed
    BY <1>1, <1>2
  <2>2. IdentificationSpec => []IdentificationIInv
    BY <1>2, IdentInvariance
  <2> QED
    BY <2>1, <2>2, PTL
<1> QED
  BY <1>2, IdentificationAssumption, NoticeAssumption DEF IdentificationAssumption, NoticeAssumption

\* A sequence of segments in which each may follow the one before, from one of F to one
\* of L.
Path(r, q, F, L) ==
  /\ q \in Seq(Segment) /\ Len(q) > 0 /\ q[1] \in F /\ q[Len(q)] \in L
  /\ \A i \in 1 .. Len(q) - 1 : Follows(r, q[i], q[i + 1])

LEMMA PathConcat ==
  ASSUME NEW r, NEW p, NEW q, NEW F, NEW L, NEW G, NEW M, Path(r, p, F, L), Path(r, q, G, M),
         \A s \in L, t \in G : Follows(r, s, t)
  PROVE  Path(r, p \o q, F, M)
<1>1. /\ p \in Seq(Segment) /\ q \in Seq(Segment) /\ Len(p) > 0 /\ Len(q) > 0
      /\ Len(p) \in Nat /\ Len(q) \in Nat
      /\ p[1] \in F /\ p[Len(p)] \in L /\ q[1] \in G /\ q[Len(q)] \in M
      /\ \A i \in 1 .. Len(p) - 1 : Follows(r, p[i], p[i + 1])
      /\ \A i \in 1 .. Len(q) - 1 : Follows(r, q[i], q[i + 1])
  BY DEF Path
<1> DEFINE w == p \o q
<1>2. /\ w \in Seq(Segment) /\ Len(w) = Len(p) + Len(q)
      /\ \A i \in 1 .. Len(p) : w[i] = p[i]
      /\ \A i \in 1 .. Len(q) : w[Len(p) + i] = q[i]
  BY <1>1, ConcatParts
<1> HIDE DEF w
<1>4. w[1] \in F /\ w[Len(w)] \in M /\ Len(w) > 0
  <2>1. 1 \in 1 .. Len(p) /\ Len(q) \in 1 .. Len(q) /\ Len(w) > 0
    BY <1>1, <1>2
  <2> QED
    BY <1>1, <1>2, <2>1
<1>5. ASSUME NEW i \in 1 .. Len(w) - 1 PROVE Follows(r, w[i], w[i + 1])
  <2>1. CASE i < Len(p)
    <3>1. i \in 1 .. Len(p) /\ i + 1 \in 1 .. Len(p) /\ i \in 1 .. Len(p) - 1
      BY <1>1, <2>1
    <3> QED
      BY <1>1, <1>2, <3>1
  <2>2. CASE i = Len(p)
    <3>1. i \in 1 .. Len(p) /\ 1 \in 1 .. Len(q)
      BY <1>1, <2>2
    <3>2. w[i] = p[Len(p)] /\ w[i + 1] = q[1]
      BY <1>2, <2>2, <3>1
    <3> QED
      BY <1>1, <3>2
  <2>3. CASE i > Len(p)
    <3>1. PICK j \in 1 .. Len(q) - 1 : i = Len(p) + j
      <4>1. i - Len(p) \in 1 .. Len(q) - 1 /\ i = Len(p) + (i - Len(p))
        BY <1>1, <1>2, <2>3
      <4> QED
        BY <4>1
    <3>2. j \in 1 .. Len(q) /\ j + 1 \in 1 .. Len(q) /\ i + 1 = Len(p) + (j + 1)
      BY <1>1, <3>1
    <3>3. w[i] = q[j] /\ w[i + 1] = q[j + 1]
      BY <1>2, <3>1, <3>2
    <3> QED
      BY <1>1, <3>1, <3>3
  <2>4. i < Len(p) \/ i = Len(p) \/ i > Len(p)
    BY <1>1
  <2> QED
    BY <2>1, <2>2, <2>3, <2>4
<1> QED
  BY <1>2, <1>4, <1>5 DEF Path, w

\* One segment, two, and three.
LEMMA ShortPaths ==
  ASSUME NEW r, NEW a \in Segment, NEW b \in Segment, NEW c \in Segment
  PROVE  /\ Path(r, <<a>>, {a}, {a})
         /\ Follows(r, a, b) => Path(r, <<a, b>>, {a}, {b})
         /\ Follows(r, a, b) /\ Follows(r, b, c) => Path(r, <<a, b, c>>, {a}, {c})
<1>1. /\ <<a>> \in Seq(Segment) /\ <<a, b>> \in Seq(Segment)
      /\ <<a, b, c>> \in Seq(Segment)
      /\ Len(<<a>>) = 1 /\ Len(<<a, b>>) = 2 /\ Len(<<a, b, c>>) = 3
      /\ <<a>>[1] = a /\ <<a, b>>[1] = a /\ <<a, b>>[2] = b
      /\ <<a, b, c>>[1] = a /\ <<a, b, c>>[2] = b /\ <<a, b, c>>[3] = c
  OBVIOUS
<1>2. 1 .. 1 - 1 = {} /\ (\A i \in 1 .. 2 - 1 : i = 1) /\ (\A i \in 1 .. 3 - 1 : i = 1 \/ i = 2)
      /\ 1 > 0 /\ 2 > 0 /\ 3 > 0 /\ 1 + 1 = 2 /\ 2 + 1 = 3
  OBVIOUS
<1>3. Path(r, <<a>>, {a}, {a})
  BY <1>1, <1>2, Zenon DEF Path
<1>4. ASSUME Follows(r, a, b) PROVE Path(r, <<a, b>>, {a}, {b})
  <2> DEFINE q == <<a, b>>
  <2>1. q \in Seq(Segment) /\ Len(q) = 2 /\ q[1] = a /\ q[2] = b
    BY <1>1
  <2> HIDE DEF q
  <2>2. \A i \in 1 .. Len(q) - 1 : Follows(r, q[i], q[i + 1])
    BY <1>2, <1>4, <2>1
  <2> QED
    BY <1>2, <2>1, <2>2 DEF Path, q
<1>5. ASSUME Follows(r, a, b), Follows(r, b, c)
      PROVE  Path(r, <<a, b, c>>, {a}, {c})
  <2> DEFINE q == <<a, b, c>>
  <2>1. q \in Seq(Segment) /\ Len(q) = 3 /\ q[1] = a /\ q[2] = b /\ q[3] = c
    BY <1>1
  <2> HIDE DEF q
  <2>2. \A i \in 1 .. Len(q) - 1 : Follows(r, q[i], q[i + 1])
    BY <1>2, <1>5, <2>1
  <2> QED
    BY <1>2, <2>1, <2>2 DEF Path, q
<1> QED
  BY <1>3, <1>4, <1>5

LEMMA PathWithin ==
  ASSUME NEW r, NEW q, NEW F, NEW L, NEW G, NEW M, Path(r, q, F, L),
         \A s \in F : s \in Segment => s \in G, \A s \in L : s \in Segment => s \in M
  PROVE  Path(r, q, G, M)
<1>1. /\ q \in Seq(Segment) /\ Len(q) > 0 /\ Len(q) \in Nat /\ q[1] \in F /\ q[Len(q)] \in L
  BY DEF Path
<1>2. 1 \in 1 .. Len(q) /\ Len(q) \in 1 .. Len(q)
  BY <1>1
<1>3. q[1] \in Segment /\ q[Len(q)] \in Segment
  BY <1>1, <1>2, ElementOfSeq
<1> QED
  BY <1>1, <1>3 DEF Path

After(r, s) == {t \in Segment : Follows(r, s, t)}
Before(r, t) == {s \in Segment : Follows(r, s, t)}

\* Where the segments of the tests lead.
LEMMA Places ==
  ASSUME NEW r, r.centre \in Int, NEW x \in Int, NEW trial \in BOOLEAN
  PROVE  /\ HoldAt("anchor", x, trial) \in Segment
         /\ HoldAt("local", x, trial) \in Segment
         /\ HoldAt("centre", 0, trial) \in Segment
         /\ MoveTo("anchor") \in Segment /\ MoveTo("centre") \in Segment
         /\ Triangle(x) \in Segment
         /\ Place(r, HoldAt("anchor", x, trial)) = x
         /\ Place(r, HoldAt("local", x, trial)) = r.centre + x
         /\ Place(r, HoldAt("centre", 0, trial)) = r.centre
         /\ Place(r, MoveTo("anchor")) = 0
         /\ Place(r, MoveTo("centre")) = r.centre
         /\ Place(r, Triangle(x)) = x
<1> USE DEF Segment, HoldAt, MoveTo, Triangle
<1>1. /\ HoldAt("anchor", x, trial) \in Segment
      /\ HoldAt("local", x, trial) \in Segment
      /\ HoldAt("centre", 0, trial) \in Segment
      /\ MoveTo("anchor") \in Segment /\ MoveTo("centre") \in Segment
      /\ Triangle(x) \in Segment
  OBVIOUS
<1>2. /\ Place(r, HoldAt("anchor", x, trial)) = x
      /\ Place(r, HoldAt("local", x, trial)) = r.centre + x
      /\ Place(r, HoldAt("centre", 0, trial)) = r.centre
  BY DEF Place
<1>3. /\ Place(r, MoveTo("anchor")) = 0
      /\ Place(r, MoveTo("centre")) = r.centre
      /\ Place(r, Triangle(x)) = x
  BY DEF Place
<1> QED
  BY <1>1, <1>2, <1>3

LEMMA Differences ==
  ASSUME NEW m \in Nat, NEW c \in Int, NEW x \in -m .. m
  PROVE  /\ x \in Int /\ 0 - x \in -m .. m /\ c + x \in Int
         /\ (c + x) - c \in -m .. m /\ c - (c + x) \in -m .. m
OBVIOUS

\* What may follow what, in the tests.
LEMMA FollowsInTests ==
  ASSUME IdentificationAssumption, NEW r, r.centre \in -MaxOffset .. MaxOffset,
         NEW x \in Int, NEW y \in Int, NEW d \in BOOLEAN, NEW e \in BOOLEAN
  PROVE  /\ y - x \in -MaxOffset .. MaxOffset =>
              Follows(r, HoldAt("anchor", x, d), HoldAt("anchor", y, e))
         /\ x \in -MaxOffset .. MaxOffset =>
              /\ Follows(r, HoldAt("anchor", x, d), MoveTo("anchor"))
              /\ Follows(r, HoldAt("centre", 0, d), HoldAt("local", x, e))
              /\ Follows(r, HoldAt("local", x, d), MoveTo("centre"))
              /\ Follows(r, HoldAt("anchor", 0, d), Triangle(x))
              /\ Follows(r, Triangle(x), MoveTo("anchor"))
         /\ Follows(r, HoldAt("anchor", 0, d), MoveTo("centre"))
         /\ Follows(r, HoldAt("centre", 0, d), MoveTo("anchor"))
         /\ Follows(r, MoveTo("centre"), HoldAt("centre", 0, d))
         /\ Follows(r, HoldAt("centre", 0, d), HoldAt("centre", 0, e))
         /\ Follows(r, MoveTo("anchor"), HoldAt("anchor", 0, d))
         /\ Follows(r, Countdown, HoldAt("anchor", 0, d))
<1>1. MaxOffset \in Nat /\ r.centre \in Int
  BY DEF IdentificationAssumption
<1>7. x \in -MaxOffset .. MaxOffset =>
        /\ Follows(r, HoldAt("centre", 0, d), HoldAt("local", x, e))
        /\ Follows(r, HoldAt("local", x, d), MoveTo("centre"))
  <2> SUFFICES ASSUME x \in -MaxOffset .. MaxOffset
               PROVE  /\ Follows(r, HoldAt("centre", 0, d), HoldAt("local", x, e))
                      /\ Follows(r, HoldAt("local", x, d), MoveTo("centre"))
    OBVIOUS
  <2> DEFINE A == HoldAt("centre", 0, d)
             B == HoldAt("local", x, e)
             C == HoldAt("local", x, d)
             M == MoveTo("centre")
  <2>1. /\ Place(r, A) = r.centre /\ Place(r, B) = r.centre + x
        /\ Place(r, C) = r.centre + x /\ Place(r, M) = r.centre
    BY <1>1, Places, ZenonT(40)
  <2>2. /\ A.base = "centre" /\ B.base = "local" /\ C.base = "local" /\ M.base = "centre"
        /\ A.kind = "hold" /\ B.kind = "hold" /\ C.kind = "hold" /\ M.kind = "move"
    BY DEF HoldAt, MoveTo
  <2> HIDE DEF A, B, C, M
  <2>3. /\ r.centre + x \in Int /\ (r.centre + x) - r.centre \in -MaxOffset .. MaxOffset
        /\ r.centre - (r.centre + x) \in -MaxOffset .. MaxOffset
    BY <1>1, Differences
  <2>4. Follows(r, A, B)
    BY <2>1, <2>2, <2>3 DEF Follows
  <2>5. Follows(r, C, M)
    BY <2>1, <2>2, <2>3 DEF Follows
  <2> QED
    BY <2>4, <2>5 DEF A, B, C, M
<1> USE DEF Follows, Place, HoldAt, MoveTo, Triangle, Countdown
<1>2. y - x \in -MaxOffset .. MaxOffset =>
         Follows(r, HoldAt("anchor", x, d), HoldAt("anchor", y, e))
  BY <1>1
<1>3. x \in -MaxOffset .. MaxOffset =>
        Follows(r, HoldAt("anchor", x, d), MoveTo("anchor"))
  BY <1>1
<1>4. x \in -MaxOffset .. MaxOffset =>
        /\ Follows(r, HoldAt("anchor", 0, d), Triangle(x))
        /\ Follows(r, Triangle(x), MoveTo("anchor"))
  BY <1>1
<1>5. /\ Follows(r, HoldAt("anchor", 0, d), MoveTo("centre"))
      /\ Follows(r, HoldAt("centre", 0, d), MoveTo("anchor"))
      /\ Follows(r, MoveTo("centre"), HoldAt("centre", 0, d))
  BY <1>1, SMTT(30)
<1>6. /\ Follows(r, HoldAt("centre", 0, d), HoldAt("centre", 0, e))
      /\ Follows(r, MoveTo("anchor"), HoldAt("anchor", 0, d))
      /\ Follows(r, Countdown, HoldAt("anchor", 0, d))
  BY <1>1
<1> QED
  BY <1>2, <1>3, <1>4, <1>5, <1>6, <1>7

\* The place of an entry among the three of its trial.
LEMMA Thirds ==
  ASSUME NEW k \in Nat \ {0}
  PROVE  /\ ((k - 1) % 3) + 1 \in 1 .. 3
         /\ ((k - 1) % 3) + 1 = 1 =>
              (((k + 1) - 1) % 3) + 1 = 2 /\ ((k + 1) + 2) \div 3 = (k + 2) \div 3
         /\ ((k - 1) % 3) + 1 = 2 =>
              (((k + 1) - 1) % 3) + 1 = 3 /\ ((k + 1) + 2) \div 3 = (k + 2) \div 3
         /\ ((k - 1) % 3) + 1 = 3 => (((k + 1) - 1) % 3) + 1 = 1
OBVIOUS

\* The trials of a step sweep are a way from the centre to the centre.
LEMMA TrialsPath ==
  ASSUME IdentificationAssumption, NEW r, r.centre \in -MaxOffset .. MaxOffset,
         NEW steps \in Seq(-MaxOffset .. MaxOffset), Len(steps) > 0
  PROVE  Path(r, Trials(steps), {HoldAt("centre", 0, FALSE)}, {MoveTo("centre")})
<1>1. /\ MaxOffset \in Nat /\ r.centre \in Int
      /\ Len(steps) \in Nat \ {0} /\ \A i \in 1 .. Len(steps) : steps[i] \in -MaxOffset .. MaxOffset
  <2>1. MaxOffset \in Nat
    BY DEF IdentificationAssumption
  <2>2. r.centre \in Int
    BY <2>1
  <2>3. Len(steps) \in Nat \ {0} /\ \A i \in 1 .. Len(steps) : steps[i] \in -MaxOffset .. MaxOffset
    <3> DEFINE S == -MaxOffset .. MaxOffset
    <3>1. steps \in Seq(S)
      OBVIOUS
    <3> HIDE DEF S
    <3>2. Len(steps) \in Nat /\ \A i \in 1 .. Len(steps) : steps[i] \in S
      BY <3>1, Entries
    <3> QED
      BY <3>2 DEF S
  <2> QED
    BY <2>1, <2>2, <2>3
<1> DEFINE n == 3 * Len(steps)
           q == Trials(steps)
           at3(k) == ((k - 1) % 3) + 1
           x(k) == steps[(k + 2) \div 3]
           H == HoldAt("centre", 0, FALSE)
           M == MoveTo("centre")
           T(o) == HoldAt("local", o, TRUE)
<1>2. n \in Nat /\ n > 0 /\ (\A k \in 1 .. n : k \in Nat \ {0})
  BY <1>1
<1>3. \A k \in 1 .. n : x(k) \in -MaxOffset .. MaxOffset /\ x(k) \in Int
  <2>1. \A k \in 1 .. n : (k + 2) \div 3 \in 1 .. Len(steps)
    BY <1>1, <1>2, PairsAndTriples, SMTT(30)
  <2> QED
    BY <1>1, <2>1
<1>4. \A k \in 1 .. n : q[k] = Trial(x(k))[at3(k)]
  BY DEF Trials
<1>5. \A o : Trial(o)[1] = H /\ Trial(o)[2] = T(o) /\ Trial(o)[3] = M
  BY DEF Trial
<1>6. H \in Segment /\ M \in Segment /\ \A o \in Int : T(o) \in Segment
  BY <1>1, Places
<1>7. \A k \in 1 .. n : /\ at3(k) \in 1 .. 3 /\ at3(k) \in {1, 2, 3}
                        /\ at3(k) = 1 => at3(k + 1) = 2 /\ x(k + 1) = x(k)
                        /\ at3(k) = 2 => at3(k + 1) = 3 /\ x(k + 1) = x(k)
                        /\ at3(k) = 3 => at3(k + 1) = 1
  <2>1. \A k \in 1 .. n : at3(k) \in 1 .. 3 => at3(k) \in {1, 2, 3}
    OBVIOUS
  <2> QED
    BY <1>2, <2>1, Thirds
<1>8. at3(1) = 1 /\ at3(n) = 3
  BY <1>1
<1>9. q \in Seq(Segment) /\ Len(q) = n
  <2>1. \A k \in 1 .. n : Trial(x(k))[at3(k)] \in Segment
    BY <1>3, <1>5, <1>6, <1>7, ZenonT(40)
  <2>2. q \in [1 .. n -> Segment]
    BY <2>1 DEF Trials
  <2> HIDE DEF q, n
  <2> QED
    BY <1>2, <2>2, Listed
<1>10. /\ Follows(r, M, H)
       /\ \A o \in -MaxOffset .. MaxOffset : Follows(r, H, T(o)) /\ Follows(r, T(o), M)
  <2>1. \A o \in -MaxOffset .. MaxOffset : o \in Int
    BY <1>1
  <2> QED
    BY <2>1, FollowsInTests
<1> HIDE DEF n, q, at3, x, H, M, T
<1>11. ASSUME NEW k \in 1 .. n - 1 PROVE Follows(r, q[k], q[k + 1])
  <2>1. k \in 1 .. n /\ k + 1 \in 1 .. n
    BY <1>2
  <2>2. q[k] = Trial(x(k))[at3(k)] /\ q[k + 1] = Trial(x(k + 1))[at3(k + 1)]
    BY <1>4, <2>1
  <2>3. CASE at3(k) = 1
    <3>1. q[k] = H /\ q[k + 1] = T(x(k))
      BY <1>5, <1>7, <2>1, <2>2, <2>3
    <3> QED
      BY <1>3, <1>10, <2>1, <3>1
  <2>4. CASE at3(k) = 2
    <3>1. q[k] = T(x(k)) /\ q[k + 1] = M
      BY <1>5, <1>7, <2>1, <2>2, <2>4
    <3> QED
      BY <1>3, <1>10, <2>1, <3>1
  <2>5. CASE at3(k) = 3
    <3>1. q[k] = M /\ q[k + 1] = H
      BY <1>5, <1>7, <2>1, <2>2, <2>5
    <3> QED
      BY <1>10, <3>1
  <2> QED
    BY <1>7, <2>1, <2>3, <2>4, <2>5
<1>12. q[1] = H /\ q[n] = M
  <2>1. 1 \in 1 .. n /\ n \in 1 .. n
    BY <1>2
  <2> QED
    BY <1>4, <1>5, <1>8, <2>1
<1> QED
  BY <1>2, <1>9, <1>11, <1>12 DEF Path, q, H, M

\* Two numbers on the same side of nothing, and within m of it, are within m.
LEMMA SameSide ==
  ASSUME NEW m \in Nat, NEW x, NEW y,
         (x \in 0 .. m /\ y \in 0 .. m) \/ (x \in -m .. 0 /\ y \in -m .. 0)
  PROVE  x \in Int /\ y \in Int /\ y - x \in -m .. m
OBVIOUS

\* From nothing to nothing, in steps of m at most.
Stairs(w, m) ==
  /\ w \in Seq(Int) /\ Len(w) > 0 /\ w[1] = 0 /\ w[Len(w)] = 0
  /\ \A i \in 1 .. Len(w) - 1 : w[i + 1] - w[i] \in -m .. m

\* Up and down again, and down and up.
LEMMA UpAndDown ==
  ASSUME NEW m \in Nat, NEW u \in Seq(0 .. m), NEW d \in Seq(-m .. 0), Len(u) > 0, Len(d) > 0,
         u[1] = 0, u[Len(u)] = 0, d[Len(d)] = 0
  PROVE  Stairs(u \o d, m)
<1>1. /\ Len(u) \in Nat \ {0} /\ Len(d) \in Nat \ {0} /\ 0 .. m \subseteq Int /\ -m .. 0 \subseteq Int
      /\ 0 \in 0 .. m /\ 0 \in -m .. 0
  OBVIOUS
<1>2. /\ \A i \in 1 .. Len(u) : u[i] \in 0 .. m
      /\ \A i \in 1 .. Len(d) : d[i] \in -m .. 0
  BY ElementOfSeq
<1>3. u \in Seq(Int) /\ d \in Seq(Int)
  BY <1>1
<1> DEFINE w == u \o d
<1>4. /\ w \in Seq(Int) /\ Len(w) = Len(u) + Len(d)
      /\ \A i \in 1 .. Len(u) : w[i] = u[i]
      /\ \A i \in 1 .. Len(d) : w[Len(u) + i] = d[i]
  BY <1>3, ConcatParts
<1> HIDE DEF w
<1>5. w[1] = 0 /\ w[Len(w)] = 0 /\ Len(w) > 0
  <2>1. 1 \in 1 .. Len(u) /\ Len(d) \in 1 .. Len(d) /\ Len(u) + Len(d) > 0
    BY <1>1
  <2> QED
    BY <1>4, <2>1
<1>6. ASSUME NEW i \in 1 .. Len(w) - 1 PROVE w[i + 1] - w[i] \in -m .. m
  <2>0. i \in 1 .. (Len(u) + Len(d)) - 1
    BY <1>4
  <2>1. CASE i < Len(u)
    <3>1. i \in 1 .. Len(u) /\ i + 1 \in 1 .. Len(u)
      BY <1>1, <2>1
    <3>2. w[i] \in 0 .. m /\ w[i + 1] \in 0 .. m
      BY <1>2, <1>4, <3>1
    <3> QED
      BY <3>2, SameSide, Zenon
  <2>2. CASE i = Len(u)
    <3>1. i \in 1 .. Len(u) /\ 1 \in 1 .. Len(d)
      BY <1>1, <2>2
    <3>2. w[i] = u[Len(u)] /\ w[i + 1] = d[1]
      BY <1>4, <2>2, <3>1
    <3>3. w[i] \in -m .. 0 /\ w[i + 1] \in -m .. 0
      BY <1>1, <1>2, <3>1, <3>2
    <3> QED
      BY <3>3, SameSide, Zenon
  <2>3. CASE i > Len(u)
    <3>1. PICK j \in 1 .. Len(d) - 1 : i = Len(u) + j
      <4>1. i - Len(u) \in 1 .. Len(d) - 1 /\ i = Len(u) + (i - Len(u))
        BY <1>1, <2>0, <2>3
      <4> QED
        BY <4>1
    <3>2. j \in 1 .. Len(d) /\ j + 1 \in 1 .. Len(d) /\ i + 1 = Len(u) + (j + 1)
      BY <1>1, <3>1
    <3>3. w[i] \in -m .. 0 /\ w[i + 1] \in -m .. 0
      BY <1>2, <1>4, <3>1, <3>2
    <3> QED
      BY <3>3, SameSide, Zenon
  <2>4. i < Len(u) \/ i = Len(u) \/ i > Len(u)
    BY <1>1, <2>0
  <2> QED
    BY <2>1, <2>2, <2>3, <2>4
<1> QED
  BY <1>4, <1>5, <1>6 DEF Stairs, w

\* A concatenation by its parts, and a sequence by its ends.
Joined(w, S, p, q) ==
  /\ w \in Seq(S) /\ Len(w) = Len(p) + Len(q)
  /\ \A i \in 1 .. Len(p) : w[i] = p[i]
  /\ \A i \in 1 .. Len(q) : w[Len(p) + i] = q[i]
Ends(w, S, x, y) == w \in Seq(S) /\ Len(w) > 0 /\ w[1] = x /\ w[Len(w)] = y

Associates(a, b, c) == (a \o b) \o c = a \o (b \o c)

LEMMA Associative ==
  ASSUME NEW S, NEW a \in Seq(S), NEW b \in Seq(S), NEW c \in Seq(S)
  PROVE  Associates(a, b, c)
BY ConcatAssociative DEF Associates

LEMMA Joining ==
  ASSUME NEW S, NEW p \in Seq(S), NEW q \in Seq(S) PROVE Joined(p \o q, S, p, q)
<1> DEFINE w == p \o q
<1>1. /\ w \in Seq(S) /\ Len(w) = Len(p) + Len(q)
      /\ \A i \in 1 .. Len(p) : w[i] = p[i]
      /\ \A i \in 1 .. Len(q) : w[Len(p) + i] = q[i]
  BY ConcatParts
<1> HIDE DEF w
<1>2. Joined(w, S, p, q)
  BY <1>1 DEF Joined
<1> QED
  BY <1>2 DEF w

\* Something between two.
LEMMA Between ==
  ASSUME NEW S, NEW a \in Seq(S), NEW o \in Seq(S), NEW b \in Seq(S), Len(a) > 0, Len(b) > 0
  PROVE  Ends(a \o o \o b, S, a[1], b[Len(b)])
<1> DEFINE p == a \o o
           q == p \o b
<1>1. Len(a) \in Nat \ {0} /\ Len(o) \in Nat /\ Len(b) \in Nat \ {0}
  OBVIOUS
<1>2. Joined(p, S, a, o)
  BY Joining, Zenon
<1> HIDE DEF p
<1>3. Joined(q, S, p, b)
  <2>1. p \in Seq(S)
    BY <1>2 DEF Joined
  <2> QED
    BY <2>1, Joining, Zenon
<1> HIDE DEF q
<1>4. 1 \in 1 .. Len(a) /\ 1 \in 1 .. Len(p) /\ Len(b) \in 1 .. Len(b) /\ Len(q) > 0
  BY <1>1, <1>2, <1>3 DEF Joined
<1>5. q[1] = a[1] /\ q[Len(q)] = b[Len(b)]
  BY <1>2, <1>3, <1>4 DEF Joined
<1>6. Ends(q, S, a[1], b[Len(b)])
  BY <1>3, <1>4, <1>5 DEF Ends, Joined
<1> QED
  BY <1>6 DEF q, p

\* The offsets in order, then their opposites.
LEMMA StairsAreStairs ==
  ASSUME NEW m \in Nat, NEW o \in Seq(1 .. m)
  PROVE  Stairs(<<0>> \o o \o <<0>> \o [i \in DOMAIN o |-> -o[i]] \o <<0>>, m)
<1> DEFINE down == [i \in DOMAIN o |-> -o[i]]
           floor == <<0>>
           up == floor \o o \o floor
           back == down \o floor
<1>1. floor \in Seq(0 .. m) /\ floor \in Seq(-m .. 0) /\ Len(floor) = 1 /\ floor[1] = 0
  OBVIOUS
<1>2. /\ DOMAIN o = 1 .. Len(o) /\ Len(o) \in Nat
      /\ \A i \in 1 .. Len(o) : o[i] \in 1 .. m
      /\ \A x \in 1 .. m : x \in 0 .. m /\ -x \in -m .. 0
  OBVIOUS
<1>3. o \in Seq(0 .. m)
  BY <1>2
<1>4. down \in Seq(-m .. 0)
  <2>1. \A i \in 1 .. Len(o) : -o[i] \in -m .. 0
    BY <1>2
  <2>2. down \in [1 .. Len(o) -> -m .. 0]
    BY <1>2, <2>1
  <2> QED
    BY <1>2, <2>2, Listed
<1> HIDE DEF down, floor
<1>5. up \in Seq(0 .. m) /\ Len(up) > 0 /\ up[1] = 0 /\ up[Len(up)] = 0
  <2>1. /\ up \in Seq(0 .. m) /\ Len(up) > 0 /\ up[1] = floor[1] /\ up[Len(up)] = floor[Len(floor)]
    <3> DEFINE S == 0 .. m
    <3>1. floor \in Seq(S) /\ o \in Seq(S) /\ Len(floor) > 0
      BY <1>1, <1>3
    <3> HIDE DEF S
    <3>2. Ends(up, S, floor[1], floor[Len(floor)])
      BY <3>1, Between, Zenon
    <3> QED
      BY <3>2 DEF S, Ends
  <2> HIDE DEF up
  <2> QED
    BY <1>1, <2>1
<1>6. back \in Seq(-m .. 0) /\ Len(back) > 0 /\ back[Len(back)] = 0
  <2>1. /\ back \in Seq(-m .. 0) /\ Len(back) = Len(down) + Len(floor)
        /\ \A i \in 1 .. Len(floor) : back[Len(down) + i] = floor[i]
    <3> DEFINE S == -m .. 0
    <3>1. down \in Seq(S) /\ floor \in Seq(S)
      BY <1>1, <1>4
    <3> HIDE DEF S
    <3>2. Joined(back, S, down, floor)
      BY <3>1, Joining, Zenon
    <3> QED
      BY <3>2 DEF S, Joined
  <2> HIDE DEF back
  <2>2. Len(down) \in Nat /\ Len(down) + 1 > 0
    BY <1>4
  <2> QED
    BY <1>1, <2>1, <2>2
<1>7. (up \o down) \o floor = up \o back
  <2>1. 0 .. m \subseteq Int /\ -m .. 0 \subseteq Int
    OBVIOUS
  <2> DEFINE S == Int
  <2> HIDE DEF up
  <2>2. up \in Seq(S) /\ down \in Seq(S) /\ floor \in Seq(S)
    BY <1>1, <1>4, <1>5, <2>1
  <2> HIDE DEF S
  <2>3. Associates(up, down, floor)
    BY <2>2, Associative, Zenon
  <2> QED
    BY <2>3 DEF Associates
<1> HIDE DEF up, back
<1>8. Stairs(up \o back, m)
  BY <1>5, <1>6, UpAndDown
<1>9. Stairs((up \o down) \o floor, m)
  BY <1>7, <1>8
<1> QED
  BY <1>9 DEF up, down, floor

\* Holding the joint at stairs is a way from the anchor to the anchor.
LEMMA StairsPath ==
  ASSUME IdentificationAssumption, NEW r, r.centre \in -MaxOffset .. MaxOffset,
         NEW w, Stairs(w, MaxOffset)
  PROVE  Path(r, [i \in DOMAIN w |-> HoldAt("anchor", w[i], TRUE)],
              {HoldAt("anchor", 0, TRUE)}, {HoldAt("anchor", 0, TRUE)})
<1> DEFINE H(x) == HoldAt("anchor", x, TRUE)
           q == [i \in DOMAIN w |-> H(w[i])]
<1>1. /\ w \in Seq(Int) /\ Len(w) > 0 /\ w[1] = 0 /\ w[Len(w)] = 0
      /\ \A i \in 1 .. Len(w) - 1 : w[i + 1] - w[i] \in -MaxOffset .. MaxOffset
  BY DEF Stairs
<1>2. /\ Len(w) \in Nat \ {0} /\ DOMAIN w = 1 .. Len(w) /\ r.centre \in Int
      /\ \A i \in 1 .. Len(w) : w[i] \in Int
  <2>1. MaxOffset \in Nat
    BY DEF IdentificationAssumption
  <2>2. r.centre \in Int
    BY <2>1
  <2> QED
    BY <1>1, <2>2, SMTT(30)
<1>3. \A x \in Int : H(x) \in Segment
  BY <1>2, Places
<1>4. q \in Seq(Segment) /\ Len(q) = Len(w) /\ \A i \in 1 .. Len(w) : q[i] = H(w[i])
  <2> HIDE DEF H
  <2>1. q \in [1 .. Len(w) -> Segment] /\ \A i \in 1 .. Len(w) : q[i] = H(w[i])
    BY <1>2, <1>3
  <2> HIDE DEF q
  <2>2. Len(w) \in Nat
    BY <1>2
  <2> QED
    BY <2>1, <2>2, Listed
<1> HIDE DEF q
<1>5. ASSUME NEW i \in 1 .. Len(q) - 1 PROVE Follows(r, q[i], q[i + 1])
  <2>1. i \in 1 .. Len(w) - 1 /\ i \in 1 .. Len(w) /\ i + 1 \in 1 .. Len(w)
    BY <1>2, <1>4
  <2>2. q[i] = H(w[i]) /\ q[i + 1] = H(w[i + 1])
    BY <1>4, <2>1
  <2>3. w[i] \in Int /\ w[i + 1] \in Int /\ w[i + 1] - w[i] \in -MaxOffset .. MaxOffset
    BY <1>1, <1>2, <2>1
  <2> QED
    BY <2>2, <2>3, FollowsInTests
<1>6. q[1] = H(0) /\ q[Len(q)] = H(0)
  <2>1. 1 \in 1 .. Len(w) /\ Len(w) \in 1 .. Len(w)
    BY <1>2
  <2> QED
    BY <1>1, <1>4, <2>1
<1>7. Path(r, q, {H(0)}, {H(0)})
  BY <1>1, <1>4, <1>5, <1>6 DEF Path
<1> QED
  BY <1>7 DEF q

LEMMA Opposite == ASSUME NEW m \in Nat, NEW x \in -m .. m PROVE -x \in -m .. m
OBVIOUS

\* Every test is a way that may follow the anchor held, and that the way back may follow.
LEMMA TestPath ==
  ASSUME IdentificationAssumption, anchor \in Int, request \in Requests,
         ArgumentsOK(request), Planned(anchor, request)
  PROVE  Path(request, Test(request), After(request, HoldAt("anchor", 0, FALSE)),
              Before(request, MoveTo("anchor")))
<1> DEFINE o == request.offsets
           m == MaxOffset
           A(x, d) == HoldAt("anchor", x, d)
           H == HoldAt("centre", 0, FALSE)
           M == MoveTo("centre")
           Back == MoveTo("anchor")
           F == After(request, A(0, FALSE))
           L == Before(request, Back)
<1>1. /\ request.mode \in {"step_sweep", "deadband_staircase", "triangle", "hold_under_load"}
      /\ o \in Seq(Int) /\ request.centre \in -m .. m /\ request.centre \in Int /\ m \in Nat
      /\ request.mode \in {"triangle", "hold_under_load"} => Len(o) = 1
  BY DEF IdentificationAssumption, ArgumentsOK
<1>2. /\ Len(o) \in Nat /\ \A i \in 1 .. Len(o) : o[i] \in Int /\ o[i] \in ToSet(o)
      /\ request.mode # "deadband_staircase" => \A i \in 1 .. Len(o) : o[i] \in -m .. m
  <2>1. Len(o) \in Nat /\ \A i \in 1 .. Len(o) : o[i] \in Int /\ o[i] \in ToSet(o)
    BY <1>1, Entries
  <2>2. request.mode # "deadband_staircase" => \A x \in ToSet(o) : x \in -m .. m
    BY DEF ArgumentsOK
  <2> QED
    BY <2>1, <2>2
<1> HIDE DEF o
<1>3. /\ \A x \in Int, d \in BOOLEAN : A(x, d) \in Segment
      /\ H \in Segment /\ M \in Segment
      /\ \A x \in Int : Triangle(x) \in Segment
  BY <1>1, Places
<1>4. 0 \in Int /\ 0 \in -m .. m /\ FALSE \in BOOLEAN /\ TRUE \in BOOLEAN
      /\ \A x \in -m .. m : x \in Int /\ x - 0 \in -m .. m /\ x - x \in -m .. m
  BY <1>1
<1>5. CASE request.mode = "step_sweep"
  <2> DEFINE steps == Steps(o)
             trials == Trials(steps)
             first == <<M, H>>
             last == <<H>>
  <2>1. steps \in Seq(-m .. m)
    <3>1. ASSUME NEW k \in 1 .. 2 * Len(o)
          PROVE  (IF k % 2 = 1 THEN o[(k + 1) \div 2] ELSE -o[k \div 2]) \in -m .. m
      <4>1. k \in Nat \ {0}
        BY <1>2
      <4>2. CASE k % 2 = 1
        <5>1. (k + 1) \div 2 \in 1 .. Len(o)
          BY <1>2, <4>1, <4>2, PairsAndTriples
        <5> QED
          BY <1>2, <1>5, <4>2, <5>1
      <4>3. CASE k % 2 # 1
        <5>1. k \div 2 \in 1 .. Len(o)
          BY <1>2, <4>1, <4>3, PairsAndTriples
        <5>2. o[k \div 2] \in -m .. m
          BY <1>2, <1>5, <5>1
        <5>3. -o[k \div 2] \in -m .. m
          BY <1>1, <5>2, Opposite, Zenon
        <5> QED
          BY <4>3, <5>3
      <4> QED
        BY <4>2, <4>3
    <3>2. steps \in [1 .. 2 * Len(o) -> -m .. m]
      BY <3>1 DEF Steps
    <3>3. 2 * Len(o) \in Nat
      BY <1>2
    <3> HIDE DEF steps
    <3> QED
      BY <3>2, <3>3, Listed
  <2> HIDE DEF steps
  <2>2. /\ Follows(request, M, H) /\ Follows(request, H, H)
        /\ Follows(request, A(0, FALSE), M) /\ Follows(request, H, Back)
    BY <1>1, <1>4, FollowsInTests
  <2>3. Path(request, first, {M}, {H}) /\ Path(request, last, {H}, {H})
    BY <1>3, <2>2, ShortPaths
  <2>4. Path(request, first \o trials \o last, {M}, {H})
    <3> HIDE DEF first, last, H, M
    <3>1. CASE Len(steps) > 0
      <4>1. Path(request, trials, {H}, {M})
        BY <1>1, <2>1, <3>1, TrialsPath DEF H, M
      <4> HIDE DEF trials
      <4>2. Path(request, first \o trials, {M}, {M})
        <5>1. \A s \in {H}, t \in {H} : Follows(request, s, t)
          BY <2>2
        <5> QED
          BY <2>3, <4>1, <5>1, PathConcat
      <4>3. \A s \in {M}, t \in {H} : Follows(request, s, t)
        BY <2>2
      <4> QED
        BY <2>3, <4>2, <4>3, PathConcat
    <3>2. CASE ~(Len(steps) > 0)
      <4>1. Len(steps) = 0
        <5>1. Len(steps) \in Nat
          BY <2>1
        <5> QED
          BY <3>2, <5>1
      <4>2. trials = <<>>
        <5>1. trials = [k \in 1 .. 3 * 0 |-> Trial(steps[(k + 2) \div 3])[((k - 1) % 3) + 1]]
          BY <4>1 DEF Trials
        <5>2. 1 .. 3 * 0 = {}
          OBVIOUS
        <5>3. trials \in [1 .. 0 -> Segment]
          BY <5>1, <5>2
        <5> HIDE DEF trials
        <5>4. trials \in Seq(Segment) /\ Len(trials) = 0
          BY <5>3, Listed
        <5> QED
          BY <5>4
      <4>3. first \o trials = first
        <5>1. first \in Seq(Segment)
          BY <2>3 DEF Path
        <5> HIDE DEF trials
        <5> QED
          BY <4>2, <5>1, ConcatEmptySeq
      <4>4. \A s \in {H}, t \in {H} : Follows(request, s, t)
        BY <2>2
      <4>5. Path(request, first \o last, {M}, {H})
        BY <2>3, <4>4, PathConcat
      <4> HIDE DEF trials
      <4> QED
        BY <4>3, <4>5
    <3> QED
      BY <3>1, <3>2
  <2>5. M \in F /\ H \in L
    BY <1>3, <2>2 DEF After, Before
  <2>6. Test(request) = first \o trials \o last
    BY <1>5 DEF Test, steps, o
  <2> HIDE DEF first, trials, last, H, M, F, L
  <2>7. Path(request, first \o trials \o last, F, L)
    BY <2>4, <2>5, PathWithin
  <2> QED
    BY <2>6, <2>7 DEF F, L
<1>6. CASE request.mode = "deadband_staircase"
  <2> DEFINE w == <<0>> \o o \o <<0>> \o [i \in DOMAIN o |-> -o[i]] \o <<0>>
             q == [i \in DOMAIN w |-> HoldAt("anchor", w[i], TRUE)]
  <2>1. \A i \in 1 .. Len(o) : o[i] \in 1 .. m
    <3>1. \A x \in ToSet(o) : x \in 1 .. m
      BY <1>6 DEF Planned, o
    <3> QED
      BY <1>2, <3>1
  <2>2. o \in Seq(1 .. m)
    <3>1. o \in [1 .. Len(o) -> 1 .. m]
      <4>1. o \in Seq(Int)
        BY <1>1
      <4>2. o = [i \in 1 .. Len(o) |-> o[i]]
        BY <4>1
      <4> QED
        BY <2>1, <4>2
    <3> QED
      BY <1>2, <3>1, Listed
  <2>3. Stairs(w, m)
    BY <1>1, <2>2, StairsAreStairs
  <2>4. Test(request) = q
    BY <1>6 DEF Test, o
  <2> HIDE DEF w
  <2>5. Path(request, q, {A(0, TRUE)}, {A(0, TRUE)})
    BY <1>1, <2>3, StairsPath
  <2>6. Follows(request, A(0, FALSE), A(0, TRUE)) /\ Follows(request, A(0, TRUE), Back)
    BY <1>1, <1>4, FollowsInTests
  <2>7. A(0, TRUE) \in F /\ A(0, TRUE) \in L
    BY <1>3, <1>4, <2>6 DEF After, Before
  <2> HIDE DEF q, A, F, L
  <2>8. Path(request, q, F, L)
    BY <2>5, <2>7, PathWithin, ZenonT(40)
  <2> QED
    BY <2>4, <2>8 DEF F, L, A
<1>7. CASE request.mode = "triangle"
  <2> DEFINE T == Triangle(o[1])
  <2>1. o[1] \in -m .. m /\ o[1] \in Int
    <3>1. 1 \in 1 .. Len(o)
      <4>1. Len(o) = 1
        BY <1>1, <1>7
      <4>2. 1 \in 1 .. 1
        OBVIOUS
      <4> QED
        BY <4>1, <4>2
    <3> QED
      BY <1>2, <1>4, <1>7, <3>1
  <2>2. Follows(request, A(0, FALSE), T) /\ Follows(request, T, Back)
    BY <1>1, <1>4, <2>1, FollowsInTests
  <2>3. T \in Segment
    BY <1>3, <2>1
  <2>4. T \in F /\ T \in L
    BY <2>2, <2>3 DEF After, Before
  <2>5. Path(request, <<T>>, {T}, {T})
    BY <2>3, ShortPaths
  <2>6. Test(request) = <<T>>
    BY <1>7 DEF Test, o
  <2> HIDE DEF T, F, L
  <2>7. Path(request, <<T>>, F, L)
    BY <2>4, <2>5, PathWithin
  <2> QED
    BY <2>6, <2>7 DEF F, L
<1>8. CASE request.mode = "hold_under_load"
  <2> DEFINE x == o[1]
             B == A(x, FALSE)
             C == A(x, TRUE)
  <2>1. x \in -m .. m /\ x \in Int /\ x - 0 \in -m .. m /\ x - x \in -m .. m
    <3>1. 1 \in 1 .. Len(o)
      <4>1. Len(o) = 1
        BY <1>1, <1>8
      <4>2. 1 \in 1 .. 1
        OBVIOUS
      <4> QED
        BY <4>1, <4>2
    <3> QED
      BY <1>2, <1>4, <1>8, <3>1
  <2> HIDE DEF x
  <2>2. /\ Follows(request, B, B) /\ Follows(request, B, C)
        /\ Follows(request, A(0, FALSE), B) /\ Follows(request, C, Back)
    BY <1>1, <1>4, <2>1, FollowsInTests
  <2>3. B \in Segment /\ C \in Segment
    BY <1>3, <2>1
  <2>4. B \in F /\ C \in L
    BY <2>2, <2>3 DEF After, Before
  <2>5. Path(request, <<B, B, C>>, {B}, {C})
    BY <2>2, <2>3, ShortPaths
  <2>6. Test(request) = <<B, B, C>>
    BY <1>8 DEF Test, x, o
  <2> HIDE DEF B, C, F, L
  <2>7. Path(request, <<B, B, C>>, F, L)
    BY <2>4, <2>5, PathWithin
  <2> QED
    BY <2>6, <2>7 DEF F, L
<1> QED
  BY <1>1, <1>5, <1>6, <1>7, <1>8

\* Every plan is a way from the countdown to the anchor held.
LEMMA PlanPath ==
  ASSUME IdentificationAssumption, anchor \in Int, request \in Requests,
         ArgumentsOK(request), Planned(anchor, request)
  PROVE  \A i \in 1 .. Len(Plan(request)) - 1 :
           Follows(request, Plan(request)[i], Plan(request)[i + 1])
<1> DEFINE A == HoldAt("anchor", 0, FALSE)
           C == Countdown
           M == MoveTo("anchor")
           test == Test(request)
           before == <<C, A>>
           after == <<M, A>>
<1>1. request.centre \in -MaxOffset .. MaxOffset /\ request.centre \in Int /\ 0 \in Int
  BY DEF IdentificationAssumption, ArgumentsOK
<1>2. A \in Segment /\ M \in Segment /\ C \in Segment
  <2>1. C \in Segment
    BY DEF Segment, Countdown
  <2> QED
    BY <1>1, <2>1, Places
<1>3. Follows(request, C, A) /\ Follows(request, M, A)
  BY <1>1, FollowsInTests
<1> HIDE DEF A, C, M
<1>4. Path(request, before, {C}, {A}) /\ Path(request, after, {M}, {A})
  BY <1>2, <1>3, ShortPaths
<1>5. Path(request, test, After(request, A), Before(request, M))
  BY TestPath DEF A, M
<1> HIDE DEF before, after, test
<1>6. Path(request, before \o test, {C}, Before(request, M))
  <2>1. \A s \in {A}, t \in After(request, A) : Follows(request, s, t)
    BY DEF After
  <2> QED
    BY <1>4, <1>5, <2>1, PathConcat
<1>7. Path(request, before \o test \o after, {C}, {A})
  <2>1. \A s \in Before(request, M), t \in {M} : Follows(request, s, t)
    BY DEF Before
  <2> HIDE DEF Before
  <2> QED
    BY <1>4, <1>6, <2>1, PathConcat
<1>8. Plan(request) = before \o test \o after
  BY DEF Plan, before, after, test, A, C, M
<1> QED
  BY <1>7, <1>8 DEF Path

\* The middle one of three, and what is within a distance of another.
LEMMA Within ==
  ASSUME NEW f \in Int, NEW g \in Int, NEW x \in Int, NEW y \in Int, NEW d \in Nat,
         g - f \in -d .. d,
         (f <= x /\ x <= g) \/ (g <= x /\ x <= f), (f <= y /\ y <= g) \/ (g <= y /\ y <= f)
  PROVE  y - x \in -d .. d
OBVIOUS

LEMMA Apart ==
  ASSUME NEW m \in Nat, NEW n \in Nat, NEW a \in Int, NEW p \in Int, NEW q \in Int, NEW x \in Int,
         q - p \in -m .. m, x - (a + p) \in -n .. n
  PROVE  (a + q) - x \in -(m + n) .. m + n
OBVIOUS

\* A goal o beyond what was measured, d off from where the joint was sent.
TakenNear(m, n, a, p, q, x, g) ==
  g \in Int /\ g - (a + q) \in -n .. n /\ g - x \in -(m + n) .. m + n

LEMMA MeasuredGoal ==
  ASSUME NEW m \in Nat, NEW n \in Nat, NEW a \in Int, NEW p \in Int, NEW o \in Int, NEW q,
         q = o + p, q - p \in -m .. m, NEW x \in Int, x = a + p, NEW d \in -n .. n, NEW g,
         g = (x + d) + o
  PROVE  TakenNear(m, n, a, p, q, x, g)
BY DEF TakenNear

\* All of a way.
LEMMA AllOfTheWay ==
  ASSUME NEW d \in Int, NEW m \in Nat \ {0} PROVE (d * m) \div m = d
<1> DEFINE x == d * m
           q == x \div m
<1>1. x \in Int /\ x = m * d
  OBVIOUS
<1>2. q \in Int /\ m * q <= x /\ x < m * q + m
  BY <1>1, Quotient
<1> HIDE DEF x, q
<1>3. m * q \in Int /\ m * d \in Int
  BY <1>2, Multiples
<1>4. m * q < m * d + m /\ m * d < m * q + m
  BY <1>1, <1>2, <1>3
<1>5. q <= d /\ d <= q
  BY <1>2, <1>4, Multiples
<1>6. q = d
  BY <1>2, <1>5
<1> QED
  BY <1>6 DEF q, x

\* A smooth move stays between its ends and ends at the second.
MovedTo(f, g, k, x) ==
  /\ x \in Int /\ ((f <= x /\ x <= g) \/ (g <= x /\ x <= f))
  /\ k = Move => x = g

LEMMA MoveStaysBetween ==
  ASSUME IdentificationAssumption, NEW f \in Int, NEW g \in Int, NEW k \in 1 .. Move, NEW x,
         x = f + ((g - f) * Smooth(k, Move)) \div (Move * Move * Move)
  PROVE  MovedTo(f, g, k, x)
<1>1. Move \in Nat \ {0} /\ g - f \in Int
  BY DEF IdentificationAssumption
<1> DEFINE m == Move * Move * Move
           a == Smooth(k, Move)
           part == ((g - f) * a) \div m
<1>2. m \in Nat \ {0} /\ a \in 0 .. m
  BY <1>1, SmoothPart
<1>3. k = Move => a = m
  <2>1. Smooth(Move, Move) = Move * Move * Move
    BY <1>1 DEF Smooth
  <2> QED
    BY <2>1
<1> HIDE DEF m, a
<1>4. /\ part \in Int
      /\ g - f >= 0 => 0 <= part /\ part <= g - f
      /\ g - f <= 0 => g - f <= part /\ part <= 0
  BY <1>1, <1>2, PartOfTheWay
<1>5. k = Move => part = g - f
  BY <1>1, <1>2, <1>3, AllOfTheWay
<1>6. x = f + part
  BY DEF part, m, a
<1> HIDE DEF part
<1>7. x \in Int /\ ((f <= x /\ x <= g) \/ (g <= x /\ x <= f))
  BY <1>1, <1>4, <1>6
<1>8. k = Move => x = g
  BY <1>5, <1>6
<1> QED
  BY <1>7, <1>8 DEF MovedTo

\* The triangle: back, nothing, forth, nothing.
Wave(n) == <<-1, 0, 1, 0>>[(n % 4) + 1]

LEMMA WaveSteps ==
  /\ \A n \in Nat : Wave(n) \in {-1, 0, 1} /\ Wave(n + 1) - Wave(n) \in {-1, 0, 1}
  /\ Wave(0) = -1
<1>1. ASSUME NEW n \in Nat
      PROVE  Wave(n) \in {-1, 0, 1} /\ Wave(n + 1) - Wave(n) \in {-1, 0, 1}
  <2>1. \/ n % 4 = 0 /\ (n + 1) % 4 = 1
        \/ n % 4 = 1 /\ (n + 1) % 4 = 2
        \/ n % 4 = 2 /\ (n + 1) % 4 = 3
        \/ n % 4 = 3 /\ (n + 1) % 4 = 0
    OBVIOUS
  <2>2. 0 + 1 = 1 /\ 1 + 1 = 2 /\ 2 + 1 = 3 /\ 3 + 1 = 4
    OBVIOUS
  <2>3. \/ Wave(n) = -1 /\ Wave(n + 1) = 0
        \/ Wave(n) = 0 /\ Wave(n + 1) = 1
        \/ Wave(n) = 1 /\ Wave(n + 1) = 0
        \/ Wave(n) = 0 /\ Wave(n + 1) = -1
    BY <2>1, <2>2 DEF Wave
  <2> QED
    BY <2>3
<1>2. Wave(0) = -1
  BY DEF Wave
<1> QED
  BY <1>1, <1>2

\* Two of the points of a swing that follow each other are x apart at most.
LEMMA SwingStep ==
  ASSUME NEW m \in Nat, NEW a \in Int, NEW x \in -m .. m, NEW s \in {-1, 0, 1},
         NEW t \in {-1, 0, 1}, t - s \in {-1, 0, 1}
  PROVE  /\ a + t * x \in Int /\ a + s * x \in Int
         /\ (a + t * x) - (a + s * x) \in -m .. m
<1>1. s = -1 \/ s = 0 \/ s = 1
  OBVIOUS
<1>2. t = -1 \/ t = 0 \/ t = 1
  OBVIOUS
<1>3. -1 * x = -x /\ 0 * x = 0 /\ 1 * x = x /\ x \in Int
  OBVIOUS
<1>4. ~(s = -1 /\ t = 1) /\ ~(s = 1 /\ t = -1)
  OBVIOUS
<1> QED
  BY <1>1, <1>2, <1>3, <1>4

\* Where a segment leads when the one before ended at x.
LeadsTo(a, r, t, x, base, g) ==
  /\ t.base = "anchor" => base = a
  /\ t.base = "centre" => base = a + r.centre
  /\ t.base = "local" => \E d \in -Sag .. Sag : base = x + d
  /\ t.base # "none" => g = base + t.offset
Begins(a, r, t, x, g) ==
  /\ t.kind \in {"hold", "move"} =>
       g \in Int /\ EndsAt(a, r, t, g) /\ Near(g, x)
  /\ t.kind = "triangle" => x = a

LEMMA NextGoal ==
  ASSUME IdentificationAssumption, NEW a \in Int, NEW r, r.centre \in Int,
         NEW s \in Fitting(a, r), NEW t \in Fitting(a, r), s.kind # "countdown",
         Follows(r, s, t), NEW x \in Int, EndsAt(a, r, s, x), NEW base, NEW g,
         LeadsTo(a, r, t, x, base, g)
  PROVE  Begins(a, r, t, x, g)
<1> DEFINE p == Place(r, s)
           q == Place(r, t)
<1>1. /\ MaxOffset \in Nat /\ Sag \in Nat /\ s.offset \in Int /\ t.offset \in Int
      /\ s.kind \in {"hold", "move", "triangle"}
      /\ t.base \in {"anchor", "centre", "local", "none"}
  BY DEF IdentificationAssumption, Fitting, Segment
<1>2. p \in Int /\ q \in Int
  <2>1. (p = s.offset + r.centre \/ p = s.offset + 0) /\ (q = t.offset + r.centre \/ q = t.offset + 0)
    BY DEF Place
  <2>2. \A u, v \in Int : u + v \in Int /\ u + 0 \in Int
    OBVIOUS
  <2> HIDE DEF p, q
  <2> QED
    BY <1>1, <2>1, <2>2, ZenonT(40)
<1>3. /\ q - p \in -MaxOffset .. MaxOffset
      /\ t.base = "local" => s.base = "centre"
      /\ s.kind = "triangle" => t.base = "anchor" /\ t.offset = 0
      /\ t.kind = "triangle" => s.base = "anchor" /\ s.offset = 0
  BY DEF Follows
<1>4. /\ t.kind = "hold" => t.base # "none"
      /\ t.kind = "move" => t.base \in {"anchor", "centre"}
      /\ s.base = "centre" /\ s.kind # "triangle" => s.offset = 0
      /\ s.kind = "triangle" => s.base = "none"
  <2>1. Fits(a, r, s) /\ Fits(a, r, t)
    BY DEF Fitting
  <2>2. /\ t.kind = "hold" => t.base # "none"
        /\ t.kind = "move" => t.base \in {"anchor", "centre"}
    BY <2>1 DEF Fits
  <2>3. /\ s.kind = "hold" => (s.base = "centre" => s.offset = 0)
        /\ s.kind = "move" => s.offset = 0
        /\ s.kind = "triangle" => s.base = "none"
    BY <2>1 DEF Fits
  <2> QED
    BY <1>1, <2>2, <2>3
<1>5. ASSUME s.kind = "triangle" PROVE p = s.offset /\ q = 0
  <2>1. p = s.offset + 0 /\ q = 0 + 0
    BY <1>3, <1>4, <1>5 DEF Place
  <2> HIDE DEF p, q
  <2> QED
    BY <1>1, <2>1
<1>6. s.kind # "triangle" => x - (a + p) \in -Sag .. Sag
  <2>1. s.kind # "triangle" => x - (a + p) \in -Sag .. Sag \/ x = a + p
    BY DEF EndsAt
  <2> HIDE DEF p
  <2>2. x = a + p => x - (a + p) \in -Sag .. Sag
    BY <1>1, <1>2
  <2> QED
    BY <2>1, <2>2
<1>7. ASSUME s.kind = "triangle" PROVE x \in {a + p, a - p, a}
  <2>1. x \in {a + s.offset, a - s.offset, a}
    BY <1>4, <1>7 DEF EndsAt
  <2> HIDE DEF p, q
  <2> QED
    BY <1>5, <1>7, <2>1
<1>8. t.kind = "triangle" => x = a
  <2>1. CASE s.kind = "triangle"
    BY <1>1, <1>3, <1>4, <2>1
  <2>2. CASE s.kind # "triangle"
    <3>1. t.kind = "triangle" => s.base = "anchor" /\ p = 0
      BY <1>3 DEF Place
    <3>2. t.kind = "triangle" => x = a + p
      BY <2>2, <3>1 DEF EndsAt
    <3> QED
      BY <3>1, <3>2
  <2> QED
    BY <2>1, <2>2
<1>9. ASSUME t.kind \in {"hold", "move"}, t.base \in {"anchor", "centre"}
      PROVE  g \in Int /\ EndsAt(a, r, t, g) /\ Near(g, x)
  <2>1. g = a + q
    BY <1>1, <1>9 DEF Place, LeadsTo
  <2>2. EndsAt(a, r, t, g)
    BY <1>9, <2>1 DEF EndsAt
  <2> HIDE DEF p, q
  <2>3. g - x \in -(MaxOffset + Sag) .. MaxOffset + Sag
    <3>1. CASE s.kind = "triangle"
      <4>1. q = 0 /\ x \in {a + p, a - p, a}
        BY <1>5, <1>7, <3>1
      <4> QED
        BY <1>1, <1>2, <1>3, <2>1, <4>1
    <3>2. CASE s.kind # "triangle"
      <4>1. x - (a + p) \in -Sag .. Sag
        BY <1>6, <3>2
      <4> QED
        BY <1>1, <1>2, <1>3, <2>1, <4>1, Apart
    <3> QED
      BY <3>1, <3>2
  <2> QED
    BY <1>2, <2>1, <2>2, <2>3 DEF Near
<1>10. ASSUME t.kind = "hold", t.base = "local"
       PROVE  g \in Int /\ EndsAt(a, r, t, g) /\ Near(g, x)
  <2>1. s.base = "centre" /\ s.kind # "triangle" /\ s.offset = 0
    BY <1>3, <1>4, <1>10
  <2>2. p = r.centre /\ q = t.offset + r.centre
    BY <1>10, <2>1 DEF Place
  <2>3. x = a + p
    BY <2>1 DEF EndsAt
  <2>4. PICK d \in -Sag .. Sag : g = (x + d) + t.offset
    BY <1>10 DEF LeadsTo
  <2> HIDE DEF p, q
  <2>5. /\ g \in Int /\ g - (a + q) \in -Sag .. Sag
        /\ g - x \in -(MaxOffset + Sag) .. MaxOffset + Sag
    <3>1. p \in Int /\ q = t.offset + p
      BY <1>2, <2>2
    <3>2. /\ MaxOffset \in Nat /\ Sag \in Nat /\ t.offset \in Int
          /\ q - p \in -MaxOffset .. MaxOffset /\ d \in -Sag .. Sag /\ g = (x + d) + t.offset
      BY <1>1, <1>3, <2>4
    <3>3. x \in Int /\ x = a + p
      BY <2>3, <3>1
    <3>4. TakenNear(MaxOffset, Sag, a, p, q, x, g)
      BY <3>1, <3>2, <3>3, MeasuredGoal, Zenon
    <3> QED
      BY <3>4 DEF TakenNear
  <2>6. EndsAt(a, r, t, g)
    BY <1>10, <2>5 DEF EndsAt, q
  <2> QED
    BY <2>5, <2>6 DEF Near
<1> QED
  BY <1>1, <1>4, <1>8, <1>9, <1>10 DEF Begins

\* What is known of the segment a tick belongs to.
LEMMA CurrentSegment ==
  ASSUME IdentificationAssumption, PlanFits, at = "run", left > 0
  PROVE  /\ plan # <<>> /\ Len(plan) \in Nat \ {0} /\ left \in Nat \ {0}
         /\ plan \in Seq(Fitting(anchor, request))
         /\ plan[1] \in Fitting(anchor, request)
         /\ plan[1].kind \in {"countdown", "hold", "move", "triangle"} /\ plan[1].offset \in Int
         /\ left \in 1 .. (IF plan[1].kind = "move" THEN Move ELSE Hold)
         /\ plan[1].kind = "countdown" =>
              Len(plan) > 1 /\ plan[2] = HoldAt("anchor", 0, FALSE)
         /\ Len(plan) > 1 =>
              plan[2] \in Fitting(anchor, request) /\ plan[2].kind # "countdown"
         /\ Len(plan) = 1 => plan[1] = HoldAt("anchor", 0, FALSE)
<1>1. /\ Len(plan) \in Nat /\ (plan = <<>> <=> Len(plan) = 0) /\ (Len(plan) > 0 => left \in Nat)
      /\ \A i \in 1 .. Len(plan) : plan[i] \in Fitting(anchor, request)
      /\ Len(plan) = 1 => plan[1] = HoldAt("anchor", 0, FALSE)
  BY WayBackBegun
<1>2. plan # <<>>
  BY DEF PlanFits
<1>3. Len(plan) \in Nat \ {0} /\ left \in Nat \ {0}
  <2>1. Len(plan) \in Nat \ {0} /\ \A n \in Nat \ {0} : n > 0
    BY <1>1, <1>2
  <2>2. left \in Nat /\ \A n \in Nat : n > 0 => n \in Nat \ {0}
    BY <1>1, <2>1
  <2> QED
    BY <2>1, <2>2
<1>4. /\ plan \in Seq(Fitting(anchor, request))
      /\ left \in 1 .. (IF plan[1].kind = "move" THEN Move ELSE Hold)
      /\ plan[1].kind = "countdown" =>
           Len(plan) > 1 /\ plan[2] = HoldAt("anchor", 0, FALSE)
      /\ \A i \in 2 .. Len(plan) : plan[i].kind # "countdown"
  BY <1>2 DEF PlanFits, Current
<1>5. 1 \in 1 .. Len(plan) /\ (Len(plan) > 1 => 2 \in 1 .. Len(plan) /\ 2 \in 2 .. Len(plan))
  BY <1>3
<1>6. plan[1].kind \in {"countdown", "hold", "move", "triangle"} /\ plan[1].offset \in Int
  BY <1>1, <1>5 DEF Fitting, Segment
<1>7. Len(plan) > 1 => plan[2] \in Fitting(anchor, request) /\ plan[2].kind # "countdown"
  BY <1>1, <1>4, <1>5
<1>8. plan[1] \in Fitting(anchor, request)
  BY <1>1, <1>5
<1> QED
  BY <1>1, <1>2, <1>3, <1>4, <1>6, <1>7, <1>8

Reach == MaxOffset + Sag

\* What a tick publishes.
Published(kind, offset) ==
  /\ kind = "countdown" => ref' = NoReference /\ ref = NoReference
  /\ kind = "hold" => ref' = goal /\ ref' \in Int
  /\ kind = "move" => /\ ref' \in Int /\ (left = 1 => ref' = goal)
                      /\ (from <= ref' /\ ref' <= goal) \/ (goal <= ref' /\ ref' <= from)
  /\ kind = "triangle" => /\ ref' = anchor + Wave(Hold - left) * offset
                          /\ ref' \in Int /\ ref' \in {anchor + offset, anchor - offset, anchor}
  /\ ref # NoReference => ref' - ref \in -Reach .. Reach

LEMMA TickPublishes ==
  ASSUME IdentificationAssumption, PlanFits, RefsFit, WayHolds,
         TestTick, anchor \in Int
  PROVE  Published(plan[1].kind, plan[1].offset)
<1>1. /\ MaxOffset \in Nat /\ Sag \in Nat /\ Reach \in Nat /\ Hold \in Nat \ {0}
      /\ Move \in Nat \ {0}
  BY DEF IdentificationAssumption, Reach
<1>2. at = "run" /\ left > 0 /\ PublishSegment
  BY DEF TestTick
<1>3. /\ plan # <<>> /\ Len(plan) \in Nat \ {0} /\ left \in Nat \ {0}
      /\ plan[1].kind \in {"countdown", "hold", "move", "triangle"} /\ plan[1].offset \in Int
      /\ left \in 1 .. (IF plan[1].kind = "move" THEN Move ELSE Hold)
      /\ plan[1] \in Fitting(anchor, request)
      /\ Len(plan) = 1 => plan[1] = HoldAt("anchor", 0, FALSE)
  BY <1>2, CurrentSegment
<1>4. /\ ref = NoReference \/ ref \in Int
      /\ plan[1].kind = "hold" => goal \in Int
      /\ plan[1].kind = "move" => from \in Int /\ goal \in Int
  BY <1>2, <1>3 DEF RefsFit, Current, Sent
<1>5. /\ \A i \in 1 .. Len(plan) - 1 : Follows(request, plan[i], plan[i + 1])
      /\ plan[1].kind = "countdown" => ref = NoReference
      /\ plan[1].kind = "hold" => ref = NoReference \/ Near(goal, ref)
      /\ plan[1].kind = "move" =>
           /\ Near(goal, from) /\ ref \in Int
           /\ (from <= ref /\ ref <= goal) \/ (goal <= ref /\ ref <= from)
      /\ plan[1].kind = "triangle" =>
           ref = IF left = Hold THEN anchor
                 ELSE anchor + <<-1, 0, 1, 0>>[((Hold - left - 1) % 4) + 1] * plan[1].offset
  BY <1>2, <1>3 DEF WayHolds, Current
<1>6. CASE plan[1].kind = "countdown"
  <2>1. ref' = ref /\ ref = NoReference
    BY <1>2, <1>5, <1>6 DEF PublishSegment, Current
  <2> QED
    BY <1>6, <2>1 DEF Published
<1>7. CASE plan[1].kind = "hold"
  <2>1. ref' = goal
    BY <1>2, <1>7 DEF PublishSegment, Current
  <2>2. ref # NoReference => ref' - ref \in -Reach .. Reach
    BY <1>5, <1>7, <2>1 DEF Near, Reach
  <2>3. ref' \in Int
    BY <1>4, <1>7, <2>1
  <2> QED
    BY <1>7, <2>1, <2>2, <2>3 DEF Published
<1>8. CASE plan[1].kind = "move"
  <2>1. ref' = from + ((goal - from) * Smooth(Move - left + 1, Move))
                        \div (Move * Move * Move)
    BY <1>2, <1>8 DEF PublishSegment, Current
  <2>2. Move - left + 1 \in 1 .. Move /\ (left = 1 => Move - left + 1 = Move)
    BY <1>1, <1>3, <1>8
  <2>3. /\ ref' \in Int /\ ((from <= ref' /\ ref' <= goal) \/ (goal <= ref' /\ ref' <= from))
        /\ left = 1 => ref' = goal
    <3> DEFINE k == Move - left + 1
    <3>1. from \in Int /\ goal \in Int /\ k \in 1 .. Move /\ (left = 1 => k = Move)
          /\ ref' = from + ((goal - from) * Smooth(k, Move)) \div (Move * Move * Move)
      BY <1>4, <1>8, <2>1, <2>2
    <3> HIDE DEF k
    <3>2. MovedTo(from, goal, k, ref')
      BY <3>1, MoveStaysBetween, Zenon
    <3> QED
      BY <3>1, <3>2 DEF MovedTo
  <2>4. ref' - ref \in -Reach .. Reach
    <3>1. goal - from \in -Reach .. Reach
      BY <1>5, <1>8 DEF Near, Reach
    <3>2. ref \in Int /\ ((from <= ref /\ ref <= goal) \/ (goal <= ref /\ ref <= from))
      BY <1>5, <1>8
    <3> QED
      BY <1>1, <1>4, <1>8, <2>3, <3>1, <3>2, Within
  <2> QED
    BY <1>8, <2>3, <2>4 DEF Published
<1>9. CASE plan[1].kind = "triangle"
  <2> DEFINE x == plan[1].offset
             n == Hold - left
  <2>1. n \in Nat /\ (left # Hold => n - 1 \in Nat /\ n = (n - 1) + 1)
        /\ (left = Hold => n = 0)
    <3>1. left \in 1 .. Hold
      BY <1>3, <1>9
    <3>2. \A h \in Nat \ {0} : \A l \in 1 .. h :
            /\ h - l \in Nat /\ (l # h => (h - l) - 1 \in Nat /\ h - l = ((h - l) - 1) + 1)
            /\ (l = h => h - l = 0)
      OBVIOUS
    <3> QED
      BY <1>1, <3>1, <3>2, Zenon
  <2>2. ref' = anchor + Wave(n) * x
    BY <1>2, <1>9 DEF PublishSegment, Current, Wave
  <2>3. x \in -MaxOffset .. MaxOffset
    <3>1. Len(plan) > 1
      <4>1. Len(plan) # 1
        BY <1>3, <1>9 DEF HoldAt
      <4>2. \A k \in Nat \ {0} : k # 1 => k > 1
        OBVIOUS
      <4> QED
        BY <1>3, <4>1, <4>2
    <3>2. 1 \in 1 .. Len(plan) - 1 /\ 1 + 1 = 2
      BY <1>3, <3>1
    <3>3. Follows(request, plan[1], plan[2])
      BY <1>5, <3>2
    <3>4. /\ Place(request, plan[2]) - Place(request, plan[1])
               \in -MaxOffset .. MaxOffset
          /\ plan[2].base = "anchor" /\ plan[2].offset = 0
      BY <1>9, <3>3 DEF Follows
    <3>5. plan[1].base = "none"
      BY <1>3, <1>9 DEF Fitting, Fits
    <3>6. Place(request, plan[1]) = x + 0 /\ Place(request, plan[2]) = 0 + 0
      BY <3>4, <3>5 DEF Place
    <3> HIDE DEF x
    <3>7. x \in Int
      BY <1>3 DEF x
    <3> QED
      BY <1>1, <3>4, <3>6, <3>7
  <2> HIDE DEF n
  <2>4. \E s \in {-1, 0, 1} : ref = anchor + s * x /\ Wave(n) - s \in {-1, 0, 1}
    <3>1. CASE left = Hold
      <4>1. ref = anchor + 0 * x
        <5>1. ref = anchor
          BY <1>5, <1>9, <3>1
        <5>2. \A a, y \in Int : a = a + 0 * y
          OBVIOUS
        <5> QED
          BY <1>3, <5>1, <5>2
      <4>2. Wave(n) - 0 \in {-1, 0, 1}
        BY <2>1, <3>1, WaveSteps
      <4> QED
        BY <4>1, <4>2
    <3>2. CASE left # Hold
      <4>1. n - 1 \in Nat /\ n = (n - 1) + 1
        BY <2>1, <3>2
      <4>2. ref = anchor + Wave(n - 1) * x
        BY <1>5, <1>9, <3>2 DEF Wave, n
      <4>3. Wave(n - 1) \in {-1, 0, 1} /\ Wave((n - 1) + 1) - Wave(n - 1) \in {-1, 0, 1}
        BY <4>1, WaveSteps, Zenon
      <4> QED
        BY <4>1, <4>2, <4>3
    <3> QED
      BY <3>1, <3>2
  <2>5. Wave(n) \in {-1, 0, 1}
    BY <2>1, WaveSteps
  <2> HIDE DEF x
  <2>6. ref' \in Int /\ ref' - ref \in -Reach .. Reach
    <3>1. PICK s \in {-1, 0, 1} : ref = anchor + s * x /\ Wave(n) - s \in {-1, 0, 1}
      BY <2>4
    <3>2. /\ anchor + Wave(n) * x \in Int
          /\ (anchor + Wave(n) * x) - (anchor + s * x) \in -MaxOffset .. MaxOffset
      BY <1>1, <2>3, <2>5, <3>1, SwingStep
    <3>3. \A d \in -MaxOffset .. MaxOffset : d \in -Reach .. Reach
      BY <1>1 DEF Reach
    <3> QED
      BY <2>2, <3>1, <3>2, <3>3
  <2>7. ref' \in {anchor + x, anchor - x, anchor}
    <3>1. x \in Int
      BY <1>3 DEF x
    <3>2. anchor + Wave(n) * x \in {anchor + x, anchor + (-x), anchor}
      BY <2>5, <3>1, Swing, Zenon
    <3>3. anchor + (-x) = anchor - x
      BY <3>1
    <3> QED
      BY <2>2, <3>2, <3>3
  <2> QED
    BY <1>9, <2>2, <2>6, <2>7 DEF Published, n, x
<1> QED
  BY <1>3, <1>6, <1>7, <1>8, <1>9

\* A segment ends where it leads.
LEMMA SegmentEnds ==
  ASSUME IdentificationAssumption, PlanFits, RefsFit, WayHolds,
         TestTick, anchor \in Int, left = 1, plan[1].kind # "countdown"
  PROVE  ref' \in Int /\ EndsAt(anchor, request, plan[1], ref')
<1>1. Published(plan[1].kind, plan[1].offset)
  BY TickPublishes
<1>2. at = "run" /\ left > 0
  BY DEF TestTick
<1>3. plan # <<>> /\ plan[1].kind \in {"countdown", "hold", "move", "triangle"}
      /\ plan[1] \in Fitting(anchor, request)
  BY <1>2, CurrentSegment
<1>4. CASE plan[1].kind \in {"hold", "move"}
  <2>1. EndsAt(anchor, request, plan[1], goal)
    BY <1>2, <1>3, <1>4 DEF WayHolds, Current
  <2>2. ref' = goal /\ ref' \in Int
    BY <1>1, <1>4 DEF Published
  <2> QED
    BY <2>1, <2>2
<1>5. CASE plan[1].kind = "triangle"
  <2>1. ref' \in Int /\ ref' \in {anchor + plan[1].offset, anchor - plan[1].offset, anchor}
    BY <1>1, <1>5 DEF Published
  <2>2. plan[1].base # "local"
    BY <1>3, <1>5 DEF Fitting, Fits
  <2> QED
    BY <1>5, <2>1, <2>2 DEF EndsAt
<1> QED
  BY <1>3, <1>4, <1>5

\* What WayHolds says of the segment s with l ticks left.
WayOf(a, r, s, l, f, g, x) ==
  /\ s.kind = "countdown" => x = NoReference
  /\ s.kind \in {"hold", "move"} => EndsAt(a, r, s, g)
  /\ s.kind = "hold" => x = NoReference \/ Near(g, x)
  /\ s.kind = "move" => /\ Near(g, f) /\ x \in Int
                        /\ (f <= x /\ x <= g) \/ (g <= x /\ x <= f)
  /\ s.kind = "triangle" => x = IF l = Hold THEN a ELSE a + Wave(Hold - l - 1) * s.offset

LEMMA WayByPart ==
  WayHolds <=>
    (at = "run" /\ plan # <<>> =>
       /\ \A i \in 1 .. Len(plan) - 1 : Follows(request, plan[i], plan[i + 1])
       /\ WayOf(anchor, request, plan[1], left, from, goal, ref))
BY DEF WayHolds, Current, WayOf, Wave

LEMMA WayByPartNext ==
  WayHolds' <=>
    (at' = "run" /\ plan' # <<>> =>
       /\ \A i \in 1 .. Len(plan') - 1 : Follows(request', plan'[i], plan'[i + 1])
       /\ WayOf(anchor', request', plan'[1], left', from', goal', ref'))
BY DEF WayHolds, Current, WayOf, Wave

\* The way within a segment.
LEMMA WayGoesOn ==
  ASSUME IdentificationAssumption, PlanFits, RefsFit, WayHolds,
         TestTick, anchor \in Int, left > 1
  PROVE  WayOf(anchor, request, plan[1], left - 1, from, goal, ref')
<1>1. Published(plan[1].kind, plan[1].offset)
  BY TickPublishes
<1>2. at = "run" /\ left > 0
  BY DEF TestTick
<1>3. /\ plan # <<>> /\ left \in Nat \ {0}
      /\ left \in 1 .. (IF plan[1].kind = "move" THEN Move ELSE Hold)
  BY <1>2, CurrentSegment
<1>4. WayOf(anchor, request, plan[1], left, from, goal, ref)
  BY <1>2, <1>3, WayByPart
<1>5. /\ plan[1].kind = "countdown" => ref' = NoReference
      /\ plan[1].kind \in {"hold", "move"} => EndsAt(anchor, request, plan[1], goal)
  BY <1>1, <1>4 DEF Published, WayOf
<1>6. plan[1].kind = "hold" => Near(goal, ref')
  <2>1. plan[1].kind = "hold" => ref' = goal /\ ref' \in Int
    BY <1>1 DEF Published
  <2>2. \A x \in Int : x - x \in -(MaxOffset + Sag) .. MaxOffset + Sag
    BY DEF IdentificationAssumption
  <2> QED
    BY <2>1, <2>2 DEF Near
<1>7. plan[1].kind = "move" =>
        /\ Near(goal, from) /\ ref' \in Int
        /\ (from <= ref' /\ ref' <= goal) \/ (goal <= ref' /\ ref' <= from)
  BY <1>1, <1>4 DEF Published, WayOf
<1>8. ASSUME plan[1].kind = "triangle"
      PROVE  ref' = IF left - 1 = Hold THEN anchor
                    ELSE anchor + Wave(Hold - (left - 1) - 1) * plan[1].offset
  <2>1. Hold \in Nat \ {0} /\ left \in 1 .. Hold
    BY <1>3, <1>8 DEF IdentificationAssumption
  <2>2. left - 1 # Hold /\ Hold - (left - 1) - 1 = Hold - left
    BY <2>1
  <2>3. ref' = anchor + Wave(Hold - left) * plan[1].offset
    BY <1>1, <1>8 DEF Published
  <2> QED
    BY <2>2, <2>3
<1> QED
  BY <1>5, <1>6, <1>7, <1>8 DEF WayOf

\* The way from one segment to the next.
LEMMA WayTurns ==
  ASSUME IdentificationAssumption, PlanFits, RefsFit, WayHolds,
         TestTick, anchor \in Int, request.centre \in Int, left = 1, Len(plan) > 1,
         NEW base \in Bases(plan[2]), NEW l, NEW g,
         l = (IF plan[2].kind = "move" THEN Move ELSE Hold),
         g = IF plan[2].base = "none" THEN ref ELSE base + plan[2].offset
  PROVE  WayOf(anchor, request, plan[2], l, ref', g, ref')
<1>1. Published(plan[1].kind, plan[1].offset)
  BY TickPublishes
<1>2. at = "run" /\ left > 0
  BY DEF TestTick
<1>3. /\ plan # <<>> /\ Len(plan) \in Nat \ {0}
      /\ plan[1] \in Fitting(anchor, request)
      /\ plan[2] \in Fitting(anchor, request) /\ plan[2].kind # "countdown"
      /\ plan[1].kind = "countdown" => plan[2] = HoldAt("anchor", 0, FALSE)
  BY <1>2, CurrentSegment
<1>4. plan[2].base = "anchor" => base = anchor
  BY DEF Bases
<1>5. CASE plan[1].kind = "countdown"
  <2>1. plan[2] = HoldAt("anchor", 0, FALSE) /\ ref' = NoReference
    BY <1>1, <1>3, <1>5 DEF Published
  <2>2. plan[2].kind = "hold" /\ plan[2].base = "anchor" /\ plan[2].offset = 0
    BY <2>1 DEF HoldAt
  <2>3. g = anchor + 0
    BY <1>4, <2>2
  <2>4. Place(request, plan[2]) = 0 + 0 /\ 0 + 0 = 0
    BY <2>2 DEF Place
  <2>5. EndsAt(anchor, request, plan[2], g)
    BY <2>2, <2>3, <2>4 DEF EndsAt
  <2> QED
    BY <2>1, <2>2, <2>5 DEF WayOf
<1>6. CASE plan[1].kind # "countdown"
  <2>1. ref' \in Int /\ EndsAt(anchor, request, plan[1], ref')
    BY <1>6, SegmentEnds
  <2>2. Follows(request, plan[1], plan[2])
    <3>1. 1 \in 1 .. Len(plan) - 1 /\ 1 + 1 = 2
      BY <1>3
    <3> QED
      BY <1>2, <1>3, <3>1, WayByPart
  <2>3. LeadsTo(anchor, request, plan[2], ref', base, g)
    BY <1>4 DEF Bases, Centre, Measured, LeadsTo
  <2>4. Begins(anchor, request, plan[2], ref', g)
    <3> DEFINE s == plan[1]
               t == plan[2]
               x == ref'
    <3>1. /\ s \in Fitting(anchor, request) /\ t \in Fitting(anchor, request)
          /\ s.kind # "countdown" /\ Follows(request, s, t) /\ x \in Int
          /\ EndsAt(anchor, request, s, x) /\ LeadsTo(anchor, request, t, x, base, g)
      BY <1>3, <1>6, <2>1, <2>2, <2>3
    <3> HIDE DEF s, t, x
    <3>2. Begins(anchor, request, t, x, g)
      BY <3>1, NextGoal, Zenon
    <3> QED
      BY <3>2 DEF t, x
  <2>5. plan[2].kind = "move" => (ref' <= ref' /\ ref' <= g) \/ (g <= ref' /\ ref' <= ref')
    <3>1. \A u, v \in Int : (u <= u /\ u <= v) \/ (v <= u /\ u <= u)
      OBVIOUS
    <3>2. plan[2].kind = "move" => g \in Int
      BY <2>4, Zenon DEF Begins
    <3> QED
      BY <2>1, <3>1, <3>2, Zenon
  <2>6. plan[2].kind = "triangle" => l = Hold
    OBVIOUS
  <2> QED
    BY <1>3, <2>1, <2>4, <2>5, <2>6 DEF WayOf, Begins
<1> QED
  BY <1>5, <1>6

LEMMA TickWay ==
  ASSUME IdentificationAssumption, PlanFits, TelemetryTypes, RefsFit,
         WayHolds, TestTick, anchor \in Int, request.centre \in Int
  PROVE  WayHolds'
<1> SUFFICES ASSUME at' = "run", plan' # <<>>
             PROVE  /\ \A i \in 1 .. Len(plan') - 1 : Follows(request', plan'[i], plan'[i + 1])
                    /\ WayOf(anchor', request', plan'[1], left', from', goal', ref')
  BY WayByPartNext
<1>1. at = "run" /\ NextSegment /\ Len(plan) \in Nat /\ plan # <<>> /\ left > 0
      /\ plan \in Seq(Fitting(anchor, request))
  <2>1. at = "run" /\ left > 0
    BY DEF TestTick
  <2> QED
    BY <2>1, TickSegments, CurrentSegment
<1>2. anchor' = anchor /\ request' = request
  BY DEF TestTick
<1>3. \A i \in 1 .. Len(plan) - 1 : Follows(request, plan[i], plan[i + 1])
  BY <1>1, WayByPart
<1>4. CASE left > 1 /\ left' = left - 1 /\ plan' = plan /\ from' = from /\ goal' = goal
  <2>1. WayOf(anchor, request, plan[1], left - 1, from, goal, ref')
    BY <1>4, WayGoesOn
  <2> QED
    BY <1>2, <1>3, <1>4, <2>1
<1>5. CASE /\ left = 1 /\ Len(plan) > 1 /\ plan' = Tail(plan)
           /\ left' = IF plan[2].kind = "move" THEN Move ELSE Hold
           /\ from' = ref'
           /\ \E base \in Bases(plan[2]) :
                /\ plan[2].kind # "hold" \/ Valid(base, plan[2].offset)
                /\ goal' = IF plan[2].base = "none" THEN ref ELSE base + plan[2].offset
  <2>1. /\ Len(plan') = Len(plan) - 1
        /\ \A i \in 1 .. Len(plan) - 1 : plan'[i] = plan[i + 1]
    BY <1>1, <1>5, RestOfPlan
  <2>2. WayOf(anchor, request, plan[2], left', from', goal', ref')
    BY <1>5, WayTurns
  <2>3. plan'[1] = plan[2]
    <3>1. 1 \in 1 .. Len(plan) - 1 /\ 1 + 1 = 2
      BY <1>1, <1>5
    <3> QED
      BY <2>1, <3>1
  <2>4. ASSUME NEW i \in 1 .. Len(plan') - 1
        PROVE  Follows(request, plan'[i], plan'[i + 1])
    <3>1. /\ i \in 1 .. Len(plan) - 1 /\ i + 1 \in 1 .. Len(plan) - 1
      BY <1>1, <2>1
    <3>2. plan'[i] = plan[i + 1] /\ plan'[i + 1] = plan[(i + 1) + 1]
      BY <2>1, <3>1
    <3> QED
      BY <1>3, <3>1, <3>2
  <2> QED
    BY <1>2, <2>2, <2>3, <2>4
<1> QED
  BY <1>1, <1>4, <1>5 DEF NextSegment

LEMMA ArmedWay ==
  ASSUME IdentificationAssumption, IdentificationIInv, Armed PROVE WayHolds'
<1> SUFFICES ASSUME at' = "run" PROVE WayHolds'
  BY WayByPartNext
<1>1. /\ plan' = Plan(request) /\ request' = request /\ anchor' = anchor /\ ref' = ref
      /\ at = "armed"
  BY DEF Armed, Exit, Fails
<1>2. /\ anchor \in Int /\ request \in Requests /\ ArgumentsOK(request)
      /\ Planned(anchor, request) /\ ref = NoReference
  BY <1>1 DEF IdentificationIInv, RequestHolds
<1>3. \A i \in 1 .. Len(plan') - 1 : Follows(request', plan'[i], plan'[i + 1])
  BY <1>1, <1>2, PlanPath
<1>4. plan'[1] = Countdown
  <2>1. Framed(plan', Countdown, HoldAt("anchor", 0, FALSE), Test(request),
               MoveTo("anchor"), HoldAt("anchor", 0, FALSE), Further,
               Fitting(anchor, request))
    BY <1>1, <1>2, PlanIsFramed
  <2> QED
    BY <2>1 DEF Framed
<1>5. WayOf(anchor', request', plan'[1], left', from', goal', ref')
  BY <1>1, <1>2, <1>4 DEF WayOf, Countdown
<1> QED
  BY <1>3, <1>5, WayByPartNext

\* Only a tick and the arming lead to the run.
LEMMA WayStep ==
  ASSUME IdentificationAssumption, IdentificationIInv, WayHolds,
         [IdentificationNext]_identificationVars
  PROVE  WayHolds'
<1>1. CASE TestTick
  <2>1. /\ PlanFits /\ TelemetryTypes /\ RefsFit
    BY DEF IdentificationIInv
  <2>2. anchor \in Int /\ request.centre \in Int
    <3>1. at = "run" /\ MaxOffset \in Nat
      BY <1>1 DEF TestTick, IdentificationAssumption
    <3>2. anchor \in Int /\ ArgumentsOK(request)
      BY <3>1 DEF IdentificationIInv, RequestHolds
    <3> QED
      BY <3>1, <3>2 DEF ArgumentsOK
  <2> QED
    BY <1>1, <2>1, <2>2, TickWay
<1>2. CASE Armed
  BY <1>2, ArmedWay
<1>3. CASE \/ Preflight \/ Prompt \/ TestGuardFinds \/ TestGuardTrips
           \/ TestComplete \/ HoldRequested \/ HoldLeft
           \/ at = "exited" /\ StartTest
  <2>1. at' # "run"
    BY <1>3 DEF Preflight, Prompt, TestGuardFinds, TestGuardTrips,
       TestComplete, HoldRequested, HoldLeft, AbortTest, Fails,
       Exit, StartTest
  <2> QED
    BY <2>1, WayByPartNext
<1>4. CASE UNCHANGED identificationVars
  <2>1. UNCHANGED <<at, request, anchor, plan, left, from, goal, ref>>
    BY <1>4 DEF identificationVars, motion
  <2> QED
    BY <2>1 DEF WayHolds, Current
<1> QED
  BY <1>1, <1>2, <1>3, <1>4 DEF IdentificationNext

\* No step of the run lets the reference of the test joint jump.
LEMMA JumpStep ==
  ASSUME IdentificationAssumption, IdentificationIInv, WayHolds,
         [IdentificationNext]_identificationVars, at = "run", ref # NoReference
  PROVE  ref' - ref \in -(MaxOffset + Sag) .. MaxOffset + Sag
<1>1. MaxOffset \in Nat /\ Sag \in Nat
  BY DEF IdentificationAssumption
<1>2. anchor \in Int /\ ref \in Int /\ PlanFits /\ RefsFit
  BY DEF IdentificationIInv, RequestHolds, RefsFit, Sent
<1>3. CASE TestTick
  <2>1. Published(plan[1].kind, plan[1].offset)
    BY <1>2, <1>3, TickPublishes
  <2> QED
    BY <2>1 DEF Published, Reach
<1>4. CASE ref' = ref
  BY <1>1, <1>2, <1>4
<1>5. TestTick \/ ref' = ref
  BY DEF IdentificationNext, Preflight, Prompt, Armed, TestGuardFinds,
     TestGuardTrips, TestComplete, HoldRequested, HoldLeft, AbortTest,
     motion, identificationVars
<1> QED
  BY <1>3, <1>4, <1>5

\* No reference of the test joint is further from the one before than the largest offset
\* and the sag of the settled joint: the trials start from the measured position, and every
\* move begins where the joint was last sent.
THEOREM JumpBounded == IdentificationSpec => JumpIsBounded
<1>1. ASSUME IdentificationAssumption PROVE IdentificationSpec => JumpIsBounded
  <2>1. IdentificationInit => WayHolds
    BY DEF IdentificationInit, WayHolds
  <2>2. IdentificationIInv /\ WayHolds /\ [IdentificationNext]_identificationVars => WayHolds'
    BY <1>1, WayStep
  <2>3. IdentificationIInv /\ WayHolds /\ [IdentificationNext]_identificationVars
          => [at = "run" /\ ref # NoReference =>
                ref' - ref \in -(MaxOffset + Sag) .. MaxOffset + Sag]_identificationVars
    BY <1>1, JumpStep
  <2>4. IdentificationSpec => []IdentificationIInv
    BY <1>1, IdentInvariance
  <2> QED
    BY <2>1, <2>2, <2>3, <2>4, PTL DEF IdentificationSpec, JumpIsBounded
<1> QED
  BY <1>1, IdentificationAssumption DEF IdentificationAssumption

-----------------------------------------------------------------------------
(***************************************************************************)
(* What the runner makes of the telemetry: crossings, logs, groups.        *)
(***************************************************************************)

\* The first of some samples.
LEMMA FirstOf ==
  ASSUME NEW n \in Nat, NEW T \in SUBSET (1 .. n)
  PROVE  /\ First(T) = Never <=> T = {}
         /\ T # {} => First(T) \in T /\ \A i \in T : First(T) <= i
<1>1. CASE T = {}
  BY <1>1 DEF First
<1>2. CASE T # {}
  <2>1. T \in SUBSET Int /\ 0 \in Int /\ \A i \in T : 0 <= i
    OBVIOUS
  <2>2. Min(T) \in T /\ \A i \in T : Min(T) <= i
    BY <1>2, <2>1, LeastInteger
  <2>3. First(T) = Min(T)
    BY <1>2 DEF First
  <2>4. Min(T) # 0
    BY <2>2
  <2> QED
    BY <1>2, <2>2, <2>3, <2>4 DEF Never
<1> QED
  BY <1>1, <1>2

\* The first of more samples is no later.
LEMMA FirstOfMore ==
  ASSUME NEW n \in Nat, NEW T \in SUBSET (1 .. n), NEW U \in SUBSET (1 .. n), T \subseteq U,
         First(T) # Never
  PROVE  First(U) # Never /\ First(U) <= First(T) /\ First(U) \in 1 .. n /\ First(T) \in 1 .. n
<1>1. T # {} /\ U # {}
  BY FirstOf
<1>2. First(T) \in T /\ First(U) \in U /\ \A i \in U : First(U) <= i
  BY <1>1, FirstOf
<1> QED
  BY <1>1, <1>2, FirstOf

\* The samples that have crossed a fraction of a step of 3.
Crossed(r, f) == {i \in DOMAIN r : 1000 * r[i] >= f * 3}

LEMMA ResponseIs ==
  ASSUME NEW n \in Nat \ {0}, NEW V \in SUBSET Int, NEW r \in [1 .. n -> V]
  PROVE  /\ r \in Seq(Int) /\ r # <<>> /\ Len(r) = n /\ DOMAIN r = 1 .. n
         /\ \A i \in 1 .. n : r[i] \in Int
<1>1. r \in [1 .. n -> Int]
  OBVIOUS
<1>2. r \in Seq(Int) /\ Len(r) = n
  BY <1>1
<1>3. r # <<>>
  <2>1. Len(<<>>) = 0 /\ n # 0
    OBVIOUS
  <2> QED
    BY <1>2, <2>1, Zenon
<1> QED
  BY <1>1, <1>2, <1>3

LEMMA CrossingsInOrder == CrossingsAreOrdered
<1> SUFFICES ASSUME NEW r \in Responses(5, -1 .. 4)
             PROVE  LET d == Dynamics(r, 3)
                        ten == Crossing(r, 3, 100)  ninety == Crossing(r, 3, 900)
                    IN  /\ ninety # Never => Never < d.tau /\ d.tau <= ninety
                        /\ d.tau # Never => Never < ten /\ ten <= d.tau
                        /\ d.settled # Never => Never < ninety /\ ninety <= d.settled /\ d.rise # Never
                        /\ d.overshoot > 0 => ninety # Never
  BY DEF CrossingsAreOrdered
<1> DEFINE ten == Crossing(r, 3, 100)
           tau == Crossing(r, 3, 632)
           ninety == Crossing(r, 3, 900)
           settled == Settling(r, 2 * 3, 0)
           overshoot == Max({0, Largest(r) - 3})
           d == Dynamics(r, 3)
<1>0. r \in [1 .. 5 -> -1 .. 4] /\ 5 \in Nat \ {0} /\ -1 .. 4 \in SUBSET Int
  BY DEF Responses
<1>1. r \in Seq(Int) /\ Len(r) = 5 /\ DOMAIN r = 1 .. 5 /\ \A i \in 1 .. 5 : r[i] \in Int
  BY <1>0, ResponseIs
<1>2. d.tau = tau /\ d.settled = settled /\ d.rise = RiseTime(ten, ninety) /\ d.overshoot = overshoot
  BY <1>1 DEF Dynamics
<1>3. ten = First(Crossed(r, 100)) /\ tau = First(Crossed(r, 632)) /\ ninety = First(Crossed(r, 900))
  BY DEF Crossing, Crossed
<1>4. /\ 5 \in Nat /\ \A f \in {100, 632, 900} : Crossed(r, f) \in SUBSET (1 .. 5)
      /\ Crossed(r, 900) \subseteq Crossed(r, 632) /\ Crossed(r, 632) \subseteq Crossed(r, 100)
  BY <1>1 DEF Crossed
<1> DEFINE Inside == {i \in 1 .. 5 : \A j \in i .. 5 : LET off == 2 * r[j] - 2 * 3 IN -0 <= off /\ off <= 0}
<1>5. settled = First(Inside)
  BY <1>1 DEF Settling
<1>6. Inside \in SUBSET (1 .. 5) /\ Inside \subseteq Crossed(r, 900)
  <2>1. ASSUME NEW i \in Inside PROVE i \in Crossed(r, 900)
    <3>1. i \in 1 .. 5 /\ i \in i .. 5 /\ r[i] \in Int
      BY <1>1, SMTT(30)
    <3>2. r[i] = 3
      BY <3>1
    <3> QED
      BY <1>1, <3>1, <3>2 DEF Crossed
  <2> QED
    BY <2>1
<1>7. overshoot > 0 => ninety # Never
  <2>2. Largest(r) \in ToSet(r)
    <3>1. r # <<>>
      BY <1>0, ResponseIs
    <3> QED
      BY <1>1, <3>1, Extremes
  <2>3. PICK i \in 1 .. 5 : r[i] = Largest(r)
    BY <1>1, <2>2 DEF ToSet
  <2>4. CASE Largest(r) - 3 > 0
    <3>1. i \in Crossed(r, 900)
      BY <1>1, <2>3, <2>4, SMTT(30) DEF Crossed
    <3> QED
      BY <1>3, <1>4, <3>1, FirstOf
  <2>5. CASE ~(Largest(r) - 3 > 0)
    <3> DEFINE z == Largest(r) - 3
    <3>1. z \in Int /\ z <= 0
      BY <1>1, <2>3, <2>5
    <3> HIDE DEF z
    <3>2. {0, z} \in SUBSET Int /\ {0, z} # {} /\ \A v \in {0, z} : v <= 0
      BY <3>1
    <3>3. Max({0, z}) \in {0, z} 
      BY <3>2, GreatestInteger
    <3>4. Max({0, z}) <= 0
      BY <3>2, <3>3
    <3>5. ~(Max({0, z}) > 0)
      BY <3>1, <3>3, <3>4
    <3> QED
      BY <3>5 DEF z
  <2> QED
    BY <2>4, <2>5
<1> HIDE DEF d, ten, tau, ninety, settled, overshoot, Inside
<1>8. ninety # Never => Never < tau /\ tau <= ninety
  <2>1. ASSUME ninety # Never PROVE tau \in 1 .. 5 /\ tau <= ninety
    BY <1>3, <1>4, <2>1, FirstOfMore, SMTT(30)
  <2> QED
    BY <2>1 DEF Never
<1>9. tau # Never => Never < ten /\ ten <= tau
  <2>1. ASSUME tau # Never PROVE ten \in 1 .. 5 /\ ten <= tau
    BY <1>3, <1>4, <2>1, FirstOfMore
  <2> QED
    BY <2>1 DEF Never
<1>10. settled # Never => Never < ninety /\ ninety <= settled /\ RiseTime(ten, ninety) # Never
  <2> SUFFICES ASSUME settled # Never PROVE Never < ninety /\ ninety <= settled /\ RiseTime(ten, ninety) # Never
    OBVIOUS
  <2>1. ninety # Never /\ ninety \in 1 .. 5 /\ ninety <= settled
    BY <1>3, <1>4, <1>5, <1>6, FirstOfMore
  <2>2. ten # Never /\ ten \in 1 .. 5 /\ ten <= ninety
    <3>1. Crossed(r, 900) \subseteq Crossed(r, 100)
      BY <1>4
    <3> QED
      BY <1>3, <1>4, <2>1, <3>1, FirstOfMore
  <2> QED
    BY <2>1, <2>2 DEF Never, RiseTime
<1> QED
  BY <1>2, <1>7, <1>8, <1>9, <1>10 DEF ten, ninety, d

\* The last samples, and what the median makes of them.
LEMMA LastSamples ==
  ASSUME NEW w \in Seq(Int), NEW percent \in 0 .. 99, w # <<>>
  PROVE  LET m == (percent * Len(w)) \div 100
         IN  /\ LastPart(w, percent) \in Seq(Int) /\ LastPart(w, percent) # <<>>
             /\ m \in 0 .. Len(w) - 1 /\ Len(LastPart(w, percent)) = Len(w) - m
             /\ \A i \in 1 .. Len(w) - m : LastPart(w, percent)[i] = w[m + i]
<1> DEFINE n == Len(w)
           m == (percent * n) \div 100
           p == LastPart(w, percent)
<1>1. n \in Nat \ {0}
  OBVIOUS
<1>2. percent * n \in Nat /\ percent * n < 100 * n
  <2>1. 0 <= percent * n /\ percent * n <= 99 * n
    <3>1. 0 <= n /\ percent <= 99 /\ 0 <= percent /\ 0 * n = 0 /\ percent \in Int /\ n \in Int
      BY <1>1
    <3> HIDE DEF n
    <3>2. percent * n <= 99 * n
      BY <3>1, MulMono
    <3>3. 0 * n <= percent * n
      BY <3>1, MulMono
    <3> QED
      BY <3>1, <3>2, <3>3
  <2>2. percent * n \in Int /\ 99 * n < 100 * n
    BY <1>1
  <2> HIDE DEF n
  <2> QED
    BY <1>1, <2>1, <2>2
<1>3. m \in 0 .. n - 1
  <2> HIDE DEF n
  <2>1. \A x \in Nat : x < 100 * n => x \div 100 \in 0 .. n - 1
    BY <1>1
  <2> QED
    BY <1>2, <2>1
<1>4. p = SubSeq(w, m + 1, n)
  BY DEF LastPart
<1> HIDE DEF p, m, n
<1>5. /\ SubSeq(w, m + 1, n) \in Seq(Int) /\ Len(SubSeq(w, m + 1, n)) = n - (m + 1) + 1
      /\ \A i \in 1 .. n - (m + 1) + 1 : SubSeq(w, m + 1, n)[i] = w[(m + 1) + i - 1]
  <2>1. m + 1 \in 1 .. n + 1 /\ n \in (m + 1) - 1 .. n
    BY <1>1, <1>3
  <2> QED
    BY <2>1, PartOf DEF n
<1>6. n - (m + 1) + 1 = n - m /\ n - m # 0 /\ \A i \in Int : (m + 1) + i - 1 = m + i
  BY <1>1, <1>3
<1>7. p \in Seq(Int) /\ Len(p) = n - m /\ \A i \in 1 .. n - m : p[i] = w[m + i]
  <2>1. /\ p \in Seq(Int) /\ Len(p) = n - (m + 1) + 1
        /\ \A i \in 1 .. n - (m + 1) + 1 : p[i] = w[(m + 1) + i - 1]
    BY <1>4, <1>5
  <2>2. \A i \in 1 .. n - m : i \in Int
    BY <1>1, <1>3
  <2> QED
    BY <1>6, <2>1, <2>2
<1>8. p # <<>>
  <2>1. Len(<<>>) = 0
    OBVIOUS
  <2> QED
    BY <1>6, <1>7, <2>1, Zenon
<1> QED
  BY <1>3, <1>7, <1>8 DEF p, m, n

LEMMA MedianOfTwo ==
  ASSUME NEW w \in Seq(Int), Len(w) = 2
  PROVE  TwiceMedian(w) = Smallest(w) + Largest(w)
<1>1. w # <<>>
  <2>1. Len(<<>>) = 0 /\ 2 # 0
    OBVIOUS
  <2> QED
    BY <2>1, Zenon
<1> DEFINE s == Sorted(w)
<1>2. s[1] = Smallest(w) /\ s[2] = Largest(w)
  <2>1. s[1] = Smallest(w) /\ s[Len(w)] = Largest(w)
    BY <1>1, SortedInOrder
  <2> QED
    BY <2>1
<1>3. 2 % 2 # 1 /\ 2 \div 2 = 1 /\ 1 + 1 = 2
  OBVIOUS
<1>4. TwiceMedian(w) = IF 2 % 2 = 1 THEN 2 * s[2 \div 2 + 1] ELSE s[2 \div 2] + s[2 \div 2 + 1]
  BY DEF TwiceMedian
<1> HIDE DEF s
<1> QED
  BY <1>2, <1>3, <1>4

LEMMA MedianOfOne ==
  ASSUME NEW w \in Seq(Int), w # <<>>, NEW v \in Int, \A i \in 1 .. Len(w) : w[i] = v
  PROVE  TwiceMedian(w) = 2 * v
<1> DEFINE n == Len(w)
           m == n \div 2
           s == Sorted(w)
<1>1. n \in Nat \ {0} /\ m \in Nat /\ n = 2 * m + (n % 2) /\ n % 2 \in 0 .. 1
  OBVIOUS
<1>2. \A k \in 1 .. n : s[k] = v
  <2>1. \A k \in 1 .. n : s[k] \in ToSet(w)
    BY SortedInOrder
  <2>2. \A x \in ToSet(w) : x = v
    BY DEF ToSet
  <2> QED
    BY <2>1, <2>2
<1>3. TwiceMedian(w) = IF n % 2 = 1 THEN 2 * s[m + 1] ELSE s[m] + s[m + 1]
  BY DEF TwiceMedian
<1> HIDE DEF s, n, m
<1>4. m + 1 \in 1 .. n /\ (n % 2 # 1 => m \in 1 .. n)
  BY <1>1
<1> QED
  BY <1>2, <1>3, <1>4

\* The samples that have crossed a tenth of a, and nine tenths.
PastTen(t, a) == {i \in DOMAIN t : 1000 * t[i] >= 100 * a}
PastNinety(t, a) == {i \in DOMAIN t : 1000 * t[i] >= 900 * a}

\* t is n samples; one of them is a or more.
Samples(t, n) == DOMAIN t = 1 .. n /\ \A i \in 1 .. n : t[i] \in Int
Reaches(t, n, a) == \E i \in 1 .. n : t[i] >= a

LEMMA RiseExists ==
  ASSUME NEW n \in Nat, NEW t, Samples(t, n), NEW a \in Nat, Reaches(t, n, a)
  PROVE  RiseTime(Crossing(t, a, 100), Crossing(t, a, 900)) # Never
<1>1. PastTen(t, a) \in SUBSET (1 .. n) /\ PastNinety(t, a) \in SUBSET (1 .. n)
  BY DEF PastTen, PastNinety, Samples
<1>2. PastNinety(t, a) # {}
  BY DEF PastTen, PastNinety, Samples, Reaches
<1>3. PastNinety(t, a) \subseteq PastTen(t, a)
  BY DEF PastTen, PastNinety, Samples
<1>4. /\ Crossing(t, a, 100) = First(PastTen(t, a))
      /\ Crossing(t, a, 900) = First(PastNinety(t, a))
  BY DEF Crossing, PastTen, PastNinety
<1> DEFINE ten == First(PastTen(t, a))
           ninety == First(PastNinety(t, a))
<1>5. ninety # Never
  BY <1>1, <1>2, FirstOf
<1>6. ten # Never /\ ten <= ninety /\ ten \in 1 .. n /\ ninety \in 1 .. n
  BY <1>1, <1>3, <1>5, FirstOfMore
<1> HIDE DEF ten, ninety
<1>7. RiseTime(ten, ninety) # Never
  BY <1>5, <1>6 DEF RiseTime, Never
<1> QED
  BY <1>4, <1>7 DEF ten, ninety

\* The displacements of six samples, turned the way the joint went.
Toward(r, twice) == [i \in DOMAIN r |-> IF twice < 0 THEN -2 * r[i] ELSE 2 * r[i]]
Size(x) == IF x < 0 THEN -x ELSE x

Six(r) == r \in Seq(Int) /\ Len(r) = 6 /\ \A i \in 1 .. 6 : r[i] \in Int

LEMMA LastTwoOfSix ==
  ASSUME NEW r, Six(r)
  PROVE  /\ TwiceAchieved(r) \in Int
         /\ \E i \in 1 .. 6 : 2 * r[i] <= TwiceAchieved(r)
         /\ \E i \in 1 .. 6 : 2 * r[i] >= TwiceAchieved(r)
<1> DEFINE w == LastPart(r, 80)
<1>0. r \in Seq(Int) /\ Len(r) = 6 /\ \A i \in 1 .. 6 : r[i] \in Int
  BY DEF Six
<1>1. (80 * 6) \div 100 = 4 /\ 80 \in 0 .. 99 /\ 6 - 4 = 2
  OBVIOUS
<1>2. /\ w \in Seq(Int) /\ w # <<>> /\ Len(w) = 2
      /\ \A i \in 1 .. 2 : w[i] = r[4 + i]
  <2>1. LET m == (80 * Len(r)) \div 100
        IN  /\ LastPart(r, 80) \in Seq(Int) /\ LastPart(r, 80) # <<>>
            /\ m \in 0 .. Len(r) - 1 /\ Len(LastPart(r, 80)) = Len(r) - m
            /\ \A i \in 1 .. Len(r) - m : LastPart(r, 80)[i] = r[m + i]
    <3>1. r # <<>>
      <4>1. Len(<<>>) = 0 /\ 6 # 0
        OBVIOUS
      <4> QED
        BY <1>0, <4>1, Zenon
    <3> QED
      BY <1>0, <1>1, <3>1, LastSamples
  <2>2. (80 * Len(r)) \div 100 = 4 /\ Len(r) - 4 = 2
    BY <1>0, <1>1
  <2> QED
    BY <2>1, <2>2
<1> HIDE DEF w
<1>3. Smallest(w) \in ToSet(w) /\ Largest(w) \in ToSet(w) /\ Smallest(w) <= Largest(w)
  BY <1>2, Extremes
<1>4. TwiceAchieved(r) = Smallest(w) + Largest(w)
  BY <1>2, MedianOfTwo DEF TwiceAchieved, w
<1>5. ASSUME NEW v \in ToSet(w) PROVE v \in Int /\ \E i \in 1 .. 6 : r[i] = v
  <2>1. PICK j \in 1 .. 2 : v = w[j]
    BY <1>2 DEF ToSet
  <2>2. 4 + j \in 1 .. 6
    OBVIOUS
  <2>3. w[j] = r[4 + j]
    BY <1>2
  <2>4. r[4 + j] \in Int
    BY <1>0, <2>2, Zenon
  <2> QED
    BY <2>1, <2>2, <2>3, <2>4
<1>6. PICK lo \in Int, hi \in Int : lo = Smallest(w) /\ hi = Largest(w)
  BY <1>3, <1>5
<1>7. lo <= hi /\ TwiceAchieved(r) = lo + hi
  BY <1>3, <1>4, <1>6
<1>8. PICK i \in 1 .. 6 : r[i] = lo
  BY <1>3, <1>5, <1>6
<1>9. PICK j \in 1 .. 6 : r[j] = hi
  BY <1>3, <1>5, <1>6
<1>10. 2 * lo <= lo + hi /\ 2 * hi >= lo + hi /\ lo + hi \in Int
  BY <1>7
<1> QED
  BY <1>7, <1>8, <1>9, <1>10

LEMMA AchievedDefined == AchievedIsDefined
<1> SUFFICES ASSUME NEW r \in Responses(6, -1 .. 2), TwiceAchieved(r) \notin -1 .. 1
             PROVE  Dynamics(r, 3).achievedRise # Never
  BY DEF AchievedIsDefined
<1>1. r \in [1 .. 6 -> -1 .. 2] /\ 6 \in Nat \ {0} /\ -1 .. 2 \in SUBSET Int
  BY DEF Responses
<1>2. r \in Seq(Int) /\ Len(r) = 6 /\ DOMAIN r = 1 .. 6 /\ \A i \in 1 .. 6 : r[i] \in Int
  BY <1>1, ResponseIs
<1> DEFINE twice == TwiceAchieved(r)
           a == Size(twice)
           t == Toward(r, twice)
<1>4. /\ twice \in Int
      /\ \E i \in 1 .. 6 : 2 * r[i] <= twice
      /\ \E i \in 1 .. 6 : 2 * r[i] >= twice
  BY <1>2, LastTwoOfSix DEF Six
<1>5. Dynamics(r, 3).achievedRise
        = IF a < 2 THEN Never ELSE RiseTime(Crossing(t, a, 100), Crossing(t, a, 900))
  BY <1>2 DEF Dynamics, Toward, Size
<1>6. DOMAIN t = 1 .. 6 /\ \A i \in 1 .. 6 : t[i] = (IF twice < 0 THEN -2 * r[i] ELSE 2 * r[i])
  BY <1>2 DEF Toward
<1>7. twice \notin -1 .. 1
  OBVIOUS
<1> HIDE DEF twice, t
<1>8. a \in Nat /\ ~(a < 2) /\ (twice < 0 => a = -twice) /\ (~(twice < 0) => a = twice)
  BY <1>4, <1>7 DEF Size
<1> HIDE DEF a
<1>9. Samples(t, 6)
  <2>1. \A i \in 1 .. 6 : 2 * r[i] \in Int /\ -2 * r[i] \in Int
    BY <1>2, SMTT(30)
  <2> QED
    BY <1>6, <2>1 DEF Samples
<1>10. \E i \in 1 .. 6 : t[i] >= a
  <2>1. CASE twice < 0
    <3>1. PICK i \in 1 .. 6 : 2 * r[i] <= twice
      BY <1>4
    <3>2. r[i] \in Int /\ t[i] = -2 * r[i]
      BY <1>2, <1>6, <2>1
    <3>3. PICK x \in Int : x = r[i]
      BY <3>2
    <3>4. 2 * x <= twice /\ t[i] = -2 * x
      BY <3>1, <3>2, <3>3
    <3>5. -2 * x >= -twice
      BY <1>4, <3>4
    <3> QED
      BY <1>8, <2>1, <3>4, <3>5
  <2>2. CASE ~(twice < 0)
    BY <1>4, <1>6, <1>8, <2>2
  <2> QED
    BY <2>1, <2>2
<1>11. Reaches(t, 6, a)
  BY <1>10 DEF Reaches
<1>12. RiseTime(Crossing(t, a, 100), Crossing(t, a, 900)) # Never
  <2>1. 6 \in Nat
    OBVIOUS
  <2> QED
    BY <1>8, <1>9, <1>11, <2>1, RiseExists
<1> QED
  BY <1>5, <1>8, <1>12 DEF a, t, twice

\* The last two of four samples that are alike.
LEMMA LastTwoOfFour ==
  ASSUME NEW s, NEW v \in Int, s \in [1 .. 4 -> Int], s[3] = v, s[4] = v
  PROVE  TwiceMedian(LastPart(s, 50)) = 2 * v
<1>1. 4 \in Nat \ {0} /\ Int \in SUBSET Int
  OBVIOUS
<1>2. s \in Seq(Int) /\ Len(s) = 4
  BY <1>1, ResponseIs
<1>3. s # <<>>
  BY <1>1, ResponseIs
<1> DEFINE w == LastPart(s, 50)
<1>4. LET m == (50 * Len(s)) \div 100
      IN  /\ LastPart(s, 50) \in Seq(Int) /\ LastPart(s, 50) # <<>>
          /\ m \in 0 .. Len(s) - 1 /\ Len(LastPart(s, 50)) = Len(s) - m
          /\ \A i \in 1 .. Len(s) - m : LastPart(s, 50)[i] = s[m + i]
  <2>1. 50 \in 0 .. 99
    OBVIOUS
  <2> QED
    BY <1>2, <1>3, <2>1, LastSamples
<1>5. (50 * Len(s)) \div 100 = 2 /\ Len(s) - 2 = 2
  BY <1>2
<1>6. w \in Seq(Int) /\ Len(w) = 2 /\ \A i \in 1 .. 2 : w[i] = s[2 + i]
  BY <1>4, <1>5
<1>7. w # <<>>
  BY <1>4
<1> HIDE DEF w
<1>8. \A i \in 1 .. Len(w) : w[i] = v
  <2>1. 2 + 1 = 3 /\ 2 + 2 = 4 /\ 1 .. 2 = {1, 2}
    OBVIOUS
  <2>2. w[1] = v /\ w[2] = v
    BY <1>6, <2>1
  <2> QED
    BY <1>6, <2>1, <2>2
<1>9. TwiceMedian(w) = 2 * v
  BY <1>6, <1>7, <1>8, MedianOfOne
<1> QED
  BY <1>9 DEF w

LEMMA LoadIsolated == LoadIsIsolated
<1> SUFFICES ASSUME NEW deflection \in -2 .. 2, NEW between \in 0 .. 3, NEW lag \in 0 .. 4 \div 2
             PROVE  LET q(k) == IF k <= 4 THEN 0 ELSE IF k <= 2 * 4 THEN between ELSE deflection
                    IN  TwiceDeflection([k \in 1 .. 4 |-> q(k - lag)], [k \in 1 .. 4 |-> q(2 * 4 + k - lag)])
                          = 2 * deflection
  BY DEF LoadIsIsolated
<1> DEFINE q(k) == IF k <= 4 THEN 0 ELSE IF k <= 2 * 4 THEN between ELSE deflection
           baseline == [k \in 1 .. 4 |-> q(k - lag)]
           loaded == [k \in 1 .. 4 |-> q(2 * 4 + k - lag)]
<1>1. lag \in 0 .. 2 /\ deflection \in Int /\ between \in Int
  OBVIOUS
<1>2. baseline \in [1 .. 4 -> Int] /\ loaded \in [1 .. 4 -> Int]
  BY <1>1
<1>3. baseline[3] = 0 /\ baseline[4] = 0
  BY <1>1
<1>4. loaded[3] = deflection /\ loaded[4] = deflection
  BY <1>1
<1> HIDE DEF baseline, loaded
<1>5. TwiceMedian(LastPart(baseline, 50)) = 2 * 0
  <2>1. 0 \in Int
    OBVIOUS
  <2> QED
    BY <1>2, <1>3, <2>1, LastTwoOfFour
<1>6. TwiceMedian(LastPart(loaded, 50)) = 2 * deflection
  BY <1>1, <1>2, <1>4, LastTwoOfFour
<1>7. TwiceDeflection(baseline, loaded) = 2 * deflection
  BY <1>1, <1>5, <1>6 DEF TwiceDeflection
<1> QED
  BY <1>7 DEF baseline, loaded

\* What a cycle adds to the log.
LogCycle(log, cycle) == IF log = <<>> \/ cycle > Last(log) THEN Append(log, cycle) ELSE log

LEMMA LogSteps ==
  ASSUME NEW a \in Seq(Int)
  PROVE  \E h \in [0 .. Len(a) -> Seq(Int)] :
           h[0] = <<>> /\ (\A i \in 1 .. Len(a) : h[i] = LogCycle(h[i - 1], a[i])) /\ Logged(a) = h[Len(a)]
<1> DEFINE n == Len(a)
           V == Seq(Int)
           b == <<>>
           F == [i \in 1 .. n |-> [v \in V |-> LogCycle(v, a[i])]]
           Table(g) == g = [t \in SUBSET (1 .. n) |->
                              IF t = {} THEN b ELSE LogCycle(g[t \ {Max(t)}], a[Max(t)])]
<1>1. n \in Nat /\ DOMAIN a = 1 .. n /\ \A i \in 1 .. n : a[i] \in Int
  OBVIOUS
<1>2. b \in V
  OBVIOUS
<1>3. \A v \in V, c \in Int : LogCycle(v, c) \in V
  BY DEF LogCycle
<1>4. F \in [1 .. n -> [V -> V]]
  BY <1>1, <1>3
<1>5. Logged(a) = (CHOOSE g : Table(g))[1 .. n]
  BY <1>1 DEF Logged, FoldLeft, MapThenFoldSet, LogCycle
<1>6. \E g : Table(g)
  <2> HIDE DEF n, V, b, F
  <2>1. PICK g : IsFold(g, n, V, b, F)
    BY <1>1, <1>2, <1>4, FoldExists
  <2>2. ASSUME NEW t \in SUBSET (1 .. n), t # {}
        PROVE  F[Max(t)][g[t \ {Max(t)}]] = LogCycle(g[t \ {Max(t)}], a[Max(t)])
    <3>1. Max(t) \in 1 .. n /\ t \ {Max(t)} \in SUBSET (1 .. n)
      BY <1>1, <2>2, MaxOfSome
    <3>2. g[t \ {Max(t)}] \in V
      BY <2>1, <3>1 DEF IsFold
    <3> QED
      BY <3>1, <3>2 DEF F
  <2>3. Table(g)
    BY <2>1, <2>2 DEF IsFold
  <2> HIDE DEF Table
  <2> QED
    BY <2>3
<1>7. PICK f : Logged(a) = f[1 .. n] /\ Table(f)
  <2> HIDE DEF Table, n
  <2> QED
    BY <1>5, <1>6
<1>8. f[{}] = b
  <2> HIDE DEF n, b
  <2> QED
    BY <1>7
<1>9. ASSUME NEW t \in SUBSET (1 .. n), t # {}, f[t \ {Max(t)}] \in V
      PROVE  f[t] = F[Max(t)][f[t \ {Max(t)}]]
  <2>1. Max(t) \in 1 .. n
    BY <1>1, <1>9, MaxOfSome
  <2>2. f[t] = LogCycle(f[t \ {Max(t)}], a[Max(t)])
    <3> HIDE DEF n, b
    <3> QED
      BY <1>7, <1>9
  <2> HIDE DEF V
  <2> QED
    BY <1>9, <2>1, <2>2
<1>10. FoldsBy(f, n, V, b, F)
  <2> HIDE DEF n, V, b, F
  <2> QED
    BY <1>8, <1>9 DEF FoldsBy
<1>11. PICK h : FoldsTo(h, n, V, b, F) /\ h[n] = f[1 .. n]
  <2> HIDE DEF n, V, b, F
  <2> QED
    BY <1>1, <1>2, <1>4, <1>10, FoldSteps
<1>12. ASSUME NEW i \in 1 .. n
       PROVE  h[i] = LogCycle(h[i - 1], a[i])
  <2>1. h[i - 1] \in V
    <3>1. i - 1 \in 0 .. n
      BY <1>1
    <3> HIDE DEF n, V
    <3> QED
      BY <1>11, <3>1 DEF FoldsTo
  <2> HIDE DEF V
  <2> QED
    BY <1>11, <2>1 DEF FoldsTo
<1> QED
  BY <1>7, <1>11, <1>12 DEF FoldsTo

\* A log in which every cycle is later than the one before.
Rising(s, S) == s \in Seq(S) /\ \A i, j \in 1 .. Len(s) : i < j => s[i] < s[j]

LEMMA LogRises ==
  ASSUME NEW S \in SUBSET Int, NEW s, Rising(s, S), NEW c \in S
  PROVE  Rising(LogCycle(s, c), S)
<1>1. s \in Seq(S) /\ Len(s) \in Nat /\ \A i \in 1 .. Len(s) : s[i] \in Int
  <2>1. s \in Seq(S)
    BY DEF Rising
  <2>2. Len(s) \in Nat /\ \A i \in 1 .. Len(s) : s[i] \in S
    BY <2>1
  <2> QED
    BY <2>1, <2>2
<1>2. CASE LogCycle(s, c) = s
  BY <1>2
<1>3. CASE LogCycle(s, c) = Append(s, c) /\ (s = <<>> \/ c > Last(s))
  <2> DEFINE q == Append(s, c)
             n == Len(s)
  <2>1. /\ q \in Seq(S) /\ Len(q) = n + 1 /\ q[n + 1] = c
        /\ \A i \in 1 .. n : q[i] = s[i]
    BY <1>1
  <2>2. \A i \in 1 .. n : s[i] < c
    <3>1. CASE s = <<>>
      BY <3>1
    <3>2. CASE c > Last(s)
      <4>1. ASSUME NEW i \in 1 .. n PROVE s[i] < c
        <5>1. n \in 1 .. n /\ Last(s) = s[n] /\ s[n] \in Int /\ s[i] \in Int /\ c \in Int
          BY <1>1 DEF Last
        <5>2. i = n \/ s[i] < s[n]
          BY <1>1, <5>1 DEF Rising
        <5>3. c > s[n]
          BY <3>2, <5>1
        <5> QED
          BY <5>1, <5>2, <5>3
      <4> QED
        BY <4>1
    <3> QED
      BY <1>3, <3>1, <3>2
  <2> HIDE DEF q
  <2>3. ASSUME NEW i \in 1 .. n + 1, NEW j \in 1 .. n + 1, i < j PROVE q[i] < q[j]
    <3>1. i \in 1 .. n /\ (j = n + 1 \/ j \in 1 .. n)
      BY <1>1, <2>3
    <3>2. CASE j = n + 1
      BY <2>1, <2>2, <3>1, <3>2
    <3>3. CASE j \in 1 .. n
      <4>1. s[i] < s[j]
        BY <2>3, <3>1, <3>3 DEF Rising
      <4> QED
        BY <2>1, <3>1, <3>3, <4>1
    <3> QED
      BY <3>1, <3>2, <3>3
  <2>4. Rising(q, S)
    BY <2>1, <2>3 DEF Rising
  <2> QED
    BY <1>3, <2>4 DEF q
<1>4. \/ LogCycle(s, c) = s
      \/ LogCycle(s, c) = Append(s, c) /\ (s = <<>> \/ c > Last(s))
  BY DEF LogCycle
<1> QED
  BY <1>2, <1>3, <1>4

\* In whatever order the cycles come, the log rises.
LEMMA LoggedRises ==
  ASSUME NEW S \in SUBSET Int, NEW a \in Seq(S)
  PROVE  Rising(Logged(a), S)
<1> DEFINE n == Len(a)
<1>1. a \in Seq(Int) /\ n \in Nat /\ \A i \in 1 .. n : a[i] \in S
  <2>1. n \in Nat /\ a \in [1 .. n -> S]
    OBVIOUS
  <2>2. a \in [1 .. n -> Int]
    BY <2>1
  <2>3. a \in Seq(Int)
    BY <2>1, <2>2
  <2> QED
    BY <2>1, <2>3
<1>2. PICK h \in [0 .. n -> Seq(Int)] :
        h[0] = <<>> /\ (\A i \in 1 .. n : h[i] = LogCycle(h[i - 1], a[i])) /\ Logged(a) = h[n]
  BY <1>1, LogSteps
<1> HIDE DEF n
<1> DEFINE I == {i \in 0 .. n : Rising(h[i], S)}
<1>3. 0 \in I
  <2>1. Rising(<<>>, S)
    BY DEF Rising
  <2> QED
    BY <1>1, <1>2, <2>1
<1>4. \A i \in 1 .. n : i - 1 \in I => i \in I
  <2> SUFFICES ASSUME NEW i \in 1 .. n, i - 1 \in I PROVE i \in I
    OBVIOUS
  <2>1. Rising(h[i - 1], S) /\ a[i] \in S
    BY <1>1
  <2>2. Rising(LogCycle(h[i - 1], a[i]), S)
    BY <2>1, LogRises
  <2>3. Rising(h[i], S)
    BY <1>2, <2>2
  <2> QED
    BY <1>1, <2>3
<1>5. 0 .. n \subseteq I
  <2> HIDE DEF I
  <2> QED
    BY <1>1, <1>3, <1>4, InductionTo
<1>6. n \in 0 .. n
  BY <1>1
<1> QED
  BY <1>2, <1>5, <1>6

LEMMA RisingCounts ==
  ASSUME NEW S \in SUBSET Int, NEW s, Rising(s, S)
  PROVE  Cardinality(ToSet(s)) = Len(s) /\ ToSet(s) \in SUBSET S
<1> DEFINE n == Len(s)
<1>1. n \in Nat /\ s \in [1 .. n -> S] /\ \A i, j \in 1 .. n : i < j => s[i] < s[j]
  BY DEF Rising
<1>2. \A i \in 1 .. n : s[i] \in Int
  BY <1>1
<1>3. ToSet(s) = {s[i] : i \in 1 .. n}
  BY <1>1 DEF ToSet
<1> HIDE DEF n
<1>4. \A i, j \in 1 .. n : s[i] = s[j] => i = j
  <2>1. ASSUME NEW i \in 1 .. n, NEW j \in 1 .. n, s[i] = s[j] PROVE i = j
    <3>1. ~(i < j) /\ ~(j < i)
      BY <1>1, <1>2, <2>1
    <3> QED
      BY <1>1, <3>1
  <2> QED
    BY <2>1
<1>5. s \in Bijection(1 .. n, ToSet(s))
  BY <1>1, <1>3, <1>4 DEF Bijection, Injection, Surjection, IsInjective
<1>6. ExistsBijection(1 .. n, ToSet(s))
  BY <1>5 DEF ExistsBijection
<1>7. Cardinality(ToSet(s)) = n
  BY <1>1, <1>6, FS_CountingElements
<1> QED
  BY <1>1, <1>3, <1>7 DEF n

\* The cycles of one step: when each received its command, which were written, and the
\* encoder, which moves from a cycle on; and those that were logged.
Count(moves, t) == IF t < moves THEN 0 ELSE 1
CycleOf(received, ok, moves, t) ==
  [received |-> received[t], ok |-> t \in ok,
   target |-> IF received[t] >= 2 THEN Tolerance + 1 ELSE 0, count |-> Count(moves, t)]
AllCycles(received, ok, moves) == [t \in 1 .. 4 |-> CycleOf(received, ok, moves, t)]
LogOf(log, received, ok, moves) == [t \in log |-> AllCycles(received, ok, moves)[t]]

\* When commands were received: none from the future, and in order.
Receipts(received) == received \in [1 .. 4 -> 1 .. 4] /\ \A t \in 1 .. 4 : received[t] <= t

\* c is the log of the cycles.
IsLog(c, log, received, ok, moves) ==
  /\ DOMAIN c = log
  /\ \A t \in log : /\ c[t].received = received[t] /\ (c[t].ok <=> t \in ok)
                    /\ c[t].count = Count(moves, t)
                    /\ Matches(c[t].target, Tolerance + 1) <=> received[t] >= 2

LEMMA LogFields ==
  ASSUME ToleranceAssumption, NEW received, Receipts(received), NEW ok, NEW moves,
         NEW log \in SUBSET (1 .. 4)
  PROVE  IsLog(LogOf(log, received, ok, moves), log, received, ok, moves)
<1> DEFINE c == LogOf(log, received, ok, moves)
<1>1. DOMAIN c = log /\ \A t \in log : c[t] = CycleOf(received, ok, moves, t)
  BY DEF LogOf, AllCycles
<1>2. ASSUME NEW t \in log PROVE Matches(c[t].target, Tolerance + 1) <=> received[t] >= 2
  <2>1. received[t] \in Int
    BY DEF Receipts
  <2>2. c[t].target = IF received[t] >= 2 THEN Tolerance + 1 ELSE 0
    BY <1>1 DEF CycleOf
  <2>3. Matches(Tolerance + 1, Tolerance + 1) /\ ~Matches(0, Tolerance + 1)
    BY DEF Matches, ToleranceAssumption
  <2> QED
    BY <2>2, <2>3
<1> HIDE DEF c
<1>3. \A t \in log : c[t].received = received[t] /\ c[t].count = Count(moves, t)
  BY <1>1 DEF CycleOf
<1>4. ASSUME NEW t \in log PROVE c[t].ok <=> t \in ok
  <2>1. \A x, y, z, w : [received |-> x, ok |-> y, target |-> z, count |-> w].ok = y
    OBVIOUS
  <2>2. CycleOf(received, ok, moves, t).ok = (t \in ok)
    BY <2>1, Zenon DEF CycleOf
  <2>3. c[t] = CycleOf(received, ok, moves, t)
    BY <1>1
  <2> QED
    BY <2>2, <2>3, Zenon
<1> QED
  BY <1>1, <1>2, <1>3, <1>4, Zenon DEF IsLog, c

\* The writes of the command, and its receipts, in the log.
Writes(log, received, ok) == {t \in log : t >= 2 /\ t \in ok /\ received[t] >= 2}
Arrived(log, received) == {received[t] : t \in {u \in log : received[u] >= 2}}

LEMMA FirstsOfLog ==
  ASSUME NEW received, NEW ok, NEW moves, NEW log, NEW c, IsLog(c, log, received, ok, moves)
  PROVE  /\ FirstWrite(c, 2, Tolerance + 1) = First(Writes(log, received, ok))
         /\ FirstReceipt(c, 2, Tolerance + 1) = First(Arrived(log, received))
<1>1. {t \in DOMAIN c : t >= 2 /\ c[t].ok /\ Matches(c[t].target, Tolerance + 1)} = Writes(log, received, ok)
  BY DEF IsLog, Writes
<1>2. {u \in DOMAIN c : c[u].received >= 2 /\ Matches(c[u].target, Tolerance + 1)}
        = {u \in log : received[u] >= 2}
  BY DEF IsLog
<1>3. {c[t].received : t \in {u \in log : received[u] >= 2}} = Arrived(log, received)
  BY DEF IsLog, Arrived
<1> QED
  BY <1>1, <1>2, <1>3 DEF FirstWrite, FirstReceipt

\* The encoder's first count other than the last before the write.
BeforeWrite(log, w) == {t \in log : t < w}
Others(log, moves, w) ==
  {t \in log : t >= w /\ Count(moves, t) # Count(moves, Max(BeforeWrite(log, w)))}

LEMMA OnsetOfLog ==
  ASSUME NEW received, NEW ok, NEW moves, NEW log \in SUBSET (1 .. 4), NEW c,
         IsLog(c, log, received, ok, moves), NEW w
  PROVE  EncoderOnset(c, w)
           = IF w = Never \/ BeforeWrite(log, w) = {} THEN Never ELSE First(Others(log, moves, w))
<1>1. DOMAIN c = log /\ \A t \in log : c[t].count = Count(moves, t)
  BY DEF IsLog
<1>2. {t \in DOMAIN c : t < w} = BeforeWrite(log, w)
  BY <1>1 DEF BeforeWrite
<1>3. ASSUME BeforeWrite(log, w) # {} PROVE Max(BeforeWrite(log, w)) \in log
  <2>1. 4 \in Nat /\ BeforeWrite(log, w) \in SUBSET (1 .. 4)
    BY DEF BeforeWrite
  <2>2. Max(BeforeWrite(log, w)) \in BeforeWrite(log, w)
    BY <1>3, <2>1, MaxOfSome
  <2> QED
    BY <2>2 DEF BeforeWrite
<1>4. ASSUME BeforeWrite(log, w) # {}
      PROVE  {t \in DOMAIN c : t >= w /\ c[t].count # c[Max(BeforeWrite(log, w))].count} = Others(log, moves, w)
  BY <1>1, <1>3, <1>4 DEF Others
<1> QED
  BY <1>2, <1>4 DEF EncoderOnset

\* A write that is logged is no earlier than the first write, nor than its receipt.
LEMMA WriteFollows ==
  ASSUME NEW received, Receipts(received), NEW ok, NEW log \in SUBSET (1 .. 4),
         First(Writes(log, received, ok)) # Never
  PROVE  /\ First(Writes(1 .. 4, received, ok)) <= First(Writes(log, received, ok))
         /\ First(Arrived(log, received)) # Never
         /\ First(Arrived(log, received)) <= First(Writes(log, received, ok))
<1> DEFINE W == Writes(log, received, ok)
           A == Writes(1 .. 4, received, ok)
           R == Arrived(log, received)
<1>1. 4 \in Nat /\ W \in SUBSET (1 .. 4) /\ A \in SUBSET (1 .. 4) /\ W \subseteq A
  BY DEF Writes
<1>2. R \in SUBSET (1 .. 4)
  BY DEF Arrived, Receipts
<1>3. First(W) \in W
  BY <1>1, FirstOf
<1>4. PICK w \in 1 .. 4 : w = First(W) /\ w \in log /\ received[w] >= 2 /\ received[w] <= w
  BY <1>1, <1>3 DEF Writes, Receipts
<1>5. received[w] \in R
  BY <1>4 DEF Arrived
<1> HIDE DEF W, A, R
<1>6. First(A) <= First(W)
  BY <1>1, FirstOfMore DEF W
<1>7. R # {}
  BY <1>5
<1>8. First(R) # Never /\ First(R) \in R /\ First(R) <= received[w]
  BY <1>1, <1>2, <1>5, <1>7, FirstOf
<1>9. First(R) <= w
  <2>1. PICK x \in 1 .. 4, y \in 1 .. 4 : x = First(R) /\ y = received[w]
    BY <1>2, <1>5, <1>8, Zenon
  <2>2. x <= y /\ y <= w
    BY <1>4, <1>8, <2>1, Zenon
  <2> QED
    BY <2>1, <2>2
<1> QED
  BY <1>4, <1>6, <1>8, <1>9 DEF W, A, R

\* The onset is not before the joint moves.
LEMMA OnsetFollows ==
  ASSUME NEW moves \in 1 .. 4, NEW log \in SUBSET (1 .. 4), NEW w \in Int,
         BeforeWrite(log, w) # {}, First(Others(log, moves, w)) # Never
  PROVE  moves <= First(Others(log, moves, w))
<1> DEFINE O == Others(log, moves, w)
<1>1. 4 \in Nat /\ O \in SUBSET (1 .. 4) /\ BeforeWrite(log, w) \in SUBSET (1 .. 4)
  BY DEF Others, BeforeWrite
<1>2. First(O) \in O
  BY <1>1, FirstOf
<1>3. Max(BeforeWrite(log, w)) \in BeforeWrite(log, w)
  BY <1>1, MaxOfSome
<1>4. PICK m \in 1 .. 4 : m = Max(BeforeWrite(log, w)) /\ m < w
  BY <1>3 DEF BeforeWrite
<1>5. PICK t \in 1 .. 4 : t = First(O) /\ t >= w /\ Count(moves, t) # Count(moves, m)
  BY <1>1, <1>2, <1>4 DEF Others
<1> HIDE DEF O
<1>6. moves <= t
  BY <1>4, <1>5 DEF Count
<1> QED
  BY <1>5, <1>6 DEF O

\* With every cycle in the log, the onset is the cycle in which the joint moves.
LEMMA OnsetIsMotion ==
  ASSUME NEW moves \in 1 .. 4, NEW w \in 2 .. 4, w <= moves
  PROVE  BeforeWrite(1 .. 4, w) # {} /\ First(Others(1 .. 4, moves, w)) = moves
<1> DEFINE O == Others(1 .. 4, moves, w)
<1>1. 1 \in BeforeWrite(1 .. 4, w) /\ 4 \in Nat /\ BeforeWrite(1 .. 4, w) \in SUBSET (1 .. 4)
  BY DEF BeforeWrite
<1>2. Max(BeforeWrite(1 .. 4, w)) \in BeforeWrite(1 .. 4, w)
  BY <1>1, MaxOfSome
<1>3. PICK m \in 1 .. 4 : m = Max(BeforeWrite(1 .. 4, w)) /\ m < w
  BY <1>2 DEF BeforeWrite
<1>4. Count(moves, m) = 0
  BY <1>3 DEF Count
<1>5. O = {t \in 1 .. 4 : t >= w /\ Count(moves, t) # 0}
  BY <1>3, <1>4 DEF Others
<1>6. O = {t \in 1 .. 4 : t >= moves}
  BY <1>5 DEF Count
<1> HIDE DEF O
<1>7. moves \in O /\ O \in SUBSET (1 .. 4) /\ \A t \in O : moves <= t
  BY <1>6
<1>8. First(O) \in O /\ First(O) <= moves
  BY <1>1, <1>7, FirstOf
<1>9. First(O) = moves
  <2>1. PICK f \in 1 .. 4 : f = First(O)
    BY <1>7, <1>8
  <2>2. f <= moves /\ moves <= f
    BY <1>7, <1>8, <2>1
  <2>3. f = moves
    BY <2>2
  <2> QED
    BY <2>1, <2>3
<1> QED
  BY <1>1, <1>9 DEF O

CausalFor(received, ok, log, moves) ==
  LET all == AllCycles(received, ok, moves)
      cycles == LogOf(log, received, ok, moves)
      written == FirstWrite(all, 2, Tolerance + 1)
      write == FirstWrite(cycles, 2, Tolerance + 1)
      onset == EncoderOnset(cycles, write)
  IN  written # Never /\ moves >= written =>
        /\ write # Never => /\ written <= write
                            /\ FirstReceipt(cycles, 2, Tolerance + 1) # Never
                            /\ FirstReceipt(cycles, 2, Tolerance + 1) <= write
        /\ onset # Never => moves <= onset
        /\ log = 1 .. 4 => onset = moves

\* What is read from the log of a step is caused by what happened.
LEMMA TimingCausal == ASSUME ToleranceAssumption PROVE TimingChainIsCausal
<1> DEFINE Received == {f \in [1 .. 4 -> 1 .. 4] : \A t \in 1 .. 4 :
                          f[t] <= t /\ \A u \in 1 .. t : f[u] <= f[t]}
           Arrivals == UNION {[1 .. n -> 1 .. 4] : n \in 0 .. 4}
           Logs == {ToSet(Logged(a)) : a \in Arrivals}
<1>1. ASSUME NEW a \in Arrivals
      PROVE  Cardinality(ToSet(Logged(a))) = Len(Logged(a)) /\ ToSet(Logged(a)) \in SUBSET (1 .. 4)
  <2>1. PICK n \in 0 .. 4 : a \in [1 .. n -> 1 .. 4]
    OBVIOUS
  <2>2. a \in Seq(1 .. 4) /\ 1 .. 4 \in SUBSET Int
    BY <2>1
  <2> QED
    BY <2>2, LoggedRises, RisingCounts
<1>2. \A log \in Logs : log \in SUBSET (1 .. 4)
  BY <1>1
<1>3. ASSUME NEW received \in Received, NEW ok \in SUBSET (1 .. 4), NEW log \in SUBSET (1 .. 4),
             NEW moves \in 1 .. 4
      PROVE  CausalFor(received, ok, log, moves)
  <2> DEFINE all == AllCycles(received, ok, moves)
             cycles == LogOf(log, received, ok, moves)
             written == First(Writes(1 .. 4, received, ok))
             write == First(Writes(log, received, ok))
             onset == EncoderOnset(cycles, write)
             receipt == First(Arrived(log, received))
  <2>1. Receipts(received)
    BY DEF Receipts
  <2>2. IsLog(cycles, log, received, ok, moves)
    BY <2>1, LogFields
  <2>3. IsLog(all, 1 .. 4, received, ok, moves)
    <3>1. IsLog(LogOf(1 .. 4, received, ok, moves), 1 .. 4, received, ok, moves)
      BY <2>1, LogFields
    <3>2. LogOf(1 .. 4, received, ok, moves) = all
      BY DEF LogOf, AllCycles
    <3> QED
      BY <3>1, <3>2
  <2>4. /\ FirstWrite(all, 2, Tolerance + 1) = written
        /\ FirstWrite(cycles, 2, Tolerance + 1) = write
        /\ FirstReceipt(cycles, 2, Tolerance + 1) = receipt
    BY <2>2, <2>3, FirstsOfLog
  <2>5. onset = IF write = Never \/ BeforeWrite(log, write) = {} THEN Never
                ELSE First(Others(log, moves, write))
    BY <2>2, OnsetOfLog
  <2>6. write # Never => written <= write /\ receipt # Never /\ receipt <= write
    BY <2>1, WriteFollows
  <2>7. /\ write # Never => write \in 2 .. 4
        /\ written # Never => written \in 2 .. 4
    <3>1. /\ 4 \in Nat /\ Writes(log, received, ok) \in SUBSET (1 .. 4)
          /\ Writes(1 .. 4, received, ok) \in SUBSET (1 .. 4)
      BY DEF Writes
    <3>2. /\ write # Never => write \in Writes(log, received, ok)
          /\ written # Never => written \in Writes(1 .. 4, received, ok)
      BY <3>1, FirstOf
    <3>3. /\ \A t \in Writes(log, received, ok) : t \in 2 .. 4
          /\ \A t \in Writes(1 .. 4, received, ok) : t \in 2 .. 4
      BY DEF Writes
    <3> QED
      BY <3>2, <3>3
  <2>8. onset # Never => moves <= onset
    <3> SUFFICES ASSUME onset # Never PROVE moves <= onset
      OBVIOUS
    <3>1. write # Never /\ BeforeWrite(log, write) # {} /\ onset = First(Others(log, moves, write))
      BY <2>5
    <3>2. write \in Int
      BY <2>7, <3>1
    <3> HIDE DEF onset, write
    <3> QED
      BY <3>1, <3>2, OnsetFollows
  <2>9. ASSUME written # Never, moves >= written, log = 1 .. 4 PROVE onset = moves
    <3>1. write = written /\ write \in 2 .. 4 /\ write <= moves
      BY <2>7, <2>9
    <3>2. BeforeWrite(1 .. 4, write) # {} /\ First(Others(1 .. 4, moves, write)) = moves
      <4> HIDE DEF write
      <4> QED
        BY <3>1, OnsetIsMotion
    <3>3. write # Never
      BY <2>9, <3>1
    <3> HIDE DEF onset, write
    <3> QED
      BY <2>5, <2>9, <3>2, <3>3
  <2> HIDE DEF all, cycles, written, write, onset, receipt
  <2>10. written # Never /\ moves >= written =>
           /\ write # Never => written <= write /\ receipt # Never /\ receipt <= write
           /\ onset # Never => moves <= onset
           /\ log = 1 .. 4 => onset = moves
    BY <2>6, <2>8, <2>9
  <2> QED
    BY <2>4, <2>10 DEF CausalFor, onset, all, cycles
<1>4. \A received \in Received, ok \in SUBSET (1 .. 4), log \in Logs, moves \in 1 .. 4 :
        CausalFor(received, ok, log, moves)
  BY <1>2, <1>3, Zenon
<1> QED
  BY <1>1, <1>4, Zenon DEF TimingChainIsCausal, CausalFor, AllCycles, LogOf, CycleOf, Count

\* What a point adds to the group of a trial.
GroupPoint(group, p, trial) == IF p.trial = trial THEN Append(group, p) ELSE group

LEMMA GroupSteps ==
  ASSUME NEW P, NEW points \in Seq(P), NEW trial
  PROVE  \E h \in [0 .. Len(points) -> Seq(P)] :
           /\ h[0] = <<>> /\ \A i \in 1 .. Len(points) : h[i] = GroupPoint(h[i - 1], points[i], trial)
           /\ Group(points, trial) = h[Len(points)]
<1> DEFINE n == Len(points)
           V == Seq(P)
           b == <<>>
           F == [i \in 1 .. n |-> [v \in V |-> GroupPoint(v, points[i], trial)]]
           Table(g) == g = [t \in SUBSET (1 .. n) |->
                              IF t = {} THEN b ELSE GroupPoint(g[t \ {Max(t)}], points[Max(t)], trial)]
<1>1. n \in Nat /\ DOMAIN points = 1 .. n /\ \A i \in 1 .. n : points[i] \in P
  OBVIOUS
<1>2. b \in V
  OBVIOUS
<1>3. \A v \in V, p \in P : GroupPoint(v, p, trial) \in V
  BY DEF GroupPoint
<1>4. F \in [1 .. n -> [V -> V]]
  BY <1>1, <1>3
<1>5. Group(points, trial) = (CHOOSE g : Table(g))[1 .. n]
  BY <1>1 DEF Group, FoldLeft, MapThenFoldSet, GroupPoint
<1>6. \E g : Table(g)
  <2> HIDE DEF n, V, b, F
  <2>1. PICK g : IsFold(g, n, V, b, F)
    BY <1>1, <1>2, <1>4, FoldExists
  <2>2. ASSUME NEW t \in SUBSET (1 .. n), t # {}
        PROVE  F[Max(t)][g[t \ {Max(t)}]] = GroupPoint(g[t \ {Max(t)}], points[Max(t)], trial)
    <3>1. Max(t) \in 1 .. n /\ t \ {Max(t)} \in SUBSET (1 .. n)
      BY <1>1, <2>2, MaxOfSome
    <3>2. g[t \ {Max(t)}] \in V
      BY <2>1, <3>1 DEF IsFold
    <3> QED
      BY <3>1, <3>2 DEF F
  <2>3. Table(g)
    BY <2>1, <2>2 DEF IsFold
  <2> HIDE DEF Table
  <2> QED
    BY <2>3
<1>7. PICK f : Group(points, trial) = f[1 .. n] /\ Table(f)
  <2> HIDE DEF Table, n
  <2> QED
    BY <1>5, <1>6
<1>8. f[{}] = b
  <2> HIDE DEF n, b
  <2> QED
    BY <1>7
<1>9. ASSUME NEW t \in SUBSET (1 .. n), t # {}, f[t \ {Max(t)}] \in V
      PROVE  f[t] = F[Max(t)][f[t \ {Max(t)}]]
  <2>1. Max(t) \in 1 .. n
    BY <1>1, <1>9, MaxOfSome
  <2>2. f[t] = GroupPoint(f[t \ {Max(t)}], points[Max(t)], trial)
    <3> HIDE DEF n, b
    <3> QED
      BY <1>7, <1>9
  <2> HIDE DEF V
  <2> QED
    BY <1>9, <2>1, <2>2
<1>10. FoldsBy(f, n, V, b, F)
  <2> HIDE DEF n, V, b, F
  <2> QED
    BY <1>8, <1>9 DEF FoldsBy
<1>11. PICK h : FoldsTo(h, n, V, b, F) /\ h[n] = f[1 .. n]
  <2> HIDE DEF n, V, b, F
  <2> QED
    BY <1>1, <1>2, <1>4, <1>10, FoldSteps
<1>12. ASSUME NEW i \in 1 .. n
       PROVE  h[i] = GroupPoint(h[i - 1], points[i], trial)
  <2>1. h[i - 1] \in V
    <3>1. i - 1 \in 0 .. n
      BY <1>1
    <3> HIDE DEF n, V
    <3> QED
      BY <1>11, <3>1 DEF FoldsTo
  <2> HIDE DEF V
  <2> QED
    BY <1>11, <2>1 DEF FoldsTo
<1> QED
  BY <1>7, <1>11, <1>12 DEF FoldsTo

\* The points of a trial are those after the first a, up to the z-th; s is m of them.
IsRun(points, trial, a, z) ==
  /\ a \in Nat /\ z \in Nat /\ a <= z /\ z <= Len(points)
  /\ \A k \in 1 .. Len(points) : points[k].trial = trial <=> a < k /\ k <= z
IsGroup(s, P, points, a, m) ==
  s \in Seq(P) /\ Len(s) = m /\ \A i \in 1 .. m : s[i] = points[a + i]

LEMMA GroupGrows ==
  ASSUME NEW P, NEW points, NEW a \in Nat, NEW m \in Nat, NEW s, IsGroup(s, P, points, a, m),
         points[a + (m + 1)] \in P
  PROVE  IsGroup(Append(s, points[a + (m + 1)]), P, points, a, m + 1)
<1> DEFINE p == points[a + (m + 1)]
           q == Append(s, p)
<1>1. s \in Seq(P) /\ Len(s) = m /\ \A i \in 1 .. m : s[i] = points[a + i]
  BY DEF IsGroup
<1>2. p \in P
  OBVIOUS
<1> HIDE DEF p
<1>3. q \in Seq(P) /\ Len(q) = m + 1 /\ q[m + 1] = p /\ \A i \in 1 .. m : q[i] = s[i]
  BY <1>1, <1>2
<1> HIDE DEF q
<1>4. ASSUME NEW i \in 1 .. m + 1 PROVE q[i] = points[a + i]
  <2>1. CASE i = m + 1
    BY <1>3, <2>1 DEF p
  <2>2. CASE i \in 1 .. m
    BY <1>1, <1>3, <2>2
  <2> QED
    BY <2>1, <2>2
<1> QED
  BY <1>3, <1>4 DEF IsGroup, p, q

LEMMA GroupIsRun ==
  ASSUME NEW P, NEW points \in Seq(P), NEW trial, NEW a, NEW z, IsRun(points, trial, a, z)
  PROVE  IsGroup(Group(points, trial), P, points, a, z - a)
<1> DEFINE n == Len(points)
           Taken(k) == IF k <= a THEN 0 ELSE IF k <= z THEN k - a ELSE z - a
<1>1. n \in Nat /\ \A i \in 1 .. n : points[i] \in P
  OBVIOUS
<1>2. a \in Nat /\ z \in Nat /\ a <= z /\ z <= n
  BY DEF IsRun
<1>3. \A k \in 1 .. n : points[k].trial = trial <=> a < k /\ k <= z
  BY DEF IsRun
<1>4. PICK h \in [0 .. n -> Seq(P)] :
        /\ h[0] = <<>> /\ \A i \in 1 .. n : h[i] = GroupPoint(h[i - 1], points[i], trial)
        /\ Group(points, trial) = h[n]
  BY GroupSteps, SMTT(30)
<1> HIDE DEF n
<1> DEFINE I == {k \in 0 .. n : IsGroup(h[k], P, points, a, Taken(k))}
<1>5. 0 \in I
  <2>1. IsGroup(<<>>, P, points, a, 0)
    BY DEF IsGroup
  <2>2. Taken(0) = 0
    BY <1>2
  <2> HIDE DEF Taken
  <2> QED
    BY <1>1, <1>4, <2>1, <2>2
<1>6. \A k \in 1 .. n : k - 1 \in I => k \in I
  <2> SUFFICES ASSUME NEW k \in 1 .. n, k - 1 \in I PROVE k \in I
    OBVIOUS
  <2>1. IsGroup(h[k - 1], P, points, a, Taken(k - 1)) /\ h[k] = GroupPoint(h[k - 1], points[k], trial)
    BY <1>4
  <2> HIDE DEF I
  <2>2. CASE a < k /\ k <= z
    <3> DEFINE m == Taken(k - 1)
    <3>1. m \in Nat /\ Taken(k) = m + 1 /\ a + (m + 1) = k
      BY <1>2, <2>2
    <3> HIDE DEF Taken, m
    <3>2. h[k] = Append(h[k - 1], points[k]) /\ points[k] \in P
      BY <1>1, <1>3, <2>1, <2>2 DEF GroupPoint
    <3>3. IsGroup(Append(h[k - 1], points[a + (m + 1)]), P, points, a, m + 1)
      <4>1. points[a + (m + 1)] \in P /\ IsGroup(h[k - 1], P, points, a, m)
        BY <2>1, <3>1, <3>2 DEF m
      <4> QED
        BY <1>2, <3>1, <4>1, GroupGrows
    <3>4. IsGroup(h[k], P, points, a, Taken(k))
      BY <3>1, <3>2, <3>3
    <3> QED
      BY <1>1, <3>4 DEF I
  <2>3. CASE ~(a < k /\ k <= z)
    <3>1. Taken(k) = Taken(k - 1)
      BY <1>2, <2>3
    <3> HIDE DEF Taken
    <3>2. h[k] = h[k - 1]
      BY <1>3, <2>1, <2>3 DEF GroupPoint
    <3>3. IsGroup(h[k], P, points, a, Taken(k))
      BY <2>1, <3>1, <3>2
    <3> QED
      BY <1>1, <3>3 DEF I
  <2> QED
    BY <2>2, <2>3
<1>7. 0 .. n \subseteq I
  <2> HIDE DEF I
  <2> QED
    BY <1>1, <1>5, <1>6, InductionTo
<1>8. n \in 0 .. n /\ Taken(n) = z - a
  BY <1>1, <1>2
<1> HIDE DEF Taken
<1>9. IsGroup(h[n], P, points, a, Taken(n))
  BY <1>7, <1>8
<1> QED
  BY <1>4, <1>8, <1>9

LEMMA PartOfAny ==
  ASSUME NEW P, NEW s \in Seq(P), NEW m \in 1 .. Len(s) + 1, NEW n \in m - 1 .. Len(s)
  PROVE  /\ SubSeq(s, m, n) \in Seq(P) /\ Len(SubSeq(s, m, n)) = n - m + 1
         /\ \A i \in 1 .. n - m + 1 : SubSeq(s, m, n)[i] = s[m + i - 1]
<1>1. Len(s) \in Nat /\ m \in Int /\ n \in Int
  OBVIOUS
<1>2. \A i \in m .. n : s[i] \in P
  BY <1>1
<1> QED
  BY <1>1, <1>2, SubSeqProperties

\* The last samples of any kind, from the a-th.
IsLast(p, w, P, a) ==
  p \in Seq(P) /\ Len(p) = Len(w) - a + 1 /\ \A i \in 1 .. Len(w) - a + 1 : p[i] = w[a + i - 1]

LEMMA DropAny ==
  ASSUME NEW P, NEW w \in Seq(P), NEW a \in 1 .. Len(w) + 1
  PROVE  IsLast(SubSeq(w, a, Len(w)), w, P, a)
<1>1. Len(w) \in Nat
  OBVIOUS
<1>2. Len(w) \in a - 1 .. Len(w)
  BY <1>1
<1> QED
  BY <1>2, PartOfAny DEF IsLast

LEMMA LastPoints ==
  ASSUME NEW P, NEW w \in Seq(P), NEW a \in 1 .. Len(w) + 1, a = (70 * Len(w)) \div 100 + 1
  PROVE  IsLast(LastPart(w, 70), w, P, a)
<1>1. LastPart(w, 70) = SubSeq(w, a, Len(w))
  BY DEF LastPart
<1>2. IsLast(SubSeq(w, a, Len(w)), w, P, a)
  BY DropAny
<1> QED
  BY <1>1, <1>2, Zenon

\* Where the stairs go, and where a joint that follows once it is d off comes to stand.
Staircase == <<0, 1, 2, 3, 0, -1, -2, -3, 0>>
StairAt(i) == IF i <= 4 THEN i - 1 ELSE IF 5 < i /\ i < 9 THEN 5 - i ELSE 0
Stands(d, i) ==
  IF Size(StairAt(i)) < d THEN 0
  ELSE IF d = 2 THEN (IF StairAt(i) < 0 THEN -2 ELSE 2) ELSE StairAt(i)
FollowAt(d, q, cmd) == IF cmd - q >= d \/ q - cmd >= d THEN cmd ELSE q
StairPlace(qs, cmd, d) == Append(qs, FollowAt(d, IF qs = <<>> THEN 0 ELSE Last(qs), cmd))
Stood(d) == FoldLeft(LAMBDA qs, cmd : Append(qs, FollowAt(d, IF qs = <<>> THEN 0 ELSE Last(qs), cmd)), <<>>, Staircase)

LEMMA StairsAre ==
  Staircase \in Seq(Int) /\ Len(Staircase) = 9 /\ DOMAIN Staircase = 1 .. 9 /\ \A i \in 1 .. 9 : Staircase[i] = StairAt(i)
<1>1. Staircase \in Seq(Int) /\ Len(Staircase) = 9
  BY DEF Staircase
<1>2. ASSUME NEW i \in 1 .. 9 PROVE Staircase[i] = StairAt(i)
  BY DEF Staircase, StairAt
<1> QED
  BY <1>1, <1>2

LEMMA StairIs ==
  \A i \in 1 .. 9 : StairAt(i) \in Int
BY DEF StairAt

LEMMA StandsThere ==
  ASSUME NEW d \in 1 .. 4, NEW i \in 1 .. 9
  PROVE  /\ StairAt(i) \in Int /\ Stands(d, i) \in Int
         /\ FollowAt(d, IF i = 1 THEN 0 ELSE Stands(d, i - 1), StairAt(i)) = Stands(d, i)
BY DEF StairAt, Stands, FollowAt, Size

LEMMA PlaceSteps ==
  ASSUME NEW d \in 1 .. 4
  PROVE  \E h \in [0 .. 9 -> Seq(Int)] :
           h[0] = <<>> /\ (\A i \in 1 .. 9 : h[i] = StairPlace(h[i - 1], Staircase[i], d)) /\ Stood(d) = h[9]
<1> DEFINE n == 9
           V == Seq(Int)
           b == <<>>
           F == [i \in 1 .. n |-> [v \in V |-> StairPlace(v, Staircase[i], d)]]
           Table(g) == g = [t \in SUBSET (1 .. n) |->
                              IF t = {} THEN b ELSE StairPlace(g[t \ {Max(t)}], Staircase[Max(t)], d)]
<1>1. n \in Nat /\ DOMAIN Staircase = 1 .. n /\ \A i \in 1 .. n : Staircase[i] \in Int
  <2>1. n \in Nat /\ DOMAIN Staircase = 1 .. n
    BY StairsAre
  <2>2. \A i \in 1 .. 9 : Staircase[i] = StairAt(i) /\ StairAt(i) \in Int
    BY StairsAre, StairIs
  <2> QED
    BY <2>1, <2>2
<1>2. b \in V
  OBVIOUS
<1>3. \A v \in V, c \in Int : StairPlace(v, c, d) \in V
  <2> SUFFICES ASSUME NEW v \in V, NEW c \in Int PROVE StairPlace(v, c, d) \in V
    OBVIOUS
  <2>1. (IF v = <<>> THEN 0 ELSE Last(v)) \in Int
    BY DEF Last
  <2> QED
    BY <2>1 DEF StairPlace, FollowAt
<1>4. F \in [1 .. n -> [V -> V]]
  BY <1>1, <1>3
<1>5. Stood(d) = (CHOOSE g : Table(g))[1 .. n]
  <2>1. DOMAIN Staircase = 1 .. n
    BY <1>1
  <2> QED
    BY <2>1, StairsAre DEF Stood, FoldLeft, MapThenFoldSet, StairPlace
<1>6. \E g : Table(g)
  <2> HIDE DEF n, V, b, F
  <2>1. PICK g : IsFold(g, n, V, b, F)
    BY <1>1, <1>2, <1>4, FoldExists
  <2>2. ASSUME NEW t \in SUBSET (1 .. n), t # {}
        PROVE  F[Max(t)][g[t \ {Max(t)}]] = StairPlace(g[t \ {Max(t)}], Staircase[Max(t)], d)
    <3>1. Max(t) \in 1 .. n /\ t \ {Max(t)} \in SUBSET (1 .. n)
      BY <1>1, <2>2, MaxOfSome
    <3>2. g[t \ {Max(t)}] \in V
      BY <2>1, <3>1 DEF IsFold
    <3> QED
      BY <3>1, <3>2 DEF F
  <2>3. Table(g)
    BY <2>1, <2>2 DEF IsFold
  <2> HIDE DEF Table
  <2> QED
    BY <2>3
<1>7. PICK f : Stood(d) = f[1 .. n] /\ Table(f)
  <2> HIDE DEF Table, n
  <2> QED
    BY <1>5, <1>6
<1>8. f[{}] = b
  <2> HIDE DEF n, b
  <2> QED
    BY <1>7
<1>9. ASSUME NEW t \in SUBSET (1 .. n), t # {}, f[t \ {Max(t)}] \in V
      PROVE  f[t] = F[Max(t)][f[t \ {Max(t)}]]
  <2>1. Max(t) \in 1 .. n
    BY <1>1, <1>9, MaxOfSome
  <2>2. f[t] = StairPlace(f[t \ {Max(t)}], Staircase[Max(t)], d)
    <3> HIDE DEF n, b
    <3> QED
      BY <1>7, <1>9
  <2> HIDE DEF V
  <2> QED
    BY <1>9, <2>1, <2>2
<1>10. FoldsBy(f, n, V, b, F)
  <2> HIDE DEF n, V, b, F
  <2> QED
    BY <1>8, <1>9 DEF FoldsBy
<1>11. PICK h : FoldsTo(h, n, V, b, F) /\ h[n] = f[1 .. n]
  <2> HIDE DEF n, V, b, F
  <2> QED
    BY <1>1, <1>2, <1>4, <1>10, FoldSteps
<1>12. ASSUME NEW i \in 1 .. n
       PROVE  h[i] = StairPlace(h[i - 1], Staircase[i], d)
  <2>1. h[i - 1] \in V
    <3>1. i - 1 \in 0 .. n
      OBVIOUS
    <3> HIDE DEF n, V
    <3> QED
      BY <1>11, <3>1 DEF FoldsTo
  <2> HIDE DEF V
  <2> QED
    BY <1>11, <2>1 DEF FoldsTo
<1> QED
  BY <1>7, <1>11, <1>12 DEF FoldsTo

\* The joint stands where Stands says after m stairs.
StoodAt(s, d, m) == s \in Seq(Int) /\ Len(s) = m /\ \A j \in 1 .. m : s[j] = Stands(d, j)

LEMMA StandsOn ==
  ASSUME NEW d \in 1 .. 4, NEW i \in 1 .. 9, NEW s, StoodAt(s, d, i - 1)
  PROVE  StoodAt(StairPlace(s, Staircase[i], d), d, i)
<1>1. s \in Seq(Int) /\ Len(s) = i - 1 /\ \A j \in 1 .. i - 1 : s[j] = Stands(d, j)
  BY DEF StoodAt
<1> DEFINE last == IF s = <<>> THEN 0 ELSE Last(s)
           v == Stands(d, i)
<1>2. last = IF i = 1 THEN 0 ELSE Stands(d, i - 1)
  <2>1. CASE i = 1
    <3>1. s = <<>>
      BY <1>1, <2>1
    <3> QED
      BY <2>1, <3>1
  <2>2. CASE i # 1
    <3>1. i - 1 \in 1 .. i - 1
      BY <2>2
    <3>2. s # <<>>
      BY <1>1, <3>1
    <3>3. Last(s) = Stands(d, i - 1)
      BY <1>1, <3>1 DEF Last
    <3> QED
      BY <2>2, <3>2, <3>3
  <2> QED
    BY <2>1, <2>2
<1>3. FollowAt(d, last, Staircase[i]) = v /\ v \in Int
  BY <1>2, StandsThere, StairsAre
<1>4. StairPlace(s, Staircase[i], d) = Append(s, v)
  BY <1>3 DEF StairPlace
<1> HIDE DEF v
<1> DEFINE q == Append(s, v)
<1>5. q \in Seq(Int) /\ Len(q) = (i - 1) + 1 /\ q[(i - 1) + 1] = v /\ \A j \in 1 .. i - 1 : q[j] = s[j]
  BY <1>1, <1>3
<1>6. (i - 1) + 1 = i
  OBVIOUS
<1> HIDE DEF q
<1>7. ASSUME NEW j \in 1 .. i PROVE q[j] = Stands(d, j)
  <2>1. j = i \/ j \in 1 .. i - 1
    OBVIOUS
  <2> QED
    BY <1>1, <1>5, <1>6, <2>1 DEF v
<1>8. StoodAt(q, d, i)
  BY <1>5, <1>6, <1>7 DEF StoodAt
<1> QED
  BY <1>4, <1>8 DEF q

LEMMA PlacesAre ==
  ASSUME NEW d \in 1 .. 4
  PROVE  StoodAt(Stood(d), d, 9)
<1>1. PICK h \in [0 .. 9 -> Seq(Int)] :
        h[0] = <<>> /\ (\A i \in 1 .. 9 : h[i] = StairPlace(h[i - 1], Staircase[i], d)) /\ Stood(d) = h[9]
  BY PlaceSteps
<1> DEFINE I == {i \in 0 .. 9 : StoodAt(h[i], d, i)}
<1>2. 0 \in I
  <2>1. StoodAt(<<>>, d, 0)
    BY DEF StoodAt
  <2> QED
    BY <1>1, <2>1
<1>3. \A i \in 1 .. 9 : i - 1 \in I => i \in I
  <2> SUFFICES ASSUME NEW i \in 1 .. 9, i - 1 \in I PROVE i \in I
    OBVIOUS
  <2>1. StoodAt(StairPlace(h[i - 1], Staircase[i], d), d, i)
    BY StandsOn
  <2>2. StoodAt(h[i], d, i)
    BY <1>1, <2>1
  <2> QED
    BY <2>2
<1>4. 9 \in Nat /\ 9 \in 0 .. 9
  OBVIOUS
<1>5. 0 .. 9 \subseteq I
  <2> HIDE DEF I
  <2> QED
    BY <1>2, <1>3, <1>4, InductionTo
<1> QED
  BY <1>1, <1>4, <1>5

\* The points of the staircase: each comes lag samples late.
StairOf(k) == (k - 1) \div 4 + 1
StairPoint(k, lag, qs) == [trial |-> StairOf(k + lag), ref |-> Staircase[StairOf(k)], q |-> qs[StairOf(k)]]
StairPoints(lag, qs) == [k \in 1 .. 36 - lag |-> StairPoint(k, lag, qs)]
StairBegins(lag, i) == IF i = 1 THEN 0 ELSE 4 * i - 4 - lag
StairEnds(lag, i) == 4 * i - lag

LEMMA StairOfIs ==
  ASSUME NEW k \in Int, NEW i \in Int
  PROVE  StairOf(k) = i <=> 4 * i - 4 < k /\ k <= 4 * i
<1> DEFINE x == (k - 1) \div 4
<1>1. x \in Int /\ 4 * x <= k - 1 /\ k - 1 < 4 * x + 4
  OBVIOUS
<1>2. StairOf(k) = x + 1
  BY DEF StairOf
<1> HIDE DEF x
<1> QED
  BY <1>1, <1>2

LEMMA StairRuns ==
  ASSUME NEW lag \in 0 .. 2, NEW i \in 1 .. 9, NEW qs
  PROVE  /\ IsRun(StairPoints(lag, qs), i, StairBegins(lag, i), StairEnds(lag, i))
         /\ StairPoints(lag, qs) \in Seq({StairPoints(lag, qs)[k] : k \in 1 .. 36 - lag})
<1> DEFINE points == StairPoints(lag, qs)
           n == 36 - lag
           a == StairBegins(lag, i)
           z == StairEnds(lag, i)
           P == {points[k] : k \in 1 .. n}
<1>1. n \in Nat /\ a \in Nat /\ z \in Nat /\ a <= z /\ z <= n
  BY DEF StairBegins, StairEnds
<1>2. DOMAIN points = 1 .. n /\ \A k \in 1 .. n : points[k] = StairPoint(k, lag, qs)
  BY DEF StairPoints
<1>3. points \in [1 .. n -> P]
  <2>1. points = [k \in 1 .. n |-> points[k]]
    BY DEF StairPoints
  <2> HIDE DEF points
  <2> QED
    BY <2>1
<1>4. points \in Seq(P) /\ Len(points) = n
  <2> HIDE DEF points, P, n
  <2> QED
    BY <1>1, <1>3
<1>5. ASSUME NEW k \in 1 .. n PROVE points[k].trial = i <=> a < k /\ k <= z
  <2>1. points[k].trial = StairOf(k + lag)
    BY <1>2 DEF StairPoint
  <2>2. StairOf(k + lag) = i <=> 4 * i - 4 < k + lag /\ k + lag <= 4 * i
    BY StairOfIs
  <2>3. 4 * i - 4 < k + lag /\ k + lag <= 4 * i <=> a < k /\ k <= z
    BY DEF StairBegins, StairEnds
  <2> HIDE DEF points, a, z
  <2> QED
    BY <2>1, <2>2, <2>3
<1> QED
  <2> HIDE DEF a, z, n, points
  <2>1. IsRun(points, i, a, z)
    BY <1>1, <1>4, <1>5 DEF IsRun
  <2> QED
    BY <1>4, <2>1 DEF a, z, n, points

\* The points left of a stair, and what was sampled there.
Left(points, i) == LastPart(Group(points, i), 70)
AllAt(s, P, aim, q) == s \in Seq(P) /\ Len(s) > 0 /\ \A j \in 1 .. Len(s) : s[j].ref = aim /\ s[j].q = q

LEMMA LeftOfStair ==
  ASSUME NEW lag \in 0 .. 2, NEW i \in 1 .. 9, NEW qs
  PROVE  \E P : AllAt(Left(StairPoints(lag, qs), i), P, Staircase[i], qs[i])
<1> DEFINE points == StairPoints(lag, qs)
           n == 36 - lag
           a == StairBegins(lag, i)
           z == StairEnds(lag, i)
           P == {points[k] : k \in 1 .. n}
           w == Group(points, i)
           l == z - a
           b == (70 * l) \div 100 + 1
           p == LastPart(w, 70)
<1>1. points \in Seq(P) /\ IsRun(points, i, a, z)
  BY StairRuns
<1>2. /\ l \in {2, 3, 4} /\ a \in Nat /\ z \in Nat /\ z <= n /\ z = 4 * i - lag
      /\ l = (IF i = 1 THEN 4 - lag ELSE 4)
  BY DEF StairBegins, StairEnds
<1>3. b \in 1 .. l /\ b \in {2, 3} /\ (l = 4 => b = 3)
  <2> HIDE DEF l
  <2>1. (70 * 2) \div 100 = 1 /\ (70 * 3) \div 100 = 2 /\ (70 * 4) \div 100 = 2
    OBVIOUS
  <2> QED
    BY <1>2, <2>1
<1>4. IsGroup(w, P, points, a, l)
  <2> HIDE DEF points, P, a, z
  <2> QED
    BY <1>1, GroupIsRun
<1>5. w \in Seq(P) /\ Len(w) = l /\ \A j \in 1 .. l : w[j] = points[a + j]
  <2> HIDE DEF w, P, points, a, l
  <2> QED
    BY <1>4 DEF IsGroup
<1>6. b \in 1 .. Len(w) + 1 /\ b = (70 * Len(w)) \div 100 + 1
  BY <1>2, <1>3, <1>5
<1>7. IsLast(p, w, P, b)
  <2> HIDE DEF w, P, b
  <2> QED
    BY <1>5, <1>6, LastPoints
<1> HIDE DEF p, w, P, b
<1>8. /\ p \in Seq(P) /\ Len(p) = l - b + 1
      /\ \A j \in 1 .. l - b + 1 : p[j] = w[b + j - 1]
  <2> HIDE DEF l
  <2> QED
    BY <1>5, <1>7 DEF IsLast
<1>9. ASSUME NEW j \in 1 .. l - b + 1
      PROVE  p[j].ref = Staircase[i] /\ p[j].q = qs[i]
  <2> DEFINE m == b + j - 1
             k == a + m
  <2>1. m \in 1 .. l /\ k \in 1 .. n /\ 4 * i - 4 < k /\ k <= 4 * i
    <3>1. m \in 1 .. l /\ m >= b
      BY <1>2, <1>3
    <3>2. CASE i = 1
      BY <1>2, <3>1, <3>2
    <3>3. CASE i # 1
      <4>1. l = 4 /\ b = 3 /\ a = 4 * i - 4 - lag /\ m \in 3 .. 4
        BY <1>2, <1>3, <3>1, <3>3 DEF StairBegins
      <4>2. 4 * i - lag <= n /\ n \in Int /\ 1 <= 4 * i - 4 - lag + 3
        BY <3>3
      <4> HIDE DEF m, a, l, b, n, z
      <4> QED
        BY <4>1, <4>2
    <3> QED
      BY <3>2, <3>3
  <2>2. p[j] = w[m] /\ w[m] = points[k]
    <3> HIDE DEF a, l, points
    <3> QED
      BY <1>5, <1>8, <2>1
  <2>3. points[k] = StairPoint(k, lag, qs)
    BY <2>1 DEF StairPoints
  <2>4. StairOf(k) = i
    <3>1. k \in Int
      BY <2>1
    <3> HIDE DEF k
    <3> QED
      BY <2>1, <3>1, StairOfIs
  <2> HIDE DEF points, k, m
  <2> QED
    BY <2>2, <2>3, <2>4 DEF StairPoint
<1>10. AllAt(p, P, Staircase[i], qs[i])
  <2>1. l - b + 1 > 0
    BY <1>2, <1>3
  <2> HIDE DEF l
  <2> QED
    BY <1>8, <1>9, <2>1 DEF AllAt
<1> QED
  BY <1>10 DEF Left, p, w

Refs(s) == [k \in DOMAIN s |-> s[k].ref]
Encoders(s) == [k \in DOMAIN s |-> s[k].q]

LEMMA MedianAlike ==
  ASSUME NEW n \in Nat \ {0}, NEW v \in Int, NEW w, w \in [1 .. n -> {v}]
  PROVE  TwiceMedian(w) = 2 * v
<1>1. {v} \in SUBSET Int
  OBVIOUS
<1>2. w \in Seq(Int) /\ Len(w) = n
  BY <1>1, ResponseIs
<1>3. w # <<>>
  BY <1>1, ResponseIs
<1>4. \A i \in 1 .. Len(w) : w[i] = v
  BY <1>2
<1> QED
  BY <1>2, <1>3, <1>4, MedianOfOne

LEMMA MedianOfAll ==
  ASSUME NEW P, NEW s, NEW aim \in Int, NEW q \in Int, AllAt(s, P, aim, q)
  PROVE  s # <<>> /\ TwiceMedian(Refs(s)) = 2 * aim /\ TwiceMedian(Encoders(s)) = 2 * q
<1> DEFINE n == Len(s)
<1>1. s \in Seq(P) /\ n > 0 /\ \A j \in 1 .. n : s[j].ref = aim /\ s[j].q = q
  BY DEF AllAt
<1>2. n \in Nat \ {0} /\ DOMAIN s = 1 .. n
  BY <1>1
<1>3. s # <<>>
  <2>1. Len(<<>>) = 0
    OBVIOUS
  <2>2. Len(s) # 0
    BY <1>2
  <2> QED
    BY <2>1, <2>2, Zenon
<1> HIDE DEF n
<1>4. Refs(s) \in [1 .. n -> {aim}] /\ Encoders(s) \in [1 .. n -> {q}]
  BY <1>1, <1>2 DEF Refs, Encoders
<1> QED
  BY <1>2, <1>3, <1>4, MedianAlike

\* What the code's staircase finds useful, by what was left of each stair.
IsUseful(points, i, threshold) ==
  /\ Left(points, i) # <<>> /\ TwiceMedian(Refs(Left(points, i))) # 0
  /\ Size(TwiceMedian(Encoders(Left(points, i)))) >= 2 * threshold
UsefulOf(points, trials, threshold) ==
  {Size(TwiceMedian(Refs(Left(points, i)))) \div 2 : i \in {j \in trials : IsUseful(points, j, threshold)}}

LEMMA SmallestIs ==
  ASSUME NEW points, NEW trials, NEW threshold
  PROVE  SmallestUseful(points, trials, threshold) = First(UsefulOf(points, trials, threshold))
BY DEF SmallestUseful, UsefulOf, IsUseful, Size, Left, Refs, Encoders

StairFound(d) == IF d <= 3 THEN d ELSE Never

\* A stair is useful when it is as far out as the deadband.
LEMMA StairsFound ==
  ASSUME NEW d \in 1 .. 4, NEW lag \in 0 .. 2, NEW threshold \in 1 .. 3, threshold <= d
  PROVE  SmallestUseful(StairPoints(lag, Stood(d)), 1 .. 9, threshold) = StairFound(d)
<1> DEFINE points == StairPoints(lag, Stood(d))
           U == UsefulOf(points, 1 .. 9, threshold)
<1>1. ASSUME NEW i \in 1 .. 9
      PROVE  /\ Left(points, i) # <<>>
             /\ TwiceMedian(Refs(Left(points, i))) = 2 * StairAt(i)
             /\ TwiceMedian(Encoders(Left(points, i))) = 2 * Stands(d, i)
  <2>1. Staircase[i] = StairAt(i) /\ StairAt(i) \in Int
    BY StairsAre, StairIs
  <2>2. Stood(d)[i] = Stands(d, i) /\ Stands(d, i) \in Int
    BY PlacesAre, StandsThere DEF StoodAt
  <2>3. PICK P : AllAt(Left(points, i), P, StairAt(i), Stands(d, i))
    BY <2>1, <2>2, LeftOfStair
  <2> HIDE DEF points
  <2> QED
    BY <2>1, <2>2, <2>3, MedianOfAll
<1>2. ASSUME NEW i \in 1 .. 9 
      PROVE  IsUseful(points, i, threshold) <=> Size(StairAt(i)) >= d
  <2>1. IsUseful(points, i, threshold)
          <=> 2 * StairAt(i) # 0 /\ Size(2 * Stands(d, i)) >= 2 * threshold
    <3> HIDE DEF points
    <3> QED
      BY <1>1 DEF IsUseful
  <2>2. 2 * StairAt(i) # 0 /\ Size(2 * Stands(d, i)) >= 2 * threshold <=> Size(StairAt(i)) >= d
    BY DEF StairAt, Stands, Size
  <2> QED
    BY <2>1, <2>2
<1>3. ASSUME NEW i \in 1 .. 9
      PROVE  /\ Size(TwiceMedian(Refs(Left(points, i)))) \div 2 = Size(StairAt(i))
             /\ Size(StairAt(i)) \in 0 .. 3
  <2>1. Size(2 * StairAt(i)) \div 2 = Size(StairAt(i)) /\ Size(StairAt(i)) \in 0 .. 3
    BY DEF StairAt, Size
  <2> HIDE DEF points
  <2> QED
    BY <1>1, <2>1
<1> HIDE DEF points
<1>4. U = {Size(StairAt(i)) : i \in {j \in 1 .. 9 : Size(StairAt(j)) >= d}}
  BY <1>2, <1>3 DEF UsefulOf
<1> HIDE DEF U
<1>5. U \in SUBSET (1 .. 3) /\ \A x \in U : x >= d
  BY <1>3, <1>4
<1>6. 3 \in Nat /\ (First(U) = Never <=> U = {}) /\ (U # {} => First(U) \in U /\ \A x \in U : First(U) <= x)
  BY <1>5, FirstOf
<1>7. First(U) = StairFound(d)
  <2>1. CASE d <= 3
    <3>1. d + 1 \in 1 .. 9 /\ Size(StairAt(d + 1)) = d
      BY <2>1 DEF StairAt, Size
    <3>2. d \in U
      BY <1>4, <3>1
    <3>3. First(U) \in U /\ First(U) <= d
      BY <1>6, <3>2
    <3>4. First(U) = d
      <4>1. First(U) \in 1 .. 3 /\ First(U) >= d
        BY <1>5, <3>3
      <4> QED
        BY <3>3, <4>1
    <3> QED
      BY <2>1, <3>4 DEF StairFound
  <2>2. CASE ~(d <= 3)
    <3>1. U = {}
      BY <1>5, <2>2
    <3>2. First(U) = Never
      BY <1>6, <3>1
    <3> QED
      BY <2>2, <3>2 DEF StairFound
  <2> QED
    BY <2>1, <2>2
<1> QED
  BY <1>7, SmallestIs DEF U, points

\* The points as the property writes them.
PointsOf(d, lag) ==
  [k \in 1 .. 4 * Len(Staircase) - lag |->
     [trial |-> ((k + lag) - 1) \div 4 + 1, ref |-> Staircase[(k - 1) \div 4 + 1], q |-> Stood(d)[(k - 1) \div 4 + 1]]]

DeadbandFor(d, lag, threshold) ==
  threshold <= d => SmallestUseful(PointsOf(d, lag), DOMAIN Staircase, threshold) = StairFound(d)

LEMMA DeadbandFound == DeadbandIsFound
<1>1. ASSUME NEW d \in 1 .. 4, NEW lag \in 0 .. 2, NEW threshold \in 1 .. 3
      PROVE  DeadbandFor(d, lag, threshold)
  <2>1. 4 * Len(Staircase) - lag = 36 - lag /\ DOMAIN Staircase = 1 .. 9
    BY StairsAre
  <2>2. PointsOf(d, lag) = StairPoints(lag, Stood(d))
    BY <2>1 DEF PointsOf, StairPoints, StairPoint, StairOf
  <2> QED
    BY <2>1, <2>2, StairsFound DEF DeadbandFor
<1>2. 3 + 1 = 4 /\ 4 \div 2 = 2
  OBVIOUS
<1>3. ASSUME NEW d \in 1 .. 3 + 1, NEW lag \in 0 .. 4 \div 2, NEW threshold \in 1 .. 3
      PROVE  DeadbandFor(d, lag, threshold)
  BY <1>1, <1>2
<1> QED
  BY <1>3 DEF DeadbandIsFound, DeadbandFor, PointsOf, Stood, FollowAt, StairFound, Staircase

\* What the types need besides the invariant above: where the runner is, and what is left
\* of a run that was broken off.
PhaseTypes ==
  /\ at \in {"exited", "preflight", "prompt", "armed", "run", "abort", "fallback"}
  /\ code \in {"none", "0", "1", "3", "5"}
  /\ anchor \in Int \cup {NoReference} /\ override \in BOOLEAN
MotionTypes ==
  /\ plan \in Seq(Segment) /\ left \in 0 .. Hold + Move
  /\ from \in Int \cup {NoReference} /\ goal \in Int \cup {NoReference}
  /\ ref \in Int \cup {NoReference}

LEMMA TypesFromParts ==
  ASSUME IdentificationAssumption, IdentificationIInv, PhaseTypes, MotionTypes PROVE IdentificationTypeOK
<1>1. /\ request \in Requests /\ Len(transit) <= Delay /\ {known, dropped, spoilt} \subseteq BOOLEAN
      /\ age \in 0 .. Stale + 1 /\ due \in 0 .. GuardEvery - 1 /\ GuardEvery \in Nat \ {0}
  BY DEF IdentificationIInv, RequestHolds, TelemetryTypes, IdentificationAssumption
<1>2. due \in 0 .. GuardEvery
  BY <1>1
<1>3. \A i \in DOMAIN plan : plan[i] \in Segment
  BY DEF MotionTypes
<1>4. {from, goal, ref} \subseteq Int \cup {NoReference} /\ {override, known, dropped, spoilt} \subseteq BOOLEAN
  BY <1>1 DEF MotionTypes, PhaseTypes
<1> QED
  BY <1>1, <1>2, <1>3, <1>4 DEF IdentificationTypeOK, MotionTypes, PhaseTypes

LEMMA PhaseTypesKept ==
  ASSUME IdentificationAssumption, PhaseTypes, [IdentificationNext]_identificationVars PROVE PhaseTypes'
<1>1. Low \in Int /\ High \in Int
  BY DEF IdentificationAssumption
<1>2. CASE Preflight
  <2>1. anchor' = anchor \/ anchor' \in Low - 1 .. High + 1
    BY <1>2 DEF Preflight
  <2>2. override' = override /\ at' \in {"exited", "prompt", "abort"} /\ code' \in {"3", "1", code}
    BY <1>2 DEF Preflight, Exit, Fails
  <2> QED
    BY <1>1, <2>1, <2>2 DEF PhaseTypes
<1>3. CASE Prompt
  BY <1>3 DEF PhaseTypes, Prompt, Exit, Fails, motion
<1>4. CASE Armed
  BY <1>4 DEF PhaseTypes, Armed, Exit, Fails
<1>5. CASE TestTick
  BY <1>5 DEF PhaseTypes, TestTick, EndSegment
<1>6. CASE at = "exited" /\ StartTest
  BY <1>6 DEF PhaseTypes, StartTest
<1>7. CASE TestGuardFinds \/ TestGuardTrips \/ TestComplete \/ HoldLeft
  BY <1>7 DEF PhaseTypes, TestGuardFinds, TestGuardTrips, TestComplete, HoldLeft, AbortTest, Exit, Fails, motion
<1>8. CASE HoldRequested
  BY <1>8 DEF PhaseTypes, HoldRequested
<1>9. CASE UNCHANGED identificationVars
  BY <1>9 DEF PhaseTypes, identificationVars, motion
<1> QED
  BY <1>2, <1>3, <1>4, <1>5, <1>6, <1>7, <1>8, <1>9 DEF IdentificationNext

\* During a run the plan and the ticks are typed by what is said of them.
LEMMA PlanTypesOf ==
  ASSUME IdentificationAssumption, NEW a, NEW r, NEW q, NEW l, q \in Seq(Fitting(a, r)),
         q = <<>> => l = 0,
         q # <<>> => l \in 1 .. (IF q[1].kind = "move" THEN Move ELSE Hold)
  PROVE  q \in Seq(Segment) /\ l \in 0 .. Hold + Move
<1>1. Hold \in Nat \ {0} /\ Move \in Nat \ {0}
  BY DEF IdentificationAssumption
<1>2. Fitting(a, r) \subseteq Segment
  BY DEF Fitting
<1>3. q \in Seq(Segment)
  <2>1. Len(q) \in Nat /\ q \in [1 .. Len(q) -> Fitting(a, r)]
    OBVIOUS
  <2>2. q \in [1 .. Len(q) -> Segment]
    BY <1>2, <2>1
  <2> QED
    BY <2>1, <2>2, SMTT(30)
<1>4. CASE q = <<>>
  <2>1. l = 0
    BY <1>4
  <2> QED
    BY <1>1, <1>3, <2>1
<1>5. CASE q # <<>>
  <2>1. l \in 1 .. Move \/ l \in 1 .. Hold
    BY <1>5
  <2>2. l \in 0 .. Hold + Move
    BY <1>1, <2>1
  <2> QED
    BY <1>3, <2>2
<1> QED
  BY <1>4, <1>5

LEMMA PlanTypesInRun ==
  ASSUME IdentificationAssumption, PlanFits', at' = "run"
  PROVE  plan' \in Seq(Segment) /\ left' \in 0 .. Hold + Move
<1>1. plan' \in Seq(Fitting(anchor', request'))
  BY DEF PlanFits
<1>2. plan' = <<>> => left' = 0
  BY DEF PlanFits
<1>3. plan' # <<>> => left' \in 1 .. (IF plan'[1].kind = "move" THEN Move ELSE Hold)
  BY DEF PlanFits, Current
<1> QED
  BY <1>1, <1>2, <1>3, PlanTypesOf

LEMMA TickMotionTypes ==
  ASSUME IdentificationAssumption, IdentificationIInv, MotionTypes, TestTick PROVE MotionTypes'
<1>1. /\ RequestHolds /\ TelemetryTypes /\ PlanFits /\ RefsFit /\ at = "run"
      /\ anchor' = anchor /\ request' = request /\ at' \in {"run", "abort"}
  BY DEF IdentificationIInv, TestTick, EndSegment
<1>2. anchor \in Int /\ request.centre \in Int
  <2>1. anchor \in Int /\ ArgumentsOK(request) /\ MaxOffset \in Nat
    BY <1>1 DEF RequestHolds, IdentificationAssumption
  <2> QED
    BY <2>1 DEF ArgumentsOK
<1>3. PlanFits' /\ RefsFit' /\ (ref' = NoReference \/ Sent(anchor, ref'))
  BY <1>1, <1>2, TickPlan, TickSends
<1>4. ref' \in Int \cup {NoReference}
  BY <1>3 DEF Sent
<1>5. CASE at' = "abort"
  <2>1. UNCHANGED <<plan, left, from, goal>>
    BY <1>1, <1>5 DEF TestTick, EndSegment
  <2> QED
    BY <1>4, <2>1 DEF MotionTypes
<1>6. CASE at' = "run"
  <2>1. plan' \in Seq(Segment) /\ left' \in 0 .. Hold + Move
    BY <1>3, <1>6, PlanTypesInRun
  <2>2. NextSegment /\ Len(plan) > 0
    BY <1>1, <1>6, TickSegments
  <2>3. CASE from' = from /\ goal' = goal
    BY <1>4, <2>1, <2>3 DEF MotionTypes
  <2>4. CASE /\ Len(plan) > 1 /\ plan' = Tail(plan) /\ from' = ref'
             /\ \E base \in Bases(plan[2]) :
                  /\ plan[2].kind # "hold" \/ Valid(base, plan[2].offset)
                  /\ goal' = IF plan[2].base = "none" THEN ref ELSE base + plan[2].offset
    <3>1. plan \in Seq(Fitting(anchor, request)) /\ \A i \in 2 .. Len(plan) : plan[i].kind # "countdown"
      BY <1>1 DEF PlanFits
    <3>2. 2 \in 1 .. Len(plan) /\ 2 \in 2 .. Len(plan) /\ plan[2] \in Fitting(anchor, request)
      BY <2>4, <3>1
    <3>3. plan[2].kind \in {"hold", "move", "triangle"} /\ Fits(anchor, request, plan[2])
      BY <3>1, <3>2 DEF Fitting, Segment
    <3>4. plan'[1] = plan[2] /\ Len(plan') > 0
      BY <2>4, <3>1, RestOfPlan
    <3>5. plan' # <<>>
      <4>1. Len(<<>>) = 0
        OBVIOUS
      <4>2. Len(plan') # 0
        BY <3>4
      <4> QED
        BY <4>1, <4>2, Zenon
    <3>6. CASE plan[2].kind \in {"hold", "move"}
      <4>1. Sent(anchor, goal')
        BY <1>1, <1>3, <1>6, <3>4, <3>5, <3>6 DEF RefsFit, Current
      <4> QED
        BY <1>4, <2>1, <2>4, <4>1 DEF MotionTypes, Sent
    <3>7. CASE plan[2].kind = "triangle"
      <4>1. goal' = ref
        BY <2>4, <3>3, <3>7 DEF Fits
      <4> QED
        BY <1>4, <2>1, <2>4, <4>1 DEF MotionTypes
    <3> QED
      BY <3>3, <3>6, <3>7
  <2>5. CASE left = 1 /\ Len(plan) = 1
    <3>1. EndSegment
      BY <2>5 DEF TestTick
    <3>2. from' = from /\ goal' = goal
      BY <2>5, <3>1 DEF EndSegment
    <3> QED
      BY <2>3, <3>2
  <2> QED
    BY <2>2, <2>3, <2>4, <2>5 DEF NextSegment
<1> QED
  BY <1>1, <1>5, <1>6

LEMMA MotionTypesKept ==
  ASSUME IdentificationAssumption, IdentificationIInv, MotionTypes, IdentificationIInv',
         [IdentificationNext]_identificationVars
  PROVE  MotionTypes'
<1>1. CASE TestTick
  BY <1>1, TickMotionTypes
<1>2. CASE Armed
  <2>1. UNCHANGED <<from, goal, ref>> /\ (at' = "run" \/ UNCHANGED <<plan, left>>)
    BY <1>2 DEF Armed
  <2>2. CASE at' = "run"
    <3>1. plan' \in Seq(Segment) /\ left' \in 0 .. Hold + Move
      BY <2>2, PlanTypesInRun DEF IdentificationIInv
    <3> QED
      BY <2>1, <3>1 DEF MotionTypes
  <2>3. CASE UNCHANGED <<plan, left>>
    BY <2>1, <2>3 DEF MotionTypes
  <2> QED
    BY <2>1, <2>2, <2>3
<1>3. CASE at = "exited" /\ StartTest
  <2>1. /\ plan' = <<>> /\ left' = 0 /\ from' = NoReference /\ goal' = NoReference /\ ref' = NoReference
    BY <1>3 DEF StartTest
  <2>2. 0 \in 0 .. Hold + Move
    BY DEF IdentificationAssumption
  <2>3. plan' \in Seq(Segment)
    BY <2>1
  <2> QED
    BY <2>1, <2>2, <2>3 DEF MotionTypes
<1>4. CASE HoldRequested
  <2>1. UNCHANGED <<plan, left, from, goal>> /\ ref' \in Low - 1 .. High + 1
    BY <1>4 DEF HoldRequested
  <2>2. Low \in Int /\ High \in Int
    BY DEF IdentificationAssumption
  <2>3. ref' \in Int
    BY <2>1, <2>2
  <2> QED
    BY <2>1, <2>3 DEF MotionTypes
<1>5. CASE UNCHANGED <<plan, left, from, goal, ref>>
  BY <1>5 DEF MotionTypes
<1> QED
  BY <1>1, <1>2, <1>3, <1>4, <1>5 DEF IdentificationNext, Preflight, Prompt, TestGuardFinds, TestGuardTrips,
     TestComplete, HoldLeft, AbortTest, identificationVars, motion

LEMMA IdentTypesInit ==
  ASSUME IdentificationAssumption, IdentificationInit PROVE PhaseTypes /\ MotionTypes
<1>1. 0 \in 0 .. Hold + Move
  BY DEF IdentificationAssumption
<1>2. plan = <<>> /\ left = 0 /\ from = NoReference /\ goal = NoReference /\ ref = NoReference
  BY DEF IdentificationInit
<1>3. plan \in Seq(Segment)
  BY <1>2
<1> QED
  BY <1>1, <1>2, <1>3 DEF IdentificationInit, PhaseTypes, MotionTypes

\* Whatever arrives, in whatever order, the analysis tells what happened: the crossings of a
\* response are in order, every achieved step has a rise time, causes come before their
\* effects, the staircase finds the deadband and the load its deflection.
THEOREM AnalysisSound == AnalysisIsSound
BY CrossingsInOrder, AchievedDefined, TimingCausal, DeadbandFound, LoadIsolated, ToleranceAssumption
   DEF AnalysisIsSound

\* The state of an identification is well-formed, what is made of its telemetry is what
\* happened, and the joint is only sent where it may be.
THEOREM IdentificationIsCorrect == IdentificationSpec => []IdentificationInv
<1>1. ASSUME IdentificationAssumption PROVE IdentificationSpec => []IdentificationTypeOK
  <2>1. IdentificationInit => PhaseTypes /\ MotionTypes
    BY <1>1, IdentTypesInit
  <2>2. /\ IdentificationIInv /\ IdentificationIInv' /\ PhaseTypes /\ MotionTypes
        /\ [IdentificationNext]_identificationVars
        => PhaseTypes' /\ MotionTypes'
    BY <1>1, PhaseTypesKept, MotionTypesKept
  <2>3. IdentificationIInv /\ PhaseTypes /\ MotionTypes => IdentificationTypeOK
    BY <1>1, TypesFromParts
  <2>4. IdentificationSpec => []IdentificationIInv
    BY <1>1, IdentInvariance
  <2> QED
    BY <2>1, <2>2, <2>3, <2>4, PTL DEF IdentificationSpec
<1>2. IdentificationSpec => []IdentificationTypeOK
  BY <1>1, IdentificationAssumption DEF IdentificationAssumption
<1>3. IdentificationTypeOK /\ SentWithinRange => IdentificationInv
  BY AnalysisSound DEF IdentificationInv
<1> QED
  BY <1>2, <1>3, JointIsGuarded, PTL
=============================================================================
