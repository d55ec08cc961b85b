------------------------- MODULE PDController_proofs -------------------------
(***************************************************************************)
(* Proofs about PDController, for every set of joints, every limit, gain   *)
(* and timeout, and in all three modes.                                    *)
(***************************************************************************)
EXTENDS PDController, TLAPS

(***************************************************************************)
(* Clipping and the two pure steps.                                        *)
(***************************************************************************)

\* A clipped value lies between the bounds.
LEMMA ClipRange ==
  ASSUME NEW x \in Int, NEW low \in Int, NEW high \in Int, low <= high
  PROVE  Clip(x, low, high) \in low .. high
BY DEF Clip

\* Clipping brings a value no farther from a point between the bounds.
LEMMA ClipNear ==
  ASSUME NEW x \in Int, NEW low \in Int, NEW high \in Int, NEW p \in low .. high
  PROVE  Size(Clip(x, low, high) - p) <= Size(x - p)
BY DEF Clip, Size

\* A capped velocity is at most the cap.
LEMMA CappedSize ==
  ASSUME NEW x \in Int, NEW bound \in Nat
  PROVE  /\ Capped(x, bound) \in Int
         /\ Size(Capped(x, bound)) <= bound
         /\ Size(Capped(x, bound)) <= Size(x)
BY DEF Capped, Clip, Size

\* _sanitize_and_clip brings every finite angle inside the limits.
LEMMA LimitedAngle ==
  ASSUME NEW x \in Int
  PROVE  Limited(x) \in Angle /\ Limited(x) \in Int
BY LimitAssumption, ClipRange DEF Limited, Angle

\* A step clipped at the limits is no longer than the step asked for.
LEMMA LimitedNear ==
  ASSUME NEW p \in Angle, NEW step \in Int
  PROVE  Size(Limited(p + step) - p) <= Size(step)
<1>1. p \in Int /\ p + step \in Int /\ (p + step) - p = step
  BY LimitAssumption DEF Angle
<1>2. Size(Clip(p + step, Lower, Upper) - p) <= Size((p + step) - p)
  BY <1>1, LimitAssumption, ClipNear DEF Angle
<1> QED
  BY <1>1, <1>2 DEF Limited

\* The low-pass filter yields a distance, and none for none.
LEMMA FilteredDistance ==
  ASSUME NEW e \in Int
  PROVE  Filtered(e) \in Int /\ Filtered(0) = 0
<1>1. \A n \in Int : (FilterNum * n + FilterDen - 1) \in Int
  BY ParameterAssumption
<1>2. \A n \in Int : (FilterNum * n + FilterDen - 1) \div FilterDen \in Int
  BY <1>1, ParameterAssumption
<1>3. (FilterNum * 0 + FilterDen - 1) \div FilterDen = 0
  BY ParameterAssumption
<1> QED
  BY <1>2, <1>3 DEF Filtered

\* What _shape_reference returns: an angle inside the limits, and the velocity
\* that leads to it, which respects both caps.
LEMMA ShapeBounds ==
  ASSUME NEW d \in Angle, NEW p \in Angle, NEW v \in Int
  PROVE  /\ Shape(d, p, v).position \in Angle
         /\ Shape(d, p, v).velocity \in Int
         /\ Shape(d, p, v).velocity = Shape(d, p, v).position - p
         /\ RateLimit => Size(Shape(d, p, v).velocity) <= MaxSpeed
         /\ AccelLimit => Size(Shape(d, p, v).velocity) <= Size(v) + MaxAccel
<1> DEFINE rate(x) == IF RateLimit THEN Capped(x, MaxSpeed) ELSE x
           asked == rate(Filtered(d - p))
           moved == IF AccelLimit THEN v + Capped(asked - v, MaxAccel) ELSE asked
<1>1. /\ Shape(d, p, v).position = Limited(p + rate(moved))
      /\ Shape(d, p, v).velocity = Limited(p + rate(moved)) - p
  BY DEF Shape
<1>2. d \in Int /\ p \in Int /\ Filtered(d - p) \in Int
  BY LimitAssumption, FilteredDistance DEF Angle
<1>3. \A x \in Int : /\ rate(x) \in Int
                     /\ RateLimit => Size(rate(x)) <= MaxSpeed
                     /\ Size(rate(x)) <= Size(x)
  BY LimitAssumption, CappedSize DEF Size
<1>4. asked \in Int
  BY <1>2, <1>3
<1> HIDE DEF asked
<1>5. moved \in Int /\ (AccelLimit => Size(moved) <= Size(v) + MaxAccel)
  <2>1. Capped(asked - v, MaxAccel) \in Int /\ Size(Capped(asked - v, MaxAccel)) <= MaxAccel
    BY <1>4, LimitAssumption, CappedSize
  <2> QED
    BY <1>4, <2>1, LimitAssumption DEF Size
<1> HIDE DEF moved
<1>6. rate(moved) \in Int
  BY <1>3, <1>5
<1>7. Size(Limited(p + rate(moved)) - p) <= Size(rate(moved))
  BY <1>6, LimitedNear
<1>8. Limited(p + rate(moved)) \in Angle /\ Limited(p + rate(moved)) \in Int
  BY <1>2, <1>6, LimitedAngle
<1>9. Size(rate(moved)) \in Int /\ Size(moved) \in Int /\ Size(v) \in Int
  BY <1>5, <1>6 DEF Size
<1>10. Size(Limited(p + rate(moved)) - p) \in Int
  BY <1>2, <1>8 DEF Size
<1>11. Size(rate(moved)) <= Size(moved) /\ (RateLimit => Size(rate(moved)) <= MaxSpeed)
  BY <1>3, <1>5
<1> HIDE DEF rate
<1> QED
  BY <1>1, <1>2, <1>5, <1>7, <1>8, <1>9, <1>10, <1>11, LimitAssumption

\* A reference at rest that is asked to stay does.
LEMMA ShapeAtRest ==
  ASSUME NEW p \in Angle
  PROVE  Shape(p, p, 0).position = p /\ Shape(p, p, 0).velocity = 0
<1>1. p \in Int /\ p - p = 0 /\ Filtered(0) = 0
  BY LimitAssumption, FilteredDistance DEF Angle
<1>2. Capped(0, MaxSpeed) = 0 /\ Capped(0 - 0, MaxAccel) = 0 /\ Limited(p) = p
  BY LimitAssumption DEF Capped, Clip, Limited, Angle
<1> QED
  BY <1>1, <1>2 DEF Shape

\* The state compute starts from and leaves: a position inside the limits,
\* velocity and integral inside their caps.
OuterInside(o) ==
  /\ o \in OuterState
  /\ o.position \in Angle
  /\ Size(o.velocity) <= MaxControllerSpeed
  /\ Size(o.integral) <= IntegralLimit

\* OuterLoopPositionController.reset leaves such a state.
LEMMA OuterResetInside ==
  ASSUME NEW p \in Int, NEW v \in Int
  PROVE  OuterInside(OuterReset(p, v)) /\ OuterReset(p, v).position = Limited(p)
<1>1. /\ Capped(v, MaxControllerSpeed) \in Int
      /\ Size(Capped(v, MaxControllerSpeed)) <= MaxControllerSpeed
  BY LimitAssumption, CappedSize
<1>2. Size(0) <= IntegralLimit
  BY LimitAssumption DEF Size
<1> QED
  BY <1>1, <1>2, LimitedAngle DEF OuterReset, OuterInside, OuterState

\* OuterLoopPositionController.compute keeps it, whatever the gains and the
\* measurements, and moves by the velocity it remembers.
LEMMA OuterComputeInside ==
  ASSUME NEW o, OuterInside(o), NEW p \in Int, NEW v \in Int, NEW q \in Int, NEW w \in Int
  PROVE  /\ OuterInside(OuterCompute(o, p, v, q, w))
         /\ OuterCompute(o, p, v, q, w).velocity
              = OuterCompute(o, p, v, q, w).position - o.position
<1> DEFINE i        == Integral(o, p - q)
           asked    == Capped(RawVelocity(i, p, v, q, w), MaxControllerSpeed)
           velocity == Capped(o.velocity + Capped(asked - o.velocity, MaxControllerAccel),
                              MaxControllerSpeed)
           free     == o.position + velocity
           pushing  == (free < Lower /\ p - q < 0) \/ (free > Upper /\ p - q > 0)
           kept     == IF mode = "outer_pid" /\ pushing THEN o.integral ELSE i
<1>1. OuterCompute(o, p, v, q, w)
        = [position |-> Limited(free), velocity |-> Limited(free) - o.position,
           integral |-> kept]
  BY DEF OuterCompute
<1>2. /\ o.position \in Angle /\ o.position \in Int /\ o.velocity \in Int
      /\ o.integral \in Int /\ Size(o.integral) <= IntegralLimit
  BY LimitAssumption DEF OuterInside, OuterState, Angle
<1>3. i \in Int /\ Size(i) <= IntegralLimit
  <2>1. Size(0) <= IntegralLimit
    BY LimitAssumption DEF Size
  <2>2. o.integral + (p - q) \in Int
    BY <1>2
  <2>3. /\ Capped(o.integral + (p - q), IntegralLimit) \in Int
        /\ Size(Capped(o.integral + (p - q), IntegralLimit)) <= IntegralLimit
    BY <2>2, LimitAssumption, CappedSize
  <2> QED
    BY <2>1, <2>3 DEF Integral
<1> HIDE DEF i
<1>4. asked \in Int
  <2>1. RawVelocity(i, p, v, q, w) \in Int
    <3>1. Kp * (p - q) \in Int /\ Kd * (v - w) \in Int /\ Ki * i \in Int
      BY <1>3, ParameterAssumption
    <3> QED
      BY <3>1 DEF RawVelocity
  <2> QED
    BY <2>1, LimitAssumption, CappedSize
<1> HIDE DEF asked
<1>5. velocity \in Int /\ Size(velocity) <= MaxControllerSpeed
  <2>1. Capped(asked - o.velocity, MaxControllerAccel) \in Int
    BY <1>2, <1>4, LimitAssumption, CappedSize
  <2>2. o.velocity + Capped(asked - o.velocity, MaxControllerAccel) \in Int
    BY <1>2, <2>1
  <2> QED
    BY <2>2, LimitAssumption, CappedSize
<1> HIDE DEF velocity
<1>6. Limited(free) \in Angle /\ Limited(free) \in Int
  BY <1>2, <1>5, LimitedAngle
<1>7. Size(Limited(free) - o.position) <= Size(velocity)
  BY <1>2, <1>5, LimitedNear
<1>8. Size(Limited(free) - o.position) <= MaxControllerSpeed
  <2>1. /\ Size(velocity) \in Int
        /\ Size(Limited(free) - o.position) \in Int
    BY <1>2, <1>5, <1>6 DEF Size
  <2> HIDE DEF free
  <2> QED
    BY <1>5, <1>7, <2>1, LimitAssumption
<1>9. kept \in Int /\ Size(kept) <= IntegralLimit
  BY <1>2, <1>3
<1> HIDE DEF free, kept
<1> QED
  BY <1>1, <1>2, <1>6, <1>8, <1>9 DEF OuterInside, OuterState

\* What LimitsAreStops says of one joint.
AtStop(o) ==
  /\ o.position = Upper => o.velocity >= 0
  /\ o.position = Lower => o.velocity <= 0
  /\ mode # "outer_pid" => o.integral = 0

\* A reset leaves no velocity out of a limit if it is given none.
LEMMA OuterResetAtStop ==
  ASSUME NEW p \in Int, NEW v \in Int,
         Limited(p) = Upper => v >= 0, Limited(p) = Lower => v <= 0
  PROVE  AtStop(OuterReset(p, v))
<1>1. (v >= 0 => Capped(v, MaxControllerSpeed) >= 0) /\ (v <= 0 => Capped(v, MaxControllerSpeed) <= 0)
  BY LimitAssumption DEF Capped, Clip
<1> QED
  BY <1>1 DEF AtStop, OuterReset

\* Compute remembers the velocity it moved with, which cannot lead from
\* outside to a limit.
LEMMA OuterComputeAtStop ==
  ASSUME NEW o, OuterInside(o), NEW p \in Int, NEW v \in Int, NEW q \in Int, NEW w \in Int
  PROVE  AtStop(OuterCompute(o, p, v, q, w))
<1> DEFINE n == OuterCompute(o, p, v, q, w)
<1>1. /\ n.position \in Angle /\ o.position \in Angle
      /\ n.velocity = n.position - o.position
  BY OuterComputeInside DEF OuterInside
<1>2. mode # "outer_pid" => n.integral = 0
  BY DEF OuterCompute, Integral
<1> HIDE DEF n
<1>3. (n.position = Upper => n.velocity >= 0) /\ (n.position = Lower => n.velocity <= 0)
  BY <1>1, LimitAssumption DEF Angle
<1> QED
  BY <1>2, <1>3 DEF AtStop, n

(***************************************************************************)
(* The invariant.                                                          *)
(***************************************************************************)

\* The measured pose, clipped, is inside the limits.
LEMMA MeasuredInside ==
  ASSUME TypeOK
  PROVE  Measured \in [Joints -> Angle]
BY LimitedAngle DEF TypeOK, Measured

\* What a control cycle starts from and what it steers to.
LEMMA StartTypes ==
  ASSUME TypeOK
  PROVE  /\ StartPosition \in [Joints -> Angle]
         /\ StartVelocity \in [Joints -> Int]
         /\ SafeDesired \in [Joints -> Angle]
<1>1. [j \in Joints |-> Default] \in [Joints -> Angle]
  BY LimitAssumption DEF Angle
<1>2. StartPosition \in [Joints -> Angle]
  BY MeasuredInside DEF StartPosition, TypeOK
<1>3. StartVelocity \in [Joints -> Int]
  BY DEF StartVelocity, Still, TypeOK
<1> QED
  BY <1>1, <1>2, <1>3 DEF SafeDesired, TypeOK

\* The shaped reference of a control cycle.
LEMMA ShapedBounds ==
  ASSUME TypeOK, NEW j \in Joints
  PROVE  /\ Shaped(j).position \in Angle
         /\ Shaped(j).velocity \in Int
         /\ RateLimit => Size(Shaped(j).velocity) <= MaxSpeed
         /\ Shaped(j).velocity = Shaped(j).position - StartPosition[j]
         /\ AccelLimit => Size(Shaped(j).velocity) <= Size(StartVelocity[j]) + MaxAccel
<1>1. /\ StartPosition[j] \in Angle
      /\ StartVelocity[j] \in Int
      /\ SafeDesired[j] \in Angle
  BY StartTypes
<1> QED
  BY <1>1, ShapeBounds DEF Shaped

\* What OutputInStep and SpeedsCapped say of the state compute starts from.
LEMMA OuterStartInside ==
  ASSUME PDInv, NEW j \in Joints
  PROVE  OuterInside(OuterStart(j))
<1>1. CASE Aligns \/ ~outerReady
  BY <1>1, OuterResetInside DEF OuterStart, PDInv, TypeOK
<1>2. CASE ~(Aligns \/ ~outerReady)
  BY <1>2 DEF OuterStart, OuterInside, PDInv, TypeOK, OutputInStep, SpeedsCapped
<1> QED
  BY <1>1, <1>2

\* The controller's step in a cycle with feedback.
LEMMA OuterLoopInside ==
  ASSUME PDInv, NEW j \in Joints, ControlLoop, OuterLoop
  PROVE  /\ OuterInside(outer'[j])
         /\ target'[j] = outer'[j].position
         /\ targetVel'[j] = outer'[j].velocity
         /\ outer'[j].velocity = outer'[j].position - OuterStart(j).position
         /\ AtStop(outer'[j])
<1>1. /\ reference'[j] \in Int /\ referenceVel'[j] \in Int
      /\ current[j] \in Int /\ currentVel[j] \in Int
  BY ShapedBounds, LimitAssumption DEF ControlLoop, PDInv, TypeOK, Angle
<1>2. outer'[j] = OuterCompute(OuterStart(j), reference'[j], referenceVel'[j],
                               current[j], currentVel[j])
  BY DEF OuterLoop
<1>3. target'[j] = outer'[j].position /\ targetVel'[j] = outer'[j].velocity
  BY DEF OuterLoop
<1> QED
  BY <1>1, <1>2, <1>3, OuterStartInside, OuterComputeInside, OuterComputeAtStop

\* The pose the node starts with satisfies the invariant.
LEMMA InitInv == Init => PDInv
<1> SUFFICES ASSUME Init PROVE PDInv
  OBVIOUS
<1>a. /\ [j \in Joints |-> Default] \in [Joints -> Angle]
      /\ [j \in Joints |-> Default] \in [Joints -> Int]
      /\ Still \in [Joints -> Int]
  BY LimitAssumption DEF Angle, Still
<1>b. ASSUME NEW j \in Joints
      PROVE  outer[j] = [position |-> 0, velocity |-> 0, integral |-> 0]
  BY DEF Init
<1>c. outer \in [Joints -> OuterState]
  BY <1>b DEF Init, OuterState
<1>d. /\ desiredAge \in 0 .. CommandTimeout + 1
      /\ feedbackAge \in 0 .. FeedbackTimeout + 1
  BY ParameterAssumption DEF Init
<1>1. TypeOK
  BY <1>a, <1>c, <1>d DEF Init, TypeOK
<1>2. SpeedsCapped
  <2>1. Size(0) = 0
    BY DEF Size
  <2>2. ASSUME NEW j \in Joints PROVE referenceVel[j] = 0
    BY DEF Init, Still
  <2>3. ASSUME NEW j \in Joints PROVE outer[j].velocity = 0 /\ outer[j].integral = 0
    BY <1>b
  <2>4. 0 <= MaxSpeed /\ 0 <= MaxControllerSpeed /\ 0 <= IntegralLimit
    BY LimitAssumption
  <2> QED
    BY <2>1, <2>2, <2>3, <2>4 DEF SpeedsCapped
<1>3. LimitsAreStops
  <2>1. ASSUME NEW j \in Joints PROVE outer[j].velocity = 0 /\ outer[j].integral = 0
    BY <1>b
  <2>2. 0 >= 0 /\ 0 <= 0
    OBVIOUS
  <2> QED
    BY <2>1, <2>2 DEF LimitsAreStops
<1> QED
  BY <1>1, <1>2, <1>3 DEF PDInv, Init, OutputInStep, TargetIsReference, AlignedIsSeen

\* A desired position, finite or not, is stored inside the limits.
LEMMA DesiredPositionInv == PDInv /\ DesiredPosition => PDInv'
<1> SUFFICES ASSUME PDInv, DesiredPosition PROVE PDInv'
  OBVIOUS
<1>1. PICK message \in [Joints -> Commands \cup {NonFinite}] : desired' = Sanitized(message)
  BY DEF DesiredPosition
<1>2. desired' \in [Joints -> Angle]
  <2> SUFFICES ASSUME NEW j \in Joints
               PROVE  (IF message[j] = NonFinite THEN target[j] ELSE Limited(message[j]))
                        \in Angle
    BY <1>1 DEF Sanitized
  <2>1. CASE message[j] = NonFinite
    BY <2>1 DEF PDInv, TypeOK
  <2>2. CASE message[j] # NonFinite
    BY <2>2, InputAssumption, LimitedAngle
  <2> QED
    BY <2>1, <2>2
<1>3. TypeOK'
  BY <1>2, ParameterAssumption
  DEF DesiredPosition, PDInv, TypeOK, feedbackVars, controlVars
<1> QED
  BY <1>3 DEF DesiredPosition, PDInv, feedbackVars, controlVars, OutputInStep,
     TargetIsReference, SpeedsCapped, AlignedIsSeen, LimitsAreStops

\* Feedback messages, complete or not, keep the invariant.
LEMMA FeedbackInv == PDInv /\ Feedback => PDInv'
<1> SUFFICES ASSUME PDInv,
                    NEW ps \in SUBSET Joints, NEW vs \in SUBSET Joints,
                    NEW p \in [Joints -> Positions], NEW v \in [Joints -> Velocities],
                    current' = [j \in Joints |-> IF j \in ps THEN p[j] ELSE current[j]],
                    currentVel' = [j \in Joints |-> IF j \in vs THEN v[j] ELSE currentVel[j]],
                    positionSeen' = positionSeen \cup ps,
                    velocitySeen' = velocitySeen \cup vs,
                    feedbackAge' = 0,
                    UNCHANGED <<mode, commandVars, controlVars>>
             PROVE  PDInv'
  BY DEF Feedback
<1>1. current' \in [Joints -> Int] /\ currentVel' \in [Joints -> Int]
  BY InputAssumption DEF PDInv, TypeOK
<1>2. TypeOK'
  BY <1>1, ParameterAssumption DEF PDInv, TypeOK, commandVars, controlVars
<1>3. AlignedIsSeen'
  BY DEF PDInv, TypeOK, AlignedIsSeen, controlVars
<1> QED
  BY <1>2, <1>3 DEF PDInv, commandVars, controlVars, OutputInStep,
     TargetIsReference, SpeedsCapped, LimitsAreStops

\* reset_to_feedback aligns everything at once.
LEMMA ResetInv == PDInv /\ Reset => PDInv'
<1> SUFFICES ASSUME PDInv, Reset PROVE PDInv'
  OBVIOUS
<1>1. Measured \in [Joints -> Angle] /\ Still \in [Joints -> Int]
  BY MeasuredInside DEF PDInv, Still
<1>2. ASSUME NEW j \in Joints
      PROVE  /\ OuterInside(outer'[j])
             /\ outer'[j].position = target'[j]
             /\ AtStop(outer'[j])
             /\ RateLimit => Size(referenceVel'[j]) <= MaxSpeed
  <2>1. outer'[j] = OuterReset(current[j], 0) /\ target'[j] = Limited(current[j])
    BY DEF Reset, Measured
  <2>2. OuterInside(OuterReset(current[j], 0))
        /\ OuterReset(current[j], 0).position = Limited(current[j])
    BY OuterResetInside DEF PDInv, TypeOK
  <2>3. Size(referenceVel'[j]) <= MaxSpeed
    BY LimitAssumption DEF Reset, Still, Size
  <2>4. AtStop(OuterReset(current[j], 0))
    BY OuterResetAtStop DEF PDInv, TypeOK
  <2> QED
    BY <2>1, <2>2, <2>3, <2>4
<1>3. outer' \in [Joints -> OuterState]
  <2>1. outer' = [j \in Joints |-> OuterReset(current[j], 0)]
    BY DEF Reset
  <2> QED
    BY <1>2, <2>1 DEF OuterInside
<1>4. TypeOK'
  BY <1>1, <1>3 DEF Reset, PDInv, TypeOK, commandVars, feedbackVars
<1>5. OutputInStep' /\ SpeedsCapped'
  BY <1>2 DEF OutputInStep, SpeedsCapped, OuterInside
<1>6. TargetIsReference' /\ AlignedIsSeen'
  BY DEF Reset, FeedbackReady, TargetIsReference, AlignedIsSeen, feedbackVars
<1>7. LimitsAreStops'
  BY <1>2 DEF Reset, LimitsAreStops, AtStop
<1> QED
  BY <1>4, <1>5, <1>6, <1>7 DEF PDInv

\* The clock changes ages only.
LEMMA TickInv == PDInv /\ Tick => PDInv'
<1> SUFFICES ASSUME PDInv, Tick PROVE PDInv'
  OBVIOUS
<1>1. TypeOK'
  BY ParameterAssumption DEF Tick, PDInv, TypeOK, controlVars
<1> QED
  BY <1>1 DEF Tick, PDInv, controlVars, OutputInStep, TargetIsReference,
     SpeedsCapped, AlignedIsSeen, LimitsAreStops

\* A control cycle keeps it in each of its three ways to an output.
LEMMA ControlLoopInv == PDInv /\ ControlLoop => PDInv'
<1> SUFFICES ASSUME PDInv, ControlLoop PROVE PDInv'
  OBVIOUS
<1> USE DEF PDInv
<1>1. ASSUME NEW j \in Joints
      PROVE  /\ reference'[j] \in Angle /\ referenceVel'[j] \in Int
             /\ RateLimit => Size(referenceVel'[j]) <= MaxSpeed
  BY ShapedBounds DEF ControlLoop
<1>2. /\ reference' = [j \in Joints |-> reference'[j]]
      /\ referenceVel' = [j \in Joints |-> referenceVel'[j]]
  BY DEF ControlLoop
<1>3. reference' \in [Joints -> Angle] /\ referenceVel' \in [Joints -> Int]
  BY <1>1, <1>2
<1>4. /\ target' \in [Joints -> Angle] /\ targetVel' \in [Joints -> Int]
      /\ outer' \in [Joints -> OuterState] /\ outerReady' \in BOOLEAN
      /\ \A j \in Joints : /\ outerReady' => outer'[j].position = target'[j]
                           /\ Size(outer'[j].velocity) <= MaxControllerSpeed
                           /\ Size(outer'[j].integral) <= IntegralLimit
                           /\ AtStop(outer'[j])
      /\ mode = "safety_only" => target' = reference' /\ targetVel' = referenceVel'
  <2>1. CASE SafetyOnly
    <3>1. ASSUME NEW j \in Joints
          PROVE  /\ OuterInside(outer'[j]) /\ outer'[j].position = reference'[j]
                 /\ AtStop(outer'[j])
      <4>1. /\ outer'[j] = OuterReset(reference'[j], referenceVel'[j])
            /\ reference'[j] \in Int /\ referenceVel'[j] \in Int
        BY <1>1, <2>1, LimitAssumption DEF SafetyOnly, Angle
      <4>2. Limited(reference'[j]) = reference'[j]
        BY <1>1, LimitAssumption DEF Limited, Clip, Angle
      <4>3. /\ reference'[j] \in Angle /\ StartPosition[j] \in Angle
            /\ referenceVel'[j] = reference'[j] - StartPosition[j]
        BY ShapedBounds, StartTypes DEF ControlLoop
      <4>4. /\ reference'[j] = Upper => referenceVel'[j] >= 0
            /\ reference'[j] = Lower => referenceVel'[j] <= 0
        BY <4>3, LimitAssumption DEF Angle
      <4>5. AtStop(OuterReset(reference'[j], referenceVel'[j]))
        BY <4>1, <4>2, <4>4, OuterResetAtStop
      <4> QED
        BY <4>1, <4>2, <4>5, OuterResetInside
    <3>2. outer' \in [Joints -> OuterState]
      <4>1. outer' = [j \in Joints |-> OuterReset(reference'[j], referenceVel'[j])]
        BY <2>1 DEF SafetyOnly
      <4> QED
        BY <3>1, <4>1 DEF OuterInside
    <3> QED
      BY <1>3, <2>1, <3>1, <3>2 DEF SafetyOnly, OuterInside
  <2>2. CASE HoldTarget
    BY <2>2 DEF HoldTarget, Still, TypeOK, OutputInStep, SpeedsCapped, LimitsAreStops, AtStop
  <2>3. CASE OuterLoop
    <3>1. ASSUME NEW j \in Joints
          PROVE  /\ OuterInside(outer'[j]) /\ AtStop(outer'[j])
                 /\ target'[j] = outer'[j].position
                 /\ targetVel'[j] = outer'[j].velocity
      BY <2>3, OuterLoopInside
    <3>2. /\ outer' = [j \in Joints |-> outer'[j]]
          /\ target' = [j \in Joints |-> target'[j]]
          /\ targetVel' = [j \in Joints |-> targetVel'[j]]
      BY <2>3 DEF OuterLoop
    <3>3. /\ outer' \in [Joints -> OuterState]
          /\ target' \in [Joints -> Angle] /\ targetVel' \in [Joints -> Int]
      BY <3>1, <3>2 DEF OuterInside, OuterState
    <3> QED
      BY <2>3, <3>1, <3>3 DEF OuterLoop, OuterInside
  <2> QED
    BY <2>1, <2>2, <2>3 DEF ControlLoop
<1>5. initialized' \in BOOLEAN
  BY DEF ControlLoop, TypeOK
<1>6. TypeOK'
  BY <1>3, <1>4, <1>5 DEF ControlLoop, TypeOK, commandVars, feedbackVars
<1>7. OutputInStep' /\ SpeedsCapped'
  BY <1>1, <1>4 DEF OutputInStep, SpeedsCapped
<1>8. TargetIsReference'
  BY <1>4 DEF ControlLoop, TargetIsReference
<1>9. AlignedIsSeen'
  <2>1. initialized' => outerReady'
    BY DEF ControlLoop, SafetyOnly, HoldTarget, OuterLoop, Aligns, AlignedIsSeen
  <2>2. initialized' => positionSeen = Joints /\ velocitySeen = Joints
    BY DEF ControlLoop, Aligns, FeedbackReady, AlignedIsSeen
  <2> QED
    BY <2>1, <2>2 DEF ControlLoop, feedbackVars, AlignedIsSeen
<1>10. LimitsAreStops'
  BY <1>4 DEF ControlLoop, LimitsAreStops, AtStop
<1> QED
  BY <1>6, <1>7, <1>8, <1>9, <1>10

\* PDInv is an invariant of the controller: published angles stay inside the
\* limits, remembered velocities inside their caps, and the outer controller in
\* step with what was published, for all gains, messages and orders of events.
THEOREM Invariance == Spec => []PDInv
<1>1. Init => PDInv
  BY InitInv
<1>2. PDInv /\ [Next]_vars => PDInv'
  <2> SUFFICES ASSUME PDInv, [Next]_vars PROVE PDInv'
    OBVIOUS
  <2>1. CASE UNCHANGED vars
    BY <2>1 DEF vars, commandVars, feedbackVars, controlVars, PDInv, TypeOK,
       OutputInStep, TargetIsReference, SpeedsCapped, AlignedIsSeen, LimitsAreStops
  <2> QED
    BY <2>1, DesiredPositionInv, FeedbackInv, ResetInv, ControlLoopInv, TickInv DEF Next
<1> QED
  BY <1>1, <1>2, PTL DEF Spec

(***************************************************************************)
(* Action properties.                                                      *)
(***************************************************************************)

\* Type correctness, from the invariant.
THEOREM TypeCorrect == Spec => []TypeOK
<1>1. PDInv => TypeOK
  BY DEF PDInv
<1> QED
  BY <1>1, Invariance, PTL

\* One control cycle moves the target by at most the cap of its mode.
LEMMA StepIsBounded ==
  ASSUME PDInv, RateLimit, ControlLoop, ~Aligns, outerReady, NEW j \in Joints
  PROVE  Size(target'[j] - target[j]) <= StepBound
<1>1. CASE SafetyOnly
  <2>1. target'[j] = Shaped(j).position /\ StartPosition = reference /\ target = reference
    BY <1>1 DEF SafetyOnly, ControlLoop, StartPosition, PDInv, TargetIsReference
  <2>2. Shaped(j).velocity = Shaped(j).position - StartPosition[j]
        /\ Size(Shaped(j).velocity) <= MaxSpeed
    BY ShapedBounds DEF PDInv
  <2> QED
    BY <1>1, <2>1, <2>2 DEF StepBound, SafetyOnly
<1>2. CASE HoldTarget
  <2>1. target'[j] - target[j] = 0
    BY <1>2, LimitAssumption DEF HoldTarget, PDInv, TypeOK, Angle
  <2>2. Size(0) = 0 /\ 0 <= StepBound
    BY LimitAssumption DEF Size, StepBound
  <2> QED
    BY <2>1, <2>2
<1>3. CASE OuterLoop
  <2>1. /\ OuterInside(outer'[j])
        /\ target'[j] = outer'[j].position
        /\ outer'[j].velocity = outer'[j].position - OuterStart(j).position
    BY <1>3, OuterLoopInside
  <2>2. OuterStart(j).position = target[j]
    BY DEF OuterStart, PDInv, OutputInStep
  <2> QED
    BY <1>3, <2>1, <2>2 DEF OuterLoop, StepBound, OuterInside
<1> QED
  BY <1>1, <1>2, <1>3 DEF ControlLoop

\* With the rate limit on, the published target never steps farther than the
\* speed cap, whichever inputs go stale and come back.
THEOREM StepBounded == RateLimit /\ Spec => TargetStepBounded
<1>1. ASSUME RateLimit
      PROVE  PDInv => [ControlLoop /\ ~Aligns /\ outerReady
                         => \A j \in Joints : Size(target'[j] - target[j]) <= StepBound]_vars
  BY <1>1, StepIsBounded
<1>2. RateLimit => (Spec => TargetStepBounded)
  <2> SUFFICES ASSUME RateLimit PROVE Spec => TargetStepBounded
    OBVIOUS
  <2>1. PDInv => [ControlLoop /\ ~Aligns /\ outerReady
                    => \A j \in Joints : Size(target'[j] - target[j]) <= StepBound]_vars
    BY <1>1
  <2> QED
    BY <2>1, Invariance, PTL DEF Spec, TargetStepBounded
<1> QED
  BY <1>2

\* A reference at rest stays at rest while no live desired position moves it.
LEMMA RestIsKept ==
  ASSUME PDInv, ControlLoop, initialized, NoLiveCommand, referenceVel = Still
  PROVE  reference' = reference /\ referenceVel' = Still
<1>1. StartPosition = reference /\ StartVelocity = Still /\ SafeDesired = reference
  BY DEF StartPosition, StartVelocity, SafeDesired, Aligns, NoLiveCommand
<1>2. ASSUME NEW j \in Joints
      PROVE  Shaped(j).position = reference[j] /\ Shaped(j).velocity = 0
  <2>1. reference[j] \in Angle /\ Still[j] = 0
    BY DEF PDInv, TypeOK, Still
  <2> QED
    BY <1>1, <2>1, ShapeAtRest DEF Shaped
<1>3. reference' = [j \in Joints |-> reference[j]] /\ referenceVel' = [j \in Joints |-> 0]
  BY <1>2 DEF ControlLoop
<1> QED
  BY <1>3 DEF PDInv, TypeOK, Still

\* Neither a timeout nor a reset nor the default pose moves an aligned robot
\* that nobody commands.
THEOREM NoUnaskedMotion == Spec => NoMotionWithoutCommand
<1>1. PDInv => [ControlLoop /\ initialized /\ NoLiveCommand /\ referenceVel = Still
                  => reference' = reference /\ referenceVel' = Still]_vars
  BY RestIsKept
<1> QED
  BY <1>1, Invariance, PTL DEF Spec, NoMotionWithoutCommand

\* In safety_only mode the published speed builds up gradually.
LEMMA SpeedStep ==
  ASSUME PDInv, mode = "safety_only", AccelLimit, ControlLoop, NEW j \in Joints
  PROVE  Size(targetVel'[j]) <= (IF Aligns THEN 0 ELSE Size(targetVel[j])) + MaxAccel
<1>1. targetVel'[j] = Shaped(j).velocity
  BY DEF ControlLoop, SafetyOnly, HoldTarget, OuterLoop
<1>2. Size(Shaped(j).velocity) <= Size(StartVelocity[j]) + MaxAccel
  BY ShapedBounds DEF PDInv
<1>3. Size(StartVelocity[j]) = IF Aligns THEN 0 ELSE Size(targetVel[j])
  BY DEF StartVelocity, Still, Size, PDInv, TargetIsReference
<1> QED
  BY <1>1, <1>2, <1>3

\* Whatever is commanded, lost or reset, the speed published in safety_only
\* mode grows by at most the acceleration cap in a cycle.
THEOREM GradualSpeed == AccelLimit /\ Spec => SpeedBuildsUpGradually
<1>1. ASSUME AccelLimit
      PROVE  Spec => SpeedBuildsUpGradually
  <2>1. PDInv => [ControlLoop /\ mode = "safety_only" =>
           \A j \in Joints :
             Size(targetVel'[j])
               <= (IF Aligns THEN 0 ELSE Size(targetVel[j])) + MaxAccel]_vars
    BY <1>1, SpeedStep
  <2> QED
    BY <2>1, Invariance, PTL DEF Spec, SpeedBuildsUpGradually
<1> QED
  BY <1>1

\* A velocity that does not lead away from a limit and is asked to lead out of
\* it does so after one step of the acceleration cap.
LEMMA AskedOutGoesOut ==
  ASSUME NEW v \in Int, NEW raw \in Int, MaxControllerSpeed > 0, MaxControllerAccel > 0
  PROVE  LET asked == Capped(raw, MaxControllerSpeed)
             next  == Capped(v + Capped(asked - v, MaxControllerAccel), MaxControllerSpeed)
         IN  /\ next \in Int
             /\ v >= 0 /\ raw > 0 => next > 0
             /\ v <= 0 /\ raw < 0 => next < 0
BY LimitAssumption DEF Capped, Clip

\* One cycle of a joint that the controller holds at a limit.
LEMMA PinnedStep ==
  ASSUME PDInv, MaxControllerSpeed > 0, MaxControllerAccel > 0,
         ControlLoop, ~Aligns, outerReady, NEW j \in Joints
  PROVE  LET e == reference'[j] - current[j]
             asked == RawVelocity(Integral(outer[j], e), reference'[j],
                        referenceVel'[j], current[j], currentVel[j])
         IN  /\ target[j] = Upper /\ target'[j] = Upper /\ e > 0 /\ asked > 0
                  => outer'[j].integral <= outer[j].integral
             /\ target[j] = Lower /\ target'[j] = Lower /\ e < 0 /\ asked < 0
                  => outer'[j].integral >= outer[j].integral
<1> DEFINE e == reference'[j] - current[j]
           raw == RawVelocity(Integral(outer[j], e), reference'[j],
                    referenceVel'[j], current[j], currentVel[j])
           next == Capped(outer[j].velocity
                            + Capped(Capped(raw, MaxControllerSpeed) - outer[j].velocity,
                                     MaxControllerAccel),
                          MaxControllerSpeed)
           free == outer[j].position + next
           pushing == (free < Lower /\ e < 0) \/ (free > Upper /\ e > 0)
<1>1. /\ outer[j] \in OuterState /\ outer[j].position = target[j]
      /\ outer[j].integral \in Int /\ outer[j].velocity \in Int
      /\ target[j] = Upper => outer[j].velocity >= 0
      /\ target[j] = Lower => outer[j].velocity <= 0
      /\ mode # "outer_pid" => outer[j].integral = 0
  BY DEF PDInv, TypeOK, OuterState, OutputInStep, LimitsAreStops
<1>2. CASE SafetyOnly
  <2>1. outer'[j].integral = 0
    BY <1>2 DEF SafetyOnly, OuterReset
  <2> QED
    BY <1>1, <1>2, <2>1 DEF SafetyOnly
<1>3. CASE HoldTarget
  BY <1>1, <1>3 DEF HoldTarget
<1>4. CASE OuterLoop
  <2>1. /\ outer'[j] = OuterCompute(outer[j], reference'[j], referenceVel'[j],
                                    current[j], currentVel[j])
        /\ target'[j] = outer'[j].position
    BY <1>4 DEF OuterLoop, OuterStart
  <2>2. outer'[j] = [position |-> Limited(free), velocity |-> Limited(free) - outer[j].position,
                     integral |-> IF mode = "outer_pid" /\ pushing THEN outer[j].integral
                                  ELSE Integral(outer[j], e)]
    BY <2>1 DEF OuterCompute
  <2>3. /\ target'[j] = Limited(free)
        /\ outer'[j].integral = IF mode = "outer_pid" /\ pushing THEN outer[j].integral
                                ELSE Integral(outer[j], e)
    BY <2>1, <2>2
  <2>4. CASE mode # "outer_pid"
    BY <1>1, <2>3, <2>4 DEF Integral
  <2>5. CASE mode = "outer_pid"
    <3>1. e \in Int /\ raw \in Int
      <4>1. /\ reference'[j] \in Int /\ referenceVel'[j] \in Int
            /\ current[j] \in Int /\ currentVel[j] \in Int
        BY ShapedBounds, LimitAssumption DEF ControlLoop, PDInv, TypeOK, Angle
      <4>2. Integral(outer[j], e) \in Int
        <5>1. outer[j].integral + e \in Int
          BY <1>1, <4>1
        <5> HIDE DEF e
        <5>2. Capped(outer[j].integral + e, IntegralLimit) \in Int
          BY <5>1, CappedSize, LimitAssumption
        <5> QED
          BY <5>2 DEF Integral
      <4>3. /\ Kp * e \in Int /\ Kd * (referenceVel'[j] - currentVel[j]) \in Int
            /\ Ki * Integral(outer[j], e) \in Int
        BY <4>1, <4>2, ParameterAssumption
      <4> QED
        BY <4>1, <4>3 DEF RawVelocity
    <3> HIDE DEF e, raw
    <3>2. /\ next \in Int
          /\ outer[j].velocity >= 0 /\ raw > 0 => next > 0
          /\ outer[j].velocity <= 0 /\ raw < 0 => next < 0
      BY <1>1, <3>1, AskedOutGoesOut
    <3> HIDE DEF next
    <3>3. /\ target[j] = Upper /\ e > 0 /\ raw > 0 => pushing
          /\ target[j] = Lower /\ e < 0 /\ raw < 0 => pushing
      BY <1>1, <3>1, <3>2, LimitAssumption
    <3> HIDE DEF pushing
    <3> QED
      BY <1>1, <2>3, <2>5, <3>3 DEF e, raw
  <2> QED
    BY <2>4, <2>5
<1> QED
  BY <1>2, <1>3, <1>4 DEF ControlLoop

\* Where the controller may move at all, a joint it holds at a limit does not
\* collect integral towards the limit, for all gains and measurements: the
\* freeze in compute looks at the position before clipping, and a velocity
\* that came to the limit from inside goes beyond it when it is asked to.
THEOREM NoWindUp ==
  MaxControllerSpeed > 0 /\ MaxControllerAccel > 0 /\ Spec => PinnedDoesNotWindUp
<1> DEFINE Step ==
      \A j \in Joints :
       LET e == reference'[j] - current[j]
           asked == RawVelocity(Integral(outer[j], e), reference'[j],
                      referenceVel'[j], current[j], currentVel[j])
           pinnedAt(limit) == /\ ControlLoop /\ ~Aligns /\ outerReady
                              /\ target[j] = limit /\ target'[j] = limit
       IN  /\ pinnedAt(Upper) /\ e > 0 /\ asked > 0
                => outer'[j].integral <= outer[j].integral
           /\ pinnedAt(Lower) /\ e < 0 /\ asked < 0
                => outer'[j].integral >= outer[j].integral
<1>1. ASSUME MaxControllerSpeed > 0, MaxControllerAccel > 0
      PROVE  Spec => PinnedDoesNotWindUp
  <2>1. PDInv => [Step]_vars
    BY <1>1, PinnedStep
  <2>2. PinnedDoesNotWindUp <=> [][Step]_vars
    BY DEF PinnedDoesNotWindUp
  <2> HIDE DEF Step
  <2> QED
    BY <2>1, <2>2, Invariance, PTL DEF Spec
<1> QED
  BY <1>1
=============================================================================
