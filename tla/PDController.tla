----------------------------- MODULE PDController -----------------------------
(***************************************************************************)
(* pd_controller_node: desired joint positions come in from the policy,    *)
(* measured positions and velocities from the driver, and every control    *)
(* cycle publishes one position target for the servos.  In safety_only     *)
(* mode the target is the shaped reference; in outer_pd and outer_pid mode *)
(* it is the output of the velocity-form controller of core.py.            *)
(*                                                                         *)
(* All callbacks and the timer share the node's default, mutually          *)
(* exclusive callback group: each of them is one step.  Angles are         *)
(* integers, a velocity is the angle moved in one control period, and ages *)
(* count control periods.                                                  *)
(***************************************************************************)
EXTENDS Integers

CONSTANTS
  Joints,
  Lower, Upper,               \* lower_limits, upper_limits of every joint
  Default,                    \* default_joint_positions
  Modes,                      \* the values of controller_mode
  RateLimit, AccelLimit,      \* enable_rate_limit, enable_accel_limit
  MaxSpeed, MaxAccel,         \* max_joint_speed, max_joint_accel
  FilterNum, FilterDen,       \* command_filter_alpha as a fraction
  Kp, Kd, Ki,
  MaxControllerSpeed, MaxControllerAccel, IntegralLimit,
  InitializeFromFeedback,     \* initialize_output_from_feedback
  RequireFeedback,            \* require_feedback_for_outer_loop
  FeedbackTimeout, CommandTimeout,
  Commands,                   \* angles a desired position may ask for
  Positions, Velocities,      \* measured angles and velocities
  NonFinite                   \* a NaN or infinity in a desired position

ASSUME LimitAssumption ==
  /\ Lower \in Int /\ Upper \in Int /\ Lower < Upper
  /\ Default \in Lower .. Upper
  /\ MaxSpeed \in Nat /\ MaxAccel \in Nat
  /\ MaxControllerSpeed \in Nat /\ MaxControllerAccel \in Nat
  /\ IntegralLimit \in Nat

ASSUME ParameterAssumption ==
  /\ Modes \subseteq {"safety_only", "outer_pd", "outer_pid"}
  /\ {RateLimit, AccelLimit, InitializeFromFeedback, RequireFeedback}
       \subseteq BOOLEAN
  /\ FilterNum \in Nat /\ FilterDen \in Nat \ {0} /\ FilterNum <= FilterDen
  /\ Kp \in Nat /\ Kd \in Nat /\ Ki \in Nat
  /\ FeedbackTimeout \in Nat /\ CommandTimeout \in Nat

ASSUME InputAssumption ==
  Commands \subseteq Int /\ Positions \subseteq Int /\ Velocities \subseteq Int

VARIABLES
  mode,                              \* controller_mode, read once at the start
  desired, hasDesired, desiredAge,   \* desired_position, its flag and time
  reference, referenceVel,           \* the shaped reference
  target, targetVel,                 \* what was published last
  current, currentVel,               \* measured state
  positionSeen, velocitySeen,        \* joints with a sample
  feedbackAge,                       \* age of the last feedback message
  initialized,                       \* initialized_from_feedback
  outer, outerReady                  \* outer_controller, its initialized flag

commandVars == <<desired, hasDesired, desiredAge>>
feedbackVars == <<current, currentVel, positionSeen, velocitySeen, feedbackAge>>
controlVars == <<reference, referenceVel, target, targetVel, initialized,
                 outer, outerReady>>
vars == <<mode, commandVars, feedbackVars, controlVars>>

Angle == Lower .. Upper
OuterState == [position : Int, velocity : Int, integral : Int]

TypeOK ==
  /\ mode \in Modes
  /\ desired \in [Joints -> Angle]
  /\ hasDesired \in BOOLEAN
  /\ desiredAge \in 0 .. CommandTimeout + 1
  /\ reference \in [Joints -> Angle] /\ referenceVel \in [Joints -> Int]
  /\ target \in [Joints -> Angle] /\ targetVel \in [Joints -> Int]
  /\ current \in [Joints -> Int] /\ currentVel \in [Joints -> Int]
  /\ positionSeen \subseteq Joints /\ velocitySeen \subseteq Joints
  /\ feedbackAge \in 0 .. FeedbackTimeout + 1
  /\ initialized \in BOOLEAN
  /\ outer \in [Joints -> OuterState]
  /\ outerReady \in BOOLEAN

Still == [j \in Joints |-> 0]

\* A message that has never come is as good as one that is too old.
Init ==
  /\ mode \in Modes
  /\ desired = [j \in Joints |-> Default]
  /\ hasDesired = FALSE
  /\ desiredAge = CommandTimeout + 1
  /\ reference = [j \in Joints |-> Default] /\ referenceVel = Still
  /\ target = [j \in Joints |-> Default] /\ targetVel = Still
  /\ current = [j \in Joints |-> Default] /\ currentVel = Still
  /\ positionSeen = {} /\ velocitySeen = {}
  /\ feedbackAge = FeedbackTimeout + 1
  /\ initialized = FALSE
  /\ outer = [j \in Joints |-> [position |-> 0, velocity |-> 0, integral |-> 0]]
  /\ outerReady = FALSE

-----------------------------------------------------------------------------
(* Pure parts, one joint at a time.                                        *)

Clip(x, low, high) == IF x < low THEN low ELSE IF x > high THEN high ELSE x
Capped(x, bound) == Clip(x, -bound, bound)
Limited(x) == Clip(x, Lower, Upper)
Size(x) == IF x < 0 THEN -x ELSE x

\* The low-pass filter takes a fraction of the distance; the last fraction of
\* a unit counts as a unit, so that the filter arrives as the real one does.
Filtered(e) ==
  LET part(n) == (FilterNum * n + FilterDen - 1) \div FilterDen
  IN  IF e < 0 THEN -part(-e) ELSE part(e)

\* _shape_reference: from position p and velocity v towards d.
ShapeBrakesLate(d, p, v) ==
  LET moved == Capped(v + Capped(d - p, MaxAccel), MaxSpeed)
  IN  [position |-> Limited(p + moved), velocity |-> Limited(p + moved) - p]

Shape(d, p, v) ==
  LET rate(x)  == IF RateLimit THEN Capped(x, MaxSpeed) ELSE x
      asked    == rate(Filtered(d - p))
      moved    == IF AccelLimit THEN v + Capped(asked - v, MaxAccel) ELSE asked
      position == Limited(p + rate(moved))
  IN  [position |-> position, velocity |-> position - p]

\* OuterLoopPositionController.reset.
OuterReset(p, v) ==
  [position |-> Limited(p), velocity |-> Capped(v, MaxControllerSpeed),
   integral |-> 0]

\* Mutant: neither speed nor acceleration is capped.
OuterComputeUncapped(o, p, v, q, w) ==
  LET raw      == Kp * (p - q) + Kd * (v - w)
      position == Limited(o.position + raw)
  IN  [position |-> position, velocity |-> position - o.position, integral |-> 0]

Integral(o, e) ==
  IF mode = "outer_pid" THEN Capped(o.integral + e, IntegralLimit) ELSE 0

RawVelocity(i, p, v, q, w) == Kp * (p - q) + Kd * (v - w) + Ki * i

\* Mutant: the integral is kept when the joint is pushed beyond its limit.
OuterComputeWindsUp(o, p, v, q, w) ==
  LET i        == Integral(o, p - q)
      asked    == Capped(RawVelocity(i, p, v, q, w), MaxControllerSpeed)
      velocity == Capped(o.velocity + Capped(asked - o.velocity, MaxControllerAccel),
                         MaxControllerSpeed)
      position == Limited(o.position + velocity)
  IN  [position |-> position, velocity |-> position - o.position, integral |-> i]

\* OuterLoopPositionController.compute, from the controller's state o with
\* reference p, v and measured q, w.
OuterCompute(o, p, v, q, w) ==
  LET e        == p - q
      i        == Integral(o, e)
      asked    == Capped(RawVelocity(i, p, v, q, w), MaxControllerSpeed)
      velocity == Capped(o.velocity + Capped(asked - o.velocity, MaxControllerAccel),
                         MaxControllerSpeed)
      free     == o.position + velocity
      pushing  == (free < Lower /\ e < 0) \/ (free > Upper /\ e > 0)
  IN  [position |-> Limited(free), velocity |-> Limited(free) - o.position,
       integral |-> IF mode = "outer_pid" /\ pushing THEN o.integral ELSE i]

-----------------------------------------------------------------------------
(* Callbacks.                                                              *)

\* _sanitize_and_clip.
Sanitized(message) ==
  [j \in Joints |-> IF message[j] = NonFinite THEN target[j] ELSE Limited(message[j])]

\* desired_position_callback; a message that is too short is ignored.
DesiredPosition ==
  \E message \in [Joints -> Commands \cup {NonFinite}] :
    /\ desired' = Sanitized(message)
    /\ hasDesired' = TRUE
    /\ desiredAge' = 0
    /\ UNCHANGED <<mode, feedbackVars, controlVars>>

\* The three feedback callbacks: a message carries finite positions for some
\* joints and finite velocities for some, and any of them renews the time.
Feedback ==
  \E ps, vs \in SUBSET Joints, p \in [Joints -> Positions], v \in [Joints -> Velocities] :
    /\ ps \cup vs # {}
    /\ current' = [j \in Joints |-> IF j \in ps THEN p[j] ELSE current[j]]
    /\ currentVel' = [j \in Joints |-> IF j \in vs THEN v[j] ELSE currentVel[j]]
    /\ positionSeen' = positionSeen \cup ps
    /\ velocitySeen' = velocitySeen \cup vs
    /\ feedbackAge' = 0
    /\ UNCHANGED <<mode, commandVars, controlVars>>

FeedbackReady ==
  /\ positionSeen = Joints /\ velocitySeen = Joints
  /\ feedbackAge <= FeedbackTimeout

Measured == [j \in Joints |-> Limited(current[j])]

\* reset_to_feedback_callback; refused, it changes nothing.
ResetKeepsVelocity ==
  /\ FeedbackReady
  /\ reference' = Measured
  /\ target' = Measured /\ targetVel' = Still
  /\ outer' = [j \in Joints |-> OuterReset(current[j], 0)]
  /\ outerReady' = TRUE
  /\ initialized' = TRUE
  /\ UNCHANGED <<mode, referenceVel, commandVars, feedbackVars>>

ResetForgetsOuter ==
  /\ FeedbackReady
  /\ reference' = Measured /\ referenceVel' = Still
  /\ target' = Measured /\ targetVel' = Still
  /\ initialized' = TRUE
  /\ UNCHANGED <<mode, outer, outerReady, commandVars, feedbackVars>>

Reset ==
  /\ FeedbackReady
  /\ reference' = Measured /\ referenceVel' = Still
  /\ target' = Measured /\ targetVel' = Still
  /\ outer' = [j \in Joints |-> OuterReset(current[j], 0)]
  /\ outerReady' = TRUE
  /\ initialized' = TRUE
  /\ UNCHANGED <<mode, commandVars, feedbackVars>>

-----------------------------------------------------------------------------
(* control_loop.                                                           *)

\* The one automatic alignment with the first complete feedback.
Aligns == InitializeFromFeedback /\ FeedbackReady /\ ~initialized

StartPosition == IF Aligns THEN Measured ELSE reference
StartVelocity == IF Aligns THEN Still ELSE referenceVel

\* _get_timeout_safe_desired, after the alignment.
SafeDesired ==
  IF ~hasDesired
  THEN IF initialized \/ Aligns THEN StartPosition ELSE [j \in Joints |-> Default]
  ELSE IF desiredAge > CommandTimeout THEN StartPosition ELSE desired

Shaped(j) == Shape(SafeDesired[j], StartPosition[j], StartVelocity[j])

\* safety_only: the reference is the target; the outer controller follows it.
SafetyOnly ==
  /\ mode = "safety_only"
  /\ target' = reference' /\ targetVel' = referenceVel'
  /\ outer' = [j \in Joints |-> OuterReset(reference'[j], referenceVel'[j])]
  /\ outerReady' = TRUE

\* Stale feedback: the last target is published again.
HoldTarget ==
  /\ mode # "safety_only"
  /\ RequireFeedback /\ ~FeedbackReady
  /\ targetVel' = Still
  /\ UNCHANGED <<target, outer, outerReady>>

\* The controller's state before compute: aligned, as it was, or reset to the
\* measured position by compute itself.
OuterStart(j) ==
  IF Aligns \/ ~outerReady THEN OuterReset(current[j], 0) ELSE outer[j]

OuterLoop ==
  /\ mode # "safety_only"
  /\ ~RequireFeedback \/ FeedbackReady
  /\ outer' = [j \in Joints |-> OuterCompute(OuterStart(j), reference'[j],
                                  referenceVel'[j], current[j], currentVel[j])]
  /\ outerReady' = TRUE
  /\ target' = [j \in Joints |-> outer'[j].position]
  /\ targetVel' = [j \in Joints |-> outer'[j].velocity]

ControlLoop ==
  /\ reference' = [j \in Joints |-> Shaped(j).position]
  /\ referenceVel' = [j \in Joints |-> Shaped(j).velocity]
  /\ initialized' = (initialized \/ Aligns)
  /\ SafetyOnly \/ HoldTarget \/ OuterLoop
  /\ UNCHANGED <<mode, commandVars, feedbackVars>>

\* Time passes, one control period; ages count up to just beyond the timeouts.
Tick ==
  /\ desiredAge' = IF desiredAge > CommandTimeout THEN desiredAge ELSE desiredAge + 1
  /\ feedbackAge' = IF feedbackAge > FeedbackTimeout THEN feedbackAge ELSE feedbackAge + 1
  /\ UNCHANGED <<mode, desired, hasDesired, current, currentVel, positionSeen,
                 velocitySeen, controlVars>>

Next == DesiredPosition \/ Feedback \/ Reset \/ ControlLoop \/ Tick

Spec == Init /\ [][Next]_vars

\* The control timer and the clock go on.
LiveSpec == Spec /\ WF_vars(ControlLoop) /\ WF_vars(Tick)

-----------------------------------------------------------------------------
(* The invariant.                                                          *)

\* The controller integrates from the target that was published or aligned
\* last, so feedback that comes back finds no difference to jump over.
OutputInStep == outerReady => \A j \in Joints : outer[j].position = target[j]

\* In safety_only mode the published target never leaves the reference.
TargetIsReference ==
  mode = "safety_only" => target = reference /\ targetVel = referenceVel

\* Remembered velocities respect their caps, whatever was asked or measured.
SpeedsCapped ==
  \A j \in Joints :
    /\ RateLimit => Size(referenceVel[j]) <= MaxSpeed
    /\ Size(outer[j].velocity) <= MaxControllerSpeed
    /\ Size(outer[j].integral) <= IntegralLimit

\* Aligned means that every joint has been measured.
AlignedIsSeen ==
  initialized => outerReady /\ positionSeen = Joints /\ velocitySeen = Joints

\* A joint that stands at a limit got there from inside, and only outer_pid has
\* an integral: what a controller pinned at a limit starts its next cycle from.
LimitsAreStops ==
  \A j \in Joints :
    /\ outer[j].position = Upper => outer[j].velocity >= 0
    /\ outer[j].position = Lower => outer[j].velocity <= 0
    /\ mode # "outer_pid" => outer[j].integral = 0

\* The inductive invariant of the controller: angles inside the limits, the
\* outer controller in step with the target, velocities inside the caps, and
\* none that leads out of a limit.
PDInv ==
  /\ TypeOK /\ OutputInStep /\ TargetIsReference /\ SpeedsCapped /\ AlignedIsSeen
  /\ LimitsAreStops

-----------------------------------------------------------------------------
(* Properties.                                                             *)

StepBound == IF mode = "safety_only" THEN MaxSpeed ELSE MaxControllerSpeed

\* Except in the one automatic alignment, a control cycle moves the target by
\* at most the speed cap from where it was published or reset: through stale
\* commands, feedback lost and found again, and resets in between.
TargetStepBounded ==
  [][ControlLoop /\ ~Aligns /\ outerReady
       => \A j \in Joints : Size(target'[j] - target[j]) <= StepBound]_vars

\* The speed of the target published in safety_only mode builds up by at most
\* the acceleration cap per cycle, starting from rest at an alignment (a joint
\* limit may stop it at once).
SpeedBuildsUpGradually ==
  [][ControlLoop /\ mode = "safety_only" =>
       \A j \in Joints :
         Size(targetVel'[j]) <= (IF Aligns THEN 0 ELSE Size(targetVel[j])) + MaxAccel]_vars

NoLiveCommand == ~hasDesired \/ desiredAge > CommandTimeout

\* Once aligned and at rest, the reference does not move without a live desired
\* position: neither after a timeout, nor after a reset to feedback, nor back
\* to the default pose.
NoMotionWithoutCommand ==
  [][ControlLoop /\ initialized /\ NoLiveCommand /\ referenceVel = Still
       => reference' = reference /\ referenceVel' = Still]_vars

\* A joint held at a limit by the controller does not collect integral in the
\* direction of the limit while it is asked to go further.
PinnedDoesNotWindUp ==
  [][\A j \in Joints :
       LET e == reference'[j] - current[j]
           asked == RawVelocity(Integral(outer[j], e), reference'[j],
                      referenceVel'[j], current[j], currentVel[j])
           pinnedAt(limit) == /\ ControlLoop /\ ~Aligns /\ outerReady
                              /\ target[j] = limit /\ target'[j] = limit
       IN  /\ pinnedAt(Upper) /\ e > 0 /\ asked > 0
                => outer'[j].integral <= outer[j].integral
           /\ pinnedAt(Lower) /\ e < 0 /\ asked < 0
                => outer'[j].integral >= outer[j].integral]_vars

\* When desired positions stop for good the reference comes to rest, although
\* the cycle of the timeout may find it at full speed.
ComesToRest == <>[]NoLiveCommand => <>[](referenceVel = Still)

\* A desired position that is kept up is reached and kept, overshoot and all.
ReachesDesired ==
  \A j \in Joints, d \in Commands \cap Angle :
    /\ <>[](hasDesired /\ desiredAge <= CommandTimeout /\ desired[j] = d)
    /\ <>[][~Reset]_vars
    => <>[](reference[j] = d)

\* The reference settles: where it is sent, or, when nobody sends it any more, at rest.
ReferenceSettles == ComesToRest /\ ReachesDesired

\* The parameter file says that publishing the training pose at start-up is
\* switched off: without a desired position nothing is published before the
\* measured pose is known.
NothingPublishedBeforeAlignment ==
  [][ControlLoop /\ ~hasDesired => initialized']_vars
=============================================================================
