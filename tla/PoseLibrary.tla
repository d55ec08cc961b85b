---------------------------- MODULE PoseLibrary ----------------------------
(***************************************************************************)
(* standing_characterization, capture_pose mode: with torque off the       *)
(* operator puts the robot into a pose, the tool takes the median of the   *)
(* measured angles and, if the pose lies inside the guarded limits, adds   *)
(* it to the pose library that evaluate mode streams from.  One joint      *)
(* stands for the twelve: every check is made for each joint by itself.    *)
(***************************************************************************)
EXTENDS LaboratoryRun

CONSTANTS
  Missing,           \* no such pose in the library
  Standing, Poses,   \* --standing-pose-name, and all pose names
  LimitChoices,      \* joint limits the servo map may have, [lo, hi]
  Contracts,         \* action contracts that may be installed
  Angles,            \* measured angles
  MaxSpread,         \* --capture-max-q-std-rad, as a spread
  MinSamples,        \* --capture-min-samples
  MaxSamples         \* samples of a capture window (bound)

ASSUME PoseAssumption ==
  /\ Standing \in Poses /\ Missing \notin Int
  /\ LimitChoices \subseteq [lo : Int, hi : Int] /\ Angles \subseteq Int
  /\ \A c \in Contracts : [lo |-> c.lo, hi |-> c.hi] \in LimitChoices
  /\ {Margin, MaxSpread} \subseteq Nat /\ {MinSamples, MaxSamples} \subseteq Nat \ {0}

VARIABLES
  limits,    \* of the servo map, which calibration and limit tools rewrite
  contract,  \* the action contract installed beside it
  library    \* pose name -> captured angle, or Missing

-----------------------------------------------------------------------------
(* What a pose must satisfy.                                                *)

\* validate_track1_contract: an action contract [version, lo, hi, default, scale,
\* nominalLo, nominalHi] of this servo map; in version 4 the nominal range is
\* what the residual reaches inside the limits.
ContractMatches(c, l) ==
  /\ c.version \in {3, 4} /\ c.lo = l.lo /\ c.hi = l.hi
  /\ c.version = 4 =>
       /\ c.scale > 0
       /\ c.nominalLo = Max({c.lo, c.default - c.scale})
       /\ c.nominalHi = Min({c.hi, c.default + c.scale})

\* validate_pose_target, on an angle given twofold.
Guarded(twice, l) == 2 * (l.lo + Margin) <= twice /\ twice <= 2 * (l.hi - Margin)

AuditStatusUnguarded(twice, l) ==
  IF twice < 2 * l.lo THEN "BELOW_GUARDED_LIMIT"
  ELSE IF twice > 2 * l.hi THEN "ABOVE_GUARDED_LIMIT" ELSE "OK"

\* pose_contract_audit_rows
AuditStatus(twice, l) ==
  IF twice < 2 * (l.lo + Margin) THEN "BELOW_GUARDED_LIMIT"
  ELSE IF twice > 2 * (l.hi - Margin) THEN "ABOVE_GUARDED_LIMIT" ELSE "OK"

-----------------------------------------------------------------------------
(* capture_pose_mode.                                                       *)

Windows == UNION {[1 .. n -> Angles] : n \in 0 .. MaxSamples}
Steady(window) == Largest(window) - Smallest(window) <= MaxSpread

\* The window was long enough and the robot did not move.
Usable(window) == Len(window) >= MinSamples /\ Steady(window)

\* The phrase, torque off acknowledged and seen in telemetry, then ENTER.
CaptureArmed ==
  \/ at = "capture" /\ at' = "torqueOff" /\ UNCHANGED code
  \/ at = "capture" /\ Exit("3")
CaptureTorqueSeen ==
  \/ at = "torqueOff" /\ at' = "placing" /\ UNCHANGED code
  \/ at = "torqueOff" /\ Exit("3")

CaptureRejected ==
  /\ at = "placing"
  /\ \/ \E w \in Windows : ~Usable(w) /\ Exit("3")
     \/ \E w \in Windows : Usable(w) /\ AuditStatus(TwiceMedian(w), limits) # "OK" /\ Exit("5")
  /\ UNCHANGED library

\* Audit first, then load, change and replace the library.
CaptureSaved ==
  /\ at = "placing"
  /\ \E w \in Windows, name \in Poses :
       /\ Usable(w) /\ AuditStatus(TwiceMedian(w), limits) = "OK"
       /\ library' = [library EXCEPT ![name] = TwiceMedian(w)]
  /\ at' = "saved" /\ UNCHANGED code

\* Torque stays off, or is enabled at the measured pose after another phrase.
CaptureEnds == at = "saved" /\ (Exit("0") \/ Exit("3")) /\ UNCHANGED library

Capture ==
  \/ (CaptureArmed \/ CaptureTorqueSeen) /\ UNCHANGED library
  \/ CaptureRejected \/ CaptureSaved \/ CaptureEnds

-----------------------------------------------------------------------------
(* The evaluation's plan.                                                   *)

\* One requested pose: reached unless the sequence ends there, and left upright.
AddPose(s, p) == IF s = <<>> THEN <<p>> ELSE IF Last(s) = p THEN s ELSE Append(s, p)
VisitPose(s, p) ==
  LET t == AddPose(s, p)
  IN  IF p # Standing /\ Last(t) # Standing THEN Append(t, Standing) ELSE t

\* make_eval_sequence with return_between: from standing, back to standing
\* after every other pose.
EvalSequence(requested) ==
  FoldLeft(VisitPose, IF requested[1] # Standing THEN <<Standing>> ELSE <<>>, requested)

\* transition_kind_and_speed: the heights of the two poses choose the kind, and with it
\* the speed limit; a pose without a height, or the measured start, is level.
TransitionKind(source, target) ==
  CASE Missing \in {source, target} -> "level_transition"
    [] Missing \notin {source, target} /\ target < source -> "crouch"
    [] Missing \notin {source, target} /\ target > source -> "stand_return"
    [] OTHER -> "level_transition"

\* run_transition: ticks of a transition over delta angle units at speed
\* units per tick.
Duration(delta, speed, least) ==
  LET n == (3 * delta + 2 * speed - 1) \div (2 * speed) IN IF n < least THEN least ELSE n

-----------------------------------------------------------------------------
(* What the numbers must satisfy.                                           *)

\* The peak of the smoothed reference stays below the speed limit.
SpeedIsLimited ==
  \A delta \in 0 .. 7, speed \in 1 .. 3 :
    LET n == Duration(delta, speed, 2)
    IN  \A k \in 0 .. n - 1 :
          delta * (Smooth(k + 1, n) - Smooth(k, n)) <= speed * n * n * n

\* An evaluation starts and ends upright and never goes from one crouch to
\* another; it visits exactly the requested poses and standing, and goes down and
\* up again at the speeds for that.
SequenceIsSafe ==
  \A requested \in UNION {[1 .. n -> Poses] : n \in 1 .. 3} :
    LET s == EvalSequence(requested)
    IN  /\ s[1] = Standing /\ Last(s) = Standing
        /\ \A i \in 1 .. Len(s) - 1 : (s[i] = Standing) # (s[i + 1] = Standing)
        /\ ToSet(s) = ToSet(requested) \cup {Standing}
        /\ \A height \in [Poses -> 1 .. 3] :
             (\A p \in Poses \ {Standing} : height[p] < height[Standing]) =>
               \A i \in 1 .. Len(s) - 1 :
                 TransitionKind(height[s[i]], height[s[i + 1]])
                   = IF s[i] = Standing THEN "crouch" ELSE "stand_return"

\* What the audit of a capture accepts, the evaluation accepts.
AuditAgrees ==
  \A twice \in {2 * a : a \in Angles} \cup {2 * a + 1 : a \in Angles}, l \in LimitChoices :
    Guarded(twice, l) <=> AuditStatus(twice, l) = "OK"

\* Median and percentiles lie inside the samples and grow with the percentage.
StatisticsAreOrdered ==
  \A w \in Windows \ {<<>>} :
    /\ 50 * TwiceMedian(w) = Percentile(w, 50)
    /\ 100 * Smallest(w) = Percentile(w, 0) /\ 100 * Largest(w) = Percentile(w, 100)
    /\ \A p \in {0, 25, 50, 75} : Percentile(w, p) <= Percentile(w, p + 25)
=============================================================================
