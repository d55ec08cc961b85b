------------------------------ MODULE ServoMap ------------------------------
(***************************************************************************)
(* The servo map, its mirror in the policy package, and the mechanics they *)
(* describe.  Model-space angles are counted in servo steps from model     *)
(* zero, so that an angle q of joint j stands at the raw step              *)
(* center + Sign[j] * q.                                                   *)
(***************************************************************************)
EXTENDS Integers, FiniteSets

CONSTANTS
  NumJoints,
  Sign,          \* joint -> servo_sign, 1 or -1
  Stop,          \* joint -> the angles of its mechanical stops, [lower, upper]
  Default,       \* joint -> training_default_rad
  RawMax,        \* raw steps are 0 .. RawMax
  Mounted,       \* joint -> the raw step at which its first servo is mounted
  Zeros,         \* the raw steps at which a servo may be mounted at model zero
  Align          \* how far off model zero a joint may be aligned by hand

\* By policy index.
Joints == 1 .. NumJoints

\* A joint turns through more than it can be misaligned by.
ASSUME ServoMapAssumption ==
  /\ NumJoints \in Nat
  /\ Sign \in [Joints -> {-1, 1}] /\ Mounted \in [Joints -> Zeros] /\ Zeros \subseteq Int
  /\ Align \in Nat /\ RawMax \in Nat
  /\ \A j \in Joints :
       /\ Stop[j].lower \in Int /\ Stop[j].upper \in Int /\ Default[j] \in Int
       /\ Stop[j].lower <= Default[j] /\ Default[j] <= Stop[j].upper
       /\ Stop[j].lower + Align < Stop[j].upper - Align

VARIABLES
  zero,          \* joint -> the raw step its servo shows at model zero
  map,           \* servo_map.yaml
  mirror         \* the servo_* fields of joint_map.yaml

mapVars == <<zero, map, mirror>>

Magnitude(x) == IF x < 0 THEN -x ELSE x

ToStep(j, q, center) == center + Sign[j] * q
ToAngle(j, step, center) == Sign[j] * (step - center)

\* Raw limits keep the model-space limits around a centre.
RawLimits(j, center, lower, upper) ==
  LET a == ToStep(j, lower, center) b == ToStep(j, upper, center)
  IN  IF a < b THEN [minStep |-> a, maxStep |-> b] ELSE [minStep |-> b, maxStep |-> a]

RawLimitsValid(raw) == 0 <= raw.minStep /\ raw.minStep < raw.maxStep /\ raw.maxStep <= RawMax

MirrorOf(entry) == [center |-> entry.center, minStep |-> entry.minStep, maxStep |-> entry.maxStep]

\* What load_servo_map accepts; names and indices are fixed here.
Loads(m) == \A j \in Joints : m[j].lower < m[j].upper

MapEntry == [center : Int, lower : Int, upper : Int, minStep : Int, maxStep : Int]
ServoMapTypeOK ==
  /\ zero \in [Joints -> Zeros] /\ map \in [Joints -> MapEntry] /\ Loads(map)
  /\ mirror \in [Joints -> [center : Int, minStep : Int, maxStep : Int]]

\* A map calibrated to the step, with limits Align inside the stops.
ServoMapInit ==
  /\ zero = Mounted
  /\ map = [j \in Joints |->
       LET lo == Stop[j].lower + Align  hi == Stop[j].upper - Align
           raw == RawLimits(j, zero[j], lo, hi)
       IN  [center |-> zero[j], lower |-> lo, upper |-> hi,
            minStep |-> raw.minStep, maxStep |-> raw.maxStep]]
  /\ mirror = [j \in Joints |-> MirrorOf(map[j])]

\* A servo is exchanged: its horn meets the joint at another step.
ReplaceServo(j) ==
  /\ \E z \in Zeros \ {zero[j]} : zero' = [zero EXCEPT ![j] = z]
  /\ UNCHANGED <<map, mirror>>

Calibrated(j, center) == Magnitude(center - zero[j]) <= Align
=============================================================================
