---------------------------- MODULE PolicyBundle ----------------------------
(***************************************************************************)
(* What the tools and the policy node demand of a policy's files.  A       *)
(* checksum is the identity of the file it was taken of; angles are        *)
(* integers, one per action.  The fixed texts and values of a policy YAML  *)
(* (layouts, ranges, names, transforms) are three flags: y.texts holds     *)
(* "both" if what audit and node ask for is there, "audit" and "node" if   *)
(* what only the one of them asks for is.                                  *)
(***************************************************************************)
EXTENDS Integers, Sequences

CONSTANTS
  Actions,         \* number of actions
  ClampTolerance,  \* how far a handoff pose may be clamped (0.002 rad)
  Absent           \* a file that is not there

Index == 1 .. Actions
Larger(a, b) == IF a < b THEN b ELSE a
Smaller(a, b) == IF a < b THEN a ELSE b
Clip(x, lo, hi) == IF x < lo THEN lo ELSE IF x > hi THEN hi ELSE x

-----------------------------------------------------------------------------
(* The audit of the policy YAML by itself.                                  *)

\* The role fixes the phase mode and what the export must have pinned.
SharedContractOK(y) ==
  /\ y.version = 4 /\ y.fraction >= 0
  /\ CASE y.role = "stand" -> y.mode = "randomized_static_per_episode"
       [] y.role = "walk" -> y.mode = "command_synchronized_continuous_nonblocking" /\ y.pinned
       [] y.role = "locomotion" -> y.mode = "neutral_static" /\ y.clamp
       [] OTHER -> FALSE

ObservationContractOK(y) ==
  /\ {"both", "audit"} \subseteq y.texts
  /\ CASE y.contract = "legacy_45" -> ~y.phase
       [] y.contract = "v231" -> SharedContractOK(y)
       [] y.contract = "v280" -> y.version = 4
       [] OTHER -> FALSE

Observations(y) == IF y.contract = "legacy_45" THEN 45 ELSE 47

NonUniform(seq) == \E i, j \in Index : seq[i] # seq[j]

\* The reach of a residual action around the default, inside the limits.
NominalLower(y, i) == Larger(y.lower[i], y.default[i] - y.scale[i])
NominalUpper(y, i) == Smaller(y.upper[i], y.default[i] + y.scale[i])

\* Residual actions around the default, with the joint map's limits.
ActionContractOK(y, m) ==
  /\ y.dt > 0
  /\ y.version \in {3, 4}
  /\ y.version = 4 <=> NonUniform(y.scale)
  /\ \A i \in Index :
       /\ y.default[i] = m.default[i] /\ y.lower[i] = m.lower[i] /\ y.upper[i] = m.upper[i]
       /\ y.scale[i] > 0
       /\ y.version = 4 =>
            y.nominalLower[i] = NominalLower(y, i) /\ y.nominalUpper[i] = NominalUpper(y, i)

-----------------------------------------------------------------------------
(* The files of a bundle against one another.                               *)

\* Only a bundle under the shared contract must be complete.
CompanionsOK(f) ==
  /\ f.yaml.contract = "v231" => Absent \notin {f.contract, f.sum, f.manifest}
  /\ f.sum # Absent => f.sum = f.onnx.id
  /\ f.manifest # Absent =>
       /\ f.manifest.onnx = f.onnx.id /\ f.manifest.yaml = f.yaml
       /\ f.manifest.mode = f.yaml.mode
  /\ f.contract # Absent =>
       /\ f.contract.onnx = f.onnx.id /\ f.contract.task = f.yaml.task
       /\ f.contract.role = f.yaml.role /\ f.contract.mode = f.yaml.mode
       /\ f.contract.dt = f.yaml.dt

\* The handoff pose is source + trim, or what a declared clamp made of it.
HandoffOK(y, m, h) ==
  h # Absent /\ y.role = "locomotion" =>
    /\ h.task = y.task /\ h.sha = y.sha
    /\ \A i \in Index :
         LET raw == h.source[i] + h.trim[i]
         IN  /\ i \in DOMAIN h.clamps => h.clamps[i].before = raw
             /\ h.pose[i] = IF i \in DOMAIN h.clamps THEN h.clamps[i].after ELSE raw
             /\ m.lower[i] <= h.pose[i] /\ h.pose[i] <= m.upper[i]
             /\ -100 <= h.previous[i] /\ h.previous[i] <= 100

\* audit(): the installer leaves the handoff out.
AuditPasses(f, m, h) ==
  /\ ObservationContractOK(f.yaml) /\ ActionContractOK(f.yaml, m)
  /\ f.onnx # Absent /\ f.onnx.id = f.yaml.sha
  /\ f.onnx.inputs = Observations(f.yaml) /\ f.onnx.outputs = Actions
  /\ CompanionsOK(f)
  /\ HandoffOK(f.yaml, m, h)

-----------------------------------------------------------------------------
(* What the policy node checks itself when it starts live, in its order.    *)

\* A shared contract has one period, at most half of it is transition, and a role.
NodeSharedContractOK(y) ==
  /\ y.dt = 20
  /\ 0 <= y.fraction /\ y.fraction <= 50
  /\ \/ y.role = "stand" /\ y.mode = "randomized_static_per_episode"
     \/ y.role = "walk" /\ y.mode = "command_synchronized_continuous_nonblocking" /\ y.pinned
     \/ y.role = "locomotion" /\ y.mode = "neutral_static"

\* load_observation_contract
NodeObservationContractOK(y) ==
  /\ {"both", "node"} \subseteq y.texts
  /\ \/ y.contract = "legacy_45" /\ ~y.phase
     \/ y.contract = "v231" /\ y.version = 4 /\ NodeSharedContractOK(y)
     \/ y.contract = "v280" /\ y.version = 4

\* A legacy YAML without a version is not compared with the joint map.
NodeActionContractOK(y, m) ==
  /\ y.version \in {3, 4, Absent}
  /\ \A i \in Index : y.scale[i] > 0
  /\ y.version \in {3, 4} =>
       /\ y.version = 3 => ~NonUniform(y.scale)
       /\ y.version = 4 => NonUniform(y.scale)
       /\ \A i \in Index :
            /\ y.default[i] = m.default[i] /\ y.lower[i] = m.lower[i] /\ y.upper[i] = m.upper[i]
            /\ y.lower[i] <= y.default[i] /\ y.default[i] <= y.upper[i]
            /\ y.version = 4 =>
                 y.nominalLower[i] = NominalLower(y, i) /\ y.nominalUpper[i] = NominalUpper(y, i)

\* Live locomotion asks for a profile (require_policy_handoff_for_live_locomotion, as
\* shipped), whose pose is source + trim within the physical limits.
NodeTakesHandoff(y, m, h) ==
  y.role = "locomotion" =>
    /\ h # Absent /\ h.task = y.task /\ h.sha = y.sha
    /\ \A i \in Index :
         /\ h.pose[i] = Clip(h.source[i] + h.trim[i], m.lower[i], m.upper[i])
         /\ -100 <= h.previous[i] /\ h.previous[i] <= 100

NodeTakesConfig(y, m, h) ==
  /\ y.dt > 0
  /\ NodeObservationContractOK(y) /\ NodeActionContractOK(y, m) /\ NodeTakesHandoff(y, m, h)

\* Mutant: the checksum is not compared.
NodeTakesAnyModel(y, onnx) ==
  onnx # Absent /\ onnx.inputs = Observations(y) /\ onnx.outputs = Actions

\* A checksum in capital letters is never that of the file.
NodeTakesModel(y, onnx) ==
  /\ onnx # Absent
  /\ y.sha # Absent => onnx.id = y.sha /\ y.lowerCase
  /\ onnx.inputs = Observations(y) /\ onnx.outputs = Actions

\* What the node asks of a policy that the audit has passed, and the audit did not ask.
OnlyNodeAsks(y) ==
  /\ "node" \in y.texts /\ y.lowerCase
  /\ y.contract = "v231" => y.dt = 20 /\ y.fraction <= 50
  /\ \A i \in Index : y.lower[i] <= y.default[i] /\ y.default[i] <= y.upper[i]

-----------------------------------------------------------------------------
(* normalize_handoff_profile                                                *)

\* Mutant: the checksum alone decides.
KeepsTrimOfSameModel(y, j, old) ==
  /\ old # Absent
  /\ old.task = y.task /\ old.sha = y.sha

\* A trim found on the robot is kept for the same policy and the same source pose.
KeepsTrim(y, j, old) ==
  /\ old # Absent
  /\ old.task = y.task /\ old.sha = y.sha /\ old.source = j.pose

Trim(y, j, old) == IF KeepsTrim(y, j, old) THEN old.trim ELSE [i \in Index |-> 0]

Clamped(pose, m) == {i \in Index : Clip(pose[i], m.lower[i], m.upper[i]) # pose[i]}

\* Mutant: the pose is written as source + trim, the clamp is only declared.
ProfileOfUnclamped(y, m, j, trim) ==
  LET raw == [i \in Index |-> j.pose[i] + trim[i]]
  IN  [task |-> y.task, sha |-> y.sha, source |-> j.pose, trim |-> trim, pose |-> raw,
       clamps |-> <<>>, previous |-> j.previous]

ProfileOf(y, m, j, trim) ==
  LET raw == [i \in Index |-> j.pose[i] + trim[i]]
      pose == [i \in Index |-> Clip(raw[i], m.lower[i], m.upper[i])]
  IN  [task |-> y.task, sha |-> y.sha, source |-> j.pose, trim |-> trim, pose |-> pose,
       clamps |-> [i \in Clamped(raw, m) |-> [before |-> raw[i], after |-> pose[i]]],
       previous |-> j.previous]

\* The export's handoff JSON must be of this policy and its defaults, and its pose
\* within ClampTolerance of the limits.
Normalizable(y, m, j, old) ==
  /\ j.task = y.task /\ j.default = y.default
  /\ \A i \in Index :
       LET raw == j.pose[i] + Trim(y, j, old)[i]
       IN  m.lower[i] - ClampTolerance <= raw /\ raw <= m.upper[i] + ClampTolerance
           /\ -100 <= j.previous[i] /\ j.previous[i] <= 100
=============================================================================
