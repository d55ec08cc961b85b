---------------------------- MODULE Calibration ----------------------------
(***************************************************************************)
(* capture_calibration and apply_calibration.  A capture reads the map,    *)
(* waits for the operator to align the joints, measures, and writes a      *)
(* proposal; an apply checks the proposal against the map as it is then    *)
(* and writes the map and, after it, the mirror.                           *)
(***************************************************************************)
EXTENDS ServoMap

CONSTANTS
  Fine, Inspect,   \* fine_threshold_steps, inspect_threshold_steps
  NoProposal

\* What parse_args insists on (capture_calibration.py:231).
ASSUME ThresholdAssumption == Fine \in Nat /\ Inspect \in Nat /\ Fine <= Inspect

VARIABLES
  capture,         \* the map a running capture has loaded, or NoProposal
  proposal,        \* the newest proposal file, or NoProposal
  unmirrored,      \* an apply between its two writes: the text for the mirror
  applied          \* the last apply: its joints, flags, and whether it returned 0

calibrationVars == <<capture, proposal, unmirrored, applied>>

Nothing == [joints |-> {}, sync |-> FALSE, large |-> FALSE, mismatch |-> FALSE, done |-> FALSE]
CalibrationInit ==
  /\ capture = NoProposal /\ proposal = NoProposal /\ unmirrored = NoProposal
  /\ applied = Nothing

ClassifyCorrection(correction, ok) ==
  CASE ~ok -> "RAW_RANGE_OUT_OF_BOUNDS"
    [] ok /\ correction = 0 -> "NO_CHANGE"
    [] ok /\ Magnitude(correction) \in 1 .. Fine -> "FINE_SOFTWARE_CORRECTION"
    [] ok /\ Magnitude(correction) \in Fine + 1 .. Inspect -> "INSPECT_MECHANICAL_ALIGNMENT"
    [] ok /\ Magnitude(correction) > Inspect -> "MECHANICAL_REINDEX_RECOMMENDED"

\* The proposal for a joint measured at step while aligned to angle reference.
ProposedJoint(j, entry, step, reference, stable) ==
  LET center == step - Sign[j] * reference
      raw == RawLimits(j, center, entry.lower, entry.upper)
  IN  [center |-> center, minStep |-> raw.minStep, maxStep |-> raw.maxStep,
       status |-> IF stable THEN ClassifyCorrection(center - entry.center, RawLimitsValid(raw))
                            ELSE "UNSTABLE_CAPTURE"]

\* Mutant: only the centre is patched, as the compatibility helper does.
PatchedCentersOnly(m, p) ==
  [j \in Joints |-> IF j \in DOMAIN p THEN [m[j] EXCEPT !.center = p[j].center] ELSE m[j]]

Patched(m, p) ==
  [j \in Joints |-> IF j \in DOMAIN p
                    THEN [m[j] EXCEPT !.center = p[j].center, !.minStep = p[j].minStep,
                                      !.maxStep = p[j].maxStep]
                    ELSE m[j]]

\* The map is loaded and hashed, then the prompt waits.
StartCapture ==
  /\ capture = NoProposal
  /\ capture' = map
  /\ UNCHANGED <<mapVars, proposal, unmirrored, applied>>

\* The operator does not type CAPTURE, or preflight or collection fails.
CancelCapture ==
  /\ capture # NoProposal
  /\ capture' = NoProposal
  /\ UNCHANGED <<mapVars, proposal, unmirrored, applied>>

\* The joints stand Align or less off the reference; one may move meanwhile.
FinishCapture(joints, reference, offset, moving) ==
  /\ capture # NoProposal /\ joints # {}
  /\ proposal' =
       [hash |-> capture,
        joints |-> [j \in joints |->
          ProposedJoint(j, capture[j], ToStep(j, reference[j] + offset[j], zero[j]),
                        reference[j], j # moving)]]
  /\ capture' = NoProposal
  /\ UNCHANGED <<mapVars, unmirrored, applied>>

Blocked(status, large) ==
  \/ status \in {"RAW_RANGE_OUT_OF_BOUNDS", "UNSTABLE_CAPTURE"}
  \/ status = "MECHANICAL_REINDEX_RECOMMENDED" /\ ~large

\* Identity fields never differ here; limits may, after an installation.
ValidAgainst(p, h) ==
  \A j \in DOMAIN p : h[j].lower = map[j].lower /\ h[j].upper = map[j].upper

\* Mutant: the map's hash is not compared.
AcceptedForAnyMap(p, large, mismatch) ==
  /\ ValidAgainst(p.joints, p.hash)
  /\ \A j \in DOMAIN p.joints : ~Blocked(p.joints[j].status, large)

Accepted(p, large, mismatch) ==
  /\ ValidAgainst(p.joints, p.hash)
  /\ p.hash = map \/ mismatch
  /\ \A j \in DOMAIN p.joints : ~Blocked(p.joints[j].status, large)

MirrorText(p) == [j \in Joints |-> IF j \in DOMAIN p THEN MirrorOf(p[j]) ELSE mirror[j]]

\* Mutant: with nothing to change in the servo map the mirror is not looked at.
MirrorDueWithMap(p, sync) == sync /\ MirrorText(p) # mirror /\ Patched(map, p) # map

MirrorDue(p, sync) == sync /\ MirrorText(p) # mirror

\* --apply: the map is replaced in one rename.  With nothing to change in either
\* file the tool returns at once; without a mirror to write it is done.
ApplyToMap(large, mismatch, sync) ==
  /\ proposal # NoProposal /\ unmirrored = NoProposal
  /\ Accepted(proposal, large, mismatch)
  /\ LET p == proposal.joints
         due == MirrorDue(p, sync)
     IN  /\ map' = Patched(map, p)
         /\ unmirrored' = IF due THEN MirrorText(p) ELSE NoProposal
         /\ applied' = [joints |-> DOMAIN p, sync |-> sync, large |-> large,
                        mismatch |-> mismatch, done |-> ~due]
  /\ UNCHANGED <<zero, mirror, capture, proposal>>

ApplyToMirror ==
  /\ unmirrored # NoProposal
  /\ mirror' = unmirrored /\ unmirrored' = NoProposal
  /\ applied' = [applied EXCEPT !.done = TRUE]
  /\ UNCHANGED <<zero, map, capture, proposal>>

\* The tool dies between its two writes.
ApplyDies ==
  /\ unmirrored # NoProposal
  /\ unmirrored' = NoProposal
  /\ UNCHANGED <<mapVars, capture, proposal, applied>>

References == {[j \in Joints |-> 0], Default}
=============================================================================
