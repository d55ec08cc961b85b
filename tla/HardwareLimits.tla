--------------------------- MODULE HardwareLimits ---------------------------
(***************************************************************************)
(* lgh_hardware_limit_tool: torque is switched off, the joints are moved   *)
(* to their stops by hand one after the other, and limits some margin      *)
(* inside the stops are rendered for the servo map as it is at that time.  *)
(***************************************************************************)
EXTENDS Calibration

CONSTANTS
  MarginSteps,    \* --margin-steps
  NoFile

\* A stop is measured Align off at worst, and so is the centre it is used with.
ASSUME MarginAssumption == MarginSteps \in Nat /\ MarginSteps >= 2 * Align

VARIABLES
  session,        \* a running capture command, or NoFile
  recorded,       \* physical_limit_capture.yaml: captured joint -> record, or NoFile
  generated,      \* the servo map of the last rendering and the hash of its source, or NoFile
  sound           \* history: joint -> its limits in the map were captured with a calibrated centre

limitVars == <<session, recorded, generated, sound>>

LimitsInit ==
  /\ session = NoFile /\ recorded = NoFile /\ generated = NoFile
  /\ sound = [j \in Joints |-> TRUE]

\* Both ends in model space, with the centre the tool loaded when it started.
Record(j, center) ==
  LET a == ToAngle(j, ToStep(j, Stop[j].lower, zero[j]), center)
      b == ToAngle(j, ToStep(j, Stop[j].upper, zero[j]), center)
  IN  [lower |-> IF a < b THEN a ELSE b, upper |-> IF a < b THEN b ELSE a,
       sound |-> Calibrated(j, center)]

\* What audit_capture_geometry and build_authoritative_contract insist on.
Renderable(records, m) ==
  \A j \in Joints :
    /\ j \in DOMAIN records
    /\ records[j].lower + MarginSteps <= Default[j] /\ Default[j] <= records[j].upper - MarginSteps
    /\ records[j].lower + MarginSteps < records[j].upper - MarginSteps
    /\ RawLimitsValid(RawLimits(j, m[j].center, records[j].lower + MarginSteps, records[j].upper - MarginSteps))

\* Limits from the capture, raw limits from the map's own centres.
Rendered(records, m) ==
  [hash |-> m,
   map |-> [j \in Joints |->
     LET lo == records[j].lower + MarginSteps  hi == records[j].upper - MarginSteps
         raw == RawLimits(j, m[j].center, lo, hi)
     IN  [center |-> m[j].center, lower |-> lo, upper |-> hi,
          minStep |-> raw.minStep, maxStep |-> raw.maxStep]],
   sound |-> [j \in Joints |-> records[j].sound]]

\* compare_to_training_contract: the stops, and the limits inside them, against the
\* limits the policy was trained with.
Comparison(measured, training, tolerance) ==
  LET Inside(a, b) == b.lower - a.lower <= tolerance /\ a.upper - b.upper <= tolerance
  IN  CASE Inside(training, measured) /\ Inside(measured, training) -> "MATCH"
        [] Inside(training, measured) /\ ~Inside(measured, training) -> "TRAINING_TRIMMED_INSIDE_HARDWARE"
        [] ~Inside(training, measured) /\ Inside(measured, training) -> "TRAINING_EXCEEDS_MEASURED_SAFE_RANGE"
        [] OTHER -> "SHIFTED_OR_MIXED"
Compared(record, training, tolerance) ==
  [physical |-> Comparison(record, training, tolerance),
   safe |-> Comparison([lower |-> record.lower + MarginSteps, upper |-> record.upper - MarginSteps],
                       training, tolerance)]

\* A policy trained beyond the measured limits is never reported as inside them, nor
\* one inside the safe limits as beyond the stops; with a tolerance below the margin
\* one trained up to the stops shows.
ComparisonIsSound ==
  LET Ranges == {r \in [lower : -4 .. 3, upper : -3 .. 4] : r.lower < r.upper}
      Inside == {"MATCH", "TRAINING_TRIMMED_INSIDE_HARDWARE"}
  IN  \A record, training \in Ranges, tolerance \in 0 .. MarginSteps - 1 :
        LET c == Compared(record, training, tolerance)
            beyond == record.lower - training.lower > tolerance \/ training.upper - record.upper > tolerance
        IN  record.lower + MarginSteps < record.upper - MarginSteps =>
              /\ c.physical \in Inside <=> ~beyond
              /\ c.safe \in Inside => c.physical \in Inside
              /\ training = record => c.safe = "TRAINING_EXCEEDS_MEASURED_SAFE_RANGE"

\* An existing file must be resumed or overwritten.  Records of a resumed file are
\* kept, except those of the joints to be captured again.
StartSession(resume, again) ==
  /\ session = NoFile
  /\ session' = [centers |-> [j \in Joints |-> map[j].center], next |-> 1, again |-> again,
                 records |-> IF resume /\ recorded # NoFile THEN recorded ELSE <<>>]
  /\ UNCHANGED <<mapVars, calibrationVars, recorded, generated, sound>>

Offered(j) == session # NoFile /\ session.next = j

\* Both ends are captured; the file is saved at once.
CaptureJoint(j) ==
  /\ Offered(j) /\ (j \notin DOMAIN session.records \/ j \in session.again)
  /\ LET records == [k \in DOMAIN session.records \cup {j} |->
                       IF k = j THEN Record(j, session.centers[j]) ELSE session.records[k]]
     IN  /\ session' = [session EXCEPT !.records = records, !.next = j + 1]
         /\ recorded' = records
  /\ UNCHANGED <<mapVars, calibrationVars, generated, sound>>

\* 's' at either prompt, or a joint that is recorded already.
SkipJoint(j) ==
  /\ Offered(j)
  /\ session' = [session EXCEPT !.next = j + 1]
  /\ UNCHANGED <<mapVars, calibrationVars, recorded, generated, sound>>

\* 'q', or the last joint is done: saved again, and rendered if complete.  A failed
\* rendering leaves no servo map.
EndSession ==
  /\ session # NoFile
  /\ recorded' = session.records
  /\ generated' = IF Joints \subseteq DOMAIN session.records /\ Renderable(session.records, map)
                  THEN Rendered(session.records, map) ELSE generated
  /\ session' = NoFile
  /\ UNCHANGED <<mapVars, calibrationVars, sound>>

\* Ctrl+C, or a servo does not answer.
BreakSession ==
  /\ session # NoFile
  /\ session' = NoFile
  /\ UNCHANGED <<mapVars, calibrationVars, recorded, generated, sound>>

Render ==
  /\ recorded # NoFile /\ Renderable(recorded, map)
  /\ generated' = Rendered(recorded, map)
  /\ UNCHANGED <<mapVars, calibrationVars, session, recorded, sound>>

\* The operator copies the generated servo map over the one it was rendered from.  That it
\* is that one (generated.hash = map), and not a map changed since, is assumed of him:
\* nothing in the code asks for it.
InstallRendered ==
  /\ generated # NoFile /\ generated.hash = map /\ unmirrored = NoProposal
  /\ map' = generated.map /\ sound' = generated.sound
  /\ applied' = Nothing
  /\ UNCHANGED <<zero, mirror, capture, proposal, unmirrored, session, recorded, generated>>
=============================================================================
