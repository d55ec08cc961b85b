--------------------------- MODULE ServoMapTools ---------------------------
(***************************************************************************)
(* The tools that write the servo map, used in any order on one robot      *)
(* whose servos are exchanged now and then.                                *)
(***************************************************************************)
EXTENDS HardwareLimits, SerialFraming

CONSTANT MaxJobs   \* how many sessions are started and servos exchanged (bound)

ASSUME JobsAssumption == MaxJobs \in Nat

VARIABLE jobs

mapToolsVars == <<mapVars, calibrationVars, limitVars, jobs>>

MapToolsInit == ServoMapInit /\ CalibrationInit /\ LimitsInit /\ jobs = 0

\* The driver must run for a calibration capture and must be stopped for a limit
\* capture: the two never measure at the same time.
Measuring == capture # NoProposal \/ session # NoFile

Job ==
  /\ jobs < MaxJobs /\ jobs' = jobs + 1
  /\ \/ \E j \in Joints : ReplaceServo(j) /\ UNCHANGED <<calibrationVars, limitVars>>
     \/ ~Measuring /\ StartCapture /\ UNCHANGED limitVars
     \/ ~Measuring /\ \E resume \in BOOLEAN, again \in SUBSET Joints : StartSession(resume, again)

Work ==
  /\ UNCHANGED jobs
  /\ \/ /\ UNCHANGED limitVars
        /\ \/ CancelCapture \/ ApplyToMirror \/ ApplyDies
           \/ \E joints \in SUBSET Joints, reference \in References, moving \in Joints \cup {0} :
                \E offset \in [joints -> {-Align, Align}] :
                  FinishCapture(joints, reference, offset, moving)
           \/ \E large, mismatch, sync \in BOOLEAN : ApplyToMap(large, mismatch, sync)
     \/ \E j \in Joints : CaptureJoint(j) \/ SkipJoint(j)
     \/ EndSession \/ BreakSession \/ Render \/ InstallRendered

MapToolsNext == Job \/ Work
MapToolsSpec == MapToolsInit /\ [][MapToolsNext]_mapToolsVars

-----------------------------------------------------------------------------

MapToolsTypeOK ==
  /\ ServoMapTypeOK
  /\ capture \in [Joints -> MapEntry] \cup {NoProposal}
  /\ unmirrored \in [Joints -> [center : Int, minStep : Int, maxStep : Int]] \cup {NoProposal}
  /\ applied \in [joints : SUBSET Joints, sync : BOOLEAN, large : BOOLEAN, mismatch : BOOLEAN,
                  done : BOOLEAN]
  /\ sound \in [Joints -> BOOLEAN] /\ jobs \in 0 .. MaxJobs

-----------------------------------------------------------------------------
(* The inductive invariant: what is in the files, and in the hands of a tool *)
(* that will write them.                                                     *)

\* Raw limits are those of the centre and the model-space limits beside them.
RawAgrees(entry, j) ==
  LET raw == RawLimits(j, entry.center, entry.lower, entry.upper)
  IN  entry.minStep = raw.minStep /\ entry.maxStep = raw.maxStep

\* Limits in model space that are inside the stops by Align.
Inner(entry, j) == Stop[j].lower + Align <= entry.lower /\ entry.upper <= Stop[j].upper - Align

\* A servo map whose sound limits keep Align off the stops, whatever its centres are.
MapHolds(m, s) ==
  /\ m \in [Joints -> MapEntry] /\ s \in [Joints -> BOOLEAN] /\ Loads(m)
  /\ \A j \in Joints : RawAgrees(m[j], j) /\ (s[j] => Inner(m[j], j))

\* Ends captured with a calibrated centre are at most Align beyond the stops.
RecordsHold(records) ==
  /\ DOMAIN records \subseteq Joints
  /\ \A j \in DOMAIN records :
       /\ records[j].lower \in Int /\ records[j].upper \in Int /\ records[j].sound \in BOOLEAN
       /\ records[j].sound => /\ Stop[j].lower - Align <= records[j].lower
                              /\ records[j].upper <= Stop[j].upper + Align

\* Every entry goes with the limits of the map it was measured against, and is not
\* far from its centre unless its status says so.
ProposalHolds ==
  proposal # NoProposal =>
    /\ DOMAIN proposal.joints \subseteq Joints /\ proposal.hash \in [Joints -> MapEntry]
    /\ \A j \in DOMAIN proposal.joints :
         LET p == proposal.joints[j]  old == proposal.hash[j]
             raw == RawLimits(j, p.center, old.lower, old.upper)
         IN  /\ p.center \in Int /\ p.minStep = raw.minStep /\ p.maxStep = raw.maxStep
             /\ Magnitude(p.center - old.center) > Inspect => Blocked(p.status, FALSE)

SessionHolds ==
  session # NoFile =>
    /\ DOMAIN session = {"centers", "next", "again", "records"}
    /\ RecordsHold(session.records) /\ session.centers \in [Joints -> Int]

RecordedHolds == recorded # NoFile => RecordsHold(recorded)

\* A rendering moves no centre.
GeneratedHolds ==
  generated # NoFile =>
    /\ MapHolds(generated.map, generated.sound)
    /\ \A j \in Joints : generated.map[j].center = generated.hash[j].center

\* The mirror is in step with the map for the joints of an apply that is done, or the
\* text that is to be written is.
MirrorHolds ==
  /\ applied.done /\ applied.sync => \A j \in applied.joints : mirror[j] = MirrorOf(map[j])
  /\ applied.joints \subseteq Joints /\ DOMAIN applied = DOMAIN Nothing
  /\ unmirrored # NoProposal =>
       \A j \in applied.joints : unmirrored[j] = MirrorOf(map[j])

MapToolsIInv ==
  /\ zero \in [Joints -> Zeros] /\ MapHolds(map, sound)
  /\ capture # NoProposal => capture \in [Joints -> MapEntry]
  /\ ProposalHolds /\ SessionHolds /\ RecordedHolds /\ GeneratedHolds /\ MirrorHolds

-----------------------------------------------------------------------------
(* Properties.                                                              *)

\* An apply that returned 0 and was to keep the mirror in step did so for every joint
\* of its proposal, also when it follows one that died between the two files
\* (apply_calibration.py:217-228).
MirrorInStep ==
  applied.done /\ applied.sync => \A j \in applied.joints : mirror[j] = MirrorOf(map[j])

\* Type correctness; what is read from the wire and what is reported of a capture; and
\* the mirror in step.
MapToolsInv == MapToolsTypeOK /\ FramingIsSound /\ ComparisonIsSound /\ MirrorInStep

\* With a centre aligned as well as can be and limits captured with such a centre, the
\* raw steps the driver clamps to lie between the mechanical stops: through servo
\* exchanges, calibrations, resumed captures and renderings in any order
\* (derived_raw_limits, build_authoritative_contract).
LimitsStayPhysical ==
  \A j \in Joints :
    Calibrated(j, map[j].center) /\ sound[j] =>
      LET stops == RawLimits(j, zero[j], Stop[j].lower, Stop[j].upper)
      IN  stops.minStep <= map[j].minStep /\ map[j].minStep < map[j].maxStep
          /\ map[j].maxStep <= stops.maxStep

\* No centre in the map moves by more than inspect_threshold_steps unless the operator
\* said so, however old the proposal is (apply_calibration.py:124-147).
LargeMovesAreReviewed ==
  [][(\E j \in Joints : Magnitude(map'[j].center - map[j].center) > Inspect)
       => applied'.large \/ applied'.mismatch]_mapToolsVars
=============================================================================
