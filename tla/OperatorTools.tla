---------------------------- MODULE OperatorTools ----------------------------
(***************************************************************************)
(* The hand-off tool and the pose console at the same driver and policy    *)
(* node, each started again and again, with requests of earlier runs still *)
(* on their way.                                                           *)
(***************************************************************************)
EXTENDS HandoffControl, PoseConsole

vars == <<serviceVars, handoffVars, consoleVars>>

ASSUME ToolsAssumption ==
  /\ Clients = {Handoff, Console}
  /\ {MaxRuns, MaxTries, QueueDepth} \subseteq Nat \ {0}
  /\ HoldAfterMove \in BOOLEAN

TypeOK == ServicesTypeOK /\ HandoffTypeOK /\ ConsoleTypeOK

Init == ServicesInit /\ HandoffInit /\ ConsoleInit

Nodes == (Serve \/ RampEnds \/ ImuBreaks) /\ UNCHANGED <<handoffVars, consoleVars>>
HandoffTool == HandoffStep /\ UNCHANGED consoleVars
HandoffCommand == (Start \/ Killed) /\ UNCHANGED consoleVars
ConsoleTool == (ConsoleStep \/ Publish) /\ UNCHANGED handoffVars

Next == Nodes \/ HandoffTool \/ HandoffCommand \/ ConsoleTool

Spec == Init /\ [][Next]_vars

-----------------------------------------------------------------------------
(* Properties.  "alone" excludes requests of other tools and of earlier     *)
(* runs: with them, what a tool was told may be over when it exits.         *)

\* The exit code tells the operator what the nodes really do.  0: a pose stage
\* leaves a driver that holds after a move ramping or holding, a disable leaves it
\* holding with the policy off, a live stage leaves authority with the policy unless
\* the IMU broke off.  2 after a release: the driver was asked to hold and holds,
\* unless writes are off or the hold was not answered.
ExitIsTruthful ==
  run[Handoff] > 0 /\ alone[Handoff] =>
    /\ code = "0" =>
         /\ stage = "pose" /\ HoldAfterMove => owner \in {"ramp", "hold"}
         /\ stage = "disable" => owner = "hold" /\ ~authority /\ ~armed
         /\ stage = "arm" => ~authority /\ (armed \/ broken)
         /\ stage \in {"live", "release"} => owner = "external" /\ (authority \/ broken)
    /\ code = "2" =>
         /\ told # "released"
         /\ told = "held" => owner = "hold"
         /\ told = "refused" => ~writes

\* The hand-over goes in order: the driver is released under a policy without
\* authority, and authority is given while the driver follows external targets.
HandOverInOrder ==
  [][alone'[Handoff] /\ Running =>
       /\ owner = "hold" /\ owner' = "external" => ~authority
       /\ ~authority /\ authority' => owner = "external"]_vars

\* An abort the driver confirmed has stopped the ramp for good.
AbortedIsHeld ==
  at = "exited" /\ reply = "ok" /\ alone[Console] => owner = "hold"

\* The types, and: what a tool tells its operator when it ends is so, an exit code of
\* the hand-off tool (policy_handoff_control.py) as well as a confirmed abort of the
\* console (pose_console.py).
ToolsInv == TypeOK /\ ExitIsTruthful /\ AbortedIsHeld

(***************************************************************************)
(* What the repository says and the code does not do.                      *)
(***************************************************************************)

\* "Once the driver override is released, any failure to enable policy
\* immediately re-latches the latest measured physical pose."
ReleasedIsRelatched ==
  code = "2" /\ setBy = run[Handoff] /\ writes => owner # "external"

\* "Policy-default-pose ramp complete."
RampCompleteIsTrue ==
  outcome = "complete" /\ alone[Console] => owner # "ramp"

-----------------------------------------------------------------------------
(***************************************************************************)
(* The inductive invariant (proved in OperatorTools_proofs): what a tool   *)
(* that has been alone with the nodes since its run began knows of them    *)
(* from the calls that have succeeded.                                     *)
(***************************************************************************)

\* Calls of the stage that succeeded; all of them when the run ended well.
Done ==
  CASE Running /\ step # Relatch -> IF call[Handoff].reply = "ok" THEN step ELSE step - 1
    [] code = "0" -> Len(Plan[stage])
    [] OTHER -> 0
Called(srv) == \E i \in 1 .. Done : Plan[stage][i] = srv

\* A tool waits for the call of its place, and for none when it does not run.
HandoffCalls ==
  /\ Running => run[Handoff] > 0
  /\ Running /\ step # Relatch => step \in DOMAIN Plan[stage]
  /\ ~Running => step = 0
  /\ step = Relatch => stage \in {"live", "release"}
  /\ call[Handoff] # NoCall => Running /\ call[Handoff].srv = Current /\ tries > 0
ConsoleCalls ==
  /\ at # "exited" => run[Console] > 0
  /\ call[Console].srv = IF at \in {"move", "abort"} THEN at
                         ELSE IF at = "interrupt" THEN "abort" ELSE "none"
  /\ call[Console].srv = "none" => call[Console] = NoCall
  /\ reply # "none" => at = "exited"

\* What the calls that succeeded have left behind.
CallsHold ==
  run[Handoff] > 0 /\ alone[Handoff] =>
    /\ HoldAfterMove /\ Called("move") /\ ~Called("release") => owner \in {"ramp", "hold"}
    /\ Called("hold") => owner = "hold"
    /\ Called("disable") => ~authority /\ ~armed
    /\ Called("arm") /\ ~Called("enable") => ~authority
    /\ Called("arm") /\ stage = "arm" => armed \/ broken
    /\ Called("release") => owner = "external"
    /\ Called("enable") => authority \/ broken

\* What the hold after a failed enable has answered, and what the tool was told.
AtRelatch(answer) == step = Relatch /\ call[Handoff].reply = answer
RelatchHolds ==
  /\ Running => told \in {"nothing", "released"}
  /\ Running /\ told = "released" => Current = "enable" \/ step = Relatch
  /\ code = "2" => told # "released"
  /\ alone[Handoff] /\ (AtRelatch("ok") \/ (code = "2" /\ told = "held")) => owner = "hold"
  /\ alone[Handoff] /\ (AtRelatch("refused") \/ (code = "2" /\ told = "refused")) => ~writes
AbortHolds ==
  alone[Console] /\ (call[Console] = [srv |-> "abort", reply |-> "ok"] \/ reply = "ok")
    => owner = "hold"

IInv ==
  /\ TypeOK
  /\ HandoffCalls /\ ConsoleCalls
  /\ CallsHold /\ RelatchHolds /\ AbortHolds
=============================================================================
