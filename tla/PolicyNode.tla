----------------------------- MODULE PolicyNode -----------------------------
(***************************************************************************)
(* littlegreen_biped_node: the learned policy.  Sensor callbacks note what *)
(* came and when; a timer runs the policy when every input is fresh; for   *)
(* live locomotion an operator first arms the hand-off and then enables    *)
(* authority.  The gait phase of policy_phase_state.hpp is part of the     *)
(* node: it is sampled for an inference and advanced after a success.      *)
(*                                                                         *)
(* The executor has several threads, but callbacks, services and timer all *)
(* share the node's default, mutually exclusive group: each is one step.   *)
(* Time is counted in policy periods, and so is the gait phase.            *)
(***************************************************************************)
EXTENDS Integers

CONSTANTS
  Setups,              \* output mode, phase mode and whether a hand-off is required
  Signals,             \* the joint positions and velocities the policy needs
  Commands,            \* velocity commands, by what the node tells apart
  ImuTimeout, GapReset,         \* imu_timeout_sec, imu_transport_gap_reset_sec
  StartupHold, RecoveryHold,    \* imu_startup_stability_sec, imu_recovery_hold_sec
  JointTimeout,                 \* joint_state_timeout_sec
  AgeTopicTimeout, MaxAge,      \* joint_feedback_age_topic_timeout_sec, ..._max_age_sec
  CommandTimeout, ZeroOnTimeout,   \* command_timeout_sec, zero_command_on_timeout
  LatchOnBreak,        \* imu_discontinuity_latches_live_authority
  Period,                       \* phase_period_s in policy periods
  StaticPhases,                 \* the phases an episode of Stand may draw
  FirstSwingLeft                \* initial_first_swing_left

PhaseModes == {"disabled", "randomized_static", "command_synchronized", "tick_clock",
               "neutral_static"}

ASSUME SetupAssumption ==
  /\ Setups \subseteq [output : {"live", "shadow", "disabled"}, phases : PhaseModes,
                       handoff : BOOLEAN]
  /\ \A s \in Setups : s.handoff =>
       s.output = "live" /\ s.phases \in {"disabled", "tick_clock", "neutral_static"}

ASSUME OptionAssumption ==
  /\ {ZeroOnTimeout, LatchOnBreak} \subseteq BOOLEAN
  /\ Commands \subseteq {"zero", "creep", "walk"}

ASSUME TimeAssumption ==
  /\ {ImuTimeout, GapReset, StartupHold, RecoveryHold, JointTimeout,
      AgeTopicTimeout, MaxAge, CommandTimeout} \subseteq Nat
  /\ ImuTimeout <= GapReset

ASSUME PhaseAssumption ==
  /\ Period \in Nat \ {0} /\ Period % 2 = 0
  /\ StaticPhases \subseteq 0 .. Period - 1 /\ StaticPhases # {}
  /\ FirstSwingLeft \in BOOLEAN

VARIABLES
  setup,                        \* fixed when the node starts
  imuSeen, imuAge, inhibit,     \* have_valid_imu_, its age, time to imu_inhibit_until_
  steady,                       \* the last IMU sample allows a hand-off
  signalAge, settled,           \* per signal: its age, and whether it allows a hand-off
  topicAge, reportedAge,        \* /joint_feedback_age_ms: its age, the oldest joint in it
  command, commandAge,          \* cmd_vel_, last_command_update_time_
  armed, authority,             \* handoff_armed_, policy_authority_enabled_
  prevActions,                  \* prev_actions_: "zero", the hand-off's "seed", an "action"
  phase, moving, nextLeft, activeLeft,   \* PolicyPhaseState
  revoked,             \* history: no successful arm since the last disable or IMU break
  first,               \* history: no inference since authority was enabled
  seen, lastFoot       \* history: the last sample used, the foot of the last onset

sensorVars == <<imuSeen, imuAge, inhibit, steady, signalAge, settled, topicAge, reportedAge>>
commandVars == <<command, commandAge>>
authorityVars == <<armed, authority, revoked, first>>
phaseVars == <<phase, moving, nextLeft, activeLeft, seen, lastFoot>>
vars == <<setup, sensorVars, commandVars, authorityVars, prevActions, phaseVars>>

Phase == 0 .. Period - 1

TypeOK ==
  /\ setup \in Setups
  /\ imuSeen \in BOOLEAN /\ imuAge \in 0 .. GapReset + 1 /\ inhibit \in Nat
  /\ steady \in BOOLEAN
  /\ signalAge \in [Signals -> 0 .. JointTimeout + 1]
  /\ settled \in [Signals -> BOOLEAN]
  /\ topicAge \in 0 .. AgeTopicTimeout + 1 /\ reportedAge \in 0 .. MaxAge + 1
  /\ command \in Commands \cup {"zero"} /\ commandAge \in 0 .. CommandTimeout + 1
  /\ {armed, authority, revoked, first} \subseteq BOOLEAN
  /\ prevActions \in {"zero", "seed", "action"}
  /\ phase \in Phase /\ {moving, nextLeft, activeLeft} \subseteq BOOLEAN
  /\ seen \in [phase : Phase, moving : BOOLEAN, left : BOOLEAN]
  /\ lastFoot \in {"none", "left", "right"}

-----------------------------------------------------------------------------
(* The gait phase: PolicyPhaseState.                                       *)

Walks == setup.phases = "command_synchronized"

\* Where a swing starts in the period.
Start(left) == IF left THEN Period \div 2 ELSE 0

Later(p) == (p + 1) % Period

\* begin_episode, on the primed phase variables.
BeginEpisode ==
  /\ phase' \in IF setup.phases = "randomized_static" THEN StaticPhases ELSE {0}
  /\ moving' = FALSE
  /\ nextLeft' = FirstSwingLeft
  /\ activeLeft' = FALSE
  /\ seen' = [phase |-> phase', moving |-> FALSE, left |-> FALSE]
  /\ lastFoot' = "none"

\* sample: the phase an inference with command c is given.
Sample(c) ==
  IF ~Walks THEN [phase |-> phase, moving |-> moving, left |-> activeLeft]
  ELSE IF c # "walk" THEN [phase |-> 0, moving |-> FALSE, left |-> FALSE]
  ELSE IF moving THEN [phase |-> phase, moving |-> TRUE, left |-> activeLeft]
  ELSE [phase |-> Start(nextLeft), moving |-> TRUE, left |-> nextLeft]

\* update_walk.
StopWalkingHere == moving' = FALSE /\ activeLeft' = FALSE /\ UNCHANGED <<phase, nextLeft>>

StopWalking == phase' = 0 /\ moving' = FALSE /\ activeLeft' = FALSE /\ UNCHANGED nextLeft

StartWalkingAdvances ==
  /\ activeLeft' = nextLeft
  /\ nextLeft' = ~nextLeft
  /\ phase' = Later(phase)
  /\ moving' = TRUE

StartWalking ==
  /\ activeLeft' = nextLeft
  /\ nextLeft' = ~nextLeft
  /\ phase' = Start(nextLeft)
  /\ moving' = TRUE

KeepWalking == phase' = Later(phase) /\ UNCHANGED <<moving, nextLeft, activeLeft>>

\* on_successful_policy_tick.
AdvancePhase(c) ==
  \/ /\ setup.phases \in {"disabled", "randomized_static", "neutral_static"}
     /\ UNCHANGED <<phase, moving, nextLeft, activeLeft>>
  \/ setup.phases = "tick_clock" /\ KeepWalking
  \/ Walks /\ c # "walk" /\ StopWalking
  \/ Walks /\ c = "walk" /\ ~moving /\ StartWalking
  \/ Walks /\ c = "walk" /\ moving /\ KeepWalking

\* What an observer of the samples remembers.
Remember(s) ==
  /\ seen' = s
  /\ lastFoot' = IF s.moving /\ ~seen.moving
                 THEN IF s.left THEN "left" ELSE "right"
                 ELSE lastFoot

-----------------------------------------------------------------------------
(* Readiness.                                                              *)

Init ==
  /\ setup \in Setups
  /\ imuSeen = FALSE /\ imuAge = 0 /\ inhibit = 0 /\ steady = FALSE
  /\ signalAge = [s \in Signals |-> JointTimeout + 1]
  /\ settled = [s \in Signals |-> FALSE]
  /\ topicAge = AgeTopicTimeout + 1 /\ reportedAge = MaxAge + 1
  /\ command = "zero" /\ commandAge = CommandTimeout + 1
  /\ armed = FALSE /\ authority = ~setup.handoff
  /\ revoked = TRUE /\ first = FALSE
  /\ prevActions = "zero"
  /\ phase \in IF setup.phases = "randomized_static" THEN StaticPhases ELSE {0}
  /\ moving = FALSE /\ nextLeft = FirstSwingLeft /\ activeLeft = FALSE
  /\ seen = [phase |-> phase, moving |-> FALSE, left |-> FALSE]
  /\ lastFoot = "none"

\* The inputs make_ready_snapshot asks for, without the hold after a break.
InputsFresh ==
  /\ imuSeen /\ imuAge <= ImuTimeout
  /\ \A s \in Signals : signalAge[s] <= JointTimeout
  /\ topicAge <= AgeTopicTimeout
  /\ reportedAge + topicAge <= MaxAge

Ready == InputsFresh /\ inhibit = 0

\* The command in the snapshot: a missing or old one counts as zero.
SnapshotCommandKept == command

SnapshotCommand ==
  IF ZeroOnTimeout /\ commandAge > CommandTimeout THEN "zero" ELSE command

\* validate_policy_handoff_state.
HandoffState ==
  /\ \A s \in Signals : settled[s]
  /\ SnapshotCommand = "zero"
  /\ steady

\* run_policy_and_publish gets as far as the inference.
MayInfer ==
  /\ Ready
  /\ setup.output # "disabled"
  /\ setup.handoff => authority

-----------------------------------------------------------------------------
(* Callbacks.                                                              *)

\* An IMU sample; the first one starts the start-up hold.
ImuFirst ==
  /\ ~imuSeen
  /\ imuSeen' = TRUE /\ imuAge' = 0 /\ inhibit' = StartupHold
  /\ steady' \in BOOLEAN
  /\ UNCHANGED <<setup, signalAge, settled, topicAge, reportedAge, commandVars,
                 authorityVars, prevActions, phaseVars>>

ImuSmooth ==
  /\ imuSeen /\ imuAge <= GapReset
  /\ imuAge' = 0
  /\ steady' \in BOOLEAN
  /\ UNCHANGED <<setup, imuSeen, inhibit, signalAge, settled, topicAge, reportedAge,
                 commandVars, authorityVars, prevActions, phaseVars>>

\* A sample after a gap, or one whose orientation jumped while the gyro stood.
ImuBreakKeepsArmed ==
  /\ imuSeen
  /\ imuAge' = 0 /\ inhibit' = RecoveryHold
  /\ steady' \in BOOLEAN
  /\ authority' = (authority /\ ~(setup.handoff /\ LatchOnBreak))
  /\ revoked' = TRUE
  /\ UNCHANGED <<setup, imuSeen, signalAge, settled, topicAge, reportedAge, armed, first,
                 commandVars, prevActions, phaseVars>>

ImuBreak ==
  /\ imuSeen
  /\ imuAge' = 0 /\ inhibit' = RecoveryHold
  /\ steady' \in BOOLEAN
  /\ armed' = (armed /\ ~(setup.handoff /\ LatchOnBreak))
  /\ authority' = (authority /\ ~(setup.handoff /\ LatchOnBreak))
  /\ revoked' = TRUE
  /\ UNCHANGED <<setup, imuSeen, signalAge, settled, topicAge, reportedAge, first,
                 commandVars, prevActions, phaseVars>>

\* joint_state_callback: finite values for some of the signals.
JointState ==
  \E fresh \in SUBSET Signals \ {{}}, value \in [Signals -> BOOLEAN] :
    /\ signalAge' = [s \in Signals |-> IF s \in fresh THEN 0 ELSE signalAge[s]]
    /\ settled' = [s \in Signals |-> IF s \in fresh THEN value[s] ELSE settled[s]]
    /\ UNCHANGED <<setup, imuSeen, imuAge, inhibit, steady, topicAge, reportedAge,
                   commandVars, authorityVars, prevActions, phaseVars>>

\* joint_feedback_age_callback; MaxAge + 1 stands for every greater age.
FeedbackAge ==
  /\ topicAge' = 0
  /\ reportedAge' \in 0 .. MaxAge + 1
  /\ UNCHANGED <<setup, imuSeen, imuAge, inhibit, steady, signalAge, settled,
                 commandVars, authorityVars, prevActions, phaseVars>>

\* cmd_vel_callback; a command that is not finite forgets the last one.
Command ==
  /\ \/ command' \in Commands /\ commandAge' = 0
     \/ command' = "zero" /\ commandAge' = CommandTimeout + 1
  /\ UNCHANGED <<setup, sensorVars, authorityVars, prevActions, phaseVars>>

-----------------------------------------------------------------------------
(* Services.                                                               *)

\* arm_policy_handoff: authority goes first; a refusal leaves armed as it was.
ArmRefused ==
  /\ setup.handoff
  /\ ~(Ready /\ HandoffState)
  /\ authority' = FALSE
  /\ UNCHANGED <<setup, sensorVars, commandVars, armed, revoked, first, prevActions, phaseVars>>

Arm ==
  /\ setup.handoff
  /\ Ready /\ HandoffState
  /\ authority' = FALSE
  /\ armed' = TRUE /\ revoked' = FALSE
  /\ prevActions' = "seed"
  /\ BeginEpisode
  /\ UNCHANGED <<setup, sensorVars, commandVars, first>>

\* enable_policy_authority, on an armed hand-off with fresh inputs; refused in
\* every other case, it changes nothing.
EnableWithoutSeed ==
  /\ setup.handoff
  /\ armed /\ Ready /\ HandoffState
  /\ authority' = TRUE /\ first' = TRUE
  /\ UNCHANGED <<setup, sensorVars, commandVars, armed, revoked, prevActions, phaseVars>>

Enable ==
  /\ setup.handoff
  /\ armed /\ Ready /\ HandoffState
  /\ authority' = TRUE /\ first' = TRUE
  /\ prevActions' = "seed"
  /\ UNCHANGED <<setup, sensorVars, commandVars, armed, revoked, phaseVars>>

EnableInvalid ==
  /\ setup.handoff
  /\ armed /\ Ready /\ ~HandoffState
  /\ armed' = FALSE
  /\ UNCHANGED <<setup, sensorVars, commandVars, authority, revoked, first, prevActions,
                 phaseVars>>

\* disable_policy_authority.
Disable ==
  /\ setup.handoff
  /\ authority' = FALSE /\ armed' = FALSE /\ revoked' = TRUE
  /\ UNCHANGED <<setup, sensorVars, commandVars, first, prevActions, phaseVars>>

\* reset_gait_phase: refused in live mode.
ResetGaitPhase ==
  /\ setup.phases # "disabled" /\ setup.output # "live"
  /\ BeginEpisode
  /\ UNCHANGED <<setup, sensorVars, commandVars, authorityVars, prevActions>>

-----------------------------------------------------------------------------
(* The timer.                                                              *)

\* A successful run of the policy.  A run that is not ready or fails changes
\* nothing: neither the previous action nor the phase.
Infer ==
  /\ MayInfer
  /\ Remember(Sample(SnapshotCommand))
  /\ prevActions' = "action"
  /\ AdvancePhase(SnapshotCommand)
  /\ first' = FALSE
  /\ UNCHANGED <<setup, sensorVars, commandVars, armed, authority, revoked>>

Older(age, limit) == IF age > limit THEN age ELSE age + 1

\* Time passes, one policy period.
Tick ==
  /\ imuAge' = IF imuSeen THEN Older(imuAge, GapReset) ELSE imuAge
  /\ inhibit' = IF inhibit > 0 THEN inhibit - 1 ELSE 0
  /\ signalAge' = [s \in Signals |-> Older(signalAge[s], JointTimeout)]
  /\ topicAge' = Older(topicAge, AgeTopicTimeout)
  /\ commandAge' = Older(commandAge, CommandTimeout)
  /\ revoked' = (revoked \/ imuAge' > GapReset)
  /\ UNCHANGED <<setup, imuSeen, steady, settled, reportedAge, command, armed, authority,
                 first, prevActions, phaseVars>>

Next ==
  \/ ImuFirst \/ ImuSmooth \/ ImuBreak \/ JointState \/ FeedbackAge \/ Command
  \/ ArmRefused \/ Arm \/ Enable \/ EnableInvalid \/ Disable \/ ResetGaitPhase
  \/ Infer \/ Tick

Spec == Init /\ [][Next]_vars

\* The policy timer and the clock go on.
LiveSpec == Spec /\ WF_vars(Infer) /\ WF_vars(Tick)

-----------------------------------------------------------------------------
(* The invariant.                                                          *)

\* Whoever is revoked is neither armed nor in authority, or the break that
\* revoked it is a gap the next IMU sample has yet to notice; until then the
\* samples are too old to use.
RevokedIsOff ==
  /\ ~imuSeen => imuAge = 0
  /\ LatchOnBreak /\ setup.handoff /\ revoked /\ (armed \/ authority) => imuAge > GapReset

SeedIsKept == first => prevActions = "seed"

\* The phase state continues the last sample an inference was given.
PhaseContinues ==
  /\ Walks => phase \in IF moving THEN {seen.phase, Later(seen.phase)} ELSE {0}
  /\ setup.phases = "tick_clock" => phase \in {seen.phase, Later(seen.phase)}
  /\ setup.phases \notin {"command_synchronized", "tick_clock"} => phase = seen.phase

FeetInOrder ==
  /\ moving = seen.moving
  /\ moving => Walks /\ seen.left = activeLeft
              /\ lastFoot = (IF activeLeft THEN "left" ELSE "right")
  /\ nextLeft = CASE lastFoot = "none" -> FirstSwingLeft
                   [] lastFoot = "left" -> FALSE
                   [] lastFoot = "right" -> TRUE

\* The inductive invariant of the policy node.
PolicyInv == TypeOK /\ RevokedIsOff /\ SeedIsKept /\ PhaseContinues /\ FeetInOrder

-----------------------------------------------------------------------------
(* Properties.                                                             *)

\* After a disable, or a break in the IMU stream - noticed yet or not - the
\* live policy publishes nothing until the hand-off has been armed anew.
RevokedStaysOff == setup.handoff /\ revoked => ~MayInfer

\* The first live inference after authority was enabled observes the previous
\* action of the hand-off profile, whatever ran, failed or was armed in between.
FirstInferenceIsSeeded == [][Infer /\ first => prevActions = "seed"]_vars

\* What sample hands out is what on_successful_policy_tick has committed to:
\* while walking, successive inferences see the same foot and a phase that
\* stands still or advances by one; standing still means phase 0; and a static
\* phase is never drawn again.
GaitIsContinuous ==
  [][Infer =>
       CASE Walks /\ ~seen'.moving -> seen'.phase = 0
         [] Walks /\ seen'.moving /\ ~seen.moving -> seen'.phase = Start(seen'.left)
         [] Walks /\ seen'.moving /\ seen.moving ->
              seen'.left = seen.left /\ seen'.phase \in {seen.phase, Later(seen.phase)}
         [] setup.phases = "tick_clock" -> seen'.phase \in {seen.phase, Later(seen.phase)}
         [] OTHER -> seen'.phase = seen.phase]_vars

\* Movements begin with alternating feet, however long the pauses, outages and
\* failed inferences between them; a new episode begins with the configured one.
FeetAlternate ==
  [][Infer /\ seen'.moving /\ ~seen.moving =>
       seen'.left = CASE lastFoot = "none" -> FirstSwingLeft
                      [] lastFoot = "left" -> FALSE
                      [] lastFoot = "right" -> TRUE]_vars

\* After a break the policy becomes ready again by itself.
ReadyAgain == <>[]InputsFresh /\ <>[][~ImuBreak]_vars => <>[]Ready

\* When commands stop coming the gait stops too.
GaitStops ==
  <>[](Walks /\ MayInfer /\ commandAge > CommandTimeout) => <>[](phase = 0 /\ ~moving)

\* What an outage of the inputs or of the commands leaves behind passes: readiness
\* comes back with the inputs, and standing still with the end of the commands.
OutagesPass == ReadyAgain /\ GaitStops

\* Live output is enabled from the armed state: a policy that may publish is armed.
AuthorityIsArmed == setup.handoff /\ authority => armed
=============================================================================
