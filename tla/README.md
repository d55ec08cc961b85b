# A verification of the LittleGreen control stack

TLA+ models, TLC runs and TLAPS proofs for the ROS 2 workspace of the
LittleGreen biped. Paths are relative to the root of the workspace
(`src/...` is its package directory, `docs/...` its documentation).

## 1. The system

A walking policy commands twelve ST3215 bus servos through a chain of
processes:

    policy node --/desired_position--> PD controller --/servo_target_radians--> driver --UART--> servos
        ^                                  ^                                      |
        +---------- /joint_states, /joint_feedback_age_ms, telemetry -------------+
    operator tool --services--> driver (poses, hold, torque) and policy node (arm, enable)

| Component | Source | State it keeps | Operations | Talks to |
|---|---|---|---|---|
| Servo driver node | `src/lgh_st3215_driver/src/servo_driver_node.cpp` | `pose_override_active_`, `pose_move_running_`, `pose_stop_requested_`, the pose thread | target subscription; services move_to_default, move_to_policy_handoff, release, hold, abort, disable/enable torque; pose-ramp thread; destructor | command buffer, state buffer, torque mailbox of the bus worker |
| Bus worker | `.../servo_bus.cpp` | safe and written steps, written sequence, torque mailbox, per-joint samples | one cycle: torque request, command copy, SyncWrite, feedback sweep, telemetry; start, stop | UART, buffers, telemetry queue |
| Buffers, telemetry queue | `.../include/lgh_st3215_driver/state_buffer.hpp` | command, state, statistics, bounded queue | store, copy, push, waitPop, stop | node, worker, publisher thread |
| Serial port, protocol, joint map | `.../serial_port.cpp`, `protocol.cpp`, `joint_map.cpp` | receive buffer, lock file | writeAll, readFrame, frame extraction, unit conversion | worker |
| PD controller | `src/pd_controller_pkg/pd_controller_pkg/` | desired and measured positions with times, shaped reference, integrators | callbacks, reset_to_feedback, control loop | policy node, driver |
| Policy node | `src/littlegreen_biped_pkg/src/littlegreen_biped_node.cpp`, `policy_phase_state.hpp` | latest sensor messages, armed/enabled, gait phase, previous action | callbacks, arm, enable, disable, reset phase, tick | PD controller, sensors |
| Operator hand-off tool, pose console | `src/littlegreen_biped_pkg/scripts/policy_handoff_control.py`, `src/lgh_st3215_tools/lgh_st3215_tools/pose_console.py` | the stage and its step; queued diagnostics | a sequence of service calls with timeouts and retries; a guarded move with abort by key | driver, policy node |
| Standing tool | `.../standing_characterization.py` | pose library (a file), current phase, guard counters, log | capture a pose, evaluate a sequence of poses | driver, action contract |
| Identification tool | `.../servo_identification.py` | anchor, planned segments, drop baseline, log | one armed test, analysis of its log | driver |
| Calibration tools | `.../capture_calibration.py`, `apply_calibration.py`, `calibration_common.py` | proposal, `servo_map.yaml`, mirror in `joint_map.yaml` | capture, apply | driver, files |
| Hardware limit tool | `tools/lgh_hardware_limit_tool/` | capture file, rendered servo map | capture, resume, render; its own serial reader | servos, files |
| Policy bundle tools | `src/littlegreen_biped_pkg/scripts/` (`policy_bundle_audit.py`, `install_exported_policy_bundle.py`) | the installed files, `policy_handoff.yaml` | audit, install | policy node |
| Preflights, recorders, IMU and maintenance tools | `src/lgh_st3215_tools/`, `src/lgh_imu_tools/`, `src/lgh_st3215_maintenance/` | reports | sequential command-line programs | topics, files |
| Launch files, description, vendored joystick packages | `src/*/launch`, `src/littlegreen_description`, ... | configuration | | |

Hard behaviour, and what makes each component correct:

* **Driver node.** Two threads and three atomics decide who may write the
  command buffer. Correct means: an external publisher and an internal pose
  never alternate, and what a safety service (hold, abort, disable, enable)
  left in the buffer stays until someone releases it.
* **Bus worker.** Writes fail, joints stay silent, commands go stale, torque
  callers give up. Correct means: the servos' goals only move forward to newer
  commands, a remembered safe target is eventually written, and what the
  worker acknowledges and publishes is true.
* **Driver as a whole.** The node's fixed waits (80 ms, 1000 ms) race the
  worker's cycle. Correct means: a torque reply stays true, and a pose that was
  latched and written is not overwritten by a command that was in flight.
* **Telemetry queue.** It loses the oldest snapshot when the publisher is slow.
  Correct means: losses are counted, and the test tools' comparison of the
  count with a baseline is meaningful.
* **PD controller.** Stale and regained inputs, reset to feedback; correct
  means no jump at hand-over and no motion nobody asked for.
* **Policy node and operator tool.** Arm, align, release and enable are
  separate calls with time between them and timeouts on each; correct means the
  policy drives only while its inputs are fresh and after the whole sequence.
* **Serial port.** Late replies, noise and half frames share one receive
  buffer; correct means a frame is attributed to the servo asked.
* **Hand-off tool and console.** A call the tool gave up on is executed later;
  correct means the exit status is true, and that authority is handed over in
  order.
* **Standing and identification tools.** They move the robot on telemetry that
  is late or lost and files written under other limits; correct means
  references stay inside the guarded limits and move without jumps, overloads
  and losses end the test, and a sample is counted for what it was measured at.
* **Calibration and limit tools.** Several programs rewrite the same map, with
  crashes, servo exchanges and old proposals in between; correct means the
  limits the driver clamps to stay between the mechanical stops, and that no
  centre moves far unnoticed.
* **Bundle tools.** Eight files are copied one by one, and checked by three
  programs with rules of their own; correct means a live node's policy and model
  are of one export, what the installer wrote serves audit and node, and a trim
  found for one policy is not used for another.

`PROJECT.json` lists the hazards at their lines with the properties aimed at
each.

## 2. Modules

| Module | Models |
|---|---|
| `CommandAuthority` | abstract: one owner of the command buffer at a time (external, ramp, hold) and the legal changes of owner |
| `DriverNode` | the executor's callbacks and the pose thread, every access to a shared object a step of its own |
| `DriverNode_proofs` | TLAPS proofs about `DriverNode` |
| `ServoBus` | the bus worker's cycle, the torque mailbox, goal registers of the servos (external) |
| `ServoBus_proofs` | TLAPS proofs about `ServoBus` |
| `ServoDriver`, `ServoDriver_proofs` | the process: `DriverNode` and `ServoBus` over their shared objects, with time; and proofs about it |
| `TelemetryQueue`, `TelemetryQueue_proofs` | the telemetry path and proofs about it |
| `PDController`, `PDController_proofs` | the PD controller node in its three modes, and proofs about it |
| `PolicyNode`, `PolicyNode_proofs` | the policy node: freshness of its inputs, hand-off gate, IMU latch, gait phase; and proofs about it and about `PolicyInstall` |
| `MCPolicyNode` | the setups the policy node is checked in |
| `ToolServices` | driver and policy node as the operator's tools reach them: what `CommandAuthority` and `PolicyNode` promise, behind requests that are executed some time after they were sent |
| `HandoffControl`, `PoseConsole` | the two operator tools |
| `OperatorTools`, `OperatorTools_proofs` | both tools at the same nodes, and proofs about them |
| `Statistics` | order statistics and the smooth step, shared by the laboratory tools |
| `LaboratoryRun` | what a run of the standing tool and one of the identification tool keep alike |
| `PoseLibrary` | capture of poses, their limits, contract and order |
| `StandingCharacterization`, `MCStandingCharacterization` | the standing tool with telemetry that is late or lost |
| `StepAnalysis` | what the identification tool computes from its log |
| `ServoIdentification`, `MCServoIdentification` | the armed test of the identification tool |
| `SerialFraming` | frames, and the two readers of replies (driver and limit tool) |
| `ServoMap` | servo map, mirror, mechanics |
| `Calibration` | capture and apply of a calibration |
| `HardwareLimits` | the limit tool's sessions and renderings |
| `ServoMapTools`, `MCServoMapTools` | all tools that write the servo map, on one robot |
| `PolicyBundle` | the rules of installer, audit and node about a bundle's files |
| `PolicyInstall`, `MCPolicyInstall` | installations copy by copy, with the node started at any time |
| `Tools_proofs` | proofs about `ServoMapTools`, `StandingCharacterization` and `ServoIdentification`: it extends all three, which is why their definitions have names of their own, and every theorem is about the specification it names. It begins with the lemmas on folds the others rest on |

How state corresponds to code:

* `override`, `running`, `stop` are the three atomics. `ramp.at` is the program
  counter of `runPoseRamp` (`"none"` is a joined thread, `"ended"` one that has
  returned and is joinable). `exec` names the callback in progress and where it
  stands; the node is spun by a single-threaded executor (`main`), so there is
  at most one. `held` is a history variable: the command that the last latching
  service left in the buffer.
* `command` is the `CommandBuffer`: the source that stored it and the sequence
  number. Joint angles are left out; two commands are distinguished by their
  sequence. `feedback` is `full_feedback_ready` and the age of the oldest sample.
* A callback is split where it touches a shared object while the other thread
  may run: reading a flag, the join, each store. Reads and writes that no other
  thread can come between, because the pose thread has been joined, are one step.
* A rejected request (no writes, no fresh feedback, a ramp running) changes
  nothing and is not a step.
* `torqueReq`, `torqueAck` are the mailbox of `requestTorqueEnabled` and
  `processTorqueRequest`: request value and number, acknowledged number and
  result. The worker copies the request, broadcasts without the mutex
  (`"torqueWrite"`), then acknowledges.
* In `ServoBus` a target is the steps of a command (`kind = "command"`), of a
  measured pose (`"pose"`) or none. `lastSafe` and `lastWritten` are the two
  remembered targets with their `have_` flags. `servoGoal` is external: what
  the servos last received. A failed SyncWrite leaves it alone.
* In `TelemetryQueue` a snapshot is its cycle index and the loss count it
  carries.
* `PDController` keeps the node's variables under shorter names (`desired`,
  `reference`, `target`, `current`, ...). Angles are integers and a velocity is
  the angle moved in one control period, so `control_dt` is 1. A message that
  never came has the age of a stale one. `mode` is a parameter of the node,
  chosen at the start and never changed. The low-pass filter takes its fraction
  of the distance rounded up: over the reals it approaches its goal for ever,
  over integers rounded down it would stop short of it. All callbacks of the
  node are in one mutually exclusive group, so each is one step.
* `PolicyNode` keeps what the gates look at: ages instead of time stamps
  (`imuAge`, `signalAge`, ...), whether the last sample would pass the hand-off
  checks (`steady`, `settled`) instead of its numbers, and of a command only
  whether it is zero, too small to walk (`"creep"`) or a walk. `setup` is the
  configuration of the node: output mode, phase mode, hand-off required or not.
  `prevActions` tells the seed of the hand-off profile from an action of the
  policy. The gait phase is counted in policy periods. Although the executor has
  several threads, subscriptions, services and the timer are all in the node's
  default mutually exclusive group, so each is one step and the mutexes and
  atomics of the node are never contended. `revoked`, `first`, `seen` and
  `lastFoot` are history variables.
* `ToolServices` keeps the owner of the driver's targets as `CommandAuthority`
  does, and of the policy node `armed` and `authority`. `sent` holds the requests
  nobody has executed yet, with the run that sent them; a caller that timed out
  leaves its request there. `Execute` is one service callback with its guard;
  its answer reaches the caller only if he still waits. `setBy` and `alone` are
  history variables: `alone` says that since a run began only requests it waited
  for were executed. Without that the tools promise little, because they share
  the nodes with others.
* `HandoffControl` is `main()` as a sequence of calls per stage (`Plan`), with the
  retry loops of `arm_with_retry` and `release_with_retry`. `PoseConsole` keeps
  the queue of diagnostics that fills while the tool waits in `input()`.
* `StandingCharacterization` and `ServoIdentification` take one turn of their
  20 ms or 10 ms loop as a tick. Telemetry is a sample some ticks old; what is
  logged keeps the label of its arrival and, as history, the reference that was
  applied when it was measured. One joint stands for the twelve, since each
  check is made joint by joint.
* `StepAnalysis` takes responses as sequences of displacements and times as
  sample numbers; fractions are cross-multiplied, medians doubled. Its checks
  (`AnalysisIsSound`) quantify over all bounded responses and logs, with lost and
  reordered cycles.
* `SerialFraming` keeps bytes, since the search for a header is about them, and
  drops the wording of errors. `Turn` is one turn of `readFrame` or
  `_read_frame`; the two differ in what they do with a malformed frame.
* In `ServoMap` an angle is counted in servo steps from model zero, so that the
  conversions are exact; `zero` is where the servo really shows model zero, which
  no file knows. A hash of a map is the map.
* In `PolicyBundle` a checksum is the identity of the file it was taken of. The
  audit's demands and the node's are two sets of definitions, since they were
  written twice: `AuditPasses`, and `NodeTakesConfig` (`load_policy_config`,
  `load_observation_contract`, `validate_policy_contract`,
  `configure_policy_handoff`) and `NodeTakesModel` (`load_onnx_model`). Texts and
  values that are compared with one constant are three flags (`texts`): asked for by
  both, by the audit alone, by the node alone. `OnlyNodeAsks` collects what the node
  asks of a policy the audit has passed: a period of 20 ms and a transition of at
  most half a period of a v2.3.1 policy (`littlegreen_biped_node.cpp:959, 975`),
  non-empty names of its contract (1401-1408) and other texts, a default inside its bounds
  (1677), a checksum in lower case (1787-1790).
* `ToolServices` takes `HoldAfterMove` (default_pose_hold_after_move, shipped as
  TRUE) as a parameter; the runs have it TRUE, the proofs allow both.
* `InstallRendered` is an operator who copies a rendered servo map over the one it
  was rendered from. That he looks (`generated.hash = map`) is assumed of him;
  nothing in the code compares the two, and a rendering put over a map that was
  calibrated since would undo the calibration.

## 3. Time and bounds

`ServoBus` and `ServoDriver` count time in bus periods (20 ms). The code itself
takes no time; the feedback sweep takes 0 to `MaxSweep` ticks and the sleep
between cycles at most one. In `ServoDriver` time passes only while the
executor and the pose thread are blocked. A lost wake-up at the worker's exit
(it notifies before clearing `running_`, `servo_bus.cpp:686-688`) is covered:
the blocked caller may leave through its timeout whether or not it was woken.

| Run | Bounds | Why they are enough |
|---|---|---|
| `driver_node` | `RampSteps = 2`, `MaxStores = 5`, `MaxTorque = 2` | a ramp has a first, a middle and a last store; five stores admit a hold, a move over it, an abort of that move and an external command after a release. `HoldAfterMove = FALSE` (default_pose_hold_after_move): the pose thread may also release the override itself; the shipped value TRUE is in `servo_driver` and in the proofs |
| `servo_bus` | 2 joints, 2 poses, 2 stores, 2 torque requests, `MaxSweep = 1` | one joint can fail while the other answers; a second command or request can arrive in every phase of the first. `SkipUnchanged = TRUE`: a goal may count as written without a write |
| `servo_driver` | 1 joint, 2 stores begun, 2 torque requests, `MaxSweep = 1`, nap 1, wait 3 | the two timers keep the order of the real ones: a worst sweep plus a rest ends within the wait |
| `telemetry_queue` | capacity 3, 9 cycles | the queue is overrun by twice its capacity |
| `pd_controller` | 1 joint, angles 0..4, speed cap 2, acceleration cap 1, timeouts of 0 to 2 cycles, gains of at most 1 | there is room to reach full speed, overshoot and come back; a measured angle can be outside the limits, and a joint can be pinned at a limit with the integral still growing |
| `policy_node` | 1 signal, timeouts of 0 or 1 period, start-up hold 1, recovery hold 2, period 4, four setups | every input can be fresh, at its limit and stale in every order with respect to the others; the holds can be told apart; a period has both swing starts and a phase between |
| `operator_tools` | 2 runs, 2 tries of a retried call, diagnostics queue of 2 | a run can meet the late request of another or of its own earlier try; a queued diagnostic can be older than the move |
| `standing_characterization` | angles 0 and 2, two servo maps, three contracts, transitions of 2 ticks, settling of 3, holds of 2, a guard every second tick, 2 consecutive, delay 1, stale after 2 | a pose can lie inside one map's guarded limits and outside the other's; an overload can span two phases; settling is longer than the telemetry's delay, as 5 s are against milliseconds |
| `servo_identification` | limits 0..8 with margin 1, offsets up to 2, sag 1, segments of 4 and 5 ticks, six tests of which two are refused | trials near a limit with a joint that sags towards it; several trials, so that a label can be late |
| `servo_map_tools` | 2 joints with opposite signs, 2 mounting positions, 3 jobs | an old proposal or capture can meet another tool's newer map and an exchanged servo; the arithmetic checks of `SerialFraming` enumerate replies of two servos cut at every byte with noise before them |
| `policy_install` | 2 actions, 10 exports of 5 models (one with another period, walking ones with transitions at and over the node's limit, two the audit refuses), 2 joint maps, `MaxEdits = 4` installations and edits | an installation can die at each copy, and a second one may follow it before or after a trim was found; the node meets bundles the audit passed and it refuses, and mixtures of two exports |

The proofs lift these bounds for the safety properties that section 5 lists: the
bounds are constants the theorems hold for. The joints of the PD controller
share no arithmetic; what they share, the freshness of partial feedback, is
covered by the proofs for any set of joints.

## 4. Runs

| Run | Question |
|---|---|
| `driver_node` | Does any interleaving of callbacks and pose thread let an external target into a move, a late ramp target into a hold, or a callback wait for ever? No. It also shows that `DriverNode` implements `CommandAuthority`, and that `IInv`, the inductive invariant of the proofs, holds. |
| `servo_bus` | Do failed writes, silent joints or stale commands ever take the goals back, or make an acknowledgement or `written_command_sequence` untrue? No. Is every torque request taken up and every safe target written in the end? Yes. `BusInv` is the inductive invariant of the proofs. |
| `servo_driver` | Do node and worker stay inside the environment the other was checked with (`PartsKeepTheirSpecs`)? Is every torque call answered within its wait, does a reply of success stay true, does a written hold survive commands in flight? Yes. |
| `telemetry_queue` | Are losses counted and the queue drained? Yes; the published count lags by less than the capacity. |
| `pd_controller` | Does the published target jump, start off suddenly or fail to arrive, in any order of commands, pauses, lost feedback and resets, in the shipped safety_only mode and in the closed loop; does a joint pinned at its limit wind up? No. |
| `policy_node` | Can the live policy run after a disable or an IMU break before it is armed anew, its first inference miss the seed, or the gait phase jump, over any outage of inputs? No. Does readiness return when the inputs do, and the gait stop when the commands stop? Yes. |
| `operator_tools` | Does the hand-off tool ever report a success that is not there, or give authority before the driver follows; does a confirmed abort leave the driver moving? No, while no one else's requests are executed. |
| `standing_characterization` | Is a pose streamed that was captured under other limits, a sample of a motion counted for a hold, or an overload overlooked at the end of a phase? No. |
| `servo_identification` | Can a reference leave the guarded limits or jump, or a test with a lost snapshot be called complete? No. Do the analyses keep order (10 % before 90 %, receipt before write before motion), whatever cycles the log lost? Yes. |
| `servo_map_tools` | Do the limits of the map ever leave the mechanical stops while its centre is right, a centre move far unreviewed, or the mirror differ after an apply that was to keep it in step? No. Are replies found behind noise that does not look like a header, and corrupted ones and late ones of another servo refused, by both readers? Yes; a late reply of the same servo and register is taken for the new one. |
| `policy_install` | Can the audit refuse what the installer wrote, or the node refuse it for something else than the demands it alone makes; can a node go live on the policy of one export and the model of another, and a trim reach a policy or a source pose it was not found for? No, also after installations that died half way. |
| `servo_driver_enable` | **Violated.** A comment says the measured goal is written before torque is enabled; the code only sleeps 80 ms, and a failed write or a slow sweep enables torque on the old goal. |

Two further facts the models show, without a statement of the repository to
compare them with: when the fresh write of a command fails and hold_last writes
its steps later, `written_command_sequence` keeps an older number
(`WrittenSeqNeverAhead` says it never claims a newer one); and a tool that reads
its loss baseline while losses are still queued can be told later of a loss
that happened before (`ReportedLossIsBounded` says by how much).

### Further configurations

These `.cfg` files are kept beside the runs. Most of them show a disagreement
between the code and what the repository says of it. To check one,
name its module on the command line, for example
`tlc -config ServoBusStartup.cfg ServoBus`.

| Configuration | Module | What it shows |
|---|---|---|
| `ServoDriverLive` | `ServoDriver` | holds: `HeldPoseIsWritten`, a latched pose reaches the servos although writes fail. It needs `CommandTimeout > MaxSweep + 1`: a command that no cycle copies while it is fresh never becomes the safe target. With the shipped numbers (500 ms against a sweep of at most 12 x 15 ms of timeouts and one period) the condition holds; with a much shorter `command_timeout_ms` a latched pose may never be written |
| `PolicyNodeAuthority` | `MCPolicyNode` | **violated**: an enable of a policy that already has authority revalidates; when that fails it disarms (`littlegreen_biped_node.cpp:2612-2617`) but leaves `policy_authority_enabled_` set. `docs/INTERFACES_AND_PARAMETERS.md:95`: "Revalidate and enable live locomotion output from the armed handoff state" |
| `PDControllerStartup` | `PDController` | **violated**: before the first complete feedback every cycle publishes the default pose (`pd_controller_node.py:641, 696-699`). `pd_config.yaml:18`, of the start-up publication being off: "Safer than automatically publishing the training pose at node startup." |
| `ServoBusStartup` | `ServoBus` | **violated**: while nobody commands, the target is the measured pose of every due cycle (`servo_bus.cpp:563-568`), so a robot that sags drags it along. `docs/ROS_GRAPH_AND_AUTHORITY.md:43`: "`startup_hold_current_position=true` seeds the command buffer from measured state" |
| `ServoDriverTorqueOff` | `ServoDriver` | **violated**: a release after disable_torque_all lets external commands into the buffer with torque off (`servo_driver_node.cpp:618-640`). `docs/ROS_GRAPH_AND_AUTHORITY.md:41`: "torque disabled / external command blocked by override / torque off" |
| `OperatorToolsReleased` | `OperatorTools` | **violated**: a release whose answer was lost is served after the tool gave up, and the tool ends with 2 and without a hold. `policy_handoff_control.py:218-219`: "Once the driver override is released, any failure to enable policy immediately re-latches the latest measured physical pose." |
| `OperatorToolsComplete` | `OperatorTools` | **violated**: a diagnostic that was queued while the operator typed is received after the start of the move and taken for the end of the ramp (`pose_console.py:184-191`: "ramp complete") |
| `ServoIdentificationExit` | `MCServoIdentification` | **violated**: the manifest is written with a name that is not defined (`servo_map_path`, `servo_identification.py:2134`), so a completed test ends with a traceback and status 1 instead of 0 |
| `PolicyInstallDocs` | `MCPolicyInstall` | **violated twice** (with `-continue`). `FinishedHasSharedSchema`: the audit asks of policy_dt only that it is positive (`policy_bundle_audit.py:694-695`), so an installation finishes on which the node throws (`littlegreen_biped_node.cpp:959`). `docs/INTERFACES_AND_PARAMETERS.md:357`: "The audit checks [...] the shared 47-D observation schema", whose required metadata includes `policy_dt: 0.02` (`docs/OBSERVATION_CONTRACT.md:20-33`). `AuditValidatesHandoff`: the audit believes the declared clamp (`policy_bundle_audit.py:639`); a profile written for a narrow joint map, still there after the map was widened and the policy installed again without a handoff JSON, passes it, and the node refuses it. `docs/V2_9_4_HANDOFF_CALIBRATION.md:36`, of source + trim clamped to the physical limit: "Both the offline bundle auditor and the live policy node validate this relationship" |

### Fairness

`DriverNode`: a started callback and the pose thread are scheduled;
`join`, `sleep_for` and `wait_for` return. Nothing obliges a client to call or
the worker to progress. `ServoBus`: the worker thread is scheduled and time
passes; `servo_bus` and `ServoDriverLive.cfg` also assume that I/O that is tried again and again
succeeds again and again, and that a due cycle comes again and again (strong
fairness of `WriteTarget` and of a due copy), without which no write can be
promised. `TelemetryQueue`: the publisher thread is scheduled and its 100 ms
wait ends. `ServoDriver` joins these. `PDController`: the control timer fires
and time passes. `PolicyNode`: the policy timer fires, time passes, and an
inference that is tried again and again is not refused by the runtime for ever
(a failed one changes no state); nothing obliges a sensor to publish.
`ReadyAgain` and `GaitStops` say in their hypotheses which inputs keep coming.

The models of the tools state no fairness: their properties are safety
properties, and an operator may leave a tool waiting or end it at any time.

`CHECK_DEADLOCK` is left on where ended systems stutter through an explicit
step. It is off for `operator_tools`, `standing_characterization`,
`servo_map_tools` and `policy_install`, which end when the bounded number of
runs, jobs or edits is used up or the tool has exited.

## 5. Proofs

| Theorems | Statements |
|---|---|
| `DriverNode_proofs!Invariance`, `TypeCorrect`, `RampExclusion`, `HoldKept`, `RampInOrder`, `Refinement` | `IInv`, type correctness, `RampIsExclusive`, `HoldIsKept`, `RampOrder`, and that `DriverNode` implements `CommandAuthority` |
| `ServoBus_proofs!Invariance`, `TypeCorrect`, `TorqueAckTruthful`, `WrittenSeqBounded`, `GoalMonotonic` | `BusInv`, type correctness, `TorqueAckIsTruthful`, `WrittenSeqNeverAhead`, `GoalNeverGoesBack` |
| `ServoDriver_proofs!Invariance`, `PartsKeep`, `TorqueCallsAnswered`, `HeldGoal` | `DriverInv`, that the process refines the specifications of both its parts (`PartsKeepTheirSpecs`), `TorqueCallsAreAnswered`, `HeldGoalStays` |
| `TelemetryQueue_proofs!Invariance`, `AllCounted`, `LossBounded`, `CaughtUp`, `Ordered` | `QueueInv`, `EverySnapshotIsCounted`, `ReportedLossIsBounded`, `CaughtUpReaderKnows`, `PublishedInOrder` |
| `PDController_proofs!Invariance`, `TypeCorrect`, `StepBounded`, `NoUnaskedMotion`, `GradualSpeed`, `NoWindUp` | `PDInv`, type correctness, `TargetStepBounded` (with the rate limit on), `NoMotionWithoutCommand`, `SpeedBuildsUpGradually` (in safety_only, with the acceleration limit on), `PinnedDoesNotWindUp` (with speed and acceleration caps above 0) |
| `PolicyNode_proofs!InvariantHolds`, `RevocationHolds`, `SeedHolds`, `GaitHolds`, `FeetHold` | `PolicyInv`, `RevokedStaysOff` (with the IMU latch on), `FirstInferenceIsSeeded`, `GaitIsContinuous`, `FeetAlternate` |
| `OperatorTools_proofs!Invariance`, `AbortConfirmed`, `ExitTruthful`, `ToolsAreTruthful`, `HandOver` | `IInv`, `AbortedIsHeld`, `ExitIsTruthful`, `ToolsInv` (the two before, with the types), `HandOverInOrder` |
| `Tools_proofs!MapInvariance`, `PhysicalLimits`, `MirrorKept`, `LargeMovesReviewed`, `MapTypes`, `MapToolsAreCorrect` | of `ServoMapTools`: `MapToolsIInv`, `LimitsStayPhysical`, `MirrorInStep`, `LargeMovesAreReviewed`, type correctness, and `MapToolsInv` as a whole, with what it says of the wire (`FramingIsSound`) and of maps (`ComparisonIsSound`) |
| `Tools_proofs!StandInvariance`, `OverloadStops`, `SamplesLabelled`, `PosesStreamed`, `StandingIsCorrect` | of `StandingCharacterization`: `StandingIInv`, `OverloadStopsMotion`, `SamplesBelong`, `StreamedAreGuarded`, and `StandingInv` as a whole, with `SequenceIsSafe`, `StatisticsAreOrdered`, `AuditAgrees` and `SpeedIsLimited` |
| `Tools_proofs!IdentInvariance`, `JointIsGuarded`, `LossNoticed`, `JumpBounded`, `AnalysisSound`, `IdentificationIsCorrect` | of `ServoIdentification`: `IdentificationIInv`, `SentWithinRange`, `LossIsNoticed` (under `NoticeAssumption`), `JumpIsBounded`, the analysis (`AnalysisIsSound`), and `IdentificationInv` as a whole |
| `PolicyNode_proofs!InstallInvariance`, `FinishedUpToNodeRules`, `LiveNodeOfOneExport`, `TrimStays` | of `PolicyInstall`: `InstallIInv`, `InstallInv`, `LiveOfOneExport`, `TrimIsOwn` |

### Assumptions

The assumptions are the named `ASSUME`s of the modules, which TLC evaluates on
every run. Most are types and positivity of the constants. The others are:

* `PolicyNode`: `imu_timeout_sec` does not exceed `imu_transport_gap_reset_sec`
  (0.05 and 0.08 s as shipped).
* `ServoDriver`: `TorqueWait > MaxSweep + 1`. The wait is 1000 ms; a sweep is at
  most 12 joints with 15 ms of timeouts each, and a rest of a period may precede
  it. `TorqueCallsAnswered` needs it.
* `StandingCharacterization`: a pose settles longer than telemetry is on its way
  (5 s against milliseconds), without which a sample of the motion would be
  logged as one of the hold. `RequestAssumption`: a request names at least one
  pose, and only poses of the library (an empty list is refused,
  `standing_characterization.py:1011-1012`). `PoseAssumption`: a missing pose is
  not an angle.
* `ServoIdentification`: `NoticeAssumption`, the way back and the hold after it
  outlast delay, staleness limit and guard period. It is true of the defaults;
  an operator may choose shorter ones, and then a run with a loss in its last
  trial may be called complete.
* `ServoMapTools`: the mechanics and the margins (`ServoMapAssumption`,
  `ThresholdAssumption`, `MarginAssumption`: the limit tool's margin covers the
  alignment error of two captures).
* `PolicyInstall`: exported poses and joint maps are numbers in order, a
  handoff that can be derived at all is derived as a profile, and a checksum is
  that of one file (`InstallAssumption`).
* `InstallRendered` (section 2): the operator installs a rendering on its own map.

### The arguments

*DriverNode.* `RampIsExclusive` is not inductive: what the executor has read
must stay true until it acts. `IInv` adds that (`ReadsHold`), that both flags are
up while the thread may still store or clear (`FlagsCoverRamp`), that whoever
asked a live thread to stop is waiting in a join (`StopIsJoined`; without it a
stop request could be forgotten and the thread's goal follow a hold), what an
owning ramp's buffer holds (`RampHistory`) and that a held buffer has no thread
(`HeldIsFrozen`). The refinement maps the owner of the buffer to "ramp" while
the thread may store, else to the override.

*ServoBus.* `GoalNeverGoesBack` needs order among everything that remembers a
command: goal, safe target, copied command, buffer (`TargetsInOrder`,
`WrittenInOrder`), and `TorqueAckIsTruthful` the order of applied, copied and
requested torque numbers and what the broadcast in progress carries
(`TorqueInOrder`).

*ServoDriver.* The invariants of the parts were proved in the environment each
part assumes: for the node, a worker that may acknowledge at any time; for the
worker, clients that may store or ask at any time. The proof shows for every
step of the process that it is a step of `DriverNode` or a stutter, and a step
of `ServoBus` or a stutter, so both invariants hold of the whole and need not be
proved again. `DriverInv` adds what crosses the boundary: stores and requests
fit the worker's bounds (`StoresFit`, `RequestsFit`), a reply repeats the
acknowledgement (`ReplyFollowsAck`), and the time the executor has waited plus the
ticks the worker still needs to acknowledge never exceed a worst sweep and a
period (`WaitIsShort`). `HeldGoalStays` then follows from the worker's order: what
it has copied before the latch is older than what the servos hold.

*TelemetryQueue.* What a reader may conclude from a published count depends on
what still waits: the waiting snapshots are the newest and consecutive
(`QueueIsNewest`), and the count at place i lags by at most Capacity - i
(`CountsInOrder`).

*PDController.* That a step is bounded in the closed loop needs the controller's
remembered position to be the published target at every moment, whatever was
lost or reset in between (`OutputInStep`), and in safety_only the target to be
the reference (`TargetIsReference`); the lemmas bound one joint's arithmetic for
all gains and limits. `SpeedBuildsUpGradually` speaks of safety_only alone: the
closed loop remembers its velocity while the target is held for stale feedback,
and starts off with it again. `PinnedDoesNotWindUp` looks at the position before
clipping: a joint that came to its limit from inside goes beyond it when it is
asked to, unless a cap of 0 forbids all motion, hence the hypotheses
(`LimitsAreStops` is the part of `PDInv` it needs).

*PolicyNode.* A gap in the IMU stream revokes authority only when the next
sample arrives; `RevokedIsOff` says that until then the last sample is older
than the gap limit, hence, by the assumption on the two limits, too old for an
inference. The gait properties compare what `sample` gave the last inference
with what `on_successful_policy_tick` committed: `PhaseContinues` and
`FeetInOrder` tie the committed state to the last sample, in every phase mode.

*OperatorTools.* A request executed for somebody else, or for a caller that gave
up, ends `alone`. While a tool is alone, what its last answered call left behind
changes only by the end of a ramp, an IMU break or its next call; `IInv` says
what each answered call left (`CallsHold`, `RelatchHolds`, `AbortHolds`), and the
order of the calls in `Plan` does the rest.

*ServoMapTools.* A centre and the limits beside it are written by different
tools, from files of different ages. `MapToolsIInv` states of every file and of
every tool in progress what it was computed from: raw limits go with centre and
model limits in every map (`RawAgrees`), ends recorded at a calibrated centre
are beyond the stops by no more than the alignment error (`RecordsHold`), so that
after the margin they lie inside them (`Inner`), a proposal is near the centre it
was measured against unless its status says otherwise (`ProposalHolds`), and a
rendering moves no centre (`GeneratedHolds`). `LimitsStayPhysical` is then one
argument about angles and steps for both signs.

*StandingCharacterization.* `OverloadIsTracked` bounds how long an overload has
lasted by the age of the telemetry while none has told of it, and by the guards
counted since; it runs across phases, so the settling and the next transition
start no new account. `RefsBelong` says of every sample on its way which pose it
was measured in; settling outlasts the delay, so when the hold begins nothing
older is left.

*ServoIdentification.* Every reference is an offset from the anchor or a convex
combination of two that may be sent, and the range is convex, so a smooth move
stays between its ends (`RefsFit`). For `LossIsNoticed`, every plan ends with
the way back and a hold (`PlanFits`); `LossIsTracked` compares the ticks since
the last trial with the age of the telemetry, so by the assumption a guard has
seen the drop before the plan is empty. For `JumpIsBounded`, `WayHolds` says that
each segment of a plan begins where the one before may have ended: within an
offset of it, trials from a measured position at most `Sag` off the centre,
triangle waves step by step. That all four modes build such plans
(`Follows`) is proved for every list of offsets. The types of what a broken-off run
leaves behind (`PhaseTypes`, `MotionTypes`) are inductive beside `IdentificationIInv`.

*Folds.* Much of the tools' arithmetic walks a list: sums of bytes, the sequence
of an evaluation, the log of the cycles, the groups of a trial, ranks. The models
write these walks with `FoldLeft`, which the community modules define by the choice of a table
over sets of indices. The library's induction theorems cannot be instantiated, so
the first section of `Tools_proofs` derives its own from the well-foundedness of
the natural numbers: a set that holds 0 and with every number its successor
holds all up to n (`InductionTo`). From it follow that the table exists
(`FoldExists`) and that a fold takes one step per element (`FoldSteps`). For each
walk a lemma then names its steps (`EvalSteps`, `LogSteps`, `GroupSteps`,
`PlaceSteps`), and an induction over them says what the walk returns for every
list.

*The wire.* A receive buffer holds what is left of an earlier reply, noise, and a
frame. The proof looks at the first place where a frame may begin. Before it, a
turn of the read loop drops bytes and can return nothing; at it, length, identifier and
checksum decide. That no reader takes a reply that is late, of another servo, or
altered in a byte comes down to sums modulo 256: one byte changed changes the
sum, whatever the others are (`FramesAreSound`).

*Statistics.* The k-th of `Sorted` is the least value that k samples do not
exceed. It exists because all samples together do not exceed the largest, it is
one of the samples, and it rises with k, from the least to the largest
(`SortedInOrder`). Medians and percentiles are read off it, so they lie between the
extremes and percentiles rise with their fraction.

*Analysis.* A first crossing of a larger fraction is the first element of a
smaller set, which gives the order of the crossings (`FirstOfMore`). The log keeps
a cycle only if it is later than all before (`LoggedRises`), so it holds no cycle twice,
and any subset of the cycles may be it: the causal chain is proved for every
subset. The points of a trial are a run of consecutive samples shifted by the delay
(`GroupIsRun`); the last part of the run is younger than the shift, so the
median of it is that of the stair itself (`LeftOfStair`), and only stairs at least as far
out as the deadband moved the joint (`StairsFound`).

*PolicyInstall.* The seven copies are in order, so a running installation has
copied exactly the first k files of one audited bundle (`CopiesInStep`), and the
profile it will write is a handoff that audit and node take with that bundle. When it is
finished, what the node asks beyond the audit is left (`AuditLeavesToNode`,
`OnlyNodeAsks`): the theorem says that the node starts on it exactly when these demands
are met, not that it starts. A profile on the robot is of an exported handoff (`OfBundle`)
and any trim in it was found with its policy and source. What a node has read while it
starts is an audited policy that passed the node's own checks (`Audited`,
`BootsChecked`), whatever was copied since; comparing the checksum then leaves one model
(`ModelOfPolicy`), and the node's checks imply that the audit passes on the joint
map it has read, also if the map is another one than the policy was audited for
(`NodeMapServesAudit`). The node reads no manifest, contract or checksum file:
`LiveOfOneExport` says nothing of these, and after an installation that died they may be
of another bundle than policy and model.

Some of these theorems state properties that no run of section 4 lists by
itself (`RampOrder`, `WrittenSeqNeverAhead`, `EverySnapshotIsCounted`,
`CaughtUpReaderKnows`, `PublishedInOrder`, `NoMotionWithoutCommand`,
`FeetAlternate`, `MirrorInStep`, `StreamedAreGuarded`, `SentWithinRange`,
`AnalysisIsSound`, `AbortedIsHeld`, `ExitIsTruthful`): they
are parts of the invariants that are checked, or follow from them.

### Only model-checked

* The liveness properties: liveness under fairness and `ENABLED` are out of the
  prover's reach. So are the disagreements of section 4.
* Nothing else that a run lists. The checks of the tools' algorithms
  (`FramingIsSound`, `StatisticsAreOrdered`, `AnalysisIsSound`) quantify over bounded
  inputs, responses of five or six samples, say, and logs of four cycles, and are
  proved as they are stated, for every value of the constants; the lemmas on folds,
  sorting, logs and groups behind them hold for inputs of any length.

## 6. Not modelled, and the plan

Left out for good: statistics and diagnostics text, velocity filtering and
current scaling, opening and locking of the UART, launch files, meshes, vendored
joystick packages, plotting, CSV and report formats, menus, read-only
maintenance programs; of the policy node the simulation and bench options
(`override_imu`, `use_sim`, gates switched off) and the arithmetic of
observation and action. The preflights, `verify_reference_pose`, the IMU tools
and the policy evaluation scripts collect messages for a fixed time and print
numbers: they neither act on the robot nor write what another part reads.

Two things the models leave out although they matter: two instances of a
laboratory tool at once (the graph guards do not see an instance of the same
name), and the content of a torn capture file of the limit tool (it does not
parse, and the next session refuses it).

Hazards that no property covers, beside the disagreements of section 4:

* the gait phase is a sum of floating-point fractions taken modulo 1
  (`policy_phase_state.hpp:218`); the model counts whole policy periods, so a
  period that is not a multiple of `policy_dt` drifts over the wrap unseen;
* a feedback message with one joint renews the freshness of all joints of the PD
  controller (`pd_controller_node.py:542`); the driver publishes all joints in
  one message, so nothing promised breaks;
* Ctrl+C during the call that starts a move of the pose console sends no abort
  (`pose_console.py:196`);
* after the release of the override a failed readiness check ends a standing
  evaluation without a hold (`standing_characterization.py:1342`), and its first
  transition starts from the pose measured then (1353);
* the identification's anchor is captured before a prompt without time limit
  and published after it (`servo_identification.py:1868`); a failure before the
  arming also publishes a hold of the last measured pose (2100); with an
  amplitude below 3 mrad a write of the old reference counts as the first of the
  new one (979);
* the limit tool saves resumed records under the hash of the current map
  (`lgh_hardware_limit_tool.py:512`), so records of an older centre look current;
  `LimitsStayPhysical` speaks of limits recorded at a calibrated centre only;
* a fresh age may be paired with an older position in a calibration capture
  (`capture_calibration.py:98`);
* rows of the runtime metrics join the newest values of seven lossy topics
  (`policy_runtime_metrics.py:218`), and a preflight passes with one sample when
  streams arrive just before its deadline (`st3215_preflight.py:150`).

What remains, most important first:

1. That the nodes as the operator tools see them are the nodes: `ToolServices`
   as a consequence of `CommandAuthority` and `PolicyNode`, service by service.
2. `HeldPoseIsWritten` needs `CommandTimeout > MaxSweep + 1`; the safety half of
   it, that a command copied while fresh becomes the safe target, can be proved
   from `BusInv`.
3. The analysis for responses and logs of any length, which the lemmas on folds
   already allow; the definitions fix the lengths so that TLC can enumerate them.
