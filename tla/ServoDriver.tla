------------------------------ MODULE ServoDriver ------------------------------
(***************************************************************************)
(* The native ST3215 driver process: the node (DriverNode: executor and    *)
(* pose thread) and the bus worker (ServoBus) over the objects they share: *)
(* the command buffer, the state buffer, the torque request with its mutex *)
(* and condition variable, and running_.  Each component's environment is  *)
(* here the other component; NodeSpec and BusSpec state that nothing the   *)
(* composition does falls outside the environment that component assumed.  *)
(*                                                                         *)
(* Time is counted in bus periods.  Code takes no time; the feedback sweep,*)
(* the nap of enable_torque_hold_current and the torque wait do.           *)
(***************************************************************************)
EXTENDS Integers, FiniteSets

CONSTANTS
  RampSteps, HoldAfterMove, WritesEnabled, MaxFeedbackAge, MaxStores, MaxTorque,
  Joints, Poses, RequireFeedback, StartupHold, HoldLast, SkipUnchanged,
  EveryCycleDue, CommandTimeout, MaxSweep, Clients,
  EnableNap,     \* the 80 ms between seed and torque request, in ticks
  TorqueWait     \* the 1000 ms timeout of requestTorqueEnabled, in ticks

\* The assumptions of both components, and: the torque wait (1000 ms) outlasts the worst
\* feedback sweep (12 joints, 15 ms of timeouts each) and the rest of a period after it.
ASSUME DriverAssumption ==
  /\ RampSteps \in Nat \ {0}
  /\ {HoldAfterMove, WritesEnabled, RequireFeedback, StartupHold, HoldLast, SkipUnchanged,
      EveryCycleDue} \subseteq BOOLEAN
  /\ {MaxFeedbackAge, MaxStores, MaxTorque, CommandTimeout, MaxSweep} \subseteq Nat
  /\ IsFiniteSet(Joints) /\ Joints # {} /\ Poses # {}
  /\ Clients = {"external", "measured", "ramp", "goal"}
  /\ EnableNap \in Nat \ {0}
  /\ TorqueWait \in Nat /\ TorqueWait > MaxSweep + 1

VARIABLES
  override, running, stop, ramp, exec, reply, held,
  command, feedback, torqueReq, torqueAck, busRunning,
  commandAge, stopping, worker, job, snap, seen, pose, lastSafe, lastWritten,
  writtenSeq, torqueState, servoGoal,
  timer          \* ticks the executor has spent in its nap or torque wait

Node == INSTANCE DriverNode
\* A move begun below the node's bound still stores its ramp and its goal.
Stores == MaxStores + RampSteps + 1
Bus == INSTANCE ServoBus WITH MaxStores <- Stores

nodeVars == <<override, running, stop, ramp, exec, reply, held>>
vars == <<nodeVars, command, feedback, torqueReq, torqueAck, busRunning,
          commandAge, stopping, worker, job, snap, seen, pose, lastSafe,
          lastWritten, writtenSeq, torqueState, servoGoal, timer>>

TimerCap == IF EnableNap > TorqueWait THEN EnableNap ELSE TorqueWait

Init == Node!Init /\ Bus!Init /\ timer = 0

(***************************************************************************)
(* A step of the node.  The receipt time is part of the stored snapshot.   *)
(***************************************************************************)
BlockedNode == Node!EnableWake \/ Node!TorqueTimeout \/ Node!TorqueReply

NodeKeepsBus ==
  /\ commandAge' = IF command' # command THEN 0 ELSE commandAge
  /\ UNCHANGED <<stopping, worker, job, snap, seen, pose, lastSafe, lastWritten,
                 writtenSeq, torqueState, servoGoal>>

NodeStep ==
  /\ \/ Node!Executor /\ ~BlockedNode
     \/ Node!Ramp
  /\ timer' = IF exec' # exec THEN 0 ELSE timer
  /\ NodeKeepsBus

NapEnds ==
  /\ timer >= EnableNap
  /\ Node!EnableWake
  /\ timer' = 0
  /\ NodeKeepsBus

TorqueAnswered ==
  /\ Node!TorqueReply
  /\ timer' = 0
  /\ NodeKeepsBus

TorqueGivenUp ==
  /\ timer >= TorqueWait
  /\ Node!TorqueTimeout
  /\ timer' = 0
  /\ NodeKeepsBus

\* ~ServoDriverNode calls ServoBus::stop once the pose thread is joined.
StopBus ==
  /\ Node!At("shutdown", "down")
  /\ Bus!EnvStop
  /\ UNCHANGED <<nodeVars, timer>>

WorkerStep ==
  /\ Bus!Worker
  /\ UNCHANGED <<nodeVars, timer>>

(***************************************************************************)
(* Time passes only while both threads of the node sleep or wait for an    *)
(* event that has not happened yet.                                        *)
(***************************************************************************)
NodeIsBlocked ==
  /\ ramp.at \in {"none", "sleep", "ended"}
  /\ \/ exec.at \in {"idle", "down"}
     \/ exec.at = "join" /\ ~Node!Joinable
     \/ exec.at = "nap" /\ timer < EnableNap
     \/ exec.at = "wait" /\ timer < TorqueWait /\ torqueAck.seq < torqueReq.seq

Tick ==
  /\ NodeIsBlocked
  /\ Bus!Tick
  /\ timer' = IF exec.at \in {"nap", "wait"} THEN Bus!Older(timer, TimerCap)
              ELSE timer
  /\ UNCHANGED nodeVars

Next == NodeStep \/ NapEnds \/ TorqueAnswered \/ TorqueGivenUp \/ StopBus
          \/ WorkerStep \/ Tick

Fairness ==
  /\ WF_vars(NodeStep /\ exec # Node!Idle)
  /\ WF_vars(Node!Ramp /\ NodeStep)
  /\ WF_vars(NapEnds \/ TorqueAnswered \/ TorqueGivenUp \/ StopBus)
  /\ WF_vars(WorkerStep)
  /\ WF_vars(Tick)

Spec == Init /\ [][Next]_vars
FairSpec == Spec /\ Fairness /\ SF_vars(Bus!WriteTarget /\ WorkerStep)
                 /\ SF_vars(Bus!CopyCommand /\ snap'.due /\ WorkerStep)

-----------------------------------------------------------------------------
(***************************************************************************)
(* Properties.                                                             *)
(***************************************************************************)

\* The composed driver behaves towards the node as the node assumed, and
\* towards the worker as the worker assumed.
NodeSpec == Node!Init /\ [][Node!Next]_(Node!vars)
BusSpec == Bus!Init /\ [][Bus!Next]_(Bus!vars)
PartsKeepTheirSpecs == NodeSpec /\ BusSpec

\* A torque service that answered success told the truth, and it stays true
\* until the next torque request: no older, timed-out request is written late.
TorqueReplyIsTruthful ==
  reply.ok /\ reply.seq = torqueReq.seq
    => torqueState = IF torqueReq.enabled THEN 1 ELSE 0

\* The torque timeout is long enough: an enable, which needs fresh feedback and
\* so a worker in its loop, never gives up on a request the worker has not
\* acknowledged; the worst sweep and a period's rest fit into the wait.
EnableIsAnswered ==
  Node!At("enable", "wait") /\ timer >= TorqueWait
    => torqueAck.seq >= torqueReq.seq

\* A caller of a torque service is answered, truthfully, whatever request timed out
\* before his.
TorqueCallsAreAnswered == TorqueReplyIsTruthful /\ EnableIsAnswered

\* Once the servos hold a latched pose they hold it until the latch ends: no
\* command that was in flight when the pose was latched overwrites it.
HeldGoalStays ==
  [][held.active /\ held.cmd.src = "measured"
       /\ servoGoal = Bus!ForCommand(held.cmd) /\ held' = held
       => servoGoal' = servoGoal]_vars

\* A latched measured pose reaches the servos if it stays latched, writes
\* succeed again and the worker runs.
HeldPoseIsWritten ==
  \A k \in 1 .. Stores :
    (held.active /\ held.cmd = [src |-> "measured", seq |-> k] /\ HoldLast)
      ~> \/ ~held.active \/ held.cmd.seq # k
         \/ servoGoal = [kind |-> "command", seq |-> k]
         \/ worker.at \in {"new", "open", "exited"}

(***************************************************************************)
(* What the repository says of the driver and the code does not do.        *)
(***************************************************************************)

\* "Give the bus several cycles to write the measured goal while torque
\* remains disabled, then enable torque."
GoalWrittenBeforeTorque ==
  [][torqueState # 1 /\ torqueState' = 1
       => held.active /\ servoGoal = Bus!ForCommand(held.cmd)]_vars

\* Authority table, torque disabled: "external command blocked by override".
NoExternalWhileTorqueOff ==
  [][torqueState = 0 /\ command' # command => command'.src # "external"]_vars

-----------------------------------------------------------------------------
(***************************************************************************)
(* The inductive invariant of the composition (proved in                   *)
(* ServoDriver_proofs): those of the components, and what each may rely on *)
(* because of the other.                                                   *)
(***************************************************************************)

\* Stores the pose thread, and a callback that has begun, may still make.
RampStores ==
  IF ramp.at \in {"loop", "sleep"} THEN RampSteps - ramp.step + 1
  ELSE IF ramp.at \in {"check", "goal"} THEN 1 ELSE 0
ExecStores ==
  IF \/ exec.at = "store"
     \/ exec.at = "join" /\ exec.op \in {"move", "hold", "enable", "abort"}
     \/ exec.op = "abort"
  THEN 1 ELSE 0

\* What was begun below the node's bounds ends below the worker's.
StoresFit ==
  /\ command.seq + RampStores + ExecStores <= Stores
  /\ Node!At("move", "join") => command.seq < MaxStores
RequestsFit ==
  (exec.at \in {"nap", "request"} \/ (exec.at = "join" /\ exec.op \in {"disable", "enable"}))
    => torqueReq.seq < MaxTorque

\* A torque service answers with the acknowledgement of its own request, and the next
\* acknowledgement needs the next request.
ReplyFollowsAck ==
  /\ reply.seq <= torqueReq.seq
  /\ reply.ok /\ reply.seq = torqueReq.seq
       => torqueAck.ok /\ torqueAck.seq = torqueReq.seq

\* Feedback that was complete once stays so, and comes from a worker in its loop; it
\* leaves the loop only when the node is gone.
WorkerIsThere ==
  /\ feedback.ready => seen = Joints /\ worker.at \notin {"new", "open"}
  /\ feedback.ready /\ worker.at = "exited" => stopping
  /\ stopping => Node!At("shutdown", "down")
  /\ exec.op = "enable" => feedback.ready

\* Ticks until the worker takes up and acknowledges the newest request.
TicksToAck ==
  CASE worker.at = "sweep" -> worker.busy + worker.rest
    [] worker.at \in {"head", "wait"} -> worker.rest
    [] worker.at = "torque" -> 0
    [] worker.at \in {"torqueWrite", "torqueAck"} /\ job.seq = torqueReq.seq -> 0
    [] OTHER -> MaxSweep + 1
WaitIsShort ==
  Node!At("enable", "wait") /\ torqueAck.seq < torqueReq.seq
    => timer + TicksToAck <= MaxSweep + 1

DriverInv ==
  /\ Node!IInv /\ Bus!BusInv /\ timer \in Nat
  /\ StoresFit /\ RequestsFit /\ ReplyFollowsAck
  /\ WorkerIsThere /\ WaitIsShort
=============================================================================
