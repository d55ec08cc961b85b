------------------------------- MODULE ServoBus -------------------------------
(***************************************************************************)
(* The bus worker of the native ST3215 driver (ServoBus::workerLoop): one  *)
(* thread that owns the UART and, cycle after cycle, applies a pending     *)
(* torque request, copies the command buffer, writes a position target,    *)
(* sweeps the joints' feedback and publishes it.                           *)
(*                                                                         *)
(* Time advances in ticks of one bus period.  The worker's own code takes  *)
(* no time; a feedback sweep takes up to MaxSweep ticks, because every     *)
(* joint that does not answer costs its write and read timeouts.  The      *)
(* driver node (its executor and pose thread) is the environment: it       *)
(* stores commands, requests torque changes and stops the bus.             *)
(***************************************************************************)
EXTENDS Integers, FiniteSets

CONSTANTS
  Joints,            \* the joints of the joint map
  Poses,             \* measured poses the whole robot can be found in
  RequireFeedback,   \* require_full_feedback_before_writes
  StartupHold,       \* startup_hold_current_position
  HoldLast,          \* command_timeout_behavior = "hold_last"
  SkipUnchanged,     \* skip_unchanged_writes
  WritesEnabled,     \* writes_enabled
  EveryCycleDue,     \* command_rate_hz >= bus_rate_hz
  CommandTimeout,    \* command_timeout_ms, in ticks
  MaxFeedbackAge,    \* max_feedback_warn_age_ms, in ticks
  MaxSweep,          \* ticks of the longest feedback sweep
  Clients,           \* who stores commands: sources of DriverNode
  MaxStores,         \* bound: commands stored
  MaxTorque          \* bound: torque requests made

ASSUME BusAssumption ==
  /\ IsFiniteSet(Joints) /\ Joints # {}
  /\ Poses # {}
  /\ Clients \subseteq {"external", "measured", "ramp", "goal"}
  /\ {RequireFeedback, StartupHold, HoldLast, SkipUnchanged, WritesEnabled,
      EveryCycleDue} \subseteq BOOLEAN
  /\ {CommandTimeout, MaxFeedbackAge, MaxSweep, MaxStores, MaxTorque}
       \subseteq Nat

VARIABLES
  command,      \* CommandBuffer: [src, seq]; seq 0 is valid=false
  commandAge,   \* ticks since the command was stored, up to a cap
  torqueReq,    \* torque_requested_enabled_, torque_request_sequence_
  torqueAck,    \* torque_applied_sequence_, torque_last_request_ok_
  busRunning,   \* running_
  feedback,     \* StateBuffer: full_feedback_ready, age of the oldest sample
  stopping,     \* stop_requested_
  worker,       \* where the worker thread is, and ticks it is busy for
  job,          \* the torque request the worker has copied
  snap,         \* the cycle's copy of the command buffer
  seen,         \* joints with has_sample
  pose,         \* the pose last sampled
  lastSafe,     \* last_safe_steps, NoTarget while have_last_safe_steps is false
  lastWritten,  \* last_written_steps, likewise
  writtenSeq,   \* last_written_command_sequence
  torqueState,  \* torque_enabled_state_: -1 unknown, 0 off, 1 on
  servoGoal     \* external: the goal registers of the servos

sharedVars == <<command, torqueReq, torqueAck, busRunning, feedback>>
busVars == <<commandAge, stopping, worker, job, snap, seen, pose, lastSafe,
             lastWritten, writtenSeq, torqueState, servoGoal>>
vars == <<sharedVars, busVars>>

Command == [src : Clients \cup {"none"}, seq : Nat]
NoCommand == [src |-> "none", seq |-> 0]
Age == 0 .. (MaxFeedbackAge + 1)

\* A position target: the steps of a command, or of a measured pose.
ForCommand(c) == [kind |-> "command", seq |-> c.seq]
ForPose(p) == [kind |-> "pose", pose |-> p]
NoTarget == [kind |-> "none"]
Target == [kind : {"command"}, seq : Nat \ {0}]
            \cup [kind : {"pose"}, pose : Poses]
            \cup {NoTarget}

\* Locals outside their scope.
NoJob == [enabled |-> TRUE, seq |-> 0, ok |-> FALSE]
NoSnap == [cmd |-> NoCommand, stale |-> TRUE, due |-> FALSE]

WorkerPlace == {"new", "open", "head", "wait", "torque", "torqueWrite",
                "torqueAck", "copy", "write", "sweep", "exited"}

TypeOK ==
  /\ command \in Command
  /\ commandAge \in 0 .. (CommandTimeout + 1)
  /\ torqueReq \in [enabled : BOOLEAN, seq : Nat]
  /\ torqueAck \in [seq : Nat, ok : BOOLEAN]
  /\ busRunning \in BOOLEAN
  /\ feedback \in [ready : BOOLEAN, age : Age]
  /\ stopping \in BOOLEAN
  /\ worker \in [at : WorkerPlace, busy : 0 .. MaxSweep, rest : {0, 1}]
  /\ job \in [enabled : BOOLEAN, seq : Nat, ok : BOOLEAN]
  /\ snap \in [cmd : Command, stale : BOOLEAN, due : BOOLEAN]
  /\ seen \subseteq Joints
  /\ pose \in Poses
  /\ lastSafe \in Target
  /\ lastWritten \in Target
  /\ writtenSeq \in Nat
  /\ torqueState \in {-1, 0, 1}
  /\ servoGoal \in Target

Init ==
  /\ command = NoCommand
  /\ commandAge = 0
  /\ torqueReq = [enabled |-> TRUE, seq |-> 0]
  /\ torqueAck = [seq |-> 0, ok |-> FALSE]
  /\ busRunning = FALSE
  /\ feedback = [ready |-> FALSE, age |-> MaxFeedbackAge + 1]
  /\ stopping = FALSE
  /\ worker = [at |-> "new", busy |-> 0, rest |-> 0]
  /\ job = NoJob
  /\ snap = NoSnap
  /\ seen = {}
  /\ pose \in Poses
  /\ lastSafe = NoTarget
  /\ lastWritten = NoTarget
  /\ writtenSeq = 0
  /\ torqueState = -1
  /\ servoGoal = NoTarget

-----------------------------------------------------------------------------
WorkerMoves(from, to) ==
  /\ worker.at = from
  /\ worker' = [worker EXCEPT !.at = to]

\* start() spawns the thread; running_ is set by the thread, before the port
\* is opened.
WorkerStart ==
  /\ WorkerMoves("new", "open")
  /\ busRunning' = TRUE
  /\ UNCHANGED <<command, commandAge, torqueReq, torqueAck, feedback, stopping,
                 job, snap, seen, pose, lastSafe, lastWritten, writtenSeq,
                 torqueState, servoGoal>>

OpenPort ==
  /\ WorkerMoves("open", "head")
  /\ UNCHANGED <<sharedVars, commandAge, stopping, job, snap, seen, pose,
                 lastSafe, lastWritten, writtenSeq, torqueState, servoGoal>>

\* The thread ends without a notification of the torque condition.
OpenPortFails ==
  /\ WorkerMoves("open", "exited")
  /\ busRunning' = FALSE
  /\ UNCHANGED <<command, commandAge, torqueReq, torqueAck, feedback, stopping,
                 job, snap, seen, pose, lastSafe, lastWritten, writtenSeq,
                 torqueState, servoGoal>>

\* while (!stop_requested_): the flag is read before the sleep only.
NextCycle ==
  /\ ~stopping
  /\ WorkerMoves("head", "wait")
  /\ UNCHANGED <<sharedVars, commandAge, stopping, job, snap, seen, pose,
                 lastSafe, lastWritten, writtenSeq, torqueState, servoGoal>>

WorkerExit ==
  /\ stopping
  /\ WorkerMoves("head", "exited")
  /\ busRunning' = FALSE
  /\ UNCHANGED <<command, commandAge, torqueReq, torqueAck, feedback, stopping,
                 job, snap, seen, pose, lastSafe, lastWritten, writtenSeq,
                 torqueState, servoGoal>>

CycleStart ==
  /\ worker.rest = 0
  /\ WorkerMoves("wait", "torque")
  /\ UNCHANGED <<sharedVars, commandAge, stopping, job, snap, seen, pose,
                 lastSafe, lastWritten, writtenSeq, torqueState, servoGoal>>

(***************************************************************************)
(* processTorqueRequest: copy the newest request, broadcast it without the *)
(* mutex, then acknowledge the sequence number that was copied.            *)
(***************************************************************************)
NoTorqueRequest ==
  /\ torqueReq.seq <= torqueAck.seq
  /\ WorkerMoves("torque", "copy")
  /\ UNCHANGED <<sharedVars, commandAge, stopping, job, snap, seen, pose,
                 lastSafe, lastWritten, writtenSeq, torqueState, servoGoal>>

TorqueCopy ==
  /\ torqueReq.seq > torqueAck.seq
  /\ WorkerMoves("torque", "torqueWrite")
  /\ job' = [enabled |-> torqueReq.enabled, seq |-> torqueReq.seq, ok |-> FALSE]
  /\ UNCHANGED <<sharedVars, commandAge, stopping, snap, seen, pose,
                 lastSafe, lastWritten, writtenSeq, torqueState, servoGoal>>

TorqueWritten ==
  /\ WorkerMoves("torqueWrite", "torqueAck")
  /\ torqueState' = IF job.enabled THEN 1 ELSE 0
  /\ job' = [job EXCEPT !.ok = TRUE]
  /\ UNCHANGED <<sharedVars, commandAge, stopping, snap, seen, pose,
                 lastSafe, lastWritten, writtenSeq, servoGoal>>

TorqueWriteFails ==
  /\ WorkerMoves("torqueWrite", "torqueAck")
  /\ UNCHANGED <<sharedVars, commandAge, stopping, job, snap, seen, pose,
                 lastSafe, lastWritten, writtenSeq, torqueState, servoGoal>>

\* Mutant: the acknowledgement names the newest request, not the copied one.
TorqueAcknowledgeNewest ==
  /\ WorkerMoves("torqueAck", "copy")
  /\ torqueAck' = [seq |-> torqueReq.seq, ok |-> job.ok]
  /\ job' = NoJob
  /\ UNCHANGED <<command, torqueReq, busRunning, feedback, commandAge, stopping,
                 snap, seen, pose, lastSafe, lastWritten, writtenSeq,
                 torqueState, servoGoal>>

\* Mutant: a failed broadcast is not acknowledged.
TorqueAcknowledgeSuccess ==
  /\ WorkerMoves("torqueAck", "copy")
  /\ torqueAck' = IF job.ok THEN [seq |-> job.seq, ok |-> TRUE] ELSE torqueAck
  /\ job' = NoJob
  /\ UNCHANGED <<command, torqueReq, busRunning, feedback, commandAge, stopping,
                 snap, seen, pose, lastSafe, lastWritten, writtenSeq,
                 torqueState, servoGoal>>

TorqueAcknowledge ==
  /\ WorkerMoves("torqueAck", "copy")
  /\ torqueAck' = [seq |-> job.seq, ok |-> job.ok]
  /\ job' = NoJob
  /\ UNCHANGED <<command, torqueReq, busRunning, feedback, commandAge, stopping,
                 snap, seen, pose, lastSafe, lastWritten, writtenSeq,
                 torqueState, servoGoal>>

(***************************************************************************)
(* The position write.  due abstracts next_write: at the shipped rates a   *)
(* period passes between two cycle starts and every cycle is due, at a     *)
(* lower command rate some are not.                                        *)
(***************************************************************************)
CopyCommand ==
  /\ WorkerMoves("copy", "write")
  /\ \E due \in {EveryCycleDue, TRUE} :
       snap' = [cmd   |-> command,
                stale |-> command.seq = 0 \/ commandAge > CommandTimeout,
                due   |-> due]
  /\ UNCHANGED <<sharedVars, commandAge, stopping, job, seen, pose,
                 lastSafe, lastWritten, writtenSeq, torqueState, servoGoal>>

MayWrite ==
  /\ snap.due
  /\ WritesEnabled
  /\ RequireFeedback => feedback.ready

Valid == snap.cmd.seq > 0
UseCommand == Valid /\ ~snap.stale
\* Mutant: the start-up branch also catches a stale command.
UseMeasuredWhenStale == snap.stale /\ StartupHold /\ feedback.ready

UseMeasured == ~Valid /\ StartupHold /\ feedback.ready

\* The target of this cycle, the branches of the worker in their order.
CycleTarget ==
  IF ~MayWrite THEN NoTarget
  ELSE IF UseCommand THEN ForCommand(snap.cmd)
  ELSE IF UseMeasured THEN ForPose(pose)
  ELSE IF HoldLast THEN lastSafe
  ELSE NoTarget

CycleSafe ==
  IF MayWrite /\ (UseCommand \/ UseMeasured) THEN CycleTarget ELSE lastSafe

\* The sequence number published with a successful write.
CycleSeq ==
  IF UseCommand THEN snap.cmd.seq ELSE IF UseMeasured THEN 0 ELSE writtenSeq

\* The sweep that follows takes some ticks; a late cycle is realigned.
StartSweep ==
  /\ worker.at = "write"
  /\ \E n \in 0 .. MaxSweep : \E r \in (IF n = 0 THEN {1} ELSE {0, 1}) :
       worker' = [at |-> "sweep", busy |-> n, rest |-> r]
  /\ snap' = NoSnap

WriteTarget ==
  /\ CycleTarget # NoTarget
  /\ StartSweep
  /\ lastSafe' = CycleSafe
  /\ lastWritten' = CycleTarget
  /\ writtenSeq' = CycleSeq
  /\ servoGoal' = CycleTarget
  /\ UNCHANGED <<sharedVars, commandAge, stopping, job, seen, pose,
                 torqueState>>

\* Mutant: the sequence is recorded before the write's status is known.
WriteFailsButCounts ==
  /\ CycleTarget # NoTarget
  /\ StartSweep
  /\ lastSafe' = CycleSafe
  /\ writtenSeq' = CycleSeq
  /\ UNCHANGED <<sharedVars, commandAge, stopping, job, seen, pose,
                 lastWritten, torqueState, servoGoal>>

WriteFails ==
  /\ CycleTarget # NoTarget
  /\ StartSweep
  /\ lastSafe' = CycleSafe
  /\ UNCHANGED <<sharedVars, commandAge, stopping, job, seen, pose,
                 lastWritten, writtenSeq, torqueState, servoGoal>>

\* No target, or an unchanged one whose keepalive is not due.
NoWrite ==
  /\ CycleTarget = NoTarget \/ (SkipUnchanged /\ CycleTarget = lastWritten)
  /\ StartSweep
  /\ lastSafe' = CycleSafe
  /\ UNCHANGED <<sharedVars, commandAge, stopping, job, seen, pose,
                 lastWritten, writtenSeq, torqueState, servoGoal>>

(***************************************************************************)
(* performFeedbackSweep and the publication of its result.  A joint that   *)
(* fails keeps its last sample; full_feedback_ready asks for a sample of   *)
(* every joint, ever.                                                      *)
(***************************************************************************)
\* Ages the oldest sample can have after a sweep that read the joints of ok.
AgeAfter(ok) ==
  IF ok = Joints THEN Age \cap 0 .. MaxSweep
  ELSE IF ok = {} THEN {feedback.age}
  ELSE IF feedback.ready THEN 0 .. feedback.age
  ELSE Age

\* Mutant: every complete sweep replaces the safe target by the measured pose.
SweepDoneRelatches ==
  /\ worker.busy = 0
  /\ WorkerMoves("sweep", "head")
  /\ \E ok \in SUBSET Joints, p \in Poses :
       /\ ok = {} => p = pose
       /\ pose' = p
       /\ seen' = seen \cup ok
       /\ feedback' \in [ready : {seen' = Joints},
                         age : IF seen' = Joints THEN AgeAfter(ok)
                               ELSE {MaxFeedbackAge + 1}]
       /\ lastSafe' = IF seen' = Joints /\ StartupHold
                        THEN ForPose(p) ELSE lastSafe
  /\ UNCHANGED <<command, torqueReq, torqueAck, busRunning, commandAge,
                 stopping, job, snap, lastWritten, writtenSeq, torqueState,
                 servoGoal>>

\* Mutant: a joint that fails once loses its has_sample flag.
SweepDoneForgets ==
  /\ worker.busy = 0
  /\ WorkerMoves("sweep", "head")
  /\ \E ok \in SUBSET Joints, p \in Poses :
       /\ ok = {} => p = pose
       /\ pose' = p
       /\ seen' = ok
       /\ feedback' \in [ready : {ok = Joints},
                         age : IF ok = Joints THEN AgeAfter(ok)
                               ELSE {MaxFeedbackAge + 1}]
       /\ lastSafe' = IF ok = Joints /\ lastSafe = NoTarget /\ StartupHold
                        THEN ForPose(p) ELSE lastSafe
  /\ UNCHANGED <<command, torqueReq, torqueAck, busRunning, commandAge,
                 stopping, job, snap, lastWritten, writtenSeq, torqueState,
                 servoGoal>>

SweepDone ==
  /\ worker.busy = 0
  /\ WorkerMoves("sweep", "head")
  /\ \E ok \in SUBSET Joints, p \in Poses :
       /\ ok = {} => p = pose
       /\ pose' = p
       /\ seen' = seen \cup ok
       /\ feedback' \in [ready : {seen' = Joints},
                         age : IF seen' = Joints THEN AgeAfter(ok)
                               ELSE {MaxFeedbackAge + 1}]
       /\ lastSafe' = IF seen' = Joints /\ lastSafe = NoTarget /\ StartupHold
                        THEN ForPose(p) ELSE lastSafe
  /\ UNCHANGED <<command, torqueReq, torqueAck, busRunning, commandAge,
                 stopping, job, snap, lastWritten, writtenSeq, torqueState,
                 servoGoal>>

Worker ==
  \/ WorkerStart \/ OpenPort \/ OpenPortFails \/ NextCycle \/ WorkerExit
  \/ CycleStart \/ NoTorqueRequest \/ TorqueCopy \/ TorqueWritten
  \/ TorqueWriteFails \/ TorqueAcknowledge \/ CopyCommand \/ WriteTarget
  \/ WriteFails \/ NoWrite \/ SweepDone

\* One bus period passes: the worker sleeps or waits for the UART.
Older(age, cap) == IF age < cap THEN age + 1 ELSE cap

Tick ==
  /\ \/ worker.at = "wait" /\ worker.rest > 0
        /\ worker' = [worker EXCEPT !.rest = 0]
     \/ worker.at = "sweep" /\ worker.busy > 0
        /\ worker' = [worker EXCEPT !.busy = @ - 1]
     \/ worker.at \in {"new", "open", "exited"} /\ UNCHANGED worker
  /\ commandAge' = IF command.seq = 0 THEN 0
                    ELSE Older(commandAge, CommandTimeout + 1)
  /\ feedback' = [feedback EXCEPT !.age = Older(@, MaxFeedbackAge + 1)]
  /\ UNCHANGED <<command, torqueReq, torqueAck, busRunning, stopping, job,
                 snap, seen, pose, lastSafe, lastWritten, writtenSeq,
                 torqueState, servoGoal>>

-----------------------------------------------------------------------------
(***************************************************************************)
(* The driver node, as far as the worker can see it.                       *)
(***************************************************************************)
EnvStore ==
  /\ command.seq < MaxStores
  /\ \E src \in Clients :
       command' = [src |-> src, seq |-> command.seq + 1]
  /\ commandAge' = 0
  /\ UNCHANGED <<torqueReq, torqueAck, busRunning, feedback, stopping, worker,
                 job, snap, seen, pose, lastSafe, lastWritten, writtenSeq,
                 torqueState, servoGoal>>

EnvTorqueRequest ==
  /\ torqueReq.seq < MaxTorque
  /\ \E e \in BOOLEAN :
       torqueReq' = [enabled |-> e, seq |-> torqueReq.seq + 1]
  /\ UNCHANGED <<command, torqueAck, busRunning, feedback, busVars>>

\* ServoBus::stop, before its join.
EnvStop ==
  /\ ~stopping
  /\ stopping' = TRUE
  /\ UNCHANGED <<sharedVars, commandAge, worker, job, snap, seen, pose,
                 lastSafe, lastWritten, writtenSeq, torqueState, servoGoal>>

Env == EnvStore \/ EnvTorqueRequest \/ EnvStop

Next == Worker \/ Tick \/ Env

(***************************************************************************)
(* The worker thread is scheduled and time passes.  Successful I/O is not  *)
(* promised, except by the stronger assumption of FairIO.                  *)
(***************************************************************************)
Fairness == WF_vars(Worker) /\ WF_vars(Tick)
FairIO == SF_vars(WriteTarget) /\ SF_vars(CopyCommand /\ snap'.due)

Spec == Init /\ [][Next]_vars /\ Fairness

FairSpec == Spec /\ FairIO

-----------------------------------------------------------------------------
(***************************************************************************)
(* Properties.                                                             *)
(***************************************************************************)

\* The goal registers never go back: once a command has been written neither
\* an older command nor a start-up pose replaces it, whatever writes failed
\* and however stale the newest command is.
GoalNeverGoesBack ==
  [][servoGoal.kind = "command" =>
       servoGoal'.kind = "command" /\ servoGoal'.seq >= servoGoal.seq]_vars

\* A successful acknowledgement of the newest torque request means that the
\* last torque broadcast on the bus carried that request's value.
TorqueAckIsTruthful ==
  torqueAck.ok /\ torqueAck.seq = torqueReq.seq
    => torqueState = IF torqueReq.enabled THEN 1 ELSE 0

\* written_command_sequence never claims a command newer than the one whose
\* steps were last written.
WrittenSeqNeverAhead ==
  lastWritten.kind = "command" => writtenSeq <= lastWritten.seq

\* Every torque request is taken up, also one that its caller gave up on,
\* unless the worker ends.
TorqueIsServed ==
  \A k \in 1 .. MaxTorque :
    (torqueReq.seq >= k /\ busRunning)
      ~> (torqueAck.seq >= k \/ worker.at = "exited")

\* With hold_last, a target that has become the last safe one reaches the
\* servos if writes succeed again, even if its first write failed and its
\* command has gone stale since.
SafeTargetIsWritten ==
  \A k \in 1 .. MaxStores :
    lastSafe = [kind |-> "command", seq |-> k]
      ~> \/ servoGoal.kind = "command" /\ servoGoal.seq >= k
         \/ worker.at = "exited"

(***************************************************************************)
(* What the repository says of the worker and the code does not do.        *)
(***************************************************************************)

\* "startup target initialized from measured position", "seeds the command
\* buffer from measured state": as long as nobody has commanded anything, the
\* target written first stays the target.
StartupTargetIsLatched ==
  [][servoGoal.kind = "pose" /\ servoGoal'.kind = "pose"
       => servoGoal' = servoGoal]_vars

-----------------------------------------------------------------------------
(***************************************************************************)
(* The inductive invariant behind the safety properties (proved in         *)
(* ServoBus_proofs).                                                       *)
(***************************************************************************)

TorqueBusy == worker.at \in {"torqueWrite", "torqueAck"}

\* The copied request is newer than the acknowledged one and not newer than
\* the requested one, and what it broadcast is what the servos got last.
TorqueInOrder ==
  /\ torqueAck.seq <= torqueReq.seq
  /\ TorqueBusy => torqueAck.seq < job.seq /\ job.seq <= torqueReq.seq
  /\ TorqueBusy /\ job.seq = torqueReq.seq => job.enabled = torqueReq.enabled
  /\ worker.at = "torqueWrite" => ~job.ok
  /\ worker.at = "torqueAck" /\ job.ok
       => torqueState = IF job.enabled THEN 1 ELSE 0

\* A target never runs ahead of the one it was taken from: what was written
\* last, the last safe target, the cycle's copy, the command buffer.
TargetsInOrder ==
  /\ servoGoal.kind = "command"
       => lastSafe.kind = "command" /\ servoGoal.seq <= lastSafe.seq
  /\ lastSafe.kind = "command" => lastSafe.seq <= command.seq
  /\ worker.at = "write"
       => /\ snap.cmd.seq <= command.seq
          /\ lastSafe.kind = "command" => lastSafe.seq <= snap.cmd.seq

\* The published sequence belongs to a target at most as new as the written one.
WrittenInOrder ==
  /\ servoGoal = lastWritten
  /\ lastWritten.kind # "command" => writtenSeq = 0

BusInv ==
  /\ TypeOK
  /\ TorqueInOrder
  /\ TorqueAckIsTruthful
  /\ TargetsInOrder
  /\ WrittenInOrder
  /\ WrittenSeqNeverAhead
=============================================================================
