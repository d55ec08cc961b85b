---------------------------- MODULE ServoBus_proofs ----------------------------
(***************************************************************************)
(* Proofs about ServoBus, for every set of joints and poses, every setting *)
(* of the parameters and every bound.                                      *)
(*                                                                         *)
(* That an acknowledgement is truthful needs the order of three sequence   *)
(* numbers (requested, copied, acknowledged); that a goal never goes back  *)
(* needs the order of four targets (command buffer, the cycle's copy, last *)
(* safe, written).  BusInv of ServoBus collects both orders.               *)
(***************************************************************************)
EXTENDS ServoBus, TLAPS

\* The assumptions on the constants, one by one.
LEMMA Constants ==
  /\ RequireFeedback \in BOOLEAN /\ StartupHold \in BOOLEAN
  /\ HoldLast \in BOOLEAN /\ SkipUnchanged \in BOOLEAN
  /\ WritesEnabled \in BOOLEAN /\ EveryCycleDue \in BOOLEAN
  /\ CommandTimeout \in Nat /\ MaxFeedbackAge \in Nat /\ MaxSweep \in Nat
  BY BusAssumption DEF BusAssumption

LEMMA InitType == Init => TypeOK
<1> SUFFICES ASSUME Init PROVE TypeOK
  OBVIOUS
<1>1. command \in Command /\ commandAge \in 0 .. (CommandTimeout + 1)
  BY Constants DEF Init, NoCommand, Command
<1>2. /\ torqueReq \in [enabled : BOOLEAN, seq : Nat]
      /\ torqueAck \in [seq : Nat, ok : BOOLEAN]
      /\ busRunning \in BOOLEAN /\ stopping \in BOOLEAN
  BY DEF Init
<1>3. feedback \in [ready : BOOLEAN, age : Age]
  BY Constants DEF Init, Age
<1>4. worker \in [at : WorkerPlace, busy : 0 .. MaxSweep, rest : {0, 1}]
  BY Constants DEF Init, WorkerPlace
<1>5. job \in [enabled : BOOLEAN, seq : Nat, ok : BOOLEAN]
  BY DEF Init, NoJob
<1>6. snap \in [cmd : Command, stale : BOOLEAN, due : BOOLEAN]
  BY DEF Init, NoSnap, NoCommand, Command
<1>7. seen \subseteq Joints /\ pose \in Poses
  BY DEF Init
<1>8. lastSafe \in Target /\ lastWritten \in Target /\ servoGoal \in Target
  BY DEF Init, Target
<1>9. writtenSeq \in Nat /\ torqueState \in {-1, 0, 1}
  BY DEF Init
<1> QED
  BY <1>1, <1>2, <1>3, <1>4, <1>5, <1>6, <1>7, <1>8, <1>9 DEF TypeOK

\* The targets a cycle can choose are targets.
LEMMA TargetType ==
  ASSUME TypeOK
  PROVE  CycleTarget \in Target /\ CycleSafe \in Target /\ CycleSeq \in Nat
<1>1. UseCommand => ForCommand(snap.cmd) \in Target
  BY DEF TypeOK, UseCommand, Valid, Command, ForCommand, Target
<1>2. ForPose(pose) \in Target /\ NoTarget \in Target
  BY DEF TypeOK, ForPose, Target
<1>3. lastSafe \in Target
  BY DEF TypeOK
<1>4. CycleTarget \in Target
  BY <1>1, <1>2, <1>3 DEF CycleTarget
<1>5. CycleSafe \in Target
  BY <1>3, <1>4 DEF CycleSafe
<1>6. CycleSeq \in Nat
  BY DEF CycleSeq, TypeOK, Command
<1> QED
  BY <1>4, <1>5, <1>6

\* A worker step to a known place keeps the worker's record typed.
LEMMA MoveType ==
  ASSUME TypeOK, NEW from, NEW to \in WorkerPlace, WorkerMoves(from, to)
  PROVE  worker' \in [at : WorkerPlace, busy : 0 .. MaxSweep, rest : {0, 1}]
  BY DEF TypeOK, WorkerMoves

\* The position write leaves the cycle's copy behind and starts the sweep.
LEMMA SweepType ==
  ASSUME TypeOK, StartSweep
  PROVE  /\ worker' \in [at : WorkerPlace, busy : 0 .. MaxSweep, rest : {0, 1}]
         /\ snap' \in [cmd : Command, stale : BOOLEAN, due : BOOLEAN]
<1>1. PICK n \in 0 .. MaxSweep, r \in {0, 1} :
        worker' = [at |-> "sweep", busy |-> n, rest |-> r]
  BY DEF StartSweep
<1>2. "sweep" \in WorkerPlace
  BY DEF WorkerPlace
<1> QED
  BY <1>1, <1>2 DEF StartSweep, NoSnap, NoCommand, Command

\* Typing: every step of the worker, of time and of the node keeps the types.
LEMMA Typing == TypeOK /\ [Next]_vars => TypeOK'
<1> SUFFICES ASSUME TypeOK, [Next]_vars
             PROVE  TypeOK'
  OBVIOUS
<1> USE DEF sharedVars
<1>1. CASE WorkerStart \/ OpenPortFails
  BY <1>1, MoveType DEF WorkerStart, OpenPortFails, TypeOK, WorkerPlace
<1>2. CASE OpenPort \/ NextCycle
  BY <1>2, MoveType DEF OpenPort, NextCycle, TypeOK, WorkerPlace
<1>3. CASE WorkerExit
  BY <1>3, MoveType DEF WorkerExit, TypeOK, WorkerPlace
<1>4. CASE CycleStart \/ NoTorqueRequest \/ TorqueWriteFails
  BY <1>4, MoveType DEF CycleStart, NoTorqueRequest, TorqueWriteFails, TypeOK,
     WorkerPlace
<1>5. CASE TorqueCopy
  BY <1>5, MoveType DEF TorqueCopy, TypeOK, WorkerPlace
<1>6. CASE TorqueWritten
  BY <1>6, MoveType DEF TorqueWritten, TypeOK, WorkerPlace
<1>7. CASE TorqueAcknowledge
  BY <1>7, MoveType DEF TorqueAcknowledge, NoJob, TypeOK, WorkerPlace
<1>8. CASE CopyCommand
  <2>1. worker' \in [at : WorkerPlace, busy : 0 .. MaxSweep, rest : {0, 1}]
    BY <1>8, MoveType DEF CopyCommand, WorkerPlace
  <2>2. snap' \in [cmd : Command, stale : BOOLEAN, due : BOOLEAN]
    <3>1. PICK due \in {EveryCycleDue, TRUE} :
            snap' = [cmd   |-> command,
                     stale |-> command.seq = 0 \/ commandAge > CommandTimeout,
                     due   |-> due]
      BY <1>8 DEF CopyCommand
    <3>2. due \in BOOLEAN
      BY <3>1, Constants
    <3>3. (command.seq = 0 \/ commandAge > CommandTimeout) \in BOOLEAN
      OBVIOUS
    <3>4. command \in Command
      BY DEF TypeOK
    <3> QED
      BY <3>1, <3>2, <3>3, <3>4
  <2> QED
    BY <1>8, <2>1, <2>2 DEF CopyCommand, TypeOK
<1>9. CASE WriteTarget
  BY <1>9, SweepType, TargetType DEF WriteTarget, TypeOK
<1>10. CASE WriteFails \/ NoWrite
  BY <1>10, SweepType, TargetType DEF WriteFails, NoWrite, TypeOK
<1>11. CASE SweepDone
  <2>1. worker' \in [at : WorkerPlace, busy : 0 .. MaxSweep, rest : {0, 1}]
    BY <1>11, MoveType DEF SweepDone, WorkerPlace
  <2>2. PICK ok \in SUBSET Joints, p \in Poses :
          /\ pose' = p
          /\ seen' = seen \cup ok
          /\ feedback' \in [ready : {seen' = Joints},
                            age : IF seen' = Joints THEN AgeAfter(ok)
                                  ELSE {MaxFeedbackAge + 1}]
          /\ lastSafe' = IF seen' = Joints /\ lastSafe = NoTarget /\ StartupHold
                           THEN ForPose(p) ELSE lastSafe
    BY <1>11 DEF SweepDone
  <2>3. AgeAfter(ok) \subseteq Age
    BY Constants DEF AgeAfter, Age, TypeOK
  <2>4. MaxFeedbackAge + 1 \in Age
    BY Constants DEF Age
  <2>5. feedback' \in [ready : BOOLEAN, age : Age]
    BY <2>2, <2>3, <2>4
  <2>6. ForPose(p) \in Target
    BY DEF ForPose, Target
  <2>7. lastSafe' \in Target
    BY <2>2, <2>6 DEF TypeOK
  <2>8. seen' \subseteq Joints /\ pose' \in Poses
    BY <2>2 DEF TypeOK
  <2> QED
    BY <1>11, <2>1, <2>5, <2>7, <2>8 DEF SweepDone, TypeOK
<1>12. CASE Tick
  <2>1. worker' \in [at : WorkerPlace, busy : 0 .. MaxSweep, rest : {0, 1}]
    BY <1>12, Constants DEF Tick, TypeOK
  <2>2. commandAge' \in 0 .. (CommandTimeout + 1)
    BY <1>12, Constants DEF Tick, TypeOK, Older
  <2>3. feedback' \in [ready : BOOLEAN, age : Age]
    BY <1>12, Constants DEF Tick, TypeOK, Older, Age
  <2> QED
    BY <1>12, <2>1, <2>2, <2>3 DEF Tick, TypeOK
<1>13. CASE EnvStore
  <2>1. command' \in Command
    BY <1>13 DEF EnvStore, TypeOK, Command
  <2>2. commandAge' \in 0 .. (CommandTimeout + 1)
    BY <1>13, Constants DEF EnvStore
  <2> QED
    BY <1>13, <2>1, <2>2 DEF EnvStore, TypeOK
<1>14. CASE EnvTorqueRequest
  BY <1>14 DEF EnvTorqueRequest, busVars, TypeOK
<1>15. CASE EnvStop
  BY <1>15 DEF EnvStop, TypeOK
<1>16. CASE UNCHANGED vars
  BY <1>16 DEF vars, busVars, TypeOK
<1> QED
  BY <1>1, <1>2, <1>3, <1>4, <1>5, <1>6, <1>7, <1>8, <1>9, <1>10, <1>11, <1>12,
     <1>13, <1>14, <1>15, <1>16 DEF Next, Worker, Env

-----------------------------------------------------------------------------
(***************************************************************************)
(* The torque handshake.                                                   *)
(***************************************************************************)

TorqueInv == TypeOK /\ TorqueInOrder /\ TorqueAckIsTruthful

\* No step of the worker or of a client breaks the order of the three torque
\* sequence numbers or makes an acknowledgement untrue.
LEMMA TorqueStep == TorqueInv /\ [Next]_vars => TorqueInv'
<1> SUFFICES ASSUME TorqueInv, [Next]_vars
             PROVE  (TorqueInOrder /\ TorqueAckIsTruthful)'
  BY Typing DEF TorqueInv
<1>0. TypeOK /\ TypeOK'
  BY Typing DEF TorqueInv
<1> USE DEF TorqueInOrder, TorqueAckIsTruthful, TorqueBusy
<1>1. CASE TorqueCopy
  BY <1>0, <1>1 DEF TorqueInv, TorqueCopy, WorkerMoves, TypeOK, sharedVars
<1>2. CASE TorqueWritten
  BY <1>0, <1>2 DEF TorqueInv, TorqueWritten, WorkerMoves, TypeOK, sharedVars
<1>3. CASE TorqueWriteFails
  BY <1>0, <1>3 DEF TorqueInv, TorqueWriteFails, WorkerMoves, TypeOK, sharedVars
<1>4. CASE TorqueAcknowledge
  BY <1>0, <1>4 DEF TorqueInv, TorqueAcknowledge, WorkerMoves, TypeOK
<1>5. CASE EnvTorqueRequest
  <2>1. PICK e \in BOOLEAN :
          torqueReq' = [enabled |-> e, seq |-> torqueReq.seq + 1]
    BY <1>5 DEF EnvTorqueRequest
  <2>2. UNCHANGED <<torqueAck, worker, job, torqueState>>
    BY <1>5 DEF EnvTorqueRequest, busVars
  <2> QED
    BY <1>0, <2>1, <2>2 DEF TorqueInv, TypeOK
<1>6. CASE \/ WorkerStart \/ OpenPort \/ OpenPortFails \/ NextCycle \/ WorkerExit
           \/ CycleStart \/ NoTorqueRequest \/ CopyCommand \/ SweepDone
  <2>1. UNCHANGED <<torqueReq, torqueAck, job, torqueState>>
    BY <1>6 DEF WorkerStart, OpenPort, OpenPortFails, NextCycle, WorkerExit,
       CycleStart, NoTorqueRequest, CopyCommand, SweepDone, sharedVars
  <2>2. worker'.at \notin {"torqueWrite", "torqueAck"}
    BY <1>0, <1>6 DEF WorkerStart, OpenPort, OpenPortFails, NextCycle, WorkerExit,
       CycleStart, NoTorqueRequest, CopyCommand, SweepDone, WorkerMoves, TypeOK
  <2> QED
    BY <2>1, <2>2 DEF TorqueInv
<1>7. CASE WriteTarget \/ WriteFails \/ NoWrite
  <2>1. UNCHANGED <<torqueReq, torqueAck, job, torqueState>>
    BY <1>7 DEF WriteTarget, WriteFails, NoWrite, sharedVars
  <2>2. worker'.at = "sweep"
    BY <1>7 DEF WriteTarget, WriteFails, NoWrite, StartSweep
  <2> QED
    BY <2>1, <2>2 DEF TorqueInv
<1>8. CASE Tick \/ EnvStore \/ EnvStop \/ UNCHANGED vars
  <2>1. UNCHANGED <<torqueReq, torqueAck, job, torqueState>>
    BY <1>8 DEF Tick, EnvStore, EnvStop, vars, sharedVars, busVars
  <2>2. worker'.at = worker.at
    BY <1>0, <1>8 DEF Tick, EnvStore, EnvStop, vars, sharedVars, busVars, TypeOK
  <2> QED
    BY <2>1, <2>2 DEF TorqueInv
<1> QED
  BY <1>1, <1>2, <1>3, <1>4, <1>5, <1>6, <1>7, <1>8 DEF Next, Worker, Env

-----------------------------------------------------------------------------
(***************************************************************************)
(* The order of the position targets.                                      *)
(***************************************************************************)

TargetInv ==
  /\ TypeOK
  /\ TargetsInOrder
  /\ WrittenInOrder
  /\ WrittenSeqNeverAhead

\* A command target has the positive number of a stored command.
LEMMA CommandTarget ==
  ASSUME NEW t \in Target, t.kind = "command"
  PROVE  t.seq \in Nat \ {0}
<1>1. CASE t \in [kind : {"command"}, seq : Nat \ {0}]
  BY <1>1
<1>2. CASE t \in [kind : {"pose"}, pose : Poses]
  BY <1>2
<1>3. CASE t = NoTarget
  BY <1>3 DEF NoTarget
<1> QED
  BY <1>1, <1>2, <1>3 DEF Target

\* What a cycle chooses: a command from its copy, the measured pose only as
\* long as nobody has commanded anything, or the last safe target.
LEMMA Choice ==
  ASSUME TypeOK, CycleTarget # NoTarget
  PROVE  \/ /\ UseCommand /\ snap.cmd.seq > 0
            /\ CycleTarget = ForCommand(snap.cmd) /\ CycleSafe = CycleTarget
            /\ CycleSeq = snap.cmd.seq
         \/ /\ snap.cmd.seq = 0
            /\ CycleTarget = ForPose(pose) /\ CycleSafe = CycleTarget
            /\ CycleSeq = 0
         \/ /\ CycleTarget = lastSafe /\ CycleSafe = lastSafe
            /\ CycleSeq = writtenSeq
<1>1. MayWrite
  BY DEF CycleTarget
<1>2. CASE UseCommand
  BY <1>1, <1>2 DEF CycleTarget, CycleSafe, CycleSeq, UseCommand, Valid
<1>3. CASE ~UseCommand /\ UseMeasured
  <2>1. snap.cmd.seq = 0
    BY <1>3 DEF UseMeasured, Valid, TypeOK, Command
  <2> QED
    BY <1>1, <1>3, <2>1 DEF CycleTarget, CycleSafe, CycleSeq
<1>4. CASE ~UseCommand /\ ~UseMeasured
  BY <1>1, <1>4 DEF CycleTarget, CycleSafe, CycleSeq
<1> QED
  BY <1>2, <1>3, <1>4

\* The safe target a cycle leaves is between the last safe target and the copy.
LEMMA SafeChoice ==
  ASSUME TargetInv, worker.at = "write"
  PROVE  /\ CycleSafe.kind = "command" => CycleSafe.seq <= command.seq
         /\ servoGoal.kind = "command"
              => CycleSafe.kind = "command" /\ servoGoal.seq <= CycleSafe.seq
<1>1. CASE CycleTarget = NoTarget
  <2>1. ForCommand(snap.cmd) # NoTarget /\ ForPose(pose) # NoTarget
    BY DEF ForCommand, ForPose, NoTarget
  <2>2. CycleSafe = lastSafe
    BY <1>1, <2>1 DEF CycleSafe, CycleTarget
  <2> QED
    BY <2>2 DEF TargetInv, TargetsInOrder
<1>2. CASE CycleTarget # NoTarget
  <2>0. /\ command.seq \in Nat /\ snap.cmd.seq \in Nat
        /\ lastSafe.kind = "command" => lastSafe.seq \in Nat \ {0}
        /\ servoGoal.kind = "command" => servoGoal.seq \in Nat \ {0}
    BY CommandTarget DEF TargetInv, TypeOK, Command
  <2>1. CASE CycleSafe = ForCommand(snap.cmd)
    BY <2>0, <2>1 DEF TargetInv, TargetsInOrder, ForCommand
  <2>2. CASE CycleSafe = ForPose(pose) /\ snap.cmd.seq = 0
    <3>1. lastSafe.kind # "command"
      BY <2>0, <2>2 DEF TargetInv, TargetsInOrder
    <3> QED
      BY <2>2, <3>1 DEF TargetInv, TargetsInOrder, ForPose
  <2>3. CASE CycleSafe = lastSafe
    BY <2>3 DEF TargetInv, TargetsInOrder
  <2> QED
    BY <1>2, <2>1, <2>2, <2>3, Choice DEF TargetInv
<1> QED
  BY <1>1, <1>2

\* A write, successful or not, or its omission.
LEMMA WriteStep ==
  ASSUME TargetInv, WriteTarget \/ WriteFails \/ NoWrite
  PROVE  (TargetsInOrder /\ WrittenInOrder /\ WrittenSeqNeverAhead)'
<1>1. worker.at = "write" /\ worker'.at = "sweep"
  BY DEF WriteTarget, WriteFails, NoWrite, StartSweep
<1>2. command' = command /\ lastSafe' = CycleSafe
  BY DEF WriteTarget, WriteFails, NoWrite, sharedVars
<1>3. CASE WriteFails \/ NoWrite
  <2>1. UNCHANGED <<servoGoal, lastWritten, writtenSeq>>
    BY <1>3 DEF WriteFails, NoWrite
  <2> QED
    BY <1>1, <1>2, <2>1, SafeChoice
       DEF TargetInv, TargetsInOrder, WrittenInOrder, WrittenSeqNeverAhead
<1>4. CASE WriteTarget
  <2>0. /\ command.seq \in Nat /\ snap.cmd.seq \in Nat /\ writtenSeq \in Nat
        /\ lastSafe.kind = "command" => lastSafe.seq \in Nat \ {0}
        /\ lastWritten.kind = "command" => lastWritten.seq \in Nat \ {0}
    BY CommandTarget DEF TargetInv, TypeOK, Command
  <2>1. /\ CycleTarget # NoTarget /\ lastWritten' = CycleTarget
        /\ servoGoal' = CycleTarget /\ writtenSeq' = CycleSeq
    BY <1>4 DEF WriteTarget
  <2>2. WrittenInOrder' /\ WrittenSeqNeverAhead'
    <3>1. CASE CycleTarget = ForCommand(snap.cmd) /\ CycleSeq = snap.cmd.seq
      BY <2>0, <2>1, <3>1 DEF WrittenInOrder, WrittenSeqNeverAhead, ForCommand
    <3>2. CASE CycleTarget = ForPose(pose) /\ CycleSeq = 0
      BY <2>1, <3>2 DEF WrittenInOrder, WrittenSeqNeverAhead, ForPose
    <3>3. CASE CycleTarget = lastSafe /\ CycleSeq = writtenSeq
      BY <2>0, <2>1, <3>3 DEF TargetInv, TargetsInOrder, WrittenInOrder,
         WrittenSeqNeverAhead
    <3> QED
      BY <2>1, <3>1, <3>2, <3>3, Choice DEF TargetInv
  <2>3. CycleSafe = CycleTarget
    BY <2>1, Choice DEF TargetInv
  <2>4. CycleSafe.kind = "command" => CycleSafe.seq \in Nat
    BY CommandTarget, TargetType DEF TargetInv
  <2> QED
    BY <1>1, <1>2, <2>1, <2>2, <2>3, <2>4, SafeChoice DEF TargetsInOrder
<1> QED
  BY <1>3, <1>4

\* No step moves a target ahead of the one it was taken from.
LEMMA TargetStep == TargetInv /\ [Next]_vars => TargetInv'
<1> SUFFICES ASSUME TargetInv, [Next]_vars
             PROVE  (TargetsInOrder /\ WrittenInOrder /\ WrittenSeqNeverAhead)'
  BY Typing DEF TargetInv
<1>0. TypeOK /\ TypeOK'
  BY Typing DEF TargetInv
<1>1. CASE WriteTarget \/ WriteFails \/ NoWrite
  BY <1>1, WriteStep
<1> USE DEF TargetsInOrder, WrittenInOrder, WrittenSeqNeverAhead
<1>2. CASE CopyCommand
  <2>1. snap'.cmd = command
    BY <1>2 DEF CopyCommand
  <2>2. UNCHANGED <<command, lastSafe, lastWritten, writtenSeq, servoGoal>>
    BY <1>2 DEF CopyCommand, sharedVars
  <2> QED
    BY <1>0, <2>1, <2>2 DEF TargetInv, TypeOK, Command
<1>3. CASE SweepDone
  <2>1. worker'.at = "head"
    BY <1>0, <1>3 DEF SweepDone, WorkerMoves, TypeOK
  <2>2. UNCHANGED <<command, lastWritten, writtenSeq, servoGoal>>
    BY <1>3 DEF SweepDone
  <2>3. lastSafe' = lastSafe \/ (lastSafe = NoTarget /\ lastSafe'.kind = "pose")
    <3>1. PICK ok \in SUBSET Joints, p \in Poses :
            lastSafe' = IF seen' = Joints /\ lastSafe = NoTarget /\ StartupHold
                          THEN ForPose(p) ELSE lastSafe
      BY <1>3 DEF SweepDone
    <3>2. ForPose(p).kind = "pose"
      BY DEF ForPose
    <3>3. CASE seen' = Joints /\ lastSafe = NoTarget /\ StartupHold
      BY <3>1, <3>2, <3>3
    <3>4. CASE ~(seen' = Joints /\ lastSafe = NoTarget /\ StartupHold)
      BY <3>1, <3>4
    <3> QED
      BY <3>3, <3>4
  <2> QED
    BY <2>1, <2>2, <2>3 DEF TargetInv, NoTarget
<1>4. CASE EnvStore
  <2>1. command'.seq = command.seq + 1
    BY <1>4 DEF EnvStore
  <2>2. UNCHANGED <<worker, snap, lastSafe, lastWritten, writtenSeq, servoGoal>>
    BY <1>4 DEF EnvStore
  <2>3. /\ command.seq \in Nat /\ snap.cmd.seq \in Nat
        /\ lastSafe.kind = "command" => lastSafe.seq \in Nat
    BY <1>0, CommandTarget DEF TypeOK, Command
  <2> QED
    BY <2>1, <2>2, <2>3 DEF TargetInv
<1>5. CASE \/ WorkerStart \/ OpenPort \/ OpenPortFails \/ NextCycle \/ WorkerExit
           \/ CycleStart \/ NoTorqueRequest \/ TorqueCopy \/ TorqueWritten
           \/ TorqueWriteFails \/ TorqueAcknowledge
  <2>1. UNCHANGED <<command, snap, lastSafe, lastWritten, writtenSeq, servoGoal>>
    BY <1>5 DEF WorkerStart, OpenPort, OpenPortFails, NextCycle, WorkerExit,
       CycleStart, NoTorqueRequest, TorqueCopy, TorqueWritten, TorqueWriteFails,
       TorqueAcknowledge, sharedVars
  <2>2. worker'.at # "write"
    BY <1>0, <1>5 DEF WorkerStart, OpenPort, OpenPortFails, NextCycle, WorkerExit,
       CycleStart, NoTorqueRequest, TorqueCopy, TorqueWritten, TorqueWriteFails,
       TorqueAcknowledge, WorkerMoves, TypeOK
  <2> QED
    BY <2>1, <2>2 DEF TargetInv
<1>6. CASE Tick \/ EnvTorqueRequest \/ EnvStop \/ UNCHANGED vars
  <2>1. UNCHANGED <<command, snap, lastSafe, lastWritten, writtenSeq, servoGoal>>
    BY <1>6 DEF Tick, EnvTorqueRequest, EnvStop, vars, sharedVars, busVars
  <2>2. worker'.at = worker.at
    BY <1>0, <1>6 DEF Tick, EnvTorqueRequest, EnvStop, vars, sharedVars, busVars,
       TypeOK
  <2> QED
    BY <2>1, <2>2 DEF TargetInv
<1> QED
  BY <1>1, <1>2, <1>3, <1>4, <1>5, <1>6 DEF Next, Worker, Env

-----------------------------------------------------------------------------

\* The starting state.
LEMMA InitInv == Init => BusInv
<1>1. Init => TypeOK
  BY InitType
<1>2. Init => TorqueInOrder /\ TorqueAckIsTruthful
  BY DEF Init, TorqueInOrder, TorqueAckIsTruthful, TorqueBusy, NoJob
<1>3. Init => TargetsInOrder /\ WrittenInOrder /\ WrittenSeqNeverAhead
  BY DEF Init, TargetsInOrder, WrittenInOrder, WrittenSeqNeverAhead, NoTarget
<1> QED
  BY <1>1, <1>2, <1>3 DEF BusInv

\* Every step of the worker and of its environment keeps BusInv.
LEMMA Inductive == BusInv /\ [Next]_vars => BusInv'
  BY TorqueStep, TargetStep DEF BusInv, TorqueInv, TargetInv

\* BusInv is an invariant of the worker, whatever its environment stores or asks.
THEOREM Invariance == Spec => []BusInv
  BY InitInv, Inductive, PTL DEF Spec

\* Type correctness of the bus worker.
THEOREM TypeCorrect == Spec => []TypeOK
<1>1. BusInv => TypeOK
  BY DEF BusInv
<1> QED
  BY <1>1, Invariance, PTL

\* A successful acknowledgement of the newest torque request is true: the last
\* broadcast on the bus carried its value.
THEOREM TorqueAckTruthful == Spec => []TorqueAckIsTruthful
<1>1. BusInv => TorqueAckIsTruthful
  BY DEF BusInv
<1> QED
  BY <1>1, Invariance, PTL

\* written_command_sequence never claims a newer command than the written one.
THEOREM WrittenSeqBounded == Spec => []WrittenSeqNeverAhead
<1>1. BusInv => WrittenSeqNeverAhead
  BY DEF BusInv
<1> QED
  BY <1>1, Invariance, PTL

\* The goal registers never go back to an older command or to a start-up pose.
THEOREM GoalMonotonic == Spec => GoalNeverGoesBack
<1>1. BusInv /\ [Next]_vars =>
        [servoGoal.kind = "command" =>
           servoGoal'.kind = "command" /\ servoGoal'.seq >= servoGoal.seq]_vars
  <2> SUFFICES ASSUME BusInv, Next, servoGoal.kind = "command"
               PROVE  servoGoal'.kind = "command" /\ servoGoal'.seq >= servoGoal.seq
    BY DEF vars
  <2>0. TargetInv /\ servoGoal.seq \in Nat
    BY CommandTarget DEF BusInv, TargetInv, TypeOK
  <2>1. CASE WriteTarget
    <3>1. worker.at = "write" /\ servoGoal' = CycleTarget /\ CycleTarget # NoTarget
      BY <2>1 DEF WriteTarget, StartSweep
    <3>2. CycleSafe = CycleTarget
      BY <2>0, <3>1, Choice DEF TargetInv
    <3>3. CycleTarget.kind = "command" => CycleTarget.seq \in Nat
      BY <2>0, CommandTarget, TargetType DEF TargetInv
    <3> QED
      BY <2>0, <3>1, <3>2, <3>3, SafeChoice
  <2>2. CASE servoGoal' = servoGoal
    BY <2>0, <2>2
  <2>3. ~WriteTarget => servoGoal' = servoGoal
    BY DEF Next, Worker, Env, Tick, EnvStore, EnvTorqueRequest, EnvStop, WorkerStart,
       OpenPort, OpenPortFails, NextCycle, WorkerExit, CycleStart, NoTorqueRequest,
       TorqueCopy, TorqueWritten, TorqueWriteFails, TorqueAcknowledge, CopyCommand,
       WriteFails, NoWrite, SweepDone, busVars, sharedVars
  <2> QED
    BY <2>1, <2>2, <2>3
<1> QED
  BY <1>1, Invariance, PTL DEF Spec, GoalNeverGoesBack
=============================================================================
