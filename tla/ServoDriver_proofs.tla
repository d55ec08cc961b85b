--------------------------- MODULE ServoDriver_proofs ---------------------------
(***************************************************************************)
(* Proofs about ServoDriver, for every ramp length, sweep length, bound    *)
(* and setting of the parameters.                                          *)
(*                                                                         *)
(* The components' invariants were proved under the environments they      *)
(* assume.  Here every step of the composition is shown to be a step each  *)
(* component allows, so that both invariants hold of the whole driver, and *)
(* what depends on both components follows from them.                      *)
(***************************************************************************)
EXTENDS ServoDriver, TLAPS

\* The components with what was proved about them.
NodeP == INSTANCE DriverNode_proofs
BusP == INSTANCE ServoBus_proofs WITH MaxStores <- Stores

-----------------------------------------------------------------------------
(***************************************************************************)
(* The components' results in the terms of ServoDriver's instances.  The   *)
(* two instances of a component are the same formulas, which the provers   *)
(* see once every definition is expanded.                                  *)
(***************************************************************************)

\* The constants meet the components' assumptions.
LEMMA NodeConstants == NodeP!NodeAssumption
  BY DriverAssumption DEF NodeP!NodeAssumption

LEMMA BusConstants == BusP!BusAssumption
<1>1. BusP!IsFiniteSet(Joints)
  BY DriverAssumption DEF IsFiniteSet, BusP!IsFiniteSet
<1>2. Stores \in Nat
  BY DriverAssumption DEF Stores
<1> QED
  BY <1>1, <1>2, DriverAssumption DEF BusP!BusAssumption

LEMMA SameNodeInv == NodeP!IInv <=> Node!IInv
  BY DEF NodeP!IInv, Node!IInv, NodeP!TypeOK, Node!TypeOK, NodeP!FlagsCoverRamp,
         Node!FlagsCoverRamp, NodeP!StopIsJoined, Node!StopIsJoined, NodeP!ReadsHold,
         Node!ReadsHold, NodeP!RampHistory, Node!RampHistory, NodeP!HeldIsFrozen,
         Node!HeldIsFrozen, NodeP!RampPlace, Node!RampPlace, NodeP!Op, Node!Op, NodeP!Place,
         Node!Place, NodeP!Command, Node!Command, NodeP!Age, Node!Age, NodeP!RampOwns,
         Node!RampOwns, NodeP!Joinable, Node!Joinable, NodeP!At, Node!At, NodeP!Source,
         Node!Source

LEMMA SameNodeInit == NodeP!Init <=> Node!Init
  BY DEF NodeP!Init, Node!Init, NodeP!NoRamp, Node!NoRamp, NodeP!Idle, Node!Idle,
         NodeP!NoCommand, Node!NoCommand, NodeP!NotHeld, Node!NotHeld

LEMMA SameNodeStep == [NodeP!Next]_(NodeP!vars) <=> [Node!Next]_(Node!vars)
  BY DEF NodeP!Next, Node!Next, NodeP!vars, Node!vars, NodeP!Executor, Node!Executor,
         NodeP!Ramp, Node!Ramp, NodeP!Env, Node!Env, NodeP!Terminated, Node!Terminated,
         NodeP!nodeVars, Node!nodeVars, NodeP!sharedVars, Node!sharedVars,
         NodeP!TargetAccepted, Node!TargetAccepted, NodeP!TargetStore, Node!TargetStore,
         NodeP!MoveAccepted, Node!MoveAccepted, NodeP!MoveSpawn, Node!MoveSpawn,
         NodeP!ReleaseAccepted, Node!ReleaseAccepted, NodeP!ReleaseClear, Node!ReleaseClear,
         NodeP!HoldStop, Node!HoldStop, NodeP!HoldLatch, Node!HoldLatch, NodeP!DisableStop,
         Node!DisableStop, NodeP!DisableOverride, Node!DisableOverride, NodeP!EnableStop,
         Node!EnableStop, NodeP!EnableSeed, Node!EnableSeed, NodeP!EnableWake,
         Node!EnableWake, NodeP!TorqueRequest, Node!TorqueRequest, NodeP!TorqueReply,
         Node!TorqueReply, NodeP!TorqueTimeout, Node!TorqueTimeout, NodeP!AbortReadRunning,
         Node!AbortReadRunning, NodeP!AbortReadOverride, Node!AbortReadOverride,
         NodeP!AbortStop, Node!AbortStop, NodeP!AbortLatch, Node!AbortLatch,
         NodeP!ShutdownStop, Node!ShutdownStop, NodeP!ShutdownJoin, Node!ShutdownJoin,
         NodeP!RampStore, Node!RampStore, NodeP!RampWake, Node!RampWake, NodeP!RampLoopExit,
         Node!RampLoopExit, NodeP!RampCheck, Node!RampCheck, NodeP!RampGoal, Node!RampGoal,
         NodeP!RampAbort, Node!RampAbort, NodeP!RampClear, Node!RampClear,
         NodeP!RampRelease, Node!RampRelease, NodeP!EnvFeedback, Node!EnvFeedback,
         NodeP!EnvTorque, Node!EnvTorque, NodeP!EnvBus, Node!EnvBus, NodeP!At, Node!At,
         NodeP!CanStore, Node!CanStore, NodeP!Starts, Node!Starts, NodeP!Store, Node!Store,
         NodeP!Idle, Node!Idle, NodeP!FreshFeedback, Node!FreshFeedback, NodeP!Joinable,
         Node!Joinable, NodeP!NotHeld, Node!NotHeld, NodeP!NoRamp, Node!NoRamp, NodeP!Latch,
         Node!Latch, NodeP!GoTo, Node!GoTo, NodeP!RampMoves, Node!RampMoves, NodeP!Age,
         Node!Age, NodeP!NoCommand, Node!NoCommand

LEMMA SameBusInv == BusP!BusInv <=> Bus!BusInv
  BY DEF BusP!BusInv, Bus!BusInv, BusP!TypeOK, Bus!TypeOK, BusP!TorqueInOrder,
         Bus!TorqueInOrder, BusP!TorqueAckIsTruthful, Bus!TorqueAckIsTruthful,
         BusP!TargetsInOrder, Bus!TargetsInOrder, BusP!WrittenInOrder, Bus!WrittenInOrder,
         BusP!WrittenSeqNeverAhead, Bus!WrittenSeqNeverAhead, BusP!Command, Bus!Command,
         BusP!Age, Bus!Age, BusP!WorkerPlace, Bus!WorkerPlace, BusP!Target, Bus!Target,
         BusP!TorqueBusy, Bus!TorqueBusy, BusP!NoTarget, Bus!NoTarget

LEMMA SameBusInit == BusP!Init <=> Bus!Init
  BY DEF BusP!Init, Bus!Init, BusP!NoCommand, Bus!NoCommand, BusP!NoJob, Bus!NoJob,
         BusP!NoSnap, Bus!NoSnap, BusP!NoTarget, Bus!NoTarget

LEMMA SameBusStep == [BusP!Next]_(BusP!vars) <=> [Bus!Next]_(Bus!vars)
  BY DEF BusP!Next, Bus!Next, BusP!vars, Bus!vars, BusP!Worker, Bus!Worker, BusP!Tick,
         Bus!Tick, BusP!Env, Bus!Env, BusP!sharedVars, Bus!sharedVars, BusP!busVars,
         Bus!busVars, BusP!WorkerStart, Bus!WorkerStart, BusP!OpenPort, Bus!OpenPort,
         BusP!OpenPortFails, Bus!OpenPortFails, BusP!NextCycle, Bus!NextCycle,
         BusP!WorkerExit, Bus!WorkerExit, BusP!CycleStart, Bus!CycleStart,
         BusP!NoTorqueRequest, Bus!NoTorqueRequest, BusP!TorqueCopy, Bus!TorqueCopy,
         BusP!TorqueWritten, Bus!TorqueWritten, BusP!TorqueWriteFails, Bus!TorqueWriteFails,
         BusP!TorqueAcknowledge, Bus!TorqueAcknowledge, BusP!CopyCommand, Bus!CopyCommand,
         BusP!WriteTarget, Bus!WriteTarget, BusP!WriteFails, Bus!WriteFails, BusP!NoWrite,
         Bus!NoWrite, BusP!SweepDone, Bus!SweepDone, BusP!Older, Bus!Older, BusP!EnvStore,
         Bus!EnvStore, BusP!EnvTorqueRequest, Bus!EnvTorqueRequest, BusP!EnvStop,
         Bus!EnvStop, BusP!WorkerMoves, Bus!WorkerMoves, BusP!NoJob, Bus!NoJob,
         BusP!CycleTarget, Bus!CycleTarget, BusP!NoTarget, Bus!NoTarget, BusP!StartSweep,
         Bus!StartSweep, BusP!CycleSafe, Bus!CycleSafe, BusP!CycleSeq, Bus!CycleSeq,
         BusP!AgeAfter, Bus!AgeAfter, BusP!ForPose, Bus!ForPose, BusP!MayWrite,
         Bus!MayWrite, BusP!UseCommand, Bus!UseCommand, BusP!ForCommand, Bus!ForCommand,
         BusP!UseMeasured, Bus!UseMeasured, BusP!NoSnap, Bus!NoSnap, BusP!Age, Bus!Age,
         BusP!Valid, Bus!Valid, BusP!NoCommand, Bus!NoCommand

\* What DriverNode_proofs and ServoBus_proofs say of the parts of the driver.
LEMMA NodeStarts == Node!Init => Node!IInv
  BY NodeConstants, SameNodeInv, SameNodeInit, NodeP!InitIInv

LEMMA NodeKeeps == Node!IInv /\ [Node!Next]_(Node!vars) => Node!IInv'
  BY NodeConstants, SameNodeInv, SameNodeStep, NodeP!Inductive, PTL

LEMMA BusStarts == Bus!Init => Bus!BusInv
  BY BusConstants, SameBusInv, SameBusInit, BusP!InitInv

LEMMA BusKeeps == Bus!BusInv /\ [Bus!Next]_(Bus!vars) => Bus!BusInv'
  BY BusConstants, SameBusInv, SameBusStep, BusP!Inductive, PTL

-----------------------------------------------------------------------------
(***************************************************************************)
(* What a step of the driver is to the node and to the bus.                *)
(***************************************************************************)

NodeActs == Node!Executor \/ Node!Ramp

\* A step of the driver is a step of the node with what comes with it, a step of the
\* bus worker, the stop of the bus, or a tick.
LEMMA Kinds ==
  ASSUME Next
  PROVE  \/ NodeActs /\ NodeKeepsBus
         \/ StopBus \/ WorkerStep \/ Tick
  BY DEF Next, NodeStep, NapEnds, TorqueAnswered, TorqueGivenUp, BlockedNode,
         NodeActs, Node!Executor

\* The node's own steps leave the bus worker's part of the shared state alone, and
\* change one mailbox at a time: a command is stored, or torque is requested.
LEMMA NodeWrites ==
  ASSUME NodeActs
  PROVE  /\ UNCHANGED <<feedback, torqueAck, busRunning>>
         /\ \/ UNCHANGED <<command, torqueReq>>
            \/ /\ \E src \in {"external", "measured", "ramp", "goal"} : Node!Store(src)
               /\ UNCHANGED torqueReq
            \/ Node!TorqueRequest
<1>1. CASE Node!Ramp
  BY <1>1 DEF Node!Ramp, Node!RampStore, Node!RampWake, Node!RampLoopExit, Node!RampCheck,
     Node!RampGoal, Node!RampAbort, Node!RampClear, Node!RampRelease, Node!sharedVars
<1>2. CASE Node!Executor /\ ~Node!TorqueRequest
  BY <1>2 DEF Node!Executor, Node!TargetAccepted, Node!TargetStore, Node!MoveAccepted,
     Node!MoveSpawn, Node!ReleaseAccepted, Node!ReleaseClear, Node!HoldStop,
     Node!HoldLatch, Node!DisableStop, Node!DisableOverride, Node!EnableStop,
     Node!EnableSeed, Node!EnableWake, Node!TorqueReply, Node!TorqueTimeout,
     Node!AbortReadRunning, Node!AbortReadOverride, Node!AbortStop, Node!AbortLatch,
     Node!ShutdownStop, Node!ShutdownJoin, Node!sharedVars
<1>3. CASE Node!TorqueRequest
  BY <1>3 DEF Node!TorqueRequest
<1> QED
  BY <1>1, <1>2, <1>3 DEF NodeActs

\* The worker's steps change the shared state only as the node's environment may.
LEMMA WorkerWrites ==
  ASSUME DriverInv, Bus!Worker
  PROVE  /\ UNCHANGED <<command, torqueReq>>
         /\ \/ UNCHANGED <<feedback, torqueAck>>
            \/ /\ \E s \in (torqueAck.seq + 1) .. torqueReq.seq, ok \in BOOLEAN :
                    torqueAck' = [seq |-> s, ok |-> ok]
               /\ UNCHANGED <<feedback, busRunning>>
            \/ /\ feedback' \in [ready : {feedback.ready, TRUE}, age : Bus!Age]
               /\ UNCHANGED <<torqueAck, busRunning>>
<1>1. CASE Bus!TorqueAcknowledge
  <2>1. /\ torqueAck.seq < job.seq /\ job.seq <= torqueReq.seq
        /\ torqueAck.seq \in Nat /\ job.seq \in Nat /\ torqueReq.seq \in Nat
        /\ job.ok \in BOOLEAN
    BY <1>1 DEF DriverInv, Bus!BusInv, Bus!TypeOK, Bus!TorqueInOrder, Bus!TorqueBusy,
       Bus!TorqueAcknowledge, Bus!WorkerMoves
  <2>2. job.seq \in (torqueAck.seq + 1) .. torqueReq.seq
    BY <2>1
  <2> QED
    BY <1>1, <2>1, <2>2 DEF Bus!TorqueAcknowledge
<1>2. CASE Bus!SweepDone
  <2>1. PICK ok \in SUBSET Joints, p \in Poses :
          /\ seen' = seen \cup ok
          /\ feedback' \in [ready : {seen' = Joints},
                            age : IF seen' = Joints THEN Bus!AgeAfter(ok)
                                  ELSE {MaxFeedbackAge + 1}]
    BY <1>2 DEF Bus!SweepDone
  <2>2. feedback.ready \in BOOLEAN /\ feedback.age \in Bus!Age /\ seen \subseteq Joints
    BY DEF DriverInv, Bus!BusInv, Bus!TypeOK
  <2>3. feedback.ready => seen' = Joints
    BY <2>1, <2>2 DEF DriverInv, WorkerIsThere
  <2>4. Bus!AgeAfter(ok) \subseteq Bus!Age /\ MaxFeedbackAge + 1 \in Bus!Age
    BY <2>2, DriverAssumption DEF Bus!AgeAfter, Bus!Age
  <2>5. feedback'.ready \in {feedback.ready, TRUE} /\ feedback'.age \in Bus!Age
    BY <2>1, <2>2, <2>3, <2>4
  <2>6. feedback' \in [ready : {feedback.ready, TRUE}, age : Bus!Age]
    BY <2>1, <2>5
  <2> QED
    BY <1>2, <2>6 DEF Bus!SweepDone
<1>3. CASE Bus!Worker /\ ~Bus!TorqueAcknowledge /\ ~Bus!SweepDone
  BY <1>3 DEF Bus!Worker, Bus!WorkerStart, Bus!OpenPort, Bus!OpenPortFails, Bus!NextCycle,
     Bus!WorkerExit, Bus!CycleStart, Bus!NoTorqueRequest, Bus!TorqueCopy,
     Bus!TorqueWritten, Bus!TorqueWriteFails, Bus!CopyCommand, Bus!WriteTarget,
     Bus!WriteFails, Bus!NoWrite, Bus!sharedVars
<1> QED
  BY <1>1, <1>2, <1>3

\* A tick of the bus ages the feedback.
LEMMA TickWrites ==
  ASSUME DriverInv, Bus!Tick
  PROVE  /\ UNCHANGED <<command, torqueReq, torqueAck, busRunning>>
         /\ feedback' \in [ready : {feedback.ready, TRUE}, age : Bus!Age]
<1>1. feedback \in [ready : BOOLEAN, age : Bus!Age]
  BY DEF DriverInv, Bus!BusInv, Bus!TypeOK
<1>2. Bus!Older(feedback.age, MaxFeedbackAge + 1) \in Bus!Age
  BY <1>1, DriverAssumption DEF Bus!Older, Bus!Age
<1>3. feedback' = [feedback EXCEPT !.age = Bus!Older(feedback.age, MaxFeedbackAge + 1)]
  BY DEF Bus!Tick
<1>4. feedback' \in [ready : {feedback.ready, TRUE}, age : Bus!Age]
  BY <1>1, <1>2, <1>3
<1> QED
  BY <1>4 DEF Bus!Tick

\* To the node, every step of the driver is its own or one of its environment.
LEMMA NodePart == DriverInv /\ [Next]_vars => [Node!Next]_(Node!vars)
<1> SUFFICES ASSUME DriverInv, Next
             PROVE  Node!Next \/ UNCHANGED Node!vars
  BY DEF vars, nodeVars, Node!vars, Node!nodeVars, Node!sharedVars
<1>1. CASE NodeActs
  BY <1>1 DEF NodeActs, Node!Next
<1>2. CASE StopBus
  BY <1>2 DEF StopBus, Bus!EnvStop, Bus!sharedVars, nodeVars, Node!vars, Node!nodeVars,
     Node!sharedVars
<1>3. CASE WorkerStep
  <2>1. UNCHANGED Node!nodeVars /\ Bus!Worker
    BY <1>3 DEF WorkerStep, nodeVars, Node!nodeVars
  <2>2. busRunning \in BOOLEAN /\ busRunning' \in BOOLEAN
    <3>1. busRunning \in BOOLEAN
      BY DEF DriverInv, Bus!BusInv, Bus!TypeOK
    <3> QED
      BY <2>1, <3>1 DEF Bus!Worker, Bus!WorkerStart, Bus!OpenPort, Bus!OpenPortFails,
         Bus!NextCycle, Bus!WorkerExit, Bus!CycleStart, Bus!NoTorqueRequest,
         Bus!TorqueCopy, Bus!TorqueWritten, Bus!TorqueWriteFails, Bus!TorqueAcknowledge,
         Bus!CopyCommand, Bus!WriteTarget, Bus!WriteFails, Bus!NoWrite, Bus!SweepDone,
         Bus!sharedVars
  <2>3. busRunning' = busRunning \/ busRunning' = ~busRunning
    BY <2>2
  <2> QED
    BY <2>1, <2>3, WorkerWrites DEF Node!vars, Node!sharedVars, Node!Next, Node!Env,
       Node!EnvBus, Node!EnvTorque, Node!EnvFeedback, Bus!Age, Node!Age
<1>4. CASE Tick
  <2>1. UNCHANGED Node!nodeVars /\ Bus!Tick
    BY <1>4 DEF Tick, nodeVars, Node!nodeVars
  <2> QED
    BY <2>1, TickWrites DEF Node!Next, Node!Env, Node!EnvFeedback, Bus!Age, Node!Age
<1> QED
  BY <1>1, <1>2, <1>3, <1>4, Kinds

-----------------------------------------------------------------------------
(***************************************************************************)
(* What was begun below the node's bounds ends below the worker's.         *)
(***************************************************************************)

\* The places of the two threads as StoresFit needs them.
LEMMA NodeTypes ==
  ASSUME DriverInv
  PROVE  /\ ramp.at \in Node!RampPlace /\ ramp.step \in 0 .. RampSteps
         /\ exec.op \in Node!Op /\ exec.at \in Node!Place
         /\ exec = [op |-> exec.op, at |-> exec.at]
         /\ command.seq \in Nat /\ torqueReq.seq \in Nat /\ torqueAck.seq \in Nat
         /\ reply.seq \in Nat /\ torqueAck.ok \in BOOLEAN /\ reply.ok \in BOOLEAN
         /\ RampStores \in Nat /\ ExecStores \in {0, 1}
         /\ Stores \in Nat /\ MaxStores \in Nat /\ RampSteps \in Nat /\ Stores = MaxStores + RampSteps + 1
<1>1. Node!TypeOK
  BY DEF DriverInv, Node!IInv
<1>2. ramp.at \in Node!RampPlace /\ ramp.step \in 0 .. RampSteps
  BY <1>1 DEF Node!TypeOK
<1>3. exec.op \in Node!Op /\ exec.at \in Node!Place /\ exec = [op |-> exec.op, at |-> exec.at]
  BY <1>1 DEF Node!TypeOK
<1>4. /\ command.seq \in Nat /\ torqueReq.seq \in Nat /\ torqueAck.seq \in Nat
      /\ reply.seq \in Nat /\ torqueAck.ok \in BOOLEAN /\ reply.ok \in BOOLEAN
  BY <1>1 DEF Node!TypeOK, Node!Command
<1>5. RampSteps \in Nat /\ MaxStores \in Nat
  BY DriverAssumption
<1>6. RampStores \in Nat /\ ExecStores \in {0, 1}
  BY <1>2, <1>5 DEF RampStores, ExecStores
<1> QED
  BY <1>2, <1>3, <1>4, <1>5, <1>6 DEF Stores

\* The pose thread's steps.
LEMMA RampKeepsStores ==
  ASSUME DriverInv, Node!Ramp
  PROVE  StoresFit'
<1> USE NodeTypes
<1>0. Node!Joinable => ~Node!Ramp
  BY DEF Node!Joinable, Node!Ramp, Node!RampStore, Node!RampWake, Node!RampLoopExit,
     Node!RampCheck, Node!RampGoal, Node!RampAbort, Node!RampClear, Node!RampRelease,
     Node!RampMoves
<1>1. exec' = exec
  BY DEF Node!Ramp, Node!RampStore, Node!RampWake, Node!RampLoopExit,
     Node!RampCheck, Node!RampGoal, Node!RampAbort, Node!RampClear, Node!RampRelease,
     Node!RampMoves
<1>2. ExecStores' = ExecStores
  BY <1>1 DEF ExecStores
<1>3. command'.seq + RampStores' <= command.seq + RampStores /\ RampStores' \in Nat /\ command'.seq \in Nat
  <2>1. CASE Node!RampStore
    <3>1. /\ ramp.at = "loop" /\ ramp.step < RampSteps /\ ramp'.at = "sleep"
          /\ ramp'.step = ramp.step + 1 /\ command'.seq = command.seq + 1
      BY <2>1 DEF Node!RampStore, Node!Store, DriverInv, Node!IInv, Node!TypeOK
    <3> QED
      BY <3>1 DEF RampStores
  <2>2. CASE Node!RampGoal
    <3>1. ramp.at = "goal" /\ ramp'.at = "clear" /\ command'.seq = command.seq + 1
      BY <2>2 DEF Node!RampGoal, Node!Store, Node!RampMoves, DriverInv, Node!IInv, Node!TypeOK
    <3> QED
      BY <3>1 DEF RampStores
  <2>3. CASE Node!RampWake \/ Node!RampLoopExit \/ Node!RampCheck
    <3>1. command' = command /\ ramp'.step = ramp.step
      BY <2>3 DEF Node!RampWake, Node!RampLoopExit, Node!RampCheck, Node!RampMoves,
         Node!sharedVars, DriverInv, Node!IInv, Node!TypeOK
    <3>2. \/ ramp.at = "sleep" /\ ramp'.at = "loop"
          \/ ramp.at = "loop" /\ ramp'.at = "check"
          \/ ramp.at = "check" /\ ramp'.at \in {"abort", "goal"}
      BY <2>3 DEF Node!RampWake, Node!RampLoopExit, Node!RampCheck, Node!RampMoves,
         DriverInv, Node!IInv, Node!TypeOK
    <3> QED
      BY <3>1, <3>2 DEF RampStores
  <2>4. CASE Node!RampAbort \/ Node!RampClear \/ Node!RampRelease
    <3>1. command' = command /\ ramp'.at \in {"clear", "ended", "finish"}
      BY <2>4 DEF Node!RampAbort, Node!RampClear, Node!RampRelease, Node!RampMoves,
         Node!sharedVars, DriverInv, Node!IInv, Node!TypeOK
    <3> QED
      BY <3>1 DEF RampStores
  <2> QED
    BY <2>1, <2>2, <2>3, <2>4 DEF Node!Ramp
<1>4. Node!At("move", "join")' => command'.seq < MaxStores
  <2>1. Node!At("move", "join") => ~Node!RampOwns
    BY DEF DriverInv, Node!IInv, Node!ReadsHold, Node!FlagsCoverRamp
  <2>2. ~Node!RampOwns => command' = command
    BY DEF Node!RampOwns, Node!Ramp, Node!RampStore, Node!RampWake, Node!RampLoopExit,
       Node!RampCheck, Node!RampGoal, Node!RampAbort, Node!RampClear, Node!RampRelease,
       Node!sharedVars
  <2> QED
    BY <1>1, <2>1, <2>2 DEF Node!At, DriverInv, StoresFit
<1> QED
  BY <1>2, <1>3, <1>4 DEF StoresFit, DriverInv, Stores

\* The callbacks: one that will store begins with room for a whole move.
LEMMA ExecutorKeepsStores ==
  ASSUME DriverInv, Node!Executor
  PROVE  StoresFit'
<1> USE NodeTypes DEF Node!At, Node!Idle, Node!GoTo, Node!Starts
<1>1. CASE \/ Node!TargetAccepted \/ Node!MoveAccepted \/ Node!HoldStop
           \/ Node!EnableStop \/ Node!AbortReadRunning
  <2>1. command' = command /\ ramp' = ramp /\ command.seq < MaxStores
    BY <1>1 DEF Node!TargetAccepted, Node!MoveAccepted, Node!HoldStop, Node!EnableStop,
       Node!AbortReadRunning, Node!CanStore, Node!sharedVars
  <2>2. RampStores' = RampStores /\ RampStores <= RampSteps + 1 /\ ExecStores' \in {0, 1}
    BY <2>1 DEF RampStores, ExecStores
  <2> QED
    BY <2>1, <2>2 DEF StoresFit, Stores
<1>2. CASE Node!TargetStore \/ Node!HoldLatch \/ Node!EnableSeed \/ Node!AbortLatch
  <2>1. ExecStores = 1 /\ ExecStores' = 0 /\ ~Node!At("move", "join")'
    BY <1>2 DEF Node!TargetStore, Node!HoldLatch, Node!EnableSeed, Node!AbortLatch,
       ExecStores
  <2>2. command'.seq \in {command.seq, command.seq + 1}
    BY <1>2 DEF Node!TargetStore, Node!HoldLatch, Node!EnableSeed, Node!AbortLatch,
       Node!Store
  <2>3. RampStores' \in Nat /\ RampStores' <= RampStores
    BY <1>2 DEF Node!TargetStore, Node!HoldLatch, Node!EnableSeed, Node!AbortLatch,
       Node!NoRamp, RampStores
  <2> QED
    BY <2>1, <2>2, <2>3 DEF StoresFit, DriverInv, Stores
<1>3. CASE Node!MoveSpawn
  <2>1. command.seq < MaxStores /\ command'.seq = command.seq + 1
    BY <1>3 DEF Node!MoveSpawn, Node!Store, DriverInv, StoresFit
  <2>2. RampStores' = RampSteps + 1 /\ ExecStores' = 0 /\ ~Node!At("move", "join")'
    BY <1>3 DEF Node!MoveSpawn, RampStores, ExecStores
  <2> QED
    BY <2>1, <2>2 DEF StoresFit, Stores
<1>4. CASE \/ Node!ReleaseAccepted \/ Node!ReleaseClear \/ Node!DisableStop
           \/ Node!DisableOverride \/ Node!EnableWake \/ Node!TorqueRequest
           \/ Node!TorqueReply \/ Node!TorqueTimeout \/ Node!AbortReadOverride
           \/ Node!AbortStop \/ Node!ShutdownStop \/ Node!ShutdownJoin
  <2>1. command' = command
    BY <1>4 DEF Node!ReleaseAccepted, Node!ReleaseClear, Node!DisableStop,
       Node!DisableOverride, Node!EnableWake, Node!TorqueRequest, Node!TorqueReply,
       Node!TorqueTimeout, Node!AbortReadOverride, Node!AbortStop, Node!ShutdownStop,
       Node!ShutdownJoin, Node!sharedVars
  <2>2. RampStores' \in Nat /\ RampStores' <= RampStores
    BY <1>4 DEF Node!ReleaseAccepted, Node!ReleaseClear, Node!DisableStop,
       Node!DisableOverride, Node!EnableWake, Node!TorqueRequest, Node!TorqueReply,
       Node!TorqueTimeout, Node!AbortReadOverride, Node!AbortStop, Node!ShutdownStop,
       Node!ShutdownJoin, Node!NoRamp, RampStores
  <2>3. ExecStores' <= ExecStores /\ ExecStores' \in {0, 1} /\ ~Node!At("move", "join")'
    <3>1. CASE Node!TorqueRequest
      <4>1. exec.at = "request" /\ exec'.at = "wait" /\ exec'.op = exec.op
        BY <3>1 DEF Node!TorqueRequest, DriverInv, Node!IInv, Node!TypeOK
      <4> QED
        BY <4>1 DEF ExecStores
    <3>2. CASE ~Node!TorqueRequest
      BY <1>4, <3>2 DEF Node!ReleaseAccepted, Node!ReleaseClear, Node!DisableStop,
         Node!DisableOverride, Node!EnableWake, Node!TorqueReply, Node!TorqueTimeout,
         Node!AbortReadOverride, Node!AbortStop, Node!ShutdownStop, Node!ShutdownJoin,
         ExecStores
    <3> QED
      BY <3>1, <3>2
  <2> QED
    BY <2>1, <2>2, <2>3 DEF StoresFit, DriverInv, Stores
<1> QED
  BY <1>1, <1>2, <1>3, <1>4 DEF Node!Executor

LEMMA StoresStep == DriverInv /\ [Next]_vars => StoresFit'
<1> SUFFICES ASSUME DriverInv, [Next]_vars
             PROVE  StoresFit'
  OBVIOUS
<1>1. CASE NodeActs
  BY <1>1, RampKeepsStores, ExecutorKeepsStores DEF NodeActs
<1>2. CASE UNCHANGED <<ramp, exec, command>>
  BY <1>2 DEF StoresFit, RampStores, ExecStores, DriverInv, Node!At
<1>3. StopBus \/ WorkerStep \/ Tick => UNCHANGED <<ramp, exec, command>>
  BY WorkerWrites, TickWrites DEF StopBus, Bus!EnvStop, Bus!sharedVars, WorkerStep, Tick,
     nodeVars
<1> QED
  BY <1>1, <1>2, <1>3, Kinds DEF vars, nodeVars

\* To the worker, every step of the driver is its own, a tick, or one of its environment.
LEMMA BusPart == DriverInv /\ [Next]_vars => [Bus!Next]_(Bus!vars)
<1> SUFFICES ASSUME DriverInv, Next
             PROVE  Bus!Next \/ UNCHANGED Bus!vars
  BY DEF vars, nodeVars, Bus!vars, Bus!sharedVars, Bus!busVars
<1> USE NodeTypes
<1>1. CASE NodeActs /\ NodeKeepsBus
  <2>1. CASE UNCHANGED <<command, torqueReq>>
    BY <1>1, <2>1, NodeWrites DEF NodeKeepsBus, Bus!vars, Bus!sharedVars, Bus!busVars
  <2>2. ASSUME NEW src \in {"external", "measured", "ramp", "goal"}, Node!Store(src),
               UNCHANGED torqueReq
        PROVE  Bus!Next
    <3>1. command' = [src |-> src, seq |-> command.seq + 1] /\ src \in Clients
      BY <2>2, DriverAssumption DEF Node!Store
    <3>2. command'.seq <= Stores
      <4>1. StoresFit'
        BY StoresStep
      <4>2. RampStores' \in Nat /\ ExecStores' \in {0, 1} /\ command'.seq \in Nat
        <5>1. Node!IInv'
          BY NodePart, NodeKeeps DEF DriverInv
        <5> QED
          BY <5>1, <3>1, DriverAssumption DEF Node!IInv, Node!TypeOK, RampStores, ExecStores
      <4> QED
        BY <4>1, <4>2 DEF StoresFit, Stores
    <3>3. command.seq < Stores /\ command' # command
      BY <3>1, <3>2
    <3>4. Bus!EnvStore
      BY <1>1, <2>2, <3>1, <3>3, NodeWrites DEF NodeKeepsBus, Bus!EnvStore
    <3> QED
      BY <3>4 DEF Bus!Next, Bus!Env
  <2>3. CASE Node!TorqueRequest
    <3>1. torqueReq.seq < MaxTorque /\ UNCHANGED command
      BY <2>3 DEF Node!TorqueRequest, DriverInv, RequestsFit
    <3>2. Bus!EnvTorqueRequest
      BY <1>1, <2>3, <3>1, NodeWrites DEF Node!TorqueRequest, NodeKeepsBus,
         Bus!EnvTorqueRequest, Bus!busVars
    <3> QED
      BY <3>2 DEF Bus!Next, Bus!Env
  <2> QED
    BY <1>1, <2>1, <2>2, <2>3, NodeWrites
<1>2. CASE StopBus \/ WorkerStep \/ Tick
  BY <1>2 DEF StopBus, WorkerStep, Tick, Bus!Next, Bus!Env
<1> QED
  BY <1>1, <1>2, Kinds

-----------------------------------------------------------------------------
(***************************************************************************)
(* The torque services.                                                    *)
(***************************************************************************)

\* Requests stay below the bound while a callback is on its way to make one.
LEMMA RequestsStep == DriverInv /\ [Next]_vars => RequestsFit'
<1> SUFFICES ASSUME DriverInv, [Next]_vars
             PROVE  RequestsFit'
  OBVIOUS
<1> USE NodeTypes
<1>1. CASE Node!Executor
  <2>1. CASE Node!TorqueRequest
    BY <2>1 DEF Node!TorqueRequest, RequestsFit
  <2>2. CASE Node!DisableStop \/ Node!EnableStop
    BY <2>2 DEF Node!DisableStop, Node!EnableStop, Node!sharedVars, RequestsFit
  <2>3. CASE Node!DisableOverride \/ Node!EnableSeed \/ Node!EnableWake
    BY <2>3 DEF Node!DisableOverride, Node!EnableSeed, Node!EnableWake, Node!sharedVars,
       Node!At, RequestsFit, DriverInv
  <2>4. CASE ~Node!TorqueRequest /\ ~Node!DisableStop /\ ~Node!EnableStop
             /\ ~Node!DisableOverride /\ ~Node!EnableSeed /\ ~Node!EnableWake
    <3>1. exec'.at \notin {"nap", "request"}
          /\ ~(exec'.at = "join" /\ exec'.op \in {"disable", "enable"})
      BY <1>1, <2>4 DEF Node!Executor, Node!TargetAccepted, Node!TargetStore,
         Node!MoveAccepted, Node!MoveSpawn, Node!ReleaseAccepted, Node!ReleaseClear,
         Node!HoldStop, Node!HoldLatch, Node!TorqueReply, Node!TorqueTimeout,
         Node!AbortReadRunning, Node!AbortReadOverride, Node!AbortStop, Node!AbortLatch,
         Node!ShutdownStop, Node!ShutdownJoin, Node!Starts, Node!GoTo, Node!Idle
    <3> QED
      BY <3>1 DEF RequestsFit
  <2> QED
    BY <2>1, <2>2, <2>3, <2>4
<1>2. CASE UNCHANGED <<exec, torqueReq>>
  BY <1>2 DEF RequestsFit, DriverInv
<1>3. Node!Ramp => UNCHANGED <<exec, torqueReq>>
  BY DEF Node!Ramp, Node!RampStore, Node!RampWake, Node!RampLoopExit, Node!RampCheck,
     Node!RampGoal, Node!RampAbort, Node!RampClear, Node!RampRelease, Node!sharedVars
<1>4. StopBus \/ WorkerStep \/ Tick => UNCHANGED <<exec, torqueReq>>
  BY WorkerWrites, TickWrites DEF StopBus, Bus!EnvStop, Bus!sharedVars, WorkerStep, Tick,
     nodeVars
<1> QED
  BY <1>1, <1>2, <1>3, <1>4, Kinds DEF NodeActs, vars, nodeVars

\* An answer stays the acknowledgement of its request until the next request.
LEMMA ReplyStep == DriverInv /\ [Next]_vars => ReplyFollowsAck'
<1> SUFFICES ASSUME DriverInv, [Next]_vars
             PROVE  ReplyFollowsAck'
  OBVIOUS
<1> USE NodeTypes
<1>0. torqueAck.seq <= torqueReq.seq /\ ReplyFollowsAck
  BY DEF DriverInv, Bus!BusInv, Bus!TorqueInOrder
<1>1. CASE Node!TorqueRequest
  BY <1>0, <1>1 DEF Node!TorqueRequest, ReplyFollowsAck
<1>2. CASE Node!TorqueReply \/ Node!TorqueTimeout
  <2>1. UNCHANGED <<torqueReq, torqueAck>>
    BY <1>2 DEF Node!TorqueReply, Node!TorqueTimeout, Node!sharedVars
  <2>2. \/ reply' = [seq |-> torqueReq.seq, ok |-> FALSE]
        \/ /\ reply' = [seq |-> torqueReq.seq, ok |-> TRUE]
           /\ torqueAck.seq >= torqueReq.seq /\ torqueAck.ok
    <3>1. CASE Node!TorqueTimeout
      BY <3>1 DEF Node!TorqueTimeout
    <3>2. CASE Node!TorqueReply
      BY <3>2, Zenon DEF Node!TorqueReply
    <3> QED
      BY <1>2, <3>1, <3>2
  <2>3. reply'.seq = torqueReq.seq /\ (reply'.ok => torqueAck.seq >= torqueReq.seq /\ torqueAck.ok)
    BY <2>2
  <2> QED
    BY <1>0, <2>1, <2>3 DEF ReplyFollowsAck
<1>3. CASE NodeActs /\ ~Node!TorqueRequest /\ ~Node!TorqueReply /\ ~Node!TorqueTimeout
  <2>1. UNCHANGED <<reply, torqueReq, torqueAck>>
    <3>1. reply' = reply
      BY <1>3 DEF NodeActs, Node!Executor, Node!TargetAccepted, Node!TargetStore,
         Node!MoveAccepted, Node!MoveSpawn, Node!ReleaseAccepted, Node!ReleaseClear,
         Node!HoldStop, Node!HoldLatch, Node!DisableStop, Node!DisableOverride,
         Node!EnableStop, Node!EnableSeed, Node!EnableWake, Node!AbortReadRunning,
         Node!AbortReadOverride, Node!AbortStop, Node!AbortLatch, Node!ShutdownStop,
         Node!ShutdownJoin, Node!Ramp, Node!RampStore, Node!RampWake, Node!RampLoopExit,
         Node!RampCheck, Node!RampGoal, Node!RampAbort, Node!RampClear, Node!RampRelease
    <3> QED
      BY <3>1, <1>3, NodeWrites DEF Node!Store
  <2> QED
    BY <1>0, <2>1 DEF ReplyFollowsAck
<1>4. CASE WorkerStep
  <2>1. UNCHANGED <<reply, torqueReq>> /\ Bus!Worker
    BY <1>4, WorkerWrites DEF WorkerStep, nodeVars
  <2>2. torqueAck' = torqueAck
        \/ \E s \in (torqueAck.seq + 1) .. torqueReq.seq : TRUE
    BY <2>1, WorkerWrites
  <2>3. torqueAck' # torqueAck => torqueAck.seq # torqueReq.seq
    BY <2>2
  <2> QED
    BY <1>0, <2>1, <2>3 DEF ReplyFollowsAck
<1>5. StopBus \/ Tick \/ UNCHANGED vars => UNCHANGED <<reply, torqueReq, torqueAck>>
  BY TickWrites DEF StopBus, Bus!EnvStop, Bus!sharedVars, Tick, vars, nodeVars
<1>6. CASE UNCHANGED <<reply, torqueReq, torqueAck>>
  BY <1>0, <1>6 DEF ReplyFollowsAck
<1> QED
  BY <1>1, <1>2, <1>3, <1>4, <1>5, <1>6, Kinds

-----------------------------------------------------------------------------
(***************************************************************************)
(* The worker a callback waits for.                                        *)
(***************************************************************************)

\* Complete feedback stays complete and comes from a worker that serves requests.
LEMMA WorkerThereStep == DriverInv /\ [Next]_vars => WorkerIsThere'
<1> SUFFICES ASSUME DriverInv, [Next]_vars
             PROVE  WorkerIsThere'
  OBVIOUS
<1> USE NodeTypes
<1>0. WorkerIsThere /\ Bus!TypeOK
  BY DEF DriverInv, Bus!BusInv
<1>1. CASE NodeActs /\ NodeKeepsBus
  <2>1. UNCHANGED <<feedback, seen, worker, stopping>>
    BY <1>1, NodeWrites DEF NodeKeepsBus
  <2>2. Node!At("shutdown", "down") => exec' = exec
    BY <1>1 DEF NodeActs, Node!At, Node!Executor, Node!TargetAccepted, Node!TargetStore,
       Node!MoveAccepted, Node!MoveSpawn, Node!ReleaseAccepted, Node!ReleaseClear,
       Node!HoldStop, Node!HoldLatch, Node!DisableStop, Node!DisableOverride,
       Node!EnableStop, Node!EnableSeed, Node!EnableWake, Node!TorqueRequest,
       Node!TorqueReply, Node!TorqueTimeout, Node!AbortReadRunning,
       Node!AbortReadOverride, Node!AbortStop, Node!AbortLatch, Node!ShutdownStop,
       Node!ShutdownJoin, Node!Starts, Node!Idle, Node!Ramp, Node!RampStore,
       Node!RampWake, Node!RampLoopExit, Node!RampCheck, Node!RampGoal, Node!RampAbort,
       Node!RampClear, Node!RampRelease
  <2>3. exec'.op = "enable" => exec.op = "enable" \/ feedback.ready
    <3>1. CASE Node!EnableStop
      BY <3>1 DEF Node!EnableStop, Node!FreshFeedback
    <3>2. CASE Node!TorqueRequest
      BY <3>2 DEF Node!TorqueRequest
    <3>3. CASE ~Node!EnableStop /\ ~Node!TorqueRequest
      BY <1>1, <3>3 DEF NodeActs, Node!At, Node!Executor, Node!TargetAccepted,
         Node!TargetStore, Node!MoveAccepted, Node!MoveSpawn, Node!ReleaseAccepted,
         Node!ReleaseClear, Node!HoldStop, Node!HoldLatch, Node!DisableStop,
         Node!DisableOverride, Node!EnableSeed, Node!EnableWake, Node!TorqueReply,
         Node!TorqueTimeout, Node!AbortReadRunning, Node!AbortReadOverride,
         Node!AbortStop, Node!AbortLatch, Node!ShutdownStop, Node!ShutdownJoin,
         Node!Starts, Node!GoTo, Node!Idle, Node!Ramp, Node!RampStore, Node!RampWake,
         Node!RampLoopExit, Node!RampCheck, Node!RampGoal, Node!RampAbort,
         Node!RampClear, Node!RampRelease
    <3> QED
      BY <3>1, <3>2, <3>3
  <2> QED
    BY <1>0, <2>1, <2>2, <2>3 DEF WorkerIsThere, Node!At
<1>2. CASE StopBus
  BY <1>0, <1>2 DEF StopBus, Bus!EnvStop, Bus!sharedVars, nodeVars, WorkerIsThere, Node!At
<1>3. CASE WorkerStep
  <2>0. exec' = exec /\ Bus!Worker
    BY <1>3 DEF WorkerStep, nodeVars
  <2>1. CASE Bus!SweepDone
    <3>1. worker.at = "sweep" /\ worker'.at = "head" /\ UNCHANGED stopping
      BY <1>0, <2>1 DEF Bus!SweepDone, Bus!WorkerMoves, Bus!TypeOK
    <3>2. /\ seen \subseteq seen' /\ seen' \subseteq Joints
          /\ feedback'.ready = (seen' = Joints)
      BY <1>0, <2>1 DEF Bus!SweepDone, Bus!TypeOK
    <3>3. feedback'.ready => seen' = Joints
      BY <3>2, Zenon
    <3>4. feedback.ready => feedback'.ready
      <4>1. feedback.ready => seen' = Joints
        BY <1>0, <3>2 DEF WorkerIsThere
      <4> QED
        BY <3>2, <4>1, Zenon
    <3>5. worker'.at \notin {"new", "open", "exited"}
      BY <3>1
    <3>6. stopping' => Node!At("shutdown", "down")'
      BY <1>0, <2>0, <3>1 DEF WorkerIsThere, Node!At
    <3>7. exec'.op = "enable" => feedback'.ready
      BY <1>0, <2>0, <3>4 DEF WorkerIsThere
    <3> QED
      BY <3>3, <3>5, <3>6, <3>7 DEF WorkerIsThere
  <2>2. CASE Bus!WorkerStart \/ Bus!OpenPort \/ Bus!OpenPortFails
    <3>1. /\ worker.at \in {"new", "open"}
          /\ UNCHANGED <<feedback, seen, stopping>>
      BY <2>2 DEF Bus!WorkerStart, Bus!OpenPort, Bus!OpenPortFails, Bus!WorkerMoves,
         Bus!sharedVars
    <3> QED
      BY <1>0, <2>0, <3>1 DEF WorkerIsThere, Node!At
  <2>3. CASE Bus!Worker /\ ~Bus!SweepDone /\ ~Bus!WorkerStart /\ ~Bus!OpenPort
             /\ ~Bus!OpenPortFails
    <3>1. /\ UNCHANGED <<feedback, seen, stopping>>
          /\ worker'.at \notin {"new", "open"}
          /\ worker'.at = "exited" => stopping
      BY <1>0, <2>3 DEF Bus!Worker, Bus!NextCycle, Bus!WorkerExit, Bus!CycleStart,
         Bus!NoTorqueRequest, Bus!TorqueCopy, Bus!TorqueWritten, Bus!TorqueWriteFails,
         Bus!TorqueAcknowledge, Bus!CopyCommand, Bus!WriteTarget, Bus!WriteFails,
         Bus!NoWrite, Bus!StartSweep, Bus!WorkerMoves, Bus!sharedVars, Bus!TypeOK
    <3> QED
      BY <1>0, <2>0, <3>1 DEF WorkerIsThere, Node!At
  <2> QED
    BY <2>0, <2>1, <2>2, <2>3
<1>4. CASE Tick
  <2>1. /\ feedback'.ready = feedback.ready /\ worker'.at = worker.at
        /\ UNCHANGED <<exec, seen, stopping>>
    BY <1>0, <1>4 DEF Tick, Bus!Tick, Bus!TypeOK, nodeVars
  <2> QED
    BY <1>0, <2>1 DEF WorkerIsThere, Node!At
<1>5. CASE UNCHANGED vars
  BY <1>0, <1>5 DEF vars, nodeVars, WorkerIsThere, Node!At
<1> QED
  BY <1>1, <1>2, <1>3, <1>4, <1>5, Kinds

\* The node's steps set its timer back or leave it, as long as it waits in one place.
LEMMA TimerStep ==
  ASSUME DriverInv, [Next]_vars
  PROVE  /\ timer' \in Nat
         /\ ~Tick => timer' = timer \/ timer' = 0
         /\ NodeActs /\ exec' # exec => timer' = 0
<1>1. timer \in Nat
  BY DEF DriverInv
<1>2. ASSUME Tick
      PROVE  timer' \in Nat /\ exec' = exec
  <2>1. TimerCap \in Nat
    BY DriverAssumption DEF TimerCap
  <2> QED
    BY <1>1, <1>2, <2>1 DEF Tick, Bus!Older, nodeVars
<1>3. ASSUME ~Tick
      PROVE  /\ timer' = timer \/ timer' = 0
             /\ exec' # exec => timer' = 0
  BY <1>3 DEF Next, NodeStep, NapEnds, TorqueAnswered, TorqueGivenUp, StopBus, WorkerStep,
     vars, nodeVars
<1> QED
  BY <1>1, <1>2, <1>3

\* How far the worker is from the request it will take up.
LEMMA TicksType ==
  ASSUME Bus!TypeOK
  PROVE  TicksToAck \in 0 .. MaxSweep + 1
<1>1. worker.busy \in 0 .. MaxSweep /\ worker.rest \in {0, 1} /\ MaxSweep \in Nat
  BY DriverAssumption DEF Bus!TypeOK
<1> QED
  BY <1>1 DEF TicksToAck

\* A waiting enable keeps a worker in its loop, which comes nearer with every tick and
\* never gets further away.
LEMMA WaitStep == DriverInv /\ [Next]_vars => WaitIsShort'
<1> SUFFICES ASSUME DriverInv, [Next]_vars, Node!At("enable", "wait")',
                    torqueAck'.seq < torqueReq'.seq
             PROVE  timer' + TicksToAck' <= MaxSweep + 1
  BY DEF WaitIsShort
<1> USE NodeTypes
<1>0. Bus!TypeOK /\ WaitIsShort /\ WorkerIsThere /\ timer \in Nat /\ MaxSweep \in Nat
  BY DriverAssumption DEF DriverInv, Bus!BusInv
<1>1. Bus!TypeOK'
  <2>1. Bus!BusInv'
    BY BusPart, BusKeeps DEF DriverInv
  <2> QED
    BY <2>1 DEF Bus!BusInv
<1>2. TicksToAck' \in 0 .. MaxSweep + 1 /\ TicksToAck \in 0 .. MaxSweep + 1
  <2>1. worker'.busy \in 0 .. MaxSweep /\ worker'.rest \in {0, 1}
    BY <1>1 DEF Bus!TypeOK
  <2>2. TicksToAck' \in 0 .. MaxSweep + 1
    BY <1>0, <2>1 DEF TicksToAck
  <2> QED
    BY <1>0, <2>2, TicksType
<1>3. timer' \in Nat
  BY TimerStep
<1>4. CASE NodeActs /\ NodeKeepsBus /\ ~Tick
  <2>1. CASE exec' # exec
    BY <1>0, <1>2, <1>4, <2>1, TimerStep
  <2>2. CASE exec' = exec
    <3>1. UNCHANGED <<torqueAck, worker, job>> /\ torqueReq' = torqueReq
      <4>1. ~Node!TorqueRequest
        BY <2>2 DEF Node!TorqueRequest, Node!At
      <4> QED
        BY <1>4, <4>1, NodeWrites DEF NodeKeepsBus
    <3>2. TicksToAck' = TicksToAck /\ timer' <= timer
      BY <1>0, <1>4, <3>1, TimerStep DEF TicksToAck
    <3>3. Node!At("enable", "wait") /\ torqueAck.seq < torqueReq.seq
      BY <2>2, <3>1 DEF Node!At
    <3>4. timer + TicksToAck <= MaxSweep + 1
      BY <1>0, <3>3 DEF WaitIsShort
    <3> QED
      BY <1>0, <1>2, <1>3, <3>2, <3>4
  <2> QED
    BY <2>1, <2>2
<1>5. CASE StopBus
  BY <1>5 DEF StopBus, nodeVars, Node!At
<1>6. CASE WorkerStep
  <2>1. exec' = exec /\ timer' = timer /\ torqueReq' = torqueReq /\ Bus!Worker
    BY <1>6, WorkerWrites DEF WorkerStep, nodeVars
  <2>2. feedback.ready /\ worker.at \notin {"new", "open", "exited"} /\ ~stopping
    BY <1>0, <2>1 DEF WorkerIsThere, Node!At
  <2>3. torqueAck.seq < torqueReq.seq /\ TicksToAck' <= TicksToAck
    <3>1. CASE Bus!TorqueAcknowledge
      <4>1. /\ torqueAck'.seq = job.seq /\ job.seq < torqueReq.seq /\ worker.at = "torqueAck"
            /\ torqueAck.seq < job.seq /\ job.seq \in Nat
        BY <2>1, <3>1 DEF Bus!TorqueAcknowledge, Bus!WorkerMoves, DriverInv, Bus!BusInv,
           Bus!TorqueInOrder, Bus!TorqueBusy, Bus!TypeOK
      <4>2. TicksToAck = MaxSweep + 1
        BY <4>1 DEF TicksToAck
      <4> QED
        BY <1>0, <1>2, <4>1, <4>2
    <3>2. CASE Bus!TorqueCopy \/ Bus!TorqueWritten \/ Bus!TorqueWriteFails \/ Bus!CycleStart
               \/ Bus!NextCycle \/ Bus!NoTorqueRequest
      <4>1. torqueAck' = torqueAck
        BY <3>2 DEF Bus!TorqueCopy, Bus!TorqueWritten, Bus!TorqueWriteFails,
           Bus!CycleStart, Bus!NextCycle, Bus!NoTorqueRequest, Bus!sharedVars
      <4>2. CASE Bus!TorqueCopy
        <5>1. worker'.at = "torqueWrite" /\ job'.seq = torqueReq'.seq
          BY <1>0, <2>1, <4>2 DEF Bus!TorqueCopy, Bus!WorkerMoves, Bus!TypeOK
        <5>2. TicksToAck' = 0
          BY <5>1 DEF TicksToAck
        <5> QED
          BY <1>2, <2>1, <4>1, <5>2
      <4>3. CASE Bus!TorqueWritten \/ Bus!TorqueWriteFails
        <5>1. /\ worker.at = "torqueWrite" /\ worker'.at = "torqueAck"
              /\ job'.seq = job.seq
          BY <1>0, <4>3 DEF Bus!TorqueWritten, Bus!TorqueWriteFails, Bus!WorkerMoves,
             Bus!TypeOK
        <5>2. TicksToAck' = TicksToAck
          BY <2>1, <5>1 DEF TicksToAck
        <5> QED
          BY <1>2, <2>1, <4>1, <5>2
      <4>4. CASE Bus!CycleStart \/ Bus!NextCycle
        <5>1. \/ worker.at = "wait" /\ worker'.at = "torque" /\ worker.rest = 0
              \/ worker.at = "head" /\ worker'.at = "wait" /\ worker'.rest = worker.rest
          BY <1>0, <4>4 DEF Bus!CycleStart, Bus!NextCycle, Bus!WorkerMoves, Bus!TypeOK
        <5>2. TicksToAck' = TicksToAck
          BY <5>1 DEF TicksToAck
        <5> QED
          BY <1>2, <2>1, <4>1, <5>2
      <4> QED
        BY <2>1, <3>2, <4>1, <4>2, <4>3, <4>4 DEF Bus!NoTorqueRequest
    <3>3. CASE Bus!CopyCommand \/ Bus!WriteTarget \/ Bus!WriteFails \/ Bus!NoWrite
      <4>1. worker.at \in {"copy", "write"} /\ torqueAck' = torqueAck
        BY <3>3 DEF Bus!CopyCommand, Bus!WriteTarget, Bus!WriteFails, Bus!NoWrite,
           Bus!StartSweep, Bus!WorkerMoves, Bus!sharedVars
      <4>2. TicksToAck = MaxSweep + 1
        BY <4>1 DEF TicksToAck
      <4> QED
        BY <1>0, <1>2, <2>1, <4>1, <4>2
    <3>4. CASE Bus!SweepDone
      <4>1. /\ worker.at = "sweep" /\ worker.busy = 0 /\ worker'.at = "head"
            /\ worker'.rest = worker.rest /\ torqueAck' = torqueAck
        BY <1>0, <3>4 DEF Bus!SweepDone, Bus!WorkerMoves, Bus!TypeOK
      <4>2. TicksToAck' = TicksToAck
        BY <1>0, <4>1 DEF TicksToAck, Bus!TypeOK
      <4> QED
        BY <1>2, <2>1, <4>1, <4>2
    <3>5. ~Bus!WorkerStart /\ ~Bus!OpenPort /\ ~Bus!OpenPortFails /\ ~Bus!WorkerExit
      BY <2>2 DEF Bus!WorkerStart, Bus!OpenPort, Bus!OpenPortFails, Bus!WorkerExit,
         Bus!WorkerMoves
    <3> QED
      BY <2>1, <3>1, <3>2, <3>3, <3>4, <3>5 DEF Bus!Worker
  <2>4. timer + TicksToAck <= MaxSweep + 1
    <3>1. Node!At("enable", "wait")
      BY <2>1 DEF Node!At
    <3> QED
      BY <1>0, <2>3, <3>1 DEF WaitIsShort
  <2> QED
    BY <1>0, <1>2, <2>1, <2>3, <2>4
<1>7. CASE Tick
  <2>1. /\ exec' = exec /\ UNCHANGED <<torqueReq, torqueAck, job>> /\ Bus!Tick
        /\ timer' = Bus!Older(timer, TimerCap)
    BY <1>7, TickWrites DEF Tick, Bus!Tick, nodeVars, Node!At
  <2>2. timer' <= timer + 1
    <3>1. TimerCap \in Nat /\ timer < TorqueWait /\ TorqueWait <= TimerCap /\ TorqueWait \in Nat
      BY <1>7, <2>1, DriverAssumption DEF Tick, NodeIsBlocked, TimerCap, Node!At
    <3> QED
      BY <1>0, <2>1, <3>1 DEF Bus!Older
  <2>3. worker.at \notin {"new", "open", "exited"}
    BY <1>0, <2>1 DEF WorkerIsThere, Node!At
  <2>4. \/ /\ worker.at = "wait" /\ worker.rest = 1
           /\ worker'.at = "wait" /\ worker'.rest = 0
        \/ /\ worker.at = "sweep" /\ worker.busy > 0
           /\ worker'.at = "sweep" /\ worker'.busy = worker.busy - 1
           /\ worker'.rest = worker.rest
    BY <1>0, <2>1, <2>3 DEF Bus!Tick, Bus!TypeOK
  <2>5. TicksToAck' = TicksToAck - 1
    <3>1. worker.busy \in 0 .. MaxSweep /\ worker.rest \in {0, 1}
      BY <1>0 DEF Bus!TypeOK
    <3> QED
      BY <2>4, <3>1, <1>0 DEF TicksToAck
  <2> QED
    BY <1>0, <1>2, <1>3, <2>1, <2>2, <2>5 DEF WaitIsShort, Node!At
<1>8. CASE UNCHANGED vars
  BY <1>0, <1>8 DEF vars, nodeVars, WaitIsShort, TicksToAck, Node!At
<1> QED
  BY <1>4, <1>5, <1>6, <1>7, <1>8, Kinds

-----------------------------------------------------------------------------
(***************************************************************************)
(* The results.                                                            *)
(***************************************************************************)

LEMMA InitInv == Init => DriverInv
<1> SUFFICES ASSUME Init
             PROVE  DriverInv
  OBVIOUS
<1>1. Node!IInv /\ Bus!BusInv
  BY NodeStarts, BusStarts DEF Init
<1>2. RampSteps \in Nat /\ MaxStores \in Nat /\ MaxSweep \in Nat /\ Joints # {}
  BY DriverAssumption
<1>3. /\ command.seq = 0 /\ ramp.at = "none" /\ exec = [op |-> "none", at |-> "idle"]
      /\ torqueReq.seq = 0 /\ torqueAck.seq = 0 /\ ~reply.ok /\ reply.seq = 0
      /\ feedback.ready = FALSE /\ stopping = FALSE /\ timer = 0
  BY DEF Init, Node!Init, Bus!Init, Node!Idle, Node!NoRamp, Node!NoCommand
<1>4. StoresFit
  BY <1>2, <1>3 DEF StoresFit, RampStores, ExecStores, Stores, Node!At
<1>5. RequestsFit /\ ReplyFollowsAck /\ WaitIsShort
  BY <1>3 DEF RequestsFit, ReplyFollowsAck, WaitIsShort, Node!At
<1>6. WorkerIsThere
  BY <1>3 DEF WorkerIsThere
<1> QED
  BY <1>1, <1>3, <1>4, <1>5, <1>6 DEF DriverInv

LEMMA Inductive == DriverInv /\ [Next]_vars => DriverInv'
<1> SUFFICES ASSUME DriverInv, [Next]_vars
             PROVE  DriverInv'
  OBVIOUS
<1>1. Node!IInv'
  BY NodePart, NodeKeeps DEF DriverInv
<1>2. Bus!BusInv'
  BY BusPart, BusKeeps DEF DriverInv
<1> QED
  BY <1>1, <1>2, StoresStep, RequestsStep, ReplyStep, WorkerThereStep, WaitStep, TimerStep
     DEF DriverInv

\* The invariants of node and worker hold of the whole driver, and so do the facts that
\* each owes to the other.
THEOREM Invariance == Spec => []DriverInv
<1>1. DriverInv /\ [Next]_vars => DriverInv'
  BY Inductive
<1> QED
  BY InitInv, <1>1, PTL DEF Spec

\* The refinement of the components' specifications: nothing the composition does
\* falls outside the environment either component assumes.  The pose thread and the
\* services of littlegreen_st3215_node are an environment of ServoBus, and the bus
\* thread one of the node.
THEOREM PartsKeep == Spec => PartsKeepTheirSpecs
<1>1. Init => Node!Init /\ Bus!Init
  BY DEF Init
<1>2. DriverInv /\ [Next]_vars => [Node!Next]_(Node!vars)
  BY NodePart
<1>3. DriverInv /\ [Next]_vars => [Bus!Next]_(Bus!vars)
  BY BusPart
<1> QED
  BY <1>1, <1>2, <1>3, Invariance, PTL DEF Spec, PartsKeepTheirSpecs, NodeSpec, BusSpec

\* A torque service that answers success has told the truth, and an enable never gives
\* up on a worker that is still coming (requestTorqueEnabled).
THEOREM TorqueCallsAnswered == Spec => []TorqueCallsAreAnswered
<1>1. DriverInv => TorqueReplyIsTruthful
  BY DEF DriverInv, ReplyFollowsAck, TorqueReplyIsTruthful, Bus!BusInv,
         Bus!TorqueAckIsTruthful
<1>2. DriverInv => EnableIsAnswered
  <2> SUFFICES ASSUME DriverInv, Node!At("enable", "wait"), timer >= TorqueWait,
                      torqueAck.seq < torqueReq.seq
               PROVE  FALSE
    BY NodeTypes DEF EnableIsAnswered
  <2>1. timer + TicksToAck <= MaxSweep + 1
    BY DEF DriverInv, WaitIsShort
  <2>2. TicksToAck \in 0 .. MaxSweep + 1
    BY TicksType DEF DriverInv, Bus!BusInv
  <2>3. timer \in Nat /\ MaxSweep \in Nat /\ TorqueWait \in Nat /\ TorqueWait > MaxSweep + 1
    BY DriverAssumption DEF DriverInv
  <2> QED
    BY <2>1, <2>2, <2>3
<1>3. DriverInv => TorqueCallsAreAnswered
  BY <1>1, <1>2 DEF TorqueCallsAreAnswered
<1> QED
  BY <1>3, Invariance, PTL

\* A pose the servos hold under the latch is what they hold until the latch ends: the
\* worker's copies of older commands are all older than what the servos have.
THEOREM HeldGoal == Spec => HeldGoalStays
<1>1. ASSUME DriverInv, [Next]_vars, held.active, servoGoal = Bus!ForCommand(held.cmd)
      PROVE  servoGoal' = servoGoal
  <2>0. Bus!TypeOK /\ Bus!TargetsInOrder
    BY <1>1 DEF DriverInv, Bus!BusInv
  <2>1. CASE Bus!WriteTarget
    <3>1. command = held.cmd
      BY <1>1 DEF DriverInv, Node!IInv, Node!HeldIsFrozen
    <3>2. /\ servoGoal.kind = "command" /\ servoGoal.seq = command.seq
          /\ servoGoal = [kind |-> "command", seq |-> command.seq]
      BY <1>1, <3>1 DEF Bus!ForCommand
    <3>3. servoGoal.seq \in Nat \ {0}
      BY <2>0, <3>2 DEF Bus!TypeOK, Bus!Target, Bus!NoTarget, Bus!ForPose
    <3>4. worker.at = "write" /\ servoGoal' = Bus!CycleTarget /\ Bus!CycleTarget # Bus!NoTarget
      BY <2>1 DEF Bus!WriteTarget, Bus!StartSweep
    <3>5. snap.cmd.seq \in Nat /\ command.seq \in Nat
      BY <2>0 DEF Bus!TypeOK, Bus!Command, Bus!NoCommand
    <3>6. lastSafe.kind = "command"
      BY <2>0, <3>2 DEF Bus!TargetsInOrder
    <3>7. lastSafe = [kind |-> "command", seq |-> lastSafe.seq] /\ lastSafe.seq \in Nat
      BY <2>0, <3>6 DEF Bus!TypeOK, Bus!Target, Bus!NoTarget, Bus!ForPose
    <3>8. snap.cmd.seq = command.seq /\ lastSafe.seq = command.seq
      BY <2>0, <3>2, <3>3, <3>4, <3>5, <3>6, <3>7 DEF Bus!TargetsInOrder
    <3>9. ~Bus!UseMeasured
      BY <3>2, <3>3, <3>8 DEF Bus!UseMeasured, Bus!Valid
    <3>10. Bus!CycleTarget \in {Bus!ForCommand(snap.cmd), lastSafe}
      BY <3>4, <3>9 DEF Bus!CycleTarget
    <3>11. Bus!ForCommand(snap.cmd) = servoGoal /\ lastSafe = servoGoal
      BY <3>2, <3>7, <3>8 DEF Bus!ForCommand
    <3> QED
      BY <3>4, <3>10, <3>11
  <2>2. CASE WorkerStep /\ ~Bus!WriteTarget
    BY <2>2 DEF WorkerStep, Bus!Worker, Bus!WorkerStart, Bus!OpenPort, Bus!OpenPortFails,
       Bus!NextCycle, Bus!WorkerExit, Bus!CycleStart, Bus!NoTorqueRequest,
       Bus!TorqueCopy, Bus!TorqueWritten, Bus!TorqueWriteFails, Bus!TorqueAcknowledge,
       Bus!CopyCommand, Bus!WriteFails, Bus!NoWrite, Bus!SweepDone, Bus!sharedVars
  <2>3. CASE ~WorkerStep
    BY <1>1, <2>3, Kinds DEF NodeKeepsBus, StopBus, Bus!EnvStop, Tick, Bus!Tick, vars,
       Bus!sharedVars
  <2> QED
    BY <2>1, <2>2, <2>3
<1>2. DriverInv /\ [Next]_vars
        => [held.active /\ held.cmd.src = "measured"
              /\ servoGoal = Bus!ForCommand(held.cmd) /\ held' = held
              => servoGoal' = servoGoal]_vars
  BY <1>1
<1> QED
  BY <1>2, Invariance, PTL DEF Spec, HeldGoalStays
=============================================================================
