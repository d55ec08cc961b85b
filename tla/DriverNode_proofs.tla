--------------------------- MODULE DriverNode_proofs ---------------------------
(***************************************************************************)
(* Proofs about DriverNode, for every ramp length, every setting of the    *)
(* parameters and every bound.                                             *)
(*                                                                         *)
(* The safety properties are not inductive: that a ramp target never       *)
(* follows a foreign command depends on what the executor has read, on who *)
(* waits in a join, and on the flags' relation to the thread's place.      *)
(* IInv of DriverNode collects exactly these facts.                        *)
(***************************************************************************)
EXTENDS DriverNode, TLAPS

\* The starting state: nobody has spoken, no thread runs.
LEMMA InitIInv == Init => IInv
<1> SUFFICES ASSUME Init PROVE IInv
  OBVIOUS
<1>1. override \in BOOLEAN /\ running \in BOOLEAN /\ stop \in BOOLEAN
        /\ busRunning \in BOOLEAN
  BY DEF Init
<1>2. ramp \in [at : RampPlace, step : 0 .. RampSteps, aborted : BOOLEAN]
  BY NodeAssumption DEF NodeAssumption, Init, NoRamp, RampPlace
<1>3. exec \in [op : Op, at : Place]
  BY DEF Init, Idle, Op, Place
<1>4. command \in Command
  BY DEF Init, NoCommand, Command, Source
<1>5. feedback \in [ready : BOOLEAN, age : Age]
  BY NodeAssumption DEF NodeAssumption, Init, Age
<1>6. /\ torqueReq \in [enabled : BOOLEAN, seq : Nat]
      /\ torqueAck \in [seq : Nat, ok : BOOLEAN]
      /\ reply \in [seq : Nat, ok : BOOLEAN]
  BY DEF Init
<1>7. held \in [active : BOOLEAN, cmd : Command]
  BY DEF Init, NotHeld, NoCommand, Command, Source
<1>8. StopIsJoined /\ ReadsHold /\ RampHistory
  BY DEF Init, StopIsJoined, ReadsHold, RampHistory, NoRamp, At, RampOwns, Idle
<1>9. HeldIsFrozen /\ FlagsCoverRamp
  BY DEF Init, HeldIsFrozen, FlagsCoverRamp, NoRamp, RampOwns, NotHeld
<1> QED
  BY <1>1, <1>2, <1>3, <1>4, <1>5, <1>6, <1>7, <1>8, <1>9 DEF IInv, TypeOK

\* A store by a known source is a command, whatever was stored before it.
LEMMA StoreType ==
  ASSUME command \in Command, NEW src \in Source, Store(src)
  PROVE  command' \in Command
  BY DEF Store, Command

\* Nothing is held: the record HoldIsKept starts from is well typed.
LEMMA NotHeldType == NotHeld \in [active : BOOLEAN, cmd : Command]
  BY DEF NotHeld, NoCommand, Command, Source

\* The pose thread's own steps keep its record typed.
LEMMA RampType ==
  ASSUME TypeOK, Ramp
  PROVE  ramp' \in [at : RampPlace, step : 0 .. RampSteps, aborted : BOOLEAN]
<1>1. CASE RampStore
  <2>1. ramp.step \in Nat /\ ramp.step + 1 \in 0 .. RampSteps
    BY <1>1, NodeAssumption DEF NodeAssumption, TypeOK, RampStore
  <2>2. ramp' = [at |-> "sleep", step |-> ramp.step + 1, aborted |-> ramp.aborted]
    BY <1>1 DEF TypeOK, RampStore
  <2> QED
    BY <2>1, <2>2 DEF TypeOK, RampPlace
<1>2. CASE RampCheck
  BY <1>2 DEF TypeOK, RampCheck, RampPlace
<1>3. CASE RampWake \/ RampLoopExit \/ RampGoal
  BY <1>3 DEF TypeOK, RampWake, RampLoopExit, RampGoal, RampMoves, RampPlace
<1>4. CASE RampAbort \/ RampClear \/ RampRelease
  BY <1>4 DEF TypeOK, RampAbort, RampClear, RampRelease, RampMoves, RampPlace
<1> QED
  BY <1>1, <1>2, <1>3, <1>4 DEF Ramp

\* Typing: every step of the node and of its environment keeps the types.
LEMMA Typing == TypeOK /\ [Next]_vars => TypeOK'
<1> SUFFICES ASSUME TypeOK, [Next]_vars
             PROVE  TypeOK'
  OBVIOUS
<1>1. CASE TargetAccepted
  BY <1>1 DEF TypeOK, TargetAccepted, sharedVars, Starts, At, GoTo, Idle, Op, Place
<1>2. CASE TargetStore
  <2>1. command' \in Command
    BY <1>2, StoreType DEF TypeOK, TargetStore, Source
  <2>2. exec' \in [op : Op, at : Place]
    BY <1>2 DEF TargetStore, Idle, Op, Place
  <2> QED
    BY <1>2, <2>1, <2>2 DEF TypeOK, TargetStore
<1>3. CASE MoveAccepted
  BY <1>3 DEF TypeOK, MoveAccepted, sharedVars, Starts, At, GoTo, Idle, Op, Place
<1>4. CASE MoveSpawn
  <2>1. command' \in Command
    BY <1>4, StoreType DEF TypeOK, MoveSpawn, Source
  <2>2. exec' \in [op : Op, at : Place]
    BY <1>4 DEF MoveSpawn, GoTo, Idle, Op, Place
  <2>3. held' \in [active : BOOLEAN, cmd : Command]
    BY <1>4, NotHeldType DEF MoveSpawn
  <2>4. ramp' \in [at : RampPlace, step : 0 .. RampSteps, aborted : BOOLEAN]
    BY <1>4, NodeAssumption DEF NodeAssumption, MoveSpawn, NoRamp, RampPlace
  <2> QED
    BY <1>4, <2>1, <2>2, <2>3, <2>4 DEF TypeOK, MoveSpawn
<1>5. CASE ReleaseAccepted
  BY <1>5 DEF TypeOK, ReleaseAccepted, sharedVars, Starts, At, GoTo, Idle, Op, Place
<1>6. CASE ReleaseClear
  BY <1>6, NotHeldType DEF TypeOK, ReleaseClear, sharedVars, Idle, Op, Place
<1>7. CASE HoldStop
  BY <1>7 DEF TypeOK, HoldStop, sharedVars, Starts, At, GoTo, Idle, Op, Place
<1>8. CASE HoldLatch
  <2>1. command' \in Command
    BY <1>8, StoreType DEF TypeOK, HoldLatch, Source
  <2>2. exec' \in [op : Op, at : Place]
    BY <1>8 DEF HoldLatch, GoTo, Idle, Op, Place
  <2>3. held' \in [active : BOOLEAN, cmd : Command]
    BY <1>8, <2>1 DEF HoldLatch, Latch
  <2>4. ramp' \in [at : RampPlace, step : 0 .. RampSteps, aborted : BOOLEAN]
    BY <1>8, NodeAssumption DEF NodeAssumption, HoldLatch, NoRamp, RampPlace
  <2> QED
    BY <1>8, <2>1, <2>2, <2>3, <2>4 DEF TypeOK, HoldLatch
<1>9. CASE DisableStop
  BY <1>9 DEF TypeOK, DisableStop, sharedVars, Starts, At, GoTo, Idle, Op, Place
<1>10. CASE DisableOverride
  <2>1. command' \in Command
    BY <1>10 DEF TypeOK, DisableOverride
  <2>2. exec' \in [op : Op, at : Place]
    BY <1>10 DEF DisableOverride, GoTo, Idle, Op, Place
  <2>3. held' \in [active : BOOLEAN, cmd : Command]
    BY <1>10, <2>1 DEF DisableOverride, Latch
  <2>4. ramp' \in [at : RampPlace, step : 0 .. RampSteps, aborted : BOOLEAN]
    BY <1>10, NodeAssumption DEF NodeAssumption, DisableOverride, NoRamp, RampPlace
  <2> QED
    BY <1>10, <2>1, <2>2, <2>3, <2>4 DEF TypeOK, DisableOverride
<1>11. CASE EnableStop
  BY <1>11 DEF TypeOK, EnableStop, sharedVars, Starts, At, GoTo, Idle, Op, Place
<1>12. CASE EnableSeed
  <2>1. command' \in Command
    BY <1>12, StoreType DEF TypeOK, EnableSeed, Source
  <2>2. exec' \in [op : Op, at : Place]
    BY <1>12 DEF EnableSeed, GoTo, Idle, Op, Place
  <2>3. held' \in [active : BOOLEAN, cmd : Command]
    BY <1>12, <2>1 DEF EnableSeed, Latch
  <2>4. ramp' \in [at : RampPlace, step : 0 .. RampSteps, aborted : BOOLEAN]
    BY <1>12, NodeAssumption DEF NodeAssumption, EnableSeed, NoRamp, RampPlace
  <2> QED
    BY <1>12, <2>1, <2>2, <2>3, <2>4 DEF TypeOK, EnableSeed
<1>13. CASE EnableWake
  BY <1>13 DEF TypeOK, EnableWake, sharedVars, Starts, At, GoTo, Idle, Op, Place
<1>14. CASE TorqueRequest
  BY <1>14 DEF TypeOK, TorqueRequest, Idle, Op, Place
<1>15. CASE TorqueReply
  BY <1>15 DEF TypeOK, TorqueReply, sharedVars, Idle, Op, Place
<1>16. CASE TorqueTimeout
  BY <1>16 DEF TypeOK, TorqueTimeout, sharedVars, Idle, Op, Place
<1>17. CASE AbortReadRunning
  BY <1>17 DEF TypeOK, AbortReadRunning, sharedVars, Starts, At, GoTo, Idle, Op, Place
<1>18. CASE AbortReadOverride
  BY <1>18 DEF TypeOK, AbortReadOverride, sharedVars, Starts, At, GoTo, Idle, Op, Place
<1>19. CASE AbortStop
  BY <1>19 DEF TypeOK, AbortStop, sharedVars, Starts, At, GoTo, Idle, Op, Place
<1>20. CASE AbortLatch
  <2>1. command' \in Command
    BY <1>20, StoreType DEF TypeOK, AbortLatch, Source
  <2>2. exec' \in [op : Op, at : Place]
    BY <1>20 DEF AbortLatch, GoTo, Idle, Op, Place
  <2>3. held' \in [active : BOOLEAN, cmd : Command]
    BY <1>20, <2>1 DEF AbortLatch, Latch
  <2>4. ramp' \in [at : RampPlace, step : 0 .. RampSteps, aborted : BOOLEAN]
    BY <1>20, NodeAssumption DEF NodeAssumption, AbortLatch, NoRamp, RampPlace
  <2> QED
    BY <1>20, <2>1, <2>2, <2>3, <2>4 DEF TypeOK, AbortLatch
<1>21. CASE ShutdownStop
  BY <1>21 DEF TypeOK, ShutdownStop, sharedVars, Starts, At, GoTo, Idle, Op, Place
<1>22. CASE ShutdownJoin
  BY <1>22, NodeAssumption DEF NodeAssumption, TypeOK, ShutdownJoin, sharedVars, GoTo, Op, Place,
     NoRamp, RampPlace
<1>23. CASE Ramp
  <2>1. ramp' \in [at : RampPlace, step : 0 .. RampSteps, aborted : BOOLEAN]
    BY <1>23, RampType
  <2>2. CASE RampStore \/ RampGoal
    <3>1. command' \in Command
      BY <2>2, StoreType DEF TypeOK, RampStore, RampGoal, Source
    <3> QED
      BY <2>1, <2>2, <3>1 DEF TypeOK, RampStore, RampGoal
  <2>3. CASE RampWake \/ RampLoopExit \/ RampCheck
    BY <2>1, <2>3 DEF TypeOK, RampWake, RampLoopExit, RampCheck, sharedVars
  <2>4. CASE RampAbort \/ RampClear \/ RampRelease
    BY <2>1, <2>4 DEF TypeOK, RampAbort, RampClear, RampRelease, sharedVars
  <2> QED
    BY <1>23, <2>2, <2>3, <2>4 DEF Ramp
<1>24. CASE Env
  <2>1. CASE EnvFeedback
    BY <2>1 DEF TypeOK, EnvFeedback, nodeVars
  <2>2. CASE EnvTorque
    <3>1. PICK s \in (torqueAck.seq + 1) .. torqueReq.seq, ok \in BOOLEAN :
                 torqueAck' = [seq |-> s, ok |-> ok]
      BY <2>2 DEF EnvTorque
    <3>2. s \in Nat
      BY <3>1 DEF TypeOK
    <3> QED
      BY <2>2, <3>1, <3>2 DEF TypeOK, EnvTorque, nodeVars
  <2>3. CASE EnvBus
    BY <2>3 DEF TypeOK, EnvBus, nodeVars
  <2> QED
    BY <1>24, <2>1, <2>2, <2>3 DEF Env
<1>25. CASE Terminated \/ UNCHANGED vars
  BY <1>25 DEF TypeOK, Terminated, vars, nodeVars, sharedVars
<1> QED
  BY <1>1, <1>2, <1>3, <1>4, <1>5, <1>6, <1>7, <1>8, <1>9, <1>10, <1>11,
     <1>12, <1>13, <1>14, <1>15, <1>16, <1>17, <1>18, <1>19, <1>20, <1>21,
     <1>22, <1>23, <1>24, <1>25
     DEF Next, Executor

\* Inductiveness: no step of the two threads or of the worker breaks IInv.
LEMMA Inductive == IInv /\ [Next]_vars => IInv'
<1> SUFFICES ASSUME IInv, [Next]_vars
             PROVE  IInv'
  OBVIOUS
<1> USE DEF FlagsCoverRamp, StopIsJoined, ReadsHold, RampHistory, HeldIsFrozen,
        RampOwns, Joinable, At
<1>0. TypeOK /\ TypeOK'
  BY Typing DEF IInv
<1>1. CASE TargetAccepted
  BY <1>0, <1>1
     DEF IInv, TypeOK, TargetAccepted, sharedVars, Starts, GoTo, Idle
<1>2. CASE TargetStore
  BY <1>0, <1>2
     DEF IInv, TypeOK, TargetStore, Idle, Store
<1>3. CASE MoveAccepted
  BY <1>0, <1>3
     DEF IInv, TypeOK, MoveAccepted, sharedVars, Starts, GoTo, Idle
<1>4. CASE MoveSpawn
  BY <1>0, <1>4
     DEF IInv, TypeOK, MoveSpawn, Idle, NotHeld, Store
<1>5. CASE ReleaseAccepted
  BY <1>0, <1>5
     DEF IInv, TypeOK, ReleaseAccepted, sharedVars, Starts, GoTo, Idle
<1>6. CASE ReleaseClear
  BY <1>0, <1>6
     DEF IInv, TypeOK, ReleaseClear, sharedVars, Idle, NotHeld
<1>7. CASE HoldStop
  BY <1>0, <1>7
     DEF IInv, TypeOK, HoldStop, sharedVars, Starts, GoTo, Idle
<1>8. CASE HoldLatch
  BY <1>0, <1>8
     DEF IInv, TypeOK, HoldLatch, Idle, NoRamp, Store, Latch
<1>9. CASE DisableStop
  BY <1>0, <1>9
     DEF IInv, TypeOK, DisableStop, sharedVars, Starts, GoTo, Idle
<1>10. CASE DisableOverride
  BY <1>0, <1>10
     DEF IInv, TypeOK, DisableOverride, GoTo, NoRamp, Latch
<1>11. CASE EnableStop
  BY <1>0, <1>11
     DEF IInv, TypeOK, EnableStop, sharedVars, Starts, GoTo, Idle
<1>12. CASE EnableSeed
  BY <1>0, <1>12
     DEF IInv, TypeOK, EnableSeed, GoTo, NoRamp, Store, Latch
<1>13. CASE EnableWake
  BY <1>0, <1>13
     DEF IInv, TypeOK, EnableWake, sharedVars, GoTo
<1>14. CASE TorqueRequest
  BY <1>0, <1>14
     DEF IInv, TypeOK, TorqueRequest
<1>15. CASE TorqueReply
  BY <1>0, <1>15
     DEF IInv, TypeOK, TorqueReply, sharedVars, Idle
<1>16. CASE TorqueTimeout
  BY <1>0, <1>16
     DEF IInv, TypeOK, TorqueTimeout, sharedVars, Idle
<1>17. CASE AbortReadRunning
  BY <1>0, <1>17
     DEF IInv, TypeOK, AbortReadRunning, sharedVars, Starts, GoTo, Idle
<1>18. CASE AbortReadOverride
  BY <1>0, <1>18
     DEF IInv, TypeOK, AbortReadOverride, sharedVars, GoTo, Idle
<1>19. CASE AbortStop
  BY <1>0, <1>19
     DEF IInv, TypeOK, AbortStop, sharedVars, GoTo
<1>20. CASE AbortLatch
  BY <1>0, <1>20
     DEF IInv, TypeOK, AbortLatch, Idle, NoRamp, Store, Latch
<1>21. CASE ShutdownStop
  BY <1>0, <1>21
     DEF IInv, TypeOK, ShutdownStop, sharedVars, Starts, GoTo, Idle
<1>22. CASE ShutdownJoin
  BY <1>0, <1>22
     DEF IInv, TypeOK, ShutdownJoin, sharedVars, GoTo, NoRamp
<1>23. CASE RampStore
  BY <1>0, <1>23, NodeAssumption
     DEF IInv, TypeOK, RampStore, Store, NodeAssumption
<1>24. CASE RampWake
  BY <1>0, <1>24, NodeAssumption
     DEF IInv, TypeOK, RampWake, sharedVars, RampMoves, NodeAssumption
<1>25. CASE RampLoopExit
  BY <1>0, <1>25, NodeAssumption
     DEF IInv, TypeOK, RampLoopExit, sharedVars, RampMoves, NodeAssumption
<1>26. CASE RampCheck
  BY <1>0, <1>26, NodeAssumption
     DEF IInv, TypeOK, RampCheck, sharedVars, NodeAssumption
<1>27. CASE RampGoal
  BY <1>0, <1>27, NodeAssumption
     DEF IInv, TypeOK, RampGoal, Store, RampMoves, NodeAssumption
<1>28. CASE RampAbort
  BY <1>0, <1>28, NodeAssumption
     DEF IInv, TypeOK, RampAbort, sharedVars, RampMoves, NodeAssumption
<1>29. CASE RampClear
  BY <1>0, <1>29, NodeAssumption
     DEF IInv, TypeOK, RampClear, sharedVars, RampMoves, NodeAssumption
<1>30. CASE RampRelease
  BY <1>0, <1>30, NodeAssumption
     DEF IInv, TypeOK, RampRelease, sharedVars, RampMoves, NodeAssumption
<1>31. CASE Env \/ Terminated \/ UNCHANGED vars
  <2>1. UNCHANGED <<nodeVars, command>>
    BY <1>31 DEF Env, EnvFeedback, EnvTorque, EnvBus, Terminated, vars, sharedVars
  <2> QED
    BY <1>0, <2>1 DEF IInv, nodeVars
<1> QED
  BY <1>1, <1>2, <1>3, <1>4, <1>5, <1>6, <1>7, <1>8, <1>9, <1>10, <1>11,
     <1>12, <1>13, <1>14, <1>15, <1>16, <1>17, <1>18, <1>19, <1>20, <1>21,
     <1>22, <1>23, <1>24, <1>25, <1>26, <1>27, <1>28, <1>29, <1>30, <1>31
     DEF Next, Executor, Ramp

\* The inductive invariant is an invariant.
THEOREM Invariance == Spec => []IInv
<1>1. Init => IInv
  BY InitIInv
<1>2. IInv /\ [Next]_vars => IInv'
  BY Inductive
<1> QED
  BY <1>1, <1>2, PTL DEF Spec

\* Type correctness of the driver node, whatever the ramp length and bounds.
THEOREM TypeCorrect == Spec => []TypeOK
<1>1. IInv => TypeOK
  BY DEF IInv
<1> QED
  BY <1>1, Invariance, PTL

\* While the pose thread may still store, the override is up and no accepted
\* external target is on its way into the buffer.
THEOREM RampExclusion == Spec => []RampIsExclusive
<1>1. IInv => RampIsExclusive
  BY DEF IInv, FlagsCoverRamp, ReadsHold, RampIsExclusive
<1> QED
  BY <1>1, Invariance, PTL

\* What hold, abort, disable and enable left in the buffer stays there, under
\* the override, until a release or a new move.
THEOREM HoldKept == Spec => []HoldIsKept
<1>1. IInv => HoldIsKept
  BY DEF IInv, HeldIsFrozen, HoldIsKept
<1> QED
  BY <1>1, Invariance, PTL

\* Who stores what: only RampStore and RampGoal store as the ramp, and each
\* finds in the buffer what its own thread left there.
LEMMA StoreOrder ==
  IInv /\ [Next]_vars =>
    [/\ command'.src = "ramp" => command.src \in {"measured", "ramp"}
     /\ command'.src = "goal" => command.src = "ramp"]_command
<1> SUFFICES ASSUME IInv, Next, command' # command
             PROVE  /\ command'.src = "ramp" => command.src \in {"measured", "ramp"}
                    /\ command'.src = "goal" => command.src = "ramp"
  BY DEF vars, sharedVars
<1>1. CASE RampStore
  BY <1>1 DEF IInv, RampStore, RampHistory, RampOwns, Store
<1>2. CASE RampGoal
  BY <1>2, NodeAssumption DEF NodeAssumption, IInv, RampGoal, RampHistory, RampOwns, Store
<1>3. CASE TargetStore
  BY <1>3 DEF TargetStore, Store
<1>4. CASE MoveSpawn \/ HoldLatch \/ EnableSeed \/ AbortLatch
  BY <1>4 DEF MoveSpawn, HoldLatch, EnableSeed, AbortLatch, Store
<1>5. CASE \/ TargetAccepted \/ MoveAccepted \/ ReleaseAccepted \/ ReleaseClear
           \/ HoldStop \/ DisableStop \/ DisableOverride \/ EnableStop \/ EnableWake
  BY <1>5 DEF TargetAccepted, MoveAccepted, ReleaseAccepted, ReleaseClear,
     HoldStop, DisableStop, DisableOverride, EnableStop, EnableWake, sharedVars
<1>6. CASE \/ TorqueRequest \/ TorqueReply \/ TorqueTimeout
           \/ AbortReadRunning \/ AbortReadOverride \/ AbortStop
           \/ ShutdownStop \/ ShutdownJoin
  BY <1>6 DEF TorqueRequest, TorqueReply, TorqueTimeout, AbortReadRunning,
     AbortReadOverride, AbortStop, ShutdownStop, ShutdownJoin, sharedVars
<1>7. CASE \/ RampWake \/ RampLoopExit \/ RampCheck \/ RampAbort \/ RampClear
           \/ RampRelease
  BY <1>7 DEF RampWake, RampLoopExit, RampCheck, RampAbort, RampClear,
     RampRelease, sharedVars
<1>8. CASE Env \/ Terminated
  BY <1>8 DEF Env, EnvFeedback, EnvTorque, EnvBus, Terminated, vars, sharedVars
<1> QED
  BY <1>1, <1>2, <1>3, <1>4, <1>5, <1>6, <1>7, <1>8 DEF Next, Executor, Ramp

\* A ramp target only follows its own seed or another ramp target, and the
\* goal only follows a ramp target.
THEOREM RampInOrder == Spec => RampOrder
<1>1. IInv /\ [Next]_vars =>
        [command' # command =>
           /\ command'.src = "ramp" => command.src \in {"measured", "ramp"}
           /\ command'.src = "goal" => command.src = "ramp"]_vars
  BY StoreOrder
<1> QED
  BY <1>1, Invariance, PTL DEF Spec, RampOrder

-----------------------------------------------------------------------------
(***************************************************************************)
(* The refinement: who owns the command buffer.                            *)
(***************************************************************************)

\* Initially nothing is overridden: the external publisher owns the buffer.
LEMMA AuthorityInit == Init => Authority!Init
  BY DEF Init, Authority!Init, Owner, RampOwns, NoRamp, NoCommand

\* Every step of the node is a step of the authority, or changes neither the
\* owner nor the buffer.
LEMMA AuthorityStep == IInv /\ [Next]_vars => [Authority!Next]_(Authority!vars)
<1> SUFFICES ASSUME IInv, [Next]_vars
             PROVE  Authority!Next \/ UNCHANGED <<Owner, command>>
  BY DEF Authority!vars
<1> USE DEF Owner, RampOwns, Joinable, At
<1>1. CASE TargetStore
  <2>1. Owner = "external" /\ UNCHANGED Owner
    BY <1>1 DEF TargetStore, IInv, ReadsHold, FlagsCoverRamp
  <2>2. Authority!ExternalStore
    BY <1>1, <2>1 DEF TargetStore, Store, Authority!ExternalStore, Authority!StoredBy
  <2> QED
    BY <2>2 DEF Authority!Next
<1>2. CASE MoveSpawn
  <2>1. Authority!StartRamp
    BY <1>2 DEF MoveSpawn, Store, Authority!StartRamp, Authority!StoredBy
  <2> QED
    BY <2>1 DEF Authority!Next
<1>3. CASE HoldLatch \/ EnableSeed \/ AbortLatch \/ DisableOverride
  <2>1. Authority!Latch
    BY <1>3 DEF HoldLatch, EnableSeed, AbortLatch, DisableOverride, NoRamp,
       Store, Authority!Latch, Authority!StoredBy
  <2> QED
    BY <2>1 DEF Authority!Next
<1>4. CASE ReleaseClear
  <2>1. Owner # "ramp" /\ Owner' = "external" /\ UNCHANGED command
    BY <1>4 DEF ReleaseClear, IInv, ReadsHold, FlagsCoverRamp, sharedVars
  <2>2. Authority!Release \/ UNCHANGED <<Owner, command>>
    BY <2>1 DEF Authority!Release
  <2> QED
    BY <2>2 DEF Authority!Next
<1>5. CASE RampStore
  <2>1. Authority!RampTarget
    BY <1>5 DEF RampStore, IInv, TypeOK, Store, Authority!RampTarget,
       Authority!StoredBy
  <2> QED
    BY <2>1 DEF Authority!Next
<1>6. CASE RampGoal \/ RampAbort
  <2>1. Authority!EndRamp
    BY <1>6 DEF RampGoal, RampAbort, RampMoves, IInv, TypeOK, FlagsCoverRamp,
       Store, sharedVars, Authority!EndRamp, Authority!StoredBy
  <2> QED
    BY <2>1 DEF Authority!Next
<1>7. CASE RampRelease
  <2>1. Owner # "ramp" /\ Owner' = "external" /\ UNCHANGED command
    BY <1>7 DEF RampRelease, RampMoves, IInv, TypeOK, sharedVars
  <2>2. Authority!Release \/ UNCHANGED <<Owner, command>>
    BY <2>1 DEF Authority!Release
  <2> QED
    BY <2>2 DEF Authority!Next
<1>8. CASE RampWake \/ RampLoopExit \/ RampCheck \/ RampClear
  <2>1. UNCHANGED <<override, command>>
    BY <1>8 DEF RampWake, RampLoopExit, RampCheck, RampClear, sharedVars
  <2>2. RampOwns' <=> RampOwns
    <3>1. CASE RampWake \/ RampLoopExit
      BY <3>1 DEF RampWake, RampLoopExit, RampMoves, IInv, TypeOK
    <3>2. CASE RampCheck
      BY <3>2 DEF RampCheck, IInv, TypeOK
    <3>3. CASE RampClear
      BY <3>3 DEF RampClear, RampMoves, IInv, TypeOK
    <3> QED
      BY <1>8, <3>1, <3>2, <3>3
  <2> QED
    BY <2>1, <2>2
<1>9. CASE ShutdownJoin
  BY <1>9 DEF ShutdownJoin, NoRamp, sharedVars
<1>10. CASE \/ TargetAccepted \/ MoveAccepted \/ ReleaseAccepted
            \/ HoldStop \/ DisableStop \/ EnableStop \/ EnableWake
  BY <1>10 DEF TargetAccepted, MoveAccepted, ReleaseAccepted, HoldStop,
     DisableStop, EnableStop, EnableWake, sharedVars
<1>11. CASE \/ TorqueRequest \/ TorqueReply \/ TorqueTimeout
            \/ AbortReadRunning \/ AbortReadOverride \/ AbortStop \/ ShutdownStop
  BY <1>11 DEF TorqueRequest, TorqueReply, TorqueTimeout, AbortReadRunning,
     AbortReadOverride, AbortStop, ShutdownStop, sharedVars
<1>12. CASE Env \/ Terminated \/ UNCHANGED vars
  <2>1. UNCHANGED <<nodeVars, command>>
    BY <1>12 DEF Env, EnvFeedback, EnvTorque, EnvBus, Terminated, vars, sharedVars
  <2> QED
    BY <2>1 DEF nodeVars
<1> QED
  BY <1>1, <1>2, <1>3, <1>4, <1>5, <1>6, <1>7, <1>8, <1>9, <1>10, <1>11, <1>12
     DEF Next, Executor, Ramp

\* The driver node implements CommandAuthority: between the executor and the
\* pose thread the buffer has one owner at a time, and ownership never goes
\* from a ramp straight to an external publisher.
THEOREM Refinement == Spec => ImplementsAuthority
<1>1. Spec => []IInv
  BY Invariance
<1> QED
  BY <1>1, AuthorityInit, AuthorityStep, PTL
     DEF Spec, ImplementsAuthority, Authority!Spec
=============================================================================
