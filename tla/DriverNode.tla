------------------------------ MODULE DriverNode ------------------------------
(***************************************************************************)
(* The ROS node of the native ST3215 driver: who may write the command     *)
(* buffer that the bus worker copies to the servos.                        *)
(*                                                                         *)
(* Two threads run here.  The executor (rclcpp::spin in main) runs the     *)
(* target subscription and the service callbacks one after the other.  The *)
(* pose-ramp thread is spawned by a guarded move and joined by the next    *)
(* callback that needs it gone.  They share three atomics                  *)
(* (pose_override_active_, pose_move_running_, pose_stop_requested_) and   *)
(* the mutex-protected command buffer.  Every read or write of a shared    *)
(* object is a step of its own unless the other thread cannot be alive.    *)
(*                                                                         *)
(* The bus worker is the environment of this module (Env below); module    *)
(* ServoBus models it and module ServoDriver composes the two.             *)
(***************************************************************************)
EXTENDS Integers

CONSTANTS
  RampSteps,       \* interpolated targets of one guarded ramp (step_count)
  HoldAfterMove,   \* parameter default_pose_hold_after_move
  WritesEnabled,   \* parameter writes_enabled
  MaxFeedbackAge,  \* parameter max_feedback_warn_age_ms, in ticks
  MaxStores,       \* bound: no callback that stores a command starts beyond it
  MaxTorque        \* bound: torque requests made

ASSUME NodeAssumption ==
  /\ RampSteps \in Nat \ {0}
  /\ HoldAfterMove \in BOOLEAN
  /\ WritesEnabled \in BOOLEAN
  /\ MaxFeedbackAge \in Nat
  /\ MaxStores \in Nat
  /\ MaxTorque \in Nat

VARIABLES
  override,    \* pose_override_active_
  running,     \* pose_move_running_
  stop,        \* pose_stop_requested_
  ramp,        \* the pose thread: at "none" it is joined (not joinable)
  exec,        \* the callback the executor runs and where it is in it
  command,     \* CommandBuffer's snapshot: who stored it, its sequence
  feedback,    \* StateBuffer: full_feedback_ready and the oldest sample's age
  torqueReq,   \* torque_requested_enabled_, torque_request_sequence_
  torqueAck,   \* torque_applied_sequence_, torque_last_request_ok_
  busRunning,  \* ServoBus::running_
  reply,       \* outcome of the latest requestTorqueEnabled call
  held         \* history: the command a latching callback left in the buffer

nodeVars == <<override, running, stop, ramp, exec, reply, held>>
sharedVars == <<command, feedback, torqueReq, torqueAck, busRunning>>
vars == <<nodeVars, sharedVars>>

Source == {"none", "external", "measured", "ramp", "goal"}
Command == [src : Source, seq : Nat]
NoCommand == [src |-> "none", seq |-> 0]

Op == {"none", "target", "move", "release", "hold", "disable", "enable",
       "abort", "shutdown"}
Place == {"idle", "store", "join", "clear", "nap", "request", "wait",
          "override", "stop", "down"}
RampPlace == {"none", "loop", "sleep", "check", "goal", "abort", "clear",
              "finish", "ended"}

Idle == [op |-> "none", at |-> "idle"]
NoRamp == [at |-> "none", step |-> 0, aborted |-> FALSE]
NotHeld == [active |-> FALSE, cmd |-> NoCommand]

Age == 0 .. (MaxFeedbackAge + 1)

TypeOK ==
  /\ override \in BOOLEAN
  /\ running \in BOOLEAN
  /\ stop \in BOOLEAN
  /\ ramp \in [at : RampPlace, step : 0 .. RampSteps, aborted : BOOLEAN]
  /\ exec \in [op : Op, at : Place]
  /\ command \in Command
  /\ feedback \in [ready : BOOLEAN, age : Age]
  /\ torqueReq \in [enabled : BOOLEAN, seq : Nat]
  /\ torqueAck \in [seq : Nat, ok : BOOLEAN]
  /\ busRunning \in BOOLEAN
  /\ reply \in [seq : Nat, ok : BOOLEAN]
  /\ held \in [active : BOOLEAN, cmd : Command]

Init ==
  /\ override = FALSE
  /\ running = FALSE
  /\ stop = FALSE
  /\ ramp = NoRamp
  /\ exec = Idle
  /\ command = NoCommand
  /\ feedback = [ready |-> FALSE, age |-> MaxFeedbackAge + 1]
  /\ torqueReq = [enabled |-> TRUE, seq |-> 0]
  /\ torqueAck = [seq |-> 0, ok |-> FALSE]
  /\ busRunning = FALSE
  /\ reply = [seq |-> 0, ok |-> FALSE]
  /\ held = NotHeld

-----------------------------------------------------------------------------
(***************************************************************************)
(* Helpers.                                                                *)
(***************************************************************************)

\* CommandBuffer::store by the given source.
Store(src) == command' = [src |-> src, seq |-> command.seq + 1]

\* Every joint has a sample no older than max_feedback_warn_age_ms.
FreshFeedback == feedback.ready /\ feedback.age <= MaxFeedbackAge

\* The pose thread has returned (or was never started): join() comes back.
Joinable == ramp.at \in {"none", "ended"}

CanStore == command.seq < MaxStores

At(op, place) == exec = [op |-> op, at |-> place]
GoTo(op, place) == exec' = [op |-> op, at |-> place]
Starts(op, place) == exec = Idle /\ GoTo(op, place)

\* A callback that takes the command buffer over keeps what it left in it.
Latch == held' = [active |-> TRUE, cmd |-> command']

\* Mutant: the override is not looked at.
TargetAcceptedAlways ==
  /\ CanStore
  /\ Starts("target", "store")
  /\ UNCHANGED <<override, running, stop, ramp, reply, held, sharedVars>>

-----------------------------------------------------------------------------
(***************************************************************************)
(* Executor: the target subscription.  Short or non-finite messages and    *)
(* messages that arrive under the override change nothing here.            *)
(***************************************************************************)
TargetAccepted ==
  /\ CanStore
  /\ ~override
  /\ Starts("target", "store")
  /\ UNCHANGED <<override, running, stop, ramp, reply, held, sharedVars>>

TargetStore ==
  /\ At("target", "store")
  /\ Store("external")
  /\ exec' = Idle
  /\ UNCHANGED <<override, running, stop, ramp, reply, held,
                 feedback, torqueReq, torqueAck, busRunning>>

(***************************************************************************)
(* Executor: move_to_default_pose and move_to_policy_handoff_pose, which   *)
(* differ in the goal and in the goal's own validation only.               *)
(***************************************************************************)
MoveAccepted ==
  /\ CanStore
  /\ WritesEnabled
  /\ ~running
  /\ FreshFeedback
  /\ Starts("move", "join")
  /\ UNCHANGED <<override, running, stop, ramp, reply, held, sharedVars>>

MoveSpawn ==
  /\ At("move", "join")
  /\ Joinable
  /\ Store("measured")
  /\ stop' = FALSE
  /\ override' = TRUE
  /\ running' = TRUE
  /\ ramp' = [at |-> "loop", step |-> 0, aborted |-> FALSE]
  /\ held' = NotHeld
  /\ exec' = Idle
  /\ UNCHANGED <<reply, feedback, torqueReq, torqueAck, busRunning>>

\* Mutant: a running ramp does not refuse the release.
ReleaseAcceptedAlways ==
  /\ Starts("release", "clear")
  /\ UNCHANGED <<override, running, stop, ramp, reply, held, sharedVars>>

(***************************************************************************)
(* Executor: release_pose_override.  It is refused while a ramp runs.      *)
(***************************************************************************)
ReleaseAccepted ==
  /\ ~running
  /\ Starts("release", "clear")
  /\ UNCHANGED <<override, running, stop, ramp, reply, held, sharedVars>>

ReleaseClear ==
  /\ At("release", "clear")
  /\ override' = FALSE
  /\ held' = NotHeld
  /\ exec' = Idle
  /\ UNCHANGED <<running, stop, ramp, reply, sharedVars>>

(***************************************************************************)
(* Executor: hold_current_pose.  The feedback is read after the join.      *)
(***************************************************************************)
HoldStop ==
  /\ CanStore
  /\ WritesEnabled
  /\ Starts("hold", "join")
  /\ stop' = TRUE
  /\ UNCHANGED <<override, running, ramp, reply, held, sharedVars>>

\* Mutant: hold does not wait for the thread at all.
HoldLatchAtOnce ==
  /\ At("hold", "join")
  /\ ramp' = IF Joinable THEN NoRamp ELSE ramp
  /\ running' = FALSE
  /\ IF FreshFeedback THEN Store("measured") ELSE UNCHANGED command
  /\ override' = TRUE
  /\ stop' = FALSE
  /\ Latch
  /\ exec' = Idle
  /\ UNCHANGED <<reply, feedback, torqueReq, torqueAck, busRunning>>

HoldLatch ==
  /\ At("hold", "join")
  /\ Joinable
  /\ ramp' = NoRamp
  /\ running' = FALSE
  /\ IF FreshFeedback THEN Store("measured") ELSE UNCHANGED command
  /\ override' = TRUE
  /\ stop' = FALSE
  /\ Latch
  /\ exec' = Idle
  /\ UNCHANGED <<reply, feedback, torqueReq, torqueAck, busRunning>>

(***************************************************************************)
(* Executor: disable_torque_all.                                           *)
(***************************************************************************)
DisableStop ==
  /\ WritesEnabled
  /\ torqueReq.seq < MaxTorque
  /\ Starts("disable", "join")
  /\ stop' = TRUE
  /\ UNCHANGED <<override, running, ramp, reply, held, sharedVars>>

DisableOverride ==
  /\ At("disable", "join")
  /\ Joinable
  /\ ramp' = NoRamp
  /\ running' = FALSE
  /\ override' = TRUE
  /\ UNCHANGED command
  /\ Latch
  /\ GoTo("disable", "request")
  /\ UNCHANGED <<stop, reply, feedback, torqueReq, torqueAck, busRunning>>

(***************************************************************************)
(* Executor: enable_torque_hold_current.  The feedback is read before the  *)
(* join; the callback naps between the seed and the torque request.        *)
(***************************************************************************)
EnableStop ==
  /\ CanStore
  /\ WritesEnabled
  /\ FreshFeedback
  /\ torqueReq.seq < MaxTorque
  /\ Starts("enable", "join")
  /\ stop' = TRUE
  /\ UNCHANGED <<override, running, ramp, reply, held, sharedVars>>

EnableSeed ==
  /\ At("enable", "join")
  /\ Joinable
  /\ ramp' = NoRamp
  /\ running' = FALSE
  /\ Store("measured")
  /\ override' = TRUE
  /\ stop' = FALSE
  /\ Latch
  /\ GoTo("enable", "nap")
  /\ UNCHANGED <<reply, feedback, torqueReq, torqueAck, busRunning>>

EnableWake ==
  /\ At("enable", "nap")
  /\ GoTo("enable", "request")
  /\ UNCHANGED <<override, running, stop, ramp, reply, held, sharedVars>>

(***************************************************************************)
(* ServoBus::requestTorqueEnabled, run by the executor: publish a request, *)
(* wait until the worker acknowledges it, has stopped, or time runs out.   *)
(***************************************************************************)
TorqueRequest ==
  /\ exec.at = "request"
  /\ torqueReq' = [enabled |-> exec.op = "enable", seq |-> torqueReq.seq + 1]
  /\ exec' = [exec EXCEPT !.at = "wait"]
  /\ UNCHANGED <<override, running, stop, ramp, reply, held,
                 command, feedback, torqueAck, busRunning>>

\* Mutant: the request's number is taken before it is incremented.
TorqueReplyToPrevious ==
  /\ exec.at = "wait"
  /\ torqueAck.seq + 1 >= torqueReq.seq \/ ~busRunning
  /\ reply' = [seq |-> torqueReq.seq,
               ok  |-> torqueAck.seq + 1 >= torqueReq.seq /\ torqueAck.ok]
  /\ exec' = Idle
  /\ UNCHANGED <<override, running, stop, ramp, held, sharedVars>>

TorqueReply ==
  /\ exec.at = "wait"
  /\ torqueAck.seq >= torqueReq.seq \/ ~busRunning
  /\ reply' = [seq |-> torqueReq.seq,
               ok  |-> torqueAck.seq >= torqueReq.seq /\ torqueAck.ok]
  /\ exec' = Idle
  /\ UNCHANGED <<override, running, stop, ramp, held, sharedVars>>

\* Mutant: a caller that gives up takes its request back.
TorqueTimeoutWithdraws ==
  /\ exec.at = "wait"
  /\ torqueAck.seq < torqueReq.seq
  /\ torqueReq' = [torqueReq EXCEPT !.seq = @ - 1]
  /\ reply' = [seq |-> torqueReq.seq, ok |-> FALSE]
  /\ exec' = Idle
  /\ UNCHANGED <<override, running, stop, ramp, held,
                 command, feedback, torqueAck, busRunning>>

TorqueTimeout ==
  /\ exec.at = "wait"
  /\ torqueAck.seq < torqueReq.seq
  /\ reply' = [seq |-> torqueReq.seq, ok |-> FALSE]
  /\ exec' = Idle
  /\ UNCHANGED <<override, running, stop, ramp, held, sharedVars>>

(***************************************************************************)
(* Executor: abort_pose_move.  Both flags are read before the stop; the    *)
(* measured pose is latched whatever its age.  stop stays set.             *)
(***************************************************************************)
AbortReadRunning ==
  /\ CanStore
  /\ Starts("abort", IF running THEN "stop" ELSE "override")
  /\ UNCHANGED <<override, running, stop, ramp, reply, held, sharedVars>>

AbortReadOverride ==
  /\ At("abort", "override")
  /\ IF override THEN GoTo("abort", "stop") ELSE exec' = Idle
  /\ UNCHANGED <<override, running, stop, ramp, reply, held, sharedVars>>

AbortStop ==
  /\ At("abort", "stop")
  /\ stop' = TRUE
  /\ GoTo("abort", "join")
  /\ UNCHANGED <<override, running, ramp, reply, held, sharedVars>>

AbortLatch ==
  /\ At("abort", "join")
  /\ Joinable
  /\ ramp' = NoRamp
  /\ IF feedback.ready THEN Store("measured") ELSE UNCHANGED command
  /\ running' = FALSE
  /\ override' = TRUE
  /\ Latch
  /\ exec' = Idle
  /\ UNCHANGED <<stop, reply, feedback, torqueReq, torqueAck, busRunning>>

(***************************************************************************)
(* The node's destructor, after spin has returned: stop and join the ramp, *)
(* then stop the bus worker (ServoBus::stop joins it).                     *)
(***************************************************************************)
ShutdownStop ==
  /\ Starts("shutdown", "join")
  /\ stop' = TRUE
  /\ UNCHANGED <<override, running, ramp, reply, held, sharedVars>>

ShutdownJoin ==
  /\ At("shutdown", "join")
  /\ Joinable
  /\ ramp' = NoRamp
  /\ GoTo("shutdown", "down")
  /\ UNCHANGED <<override, running, stop, reply, held, sharedVars>>

-----------------------------------------------------------------------------
(***************************************************************************)
(* The pose thread, runPoseRamp.                                           *)
(***************************************************************************)
RampMoves(place) == ramp' = [ramp EXCEPT !.at = place]

RampStore ==
  /\ ramp.at = "loop"
  /\ ramp.step < RampSteps
  /\ ~stop
  /\ Store("ramp")
  /\ ramp' = [ramp EXCEPT !.at = "sleep", !.step = @ + 1]
  /\ UNCHANGED <<override, running, stop, exec, reply, held,
                 feedback, torqueReq, torqueAck, busRunning>>

RampWake ==
  /\ ramp.at = "sleep"
  /\ RampMoves("loop")
  /\ UNCHANGED <<override, running, stop, exec, reply, held, sharedVars>>

\* Mutant: a stopped thread waits for its last step.
RampLoopExitAtGoalOnly ==
  /\ ramp.at = "loop"
  /\ ramp.step = RampSteps
  /\ RampMoves("check")
  /\ UNCHANGED <<override, running, stop, exec, reply, held, sharedVars>>

RampLoopExit ==
  /\ ramp.at = "loop"
  /\ ramp.step = RampSteps \/ stop
  /\ RampMoves("check")
  /\ UNCHANGED <<override, running, stop, exec, reply, held, sharedVars>>

\* const bool aborted = pose_stop_requested_.load()
RampCheck ==
  /\ ramp.at = "check"
  /\ ramp' = [ramp EXCEPT !.at = IF stop THEN "abort" ELSE "goal",
                          !.aborted = stop]
  /\ UNCHANGED <<override, running, stop, exec, reply, held, sharedVars>>

RampGoal ==
  /\ ramp.at = "goal"
  /\ Store("goal")
  /\ RampMoves("clear")
  /\ UNCHANGED <<override, running, stop, exec, reply, held,
                 feedback, torqueReq, torqueAck, busRunning>>

RampAbort ==
  /\ ramp.at = "abort"
  /\ override' = TRUE
  /\ RampMoves("clear")
  /\ UNCHANGED <<running, stop, exec, reply, held, sharedVars>>

\* Mutant: the running flag is never cleared.
RampClearForgets ==
  /\ ramp.at = "clear"
  /\ RampMoves(IF ramp.aborted \/ HoldAfterMove THEN "ended" ELSE "finish")
  /\ UNCHANGED <<override, running, stop, exec, reply, held, sharedVars>>

RampClear ==
  /\ ramp.at = "clear"
  /\ running' = FALSE
  /\ RampMoves(IF ramp.aborted \/ HoldAfterMove THEN "ended" ELSE "finish")
  /\ UNCHANGED <<override, stop, exec, reply, held, sharedVars>>

\* Only with default_pose_hold_after_move=false.
RampRelease ==
  /\ ramp.at = "finish"
  /\ override' = FALSE
  /\ RampMoves("ended")
  /\ UNCHANGED <<running, stop, exec, reply, held, sharedVars>>

-----------------------------------------------------------------------------
(***************************************************************************)
(* The bus worker, as far as this node can see it.                         *)
(***************************************************************************)
EnvFeedback ==
  /\ feedback' \in [ready : {feedback.ready, TRUE}, age : Age]
  /\ UNCHANGED <<nodeVars, command, torqueReq, torqueAck, busRunning>>

EnvTorque ==
  /\ \E s \in (torqueAck.seq + 1) .. torqueReq.seq, ok \in BOOLEAN :
       torqueAck' = [seq |-> s, ok |-> ok]
  /\ UNCHANGED <<nodeVars, command, feedback, torqueReq, busRunning>>

EnvBus ==
  /\ busRunning' = ~busRunning
  /\ UNCHANGED <<nodeVars, command, feedback, torqueReq, torqueAck>>

Env == EnvFeedback \/ EnvTorque \/ EnvBus

Executor ==
  \/ TargetAccepted \/ TargetStore
  \/ MoveAccepted \/ MoveSpawn
  \/ ReleaseAccepted \/ ReleaseClear
  \/ HoldStop \/ HoldLatch
  \/ DisableStop \/ DisableOverride
  \/ EnableStop \/ EnableSeed \/ EnableWake
  \/ TorqueRequest \/ TorqueReply \/ TorqueTimeout
  \/ AbortReadRunning \/ AbortReadOverride \/ AbortStop \/ AbortLatch
  \/ ShutdownStop \/ ShutdownJoin

Ramp ==
  \/ RampStore \/ RampWake \/ RampLoopExit \/ RampCheck \/ RampGoal
  \/ RampAbort \/ RampClear \/ RampRelease

\* After the destructor nothing of this node moves any more.
Terminated == At("shutdown", "down") /\ UNCHANGED vars

Next == Executor \/ Ramp \/ Env \/ Terminated

(***************************************************************************)
(* The scheduler runs a started callback and the pose thread to their end: *)
(* join() and sleep_for() return, the torque wait is bounded by its        *)
(* timeout.  Nothing obliges a client to call a service or the worker to   *)
(* make progress.                                                          *)
(***************************************************************************)
ExecutorContinues == exec # Idle /\ Executor
Fairness == WF_vars(ExecutorContinues) /\ WF_vars(Ramp)

Spec == Init /\ [][Next]_vars /\ Fairness

-----------------------------------------------------------------------------
(***************************************************************************)
(* Properties.                                                             *)
(***************************************************************************)

\* The pose thread may still put a target of its own into the buffer.
RampOwns == ramp.at \in {"loop", "sleep", "check", "goal", "abort"}

\* Who owns the command buffer, in the terms of CommandAuthority.
Owner == IF RampOwns THEN "ramp" ELSE IF override THEN "hold" ELSE "external"

Authority == INSTANCE CommandAuthority WITH owner <- Owner

\* As long as the pose thread may still store a target the override is up,
\* so an external target and a ramp target never alternate in the buffer.
RampIsExclusive ==
  /\ RampOwns => override
  /\ RampOwns => ~At("target", "store")

\* hold, abort, disable and enable promise that the buffer keeps what they
\* left in it: until a release or a new move no external target, no late
\* ramp target and no late clearing of the override gets through.
HoldIsKept ==
  held.active => override /\ command = held.cmd

\* Two stores in a row tell the same story: a ramp target only ever follows
\* the measured seed of its own move or another ramp target, and the goal
\* only follows a ramp target; a ramp is never resumed over a foreign
\* command.
RampOrder ==
  [][command' # command =>
       /\ command'.src = "ramp" => command.src \in {"measured", "ramp"}
       /\ command'.src = "goal" => command.src = "ramp"]_vars

\* The threads of this node implement the ownership discipline of
\* CommandAuthority, the docs' table of authority states inside the driver.
ImplementsAuthority == Authority!Spec

\* Every service callback returns: the joins, the nap and the torque wait
\* all come to an end, also when the worker has died.
CallbacksReturn ==
  (exec # Idle) ~> (exec = Idle \/ At("shutdown", "down"))

\* A guarded move ends: the pose thread returns.
RampEnds == RampOwns ~> ramp.at \in {"none", "ended"}

\* Nobody waits for somebody who waits for him: the executor joins the pose thread,
\* whose ramp stops for the executor's flags, and both come to an end.
NothingBlocks == CallbacksReturn /\ RampEnds

-----------------------------------------------------------------------------
(***************************************************************************)
(* The inductive invariant behind the safety properties (proved in         *)
(* DriverNode_proofs).                                                     *)
(***************************************************************************)

\* While the thread may store or is about to clear its flag, both flags are up.
FlagsCoverRamp ==
  /\ RampOwns \/ ramp.at = "clear" => running /\ override
  /\ ramp.at = "finish" => ~running

\* Whoever has asked a live thread to stop is waiting for it to return.
StopIsJoined == stop /\ ~Joinable => exec.at = "join"

\* What the executor has read stays true until it acts on it.
ReadsHold ==
  /\ At("target", "store") => ~override
  /\ At("release", "clear") => ~running
  /\ At("move", "join") => ~running

\* The buffer of an owning ramp holds its own seed or its own last target.
RampHistory ==
  /\ RampOwns => command.src = IF ramp.step = 0 THEN "measured" ELSE "ramp"
  /\ ramp.at = "check" /\ ~stop => ramp.step = RampSteps
  /\ ramp.at = "goal" => ramp.step = RampSteps
  /\ ramp.at = "sleep" => ramp.step > 0

HeldIsFrozen ==
  held.active => /\ override
                 /\ command = held.cmd
                 /\ ramp.at = "none"

IInv ==
  /\ TypeOK
  /\ FlagsCoverRamp
  /\ StopIsJoined
  /\ ReadsHold
  /\ RampHistory
  /\ HeldIsFrozen
=============================================================================
