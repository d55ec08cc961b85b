----------------------------- MODULE PoseConsole -----------------------------
(***************************************************************************)
(* pose_console: asks for MOVE, starts the guarded move, then watches the  *)
(* keyboard and the driver's diagnostics until the ramp ends or a key asks *)
(* for the abort.  While it waits for the confirmation it receives nothing *)
(* and diagnostics wait in its subscription's queue.                       *)
(***************************************************************************)
EXTENDS ToolServices, Sequences

CONSTANT QueueDepth     \* of the diagnostics subscription (10 in the code)

VARIABLES
  at,        \* where the tool is, "exited" when it does not run
  outcome,   \* why it exited
  queue,     \* diagnostics not received yet: was a ramp running?
  reply      \* the answer to the abort: "none", "ok", "refused"

consoleVars == <<at, outcome, queue, reply>>
Console == "console"

Places == {"services", "prompt", "move", "watch", "abort", "interrupt", "exited"}
Outcomes == {"none", "unavailable", "cancelled", "moveLost", "moveRejected",
             "abortLost", "aborted", "complete", "interrupted"}

ConsoleTypeOK ==
  /\ at \in Places /\ outcome \in Outcomes /\ reply \in {"none", "ok", "refused"}
  /\ queue \in Seq(BOOLEAN) /\ Len(queue) <= QueueDepth

ConsoleInit == at = "exited" /\ outcome = "none" /\ queue = <<>> /\ reply = "none"

Goto(place) == at' = place /\ UNCHANGED <<outcome, queue, reply>>
Leave(why) == at' = "exited" /\ outcome' = why /\ UNCHANGED <<queue, reply>>

StartConsole ==
  /\ at = "exited"
  /\ Begin(Console)
  /\ at' = "services" /\ outcome' = "none" /\ queue' = <<>> /\ reply' = "none"

\* wait_for_services
ServicesFound == at = "services" /\ Goto("prompt") /\ UNCHANGED serviceVars
NoServices == at = "services" /\ Leave("unavailable") /\ UNCHANGED serviceVars

\* input(): MOVE, or anything else.
Confirm == at = "prompt" /\ Send(Console, "move") /\ Goto("move")
Cancel == at = "prompt" /\ Leave("cancelled") /\ UNCHANGED serviceVars

MoveAnswered ==
  /\ at = "move"
  /\ \/ Answered(Console, "move", "ok") /\ Goto("watch")
     \/ Answered(Console, "move", "refused") /\ Leave("moveRejected")
     \/ TimesOut(Console, "move") /\ Leave("moveLost")

\* The driver's timer publishes its diagnostics; the oldest one gives way.
Publish ==
  /\ at # "exited"
  /\ LET full == Append(queue, owner = "ramp")
     IN  queue' = IF Len(full) > QueueDepth THEN Tail(full) ELSE full
  /\ UNCHANGED <<at, outcome, reply, serviceVars>>

\* spin_once while waiting for services or for an answer.
Receive ==
  /\ at \in {"services", "move", "abort", "interrupt"} /\ queue # <<>>
  /\ queue' = Tail(queue)
  /\ UNCHANGED <<at, outcome, reply, serviceVars>>

\* One turn of the loop: a diagnostic received now counts as newer than the
\* start of the move, and ends the run if it says that no ramp is running.
Watch ==
  /\ at = "watch" /\ queue # <<>>
  /\ queue' = Tail(queue)
  /\ IF Head(queue) THEN UNCHANGED <<at, outcome, reply>>
     ELSE at' = "exited" /\ outcome' = "complete" /\ UNCHANGED reply
  /\ UNCHANGED serviceVars

\* SPACE, q, a or ESC
Key == at = "watch" /\ Send(Console, "abort") /\ Goto("abort")

AbortAnswered ==
  /\ at \in {"abort", "interrupt"}
  /\ LET why == IF at = "abort" THEN "aborted" ELSE "interrupted"
     IN  \/ /\ \E r \in {"ok", "refused"} : Answered(Console, "abort", r) /\ reply' = r
            /\ at' = "exited" /\ outcome' = why /\ UNCHANGED queue
         \/ TimesOut(Console, "abort") /\ Leave("abortLost")

\* Ctrl+C: only a move that was answered, and not yet aborted, is aborted.
Interrupt ==
  \/ at = "watch" /\ Send(Console, "abort") /\ Goto("interrupt")
  \/ /\ at \in {"services", "prompt", "move", "abort", "interrupt"}
     /\ call' = [call EXCEPT ![Console] = NoCall]
     /\ UNCHANGED <<nodeVars, sent, run, setBy, alone>>
     /\ Leave("interrupted")

ConsoleStep ==
  \/ StartConsole \/ ServicesFound \/ NoServices \/ Confirm \/ Cancel \/ MoveAnswered
  \/ Receive \/ Watch \/ Key \/ AbortAnswered \/ Interrupt
=============================================================================
