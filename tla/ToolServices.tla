--------------------------- MODULE ToolServices ---------------------------
(***************************************************************************)
(* The driver node and the policy node as the operator's command-line      *)
(* tools reach them: Trigger services and the driver's diagnostics topic.  *)
(* A request is executed once, some time after it was sent, whether or not *)
(* its caller still waits for the answer.                                  *)
(***************************************************************************)
EXTENDS Naturals, FiniteSets

CONSTANTS
  Clients,       \* the tools
  HoldAfterMove, \* parameter default_pose_hold_after_move of the driver
  MaxRuns        \* how many runs of tools there are (bound)

VARIABLES
  writes,             \* writes_enabled, fixed when the driver starts
  owner,              \* whose targets the driver follows: "external", "ramp" or "hold"
  armed, authority,   \* handoff_armed_, policy_authority_enabled_
  broken,             \* history: an IMU break has disarmed the policy since the last arm
  sent,               \* requests not executed yet
  call,               \* per tool: the call it waits for, and the answer
  run,                \* per tool: the number of its run
  setBy,              \* history: the run whose request last changed owner, 0 for none
  alone               \* history: since a tool's run began, only requests it waited for were executed

nodeVars == <<writes, owner, armed, authority, broken>>
serviceVars == <<nodeVars, sent, call, run, setBy, alone>>

Services == {"configure", "move", "release", "hold", "abort", "arm", "enable", "disable"}
NoCall == [srv |-> "none", reply |-> "none"]

ServicesTypeOK ==
  /\ writes \in BOOLEAN /\ owner \in {"external", "ramp", "hold"}
  /\ {armed, authority, broken} \subseteq BOOLEAN
  /\ sent \subseteq [from : Clients, srv : Services, run : 1 .. MaxRuns]
  /\ call \in [Clients -> [srv : Services \cup {"none"}, reply : {"none", "ok", "refused"}]]
  /\ run \in [Clients -> 0 .. MaxRuns] /\ setBy \in 0 .. MaxRuns
  /\ alone \in [Clients -> BOOLEAN]

ServicesInit ==
  /\ writes \in BOOLEAN /\ owner \in {"external", "hold"}
  /\ armed = FALSE /\ authority = FALSE /\ broken = FALSE
  /\ sent = {} /\ call = [c \in Clients |-> NoCall]
  /\ run = [c \in Clients |-> 0] /\ setBy = 0
  /\ alone = [c \in Clients |-> TRUE]

-----------------------------------------------------------------------------
(* The services.  ok is the answer; where feedback, posture or parameters   *)
(* decide, either answer is possible.                                       *)

KeepsPolicy == UNCHANGED <<armed, authority, broken>>

Move(ok) ==
  /\ ok => writes /\ owner # "ramp"
  /\ owner' = IF ok THEN "ramp" ELSE owner
  /\ KeepsPolicy

Release(ok) ==
  /\ ok <=> owner # "ramp"
  /\ owner' = IF ok THEN "external" ELSE owner
  /\ KeepsPolicy

Hold(ok) ==
  /\ ok <=> writes
  /\ owner' = IF ok THEN "hold" ELSE owner
  /\ KeepsPolicy

Abort(ok) ==
  /\ ok <=> owner # "external"
  /\ owner' = IF ok THEN "hold" ELSE owner
  /\ KeepsPolicy

\* A refusal takes authority away too, but leaves armed as it was.
Arm(ok) ==
  /\ authority' = FALSE
  /\ armed' = (ok \/ armed) /\ broken' = (broken /\ ~ok)
  /\ UNCHANGED owner

\* Refused without fresh inputs, or with a failed validation, which disarms.
Enable(ok) ==
  /\ ok => armed
  /\ authority' = (ok \/ authority)
  /\ armed' \in (IF ok THEN {TRUE} ELSE {armed, FALSE})
  /\ UNCHANGED <<owner, broken>>

Disable(ok) ==
  /\ ok /\ armed' = FALSE /\ authority' = FALSE
  /\ UNCHANGED <<owner, broken>>

Configure(ok) == ok \in BOOLEAN /\ UNCHANGED owner /\ KeepsPolicy

Execute(srv, ok) ==
  CASE srv = "configure" -> Configure(ok)
    [] srv = "move" -> Move(ok)
    [] srv = "release" -> Release(ok)
    [] srv = "hold" -> Hold(ok)
    [] srv = "abort" -> Abort(ok)
    [] srv = "arm" -> Arm(ok)
    [] srv = "enable" -> Enable(ok)
    [] srv = "disable" -> Disable(ok)

Awaited(r) == run[r.from] = r.run /\ call[r.from] = [srv |-> r.srv, reply |-> "none"]

Serve ==
  \E r \in sent, ok \in BOOLEAN :
    /\ Execute(r.srv, ok)
    /\ sent' = sent \ {r}
    /\ call' = IF Awaited(r)
               THEN [call EXCEPT ![r.from].reply = IF ok THEN "ok" ELSE "refused"]
               ELSE call
    /\ alone' = [c \in Clients |-> alone[c] /\ c = r.from /\ Awaited(r)]
    /\ setBy' = IF owner' # owner THEN r.run ELSE setBy
    /\ UNCHANGED <<writes, run>>

\* The ramp reaches its goal and its pose is held, or external targets are accepted again.
RampEnds ==
  /\ owner = "ramp"
  /\ owner' = IF HoldAfterMove THEN "hold" ELSE "external"
  /\ UNCHANGED <<writes, armed, authority, broken, sent, call, run, setBy, alone>>

\* The IMU stream breaks: the policy is disarmed, and loses an authority that a refused
\* enable has left without the arming.
ImuBreaks ==
  /\ armed \/ authority
  /\ armed' = FALSE /\ authority' = FALSE /\ broken' = TRUE
  /\ UNCHANGED <<writes, owner, sent, call, run, setBy, alone>>

-----------------------------------------------------------------------------
(* The client side of a call.                                               *)

\* Runs are numbered over all tools.
Latest == CHOOSE n \in {run[c] : c \in Clients} : \A c \in Clients : run[c] <= n

Begin(c) ==
  /\ \A d \in Clients : run[d] < MaxRuns
  /\ run' = [run EXCEPT ![c] = Latest + 1]
  /\ alone' = [alone EXCEPT ![c] = TRUE]
  /\ UNCHANGED <<nodeVars, sent, call, setBy>>

Send(c, srv) ==
  /\ call[c] = NoCall
  /\ sent' = sent \cup {[from |-> c, srv |-> srv, run |-> run[c]]}
  /\ call' = [call EXCEPT ![c] = [srv |-> srv, reply |-> "none"]]
  /\ UNCHANGED <<nodeVars, run, setBy, alone>>

\* The answer arrives in time.
Answered(c, srv, reply) ==
  /\ call[c] = [srv |-> srv, reply |-> reply]
  /\ call' = [call EXCEPT ![c] = NoCall]
  /\ UNCHANGED <<nodeVars, sent, run, setBy, alone>>

\* It does not: the request stays with the server, or has been executed and its
\* answer is on the way.
TimesOut(c, srv) ==
  /\ call[c].srv = srv
  /\ call' = [call EXCEPT ![c] = NoCall]
  /\ UNCHANGED <<nodeVars, sent, run, setBy, alone>>
=============================================================================
