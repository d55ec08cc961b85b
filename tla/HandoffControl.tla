--------------------------- MODULE HandoffControl ---------------------------
(***************************************************************************)
(* policy_handoff_control: one stage of the hand-off, a fixed sequence of  *)
(* calls.  A refused arm or release is tried again until its deadline; any *)
(* other refusal, and every time-out, ends the run; a failed enable first  *)
(* asks the driver to hold.                                                *)
(***************************************************************************)
EXTENDS ToolServices, Integers, Sequences

CONSTANT MaxTries      \* calls that fit before a retry deadline (bound)

VARIABLES
  stage,     \* the argument
  step,      \* index into the stage's calls; 0 before, Relatch after a failed enable
  tries,     \* attempts of the current call
  code,      \* exit code; "none" while the tool runs
  told       \* history: what this run was last told about the driver's release

handoffVars == <<stage, step, tries, code, told>>

\* A plausible slip: authority before the driver follows the policy.
PlanEnableFirst == [disable |-> <<"disable", "hold">>,
                    pose    |-> <<"configure", "move">>,
                    arm     |-> <<"arm">>,
                    live    |-> <<"configure", "move", "arm", "enable", "release">>,
                    release |-> <<"configure", "arm", "enable", "release">>]

\* The calls of each stage.
Plan == [disable |-> <<"disable", "hold">>,
         pose    |-> <<"configure", "move">>,
         arm     |-> <<"arm">>,
         live    |-> <<"configure", "move", "arm", "release", "enable">>,
         release |-> <<"configure", "arm", "release", "enable">>]

Stages == DOMAIN Plan
Relatch == 9
Handoff == "handoff"

HandoffTypeOK ==
  /\ stage \in Stages /\ step \in 0 .. 5 \cup {Relatch} /\ tries \in 0 .. MaxTries
  /\ code \in {"none", "0", "2", "5", "killed"}
  /\ told \in {"nothing", "released", "held", "refused", "lost"}

HandoffInit ==
  stage = "pose" /\ step = 0 /\ tries = 0 /\ code = "0" /\ told = "nothing"

Running == code = "none"
Current == IF step = Relatch THEN "hold" ELSE Plan[stage][step]
Retried == {"arm", "release"}
Exit(c) == code' = c /\ step' = 0 /\ tries' = 0 /\ UNCHANGED stage

\* load_profile: the effective pose is source median plus trim, moved only by a
\* clamp that declares where from, where to and by how much.
ProfileAccepted(p) ==
  /\ \A i, j \in DOMAIN p.clamps :
       /\ p.clamps[i].index \in DOMAIN p.pose
       /\ p.clamps[i].index = p.clamps[j].index => i = j
  /\ \A k \in DOMAIN p.pose :
       LET planned == p.source[k] + p.trim[k]
           clamps  == {p.clamps[i] : i \in {j \in DOMAIN p.clamps : p.clamps[j].index = k}}
       IN  /\ clamps = {} => p.pose[k] = planned
           /\ \A c \in clamps :
                c.pre = planned /\ c.effective - c.pre = c.delta /\ p.pose[k] = c.effective

\* Profiles of one joint, with and without a clamp.
Clamp == [index : {1}, pre : {1}, effective : {0}, delta : {-1, 0}]
Profiles == [pose : {<<0>>, <<1>>}, source : {<<0>>}, trim : {<<1>>},
             clamps : {<<>>} \cup {<<c>> : c \in Clamp} \cup {<<c, c>> : c \in Clamp}]

Start ==
  /\ ~Running
  /\ Begin(Handoff)
  /\ stage' \in Stages /\ tries' = 0 /\ told' = "nothing"
  /\ \E p \in Profiles :
       IF ProfileAccepted(p) THEN step' = 1 /\ code' = "none"
       ELSE step' = 0 /\ code' = "5"

Call ==
  /\ Running /\ tries < MaxTries
  /\ Send(Handoff, Current)
  /\ tries' = tries + 1
  /\ UNCHANGED <<stage, step, code, told>>

\* The next call, or the end of the stage.
Succeeded ==
  /\ Running /\ step # Relatch
  /\ Answered(Handoff, Current, "ok")
  /\ told' = IF Current = "release" THEN "released" ELSE told
  /\ tries' = 0
  /\ IF step < Len(Plan[stage])
       THEN step' = step + 1 /\ UNCHANGED <<stage, code>>
       ELSE step' = 0 /\ code' = "0" /\ UNCHANGED stage

\* arm_with_retry, release_with_retry: a refusal before the deadline.
Retry ==
  /\ Running /\ step # Relatch /\ Current \in Retried /\ tries < MaxTries
  /\ Answered(Handoff, Current, "refused")
  /\ UNCHANGED handoffVars

FailWithoutRelatch == Exit("2") /\ UNCHANGED told

\* What follows a failed call: after enable, the hold; else the end.
Fail ==
  IF Current = "enable"
  THEN step' = Relatch /\ tries' = 0 /\ UNCHANGED <<stage, code, told>>
  ELSE Exit("2") /\ UNCHANGED told

Refused ==
  /\ Running /\ step # Relatch
  /\ Current \in Retried => tries = MaxTries
  /\ Answered(Handoff, Current, "refused")
  /\ Fail

TimedOut ==
  /\ Running /\ step # Relatch
  /\ TimesOut(Handoff, Current)
  /\ Fail

\* wait_for_service gave up: nothing is sent.
Unavailable ==
  /\ Running /\ call[Handoff] = NoCall /\ step # Relatch
  /\ Fail
  /\ UNCHANGED serviceVars

\* The hold after a failed enable: whatever its outcome, the failure is reported.
Relatched ==
  /\ Running /\ step = Relatch
  /\ \/ Answered(Handoff, "hold", "ok") /\ told' = "held"
     \/ Answered(Handoff, "hold", "refused") /\ told' = "refused"
     \/ TimesOut(Handoff, "hold") /\ told' = "lost"
     \/ tries = 0 /\ told' = "lost" /\ UNCHANGED serviceVars
  /\ Exit("2")

\* Ctrl+C is not handled.
Killed ==
  /\ Running
  /\ call' = [call EXCEPT ![Handoff] = NoCall]
  /\ Exit("killed")
  /\ UNCHANGED <<told, nodeVars, sent, run, setBy, alone>>

HandoffStep ==
  \/ Call \/ Succeeded \/ Retry \/ Refused \/ TimedOut \/ Unavailable
  \/ Relatched
=============================================================================
