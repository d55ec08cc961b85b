-------------------------- MODULE OperatorTools_proofs --------------------------
(***************************************************************************)
(* Proofs about OperatorTools, for every number of runs and attempts.      *)
(*                                                                         *)
(* A request that is executed for somebody else, or for a caller that has  *)
(* stopped waiting, ends "alone" for everybody; so while a tool is alone,  *)
(* what its last call left behind changes only by the end of a ramp, by an *)
(* IMU break or by its next call, and the order of the calls in Plan does  *)
(* the rest.                                                               *)
(***************************************************************************)
EXTENDS OperatorTools, TLAPS

-----------------------------------------------------------------------------
(***************************************************************************)
(* The plan: what precedes each call, and what a whole stage has called.   *)
(***************************************************************************)

LEMMA PlanCalls ==
  ASSUME NEW s \in Stages
  PROVE  /\ Len(Plan[s]) \in 1 .. 5 /\ DOMAIN Plan[s] = 1 .. Len(Plan[s])
         /\ \A i \in DOMAIN Plan[s] : Plan[s][i] \in Services \ {"abort"}
<1>1. Plan[s] \in {<<"disable", "hold">>, <<"configure", "move">>, <<"arm">>,
                   <<"configure", "move", "arm", "release", "enable">>,
                   <<"configure", "arm", "release", "enable">>}
  BY DEF Plan, Stages
<1> QED
  BY <1>1 DEF Services

Before(s, i, srv) == \E j \in 1 .. (i - 1) : Plan[s][j] = srv

\* The order of the calls, on which every promise of the tool rests.
LEMMA PlanOrder ==
  ASSUME NEW s \in Stages, NEW i \in DOMAIN Plan[s]
  PROVE  /\ Plan[s][i] = "move" => ~Before(s, i, "hold") /\ ~Before(s, i, "release")
         /\ Plan[s][i] = "hold" => ~Before(s, i, "move") /\ ~Before(s, i, "release")
         /\ Plan[s][i] = "release" => /\ ~Before(s, i, "hold") /\ ~Before(s, i, "enable")
                                      /\ Before(s, i, "arm")
                                      /\ i < Len(Plan[s]) /\ Plan[s][i + 1] = "enable"
         /\ Plan[s][i] = "arm" => /\ ~Before(s, i, "disable") /\ ~Before(s, i, "enable")
                                  /\ ~Before(s, i, "arm") /\ ~Before(s, i, "release")
         /\ Plan[s][i] = "enable" => /\ ~Before(s, i, "disable") /\ Before(s, i, "release")
                                     /\ i = Len(Plan[s]) /\ s \in {"live", "release"}
         /\ Plan[s][i] = "disable" => ~Before(s, i, "enable") /\ s = "disable"
         /\ Plan[s][i] = "configure" => i = 1
<1>1. CASE s = "disable"
  BY <1>1 DEF Plan, Stages, Before
<1>2. CASE s = "pose"
  BY <1>2 DEF Plan, Stages, Before
<1>3. CASE s = "arm"
  BY <1>3 DEF Plan, Stages, Before
<1>4. CASE s = "live"
  BY <1>4 DEF Plan, Stages, Before
<1>5. CASE s = "release"
  BY <1>5 DEF Plan, Stages, Before
<1> QED
  BY <1>1, <1>2, <1>3, <1>4, <1>5 DEF Plan, Stages

\* What the whole of a stage calls.
All(s, srv) == \E i \in 1 .. Len(Plan[s]) : Plan[s][i] = srv

LEMMA PlanEnds ==
  /\ All("pose", "move") /\ ~All("pose", "release")
  /\ All("disable", "disable") /\ All("disable", "hold")
  /\ All("arm", "arm") /\ ~All("arm", "enable")
  /\ \A s \in {"live", "release"} : All(s, "release") /\ All(s, "enable")
<1>1. \A i \in 1 .. 2 : Plan["pose"][i] # "release"
  BY DEF Plan
<1>2. Plan["pose"][2] = "move" /\ Plan["disable"][1] = "disable" /\ Plan["disable"][2] = "hold"
      /\ Plan["arm"][1] = "arm" /\ Plan["live"][4] = "release" /\ Plan["live"][5] = "enable"
      /\ Plan["release"][3] = "release" /\ Plan["release"][4] = "enable"
  BY DEF Plan
<1>3. Len(Plan["pose"]) = 2 /\ Len(Plan["disable"]) = 2 /\ Len(Plan["arm"]) = 1
      /\ Len(Plan["live"]) = 5 /\ Len(Plan["release"]) = 4
  BY DEF Plan
<1> QED
  BY <1>1, <1>2, <1>3 DEF All

-----------------------------------------------------------------------------
(***************************************************************************)
(* The calls.                                                              *)
(***************************************************************************)

LEMMA TwoClients == Clients = {Handoff, Console} /\ Handoff # Console
  BY ToolsAssumption DEF Handoff, Console

LEMMA LatestType ==
  ASSUME ServicesTypeOK
  PROVE  Latest \in 0 .. MaxRuns /\ \E c \in Clients : Latest = run[c]
<1>1. run[Handoff] \in 0 .. MaxRuns /\ run[Console] \in 0 .. MaxRuns /\ MaxRuns \in Nat
  BY TwoClients, ToolsAssumption DEF ServicesTypeOK
<1>2. \E n \in {run[c] : c \in Clients} : \A c \in Clients : run[c] <= n
  <2>1. CASE run[Handoff] <= run[Console]
    BY <1>1, <2>1, TwoClients
  <2>2. CASE run[Console] <= run[Handoff]
    BY <1>1, <2>2, TwoClients
  <2> QED
    BY <1>1, <2>1, <2>2
<1>3. Latest \in {run[c] : c \in Clients}
  BY <1>2 DEF Latest
<1> QED
  BY <1>1, <1>3, TwoClients

\* What the services promise of their variables, when a tool begins a run, sends a
\* request, or stops waiting for the answer; the other tool's part stays.
LEMMA BeginCall ==
  ASSUME ServicesTypeOK, NEW c \in Clients, Begin(c)
  PROVE  /\ ServicesTypeOK' /\ run'[c] > 0 /\ call' = call
         /\ \A d \in Clients \ {c} : run'[d] = run[d] /\ alone'[d] = alone[d]
<1>1. Latest \in 0 .. MaxRuns /\ Latest < MaxRuns /\ MaxRuns \in Nat
  BY LatestType, ToolsAssumption DEF Begin
<1>2. run' \in [Clients -> 0 .. MaxRuns] /\ run'[c] > 0
  BY <1>1 DEF ServicesTypeOK, Begin
<1>3. alone' \in [Clients -> BOOLEAN]
  BY DEF ServicesTypeOK, Begin
<1>4. \A d \in Clients \ {c} : run'[d] = run[d] /\ alone'[d] = alone[d]
  BY DEF ServicesTypeOK, Begin
<1>5. UNCHANGED <<writes, owner, armed, authority, broken, sent, call, setBy>>
  BY DEF Begin, nodeVars
<1> QED
  BY <1>2, <1>3, <1>4, <1>5 DEF ServicesTypeOK

LEMMA SendCall ==
  ASSUME ServicesTypeOK, NEW c \in Clients, NEW srv \in Services, run[c] > 0, Send(c, srv)
  PROVE  /\ ServicesTypeOK' /\ call'[c] = [srv |-> srv, reply |-> "none"]
         /\ \A d \in Clients \ {c} : call'[d] = call[d]
<1>1. run[c] \in 1 .. MaxRuns
  BY DEF ServicesTypeOK
<1>2. sent' \subseteq [from : Clients, srv : Services, run : 1 .. MaxRuns]
  BY <1>1 DEF ServicesTypeOK, Send
<1>3. /\ call' \in [Clients -> [srv : Services \cup {"none"}, reply : {"none", "ok", "refused"}]]
      /\ call'[c] = [srv |-> srv, reply |-> "none"]
      /\ \A d \in Clients \ {c} : call'[d] = call[d]
  BY DEF ServicesTypeOK, Send
<1>4. UNCHANGED <<writes, owner, armed, authority, broken, run, setBy, alone>>
  BY DEF Send, nodeVars
<1> QED
  BY <1>2, <1>3, <1>4 DEF ServicesTypeOK

LEMMA EndCall ==
  ASSUME ServicesTypeOK, NEW c \in Clients, call' = [call EXCEPT ![c] = NoCall],
         UNCHANGED <<nodeVars, sent, run, setBy, alone>>
  PROVE  /\ ServicesTypeOK' /\ call'[c] = NoCall
         /\ \A d \in Clients \ {c} : call'[d] = call[d]
<1>1. /\ call' \in [Clients -> [srv : Services \cup {"none"}, reply : {"none", "ok", "refused"}]]
      /\ call'[c] = NoCall
      /\ \A d \in Clients \ {c} : call'[d] = call[d]
  BY DEF ServicesTypeOK, NoCall
<1> QED
  BY <1>1 DEF ServicesTypeOK, nodeVars

\* A request that is executed is answered if its caller waits for it; the caller is the
\* only one that can stay alone.
LEMMA ServeCall ==
  ASSUME ServicesTypeOK, NEW r \in sent, NEW ok \in BOOLEAN, Execute(r.srv, ok),
         call' = (IF Awaited(r)
                  THEN [call EXCEPT ![r.from].reply = IF ok THEN "ok" ELSE "refused"]
                  ELSE call),
         alone' = [c \in Clients |-> alone[c] /\ c = r.from /\ Awaited(r)]
  PROVE  /\ r.from \in Clients /\ r.srv \in Services /\ r.run \in 1 .. MaxRuns
         /\ call' \in [Clients -> [srv : Services \cup {"none"}, reply : {"none", "ok", "refused"}]]
         /\ \A c \in Clients :
              /\ call'[c].srv = call[c].srv
              /\ call'[c] = IF c = r.from /\ Awaited(r)
                            THEN [srv |-> r.srv, reply |-> IF ok THEN "ok" ELSE "refused"]
                            ELSE call[c]
              /\ alone'[c] => alone[c] /\ c = r.from /\ Awaited(r)
         /\ alone' \in [Clients -> BOOLEAN]
<1>1. r.from \in Clients /\ r.srv \in Services /\ r.run \in 1 .. MaxRuns
  BY DEF ServicesTypeOK
<1>2. /\ alone' \in [Clients -> BOOLEAN]
      /\ \A c \in Clients : alone'[c] => alone[c] /\ c = r.from /\ Awaited(r)
  OBVIOUS
<1>3. CASE Awaited(r)
  BY <1>1, <1>2, <1>3 DEF ServicesTypeOK, Awaited
<1>4. CASE ~Awaited(r)
  BY <1>1, <1>2, <1>4 DEF ServicesTypeOK
<1> QED
  BY <1>3, <1>4

LEMMA ExecuteType ==
  ASSUME ServicesTypeOK, NEW srv \in Services, NEW ok \in BOOLEAN, Execute(srv, ok)
  PROVE  owner' \in {"external", "ramp", "hold"} /\ {armed, authority, broken}' \subseteq BOOLEAN
<1>1. owner \in {"external", "ramp", "hold"} /\ armed \in BOOLEAN /\ authority \in BOOLEAN
      /\ broken \in BOOLEAN
  BY DEF ServicesTypeOK
<1>2. owner' \in {"external", "ramp", "hold"}
  BY <1>1 DEF Execute, Services, Move, Release, Hold, Abort, Arm, Enable, Disable, Configure
<1>3. CASE srv \in {"configure", "move", "release", "hold", "abort"}
  BY <1>1, <1>2, <1>3 DEF Execute, Move, Release, Hold, Abort, Configure, KeepsPolicy
<1>4. CASE srv = "arm"
  <2>1. authority' = FALSE /\ armed' = (ok \/ armed) /\ broken' = (broken /\ ~ok)
    BY <1>4 DEF Execute, Arm
  <2> QED
    BY <1>2, <2>1, Zenon
<1>5. CASE srv = "enable"
  <2>1. authority' = (ok \/ authority) /\ armed' \in (IF ok THEN {TRUE} ELSE {armed, FALSE})
        /\ broken' = broken
    BY <1>5 DEF Execute, Enable
  <2>2. authority' \in BOOLEAN /\ armed' \in BOOLEAN
    BY <1>1, <2>1, Zenon
  <2> QED
    BY <1>1, <1>2, <2>1, <2>2
<1>6. CASE srv = "disable"
  BY <1>1, <1>2, <1>6 DEF Execute, Disable
<1> QED
  BY <1>3, <1>4, <1>5, <1>6 DEF Services

-----------------------------------------------------------------------------
(***************************************************************************)
(* The steps of the hand-off tool.                                         *)
(***************************************************************************)

LEMMA HandoffAt ==
  ASSUME IInv
  PROVE  /\ ServicesTypeOK /\ HandoffTypeOK /\ HandoffCalls /\ stage \in Stages
         /\ run[Handoff] \in 0 .. MaxRuns /\ Handoff \in Clients /\ Console \in Clients
         /\ step = Relatch => Running
         /\ Running => Current \in Services /\ Current # "abort"
         /\ Running /\ step # Relatch
              => /\ step \in 1 .. Len(Plan[stage]) /\ Len(Plan[stage]) \in 1 .. 5
                 /\ Current = Plan[stage][step]
<1>1. ServicesTypeOK /\ HandoffTypeOK /\ HandoffCalls /\ stage \in Stages
  BY DEF IInv, TypeOK, HandoffTypeOK
<1>2. run[Handoff] \in 0 .. MaxRuns /\ Handoff \in Clients /\ Console \in Clients
  BY <1>1, TwoClients DEF ServicesTypeOK
<1>3. step = Relatch => Running
  BY <1>1 DEF HandoffCalls, Relatch
<1>4. Running /\ step # Relatch
        => /\ step \in 1 .. Len(Plan[stage]) /\ Len(Plan[stage]) \in 1 .. 5
           /\ Current = Plan[stage][step] /\ Current \in Services \ {"abort"}
  BY <1>1, PlanCalls DEF HandoffCalls, Current
<1>5. step = Relatch => Current = "hold"
  BY DEF Current
<1> QED
  BY <1>1, <1>2, <1>3, <1>4, <1>5 DEF Services

\* A call of the tool ends: its own part of the invariant follows from where it goes.
LEMMA HandoffEnds ==
  ASSUME IInv, Running, call' = [call EXCEPT ![Handoff] = NoCall],
         UNCHANGED <<nodeVars, sent, run, setBy, alone>>, stage' = stage,
         \/ code' \in {"0", "2", "killed"} /\ step' = 0
         \/ /\ code' = code /\ tries' = 0
            /\ \/ step' \in 1 .. Len(Plan[stage])
               \/ step' = Relatch /\ stage \in {"live", "release"}
         \/ code' = code /\ step' = step
  PROVE  ServicesTypeOK' /\ HandoffCalls' /\ step' \in 0 .. 5 \cup {Relatch}
         /\ code' \in {"none", "0", "2", "killed"} /\ call'[Console] = call[Console]
<1>1. ServicesTypeOK' /\ call'[Handoff] = NoCall /\ call'[Console] = call[Console]
  BY HandoffAt, EndCall, TwoClients
<1>2. DOMAIN Plan[stage] = 1 .. Len(Plan[stage]) /\ Len(Plan[stage]) \in 1 .. 5
  BY HandoffAt, PlanCalls
<1>3. run' = run /\ run[Handoff] > 0
  BY HandoffAt DEF HandoffCalls
<1>4. code = "none" /\ step \in 0 .. 5 \cup {Relatch}
  BY HandoffAt DEF Running, HandoffTypeOK
<1>5. /\ step' \in 0 .. 5 \cup {Relatch} /\ code' \in {"none", "0", "2", "killed"}
      /\ code' = "none" /\ step' # Relatch => step' \in DOMAIN Plan[stage]
      /\ code' # "none" => step' = 0
      /\ step' = Relatch => stage \in {"live", "release"}
  <2>1. CASE code' \in {"0", "2", "killed"} /\ step' = 0
    BY <2>1 DEF Relatch
  <2>2. CASE code' = code /\ step' \in 1 .. Len(Plan[stage])
    <3>1. step' \in 1 .. 5 /\ step' \in DOMAIN Plan[stage]
      <4>1. PICK n \in 1 .. 5 : Len(Plan[stage]) = n
        BY <1>2
      <4>2. step' \in 1 .. n /\ DOMAIN Plan[stage] = 1 .. n
        BY <1>2, <2>2, <4>1
      <4> QED
        BY <4>2
    <3> QED
      BY <1>4, <2>2, <3>1 DEF Relatch
  <2>3. CASE code' = code /\ step' = Relatch /\ stage \in {"live", "release"}
    BY <1>4, <2>3 DEF Relatch
  <2>4. CASE code' = code /\ step' = step
    BY <1>4, <2>4, HandoffAt DEF HandoffCalls, Running, Relatch
  <2> QED
    BY <2>1, <2>2, <2>3, <2>4
<1>6. HandoffCalls'
  BY <1>1, <1>3, <1>5 DEF HandoffCalls, Running
<1> QED
  BY <1>1, <1>5, <1>6

\* The tool's steps leave the nodes and the other tool alone and keep its own calls in
\* their order.
LEMMA HandoffSteps ==
  ASSUME IInv, HandoffTool \/ HandoffCommand
  PROVE  /\ ServicesTypeOK' /\ HandoffTypeOK' /\ HandoffCalls'
         /\ UNCHANGED <<nodeVars, setBy, consoleVars>>
         /\ call'[Console] = call[Console] /\ run'[Console] = run[Console]
         /\ alone'[Console] = alone[Console]
<1> USE HandoffAt
<1> SUFFICES /\ ServicesTypeOK' /\ HandoffTypeOK' /\ HandoffCalls'
             /\ UNCHANGED <<nodeVars, setBy>>
             /\ call'[Console] = call[Console] /\ run'[Console] = run[Console]
             /\ alone'[Console] = alone[Console]
  BY DEF HandoffTool, HandoffCommand
<1>0. MaxTries \in Nat
  BY ToolsAssumption
<1>1. CASE Start
  <2>1. ServicesTypeOK' /\ run'[Handoff] > 0 /\ call' = call /\ run'[Console] = run[Console]
        /\ alone'[Console] = alone[Console]
    BY <1>1, BeginCall, TwoClients DEF Start
  <2>2. PICK p \in Profiles : IF ProfileAccepted(p) THEN step' = 1 /\ code' = "none"
                              ELSE step' = 0 /\ code' = "5"
    BY <1>1 DEF Start
  <2>3. stage' \in Stages /\ tries' = 0 /\ told' = "nothing" /\ ~Running
        /\ UNCHANGED <<nodeVars, setBy>>
    BY <1>1 DEF Start, Begin
  <2>4. call[Handoff] = NoCall
    BY <2>3 DEF HandoffCalls
  <2>5. 1 \in DOMAIN Plan[stage']
    BY <2>3, PlanCalls
  <2>6. HandoffTypeOK'
    BY <1>0, <2>2, <2>3 DEF HandoffTypeOK
  <2>7. HandoffCalls'
    BY <2>1, <2>2, <2>3, <2>4, <2>5 DEF HandoffCalls, Running, Relatch
  <2> QED
    BY <2>1, <2>3, <2>6, <2>7
<1>2. CASE Call
  <2>1. Running /\ Current \in Services /\ run[Handoff] > 0
    BY <1>2 DEF Call, HandoffCalls
  <2>2. /\ ServicesTypeOK' /\ call'[Handoff] = [srv |-> Current, reply |-> "none"]
        /\ call'[Console] = call[Console]
    BY <1>2, <2>1, SendCall, TwoClients DEF Call
  <2>3. /\ UNCHANGED <<nodeVars, run, setBy, alone, stage, step, code, told>>
        /\ tries' = tries + 1 /\ tries < MaxTries
    BY <1>2 DEF Call, Send
  <2>4. HandoffTypeOK'
    BY <1>0, <2>3 DEF HandoffTypeOK
  <2>5. HandoffCalls'
    BY <1>0, <2>1, <2>2, <2>3 DEF HandoffCalls, Running, Current, HandoffTypeOK
  <2> QED
    BY <2>2, <2>3, <2>4, <2>5
<1>3. CASE Succeeded
  <2>1. /\ Running /\ step # Relatch /\ call' = [call EXCEPT ![Handoff] = NoCall]
        /\ UNCHANGED <<nodeVars, sent, run, setBy, alone>> /\ tries' = 0 /\ stage' = stage
        /\ told' \in {"released", told}
    BY <1>3 DEF Succeeded, Answered
  <2>2. \/ step' \in 1 .. Len(Plan[stage]) /\ code' = code
        \/ step' = 0 /\ code' = "0"
    BY <1>3, <2>1 DEF Succeeded
  <2>3. ServicesTypeOK' /\ HandoffCalls' /\ step' \in 0 .. 5 \cup {Relatch}
        /\ code' \in {"none", "0", "2", "killed"} /\ call'[Console] = call[Console]
    BY <2>1, <2>2, HandoffEnds
  <2> QED
    BY <1>0, <2>1, <2>3 DEF HandoffTypeOK
<1>4. CASE Retry
  <2>1. /\ Running /\ step # Relatch /\ call' = [call EXCEPT ![Handoff] = NoCall]
        /\ UNCHANGED <<nodeVars, sent, run, setBy, alone, handoffVars>>
    BY <1>4 DEF Retry, Answered
  <2>2. stage' = stage /\ code' = code /\ step' = step /\ tries' = tries /\ told' = told
    BY <2>1 DEF handoffVars
  <2>3. ServicesTypeOK' /\ HandoffCalls' /\ call'[Console] = call[Console]
    BY <2>1, <2>2, HandoffEnds
  <2> QED
    BY <2>1, <2>2, <2>3 DEF HandoffTypeOK
<1>5. CASE Refused \/ TimedOut
  <2>1. /\ Running /\ step # Relatch /\ call' = [call EXCEPT ![Handoff] = NoCall]
        /\ UNCHANGED <<nodeVars, sent, run, setBy, alone>> /\ tries' = 0 /\ stage' = stage
        /\ told' = told
    BY <1>5 DEF Refused, TimedOut, Answered, TimesOut, Fail, Exit
  <2>2. \/ step' = Relatch /\ code' = code /\ Current = "enable"
        \/ step' = 0 /\ code' = "2"
    BY <1>5 DEF Refused, TimedOut, Fail, Exit
  <2>3. Current = "enable" => stage \in {"live", "release"}
    BY <2>1, PlanOrder, PlanCalls
  <2>4. ServicesTypeOK' /\ HandoffCalls' /\ step' \in 0 .. 5 \cup {Relatch}
        /\ code' \in {"none", "0", "2", "killed"} /\ call'[Console] = call[Console]
    BY <2>1, <2>2, <2>3, HandoffEnds
  <2> QED
    BY <1>0, <2>1, <2>4 DEF HandoffTypeOK
<1>6. CASE Unavailable
  <2>1. /\ Running /\ step # Relatch /\ call[Handoff] = NoCall /\ UNCHANGED serviceVars
        /\ tries' = 0 /\ stage' = stage /\ told' = told
    BY <1>6 DEF Unavailable, Fail, Exit
  <2>2. \/ step' = Relatch /\ code' = code /\ Current = "enable"
        \/ step' = 0 /\ code' = "2"
    BY <1>6 DEF Unavailable, Fail, Exit
  <2>3. Current = "enable" => stage \in {"live", "release"}
    BY <2>1, PlanOrder, PlanCalls
  <2>4. /\ call' = [call EXCEPT ![Handoff] = NoCall]
        /\ UNCHANGED <<nodeVars, sent, run, setBy, alone>>
    BY <2>1 DEF serviceVars, ServicesTypeOK
  <2>5. ServicesTypeOK' /\ HandoffCalls' /\ step' \in 0 .. 5 \cup {Relatch}
        /\ code' \in {"none", "0", "2", "killed"} /\ call'[Console] = call[Console]
    BY <2>1, <2>2, <2>3, <2>4, HandoffEnds
  <2> QED
    BY <1>0, <2>1, <2>4, <2>5 DEF HandoffTypeOK
<1>7. CASE Relatched \/ Killed
  <2>1. /\ Running /\ stage' = stage /\ tries' = 0 /\ step' = 0
        /\ code' \in {"2", "killed"} /\ told' \in {told, "held", "refused", "lost"}
    BY <1>7 DEF Relatched, Killed, Exit
  <2>2. /\ call' = [call EXCEPT ![Handoff] = NoCall]
        /\ UNCHANGED <<nodeVars, sent, run, setBy, alone>>
    <3>1. CASE tries = 0 /\ UNCHANGED serviceVars
      <4>1. call[Handoff] = NoCall
        BY <3>1 DEF HandoffCalls
      <4> QED
        BY <3>1, <4>1 DEF serviceVars, ServicesTypeOK
    <3> QED
      BY <1>7, <3>1 DEF Relatched, Killed, Answered, TimesOut
  <2>3. ServicesTypeOK' /\ HandoffCalls' /\ step' \in 0 .. 5 \cup {Relatch}
        /\ code' \in {"none", "0", "2", "killed"} /\ call'[Console] = call[Console]
    BY <2>1, <2>2, HandoffEnds
  <2> QED
    BY <1>0, <2>1, <2>2, <2>3 DEF HandoffTypeOK
<1> QED
  BY <1>1, <1>2, <1>3, <1>4, <1>5, <1>6, <1>7
     DEF HandoffTool, HandoffCommand, HandoffStep

-----------------------------------------------------------------------------
(***************************************************************************)
(* The steps of the console and of the nodes.                              *)
(***************************************************************************)

LEMMA ConsoleAt ==
  ASSUME IInv
  PROVE  /\ ServicesTypeOK /\ ConsoleTypeOK /\ ConsoleCalls
         /\ run[Console] \in 0 .. MaxRuns /\ Handoff \in Clients /\ Console \in Clients
         /\ call[Console] \in [srv : Services \cup {"none"}, reply : {"none", "ok", "refused"}]
         /\ QueueDepth \in Nat \ {0}
<1>1. ServicesTypeOK /\ ConsoleTypeOK /\ ConsoleCalls
  BY DEF IInv, TypeOK
<1> QED
  BY <1>1, TwoClients, ToolsAssumption DEF ServicesTypeOK

\* Diagnostics taken from a queue.
LEMMA Shorter ==
  ASSUME NEW q \in Seq(BOOLEAN), q # <<>>
  PROVE  Tail(q) \in Seq(BOOLEAN) /\ Len(Tail(q)) = Len(q) - 1 /\ Len(q) \in Nat
  OBVIOUS

\* The console's steps leave the nodes and the other tool alone and keep its call that
\* of its place.
LEMMA ConsoleSteps ==
  ASSUME IInv, ConsoleTool
  PROVE  /\ ServicesTypeOK' /\ ConsoleTypeOK' /\ ConsoleCalls'
         /\ UNCHANGED <<nodeVars, setBy, handoffVars>>
         /\ call'[Handoff] = call[Handoff] /\ run'[Handoff] = run[Handoff]
         /\ alone'[Handoff] = alone[Handoff]
<1> USE ConsoleAt
<1> SUFFICES /\ ServicesTypeOK' /\ ConsoleTypeOK' /\ ConsoleCalls'
             /\ UNCHANGED <<nodeVars, setBy>>
             /\ call'[Handoff] = call[Handoff] /\ run'[Handoff] = run[Handoff]
             /\ alone'[Handoff] = alone[Handoff]
  BY DEF ConsoleTool
<1>1. CASE StartConsole
  <2>1. ServicesTypeOK' /\ run'[Console] > 0 /\ call' = call /\ run'[Handoff] = run[Handoff]
        /\ alone'[Handoff] = alone[Handoff] /\ UNCHANGED <<nodeVars, setBy>>
    BY <1>1, BeginCall, TwoClients DEF StartConsole, Begin
  <2>2. at = "exited" /\ at' = "services" /\ outcome' = "none" /\ queue' = <<>> /\ reply' = "none"
    BY <1>1 DEF StartConsole
  <2>3. ConsoleTypeOK'
    BY <2>2 DEF ConsoleTypeOK, Places, Outcomes
  <2>4. ConsoleCalls'
    BY <2>1, <2>2 DEF ConsoleCalls
  <2> QED
    BY <2>1, <2>3, <2>4
<1>2. CASE Confirm \/ Key \/ (at = "watch" /\ Send(Console, "abort") /\ Goto("interrupt"))
  <2>1. PICK srv \in {"move", "abort"}, place \in {"move", "abort", "interrupt"} :
          /\ at # "exited" /\ Send(Console, srv) /\ Goto(place)
          /\ srv = IF place = "interrupt" THEN "abort" ELSE place
    BY <1>2 DEF Confirm, Key
  <2>2. /\ ServicesTypeOK' /\ call'[Console] = [srv |-> srv, reply |-> "none"]
        /\ call'[Handoff] = call[Handoff] /\ UNCHANGED <<nodeVars, run, setBy, alone>>
    <3>1. srv \in Services /\ run[Console] > 0
      BY <2>1 DEF Services, ConsoleCalls
    <3> QED
      BY <2>1, <3>1, SendCall, TwoClients DEF Send
  <2>3. at' = place /\ UNCHANGED <<outcome, queue, reply>>
    BY <2>1 DEF Goto
  <2>4. ConsoleTypeOK'
    BY <2>3 DEF ConsoleTypeOK, Places
  <2>5. ConsoleCalls'
    BY <2>1, <2>2, <2>3 DEF ConsoleCalls, NoCall
  <2> QED
    BY <2>2, <2>4, <2>5
<1>3. CASE \/ MoveAnswered \/ AbortAnswered
           \/ /\ at \in {"services", "prompt", "move", "abort", "interrupt"}
              /\ call' = [call EXCEPT ![Console] = NoCall]
              /\ UNCHANGED <<nodeVars, sent, run, setBy, alone>>
              /\ Leave("interrupted")
  <2>1. /\ at # "exited" /\ call' = [call EXCEPT ![Console] = NoCall]
        /\ UNCHANGED <<nodeVars, sent, run, setBy, alone>>
    BY <1>3 DEF MoveAnswered, AbortAnswered, Answered, TimesOut
  <2>2. /\ at' \in {"watch", "exited"} /\ outcome' \in Outcomes /\ queue' = queue
        /\ reply' \in {"none", "ok", "refused"}
        /\ reply' # "none" => at' = "exited"
    <3>1. reply = "none" /\ outcome \in Outcomes
      BY <2>1 DEF ConsoleCalls, ConsoleTypeOK
    <3> QED
      BY <1>3, <3>1 DEF MoveAnswered, AbortAnswered, Goto, Leave, Outcomes
  <2>3. ServicesTypeOK' /\ call'[Console] = NoCall /\ call'[Handoff] = call[Handoff]
    BY <2>1, EndCall, TwoClients
  <2>4. ConsoleTypeOK'
    BY <2>2 DEF ConsoleTypeOK, Places
  <2>5. ConsoleCalls'
    BY <2>1, <2>2, <2>3 DEF ConsoleCalls, NoCall
  <2> QED
    BY <2>1, <2>3, <2>4, <2>5
<1>4. CASE ServicesFound \/ NoServices \/ Cancel \/ Watch
  <2>1. UNCHANGED serviceVars /\ reply' = reply /\ outcome' \in Outcomes
        /\ at \in {"services", "prompt", "watch"} /\ at' \in {"prompt", "watch", "exited"}
    BY <1>4 DEF ServicesFound, NoServices, Cancel, Watch, Goto, Leave, Outcomes, ConsoleTypeOK
  <2>2. queue' \in Seq(BOOLEAN) /\ Len(queue') <= QueueDepth
    <3>1. queue' = queue \/ (queue' = Tail(queue) /\ queue # <<>>)
      BY <1>4 DEF ServicesFound, NoServices, Cancel, Watch, Goto, Leave
    <3> QED
      BY <3>1, Shorter DEF ConsoleTypeOK
  <2>3. ConsoleTypeOK'
    BY <2>1, <2>2 DEF ConsoleTypeOK, Places
  <2>4. ConsoleCalls' /\ ServicesTypeOK'
    BY <2>1 DEF ConsoleCalls, serviceVars, nodeVars, ServicesTypeOK
  <2> QED
    BY <2>1, <2>3, <2>4 DEF serviceVars
<1>5. CASE Receive \/ Publish
  <2>1. UNCHANGED <<at, outcome, reply, serviceVars>>
    BY <1>5 DEF Receive, Publish
  <2>2. queue' \in Seq(BOOLEAN) /\ Len(queue') <= QueueDepth
    <3>1. CASE Receive
      BY <3>1, Shorter DEF Receive, ConsoleTypeOK
    <3>2. CASE Publish
      <4>1. PICK full : full = Append(queue, owner = "ramp")
                        /\ queue' = IF Len(full) > QueueDepth THEN Tail(full) ELSE full
        BY <3>2 DEF Publish
      <4>2. full \in Seq(BOOLEAN) /\ Len(full) = Len(queue) + 1 /\ Len(queue) \in Nat
        BY <4>1 DEF ConsoleTypeOK
      <4>3. Len(queue) <= QueueDepth
        BY DEF ConsoleTypeOK
      <4> QED
        <5>1. full # <<>>
          BY <4>2
        <5>2. Tail(full) \in Seq(BOOLEAN) /\ Len(Tail(full)) = Len(full) - 1
          BY <4>2, <5>1, Shorter
        <5>3. CASE Len(full) > QueueDepth
          BY <4>1, <4>2, <4>3, <5>2, <5>3
        <5>4. CASE ~(Len(full) > QueueDepth)
          BY <4>1, <4>2, <5>4
        <5> QED
          BY <5>3, <5>4
    <3> QED
      BY <1>5, <3>1, <3>2
  <2>3. ConsoleTypeOK'
    BY <2>1, <2>2 DEF ConsoleTypeOK
  <2>4. ConsoleCalls' /\ ServicesTypeOK'
    BY <2>1 DEF ConsoleCalls, serviceVars, nodeVars, ServicesTypeOK
  <2> QED
    BY <2>1, <2>3, <2>4 DEF serviceVars
<1> QED
  BY <1>1, <1>2, <1>3, <1>4, <1>5 DEF ConsoleTool, ConsoleStep, Interrupt

\* The nodes answer calls that are waited for and change nothing else of the tools.
LEMMA NodeSteps ==
  ASSUME IInv, Nodes
  PROVE  /\ ServicesTypeOK' /\ HandoffCalls' /\ ConsoleCalls'
         /\ UNCHANGED <<handoffVars, consoleVars, run, writes>>
<1> USE HandoffAt, ConsoleAt
<1>0. UNCHANGED <<handoffVars, consoleVars, run, writes>>
  BY DEF Nodes, Serve, RampEnds, ImuBreaks
<1>1. CASE Serve
  <2>1. PICK r \in sent, ok \in BOOLEAN :
          /\ Execute(r.srv, ok)
          /\ sent' = sent \ {r}
          /\ call' = IF Awaited(r)
                     THEN [call EXCEPT ![r.from].reply = IF ok THEN "ok" ELSE "refused"]
                     ELSE call
          /\ alone' = [c \in Clients |-> alone[c] /\ c = r.from /\ Awaited(r)]
          /\ setBy' = IF owner' # owner THEN r.run ELSE setBy
    BY <1>1 DEF Serve
  <2>2. /\ r.from \in Clients /\ r.srv \in Services /\ r.run \in 1 .. MaxRuns
        /\ call' \in [Clients -> [srv : Services \cup {"none"}, reply : {"none", "ok", "refused"}]]
        /\ alone' \in [Clients -> BOOLEAN]
        /\ \A c \in Clients :
             /\ call'[c].srv = call[c].srv
             /\ call'[c] = IF c = r.from /\ Awaited(r)
                           THEN [srv |-> r.srv, reply |-> IF ok THEN "ok" ELSE "refused"]
                           ELSE call[c]
    BY <2>1, ServeCall
  <2>3. owner' \in {"external", "ramp", "hold"} /\ {armed, authority, broken}' \subseteq BOOLEAN
    BY <2>1, <2>2, ExecuteType
  <2>4. setBy' \in 0 .. MaxRuns
    <3>1. setBy \in 0 .. MaxRuns /\ r.run \in 0 .. MaxRuns
      BY <2>2 DEF ServicesTypeOK
    <3> QED
      BY <2>1, <3>1
  <2>5. sent' \subseteq [from : Clients, srv : Services, run : 1 .. MaxRuns]
    BY <2>1 DEF ServicesTypeOK
  <2>6. ServicesTypeOK'
    BY <1>0, <2>2, <2>3, <2>4, <2>5 DEF ServicesTypeOK
  <2>7. \A c \in Clients : call[c] = NoCall => call'[c] = NoCall
    BY <2>2 DEF Awaited, NoCall, Services
  <2>8. HandoffCalls'
    BY <1>0, <2>2, <2>7 DEF HandoffCalls, handoffVars, Running, Current
  <2>9. ConsoleCalls'
    BY <1>0, <2>2, <2>7 DEF ConsoleCalls, consoleVars
  <2> QED
    BY <1>0, <2>6, <2>8, <2>9
<1>2. CASE RampEnds \/ ImuBreaks
  <2>1. UNCHANGED <<sent, call, setBy, alone>>
    BY <1>2 DEF RampEnds, ImuBreaks
  <2>2. ServicesTypeOK'
    BY <1>0, <1>2, <2>1 DEF ServicesTypeOK, RampEnds, ImuBreaks
  <2>3. HandoffCalls' /\ ConsoleCalls'
    BY <1>0, <2>1 DEF HandoffCalls, ConsoleCalls, handoffVars, consoleVars, Running, Current
  <2> QED
    BY <1>0, <2>2, <2>3
<1> QED
  BY <1>1, <1>2 DEF Nodes

\* Types and the order of the calls.
LEMMA TypesStep == IInv /\ [Next]_vars => TypeOK' /\ HandoffCalls' /\ ConsoleCalls'
<1> SUFFICES ASSUME IInv, [Next]_vars
             PROVE  TypeOK' /\ HandoffCalls' /\ ConsoleCalls'
  OBVIOUS
<1> USE HandoffAt, ConsoleAt
<1>1. CASE HandoffTool \/ HandoffCommand
  <2>1. UNCHANGED consoleVars /\ run'[Console] = run[Console] /\ call'[Console] = call[Console]
    BY <1>1, HandoffSteps
  <2>2. ConsoleCalls' /\ ConsoleTypeOK'
    BY <2>1 DEF ConsoleCalls, ConsoleTypeOK, consoleVars
  <2> QED
    BY <1>1, <2>2, HandoffSteps DEF TypeOK
<1>2. CASE ConsoleTool
  <2>1. UNCHANGED handoffVars /\ run'[Handoff] = run[Handoff] /\ call'[Handoff] = call[Handoff]
    BY <1>2, ConsoleSteps
  <2>2. HandoffCalls' /\ HandoffTypeOK'
    BY <2>1 DEF HandoffCalls, HandoffTypeOK, handoffVars, Running, Current
  <2> QED
    BY <1>2, <2>2, ConsoleSteps DEF TypeOK
<1>3. CASE Nodes
  <2>1. HandoffTypeOK' /\ ConsoleTypeOK'
    BY <1>3, NodeSteps DEF HandoffTypeOK, ConsoleTypeOK, handoffVars, consoleVars
  <2> QED
    BY <1>3, <2>1, NodeSteps DEF TypeOK
<1>4. CASE UNCHANGED vars
  BY <1>4 DEF vars, serviceVars, nodeVars, handoffVars, consoleVars, TypeOK, ServicesTypeOK,
     HandoffTypeOK, ConsoleTypeOK, HandoffCalls, ConsoleCalls, Running, Current
<1> QED
  BY <1>1, <1>2, <1>3, <1>4 DEF Next

-----------------------------------------------------------------------------
(***************************************************************************)
(* What the calls have left behind.                                        *)
(***************************************************************************)

\* The number of calls that succeeded, while one is waited for and before.
LEMMA DoneType ==
  ASSUME IInv
  PROVE  /\ Running /\ step # Relatch /\ call[Handoff].reply # "ok"
              => Done = step - 1 /\ \A srv : Called(srv) <=> Before(stage, step, srv)
         /\ Running /\ step # Relatch /\ call[Handoff].reply = "ok" => Done = step
         /\ step = Relatch => Done = 0
         /\ ~Running => Done = IF code = "0" THEN Len(Plan[stage]) ELSE 0
<1> USE HandoffAt
<1>1. Running /\ step # Relatch
        => Done = IF call[Handoff].reply = "ok" THEN step ELSE step - 1
  BY DEF Done, Running
<1>2. step = Relatch => Done = 0
  BY DEF Done, Running
<1>3. ~Running => Done = IF code = "0" THEN Len(Plan[stage]) ELSE 0
  BY DEF Done
<1>4. Done = step - 1 => \A srv : Called(srv) <=> Before(stage, step, srv)
  BY DEF Called, Before
<1> QED
  BY <1>1, <1>2, <1>3, <1>4

\* An IMU break and the end of a ramp spoil nothing that the calls have achieved.
LEMMA EventsKeep ==
  ASSUME IInv, RampEnds \/ ImuBreaks, UNCHANGED <<handoffVars, consoleVars>>
  PROVE  CallsHold' /\ RelatchHolds' /\ AbortHolds'
<1> USE HandoffAt
<1>1. UNCHANGED <<stage, step, tries, code, told, call, run, alone, writes, reply>>
  BY DEF RampEnds, ImuBreaks, handoffVars, consoleVars
<1>2. \A srv : Called(srv)' <=> Called(srv)
  BY <1>1 DEF Called, Done, Running
<1>3. CallsHold /\ RelatchHolds /\ AbortHolds
  BY DEF IInv
<1>4. CallsHold'
  <2>1. CASE RampEnds
    BY <1>1, <1>2, <1>3, <2>1 DEF CallsHold, RampEnds
  <2>2. CASE ImuBreaks
    BY <1>1, <1>2, <1>3, <2>2 DEF CallsHold, ImuBreaks
  <2> QED
    BY <2>1, <2>2
<1>5. RelatchHolds' /\ AbortHolds'
  BY <1>1, <1>3 DEF RelatchHolds, AtRelatch, AbortHolds, RampEnds, ImuBreaks, Running, Current
<1> QED
  BY <1>4, <1>5

\* A call of the hand-off tool is executed while it waits for the answer.
LEMMA AwaitedServe ==
  ASSUME IInv, NEW ok \in BOOLEAN, UNCHANGED <<handoffVars, run, writes>>,
         Running, call[Handoff] = [srv |-> Current, reply |-> "none"],
         Execute(Current, ok), alone[Handoff],
         call'[Handoff] = [srv |-> Current, reply |-> IF ok THEN "ok" ELSE "refused"]
  PROVE  CallsHold'
<1> USE HandoffAt
<1>1. UNCHANGED <<stage, step, tries, code, told, run>> /\ run[Handoff] > 0
  BY DEF handoffVars, HandoffCalls
<1>2. CASE step = Relatch
  <2>1. Done' = 0
    BY <1>1, <1>2 DEF Done, Running
  <2>2. \A srv : ~Called(srv)'
    BY <2>1 DEF Called
  <2> QED
    BY <2>2 DEF CallsHold
<1>3. CASE step # Relatch
  <2>1. step \in DOMAIN Plan[stage] /\ Current = Plan[stage][step] /\ step \in Nat \ {0}
        /\ Current \in Services \ {"abort"}
    BY <1>3 DEF HandoffCalls
  <2>2. \A srv : Called(srv) <=> Before(stage, step, srv)
    BY <1>3, DoneType
  <2>3. Done' = IF ok THEN step ELSE step - 1
    <3>1. Done' = IF call'[Handoff].reply = "ok" THEN step ELSE step - 1
      BY <1>1, <1>3 DEF Done, Running
    <3> QED
      BY <3>1
  <2>4. \A srv : Called(srv)' <=> Called(srv) \/ (ok /\ srv = Current)
    <3>1. CASE ok
      <4>1. \A srv : Called(srv)' <=> \E i \in 1 .. step : Plan[stage][i] = srv
        BY <1>1, <2>3, <3>1 DEF Called
      <4>2. 1 .. step = (1 .. (step - 1)) \cup {step}
        BY <2>1
      <4> QED
        BY <2>1, <2>2, <3>1, <4>1, <4>2 DEF Before
    <3>2. CASE ~ok
      BY <1>1, <2>2, <2>3, <3>2 DEF Called, Before
    <3> QED
      BY <3>1, <3>2
  <2>5. CallsHold
    BY DEF IInv
  <2>6. CASE Current = "move"
    BY <1>1, <2>1, <2>2, <2>4, <2>5, <2>6, PlanOrder DEF CallsHold, Execute, Move, KeepsPolicy
  <2>7. CASE Current = "hold"
    BY <1>1, <2>1, <2>2, <2>4, <2>5, <2>7, PlanOrder DEF CallsHold, Execute, Hold, KeepsPolicy
  <2>8. CASE Current = "release"
    BY <1>1, <2>1, <2>2, <2>4, <2>5, <2>8, PlanOrder DEF CallsHold, Execute, Release, KeepsPolicy
  <2>9. CASE Current = "configure"
    BY <1>1, <2>1, <2>2, <2>4, <2>5, <2>9, PlanOrder DEF CallsHold, Execute, Configure, KeepsPolicy
  <2>10. CASE Current = "arm"
    <3>1. authority' = FALSE /\ (ok => armed') /\ owner' = owner
      BY <2>10 DEF Execute, Arm
    <3>2. ~Called("disable") /\ ~Called("enable") /\ ~Called("arm")
      <4>1. /\ ~Before(stage, step, "disable") /\ ~Before(stage, step, "enable")
            /\ ~Before(stage, step, "arm")
        <5>1. stage \in Stages /\ step \in DOMAIN Plan[stage] /\ Plan[stage][step] = "arm"
          BY <2>1, <2>10
        <5> QED
          BY <5>1, PlanOrder
      <4> QED
        BY <2>2, <4>1
    <3> QED
      BY <1>1, <2>4, <2>5, <2>10, <3>1, <3>2 DEF CallsHold
  <2>11. CASE Current = "enable"
    <3>1. (ok => authority') /\ (~ok => authority' = authority) /\ owner' = owner
          /\ broken' = broken
      BY <2>11 DEF Execute, Enable, ServicesTypeOK
    <3>2. stage # "arm" /\ ~Called("disable") /\ Called("release")
      <4>1. /\ stage \in {"live", "release"} /\ ~Before(stage, step, "disable")
            /\ Before(stage, step, "release")
        <5>1. stage \in Stages /\ step \in DOMAIN Plan[stage] /\ Plan[stage][step] = "enable"
          BY <2>1, <2>11
        <5> QED
          BY <5>1, PlanOrder
      <4> QED
        BY <2>2, <4>1
    <3> QED
      BY <1>1, <2>4, <2>5, <2>11, <3>1, <3>2 DEF CallsHold
  <2>12. CASE Current = "disable"
    <3>1. ok /\ armed' = FALSE /\ authority' = FALSE /\ owner' = owner /\ stage = "disable"
          /\ ~Called("enable")
      BY <2>1, <2>2, <2>12, PlanOrder DEF Execute, Disable
    <3> QED
      BY <1>1, <2>4, <2>5, <2>12, <3>1 DEF CallsHold
  <2> QED
    BY <2>1, <2>6, <2>7, <2>8, <2>9, <2>10, <2>11, <2>12 DEF Services
<1> QED
  BY <1>2, <1>3

\* A request is executed: the invariant speaks of a tool that is still alone afterwards,
\* so of the caller, and of nobody else.
LEMMA ServeHolds ==
  ASSUME IInv, Serve, UNCHANGED <<handoffVars, consoleVars>>
  PROVE  CallsHold' /\ RelatchHolds' /\ AbortHolds'
<1> USE HandoffAt, ConsoleAt
<1>0. /\ UNCHANGED <<stage, step, tries, code, told, at, outcome, queue, reply, run, writes>>
      /\ CallsHold /\ RelatchHolds /\ AbortHolds
  BY DEF handoffVars, consoleVars, Serve, IInv
<1>1. PICK r \in sent, ok \in BOOLEAN :
        /\ Execute(r.srv, ok)
        /\ call' = IF Awaited(r)
                   THEN [call EXCEPT ![r.from].reply = IF ok THEN "ok" ELSE "refused"]
                   ELSE call
        /\ alone' = [c \in Clients |-> alone[c] /\ c = r.from /\ Awaited(r)]
  BY DEF Serve
<1>2. /\ r.from \in Clients /\ r.srv \in Services
      /\ \A c \in Clients :
           /\ call'[c] = IF c = r.from /\ Awaited(r)
                         THEN [srv |-> r.srv, reply |-> IF ok THEN "ok" ELSE "refused"]
                         ELSE call[c]
           /\ alone'[c] => alone[c] /\ c = r.from /\ Awaited(r)
  BY <1>1, ServeCall
<1>3. ASSUME alone'[Handoff]
      PROVE  /\ Running /\ call[Handoff] = [srv |-> Current, reply |-> "none"] /\ alone[Handoff]
             /\ Execute(Current, ok)
             /\ call'[Handoff] = [srv |-> Current, reply |-> IF ok THEN "ok" ELSE "refused"]
  <2>1. alone[Handoff] /\ r.from = Handoff /\ Awaited(r)
    BY <1>2, <1>3
  <2>2. call[Handoff] = [srv |-> r.srv, reply |-> "none"] /\ r.srv # "none"
    BY <1>2, <2>1 DEF Awaited, Services
  <2>3. Running /\ r.srv = Current
    BY <2>2 DEF HandoffCalls, NoCall
  <2>4. call'[Handoff] = [srv |-> r.srv, reply |-> IF ok THEN "ok" ELSE "refused"]
    BY <1>2, <2>1
  <2> QED
    BY <1>1, <2>1, <2>2, <2>3, <2>4
<1>4. CallsHold'
  <2>1. CASE alone'[Handoff]
    BY <1>0, <1>3, <2>1, AwaitedServe
  <2>2. CASE ~alone'[Handoff]
    BY <2>2 DEF CallsHold
  <2> QED
    BY <2>1, <2>2
<1>5. RelatchHolds'
  <2>1. ASSUME alone'[Handoff], step' = Relatch
        PROVE  /\ call'[Handoff].reply = "ok" => owner' = "hold"
               /\ call'[Handoff].reply = "refused" => ~writes'
    <3>1. Current = "hold"
      BY <1>0, <2>1 DEF Current
    <3>2. Hold(ok)
      BY <1>3, <2>1, <3>1 DEF Execute
    <3> QED
      BY <1>0, <1>3, <2>1, <3>2 DEF Hold
  <2>2. alone'[Handoff] => code' # "2"
    BY <1>0, <1>3 DEF Running
  <2>3. /\ Running' => told' \in {"nothing", "released"}
        /\ Running' /\ told' = "released" => Current' = "enable" \/ step' = Relatch
        /\ code' = "2" => told' # "released"
    BY <1>0 DEF RelatchHolds, Running, Current
  <2> QED
    BY <2>1, <2>2, <2>3 DEF RelatchHolds, AtRelatch
<1>6. AbortHolds'
  <2> SUFFICES ASSUME alone'[Console],
                      call'[Console] = [srv |-> "abort", reply |-> "ok"] \/ reply' = "ok"
               PROVE  owner' = "hold"
    BY DEF AbortHolds
  <2>1. r.from = Console /\ Awaited(r)
    BY <1>2
  <2>2. /\ call[Console] = [srv |-> r.srv, reply |-> "none"] /\ r.srv # "none"
        /\ call'[Console] = [srv |-> r.srv, reply |-> IF ok THEN "ok" ELSE "refused"]
    BY <1>2, <2>1 DEF Awaited, Services
  <2>3. reply = "none"
    BY <2>2 DEF ConsoleCalls, ConsoleTypeOK
  <2>4. r.srv = "abort" /\ ok
    BY <1>0, <2>2, <2>3
  <2> QED
    BY <1>1, <2>4 DEF Execute, Abort
<1> QED
  BY <1>4, <1>5, <1>6

\* The hand-off tool goes from one call to the next with what it has achieved.
LEMMA HandoffDone ==
  ASSUME IInv, HandoffTool \/ HandoffCommand
  PROVE  \/ Done' = 0
         \/ Done' = Done /\ stage' = stage /\ run' = run /\ alone' = alone
<1> USE HandoffAt
<1>0. HandoffCalls' /\ ServicesTypeOK'
  BY HandoffSteps
<1>1. CASE Start
  <2>1. ~Running /\ call' = call /\ step' \in {0, 1} /\ code' \in {"none", "5"}
        /\ (code' = "none" => step' = 1)
    BY <1>1 DEF Start, Begin
  <2>2. call[Handoff] = NoCall
    BY <2>1 DEF HandoffCalls
  <2> QED
    BY <2>1, <2>2 DEF Done, Running, NoCall, Relatch
<1>2. CASE Call
  <2>1. /\ UNCHANGED <<stage, step, code, run, alone>> /\ call[Handoff] = NoCall
        /\ call'[Handoff].reply = "none"
    BY <1>2 DEF Call, Send, ServicesTypeOK
  <2> QED
    BY <2>1 DEF Done, Running, NoCall
<1>3. CASE Succeeded
  <2>1. /\ Running /\ step # Relatch /\ call[Handoff].reply = "ok" /\ call'[Handoff] = NoCall
        /\ UNCHANGED <<run, alone, stage>>
    BY <1>3 DEF Succeeded, Answered, ServicesTypeOK
  <2>2. Done = step /\ code = "none"
    BY <2>1, DoneType DEF Running
  <2>3. CASE step < Len(Plan[stage])
    <3>1. step' = step + 1 /\ code' = code /\ step' # Relatch
      BY <1>3, <2>1, <2>3 DEF Succeeded, Relatch
    <3>2. Done' = step' - 1
      BY <2>1, <2>2, <3>1 DEF Done, Running, NoCall
    <3> QED
      BY <2>1, <2>2, <3>1, <3>2
  <2>4. CASE ~(step < Len(Plan[stage]))
    <3>1. step' = 0 /\ code' = "0" /\ step = Len(Plan[stage])
      BY <1>3, <2>1, <2>4 DEF Succeeded
    <3>2. Done' = Len(Plan[stage'])
      BY <3>1 DEF Done, Running
    <3> QED
      BY <2>1, <2>2, <3>1, <3>2
  <2> QED
    BY <2>3, <2>4
<1>4. CASE Retry
  <2>1. /\ UNCHANGED <<stage, step, code, run, alone>> /\ call[Handoff].reply = "refused"
        /\ call'[Handoff] = NoCall
    BY <1>4 DEF Retry, Answered, handoffVars, ServicesTypeOK
  <2> QED
    BY <2>1 DEF Done, Running, NoCall
<1>5. CASE Refused \/ TimedOut \/ Unavailable \/ Relatched \/ Killed
  <2>1. (step' = Relatch /\ code' = "none") \/ code' \in {"2", "killed"}
    BY <1>5 DEF Refused, TimedOut, Unavailable, Relatched, Killed, Fail, Exit, Running
  <2> QED
    BY <2>1 DEF Done, Running
<1> QED
  BY <1>1, <1>2, <1>3, <1>4, <1>5 DEF HandoffTool, HandoffCommand, HandoffStep

LEMMA HandoffHolds ==
  ASSUME IInv, HandoffTool \/ HandoffCommand
  PROVE  CallsHold' /\ RelatchHolds' /\ AbortHolds'
<1> USE HandoffAt, ConsoleAt
<1>0. /\ UNCHANGED <<writes, owner, armed, authority, broken, at, outcome, queue, reply>>
      /\ call'[Console] = call[Console] /\ alone'[Console] = alone[Console]
      /\ CallsHold /\ RelatchHolds /\ AbortHolds
  BY HandoffSteps DEF nodeVars, consoleVars, IInv
<1>1. CallsHold'
  <2>1. CASE Done' = 0
    <3>1. \A srv : ~Called(srv)'
      BY <2>1 DEF Called
    <3> QED
      BY <3>1 DEF CallsHold
  <2>2. CASE Done' = Done /\ stage' = stage /\ run' = run /\ alone' = alone
    <3>1. \A srv : Called(srv)' <=> Called(srv)
      BY <2>2 DEF Called
    <3> QED
      BY <1>0, <2>2, <3>1 DEF CallsHold
  <2> QED
    BY <2>1, <2>2, HandoffDone
<1>2. RelatchHolds'
  <2>1. CASE Start
    <3>1. ~Running /\ call' = call /\ step' \in {0, 1} /\ code' \in {"none", "5"}
          /\ told' = "nothing"
      BY <2>1 DEF Start, Begin
    <3> QED
      BY <3>1 DEF RelatchHolds, AtRelatch, Running, Relatch
  <2>2. CASE Call
    <3>1. /\ UNCHANGED <<stage, step, code, told, alone>> /\ call'[Handoff].reply = "none"
      BY <2>2 DEF Call, Send, ServicesTypeOK
    <3> QED
      BY <1>0, <3>1 DEF RelatchHolds, AtRelatch, Running, Current
  <2>3. CASE Succeeded
    <3>1. /\ Running /\ step # Relatch /\ UNCHANGED stage
          /\ told' = IF Current = "release" THEN "released" ELSE told
      BY <2>3 DEF Succeeded
    <3>2. told \in {"nothing", "released"} /\ (told = "released" => Current = "enable")
      BY <1>0, <3>1 DEF RelatchHolds
    <3>3. CASE step < Len(Plan[stage])
      <4>1. step' = step + 1 /\ code' = code /\ step' # Relatch /\ step' # 0
        BY <2>3, <3>1, <3>3 DEF Succeeded, Relatch
      <4>2. ASSUME Current = "enable"
            PROVE  step = Len(Plan[stage])
        <5>1. stage \in Stages /\ step \in DOMAIN Plan[stage] /\ Plan[stage][step] = "enable"
          BY <3>1, <4>2 DEF HandoffCalls
        <5> QED
          BY <5>1, PlanOrder
      <4>3. ASSUME Current = "release"
            PROVE  Plan[stage][step + 1] = "enable"
        <5>1. stage \in Stages /\ step \in DOMAIN Plan[stage] /\ Plan[stage][step] = "release"
          BY <3>1, <4>3 DEF HandoffCalls
        <5> QED
          BY <5>1, PlanOrder
      <4>4. told' = "released" => Plan[stage][step + 1] = "enable"
        BY <3>1, <3>2, <3>3, <4>2, <4>3
      <4>5. Current' = Plan[stage][step + 1]
        BY <3>1, <4>1 DEF Current
      <4> QED
        BY <3>1, <3>2, <4>1, <4>4, <4>5 DEF RelatchHolds, AtRelatch, Running
    <3>4. CASE ~(step < Len(Plan[stage]))
      <4>1. step' = 0 /\ code' = "0"
        BY <2>3, <3>4 DEF Succeeded
      <4> QED
        BY <4>1 DEF RelatchHolds, AtRelatch, Running, Relatch
    <3> QED
      BY <3>3, <3>4
  <2>4. CASE Retry
    <3>1. /\ UNCHANGED <<stage, step, code, told, alone>> /\ step # Relatch
      BY <2>4 DEF Retry, Answered, handoffVars
    <3> QED
      BY <1>0, <3>1 DEF RelatchHolds, AtRelatch, Running, Current
  <2>5. CASE Refused \/ TimedOut \/ Unavailable
    <3>1. /\ Running /\ step # Relatch /\ Fail /\ call'[Handoff] = NoCall /\ told' = told
      BY <2>5 DEF Refused, TimedOut, Unavailable, Answered, TimesOut, Fail, Exit,
         serviceVars, ServicesTypeOK
    <3>2. told \in {"nothing", "released"} /\ (told = "released" => Current = "enable")
      BY <1>0, <3>1 DEF RelatchHolds
    <3>3. CASE Current = "enable"
      <4>1. step' = Relatch /\ code' = code /\ code = "none"
        BY <3>1, <3>3 DEF Fail, Running
      <4> QED
        BY <3>1, <3>2, <4>1 DEF RelatchHolds, AtRelatch, Running, NoCall
    <3>4. CASE Current # "enable"
      <4>1. step' = 0 /\ code' = "2" /\ told' = "nothing"
        BY <3>1, <3>2, <3>4 DEF Fail, Exit
      <4> QED
        BY <4>1 DEF RelatchHolds, AtRelatch, Running, Relatch
    <3> QED
      BY <3>3, <3>4
  <2>6. CASE Relatched
    <3>1. /\ step = Relatch /\ step' = 0 /\ code' = "2" /\ alone' = alone
          /\ told' \in {"held", "refused", "lost"}
          /\ told' = "held" => call[Handoff].reply = "ok"
          /\ told' = "refused" => call[Handoff].reply = "refused"
      <4>1. step = Relatch /\ step' = 0 /\ code' = "2" /\ alone' = alone
            /\ told' \in {"held", "refused", "lost"}
        BY <2>6 DEF Relatched, Exit, Answered, TimesOut, serviceVars
      <4>2. told' = "held" => call[Handoff].reply = "ok"
        BY <2>6 DEF Relatched, Answered
      <4>3. told' = "refused" => call[Handoff].reply = "refused"
        BY <2>6 DEF Relatched, Answered
      <4> QED
        BY <4>1, <4>2, <4>3
    <3> QED
      BY <1>0, <3>1 DEF RelatchHolds, AtRelatch, Running, Relatch
  <2>7. CASE Killed
    <3>1. step' = 0 /\ code' = "killed"
      BY <2>7 DEF Killed, Exit
    <3> QED
      BY <3>1 DEF RelatchHolds, AtRelatch, Running, Relatch
  <2> QED
    BY <2>1, <2>2, <2>3, <2>4, <2>5, <2>6, <2>7 DEF HandoffTool, HandoffCommand, HandoffStep
<1>3. AbortHolds'
  BY <1>0 DEF AbortHolds
<1> QED
  BY <1>1, <1>2, <1>3

LEMMA ConsoleHolds ==
  ASSUME IInv, ConsoleTool
  PROVE  CallsHold' /\ RelatchHolds' /\ AbortHolds'
<1> USE HandoffAt, ConsoleAt
<1>0. /\ UNCHANGED <<writes, owner, armed, authority, broken, stage, step, tries, code, told>>
      /\ call'[Handoff] = call[Handoff] /\ run'[Handoff] = run[Handoff]
      /\ alone'[Handoff] = alone[Handoff] /\ ServicesTypeOK'
      /\ CallsHold /\ RelatchHolds /\ AbortHolds
  BY ConsoleSteps DEF nodeVars, handoffVars, IInv
<1>1. CallsHold'
  <2>1. \A srv : Called(srv)' <=> Called(srv)
    BY <1>0 DEF Called, Done, Running
  <2> QED
    BY <1>0, <2>1 DEF CallsHold
<1>2. RelatchHolds'
  BY <1>0 DEF RelatchHolds, AtRelatch, Running, Current
<1>3. AbortHolds'
  <2>1. CASE StartConsole
    <3>1. reply' = "none" /\ call' = call /\ at = "exited"
      BY <2>1 DEF StartConsole, Begin
    <3> QED
      BY <3>1 DEF AbortHolds, ConsoleCalls
  <2>2. CASE ~StartConsole
    <3>1. at # "exited" /\ alone' = alone
      BY <2>2 DEF ConsoleTool, ConsoleStep, Publish, ServicesFound, NoServices, Confirm, Cancel,
         MoveAnswered, Receive, Watch, Key, AbortAnswered, Interrupt, Send, Answered,
         TimesOut, serviceVars
    <3>2. reply = "none"
      BY <3>1 DEF ConsoleCalls, ConsoleTypeOK
    <3>3. \/ call' = call
          \/ call'[Console].reply = "none"
      <4>1. \/ call' = call
            \/ call' = [call EXCEPT ![Console] = NoCall]
            \/ \E srv \in Services :
                 call' = [call EXCEPT ![Console] = [srv |-> srv, reply |-> "none"]]
        BY <2>2 DEF ConsoleTool, ConsoleStep, Publish, ServicesFound, NoServices, Confirm,
           Cancel, MoveAnswered, Receive, Watch, Key, AbortAnswered, Interrupt, Send,
           Answered, TimesOut, serviceVars, Services
      <4> QED
        BY <4>1 DEF NoCall, ServicesTypeOK
    <3>4. reply' = reply \/ call[Console] = [srv |-> "abort", reply |-> reply']
      BY <2>2 DEF ConsoleTool, ConsoleStep, Publish, ServicesFound, NoServices, Confirm, Cancel,
         MoveAnswered, Receive, Watch, Key, AbortAnswered, Interrupt, Answered, Goto, Leave
    <3> QED
      BY <1>0, <3>1, <3>2, <3>3, <3>4 DEF AbortHolds
  <2> QED
    BY <2>1, <2>2
<1> QED
  BY <1>1, <1>2, <1>3

-----------------------------------------------------------------------------
(***************************************************************************)
(* The results.                                                            *)
(***************************************************************************)

LEMMA InitInv == Init => IInv
<1> SUFFICES ASSUME Init
             PROVE  IInv
  OBVIOUS
<1> USE DEF Init, ServicesInit, HandoffInit, ConsoleInit
<1>1. Clients = {Handoff, Console} /\ MaxRuns \in Nat /\ MaxTries \in Nat /\ QueueDepth \in Nat
  BY ToolsAssumption
<1>2. /\ call[Handoff] = NoCall /\ call[Console] = NoCall /\ run[Handoff] = 0
      /\ run[Console] = 0
  BY <1>1
<1>3. ServicesTypeOK
  <2>1. armed \in BOOLEAN /\ authority \in BOOLEAN /\ broken \in BOOLEAN /\ writes \in BOOLEAN
    OBVIOUS
  <2>2. /\ call \in [Clients -> [srv : Services \cup {"none"}, reply : {"none", "ok", "refused"}]]
        /\ run \in [Clients -> 0 .. MaxRuns] /\ setBy \in 0 .. MaxRuns
        /\ alone \in [Clients -> BOOLEAN]
    BY <1>1 DEF NoCall
  <2>3. /\ sent \subseteq [from : Clients, srv : Services, run : 1 .. MaxRuns]
        /\ owner \in {"external", "ramp", "hold"}
    OBVIOUS
  <2> QED
    BY <2>1, <2>2, <2>3 DEF ServicesTypeOK
<1>4. HandoffTypeOK /\ ConsoleTypeOK
  BY <1>1 DEF HandoffTypeOK, ConsoleTypeOK, Stages, Plan, Places, Outcomes
<1>5. HandoffCalls /\ ConsoleCalls
  BY <1>2 DEF HandoffCalls, ConsoleCalls, Running, Relatch, NoCall
<1>6. CallsHold /\ RelatchHolds /\ AbortHolds
  BY <1>2 DEF CallsHold, RelatchHolds, AtRelatch, AbortHolds, Running, Relatch, NoCall
<1> QED
  BY <1>3, <1>4, <1>5, <1>6 DEF IInv, TypeOK

LEMMA Inductive == IInv /\ [Next]_vars => IInv'
<1> SUFFICES ASSUME IInv, [Next]_vars
             PROVE  IInv'
  OBVIOUS
<1>1. TypeOK' /\ HandoffCalls' /\ ConsoleCalls'
  BY TypesStep
<1>2. CallsHold' /\ RelatchHolds' /\ AbortHolds'
  <2>1. CASE HandoffTool \/ HandoffCommand
    BY <2>1, HandoffHolds
  <2>2. CASE ConsoleTool
    BY <2>2, ConsoleHolds
  <2>3. CASE Nodes
    BY <2>3, ServeHolds, EventsKeep DEF Nodes
  <2>4. CASE UNCHANGED vars
    <3>1. /\ UNCHANGED <<stage, step, tries, code, told, reply, call, run, alone>>
          /\ UNCHANGED <<writes, owner, armed, authority, broken>>
      BY <2>4 DEF vars, serviceVars, nodeVars, handoffVars, consoleVars
    <3>2. \A srv : Called(srv)' <=> Called(srv)
      BY <3>1 DEF Called, Done, Running
    <3>3. CallsHold /\ RelatchHolds /\ AbortHolds
      BY DEF IInv
    <3> QED
      BY <3>1, <3>2, <3>3
         DEF CallsHold, RelatchHolds, AtRelatch, AbortHolds, Running, Current
  <2> QED
    BY <2>1, <2>2, <2>3, <2>4 DEF Next
<1> QED
  BY <1>1, <1>2 DEF IInv

\* What a tool that is alone knows from its answers is so.
THEOREM Invariance == Spec => []IInv
  BY InitInv, Inductive, PTL DEF Spec

\* A confirmed abort leaves the driver holding (pose_console).
THEOREM AbortConfirmed == Spec => []AbortedIsHeld
<1>1. IInv => AbortedIsHeld
  BY DEF IInv, AbortHolds, AbortedIsHeld
<1> QED
  BY <1>1, Invariance, PTL

\* The exit code of policy_handoff_control says what the nodes do, for every stage.
THEOREM ExitTruthful == Spec => []ExitIsTruthful
<1>1. IInv => ExitIsTruthful
  <2> SUFFICES ASSUME IInv, run[Handoff] > 0, alone[Handoff]
               PROVE  /\ code = "0" =>
                           /\ stage = "pose" /\ HoldAfterMove => owner \in {"ramp", "hold"}
                           /\ stage = "disable" => owner = "hold" /\ ~authority /\ ~armed
                           /\ stage = "arm" => ~authority /\ (armed \/ broken)
                           /\ stage \in {"live", "release"}
                                => owner = "external" /\ (authority \/ broken)
                      /\ code = "2" => /\ told # "released"
                                       /\ told = "held" => owner = "hold"
                                       /\ told = "refused" => ~writes
    BY DEF ExitIsTruthful
  <2>1. CallsHold /\ RelatchHolds
    BY DEF IInv
  <2>2. ASSUME code = "0"
        PROVE  \A srv : Called(srv) <=> All(stage, srv)
    <3>1. Done = Len(Plan[stage])
      BY <2>2 DEF Done, Running
    <3> QED
      BY <3>1 DEF Called, All
  <2>3. ASSUME code = "0", stage = "pose", HoldAfterMove
        PROVE  owner \in {"ramp", "hold"}
    <3>1. Called("move") /\ ~Called("release")
      BY <2>2, <2>3, PlanEnds
    <3> QED
      BY <2>1, <2>3, <3>1 DEF CallsHold
  <2>4. ASSUME code = "0", stage = "disable"
        PROVE  owner = "hold" /\ ~authority /\ ~armed
    <3>1. Called("disable") /\ Called("hold")
      BY <2>2, <2>4, PlanEnds
    <3> QED
      BY <2>1, <3>1 DEF CallsHold
  <2>5. ASSUME code = "0", stage = "arm"
        PROVE  ~authority /\ (armed \/ broken)
    <3>1. Called("arm") /\ ~Called("enable")
      BY <2>2, <2>5, PlanEnds
    <3> QED
      BY <2>1, <2>5, <3>1 DEF CallsHold
  <2>6. ASSUME code = "0", stage \in {"live", "release"}
        PROVE  owner = "external" /\ (authority \/ broken)
    <3>1. Called("release") /\ Called("enable")
      BY <2>2, <2>6, PlanEnds
    <3> QED
      BY <2>1, <3>1 DEF CallsHold
  <2>7. code = "2" => /\ told # "released"
                      /\ told = "held" => owner = "hold"
                      /\ told = "refused" => ~writes
    BY <2>1 DEF RelatchHolds
  <2> QED
    BY <2>3, <2>4, <2>5, <2>6, <2>7
<1> QED
  BY <1>1, Invariance, PTL

\* What both tools tell their operator when they end is so, and the types.
THEOREM ToolsAreTruthful == Spec => []ToolsInv
<1>1. IInv => TypeOK
  BY DEF IInv
<1>2. ExitIsTruthful /\ AbortedIsHeld /\ TypeOK => ToolsInv
  BY DEF ToolsInv
<1> QED
  BY <1>1, <1>2, Invariance, ExitTruthful, AbortConfirmed, PTL

\* The driver is released under a policy without authority, and the policy gets
\* authority over a driver that follows it.
THEOREM HandOver == Spec => HandOverInOrder
<1>1. ASSUME IInv, Next, alone'[Handoff], Running
      PROVE  /\ owner = "hold" /\ owner' = "external" => ~authority
             /\ ~authority /\ authority' => owner = "external"
  <2>1. CASE Serve
    <3>0. ServicesTypeOK /\ HandoffCalls /\ Handoff \in Clients /\ stage \in Stages
          /\ run[Handoff] > 0
      BY <1>1, HandoffAt DEF HandoffCalls
    <3>1. PICK r \in sent, ok \in BOOLEAN :
            /\ Execute(r.srv, ok)
            /\ call' = IF Awaited(r)
                       THEN [call EXCEPT ![r.from].reply = IF ok THEN "ok" ELSE "refused"]
                       ELSE call
            /\ alone' = [c \in Clients |-> alone[c] /\ c = r.from /\ Awaited(r)]
      BY <2>1 DEF Serve
    <3>2. alone[Handoff] /\ r.from = Handoff /\ Awaited(r) /\ r.srv \in Services
      <4>1. /\ r.srv \in Services
            /\ \A c \in Clients : alone'[c] => alone[c] /\ c = r.from /\ Awaited(r)
        BY <3>0, <3>1, ServeCall
      <4> QED
        BY <1>1, <3>0, <4>1
    <3>3. call[Handoff] = [srv |-> r.srv, reply |-> "none"] /\ r.srv # "none"
      BY <3>2 DEF Awaited, Services
    <3>4. r.srv = Current /\ Execute(Current, ok)
      BY <3>0, <3>1, <3>3 DEF HandoffCalls, NoCall
    <3>5. CallsHold
      BY <1>1 DEF IInv
    <3>6. ASSUME Current \in {"release", "enable"}
          PROVE  /\ Plan[stage][step] = Current /\ step \in DOMAIN Plan[stage]
                 /\ \A srv : Called(srv) <=> Before(stage, step, srv)
      <4>1. step # Relatch
        BY <3>6 DEF Current
      <4> QED
        BY <1>1, <3>0, <3>3, <4>1, DoneType DEF HandoffCalls, Current
    <3>7. CASE Current = "release"
      <4>1. Before(stage, step, "arm") /\ ~Before(stage, step, "enable")
        <5>1. stage \in Stages /\ step \in DOMAIN Plan[stage] /\ Plan[stage][step] = "release"
          BY <3>0, <3>6, <3>7
        <5> QED
          BY <5>1, PlanOrder
      <4>2. ~authority
        BY <3>0, <3>2, <3>5, <3>6, <3>7, <4>1 DEF CallsHold
      <4>3. authority' = authority
        BY <3>4, <3>7 DEF Execute, Release, KeepsPolicy
      <4> QED
        BY <4>2, <4>3
    <3>8. CASE Current = "enable"
      <4>1. Before(stage, step, "release")
        <5>1. stage \in Stages /\ step \in DOMAIN Plan[stage] /\ Plan[stage][step] = "enable"
          BY <3>0, <3>6, <3>8
        <5> QED
          BY <5>1, PlanOrder
      <4>2. owner = "external"
        BY <3>0, <3>2, <3>5, <3>6, <3>8, <4>1 DEF CallsHold
      <4> QED
        BY <4>2
    <3>9. CASE Current \notin {"release", "enable"}
      <4>1. owner' = "external" => owner = "external"
        BY <3>2, <3>4, <3>9 DEF Execute, Services, Move, Hold, Abort, Arm, Disable, Configure
      <4>2. authority' = FALSE \/ authority' = authority
        BY <3>2, <3>4, <3>9 DEF Execute, Services, Move, Hold, Abort, Arm, Disable, Configure,
           KeepsPolicy
      <4> QED
        BY <4>1, <4>2
    <3> QED
      BY <3>7, <3>8, <3>9
  <2>2. CASE RampEnds \/ ImuBreaks
    BY <2>2 DEF RampEnds, ImuBreaks
  <2>3. CASE HandoffTool \/ HandoffCommand \/ ConsoleTool
    <3>1. UNCHANGED nodeVars
      BY <1>1, <2>3, HandoffSteps, ConsoleSteps
    <3> QED
      BY <3>1 DEF nodeVars
  <2> QED
    BY <1>1, <2>1, <2>2, <2>3 DEF Next, Nodes
<1>2. IInv /\ [Next]_vars
        => [alone'[Handoff] /\ Running =>
              /\ owner = "hold" /\ owner' = "external" => ~authority
              /\ ~authority /\ authority' => owner = "external"]_vars
  BY <1>1
<1> QED
  BY <1>2, Invariance, PTL DEF Spec, HandOverInOrder
=============================================================================
