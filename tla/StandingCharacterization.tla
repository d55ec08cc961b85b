---------------------- MODULE StandingCharacterization ----------------------
(***************************************************************************)
(* standing_characterization as a whole: capture_pose runs fill the        *)
(* library, evaluate runs stream references from one pose to the next and  *)
(* log the driver's telemetry, which comes late or not at all and says     *)
(* what the servos did some ticks ago.  A tick is one turn of run_phase's  *)
(* or run_transition's loop: key, guard when due, publish, receive.        *)
(***************************************************************************)
EXTENDS PoseLibrary

CONSTANTS
  Moving, Settle, HoldSec,  \* ticks of a transition, settle_sec, hold_sec
  GuardCount                \* guard_consecutive_cycles

ASSUME EvaluationAssumption ==
  /\ {Moving, Settle, HoldSec, GuardEvery, GuardCount} \subseteq Nat \ {0}
  /\ {Delay, Stale} \subseteq Nat
  /\ Settle > Delay + 1          \* 5 s against some milliseconds

VARIABLES
  source, phase,   \* the pose left last, plan holds those to visit; node.phase
  followed,        \* the reference the servos follow
  seen, count,     \* overload in latest_telemetry; the guard's counter
  overFor,         \* history: samples in a row with an overload
  records          \* logged in this tick: labels, and the reference when sampled

loopVars == <<plan, source, phase, left, due, ref, followed, transit, seen, age, count, overFor,
              records>>
standingVars == <<limits, contract, library, at, code, override, loopVars>>

ReferenceLabels == Poses \cup {"measured", "between"}
Trips == GuardEvery * GuardCount + Delay + Stale

StandingTypeOK ==
  /\ limits \in LimitChoices /\ contract \in Contracts /\ library \in [Poses -> Int \cup {Missing}]
  /\ at \in {"exited", "capture", "torqueOff", "placing", "saved", "preflight", "enabled",
             "released", "run", "abort"}
  /\ code \in {"none", "0", "3", "5", "7", "70", "130"}
  /\ phase \in {"transition", "settle", "hold"}
  /\ left \in 0 .. Moving + Settle + HoldSec /\ due \in 0 .. GuardEvery
  /\ {ref, followed} \subseteq ReferenceLabels /\ source \in Poses \cup {"measured"}
  /\ Len(transit) <= Delay /\ age \in 0 .. Stale + 1 /\ count \in 0 .. GuardCount
  /\ overFor \in 0 .. Trips + 1
  /\ records \subseteq [pose : Poses, source : Poses \cup {"measured"}, ref : ReferenceLabels,
                         phase : {"transition", "settle", "hold"}]
  /\ {override, seen} \subseteq BOOLEAN

StandingInit ==
  /\ limits \in LimitChoices /\ contract \in Contracts /\ library = [p \in Poses |-> Missing]
  /\ at = "exited" /\ code = "0" /\ override = TRUE
  /\ plan = <<>> /\ source = "measured" /\ phase = "hold" /\ left = 0 /\ due = 0
  /\ ref = "measured" /\ followed = "measured" /\ transit = <<>>
  /\ seen = FALSE /\ age = 0 /\ count = 0 /\ overFor = 0 /\ records = {}

-----------------------------------------------------------------------------
(* Before the motion.                                                       *)

\* main: nothing is started under a contract that does not fit the servo map.
Start ==
  /\ at = "exited"
  /\ IF ContractMatches(contract, limits)
       THEN at' \in {"capture", "preflight"} /\ code' = "none"
       ELSE UNCHANGED at /\ code' = "5"
  /\ plan' = <<>> /\ source' = "measured" /\ phase' = "hold" /\ left' = 0 /\ due' = 0
  /\ ref' = "measured" /\ followed' = "measured" /\ transit' = <<>>
  /\ seen' = FALSE /\ age' = 0 /\ count' = 0 /\ overFor' = 0 /\ records' = {}
  /\ UNCHANGED <<limits, contract, library, override>>

\* Another tool rewrites the limits of the servo map or installs a contract.
MapChanged ==
  /\ at = "exited"
  /\ \/ limits' \in LimitChoices /\ UNCHANGED contract
     \/ contract' \in Contracts /\ UNCHANGED limits
  /\ UNCHANGED <<library, at, code, override, loopVars>>

ToStream(requested) == ToSet(requested) \cup {Standing}

\* Every pose that will be streamed is there and inside the limits of today.
Streamable(requested) ==
  \A p \in ToStream(requested) : library[p] # Missing /\ Guarded(library[p], limits)

\* A request names at least one pose.
ASSUME RequestAssumption == Requests \subseteq Seq(Poses) \ {<<>>}

\* Phrase, then torque on with the measured pose held.
EnableHold ==
  /\ at = "preflight"
  /\ \E r \in Requests :
       IF Streamable(r)
       THEN \/ /\ at' = "enabled" /\ override' = TRUE /\ plan' = EvalSequence(r)
               /\ UNCHANGED code
            \/ Exit("3") /\ UNCHANGED <<plan, override>>
       ELSE Exit("5") /\ UNCHANGED <<plan, override>>
  /\ UNCHANGED <<limits, contract, library, source, phase, left, due, ref, followed, transit, seen, age, count,
                 overFor, records>>

\* Half a second of the measured pose, then the release.
ReleaseOverride ==
  /\ at = "enabled"
  /\ ref' = "measured" /\ followed' = "measured"
  /\ \/ at' = "released" /\ override' = FALSE /\ UNCHANGED code
     \/ Exit("3") /\ override' \in BOOLEAN
  /\ UNCHANGED <<limits, contract, library, plan, source, phase, left, due, transit, seen, age, count, overFor,
                 records>>

Begin(ph, ticks) == phase' = ph /\ left' = ticks /\ due' = 0

\* wait_for_ready with torque on and no override; a failure exits without a hold.
LoggingStarts ==
  /\ at = "released"
  /\ \/ at' = "run" /\ Begin("transition", Moving) /\ UNCHANGED code
     \/ Exit("3") /\ UNCHANGED <<phase, left, due>>
  /\ UNCHANGED <<limits, contract, library, override, plan, source, ref, followed, transit, seen, age, count,
                 overFor, records>>

-----------------------------------------------------------------------------
(* The loop.                                                                *)

Abort == at' = "abort" /\ UNCHANGED <<limits, contract, library, code, override, loopVars>>

Key == at = "run" /\ Abort

CountedWhenFresh == IF seen /\ age = 0 THEN count + 1 ELSE 0

\* continuous_guard: the counter counts guards, not telemetry.
Counted == IF seen THEN count + 1 ELSE 0

GuardTrips ==
  /\ at = "run" /\ due = 0
  /\ age > Stale \/ Counted >= GuardCount
  /\ Abort

\* Override, torque, feedback, diagnostics, lost cycles, other publishers.
GuardFinds == at = "run" /\ due = 0 /\ Abort

Guard ==
  IF due = 0
  THEN age <= Stale /\ Counted < GuardCount /\ count' = Counted
  ELSE UNCHANGED count

\* The reference of this tick; a transition ends on its target.
Publish ==
  ref' = IF phase = "transition" /\ left > 1 THEN "between" ELSE plan[1]

\* The servos follow what was published in this tick or in the last one.
Follow == followed' \in {ref, ref'}

\* _telemetry_cb for the samples that arrive, labelled with the present phase.
Receive ==
  \E over \in BOOLEAN :
    LET flow == Append(transit, [ref |-> followed', over |-> over])
    IN  \E n \in 0 .. Len(flow) :
          /\ Len(flow) - n <= Delay
          /\ transit' = SubSeq(flow, n + 1, Len(flow))
          /\ \/ /\ UNCHANGED seen /\ age' = IF age > Stale THEN age ELSE age + 1
                /\ records' = {}
             \/ \E newest \in 1 .. n : \E others \in SUBSET (1 .. newest - 1) :
                  /\ age' = 0 /\ seen' = flow[newest].over
                  /\ records' =
                       {[pose |-> plan[1], source |-> source, ref |-> flow[i].ref, phase |-> phase] :
                           i \in others \cup {newest}}
          /\ overFor' = IF ~over THEN 0 ELSE IF overFor > Trips THEN overFor ELSE overFor + 1

NextPhaseUnsettled ==
  CASE phase = "transition" -> Begin("hold", HoldSec) /\ UNCHANGED <<plan, source>>
    [] phase = "hold" /\ Len(plan) > 1 -> /\ Begin("transition", Moving) /\ plan' = Tail(plan)
                                             /\ source' = plan[1]
    [] OTHER -> Begin("hold", 0) /\ UNCHANGED <<plan, source>>

\* transition, settle, hold, and on to the next pose.
NextPhase ==
  CASE phase = "transition" -> Begin("settle", Settle) /\ UNCHANGED <<plan, source>>
    [] phase = "settle" -> Begin("hold", HoldSec) /\ UNCHANGED <<plan, source>>
    [] phase = "hold" /\ Len(plan) > 1 -> /\ Begin("transition", Moving) /\ plan' = Tail(plan)
                                             /\ source' = plan[1]
    [] OTHER -> Begin("hold", 0) /\ UNCHANGED <<plan, source>>

Tick ==
  /\ at = "run" /\ left > 0
  /\ Guard /\ Publish /\ Follow /\ Receive
  /\ IF left > 1
     THEN /\ left' = left - 1
          /\ due' = IF due = 0 THEN GuardEvery - 1 ELSE due - 1
          /\ UNCHANGED <<plan, source, phase>>
     ELSE NextPhase
  /\ UNCHANGED <<limits, contract, library, at, code, override>>

\* Reports and exit; Ctrl+C asks for a hold, which may not get through.
Finish == at = "run" /\ left = 0 /\ Exit("0") /\ UNCHANGED override
Held == at = "abort" /\ Exit("7") /\ override' \in {TRUE, override}
Interrupted == at # "exited" /\ Exit("130") /\ override' \in {TRUE, override}
ShutDown == at = "run" /\ Exit("70") /\ UNCHANGED override

Leave == (Finish \/ Held \/ Interrupted \/ ShutDown) /\ UNCHANGED <<limits, contract, library, loopVars>>

CaptureMode ==
  /\ Capture
  /\ override' = (override \/ at' = "placing")
  /\ UNCHANGED <<limits, contract, loopVars>>

StandingNext ==
  \/ Start \/ MapChanged \/ CaptureMode \/ EnableHold \/ ReleaseOverride \/ LoggingStarts
  \/ Key \/ GuardTrips \/ GuardFinds \/ Tick \/ Leave

StandingSpec == StandingInit /\ [][StandingNext]_standingVars

-----------------------------------------------------------------------------
(* The report.                                                              *)

\* pose_summary_rows and pose_level_rows: what was logged while holding a pose.
HoldRows(p) == {r \in records : r.phase = "hold" /\ r.pose = p}

\* transition_rows: what was logged on the way from one pose to the next.
TransitionRows(from, p) == {r \in records : r.phase = "transition" /\ r.source = from /\ r.pose = p}

-----------------------------------------------------------------------------
(* Properties.                                                              *)

\* Whatever was captured under other limits or another contract, only poses inside
\* the guarded limits of the servo map, and of the contract, of this run are streamed.
StreamedAreGuarded ==
  at \in {"enabled", "released", "run"} =>
    \A i \in DOMAIN plan :
      Guarded(library[plan[i]], limits) /\ Guarded(library[plan[i]], contract)

\* The types, the numbers, and what is streamed.
StandingInv ==
  /\ StandingTypeOK
  /\ SpeedIsLimited /\ SequenceIsSafe /\ AuditAgrees /\ StatisticsAreOrdered
  /\ StreamedAreGuarded

\* The steady-state rows of a pose hold samples taken at that pose only, and those of a
\* transition none from before the pose it leaves, although a sample is labelled when
\* it arrives.
SamplesBelong ==
  \A p \in Poses :
    /\ \A r \in HoldRows(p) : r.ref = p
    /\ \A from \in Poses \cup {"measured"} : \A r \in TransitionRows(from, p) :
         r.ref \in {from, "between", p}

\* An overload that lasts stops the motion: across phases, through lost and late
\* telemetry, no reference is published any more after Trips ticks of it.
OverloadStopsMotion == at = "run" => overFor <= Trips

-----------------------------------------------------------------------------
(* The inductive invariant of the last two.                                 *)

LoopTypes ==
  /\ transit \in Seq(Range(transit)) /\ Len(transit) <= Delay
  /\ \A i \in DOMAIN transit : transit[i].over \in BOOLEAN
  /\ seen \in BOOLEAN /\ age \in 0 .. Stale + 1 /\ count \in 0 .. GuardCount - 1
  /\ due \in 0 .. GuardEvery - 1 /\ left \in Nat /\ overFor \in Nat

\* Until the logging starts nothing has been sampled, and the measured pose is the reference.
BeforeTheRun ==
  at \notin {"exited", "run", "abort"} =>
    /\ transit = <<>> /\ ~seen /\ age = 0 /\ count = 0 /\ due = 0 /\ overFor = 0
    /\ source = "measured" /\ ref = "measured" /\ followed = "measured"

\* The samples of an overload that lasts are all on their way; while none has arrived it
\* is hardly older than the telemetry; and once one has, every guard counts.
OverloadIsTracked ==
  /\ \A i \in DOMAIN transit : i > Len(transit) - overFor => transit[i].over
  /\ ~seen /\ age <= Stale => overFor <= age + Delay
  /\ ~seen /\ age > Stale => overFor <= Stale + Delay + (GuardEvery - due)
  /\ seen => overFor <= Stale + Delay + count * GuardEvery + (GuardEvery - due)

\* What is published, followed and on its way belongs to the transition; in the settling
\* phase what is younger than the phase, and then everything, is the pose.
Settled(i) == phase = "hold" \/ (phase = "settle" /\ i > Len(transit) - (Settle - left))
RefsBelong ==
  at = "run" =>
    /\ phase \in {"transition", "settle", "hold"}
    /\ phase = "transition" =>
         /\ {ref, followed} \subseteq {source, "between", plan[1]}
         /\ \A i \in DOMAIN transit : transit[i].ref \in {source, "between", plan[1]}
    /\ phase # "transition" => ref = plan[1]
    /\ phase = "settle" => left \in 1 .. Settle
    /\ phase = "hold" \/ (phase = "settle" /\ left < Settle) => followed = plan[1]
    /\ \A i \in DOMAIN transit : Settled(i) => transit[i].ref = plan[1]

StandingIInv == LoopTypes /\ BeforeTheRun /\ OverloadIsTracked /\ RefsBelong /\ SamplesBelong

\* And of what is streamed: nothing runs under a contract that does not fit the limits, and
\* neither they nor the library change under a run.
PlanHolds ==
  /\ at # "exited" => contract.lo = limits.lo /\ contract.hi = limits.hi
  /\ at \in {"enabled", "released", "run"} =>
       /\ plan \in Seq(Range(plan))
       /\ \A p \in Range(plan) : Guarded(library[p], limits)
=============================================================================
