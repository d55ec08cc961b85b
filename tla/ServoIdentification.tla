------------------------ MODULE ServoIdentification ------------------------
(***************************************************************************)
(* servo_identification: one joint is moved by steps, a staircase, a       *)
(* triangle or a load, from a measured anchor and back, while the driver's *)
(* telemetry is logged.  The test is a list of segments; a tick is one     *)
(* turn of the loop of run_reference_phase, smooth_transition, countdown   *)
(* or the triangle.  The eleven other joints are always sent their anchor  *)
(* and are left out.                                                       *)
(***************************************************************************)
EXTENDS StepAnalysis, LaboratoryRun

CONSTANTS
  NoReference,            \* nothing published yet
  Low, High,              \* min_rad, max_rad of the test joint
  MaxOffset,              \* --max-test-offset-rad
  Sag,                    \* how far the settled joint is from its reference
  Hold, Move              \* ticks of a held segment and of a smooth one

ASSUME IdentificationAssumption ==
  /\ {Low, High} \subseteq Int /\ {Margin, MaxOffset, Sag, Stale, Delay} \subseteq Nat
  /\ {Hold, Move, GuardEvery} \subseteq Nat \ {0}
  /\ \A r \in Requests :
       /\ r.mode \in {"step_sweep", "deadband_staircase", "triangle", "hold_under_load"}
       /\ r.offsets \in Seq(Int)
       /\ r.mode \in {"triangle", "hold_under_load"} => Len(r.offsets) = 1

\* return_sec and final_hold_sec, 3 s, against 0.5 s between two guards, the 0.15 s a
\* guard accepts and what the telemetry is on its way; an operator may choose others.
ASSUME NoticeAssumption == Move + Hold > Delay + Stale + GuardEvery

VARIABLES
  request, anchor,        \* arguments, also refused ones; the pose measured before the prompt
  from, goal,             \* the ends of the current segment of the plan
  known,                  \* a drop is known: what transit carries is the drop count
  dropped, spoilt         \* a snapshot was dropped since the baseline; in a trial

motion == <<request, anchor, plan, left, due, from, goal, ref>>
telemetry == <<transit, known, age, dropped, spoilt>>
identificationVars == <<at, code, override, motion, telemetry>>

Segment == [kind : {"countdown", "hold", "move", "triangle"},
            base : {"anchor", "centre", "local", "none"}, offset : Int, trial : BOOLEAN]
WithinLimits(x) == Low + Margin <= x /\ x <= High - Margin

IdentificationTypeOK ==
  /\ at \in {"exited", "preflight", "prompt", "armed", "run", "abort", "fallback"}
  /\ code \in {"none", "0", "1", "3", "5"}
  /\ request \in Requests /\ anchor \in Int \cup {NoReference}
  /\ \A i \in DOMAIN plan : plan[i] \in Segment
  /\ left \in 0 .. Hold + Move /\ due \in 0 .. GuardEvery
  /\ {from, goal, ref} \subseteq Int \cup {NoReference}
  /\ Len(transit) <= Delay /\ age \in 0 .. Stale + 1
  /\ {override, known, dropped, spoilt} \subseteq BOOLEAN

\* validate_args and bounded_offsets; the offsets of a staircase are looked at later.
ArgumentsOK(r) ==
  /\ r.centre \in -MaxOffset .. MaxOffset
  /\ r.mode # "deadband_staircase" => \A o \in ToSet(r.offsets) : o \in -MaxOffset .. MaxOffset
  /\ r.mode \in {"step_sweep", "triangle"} => \A o \in ToSet(r.offsets) : o > 0

\* A configuration error ends the runner before it has a node.
StartTest ==
  /\ request' \in Requests
  /\ IF ArgumentsOK(request') THEN at' = "preflight" /\ code' = "none"
                              ELSE UNCHANGED at /\ code' = "5"
  /\ anchor' = NoReference /\ plan' = <<>> /\ left' = 0 /\ due' = 0
  /\ from' = NoReference /\ goal' = NoReference /\ ref' = NoReference
  /\ override' \in BOOLEAN
  /\ transit' = <<>> /\ known' = FALSE /\ age' = 0 /\ dropped' = FALSE /\ spoilt' = FALSE

IdentificationInit ==
  /\ at = "preflight" /\ code = "none" /\ request \in {r \in Requests : ArgumentsOK(r)}
  /\ anchor = NoReference /\ plan = <<>> /\ left = 0 /\ due = 0
  /\ from = NoReference /\ goal = NoReference /\ ref = NoReference
  /\ override \in BOOLEAN
  /\ transit = <<>> /\ known = FALSE /\ age = 0 /\ dropped = FALSE /\ spoilt = FALSE

-----------------------------------------------------------------------------
(* The test as a list of segments.                                          *)

HoldAt(base, offset, trial) ==
  [kind |-> "hold", base |-> base, offset |-> offset, trial |-> trial]
MoveTo(base) == [kind |-> "move", base |-> base, offset |-> 0, trial |-> FALSE]
Countdown == [kind |-> "countdown", base |-> "none", offset |-> 0, trial |-> FALSE]
Triangle(amplitude) ==
  [kind |-> "triangle", base |-> "none", offset |-> amplitude, trial |-> TRUE]

\* bounded_offsets: every amplitude in both directions.
Steps(amplitudes) ==
  [k \in 1 .. 2 * Len(amplitudes) |->
     IF k % 2 = 1 THEN amplitudes[(k + 1) \div 2] ELSE -amplitudes[k \div 2]]
Trial(offset) == <<HoldAt("centre", 0, FALSE), HoldAt("local", offset, TRUE), MoveTo("centre")>>
Trials(steps) ==
  [k \in 1 .. 3 * Len(steps) |-> Trial(steps[(k + 2) \div 3])[((k - 1) % 3) + 1]]

Test(r) ==
  CASE r.mode = "step_sweep" ->
         <<MoveTo("centre"), HoldAt("centre", 0, FALSE)>> \o Trials(Steps(r.offsets))
         \o <<HoldAt("centre", 0, FALSE)>>
    [] r.mode = "deadband_staircase" ->
         LET stairs == <<0>> \o r.offsets \o <<0>>
                       \o [i \in DOMAIN r.offsets |-> -r.offsets[i]] \o <<0>>
         IN  [i \in DOMAIN stairs |-> HoldAt("anchor", stairs[i], TRUE)]
    [] r.mode = "triangle" -> <<Triangle(r.offsets[1])>>
    [] r.mode = "hold_under_load" ->
         <<HoldAt("anchor", r.offsets[1], FALSE), HoldAt("anchor", r.offsets[1], FALSE),
           HoldAt("anchor", r.offsets[1], TRUE)>>

\* Every test ends with the way back to the anchor, and the anchor held.
Plan(r) ==
  <<Countdown, HoldAt("anchor", 0, FALSE)>> \o Test(r)
  \o <<MoveTo("anchor"), HoldAt("anchor", 0, FALSE)>>

\* validate_offset_target: the target, or the anchor itself, unchecked, for 0.
ValidAlways(base, offset) == TRUE
Valid(base, offset) == offset = 0 \/ WithinLimits(base + offset)

Centre == anchor + request.centre

\* What is validated before the prompt: steps from the centre, the rest from the anchor.
Planned(a, r) ==
  IF r.mode = "step_sweep"
  THEN /\ Valid(a, r.centre)
       /\ \A s \in ToSet(Steps(r.offsets)) : Valid(a + r.centre, s)
  ELSE IF r.mode = "hold_under_load" THEN Valid(a, r.offsets[1])
  ELSE \A o \in ToSet(r.offsets) : o \in 1 .. MaxOffset /\ Valid(a, o) /\ Valid(a, -o)

-----------------------------------------------------------------------------
(* Before the motion.                                                       *)

\* Wherever the exception comes from: once there is an anchor the runner holds.
Fails == at' = "abort" /\ UNCHANGED code

\* wait_for_preflight; the pose is captured, and checked, before the prompt.  Ctrl+C
\* before there is an anchor ends the run with 1.
Preflight ==
  /\ at = "preflight"
  /\ \/ (Exit("3") \/ Exit("1")) /\ UNCHANGED anchor
     \/ /\ ~override
        /\ \E a \in Low - 1 .. High + 1 :
             /\ anchor' = a
             /\ IF a \in Low .. High /\ Planned(a, request)
                THEN at' = "prompt" /\ UNCHANGED code
                ELSE Fails
  /\ UNCHANGED <<request, plan, left, due, from, goal, ref, override, telemetry>>

\* While the prompt waits others may move the robot; the anchor stays.
Prompt ==
  /\ at = "prompt"
  /\ (at' = "armed" /\ UNCHANGED code) \/ Exit("0") \/ Fails
  /\ override' \in BOOLEAN
  /\ UNCHANGED <<motion, telemetry>>

\* The second preflight; the drop count of now is the baseline.
Armed ==
  /\ at = "armed"
  /\ \/ Exit("3") /\ UNCHANGED <<plan, left, due>>
     \/ Fails /\ UNCHANGED <<plan, left, due>>
     \/ /\ ~override /\ at' = "run" /\ plan' = Plan(request) /\ left' = Hold /\ due' = 0
        /\ UNCHANGED code
  /\ UNCHANGED <<request, anchor, from, goal, ref, override, telemetry>>

-----------------------------------------------------------------------------
(* The loop.                                                                *)

Current == plan[1]
AbortTest == Fails /\ UNCHANGED <<override, motion, telemetry>>

\* A key, another publisher, old diagnostics, an override.
TestGuardFinds == at = "run" /\ AbortTest

\* continuous_safety_guard
TestGuardTrips == at = "run" /\ due = 0 /\ (known \/ age > Stale) /\ AbortTest

\* What is published in this tick.
PublishSegment ==
  CASE Current.kind = "countdown" -> UNCHANGED ref
    [] Current.kind = "hold" -> ref' = goal
    [] Current.kind = "move" ->
         LET k == Move - left + 1
         IN  ref' = from + ((goal - from) * Smooth(k, Move)) \div (Move * Move * Move)
    [] Current.kind = "triangle" ->
         ref' = anchor + <<-1, 0, 1, 0>>[((Hold - left) % 4) + 1] * Current.offset

\* One snapshot of the driver, or one lost in its queue; best-effort messages
\* arrive late or never, and carry the count of the drops before them.
ReceiveTelemetry ==
  \E drop \in BOOLEAN :
    /\ dropped' = (dropped \/ drop)
    /\ spoilt' = (spoilt \/ (drop /\ Current.trial))
    /\ LET flow == Append(transit, dropped')
       IN  \E n \in 0 .. Len(flow) :
             /\ Len(flow) - n <= Delay
             /\ transit' = SubSeq(flow, n + 1, Len(flow))
             /\ \E newest \in 0 .. n :
                  IF newest = 0
                  THEN UNCHANGED known /\ age' = IF age > Stale THEN age ELSE age + 1
                  ELSE known' = flow[newest] /\ age' = 0

BeginAtAnchor(segments, base) ==
  LET s == segments[1]
  IN  /\ plan' = segments /\ due' = 0
      /\ left' = IF s.kind = "move" THEN Move ELSE Hold
      /\ from' = anchor /\ goal' = IF s.base = "none" THEN ref ELSE base + s.offset

\* The next segment; the target of a trial is taken from the measured position.
BeginSegment(segments, base) ==
  LET s == segments[1]
      target == IF s.base = "none" THEN ref ELSE base + s.offset
  IN  /\ plan' = segments /\ due' = 0
      /\ left' = IF s.kind = "move" THEN Move ELSE Hold
      /\ from' = ref' /\ goal' = target

Measured == {ref' + d : d \in -Sag .. Sag}
Bases(s) == CASE s.base = "centre" -> {Centre} [] s.base = "local" -> Measured
              [] OTHER -> {anchor}

EndSegment ==
  IF Len(plan) = 1
  THEN plan' = <<>> /\ left' = 0 /\ due' = 0 /\ UNCHANGED <<at, from, goal>>
  ELSE \E base \in Bases(plan[2]) :
         IF plan[2].kind # "hold" \/ Valid(base, plan[2].offset)
         THEN BeginSegment(Tail(plan), base) /\ UNCHANGED at
         ELSE at' = "abort" /\ UNCHANGED <<plan, left, due, from, goal>>

GuardPassesDrops == due = 0 => age <= Stale

\* continuous_safety_guard finds nothing, or is not due.
GuardPasses == due = 0 => ~known /\ age <= Stale

TestTick ==
  /\ at = "run" /\ left > 0
  /\ GuardPasses /\ PublishSegment /\ ReceiveTelemetry
  /\ IF left > 1
     THEN /\ left' = left - 1 /\ due' = IF due = 0 THEN GuardEvery - 1 ELSE due - 1
          /\ UNCHANGED <<at, plan, from, goal>>
     ELSE EndSegment
  /\ UNCHANGED <<code, request, anchor, override>>

-----------------------------------------------------------------------------
(* The end.                                                                 *)

\* Summary and metadata are written; the manifest asks for a name main does not
\* define, and the exception ends the process.
TestComplete == at = "run" /\ left = 0 /\ Exit("1") /\ UNCHANGED <<override, motion, telemetry>>

\* abort_hold: ask the driver, then publish the pose measured when it was asked.
HoldRequested ==
  /\ at = "abort"
  /\ at' = "fallback" /\ override' \in {TRUE, override}
  /\ \E pose \in Low - 1 .. High + 1 : ref' = pose
  /\ UNCHANGED <<code, request, anchor, plan, left, due, from, goal, telemetry>>

\* x, or a second Ctrl+C, even before the driver was asked.
HoldLeft ==
  /\ at \in {"abort", "fallback"} /\ Exit("1") /\ UNCHANGED <<override, motion, telemetry>>

IdentificationNext ==
  \/ Preflight \/ Prompt \/ Armed
  \/ TestGuardFinds \/ TestGuardTrips \/ TestTick
  \/ TestComplete \/ HoldRequested \/ HoldLeft
  \/ at = "exited" /\ StartTest

IdentificationSpec == IdentificationInit /\ [][IdentificationNext]_identificationVars

-----------------------------------------------------------------------------
(* Properties.                                                              *)

\* Between these two the joint is sent, whatever q0 the trials start from.
Allowed == Low + Margin .. High - Margin

Sendable(a, x) ==
  \/ WithinLimits(x) \/ x = a
  \/ \E y \in Allowed : (y < x /\ x < a) \/ (a < x /\ x < y)

\* During the test the joint is only sent to the guarded range, or to the measured anchor
\* and between the two.
SentWithinRange == at = "run" /\ ref # NoReference => Sendable(anchor, ref)

\* The types, the analysis, and where the joint is sent.
IdentificationInv == IdentificationTypeOK /\ AnalysisIsSound /\ SentWithinRange

\* No reference of the test jumps by more than the largest offset, and what the
\* joint sags below its reference: every smooth move begins where the joint was sent.
JumpIsBounded ==
  [][at = "run" /\ ref # NoReference =>
       ref' - ref \in -(MaxOffset + Sag) .. MaxOffset + Sag]_identificationVars

\* A run is not completed if the driver dropped a snapshot in one of its trials,
\* although the drop count comes late, in messages that may be lost.
LossIsNoticed == at = "run" /\ plan = <<>> => ~spoilt

\* The inductive invariant of the two.  What was asked for, and found possible from the
\* anchor; nothing is sent or lost before the run.
RequestHolds ==
  /\ request \in Requests
  /\ at # "exited" => ArgumentsOK(request)
  /\ at \in {"prompt", "armed", "run"} => anchor \in Int /\ Planned(anchor, request)
  /\ at \in {"preflight", "prompt", "armed"} => ~spoilt /\ ref = NoReference

TelemetryTypes ==
  /\ transit \in Seq(BOOLEAN) /\ Len(transit) <= Delay
  /\ {known, dropped, spoilt} \subseteq BOOLEAN /\ age \in 0 .. Stale + 1
  /\ due \in 0 .. GuardEvery - 1

\* A segment no part of which leads out of the range.
Fits(a, r, s) ==
  /\ s.kind = "hold" =>
       s.base # "none" /\ (s.base = "centre" => s.offset = 0) /\ (s.base = "local" => s.offset # 0)
  /\ s.kind = "move" => s.base \in {"anchor", "centre"} /\ s.offset = 0
  /\ s.base = "centre" => Valid(a, r.centre)
  /\ s.kind = "triangle" => s.base = "none" /\ Valid(a, s.offset) /\ Valid(a, -s.offset)
Fitting(a, r) == {s \in Segment : Fits(a, r, s)}

PlanFits ==
  at = "run" =>
    /\ plan \in Seq(Fitting(anchor, request))
    /\ \A i \in 2 .. Len(plan) : plan[i].kind # "countdown"
    /\ plan = <<>> => left = 0
    /\ plan # <<>> => /\ left \in 1 .. (IF Current.kind = "move" THEN Move ELSE Hold)
                      /\ plan[Len(plan)] = HoldAt("anchor", 0, FALSE)
                      /\ Current.kind = "countdown" => Len(plan) > 1 /\ plan[2] = HoldAt("anchor", 0, FALSE)
    /\ Len(plan) > 1 => plan[Len(plan) - 1] = MoveTo("anchor")

Sent(a, x) == x \in Int /\ Sendable(a, x)
RefsFit ==
  at = "run" =>
    /\ ref = NoReference \/ Sent(anchor, ref)
    /\ plan # <<>> => /\ Current.kind = "hold" => Sent(anchor, goal)
                      /\ Current.kind = "move" => Sent(anchor, from) /\ Sent(anchor, goal)

\* Ticks since the last trial, once the way back has begun: n segments to come, the first
\* with l ticks left.
WayBack(n, l) ==
  CASE n = 0 -> Move + Hold
    [] n = 1 -> Move + Hold - l
    [] n = 2 -> Move - l
    [] OTHER -> 0
Elapsed == WayBack(Len(plan), left)

\* The telemetry of the way back all tells of a drop in a trial; while none of it has
\* arrived the way back is hardly longer than the telemetry is old, and once it has, the
\* next guard sees it.
LossIsTracked ==
  at = "run" /\ spoilt =>
    /\ dropped /\ \A i \in DOMAIN transit : i > Len(transit) - Elapsed => transit[i]
    /\ ~known /\ age <= Stale => Elapsed <= age + Delay
    /\ ~known /\ age > Stale => Elapsed <= Stale + Delay + (GuardEvery - due)
    /\ known => Elapsed <= Stale + Delay + (GuardEvery - due)

IdentificationIInv == RequestHolds /\ TelemetryTypes /\ PlanFits /\ RefsFit /\ LossIsTracked

\* What JumpIsBounded needs besides.  Where a segment leads, from the anchor, and what may
\* come after it: nothing further off than an offset, a trial only from the centre.
Place(r, s) == s.offset + IF s.base \in {"centre", "local"} THEN r.centre ELSE 0
Follows(r, s, t) ==
  s.kind # "countdown" =>
    /\ Place(r, t) - Place(r, s) \in -MaxOffset .. MaxOffset
    /\ t.base = "local" => s.base = "centre"
    /\ s.kind = "triangle" => t.base = "anchor" /\ t.offset = 0
    /\ t.kind = "triangle" => s.base = "anchor" /\ s.offset = 0

\* The last reference of a segment.
EndsAt(a, r, s, x) ==
  CASE s.kind = "triangle" -> x \in {a + s.offset, a - s.offset, a}
    [] s.base = "local" -> x - (a + Place(r, s)) \in -Sag .. Sag
    [] OTHER -> x = a + Place(r, s)

Near(x, y) == x - y \in -(MaxOffset + Sag) .. MaxOffset + Sag

\* Every segment begins near where it leads, and ends where the next may begin.
WayHolds ==
  at = "run" /\ plan # <<>> =>
    /\ \A i \in 1 .. Len(plan) - 1 : Follows(request, plan[i], plan[i + 1])
    /\ Current.kind = "countdown" => ref = NoReference
    /\ Current.kind \in {"hold", "move"} => EndsAt(anchor, request, Current, goal)
    /\ Current.kind = "hold" => ref = NoReference \/ Near(goal, ref)
    /\ Current.kind = "move" =>
         /\ Near(goal, from) /\ ref \in Int
         /\ (from <= ref /\ ref <= goal) \/ (goal <= ref /\ ref <= from)
    /\ Current.kind = "triangle" =>
         ref = IF left = Hold THEN anchor
               ELSE anchor + <<-1, 0, 1, 0>>[((Hold - left - 1) % 4) + 1] * Current.offset

\* A test that was completed is a success.
CompletedExitsZero == [][at = "run" /\ at' = "exited" => code' = "0"]_identificationVars
=============================================================================
