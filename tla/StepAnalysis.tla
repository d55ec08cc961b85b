---------------------------- MODULE StepAnalysis ----------------------------
(***************************************************************************)
(* What servo_identification makes of the driver's telemetry: analyze_trial *)
(* and write_summary.  A response is the sequence of displacements from    *)
(* q_initial, one per sample after the command, for a positive step (a     *)
(* negative one is its mirror image); times are numbers of samples, or of  *)
(* driver cycles, and a cycle writes its target before it samples.         *)
(***************************************************************************)
EXTENDS Statistics

CONSTANT Tolerance       \* target_tolerance, when it is the fixed 3 mrad

ASSUME ToleranceAssumption == Tolerance \in Nat

Never == 0               \* no such sample
First(times) == IF times = {} THEN Never ELSE Min(times)

\* first_crossing_ms of a fraction, in thousandths, of the step.
Crossing(response, step, fraction) ==
  First({i \in DOMAIN response : 1000 * response[i] >= fraction * step})

\* settling_time_ms: inside the band from there on.
Settling(response, twiceTarget, twiceBand) ==
  First({i \in DOMAIN response : \A j \in i .. Len(response) :
           LET off == 2 * response[j] - twiceTarget
           IN  -twiceBand <= off /\ off <= twiceBand})

\* The samples after the first percent of them.
LastPart(seq, percent) == SubSeq(seq, (percent * Len(seq)) \div 100 + 1, Len(seq))

\* Twice the achieved displacement.
TwiceAchieved(response) == TwiceMedian(LastPart(response, 80))

\* 10 to 90 percent of a step, or of what was achieved of it.
RiseTime(ten, ninety) == IF ten = Never \/ ninety = Never THEN Never ELSE ninety - ten + 1

\* The dynamic part of analyze_trial; achieved_delta may have the other sign.
Dynamics(response, step) ==
  LET twice == TwiceAchieved(response)
      toward == [i \in DOMAIN response |-> IF twice < 0 THEN -2 * response[i] ELSE 2 * response[i]]
      achieved == IF twice < 0 THEN -twice ELSE twice
  IN  IF Len(response) < 3 THEN [status |-> "insufficient_samples"]
      ELSE IF step = 0 THEN [status |-> "zero_step"]
      ELSE [status |-> "ok",
            rise |-> RiseTime(Crossing(response, step, 100), Crossing(response, step, 900)),
            tau |-> Crossing(response, step, 632),
            overshoot |-> Max({0, Largest(response) - step}),
            settled |-> Settling(response, 2 * step, 0),
            achievedRise |-> IF achieved < 2 THEN Never
                             ELSE RiseTime(Crossing(toward, achieved, 100), Crossing(toward, achieved, 900)),
            achievedSettled |-> IF achieved < 2 THEN Never ELSE Settling(response, twice, 2)]

\* _telemetry_cb: a cycle is logged unless that cycle, or a later one, was.
Logged(arrivals) ==
  FoldLeft(LAMBDA log, cycle : IF log = <<>> \/ cycle > Last(log) THEN Append(log, cycle) ELSE log,
           <<>>, arrivals)

\* Of the cycles logged: the one that received the command first, and the first
\* successful write of the target.  cycles[t] is [received |-> when its command
\* came, target, ok |-> was it written, count |-> the encoder].
Matches(target, step) == target - step <= Tolerance /\ step - target <= Tolerance
FirstReceipt(cycles, command, step) ==
  First({cycles[t].received : t \in {u \in DOMAIN cycles :
           cycles[u].received >= command /\ Matches(cycles[u].target, step)}})
FirstWrite(cycles, command, step) ==
  First({t \in DOMAIN cycles : t >= command /\ cycles[t].ok /\ Matches(cycles[t].target, step)})

\* The last encoder count sampled before the write, and the first other one after it.
EncoderOnset(cycles, write) ==
  LET before == {t \in DOMAIN cycles : t < write}
  IN  IF write = Never \/ before = {} THEN Never
      ELSE First({t \in DOMAIN cycles : t >= write /\ cycles[t].count # cycles[Max(before)].count})

\* velocity_saturation: the first amplitude whose peak speed, in percent of the
\* one before, gains less than the plateau fraction.
PlateauCandidate(peaks, plateau) ==
  First({i \in 2 .. Len(peaks) : 100 * (peaks[i] - peaks[i - 1]) < plateau * peaks[i - 1]})

\* groups: the points of a trial, in the order in which they came.
Group(points, trial) ==
  FoldLeft(LAMBDA group, p : IF p.trial = trial THEN Append(group, p) ELSE group, <<>>, points)

\* deadband: the smallest offset whose stair moved the joint.  A point is what was
\* sampled, with the trial that was running when it arrived.
SmallestUseful(points, trials, threshold) ==
  LET Steady(i) == LastPart(Group(points, i), 70)
      Twice(i, Value(_)) == TwiceMedian([k \in DOMAIN Steady(i) |-> Value(Steady(i)[k])])
      Size(x) == IF x < 0 THEN -x ELSE x
      Useful == {i \in trials : /\ Steady(i) # <<>> /\ Twice(i, LAMBDA p : p.ref) # 0
                                /\ Size(Twice(i, LAMBDA p : p.q)) >= 2 * threshold}
  IN  First({Size(Twice(i, LAMBDA p : p.ref)) \div 2 : i \in Useful})

\* loaded_stiffness: twice the deflection, from the second halves of both holds.
TwiceDeflection(baseline, loaded) ==
  TwiceMedian(LastPart(loaded, 50)) - TwiceMedian(LastPart(baseline, 50))

-----------------------------------------------------------------------------
Responses(n, values) == [1 .. n -> values]

\* The crossings come in order, and a response that settles within 2 percent of
\* the target has crossed 90 percent by then.
CrossingsAreOrdered ==
  \A r \in Responses(5, -1 .. 4) :
    LET d == Dynamics(r, 3)
        ten == Crossing(r, 3, 100)  ninety == Crossing(r, 3, 900)
    IN  /\ ninety # Never => Never < d.tau /\ d.tau <= ninety
        /\ d.tau # Never => Never < ten /\ ten <= d.tau
        /\ d.settled # Never => Never < ninety /\ ninety <= d.settled /\ d.rise # Never
        /\ d.overshoot > 0 => ninety # Never

\* However small the static gain, and whatever its sign, a step that was achieved at
\* all has a rise time relative to what was achieved.
AchievedIsDefined ==
  \A r \in Responses(6, -1 .. 2) :
    TwiceAchieved(r) \notin -1 .. 1 => Dynamics(r, 3).achievedRise # Never

\* In whatever order cycles arrive, and however many are lost or come twice, a step
\* above the tolerance is written after it was received: the writes of the reference
\* before it are told apart.  The encoder onset is never before the joint moves, and
\* the log of every cycle gives it to the cycle.
TimingChainIsCausal ==
  LET Length == 4  command == 2  step == Tolerance + 1
      Received == {f \in [1 .. Length -> 1 .. Length] : \A t \in 1 .. Length :
                     f[t] <= t /\ \A u \in 1 .. t : f[u] <= f[t]}
      Arrivals == UNION {[1 .. n -> 1 .. Length] : n \in 0 .. Length}
      Cycle(received, ok, motion, t) ==
        [received |-> received[t], ok |-> t \in ok,
         target |-> IF received[t] >= command THEN step ELSE 0,
         count |-> IF t < motion THEN 0 ELSE 1]
      All(received, ok, motion) == [t \in 1 .. Length |-> Cycle(received, ok, motion, t)]
      Logs == {ToSet(Logged(a)) : a \in Arrivals}
  IN  /\ \A a \in Arrivals : Cardinality(ToSet(Logged(a))) = Len(Logged(a))
      /\ \A received \in Received, ok \in SUBSET (1 .. Length), log \in Logs, motion \in 1 .. Length :
           LET all == All(received, ok, motion)
               cycles == [t \in log |-> all[t]]
               written == FirstWrite(all, command, step)
               write == FirstWrite(cycles, command, step)
               onset == EncoderOnset(cycles, write)
           IN  written # Never /\ motion >= written =>
                 /\ write # Never => /\ written <= write
                                     /\ FirstReceipt(cycles, command, step) # Never
                                     /\ FirstReceipt(cycles, command, step) <= write
                 /\ onset # Never => motion <= onset
                 /\ log = 1 .. Length => onset = motion

\* The staircase finds the deadband of a servo that follows a target once it is that
\* far off, although the points of a stair arrive up to Lag samples after they were
\* taken and carry the label of the stair then running.
DeadbandIsFound ==
  LET Dwell == 4  largest == 3
      stairs == <<0, 1, 2, 3, 0, -1, -2, -3, 0>>
      Follow(deadband, q, cmd) ==
        IF cmd - q >= deadband \/ q - cmd >= deadband THEN cmd ELSE q
      Positions(deadband) ==
        FoldLeft(LAMBDA qs, cmd : Append(qs, Follow(deadband, IF qs = <<>> THEN 0 ELSE Last(qs), cmd)),
                 <<>>, stairs)
      Stair(k) == (k - 1) \div Dwell + 1
  IN  \A deadband \in 1 .. largest + 1, lag \in 0 .. Dwell \div 2, threshold \in 1 .. largest :
        LET qs == Positions(deadband)
            points == [k \in 1 .. Dwell * Len(stairs) - lag |->
                         [trial |-> Stair(k + lag), ref |-> stairs[Stair(k)], q |-> qs[Stair(k)]]]
        IN  threshold <= deadband => SmallestUseful(points, DOMAIN stairs, threshold)
              = IF deadband <= largest THEN deadband ELSE Never

\* So does the stiffness test its load's deflection, applied between the two holds.
LoadIsIsolated ==
  LET n == 4
  IN  \A deflection \in -2 .. 2, between \in 0 .. 3, lag \in 0 .. n \div 2 :
        LET q(k) == IF k <= n THEN 0 ELSE IF k <= 2 * n THEN between ELSE deflection
        IN  TwiceDeflection([k \in 1 .. n |-> q(k - lag)], [k \in 1 .. n |-> q(2 * n + k - lag)])
              = 2 * deflection

AnalysisIsSound ==
  CrossingsAreOrdered /\ AchievedIsDefined /\ TimingChainIsCausal /\ DeadbandIsFound /\ LoadIsIsolated
=============================================================================
