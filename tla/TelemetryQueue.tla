---------------------------- MODULE TelemetryQueue ----------------------------
(***************************************************************************)
(* The telemetry path of the native ST3215 driver: the bus worker pushes   *)
(* one snapshot per cycle into a bounded queue and never waits; a          *)
(* publisher thread takes the snapshots out and publishes them.  A full    *)
(* queue loses its oldest snapshot.  Every snapshot carries the number of  *)
(* losses known when it was pushed; the identification and standing tools  *)
(* abort an armed test when the published number grows.                    *)
(*                                                                         *)
(* Each operation of the queue runs under its mutex and is one step.       *)
(***************************************************************************)
EXTENDS Integers, Sequences

CONSTANTS
  Capacity,     \* capacity_
  MaxCycles     \* bound: cycles the worker runs

ASSUME QueueAssumption == Capacity \in Nat \ {0} /\ MaxCycles \in Nat

VARIABLES
  queue,      \* queue_: [cycle, dropped] of each waiting snapshot
  dropped,    \* dropped_count_
  stopped,    \* stopped_
  cycle,      \* snapshots pushed: the worker's cycle_index
  bus,        \* "running", or "joined" after ServoBus::stop
  publisher,  \* telemetryPublishLoop: "wait", "check" or "ended"
  last,       \* the snapshot published last
  published   \* history: number of snapshots published

vars == <<queue, dropped, stopped, cycle, bus, publisher, last, published>>

Snapshot == [cycle : Nat, dropped : Nat]

TypeOK ==
  /\ queue \in Seq(Snapshot)
  /\ dropped \in Nat
  /\ stopped \in BOOLEAN
  /\ cycle \in Nat
  /\ bus \in {"running", "joined"}
  /\ publisher \in {"wait", "check", "ended"}
  /\ last \in Snapshot
  /\ published \in Nat

Init ==
  /\ queue = <<>>
  /\ dropped = 0
  /\ stopped = FALSE
  /\ cycle = 0
  /\ bus = "running"
  /\ publisher = "wait"
  /\ last = [cycle |-> 0, dropped |-> 0]
  /\ published = 0

-----------------------------------------------------------------------------
FullTooLate == Len(queue) > Capacity
Full == Len(queue) >= Capacity

\* Mutant: the snapshot carries the count from before its own push.
PushStampsFirst ==
  /\ bus = "running"
  /\ cycle < MaxCycles
  /\ cycle' = cycle + 1
  /\ dropped' = IF Full THEN dropped + 1 ELSE dropped
  /\ queue' = Append(IF Full THEN Tail(queue) ELSE queue,
                     [cycle |-> cycle + 1, dropped |-> dropped])
  /\ UNCHANGED <<stopped, bus, publisher, last, published>>

\* TelemetryQueue::push at the end of a bus cycle.
Push ==
  /\ bus = "running"
  /\ cycle < MaxCycles
  /\ cycle' = cycle + 1
  /\ dropped' = IF Full THEN dropped + 1 ELSE dropped
  /\ queue' = Append(IF Full THEN Tail(queue) ELSE queue,
                     [cycle |-> cycle + 1, dropped |-> dropped'])
  /\ UNCHANGED <<stopped, bus, publisher, last, published>>

\* ~ServoDriverNode: the worker is joined first, then the queue is stopped.
JoinBus ==
  /\ bus = "running"
  /\ bus' = "joined"
  /\ UNCHANGED <<queue, dropped, stopped, cycle, publisher, last, published>>

Stop ==
  /\ bus = "joined"
  /\ ~stopped
  /\ stopped' = TRUE
  /\ UNCHANGED <<queue, dropped, cycle, bus, publisher, last, published>>

\* waitPop finds a snapshot; publishTelemetry sends it.
Pop ==
  /\ publisher = "wait"
  /\ queue # <<>>
  /\ last' = Head(queue)
  /\ queue' = Tail(queue)
  /\ published' = published + 1
  /\ UNCHANGED <<dropped, stopped, cycle, bus, publisher>>

\* waitPop returns without one: 100 ms have passed, or the queue is stopped.
PopNothing ==
  /\ publisher = "wait"
  /\ queue = <<>>
  /\ publisher' = "check"
  /\ UNCHANGED <<queue, dropped, stopped, cycle, bus, last, published>>

\* Mutant: the publisher ends at stop without draining the queue.
CheckStoppedOnly ==
  /\ publisher = "check"
  /\ publisher' = IF queue = <<>> THEN "ended" ELSE "wait"
  /\ UNCHANGED <<queue, dropped, stopped, cycle, bus, last, published>>

\* stoppedAndEmpty, under the mutex again.
CheckStopped ==
  /\ publisher = "check"
  /\ publisher' = IF stopped /\ queue = <<>> THEN "ended" ELSE "wait"
  /\ UNCHANGED <<queue, dropped, stopped, cycle, bus, last, published>>

Publisher == Pop \/ PopNothing \/ CheckStopped

Terminated == publisher = "ended" /\ UNCHANGED vars

Next == Push \/ JoinBus \/ Stop \/ Publisher \/ Terminated

\* The publisher thread is scheduled; a wait of 100 ms comes to its end.
Spec == Init /\ [][Next]_vars /\ WF_vars(Publisher)

-----------------------------------------------------------------------------
\* Every snapshot is accounted for: published, waiting or counted as lost.
EverySnapshotIsCounted == published + dropped + Len(queue) = cycle

\* Snapshots lost before the one published last.
Missing == last.cycle - published

\* The published count never claims a loss that did not happen, and it lags
\* behind the gap a reader can see by less than the queue's capacity.
ReportedLossIsBounded ==
  published > 0 =>
    /\ last.dropped <= Missing
    /\ Missing - last.dropped < Capacity

\* A reader who has caught up knows the exact number of losses.
CaughtUpReaderKnows ==
  queue = <<>> /\ cycle > 0 => last = [cycle |-> cycle, dropped |-> dropped]

\* Published cycle indices grow, and the published count never shrinks: the
\* tools' comparison with a baseline is meaningful.
PublishedInOrder ==
  [][last' # last => last'.cycle > last.cycle /\ last'.dropped >= last.dropped]_vars

\* After stop the publisher drains the queue and ends; nothing that was pushed
\* and not lost stays unpublished.
PublisherEnds ==
  stopped ~> publisher = "ended" /\ published + dropped = cycle

-----------------------------------------------------------------------------
\* The waiting snapshots are the newest ones, in order.
QueueIsNewest ==
  /\ Len(queue) <= Capacity
  /\ \A i \in 1 .. Len(queue) : queue[i].cycle = cycle - Len(queue) + i

\* The count a waiting snapshot carries lags by at most the snapshots that
\* could still be lost before it; counts grow from the published one on.
CountsInOrder ==
  /\ \A i \in 1 .. Len(queue) :
       /\ dropped - (Capacity - i) <= queue[i].dropped
       /\ queue[i].dropped <= dropped
       /\ last.dropped <= queue[i].dropped
  /\ \A i, j \in 1 .. Len(queue) : i <= j => queue[i].dropped <= queue[j].dropped
  /\ Len(queue) > 0 => queue[Len(queue)].dropped = dropped
  /\ last.dropped <= dropped
  /\ last.cycle <= cycle - Len(queue)

QueueInv ==
  /\ TypeOK
  /\ QueueIsNewest
  /\ CountsInOrder
  /\ EverySnapshotIsCounted
  /\ ReportedLossIsBounded
  /\ CaughtUpReaderKnows
=============================================================================
