------------------------- MODULE TelemetryQueue_proofs -------------------------
(***************************************************************************)
(* Proofs about TelemetryQueue, for every capacity and number of cycles.   *)
(* What a reader can conclude from a published count depends on what is    *)
(* still waiting: QueueInv says that the waiting snapshots are the newest, *)
(* and how far the count of each can lag at its place in the queue.        *)
(***************************************************************************)
EXTENDS TelemetryQueue, TLAPS

\* A waiting snapshot has a cycle and a count that are natural numbers.
LEMMA Element ==
  ASSUME NEW s \in Seq(Snapshot), NEW i \in 1 .. Len(s)
  PROVE  s[i] \in Snapshot /\ s[i].cycle \in Nat /\ s[i].dropped \in Nat
<1>1. s[i] \in Snapshot
  OBVIOUS
<1> QED
  BY <1>1 DEF Snapshot

LEMMA InitInv == Init => QueueInv
<1> SUFFICES ASSUME Init PROVE QueueInv
  OBVIOUS
<1>1. TypeOK
  <2>1. queue \in Seq(Snapshot)
    BY DEF Init
  <2>2. last \in Snapshot
    BY DEF Init, Snapshot
  <2> QED
    BY <2>1, <2>2 DEF Init, TypeOK
<1>2. Len(queue) = 0
  BY DEF Init
<1>3. QueueIsNewest
  BY <1>2, QueueAssumption DEF QueueIsNewest, QueueAssumption
<1>4. CountsInOrder
  BY <1>2 DEF Init, CountsInOrder
<1>5. EverySnapshotIsCounted
  BY <1>2 DEF Init, EverySnapshotIsCounted
<1>6. ReportedLossIsBounded /\ CaughtUpReaderKnows
  BY DEF Init, ReportedLossIsBounded, CaughtUpReaderKnows
<1> QED
  BY <1>1, <1>3, <1>4, <1>5, <1>6 DEF QueueInv

\* What push leaves of the queue before it appends: all of it, or its tail.
Kept == IF Full THEN Tail(queue) ELSE queue

\* The kept snapshots fit, and each moved down by the number of new losses.
LEMMA KeptPart ==
  ASSUME QueueInv, Push
  PROVE  /\ Kept \in Seq(Snapshot)
         /\ Len(Kept) < Capacity
         /\ Len(Kept) = Len(queue) - (dropped' - dropped)
         /\ dropped' - dropped \in {0, 1}
         /\ \A i \in 1 .. Len(Kept) : /\ i + (dropped' - dropped) \in 1 .. Len(queue)
                                      /\ Kept[i] = queue[i + (dropped' - dropped)]
<1>1. queue \in Seq(Snapshot) /\ dropped \in Nat /\ Len(queue) \in Nat
  BY DEF QueueInv, TypeOK
<1>2. Len(queue) <= Capacity /\ Capacity \in Nat \ {0}
  BY QueueAssumption DEF QueueInv, QueueIsNewest, QueueAssumption
<1>3. CASE Full
  <2>1. Kept = Tail(queue) /\ dropped' = dropped + 1
    BY <1>3 DEF Kept, Push
  <2>2. queue # <<>> /\ Len(queue) = Capacity
    BY <1>1, <1>2, <1>3 DEF Full
  <2>3. Tail(queue) \in Seq(Snapshot) /\ Len(Tail(queue)) = Len(queue) - 1
    BY <1>1, <2>2
  <2>4. \A i \in 1 .. Len(Tail(queue)) : Tail(queue)[i] = queue[i + 1]
    BY <1>1, <2>2
  <2> QED
    BY <1>1, <1>2, <2>1, <2>2, <2>3, <2>4
<1>4. CASE ~Full
  <2>1. Kept = queue /\ dropped' = dropped
    BY <1>4 DEF Kept, Push
  <2> QED
    BY <1>1, <1>2, <1>4, <2>1 DEF Full
<1> QED
  BY <1>3, <1>4

LEMMA PushStep ==
  ASSUME QueueInv, Push
  PROVE  QueueInv'
<1> DEFINE d == dropped' - dropped
           new == [cycle |-> cycle + 1, dropped |-> dropped']
<1>1. /\ queue \in Seq(Snapshot) /\ dropped \in Nat /\ cycle \in Nat
      /\ last \in Snapshot /\ published \in Nat /\ Len(queue) \in Nat
      /\ Capacity \in Nat \ {0}
  BY QueueAssumption DEF QueueInv, TypeOK, QueueAssumption
<1>2. /\ Kept \in Seq(Snapshot) /\ Len(Kept) < Capacity
      /\ Len(Kept) = Len(queue) - d /\ d \in {0, 1}
      /\ \A i \in 1 .. Len(Kept) : i + d \in 1 .. Len(queue) /\ Kept[i] = queue[i + d]
  BY KeptPart
<1>3. dropped' = dropped + d /\ dropped' \in Nat
  BY <1>1, <1>2 DEF Push
<1>4. new \in Snapshot
  BY <1>1, <1>3 DEF Snapshot
<1>5. queue' = Append(Kept, new) /\ cycle' = cycle + 1
  BY DEF Push, Kept
<1>6. /\ queue' \in Seq(Snapshot) /\ Len(queue') = Len(Kept) + 1
      /\ \A i \in 1 .. Len(Kept) : queue'[i] = Kept[i]
      /\ queue'[Len(Kept) + 1] = new
  BY <1>2, <1>4, <1>5
<1>7. UNCHANGED <<stopped, bus, publisher, last, published>>
  BY DEF Push
<1>7a. new.cycle = cycle + 1 /\ new.dropped = dropped'
  OBVIOUS
<1> HIDE DEF d, new
<1>7b. Capacity \in Nat /\ d \in Int /\ Len(Kept) \in Nat /\ Len(queue') = Len(queue) - d + 1
  BY <1>1, <1>2, <1>6
<1>8. TypeOK'
  BY <1>1, <1>3, <1>5, <1>6, <1>7 DEF QueueInv, TypeOK
<1>9. QueueIsNewest'
  <2>1. \A i \in 1 .. Len(queue') : queue'[i].cycle = cycle' - Len(queue') + i
    <3> SUFFICES ASSUME NEW i \in 1 .. Len(queue')
                 PROVE  queue'[i].cycle = cycle' - Len(queue') + i
      OBVIOUS
    <3>1. CASE i = Len(Kept) + 1
      BY <1>1, <1>5, <1>6, <1>7a, <1>7b, <3>1
    <3>2. CASE i \in 1 .. Len(Kept)
      <4>1. queue'[i] = queue[i + d] /\ i + d \in 1 .. Len(queue)
        BY <1>2, <1>6, <1>7b, <3>2
      <4>2. queue[i + d].cycle = cycle - Len(queue) + (i + d)
        BY <4>1 DEF QueueInv, QueueIsNewest
      <4>3. Len(queue') = Len(queue) - d + 1 /\ d \in Int
        BY <1>2, <1>6
      <4> QED
        BY <1>1, <1>5, <4>1, <4>2, <4>3
    <3> QED
      BY <1>2, <1>6, <3>1, <3>2
  <2>2. Len(queue') <= Capacity
    BY <1>1, <1>2, <1>6, <1>7b
  <2> QED
    BY <2>1, <2>2 DEF QueueIsNewest
<1>10. CountsInOrder'
  <2>1. \A i \in 1 .. Len(Kept) :
          /\ queue'[i].dropped = queue[i + d].dropped
          /\ queue'[i].dropped \in Nat
          /\ dropped' - (Capacity - i) <= queue'[i].dropped
          /\ queue'[i].dropped <= dropped
          /\ last.dropped <= queue'[i].dropped
    <3> SUFFICES ASSUME NEW i \in 1 .. Len(Kept)
                 PROVE  /\ queue'[i].dropped = queue[i + d].dropped
                        /\ queue'[i].dropped \in Nat
                        /\ dropped' - (Capacity - i) <= queue'[i].dropped
                        /\ queue'[i].dropped <= dropped
                        /\ last.dropped <= queue'[i].dropped
      OBVIOUS
    <3>1. queue'[i] = queue[i + d] /\ i + d \in 1 .. Len(queue) /\ d \in Int
      BY <1>2, <1>6
    <3>2. queue[i + d].dropped \in Nat
      BY <1>1, <3>1, Element
    <3>3. /\ dropped - (Capacity - (i + d)) <= queue[i + d].dropped
          /\ queue[i + d].dropped <= dropped
          /\ last.dropped <= queue[i + d].dropped
      BY <3>1 DEF QueueInv, CountsInOrder
    <3>4. dropped' - (Capacity - i) = dropped - (Capacity - (i + d))
      BY <1>1, <1>2, <1>3, <3>1
    <3> QED
      BY <3>1, <3>2, <3>3, <3>4
  <2>2. queue'[Len(Kept) + 1].dropped = dropped'
    BY <1>6, <1>7a
  <2>3. last.dropped \in Nat /\ last.dropped <= dropped /\ last.cycle <= cycle - Len(queue)
    <3>1. last.dropped \in Nat
      BY <1>1 DEF Snapshot
    <3> QED
      BY <3>1 DEF QueueInv, CountsInOrder
  <2>4. \A i \in 1 .. Len(queue') :
          /\ dropped' - (Capacity - i) <= queue'[i].dropped
          /\ queue'[i].dropped <= dropped'
          /\ last.dropped <= queue'[i].dropped
    <3> SUFFICES ASSUME NEW i \in 1 .. Len(queue')
                 PROVE  /\ dropped' - (Capacity - i) <= queue'[i].dropped
                        /\ queue'[i].dropped <= dropped'
                        /\ last.dropped <= queue'[i].dropped
      OBVIOUS
    <3>1. CASE i = Len(Kept) + 1
      <4>1. dropped' - (Capacity - i) <= dropped' /\ dropped <= dropped'
        BY <1>1, <1>2, <1>3, <3>1
      <4>2. queue'[i].dropped = dropped'
        BY <2>2, <3>1
      <4>3. last.dropped <= dropped'
        BY <1>1, <1>3, <2>3, <4>1
      <4> QED
        BY <1>3, <4>1, <4>2, <4>3
    <3>2. CASE i \in 1 .. Len(Kept)
      <4>1. dropped <= dropped' /\ dropped \in Nat
        BY <1>1, <1>2, <1>3
      <4> QED
        BY <1>3, <2>1, <3>2, <4>1
    <3> QED
      BY <1>2, <1>6, <3>1, <3>2
  <2>5. \A i, j \in 1 .. Len(queue') : i <= j => queue'[i].dropped <= queue'[j].dropped
    <3> SUFFICES ASSUME NEW i \in 1 .. Len(queue'), NEW j \in 1 .. Len(queue'), i <= j
                 PROVE  queue'[i].dropped <= queue'[j].dropped
      OBVIOUS
    <3>1. CASE j = Len(Kept) + 1
      BY <1>1, <2>2, <2>4, <3>1
    <3>2. CASE j \in 1 .. Len(Kept)
      <4>1. i \in 1 .. Len(Kept) /\ i + d <= j + d
        BY <1>2, <3>2
      <4> QED
        BY <1>2, <2>1, <3>2, <4>1 DEF QueueInv, CountsInOrder
    <3> QED
      BY <1>2, <1>6, <3>1, <3>2
  <2>6. last'.dropped <= dropped' /\ last'.cycle <= cycle' - Len(queue')
    <3>1. last.cycle \in Nat
      BY <1>1 DEF Snapshot
    <3>2. cycle' - Len(queue') = cycle - Len(queue) + d
      BY <1>1, <1>5, <1>7b
    <3> QED
      BY <1>1, <1>2, <1>3, <1>7, <2>3, <3>1, <3>2
  <2>7. queue'[Len(queue')].dropped = dropped'
    BY <1>6, <1>7b, <2>2
  <2>8. last' = last /\ Len(queue') \in Nat
    BY <1>6, <1>7
  <2>9. \A i \in 1 .. Len(queue') : last'.dropped <= queue'[i].dropped
    BY <2>4, <2>8
  <2> QED
    BY <2>4, <2>5, <2>6, <2>7, <2>9 DEF CountsInOrder
<1>11. EverySnapshotIsCounted'
  <2>1. Len(queue') = Len(queue) - d + 1
    BY <1>7b
  <2>2. published + dropped + Len(queue) = cycle
    BY DEF QueueInv, EverySnapshotIsCounted
  <2> QED
    BY <1>1, <1>2, <1>3, <1>5, <1>7, <1>7b, <2>1, <2>2 DEF EverySnapshotIsCounted
<1>12. ReportedLossIsBounded' /\ CaughtUpReaderKnows'
  BY <1>2, <1>6, <1>7
     DEF QueueInv, ReportedLossIsBounded, Missing, CaughtUpReaderKnows
<1> QED
  BY <1>8, <1>9, <1>10, <1>11, <1>12 DEF QueueInv

LEMMA PopStep ==
  ASSUME QueueInv, Pop
  PROVE  QueueInv' /\ last'.cycle > last.cycle /\ last'.dropped >= last.dropped
<1>1. /\ queue \in Seq(Snapshot) /\ dropped \in Nat /\ cycle \in Nat
      /\ last \in Snapshot /\ published \in Nat /\ Capacity \in Nat \ {0}
  BY QueueAssumption DEF QueueInv, TypeOK, QueueAssumption
<1>2. /\ queue # <<>> /\ last' = queue[1] /\ queue' = Tail(queue)
      /\ published' = published + 1
      /\ UNCHANGED <<dropped, stopped, cycle, bus, publisher>>
  BY DEF Pop
<1>3. /\ Len(queue) \in Nat \ {0} /\ queue' \in Seq(Snapshot)
      /\ Len(queue') = Len(queue) - 1
      /\ \A i \in 1 .. Len(queue') : queue'[i] = queue[i + 1]
  BY <1>1, <1>2
<1>4. /\ queue[1] \in Snapshot /\ queue[1].dropped \in Nat
      /\ last.dropped \in Nat /\ last.cycle \in Nat
  <2>1. 1 \in 1 .. Len(queue)
    BY <1>3
  <2> QED
    BY <1>1, <2>1, Element DEF Snapshot
<1>5. last'.cycle = cycle - Len(queue) + 1
  BY <1>1, <1>2, <1>3 DEF QueueInv, QueueIsNewest
<1>6. /\ dropped - (Capacity - 1) <= last'.dropped /\ last'.dropped <= dropped
      /\ last.dropped <= last'.dropped
  BY <1>2, <1>3 DEF QueueInv, CountsInOrder
<1>7. last'.cycle > last.cycle
  BY <1>1, <1>3, <1>5 DEF QueueInv, CountsInOrder, Snapshot
<1>8. TypeOK'
  BY <1>1, <1>2, <1>3, <1>4 DEF QueueInv, TypeOK
<1>9. QueueIsNewest'
  BY <1>1, <1>2, <1>3 DEF QueueInv, QueueIsNewest
<1>10. CountsInOrder'
  <2>1. \A i \in 1 .. Len(queue') :
          /\ i + 1 \in 1 .. Len(queue) /\ queue[i + 1].dropped \in Nat
    BY <1>1, <1>3, Element
  <2>2. \A i \in 1 .. Len(queue') :
          /\ dropped - (Capacity - i) <= queue'[i].dropped
          /\ queue'[i].dropped <= dropped
          /\ last'.dropped <= queue'[i].dropped
    <3> SUFFICES ASSUME NEW i \in 1 .. Len(queue')
                 PROVE  /\ dropped - (Capacity - i) <= queue'[i].dropped
                        /\ queue'[i].dropped <= dropped
                        /\ last'.dropped <= queue'[i].dropped
      OBVIOUS
    <3>1. /\ dropped - (Capacity - (i + 1)) <= queue[i + 1].dropped
          /\ queue[i + 1].dropped <= dropped
          /\ queue[1].dropped <= queue[i + 1].dropped
      BY <1>3, <2>1 DEF QueueInv, CountsInOrder
    <3> QED
      BY <1>1, <1>2, <1>3, <2>1, <3>1
  <2>3. \A i, j \in 1 .. Len(queue') : i <= j => queue'[i].dropped <= queue'[j].dropped
    <3> SUFFICES ASSUME NEW i \in 1 .. Len(queue'), NEW j \in 1 .. Len(queue'), i <= j
                 PROVE  queue'[i].dropped <= queue'[j].dropped
      OBVIOUS
    <3>1. i + 1 <= j + 1
      OBVIOUS
    <3>2. queue[i + 1].dropped <= queue[j + 1].dropped
      BY <2>1, <3>1 DEF QueueInv, CountsInOrder
    <3> QED
      BY <1>3, <3>2
  <2>4. Len(queue') > 0 => queue'[Len(queue')].dropped = dropped
    <3> SUFFICES ASSUME Len(queue') > 0
                 PROVE  queue'[Len(queue')].dropped = dropped
      OBVIOUS
    <3>1. queue'[Len(queue')] = queue[Len(queue') + 1] /\ Len(queue') + 1 = Len(queue)
      BY <1>3
    <3>2. queue[Len(queue)].dropped = dropped
      BY <1>3 DEF QueueInv, CountsInOrder
    <3> QED
      BY <3>1, <3>2
  <2> QED
    BY <1>1, <1>2, <1>3, <1>5, <1>6, <2>2, <2>3, <2>4 DEF CountsInOrder
<1>11. EverySnapshotIsCounted'
  BY <1>1, <1>2, <1>3 DEF QueueInv, EverySnapshotIsCounted
<1>12. ReportedLossIsBounded'
  <2>1. last'.cycle - published' = dropped
    BY <1>1, <1>2, <1>3, <1>5 DEF QueueInv, EverySnapshotIsCounted
  <2> QED
    BY <1>1, <1>2, <1>4, <1>6, <2>1 DEF ReportedLossIsBounded, Missing
<1>13. CaughtUpReaderKnows'
  <2> SUFFICES ASSUME queue' = <<>>
               PROVE  last' = [cycle |-> cycle, dropped |-> dropped]
    BY <1>2 DEF CaughtUpReaderKnows
  <2>1. Len(queue) = 1
    BY <1>1, <1>3
  <2>2. last'.cycle = cycle /\ last'.dropped = dropped
    BY <1>1, <1>2, <1>5, <2>1 DEF QueueInv, CountsInOrder
  <2> QED
    BY <1>2, <1>4, <2>2 DEF Snapshot
<1> QED
  BY <1>6, <1>7, <1>8, <1>9, <1>10, <1>11, <1>12, <1>13, <1>4, <1>2 DEF QueueInv

\* The other steps leave queue, counts and published history alone.
LEMMA QuietStep ==
  ASSUME QueueInv,
         JoinBus \/ Stop \/ PopNothing \/ CheckStopped \/ Terminated \/ UNCHANGED vars
  PROVE  QueueInv' /\ UNCHANGED last
<1>1. UNCHANGED <<queue, dropped, cycle, last, published>>
  BY DEF JoinBus, Stop, PopNothing, CheckStopped, Terminated, vars
<1>2. TypeOK'
  BY DEF QueueInv, TypeOK, JoinBus, Stop, PopNothing, CheckStopped, Terminated, vars
<1> QED
  BY <1>1, <1>2 DEF QueueInv, QueueIsNewest, CountsInOrder, EverySnapshotIsCounted,
     ReportedLossIsBounded, Missing, CaughtUpReaderKnows

\* QueueInv is an invariant of the telemetry path.
THEOREM Invariance == Spec => []QueueInv
<1>1. QueueInv /\ [Next]_vars => QueueInv'
  BY PushStep, PopStep, QuietStep DEF Next, Publisher
<1> QED
  BY InitInv, <1>1, PTL DEF Spec

\* The published count of losses is never too high, and too low by less than
\* the capacity.
THEOREM LossBounded == Spec => []ReportedLossIsBounded
<1>1. QueueInv => ReportedLossIsBounded
  BY DEF QueueInv
<1> QED
  BY <1>1, Invariance, PTL

\* Every snapshot is published, waiting or counted as lost.
THEOREM AllCounted == Spec => []EverySnapshotIsCounted
<1>1. QueueInv => EverySnapshotIsCounted
  BY DEF QueueInv
<1> QED
  BY <1>1, Invariance, PTL

\* A reader who has caught up knows the exact number of losses.
THEOREM CaughtUp == Spec => []CaughtUpReaderKnows
<1>1. QueueInv => CaughtUpReaderKnows
  BY DEF QueueInv
<1> QED
  BY <1>1, Invariance, PTL

\* Published cycles grow and published counts never shrink.
THEOREM Ordered == Spec => PublishedInOrder
<1>1. QueueInv /\ [Next]_vars =>
        [last' # last => last'.cycle > last.cycle /\ last'.dropped >= last.dropped]_vars
  <2> SUFFICES ASSUME QueueInv, Next, last' # last
               PROVE  last'.cycle > last.cycle /\ last'.dropped >= last.dropped
    BY DEF vars
  <2>1. Push => UNCHANGED last
    BY DEF Push
  <2>2. Pop
    BY <2>1, QuietStep DEF Next, Publisher
  <2> QED
    BY <2>2, PopStep
<1> QED
  BY <1>1, Invariance, PTL DEF Spec, PublishedInOrder
=============================================================================
