\* A queue of three snapshots and a worker that overruns it several times.
CONSTANTS
  Capacity = 3
  MaxCycles = 9
SPECIFICATION Spec
INVARIANTS
  QueueInv
  ReportedLossIsBounded
PROPERTIES
  PublisherEnds
