CONSTANTS
  NoReference = NoReference
  Tolerance = 1
  Low = 0
  High = 8
  Margin = 1
  MaxOffset = 2
  Sag = 1
  Requests <- Tests
  Hold = 5
  Move = 4
  GuardEvery = 2
  Stale = 1
  Delay = 1
SPECIFICATION IdentificationSpec
INVARIANTS
  IdentificationInv
  LossIsNoticed
PROPERTIES
  JumpIsBounded
