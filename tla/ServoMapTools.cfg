CONSTANTS
  NumJoints = 2
  Sign <- Signs
  Stop <- Stops
  Default <- Defaults
  RawMax = 12
  Mounted <- FirstZeros
  Zeros = {5, 8}
  Align = 1
  Fine = 1
  Inspect = 2
  NoProposal = NoProposal
  MarginSteps = 2
  NoFile = NoFile
  MaxJobs = 3
CHECK_DEADLOCK FALSE
SPECIFICATION MapToolsSpec
INVARIANTS
  MapToolsInv
  LimitsStayPhysical
PROPERTIES
  LargeMovesAreReviewed
