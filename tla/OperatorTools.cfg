CONSTANTS
  Clients = {"handoff", "console"}
  HoldAfterMove = TRUE
  MaxRuns = 2
  MaxTries = 2
  QueueDepth = 2
SPECIFICATION Spec
CHECK_DEADLOCK FALSE
INVARIANT
  ToolsInv
PROPERTY
  HandOverInOrder
