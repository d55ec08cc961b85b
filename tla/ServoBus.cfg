\* A worker that skips unchanged writes and need not write in every cycle.
CONSTANTS
  Joints = {j1, j2}
  Poses = {p1, p2}
  RequireFeedback = TRUE
  StartupHold = TRUE
  HoldLast = TRUE
  SkipUnchanged = TRUE
  EveryCycleDue = FALSE
  WritesEnabled = TRUE
  CommandTimeout = 1
  MaxFeedbackAge = 0
  MaxSweep = 1
  Clients = {"external"}
  MaxStores = 2
  MaxTorque = 2
SPECIFICATION FairSpec
INVARIANTS
  BusInv
  TorqueAckIsTruthful
PROPERTIES
  GoalNeverGoesBack
  TorqueIsServed
  SafeTargetIsWritten
