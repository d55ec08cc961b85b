CONSTANTS
  Joints = {j1, j2}
  Poses = {p1, p2}
  RequireFeedback = TRUE
  StartupHold = TRUE
  HoldLast = TRUE
  SkipUnchanged = FALSE
  EveryCycleDue = FALSE
  WritesEnabled = TRUE
  CommandTimeout = 1
  MaxFeedbackAge = 0
  MaxSweep = 1
  Clients = {"external"}
  MaxStores = 2
  MaxTorque = 2
SPECIFICATION Spec
PROPERTY
  StartupTargetIsLatched
