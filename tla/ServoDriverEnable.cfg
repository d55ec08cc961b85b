CONSTANTS
  RampSteps = 1
  HoldAfterMove = TRUE
  WritesEnabled = TRUE
  MaxFeedbackAge = 4
  MaxStores = 2
  MaxTorque = 1
  Joints = {j1}
  Poses = {p1}
  RequireFeedback = TRUE
  StartupHold = TRUE
  HoldLast = TRUE
  SkipUnchanged = FALSE
  EveryCycleDue = TRUE
  CommandTimeout = 5
  MaxSweep = 3
  Clients = {"external", "measured", "ramp", "goal"}
  EnableNap = 2
  TorqueWait = 6
SPECIFICATION Spec
PROPERTY
  GoalWrittenBeforeTorque
