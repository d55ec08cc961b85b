CONSTANTS
  RampSteps = 1
  HoldAfterMove = TRUE
  WritesEnabled = TRUE
  MaxFeedbackAge = 1
  MaxStores = 2
  MaxTorque = 1
  Joints = {j1}
  Poses = {p1}
  RequireFeedback = TRUE
  StartupHold = TRUE
  HoldLast = TRUE
  SkipUnchanged = FALSE
  EveryCycleDue = FALSE
  CommandTimeout = 2
  MaxSweep = 1
  Clients = {"external", "measured", "ramp", "goal"}
  EnableNap = 1
  TorqueWait = 3
SPECIFICATION Spec
PROPERTY
  NoExternalWhileTorqueOff
