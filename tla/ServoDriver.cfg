CONSTANTS
  RampSteps = 1
  HoldAfterMove = TRUE
  WritesEnabled = TRUE
  MaxFeedbackAge = 0
  MaxStores = 2
  MaxTorque = 2
  Joints = {j1}
  Poses = {p1}
  RequireFeedback = TRUE
  StartupHold = TRUE
  HoldLast = TRUE
  SkipUnchanged = FALSE
  EveryCycleDue = TRUE
  CommandTimeout = 0
  MaxSweep = 1
  Clients = {"external", "measured", "ramp", "goal"}
  EnableNap = 1
  TorqueWait = 3
SPECIFICATION Spec
INVARIANTS
  TorqueCallsAreAnswered
PROPERTIES
  PartsKeepTheirSpecs
  HeldGoalStays
