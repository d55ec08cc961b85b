\* A joint with room to overshoot, in the mode every launch file uses and in the
\* closed loop with integral action.
CONSTANTS
  Joints = {hip}
  Lower = 0
  Upper = 4
  Default = 1
  Modes = {"safety_only", "outer_pid"}
  RateLimit = TRUE
  AccelLimit = TRUE
  MaxSpeed = 2
  MaxAccel = 1
  FilterNum = 7
  FilterDen = 10
  Kp = 1
  Kd = 0
  Ki = 1
  MaxControllerSpeed = 2
  MaxControllerAccel = 1
  IntegralLimit = 1
  InitializeFromFeedback = TRUE
  RequireFeedback = TRUE
  FeedbackTimeout = 0
  CommandTimeout = 1
  Commands = {0, 3}
  Positions = {1, 5}
  Velocities = {0}
  NonFinite = NonFinite
SPECIFICATION LiveSpec
INVARIANTS
  PDInv
PROPERTIES
  TargetStepBounded
  SpeedBuildsUpGradually
  PinnedDoesNotWindUp
  ReferenceSettles
