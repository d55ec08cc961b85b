\* The first cycles of the controller, before the driver has published.
CONSTANTS
  Joints = {hip}
  Lower = 0
  Upper = 6
  Default = 2
  Modes = {"safety_only"}
  RateLimit = TRUE
  AccelLimit = TRUE
  MaxSpeed = 2
  MaxAccel = 1
  FilterNum = 7
  FilterDen = 10
  Kp = 0
  Kd = 0
  Ki = 0
  MaxControllerSpeed = 1
  MaxControllerAccel = 1
  IntegralLimit = 0
  InitializeFromFeedback = TRUE
  RequireFeedback = TRUE
  FeedbackTimeout = 1
  CommandTimeout = 2
  Commands = {0, 4, 7}
  Positions = {1, 5}
  Velocities = {0}
  NonFinite = NonFinite
SPECIFICATION Spec
PROPERTY
  NothingPublishedBeforeAlignment
