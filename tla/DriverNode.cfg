\* default_pose_hold_after_move = FALSE: the pose thread may give authority back
\* by itself, beside every other way a ramp can end.
CONSTANTS
  RampSteps = 2
  HoldAfterMove = FALSE
  WritesEnabled = TRUE
  MaxFeedbackAge = 0
  MaxStores = 5
  MaxTorque = 2
SPECIFICATION Spec
INVARIANTS
  IInv
  RampIsExclusive
  HoldIsKept
PROPERTIES
  ImplementsAuthority
  NothingBlocks
