\* Live locomotion behind the hand-off gate, and a walking policy in shadow mode.
CONSTANTS
  Setups <- TestedSetups
  Signals = {hip}
  Commands = {"zero", "creep", "walk"}
  ImuTimeout = 1
  GapReset = 1
  StartupHold = 1
  RecoveryHold = 2
  JointTimeout = 1
  AgeTopicTimeout = 1
  MaxAge = 1
  CommandTimeout = 0
  ZeroOnTimeout = TRUE
  LatchOnBreak = TRUE
  Period = 4
  StaticPhases = {1, 3}
  FirstSwingLeft = TRUE
SPECIFICATION LiveSpec
INVARIANTS
  PolicyInv
  RevokedStaysOff
PROPERTIES
  FirstInferenceIsSeeded
  GaitIsContinuous
  OutagesPass
