\* May the live policy have authority without an armed hand-off?
CONSTANTS
  Setups <- TestedSetups
  Signals = {hip}
  Commands = {"zero", "walk"}
  ImuTimeout = 1
  GapReset = 1
  StartupHold = 1
  RecoveryHold = 2
  JointTimeout = 1
  AgeTopicTimeout = 1
  MaxAge = 1
  CommandTimeout = 0
  ZeroOnTimeout = TRUE
  LatchOnBreak = TRUE
  Period = 4
  StaticPhases = {1, 3}
  FirstSwingLeft = TRUE
SPECIFICATION Spec
INVARIANT AuthorityIsArmed
