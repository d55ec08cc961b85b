CONSTANTS
  Missing = Missing
  Standing = "stand"
  Poses = {"stand", "crouch"}
  LimitChoices <- Limits
  Contracts <- InstalledContracts
  Angles = {0, 2}
  Margin = 1
  MaxSpread = 1
  MinSamples = 2
  MaxSamples = 3
  Requests <- EvaluatedPoses
  Moving = 2
  Settle = 3
  HoldSec = 2
  GuardEvery = 2
  GuardCount = 2
  Delay = 1
  Stale = 2
SPECIFICATION StandingSpec
CHECK_DEADLOCK FALSE
INVARIANTS
  StandingInv
  SamplesBelong
  OverloadStopsMotion
