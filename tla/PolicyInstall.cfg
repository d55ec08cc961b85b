CONSTANTS
  Actions = 2
  ClampTolerance = 1
  Absent = Absent
  Bundles <- Exports
  Maps <- TwoMaps
  Trims <- FoundTrims
  MaxEdits = 4
CHECK_DEADLOCK FALSE
SPECIFICATION InstallSpec
INVARIANTS
  InstallInv
  LiveOfOneExport
  TrimIsOwn
