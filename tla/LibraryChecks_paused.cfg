SPECIFICATION Spec
CONSTANTS
  Checks = {c1, c2}
  Names = {n1, n2}
  MaxPushes = 0
  MaxRenames = 2
  MaxEdits = 1
  MaxFaults = 1
  MaxAbsences = 1
  MaxTrouble = 5
INVARIANT PausedUntilSaved
CHECK_DEADLOCK FALSE
