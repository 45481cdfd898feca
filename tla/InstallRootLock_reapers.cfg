SPECIFICATION Spec
CONSTANTS
  Procs = {p1, p2, p3}
  MaxCalls = 1
  NoLock = none
INVARIANT MutualExclusion
CHECK_DEADLOCK FALSE
