SPECIFICATION Spec
CONSTANTS
  Calls = {c1, c2}
  MaxFence = 3
SYMMETRY Symmetry
INVARIANTS TypesOK SuccessIsEvidenced AppliedOncePerLease
PROPERTIES SettledRunsStaySettled FencesOrderTheWork
CHECK_DEADLOCK FALSE
