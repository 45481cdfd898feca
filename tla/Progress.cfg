SPECIFICATION FairSpec
CONSTANTS
  Worker = w1
  Other = w2
  Third = w3
  None = none
  Cleaners = {w1}
  Keys = {k1, k2}
  Key1 = k1
  Key2 = k2
  ListLimit = 1
  MaxFailures = 1
  Workers = {w1, w2}
  Jobs = {j1, j2}
  Job1 = j1
  Job2 = j2
  MaxAttempts = 2
  MaxDeaths = 1
  Intents = {1, 2}
  Names = {n1, n2}
  MaxTrouble = 1
  MaxTx = 3
  MaxStops = 2
  MaxEdits = 1
  NoTree = Absent
  Edited = Edited
  Partial = Partial
INVARIANTS TypesOK
  ObjectsAreAccountedFor VerdictsAreEvidenced
PROPERTIES
  VerdictIsFinal WaitsEnd
CHECK_DEADLOCK FALSE
