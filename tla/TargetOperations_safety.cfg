SPECIFICATION Spec
CONSTANTS
  Ops = {1, 2}
  Holders = {h1, h2}
  NoHolder = none
  MaxVersion = 1
  MaxGeneration = 2
  LeaseTime = 1
  PageLimit = 2
  MaxFence = 2
  MaxSyncFence = 1
  Consents = {"revoked"}
  Policies = {"allows", "outside-window", "blocks"}
  PollsMayDie = TRUE
SYMMETRY Symmetry
INVARIANTS TypeOK OneExecutor FencesUnique ClaimColumns
PROPERTIES
  StaleWorkerFenced ImplementsTickets SuccessIsSound SettledIsFinal RevokedIsFrozen
CHECK_DEADLOCK FALSE
