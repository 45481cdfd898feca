SPECIFICATION FairSpec
CONSTANTS
  Ops = {1, 2}
  Holders = {h1}
  NoHolder = none
  MaxVersion = 2
  MaxGeneration = 1
  LeaseTime = 1
  PageLimit = 2
  MaxFence = 2
  MaxSyncFence = 0
  Consents = {}
  Policies = {}
  PollsMayDie = FALSE
PROPERTY QueueMoves
CHECK_DEADLOCK FALSE
