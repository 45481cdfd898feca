SPECIFICATION Spec
CONSTANTS
  Calls = {c1, c2}
  StepsOf <- OnePlan
  Budget <- OneBudget
  MaxFence = 3
  Denials = {}
  Preapproved = {}
  Lapsing = {1}
CHECK_DEADLOCK FALSE
PROPERTY DuplicatesLeaveTheWinner
