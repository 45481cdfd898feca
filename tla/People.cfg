SPECIFICATION Spec
CONSTANTS
  Calls = {c1, c2}
  Twins = {t1, t2}
  Emails = {home, work}
  FirstEmail = home
  Third = t3
  MaxPassword = 3
  Accounts = {owner, other}
  FirstOwner = owner
  Unverified = {other}
  Factors = {t3}
  MaxStep = 1
  MaxChallenges = 2
  MaxSessions = 2
  MaxConfirmations = 2
  Nobody = nobody
  Codes = {1, 2}
  MaxRows = 1
  Lifetime = 3
  Interval = 1
  MaxInterval = 2
  MfaWindow = 2
  MaxTime = 5
  MaxPolls = 2
  MaxStops = 2
  Intents = {1, 2}
  MaxAttempts = 2
  MaxActive = 1
  MaxEpoch = 2
  MaxPairs = 3
  Teams = {x1, x2}
  Policies <- TwoPolicies
  LockKinds = {"manage", "join", "grant", "teamGrant", "team", "revoke", "joinTeam", "found"}
SYMMETRY Symmetry
INVARIANTS TypesOK
  MailIsAccountedFor AccountsAreConsistent ConnectionsAreCurrent OwnerRoleIsHeld
  CodesAreUsedOnce NoCircularWait
PROPERTIES
  LateWritersAreRefused PolicyGovernsGrowth ApprovalsAreHonoured
CHECK_DEADLOCK FALSE
