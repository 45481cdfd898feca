SPECIFICATION Spec
CONSTANTS
  Users = {u1, u2, u3}
  FirstOwner = u1
  Unverified = {u2}
  Calls = {c1, c2}
INVARIANT ActiveOwnerIsPreserved
CHECK_DEADLOCK FALSE
