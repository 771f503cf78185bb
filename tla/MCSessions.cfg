CONSTANTS
  Users = {s1}
  AccessTtl = 1
  RefreshTtl = 2
  SessionTtl = 1
  Leeway = 1
  MaxTime = 3
  MaxAuths = 3
SPECIFICATION SessionsSpec
INVARIANT AuthenticatedValidates
CHECK_DEADLOCK FALSE
