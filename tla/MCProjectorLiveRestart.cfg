SPECIFICATION Spec
CONSTANTS
  Tenants = {t1, t2}
  Tails = {TRUE}
  BatchSize = 2
  Faults = {"crash"}
  MaxEvents = 2
  MaxFaults = 1
INVARIANTS ReplayRecovers
CHECK_DEADLOCK FALSE
