SPECIFICATION FairSpec
CONSTANTS
  Tenants = {t1, t2}
  Tails = {TRUE, FALSE}
  BatchSize = 2
  Faults = {"get", "source", "apply", "advance", "crash"}
  MaxEvents = 4
  MaxFaults = 2
INVARIANTS
  TypeOK
PROPERTIES
  CheckpointIsEarned
  CatchesUp
CHECK_DEADLOCK FALSE
