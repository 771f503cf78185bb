CONSTANTS
  Tenants = {t1}
  Clients = {c1, c2}
  Keys = {k1}
  NoKey = NoKey
  MAX_RETRIES = 1
  MaxRequests = 3
SPECIFICATION FairSpec
INVARIANTS
  TypeOK
  OutboxIsHistory
  AppliedAtMostOnce
  RepliesAreTrue
PROPERTIES
  ImplementsAtomicCounter
  RequestTerminates
