SPECIFICATION FairSpec
CONSTANTS
  Tenants = {t1}
  Clients = {c1, c2}
  Keys = {k1}
  NoKey = NoKey
  MaxRequests = 2
  Mutations = {"increment"}
  Limits = {1, 2}
  NoRow = NoRow
  Faults = {"entitlement", "quota", "usage", "audit", "drop"}
  MaxFaults = 1
INVARIANTS
  TypeOK
  PaidWithinQuota
PROPERTIES
  ReservationsSettle
