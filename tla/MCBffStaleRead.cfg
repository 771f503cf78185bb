SPECIFICATION Spec
CONSTANTS
  Tenants = {t1}
  Clients = {c1, c2}
  Keys = {k1}
  NoKey = NoKey
  MaxRequests = 2
  Mutations = {"reset"}
  Limits = {1, 2}
  NoRow = NoRow
  Faults = {}
  MaxFaults = 0
INVARIANTS ReadYourWrite
