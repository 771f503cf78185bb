\* The bounds let every interrupted command be run again once, a pid be reused,
\* and two edits combine in one model or tree.
CONSTANTS
  CatalogSize = 3
  MaxEdits = 2
  WorkerCount = 2
  p1 = p1
  p2 = p2
  Pids = {p1, p2}
  MaxReleases = 2
  MaxCommands = 2
  bff = bff
  relay = relay
  Deployables = {bff, relay}
  db1 = db1
  db2 = db2
  Databases = {db1, db2}
  s1 = s1
  s2 = s2
  s3 = s3
  ServiceNames = {s1, s2, s3}
  LongNames = {s3}
  d1 = d1
  d2 = d2
  DeployableNames = {d1, d2}
  CounterDeployable = d2
  MaxModelEdits = 2
  MaxTreeEdits = 2
  Servers = {v1, v2}
  MaxSettingEdits = 1
  MaxBootFaults = 1
SPECIFICATION Spec
INVARIANTS
  TypeOK
  DriftVerdictIsTrue
  NoStrayWorker
  OutcomeTellsEffects
  OneDatabase
  DoctorVouches
  GatesVouch
  RouteIsComplete
  ServingIsSound
PROPERTIES
  EveryServerServes
\* What is bounded stops at its bound.
CHECK_DEADLOCK FALSE
