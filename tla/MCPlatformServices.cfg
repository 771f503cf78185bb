CONSTANTS
  DeliveryWorkers = {w1, w2}
  Crews = {{w1}, {w1, w2}}
  Endpoints = {e1, e2}
  Owning = {t1, t2}
  MaxAttempts = 2
  DeliveryLimit = 2
  MaxRegistrations = 2
  MaxWork = 3
  MaxAbandons = 1
  Logins = {k1, k2}
  Subs = {u1}
  MaxCalls = 3
  MaxFailures = 1
  MaxDeletes = 1
  Users = {s1, s2}
  AccessTtl = 1
  RefreshTtl = 2
  SessionTtl = 1
  Leeway = 1
  MaxTime = 3
  MaxAuths = 3
  MaxGuarded = 2
  Limits = {2, 3}
  MaxTokens = 2
  QuotaQuantity = 1
  MaxLimitChanges = 1
  MaxGuardedFailures = 1
  BillingEvents = {b1, b2}
  Handlers = {h1, h2}
  NoEvent = NoEvent
  WebhookFaults = {"insert", "project", "mark", "drop"}
  MaxWebhookFaults = 1
  Queues = {q1, q2}
  Consumers = {c1, c2}
  MaxMessages = 3
  MaxDequeues = 2
  Owners = {o1, o2, o3}
  MaxAcquires = 4
  Writers = {x1, x2, x3}
  MaxWrites = 3
  Bearers = {a1, a2}
  MaxKeys = 2
  MaxFetchFaults = 1
  Feeds = 2
  MaxFeed = 1
  Sinks = 2
  Listeners = {l1}
  MaxIndexFaults = 2
SPECIFICATION FairSpec
INVARIANTS
  TypeOK
  DeliveriesAreTrue
  AnsweredIsOnboarded
  TokensEnd
  CallsAreAccounted
  EventsAreHandledOnce
  
  GuardIsExclusive
  PublishedKeyIsAccepted
  IndexIsConsistent
PROPERTIES
  EveryJobSettles
  EventuallyApplied
  AdaptersProgress
  NoLostUpdate
CHECK_DEADLOCK FALSE
