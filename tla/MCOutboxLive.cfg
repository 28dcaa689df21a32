\* Two tenants that may be suspended and reactivated, an event nothing consumes, batches of one.
CONSTANTS
  t1 = t1
  t2 = t2
  leadCreated = leadCreated
  dealClosed = dealClosed
  orphan = orphan
  notifyAgent = notifyAgent
  fanOut = fanOut
  r1 = r1
  r2 = r2
  Tenants = {t1, t2}
  Events <- OrphanEvents
  Handlers = {notifyAgent, fanOut}
  Relays = {r1}
  TenantOf <- OrphanTenantOf
  HandlersOf <- OrphanHandlersOf
  MaxAttempts = 2
  BatchSize = 1
  MaxCrashes = 1
  MaxSuspends = 1
SPECIFICATION FairSpec
PROPERTY
  EventuallySettled
