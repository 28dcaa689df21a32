\* Two overlapping relays, one tenant, a batch of two events.
CONSTANTS
  t1 = t1
  t2 = t2
  leadCreated = leadCreated
  dealClosed = dealClosed
  orphan = orphan
  notifyAgent = notifyAgent
  fanOut = fanOut
  r1 = r1
  r2 = r2
  Tenants = {t1}
  Events <- PairEvents
  Handlers = {notifyAgent, fanOut}
  Relays = {r1, r2}
  TenantOf <- PairTenantOf
  HandlersOf <- PairHandlersOf
  MaxAttempts = 3
  BatchSize = 2
  MaxCrashes = 1
  MaxSuspends = 0
SPECIFICATION Spec
SYMMETRY RelaySymmetry
INVARIANTS
  AppliedExactlyOnce
  CallbacksLostOnlyByFailure
PROPERTIES
  Implements
