\* Two transactions at once, one of them rolled back.
CONSTANTS
  t1 = t1
  t2 = t2
  p1 = p1
  p2 = p2
  activated = activated
  failed = failed
  canceled = canceled
  Tenants = {t1}
  Events = {activated, failed, canceled}
  About <- AboutT1
  Kind <- Kinds
  Processes = {p1, p2}
  NoEvent = NoEvent
  TrialEnd = 2
  GraceDays = 1
  DeletionDelay = 1
  MaxTime = 3
  MaxAborts = 1
SPECIFICATION Spec
SYMMETRY ProcessSymmetry
\* The system may stop when the clock has and every tenant is gone.
CHECK_DEADLOCK FALSE
INVARIANTS
  EventExactlyOnce
  AccessFollowsPayment
  PurgeSparesUnlessOvertaken
