\* Two deliveries to one endpoint, two workers, one crash, one redelivery, an admin request.
CONSTANTS
  crm = crm
  d1 = d1
  d2 = d2
  w1 = w1
  w2 = w2
  Endpoints = {crm}
  Deliveries = {d1, d2}
  EndpointOf <- OneEndpoint
  Workers = {w1, w2}
  NoTask = NoTask
  Threshold = 2
  MaxRetries = 1
  MaxCrashes = 1
  MaxRedeliveries = 1
  MaxRequests = 1
SPECIFICATION FairSpec
\* The system is done when every delivery is settled and no admin acts.
CHECK_DEADLOCK FALSE
INVARIANTS
  BreakerCountsEveryFailure
  PendingIsAccountedFor
PROPERTIES
  NoPostAfterDelivered
  QueueDrains
