\* A tenant behind two requests and two writers; three attempts under one key; five hits of one caller;
\* a deal under three requests, two at once, and a sweep; a saved search
\* and two listings; two publishers and two readers of a page; a walk over three rows;
\* two tenants and two connections.
CONSTANTS
  Readers = {r1, r2}
  Writers = {w1, w2}
  Nothing = Nothing
  MaxChanges = 3
  MaxLost = 1
  Tries = {1, 2, 3}
  MaxOutages = 1
  MaxLapses = 1
  MaxForgotten = 1
  MaxFailures = 3
  Callers = {1, 2}
  Limit = 2
  Window = 3
  MaxTime = 8
  MaxHits = 5
  Away = 0
  Requests = {r1, r2}
  Sweeps = {w1}
  Prices = {1, 2}
  Days = {1, 2}
  MaxEdits = 3
  Listings = {1, 2}
  Digests = {w1, w2}
  DIGEST_MAX_LISTINGS = 1
  MaxInstants = 4
  MaxSearchEdits = 1
  MaxStumbles = 1
  Publishers = {r1, r2}
  MaxVersions = 3
  MaxReads = 2
  Rows = {1, 2, 3}
  Sorts = {1, 2}
  PageSize = 1
  MaxMoves = 1
  Tenants = {r1, r2}
  Connections = {w1, w2}
  Platform = "platform"
  MaxStatements = 5
SPECIFICATION AnySpec
\* The client may have its answer, and the clock stops.
CHECK_DEADLOCK FALSE
INVARIANTS
  RequestsAreGuarded
  StaleIsExplained
  DealsAreSettled
  AlertsAreExplained
  ReadsAreSound
PROPERTIES
  StaleEnds
  ClientIsAnswered
