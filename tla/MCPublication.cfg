\* Two listings and a plan for one, two overlapping requests, two sync workers, one fault; or one
\* report, post or testimonial under overlapping requests and tasks.
CONSTANTS
  Listings = {a, b}
  Requests = {r1, r2}
  Workers = {w1, w2}
  Nothing = Nothing
  Limit = 1
  Threshold = 2
  MaxRetries = 1
  MaxRequests = 4
  MaxFaults = 1
  Editors = {r1}
  MaxMishaps = 1
  Authors = {r1, r2}
  Sweeps = {w1}
  MaxTime = 2
  MaxChanges = 3
  Moderators = {r1, r2}
  MaxDecisions = 3
SPECIFICATION AnySpec
\* The system may stop when nobody asks for anything.
CHECK_DEADLOCK FALSE
INVARIANTS
  UsageCountsListings
  ContentIsExplained
PROPERTIES
  WithdrawalConcludes
