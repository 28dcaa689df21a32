------------------------------ MODULE Services ------------------------------
(***************************************************************************)
(* The small services, each on its own: `part' is chosen at the start and    *)
(* only that one moves.  Constants and variables keep the names they have in *)
(* the modules, but where two modules share a name.                         *)
(***************************************************************************)
EXTENDS TenantCache

CONSTANTS
  Tries, MaxOutages, MaxLapses, MaxForgotten, MaxFailures,      \* RequestGuards
  Callers, Limit, Window, MaxTime, MaxHits, Away,
  Requests, Sweeps, Prices, Days, MaxEdits,                     \* Deals
  Listings, Digests, DIGEST_MAX_LISTINGS,                       \* Alerts
  MaxInstants, MaxSearchEdits, MaxStumbles,
  Publishers, MaxVersions, MaxReads,                            \* LegalPages
  Rows, Sorts, PageSize, MaxMoves,                              \* Paging
  Tenants, Connections, Platform, MaxStatements                 \* Isolation

VARIABLES part,
  entry, try, answered, effects, outages, lapses, forgotten, broken,
  clock, log, read, hits, accepted, newest, late,
  deal, milestone, today, request, sweep, edits, closings, edited, reminded, pardoned,
  now, published, visible, search, reachable, suspended, matches, begun, digest, frequencies, stumbles,
  mails, missed, again,
  rows, publish, counter, pages, visit, served, asked, reads, faults, announced,
  list, row, cursor, ended, returned, moves, moved,
  guc, work, statements, reached

keyed  == <<entry, try, answered, effects, outages, lapses, forgotten, broken>>
limits == <<clock, log, read, hits, accepted, newest, late>>
deals  == <<deal, milestone, today, request, sweep, edits, closings, edited, reminded, pardoned>>
alerts == <<now, published, visible, search, reachable, suspended, matches, begun, digest, frequencies,
            stumbles, mails, missed, again>>
legal == <<rows, publish, counter, pages, visit, served, asked, reads, faults, announced>>
walk == <<list, row, cursor, ended, returned, moves, moved>>
rls == <<guc, work, statements, reached>>

Guards == INSTANCE RequestGuards
Transactions == INSTANCE Deals WITH excused <- pardoned
Favorites == INSTANCE Alerts WITH
  MaxTime <- MaxInstants, MaxEdits <- MaxSearchEdits, MaxFailures <- MaxStumbles,
  edits <- frequencies, failures <- stumbles
Legal == INSTANCE LegalPages WITH cache <- pages, outages <- faults
Lists == INSTANCE Paging
Rls == INSTANCE Isolation

AnyInit ==
  /\ Init /\ Guards!KeyInit /\ Guards!RateInit /\ Transactions!Init /\ Favorites!Init
  /\ Legal!Init /\ Lists!Init /\ Rls!Init
  /\ part \in {"cache", "key", "rate", "deal", "alert", "legal", "list", "rls"}
  /\ part # "alert" => search.frequency = "daily"
  /\ part # "list" => /\ list = "newest"
                     /\ \A r \in DOMAIN row : row[r].sort = 1 /\ row[r].shown /\ ~row[r].featured
AnyNext ==
  /\ UNCHANGED part
  /\ \/ part = "cache" /\ Next
        /\ UNCHANGED <<keyed, limits, deals, alerts, legal, walk, rls>>
     \/ part = "key" /\ Guards!KeyNext
        /\ UNCHANGED <<vars, limits, deals, alerts, legal, walk, rls>>
     \/ part = "rate" /\ Guards!RateNext
        /\ UNCHANGED <<vars, keyed, deals, alerts, legal, walk, rls>>
     \/ part = "deal" /\ Transactions!Next
        /\ UNCHANGED <<vars, keyed, limits, alerts, legal, walk, rls>>
     \/ part = "alert" /\ Favorites!Next
        /\ UNCHANGED <<vars, keyed, limits, deals, legal, walk, rls>>
     \/ part = "legal" /\ Legal!Next
        /\ UNCHANGED <<vars, keyed, limits, deals, alerts, walk, rls>>
     \/ part = "list" /\ Lists!Next
        /\ UNCHANGED <<vars, keyed, limits, deals, alerts, legal, rls>>
     \/ part = "rls" /\ Rls!Next
        /\ UNCHANGED <<vars, keyed, limits, deals, alerts, legal, walk>>
all == <<part, vars, keyed, limits, deals, alerts, legal, walk, rls>>
AnySpec == /\ AnyInit /\ [][AnyNext]_all
           /\ part = "cache" => Fairness
           /\ part = "key" => Guards!Fairness

(* See RequestGuards: a second transaction under one key is explained, and no *)
(* window lets more than the limit through.                                 *)
RequestsAreGuarded == Guards!RequestsAreGuarded
(* See RequestGuards: the client of a key is not answered 409 for ever.       *)
ClientIsAnswered == part = "key" => Guards!ClientIsAnswered
(* See Deals: commissions follow the price, a deal is closed once, and a      *)
(* reminder stamp stands for the date its milestone has.                    *)
DealsAreSettled == Transactions!DealsAreSettled
(* See Alerts: what a saved search misses or mails twice has a reason.      *)
AlertsAreExplained == Favorites!AlertsAreExplained
(* See LegalPages, Paging and Isolation: a reader is not served what was      *)
(* replaced, a walk misses and repeats nothing, and no statement reaches     *)
(* another tenant.                                                          *)
ReadsAreSound ==
  /\ Legal!ReadersSeeTheCurrentPage
  /\ Lists!WalkIsComplete
  /\ Rls!TenantsAreIsolated
=============================================================================
