\* Two administrators, two requests at once, four in all, and two sessions beyond the first; two accounts under failed sign-ins;
\* an address under three erasures; two domains and two keys of settings; three days of visits;
\* four runs of Alembic; three requests in four roles.
CONSTANTS
  Users = {"u1", "u2"}
  Sids = {"d1", "d2", "d3", "d4"}
  Processes = {p1, p2}
  Nothing = Nothing
  Idle = Idle
  MaxRequests = 4
  MaxFaults = 1
  Menus <- BothMenus
  WithFactor = {"u2"}
  Device <- Devices
  Emails = {e1, e2}
  EmailThreshold = 2
  AddressThreshold = 3
  MaxGuesses = 6
  Persons = {1, 2}
  Contacts = {1, 2, 3}
  Purges = {1, 2}
  MaxErasures = 3
  MaxStops = 1
  Domains = {1, 2}
  FirstDomain = 1
  Namespaces = {1, 2}
  Editors = {1, 2}
  MaxChanges = 4
  Visits = {1}
  Runs = {1, 2}
  MonthDays = 1
  RAW_RETENTION_DAYS = 2
  PARTITION_LOOKAHEAD_MONTHS = 1
  MaxDay = 3
  MaxEvents = 4
  MaxMoves = 4
  MaxCuts = 1
  Actors = {"a", "b", "c", "s"}
  Tokens = {"ta", "tb", "tc", "ts", "t1"}
  FirstRole <- FirstRoles
  FirstUser <- FirstUsers
  FirstTeam <- OneTeam
  RolesGiven = {"agent", "admin"}
  MaxActs = 3
  MaxLosses = 1
SPECIFICATION AgencySpec
SYMMETRY Symmetry
\* The last request may have been made.
CHECK_DEADLOCK FALSE
INVARIANTS
  BurnedFamilyIsDead
  SomeAdministratorRemains
  AccessIsGuarded
  ErasureSparesWhoReturns
  TenantDataIsKept
