\* Two leads' worth of agents for one lead, two overlapping sweeps of two mails, one of which
\* may fail; two contacts with two overlapping captures; a form sent twice; a notice and two
\* workers; or one visit and its reminders.
CONSTANTS
  Nothing = Nothing
  Sweeps = {s1, s2}
  MaxFaults = 1
  Ids = {v1}
  Requests = {r1}
  Horizon = 4
  Day = 2
  Hour = 1
  SlotLengths = {1}
  Buffers = {0}
  Schedules <- OneWindow
  MaxPuts = 1
  MaxSettings = 0
  LeadIds = {l1}
  Agents = {x, y}
  Stages = {"new", "qualified"}
  Steps = 2
  MaxOpen = 1
  MaxRequests = 3
  Contacts = {c1, c2}
  Emails = {e1}
  Phones = {p1}
  Transactions = {r1, r2}
  MaxForms = 5
  Fillings = {r1, r2}
  Areas = {1, 2}
  Notes = {e1}
  MIN_COMPS = 1
  MaxFillings = 3
  Notices = {e1}
  Workers = {s1, s2}
  MaxRetries = 1
  MaxEdits = 2
  MaxMishaps = 2
SPECIFICATION FairEnquiries
\* The system may stop when nobody asks for anything.
CHECK_DEADLOCK FALSE
INVARIANTS
  RepeatsAreExplained
  ErasedStaysEmpty
  FormsAndNoticesAreSound
PROPERTIES
  LeadReachesSomeone
