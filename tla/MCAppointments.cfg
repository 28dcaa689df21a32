\* Two visits; two overlapping requests, or two overlapping sweeps one of which may fail.
CONSTANTS
  v1 = v1
  v2 = v2
  r1 = r1
  r2 = r2
  s1 = s1
  s2 = s2
  Ids = {v1, v2}
  Requests = {r1, r2}
  Sweeps = {}
  Beats = {s1, s2}
  Nothing = Nothing
  Horizon = 4
  Day = 2
  Hour = 1
  SlotLengths = {1, 2}
  Buffers = {0, 1}
  Schedules <- TwoSchedules
  MaxPuts = 2
  MaxSettings = 1
  MaxFaults = 1
SYMMETRY Interchangeable
SPECIFICATION EitherSpec
\* The last instant ends the exploration.
CHECK_DEADLOCK FALSE
INVARIANTS
  NoDoubleBooking
  ScheduleIsOneDocument
PROPERTIES
  RemindersInOrder
