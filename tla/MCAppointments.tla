--------------------------- MODULE MCAppointments ---------------------------
(* The calendar and the reminders are explored one at a time: the bookings,  *)
(* schedules and settings that race, without sweeps; and the sweeps, over    *)
(* one schedule and unchanging settings.                                     *)
EXTENDS Appointments, TLC

CONSTANTS v1, v2, r1, r2, s1, s2, Beats

VARIABLE part

Open(from, to)  == [from |-> from, to |-> to, block |-> FALSE]
Block(from, to) == [from |-> from, to |-> to, block |-> TRUE]

(* A plain window, and two that overlap off the grid with a block in one.    *)
TwoSchedules == {{Open(1, 4)}, {Open(1, 4), Open(2, 5), Block(4, 5)}}

Beat == INSTANCE Appointments
  WITH Sweeps <- Beats, MaxPuts <- 1, MaxSettings <- 0, Schedules <- {{Open(1, 5)}},
       SlotLengths <- {1}, Buffers <- {0}, Requests <- {r1}

EitherInit ==
  \/ part = "calendar" /\ Init
  \/ part = "reminders" /\ Beat!Init

EitherNext ==
  \/ part = "calendar" /\ Next /\ UNCHANGED part
  \/ part = "reminders" /\ Beat!Next /\ UNCHANGED part

EitherSpec == EitherInit /\ [][EitherNext]_<<vars, part>>

Interchangeable == Permutations(Requests) \cup Permutations(Beats)
=============================================================================
