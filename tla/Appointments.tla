----------------------------- MODULE Appointments -----------------------------
(***************************************************************************)
(* Tours (modules/appointments, workers/tasks/appointments.py) of one       *)
(* agent: the schedule, the slots cut from it, booking under the agent's    *)
(* advisory lock, the status machine and the reminder sweep.                *)
(*                                                                          *)
(* A booking takes the lock, derives the free slots again and inserts at    *)
(* its commit.  A schedule is replaced by deleting the rows the statement   *)
(* sees and inserting the new ones, without the lock.  A sweep reads the    *)
(* visits that are due, queues their mails and stamps them at its commit.   *)
(*                                                                          *)
(* Abstracted: the calendar, to a line of instants of which "day" and       *)
(* "hour" are lengths; contacts without an email, who are stamped and not   *)
(* mailed; the lead a booking creates (Leads); the calendar feed.           *)
(***************************************************************************)
EXTENDS Integers, FiniteSets

CONSTANTS
  Ids,            \* appointments that may be made
  Requests,       \* transactions that may overlap
  Sweeps,         \* runs of the beat that may overlap
  Nothing,
  Horizon,        \* bound: the last instant
  Day, Hour,      \* REMINDER_WINDOW_24H, REMINDER_WINDOW_1H
  SlotLengths, Buffers,   \* what settings.appointments may say
  Schedules,      \* documents an agent may save: sets of [from, to, block]
  MaxPuts,        \* bound: schedules saved
  MaxSettings,    \* bound: changes of the tenant's settings
  MaxFaults       \* bound: sweeps that fail

ASSUME AppointmentsAssumption ==
  /\ {Horizon, Day, Hour, MaxPuts, MaxSettings, MaxFaults} \subseteq Nat /\ Hour < Day
  /\ SlotLengths \subseteq Nat \ {0} /\ Buffers \subseteq Nat
  /\ \A d \in Schedules : \A w \in d : w.from < w.to
  /\ Nothing \notin [hour : SUBSET Ids, day : SUBSET Ids]

VARIABLES
  now,
  appt,       \* [Ids -> [status, start, end, day, hour]], day and hour the stamps
  schedule,   \* rows [window, put], put the replacement that wrote the row
  slot, buffer, settings,
  tx,         \* [Requests -> open transaction or Nothing]
  sweep,      \* [Sweeps -> [hour, day] or Nothing]
  mailed,     \* [Ids -> <<day reminders, hour reminders>> queued]
  puts,       \* schedules saved
  blended,    \* history: two replacements of the schedule overlapped
  repeated,   \* history: visits two sweeps held at once, or a failed one mailed
  faults

tenant == <<slot, buffer, settings>>
diary  == <<schedule, puts, blended>>
beat   == <<sweep, mailed, repeated, faults>>
vars   == <<now, appt, tenant, diary, tx, beat>>

ACTIVE_STATUSES == {"requested", "confirmed"}

Transitions ==
  [s \in {"requested", "confirmed", "completed", "cancelled", "no_show"} |->
     IF s = "requested" THEN {"confirmed", "cancelled"}
     ELSE IF s = "confirmed" THEN {"completed", "cancelled", "no_show"}
     ELSE {}]

TypeOK ==
  /\ now \in 0..Horizon
  /\ \A i \in Ids : appt[i].status \in DOMAIN Transitions \cup {"absent"}
  /\ \A row \in schedule : row.put \in 1..puts
  /\ slot \in SlotLengths /\ buffer \in Buffers

Init ==
  /\ now = 0
  /\ appt = [i \in Ids |-> [status |-> "absent", start |-> 0, end |-> 0, day |-> FALSE, hour |-> FALSE]]
  /\ schedule = {} /\ puts = 0 /\ blended = FALSE
  /\ slot \in SlotLengths /\ buffer \in Buffers /\ settings = 0
  /\ tx = [r \in Requests |-> Nothing]
  /\ sweep = [s \in Sweeps |-> Nothing]
  /\ mailed = [i \in Ids |-> <<0, 0>>]
  /\ repeated = {} /\ faults = 0

-----------------------------------------------------------------------------
(* Slots. *)

Overlap(a, b) == a.from < b.to /\ a.to > b.from
OverlapsAny(s, windows) == \E w \in windows : Overlap(s, w)

Live(i) == appt[i].status \in ACTIVE_STATUSES
Visit(i, margin) == [from |-> appt[i].start - margin, to |-> appt[i].end + margin]

(* _free_slots: a grid from the start of each open window, minus the blocks, *)
(* minus the live visits with the buffer on either side.                     *)
FreeSlots ==
  LET Windows(block) == {[from |-> r.window.from, to |-> r.window.to] :
                           r \in {q \in schedule : q.window.block = block}}
      busy == {Visit(i, buffer) : i \in {j \in Ids : Live(j)}}
  IN  {s \in {[from |-> t, to |-> t + slot] : t \in (now + 1)..Horizon} :
         /\ \E w \in Windows(FALSE) :
              s.from >= w.from /\ s.to <= w.to /\ (s.from - w.from) % slot = 0
         /\ ~OverlapsAny(s, Windows(TRUE))
         /\ ~OverlapsAny(s, busy)}

-----------------------------------------------------------------------------
(* Bookings. *)

(* Mutation: nobody waits for the lock. *)
NoLock == TRUE

(* lock_agent_calendar: nobody else is booking. *)
CalendarFree == \A r \in Requests : tx[r] # Nothing => tx[r].kind # "book"

BeginBook(r) ==
  /\ tx[r] = Nothing
  /\ CalendarFree
  /\ \E s \in FreeSlots : tx' = [tx EXCEPT ![r] = [kind |-> "book", slot |-> s]]
  /\ UNCHANGED <<now, appt, tenant, diary, beat>>

CommitBook(r) ==
  /\ tx[r] # Nothing
  /\ tx[r].kind = "book"
  /\ \E i \in Ids : appt[i].status = "absent"
  /\ LET i == CHOOSE j \in Ids : appt[j].status = "absent"
     IN  appt' = [appt EXCEPT ![i] = [status |-> "requested", start |-> tx[r].slot.from,
                                      end |-> tx[r].slot.to, day |-> FALSE, hour |-> FALSE]]
  /\ tx' = [tx EXCEPT ![r] = Nothing]
  /\ UNCHANGED <<now, tenant, diary, beat>>

(* transition, under the row lock. *)
Transition(i, to) ==
  /\ appt[i].status # "absent"
  /\ to \in Transitions[appt[i].status]
  /\ appt' = [appt EXCEPT ![i].status = to]
  /\ UNCHANGED <<now, tenant, diary, tx, beat>>

(* The tenant's slot length or buffer changes. *)
ChangeSettings ==
  /\ settings < MaxSettings
  /\ settings' = settings + 1
  /\ slot' \in SlotLengths /\ buffer' \in Buffers
  /\ <<slot', buffer'>> # <<slot, buffer>>
  /\ UNCHANGED <<now, appt, diary, tx, beat>>

-----------------------------------------------------------------------------
(* put_availability: the rows its DELETE sees go, the new ones come. *)

Replacing(q) == tx[q] # Nothing /\ tx[q].kind = "put"

BeginPut(r) ==
  /\ tx[r] = Nothing
  /\ puts < MaxPuts
  /\ puts' = puts + 1
  /\ \E d \in Schedules :
       tx' = [tx EXCEPT ![r] = [kind |-> "put", gone |-> schedule,
                                rows |-> {[window |-> w, put |-> puts + 1] : w \in d}]]
  /\ blended' = (blended \/ \E q \in Requests : Replacing(q))
  /\ UNCHANGED <<now, appt, tenant, schedule, beat>>

(* Mutation: the old rows stay. *)
Added(gone, rows) == schedule \cup rows

Replaced(gone, rows) == (schedule \ gone) \cup rows

CommitPut(r) ==
  /\ Replacing(r)
  /\ schedule' = Replaced(tx[r].gone, tx[r].rows)
  /\ tx' = [tx EXCEPT ![r] = Nothing]
  /\ UNCHANGED <<now, appt, tenant, puts, blended, beat>>

-----------------------------------------------------------------------------
(* Reminders. *)

Near(window) ==
  {i \in Ids : appt[i].status = "confirmed" /\ appt[i].start > now /\ appt[i].start <= now + window}

(* The visits that are due are read, the last hour's first, and mailed. *)
BeginSweep(s) ==
  LET hour == {i \in Near(Hour) : ~appt[i].hour}
      day == {i \in Near(Day) : ~appt[i].day} \ hour
      Held(o) == IF sweep[o] = Nothing THEN {} ELSE sweep[o].hour \cup sweep[o].day
  IN  /\ sweep[s] = Nothing
      /\ hour \cup day # {}
      /\ sweep' = [sweep EXCEPT ![s] = [hour |-> hour, day |-> day]]
      /\ repeated' = repeated \cup ((hour \cup day) \cap UNION {Held(o) : o \in Sweeps})
      /\ mailed' = [i \in Ids |->
           <<mailed[i][1] + (IF i \in day THEN 1 ELSE 0), mailed[i][2] + (IF i \in hour THEN 1 ELSE 0)>>]
      /\ UNCHANGED <<now, appt, tenant, diary, tx, faults>>

(* Mutation: each reminder stamps its own column. *)
StampOwn(a, soon) == IF soon THEN [a EXCEPT !.hour = TRUE] ELSE [a EXCEPT !.day = TRUE]

(* The reminder of the last hour stamps both columns. *)
Stamp(a, soon) == [a EXCEPT !.day = TRUE, !.hour = @ \/ soon]

CommitSweep(s) ==
  LET w == sweep[s]
  IN  /\ w # Nothing
      /\ appt' = [i \in Ids |-> IF i \in w.hour \cup w.day THEN Stamp(appt[i], i \in w.hour) ELSE appt[i]]
      /\ sweep' = [sweep EXCEPT ![s] = Nothing]
      /\ UNCHANGED <<now, tenant, diary, tx, mailed, repeated, faults>>

(* Nothing is stamped; what was queued goes out. *)
FailSweep(s) ==
  /\ sweep[s] # Nothing
  /\ faults < MaxFaults
  /\ faults' = faults + 1
  /\ repeated' = repeated \cup sweep[s].hour \cup sweep[s].day
  /\ sweep' = [sweep EXCEPT ![s] = Nothing]
  /\ UNCHANGED <<now, appt, tenant, diary, tx, mailed>>

Tick ==
  /\ now < Horizon
  /\ now' = now + 1
  /\ UNCHANGED <<appt, tenant, diary, tx, beat>>

-----------------------------------------------------------------------------
Next ==
  \/ \E r \in Requests : BeginBook(r) \/ CommitBook(r) \/ BeginPut(r) \/ CommitPut(r)
  \/ \E i \in Ids, to \in DOMAIN Transitions : Transition(i, to)
  \/ \E s \in Sweeps : BeginSweep(s) \/ CommitSweep(s) \/ FailSweep(s)
  \/ ChangeSettings
  \/ Tick

Spec == Init /\ [][Next]_vars

-----------------------------------------------------------------------------
(* Two live visits of an agent never overlap, whatever bookings race, slots  *)
(* are freed and settings change (book, lock_agent_calendar, _free_slots).   *)
NoDoubleBooking ==
  \A i, j \in Ids : i # j /\ Live(i) /\ Live(j) => ~Overlap(Visit(i, 0), Visit(j, 0))

(* A visit is reminded once a day ahead and once an hour ahead, and never of *)
(* the day after the hour was mailed, unless sweeps overlapped or failed     *)
(* (_remind_tenant).                                                         *)
RemindersInOrder ==
  [][\A i \in Ids \ repeated' :
       /\ mailed'[i][2] > mailed[i][2] => mailed[i][2] = 0
       /\ mailed'[i][1] > mailed[i][1] => mailed[i] = <<0, 0>>]_vars

(* "The schedule is one document": its rows come from one replacement,       *)
(* unless two overlapped (put_availability).                                 *)
ScheduleIsOneDocument ==
  ~blended => \A q, r \in schedule : q.put = r.put
==============================================================================
