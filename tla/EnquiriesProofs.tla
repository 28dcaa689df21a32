-------------------------- MODULE EnquiriesProofs --------------------------
(***************************************************************************)
(* Proofs about what a visitor meets: visits (Appointments), for any number  *)
(* of visits, requests and sweeps, any schedules and settings; and the parts  *)
(* Enquiries composes with them, for any leads, contacts, forms and notices.  *)
(*                                                                          *)
(* No double booking rests on the agent's lock: a booking that holds it has  *)
(* a slot that is still free when it commits (BookingInv).  That a schedule   *)
(* is one document rests on one replacement deleting what it has read         *)
(* (PutInv), reminders on a stamp or an open sweep behind every mail          *)
(* (MailInv).  Erasure rests on what an emptied contact is matched by          *)
(* (ContactInv), the drip on a mailed step being behind the lead's or in the   *)
(* one round that holds it (LeadInv), the form on the band a request holds     *)
(* (FormInv), and notices on a count of mails sent, being sent and queued      *)
(* (NoticeInv).                                                              *)
(***************************************************************************)
EXTENDS Enquiries, FiniteSetTheorems, TLAPS


Status == {"absent", "requested", "confirmed", "completed", "cancelled", "no_show"}
Appointment == [status : Status, start : Int, end : Int, day : BOOLEAN, hour : BOOLEAN]
Sweeping == [hour : SUBSET Ids, day : SUBSET Ids]

Booking(r) == tx[r] # Nothing /\ tx[r].kind = "book"

TypeInv ==
  /\ now \in Nat
  /\ appt \in [Ids -> Appointment]
  /\ slot \in Nat \ {0} /\ buffer \in Nat
  /\ tx = [r \in Requests |-> tx[r]]
  /\ \A r \in Requests : Booking(r) => tx[r].slot \in [from : Int, to : Int]
  /\ sweep \in [Sweeps -> Sweeping \cup {Nothing}]
  /\ mailed \in [Ids -> Nat \X Nat]

(* The row a booking inserts, and what a commit makes of a row.              *)
NewId == CHOOSE j \in Ids : appt[j].status = "absent"
NewRow(s) == [status |-> "requested", start |-> s.from, end |-> s.to, day |-> FALSE, hour |-> FALSE]

LEMMA TypeInit == ASSUME AppointmentsAssumption, Init PROVE TypeInv
BY DEF AppointmentsAssumption, Init, TypeInv, Appointment, Status, Booking

(* The status machine leads from a visit to a visit, and only from a live     *)
(* one to a live one.                                                       *)
LEMMA StatusSteps ==
  ASSUME TypeInv, NEW i \in Ids, appt[i].status # "absent", NEW to \in Transitions[appt[i].status]
  PROVE  to \in Status \ {"absent"} /\ (to \in ACTIVE_STATUSES => Live(i))
<1>1. appt[i].status \in Status \ {"absent"}  BY DEF TypeInv, Appointment
<1> QED  BY <1>1 DEF Transitions, Status, Live, ACTIVE_STATUSES

(* A free slot is clear of every visit, with the buffer or without it.        *)
LEMMA FreeIsClear ==
  ASSUME TypeInv, AppointmentsAssumption, NEW s \in FreeSlots
  PROVE  /\ s \in [from : Int, to : Int]
         /\ \A i \in Ids : Live(i) => ~Overlap(s, Visit(i, 0))
<1> USE DEF TypeInv, AppointmentsAssumption
<1>1. s \in [from : Int, to : Int]  BY DEF FreeSlots
<1>2. ASSUME NEW i \in Ids, Live(i) PROVE ~Overlap(s, Visit(i, 0))
  <2>1. ~Overlap(s, Visit(i, buffer))  BY <1>2 DEF FreeSlots, OverlapsAny
  <2>2. appt[i].start \in Int /\ appt[i].end \in Int  BY DEF Appointment
  <2> QED  BY <1>1, <2>1, <2>2 DEF Overlap, Visit
<1> QED  BY <1>1, <1>2

(* A booking that commits inserts one row, which was absent.                 *)
LEMMA CommitInserts ==
  ASSUME TypeInv, NEW r \in Requests, CommitBook(r)
  PROVE  /\ NewId \in Ids /\ appt[NewId].status = "absent" /\ Booking(r)
         /\ appt' = [appt EXCEPT ![NewId] = NewRow(tx[r].slot)]
         /\ tx' = [tx EXCEPT ![r] = Nothing]
         /\ NewRow(tx[r].slot) \in Appointment
<1>1. NewId \in Ids /\ appt[NewId].status = "absent"  BY DEF CommitBook, NewId
<1>2. Booking(r) /\ tx[r].slot \in [from : Int, to : Int]  BY DEF CommitBook, Booking, TypeInv
<1>3. NewRow(tx[r].slot) \in Appointment  BY <1>2 DEF NewRow, Appointment, Status
<1> QED  BY <1>1, <1>2, <1>3 DEF CommitBook, NewId, NewRow

(* A stamp leaves a row's status and times alone.                            *)
(* What a committed sweep makes of a row. *)
LEMMA SweepStamps ==
  ASSUME TypeInv, NEW s \in Sweeps, CommitSweep(s), NEW i \in Ids
  PROVE  /\ appt'[i] \in Appointment
         /\ appt'[i].status = appt[i].status
         /\ appt'[i].start = appt[i].start /\ appt'[i].end = appt[i].end
         /\ appt'[i].day <=> appt[i].day \/ i \in sweep[s].hour \cup sweep[s].day
         /\ appt'[i].hour <=> appt[i].hour \/ i \in sweep[s].hour
<1>1. appt[i] \in Appointment  BY DEF TypeInv
<1>2. appt'[i] = IF i \in sweep[s].hour \cup sweep[s].day
                 THEN [appt[i] EXCEPT !.day = TRUE, !.hour = @ \/ i \in sweep[s].hour]
                 ELSE appt[i]
  BY DEF CommitSweep, Stamp
<1>3. CASE i \in sweep[s].hour
  <2>1. appt'[i] = [appt[i] EXCEPT !.day = TRUE, !.hour = TRUE]  BY <1>2, <1>3
  <2> QED  BY <1>1, <1>3, <2>1 DEF Appointment
<1>4. CASE i \in sweep[s].day \ sweep[s].hour
  <2>1. appt'[i] = [appt[i] EXCEPT !.day = TRUE, !.hour = @ \/ FALSE]  BY <1>2, <1>4
  <2> QED  BY <1>1, <1>4, <2>1 DEF Appointment
<1>5. CASE i \notin sweep[s].hour \cup sweep[s].day
  BY <1>1, <1>2, <1>5
<1> QED  BY <1>3, <1>4, <1>5

LEMMA TypeNext ==
  ASSUME AppointmentsAssumption, TypeInv, [Next]_vars
  PROVE  TypeInv'
<1> USE DEF TypeInv, tenant, diary, beat
<1>1. CASE UNCHANGED vars  BY <1>1 DEF vars, Booking
<1>2. ASSUME NEW r \in Requests, BeginBook(r) PROVE TypeInv'
  <2>1. PICK s \in FreeSlots : tx' = [tx EXCEPT ![r] = [kind |-> "book", slot |-> s]]
    BY <1>2 DEF BeginBook
  <2>2. s \in [from : Int, to : Int]  BY FreeIsClear
  <2> QED  BY <1>2, <2>1, <2>2 DEF BeginBook, Booking
<1>3. ASSUME NEW r \in Requests, CommitBook(r) PROVE TypeInv'
  <2>1. UNCHANGED <<now, tenant, diary, beat>>  BY <1>3 DEF CommitBook
  <2> QED  BY <1>3, <2>1, CommitInserts DEF Booking
<1>4. ASSUME NEW r \in Requests, BeginPut(r) PROVE TypeInv'
  <2>1. PICK d \in Schedules :
          tx' = [tx EXCEPT ![r] = [kind |-> "put", gone |-> schedule,
                                   rows |-> {[window |-> w, put |-> puts + 1] : w \in d}]]
    BY <1>4 DEF BeginPut
  <2>2. \A q \in Requests : Booking(q)' => Booking(q) /\ tx'[q] = tx[q]  BY <2>1 DEF Booking
  <2>3. tx' = [q \in Requests |-> tx'[q]]  BY <2>1
  <2> QED  BY <1>4, <2>2, <2>3 DEF BeginPut
<1>5. ASSUME NEW r \in Requests, CommitPut(r) PROVE TypeInv'  BY <1>5 DEF CommitPut, Booking
<1>6. ASSUME NEW i \in Ids, NEW to \in DOMAIN Transitions, Transition(i, to) PROVE TypeInv'
  <2>1. to \in Status  BY <1>6, StatusSteps DEF Transition
  <2>2. [appt[i] EXCEPT !.status = to] \in Appointment  BY <2>1 DEF Appointment
  <2> QED  BY <1>6, <2>2 DEF Transition, Booking
<1>7. ASSUME NEW s \in Sweeps, BeginSweep(s) PROVE TypeInv'  BY <1>7 DEF BeginSweep, Booking, Near, Sweeping
<1>8. ASSUME NEW s \in Sweeps, CommitSweep(s) PROVE TypeInv'
  <2>1. \A i \in Ids : appt'[i] \in Appointment  BY <1>8, SweepStamps
  <2>2. appt' \in [Ids -> Appointment]  BY <1>8, <2>1 DEF CommitSweep
  <2> QED  BY <1>8, <2>2 DEF CommitSweep, Booking
<1>9. ASSUME NEW s \in Sweeps, FailSweep(s) PROVE TypeInv'  BY <1>9 DEF FailSweep, Booking
<1>10. CASE ChangeSettings  BY <1>10 DEF ChangeSettings, AppointmentsAssumption, Booking
<1>11. CASE Tick  BY <1>11 DEF Tick, Booking
<1> QED  BY <1>1, <1>2, <1>3, <1>4, <1>5, <1>6, <1>7, <1>8, <1>9, <1>10, <1>11 DEF Next

-----------------------------------------------------------------------------
(* No double booking. *)

(* One booking holds the agent's lock, and its slot is clear of every visit.  *)
BookingInv ==
  \A r \in Requests : Booking(r) =>
    /\ \A q \in Requests : Booking(q) => q = r
    /\ \A i \in Ids : Live(i) => ~Overlap(tx[r].slot, Visit(i, 0))

CalendarInv == TypeInv /\ BookingInv /\ NoDoubleBooking

(* Where no visit appears or moves and no booking begins, the calendar stands. *)
LEMMA CalendarStands ==
  ASSUME CalendarInv,
         \A i \in Ids : Live(i)' => Live(i) /\ appt'[i].start = appt[i].start /\ appt'[i].end = appt[i].end,
         \A r \in Requests : Booking(r)' => Booking(r) /\ tx'[r] = tx[r]
  PROVE  (BookingInv /\ NoDoubleBooking)'
<1> USE DEF CalendarInv
<1>1. \A i \in Ids : Live(i)' => Visit(i, 0)' = Visit(i, 0)  BY DEF Visit
<1>2. BookingInv'  BY <1>1 DEF BookingInv, Overlap
<1>3. NoDoubleBooking'  BY <1>1 DEF NoDoubleBooking, Overlap
<1> QED  BY <1>2, <1>3

LEMMA BookBegins ==
  ASSUME AppointmentsAssumption, CalendarInv, NEW r \in Requests, BeginBook(r)
  PROVE  (BookingInv /\ NoDoubleBooking)'
<1> USE DEF CalendarInv
<1>1. PICK s \in FreeSlots : tx' = [tx EXCEPT ![r] = [kind |-> "book", slot |-> s]]
  BY DEF BeginBook
<1>2. \A i \in Ids : Live(i) => ~Overlap(s, Visit(i, 0))  BY FreeIsClear
<1>3. appt' = appt /\ \A q \in Requests : ~Booking(q)  BY DEF BeginBook, CalendarFree, Booking
<1>4. \A q \in Requests : Booking(q)' => q = r /\ tx'[q].slot = s  BY <1>1, <1>3 DEF Booking, TypeInv
<1>5. \A i \in Ids : (Live(i)' <=> Live(i)) /\ Visit(i, 0)' = Visit(i, 0)  BY <1>3 DEF Live, Visit
<1>6. BookingInv'  BY <1>2, <1>4, <1>5 DEF BookingInv, Overlap
<1>7. NoDoubleBooking'  BY <1>5 DEF NoDoubleBooking, Overlap
<1> QED  BY <1>6, <1>7

LEMMA BookCommits ==
  ASSUME AppointmentsAssumption, CalendarInv, NEW r \in Requests, CommitBook(r)
  PROVE  (BookingInv /\ NoDoubleBooking)'
<1> USE DEF CalendarInv
<1> DEFINE s == tx[r].slot
<1>1. /\ NewId \in Ids /\ Booking(r)
      /\ appt' = [appt EXCEPT ![NewId] = NewRow(s)]
      /\ tx' = [tx EXCEPT ![r] = Nothing]
  BY CommitInserts
<1>2. \A q \in Requests : ~Booking(q)'  BY <1>1 DEF Booking, BookingInv, TypeInv
<1>3. appt'[NewId].start = s.from /\ appt'[NewId].end = s.to  BY <1>1 DEF NewRow, TypeInv
<1>4. s.from \in Int /\ s.to \in Int  BY <1>1 DEF TypeInv
<1>5. \A i \in Ids \ {NewId} : (Live(i)' <=> Live(i)) /\ Visit(i, 0)' = Visit(i, 0)
  BY <1>1 DEF Live, Visit, TypeInv
<1>6. \A i \in Ids : Live(i) => ~Overlap(s, Visit(i, 0))  BY <1>1 DEF BookingInv
<1>7. ASSUME NEW i \in Ids, NEW j \in Ids, i # j, Live(i)', Live(j)'
      PROVE  ~Overlap(Visit(i, 0)', Visit(j, 0)')
  <2>1. \A k \in Ids : /\ Visit(k, 0).from \in Int /\ Visit(k, 0).to \in Int
    BY DEF TypeInv, Appointment, Visit
  <2>2. CASE i = NewId
    <3>1. ~Overlap(s, Visit(j, 0)) /\ Visit(j, 0)' = Visit(j, 0)  BY <1>5, <1>6, <1>7, <2>2
    <3>2. Visit(i, 0)'.from = s.from /\ Visit(i, 0)'.to = s.to  BY <1>3, <1>4, <2>2 DEF Visit
    <3> QED  BY <1>4, <2>1, <3>1, <3>2 DEF Overlap
  <2>3. CASE j = NewId
    <3>1. ~Overlap(s, Visit(i, 0)) /\ Visit(i, 0)' = Visit(i, 0)  BY <1>5, <1>6, <1>7, <2>3
    <3>2. Visit(j, 0)'.from = s.from /\ Visit(j, 0)'.to = s.to  BY <1>3, <1>4, <2>3 DEF Visit
    <3> QED  BY <1>4, <2>1, <3>1, <3>2 DEF Overlap
  <2>4. CASE i # NewId /\ j # NewId
    BY <1>5, <1>7, <2>4 DEF NoDoubleBooking
  <2> QED  BY <2>2, <2>3, <2>4
<1>8. NoDoubleBooking'  BY <1>7 DEF NoDoubleBooking, Overlap
<1> QED  BY <1>2, <1>8 DEF BookingInv

LEMMA CalendarNext ==
  ASSUME AppointmentsAssumption, CalendarInv, [Next]_vars
  PROVE  (BookingInv /\ NoDoubleBooking)'
<1> USE DEF CalendarInv, tenant, diary, beat
<1>1. CASE UNCHANGED vars  BY <1>1, CalendarStands DEF vars, Live, Booking
<1>2. ASSUME NEW r \in Requests, BeginBook(r) PROVE (BookingInv /\ NoDoubleBooking)'
  BY <1>2, BookBegins
<1>3. ASSUME NEW r \in Requests, CommitBook(r) PROVE (BookingInv /\ NoDoubleBooking)'
  BY <1>3, BookCommits
<1>4. ASSUME NEW r \in Requests, BeginPut(r) PROVE (BookingInv /\ NoDoubleBooking)'
  <2>1. PICK d \in Schedules :
          tx' = [tx EXCEPT ![r] = [kind |-> "put", gone |-> schedule,
                                   rows |-> {[window |-> w, put |-> puts + 1] : w \in d}]]
    BY <1>4 DEF BeginPut
  <2>2. \A q \in Requests : Booking(q)' => Booking(q) /\ tx'[q] = tx[q]  BY <2>1 DEF Booking, TypeInv
  <2> QED  BY <1>4, <2>2, CalendarStands DEF BeginPut, Live
<1>5. ASSUME NEW r \in Requests, CommitPut(r) PROVE (BookingInv /\ NoDoubleBooking)'
  BY <1>5, CalendarStands DEF CommitPut, Live, Booking, TypeInv
<1>6. ASSUME NEW i \in Ids, NEW to \in DOMAIN Transitions, Transition(i, to)
      PROVE (BookingInv /\ NoDoubleBooking)'
  <2>1. to \in ACTIVE_STATUSES => Live(i)  BY <1>6, StatusSteps DEF Transition
  <2>2. \A j \in Ids : Live(j)' => Live(j) /\ appt'[j].start = appt[j].start /\ appt'[j].end = appt[j].end
    BY <1>6, <2>1 DEF Transition, Live, TypeInv, Appointment
  <2> QED  BY <1>6, <2>2, CalendarStands DEF Transition, Booking
<1>7. ASSUME NEW s \in Sweeps, BeginSweep(s) PROVE (BookingInv /\ NoDoubleBooking)'
  BY <1>7, CalendarStands DEF BeginSweep, Live, Booking
<1>8. ASSUME NEW s \in Sweeps, CommitSweep(s) PROVE (BookingInv /\ NoDoubleBooking)'
  <2>1. ASSUME NEW j \in Ids
        PROVE  /\ appt'[j].status = appt[j].status
               /\ appt'[j].start = appt[j].start /\ appt'[j].end = appt[j].end  BY <1>8, SweepStamps
  <2> QED  BY <1>8, <2>1, CalendarStands DEF CommitSweep, Live, Booking
<1>9. ASSUME NEW s \in Sweeps, FailSweep(s) PROVE (BookingInv /\ NoDoubleBooking)'
  BY <1>9, CalendarStands DEF FailSweep, Live, Booking
<1>10. CASE ChangeSettings  BY <1>10, CalendarStands DEF ChangeSettings, Live, Booking
<1>11. CASE Tick  BY <1>11, CalendarStands DEF Tick, Live, Booking
<1> QED  BY <1>1, <1>2, <1>3, <1>4, <1>5, <1>6, <1>7, <1>8, <1>9, <1>10, <1>11 DEF Next

(* Whatever bookings race, slots are freed and settings change, two live      *)
(* visits of an agent never overlap (book, lock_agent_calendar).              *)
THEOREM NeverDoubleBooked == Spec => []NoDoubleBooking
<1> USE AppointmentsAssumption
<1>1. Init => CalendarInv
  <2>1. Init => TypeInv  BY TypeInit
  <2>2. Init => BookingInv /\ NoDoubleBooking
    BY DEF Init, BookingInv, NoDoubleBooking, Booking, Live, ACTIVE_STATUSES
  <2> QED  BY <2>1, <2>2 DEF CalendarInv
<1>2. CalendarInv /\ [Next]_vars => CalendarInv'
  BY TypeNext, CalendarNext DEF CalendarInv
<1>3. CalendarInv => NoDoubleBooking  BY DEF CalendarInv
<1> QED  BY <1>1, <1>2, <1>3, PTL DEF Spec

-----------------------------------------------------------------------------
(* The schedule. *)

(* Unless two replacements have overlapped, one at a time has read the rows   *)
(* that it will delete; all it writes come from it.                          *)
PutInv ==
  /\ \A r \in Requests : Replacing(r) => \A p, q \in tx[r].rows : p.put = q.put
  /\ ~blended => \A r \in Requests : Replacing(r) =>
       /\ tx[r].gone = schedule
       /\ \A q \in Requests : Replacing(q) => q = r

ScheduleInv == TypeInv /\ PutInv /\ ScheduleIsOneDocument

LEMMA ScheduleNext ==
  ASSUME AppointmentsAssumption, ScheduleInv, [Next]_vars
  PROVE  (PutInv /\ ScheduleIsOneDocument)'
<1> USE DEF ScheduleInv, tenant, diary, beat
<1> DEFINE Quiet == /\ UNCHANGED <<schedule, blended>>
                    /\ \A r \in Requests : Replacing(r)' => Replacing(r) /\ tx'[r] = tx[r]
<1>a. ASSUME Quiet PROVE (PutInv /\ ScheduleIsOneDocument)'
  BY <1>a DEF PutInv, ScheduleIsOneDocument
<1> HIDE DEF Quiet
<1>1. CASE UNCHANGED vars  BY <1>1, <1>a DEF Quiet, vars, Replacing
<1>2. ASSUME NEW r \in Requests, BeginBook(r) PROVE (PutInv /\ ScheduleIsOneDocument)'
  <2>1. PICK s \in FreeSlots : tx' = [tx EXCEPT ![r] = [kind |-> "book", slot |-> s]]
    BY <1>2 DEF BeginBook
  <2>2. \A q \in Requests : Replacing(q)' => Replacing(q) /\ tx'[q] = tx[q]
    BY <2>1 DEF Replacing, TypeInv
  <2> QED  BY <1>2, <1>a, <2>2 DEF Quiet, BeginBook
<1>3. ASSUME NEW r \in Requests, CommitBook(r) PROVE (PutInv /\ ScheduleIsOneDocument)'
  BY <1>3, <1>a DEF Quiet, CommitBook, Replacing, TypeInv
<1>4. ASSUME NEW r \in Requests, BeginPut(r) PROVE (PutInv /\ ScheduleIsOneDocument)'
  <2>1. PICK d \in Schedules :
          tx' = [tx EXCEPT ![r] = [kind |-> "put", gone |-> schedule,
                                   rows |-> {[window |-> w, put |-> puts + 1] : w \in d}]]
    BY <1>4 DEF BeginPut
  <2>2. schedule' = schedule /\ (blended' <=> blended \/ \E q \in Requests : Replacing(q))
    BY <1>4 DEF BeginPut
  <2>3. \A q \in Requests \ {r} : tx'[q] = tx[q]  BY <2>1 DEF TypeInv
  <2>4. tx'[r].gone = schedule /\ \A p, q \in tx'[r].rows : p.put = q.put  BY <2>1 DEF TypeInv
  <2>5. PutInv'  BY <2>2, <2>3, <2>4 DEF PutInv, Replacing
  <2>6. ScheduleIsOneDocument'  BY <2>2 DEF ScheduleIsOneDocument
  <2> QED  BY <2>5, <2>6
<1>5. ASSUME NEW r \in Requests, CommitPut(r) PROVE (PutInv /\ ScheduleIsOneDocument)'
  <2>1. /\ Replacing(r) /\ schedule' = (schedule \ tx[r].gone) \cup tx[r].rows
        /\ tx' = [tx EXCEPT ![r] = Nothing] /\ blended' = blended
    BY <1>5 DEF CommitPut, Replaced
  <2>2. \A q \in Requests : Replacing(q)' => Replacing(q) /\ q # r /\ tx'[q] = tx[q]
    BY <2>1 DEF Replacing, TypeInv
  <2>3. PutInv'  BY <2>1, <2>2 DEF PutInv
  <2>4. ASSUME ~blended PROVE schedule' = tx[r].rows  BY <2>1, <2>4 DEF PutInv
  <2>5. ScheduleIsOneDocument'  BY <2>1, <2>4 DEF PutInv, ScheduleIsOneDocument
  <2> QED  BY <2>3, <2>5
<1>6. ASSUME NEW i \in Ids, NEW to \in DOMAIN Transitions, Transition(i, to)
      PROVE (PutInv /\ ScheduleIsOneDocument)'
  BY <1>6, <1>a DEF Quiet, Transition, Replacing
<1>7. ASSUME NEW s \in Sweeps, BeginSweep(s) PROVE (PutInv /\ ScheduleIsOneDocument)'
  BY <1>7, <1>a DEF Quiet, BeginSweep, Replacing
<1>8. ASSUME NEW s \in Sweeps, CommitSweep(s) PROVE (PutInv /\ ScheduleIsOneDocument)'
  BY <1>8, <1>a DEF Quiet, CommitSweep, Replacing
<1>9. ASSUME NEW s \in Sweeps, FailSweep(s) PROVE (PutInv /\ ScheduleIsOneDocument)'
  BY <1>9, <1>a DEF Quiet, FailSweep, Replacing
<1>10. CASE ChangeSettings  BY <1>10, <1>a DEF Quiet, ChangeSettings, Replacing
<1>11. CASE Tick  BY <1>11, <1>a DEF Quiet, Tick, Replacing
<1> QED  BY <1>1, <1>2, <1>3, <1>4, <1>5, <1>6, <1>7, <1>8, <1>9, <1>10, <1>11 DEF Next

(* The rows of a schedule come from one replacement, unless two overlapped    *)
(* (put_availability).                                                      *)
THEOREM OneDocument == Spec => []ScheduleIsOneDocument
<1> USE AppointmentsAssumption
<1>1. Init => ScheduleInv
  <2>1. Init => TypeInv  BY TypeInit
  <2>2. Init => PutInv /\ ScheduleIsOneDocument
    BY DEF Init, PutInv, ScheduleIsOneDocument, Replacing
  <2> QED  BY <2>1, <2>2 DEF ScheduleInv
<1>2. ScheduleInv /\ [Next]_vars => ScheduleInv'
  BY TypeNext, ScheduleNext DEF ScheduleInv
<1>3. ScheduleInv => ScheduleIsOneDocument  BY DEF ScheduleInv
<1> QED  BY <1>1, <1>2, <1>3, PTL DEF Spec

-----------------------------------------------------------------------------
(* Reminders. *)

Held(i, s) == sweep[s] # Nothing /\ i \in sweep[s].hour \cup sweep[s].day
HeldAtHour(i, s) == sweep[s] # Nothing /\ i \in sweep[s].hour

(* Behind every mail is the stamp that will keep it from being sent again, or *)
(* the sweep that is about to write it.                                      *)
Mailed(i) ==
  /\ mailed[i][2] > 0 => (appt[i].hour /\ appt[i].day) \/ \E s \in Sweeps : HeldAtHour(i, s)
  /\ mailed[i][1] > 0 => appt[i].day \/ \E s \in Sweeps : Held(i, s)
MailInv ==
  /\ \A i \in Ids : appt[i].status = "absent" => mailed[i][1] = 0 /\ mailed[i][2] = 0
  /\ \A i \in Ids \ repeated : Mailed(i)

ReminderInv == TypeInv /\ MailInv

Ordered ==
  \A i \in Ids \ repeated' :
    /\ mailed'[i][2] > mailed[i][2] => mailed[i][2] = 0
    /\ mailed'[i][1] > mailed[i][1] => mailed[i] = <<0, 0>>

(* A sweep mails what nobody has stamped and, unless two hold it, what nobody *)
(* else is mailing.                                                          *)
LEMMA SweepBegins ==
  ASSUME AppointmentsAssumption, ReminderInv, NEW s \in Sweeps, BeginSweep(s)
  PROVE  MailInv' /\ Ordered
<1> USE DEF ReminderInv, TypeInv, Sweeping
<1> DEFINE hour == {i \in Near(Hour) : ~appt[i].hour}
           day == {i \in Near(Day) : ~appt[i].day} \ hour
<1>1. /\ sweep[s] = Nothing /\ appt' = appt
      /\ sweep' = [sweep EXCEPT ![s] = [hour |-> hour, day |-> day]]
      /\ mailed' = [i \in Ids |-> <<mailed[i][1] + (IF i \in day THEN 1 ELSE 0),
                                    mailed[i][2] + (IF i \in hour THEN 1 ELSE 0)>>]
  BY DEF BeginSweep
<1>2. \A o \in Sweeps, i \in (hour \cup day) \ repeated' : ~Held(i, o)
  BY DEF BeginSweep, Held
<1>3. repeated \subseteq repeated'  BY DEF BeginSweep
<1>4. [hour |-> hour, day |-> day] # Nothing
  BY DEF AppointmentsAssumption, Near
<1>5. \A i \in hour : i \in Ids /\ ~appt[i].hour /\ appt[i].status = "confirmed"  BY DEF Near
<1>6. \A i \in day : i \in Ids /\ ~appt[i].day /\ appt[i].status = "confirmed"  BY DEF Near
<1> HIDE DEF hour, day
<1>7. \A i \in hour \ repeated' : mailed[i][2] = 0
  BY <1>2, <1>3, <1>5 DEF MailInv, Mailed, Held, HeldAtHour
<1>8. \A i \in day \ repeated' : mailed[i][1] = 0 /\ mailed[i][2] = 0
  BY <1>2, <1>3, <1>6 DEF MailInv, Mailed, Held, HeldAtHour
<1>9. Ordered
  <2> SUFFICES ASSUME NEW i \in Ids \ repeated'
               PROVE  /\ mailed'[i][2] > mailed[i][2] => mailed[i][2] = 0
                      /\ mailed'[i][1] > mailed[i][1] => mailed[i] = <<0, 0>>
    BY DEF Ordered
  <2> QED  BY <1>1, <1>7, <1>8
<1>10. \A i \in Ids : appt'[i].status = "absent" => mailed'[i][1] = 0 /\ mailed'[i][2] = 0
  BY <1>1, <1>5, <1>6 DEF MailInv
<1>11. ASSUME NEW i \in Ids \ repeated' PROVE Mailed(i)'
  <2>1. sweep'[s] = [hour |-> hour, day |-> day] /\ sweep'[s] # Nothing  BY <1>1, <1>4
  <2>2. \A o \in Sweeps : (Held(i, o) => Held(i, o)') /\ (HeldAtHour(i, o) => HeldAtHour(i, o)')
    BY <1>1 DEF Held, HeldAtHour
  <2>3. i \in hour => HeldAtHour(i, s)' /\ Held(i, s)'  BY <2>1 DEF Held, HeldAtHour
  <2>4. i \in day => Held(i, s)'  BY <2>1 DEF Held, HeldAtHour
  <2>5. Mailed(i)  BY <1>3 DEF MailInv
  <2> QED  BY <1>1, <2>2, <2>3, <2>4, <2>5 DEF Mailed
<1> QED  BY <1>9, <1>10, <1>11 DEF MailInv

LEMMA SweepCommits ==
  ASSUME ReminderInv, NEW s \in Sweeps, CommitSweep(s)
  PROVE  MailInv'
<1> USE DEF ReminderInv
<1>1. /\ sweep[s] # Nothing /\ UNCHANGED <<mailed, repeated>>
      /\ sweep' = [sweep EXCEPT ![s] = Nothing]
  BY DEF CommitSweep, TypeInv
<1>2. ASSUME NEW i \in Ids
      PROVE  /\ appt'[i].status = appt[i].status
             /\ appt[i].day => appt'[i].day
             /\ appt[i].hour => appt'[i].hour
             /\ Held(i, s) => appt'[i].day
             /\ HeldAtHour(i, s) => appt'[i].day /\ appt'[i].hour
  <2>1. /\ appt'[i].status = appt[i].status
        /\ (appt'[i].day <=> appt[i].day \/ i \in sweep[s].hour \cup sweep[s].day)
        /\ (appt'[i].hour <=> appt[i].hour \/ i \in sweep[s].hour)
    BY SweepStamps
  <2> QED  BY <1>1, <2>1 DEF Held, HeldAtHour
<1>3. \A i \in Ids, o \in Sweeps \ {s} :
        (Held(i, o) => Held(i, o)') /\ (HeldAtHour(i, o) => HeldAtHour(i, o)')
  BY <1>1 DEF Held, HeldAtHour, TypeInv, Sweeping
<1>4. \A i \in Ids : Mailed(i) => Mailed(i)'  BY <1>1, <1>2, <1>3 DEF Mailed
<1> QED  BY <1>1, <1>2, <1>4 DEF MailInv

(* Where nothing is mailed and no stamp or open sweep goes, the mails stand.  *)
LEMMA MailStands ==
  ASSUME ReminderInv, mailed' = mailed, sweep' = sweep, repeated' = repeated,
         \A i \in Ids : appt'[i].status = "absent" => appt[i].status = "absent",
         \A i \in Ids : \/ mailed[i][1] = 0 /\ mailed[i][2] = 0
                        \/ appt'[i].day = appt[i].day /\ appt'[i].hour = appt[i].hour
  PROVE  MailInv' /\ Ordered
<1> USE DEF ReminderInv
<1>1. \A i \in Ids : Mailed(i) => Mailed(i)'  BY DEF Mailed, Held, HeldAtHour, TypeInv
<1>2. MailInv'  BY <1>1 DEF MailInv
<1>3. Ordered  BY DEF Ordered, TypeInv
<1> QED  BY <1>2, <1>3

LEMMA ReminderNext ==
  ASSUME AppointmentsAssumption, ReminderInv, [Next]_vars
  PROVE  MailInv' /\ Ordered
<1> USE DEF ReminderInv, tenant, diary, beat
<1>1. CASE UNCHANGED vars  BY <1>1, MailStands DEF vars
<1>2. ASSUME NEW r \in Requests, BeginBook(r) PROVE MailInv' /\ Ordered
  BY <1>2, MailStands DEF BeginBook
<1>3. ASSUME NEW r \in Requests, CommitBook(r) PROVE MailInv' /\ Ordered
  <2>1. mailed[NewId][1] = 0 /\ mailed[NewId][2] = 0  BY <1>3, CommitInserts DEF MailInv
  <2>2. \A i \in Ids \ {NewId} : appt'[i] = appt[i]  BY <1>3, CommitInserts DEF TypeInv
  <2>3. appt'[NewId].status = "requested"
    <3>1. appt'[NewId] = NewRow(tx[r].slot)  BY <1>3, CommitInserts DEF TypeInv
    <3>2. NewRow(tx[r].slot).status = "requested"  BY DEF NewRow
    <3> QED  BY <3>1, <3>2
  <2>4. mailed' = mailed /\ sweep' = sweep /\ repeated' = repeated  BY <1>3 DEF CommitBook
  <2> QED  BY <2>1, <2>2, <2>3, <2>4, MailStands
<1>4. ASSUME NEW r \in Requests, BeginPut(r) PROVE MailInv' /\ Ordered
  BY <1>4, MailStands DEF BeginPut
<1>5. ASSUME NEW r \in Requests, CommitPut(r) PROVE MailInv' /\ Ordered
  BY <1>5, MailStands DEF CommitPut
<1>6. ASSUME NEW i \in Ids, NEW to \in DOMAIN Transitions, Transition(i, to)
      PROVE MailInv' /\ Ordered
  <2>1. to # "absent" /\ appt' = [appt EXCEPT ![i].status = to]
    BY <1>6, StatusSteps DEF Transition
  <2>2. \A j \in Ids : /\ appt'[j].day = appt[j].day /\ appt'[j].hour = appt[j].hour
                       /\ appt'[j].status = "absent" => appt[j].status = "absent"
    BY <2>1 DEF TypeInv, Appointment
  <2> QED  BY <1>6, <2>2, MailStands DEF Transition
<1>7. ASSUME NEW s \in Sweeps, BeginSweep(s) PROVE MailInv' /\ Ordered
  BY <1>7, SweepBegins
<1>8. ASSUME NEW s \in Sweeps, CommitSweep(s) PROVE MailInv' /\ Ordered
  <2>1. mailed' = mailed  BY <1>8 DEF CommitSweep
  <2>2. Ordered  BY <2>1 DEF Ordered, TypeInv
  <2> QED  BY <1>8, <2>2, SweepCommits
<1>9. ASSUME NEW s \in Sweeps, FailSweep(s) PROVE MailInv' /\ Ordered
  <2>1. /\ appt' = appt /\ mailed' = mailed /\ sweep' = [sweep EXCEPT ![s] = Nothing]
        /\ repeated' = repeated \cup sweep[s].hour \cup sweep[s].day
    BY <1>9 DEF FailSweep
  <2>2. ASSUME NEW i \in Ids \ repeated' PROVE Mailed(i)'
    <3>1. ~Held(i, s) /\ ~HeldAtHour(i, s) /\ Mailed(i)  BY <2>1 DEF Held, HeldAtHour, MailInv
    <3>2. \A o \in Sweeps \ {s} : (Held(i, o) => Held(i, o)') /\ (HeldAtHour(i, o) => HeldAtHour(i, o)')
      BY <2>1 DEF Held, HeldAtHour, TypeInv
    <3> QED  BY <2>1, <3>1, <3>2 DEF Mailed
  <2>3. MailInv'  BY <2>1, <2>2 DEF MailInv
  <2>4. Ordered  BY <2>1 DEF Ordered, TypeInv
  <2> QED  BY <2>3, <2>4
<1>10. CASE ChangeSettings  BY <1>10, MailStands DEF ChangeSettings
<1>11. CASE Tick  BY <1>11, MailStands DEF Tick
<1> QED  BY <1>1, <1>2, <1>3, <1>4, <1>5, <1>6, <1>7, <1>8, <1>9, <1>10, <1>11 DEF Next

(* A visit is reminded once a day ahead, once an hour ahead, and never of the *)
(* day after the hour, unless sweeps overlapped or failed (_remind_tenant).   *)
THEOREM RemindedInOrder == Spec => RemindersInOrder
<1> USE AppointmentsAssumption
<1>1. Init => ReminderInv
  <2>1. Init => TypeInv  BY TypeInit
  <2>2. Init => MailInv  BY DEF Init, MailInv, Mailed
  <2> QED  BY <2>1, <2>2 DEF ReminderInv
<1>2. ReminderInv /\ [Next]_vars => ReminderInv' /\ Ordered
  BY TypeNext, ReminderNext DEF ReminderInv
<1>3. Ordered => (\A i \in Ids \ repeated' :
                    /\ mailed'[i][2] > mailed[i][2] => mailed[i][2] = 0
                    /\ mailed'[i][1] > mailed[i][1] => mailed[i] = <<0, 0>>)
  BY DEF Ordered
<1> QED  BY <1>1, <1>2, <1>3, PTL DEF Spec, RemindersInOrder

-----------------------------------------------------------------------------
(* Contacts.  A form matches a contact that carries something, so it does not   *)
(* match one that was emptied; and a new contact takes a free row.            *)

Card == [row : BOOLEAN, email : Emails \cup {Nothing}, phone : Phones \cup {Nothing}]
ContactAssumption == Nothing \notin Contacts

Session(t) ==
  /\ t.kind \in {"fill", "edit", "erase"}
  /\ DOMAIN t.read \subseteq Contacts /\ t.read \in [DOMAIN t.read -> Card]
  /\ t.email \in Emails \cup {Nothing} /\ t.phone \in Phones \cup {Nothing}

SessionInv ==
  /\ session = [r \in Transactions |-> session[r]]
  /\ \A r \in Transactions : session[r] # Nothing => Session(session[r])

Full(c) == ~People!Bare(c)
ContactInv ==
  /\ contact \in [Contacts -> Card] /\ SessionInv
  /\ erased \subseteq Contacts /\ lost \subseteq Contacts
  /\ \A c \in Contacts : Full(c) \/ c \in erased => contact[c].row
  /\ \A c \in erased \ refilled :
       /\ ~Full(c)
       /\ \A r \in Transactions :
            session[r] # Nothing /\ session[r].kind = "fill" => c \notin DOMAIN session[r].read

(* A form that reads nobody emptied, or another transaction, may begin.        *)
LEMMA BeginKeeps ==
  ASSUME ContactInv, NEW r \in Transactions, NEW kind \in {"fill", "edit", "erase"},
         NEW cs \in SUBSET Contacts, kind = "fill" => \A c \in cs : Full(c),
         NEW e \in Emails \cup {Nothing}, NEW p \in Phones \cup {Nothing},
         People!Begin(r, kind, cs, e, p)
  PROVE  ContactInv'
<1> DEFINE read == [c \in cs |-> contact[c]]
           new == [kind |-> kind, read |-> read, email |-> e, phone |-> p]
<1>1. session' = [session EXCEPT ![r] = new] /\ UNCHANGED <<contact, lost, erased, refilled>>
  BY DEF People!Begin
<1>2. DOMAIN read = cs /\ read \in [cs -> Card]  BY DEF ContactInv
<1> HIDE DEF read
<1>3. new.kind = kind /\ new.read = read /\ new.email = e /\ new.phone = p  OBVIOUS
<1>4. Session(new)  BY <1>2, <1>3 DEF Session
<1> HIDE DEF new
<1>5. \A q \in Transactions : session'[q] = IF q = r THEN new ELSE session[q]
  BY <1>1 DEF ContactInv, SessionInv
<1>6. SessionInv'
  <2>1. session' = [q \in Transactions |-> session'[q]]  BY <1>1 DEF ContactInv, SessionInv
  <2> QED  BY <1>4, <1>5, <2>1 DEF ContactInv, SessionInv
<1>7. \A c \in Contacts : Full(c)' <=> Full(c)  BY <1>1 DEF Full, People!Bare
<1>8. ASSUME NEW c \in erased \ refilled, NEW q \in Transactions,
             session'[q] # Nothing, session'[q].kind = "fill"
      PROVE  c \notin DOMAIN session'[q].read
  <2>1. c \in Contacts /\ ~Full(c)  BY <1>8 DEF ContactInv
  <2>2. CASE q = r
    <3>1. session'[q] = new /\ kind = "fill"  BY <1>3, <1>5, <1>8, <2>2
    <3> QED  BY <1>2, <1>3, <2>1, <3>1
  <2>3. CASE q # r  BY <1>5, <1>8, <2>3 DEF ContactInv
  <2> QED  BY <2>2, <2>3
<1> QED  BY <1>1, <1>6, <1>7, <1>8 DEF ContactInv

(* What an erasure flushes, when it is alone, carries nothing.                 *)
LEMMA EndKeeps ==
  ASSUME ContactAssumption, ContactInv, NEW r \in Transactions,
         People!Write(r) \/ People!Make(r) \/ People!Abort(r)
  PROVE  ContactInv'
<1> DEFINE t == session[r]  rows == DOMAIN t.read
<1>0. t # Nothing /\ session' = [session EXCEPT ![r] = Nothing] /\ lost' = lost
  BY DEF People!Write, People!Make, People!Abort
<1>1. Session(t) /\ rows \subseteq Contacts  BY <1>0 DEF ContactInv, SessionInv, Session
<1>2. \A q \in Transactions : session'[q] # Nothing => session'[q] = session[q]
  BY <1>0 DEF ContactInv, SessionInv
<1>3. SessionInv'  BY <1>0, <1>2 DEF ContactInv, SessionInv
<1>4. CASE People!Abort(r)
  <2>1. UNCHANGED <<contact, erased, refilled>>  BY <1>4 DEF People!Abort
  <2> QED  BY <1>0, <1>2, <1>3, <2>1 DEF ContactInv, Full, People!Bare
<1>5. CASE People!Make(r)
  <2> DEFINE free == {c \in Contacts : ~contact[c].row}
             k == CHOOSE c \in free : TRUE
             new == [row |-> TRUE, email |-> t.email, phone |-> t.phone]
  <2>1. free # {} /\ contact' = [contact EXCEPT ![k] = new] /\ UNCHANGED <<erased, refilled>>
    BY <1>5 DEF People!Make
  <2>2. k \in Contacts /\ ~contact[k].row  BY <2>1
  <2> HIDE DEF k
  <2>3. new \in Card /\ new.row  BY <1>1 DEF Card, Session
  <2> HIDE DEF new
  <2>4. /\ contact' \in [Contacts -> Card]
        /\ \A c \in Contacts : contact'[c] = IF c = k THEN new ELSE contact[c]
    BY <2>1, <2>2, <2>3 DEF ContactInv
  <2>5. k \notin erased  BY <2>2 DEF ContactInv
  <2>6. \A c \in Contacts \ {k} : Full(c)' <=> Full(c)  BY <2>4 DEF Full, People!Bare
  <2> QED  BY <1>0, <1>2, <1>3, <2>1, <2>3, <2>4, <2>5, <2>6 DEF ContactInv
<1>6. CASE People!Write(r)
  <2>1. /\ contact' = [c \in Contacts |->
             IF c \in rows THEN People!Flushed(contact[c], t.read[c], People!New(t, t.read[c])) ELSE contact[c]]
        /\ erased' = IF t.kind = "erase" THEN erased \cup rows ELSE erased
        /\ refilled' = CASE t.kind = "fill"  -> refilled
                         [] t.kind = "edit"  -> refilled \cup (erased \cap rows)
                         [] t.kind = "erase" -> (refilled \ rows) \cup People!Overlapped(r)
    BY <1>6 DEF People!Write
  <2>2. t.kind \in {"fill", "edit", "erase"}  BY <1>1 DEF Session
  <2>3. ASSUME NEW c \in Contacts
        PROVE  /\ contact'[c] \in Card
               /\ c \in rows => contact'[c].row
               /\ c \notin rows => contact'[c] = contact[c]
    <3>1. CASE c \notin rows  BY <2>1, <3>1 DEF ContactInv
    <3>2. CASE c \in rows
      <4> DEFINE new == People!New(t, t.read[c])
      <4>1. contact[c] \in Card /\ t.read[c] \in Card  BY <1>1, <3>2 DEF ContactInv, Session
      <4>2. new \in Card
        BY <1>1, <2>2, <4>1 DEF People!New, People!Filled, People!Anonymized, Card, Session
      <4> HIDE DEF new
      <4>3. contact'[c] = People!Flushed(contact[c], t.read[c], new)  BY <2>1, <3>2 DEF new
      <4>4. contact'[c] \in Card /\ contact'[c].row  BY <4>1, <4>2, <4>3 DEF People!Flushed, Card
      <4> QED  BY <3>2, <4>4
    <3> QED  BY <3>1, <3>2
  <2>4. contact' \in [Contacts -> Card]
    <3>1. contact' = [c \in Contacts |-> contact'[c]]  BY <2>1
    <3> QED  BY <2>3, <3>1
  <2>5. erased' \subseteq Contacts  BY <1>1, <2>1 DEF ContactInv
  <2>6. \A c \in Contacts : Full(c)' \/ c \in erased' => contact'[c].row
    <3> SUFFICES ASSUME NEW c \in Contacts, Full(c)' \/ c \in erased' PROVE contact'[c].row  OBVIOUS
    <3>1. CASE c \in rows  BY <2>3, <3>1
    <3>2. CASE c \notin rows
      <4>1. contact'[c] = contact[c] /\ (c \in erased' => c \in erased)  BY <2>1, <2>3, <3>2
      <4> QED  BY <4>1 DEF ContactInv, Full, People!Bare
    <3> QED  BY <3>1, <3>2
  <2>7. ASSUME NEW c \in erased' \ refilled'
        PROVE  /\ ~Full(c)'
               /\ \A q \in Transactions :
                    session'[q] # Nothing /\ session'[q].kind = "fill" => c \notin DOMAIN session'[q].read
    <3>0. c \in Contacts  BY <2>5
    <3>1. CASE c \notin rows
      <4>1. c \in erased \ refilled  BY <2>1, <2>2, <3>1
      <4>2. contact'[c] = contact[c]  BY <2>3, <3>0, <3>1
      <4> QED  BY <1>2, <4>1, <4>2 DEF ContactInv, Full, People!Bare
    <3>2. CASE c \in rows
      <4>1. t.kind # "fill"  BY <1>0, <2>1, <3>2 DEF ContactInv
      <4>2. t.kind # "edit"  BY <2>1, <3>2
      <4>3. t.kind = "erase" /\ c \notin People!Overlapped(r)  BY <2>1, <2>2, <4>1, <4>2
      <4>4. /\ contact[c] = t.read[c] \/ People!Bare(c)
            /\ \A q \in Transactions :
                 session[q] # Nothing /\ session[q].kind = "fill" => c \notin DOMAIN session[q].read
        BY <3>2, <4>3 DEF People!Overlapped
      <4>5. contact[c] \in Card /\ t.read[c] \in Card  BY <1>1, <3>0, <3>2 DEF ContactInv, Session
      <4>6. contact'[c] = People!Flushed(contact[c], t.read[c], People!Anonymized(t.read[c]))
        BY <2>1, <3>0, <3>2, <4>3 DEF People!New
      <4>7. contact'[c].email = Nothing /\ contact'[c].phone = Nothing
        BY <4>4, <4>5, <4>6 DEF People!Flushed, People!Anonymized, People!Bare, Card
      <4> QED  BY <1>2, <4>4, <4>7 DEF Full, People!Bare
    <3> QED  BY <3>1, <3>2
  <2> QED  BY <1>0, <1>3, <2>4, <2>5, <2>6, <2>7 DEF ContactInv
<1> QED  BY <1>4, <1>5, <1>6

LEMMA ContactSteps ==
  ASSUME ContactAssumption, ContactInv, People!Next  PROVE ContactInv'
<1>1. ASSUME NEW r \in Transactions, NEW e \in Emails \cup {Nothing}, NEW p \in Phones \cup {Nothing},
             People!Capture(r, e, p)
      PROVE  ContactInv'
  <2>1. People!Begin(r, "fill", People!Dedupe(e, p), e, p)  BY <1>1 DEF People!Capture
  <2>2. People!Dedupe(e, p) \in SUBSET Contacts /\ \A c \in People!Dedupe(e, p) : Full(c)
    BY DEF People!Dedupe, People!WithEmail, People!WithPhone, Full, People!Bare
  <2> QED  BY <2>1, <2>2, BeginKeeps
<1>2. ASSUME NEW r \in Transactions, NEW c \in Contacts, NEW e \in Emails \cup {Nothing},
             NEW p \in Phones \cup {Nothing}, People!UpdateContact(r, c, e, p)
      PROVE  ContactInv'
  BY <1>2, BeginKeeps DEF People!UpdateContact
<1>3. ASSUME NEW r \in Transactions, NEW e \in Emails, People!AnonymizeSubject(r, e)  PROVE ContactInv'
  <2>1. People!WithEmail(e) \in SUBSET Contacts  BY DEF People!WithEmail
  <2> QED  BY <1>3, <2>1, BeginKeeps DEF People!AnonymizeSubject
<1>4. ASSUME NEW r \in Transactions, People!AnonymizeLostLeads(r)  PROVE ContactInv'
  <2>1. {c \in lost : ~People!Bare(c)} \in SUBSET Contacts  BY DEF ContactInv
  <2> QED  BY <1>4, <2>1, BeginKeeps DEF People!AnonymizeLostLeads
<1>5. ASSUME NEW c \in Contacts, People!LongLost(c)  PROVE ContactInv'
  BY <1>5 DEF People!LongLost, ContactInv, SessionInv, Session, Full, People!Bare
<1> QED  BY <1>1, <1>2, <1>3, <1>4, <1>5, EndKeeps DEF People!Next

(* What an erasure has emptied stays empty, whatever is sent later, unless a     *)
(* form or an edit overlapped it or staff edit the contact again              *)
(* (LeadsService.anonymize_subject, anonymize_lost_leads, update_contact).   *)
THEOREM ErasedAreEmpty ==
  ASSUME ContactAssumption PROVE EnquiriesSpec => []ErasedStaysEmpty
<1>1. EnquiriesInit => ContactInv
  <2> SUFFICES ASSUME EnquiriesInit PROVE ContactInv  OBVIOUS
  <2>1. /\ contact = [c \in Contacts |-> [row |-> FALSE, email |-> Nothing, phone |-> Nothing]]
        /\ session = [r \in Transactions |-> Nothing] /\ lost = {} /\ erased = {} /\ refilled = {}
    BY DEF EnquiriesInit, People!Init, People!Blank
  <2> QED  BY <2>1 DEF ContactInv, SessionInv, Card, Full, People!Bare
<1>2. ContactInv /\ [EnquiriesNext]_enquiries => ContactInv'
  <2> SUFFICES ASSUME ContactInv, [EnquiriesNext]_enquiries PROVE ContactInv'  OBVIOUS
  <2>1. [People!Next]_people  BY DEF EnquiriesNext, enquiries
  <2>2. CASE UNCHANGED people  BY <2>2 DEF people, ContactInv, SessionInv, Session, Full, People!Bare
  <2> QED  BY <2>1, <2>2, ContactSteps
<1>3. ContactInv => ErasedStaysEmpty
  BY DEF ContactInv, Full, ErasedStaysEmpty, People!ErasedStaysEmpty
<1> QED  BY <1>1, <1>2, <1>3, PTL DEF EnquiriesSpec

-----------------------------------------------------------------------------
(* Leads.  A lead that no two rounds hold is mailed the step its drip is at, and *)
(* a step that was mailed is behind the drip, or about to be.                *)

LeadRow == [stage : Stages \cup {"new", "absent"}, mailable : BOOLEAN, agent : Agents \cup {Nothing},
            old : BOOLEAN, escalations : Nat]
DripRow == [step : Nat, due : BOOLEAN, stopped : BOOLEAN]
Round == [stage : {"read", "written"}, due : SUBSET LeadIds, step : UNION {[d -> Nat] : d \in SUBSET LeadIds},
          sent : SUBSET LeadIds, flag : SUBSET LeadIds]
LeadAssumption == Steps \in Nat /\ "absent" \notin Stages /\ Nothing \notin Round

Holds(s, l) == round[s] # Nothing /\ l \in round[s].due
Flags(s, l) == round[s] # Nothing /\ l \in round[s].flag
Mails(s, l, k) == round[s] # Nothing /\ l \in round[s].sent /\ round[s].step[l] = k

LeadTypes ==
  /\ lead \in [LeadIds -> LeadRow] /\ drip \in [LeadIds -> DripRow] /\ active \subseteq Agents
  /\ mails \in [LeadIds -> [0..(Steps - 1) -> Nat]] /\ again \subseteq LeadIds
  /\ round \in [Sweeps -> Round \cup {Nothing}]
  /\ \A s \in Sweeps : round[s] # Nothing =>
       /\ round[s].step \in [round[s].due -> Nat] /\ round[s].sent \subseteq round[s].due
       /\ round[s].stage = "read" => round[s].sent = {} /\ round[s].flag = {}
Single(l) ==
  /\ \A s, o \in Sweeps : Holds(s, l) /\ Holds(o, l) => s = o
  /\ \A s, o \in Sweeps : Flags(s, l) /\ Flags(o, l) => s = o
  /\ \A s \in Sweeps : Holds(s, l) => lead[l].stage # "absent" /\ round[s].step[l] = drip[l].step
  /\ \A s \in Sweeps : Flags(s, l) => lead[l].escalations = 0
  /\ lead[l].escalations <= 1
  /\ lead[l].stage = "absent" => drip[l].stopped
  /\ \A k \in 0..(Steps - 1) : mails[l][k] <= 1
  /\ \A k \in 0..(Steps - 1) : mails[l][k] = 1 =>
       /\ lead[l].stage # "absent"
       /\ k < drip[l].step \/ \E s \in Sweeps : Mails(s, l, k)
LeadInv == LeadTypes /\ \A l \in LeadIds \ again : Single(l)

(* A step that no round takes: a lead is created, or keeps its step and its      *)
(* escalations.                                                              *)
LEMMA QuietKeeps ==
  ASSUME LeadAssumption, LeadInv, UNCHANGED <<round, mails, again>>,
         lead' \in [LeadIds -> LeadRow], drip' \in [LeadIds -> DripRow], active' \subseteq Agents,
         \A l \in LeadIds :
           \/ /\ lead[l].stage = "absent" /\ lead'[l].stage # "absent" /\ lead'[l].escalations = 0
           \/ /\ lead[l].stage # "absent" => lead'[l].stage # "absent"
              /\ drip'[l].step = drip[l].step /\ lead'[l].escalations = lead[l].escalations
              /\ drip[l].stopped => drip'[l].stopped
  PROVE  LeadInv'
<1> USE DEF LeadInv
<1>1. LeadTypes'  BY DEF LeadTypes
<1>2. ASSUME NEW l \in LeadIds \ again PROVE Single(l)'
  <2> USE DEF Holds, Flags, Mails, Single
  <2>1. CASE lead[l].stage = "absent" /\ lead'[l].stage # "absent" /\ lead'[l].escalations = 0
    <3>1. \A k \in 0..(Steps - 1) : mails[l][k] # 1  BY <1>2, <2>1
    <3>2. \A s \in Sweeps : ~Holds(s, l)  BY <1>2, <2>1
    <3> QED  BY <1>2, <2>1, <3>1, <3>2
  <2>2. CASE /\ lead[l].stage # "absent" => lead'[l].stage # "absent"
             /\ drip'[l].step = drip[l].step /\ lead'[l].escalations = lead[l].escalations
             /\ drip[l].stopped => drip'[l].stopped
    BY <1>2, <2>2
  <2> QED  BY <1>2, <2>1, <2>2
<1> QED  BY <1>1, <1>2

LEMMA BeginRound ==
  ASSUME LeadAssumption, LeadInv, NEW s \in Sweeps, Pipeline!BeginSweep(s)  PROVE LeadInv'
<1> DEFINE due == {l \in LeadIds : Pipeline!Due(l)}
           new == [stage |-> "read", due |-> due, step |-> [l \in due |-> drip[l].step], sent |-> {}, flag |-> {}]
<1>1. /\ round[s] = Nothing /\ round' = [round EXCEPT ![s] = new]
      /\ again' = again \cup {l \in due : \E o \in Sweeps : round[o] # Nothing /\ l \in round[o].due}
      /\ UNCHANGED <<lead, drip, active, mails>>
  BY DEF Pipeline!BeginSweep
<1>2. new.step \in [due -> Nat] /\ \A l \in due : new.step[l] = drip[l].step /\ ~drip[l].stopped
  BY DEF Pipeline!Due, LeadInv, LeadTypes, DripRow
<1>3. due \in SUBSET LeadIds  OBVIOUS
<1> HIDE DEF due
<1>4. new \in Round
  <2>1. new.step \in UNION {[d -> Nat] : d \in SUBSET LeadIds}  BY <1>2, <1>3
  <2> QED  BY <1>3, <2>1 DEF Round
<1>5. /\ new.due = due /\ new.sent = {} /\ new.flag = {} /\ new # Nothing  BY <1>4 DEF LeadAssumption
<1> HIDE DEF new
<1>6. LeadTypes'  BY <1>1, <1>2, <1>3, <1>4, <1>5 DEF LeadInv, LeadTypes
<1>7. \A o \in Sweeps : round'[o] = IF o = s THEN new ELSE round[o]  BY <1>1 DEF LeadInv, LeadTypes
<1>8. ASSUME NEW l \in LeadIds \ again' PROVE Single(l)'
  <2>1. Single(l) /\ l \notin again  BY <1>1, <1>8 DEF LeadInv
  <2>2. l \in due => \A o \in Sweeps : ~Holds(o, l)  BY <1>1, <1>8 DEF Holds
  <2>3. \A o \in Sweeps : Holds(o, l)' <=> (Holds(o, l) \/ (o = s /\ l \in due))
    BY <1>1, <1>5, <1>7 DEF Holds
  <2>4. \A o \in Sweeps : Flags(o, l)' <=> Flags(o, l)  BY <1>1, <1>5, <1>7 DEF Flags
  <2>5. \A o \in Sweeps, k \in 0..(Steps - 1) : Mails(o, l, k) => Mails(o, l, k)'
    BY <1>1, <1>5, <1>7 DEF Mails
  <2>6. l \in due => lead[l].stage # "absent"  BY <1>2, <2>1 DEF Single
  <2>7. \A o \in Sweeps : Holds(o, l)' => lead[l].stage # "absent" /\ round'[o].step[l] = drip[l].step
    <3> SUFFICES ASSUME NEW o \in Sweeps, Holds(o, l)'
                 PROVE  lead[l].stage # "absent" /\ round'[o].step[l] = drip[l].step
      OBVIOUS
    <3>1. CASE o = s  BY <1>1, <1>2, <1>7, <2>3, <2>6, <3>1 DEF Holds
    <3>2. CASE o # s  BY <1>7, <2>1, <2>3, <3>2 DEF Single
    <3> QED  BY <3>1, <3>2
  <2>8. \A o, p \in Sweeps : Holds(o, l)' /\ Holds(p, l)' => o = p  BY <2>1, <2>2, <2>3 DEF Single
  <2>9. \A o, p \in Sweeps : Flags(o, l)' /\ Flags(p, l)' => o = p  BY <2>1, <2>4 DEF Single
  <2>10. \A o \in Sweeps : Flags(o, l)' => lead'[l].escalations = 0  BY <1>1, <2>1, <2>4 DEF Single
  <2>11. \A k \in 0..(Steps - 1) : mails'[l][k] = 1 =>
           /\ lead'[l].stage # "absent" /\ (k < drip'[l].step \/ \E o \in Sweeps : Mails(o, l, k)')
    BY <1>1, <2>1, <2>5 DEF Single
  <2>12. /\ lead'[l].escalations <= 1 /\ (lead'[l].stage = "absent" => drip'[l].stopped)
         /\ \A k \in 0..(Steps - 1) : mails'[l][k] <= 1
    BY <1>1, <2>1 DEF Single
  <2> QED  BY <1>1, <2>7, <2>8, <2>9, <2>10, <2>11, <2>12 DEF Single
<1> QED  BY <1>6, <1>8 DEF LeadInv

LEMMA AdvanceRound ==
  ASSUME LeadAssumption, LeadInv, NEW s \in Sweeps, Pipeline!AdvanceDrips(s)  PROVE LeadInv'
<1> DEFINE w == round[s]
           goes == {l \in w.due : lead[l].stage \in Pipeline!DRIP_ACTIVE_STAGES /\ w.step[l] < Steps}
           flag == {l \in LeadIds : Pipeline!Unassigned(l)}
           new == [w EXCEPT !.stage = "written", !.sent = goes, !.flag = flag]
<1>1. /\ w # Nothing /\ w.stage = "read"
      /\ round' = [round EXCEPT ![s].stage = "written", ![s].sent = goes, ![s].flag = flag]
      /\ mails' = [l \in LeadIds |-> IF l \in goes /\ lead[l].mailable THEN [mails[l] EXCEPT ![w.step[l]] = @ + 1]
                                    ELSE mails[l]]
      /\ again' = again \cup {l \in flag : \E o \in Sweeps : round[o] # Nothing /\ l \in round[o].flag}
      /\ UNCHANGED <<lead, drip, active>>
  BY DEF Pipeline!AdvanceDrips
<1>2. w \in Round /\ w.step \in [w.due -> Nat] /\ w.sent = {} /\ w.flag = {}
  BY <1>1 DEF LeadInv, LeadTypes
<1>3. /\ goes \subseteq w.due /\ flag \subseteq LeadIds /\ \A l \in flag : lead[l].escalations = 0
      /\ \A l \in goes : w.step[l] < Steps
  BY DEF Pipeline!Unassigned
<1> HIDE DEF goes, flag
<1>4. round' = [round EXCEPT ![s] = new]  BY <1>1, <1>2 DEF LeadInv, LeadTypes, Round
<1>5. /\ new \in Round /\ new # Nothing /\ new.stage = "written" /\ new.due = w.due /\ new.step = w.step
      /\ new.sent = goes /\ new.flag = flag
  BY <1>2, <1>3 DEF Round, LeadAssumption
<1> HIDE DEF w, new
<1>6. \A o \in Sweeps : round'[o] = IF o = s THEN new ELSE round[o]  BY <1>4 DEF LeadInv, LeadTypes
<1>7. \A l \in LeadIds : l \in w.due => w.step[l] \in Nat  BY <1>2
<1>8. ASSUME NEW l \in LeadIds
      PROVE  /\ mails'[l] \in [0..(Steps - 1) -> Nat]
             /\ \A k \in 0..(Steps - 1) :
                  mails'[l][k] = mails[l][k] \/ (l \in goes /\ k = w.step[l] /\ mails'[l][k] = mails[l][k] + 1)
  <2>1. mails[l] \in [0..(Steps - 1) -> Nat]  BY DEF LeadInv, LeadTypes
  <2>2. CASE l \in goes /\ lead[l].mailable
    <3>1. mails'[l] = [mails[l] EXCEPT ![w.step[l]] = @ + 1]  BY <1>1, <2>2
    <3>2. w.step[l] \in 0..(Steps - 1)  BY <1>3, <1>7, <2>2 DEF LeadAssumption
    <3>3. mails[l][w.step[l]] \in Nat  BY <2>1, <3>2
    <3> QED  BY <2>1, <2>2, <3>1, <3>2, <3>3
  <2>3. CASE ~(l \in goes /\ lead[l].mailable)
    <3>1. mails'[l] = mails[l]  BY <1>1, <2>3
    <3> QED  BY <2>1, <3>1
  <2> QED  BY <2>2, <2>3
<1>9. LeadTypes'
  <2>1. mails' \in [LeadIds -> [0..(Steps - 1) -> Nat]]  BY <1>1, <1>8
  <2>2. round' \in [Sweeps -> Round \cup {Nothing}]  BY <1>4, <1>5 DEF LeadInv, LeadTypes
  <2>3. \A o \in Sweeps : round'[o] # Nothing =>
          /\ round'[o].step \in [round'[o].due -> Nat] /\ round'[o].sent \subseteq round'[o].due
          /\ round'[o].stage = "read" => round'[o].sent = {} /\ round'[o].flag = {}
    BY <1>2, <1>3, <1>5, <1>6 DEF LeadInv, LeadTypes
  <2> QED  BY <1>1, <1>3, <2>1, <2>2, <2>3 DEF LeadInv, LeadTypes
<1>10. ASSUME NEW l \in LeadIds \ again' PROVE Single(l)'
  <2>1. Single(l) /\ l \notin again  BY <1>1, <1>10 DEF LeadInv
  <2>2. l \in flag => \A o \in Sweeps : ~Flags(o, l)  BY <1>1, <1>10 DEF Flags
  <2>3. \A o \in Sweeps : (Holds(o, l)' <=> Holds(o, l)) /\ (Holds(o, l) => round'[o].step = round[o].step)
    BY <1>1, <1>5, <1>6 DEF Holds, w
  <2>4. \A o \in Sweeps : Flags(o, l)' => Flags(o, l) \/ (o = s /\ l \in flag)
    BY <1>5, <1>6 DEF Flags
  <2>5. \A o \in Sweeps, k \in 0..(Steps - 1) : Mails(o, l, k) => Mails(o, l, k)'
    BY <1>2, <1>5, <1>6 DEF Mails, w
  <2>6. \A k \in 0..(Steps - 1) : l \in goes /\ k = w.step[l] => Mails(s, l, k)'
    BY <1>5, <1>6 DEF Mails
  <2>7. l \in w.due => Holds(s, l)  BY <1>1 DEF Holds, w
  <2>8. ASSUME NEW k \in 0..(Steps - 1), l \in goes, k = w.step[l] PROVE mails[l][k] # 1
    <3>1. Holds(s, l) /\ drip[l].step = k  BY <1>3, <2>1, <2>7, <2>8 DEF Single, w
    <3>2. ~ k < drip[l].step  BY <3>1
    <3>3. ASSUME NEW o \in Sweeps, Mails(o, l, k) PROVE FALSE
      <4>1. Holds(o, l)  BY <3>3 DEF Mails, Holds, LeadInv, LeadTypes
      <4>2. o = s  BY <2>1, <3>1, <4>1 DEF Single
      <4> QED  BY <1>2, <3>3, <4>2 DEF Mails, w
    <3> QED  BY <2>1, <3>2, <3>3 DEF Single
  <2>9. \A k \in 0..(Steps - 1) : mails[l][k] \in Nat /\ mails[l][k] <= 1
    <3>1. mails[l] \in [0..(Steps - 1) -> Nat]  BY DEF LeadInv, LeadTypes
    <3> QED  BY <2>1, <3>1 DEF Single
  <2>10. \A k \in 0..(Steps - 1) : mails'[l][k] <= 1  BY <1>8, <2>8, <2>9
  <2>11. ASSUME NEW k \in 0..(Steps - 1), mails'[l][k] = 1
         PROVE  /\ lead[l].stage # "absent"
                /\ k < drip[l].step \/ \E o \in Sweeps : Mails(o, l, k)'
    <3>1. CASE mails'[l][k] = mails[l][k]  BY <2>1, <2>5, <2>11, <3>1 DEF Single
    <3>2. CASE l \in goes /\ k = w.step[l]  BY <1>3, <2>1, <2>6, <2>7, <3>2 DEF Single
    <3> QED  BY <1>8, <3>1, <3>2
  <2>12. \A o, p \in Sweeps : Holds(o, l)' /\ Holds(p, l)' => o = p  BY <2>1, <2>3 DEF Single
  <2>13. \A o, p \in Sweeps : Flags(o, l)' /\ Flags(p, l)' => o = p  BY <2>1, <2>2, <2>4 DEF Single
  <2>14. \A o \in Sweeps : Holds(o, l)' => lead'[l].stage # "absent" /\ round'[o].step[l] = drip'[l].step
    BY <1>1, <2>1, <2>3 DEF Single
  <2>15. \A o \in Sweeps : Flags(o, l)' => lead'[l].escalations = 0  BY <1>1, <1>3, <2>1, <2>4 DEF Single
  <2>16. lead'[l].escalations <= 1 /\ (lead'[l].stage = "absent" => drip'[l].stopped)
    BY <1>1, <2>1 DEF Single
  <2> QED  BY <1>1, <2>10, <2>11, <2>12, <2>13, <2>14, <2>15, <2>16 DEF Single
<1> QED  BY <1>9, <1>10 DEF LeadInv

LEMMA CommitRound ==
  ASSUME LeadAssumption, LeadInv, NEW s \in Sweeps, Pipeline!CommitSweep(s)  PROVE LeadInv'
<1> DEFINE w == round[s]
<1>1. /\ w # Nothing
      /\ drip' = [l \in LeadIds |->
           CASE l \in w.sent -> Pipeline!Advanced(drip[l], w.step[l] + 1)
             [] l \in w.due \ w.sent -> [drip[l] EXCEPT !.stopped = TRUE]
             [] OTHER -> drip[l]]
      /\ lead' = [l \in LeadIds |-> IF l \in w.flag THEN [lead[l] EXCEPT !.escalations = @ + 1] ELSE lead[l]]
      /\ round' = [round EXCEPT ![s] = Nothing]
      /\ UNCHANGED <<active, mails, again>>
  BY DEF Pipeline!CommitSweep, Pipeline!history
<1>2. w \in Round /\ w.step \in [w.due -> Nat] /\ w.sent \subseteq w.due
  BY <1>1 DEF LeadInv, LeadTypes
<1> HIDE DEF w
<1>3. ASSUME NEW l \in LeadIds
      PROVE  /\ drip'[l] \in DripRow /\ (drip[l].stopped => drip'[l].stopped \/ l \in w.sent)
             /\ drip'[l].step = IF l \in w.sent THEN w.step[l] + 1 ELSE drip[l].step
  <2>1. drip[l] \in DripRow  BY DEF LeadInv, LeadTypes
  <2>2. CASE l \in w.sent
    <3>1. drip'[l] = [drip[l] EXCEPT !.step = w.step[l] + 1, !.due = FALSE,
                                     !.stopped = @ \/ w.step[l] + 1 >= Steps]
      BY <1>1, <2>2 DEF Pipeline!Advanced
    <3>2. w.step[l] + 1 \in Nat  BY <1>2, <2>2
    <3>3. drip'[l].step = w.step[l] + 1  BY <2>1, <3>1 DEF DripRow
    <3>4. drip'[l].stopped \in BOOLEAN  BY <2>1, <3>1 DEF DripRow
    <3>5. drip'[l] \in DripRow  BY <2>1, <3>1, <3>2, <3>4 DEF DripRow
    <3> QED  BY <2>2, <3>3, <3>5
  <2>3. CASE l \notin w.sent /\ l \in w.due
    <3>1. drip'[l] = [drip[l] EXCEPT !.stopped = TRUE]  BY <1>1, <2>3
    <3> QED  BY <2>1, <2>3, <3>1 DEF DripRow
  <2>4. CASE l \notin w.due
    <3>1. drip'[l] = drip[l] /\ l \notin w.sent  BY <1>1, <1>2, <2>4
    <3> QED  BY <2>1, <3>1
  <2> QED  BY <2>2, <2>3, <2>4
<1>4. ASSUME NEW l \in LeadIds
      PROVE  /\ lead'[l] \in LeadRow /\ lead'[l].stage = lead[l].stage
             /\ lead'[l].escalations = IF l \in w.flag THEN lead[l].escalations + 1 ELSE lead[l].escalations
  <2>1. lead[l] \in LeadRow  BY DEF LeadInv, LeadTypes
  <2>2. CASE l \in w.flag
    <3>1. lead'[l] = [lead[l] EXCEPT !.escalations = @ + 1]  BY <1>1, <2>2
    <3> QED  BY <2>1, <2>2, <3>1 DEF LeadRow
  <2>3. CASE l \notin w.flag  BY <1>1, <2>1, <2>3
  <2> QED  BY <2>2, <2>3
<1>5. \A o \in Sweeps : round'[o] # Nothing => o # s /\ round'[o] = round[o]
  BY <1>1 DEF LeadInv, LeadTypes
<1>6. \A o \in Sweeps : o # s => round'[o] = round[o]  BY <1>1 DEF LeadInv, LeadTypes
<1>7. LeadTypes'
  <2>1. lead' \in [LeadIds -> LeadRow] /\ drip' \in [LeadIds -> DripRow]  BY <1>1, <1>3, <1>4
  <2>2. round' \in [Sweeps -> Round \cup {Nothing}]  BY <1>1 DEF LeadInv, LeadTypes
  <2> QED  BY <1>1, <1>5, <2>1, <2>2 DEF LeadInv, LeadTypes
<1>8. ASSUME NEW l \in LeadIds \ again' PROVE Single(l)'
  <2>1. Single(l)  BY <1>1, <1>8 DEF LeadInv
  <2>2. \A o \in Sweeps : Holds(o, l)' => Holds(o, l) /\ o # s  BY <1>5 DEF Holds
  <2>3. \A o \in Sweeps : Flags(o, l)' => Flags(o, l) /\ o # s  BY <1>5 DEF Flags
  <2>4. \A o \in Sweeps, k \in 0..(Steps - 1) : Mails(o, l, k) /\ o # s => Mails(o, l, k)'
    BY <1>6 DEF Mails
  <2>5. (l \in w.due => Holds(s, l)) /\ (l \in w.flag => Flags(s, l))  BY <1>1 DEF Holds, Flags, w
  <2>6. l \in w.sent => l \in w.due /\ lead[l].stage # "absent" /\ w.step[l] = drip[l].step
    BY <1>2, <2>1, <2>5 DEF Single, w
  <2>7. drip'[l].step \in Nat /\ drip[l].step \in Nat /\ drip[l].step <= drip'[l].step
    BY <1>3, <2>6 DEF LeadInv, LeadTypes, DripRow
  <2>8. lead'[l].escalations <= 1 /\ \A o \in Sweeps : Flags(o, l)' => lead'[l].escalations = 0
    <3>1. CASE l \in w.flag
      <4>1. lead[l].escalations = 0 /\ \A o \in Sweeps : Flags(o, l) => o = s  BY <2>1, <2>5, <3>1 DEF Single
      <4> QED  BY <1>4, <2>3, <3>1, <4>1
    <3>2. CASE l \notin w.flag  BY <1>4, <2>1, <2>3, <3>2 DEF Single
    <3> QED  BY <3>1, <3>2
  <2>9. \A o \in Sweeps : Holds(o, l)' => lead'[l].stage # "absent" /\ round'[o].step[l] = drip'[l].step
    <3> SUFFICES ASSUME NEW o \in Sweeps, Holds(o, l)'
                 PROVE  lead'[l].stage # "absent" /\ round'[o].step[l] = drip'[l].step
      OBVIOUS
    <3>1. l \notin w.due  BY <2>1, <2>2, <2>5 DEF Single
    <3>2. l \notin w.sent  BY <1>2, <3>1
    <3> QED  BY <1>3, <1>4, <1>6, <2>1, <2>2, <3>2 DEF Single
  <2>10. lead'[l].stage = "absent" => drip'[l].stopped  BY <1>3, <1>4, <2>1, <2>6 DEF Single
  <2>11. ASSUME NEW k \in 0..(Steps - 1), mails'[l][k] = 1
         PROVE  lead'[l].stage # "absent" /\ (k < drip'[l].step \/ \E o \in Sweeps : Mails(o, l, k)')
    <3>1. lead[l].stage # "absent" /\ (k < drip[l].step \/ \E o \in Sweeps : Mails(o, l, k))
      BY <1>1, <2>1, <2>11 DEF Single
    <3>2. CASE k < drip[l].step  BY <1>4, <2>7, <3>1, <3>2
    <3>3. ASSUME NEW o \in Sweeps, Mails(o, l, k), o # s
          PROVE  lead'[l].stage # "absent" /\ \E x \in Sweeps : Mails(x, l, k)'
      BY <1>4, <2>4, <3>1, <3>3
    <3>4. CASE Mails(s, l, k)
      <4>1. l \in w.sent /\ w.step[l] = k  BY <3>4 DEF Mails, w
      <4> QED  BY <1>3, <1>4, <3>1, <4>1
    <3> QED  BY <3>1, <3>2, <3>3, <3>4
  <2>12. \A o, p \in Sweeps : Holds(o, l)' /\ Holds(p, l)' => o = p  BY <2>1, <2>2 DEF Single
  <2>13. \A o, p \in Sweeps : Flags(o, l)' /\ Flags(p, l)' => o = p  BY <2>1, <2>3 DEF Single
  <2>14. \A k \in 0..(Steps - 1) : mails'[l][k] <= 1  BY <1>1, <2>1 DEF Single
  <2> QED  BY <2>8, <2>9, <2>10, <2>11, <2>12, <2>13, <2>14 DEF Single
<1> QED  BY <1>7, <1>8 DEF LeadInv

(* A round that fails has mailed again what it sent.                          *)
LEMMA FailRound ==
  ASSUME LeadAssumption, LeadInv, NEW s \in Sweeps, Pipeline!FailSweep(s)  PROVE LeadInv'
<1>1. /\ round[s] # Nothing /\ round' = [round EXCEPT ![s] = Nothing] /\ again' = again \cup round[s].sent
      /\ UNCHANGED <<lead, drip, active, mails>>
  BY DEF Pipeline!FailSweep
<1>2. \A o \in Sweeps : round'[o] # Nothing => o # s /\ round'[o] = round[o]
  BY <1>1 DEF LeadInv, LeadTypes
<1>3. \A o \in Sweeps : o # s => round'[o] = round[o]  BY <1>1 DEF LeadInv, LeadTypes
<1>4. LeadTypes'
  <2>1. round' \in [Sweeps -> Round \cup {Nothing}]  BY <1>1 DEF LeadInv, LeadTypes
  <2>2. round[s].sent \subseteq LeadIds  BY <1>1 DEF LeadInv, LeadTypes, Round
  <2> QED  BY <1>1, <1>2, <2>1, <2>2 DEF LeadInv, LeadTypes
<1>5. ASSUME NEW l \in LeadIds \ again' PROVE Single(l)'
  <2>1. Single(l) /\ l \notin round[s].sent  BY <1>1, <1>5 DEF LeadInv
  <2>2. \A o \in Sweeps : Holds(o, l)' => Holds(o, l) /\ round'[o] = round[o]  BY <1>2 DEF Holds
  <2>3. \A o \in Sweeps : Flags(o, l)' => Flags(o, l)  BY <1>2 DEF Flags
  <2>4. \A o \in Sweeps, k \in 0..(Steps - 1) : Mails(o, l, k) => Mails(o, l, k)'
    BY <1>3, <2>1 DEF Mails
  <2>5. \A k \in 0..(Steps - 1) : mails'[l][k] = 1 =>
          /\ lead'[l].stage # "absent" /\ (k < drip'[l].step \/ \E o \in Sweeps : Mails(o, l, k)')
    BY <1>1, <2>1, <2>4 DEF Single
  <2> QED  BY <1>1, <2>1, <2>2, <2>3, <2>5 DEF Single
<1> QED  BY <1>4, <1>5 DEF LeadInv

LEMMA LeadSteps ==
  ASSUME LeadAssumption, LeadInv, NEW l \in LeadIds,
         \/ \E mailable, announced \in BOOLEAN : Pipeline!Create(l, mailable, announced)
         \/ \E a \in Agents \cup {Nothing} : Pipeline!Reassign(l, a)
         \/ \E to \in Stages : Pipeline!TransitionStage(l, to)
         \/ Pipeline!RecordActivity(l)
         \/ Pipeline!HandleLeadCreated(l) \/ Pipeline!Age(l) \/ Pipeline!FallDue(l)
  PROVE  LeadInv'
<1>0. lead \in [LeadIds -> LeadRow] /\ drip \in [LeadIds -> DripRow] /\ active \subseteq Agents
  BY DEF LeadInv, LeadTypes
<1> DEFINE Kept(row) == row \in LeadRow /\ row.stage # "absent" /\ row.escalations = lead[l].escalations
<1>1. ASSUME UNCHANGED <<drip, active, round, mails, again>>, lead[l].stage # "absent",
             NEW row, Kept(row), lead' = [lead EXCEPT ![l] = row]
      PROVE  LeadInv'
  <2>1. lead' \in [LeadIds -> LeadRow] /\ \A x \in LeadIds : lead'[x] = IF x = l THEN row ELSE lead[x]
    BY <1>0, <1>1
  <2>2. \A x \in LeadIds : /\ lead[x].stage # "absent" => lead'[x].stage # "absent"
                           /\ lead'[x].escalations = lead[x].escalations
    BY <1>1, <2>1
  <2> QED  BY <1>0, <1>1, <2>1, <2>2, QuietKeeps
<1>2. ASSUME UNCHANGED <<lead, active, round, mails, again>>,
             NEW row \in DripRow, row.step = drip[l].step, drip[l].stopped => row.stopped,
             drip' = [drip EXCEPT ![l] = row]
      PROVE  LeadInv'
  <2>1. drip' \in [LeadIds -> DripRow] /\ \A x \in LeadIds : drip'[x] = IF x = l THEN row ELSE drip[x]
    BY <1>0, <1>2
  <2>2. \A x \in LeadIds : drip'[x].step = drip[x].step /\ (drip[x].stopped => drip'[x].stopped)
    BY <1>2, <2>1
  <2> QED  BY <1>0, <1>2, <2>1, <2>2, QuietKeeps
<1>3. ASSUME NEW mailable \in BOOLEAN, NEW announced \in BOOLEAN, Pipeline!Create(l, mailable, announced)
      PROVE  LeadInv'
  <2>1. PICK a \in Pipeline!Assignees :
          lead' = [lead EXCEPT ![l] = [stage |-> "new", mailable |-> mailable, agent |-> a,
                                       old |-> FALSE, escalations |-> 0]]
    BY <1>3 DEF Pipeline!Create
  <2>2. /\ lead[l].stage = "absent" /\ UNCHANGED <<active, round, mails, again>>
        /\ drip' = [drip EXCEPT ![l] = [step |-> 0, due |-> TRUE, stopped |-> FALSE]]
    BY <1>3 DEF Pipeline!Create, Pipeline!Exists
  <2>3. a \in Agents \cup {Nothing}
    <3>1. \A pool \in SUBSET active : Pipeline!LeastLoaded(pool) \subseteq Agents \cup {Nothing}
      BY <1>0 DEF Pipeline!LeastLoaded
    <3> QED  BY <1>0, <2>1, <3>1 DEF Pipeline!Assignees
  <2> DEFINE row == [stage |-> "new", mailable |-> mailable, agent |-> a, old |-> FALSE, escalations |-> 0]
             first == [step |-> 0, due |-> TRUE, stopped |-> FALSE]
  <2>4. row \in LeadRow /\ first \in DripRow /\ row.stage # "absent" /\ row.escalations = 0 /\ first.step = 0
    BY <2>3 DEF LeadRow, DripRow
  <2>5. lead' = [lead EXCEPT ![l] = row] /\ drip' = [drip EXCEPT ![l] = first]  BY <2>1, <2>2
  <2> HIDE DEF row, first
  <2>6. \A x \in LeadIds : /\ lead'[x] = IF x = l THEN row ELSE lead[x]
                           /\ drip'[x] = IF x = l THEN first ELSE drip[x]
    BY <1>0, <2>5
  <2>7. lead' \in [LeadIds -> LeadRow] /\ drip' \in [LeadIds -> DripRow]  BY <1>0, <2>4, <2>5
  <2>8. active' \subseteq Agents /\ UNCHANGED <<round, mails, again>>  BY <1>0, <2>2
  <2>9. \A x \in LeadIds :
           \/ /\ lead[x].stage = "absent" /\ lead'[x].stage # "absent" /\ lead'[x].escalations = 0
           \/ /\ lead[x].stage # "absent" => lead'[x].stage # "absent"
              /\ drip'[x].step = drip[x].step /\ lead'[x].escalations = lead[x].escalations
              /\ drip[x].stopped => drip'[x].stopped
    <3> SUFFICES ASSUME NEW x \in LeadIds
                 PROVE  \/ /\ lead[x].stage = "absent" /\ lead'[x].stage # "absent" /\ lead'[x].escalations = 0
                        \/ /\ lead[x].stage # "absent" => lead'[x].stage # "absent"
                           /\ drip'[x].step = drip[x].step /\ lead'[x].escalations = lead[x].escalations
                           /\ drip[x].stopped => drip'[x].stopped
      OBVIOUS
    <3>1. CASE x = l  BY <2>2, <2>4, <2>6, <3>1
    <3>2. CASE x # l
      <4>1. lead'[x] = lead[x] /\ drip'[x] = drip[x]  BY <2>6, <3>2
      <4> QED  BY <4>1
    <3> QED  BY <3>1, <3>2
  <2> QED  BY <2>7, <2>8, <2>9, QuietKeeps
<1>4. ASSUME NEW a \in Agents \cup {Nothing}, Pipeline!Reassign(l, a)  PROVE LeadInv'
  <2>1. /\ lead[l].stage # "absent" /\ lead' = [lead EXCEPT ![l].agent = a]
        /\ UNCHANGED <<drip, active, round, mails, again>>
    BY <1>4 DEF Pipeline!Reassign, Pipeline!Exists
  <2> DEFINE row == [lead[l] EXCEPT !.agent = a]
  <2>2. lead[l] \in LeadRow  BY <1>0
  <2>3. lead' = [lead EXCEPT ![l] = row]  BY <1>0, <2>1, <2>2 DEF LeadRow
  <2>4. Kept(row)  BY <2>1, <2>2 DEF LeadRow
  <2> HIDE DEF row, Kept
  <2> QED  BY <1>1, <2>1, <2>3, <2>4
<1>5. ASSUME NEW to \in Stages, Pipeline!TransitionStage(l, to)  PROVE LeadInv'
  <2>1. /\ lead[l].stage # "absent" /\ lead' = [lead EXCEPT ![l].stage = to]
        /\ UNCHANGED <<active, round, mails, again>>
        /\ UNCHANGED drip \/ drip' = [drip EXCEPT ![l].stopped = TRUE]
    BY <1>5 DEF Pipeline!TransitionStage, Pipeline!Exists, Pipeline!StopDrip, Pipeline!history
  <2>2. lead[l] \in LeadRow /\ drip[l] \in DripRow  BY <1>0
  <2>3. lead' \in [LeadIds -> LeadRow] /\ drip' \in [LeadIds -> DripRow]
    <3> DEFINE row == [lead[l] EXCEPT !.stage = to]
               end == [drip[l] EXCEPT !.stopped = TRUE]
    <3>1. row \in LeadRow /\ end \in DripRow  BY <2>2 DEF LeadRow, DripRow
    <3>2. lead' = [lead EXCEPT ![l] = row]  BY <1>0, <2>1, <2>2 DEF LeadRow
    <3>3. UNCHANGED drip \/ drip' = [drip EXCEPT ![l] = end]  BY <1>0, <2>1, <2>2 DEF DripRow
    <3> HIDE DEF row, end
    <3> QED  BY <1>0, <3>1, <3>2, <3>3
  <2>4. ASSUME NEW x \in LeadIds
        PROVE  /\ lead[x].stage # "absent" => lead'[x].stage # "absent"
               /\ drip'[x].step = drip[x].step /\ lead'[x].escalations = lead[x].escalations
               /\ drip[x].stopped => drip'[x].stopped
    <3>1. lead[x] \in LeadRow /\ drip[x] \in DripRow  BY <1>0
    <3>2. lead'[x] = lead[x] \/ (x = l /\ lead'[x] = [lead[x] EXCEPT !.stage = to])  BY <1>0, <2>1
    <3>3. drip'[x] = drip[x] \/ drip'[x] = [drip[x] EXCEPT !.stopped = TRUE]  BY <1>0, <2>1
    <3>4. /\ lead[x].stage # "absent" => lead'[x].stage # "absent"
          /\ lead'[x].escalations = lead[x].escalations
      BY <3>1, <3>2 DEF LeadRow, LeadAssumption
    <3>5. drip'[x].step = drip[x].step /\ (drip[x].stopped => drip'[x].stopped)
      BY <3>1, <3>3 DEF DripRow
    <3> QED  BY <3>4, <3>5
  <2> QED  BY <1>0, <2>1, <2>3, <2>4, QuietKeeps
<1>6. ASSUME Pipeline!RecordActivity(l)  PROVE LeadInv'
  <2>1. drip' = [drip EXCEPT ![l].stopped = TRUE] /\ UNCHANGED <<lead, active, round, mails, again>>
    BY <1>6 DEF Pipeline!RecordActivity, Pipeline!StopDrip, Pipeline!history
  <2> DEFINE row == [drip[l] EXCEPT !.stopped = TRUE]
  <2>2. drip[l] \in DripRow  BY <1>0
  <2>3. drip' = [drip EXCEPT ![l] = row]  BY <1>0, <2>1, <2>2 DEF DripRow
  <2>4. row \in DripRow /\ row.step = drip[l].step /\ row.stopped  BY <2>2 DEF DripRow
  <2> HIDE DEF row
  <2> QED  BY <1>2, <2>1, <2>3, <2>4
<1>7. ASSUME Pipeline!HandleLeadCreated(l)  PROVE LeadInv'
  <2>1. UNCHANGED <<lead, drip, active, round, mails, again>>
    BY <1>7 DEF Pipeline!HandleLeadCreated, Pipeline!history
  <2> QED  BY <1>0, <2>1, QuietKeeps
<1>8. ASSUME Pipeline!Age(l)  PROVE LeadInv'
  <2>1. /\ lead[l].stage # "absent" /\ lead' = [lead EXCEPT ![l].old = TRUE]
        /\ UNCHANGED <<drip, active, round, mails, again>>
    BY <1>8 DEF Pipeline!Age, Pipeline!Exists, Pipeline!history
  <2> DEFINE row == [lead[l] EXCEPT !.old = TRUE]
  <2>2. lead[l] \in LeadRow  BY <1>0
  <2>3. lead' = [lead EXCEPT ![l] = row]  BY <1>0, <2>1, <2>2 DEF LeadRow
  <2>4. Kept(row)  BY <2>1, <2>2 DEF LeadRow
  <2> HIDE DEF row, Kept
  <2> QED  BY <1>1, <2>1, <2>3, <2>4
<1>9. ASSUME Pipeline!FallDue(l)  PROVE LeadInv'
  <2>1. drip' = [drip EXCEPT ![l].due = TRUE] /\ UNCHANGED <<lead, active, round, mails, again>>
    BY <1>9 DEF Pipeline!FallDue, Pipeline!history
  <2> DEFINE row == [drip[l] EXCEPT !.due = TRUE]
  <2>2. drip[l] \in DripRow  BY <1>0
  <2>3. drip' = [drip EXCEPT ![l] = row]  BY <1>0, <2>1, <2>2 DEF DripRow
  <2>4. row \in DripRow /\ row.step = drip[l].step /\ row.stopped = drip[l].stopped  BY <2>2 DEF DripRow
  <2> HIDE DEF row
  <2> QED  BY <1>2, <2>1, <2>3, <2>4
<1> QED  BY <1>3, <1>4, <1>5, <1>6, <1>7, <1>8, <1>9

(* A step of the drip is mailed once and a lead escalated once, unless two       *)
(* sweeps held it or a sweep that had mailed it failed                        *)
(* (sweep_drips_and_escalations).                                            *)
THEOREM RepeatsExplained ==
  ASSUME LeadAssumption PROVE EnquiriesSpec => []RepeatsAreExplained
<1>1. EnquiriesInit => LeadInv
  <2> SUFFICES ASSUME EnquiriesInit PROVE LeadInv  OBVIOUS
  <2>1. /\ lead = [l \in LeadIds |-> [stage |-> "absent", mailable |-> FALSE, agent |-> Nothing,
                                      old |-> FALSE, escalations |-> 0]]
        /\ drip = [l \in LeadIds |-> [step |-> 0, due |-> FALSE, stopped |-> TRUE]]
        /\ active = Agents /\ round = [s \in Sweeps |-> Nothing]
        /\ mails = [l \in LeadIds |-> [k \in 0..(Steps - 1) |-> 0]] /\ again = {}
    BY DEF EnquiriesInit, Pipeline!Init
  <2>2. LeadTypes  BY <2>1 DEF LeadTypes, LeadRow, DripRow
  <2>3. \A l \in LeadIds : Single(l)  BY <2>1 DEF Single, Holds, Flags, Mails
  <2> QED  BY <2>2, <2>3 DEF LeadInv
<1>2. LeadInv /\ [EnquiriesNext]_enquiries => LeadInv'
  <2> SUFFICES ASSUME LeadInv, [EnquiriesNext]_enquiries PROVE LeadInv'  OBVIOUS
  <2>1. [Pipeline!Next]_pipeline  BY DEF EnquiriesNext, enquiries
  <2>2. CASE UNCHANGED pipeline
    <3>1. UNCHANGED <<lead, drip, active, round, mails, again>>  BY <2>2 DEF pipeline
    <3>2. lead' \in [LeadIds -> LeadRow] /\ drip' \in [LeadIds -> DripRow] /\ active' \subseteq Agents
      BY <3>1 DEF LeadInv, LeadTypes
    <3> QED  BY <3>1, <3>2, QuietKeeps
  <2>3. ASSUME NEW a \in Agents, Pipeline!DisableAgent(a)  PROVE LeadInv'
    <3>1. UNCHANGED <<lead, drip, round, mails, again>> /\ active' = active \ {a}
      BY <2>3 DEF Pipeline!DisableAgent
    <3>2. lead' \in [LeadIds -> LeadRow] /\ drip' \in [LeadIds -> DripRow] /\ active' \subseteq Agents
      BY <3>1 DEF LeadInv, LeadTypes
    <3> QED  BY <3>1, <3>2, QuietKeeps
  <2>4. ASSUME NEW s \in Sweeps, Pipeline!Sweep(s) \/ Pipeline!FailSweep(s)  PROVE LeadInv'
    BY <2>4, BeginRound, AdvanceRound, CommitRound, FailRound DEF Pipeline!Sweep
  <2> QED  BY <2>1, <2>2, <2>3, <2>4, LeadSteps DEF Pipeline!Next
<1>3. LeadInv => RepeatsAreExplained
  BY DEF LeadInv, Single, RepeatsAreExplained, Pipeline!RepeatsAreExplained
<1> QED  BY <1>1, <1>2, <1>3, PTL DEF EnquiriesSpec

-----------------------------------------------------------------------------
(* Valuations.  A request holds the form as it read it and that form changed; as  *)
(* long as none was written over another, the row is what the last one held.  *)

Band == [ring : Estimates!Rings, area : Areas]
Form == [located : BOOLEAN, area : Areas \cup {Nothing}, notes : SUBSET Notes,
         band : Band \cup {Nothing}, lead : Fillings \cup {Nothing}, completed : BOOLEAN]
FormAssumption == MIN_COMPS \in Nat /\ Nothing \notin Band

(* The radius shown is the first with enough comparables.                     *)
Ringed(band) == \A i \in Estimates!Rings : comps[i] >= MIN_COMPS <=> i >= band.ring
Filled(r, f) ==
  /\ f.op \in {"details", "complete"} /\ f.row \in Form /\ f.new \in Form /\ f.added \subseteq Notes
  /\ ~f.row.completed /\ f.new.notes = f.row.notes \cup f.added /\ f.new.located = f.row.located
  /\ f.op = "details" => ~f.new.completed
  /\ f.op = "complete" =>
       /\ f.new.completed /\ f.new.lead = r /\ f.new.band = Estimates!Estimate(f.row)
       /\ f.new.area = f.row.area
FormInv ==
  /\ comps \in [Estimates!Rings -> Nat] /\ \A i \in 1..2 : comps[i] <= comps[i + 1]
  /\ valuation \in Form /\ filling = [r \in Fillings |-> filling[r]]
  /\ \A r \in Fillings : filling[r] # Nothing => Filled(r, filling[r])
  /\ \A l \in leads : l.shows = Nothing \/ Ringed(l.shows)
  /\ overlapped \in BOOLEAN
  /\ ~overlapped =>
       /\ kept = valuation.notes
       /\ leads = IF valuation.completed THEN {[by |-> valuation.lead, shows |-> valuation.band]} ELSE {}
       /\ valuation.completed => valuation.band = Estimates!Estimate(valuation)

(* _estimate: the band is of the form's area and of the nearest radius.          *)
LEMMA BandOf ==
  ASSUME FormAssumption, FormInv, NEW row \in Form
  PROVE  LET band == Estimates!Estimate(row) IN
         /\ band \in Band \cup {Nothing}
         /\ band = Nothing => ~row.located \/ row.area = Nothing \/ comps[3] < MIN_COMPS
         /\ band # Nothing => Ringed(band) /\ band.area = row.area
<1> DEFINE band == Estimates!Estimate(row)
           enough == {i \in Estimates!Rings : comps[i] >= MIN_COMPS}
           ring == Estimates!Min(enough)
<1>1. /\ comps[1] \in Nat /\ comps[2] \in Nat /\ comps[3] \in Nat /\ MIN_COMPS \in Nat
      /\ comps[1] <= comps[2] /\ comps[2] <= comps[3]
  <2>1. /\ 1 \in Estimates!Rings /\ 2 \in Estimates!Rings /\ 3 \in Estimates!Rings
        /\ 1 \in 1..2 /\ 2 \in 1..2 /\ 1 + 1 = 2 /\ 2 + 1 = 3
    BY DEF Estimates!Rings
  <2> QED  BY <2>1 DEF FormInv, FormAssumption
<1>2. CASE row.located /\ row.area # Nothing /\ enough # {}
  <2>1. band = [ring |-> ring, area |-> row.area]  BY <1>2 DEF Estimates!Estimate
  <2>2. ring \in enough /\ \A i \in enough : ring <= i
    <3>1. \E j \in enough : \A i \in enough : j <= i
      <4>1. enough \subseteq {1, 2, 3}  BY DEF Estimates!Rings
      <4> QED  BY <1>2, <4>1
    <3> QED  BY <3>1 DEF Estimates!Min
  <2>3. row.area \in Areas  BY <1>2 DEF Form
  <2>4. ring \in Estimates!Rings  BY <2>2
  <2> HIDE DEF ring, band
  <2>5. band \in Band /\ band # Nothing /\ band.ring = ring /\ band.area = row.area
    BY <2>1, <2>3, <2>4 DEF Band, FormAssumption
  <2>6. \A i \in Estimates!Rings : comps[i] >= MIN_COMPS <=> i >= ring
    <3> SUFFICES ASSUME NEW i \in Estimates!Rings PROVE comps[i] >= MIN_COMPS <=> i >= ring
      OBVIOUS
    <3>1. i \in {1, 2, 3} /\ ring \in {1, 2, 3} /\ comps[ring] >= MIN_COMPS
      BY <2>2, <2>4 DEF Estimates!Rings
    <3>2. comps[i] >= MIN_COMPS => i >= ring  BY <2>2, <3>1
    <3>3. ASSUME i >= ring PROVE comps[i] >= comps[ring]
      <4> HIDE DEF enough
      <4>1. CASE ring = 1  BY <1>1, <3>1, <4>1
      <4>2. CASE ring = 2  BY <1>1, <3>1, <3>3, <4>2
      <4>3. CASE ring = 3  BY <1>1, <3>1, <3>3, <4>3
      <4> QED  BY <3>1, <4>1, <4>2, <4>3
    <3>4. comps[i] \in Nat /\ comps[ring] \in Nat  BY <1>1, <3>1
    <3> QED  BY <1>1, <3>1, <3>2, <3>3, <3>4
  <2> QED  BY <2>5, <2>6 DEF Ringed, band
<1>3. CASE ~(row.located /\ row.area # Nothing /\ enough # {})
  <2>1. band = Nothing  BY <1>3 DEF Estimates!Estimate
  <2>2. enough = {} => comps[3] < MIN_COMPS  BY <1>1 DEF Estimates!Rings
  <2> QED  BY <1>3, <2>1, <2>2
<1> QED  BY <1>2, <1>3

(* A request that opens leaves the form alone.                               *)
LEMMA OpenKeeps ==
  ASSUME FormInv, NEW r \in Fillings, NEW f, Filled(r, f), filling' = [filling EXCEPT ![r] = f],
         UNCHANGED <<comps, valuation, leads, kept, overlapped>>
  PROVE  FormInv'
<1>1. filling' = [q \in Fillings |-> filling'[q]] /\ \A q \in Fillings : filling'[q] = IF q = r THEN f ELSE filling[q]
  BY DEF FormInv
<1>2. \A row : Estimates!Estimate(row)' = Estimates!Estimate(row)  BY DEF Estimates!Estimate
<1>3. \A q \in Fillings : filling'[q] # Nothing => Filled(q, filling'[q])  BY <1>1 DEF FormInv
<1>4. \A q \in Fillings : filling'[q] # Nothing => Filled(q, filling[q])'  BY <1>2, <1>3 DEF Filled
<1>5. \A l \in leads' : l.shows = Nothing \/ Ringed(l.shows)'  BY DEF FormInv, Ringed
<1>6. ~overlapped' =>
       /\ kept' = valuation'.notes
       /\ leads' = IF valuation'.completed THEN {[by |-> valuation'.lead, shows |-> valuation'.band]} ELSE {}
       /\ valuation'.completed => valuation'.band = Estimates!Estimate(valuation)'
  BY <1>2 DEF FormInv
<1> QED  BY <1>1, <1>4, <1>5, <1>6 DEF FormInv

(* What changed is written over what is there.                               *)
LEMMA CommitForm ==
  ASSUME FormAssumption, FormInv, NEW r \in Fillings, Estimates!Commit(r)  PROVE FormInv'
<1> DEFINE f == filling[r]
           written(c) == IF f.new[c] # f.row[c] THEN f.new[c] ELSE valuation[c]
<1>1. /\ f # Nothing /\ filling' = [filling EXCEPT ![r] = Nothing] /\ kept' = kept \cup f.added
      /\ leads' = (IF f.op = "complete" THEN leads \cup {[by |-> r, shows |-> f.new.band]} ELSE leads)
      /\ overlapped' = (overlapped \/ valuation # f.row)
      /\ UNCHANGED comps
      /\ valuation' = [c \in DOMAIN valuation |->
                         IF c \in Estimates!Columns /\ f.new[c] # f.row[c] THEN f.new[c] ELSE valuation[c]]
  BY DEF Estimates!Commit
<1>2. Filled(r, f)  BY <1>1 DEF FormInv
<1>3. valuation \in Form  BY DEF FormInv
<1>4. f.new \in Form /\ f.row \in Form  BY <1>2 DEF Filled
<1>5. /\ valuation'.area = written("area") /\ valuation'.notes = written("notes")
      /\ valuation'.band = written("band") /\ valuation'.lead = written("lead")
      /\ valuation'.completed = written("completed") /\ valuation'.located = valuation.located
      /\ valuation' = [located |-> valuation'.located, area |-> valuation'.area, notes |-> valuation'.notes,
                       band |-> valuation'.band, lead |-> valuation'.lead, completed |-> valuation'.completed]
  BY <1>1, <1>3, <1>4 DEF Form, Estimates!Columns
<1>6. valuation' \in Form
  <2>1. /\ valuation'.area \in Areas \cup {Nothing} /\ valuation'.notes \in SUBSET Notes
        /\ valuation'.band \in Band \cup {Nothing} /\ valuation'.lead \in Fillings \cup {Nothing}
        /\ valuation'.completed \in BOOLEAN /\ valuation'.located \in BOOLEAN
    BY <1>3, <1>4, <1>5 DEF Form
  <2> HIDE DEF written
  <2> QED  BY <1>5, <2>1 DEF Form
<1>7. \A row : Estimates!Estimate(row)' = Estimates!Estimate(row)  BY <1>1 DEF Estimates!Estimate
<1>8. /\ filling' = [q \in Fillings |-> filling'[q]]
      /\ \A q \in Fillings : filling'[q] # Nothing => filling'[q] = filling[q]
  BY <1>1 DEF FormInv
<1>9. \A q \in Fillings : filling'[q] # Nothing => Filled(q, filling[q])'
  <2>1. \A q \in Fillings : filling'[q] # Nothing => Filled(q, filling'[q])  BY <1>8 DEF FormInv
  <2> QED  BY <1>7, <2>1 DEF Filled
<1>10. \A l \in leads' : l.shows = Nothing \/ Ringed(l.shows)'
  <2>1. \A b : Ringed(b)' <=> Ringed(b)  BY <1>1 DEF Ringed
  <2>2. f.op = "complete" => f.new.band = Nothing \/ Ringed(f.new.band)
    BY <1>2, <1>4, BandOf DEF Filled
  <2>3. \A l \in leads' : l \in leads \/ (f.op = "complete" /\ l = [by |-> r, shows |-> f.new.band])
    BY <1>1
  <2>4. \A l \in leads : l.shows = Nothing \/ Ringed(l.shows)  BY DEF FormInv
  <2>5. \A l \in leads' : l.shows = Nothing \/ Ringed(l.shows)  BY <2>2, <2>3, <2>4
  <2> QED  BY <2>1, <2>5
<1>11. ASSUME ~overlapped'
       PROVE  /\ kept' = valuation'.notes
              /\ leads' = IF valuation'.completed THEN {[by |-> valuation'.lead, shows |-> valuation'.band]} ELSE {}
              /\ valuation'.completed => valuation'.band = Estimates!Estimate(valuation)'
  <2>1. ~overlapped /\ valuation = f.row  BY <1>1, <1>11
  <2>2. /\ valuation'.area = f.new.area /\ valuation'.notes = f.new.notes /\ valuation'.band = f.new.band
        /\ valuation'.lead = f.new.lead /\ valuation'.completed = f.new.completed
        /\ valuation'.located = f.row.located
    BY <1>5, <2>1
  <2>3. kept = f.row.notes /\ leads = {}  BY <1>2, <2>1 DEF FormInv, Filled
  <2>4. kept' = valuation'.notes  BY <1>1, <1>2, <2>2, <2>3 DEF Filled
  <2>5. CASE f.op = "details"
    <3>1. leads' = {} /\ ~valuation'.completed  BY <1>1, <1>2, <2>2, <2>3, <2>5 DEF Filled
    <3> QED  BY <2>4, <3>1
  <2>6. CASE f.op = "complete"
    <3>1. /\ leads' = {[by |-> r, shows |-> f.new.band]} /\ valuation'.completed /\ valuation'.lead = r
          /\ valuation'.band = Estimates!Estimate(f.row) /\ valuation'.area = f.row.area
      BY <1>1, <1>2, <2>2, <2>3, <2>6 DEF Filled
    <3>2. Estimates!Estimate(valuation)' = Estimates!Estimate(f.row)
      BY <1>1, <2>2, <3>1 DEF Estimates!Estimate
    <3> QED  BY <2>2, <2>4, <3>1, <3>2
  <2> QED  BY <1>2, <2>5, <2>6 DEF Filled
<1>12. comps' \in [Estimates!Rings -> Nat] /\ (\A i \in 1..2 : comps'[i] <= comps'[i + 1]) /\ overlapped' \in BOOLEAN
  BY <1>1 DEF FormInv
<1> HIDE DEF f, written
<1> QED  BY <1>6, <1>8, <1>9, <1>10, <1>11, <1>12 DEF FormInv

LEMMA FormSteps ==
  ASSUME FormAssumption, FormInv, [Estimates!Next]_form  PROVE FormInv'
<1>1. ASSUME NEW r \in Fillings, Estimates!UpdateDetails(r)  PROVE FormInv'
  <2>1. PICK area \in Areas \cup {valuation.area}, notes \in SUBSET Notes :
          Estimates!Open(r, [op |-> "details", row |-> valuation, added |-> notes,
                             new |-> [valuation EXCEPT !.area = area, !.notes = valuation.notes \cup notes]])
    BY <1>1 DEF Estimates!UpdateDetails
  <2> DEFINE new == [valuation EXCEPT !.area = area, !.notes = valuation.notes \cup notes]
             f == [op |-> "details", row |-> valuation, added |-> notes, new |-> new]
  <2>2. valuation \in Form /\ ~valuation.completed  BY <1>1 DEF FormInv, Estimates!UpdateDetails
  <2>3. /\ new \in Form /\ new.notes = valuation.notes \cup notes /\ new.located = valuation.located
        /\ ~new.completed
    BY <2>2 DEF Form
  <2> HIDE DEF new
  <2>4. Filled(r, f)  BY <2>2, <2>3 DEF Filled
  <2>5. filling' = [filling EXCEPT ![r] = f] /\ UNCHANGED <<comps, valuation, leads, kept, overlapped>>
    BY <2>1 DEF Estimates!Open, new
  <2> HIDE DEF f
  <2> QED  BY <2>4, <2>5, OpenKeeps
<1>2. ASSUME NEW r \in Fillings, Estimates!Complete(r)  PROVE FormInv'
  <2> DEFINE band == Estimates!Estimate(valuation)
             new == [valuation EXCEPT !.band = band, !.lead = r, !.completed = TRUE]
             f == [op |-> "complete", row |-> valuation, added |-> {}, new |-> new]
  <2>1. filling' = [filling EXCEPT ![r] = f] /\ UNCHANGED <<comps, valuation, leads, kept, overlapped>>
    BY <1>2 DEF Estimates!Complete, Estimates!Open
  <2>2. valuation \in Form /\ ~valuation.completed  BY <1>2 DEF FormInv, Estimates!Complete
  <2>3. band \in Band \cup {Nothing}  BY <2>2, BandOf
  <2> HIDE DEF band
  <2>4. /\ new \in Form /\ new.notes = valuation.notes /\ new.located = valuation.located
        /\ new.completed /\ new.area = valuation.area /\ new.lead = r /\ new.band = band
    BY <2>2, <2>3 DEF Form
  <2> HIDE DEF new
  <2>5. Filled(r, f)  BY <2>2, <2>4 DEF Filled, band
  <2> HIDE DEF f
  <2> QED  BY <2>1, <2>5, OpenKeeps
<1>3. ASSUME NEW r \in Fillings, Estimates!Rollback(r)  PROVE FormInv'
  <2>1. filling' = [filling EXCEPT ![r] = Nothing] /\ UNCHANGED <<comps, valuation, leads, kept, overlapped>>
    BY <1>3 DEF Estimates!Rollback
  <2>2. /\ filling' = [q \in Fillings |-> filling'[q]]
        /\ \A q \in Fillings : filling'[q] # Nothing => filling'[q] = filling[q]
    BY <2>1 DEF FormInv
  <2>3. \A row : Estimates!Estimate(row)' = Estimates!Estimate(row)  BY <2>1 DEF Estimates!Estimate
  <2>4. \A q \in Fillings : filling'[q] # Nothing => Filled(q, filling'[q])  BY <2>2 DEF FormInv
  <2>5. \A q \in Fillings : filling'[q] # Nothing => Filled(q, filling[q])'  BY <2>3, <2>4 DEF Filled
  <2>6. \A l \in leads' : l.shows = Nothing \/ Ringed(l.shows)'  BY <2>1 DEF FormInv, Ringed
  <2>7. ~overlapped' =>
         /\ kept' = valuation'.notes
         /\ leads' = IF valuation'.completed THEN {[by |-> valuation'.lead, shows |-> valuation'.band]} ELSE {}
         /\ valuation'.completed => valuation'.band = Estimates!Estimate(valuation)'
    BY <2>1, <2>3 DEF FormInv
  <2> QED  BY <2>1, <2>2, <2>5, <2>6, <2>7 DEF FormInv
<1>4. ASSUME UNCHANGED <<comps, valuation, filling, leads, kept, overlapped>>  PROVE FormInv'
  <2>1. \A row : Estimates!Estimate(row)' = Estimates!Estimate(row)  BY <1>4 DEF Estimates!Estimate
  <2>2. \A q \in Fillings : filling'[q] # Nothing => Filled(q, filling'[q])  BY <1>4 DEF FormInv
  <2>3. \A q \in Fillings : filling'[q] # Nothing => Filled(q, filling[q])'  BY <2>1, <2>2 DEF Filled
  <2>4. \A l \in leads' : l.shows = Nothing \/ Ringed(l.shows)'  BY <1>4 DEF FormInv, Ringed
  <2>5. ~overlapped' =>
         /\ kept' = valuation'.notes
         /\ leads' = IF valuation'.completed THEN {[by |-> valuation'.lead, shows |-> valuation'.band]} ELSE {}
         /\ valuation'.completed => valuation'.band = Estimates!Estimate(valuation)'
    BY <1>4, <2>1 DEF FormInv
  <2> QED  BY <1>4, <2>3, <2>4, <2>5 DEF FormInv
<1>5. Estimates!MortgageEmail => FormInv'  BY <1>4 DEF Estimates!MortgageEmail
<1>6. UNCHANGED form => FormInv'  BY <1>4 DEF form
<1> QED  BY <1>1, <1>2, <1>3, <1>5, <1>6, CommitForm DEF Estimates!Next

LEMMA FormStart == ASSUME FormAssumption, EnquiriesInit  PROVE FormInv
<1>1. PICK located \in BOOLEAN :
        valuation = [located |-> located, area |-> Nothing, notes |-> {}, band |-> Nothing,
                     lead |-> Nothing, completed |-> FALSE]
  BY DEF EnquiriesInit, Estimates!Init
<1>2. /\ comps \in {c \in [Estimates!Rings -> 0..MIN_COMPS] : \A i \in 1..2 : c[i] <= c[i + 1]}
      /\ filling = [r \in Fillings |-> Nothing] /\ leads = {} /\ kept = {} /\ overlapped = FALSE
  BY DEF EnquiriesInit, Estimates!Init
<1>3. comps \in [Estimates!Rings -> Nat] /\ \A i \in 1..2 : comps[i] <= comps[i + 1]
  <2>1. 0..MIN_COMPS \subseteq Nat  BY DEF FormAssumption
  <2> QED  BY <1>2, <2>1
<1>4. valuation \in Form /\ valuation.notes = {} /\ ~valuation.completed  BY <1>1 DEF Form
<1> QED  BY <1>2, <1>3, <1>4 DEF FormInv

LEMMA FormMeans == ASSUME FormAssumption, FormInv  PROVE Estimates!ValuationsAreSound
<1>1. valuation \in Form  BY DEF FormInv
<1>2. Estimates!FormIsOneLead
  <2> SUFFICES ASSUME ~overlapped
               PROVE  /\ Estimates!Cardinality(leads) = IF valuation.completed THEN 1 ELSE 0
                      /\ valuation.completed =>
                           /\ leads = {[by |-> valuation.lead, shows |-> valuation.band]}
                           /\ valuation.band # Nothing => valuation.band.area = valuation.area
                      /\ kept = valuation.notes
    BY DEF Estimates!FormIsOneLead
  <2>1. /\ kept = valuation.notes
        /\ leads = IF valuation.completed THEN {[by |-> valuation.lead, shows |-> valuation.band]} ELSE {}
        /\ valuation.completed => valuation.band = Estimates!Estimate(valuation)
    BY DEF FormInv
  <2>2. Estimates!Cardinality(leads) = Cardinality(leads)
    BY DEF Estimates!Cardinality, Cardinality
  <2>3. Cardinality(leads) = IF valuation.completed THEN 1 ELSE 0
    <3>1. CASE valuation.completed  BY <2>1, <3>1, FS_Singleton
    <3>2. CASE ~valuation.completed  BY <2>1, <3>2, FS_EmptySet
    <3> QED  BY <3>1, <3>2
  <2>4. valuation.completed /\ valuation.band # Nothing => valuation.band.area = valuation.area
    BY <1>1, <2>1, BandOf
  <2> QED  BY <2>1, <2>2, <2>3, <2>4
<1>3. Estimates!BandIsNearest
  <2> SUFFICES ASSUME NEW l \in leads
               PROVE  IF l.shows = Nothing
                      THEN overlapped \/ ~valuation.located \/ valuation.area = Nothing \/ comps[3] < MIN_COMPS
                      ELSE \A i \in Estimates!Rings : comps[i] >= MIN_COMPS <=> i >= l.shows.ring
    BY DEF Estimates!BandIsNearest
  <2>1. CASE l.shows # Nothing  BY <2>1 DEF FormInv, Ringed
  <2>2. CASE l.shows = Nothing /\ ~overlapped
    <3>1. valuation.completed /\ l = [by |-> valuation.lead, shows |-> valuation.band]  BY <2>2 DEF FormInv
    <3>2. Estimates!Estimate(valuation) = Nothing  BY <2>2, <3>1 DEF FormInv
    <3>3. ~valuation.located \/ valuation.area = Nothing \/ comps[3] < MIN_COMPS  BY <1>1, <3>2, BandOf
    <3> QED  BY <2>2, <3>3
  <2> QED  BY <2>1, <2>2 DEF FormInv
<1> QED  BY <1>2, <1>3 DEF Estimates!ValuationsAreSound

-----------------------------------------------------------------------------
(* Notices.  A notice that wants mail has one mail sent, being sent or queued, but  *)
(* for the runs that were doubled, and what it wants is in one of those places.  *)

Wanted == SUBSET Inbox!Channels
Task == [notice : Notices, channel : Inbox!Channels, tries : Nat]
Run == [at : {"send", "log"}, task : Task]
Line == [channel : Inbox!Channels, status : {"sent", "skipped"}]
NoticeAssumption ==
  Nothing \notin Wanted /\ Nothing \notin Run /\ Nothing \notin [read : BOOLEAN] /\ IsFiniteSet(Workers)

NoticeTypes ==
  /\ notice \in [Notices -> [read : BOOLEAN] \cup {Nothing}]
  /\ notify \in [Notices -> Wanted \cup {Nothing}] /\ wanted \in [Notices -> Wanted \cup {Nothing}]
  /\ tasks \subseteq Task /\ IsFiniteSet(tasks) /\ send \in [Workers -> Run \cup {Nothing}]
  /\ logged \in [Notices -> SUBSET Line] /\ posted \in [Notices -> Nat] /\ doubled \in [Notices -> Nat]
  /\ dropped \subseteq Notices /\ gone \subseteq Notices

Meant(t) == wanted[t.notice] # Nothing /\ t.channel \in wanted[t.notice]
Paths ==
  /\ \A t \in tasks : Meant(t)
  /\ \A w \in Workers : send[w] # Nothing =>
       /\ Meant(send[w].task)
       /\ send[w].at = "log" /\ Inbox!Mailing(send[w].task) => posted[send[w].task.notice] > 0
Known(n) ==
  /\ wanted[n] # Nothing => notify[n] = Nothing /\ (notice[n] = Nothing => n \in gone)
  /\ wanted[n] = Nothing => notice[n] = Nothing /\ posted[n] = 0 /\ logged[n] = {}
  /\ posted[n] > 0 => wanted[n] # Nothing /\ "email" \in wanted[n] /\ addressed[n]
  /\ [channel |-> "email", status |-> "sent"] \in logged[n] => posted[n] > 0
Traced(n) ==
  wanted[n] # Nothing =>
    \A c \in wanted[n] : \/ \E line \in logged[n] : line.channel = c
                         \/ Inbox!Underway(n, c) \/ n \in dropped \/ n \in gone

Queued(n) == {t \in tasks : t.notice = n /\ t.channel = "email"}
Sending(n) ==
  {w \in Workers : /\ send[w] # Nothing /\ send[w].at = "send"
                   /\ send[w].task.notice = n /\ send[w].task.channel = "email"}
Coming(n) == IF notice[n] = Nothing THEN 0 ELSE Cardinality(Queued(n))
Counted(n) == posted[n] + Cardinality(Sending(n)) + Coming(n) <= 1 + doubled[n]

NoticeInv ==
  NoticeTypes /\ Paths /\ \A n \in Notices : Known(n) /\ Traced(n) /\ Counted(n)

LEMMA SomeMore ==
  ASSUME NEW S, IsFiniteSet(S), NEW x, NEW T, T \subseteq S \cup {x}
  PROVE  IsFiniteSet(T) /\ Cardinality(T) \in Nat /\ Cardinality(S) \in Nat /\ Cardinality(T) <= Cardinality(S) + 1
<1>1. IsFiniteSet(S \cup {x}) /\ Cardinality(S \cup {x}) <= Cardinality(S) + 1 /\ Cardinality(S) \in Nat
  BY FS_AddElement, FS_CardinalityType
<1>2. IsFiniteSet(T) /\ Cardinality(T) <= Cardinality(S \cup {x})  BY <1>1, FS_Subset
<1> QED  BY <1>1, <1>2, FS_CardinalityType

LEMMA OneLess ==
  ASSUME NEW S, IsFiniteSet(S), NEW x \in S, NEW T, T \subseteq S \ {x}
  PROVE  Cardinality(T) \in Nat /\ Cardinality(T) + 1 <= Cardinality(S)
<1>1. IsFiniteSet(S \ {x}) /\ Cardinality(S \ {x}) = Cardinality(S) - 1 /\ Cardinality(S) \in Nat
  BY FS_RemoveElement, FS_CardinalityType
<1>2. Cardinality(T) <= Cardinality(S \ {x}) /\ IsFiniteSet(T)  BY <1>1, FS_Subset
<1> QED  BY <1>1, <1>2, FS_CardinalityType

LEMMA CountFacts ==
  ASSUME NoticeAssumption, NoticeTypes, NEW n \in Notices
  PROVE  /\ IsFiniteSet(Queued(n)) /\ Cardinality(Queued(n)) \in Nat
         /\ IsFiniteSet(Sending(n)) /\ Cardinality(Sending(n)) \in Nat
         /\ Coming(n) \in Nat /\ posted[n] \in Nat /\ doubled[n] \in Nat
<1>1. Queued(n) \subseteq tasks /\ Sending(n) \subseteq Workers  BY DEF Queued, Sending
<1>2. IsFiniteSet(tasks) /\ IsFiniteSet(Workers)  BY DEF NoticeTypes, NoticeAssumption
<1>3. IsFiniteSet(Queued(n)) /\ IsFiniteSet(Sending(n))  BY <1>1, <1>2, FS_Subset
<1>4. Cardinality(Queued(n)) \in Nat /\ Cardinality(Sending(n)) \in Nat  BY <1>3, FS_CardinalityType
<1> QED  BY <1>3, <1>4 DEF Coming, NoticeTypes

(* A step that sends, queues and logs nothing; it may delete notices, if an      *)
(* erasure does.                                                             *)
LEMMA NoticesStay ==
  ASSUME NoticeAssumption, NoticeInv,
         UNCHANGED <<tasks, send, logged, posted, addressed, wanted, doubled, dropped>>,
         notice' \in [Notices -> [read : BOOLEAN] \cup {Nothing}], notify' \in [Notices -> Wanted \cup {Nothing}],
         gone \subseteq gone', gone' \subseteq Notices,
         \A n \in Notices :
           /\ notice[n] = Nothing => notice'[n] = Nothing
           /\ notice'[n] = Nothing => notice[n] = Nothing \/ n \in gone'
           /\ wanted[n] # Nothing => notify'[n] = Nothing
  PROVE  NoticeInv'
<1>1. NoticeTypes'  BY DEF NoticeInv, NoticeTypes
<1>2. Paths'  BY DEF NoticeInv, Paths, Meant, Inbox!Mailing
<1>3. ASSUME NEW n \in Notices PROVE Known(n)'  BY <1>3 DEF NoticeInv, Known
<1>4. ASSUME NEW n \in Notices PROVE Traced(n)'
  BY <1>4 DEF NoticeInv, Traced, Inbox!Underway
<1>5. ASSUME NEW n \in Notices PROVE Counted(n)'
  <2>1. Counted(n)  BY DEF NoticeInv
  <2>2. Queued(n)' = Queued(n) /\ Sending(n)' = Sending(n)  BY DEF Queued, Sending
  <2>3. Coming(n)' = Coming(n) \/ Coming(n)' = 0  BY <2>2 DEF Coming
  <2> QED  BY <2>1, <2>2, <2>3, CountFacts DEF Counted, NoticeInv
<1> QED  BY <1>1, <1>2, <1>3, <1>4, <1>5 DEF NoticeInv

(* The commit queues at most one mail, of a notice that had none.               *)
LEMMA CommitNotice ==
  ASSUME NoticeAssumption, NoticeInv, NEW n \in Notices, Inbox!Commit(n)  PROVE NoticeInv'
<1>1. PICK missed \in SUBSET notify[n] :
        /\ IF missed = {} THEN UNCHANGED <<mishaps, dropped>> ELSE Inbox!Mishap /\ dropped' = dropped \cup {n}
        /\ tasks' = tasks \cup {[notice |-> n, channel |-> c, tries |-> 0] : c \in notify[n] \ missed}
  BY DEF Inbox!Commit
<1>2. /\ notify[n] # Nothing /\ notice' = [notice EXCEPT ![n] = [read |-> FALSE]]
      /\ wanted' = [wanted EXCEPT ![n] = notify[n]] /\ notify' = [notify EXCEPT ![n] = Nothing]
      /\ UNCHANGED <<send, logged, posted, addressed, doubled, gone>>
  BY DEF Inbox!Commit
<1> DEFINE new == {[notice |-> n, channel |-> c, tries |-> 0] : c \in notify[n] \ missed}
<1>3. /\ notify[n] \in Wanted /\ wanted[n] = Nothing /\ notice[n] = Nothing /\ posted[n] = 0 /\ logged[n] = {}
  BY <1>2 DEF NoticeInv, NoticeTypes, Known
<1>4. new \subseteq Task /\ \A t \in new : t.notice = n /\ t.channel \in notify[n]
  BY <1>3 DEF Task, Wanted
<1>5. IsFiniteSet(new)
  <2> DEFINE letter == [notice |-> n, channel |-> "email", tries |-> 0]
             text == [notice |-> n, channel |-> "sms", tries |-> 0]
  <2>1. new \subseteq {letter, text}  BY <1>3 DEF Wanted, Inbox!Channels
  <2> HIDE DEF letter, text, new
  <2>2. IsFiniteSet({letter}) /\ {letter, text} = {letter} \cup {text}  BY FS_Singleton
  <2>3. IsFiniteSet({letter, text})  BY <2>2, FS_AddElement
  <2> QED  BY <2>1, <2>3, FS_Subset
<1>6. tasks' = tasks \cup new  BY <1>1
<1>7. new \cap {t \in Task : t.channel = "email"} \subseteq {[notice |-> n, channel |-> "email", tries |-> 0]}
  OBVIOUS
<1>8. \A c \in notify[n] : c \in missed \/ \E t \in new : t.notice = n /\ t.channel = c
  <2> SUFFICES ASSUME NEW c \in notify[n] \ missed PROVE \E t \in new : t.notice = n /\ t.channel = c
    OBVIOUS
  <2>1. [notice |-> n, channel |-> c, tries |-> 0] \in new  OBVIOUS
  <2> HIDE DEF new
  <2> QED  BY <2>1
<1> HIDE DEF new
<1>9. NoticeTypes'
  <2>1. IsFiniteSet(tasks') /\ tasks' \subseteq Task
    BY <1>4, <1>5, <1>6, FS_Union DEF NoticeInv, NoticeTypes
  <2>2. dropped' \subseteq Notices  BY <1>1 DEF NoticeInv, NoticeTypes
  <2>3. [read |-> FALSE] \in [read : BOOLEAN]  OBVIOUS
  <2>4. notice' \in [Notices -> [read : BOOLEAN] \cup {Nothing}]  BY <1>2, <2>3 DEF NoticeInv, NoticeTypes
  <2> QED  BY <1>2, <1>3, <2>1, <2>2, <2>4 DEF NoticeInv, NoticeTypes
<1>10. \A m \in Notices : /\ wanted'[m] = IF m = n THEN notify[n] ELSE wanted[m]
                          /\ notify'[m] = IF m = n THEN Nothing ELSE notify[m]
                          /\ notice'[m] = IF m = n THEN [read |-> FALSE] ELSE notice[m]
  BY <1>2 DEF NoticeInv, NoticeTypes
<1>11. [read |-> FALSE] # Nothing /\ notify[n] # Nothing
  <2>1. [read |-> FALSE] \in [read : BOOLEAN]  OBVIOUS
  <2> QED  BY <1>2, <2>1 DEF NoticeAssumption
<1>12. \A t \in tasks : t.notice \in Notices /\ t.notice # n  BY <1>3 DEF NoticeInv, Paths, Meant, NoticeTypes, Task
<1>13. \A w \in Workers : send[w] # Nothing => send[w].task.notice \in Notices /\ send[w].task.notice # n
  BY <1>3 DEF NoticeInv, Paths, Meant, NoticeTypes, Run, Task
<1>14. Paths'
  <2>1. \A t \in tasks : Meant(t)'  BY <1>10, <1>12 DEF NoticeInv, Paths, Meant
  <2>2. \A t \in new : Meant(t)'  BY <1>4, <1>10, <1>11 DEF Meant
  <2>3. ASSUME NEW w \in Workers, send[w] # Nothing  PROVE Meant(send[w].task)'
    <3>1. send[w].task.notice \in Notices /\ send[w].task.notice # n  BY <1>13, <2>3
    <3>2. wanted'[send[w].task.notice] = wanted[send[w].task.notice]  BY <1>10, <3>1
    <3>3. Meant(send[w].task)  BY <2>3 DEF NoticeInv, Paths
    <3>4. UNCHANGED send  BY <1>2
    <3> QED  BY <3>2, <3>3, <3>4 DEF Meant
  <2> QED  BY <1>2, <1>6, <2>1, <2>2, <2>3 DEF NoticeInv, Paths, Meant, Inbox!Mailing
<1>15. ASSUME NEW m \in Notices PROVE Known(m)'
  <2>1. Known(m)  BY DEF NoticeInv
  <2>2. CASE m = n  BY <1>2, <1>3, <1>10, <1>11, <2>2 DEF Known
  <2>3. CASE m # n  BY <1>2, <1>10, <2>1, <2>3 DEF Known
  <2> QED  BY <2>2, <2>3
<1>16. ASSUME NEW m \in Notices PROVE Traced(m)'
  <2>1. Traced(m)  BY DEF NoticeInv
  <2>2. tasks \subseteq tasks' /\ dropped \subseteq dropped'  BY <1>1, <1>6
  <2>3. CASE m = n
    <3>1. \A c \in notify[n] : Inbox!Underway(n, c)' \/ n \in dropped'
      BY <1>1, <1>6, <1>8 DEF Inbox!Underway
    <3> QED  BY <1>10, <2>3, <3>1 DEF Traced
  <2>4. CASE m # n
    <3>1. \A c : Inbox!Underway(m, c) => Inbox!Underway(m, c)'  BY <1>2, <2>2 DEF Inbox!Underway
    <3> QED  BY <1>2, <1>10, <2>1, <2>2, <2>4, <3>1 DEF Traced
  <2> QED  BY <2>3, <2>4
<1>17. ASSUME NEW m \in Notices PROVE Counted(m)'
  <2>1. Counted(m)  BY DEF NoticeInv
  <2>2. Sending(m)' = Sending(m)  BY <1>2 DEF Sending
  <2>3. CASE m = n
    <3>1. Queued(n)' \subseteq {} \cup {[notice |-> n, channel |-> "email", tries |-> 0]}
      BY <1>4, <1>6, <1>7, <1>12 DEF Queued
    <3>2. Cardinality(Queued(n)') <= 1 /\ Cardinality(Queued(n)') \in Nat
      <4> DEFINE letter == [notice |-> n, channel |-> "email", tries |-> 0]
      <4>1. IsFiniteSet({}) /\ Cardinality({}) = 0  BY FS_EmptySet
      <4>2. Queued(n)' \subseteq {} \cup {letter}  BY <3>1
      <4> HIDE DEF letter
      <4>3. \A T : T \subseteq {} \cup {letter} => Cardinality(T) \in Nat /\ Cardinality(T) <= Cardinality({}) + 1
        BY <4>1, SomeMore
      <4> QED  BY <4>1, <4>2, <4>3
    <3>3. Sending(n) = {}  BY <1>13 DEF Sending
    <3>4. Cardinality(Sending(n)') = 0  BY <2>2, <2>3, <3>3, FS_EmptySet
    <3>5. Coming(n)' <= 1 /\ Coming(n)' \in Nat  BY <3>2 DEF Coming
    <3>6. posted'[n] = 0 /\ doubled'[n] \in Nat  BY <1>2, <1>3 DEF NoticeInv, NoticeTypes
    <3> QED  BY <2>3, <3>4, <3>5, <3>6 DEF Counted
  <2>4. CASE m # n
    <3>1. Queued(m)' = Queued(m)  BY <1>4, <1>6, <2>4 DEF Queued
    <3>2. Coming(m)' = Coming(m)  BY <1>10, <2>4, <3>1 DEF Coming
    <3> QED  BY <1>2, <2>1, <2>2, <3>2 DEF Counted
  <2> QED  BY <2>3, <2>4
<1> QED  BY <1>9, <1>14, <1>15, <1>16, <1>17 DEF NoticeInv

(* What a run holds is of a notice that was committed.                         *)
LEMMA RunFacts ==
  ASSUME NoticeInv, NEW w \in Workers, send[w] # Nothing
  PROVE  /\ send[w] \in Run /\ send[w].task \in Task /\ send[w].task.notice \in Notices
         /\ Meant(send[w].task) /\ wanted[send[w].task.notice] # Nothing
         /\ notice[send[w].task.notice] = Nothing => send[w].task.notice \in gone
<1>1. send[w] \in Run  BY DEF NoticeInv, NoticeTypes
<1>2. send[w].task \in Task /\ send[w].task.notice \in Notices  BY <1>1 DEF Run, Task
<1>3. Meant(send[w].task)  BY DEF NoticeInv, Paths
<1> QED  BY <1>1, <1>2, <1>3 DEF Meant, NoticeInv, Known

LEMMA DeliverNotice ==
  ASSUME NoticeAssumption, NoticeInv, NEW w \in Workers, NEW t \in tasks, Inbox!Deliver(w, t)  PROVE NoticeInv'
<1> DEFINE run == IF notice[t.notice] = Nothing THEN Nothing ELSE [at |-> "send", task |-> t]
<1>1. /\ send[w] = Nothing /\ tasks' = tasks \ {t} /\ send' = [send EXCEPT ![w] = run]
      /\ UNCHANGED <<notice, notify, logged, posted, addressed, wanted, doubled, dropped, gone>>
  BY DEF Inbox!Deliver
<1>2. t \in Task /\ t.notice \in Notices /\ Meant(t)  BY DEF NoticeInv, NoticeTypes, Paths, Task
<1>3. wanted[t.notice] # Nothing /\ (notice[t.notice] = Nothing => t.notice \in gone)
  BY <1>2 DEF Meant, NoticeInv, Known
<1>4. run = Nothing \/ (run \in Run /\ run.at = "send" /\ run.task = t /\ notice[t.notice] # Nothing)
  BY <1>2 DEF Run
<1>5. notice[t.notice] # Nothing => run # Nothing
  <2>1. [at |-> "send", task |-> t] \in Run  BY <1>2 DEF Run
  <2> QED  BY <2>1 DEF NoticeAssumption
<1> HIDE DEF run
<1>6. \A v \in Workers : send'[v] = IF v = w THEN run ELSE send[v]  BY <1>1 DEF NoticeInv, NoticeTypes
<1>7. NoticeTypes'
  <2>1. IsFiniteSet(tasks') /\ tasks' \subseteq Task  BY <1>1, FS_Subset DEF NoticeInv, NoticeTypes
  <2>2. send' \in [Workers -> Run \cup {Nothing}]  BY <1>1, <1>4 DEF NoticeInv, NoticeTypes
  <2> QED  BY <1>1, <2>1, <2>2 DEF NoticeInv, NoticeTypes
<1>8. Paths'
  <2>1. \A x : Meant(x)' <=> Meant(x)  BY <1>1 DEF Meant
  <2>2. ASSUME NEW v \in Workers, send'[v] # Nothing
        PROVE  /\ Meant(send'[v].task)
               /\ send'[v].at = "log" /\ Inbox!Mailing(send'[v].task) => posted'[send'[v].task.notice] > 0
    <3>1. CASE v = w  BY <1>2, <1>4, <1>6, <2>2, <3>1
    <3>2. CASE v # w
      <4>1. send'[v] = send[v]  BY <1>6, <3>2
      <4>2. /\ Meant(send[v].task)
            /\ send[v].at = "log" /\ Inbox!Mailing(send[v].task) => posted[send[v].task.notice] > 0
        BY <2>2, <4>1 DEF NoticeInv, Paths
      <4> QED  BY <1>1, <4>1, <4>2
    <3> QED  BY <3>1, <3>2
  <2>3. \A x \in tasks' : Meant(x)'  BY <1>1, <2>1 DEF NoticeInv, Paths
  <2>4. \A v \in Workers : send'[v] # Nothing => Meant(send[v].task)'  BY <2>1, <2>2 DEF Meant
  <2>5. \A v \in Workers : send'[v] # Nothing => (Inbox!Mailing(send[v].task)' <=> Inbox!Mailing(send'[v].task))
    BY <1>1 DEF Inbox!Mailing
  <2> QED  BY <2>2, <2>3, <2>4, <2>5 DEF Paths
<1>9. ASSUME NEW m \in Notices PROVE Known(m)'  BY <1>1, <1>9 DEF NoticeInv, Known
<1>10. ASSUME NEW m \in Notices, wanted[m] # Nothing, NEW c, Inbox!Underway(m, c)
       PROVE  Inbox!Underway(m, c)' \/ m \in gone
  <2>1. CASE \E x \in tasks : x.notice = m /\ x.channel = c
    <3>1. PICK x \in tasks : x.notice = m /\ x.channel = c  BY <2>1
    <3>2. CASE x # t  BY <1>1, <3>1, <3>2 DEF Inbox!Underway
    <3>3. CASE x = t
      <4>1. CASE notice[m] = Nothing  BY <1>3, <3>1, <3>3, <4>1
      <4>2. CASE notice[m] # Nothing
        <5>1. send'[w] = run /\ run # Nothing /\ run.task = t  BY <1>4, <1>5, <1>6, <3>1, <3>3, <4>2
        <5> QED  BY <3>1, <3>3, <5>1 DEF Inbox!Underway
      <4> QED  BY <4>1, <4>2
    <3> QED  BY <3>2, <3>3
  <2>2. CASE \E v \in Workers : send[v] # Nothing /\ send[v].task.notice = m /\ send[v].task.channel = c
    <3>1. PICK v \in Workers : send[v] # Nothing /\ send[v].task.notice = m /\ send[v].task.channel = c  BY <2>2
    <3>2. send'[v] = send[v]  BY <1>1, <1>6, <3>1
    <3> QED  BY <3>1, <3>2 DEF Inbox!Underway
  <2> QED  BY <1>10, <2>1, <2>2 DEF Inbox!Underway
<1>11. ASSUME NEW m \in Notices PROVE Traced(m)'
  <2>1. Traced(m)  BY DEF NoticeInv
  <2> QED  BY <1>1, <1>10, <2>1 DEF Traced
<1>12. ASSUME NEW m \in Notices PROVE Counted(m)'
  <2>1. Counted(m) /\ NoticeTypes  BY DEF NoticeInv
  <2>2. UNCHANGED <<notice, posted, doubled>>  BY <1>1
  <2>3. CASE m = t.notice /\ t.channel = "email" /\ run # Nothing
    <3>1. t \in Queued(m) /\ Queued(m)' \subseteq Queued(m) \ {t}  BY <1>1, <2>3 DEF Queued
    <3>2. Cardinality(Queued(m)') \in Nat /\ Cardinality(Queued(m)') + 1 <= Cardinality(Queued(m))
      BY <2>1, <3>1, OneLess, CountFacts
    <3>3. Sending(m)' \subseteq Sending(m) \cup {w}  BY <1>6 DEF Sending
    <3>4. Cardinality(Sending(m)') <= Cardinality(Sending(m)) + 1 /\ Cardinality(Sending(m)') \in Nat
      BY <2>1, <3>3, SomeMore, CountFacts
    <3>6. notice[m] # Nothing  BY <1>4, <2>3
    <3>7. Coming(m)' = Cardinality(Queued(m)') /\ Coming(m) = Cardinality(Queued(m))
      BY <2>2, <3>6 DEF Coming
    <3> QED  BY <2>1, <2>2, <3>2, <3>4, <3>7, CountFacts DEF Counted
  <2>4. CASE ~(m = t.notice /\ t.channel = "email" /\ run # Nothing)
    <3>1. Sending(m)' = Sending(m)  BY <1>1, <1>4, <1>6, <2>4 DEF Sending
    <3>2. Coming(m)' <= Coming(m) /\ Coming(m)' \in Nat
      <4>1. Queued(m)' \subseteq Queued(m)  BY <1>1 DEF Queued
      <4>2. IsFiniteSet(Queued(m)) /\ Cardinality(Queued(m)) \in Nat  BY <2>1, CountFacts
      <4>3. Cardinality(Queued(m)') <= Cardinality(Queued(m)) /\ Cardinality(Queued(m)') \in Nat
        BY <4>1, <4>2, FS_Subset, FS_CardinalityType
      <4> QED  BY <2>2, <4>2, <4>3 DEF Coming
    <3> QED  BY <2>1, <2>2, <3>1, <3>2, CountFacts DEF Counted
  <2> QED  BY <2>3, <2>4
<1> QED  BY <1>7, <1>8, <1>9, <1>11, <1>12 DEF NoticeInv

LEMMA SendNotice ==
  ASSUME NoticeAssumption, NoticeInv, NEW w \in Workers, Inbox!Send(w)  PROVE NoticeInv'
<1> DEFINE t == send[w].task
           run == [send[w] EXCEPT !.at = "log"]
<1>1. /\ send[w] # Nothing /\ send[w].at = "send" /\ send' = [send EXCEPT ![w].at = "log"]
      /\ posted' = [posted EXCEPT ![t.notice] = @ + (IF Inbox!Mailing(t) THEN 1 ELSE 0)]
      /\ UNCHANGED <<notice, notify, tasks, logged, addressed, wanted, doubled, dropped, gone>>
  BY DEF Inbox!Send
<1>2. send[w] \in Run /\ t \in Task /\ t.notice \in Notices /\ Meant(t) /\ wanted[t.notice] # Nothing
  BY <1>1, RunFacts
<1>3. send' = [send EXCEPT ![w] = run]  BY <1>1, <1>2 DEF NoticeInv, NoticeTypes, Run
<1>4. run \in Run /\ run.at = "log" /\ run.task = t /\ run # Nothing  BY <1>2 DEF Run, NoticeAssumption
<1>5. \A v \in Workers : send'[v] = IF v = w THEN run ELSE send[v]
  BY <1>3 DEF NoticeInv, NoticeTypes
<1>6. \A m \in Notices : posted'[m] = posted[m] + (IF m = t.notice /\ Inbox!Mailing(t) THEN 1 ELSE 0)
  BY <1>1 DEF NoticeInv, NoticeTypes
<1>7. \A m \in Notices : posted[m] \in Nat  BY DEF NoticeInv, NoticeTypes
<1> HIDE DEF t, run
<1>8. NoticeTypes'
  <2>1. send' \in [Workers -> Run \cup {Nothing}]  BY <1>3, <1>4 DEF NoticeInv, NoticeTypes
  <2>2. posted' \in [Notices -> Nat]
    <3>1. \A m \in Notices : posted'[m] \in Nat  BY <1>6, <1>7
    <3>2. posted' = [m \in Notices |-> posted'[m]]  BY <1>1 DEF NoticeInv, NoticeTypes
    <3> QED  BY <3>1, <3>2
  <2> QED  BY <1>1, <2>1, <2>2 DEF NoticeInv, NoticeTypes
<1>9. Paths'
  <2>1. \A x : Meant(x)' <=> Meant(x)  BY <1>1 DEF Meant
  <2>2. ASSUME NEW v \in Workers, send'[v] # Nothing
        PROVE  /\ Meant(send'[v].task)
               /\ send'[v].at = "log" /\ Inbox!Mailing(send'[v].task) => posted'[send'[v].task.notice] > 0
    <3>1. CASE v = w
      <4>1. send'[v] = run /\ send'[v].task = t  BY <1>4, <1>5, <3>1
      <4>2. Inbox!Mailing(t) => posted'[t.notice] > 0  BY <1>2, <1>6, <1>7
      <4> QED  BY <1>2, <4>1, <4>2
    <3>2. CASE v # w
      <4>1. send'[v] = send[v]  BY <1>5, <3>2
      <4>2. Meant(send[v].task) /\ send[v].task.notice \in Notices  BY <2>2, <4>1, RunFacts
      <4>3. send[v].at = "log" /\ Inbox!Mailing(send[v].task) => posted[send[v].task.notice] > 0
        BY <2>2, <4>1 DEF NoticeInv, Paths
      <4>4. posted'[send[v].task.notice] >= posted[send[v].task.notice]  BY <1>6, <1>7, <4>2
      <4>5. posted'[send[v].task.notice] \in Nat  BY <1>6, <1>7, <4>2
      <4>6. posted[send[v].task.notice] \in Nat  BY <1>7, <4>2
      <4>7. posted[send[v].task.notice] > 0 => posted'[send[v].task.notice] > 0  BY <4>4, <4>5, <4>6
      <4> QED  BY <4>1, <4>2, <4>3, <4>7
    <3> QED  BY <3>1, <3>2
  <2>3. \A x \in tasks' : Meant(x)'  BY <1>1, <2>1 DEF NoticeInv, Paths
  <2>4. \A v \in Workers : send'[v] # Nothing => Meant(send[v].task)'  BY <2>1, <2>2 DEF Meant
  <2>5. \A v \in Workers : send'[v] # Nothing => (Inbox!Mailing(send[v].task)' <=> Inbox!Mailing(send'[v].task))
    BY <1>1 DEF Inbox!Mailing
  <2> QED  BY <2>2, <2>3, <2>4, <2>5 DEF Paths
<1>10. ASSUME NEW m \in Notices PROVE Known(m)'
  <2>1. Known(m)  BY DEF NoticeInv
  <2>2. CASE m = t.notice /\ Inbox!Mailing(t)
    <3>1. wanted[m] # Nothing /\ "email" \in wanted[m] /\ addressed[m]
      BY <1>2, <2>2 DEF Inbox!Mailing, Meant
    <3>2. posted'[m] > 0  BY <1>6, <1>7, <2>2
    <3> QED  BY <1>1, <2>1, <3>1, <3>2 DEF Known
  <2>3. CASE ~(m = t.notice /\ Inbox!Mailing(t))
    <3>1. posted'[m] = posted[m]  BY <1>6, <1>7, <2>3
    <3> QED  BY <1>1, <2>1, <3>1 DEF Known
  <2> QED  BY <2>2, <2>3
<1>11. ASSUME NEW m \in Notices PROVE Traced(m)'
  <2>1. Traced(m)  BY DEF NoticeInv
  <2>2. \A v \in Workers : send[v] # Nothing => send'[v] # Nothing /\ send'[v].task = send[v].task
    BY <1>4, <1>5 DEF t
  <2>3. \A c : Inbox!Underway(m, c) => Inbox!Underway(m, c)'  BY <1>1, <2>2 DEF Inbox!Underway
  <2> QED  BY <1>1, <2>1, <2>3 DEF Traced
<1>12. ASSUME NEW m \in Notices PROVE Counted(m)'
  <2>1. Counted(m) /\ NoticeTypes  BY DEF NoticeInv
  <2>2. Coming(m)' = Coming(m) /\ UNCHANGED doubled  BY <1>1 DEF Coming, Queued
  <2>3. CASE m = t.notice /\ t.channel = "email"
    <3>1. w \in Sending(m) /\ Sending(m)' \subseteq Sending(m) \ {w}
      BY <1>1, <1>4, <1>5, <2>3 DEF Sending, t
    <3>2. Cardinality(Sending(m)') \in Nat /\ Cardinality(Sending(m)') + 1 <= Cardinality(Sending(m))
      BY <2>1, <3>1, OneLess, CountFacts
    <3>3. posted'[m] \in Nat /\ posted'[m] <= posted[m] + 1  BY <1>6, <1>7
    <3> QED  BY <2>1, <2>2, <3>2, <3>3, CountFacts DEF Counted
  <2>4. CASE ~(m = t.notice /\ t.channel = "email")
    <3>1. Sending(m)' = Sending(m)  BY <1>1, <1>4, <1>5, <2>4 DEF Sending, t
    <3>2. posted'[m] = posted[m]  BY <1>6, <1>7, <2>4 DEF Inbox!Mailing
    <3> QED  BY <2>1, <2>2, <3>1, <3>2 DEF Counted
  <2> QED  BY <2>3, <2>4
<1> QED  BY <1>8, <1>9, <1>10, <1>11, <1>12 DEF NoticeInv

(* A run that ends, is doubled or queues its task again.  A mail queued again is  *)
(* counted as doubled, unless it was not sent or its notice is gone.            *)
LEMMA RunEnds ==
  ASSUME NoticeAssumption, NoticeInv, NEW w \in Workers, send[w] # Nothing,
         NEW x \in Task, x.notice = send[w].task.notice, x.channel = send[w].task.channel,
         UNCHANGED <<notice, notify, posted, addressed, wanted, gone>>,
         UNCHANGED send \/ send' = [send EXCEPT ![w] = Nothing],
         UNCHANGED tasks \/ tasks' = tasks \cup {x},
         dropped \subseteq dropped', dropped' \subseteq Notices,
         logged' \in [Notices -> SUBSET Line],
         \A m \in Notices : logged[m] \subseteq logged'[m] /\ (wanted[m] = Nothing => logged'[m] = {}),
         \A m \in Notices : [channel |-> "email", status |-> "sent"] \in logged'[m] \ logged[m] => posted[m] > 0,
         doubled' \in [Notices -> Nat], \A m \in Notices : doubled[m] <= doubled'[m],
         \/ UNCHANGED send \/ tasks' = tasks \cup {x} \/ x.notice \in dropped' \cup gone
         \/ \E line \in logged'[x.notice] : line.channel = x.channel,
         \/ UNCHANGED tasks \/ notice[x.notice] = Nothing \/ doubled'[x.notice] = doubled[x.notice] + 1
         \/ send[w].at = "send" /\ send' = [send EXCEPT ![w] = Nothing]
  PROVE  NoticeInv'
<1>1. \A v \in Workers : send'[v] # Nothing => send'[v] = send[v]  BY DEF NoticeInv, NoticeTypes
<1>2. \A v \in Workers : v # w => send'[v] = send[v]  BY DEF NoticeInv, NoticeTypes
<1>3. x.notice \in Notices /\ Meant(x)
  <2>1. Meant(send[w].task)  BY DEF NoticeInv, Paths
  <2> QED  BY <2>1 DEF Meant, Task
<1>4. NoticeTypes'
  <2>1. IsFiniteSet(tasks') /\ tasks' \subseteq Task  BY FS_AddElement DEF NoticeInv, NoticeTypes
  <2>2. send' \in [Workers -> Run \cup {Nothing}]  BY DEF NoticeInv, NoticeTypes
  <2> QED  BY <2>1, <2>2 DEF NoticeInv, NoticeTypes
<1>5. Paths'
  <2>1. \A y : Meant(y)' <=> Meant(y)  BY DEF Meant
  <2>2. \A y \in tasks' : Meant(y)'  BY <1>3, <2>1 DEF NoticeInv, Paths
  <2>3. ASSUME NEW v \in Workers, send'[v] # Nothing
        PROVE  /\ Meant(send[v].task)'
               /\ send'[v].at = "log" /\ Inbox!Mailing(send[v].task)' => posted'[send'[v].task.notice] > 0
    <3>1. send'[v] = send[v]  BY <1>1, <2>3
    <3>2. /\ Meant(send[v].task)
          /\ send[v].at = "log" /\ Inbox!Mailing(send[v].task) => posted[send[v].task.notice] > 0
      BY <2>3, <3>1 DEF NoticeInv, Paths
    <3> QED  BY <3>1, <3>2 DEF Meant, Inbox!Mailing
  <2> QED  BY <2>2, <2>3 DEF Paths
<1>6. ASSUME NEW m \in Notices PROVE Known(m)'
  <2>1. Known(m)  BY DEF NoticeInv
  <2>2. [channel |-> "email", status |-> "sent"] \in logged'[m] => posted[m] > 0  BY <2>1 DEF Known
  <2> QED  BY <2>1, <2>2 DEF Known
<1>7. ASSUME NEW m \in Notices PROVE Traced(m)'
  <2> SUFFICES ASSUME wanted[m] # Nothing, NEW c \in wanted[m]
               PROVE  \/ \E line \in logged'[m] : line.channel = c
                      \/ Inbox!Underway(m, c)' \/ m \in dropped' \/ m \in gone
    BY DEF Traced
  <2>1. \/ \E line \in logged[m] : line.channel = c
        \/ Inbox!Underway(m, c) \/ m \in dropped \/ m \in gone
    BY DEF NoticeInv, Traced
  <2>2. CASE \E y \in tasks : y.notice = m /\ y.channel = c  BY <2>2 DEF Inbox!Underway
  <2>3. ASSUME NEW v \in Workers, send[v] # Nothing, send[v].task.notice = m, send[v].task.channel = c
        PROVE  \/ \E line \in logged'[m] : line.channel = c
               \/ Inbox!Underway(m, c)' \/ m \in dropped' \/ m \in gone
    <3>1. CASE send'[v] = send[v]  BY <2>3, <3>1 DEF Inbox!Underway
    <3>2. CASE send'[v] # send[v]
      <4>1. v = w /\ ~UNCHANGED send /\ x.notice = m /\ x.channel = c  BY <1>2, <2>3, <3>2
      <4>2. tasks' = tasks \cup {x} => Inbox!Underway(m, c)'  BY <4>1 DEF Inbox!Underway
      <4> QED  BY <4>1, <4>2
    <3> QED  BY <3>1, <3>2
  <2>4. CASE (\E line \in logged[m] : line.channel = c) \/ m \in dropped \/ m \in gone
    <3>1. logged[m] \subseteq logged'[m]  OBVIOUS
    <3> QED  BY <2>4, <3>1
  <2> QED  BY <2>1, <2>2, <2>3, <2>4 DEF Inbox!Underway
<1>8. ASSUME NEW m \in Notices PROVE Counted(m)'
  <2>1. Counted(m) /\ NoticeTypes  BY DEF NoticeInv
  <2>2. posted'[m] = posted[m] /\ doubled'[m] \in Nat /\ doubled[m] <= doubled'[m]  OBVIOUS
  <2>3. Sending(m)' \subseteq Sending(m)  BY <1>1 DEF Sending
  <2>4. Cardinality(Sending(m)') \in Nat /\ Cardinality(Sending(m)') <= Cardinality(Sending(m))
    BY <2>1, <2>3, CountFacts, FS_Subset, FS_CardinalityType
  <2>5. CASE m = x.notice /\ x.channel = "email" /\ tasks' = tasks \cup {x} /\ notice[m] # Nothing /\ ~UNCHANGED tasks
    <3>1. Queued(m)' \subseteq Queued(m) \cup {x}  BY <2>5 DEF Queued
    <3>2. Cardinality(Queued(m)') \in Nat /\ Cardinality(Queued(m)') <= Cardinality(Queued(m)) + 1
      BY <2>1, <3>1, SomeMore, CountFacts
    <3>3. Coming(m)' \in Nat /\ Coming(m)' <= Coming(m) + 1  BY <2>5, <3>2 DEF Coming
    <3>4. CASE doubled'[m] = doubled[m] + 1
      BY <2>1, <2>2, <2>4, <3>3, <3>4, CountFacts DEF Counted
    <3>5. CASE send[w].at = "send" /\ send' = [send EXCEPT ![w] = Nothing]
      <4>1. w \in Sending(m)  BY <2>5, <3>5 DEF Sending
      <4>2. send'[w] = Nothing  BY <3>5 DEF NoticeInv, NoticeTypes
      <4>3. Sending(m)' \subseteq Sending(m) \ {w}  BY <2>3, <4>2 DEF Sending
      <4>4. Cardinality(Sending(m)') + 1 <= Cardinality(Sending(m))  BY <2>1, <4>1, <4>3, OneLess, CountFacts
      <4> QED  BY <2>1, <2>2, <2>4, <3>3, <4>4, CountFacts DEF Counted
    <3> QED  BY <2>5, <3>4, <3>5
  <2>6. CASE ~(m = x.notice /\ x.channel = "email" /\ tasks' = tasks \cup {x} /\ notice[m] # Nothing /\ ~UNCHANGED tasks)
    <3>1. Coming(m)' = Coming(m)
      <4>1. CASE notice[m] = Nothing  BY <4>1 DEF Coming
      <4>2. CASE notice[m] # Nothing
        <5>1. Queued(m)' = Queued(m)  BY <2>6, <4>2 DEF Queued
        <5> QED  BY <4>2, <5>1 DEF Coming
      <4> QED  BY <4>1, <4>2
    <3> QED  BY <2>1, <2>2, <2>4, <3>1, CountFacts DEF Counted
  <2> QED  BY <2>5, <2>6
<1> QED  BY <1>4, <1>5, <1>6, <1>7, <1>8 DEF NoticeInv

LEMMA RetryFacts ==
  ASSUME NEW t \in Task, t.notice \in Notices, Inbox!Retry(t), dropped \subseteq Notices
  PROVE  \E x \in Task :
           /\ x.notice = t.notice /\ x.channel = t.channel
           /\ \/ tasks' = tasks \cup {x} /\ UNCHANGED dropped
              \/ UNCHANGED tasks /\ dropped' = dropped \cup {t.notice}
<1>1. CASE t.tries < MaxRetries
  <2> DEFINE x == [t EXCEPT !.tries = t.tries + 1]
  <2>1. tasks' = tasks \cup {x} /\ UNCHANGED dropped  BY <1>1 DEF Inbox!Retry
  <2>2. x \in Task /\ x.notice = t.notice /\ x.channel = t.channel  BY DEF Task
  <2> HIDE DEF x
  <2> QED  BY <2>1, <2>2
<1>2. CASE ~(t.tries < MaxRetries)  BY <1>2 DEF Inbox!Retry
<1> QED  BY <1>1, <1>2

LEMMA LogNotice ==
  ASSUME NoticeAssumption, NoticeInv, NEW w \in Workers, Inbox!Log(w)  PROVE NoticeInv'
<1> DEFINE t == send[w].task
           line == [channel |-> t.channel, status |-> IF Inbox!Mailing(t) THEN "sent" ELSE "skipped"]
<1>1. /\ send[w] # Nothing /\ send[w].at = "log" /\ send' = [send EXCEPT ![w] = Nothing]
      /\ UNCHANGED <<notice, notify, posted, addressed, wanted, doubled, gone>>
      /\ IF notice[t.notice] # Nothing
         THEN /\ logged' = [logged EXCEPT ![t.notice] = @ \cup {line}]
              /\ UNCHANGED <<tasks, dropped>>
         ELSE Inbox!Retry(t) /\ UNCHANGED logged
  BY DEF Inbox!Log
<1>2. /\ t \in Task /\ t.notice \in Notices /\ wanted[t.notice] # Nothing
      /\ notice[t.notice] = Nothing => t.notice \in gone
  BY <1>1, RunFacts
<1>3. /\ logged \in [Notices -> SUBSET Line] /\ doubled \in [Notices -> Nat] /\ dropped \subseteq Notices
      /\ \A m \in Notices : wanted[m] = Nothing => logged[m] = {}
  BY DEF NoticeInv, NoticeTypes, Known
<1>4. Inbox!Mailing(t) => posted[t.notice] > 0  BY <1>1 DEF NoticeInv, Paths
<1>5. line \in Line /\ line.channel = t.channel /\ (line.status = "sent" => Inbox!Mailing(t))
  BY <1>2 DEF Line, Task
<1>6. \A m \in Notices : doubled[m] <= doubled'[m]  BY <1>1, <1>3
<1>7. doubled' \in [Notices -> Nat]  BY <1>1, <1>3
<1> HIDE DEF t, line
<1>8. CASE notice[t.notice] # Nothing
  <2>1. logged' = [logged EXCEPT ![t.notice] = @ \cup {line}] /\ UNCHANGED <<tasks, dropped>>  BY <1>1, <1>8
  <2>2. \A m \in Notices : logged'[m] = IF m = t.notice THEN logged[m] \cup {line} ELSE logged[m]
    BY <1>3, <2>1
  <2>3. logged' \in [Notices -> SUBSET Line]  BY <1>2, <1>3, <1>5, <2>1
  <2>4. \A m \in Notices : logged[m] \subseteq logged'[m] /\ (wanted[m] = Nothing => logged'[m] = {})
    BY <1>2, <1>3, <2>2
  <2>5. ASSUME NEW m \in Notices, [channel |-> "email", status |-> "sent"] \in logged'[m] \ logged[m]
        PROVE  posted[m] > 0
    <3>1. m = t.notice /\ line = [channel |-> "email", status |-> "sent"]  BY <2>2, <2>5
    <3> QED  BY <1>4, <1>5, <3>1
  <2>6. \E l \in logged'[t.notice] : l.channel = t.channel  BY <1>2, <1>5, <2>2
  <2> QED  BY <1>1, <1>2, <1>3, <1>6, <1>7, <2>1, <2>3, <2>4, <2>5, <2>6, RunEnds DEF t
<1>9. CASE notice[t.notice] = Nothing
  <2>1. Inbox!Retry(t) /\ UNCHANGED logged /\ t.notice \in gone  BY <1>1, <1>2, <1>9
  <2>2. PICK x \in Task : /\ x.notice = t.notice /\ x.channel = t.channel
                          /\ \/ tasks' = tasks \cup {x} /\ UNCHANGED dropped
                             \/ UNCHANGED tasks /\ dropped' = dropped \cup {t.notice}
    BY <1>2, <1>3, <2>1, RetryFacts
  <2>3. dropped \subseteq dropped' /\ dropped' \subseteq Notices  BY <1>2, <1>3, <2>2
  <2>4. logged' \in [Notices -> SUBSET Line]  BY <1>3, <2>1
  <2>5. \A m \in Notices : logged[m] \subseteq logged'[m] /\ (wanted[m] = Nothing => logged'[m] = {})
    BY <1>3, <2>1
  <2>6. \A m \in Notices : [channel |-> "email", status |-> "sent"] \notin logged'[m] \ logged[m]  BY <2>1
  <2>7. UNCHANGED tasks \/ tasks' = tasks \cup {x}  BY <2>2
  <2> QED  BY <1>1, <1>6, <1>7, <1>9, <2>1, <2>2, <2>3, <2>4, <2>5, <2>6, <2>7, RunEnds DEF t
<1> QED  BY <1>8, <1>9

LEMMA FailNotice ==
  ASSUME NoticeAssumption, NoticeInv, NEW w \in Workers, Inbox!Fail(w) \/ Inbox!Redeliver(w)  PROVE NoticeInv'
<1> DEFINE t == send[w].task
<1>0. send[w] # Nothing  BY DEF Inbox!Fail, Inbox!Redeliver
<1>1. send[w] \in Run /\ t \in Task /\ t.notice \in Notices  BY <1>0, RunFacts
<1>2. /\ logged \in [Notices -> SUBSET Line] /\ doubled \in [Notices -> Nat] /\ dropped \subseteq Notices
      /\ \A m \in Notices : wanted[m] = Nothing => logged[m] = {}
  BY DEF NoticeInv, NoticeTypes, Known
<1>3. ASSUME UNCHANGED logged
      PROVE  /\ logged' \in [Notices -> SUBSET Line]
             /\ \A m \in Notices : logged[m] \subseteq logged'[m] /\ (wanted[m] = Nothing => logged'[m] = {})
             /\ \A m \in Notices : [channel |-> "email", status |-> "sent"] \notin logged'[m] \ logged[m]
  BY <1>2, <1>3
<1>4. ASSUME NEW k \in {0, 1}, doubled' = [doubled EXCEPT ![t.notice] = @ + k]
      PROVE  /\ doubled' \in [Notices -> Nat] /\ doubled'[t.notice] = doubled[t.notice] + k
             /\ \A m \in Notices : doubled[m] <= doubled'[m]
  <2>1. \A m \in Notices : doubled[m] \in Nat  BY <1>2
  <2>2. \A m \in Notices : doubled'[m] = doubled[m] + (IF m = t.notice THEN k ELSE 0)  BY <1>2, <1>4, <2>1
  <2>3. \A m \in Notices : doubled'[m] \in Nat /\ doubled[m] <= doubled'[m]  BY <2>1, <2>2
  <2>4. doubled' = [m \in Notices |-> doubled'[m]]  BY <1>2, <1>4
  <2> QED  BY <1>1, <2>2, <2>3, <2>4
<1>5. CASE Inbox!Fail(w)
  <2> DEFINE k == IF send[w].at = "log" THEN 1 ELSE 0
  <2>1. /\ Inbox!Retry(t) \/ (dropped' = dropped \cup {t.notice} /\ UNCHANGED tasks)
        /\ doubled' = [doubled EXCEPT ![t.notice] = @ + k] /\ send' = [send EXCEPT ![w] = Nothing]
        /\ UNCHANGED <<notice, notify, logged, posted, addressed, wanted, gone>>
    BY <1>5 DEF Inbox!Fail
  <2>2. k \in {0, 1} /\ (send[w].at = "send" \/ k = 1)  BY <1>1 DEF Run
  <2> HIDE DEF k, t
  <2>3. PICK x \in Task : /\ x.notice = t.notice /\ x.channel = t.channel
                          /\ \/ tasks' = tasks \cup {x} /\ UNCHANGED dropped
                             \/ UNCHANGED tasks /\ dropped' = dropped \cup {t.notice}
    BY <1>1, <1>2, <2>1, RetryFacts
  <2>4. dropped \subseteq dropped' /\ dropped' \subseteq Notices  BY <1>1, <1>2, <2>3
  <2>5. /\ doubled' \in [Notices -> Nat] /\ doubled'[t.notice] = doubled[t.notice] + k
        /\ \A m \in Notices : doubled[m] <= doubled'[m]
    BY <1>4, <2>1, <2>2
  <2>6. UNCHANGED tasks \/ tasks' = tasks \cup {x}  BY <2>3
  <2>7. tasks' = tasks \cup {x} \/ x.notice \in dropped'  BY <2>3
  <2>8. doubled'[x.notice] = doubled[x.notice] + 1 \/ send[w].at = "send"  BY <2>2, <2>3, <2>5
  <2>9. x.notice = send[w].task.notice /\ x.channel = send[w].task.channel  BY <2>3 DEF t
  <2>10. UNCHANGED <<notice, notify, posted, addressed, wanted, gone>> /\ UNCHANGED logged  BY <2>1
  <2> QED  BY <1>0, <1>3, <2>1, <2>4, <2>5, <2>6, <2>7, <2>8, <2>9, <2>10, RunEnds
<1>6. CASE Inbox!Redeliver(w)
  <2>1. /\ tasks' = tasks \cup {t} /\ doubled' = [doubled EXCEPT ![t.notice] = @ + 1]
        /\ UNCHANGED <<notice, notify, send, logged, posted, addressed, wanted, dropped, gone>>
    BY <1>6 DEF Inbox!Redeliver
  <2>2. /\ doubled' \in [Notices -> Nat] /\ doubled'[t.notice] = doubled[t.notice] + 1
        /\ \A m \in Notices : doubled[m] <= doubled'[m]
    BY <1>4, <2>1
  <2>3. dropped \subseteq dropped' /\ dropped' \subseteq Notices  BY <1>2, <2>1
  <2> QED  BY <1>0, <1>1, <1>3, <2>1, <2>2, <2>3, RunEnds
<1> QED  BY <1>5, <1>6

LEMMA NoticeSteps == ASSUME NoticeAssumption, NoticeInv, [Inbox!Next]_inbox  PROVE NoticeInv'
<1>0. /\ notice \in [Notices -> [read : BOOLEAN] \cup {Nothing}]
      /\ notify \in [Notices -> Wanted \cup {Nothing}] /\ gone \subseteq Notices
      /\ \A n \in Notices : /\ wanted[n] # Nothing => notify[n] = Nothing
                            /\ wanted[n] # Nothing /\ notice[n] = Nothing => n \in gone
  BY DEF NoticeInv, NoticeTypes, Known
<1>1. ASSUME UNCHANGED <<tasks, send, logged, posted, addressed, wanted, doubled, dropped, notice, gone>>,
             notify' \in [Notices -> Wanted \cup {Nothing}],
             \A n \in Notices : wanted[n] # Nothing => notify'[n] = Nothing
      PROVE  NoticeInv'
  BY <1>0, <1>1, NoticesStay
<1>2. ASSUME NEW n \in Notices, Inbox!Notify(n)  PROVE NoticeInv'
  <2>1. Inbox!ResolvedChannels \in Wanted  BY DEF Inbox!ResolvedChannels, Wanted
  <2>2. /\ wanted[n] = Nothing /\ notify' = [notify EXCEPT ![n] = Inbox!ResolvedChannels]
        /\ UNCHANGED <<tasks, send, logged, posted, addressed, wanted, doubled, dropped, notice, gone>>
    BY <1>2 DEF Inbox!Notify
  <2>3. notify' \in [Notices -> Wanted \cup {Nothing}]  BY <1>0, <2>1, <2>2
  <2>4. \A m \in Notices : wanted[m] # Nothing => notify'[m] = Nothing  BY <1>0, <2>2
  <2> QED  BY <1>1, <2>2, <2>3, <2>4
<1>3. ASSUME NEW n \in Notices, Inbox!Rollback(n)  PROVE NoticeInv'
  <2>1. /\ notify' = [notify EXCEPT ![n] = Nothing]
        /\ UNCHANGED <<tasks, send, logged, posted, addressed, wanted, doubled, dropped, notice, gone>>
    BY <1>3 DEF Inbox!Rollback
  <2>2. notify' \in [Notices -> Wanted \cup {Nothing}]  BY <1>0, <2>1
  <2>3. \A m \in Notices : wanted[m] # Nothing => notify'[m] = Nothing  BY <1>0, <2>1
  <2> QED  BY <1>1, <2>1, <2>2, <2>3
<1>4. ASSUME NEW ids \in SUBSET Notices, Inbox!MarkRead(ids)  PROVE NoticeInv'
  <2>1. /\ notice' = [n \in Notices |-> IF n \in ids /\ notice[n] # Nothing
                                        THEN [notice[n] EXCEPT !.read = TRUE] ELSE notice[n]]
        /\ UNCHANGED <<tasks, send, logged, posted, addressed, wanted, doubled, dropped, notify, gone>>
    BY <1>4 DEF Inbox!MarkRead
  <2>2. ASSUME NEW n \in Notices
        PROVE  notice'[n] \in [read : BOOLEAN] \cup {Nothing} /\ (notice'[n] = Nothing <=> notice[n] = Nothing)
    <3>1. CASE n \in ids /\ notice[n] # Nothing
      <4>1. notice[n] \in [read : BOOLEAN] /\ notice'[n] = [notice[n] EXCEPT !.read = TRUE]
        BY <1>0, <2>1, <3>1
      <4>2. notice'[n] \in [read : BOOLEAN]  BY <4>1
      <4> QED  BY <3>1, <4>2 DEF NoticeAssumption
    <3>2. CASE ~(n \in ids /\ notice[n] # Nothing)
      <4>1. notice'[n] = notice[n]  BY <2>1, <3>2
      <4> QED  BY <1>0, <4>1
    <3> QED  BY <3>1, <3>2
  <2>3. notice' \in [Notices -> [read : BOOLEAN] \cup {Nothing}]
    <3>1. notice' = [n \in Notices |-> notice'[n]]  BY <2>1
    <3> QED  BY <2>2, <3>1
  <2>4. notify' \in [Notices -> Wanted \cup {Nothing}] /\ gone \subseteq gone' /\ gone' \subseteq Notices
    BY <1>0, <2>1
  <2>5. \A n \in Notices : wanted[n] # Nothing => notify'[n] = Nothing  BY <1>0, <2>1
  <2> QED  BY <2>1, <2>2, <2>3, <2>4, <2>5, NoticesStay
<1>5. ASSUME Inbox!Erase  PROVE NoticeInv'
  <2>1. /\ gone' = gone \cup {n \in Notices : notice[n] # Nothing} /\ notice' = [n \in Notices |-> Nothing]
        /\ UNCHANGED <<tasks, send, logged, posted, addressed, wanted, doubled, dropped, notify>>
    BY <1>5 DEF Inbox!Erase
  <2>2. /\ notice' \in [Notices -> [read : BOOLEAN] \cup {Nothing}]
        /\ notify' \in [Notices -> Wanted \cup {Nothing}] /\ gone \subseteq gone' /\ gone' \subseteq Notices
    BY <1>0, <2>1
  <2>3. \A n \in Notices : /\ notice[n] = Nothing => notice'[n] = Nothing
                           /\ notice'[n] = Nothing => notice[n] = Nothing \/ n \in gone'
                           /\ wanted[n] # Nothing => notify'[n] = Nothing
    BY <1>0, <2>1
  <2> QED  BY <2>1, <2>2, <2>3, NoticesStay
<1>6. ASSUME UNCHANGED <<tasks, send, logged, posted, addressed, wanted, doubled, dropped, notice, notify, gone>>
      PROVE  NoticeInv'
  BY <1>0, <1>1, <1>6
<1>7. ASSUME NEW c \in Inbox!Channels, NEW enabled \in BOOLEAN, Inbox!UpdatePreference(c, enabled)  PROVE NoticeInv'
  BY <1>6, <1>7 DEF Inbox!UpdatePreference
<1>8. UNCHANGED inbox => NoticeInv'  BY <1>6 DEF inbox
<1>9. CASE Inbox!Next
  <2>1. ASSUME NEW n \in Notices, Inbox!Notify(n) \/ Inbox!Rollback(n) \/ Inbox!Commit(n) \/ Inbox!MarkRead({n})
        PROVE  NoticeInv'
    BY <1>2, <1>3, <1>4, <2>1, CommitNotice
  <2>2. ASSUME NEW w \in Workers,
               \/ \E t \in tasks : Inbox!Deliver(w, t)
               \/ Inbox!Send(w) \/ Inbox!Log(w) \/ Inbox!Fail(w) \/ Inbox!Redeliver(w)
        PROVE  NoticeInv'
    BY <2>2, DeliverNotice, SendNotice, LogNotice, FailNotice
  <2>3. Inbox!MarkRead(Notices) => NoticeInv'  BY <1>4
  <2> QED  BY <1>5, <1>7, <1>9, <2>1, <2>2, <2>3 DEF Inbox!Next
<1> QED  BY <1>8, <1>9

LEMMA NoticeStart == ASSUME NoticeAssumption, EnquiriesInit  PROVE NoticeInv
<1>1. /\ notice = [n \in Notices |-> Nothing] /\ notify = [n \in Notices |-> Nothing]
      /\ tasks = {} /\ send = [w \in Workers |-> Nothing]
      /\ logged = [n \in Notices |-> {}] /\ posted = [n \in Notices |-> 0]
      /\ wanted = [n \in Notices |-> Nothing] /\ doubled = [n \in Notices |-> 0] /\ dropped = {} /\ gone = {}
  BY DEF EnquiriesInit, Inbox!Init
<1>2. NoticeTypes  BY <1>1, FS_EmptySet DEF NoticeTypes
<1>3. Paths  BY <1>1 DEF Paths
<1>4. ASSUME NEW n \in Notices PROVE Known(n) /\ Traced(n)  BY <1>1 DEF Known, Traced
<1>5. ASSUME NEW n \in Notices PROVE Counted(n)
  <2>1. Sending(n) = {} /\ Coming(n) = 0 /\ posted[n] = 0 /\ doubled[n] = 0  BY <1>1 DEF Sending, Coming
  <2> QED  BY <2>1, FS_EmptySet DEF Counted
<1> QED  BY <1>2, <1>3, <1>4, <1>5 DEF NoticeInv

LEMMA NoticesMean == ASSUME NoticeAssumption, NoticeInv  PROVE Inbox!NoticesAreSound
<1>1. ASSUME NEW n \in Notices PROVE posted[n] <= 1 + doubled[n]
  <2>1. Counted(n) /\ NoticeTypes  BY DEF NoticeInv
  <2> QED  BY <2>1, CountFacts DEF Counted
<1>2. Inbox!MailsAreExplained  BY <1>1 DEF Inbox!MailsAreExplained, NoticeInv, Known
<1>3. Inbox!NoticesAreLogged  BY DEF Inbox!NoticesAreLogged, NoticeInv, Known, Traced
<1> QED  BY <1>2, <1>3 DEF Inbox!NoticesAreSound

(* A form is one lead with the band of the nearest comparables and every note it  *)
(* accepted, unless requests overlapped (ValuationsService); and a notification  *)
(* mails what was wanted, once but for doubled runs, and is logged or still on    *)
(* its way unless a task was lost (deliver_notification).                       *)
THEOREM FormsAndNotices ==
  ASSUME FormAssumption, NoticeAssumption PROVE EnquiriesSpec => []FormsAndNoticesAreSound
<1>1. EnquiriesInit => FormInv /\ NoticeInv  BY FormStart, NoticeStart
<1>2. FormInv /\ NoticeInv /\ [EnquiriesNext]_enquiries => FormInv' /\ NoticeInv'
  <2>1. [EnquiriesNext]_enquiries => [Estimates!Next]_form /\ [Inbox!Next]_inbox
    BY DEF EnquiriesNext, enquiries
  <2> QED  BY <2>1, FormSteps, NoticeSteps
<1>3. FormInv /\ NoticeInv => FormsAndNoticesAreSound
  BY FormMeans, NoticesMean DEF FormsAndNoticesAreSound
<1> QED  BY <1>1, <1>2, <1>3, PTL DEF EnquiriesSpec
=============================================================================
