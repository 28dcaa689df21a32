------------------------------ MODULE Lockout ------------------------------
(***************************************************************************)
(* Failed sign-ins (core/lockout.py, auth/service.py login).  Every failure *)
(* counts against its account and against its address, in Redis; a count    *)
(* that reaches its threshold locks its key for a doubling delay.  The lock *)
(* is read first and the failure recorded after the password was checked,   *)
(* so attempts that overlap all pass the check.  Delays and the counting    *)
(* window are what they are here for: a lock lapses, a count is forgotten.  *)
(***************************************************************************)
EXTENDS Naturals, FiniteSets

CONSTANTS Emails,      \* accounts under attempt, from one address
          Attempts,    \* sign-ins in progress at once
          Threshold,   \* failures that lock: Threshold[email], Threshold["ip"]
          MaxFailures, \* recorded failures in a behaviour
          MaxOutages,  \* checks and records Redis failed
          Idle

VARIABLES count, locked, attempt, failures, outages,
          guesses,     \* history: failures on a key since its count began
          lapses       \* history: locks on a key that have run out since then

attempts == <<count, locked, attempt, failures, outages, guesses, lapses>>

Keys == Emails \cup {"ip"}
KeysOf(email) == {email, "ip"}

Init ==
  /\ count = [k \in Keys |-> 0]
  /\ locked = {}
  /\ attempt = [a \in Attempts |-> Idle]
  /\ failures = 0
  /\ outages = 0
  /\ guesses = [k \in Keys |-> 0]
  /\ lapses = [k \in Keys |-> 0]

(* A check Redis cannot answer lets the attempt pass. *)
IsLocked(email) == locked \cap KeysOf(email) # {}

Check(a, email) ==
  /\ attempt[a] = Idle
  /\ failures < MaxFailures
  /\ \/ ~IsLocked(email) /\ UNCHANGED outages
     \/ IsLocked(email) /\ outages < MaxOutages /\ outages' = outages + 1
  /\ attempt' = [attempt EXCEPT ![a] = email]
  /\ UNCHANGED <<count, locked, failures, guesses, lapses>>

Crossed(k) == count'[k] >= Threshold[k]

(* Both counts go up at once, and each key over its threshold is locked. *)
RecordFailure(a) ==
  /\ attempt[a] # Idle
  /\ failures < MaxFailures
  /\ failures' = failures + 1
  /\ attempt' = [attempt EXCEPT ![a] = Idle]
  /\ count' = [k \in Keys |-> count[k] + IF k \in KeysOf(attempt[a]) THEN 1 ELSE 0]
  /\ guesses' = [k \in Keys |-> guesses[k] + IF k \in KeysOf(attempt[a]) THEN 1 ELSE 0]
  /\ locked' = locked \cup {k \in KeysOf(attempt[a]) : Crossed(k)}
  /\ UNCHANGED <<outages, lapses>>

(* Redis is down: this failure is not counted. *)
RecordFails(a) ==
  /\ attempt[a] # Idle
  /\ outages < MaxOutages
  /\ outages' = outages + 1
  /\ attempt' = [attempt EXCEPT ![a] = Idle]
  /\ UNCHANGED <<count, locked, failures, guesses, lapses>>

Forgotten(f, forget) == [k \in Keys |-> IF k \in forget THEN 0 ELSE f[k]]

(* The right password clears the account's keys and the address's. *)
Reset(a) ==
  /\ attempt[a] # Idle
  /\ attempt' = [attempt EXCEPT ![a] = Idle]
  /\ LET cleared == KeysOf(attempt[a]) IN
       /\ count' = Forgotten(count, cleared)
       /\ locked' = locked \ cleared
       /\ guesses' = Forgotten(guesses, cleared)
       /\ lapses' = Forgotten(lapses, cleared)
  /\ UNCHANGED <<failures, outages>>

LockLapses(k) ==
  /\ k \in locked
  /\ locked' = locked \ {k}
  /\ lapses' = [lapses EXCEPT ![k] = @ + 1]
  /\ UNCHANGED <<count, attempt, failures, outages, guesses>>

WindowEnds(k) ==
  /\ count[k] > 0
  /\ count' = Forgotten(count, {k})
  /\ guesses' = Forgotten(guesses, {k})
  /\ lapses' = Forgotten(lapses, {k})
  /\ UNCHANGED <<locked, attempt, failures, outages>>

Next ==
  \/ \E a \in Attempts : \/ \E email \in Emails : Check(a, email)
                         \/ RecordFailure(a) \/ RecordFails(a) \/ Reset(a)
  \/ \E k \in Keys : LockLapses(k) \/ WindowEnds(k)

Spec == Init /\ [][Next]_attempts

(* A key takes at most its threshold of failures, and as many more as there *)
(* are sign-ins at once for the overlap and for each lock that ran out       *)
(* (core/lockout.py record_failure); only a Redis failure lets others pass.  *)
GuessesAreBounded ==
  \A k \in Keys :
    guesses[k] <= Threshold[k] - 1 + Cardinality(Attempts) * (1 + lapses[k]) + outages
=============================================================================
