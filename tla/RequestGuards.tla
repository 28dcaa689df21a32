--------------------------- MODULE RequestGuards ---------------------------
(***************************************************************************)
(* What stands before the handlers in Redis: the key of a retried POST         *)
(* (core/idempotency.py), and the log of a caller's hits (core/rate_limit.py). *)
(* They share nothing, and each has its own initial states and steps.        *)
(***************************************************************************)
EXTENDS Naturals, FiniteSets

(***************************************************************************)
(* POSTs under one Idempotency-Key.  The first attempt claims the key in     *)
(* Redis with a lock that expires, and renews it while its handler runs; it  *)
(* stores the answer over the lock or, when it fails, deletes the key.  The  *)
(* lock names no owner.  The request's transaction commits only once the     *)
(* answer is stored and sent: that is when FastAPI leaves a dependency with  *)
(* yield (core/database.py get_session).                                    *)
(***************************************************************************)
CONSTANTS Tries,     \* attempts in progress at once, by one client
          MaxOutages,   \* commands Redis fails
          MaxLapses,    \* locks that expire under a live handler
          MaxForgotten, \* answers that outlive their TTL
          MaxFailures   \* handlers that raise or answer 5xx, and crashes

VARIABLES entry,     \* the key in Redis: "none", "lock" or "answer"
          try,       \* where each attempt is
          answered,  \* the client has a final answer
          effects,   \* history: transactions committed
          outages, lapses, forgotten, broken

keyed == <<entry, try, answered, effects, outages, lapses, forgotten, broken>>

KeyInit ==
  /\ entry = "none"
  /\ try = [a \in Tries |-> "idle"]
  /\ answered = FALSE
  /\ effects = 0
  /\ outages = 0 /\ lapses = 0 /\ forgotten = 0 /\ broken = 0

Goto(a, at) == try' = [try EXCEPT ![a] = at]

(* One command of an attempt: Redis does it, or fails and is ignored. *)
Command(new) ==
  \/ entry' = new /\ UNCHANGED outages
  \/ outages < MaxOutages /\ outages' = outages + 1 /\ UNCHANGED entry

(* SET NX EX: without an entry the key is claimed. *)
Claim(a) ==
  /\ try[a] = "idle"
  /\ ~answered
  /\ entry = "none"
  /\ entry' = "lock"
  /\ Goto(a, "locked")
  /\ UNCHANGED <<answered, effects, outages, lapses, forgotten, broken>>

(* With an answer it is replayed; with a lock the attempt ends with a 409.  *)
Replay(a) ==
  /\ try[a] = "idle"
  /\ ~answered
  /\ entry = "answer"
  /\ answered' = TRUE
  /\ UNCHANGED <<entry, try, effects, outages, lapses, forgotten, broken>>

(* SET or GET fails: the handler runs unprotected. *)
Bypass(a) ==
  /\ try[a] = "idle"
  /\ ~answered
  /\ outages < MaxOutages
  /\ outages' = outages + 1
  /\ Goto(a, "unlocked")
  /\ UNCHANGED <<entry, answered, effects, lapses, forgotten, broken>>

(* The handler has an answer, and an attempt with a lock stores it. *)
Succeed(a) ==
  /\ \/ try[a] = "locked" /\ Command("answer")
     \/ try[a] = "unlocked" /\ UNCHANGED <<entry, outages>>
  /\ Goto(a, "sent")
  /\ UNCHANGED <<answered, effects, lapses, forgotten, broken>>

(* The handler raises or answers 5xx: rolled back, and the key is freed. *)
Fail(a) ==
  /\ broken < MaxFailures
  /\ broken' = broken + 1
  /\ \/ try[a] = "locked" /\ Command("none")
     \/ try[a] = "unlocked" /\ UNCHANGED <<entry, outages>>
  /\ Goto(a, "idle")
  /\ UNCHANGED <<answered, effects, lapses, forgotten>>

Commit(a) ==
  /\ try[a] = "sent"
  /\ answered' = TRUE
  /\ effects' = effects + 1
  /\ Goto(a, "idle")
  /\ UNCHANGED <<entry, outages, lapses, forgotten, broken>>

(* The process dies, or the commit fails: the key stays as it is. *)
Die(a) ==
  /\ try[a] # "idle"
  /\ broken < MaxFailures
  /\ broken' = broken + 1
  /\ Goto(a, "idle")
  /\ UNCHANGED <<entry, answered, effects, outages, lapses, forgotten>>

Held == \E a \in Tries : try[a] = "locked"

(* A slip the model can tell: the lock is not renewed while the handler runs. *)
NotRenewed == FALSE

(* A live handler renews the lock, unless its renewal fails or is late. *)
Renewing == Held

(* A slip the model can tell: SET without EX. *)
ExpireNever ==
  /\ entry = "expired"
  /\ UNCHANGED keyed

Expire ==
  /\ entry = "lock"
  /\ ~Renewing
  /\ entry' = "none"
  /\ UNCHANGED <<try, answered, effects, outages, lapses, forgotten, broken>>

Lapse ==
  /\ entry = "lock"
  /\ Held
  /\ lapses < MaxLapses
  /\ lapses' = lapses + 1
  /\ entry' = "none"
  /\ UNCHANGED <<try, answered, effects, outages, forgotten, broken>>

(* The answer's TTL, which a renewal by an attempt that lost its lock cuts. *)
Forget ==
  /\ entry = "answer"
  /\ forgotten < MaxForgotten
  /\ forgotten' = forgotten + 1
  /\ entry' = "none"
  /\ UNCHANGED <<try, answered, effects, outages, lapses, broken>>

Attempt(a) == Claim(a) \/ Replay(a) \/ Succeed(a) \/ Commit(a)

KeyNext ==
  \/ \E a \in Tries : Attempt(a) \/ Bypass(a) \/ Fail(a) \/ Die(a)
  \/ Expire \/ Lapse \/ Forget

(* The client tries again until it is answered; a lock nobody renews ends.  *)
Fairness == (\A a \in Tries : WF_keyed(Attempt(a))) /\ WF_keyed(Expire)

(* "A client that retries a POST should get the same result back, not a      *)
(* second lead/booking/checkout": beyond one, every transaction that commits *)
(* has a Redis failure, a lock that expired under a live handler or an       *)
(* answer that was forgotten to explain it, whatever attempts fail or die.   *)
EffectsAreExplained == effects <= 1 + outages + lapses + forgotten

(* However attempts die, the client is not answered 409 for ever. *)
ClientIsAnswered == <>answered

-----------------------------------------------------------------------------
(***************************************************************************)
(* The sliding-window log of one caller.  A request reads its clock, then    *)
(* logs its hit and counts the log in one atomic pipeline; what the clock    *)
(* said may be old by then.                                                 *)
(***************************************************************************)
CONSTANTS Callers,   \* requests in progress at once
          Limit, Window,
          MaxTime, MaxHits,
          Away

VARIABLES clock, log, read,
          hits,      \* hits made so far, which tells them apart
          accepted,  \* history: hits let through
          newest, late

limits == <<clock, log, read, hits, accepted, newest, late>>

RateInit ==
  /\ clock = Window
  /\ log = {}
  /\ read = [r \in Callers |-> Away]
  /\ hits = 0
  /\ accepted = {}
  /\ newest = 0
  /\ late = 0

ReadClock(r) ==
  /\ read[r] = Away
  /\ read' = [read EXCEPT ![r] = clock]
  /\ UNCHANGED <<clock, log, hits, accepted, newest, late>>

InWindow(entries, now) == {h \in entries : h[1] > now - Window}

(* The hit is logged whether it is let through or not; a hit from before    *)
(* the newest one is late.                                                   *)
Consume(r) ==
  /\ read[r] # Away
  /\ hits < MaxHits
  /\ hits' = hits + 1
  /\ LET now == read[r]
         counted == InWindow(log, now) \cup {<<now, hits>>}
         ok == Cardinality(counted) <= Limit
     IN /\ log' = counted
        /\ accepted' = IF ok THEN accepted \cup {<<now, hits>>} ELSE accepted
        /\ late' = IF ok /\ now < newest THEN late + 1 ELSE late
        /\ newest' = IF now > newest THEN now ELSE newest
  /\ read' = [read EXCEPT ![r] = Away]
  /\ UNCHANGED clock

(* Redis fails: let through and not counted (degrade open). *)
Unlimited(r) ==
  /\ read[r] # Away
  /\ read' = [read EXCEPT ![r] = Away]
  /\ UNCHANGED <<clock, log, hits, accepted, newest, late>>

Tick == clock < MaxTime /\ clock' = clock + 1 /\ UNCHANGED <<log, read, hits, accepted, newest, late>>

RateNext == Tick \/ \E r \in Callers : ReadClock(r) \/ Consume(r) \/ Unlimited(r)

(* No window, wherever it begins, lets more than the limit through ("a       *)
(* counter lets a caller spend a full budget at the end of one window and    *)
(* another immediately at the start of the next"), but for hits whose clock  *)
(* was read before a hit that overtook them.                                 *)
NoWindowOverfull ==
  \A now \in 0..MaxTime :
    Cardinality({h \in accepted : h[1] \in (now - Window + 1)..now}) <= Limit + late

-----------------------------------------------------------------------------
GuardsInit == KeyInit /\ RateInit
GuardsNext == (KeyNext /\ UNCHANGED limits) \/ (RateNext /\ UNCHANGED keyed)
GuardsSpec == GuardsInit /\ [][GuardsNext]_<<keyed, limits>>

RequestsAreGuarded == EffectsAreExplained /\ NoWindowOverfull
=============================================================================
