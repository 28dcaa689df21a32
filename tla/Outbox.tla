------------------------------- MODULE Outbox -------------------------------
(***************************************************************************)
(* The transactional outbox (core/events.py) and the Beat task that drains  *)
(* it (workers/tasks/outbox.py).                                            *)
(*                                                                          *)
(* A producer writes an event row in its own transaction.  Every tick, a    *)
(* relay reads the tenants that are not suspended and, one transaction per  *)
(* tenant, claims a batch of due pending rows FOR UPDATE SKIP LOCKED, runs  *)
(* the handlers of each row inside one savepoint per row, records the       *)
(* outcomes, commits, and then runs the post-commit callbacks the handlers  *)
(* registered.  Ticks may overlap and a worker may die at any point.        *)
(*                                                                          *)
(* Abstracted: payloads; the wall clock, which is one "is due" bit per row  *)
(* raised when its backoff has elapsed; the order inside a batch and among  *)
(* the handlers of an event, which is arbitrary here and therefore covers   *)
(* the code's; a handler's database work, which is one unit of effect.      *)
(***************************************************************************)
EXTENDS Naturals, FiniteSets

CONSTANTS
  Tenants,      \* agencies on the platform
  Events,       \* domain events that producers may emit
  Handlers,     \* code-owned consumers
  Relays,       \* worker processes that can run a relay tick
  TenantOf,     \* [Events -> Tenants]
  HandlersOf,   \* [Events -> SUBSET Handlers], the handler registry
  MaxAttempts,  \* OUTBOX_MAX_ATTEMPTS
  BatchSize,    \* OUTBOX_BATCH_SIZE
  MaxCrashes,   \* bound: worker deaths in one behaviour
  MaxSuspends   \* bound: tenant suspensions in one behaviour

ASSUME OutboxAssumption ==
  /\ TenantOf \in [Events -> Tenants]
  /\ HandlersOf \in [Events -> SUBSET Handlers]
  /\ MaxAttempts \in Nat \ {0}
  /\ BatchSize \in Nat \ {0}
  /\ MaxCrashes \in Nat
  /\ MaxSuspends \in Nat
  /\ IsFiniteSet(Events)

VARIABLES
  suspended,    \* set of suspended tenants
  outbox,       \* [Events -> row], the committed outbox table
  applied,      \* [Events -> [Handlers -> Nat]], committed handler effects
  pc,           \* [Relays -> control state]
  todo,         \* [Relays -> tenants of this tick not drained yet]
  claim,        \* [Relays -> rows locked by the open transaction]
  left,         \* [Relays -> claimed rows not processed yet]
  ran,          \* [Relays -> <<event, handler>> inside the open savepoint]
  staged,       \* [Relays -> <<event, handler>> the transaction will commit]
  outcome,      \* [Relays -> [Events -> outcome of the row in this batch]]
  hooks,        \* [Relays -> post-commit callbacks registered by handlers]
  enqueued,     \* history: callbacks that ran to their end
  lost,         \* history: callbacks dropped by a crash or a broker failure
  crashes, suspends

db     == <<suspended, outbox, applied>>
batch  == <<claim, left, ran, staged, outcome>>
bounds == <<crashes, suspends>>
vars   == <<db, pc, todo, batch, hooks, enqueued, lost, bounds>>

Status   == {"absent", "pending", "delivered", "failed"}
Outcomes == {"none", "delivered", "retry", "exhausted", "unhandled"}
Effects  == Events \X Handlers
Row      == [status : Status, attempts : Nat, due : BOOLEAN]

TypeOK ==
  /\ suspended \in SUBSET Tenants
  /\ outbox \in [Events -> Row]
  /\ applied \in [Events -> [Handlers -> Nat]]
  /\ pc \in [Relays -> {"idle", "tick", "drain", "hooks"}]
  /\ todo \in [Relays -> SUBSET Tenants]
  /\ claim \in [Relays -> SUBSET Events]
  /\ left \in [Relays -> SUBSET Events]
  /\ ran \in [Relays -> SUBSET Effects]
  /\ staged \in [Relays -> SUBSET Effects]
  /\ outcome \in [Relays -> [Events -> Outcomes]]
  /\ hooks \in [Relays -> SUBSET Effects]
  /\ enqueued \in SUBSET Effects
  /\ lost \in SUBSET Effects
  /\ crashes \in 0..MaxCrashes
  /\ suspends \in 0..MaxSuspends

NoOutcome == [e \in Events |-> "none"]

Init ==
  /\ suspended = {}
  /\ outbox = [e \in Events |-> [status |-> "absent", attempts |-> 0, due |-> FALSE]]
  /\ applied = [e \in Events |-> [h \in Handlers |-> 0]]
  /\ pc = [r \in Relays |-> "idle"]
  /\ todo = [r \in Relays |-> {}]
  /\ claim = [r \in Relays |-> {}]
  /\ left = [r \in Relays |-> {}]
  /\ ran = [r \in Relays |-> {}]
  /\ staged = [r \in Relays |-> {}]
  /\ outcome = [r \in Relays |-> NoOutcome]
  /\ hooks = [r \in Relays |-> {}]
  /\ enqueued = {}
  /\ lost = {}
  /\ crashes = 0
  /\ suspends = 0

-----------------------------------------------------------------------------
(* The world around the relay. *)

(* emit_event: the producer's transaction commits with the event row in it, *)
(* due at once (next_attempt_at defaults to now()).                         *)
Emit(e) ==
  /\ outbox[e].status = "absent"
  /\ outbox' = [outbox EXCEPT ![e] = [status |-> "pending", attempts |-> 0, due |-> TRUE]]
  /\ UNCHANGED <<suspended, applied, pc, todo, batch, hooks, enqueued, lost, bounds>>

(* The clock reaches next_attempt_at. *)
BackoffElapses(e) ==
  /\ outbox[e].status = "pending"
  /\ ~outbox[e].due
  /\ outbox' = [outbox EXCEPT ![e].due = TRUE]
  /\ UNCHANGED <<suspended, applied, pc, todo, batch, hooks, enqueued, lost, bounds>>

Suspend(t) ==
  /\ t \notin suspended
  /\ suspends < MaxSuspends
  /\ suspended' = suspended \cup {t}
  /\ suspends' = suspends + 1
  /\ UNCHANGED <<outbox, applied, pc, todo, batch, hooks, enqueued, lost, crashes>>

Reactivate(t) ==
  /\ t \in suspended
  /\ suspended' = suspended \ {t}
  /\ UNCHANGED <<outbox, applied, pc, todo, batch, hooks, enqueued, lost, bounds>>

-----------------------------------------------------------------------------
(* One relay tick. *)

(* relay_outbox reads the tenants to drain in a transaction of its own. *)
StartTick(r) ==
  /\ pc[r] = "idle"
  /\ pc' = [pc EXCEPT ![r] = "tick"]
  /\ todo' = [todo EXCEPT ![r] = Tenants \ suspended]
  /\ UNCHANGED <<db, batch, hooks, enqueued, lost, bounds>>

(* Mutation: the due rows are selected without FOR UPDATE. *)
NothingLocked == {}

(* Rows another open transaction has claimed: SKIP LOCKED passes over them. *)
Locked == UNION {claim[r] : r \in Relays}

Claimable(t) ==
  {e \in Events : TenantOf[e] = t /\ outbox[e].status = "pending" /\ outbox[e].due} \ Locked

(* The transaction of tenant t begins and claims a full batch, or all there is. *)
Claim(r, t) ==
  /\ pc[r] = "tick"
  /\ t \in todo[r]
  /\ \E rows \in SUBSET Claimable(t) :
       /\ Cardinality(rows) <= BatchSize
       /\ \/ rows = Claimable(t)
          \/ Cardinality(rows) = BatchSize
       /\ claim' = [claim EXCEPT ![r] = rows]
       /\ left' = [left EXCEPT ![r] = rows]
  /\ pc' = [pc EXCEPT ![r] = "drain"]
  /\ todo' = [todo EXCEPT ![r] = @ \ {t}]
  /\ UNCHANGED <<db, ran, staged, outcome, hooks, enqueued, lost, bounds>>

(* The event a relay is working on: the one whose savepoint is open, or any *)
(* claimed row that is still to be processed.                               *)
Current(r, e) ==
  /\ pc[r] = "drain"
  /\ e \in left[r]
  /\ \A x \in ran[r] : x[1] = e

(* No handler is registered for the event's type: parked, never retried. *)
ParkUnhandled(r, e) ==
  /\ Current(r, e)
  /\ HandlersOf[e] = {}
  /\ outcome' = [outcome EXCEPT ![r][e] = "unhandled"]
  /\ left' = [left EXCEPT ![r] = @ \ {e}]
  /\ UNCHANGED <<db, pc, todo, claim, ran, staged, hooks, enqueued, lost, bounds>>

(* One handler of the event returns.  After the last one the savepoint is   *)
(* released: its effects belong to the transaction.                         *)
HandlerSucceeds(r, e, h) ==
  LET done == ran[r] \cup {<<e, h>>}
      last == {x[2] : x \in done} = HandlersOf[e]
  IN  /\ Current(r, e)
      /\ h \in HandlersOf[e]
      /\ <<e, h>> \notin ran[r]
      /\ hooks' = [hooks EXCEPT ![r] = @ \cup {<<e, h>>}]
      /\ ran' = [ran EXCEPT ![r] = IF last THEN {} ELSE done]
      /\ staged' = [staged EXCEPT ![r] = IF last THEN @ \cup done ELSE @]
      /\ outcome' = [outcome EXCEPT ![r][e] = IF last THEN "delivered" ELSE @]
      /\ left' = [left EXCEPT ![r] = IF last THEN @ \ {e} ELSE @]
      /\ UNCHANGED <<db, pc, todo, claim, enqueued, lost, bounds>>

(* Mutations: no savepoint around the handlers, so that what ran before the  *)
(* failure stays in the transaction; no try around them either, so that a    *)
(* failure ends the tick and nothing is recorded.                            *)
HandlerFailsNoSavepoint(r, e, h) ==
  /\ Current(r, e)
  /\ h \in HandlersOf[e]
  /\ <<e, h>> \notin ran[r]
  /\ staged' = [staged EXCEPT ![r] = @ \cup ran[r]]
  /\ ran' = [ran EXCEPT ![r] = {}]
  /\ outcome' = [outcome EXCEPT ![r][e] =
                   IF outbox[e].attempts + 1 >= MaxAttempts THEN "exhausted" ELSE "retry"]
  /\ left' = [left EXCEPT ![r] = @ \ {e}]
  /\ UNCHANGED <<db, pc, todo, claim, hooks, enqueued, lost, bounds>>

HandlerFailsEndsTick(r, e, h) ==
  /\ Current(r, e)
  /\ h \in HandlersOf[e]
  /\ pc' = [pc EXCEPT ![r] = "idle"]
  /\ claim' = [claim EXCEPT ![r] = {}]
  /\ left' = [left EXCEPT ![r] = {}]
  /\ ran' = [ran EXCEPT ![r] = {}]
  /\ staged' = [staged EXCEPT ![r] = {}]
  /\ outcome' = [outcome EXCEPT ![r] = NoOutcome]
  /\ hooks' = [hooks EXCEPT ![r] = {}]
  /\ UNCHANGED <<db, todo, enqueued, lost, bounds>>

Exhausted(attempts) == attempts >= MaxAttempts

(* One handler raises.  The savepoint rolls back what the event's handlers   *)
(* did to the database; a callback they registered stays on the session.     *)
HandlerFails(r, e, h) ==
  /\ Current(r, e)
  /\ h \in HandlersOf[e]
  /\ <<e, h>> \notin ran[r]
  /\ hooks' \in {hooks, [hooks EXCEPT ![r] = @ \cup {<<e, h>>}]}
  /\ ran' = [ran EXCEPT ![r] = {}]
  /\ outcome' = [outcome EXCEPT ![r][e] =
                   IF Exhausted(outbox[e].attempts + 1) THEN "exhausted" ELSE "retry"]
  /\ left' = [left EXCEPT ![r] = @ \ {e}]
  /\ UNCHANGED <<db, pc, todo, claim, staged, enqueued, lost, bounds>>

(* What the batch writes on a claimed row. *)
Written(row, result) ==
  [status   |-> CASE result = "delivered" -> "delivered"
                  [] result \in {"exhausted", "unhandled"} -> "failed"
                  [] OTHER -> row.status,
   attempts |-> row.attempts + 1,
   due      |-> result # "retry"]

(* The whole batch commits: row updates and handler effects together. *)
Commit(r) ==
  /\ pc[r] = "drain"
  /\ left[r] = {}
  /\ outbox' = [e \in Events |-> IF e \in claim[r] THEN Written(outbox[e], outcome[r][e])
                                                   ELSE outbox[e]]
  /\ applied' = [e \in Events |-> [h \in Handlers |->
                   IF <<e, h>> \in staged[r] THEN applied[e][h] + 1 ELSE applied[e][h]]]
  /\ pc' = [pc EXCEPT ![r] = "hooks"]
  /\ claim' = [claim EXCEPT ![r] = {}]
  /\ staged' = [staged EXCEPT ![r] = {}]
  /\ outcome' = [outcome EXCEPT ![r] = NoOutcome]
  /\ UNCHANGED <<suspended, todo, left, ran, hooks, enqueued, lost, bounds>>

(* Mutation: callbacks are not isolated, the first to raise drops the rest. *)
RunHookUnguarded(r, x) ==
  /\ pc[r] = "hooks"
  /\ x \in hooks[r]
  /\ \/ hooks' = [hooks EXCEPT ![r] = @ \ {x}] /\ enqueued' = enqueued \cup {x} /\ UNCHANGED lost
     \/ hooks' = [hooks EXCEPT ![r] = {}] /\ lost' = lost \cup {x} /\ UNCHANGED enqueued
  /\ UNCHANGED <<db, pc, todo, batch, bounds>>

(* A post-commit callback runs, or raises and is logged and stepped over.    *)
RunHook(r, x) ==
  /\ pc[r] = "hooks"
  /\ x \in hooks[r]
  /\ hooks' = [hooks EXCEPT ![r] = @ \ {x}]
  /\ \/ enqueued' = enqueued \cup {x} /\ UNCHANGED lost
     \/ lost' = lost \cup {x} /\ UNCHANGED enqueued
  /\ UNCHANGED <<db, pc, todo, batch, bounds>>

(* The callbacks are drained: on to the next tenant of the tick. *)
NextTenant(r) ==
  /\ pc[r] = "hooks"
  /\ hooks[r] = {}
  /\ pc' = [pc EXCEPT ![r] = "tick"]
  /\ UNCHANGED <<db, todo, batch, hooks, enqueued, lost, bounds>>

EndTick(r) ==
  /\ pc[r] = "tick"
  /\ todo[r] = {}
  /\ pc' = [pc EXCEPT ![r] = "idle"]
  /\ UNCHANGED <<db, todo, batch, hooks, enqueued, lost, bounds>>

(* The worker dies, or the database refuses the transaction and the tick's   *)
(* exception ends the task: what is not committed is rolled back, its locks  *)
(* are released, and callbacks not yet run are gone.                         *)
Crash(r) ==
  /\ pc[r] # "idle"
  /\ crashes < MaxCrashes
  /\ crashes' = crashes + 1
  /\ pc' = [pc EXCEPT ![r] = "idle"]
  /\ todo' = [todo EXCEPT ![r] = {}]
  /\ claim' = [claim EXCEPT ![r] = {}]
  /\ left' = [left EXCEPT ![r] = {}]
  /\ ran' = [ran EXCEPT ![r] = {}]
  /\ staged' = [staged EXCEPT ![r] = {}]
  /\ outcome' = [outcome EXCEPT ![r] = NoOutcome]
  /\ hooks' = [hooks EXCEPT ![r] = {}]
  /\ lost' = lost \cup hooks[r]
  /\ UNCHANGED <<db, enqueued, suspends>>

-----------------------------------------------------------------------------
Process(r, e) ==
  \/ ParkUnhandled(r, e)
  \/ \E h \in Handlers : HandlerSucceeds(r, e, h) \/ HandlerFails(r, e, h)

(* The steps a live worker takes inside a tick. *)
TickStep(r) ==
  \/ \E t \in Tenants : Claim(r, t)
  \/ \E e \in Events : Process(r, e)
  \/ Commit(r)
  \/ \E x \in Effects : RunHook(r, x)
  \/ NextTenant(r)
  \/ EndTick(r)

World ==
  \/ \E e \in Events : Emit(e) \/ BackoffElapses(e)
  \/ \E t \in Tenants : Suspend(t) \/ Reactivate(t)

Next ==
  \/ World
  \/ \E r \in Relays : StartTick(r) \/ TickStep(r) \/ Crash(r)

Spec == Init /\ [][Next]_vars

(* Beat starts a tick every minute and a live worker keeps going; the clock  *)
(* moves.  Nothing makes a producer emit, a tenant pay or a handler succeed. *)
Fairness ==
  /\ \A r \in Relays : WF_vars(StartTick(r)) /\ WF_vars(TickStep(r))
  /\ \A e \in Events : WF_vars(BackoffElapses(e))

FairSpec == Spec /\ Fairness

-----------------------------------------------------------------------------
(* Properties. *)

Settled(e) == outbox[e].status \in {"delivered", "failed"}

(* The database work of an event's handlers is committed exactly once for a  *)
(* delivered event and not at all otherwise, whatever the overlap of ticks,  *)
(* the handler that failed after others had run, or the crash (drain_outbox: *)
(* "a half-applied event is never committed").                               *)
AppliedExactlyOnce ==
  \A e \in Events, h \in Handlers :
    applied[e][h] = IF outbox[e].status = "delivered" /\ h \in HandlersOf[e] THEN 1 ELSE 0

(* A row is parked failed only when its attempts are exhausted or nothing    *)
(* consumes its type, and a pending row always has an attempt left.          *)
FailedOnlyWhenExhausted ==
  \A e \in Events :
    /\ outbox[e].status = "failed" => \/ outbox[e].attempts = MaxAttempts
                                      \/ HandlersOf[e] = {} /\ outbox[e].attempts = 1
    /\ outbox[e].status = "pending" => outbox[e].attempts < MaxAttempts

(* The post-commit work of a delivered event is either done, about to be     *)
(* done by a relay that is past its commit, or was lost to a crash or a      *)
(* broker failure: no other path drops it (webhooks dispatch_event, note b). *)
CallbacksLostOnlyByFailure ==
  \A x \in Effects :
    applied[x[1]][x[2]] > 0 =>
      \/ x \in enqueued \cup lost
      \/ \E r \in Relays : pc[r] = "hooks" /\ x \in hooks[r]

(* A delivered or failed row is never touched again (OutboxStatus calls both *)
(* terminal): no relay that read it as pending can write over it.            *)
TerminalRowsStay == [][\A e \in Events : Settled(e) => outbox'[e] = outbox[e]]_vars

(* An event of a tenant that is not suspended for ever ends delivered or     *)
(* failed: a poison event cannot wedge the drain, a suspension only pauses   *)
(* it, and a crashed tick is made good by a later one.                       *)
EventuallySettled ==
  \A e \in Events :
    (outbox[e].status = "pending" /\ [](TenantOf[e] \notin suspended)) ~> Settled(e)

(* Outbox implements the promise of DurableEvents. *)
Durable == INSTANCE DurableEvents
  WITH status <- [e \in Events |-> outbox[e].status]

Implements == Durable!Spec
=============================================================================
