------------------------------ MODULE Webhooks ------------------------------
(***************************************************************************)
(* Outbound webhooks (modules/webhooks/service.py) and the Celery task that *)
(* executes one delivery (workers/tasks/webhooks.py).                       *)
(*                                                                          *)
(* A dispatch inserts one pending delivery row per subscribed endpoint and  *)
(* enqueues a task for it.  A task locks the delivery row, then its         *)
(* endpoint row, POSTs inside that transaction, records the verdict on both *)
(* rows, commits, and only then retries or acknowledges.  The broker is at  *)
(* least once: a task stays queued until it is acknowledged, so it can run  *)
(* again after a crash or on a second worker.  Admins update and delete     *)
(* endpoints meanwhile; deleting one cascades to its deliveries.            *)
(*                                                                          *)
(* Abstracted: URLs, secrets, bodies and signatures; backoff delays, since  *)
(* a queued retry may run at any moment; which events an endpoint           *)
(* subscribes to, since every delivery below is to a subscriber.            *)
(***************************************************************************)
EXTENDS Naturals, FiniteSets

CONSTANTS
  Endpoints,
  Deliveries,
  EndpointOf,       \* [Deliveries -> Endpoints]
  Workers,          \* Celery worker processes of the sync queue
  NoTask,           \* what an idle worker holds
  Threshold,        \* CIRCUIT_BREAKER_THRESHOLD
  MaxRetries,       \* MAX_DELIVERY_RETRIES
  MaxCrashes,       \* bound: worker deaths in one behaviour
  MaxRedeliveries,  \* bound: tasks handed to a second worker while running
  MaxRequests       \* bound: admin PATCHes and DELETEs in one behaviour

ASSUME WebhooksAssumption ==
  /\ EndpointOf \in [Deliveries -> Endpoints]
  /\ Threshold \in Nat \ {0}
  /\ NoTask \notin [d : Deliveries, n : Nat]
  /\ {MaxRetries, MaxCrashes, MaxRedeliveries, MaxRequests} \subseteq Nat

VARIABLES
  endpoint,     \* [Endpoints -> row]
  delivery,     \* [Deliveries -> row]
  broker,       \* queued tasks: [d |-> delivery, n |-> retries so far]
  pc,           \* [Workers -> control state of the task]
  task,         \* [Workers -> the task being run]
  seen,         \* [Workers -> consecutive_failures read under the lock]
  verdict,      \* [Workers -> outcome of the task so far]
  deleting,     \* endpoints whose DELETE holds the row lock, before its cascade
  posts,        \* history: [Deliveries -> POSTs made to the receiver]
  streak,       \* history: [Endpoints -> failures committed since a success or reset]
  exhausted,    \* history: deliveries whose last retry was used up
  dropped,      \* history: deliveries whose task never was, or no longer is, queued
  crashes, redeliveries, requests

tables  == <<endpoint, delivery>>
workers == <<pc, task, seen, verdict>>
history == <<posts, streak, exhausted, dropped>>
bounds  == <<crashes, redeliveries, requests>>
vars    == <<tables, broker, workers, deleting, history, bounds>>

Tasks    == [d : Deliveries, n : 0..MaxRetries]
Verdicts == {"none", "ok", "permanent", "transient", "paused", "retry"}

TypeOK ==
  /\ endpoint \in [Endpoints -> [state : {"new", "live", "deleted"}, active : BOOLEAN,
                                 open : BOOLEAN, failures : Nat]]
  /\ delivery \in [Deliveries -> [status : {"new", "pending", "delivered", "failed", "gone"},
                                  attempts : Nat]]
  /\ broker \in SUBSET Tasks
  /\ pc \in [Workers -> {"idle", "start", "locked", "post", "record", "done"}]
  /\ task \in [Workers -> Tasks \cup {NoTask}]
  /\ seen \in [Workers -> Nat]
  /\ verdict \in [Workers -> Verdicts]
  /\ deleting \in SUBSET Endpoints
  /\ posts \in [Deliveries -> Nat]
  /\ streak \in [Endpoints -> Nat]
  /\ exhausted \in SUBSET Deliveries
  /\ dropped \in SUBSET Deliveries
  /\ crashes \in 0..MaxCrashes
  /\ redeliveries \in 0..MaxRedeliveries
  /\ requests \in 0..MaxRequests

FreshEndpoint(state) == [state |-> state, active |-> TRUE, open |-> FALSE, failures |-> 0]

Init ==
  /\ endpoint = [p \in Endpoints |-> FreshEndpoint("new")]
  /\ delivery = [d \in Deliveries |-> [status |-> "new", attempts |-> 0]]
  /\ broker = {}
  /\ pc = [w \in Workers |-> "idle"]
  /\ task = [w \in Workers |-> NoTask]
  /\ seen = [w \in Workers |-> 0]
  /\ verdict = [w \in Workers |-> "none"]
  /\ deleting = {}
  /\ posts = [d \in Deliveries |-> 0]
  /\ streak = [p \in Endpoints |-> 0]
  /\ exhausted = {}
  /\ dropped = {}
  /\ crashes = 0
  /\ redeliveries = 0
  /\ requests = 0

-----------------------------------------------------------------------------
(* Row locks, read off the transactions that are open. *)

Live(p) == endpoint[p].state = "live"

On(w, d) == task[w] # NoTask /\ task[w].d = d
To(w, p) == task[w] # NoTask /\ EndpointOf[task[w].d] = p

(* Mutations: the task reads the delivery, or the endpoint, without FOR UPDATE. *)
DeliveryUnlocked(d) == FALSE
LockedByDeleteOnly(p) == p \in deleting

DeliveryLocked(d) == \E w \in Workers : On(w, d) /\ pc[w] \in {"locked", "post", "record"}

EndpointLocked(p) ==
  \/ p \in deleting
  \/ \E w \in Workers : To(w, p) /\ pc[w] \in {"post", "record"}

-----------------------------------------------------------------------------
(* Admin requests. *)

CreateEndpoint(p) ==
  /\ endpoint[p].state = "new"
  /\ endpoint' = [endpoint EXCEPT ![p] = FreshEndpoint("live")]
  /\ UNCHANGED <<delivery, broker, workers, deleting, history, bounds>>

(* PATCH is_active: turning the endpoint on also closes its breaker. *)
UpdateEndpoint(p, active) ==
  /\ Live(p)
  /\ ~EndpointLocked(p)
  /\ requests < MaxRequests
  /\ requests' = requests + 1
  /\ endpoint' = [endpoint EXCEPT ![p] =
                    IF active THEN FreshEndpoint("live") ELSE [@ EXCEPT !.active = FALSE]]
  /\ streak' = [streak EXCEPT ![p] = IF active THEN 0 ELSE @]
  /\ UNCHANGED <<delivery, broker, workers, deleting, posts, exhausted, dropped,
                 crashes, redeliveries>>

(* DELETE takes the endpoint's row lock ... *)
DeleteEndpoint(p) ==
  /\ Live(p)
  /\ ~EndpointLocked(p)
  /\ requests < MaxRequests
  /\ requests' = requests + 1
  /\ deleting' = deleting \cup {p}
  /\ UNCHANGED <<tables, broker, workers, history, crashes, redeliveries>>

(* ... and then, row by row, those of the deliveries it cascades to. *)
Cascade(p) ==
  /\ p \in deleting
  /\ \A d \in Deliveries : EndpointOf[d] = p => ~DeliveryLocked(d)
  /\ endpoint' = [endpoint EXCEPT ![p].state = "deleted"]
  /\ delivery' = [d \in Deliveries |->
                    IF EndpointOf[d] = p /\ delivery[d].status # "new"
                      THEN [delivery[d] EXCEPT !.status = "gone"] ELSE delivery[d]]
  /\ deleting' = deleting \ {p}
  /\ UNCHANGED <<broker, workers, history, bounds>>

-----------------------------------------------------------------------------
(* The fan-out of an event to one endpoint, seen from outside the relay's    *)
(* transaction: it commits with its task enqueued, commits and the relay     *)
(* dies before the post-commit callback, or rolls back after the callback    *)
(* was registered, which leaves a task for a row that never was.             *)
(* The foreign key makes the insert wait for the endpoint's row lock.        *)
Dispatch(d) ==
  /\ delivery[d].status = "new"
  /\ LET p == EndpointOf[d]
     IN  Live(p) /\ endpoint[p].active /\ ~endpoint[p].open /\ ~EndpointLocked(p)
  /\ \/ /\ delivery' = [delivery EXCEPT ![d].status = "pending"]
        /\ \/ broker' = broker \cup {[d |-> d, n |-> 0]} /\ UNCHANGED dropped
           \/ dropped' = dropped \cup {d} /\ UNCHANGED broker
     \/ /\ delivery' = [delivery EXCEPT ![d].status = "gone"]
        /\ broker' = broker \cup {[d |-> d, n |-> 0]}
        /\ UNCHANGED dropped
  /\ UNCHANGED <<endpoint, workers, deleting, posts, streak, exhausted, bounds>>

-----------------------------------------------------------------------------
(* One run of deliver_webhook. *)

(* Mutation: the task is acknowledged on receipt (no task_acks_late). *)
TakeAcksEarly(w, m) ==
  /\ pc[w] = "idle"
  /\ m \in broker
  /\ broker' = broker \ {m}
  /\ pc' = [pc EXCEPT ![w] = "start"]
  /\ task' = [task EXCEPT ![w] = m]
  /\ UNCHANGED <<tables, seen, verdict, deleting, history, bounds>>

(* A worker receives a task; it stays in the broker until acknowledged.      *)
Take(w, m) ==
  LET again == \E v \in Workers : task[v] = m
  IN  /\ pc[w] = "idle"
      /\ m \in broker
      /\ again => redeliveries < MaxRedeliveries
      /\ redeliveries' = redeliveries + (IF again THEN 1 ELSE 0)
      /\ pc' = [pc EXCEPT ![w] = "start"]
      /\ task' = [task EXCEPT ![w] = m]
      /\ UNCHANGED <<tables, broker, seen, verdict, deleting, history, crashes, requests>>

(* SELECT the delivery FOR UPDATE: gone and delivered rows end the task.     *)
LockDelivery(w) ==
  /\ pc[w] = "start"
  /\ ~DeliveryLocked(task[w].d)
  /\ pc' = [pc EXCEPT ![w] =
              IF delivery[task[w].d].status \in {"gone", "delivered"} THEN "done" ELSE "locked"]
  /\ UNCHANGED <<tables, broker, task, seen, verdict, deleting, history, bounds>>

(* SELECT the endpoint FOR UPDATE: an open breaker pauses the delivery.  The *)
(* code's "endpoint deleted" branch needs an endpoint that is gone while its *)
(* delivery is locked, which LockedDeliveryHasEndpoint excludes.             *)
LockEndpoint(w) ==
  LET p == EndpointOf[task[w].d]
  IN  /\ pc[w] = "locked"
      /\ ~EndpointLocked(p)
      /\ IF endpoint[p].open
           THEN /\ pc' = [pc EXCEPT ![w] = "record"]
                /\ verdict' = [verdict EXCEPT ![w] = "paused"]
                /\ UNCHANGED seen
           ELSE /\ pc' = [pc EXCEPT ![w] = "post"]
                /\ seen' = [seen EXCEPT ![w] = endpoint[p].failures]
                /\ UNCHANGED verdict
      /\ UNCHANGED <<tables, broker, task, deleting, history, bounds>>

(* The POST: 2xx; a rejection or an SSRF refusal; a timeout, 5xx, 408 or 429. *)
Post(w) ==
  /\ pc[w] = "post"
  /\ pc' = [pc EXCEPT ![w] = "record"]
  /\ posts' = [posts EXCEPT ![task[w].d] = @ + 1]
  /\ \E v \in {"ok", "permanent", "transient"} : verdict' = [verdict EXCEPT ![w] = v]
  /\ UNCHANGED <<tables, broker, task, seen, deleting, streak, exhausted, dropped, bounds>>

(* Does this failure open the breaker? *)
Trips(w) == seen[w] + 1 >= Threshold

(* A verdict that follows a POST counts as an attempt; a pause does not. *)
CountsAttempt(v) == v # "paused"

(* _record_success, _record_failure or the "circuit open" parking, committed. *)
Commit(w) ==
  LET d == task[w].d
      p == EndpointOf[d]
      v == verdict[w]
  IN  /\ pc[w] = "record"
      /\ pc' = [pc EXCEPT ![w] = "done"]
      /\ delivery' = [delivery EXCEPT
           ![d].status = CASE v = "ok" -> "delivered"
                           [] v = "transient" /\ ~Trips(w) -> @
                           [] OTHER -> "failed",
           ![d].attempts = IF CountsAttempt(v) THEN @ + 1 ELSE @]
      /\ endpoint' = [endpoint EXCEPT
           ![p].failures = CASE v = "ok" -> 0 [] v = "paused" -> @ [] OTHER -> seen[w] + 1,
           ![p].open = CASE v = "ok" -> FALSE [] v = "paused" -> @ [] OTHER -> @ \/ Trips(w)]
      /\ streak' = [streak EXCEPT
           ![p] = CASE v = "ok" -> 0 [] v = "paused" -> @ [] OTHER -> @ + 1]
      /\ verdict' = [verdict EXCEPT
           ![w] = IF v = "transient" /\ ~Trips(w) THEN "retry" ELSE "none"]
      /\ UNCHANGED <<broker, task, seen, deleting, posts, exhausted, dropped, bounds>>

(* Mutation: a task with nothing to deliver waits for its row by queueing     *)
(* itself again.                                                             *)
RetryUncounted(w) ==
  IF delivery[task[w].d].status # "delivered" THEN {task[w]} ELSE {}

(* What the worker puts back on the queue: the next retry, if one is left.   *)
Retry(w) ==
  IF verdict[w] = "retry" /\ task[w].n < MaxRetries
    THEN {[task[w] EXCEPT !.n = @ + 1]} ELSE {}

Release(w) ==
  /\ pc' = [pc EXCEPT ![w] = "idle"]
  /\ task' = [task EXCEPT ![w] = NoTask]
  /\ seen' = [seen EXCEPT ![w] = 0]
  /\ verdict' = [verdict EXCEPT ![w] = "none"]

(* The task raises Retry or returns, and is acknowledged. *)
Finish(w) ==
  /\ pc[w] = "done"
  /\ broker' = (broker \ {task[w]}) \cup Retry(w)
  /\ exhausted' = IF verdict[w] = "retry" /\ Retry(w) = {}
                    THEN exhausted \cup {task[w].d} ELSE exhausted
  /\ Release(w)
  /\ UNCHANGED <<tables, deleting, posts, streak, dropped, bounds>>

(* The worker dies, or the database refuses its transaction: what it had not *)
(* committed is rolled back.  When the whole worker dies the task stays      *)
(* queued (task_acks_late); when only its pool process dies, or the task     *)
(* raises, it is acknowledged all the same (task_reject_on_worker_lost is    *)
(* not set).  A retry it was about to publish may have reached the broker.   *)
Crash(w) ==
  LET next == IF pc[w] = "done" THEN Retry(w) ELSE {}
  IN  /\ pc[w] # "idle"
      /\ crashes < MaxCrashes
      /\ crashes' = crashes + 1
      /\ \E kept \in SUBSET ({task[w]} \cup next) :
           /\ broker' = (broker \ {task[w]}) \cup kept
           /\ dropped' = IF kept = {} THEN dropped \cup {task[w].d} ELSE dropped
      /\ Release(w)
      /\ UNCHANGED <<tables, deleting, posts, streak, exhausted, redeliveries, requests>>

(* A worker holds a delivery and waits for its endpoint, whose DELETE waits  *)
(* for the delivery: Postgres aborts one of the two.  The task's exception   *)
(* is not a retry, so it is acknowledged and nothing runs it again.          *)
ResolveDeadlock(w, p) ==
  /\ pc[w] = "locked"
  /\ To(w, p)
  /\ p \in deleting
  /\ \/ /\ broker' = broker \ {task[w]}
        /\ dropped' = dropped \cup {task[w].d}
        /\ Release(w)
        /\ UNCHANGED deleting
     \/ /\ deleting' = deleting \ {p}
        /\ UNCHANGED <<broker, dropped, workers>>
  /\ UNCHANGED <<tables, posts, streak, exhausted, bounds>>

-----------------------------------------------------------------------------
Admin ==
  \E p \in Endpoints :
    \/ CreateEndpoint(p)
    \/ \E active \in BOOLEAN : UpdateEndpoint(p, active)
    \/ DeleteEndpoint(p)

(* The steps of a live worker that holds a task. *)
Run(w) ==
  \/ LockDelivery(w)
  \/ LockEndpoint(w)
  \/ Post(w)
  \/ Commit(w)
  \/ Finish(w)

Database == \E p \in Endpoints : Cascade(p) \/ \E w \in Workers : ResolveDeadlock(w, p)

Next ==
  \/ Admin
  \/ Database
  \/ \E d \in Deliveries : Dispatch(d)
  \/ \E w \in Workers : (\E m \in Tasks : Take(w, m)) \/ Run(w) \/ Crash(w)

Spec == Init /\ [][Next]_vars

(* Workers poll the queue and keep running; the database finishes a DELETE   *)
(* and breaks deadlocks.  Receivers, admins and producers owe nothing.       *)
Fairness ==
  /\ WF_vars(Database)
  /\ \A w \in Workers :
       /\ WF_vars(Run(w))
       /\ WF_vars(\E m \in Tasks : Take(w, m))

FairSpec == Spec /\ Fairness

-----------------------------------------------------------------------------
(* Properties. *)

Finished(d) == delivery[d].status \in {"delivered", "failed", "gone"}

(* While a task holds the lock of a delivery row, the endpoint it is for     *)
(* exists: deliver's "endpoint deleted" branch is unreachable, because the   *)
(* cascade of the DELETE waits for the delivery's lock.                      *)
LockedDeliveryHasEndpoint ==
  \A w \in Workers : pc[w] \in {"locked", "post", "record"} =>
    /\ Live(EndpointOf[task[w].d])
    /\ delivery[task[w].d].status # "gone"

(* No failure is lost between concurrent deliveries to one endpoint: the     *)
(* counter is the number of failures since the last success or reset, and    *)
(* the breaker is open exactly when it has reached the threshold.            *)
BreakerCountsEveryFailure ==
  \A p \in Endpoints : Live(p) =>
    /\ endpoint[p].failures = streak[p]
    /\ endpoint[p].open <=> streak[p] >= Threshold

(* A pending delivery nobody is going to attempt again had its retries       *)
(* exhausted, or lost its task to a crash: of the relay before the enqueue,  *)
(* of the pool process that ran it, or in a deadlock with the deletion of    *)
(* its endpoint.                                                             *)
PendingIsAccountedFor ==
  \A d \in Deliveries :
    delivery[d].status = "pending" =>
      \/ d \in exhausted \cup dropped
      \/ \E m \in broker : m.d = d

(* A receiver is never sent a delivery it has already acknowledged on        *)
(* record, however often the broker repeats the task.                        *)
NoPostAfterDelivered ==
  [][\A d \in Deliveries : posts'[d] # posts[d] => delivery[d].status # "delivered"]_vars

(* Nothing is posted to an endpoint whose breaker is open or that is gone.   *)
BreakerStopsPosts ==
  [][\A d \in Deliveries : posts'[d] # posts[d] =>
       Live(EndpointOf[d]) /\ ~endpoint[EndpointOf[d]].open]_vars

(* An open breaker is closed by an admin's PATCH and by nothing else: no     *)
(* success that was in flight when it opened closes it (update_endpoint).    *)
OnlyAdminClosesBreaker ==
  [][\A p \in Endpoints :
       Live(p) /\ endpoint[p].open /\ ~endpoint'[p].open => requests' = requests + 1]_vars

(* Retries end: a queued delivery is eventually off the queue for good.      *)
QueueDrains == []<>(broker = {})
=============================================================================
