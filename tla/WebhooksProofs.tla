--------------------------- MODULE WebhooksProofs ---------------------------
(***************************************************************************)
(* Proofs about Webhooks, for any endpoints, deliveries, workers and bounds: *)
(* type correctness, the failure counter and the breaker, the deliveries'    *)
(* endpoints, what is never posted, and what becomes of pending deliveries.  *)
(*                                                                           *)
(* They rest on the row locks.  LockInv says that a delivery or an endpoint  *)
(* row has one holder; what a task has read of a row it has locked is then   *)
(* still so when it writes (ReadInv), and a locked delivery cannot lose its  *)
(* endpoint, by the foreign key (KeyInv) and the cascade's wait for its lock. *)
(* A task that is acknowledged has settled its delivery, or asks for a retry  *)
(* (DoneInv); therefore no pending delivery is forgotten.                    *)
(***************************************************************************)
EXTENDS Webhooks, TLAPS

HoldsDelivery == {"locked", "post", "record"}
HoldsEndpoint == {"post", "record"}

EndpointRow == [state : {"new", "live", "deleted"}, active : BOOLEAN, open : BOOLEAN,
                failures : Nat]
DeliveryRow == [status : {"new", "pending", "delivered", "failed", "gone"}, attempts : Nat]

(* A queued or running task is for a delivery that has been dispatched. *)
QueueInv ==
  /\ \A m \in broker : delivery[m.d].status # "new"
  /\ \A w \in Workers : pc[w] # "idle" =>
       task[w] \in Tasks /\ delivery[task[w].d].status # "new"

(* The foreign key: a row of the delivery log has its endpoint. *)
KeyInv ==
  \A d \in Deliveries : delivery[d].status \notin {"new", "gone"} => Live(EndpointOf[d])

(* Every row lock has one holder; a DELETE holds that of a live endpoint. *)
LockInv ==
  /\ \A v, w \in Workers :
       pc[v] \in HoldsDelivery /\ pc[w] \in HoldsDelivery /\ task[v].d = task[w].d => v = w
  /\ \A v, w \in Workers :
       pc[v] \in HoldsEndpoint /\ pc[w] \in HoldsEndpoint
         /\ EndpointOf[task[v].d] = EndpointOf[task[w].d] => v = w
  /\ \A w \in Workers : pc[w] \in HoldsEndpoint => EndpointOf[task[w].d] \notin deleting
  /\ \A p \in deleting : Live(p)

(* What a task has read under its locks still holds. *)
ReadInv ==
  \A w \in Workers :
    /\ pc[w] \in HoldsDelivery => delivery[task[w].d].status \in {"pending", "failed"}
    /\ pc[w] = "post" \/ (pc[w] = "record" /\ verdict[w] # "paused") =>
         /\ seen[w] = endpoint[EndpointOf[task[w].d]].failures
         /\ ~endpoint[EndpointOf[task[w].d]].open

(* No failure is on record of an endpoint that does not exist yet. *)
FreshInv == \A p \in Endpoints : endpoint[p].state = "new" => streak[p] = 0

IInv ==
  /\ TypeOK
  /\ QueueInv
  /\ KeyInv
  /\ LockInv
  /\ ReadInv
  /\ FreshInv
  /\ BreakerCountsEveryFailure

-----------------------------------------------------------------------------
(* No endpoint, delivery or task exists at the start. *)
LEMMA InitIInv == Init => IInv
BY WebhooksAssumption
   DEF Init, IInv, TypeOK, QueueInv, KeyInv, LockInv, ReadInv, FreshInv, BreakerCountsEveryFailure,
       FreshEndpoint, Tasks, Verdicts, HoldsDelivery, HoldsEndpoint, Live

(* create_endpoint writes an unused row and touches no worker. *)
LEMMA CreateIInv ==
  ASSUME IInv, NEW p \in Endpoints, CreateEndpoint(p)
  PROVE  IInv'
<1> USE WebhooksAssumption DEF IInv, CreateEndpoint, workers, history, bounds
<1>1. TypeOK'
  BY DEF TypeOK, FreshEndpoint
<1>2. QueueInv'
  BY DEF QueueInv
<1>3. KeyInv'
  BY DEF KeyInv, Live
<1>4. LockInv'
  BY DEF LockInv, Live
<1>5. ReadInv'
  <2> SUFFICES ASSUME NEW w \in Workers
               PROVE  /\ pc[w] \in HoldsDelivery => delivery[task[w].d].status \in {"pending", "failed"}
                      /\ pc[w] = "post" \/ (pc[w] = "record" /\ verdict[w] # "paused") =>
                           /\ seen[w] = endpoint'[EndpointOf[task[w].d]].failures
                           /\ ~endpoint'[EndpointOf[task[w].d]].open
    BY DEF ReadInv
  <2>1. pc[w] \in HoldsEndpoint =>
          /\ EndpointOf[task[w].d] # p
          /\ EndpointOf[task[w].d] \in Endpoints
    BY DEF ReadInv, KeyInv, QueueInv, HoldsDelivery, HoldsEndpoint, Live, Tasks
  <2> QED BY <2>1 DEF ReadInv, HoldsEndpoint
<1>6. FreshInv'
  BY DEF FreshInv
<1>7. BreakerCountsEveryFailure'
  BY DEF BreakerCountsEveryFailure, FreshInv, Live, FreshEndpoint
<1> QED BY <1>1, <1>2, <1>3, <1>4, <1>5, <1>6, <1>7

(* update_endpoint writes the row only when no worker holds it. *)
LEMMA UpdateIInv ==
  ASSUME IInv, NEW p \in Endpoints, NEW active \in BOOLEAN, UpdateEndpoint(p, active)
  PROVE  IInv'
<1> USE WebhooksAssumption DEF IInv, UpdateEndpoint, workers
<1>1. TypeOK'
  <2>1. endpoint[p] \in EndpointRow
    BY DEF TypeOK, EndpointRow
  <2>2. FreshEndpoint("live") \in EndpointRow /\ [endpoint[p] EXCEPT !.active = FALSE] \in EndpointRow
    BY <2>1 DEF FreshEndpoint, EndpointRow
  <2>3. endpoint' \in [Endpoints -> EndpointRow]
    BY <2>2 DEF TypeOK, EndpointRow
  <2> QED BY <2>3 DEF TypeOK, EndpointRow
<1>2. QueueInv'
  BY DEF QueueInv
<1>3. KeyInv'
  BY DEF KeyInv, Live, FreshEndpoint
<1>4. LockInv'
  BY DEF LockInv, Live, EndpointLocked
<1>5. ReadInv'
  BY DEF ReadInv, QueueInv, EndpointLocked, To, Tasks
<1>6. FreshInv'
  BY DEF FreshInv, FreshEndpoint
<1>7. BreakerCountsEveryFailure'
  BY DEF BreakerCountsEveryFailure, TypeOK, Live, FreshEndpoint
<1> QED BY <1>1, <1>2, <1>3, <1>4, <1>5, <1>6, <1>7

(* delete_endpoint takes the lock of a live row nobody holds; Cascade follows. *)
LEMMA DeleteIInv ==
  ASSUME IInv, NEW p \in Endpoints, DeleteEndpoint(p)
  PROVE  IInv'
<1> USE WebhooksAssumption DEF IInv, DeleteEndpoint, tables, workers, history
<1>1. TypeOK'
  BY DEF TypeOK
<1>2. QueueInv'
  BY DEF QueueInv
<1>3. KeyInv'
  BY DEF KeyInv, Live
<1>4. LockInv'
  BY DEF LockInv, QueueInv, HoldsEndpoint, Live, EndpointLocked, To, Tasks
<1>5. ReadInv'
  BY DEF ReadInv
<1>6. FreshInv'
  BY DEF FreshInv
<1>7. BreakerCountsEveryFailure'
  BY DEF BreakerCountsEveryFailure, Live
<1> QED BY <1>1, <1>2, <1>3, <1>4, <1>5, <1>6, <1>7

(* The cascade's write to a row of webhook_endpoints. *)
LEMMA StateWritten ==
  ASSUME NEW f \in [Endpoints -> EndpointRow], NEW p \in Endpoints
  PROVE  [f EXCEPT ![p].state = "deleted"] \in [Endpoints -> EndpointRow]
BY DEF EndpointRow

(* The cascade removes an endpoint no worker holds, and all its deliveries. *)
LEMMA CascadeIInv ==
  ASSUME IInv, NEW p \in Endpoints, Cascade(p)
  PROVE  IInv'
<1> USE WebhooksAssumption DEF IInv, Cascade, workers, history, bounds
<1>1. TypeOK'
  <2>a. endpoint \in [Endpoints -> EndpointRow] /\ p \in Endpoints
    BY DEF TypeOK, EndpointRow
  <2>1. endpoint' \in [Endpoints -> EndpointRow]
    BY <2>a, StateWritten
  <2>2. delivery' \in [Deliveries -> DeliveryRow]
    BY DEF TypeOK, DeliveryRow
  <2>3. deleting' \in SUBSET Endpoints
    BY DEF TypeOK
  <2> QED BY <2>1, <2>2, <2>3 DEF TypeOK, EndpointRow, DeliveryRow
<1>2. QueueInv'
  BY DEF QueueInv, TypeOK, Tasks
<1>3. KeyInv'
  BY DEF KeyInv, TypeOK, Live
<1>4. LockInv'
  BY DEF LockInv, Live
<1>5. ReadInv'
  BY DEF ReadInv, QueueInv, HoldsDelivery, DeliveryLocked, On, Tasks
<1>6. FreshInv'
  BY DEF FreshInv
<1>7. BreakerCountsEveryFailure'
  BY DEF BreakerCountsEveryFailure, Live
<1> QED BY <1>1, <1>2, <1>3, <1>4, <1>5, <1>6, <1>7

(* dispatch_event writes a fresh delivery and queues its first task. *)
LEMMA DispatchIInv ==
  ASSUME IInv, NEW d \in Deliveries, Dispatch(d)
  PROVE  IInv'
<1> USE WebhooksAssumption DEF IInv, Dispatch, workers, bounds
<1>0. [d |-> d, n |-> 0] \in Tasks
  BY DEF Tasks
<1>1. TypeOK'
  <2>1. CASE /\ delivery' = [delivery EXCEPT ![d].status = "pending"]
             /\ \/ broker' = broker \cup {[d |-> d, n |-> 0]} /\ UNCHANGED dropped
                \/ dropped' = dropped \cup {d} /\ UNCHANGED broker
    BY <2>1, <1>0 DEF TypeOK
  <2>2. CASE /\ delivery' = [delivery EXCEPT ![d].status = "gone"]
             /\ broker' = broker \cup {[d |-> d, n |-> 0]}
             /\ UNCHANGED dropped
    BY <2>2, <1>0 DEF TypeOK
  <2> QED BY <2>1, <2>2
<1>2. QueueInv'
  <2>1. delivery'[d].status # "new" /\ \A x \in Deliveries : x # d => delivery'[x] = delivery[x]
    BY DEF TypeOK
  <2>2. \A x \in Deliveries : delivery[x].status # "new" => delivery'[x].status # "new"
    BY <2>1
  <2>3. \A m \in broker : m.d \in Deliveries /\ delivery[m.d].status # "new"
    BY DEF QueueInv, TypeOK, Tasks
  <2>4. \A m \in broker' : m \in broker \/ m.d = d
    BY DEF TypeOK
  <2>5. \A m \in broker' : delivery'[m.d].status # "new"
    BY <2>1, <2>2, <2>3, <2>4
  <2>6. \A w \in Workers : pc[w] # "idle" =>
          task[w] \in Tasks /\ task[w].d \in Deliveries /\ delivery[task[w].d].status # "new"
    BY DEF QueueInv, Tasks
  <2>7. UNCHANGED <<pc, task>>
    OBVIOUS
  <2> QED BY <2>2, <2>5, <2>6, <2>7 DEF QueueInv
<1>3. KeyInv'
  BY DEF KeyInv, TypeOK, Live
<1>4. LockInv'
  BY DEF LockInv, Live
<1>5. ReadInv'
  BY DEF ReadInv, TypeOK, QueueInv, HoldsDelivery, Tasks
<1>6. FreshInv'
  BY DEF FreshInv
<1>7. BreakerCountsEveryFailure'
  BY DEF BreakerCountsEveryFailure, Live
<1> QED BY <1>1, <1>2, <1>3, <1>4, <1>5, <1>6, <1>7

(* A worker that takes a task holds no lock yet. *)
LEMMA TakeIInv ==
  ASSUME IInv, NEW w \in Workers, NEW m \in Tasks, Take(w, m)
  PROVE  IInv'
<1> USE WebhooksAssumption DEF IInv, Take, tables, history
<1>1. TypeOK'
  BY DEF TypeOK
<1>2. QueueInv'
  BY DEF QueueInv, TypeOK
<1>3. KeyInv'
  BY DEF KeyInv, Live
<1>4. LockInv'
  BY DEF LockInv, HoldsDelivery, HoldsEndpoint, Live
<1>5. ReadInv'
  BY DEF ReadInv, HoldsDelivery
<1>6. FreshInv'
  BY DEF FreshInv
<1>7. BreakerCountsEveryFailure'
  BY DEF BreakerCountsEveryFailure, Live
<1> QED BY <1>1, <1>2, <1>3, <1>4, <1>5, <1>6, <1>7

(* The first FOR UPDATE of deliver reads a row nobody else holds. *)
LEMMA LockDeliveryIInv ==
  ASSUME IInv, NEW w \in Workers, LockDelivery(w)
  PROVE  IInv'
<1> USE WebhooksAssumption DEF IInv, LockDelivery, tables, history, bounds
<1>1. TypeOK'
  BY DEF TypeOK
<1>2. QueueInv'
  BY DEF QueueInv
<1>3. KeyInv'
  BY DEF KeyInv, Live
<1>4. LockInv'
  BY DEF LockInv, QueueInv, HoldsDelivery, HoldsEndpoint, Live, DeliveryLocked, On, Tasks
<1>5. ReadInv'
  BY DEF ReadInv, TypeOK, QueueInv, HoldsDelivery, Tasks
<1>6. FreshInv'
  BY DEF FreshInv
<1>7. BreakerCountsEveryFailure'
  BY DEF BreakerCountsEveryFailure, Live
<1> QED BY <1>1, <1>2, <1>3, <1>4, <1>5, <1>6, <1>7

(* The second FOR UPDATE reads the endpoint, whose breaker is now fixed. *)
LEMMA LockEndpointIInv ==
  ASSUME IInv, NEW w \in Workers, LockEndpoint(w)
  PROVE  IInv'
<1> USE WebhooksAssumption DEF IInv, LockEndpoint, tables, history, bounds
<1>0. task[w] \in Tasks /\ EndpointOf[task[w].d] \in Endpoints
  BY DEF QueueInv, Tasks
<1>1. TypeOK'
  <2>1. endpoint[EndpointOf[task[w].d]].failures \in Nat
    BY <1>0 DEF TypeOK
  <2> QED BY <2>1 DEF TypeOK, Verdicts
<1>2. QueueInv'
  BY DEF QueueInv, TypeOK
<1>3. KeyInv'
  BY DEF KeyInv, Live
<1>4. LockInv'
  <2>1. /\ EndpointOf[task[w].d] \notin deleting
        /\ \A v \in Workers : pc[v] \in HoldsEndpoint => EndpointOf[task[v].d] # EndpointOf[task[w].d]
    BY <1>0 DEF EndpointLocked, To, HoldsEndpoint, QueueInv, Tasks
  <2>2. \A v \in Workers : pc'[v] = pc[v] \/ (v = w /\ pc'[v] \in HoldsEndpoint /\ pc[v] \in HoldsDelivery)
    BY DEF TypeOK, HoldsEndpoint, HoldsDelivery
  <2> QED BY <2>1, <2>2 DEF LockInv, Live
<1>5. ReadInv'
  BY DEF ReadInv, TypeOK, HoldsDelivery
<1>6. FreshInv'
  BY DEF FreshInv
<1>7. BreakerCountsEveryFailure'
  BY DEF BreakerCountsEveryFailure, Live
<1> QED BY <1>1, <1>2, <1>3, <1>4, <1>5, <1>6, <1>7

(* The POST happens between the locks and the commit: no row changes. *)
LEMMA PostIInv ==
  ASSUME IInv, NEW w \in Workers, Post(w)
  PROVE  IInv'
<1> USE WebhooksAssumption DEF IInv, Post, tables, bounds
<1>0. task[w] \in Tasks
  BY DEF QueueInv
<1>1. TypeOK'
  BY <1>0 DEF TypeOK, Verdicts, Tasks
<1>2. QueueInv'
  BY DEF QueueInv
<1>3. KeyInv'
  BY DEF KeyInv, Live
<1>4. LockInv'
  BY DEF LockInv, HoldsDelivery, HoldsEndpoint, Live
<1>5. ReadInv'
  BY DEF ReadInv, HoldsDelivery
<1>6. FreshInv'
  BY DEF FreshInv
<1>7. BreakerCountsEveryFailure'
  BY DEF BreakerCountsEveryFailure, Live
<1> QED BY <1>1, <1>2, <1>3, <1>4, <1>5, <1>6, <1>7

(* The commit records the verdict the worker reached under its locks. *)
LEMMA CommitIInv ==
  ASSUME IInv, NEW w \in Workers, Commit(w)
  PROVE  IInv'
<1> USE WebhooksAssumption DEF IInv
<1> DEFINE d == task[w].d
           p == EndpointOf[d]
           v == verdict[w]
<1>a. /\ task[w] \in Tasks /\ d \in Deliveries /\ p \in Endpoints /\ Live(p)
      /\ delivery[d].status \in {"pending", "failed"}
      /\ seen[w] \in Nat
      /\ v # "paused" => seen[w] = endpoint[p].failures /\ ~endpoint[p].open
  BY DEF Commit, QueueInv, KeyInv, ReadInv, TypeOK, Tasks, HoldsDelivery
<1>b. /\ delivery \in [Deliveries -> DeliveryRow]
      /\ endpoint \in [Endpoints -> EndpointRow]
      /\ streak \in [Endpoints -> Nat]
  BY DEF TypeOK, DeliveryRow, EndpointRow
<1>c. /\ delivery' \in [Deliveries -> DeliveryRow]
      /\ delivery'[d].status \in {"pending", "failed", "delivered"}
      /\ \A x \in Deliveries : x # d => delivery'[x] = delivery[x]
  <2> DEFINE status == CASE v = "ok" -> "delivered"
                         [] v = "transient" /\ ~Trips(w) -> delivery[d].status
                         [] OTHER -> "failed"
             attempts == IF CountsAttempt(v) THEN delivery[d].attempts + 1 ELSE delivery[d].attempts
  <2>1. status \in {"pending", "failed", "delivered"} /\ attempts \in Nat
    BY <1>a, <1>b DEF DeliveryRow
  <2>2. delivery' = [delivery EXCEPT ![d].status = status, ![d].attempts = attempts]
    BY DEF Commit
  <2> HIDE DEF status, attempts
  <2> QED BY <1>a, <1>b, <2>1, <2>2 DEF DeliveryRow
<1>d. /\ endpoint' \in [Endpoints -> EndpointRow]
      /\ endpoint'[p].state = endpoint[p].state
      /\ endpoint'[p].failures =
           CASE v = "ok" -> 0 [] v = "paused" -> endpoint[p].failures [] OTHER -> seen[w] + 1
      /\ v = "ok" => ~endpoint'[p].open
      /\ v = "paused" => (endpoint'[p].open <=> endpoint[p].open)
      /\ v \notin {"ok", "paused"} => (endpoint'[p].open <=> endpoint[p].open \/ Trips(w))
      /\ \A q \in Endpoints : q # p => endpoint'[q] = endpoint[q]
  <2> DEFINE failures == CASE v = "ok" -> 0 [] v = "paused" -> endpoint[p].failures
                           [] OTHER -> seen[w] + 1
             open == CASE v = "ok" -> FALSE [] v = "paused" -> endpoint[p].open
                       [] OTHER -> endpoint[p].open \/ Trips(w)
  <2>1. endpoint[p].failures \in Nat /\ endpoint[p].open \in BOOLEAN
    BY <1>a, <1>b DEF EndpointRow
  <2>2. failures \in Nat
    BY <1>a, <2>1
  <2>3. open \in BOOLEAN /\ (v = "ok" => open = FALSE) /\ (v = "paused" => open = endpoint[p].open)
        /\ (v \notin {"ok", "paused"} => open = (endpoint[p].open \/ Trips(w)))
    BY <2>1 DEF Trips
  <2>4. endpoint' = [endpoint EXCEPT ![p].failures = failures, ![p].open = open]
    BY DEF Commit
  <2>5. /\ endpoint' \in [Endpoints -> EndpointRow]
        /\ endpoint'[p].state = endpoint[p].state
        /\ endpoint'[p].failures = failures
        /\ endpoint'[p].open = open
        /\ \A q \in Endpoints : q # p => endpoint'[q] = endpoint[q]
    <3>1. endpoint \in [Endpoints -> EndpointRow] /\ p \in Endpoints /\ open \in BOOLEAN
      BY <1>a, <1>b, <2>3
    <3> HIDE DEF failures, open, p
    <3> QED BY <2>2, <2>4, <3>1 DEF EndpointRow
  <2> QED BY <2>3, <2>5
<1>e. /\ streak' \in [Endpoints -> Nat]
      /\ streak'[p] = CASE v = "ok" -> 0 [] v = "paused" -> streak[p] [] OTHER -> streak[p] + 1
      /\ \A q \in Endpoints : q # p => streak'[q] = streak[q]
  <2> DEFINE failed == CASE v = "ok" -> 0 [] v = "paused" -> streak[p] [] OTHER -> streak[p] + 1
  <2>1. failed \in Nat
    BY <1>a, <1>b
  <2>2. streak' = [streak EXCEPT ![p] = failed]
    BY DEF Commit
  <2> HIDE DEF failed, p
  <2>3. streak' \in [Endpoints -> Nat] /\ streak'[p] = failed
        /\ \A q \in Endpoints : q # p => streak'[q] = streak[q]
    BY <1>a, <1>b, <2>1, <2>2
  <2> QED BY <2>3 DEF failed
<1>f. pc' = [pc EXCEPT ![w] = "done"] /\ UNCHANGED <<broker, task, seen, deleting>>
  BY DEF Commit
<1>1. TypeOK'
  <2>1. verdict' \in [Workers -> Verdicts]
    BY DEF Commit, TypeOK, Verdicts
  <2> QED BY <1>c, <1>d, <1>e, <2>1 DEF Commit, bounds, TypeOK, DeliveryRow, EndpointRow
<1>2. QueueInv'
  <2>1. \A x \in Deliveries : delivery[x].status # "new" => delivery'[x].status # "new"
    BY <1>c
  <2>2. \A m \in broker : m.d \in Deliveries
    BY DEF TypeOK, Tasks
  <2>3. \A u \in Workers : pc'[u] # "idle" => pc[u] # "idle" /\ task[u] \in Tasks /\ task[u].d \in Deliveries
    <3>1. \A u \in Workers : pc'[u] # "idle" => pc[u] # "idle"
      BY <1>f DEF Commit, TypeOK
    <3>2. \A u \in Workers : pc[u] # "idle" => task[u] \in Tasks
      BY DEF QueueInv
    <3> QED BY <3>1, <3>2 DEF Tasks
  <2> QED BY <1>f, <2>1, <2>2, <2>3 DEF QueueInv
<1>3. KeyInv'
  <2>1. \A q \in Endpoints : endpoint'[q].state = endpoint[q].state
    BY <1>d
  <2> QED BY <1>a, <1>c, <2>1 DEF KeyInv, Live
<1>4. LockInv'
  BY <1>d, <1>f DEF LockInv, TypeOK, HoldsDelivery, HoldsEndpoint, Live
<1>5. ReadInv'
  <2> SUFFICES ASSUME NEW u \in Workers
               PROVE  /\ pc'[u] \in HoldsDelivery => delivery'[task[u].d].status \in {"pending", "failed"}
                      /\ pc'[u] = "post" \/ (pc'[u] = "record" /\ verdict'[u] # "paused") =>
                           /\ seen[u] = endpoint'[EndpointOf[task[u].d]].failures
                           /\ ~endpoint'[EndpointOf[task[u].d]].open
    BY <1>f DEF ReadInv
  <2>1. pc[w] = "record"
    BY DEF Commit
  <2>2. CASE u = w
    BY <2>2, <1>f DEF TypeOK, HoldsDelivery
  <2>3. CASE u # w
    <3>1. pc'[u] = pc[u] /\ verdict'[u] = verdict[u]
      BY <2>3 DEF Commit
    <3>2. pc[u] # "idle" => task[u].d \in Deliveries /\ EndpointOf[task[u].d] \in Endpoints
      BY DEF QueueInv, Tasks
    <3>3. pc[u] \in HoldsDelivery => task[u].d # d
      BY <2>1, <2>3 DEF LockInv, HoldsDelivery
    <3>4. pc[u] \in HoldsEndpoint => EndpointOf[task[u].d] # p
      BY <2>1, <2>3 DEF LockInv, HoldsEndpoint
    <3> QED BY <3>1, <3>2, <3>3, <3>4, <1>c, <1>d DEF ReadInv, HoldsDelivery, HoldsEndpoint
  <2> QED BY <2>2, <2>3
<1>6. FreshInv'
  BY <1>a, <1>d, <1>e DEF FreshInv, Live
<1>7. BreakerCountsEveryFailure'
  <2>1. /\ endpoint'[p].failures = streak'[p]
        /\ endpoint'[p].open <=> streak'[p] >= Threshold
    <3>1. /\ endpoint[p].failures = streak[p] /\ streak[p] \in Nat
          /\ endpoint[p].open <=> streak[p] >= Threshold
      BY <1>a, <1>b DEF BreakerCountsEveryFailure
    <3>2. CASE v = "ok"
      BY <3>2, <1>d, <1>e
    <3>3. CASE v = "paused"
      BY <3>1, <3>3, <1>d, <1>e
    <3>4. CASE v \notin {"ok", "paused"}
      BY <3>1, <3>4, <1>a, <1>d, <1>e DEF Trips
    <3> QED BY <3>2, <3>3, <3>4
  <2> QED BY <1>d, <1>e, <2>1 DEF BreakerCountsEveryFailure, Live
<1> QED BY <1>1, <1>2, <1>3, <1>4, <1>5, <1>6, <1>7

(* A finished task leaves no lock; a retry is queued within its limit. *)
LEMMA FinishIInv ==
  ASSUME IInv, NEW w \in Workers, Finish(w)
  PROVE  IInv'
<1> USE WebhooksAssumption DEF IInv, Finish, Release, Retry, tables, bounds
<1>0. task[w] \in Tasks /\ task[w].d \in Deliveries /\ task[w].n \in 0..MaxRetries
  BY DEF QueueInv, Tasks
<1>a. Retry(w) \subseteq Tasks
  BY <1>0 DEF Tasks
<1>1. TypeOK'
  BY <1>0, <1>a DEF TypeOK, Verdicts
<1>2. QueueInv'
  BY DEF QueueInv, TypeOK, Tasks
<1>3. KeyInv'
  BY DEF KeyInv, Live
<1>4. LockInv'
  BY DEF LockInv, HoldsDelivery, HoldsEndpoint, Live
<1>5. ReadInv'
  BY DEF ReadInv, HoldsDelivery
<1>6. FreshInv'
  BY DEF FreshInv
<1>7. BreakerCountsEveryFailure'
  BY DEF BreakerCountsEveryFailure, Live
<1> QED BY <1>1, <1>2, <1>3, <1>4, <1>5, <1>6, <1>7

(* A crash rolls back: locks go, rows stay, the broker may redeliver. *)
LEMMA CrashIInv ==
  ASSUME IInv, NEW w \in Workers, Crash(w)
  PROVE  IInv'
<1> USE WebhooksAssumption DEF IInv, Crash, Release, Retry, tables
<1>0. task[w] \in Tasks /\ task[w].d \in Deliveries /\ task[w].n \in 0..MaxRetries
      /\ delivery[task[w].d].status # "new"
  BY DEF QueueInv, Tasks
<1>a. Retry(w) \subseteq Tasks /\ \A m \in Retry(w) : m.d = task[w].d
  BY <1>0 DEF Tasks
<1>b. \A m \in broker' : m \in broker \/ (m \in Tasks /\ m.d = task[w].d)
  BY <1>0, <1>a
<1>1. TypeOK'
  <2>1. broker' \subseteq Tasks /\ dropped' \subseteq Deliveries
    BY <1>0, <1>b DEF TypeOK
  <2>2. crashes' \in 0..MaxCrashes
    BY DEF TypeOK
  <2> QED BY <2>1, <2>2 DEF TypeOK, Verdicts
<1>2. QueueInv'
  BY <1>0, <1>b DEF QueueInv, TypeOK
<1>3. KeyInv'
  BY DEF KeyInv, Live
<1>4. LockInv'
  BY DEF LockInv, TypeOK, HoldsDelivery, HoldsEndpoint, Live
<1>5. ReadInv'
  BY DEF ReadInv, TypeOK, HoldsDelivery
<1>6. FreshInv'
  BY DEF FreshInv
<1>7. BreakerCountsEveryFailure'
  BY DEF BreakerCountsEveryFailure, Live
<1> QED BY <1>1, <1>2, <1>3, <1>4, <1>5, <1>6, <1>7

(* Of a deadlocked task and DELETE, the victim gives up its lock. *)
LEMMA DeadlockIInv ==
  ASSUME IInv, NEW w \in Workers, NEW p \in Endpoints, ResolveDeadlock(w, p)
  PROVE  IInv'
<1> USE WebhooksAssumption DEF IInv, ResolveDeadlock, Release, tables, workers, bounds
<1>0. task[w] \in Tasks /\ task[w].d \in Deliveries
  BY DEF QueueInv, Tasks
<1>1. TypeOK'
  <2>1. CASE /\ broker' = broker \ {task[w]}
             /\ dropped' = dropped \cup {task[w].d}
             /\ Release(w)
             /\ UNCHANGED deleting
    BY <2>1, <1>0 DEF TypeOK, Verdicts
  <2>2. CASE deleting' = deleting \ {p} /\ UNCHANGED <<broker, dropped, workers>>
    BY <2>2 DEF TypeOK
  <2> QED BY <2>1, <2>2
<1>2. QueueInv'
  BY DEF QueueInv, TypeOK
<1>3. KeyInv'
  BY DEF KeyInv, Live
<1>4. LockInv'
  <2>1. \A v \in Workers : (pc'[v] = pc[v] /\ task'[v] = task[v]) \/ pc'[v] = "idle"
    BY DEF TypeOK
  <2>2. deleting' \subseteq deleting /\ UNCHANGED endpoint
    OBVIOUS
  <2> QED BY <2>1, <2>2 DEF LockInv, HoldsDelivery, HoldsEndpoint, Live
<1>5. ReadInv'
  BY DEF ReadInv, TypeOK, HoldsDelivery
<1>6. FreshInv'
  BY DEF FreshInv
<1>7. BreakerCountsEveryFailure'
  BY DEF BreakerCountsEveryFailure, Live
<1> QED BY <1>1, <1>2, <1>3, <1>4, <1>5, <1>6, <1>7

(* Every step preserves the invariant. *)
LEMMA NextIInv == IInv /\ [Next]_vars => IInv'
<1> SUFFICES ASSUME IInv, [Next]_vars
             PROVE  IInv'
  OBVIOUS
<1>1. CASE Admin
  BY <1>1, CreateIInv, UpdateIInv, DeleteIInv DEF Admin
<1>2. CASE Database
  BY <1>2, CascadeIInv, DeadlockIInv DEF Database
<1>3. ASSUME NEW d \in Deliveries, Dispatch(d)
      PROVE  IInv'
  BY <1>3, DispatchIInv
<1>4. ASSUME NEW w \in Workers, (\E m \in Tasks : Take(w, m)) \/ Run(w) \/ Crash(w)
      PROVE  IInv'
  BY <1>4, TakeIInv, LockDeliveryIInv, LockEndpointIInv, PostIInv, CommitIInv, FinishIInv, CrashIInv
     DEF Run
<1>5. CASE UNCHANGED vars
  BY <1>5 DEF vars, tables, workers, history, bounds, IInv, TypeOK, QueueInv, KeyInv, LockInv,
              ReadInv, FreshInv, BreakerCountsEveryFailure, Live
<1> QED BY <1>1, <1>2, <1>3, <1>4, <1>5 DEF Next

(* IInv is an invariant: every step of every actor preserves it. *)
THEOREM Inductive == Spec => []IInv
BY InitIInv, NextIInv, PTL DEF Spec

-----------------------------------------------------------------------------
(* Every reachable state is type correct: no task is retried beyond          *)
(* MAX_DELIVERY_RETRIES, and no bookkeeping leaves its range.                *)
THEOREM TypeCorrect == Spec => []TypeOK
<1>1. IInv => TypeOK
  BY DEF IInv
<1> QED BY <1>1, Inductive, PTL

(* Whatever deliveries to an endpoint run at once, its failure counter is the *)
(* number of failures since the last success or reset, and its breaker is    *)
(* open exactly at the threshold (_record_failure under the row's lock).     *)
THEOREM BreakerCounts == Spec => []BreakerCountsEveryFailure
<1>1. IInv => BreakerCountsEveryFailure
  BY DEF IInv
<1> QED BY <1>1, Inductive, PTL

(* deliver finds the endpoint of every delivery it has locked: the "endpoint *)
(* deleted" branch is never taken.                                           *)
THEOREM EndpointThere == Spec => []LockedDeliveryHasEndpoint
<1>1. IInv => LockedDeliveryHasEndpoint
  BY WebhooksAssumption
     DEF IInv, ReadInv, KeyInv, QueueInv, HoldsDelivery, LockedDeliveryHasEndpoint, Tasks
<1> QED BY <1>1, Inductive, PTL

-----------------------------------------------------------------------------
(* Only Post posts, and it holds both locks. *)
LEMMA PostsUnderLocks ==
  ASSUME IInv, [Next]_vars, NEW d \in Deliveries, posts'[d] # posts[d]
  PROVE  /\ delivery[d].status # "delivered"
         /\ Live(EndpointOf[d])
         /\ ~endpoint[EndpointOf[d]].open
<1>1. PICK w \in Workers : Post(w)
  BY DEF Next, vars, tables, workers, history, bounds, Admin, Database, Run, CreateEndpoint,
         UpdateEndpoint, DeleteEndpoint, Cascade, ResolveDeadlock, Dispatch, Take, LockDelivery,
         LockEndpoint, Commit, Finish, Crash
<1>2. pc[w] = "post" /\ task[w] \in Tasks /\ task[w].d = d
  BY <1>1 DEF Post, IInv, QueueInv, TypeOK, Tasks
<1> QED BY <1>2 DEF IInv, ReadInv, KeyInv, HoldsDelivery

(* A delivery that is on record as delivered is never posted again, however  *)
(* often the broker hands out its task (deliver: "already delivered").       *)
THEOREM NeverPostedAgain == Spec => NoPostAfterDelivered
<1>1. IInv /\ [Next]_vars =>
        [\A d \in Deliveries : posts'[d] # posts[d] => delivery[d].status # "delivered"]_vars
  BY PostsUnderLocks
<1> QED BY <1>1, Inductive, PTL DEF Spec, NoPostAfterDelivered

(* Nothing is posted to an endpoint that is gone or whose breaker is open.   *)
THEOREM BreakerStops == Spec => BreakerStopsPosts
<1>1. IInv /\ [Next]_vars =>
        [\A d \in Deliveries : posts'[d] # posts[d] =>
           Live(EndpointOf[d]) /\ ~endpoint[EndpointOf[d]].open]_vars
  BY PostsUnderLocks
<1> QED BY <1>1, Inductive, PTL DEF Spec, BreakerStopsPosts

(* An open breaker closes in a PATCH and in no other step, not even the      *)
(* commit of a success that was in flight when it opened (update_endpoint).  *)
LEMMA CloseStep ==
  ASSUME IInv, [Next]_vars, NEW p \in Endpoints, Live(p), endpoint[p].open, ~endpoint'[p].open
  PROVE  requests' = requests + 1
<1>1. ASSUME NEW w \in Workers, Commit(w)
      PROVE  FALSE
  <2>1. pc[w] = "record" /\ task[w] \in Tasks /\ EndpointOf[task[w].d] \in Endpoints
    BY <1>1, WebhooksAssumption DEF Commit, IInv, QueueInv, Tasks
  <2>2. CASE p = EndpointOf[task[w].d]
    <3>1. verdict[w] = "paused"
      BY <2>1, <2>2 DEF IInv, ReadInv
    <3> QED BY <1>1, <2>1, <2>2, <3>1 DEF Commit, IInv, TypeOK
  <2>3. CASE p # EndpointOf[task[w].d]
    BY <1>1, <2>1, <2>3 DEF Commit, IInv, TypeOK
  <2> QED BY <2>2, <2>3
<1>2. ASSUME NEW q \in Endpoints, CreateEndpoint(q)
      PROVE  FALSE
  BY <1>2 DEF CreateEndpoint, Live, IInv, TypeOK
<1>3. ASSUME NEW q \in Endpoints, Cascade(q)
      PROVE  FALSE
  BY <1>3 DEF Cascade, IInv, TypeOK
<1>4. ASSUME NEW q \in Endpoints, NEW active \in BOOLEAN, UpdateEndpoint(q, active)
      PROVE  requests' = requests + 1
  BY <1>4 DEF UpdateEndpoint
<1>5. endpoint' # endpoint
  OBVIOUS
<1> QED
  BY <1>1, <1>2, <1>3, <1>4, <1>5
     DEF Next, vars, tables, Admin, Database, Run, DeleteEndpoint, ResolveDeadlock, Dispatch, Take,
         LockDelivery, LockEndpoint, Post, Finish, Crash

(* An open breaker closes in a PATCH and in no other step: CloseStep for every step. *)
THEOREM AdminCloses == Spec => OnlyAdminClosesBreaker
<1>1. IInv /\ [Next]_vars =>
        [\A p \in Endpoints :
           Live(p) /\ endpoint[p].open /\ ~endpoint'[p].open => requests' = requests + 1]_vars
  BY CloseStep
<1> QED BY <1>1, Inductive, PTL DEF Spec, OnlyAdminClosesBreaker

-----------------------------------------------------------------------------
(* Pending deliveries. *)

(* A task that is about to be acknowledged and asks for no retry has settled *)
(* its delivery, or found it settled.                                        *)
DoneInv ==
  \A w \in Workers : pc[w] = "done" /\ verdict[w] # "retry" => Finished(task[w].d)

QueuedInv == DoneInv /\ PendingIsAccountedFor

(* What is settled stays so, and only a dispatch makes a delivery pending.   *)
Settling ==
  \A d \in Deliveries :
    /\ Finished(d) => Finished(d)'
    /\ delivery'[d].status = "pending" => delivery[d].status = "pending"

(* Whatever settles deliveries but leaves the queue alone, and the tasks that *)
(* are done, keeps them accounted for.                                       *)
LEMMA QueueStands ==
  ASSUME IInv, QueuedInv, Settling, UNCHANGED <<broker, exhausted, dropped>>,
         \A w \in Workers : pc'[w] = "done" =>
           pc[w] = "done" /\ task'[w] = task[w] /\ verdict'[w] = verdict[w]
  PROVE  QueuedInv'
<1>1. DoneInv'
  <2> SUFFICES ASSUME NEW w \in Workers, pc'[w] = "done", verdict'[w] # "retry"
               PROVE  Finished(task[w].d)'
    BY DEF DoneInv
  <2>1. task[w].d \in Deliveries
    BY DEF IInv, QueueInv, Tasks
  <2>2. Finished(task[w].d)
    BY DEF QueuedInv, DoneInv
  <2> QED BY <2>1, <2>2 DEF Settling, Finished
<1>2. PendingIsAccountedFor'
  BY DEF QueuedInv, PendingIsAccountedFor, Settling
<1> QED BY <1>1, <1>2 DEF QueuedInv

(* The same where a task leaves the queue: w's, which may queue its retry.   *)
LEMMA QueueMoves ==
  ASSUME IInv, QueuedInv, NEW w \in Workers, UNCHANGED delivery,
         pc' = [pc EXCEPT ![w] = "idle"], task' = [task EXCEPT ![w] = NoTask],
         verdict' = [verdict EXCEPT ![w] = "none"],
         exhausted \subseteq exhausted', dropped \subseteq dropped',
         \A m \in broker : m # task[w] => m \in broker',
         delivery[task[w].d].status = "pending" =>
           task[w].d \in exhausted' \cup dropped' \/ \E m \in broker' : m.d = task[w].d
  PROVE  QueuedInv'
<1>1. DoneInv'
  BY DEF QueuedInv, DoneInv, IInv, TypeOK, Finished
<1>2. PendingIsAccountedFor'
  <2> SUFFICES ASSUME NEW d \in Deliveries, delivery[d].status = "pending",
                      d \notin exhausted' \cup dropped'
               PROVE  \E m \in broker' : m.d = d
    BY DEF PendingIsAccountedFor
  <2>1. PICK m \in broker : m.d = d
    BY DEF QueuedInv, PendingIsAccountedFor
  <2> QED BY <2>1
<1> QED BY <1>1, <1>2 DEF QueuedInv

(* A verdict settles the delivery unless the task will be retried.           *)
LEMMA CommitQueued ==
  ASSUME IInv, QueuedInv, NEW w \in Workers, Commit(w)
  PROVE  QueuedInv'
<1> DEFINE d == task[w].d
<1>1. d \in Deliveries /\ pc[w] = "record" /\ delivery[d].status \in {"pending", "failed"}
  BY DEF Commit, IInv, QueueInv, ReadInv, HoldsDelivery, Tasks
<1>2. /\ \A f \in Deliveries : f # d => delivery'[f] = delivery[f]
      /\ delivery'[d].status \in {"delivered", "failed", delivery[d].status}
      /\ verdict'[w] # "retry" => delivery'[d].status \in {"delivered", "failed"}
  BY <1>1 DEF Commit, IInv, TypeOK
<1>3. Settling
  BY <1>1, <1>2 DEF Settling, Finished
<1>4. DoneInv'
  <2> SUFFICES ASSUME NEW u \in Workers, pc'[u] = "done", verdict'[u] # "retry"
               PROVE  Finished(task[u].d)'
    BY DEF DoneInv
  <2>1. task' = task /\ task[u].d \in Deliveries
    BY DEF Commit, IInv, QueueInv, TypeOK, Tasks
  <2>2. CASE u = w
    BY <1>2, <2>1, <2>2 DEF Finished
  <2>3. CASE u # w
    <3>1. pc[u] = "done" /\ verdict[u] # "retry"
      BY <2>3 DEF Commit, IInv, TypeOK
    <3> QED BY <2>1, <3>1, <1>3 DEF QueuedInv, DoneInv, Settling, Finished
  <2> QED BY <2>2, <2>3
<1>5. PendingIsAccountedFor'
  BY <1>3 DEF Commit, QueuedInv, PendingIsAccountedFor, Settling
<1> QED BY <1>4, <1>5 DEF QueuedInv

(* A task that finds nothing to deliver found it settled; a task that has    *)
(* its delivery goes on.                                                     *)
LEMMA LockQueued ==
  ASSUME IInv, QueuedInv, NEW w \in Workers, LockDelivery(w)
  PROVE  QueuedInv'
<1>1. DoneInv'
  BY DEF LockDelivery, tables, QueuedInv, DoneInv, Finished, IInv, TypeOK
<1>2. PendingIsAccountedFor'
  BY DEF LockDelivery, tables, history, QueuedInv, PendingIsAccountedFor
<1> QED BY <1>1, <1>2 DEF QueuedInv

(* Celery's retry, or its giving up (exhausted).                             *)
LEMMA FinishQueued ==
  ASSUME IInv, QueuedInv, NEW w \in Workers, Finish(w)
  PROVE  QueuedInv'
<1>1. task[w] \in Tasks
  BY DEF Finish, IInv, QueueInv
<1>2. \A m \in Retry(w) : m.d = task[w].d
  BY <1>1 DEF Retry, Tasks
<1>3. CASE verdict[w] # "retry"
  <2>1. delivery[task[w].d].status # "pending"
    BY <1>3 DEF Finish, QueuedInv, DoneInv, Finished
  <2> QED BY <1>3, <2>1, QueueMoves DEF Finish, Release, tables
<1>4. CASE verdict[w] = "retry"
  <2>1. task[w].d \in exhausted' \/ \E m \in broker' : m.d = task[w].d
    BY <1>2, <1>4 DEF Finish
  <2> QED BY <1>4, <2>1, QueueMoves DEF Finish, Release, tables
<1> QED BY <1>3, <1>4

(* A crash or a deadlock leaves the task, its retry, or the record of a loss. *)
LEMMA CrashQueued ==
  ASSUME IInv, QueuedInv, NEW w \in Workers, Crash(w)
  PROVE  QueuedInv'
<1>1. task[w] \in Tasks
  BY DEF Crash, IInv, QueueInv
<1>2. \A m \in Retry(w) : m.d = task[w].d
  BY <1>1 DEF Retry, Tasks
<1>3. PICK kept \in SUBSET ({task[w]} \cup (IF pc[w] = "done" THEN Retry(w) ELSE {})) :
        /\ broker' = (broker \ {task[w]}) \cup kept
        /\ dropped' = IF kept = {} THEN dropped \cup {task[w].d} ELSE dropped
  BY DEF Crash
<1>4. task[w].d \in dropped' \/ \E m \in broker' : m.d = task[w].d
  BY <1>2, <1>3
<1> QED BY <1>3, <1>4, QueueMoves DEF Crash, Release, tables

LEMMA DeadlockQueued ==
  ASSUME IInv, QueuedInv, NEW w \in Workers, NEW p \in Endpoints, ResolveDeadlock(w, p)
  PROVE  QueuedInv'
<1>1. CASE Release(w) /\ broker' = broker \ {task[w]} /\ dropped' = dropped \cup {task[w].d}
  BY <1>1, QueueMoves DEF ResolveDeadlock, Release, tables
<1>2. CASE UNCHANGED <<broker, dropped, workers>>
  <2>1. Settling
    BY DEF ResolveDeadlock, tables, Settling, Finished
  <2> QED BY <1>2, <2>1, QueueStands DEF ResolveDeadlock, workers
<1> QED BY <1>1, <1>2 DEF ResolveDeadlock

(* The fan-out queues a task for what it inserts, or loses the enqueue.      *)
LEMMA DispatchQueued ==
  ASSUME IInv, QueuedInv, NEW d \in Deliveries, Dispatch(d)
  PROVE  QueuedInv'
<1>1. /\ delivery[d].status = "new"
      /\ \A f \in Deliveries : f # d => delivery'[f] = delivery[f]
      /\ UNCHANGED <<workers, exhausted>>
      /\ broker \subseteq broker' /\ dropped \subseteq dropped'
      /\ delivery'[d].status = "pending" => d \in dropped' \/ \E m \in broker' : m.d = d
  <2>1. delivery[d].status = "new" /\ UNCHANGED <<workers, exhausted>>
    BY DEF Dispatch
  <2>2. \A f \in Deliveries : f # d => delivery'[f] = delivery[f]
    BY DEF Dispatch, IInv, TypeOK
  <2>3. broker \subseteq broker' /\ dropped \subseteq dropped'
    BY DEF Dispatch
  <2>4. d \in dropped' \/ [d |-> d, n |-> 0] \in broker'
    BY DEF Dispatch
  <2> QED BY <2>1, <2>2, <2>3, <2>4
<1>2. DoneInv'
  <2> SUFFICES ASSUME NEW w \in Workers, pc[w] = "done", verdict[w] # "retry"
               PROVE  Finished(task[w].d)'
    BY <1>1 DEF DoneInv, workers
  <2>1. Finished(task[w].d) /\ task[w].d \in Deliveries
    BY DEF QueuedInv, DoneInv, IInv, QueueInv, Tasks
  <2> QED BY <1>1, <2>1 DEF workers, Finished
<1>3. PendingIsAccountedFor'
  BY <1>1 DEF QueuedInv, PendingIsAccountedFor
<1> QED BY <1>2, <1>3 DEF QueuedInv

(* Administrators, the cascade, and what a task does before its verdict.     *)
LEMMA OtherwiseQueued ==
  ASSUME IInv, QueuedInv,
         \/ Admin
         \/ \E p \in Endpoints : Cascade(p)
         \/ \E w \in Workers : (\E m \in Tasks : Take(w, m)) \/ LockEndpoint(w) \/ Post(w)
         \/ UNCHANGED vars
  PROVE  QueuedInv'
<1>1. CASE Admin \/ UNCHANGED vars
  BY <1>1, QueueStands
     DEF Admin, CreateEndpoint, UpdateEndpoint, DeleteEndpoint, vars, tables, workers, history,
         Settling, Finished
<1>2. ASSUME NEW p \in Endpoints, Cascade(p)
      PROVE  QueuedInv'
  <2>1. Settling
    BY <1>2 DEF Cascade, Settling, Finished, IInv, TypeOK
  <2> QED BY <1>2, <2>1, QueueStands DEF Cascade, workers, history
<1>3. ASSUME NEW w \in Workers, (\E m \in Tasks : Take(w, m)) \/ LockEndpoint(w) \/ Post(w)
      PROVE  QueuedInv'
  <2>1. Settling /\ UNCHANGED <<broker, exhausted, dropped>>
    BY <1>3 DEF Take, LockEndpoint, Post, tables, history, Settling, Finished
  <2>2. \A u \in Workers : pc'[u] = "done" =>
          pc[u] = "done" /\ task'[u] = task[u] /\ verdict'[u] = verdict[u]
    BY <1>3 DEF Take, LockEndpoint, Post, IInv, TypeOK
  <2> QED BY <2>1, <2>2, QueueStands
<1> QED BY <1>1, <1>2, <1>3

LEMMA NextQueued == IInv /\ QueuedInv /\ [Next]_vars => QueuedInv'
<1> SUFFICES ASSUME IInv, QueuedInv, [Next]_vars
             PROVE  QueuedInv'
  OBVIOUS
<1>1. ASSUME NEW w \in Workers, Run(w) \/ Crash(w)
      PROVE  QueuedInv'
  BY <1>1, LockQueued, CommitQueued, FinishQueued, CrashQueued, OtherwiseQueued DEF Run
<1>2. ASSUME NEW d \in Deliveries, Dispatch(d)
      PROVE  QueuedInv'
  BY <1>2, DispatchQueued
<1>3. CASE Database
  BY <1>3, DeadlockQueued, OtherwiseQueued DEF Database
<1>4. CASE Admin \/ (\E w \in Workers, m \in Tasks : Take(w, m)) \/ UNCHANGED vars
  BY <1>4, OtherwiseQueued
<1> QED BY <1>1, <1>2, <1>3, <1>4 DEF Next

(* A pending delivery has a queued task, unless Celery has given up on it    *)
(* or a recorded loss has taken its task: no verdict, retry, redelivery or   *)
(* deletion that overlaps another forgets it (deliver_webhook).              *)
THEOREM PendingAccounted == Spec => []PendingIsAccountedFor
<1>1. Init => QueuedInv
  BY DEF Init, QueuedInv, DoneInv, PendingIsAccountedFor
<1>2. QueuedInv => PendingIsAccountedFor
  BY DEF QueuedInv
<1> QED BY <1>1, <1>2, NextQueued, Inductive, PTL DEF Spec
=============================================================================
