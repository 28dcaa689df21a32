--------------------------- MODULE DurableEvents ---------------------------
(***************************************************************************)
(* What the transactional outbox promises its producers and consumers, with *)
(* no relay, transaction, savepoint or retry in sight: an event is durable  *)
(* from the moment its producer commits, it is settled at most once, and    *)
(* settling it as delivered applies the database work of every one of its   *)
(* handlers exactly once, while giving up on it applies none of that work.  *)
(*                                                                          *)
(* Outbox implements this specification (Outbox!Durable).                   *)
(***************************************************************************)
EXTENDS Naturals

CONSTANTS
  Events,       \* domain events that producers may emit
  Handlers,     \* code-owned consumers
  HandlersOf    \* [Events -> SUBSET Handlers], the handler registry

VARIABLES
  status,       \* [Events -> {"absent", "pending", "delivered", "failed"}]
  applied       \* [Events -> [Handlers -> Nat]]: committed handler effects

vars == <<status, applied>>

Init ==
  /\ status = [e \in Events |-> "absent"]
  /\ applied = [e \in Events |-> [h \in Handlers |-> 0]]

(* A producer's transaction commits with the event in it. *)
Produce(e) ==
  /\ status[e] = "absent"
  /\ status' = [status EXCEPT ![e] = "pending"]
  /\ UNCHANGED applied

(* A set of pending events is settled at once, each of them entirely. *)
Settle(delivered, failed) ==
  /\ delivered \cap failed = {}
  /\ \A e \in delivered \cup failed : status[e] = "pending"
  /\ status' = [e \in Events |-> IF e \in delivered THEN "delivered"
                                 ELSE IF e \in failed THEN "failed"
                                 ELSE status[e]]
  /\ applied' = [e \in Events |-> [h \in Handlers |->
                   IF e \in delivered /\ h \in HandlersOf[e]
                     THEN applied[e][h] + 1 ELSE applied[e][h]]]

Next ==
  \/ \E e \in Events : Produce(e)
  \/ \E delivered, failed \in SUBSET Events : Settle(delivered, failed)

Spec == Init /\ [][Next]_vars
=============================================================================
