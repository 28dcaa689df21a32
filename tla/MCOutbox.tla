------------------------------ MODULE MCOutbox ------------------------------
(***************************************************************************)
(* Small instances of Outbox.  lead.created has two handlers (the agent's   *)
(* notification and the webhook fan-out), the other events have one; an     *)
(* event type nothing consumes has none.                                    *)
(***************************************************************************)
EXTENDS Outbox, TLC

CONSTANTS t1, t2, leadCreated, dealClosed, orphan, notifyAgent, fanOut, r1, r2

(* Two events of one tenant, both consumed: batches of two, two handlers. *)
PairEvents     == {leadCreated, dealClosed}
PairTenantOf   == [e \in PairEvents |-> t1]
PairHandlersOf == leadCreated :> {notifyAgent, fanOut} @@ dealClosed :> {fanOut}

(* Two tenants, one of whose events nothing consumes. *)
OrphanEvents     == {leadCreated, orphan}
OrphanTenantOf   == leadCreated :> t1 @@ orphan :> t2
OrphanHandlersOf == leadCreated :> {notifyAgent, fanOut} @@ orphan :> {}

RelaySymmetry == Permutations(Relays)
=============================================================================
