------------------------- MODULE MCTenantLifecycle -------------------------
(***************************************************************************)
(* Small instances of TenantLifecycle: one event of each kind about t1.     *)
(***************************************************************************)
EXTENDS TenantLifecycle, TLC

CONSTANTS t1, t2, p1, p2, activated, failed, canceled

AboutT1 == [e \in Events |-> t1]
Kinds   == [e \in Events |-> CASE e = activated -> "activated"
                               [] e = failed    -> "failed"
                               [] e = canceled  -> "canceled"]

ProcessSymmetry == Permutations(Processes)
=============================================================================
