----------------------------- MODULE MCWebhooks -----------------------------
(***************************************************************************)
(* Small instances of Webhooks: two deliveries to one endpoint, two workers *)
(* that may run the same task, a breaker that opens at the second failure.  *)
(***************************************************************************)
EXTENDS Webhooks, TLC

CONSTANTS crm, d1, d2, w1, w2

OneEndpoint == [d \in Deliveries |-> crm]

Symmetric == Permutations(Deliveries) \cup Permutations(Workers)
=============================================================================
