---------------------------- MODULE OutboxProofs ----------------------------
(***************************************************************************)
(* Proofs about Outbox, for any tenants, events, handlers, relays and       *)
(* bounds: type correctness, exactly-once application of the handlers'      *)
(* effects, the meaning of a failed row, the fate of post-commit callbacks, *)
(* the stability of terminal rows, and the refinement of DurableEvents.     *)
(*                                                                          *)
(* None of these is inductive alone.  What carries them through a batch is  *)
(* BatchInv: relays hold disjoint claims of pending rows, and what a        *)
(* transaction is about to commit is consistent with the outcomes it has    *)
(* recorded.                                                                *)
(***************************************************************************)
EXTENDS Outbox, TLAPS

(* A row locked by a relay is pending, and locked by that relay alone. *)
ClaimInv ==
  /\ \A r \in Relays : \A e \in claim[r] : outbox[e].status = "pending"
  /\ \A r, s \in Relays : r # s => claim[r] \cap claim[s] = {}
  /\ \A r \in Relays : pc[r] # "drain" => claim[r] = {}

(* Inside a batch: outcomes are recorded for exactly the rows processed, the *)
(* open savepoint belongs to a row still to be processed, and what is staged *)
(* is all the handlers of the rows recorded as delivered, and nothing else.  *)
BatchInv ==
  \A r \in Relays :
    /\ left[r] \subseteq claim[r]
    /\ \A e \in Events : outcome[r][e] # "none" <=> e \in claim[r] \ left[r]
    /\ \A x \in ran[r] : x[1] \in left[r] /\ x[2] \in HandlersOf[x[1]]
    /\ \A e \in Events, h \in Handlers :
         <<e, h>> \in staged[r] <=> outcome[r][e] = "delivered" /\ h \in HandlersOf[e]
    /\ ran[r] \cup staged[r] \subseteq hooks[r]

(* What an outcome says about the row it was recorded for. *)
OutcomeInv ==
  \A r \in Relays, e \in Events :
    /\ outcome[r][e] = "retry" => HandlersOf[e] # {} /\ outbox[e].attempts + 1 < MaxAttempts
    /\ outcome[r][e] = "exhausted" => outbox[e].attempts + 1 = MaxAttempts
    /\ outcome[r][e] = "unhandled" => HandlersOf[e] = {}
    /\ outcome[r][e] = "delivered" => HandlersOf[e] # {}

(* A pending row nothing consumes has never been attempted. *)
UnhandledInv ==
  \A e \in Events :
    outbox[e].status = "pending" /\ HandlersOf[e] = {} => outbox[e].attempts = 0

IInv ==
  /\ TypeOK
  /\ ClaimInv
  /\ BatchInv
  /\ OutcomeInv
  /\ UnhandledInv
  /\ AppliedExactlyOnce
  /\ FailedOnlyWhenExhausted
  /\ CallbacksLostOnlyByFailure

-----------------------------------------------------------------------------
LEMMA InitIInv == Init => IInv
BY OutboxAssumption
   DEF Init, IInv, TypeOK, ClaimInv, BatchInv, OutcomeInv, UnhandledInv, AppliedExactlyOnce,
       FailedOnlyWhenExhausted, CallbacksLostOnlyByFailure, NoOutcome, Row, Status, Outcomes, Effects

LEMMA EmitIInv == ASSUME IInv, NEW e \in Events, Emit(e) PROVE IInv'
<1> USE OutboxAssumption DEF IInv, Emit, batch, bounds
<1>1. TypeOK' BY DEF TypeOK, Row, Status
<1>2. ClaimInv' BY DEF ClaimInv, TypeOK
<1>3. BatchInv' BY DEF BatchInv
<1>4. OutcomeInv' BY DEF OutcomeInv, TypeOK, BatchInv, ClaimInv
<1>5. UnhandledInv' BY DEF UnhandledInv, TypeOK
<1>6. AppliedExactlyOnce' BY DEF AppliedExactlyOnce, TypeOK
<1>7. FailedOnlyWhenExhausted' BY DEF FailedOnlyWhenExhausted, TypeOK
<1>8. CallbacksLostOnlyByFailure' BY DEF CallbacksLostOnlyByFailure
<1> QED BY <1>1, <1>2, <1>3, <1>4, <1>5, <1>6, <1>7, <1>8

LEMMA BackoffIInv == ASSUME IInv, NEW e \in Events, BackoffElapses(e) PROVE IInv'
<1> USE OutboxAssumption DEF IInv, BackoffElapses, batch, bounds
<1>1. TypeOK' BY DEF TypeOK, Row, Status
<1>2. ClaimInv' BY DEF ClaimInv, TypeOK
<1>3. BatchInv' BY DEF BatchInv
<1>4. OutcomeInv' BY DEF OutcomeInv, TypeOK
<1>5. UnhandledInv'
  <2>1. \A f \in Events : outbox'[f].status = outbox[f].status /\ outbox'[f].attempts = outbox[f].attempts
    BY DEF TypeOK, Row
  <2> QED BY <2>1 DEF UnhandledInv
<1>6. AppliedExactlyOnce' BY DEF AppliedExactlyOnce, TypeOK
<1>7. FailedOnlyWhenExhausted' BY DEF FailedOnlyWhenExhausted, TypeOK
<1>8. CallbacksLostOnlyByFailure' BY DEF CallbacksLostOnlyByFailure
<1> QED BY <1>1, <1>2, <1>3, <1>4, <1>5, <1>6, <1>7, <1>8

(* Steps that only suspend, reactivate, or move a relay between tenants. *)
LEMMA ControlIInv ==
  ASSUME IInv,
         \/ \E t \in Tenants : Suspend(t) \/ Reactivate(t)
         \/ \E r \in Relays : StartTick(r) \/ NextTenant(r) \/ EndTick(r)
         \/ UNCHANGED vars
  PROVE  IInv'
<1> USE OutboxAssumption
    DEF IInv, Suspend, Reactivate, StartTick, NextTenant, EndTick, db, batch, bounds, vars
<1>1. TypeOK'
  <2>1. CASE \E t \in Tenants : Suspend(t) BY <2>1 DEF TypeOK
  <2>2. CASE \E t \in Tenants : Reactivate(t) BY <2>2 DEF TypeOK
  <2>3. CASE \E r \in Relays : StartTick(r) \/ NextTenant(r) \/ EndTick(r)
    <3>1. PICK r \in Relays : StartTick(r) \/ NextTenant(r) \/ EndTick(r) BY <2>3
    <3>2. pc' \in [Relays -> {"idle", "tick", "drain", "hooks"}] BY <3>1 DEF TypeOK
    <3>3. todo' \in [Relays -> SUBSET Tenants] BY <3>1 DEF TypeOK
    <3>4. UNCHANGED <<db, batch, hooks, enqueued, lost, bounds>> BY <3>1
    <3> QED BY <3>2, <3>3, <3>4 DEF TypeOK
  <2>4. CASE UNCHANGED vars BY <2>4 DEF TypeOK
  <2> QED BY <2>1, <2>2, <2>3, <2>4
<1>2. ClaimInv' BY DEF ClaimInv, TypeOK
<1>3. BatchInv' BY DEF BatchInv
<1>4. OutcomeInv' BY DEF OutcomeInv
<1>5. UnhandledInv' BY DEF UnhandledInv
<1>6. AppliedExactlyOnce' BY DEF AppliedExactlyOnce
<1>7. FailedOnlyWhenExhausted' BY DEF FailedOnlyWhenExhausted
<1>8. CallbacksLostOnlyByFailure' BY DEF CallbacksLostOnlyByFailure, TypeOK
<1> QED BY <1>1, <1>2, <1>3, <1>4, <1>5, <1>6, <1>7, <1>8

LEMMA ClaimIInv ==
  ASSUME IInv, NEW r \in Relays, NEW t \in Tenants, Claim(r, t) PROVE IInv'
<1> USE OutboxAssumption DEF IInv, db, bounds
<1>0. PICK rows \in SUBSET Claimable(t) :
        claim' = [claim EXCEPT ![r] = rows] /\ left' = [left EXCEPT ![r] = rows]
  BY DEF Claim
<1>a. \A e \in rows : e \in Events /\ outbox[e].status = "pending"
                    /\ \A s \in Relays : e \notin claim[s]
  BY <1>0 DEF Claimable, Locked
<1>b. claim[r] = {}
  BY DEF Claim, ClaimInv
<1> USE DEF Claim
<1>1. TypeOK' BY <1>0, <1>a DEF TypeOK
<1>2. ClaimInv' BY <1>0, <1>a DEF ClaimInv, TypeOK
<1>3. BatchInv' BY <1>0, <1>b DEF BatchInv, TypeOK
<1>4. OutcomeInv' BY DEF OutcomeInv
<1>5. UnhandledInv' BY DEF UnhandledInv
<1>6. AppliedExactlyOnce' BY DEF AppliedExactlyOnce
<1>7. FailedOnlyWhenExhausted' BY DEF FailedOnlyWhenExhausted
<1>8. CallbacksLostOnlyByFailure' BY DEF CallbacksLostOnlyByFailure, TypeOK
<1> QED BY <1>1, <1>2, <1>3, <1>4, <1>5, <1>6, <1>7, <1>8

LEMMA ParkIInv ==
  ASSUME IInv, NEW r \in Relays, NEW e \in Events, ParkUnhandled(r, e) PROVE IInv'
<1> USE OutboxAssumption DEF IInv, ParkUnhandled, Current, db, bounds
<1>1. TypeOK' BY DEF TypeOK, Outcomes
<1>2. ClaimInv' BY DEF ClaimInv
<1>3. BatchInv' BY DEF BatchInv, TypeOK
<1>4. OutcomeInv' BY DEF OutcomeInv, TypeOK
<1>5. UnhandledInv' BY DEF UnhandledInv
<1>6. AppliedExactlyOnce' BY DEF AppliedExactlyOnce
<1>7. FailedOnlyWhenExhausted' BY DEF FailedOnlyWhenExhausted
<1>8. CallbacksLostOnlyByFailure' BY DEF CallbacksLostOnlyByFailure, TypeOK
<1> QED BY <1>1, <1>2, <1>3, <1>4, <1>5, <1>6, <1>7, <1>8

LEMMA HandlerSucceedsIInv ==
  ASSUME IInv, NEW r \in Relays, NEW e \in Events, NEW h \in Handlers, HandlerSucceeds(r, e, h)
  PROVE  IInv'
<1> USE OutboxAssumption DEF IInv, db, bounds
<1> DEFINE done == ran[r] \cup {<<e, h>>}
           last == {x[2] : x \in done} = HandlersOf[e]
<1>a. e \in left[r] /\ e \in claim[r] /\ outcome[r][e] = "none" /\ outbox[e].status = "pending"
  BY DEF HandlerSucceeds, Current, BatchInv, ClaimInv
<1>b. done \in SUBSET Effects /\ \A x \in done : x[1] = e /\ x[2] \in HandlersOf[e]
  BY DEF HandlerSucceeds, Current, BatchInv, TypeOK, Effects
<1>c. last => \A g \in Handlers : <<e, g>> \in done <=> g \in HandlersOf[e]
  <2> SUFFICES ASSUME last, NEW g \in HandlersOf[e] PROVE <<e, g>> \in done
    BY <1>b
  <2>1. PICK x \in done : x[2] = g
    OBVIOUS
  <2>2. x = <<e, g>>
    BY <1>b, <2>1 DEF Effects
  <2> QED BY <2>2
<1>d. /\ hooks' = [hooks EXCEPT ![r] = @ \cup {<<e, h>>}]
      /\ ran' = [ran EXCEPT ![r] = IF last THEN {} ELSE done]
      /\ staged' = [staged EXCEPT ![r] = IF last THEN @ \cup done ELSE @]
      /\ outcome' = [outcome EXCEPT ![r][e] = IF last THEN "delivered" ELSE @]
      /\ left' = [left EXCEPT ![r] = IF last THEN @ \ {e} ELSE @]
      /\ UNCHANGED <<db, pc, todo, claim, enqueued, lost, bounds>>
      /\ h \in HandlersOf[e]
  BY DEF HandlerSucceeds
<1> HIDE DEF done, last
<1>1. TypeOK' BY <1>b, <1>d DEF TypeOK, Outcomes, Effects
<1>2. ClaimInv' BY <1>d DEF ClaimInv
<1>3. BatchInv'
  <2> SUFFICES ASSUME NEW s \in Relays
               PROVE  /\ left'[s] \subseteq claim'[s]
                      /\ \A f \in Events : outcome'[s][f] # "none" <=> f \in claim'[s] \ left'[s]
                      /\ \A x \in ran'[s] : x[1] \in left'[s] /\ x[2] \in HandlersOf[x[1]]
                      /\ \A f \in Events, g \in Handlers :
                           <<f, g>> \in staged'[s] <=> outcome'[s][f] = "delivered" /\ g \in HandlersOf[f]
                      /\ ran'[s] \cup staged'[s] \subseteq hooks'[s]
    BY DEF BatchInv
  <2>1. CASE s # r BY <1>d, <2>1 DEF BatchInv, TypeOK
  <2>2. CASE s = r /\ last
    <3>1. left'[s] \subseteq claim'[s] BY <1>d, <2>2 DEF BatchInv, TypeOK
    <3>2. \A f \in Events : outcome'[s][f] # "none" <=> f \in claim'[s] \ left'[s]
      BY <1>a, <1>d, <2>2 DEF BatchInv, TypeOK
    <3>3. ran'[s] = {} BY <1>d, <2>2 DEF TypeOK
    <3>4. \A f \in Events, g \in Handlers :
            <<f, g>> \in staged'[s] <=> outcome'[s][f] = "delivered" /\ g \in HandlersOf[f]
      <4> SUFFICES ASSUME NEW f \in Events, NEW g \in Handlers
                   PROVE  <<f, g>> \in staged'[s] <=>
                            outcome'[s][f] = "delivered" /\ g \in HandlersOf[f]
        OBVIOUS
      <4>1. <<f, g>> \in staged[r] <=> outcome[r][f] = "delivered" /\ g \in HandlersOf[f]
        BY DEF BatchInv
      <4>2. staged'[r] = staged[r] \cup done
        BY <1>d, <2>2 DEF TypeOK
      <4>3. CASE f = e
        <5>1. outcome'[r][e] = "delivered" BY <1>d, <2>2 DEF TypeOK
        <5> QED BY <1>a, <1>c, <2>2, <4>1, <4>2, <4>3, <5>1
      <4>4. CASE f # e
        <5>1. outcome'[r][f] = outcome[r][f] BY <1>d, <2>2, <4>4 DEF TypeOK
        <5>2. <<f, g>> \notin done BY <1>b, <4>4
        <5> QED BY <2>2, <4>1, <4>2, <5>1, <5>2
      <4> QED BY <4>3, <4>4
    <3>5. staged'[s] \subseteq hooks'[s]
      BY <1>d, <2>2 DEF BatchInv, TypeOK, done
    <3> QED BY <3>1, <3>2, <3>3, <3>4, <3>5
  <2>3. CASE s = r /\ ~last
    BY <1>a, <1>b, <1>d, <2>3 DEF BatchInv, TypeOK, done
  <2> QED BY <2>1, <2>2, <2>3
<1>4. OutcomeInv' BY <1>d DEF OutcomeInv, TypeOK
<1>5. UnhandledInv' BY <1>d DEF UnhandledInv
<1>6. AppliedExactlyOnce' BY <1>d DEF AppliedExactlyOnce
<1>7. FailedOnlyWhenExhausted' BY <1>d DEF FailedOnlyWhenExhausted
<1>8. CallbacksLostOnlyByFailure' BY <1>d DEF CallbacksLostOnlyByFailure, TypeOK
<1> QED BY <1>1, <1>2, <1>3, <1>4, <1>5, <1>6, <1>7, <1>8

LEMMA HandlerFailsIInv ==
  ASSUME IInv, NEW r \in Relays, NEW e \in Events, NEW h \in Handlers, HandlerFails(r, e, h)
  PROVE  IInv'
<1> USE OutboxAssumption DEF IInv, HandlerFails, Current, db, bounds
<1>a. e \in claim[r] /\ outcome[r][e] = "none" /\ outbox[e].status = "pending"
  BY DEF BatchInv, ClaimInv
<1>b. outbox[e].attempts \in Nat /\ outbox[e].attempts < MaxAttempts
  BY <1>a DEF FailedOnlyWhenExhausted, TypeOK, Row
<1>1. TypeOK'
  <2>1. hooks' \in [Relays -> SUBSET Effects]
    <3>1. <<e, h>> \in Effects BY DEF Effects
    <3>2. CASE hooks' = hooks BY <3>2 DEF TypeOK
    <3>3. CASE hooks' = [hooks EXCEPT ![r] = @ \cup {<<e, h>>}] BY <3>1, <3>3 DEF TypeOK
    <3> QED BY <3>2, <3>3
  <2>2. outcome' \in [Relays -> [Events -> Outcomes]] BY DEF TypeOK, Outcomes
  <2>3. ran' \in [Relays -> SUBSET Effects] /\ left' \in [Relays -> SUBSET Events] BY DEF TypeOK
  <2> QED BY <2>1, <2>2, <2>3 DEF TypeOK
<1>2. ClaimInv' BY DEF ClaimInv
<1>3. BatchInv' BY <1>a DEF BatchInv, TypeOK
<1>4. OutcomeInv'
  <2> SUFFICES ASSUME NEW s \in Relays, NEW f \in Events
               PROVE  /\ outcome'[s][f] = "retry" => HandlersOf[f] # {} /\ outbox[f].attempts + 1 < MaxAttempts
                      /\ outcome'[s][f] = "exhausted" => outbox[f].attempts + 1 = MaxAttempts
                      /\ outcome'[s][f] = "unhandled" => HandlersOf[f] = {}
                      /\ outcome'[s][f] = "delivered" => HandlersOf[f] # {}
    BY DEF OutcomeInv
  <2>1. CASE s = r /\ f = e
    <3>1. outcome'[r][e] = IF outbox[e].attempts + 1 >= MaxAttempts THEN "exhausted" ELSE "retry"
      BY DEF TypeOK, Exhausted
    <3> QED BY <1>b, <2>1, <3>1
  <2>2. CASE ~(s = r /\ f = e)
    <3>1. outcome'[s][f] = outcome[s][f] BY <2>2 DEF TypeOK
    <3> QED BY <3>1 DEF OutcomeInv
  <2> QED BY <2>1, <2>2
<1>5. UnhandledInv' BY DEF UnhandledInv
<1>6. AppliedExactlyOnce' BY DEF AppliedExactlyOnce
<1>7. FailedOnlyWhenExhausted' BY DEF FailedOnlyWhenExhausted
<1>8. CallbacksLostOnlyByFailure' BY DEF CallbacksLostOnlyByFailure, TypeOK
<1> QED BY <1>1, <1>2, <1>3, <1>4, <1>5, <1>6, <1>7, <1>8

(* The commit is where every part of the invariant is used: the rows of the  *)
(* batch are pending and this relay's alone, and what is staged agrees with  *)
(* the outcomes written to them.                                             *)
LEMMA CommitIInv == ASSUME IInv, NEW r \in Relays, Commit(r) PROVE IInv'
<1> USE OutboxAssumption DEF IInv, Commit, db, bounds
<1>a. \A e \in claim[r] : /\ e \in Events
                         /\ outbox[e].status = "pending"
                         /\ outcome[r][e] \in Outcomes \ {"none"}
                         /\ \A s \in Relays : s # r => e \notin claim[s]
  BY DEF ClaimInv, BatchInv, TypeOK
<1>b. \A e \in Events : e \notin claim[r] => outcome[r][e] = "none"
  BY DEF BatchInv
<1>c. \A e \in Events : outbox[e] \in Row /\ outbox[e].attempts \in Nat
  BY DEF TypeOK, Row
<1>d. \A e \in Events : outbox'[e] = IF e \in claim[r] THEN Written(outbox[e], outcome[r][e])
                                                     ELSE outbox[e]
  OBVIOUS
<1>1. TypeOK'
  <2>1. outbox' \in [Events -> Row]
    BY <1>a, <1>c DEF TypeOK, Written, Row, Status, Outcomes
  <2>2. applied' \in [Events -> [Handlers -> Nat]]
    BY DEF TypeOK
  <2> QED BY <2>1, <2>2 DEF TypeOK, NoOutcome, Outcomes
<1>2. ClaimInv'
  BY <1>a, <1>d DEF ClaimInv, TypeOK
<1>3. BatchInv'
  <2> SUFFICES ASSUME NEW s \in Relays
               PROVE  /\ left'[s] \subseteq claim'[s]
                      /\ \A f \in Events : outcome'[s][f] # "none" <=> f \in claim'[s] \ left'[s]
                      /\ \A x \in ran'[s] : x[1] \in left'[s] /\ x[2] \in HandlersOf[x[1]]
                      /\ \A f \in Events, g \in Handlers :
                           <<f, g>> \in staged'[s] <=> outcome'[s][f] = "delivered" /\ g \in HandlersOf[f]
                      /\ ran'[s] \cup staged'[s] \subseteq hooks'[s]
    BY DEF BatchInv
  <2>1. CASE s # r BY <2>1 DEF BatchInv, TypeOK
  <2>2. CASE s = r BY <2>2 DEF BatchInv, TypeOK, NoOutcome
  <2> QED BY <2>1, <2>2
<1>4. OutcomeInv'
  <2> SUFFICES ASSUME NEW s \in Relays, NEW e \in Events
               PROVE  /\ outcome'[s][e] = "retry" => HandlersOf[e] # {} /\ outbox'[e].attempts + 1 < MaxAttempts
                      /\ outcome'[s][e] = "exhausted" => outbox'[e].attempts + 1 = MaxAttempts
                      /\ outcome'[s][e] = "unhandled" => HandlersOf[e] = {}
                      /\ outcome'[s][e] = "delivered" => HandlersOf[e] # {}
    BY DEF OutcomeInv
  <2>1. CASE s = r BY <2>1 DEF TypeOK, NoOutcome
  <2>2. CASE s # r /\ e \in claim[r]
    <3>1. e \notin claim[s] BY <1>a, <2>2
    <3>2. outcome'[s][e] = "none" BY <2>2, <3>1 DEF BatchInv, TypeOK
    <3> QED BY <3>2
  <2>3. CASE s # r /\ e \notin claim[r]
    BY <1>d, <2>3 DEF OutcomeInv, TypeOK
  <2> QED BY <2>1, <2>2, <2>3
<1>5. UnhandledInv'
  BY <1>a, <1>d DEF UnhandledInv, OutcomeInv, Written, Outcomes
<1>6. AppliedExactlyOnce'
  <2> SUFFICES ASSUME NEW e \in Events, NEW h \in Handlers
               PROVE  applied'[e][h] =
                        IF outbox'[e].status = "delivered" /\ h \in HandlersOf[e] THEN 1 ELSE 0
    BY DEF AppliedExactlyOnce
  <2>1. <<e, h>> \in staged[r] <=> outcome[r][e] = "delivered" /\ h \in HandlersOf[e]
    BY DEF BatchInv
  <2>2. applied'[e][h] = IF <<e, h>> \in staged[r] THEN applied[e][h] + 1 ELSE applied[e][h]
    OBVIOUS
  <2>3. CASE e \in claim[r]
    BY <1>a, <1>d, <2>1, <2>2, <2>3 DEF AppliedExactlyOnce, Written, Outcomes
  <2>4. CASE e \notin claim[r]
    BY <1>b, <1>d, <2>1, <2>2, <2>4 DEF AppliedExactlyOnce
  <2> QED BY <2>3, <2>4
<1>7. FailedOnlyWhenExhausted'
  <2> SUFFICES ASSUME NEW e \in Events
               PROVE  /\ outbox'[e].status = "failed" =>
                            \/ outbox'[e].attempts = MaxAttempts
                            \/ HandlersOf[e] = {} /\ outbox'[e].attempts = 1
                      /\ outbox'[e].status = "pending" => outbox'[e].attempts < MaxAttempts
    BY DEF FailedOnlyWhenExhausted
  <2>1. CASE e \in claim[r]
    BY <1>a, <1>c, <1>d, <2>1 DEF OutcomeInv, UnhandledInv, Written, Outcomes
  <2>2. CASE e \notin claim[r]
    BY <1>d, <2>2 DEF FailedOnlyWhenExhausted
  <2> QED BY <2>1, <2>2
<1>8. CallbacksLostOnlyByFailure'
  <2> SUFFICES ASSUME NEW x \in Effects, applied'[x[1]][x[2]] > 0
               PROVE  \/ x \in enqueued' \cup lost'
                      \/ \E s \in Relays : pc'[s] = "hooks" /\ x \in hooks'[s]
    BY DEF CallbacksLostOnlyByFailure
  <2>1. x[1] \in Events /\ x[2] \in Handlers /\ x = <<x[1], x[2]>>
    BY DEF Effects
  <2>2. CASE x \in staged[r]
    BY <2>2 DEF BatchInv, TypeOK
  <2>3. CASE x \notin staged[r]
    <3>1. applied[x[1]][x[2]] > 0 BY <2>1, <2>3
    <3> QED BY <3>1 DEF CallbacksLostOnlyByFailure, TypeOK
  <2> QED BY <2>2, <2>3
<1> QED BY <1>1, <1>2, <1>3, <1>4, <1>5, <1>6, <1>7, <1>8

LEMMA RunHookIInv ==
  ASSUME IInv, NEW r \in Relays, NEW x \in Effects, RunHook(r, x) PROVE IInv'
<1> USE OutboxAssumption DEF IInv, RunHook, db, batch, bounds
<1>0. staged[r] = {} /\ ran[r] = {}
  <2>1. claim[r] = {} /\ left[r] = {} BY DEF ClaimInv, BatchInv
  <2>2. ran[r] = {} BY <2>1 DEF BatchInv
  <2>3. \A e \in Events, h \in Handlers : <<e, h>> \notin staged[r] BY <2>1 DEF BatchInv
  <2>4. staged[r] \subseteq Events \X Handlers BY DEF TypeOK, Effects
  <2> QED BY <2>2, <2>3, <2>4
<1>1. TypeOK' BY DEF TypeOK
<1>2. ClaimInv' BY DEF ClaimInv
<1>3. BatchInv' BY <1>0 DEF BatchInv, TypeOK
<1>4. OutcomeInv' BY DEF OutcomeInv
<1>5. UnhandledInv' BY DEF UnhandledInv
<1>6. AppliedExactlyOnce' BY DEF AppliedExactlyOnce
<1>7. FailedOnlyWhenExhausted' BY DEF FailedOnlyWhenExhausted
<1>8. CallbacksLostOnlyByFailure' BY DEF CallbacksLostOnlyByFailure, TypeOK
<1> QED BY <1>1, <1>2, <1>3, <1>4, <1>5, <1>6, <1>7, <1>8

LEMMA CrashIInv == ASSUME IInv, NEW r \in Relays, Crash(r) PROVE IInv'
<1> USE OutboxAssumption DEF IInv, Crash, db
<1>1. TypeOK' BY DEF TypeOK, NoOutcome, Outcomes
<1>2. ClaimInv' BY DEF ClaimInv, TypeOK
<1>3. BatchInv' BY DEF BatchInv, TypeOK, NoOutcome
<1>4. OutcomeInv' BY DEF OutcomeInv, TypeOK, NoOutcome
<1>5. UnhandledInv' BY DEF UnhandledInv
<1>6. AppliedExactlyOnce' BY DEF AppliedExactlyOnce
<1>7. FailedOnlyWhenExhausted' BY DEF FailedOnlyWhenExhausted
<1>8. CallbacksLostOnlyByFailure' BY DEF CallbacksLostOnlyByFailure, TypeOK
<1> QED BY <1>1, <1>2, <1>3, <1>4, <1>5, <1>6, <1>7, <1>8

(* Every step of Next is one of the steps above. *)
LEMMA NextIInv == IInv /\ [Next]_vars => IInv'
<1> SUFFICES ASSUME IInv, [Next]_vars PROVE IInv'
  OBVIOUS
<1>1. CASE \E e \in Events : Emit(e) BY <1>1, EmitIInv
<1>2. CASE \E e \in Events : BackoffElapses(e) BY <1>2, BackoffIInv
<1>3. CASE \/ \E t \in Tenants : Suspend(t) \/ Reactivate(t)
           \/ \E r \in Relays : StartTick(r) \/ NextTenant(r) \/ EndTick(r)
           \/ UNCHANGED vars
  BY <1>3, ControlIInv
<1>4. CASE \E r \in Relays, t \in Tenants : Claim(r, t) BY <1>4, ClaimIInv
<1>5. CASE \E r \in Relays, e \in Events : Process(r, e)
  BY <1>5, ParkIInv, HandlerSucceedsIInv, HandlerFailsIInv DEF Process
<1>6. CASE \E r \in Relays : Commit(r) BY <1>6, CommitIInv
<1>7. CASE \E r \in Relays, x \in Effects : RunHook(r, x) BY <1>7, RunHookIInv
<1>8. CASE \E r \in Relays : Crash(r) BY <1>8, CrashIInv
<1> QED BY <1>1, <1>2, <1>3, <1>4, <1>5, <1>6, <1>7, <1>8 DEF Next, World, TickStep

(* The relay's invariant holds in every reachable state: the claims FOR      *)
(* UPDATE SKIP LOCKED keeps disjoint, the savepoint-by-savepoint bookkeeping *)
(* of drain_outbox, and the properties that follow from them.                *)
THEOREM Inductive == Spec => []IInv
BY InitIInv, NextIInv, PTL DEF Spec

(* Every variable of the relay model keeps its type. *)
THEOREM TypeCorrect == Spec => []TypeOK
<1>1. IInv => TypeOK BY DEF IInv
<1> QED BY <1>1, Inductive, PTL

(* drain_outbox commits the database work of an event's handlers exactly     *)
(* once for a delivered event and not at all for any other.                  *)
THEOREM ExactlyOnce == Spec => []AppliedExactlyOnce
<1>1. IInv => AppliedExactlyOnce BY DEF IInv
<1> QED BY <1>1, Inductive, PTL

(* drain_outbox parks a row as failed only at the attempt ceiling, or at its *)
(* first attempt when no handler is registered.                              *)
THEOREM FailedIsExhausted == Spec => []FailedOnlyWhenExhausted
<1>1. IInv => FailedOnlyWhenExhausted BY DEF IInv
<1> QED BY <1>1, Inductive, PTL

(* The on_commit callbacks of a delivered event's handlers run, are about to *)
(* run, or were dropped by a crash or a failing broker.                      *)
THEOREM CallbacksAccounted == Spec => []CallbacksLostOnlyByFailure
<1>1. IInv => CallbacksLostOnlyByFailure BY DEF IInv
<1> QED BY <1>1, Inductive, PTL

-----------------------------------------------------------------------------
(* A step leaves the outbox table alone, emits a row, or elapses a backoff,  *)
(* or is a commit.                                                           *)
LEMMA TableSteps ==
  ASSUME [Next]_vars
  PROVE  \/ UNCHANGED <<outbox, applied>>
         \/ \E e \in Events : Emit(e)
         \/ \E e \in Events : BackoffElapses(e)
         \/ \E r \in Relays : Commit(r)
<1>1. CASE World \/ UNCHANGED vars
  BY <1>1 DEF World, Suspend, Reactivate, vars, db
<1>2. CASE \E r \in Relays, e \in Events : Process(r, e)
  <2>1. PICK r \in Relays, e \in Events : Process(r, e) BY <1>2
  <2>2. CASE ParkUnhandled(r, e) BY <2>2 DEF ParkUnhandled, db
  <2>3. CASE \E h \in Handlers : HandlerSucceeds(r, e, h) BY <2>3 DEF HandlerSucceeds, db
  <2>4. CASE \E h \in Handlers : HandlerFails(r, e, h) BY <2>4 DEF HandlerFails, db
  <2> QED BY <2>1, <2>2, <2>3, <2>4 DEF Process
<1>3. CASE \E r \in Relays, t \in Tenants : Claim(r, t) BY <1>3 DEF Claim, db
<1>4. CASE \E r \in Relays : StartTick(r) \/ NextTenant(r) \/ EndTick(r)
  BY <1>4 DEF StartTick, NextTenant, EndTick, db
<1>5. CASE \E r \in Relays, x \in Effects : RunHook(r, x) BY <1>5 DEF RunHook, db
<1>6. CASE \E r \in Relays : Crash(r) BY <1>6 DEF Crash, db
<1>7. CASE \E r \in Relays : Commit(r) BY <1>7
<1> QED BY <1>1, <1>2, <1>3, <1>4, <1>5, <1>6, <1>7 DEF Next, TickStep

LEMMA TerminalStep ==
  ASSUME IInv, [Next]_vars, NEW e \in Events, Settled(e) PROVE outbox'[e] = outbox[e]
<1>1. CASE UNCHANGED <<outbox, applied>> BY <1>1
<1>2. CASE \E f \in Events : Emit(f) BY <1>2 DEF Emit, Settled, IInv, TypeOK
<1>3. CASE \E f \in Events : BackoffElapses(f) BY <1>3 DEF BackoffElapses, Settled, IInv, TypeOK
<1>4. CASE \E r \in Relays : Commit(r)
  <2>1. PICK r \in Relays : Commit(r) BY <1>4
  <2>2. e \notin claim[r] BY DEF Settled, IInv, ClaimInv
  <2> QED BY <2>1, <2>2 DEF Commit
<1> QED BY <1>1, <1>2, <1>3, <1>4, TableSteps

(* Once the drain has written delivered or failed, no step writes the row    *)
(* again: a relay only ever commits rows it holds the lock of.               *)
THEOREM TerminalStable == Spec => TerminalRowsStay
<1>1. IInv /\ [Next]_vars => [\A e \in Events : Settled(e) => outbox'[e] = outbox[e]]_vars
  BY TerminalStep
<1> QED BY <1>1, Inductive, PTL DEF Spec, TerminalRowsStay

-----------------------------------------------------------------------------
(* Outbox implements DurableEvents: an Emit produces the event, a Commit     *)
(* settles the rows of its batch that are not to be retried, and every other *)
(* step leaves the table as it is.                                           *)

LEMMA InitRefines == Init => Durable!Init
BY DEF Init, Durable!Init

LEMMA CommitRefines ==
  ASSUME IInv, NEW r \in Relays, Commit(r)
  PROVE  \E delivered, failed \in SUBSET Events : Durable!Settle(delivered, failed)
<1>0. PICK delivered \in SUBSET Events, failed \in SUBSET Events :
        /\ delivered = {e \in Events : outcome[r][e] = "delivered"}
        /\ failed = {e \in Events : outcome[r][e] \in {"exhausted", "unhandled"}}
  OBVIOUS
<1>1. \A e \in Events : /\ outcome[r][e] \in Outcomes
                        /\ e \in claim[r] <=> outcome[r][e] # "none"
  BY DEF IInv, TypeOK, BatchInv, Commit
<1>2. \A e \in claim[r] : outbox[e].status = "pending"
  BY DEF IInv, ClaimInv
<1>3. \A e \in Events : outbox'[e].status = IF e \in delivered THEN "delivered"
                                            ELSE IF e \in failed THEN "failed"
                                            ELSE outbox[e].status
  <2> SUFFICES ASSUME NEW e \in Events
               PROVE  outbox'[e].status = IF e \in delivered THEN "delivered"
                                          ELSE IF e \in failed THEN "failed"
                                          ELSE outbox[e].status
    OBVIOUS
  <2>1. outbox'[e] = IF e \in claim[r] THEN Written(outbox[e], outcome[r][e]) ELSE outbox[e]
    BY DEF Commit
  <2> QED BY <1>0, <1>1, <2>1 DEF Written, Outcomes
<1>4. \A e \in Events, h \in Handlers :
        applied'[e][h] = IF e \in delivered /\ h \in HandlersOf[e]
                           THEN applied[e][h] + 1 ELSE applied[e][h]
  BY <1>0 DEF IInv, BatchInv, Commit
<1>5. applied' = [e \in Events |-> [h \in Handlers |->
                   IF e \in delivered /\ h \in HandlersOf[e]
                     THEN applied[e][h] + 1 ELSE applied[e][h]]]
  <2>1. applied' = [e \in Events |-> [h \in Handlers |-> applied'[e][h]]]
    BY DEF Commit
  <2> QED BY <1>4, <2>1
<1>6. delivered \cap failed = {} /\ \A e \in delivered \cup failed : outbox[e].status = "pending"
  BY <1>0, <1>1, <1>2
<1>7. Durable!Settle(delivered, failed)
  BY <1>3, <1>5, <1>6 DEF Durable!Settle
<1> QED BY <1>7

LEMMA StepRefines == IInv /\ [Next]_vars => [Durable!Next]_Durable!vars
<1> SUFFICES ASSUME IInv, [Next]_vars PROVE [Durable!Next]_Durable!vars
  OBVIOUS
<1>1. CASE UNCHANGED <<outbox, applied>> BY <1>1 DEF Durable!vars
<1>2. CASE \E e \in Events : Emit(e)
  <2>1. PICK e \in Events : Emit(e) BY <1>2
  <2>2. Durable!Produce(e) BY <2>1 DEF Emit, Durable!Produce, IInv, TypeOK
  <2> QED BY <2>2 DEF Durable!Next
<1>3. CASE \E e \in Events : BackoffElapses(e)
  <2>1. \A e \in Events : outbox'[e].status = outbox[e].status
    BY <1>3 DEF BackoffElapses, IInv, TypeOK, Row
  <2>2. applied' = applied BY <1>3 DEF BackoffElapses
  <2> QED BY <2>1, <2>2 DEF Durable!vars
<1>4. CASE \E r \in Relays : Commit(r) BY <1>4, CommitRefines DEF Durable!Next
<1> QED BY <1>1, <1>2, <1>3, <1>4, TableSteps

(* The relay, with its claims, savepoints, retries, crashes and callbacks,   *)
(* keeps the promise of the outbox: an event is settled at most once, and    *)
(* with all of its handlers' database work or none.                          *)
THEOREM Refinement == Spec => Implements
<1> QED BY InitRefines, StepRefines, Inductive, PTL DEF Spec, Implements, Durable!Spec
=============================================================================
