----------------------- MODULE TenantLifecycleProofs -----------------------
(***************************************************************************)
(* Proofs about TenantLifecycle, for any tenants, events, delays and number  *)
(* of concurrent transactions: a webhook event is applied exactly once, and  *)
(* where no commit has overtaken another, access follows payment and the     *)
(* purge spares who has paid.                                                *)
(*                                                                           *)
(* EventExactlyOnce is not inductive: a commit could apply an event that is  *)
(* already recorded.  What excludes it is the unique index of billing_events *)
(* (Seen), which makes every open transaction the only one with its event,   *)
(* and that event unrecorded.  Access and purge rest on what each kind of    *)
(* transaction has found of its tenants (FoundInv): what it found is still   *)
(* so when it commits, or it records that it has been overtaken; and on the   *)
(* purge that a payment cancels (SparedInv).                                 *)
(***************************************************************************)
EXTENDS TenantLifecycle, TLAPS

(* The transactions' events are theirs alone and not recorded yet. *)
EventInv ==
  /\ recorded \subseteq Events
  /\ applied \in [Events -> Nat]
  /\ tx = [p \in Processes |-> tx[p]]
  /\ \A p \in Processes : "event" \in DOMAIN tx[p]
  /\ \A p \in Processes : tx[p].event \in Events \cup {NoEvent}
  /\ \A p \in Processes : tx[p].event # NoEvent => tx[p].event \notin recorded
  /\ \A p, q \in Processes : tx[p].event = tx[q].event /\ tx[p].event # NoEvent => p = q
  /\ EventExactlyOnce

(* A transaction that ends without a commit, or reads, has no effect on the  *)
(* log: it keeps its event or drops it.                                      *)
LEMMA OnlyTxPreserves ==
  ASSUME EventInv, NEW p \in Processes, NEW x,
         tx' = [tx EXCEPT ![p] = x], "event" \in DOMAIN x,
         x.event = NoEvent \/ x.event = tx[p].event,
         UNCHANGED <<recorded, applied>>
  PROVE  EventInv'
<1> QED BY LifecycleAssumption DEF EventInv, EventExactlyOnce, LifecycleAssumption

LEMMA IdleHasNoEvent == Idle.event = NoEvent /\ "event" \in DOMAIN Idle
<1> QED BY DEF Idle

LEMMA RollbackPreserves ==
  ASSUME EventInv, NEW p \in Processes, Rollback(p)
  PROVE  EventInv'
<1> QED BY OnlyTxPreserves, IdleHasNoEvent DEF Rollback, db, history

(* A transaction of no event begins. *)
LEMMA BeginPreserves ==
  ASSUME EventInv, NEW p \in Processes, NEW x, Begin(p, x), "event" \in DOMAIN x, x.event = NoEvent
  PROVE  EventInv'
<1> QED BY OnlyTxPreserves DEF Begin, db, history

LEMMA CommitPreserves ==
  ASSUME EventInv, NEW p \in Processes, NEW who, NEW tenants, NEW subs,
         Commit(p, who, tenants, subs)
  PROVE  EventInv'
<1>1. CASE Conflict(tx[p], subs)
  BY <1>1, RollbackPreserves DEF Commit
<1>2. CASE ~Conflict(tx[p], subs)
  <2> DEFINE e == tx[p].event
  <2>1. /\ tx' = [tx EXCEPT ![p] = Idle]
        /\ recorded' = recorded \cup ({e} \ {NoEvent})
        /\ applied' = [f \in Events |-> applied[f] + (IF f = e THEN 1 ELSE 0)]
    BY <1>2 DEF Commit
  <2>2. e \in Events \cup {NoEvent} /\ (e # NoEvent => e \notin recorded) /\ NoEvent \notin Events
    BY LifecycleAssumption DEF EventInv, LifecycleAssumption
  <2>3. \A q \in Processes : tx'[q] = IF q = p THEN Idle ELSE tx[q]
    BY <2>1 DEF EventInv
  <2>4. recorded' \subseteq Events /\ applied' \in [Events -> Nat]
    <3>1. \A f \in Events : applied[f] + (IF f = e THEN 1 ELSE 0) \in Nat
      BY DEF EventInv
    <3> QED BY <2>1, <2>2, <3>1 DEF EventInv
  <2>5. tx' = [q \in Processes |-> tx'[q]]
    BY <2>1, <2>3 DEF EventInv
  <2>6. \A q \in Processes : tx'[q].event \in Events \cup {NoEvent}
    BY <2>3, IdleHasNoEvent DEF EventInv
  <2>10. \A q \in Processes : "event" \in DOMAIN tx'[q]
    BY <2>3, IdleHasNoEvent DEF EventInv
  <2>7. \A q \in Processes : tx'[q].event # NoEvent => tx'[q].event \notin recorded'
    BY <2>1, <2>3, IdleHasNoEvent DEF EventInv
  <2>8. \A q, r \in Processes : tx'[q].event = tx'[r].event /\ tx'[q].event # NoEvent => q = r
    BY <2>3, IdleHasNoEvent DEF EventInv
  <2>9. EventExactlyOnce'
    <3> SUFFICES ASSUME NEW f \in Events
                 PROVE  applied'[f] = IF f \in recorded' THEN 1 ELSE 0
      BY DEF EventExactlyOnce
    <3>1. applied[f] = IF f \in recorded THEN 1 ELSE 0
      BY DEF EventInv, EventExactlyOnce
    <3> QED BY <2>1, <2>2, <3>1
  <2> HIDE DEF e
  <2> QED BY <2>4, <2>5, <2>6, <2>7, <2>8, <2>9, <2>10 DEF EventInv
<1> QED BY <1>1, <1>2

(* The delivery of an event that is neither recorded nor in an open          *)
(* transaction.                                                              *)
LEMMA WebhookPreserves ==
  ASSUME EventInv, NEW p \in Processes, NEW e \in Events, BeginWebhook(p, e)
  PROVE  EventInv'
<1> PICK x : x.event = e /\ "event" \in DOMAIN x /\ Begin(p, x)
  BY DEF BeginWebhook, Idle
<1>1. /\ tx' = [tx EXCEPT ![p] = x]
      /\ UNCHANGED <<recorded, applied>>
  BY DEF Begin, db, history
<1>2. e \notin recorded /\ \A q \in Processes : tx[q].event # e
  BY DEF BeginWebhook, Seen
<1> QED BY <1>1, <1>2, LifecycleAssumption DEF EventInv, EventExactlyOnce, LifecycleAssumption

LEMMA InitEventInv == Init => EventInv
<1> QED BY LifecycleAssumption, IdleHasNoEvent DEF Init, EventInv, EventExactlyOnce, LifecycleAssumption

LEMMA NextPreservesEventInv == EventInv /\ [Next]_vars => EventInv'
<1> SUFFICES ASSUME EventInv, [Next]_vars
             PROVE  EventInv'
  OBVIOUS
<1>1. ASSUME NEW p \in Processes, NEW op \in Requests, NEW t \in Tenants, BeginRequest(p, op, t)
      PROVE  EventInv'
  BY <1>1, BeginPreserves DEF BeginRequest, Idle
<1>2. ASSUME NEW p \in Processes, NEW e \in Events, BeginWebhook(p, e)
      PROVE  EventInv'
  BY <1>2, WebhookPreserves
<1>3. ASSUME NEW p \in Processes, BeginDunning(p)
      PROVE  EventInv'
  BY <1>3, BeginPreserves DEF BeginDunning, Idle
<1>4. ASSUME NEW p \in Processes, BeginTrials(p)
      PROVE  EventInv'
  BY <1>4, BeginPreserves DEF BeginTrials, Idle
<1>5. ASSUME NEW p \in Processes, BeginPurge(p)
      PROVE  EventInv'
  BY <1>5, BeginPreserves DEF BeginPurge, Idle
<1>6. ASSUME NEW p \in Processes, CommitRequest(p) \/ CommitWebhook(p) \/ CommitDunning(p) \/ CommitTrials(p)
      PROVE  EventInv'
  BY <1>6, CommitPreserves DEF CommitRequest, CommitWebhook, CommitDunning, CommitTrials
<1>7. ASSUME NEW p \in Processes, CommitPurge(p)
      PROVE  EventInv'
  BY <1>7, OnlyTxPreserves, IdleHasNoEvent DEF CommitPurge, history
<1>8. ASSUME NEW p \in Processes, Load(p)
      PROVE  EventInv'
  <2>1. CASE tx[p].on \cap gone # {}
    BY <1>8, <2>1, RollbackPreserves DEF Load
  <2>2. CASE tx[p].on \cap gone = {}
    <3>1. PICK x : x.event = tx[p].event /\ "event" \in DOMAIN x /\ tx' = [tx EXCEPT ![p] = x]
      BY <1>8, <2>2 DEF Load, EventInv
    <3>2. UNCHANGED <<recorded, applied>>
      BY <1>8, <2>2 DEF Load, db, history
    <3> QED BY <3>1, <3>2, OnlyTxPreserves
  <2> QED BY <2>1, <2>2
<1>9. ASSUME NEW p \in Processes, Abort(p)
      PROVE  EventInv'
  BY <1>9, RollbackPreserves DEF Abort
<1>10. CASE Tick \/ UNCHANGED vars
  BY <1>10 DEF Tick, vars, db, history, EventInv, EventExactlyOnce
<1> QED BY <1>1, <1>2, <1>3, <1>4, <1>5, <1>6, <1>7, <1>8, <1>9, <1>10 DEF Next, Progress

(* handle_webhook: an event is applied exactly once if it is recorded and    *)
(* never otherwise, however often and however concurrently the provider      *)
(* delivers it, and whatever is rolled back.                                 *)
THEOREM EventsExactlyOnce == Spec => []EventExactlyOnce
<1>1. EventInv => EventExactlyOnce
  BY DEF EventInv
<1> QED BY <1>1, InitEventInv, NextPreservesEventInv, PTL DEF Spec

-----------------------------------------------------------------------------
(* Access and purge. *)

TenantRow == [status : {"trial", "active", "suspended"}, deletion : Nat]
SubRow == [status : {"none", "incomplete", "active", "past_due", "canceled"}, grace : Nat]
Tx == [op : Requests \cup Sweeps \cup {"idle", "webhook"}, event : Events \cup {NoEvent},
       on : SUBSET Tenants, loaded : BOOLEAN,
       tenant : [Tenants -> TenantRow], sub : [Tenants -> SubRow]]

RowsInv ==
  /\ now \in Nat \ {0}
  /\ tenant \in [Tenants -> TenantRow]
  /\ sub \in [Tenants -> SubRow]
  /\ tx \in [Processes -> Tx]

(* What a transaction has found of the tenants it works on.                  *)
Found(x) ==
  /\ x.event # NoEvent <=> x.op = "webhook"
  /\ \A t \in x.on :
       /\ x.op = "dunning" => x.sub[t].status = "past_due"
       /\ x.op = "trials"  => x.tenant[t].status = "trial"
       /\ x.op = "purge"   => x.tenant[t].deletion # Never

FoundInv == \A p \in Processes : Found(tx[p])

(* A payment cancels the scheduled purge. *)
SparedInv == \A t \in paid \ overtaken : t \in Tenants => tenant[t].deletion = Never

AccessOf(t) ==
  /\ sub[t].status = "active" =>
       tenant[t].status # "suspended" \/ author[t] \notin {"dunning", "trials"}
  /\ sub[t].status = "canceled" => tenant[t].status = "suspended" \/ author[t] = "admin"

AccessInv ==
  RowsInv /\ FoundInv /\ SparedInv /\ AccessFollowsPayment /\ PurgeSparesUnlessOvertaken

(* Flush writes the columns that were edited, and keeps the others.          *)
LEMMA FlushTenant ==
  ASSUME NEW stored \in TenantRow, NEW read \in TenantRow, NEW edited \in TenantRow
  PROVE  LET row == Flush(stored, read, edited)
         IN  /\ row \in TenantRow
             /\ row.status = IF edited.status = read.status THEN stored.status ELSE edited.status
             /\ row.deletion =
                  IF edited.deletion = read.deletion THEN stored.deletion ELSE edited.deletion
<1>1. Flush(stored, read, edited) =
        [status   |-> IF edited.status = read.status THEN stored.status ELSE edited.status,
         deletion |-> IF edited.deletion = read.deletion THEN stored.deletion ELSE edited.deletion]
  BY DEF Flush, TenantRow
<1> QED BY <1>1 DEF TenantRow

LEMMA FlushSub ==
  ASSUME NEW stored \in SubRow, NEW read \in SubRow, NEW edited \in SubRow
  PROVE  LET row == Flush(stored, read, edited)
         IN  /\ row \in SubRow
             /\ row.status = IF edited.status = read.status THEN stored.status ELSE edited.status
<1>1. Flush(stored, read, edited) =
        [status |-> IF edited.status = read.status THEN stored.status ELSE edited.status,
         grace  |-> IF edited.grace = read.grace THEN stored.grace ELSE edited.grace]
  BY DEF Flush, SubRow
<1> QED BY <1>1 DEF SubRow

LEMMA IdleFound == Idle \in Tx /\ Found(Idle) /\ Idle.op = "idle"
<1> QED BY DEF Idle, Tx, NewTenant, NoSub, TenantRow, SubRow, Found, Never

(* Where only a transaction's reads change, rows and access stand.           *)
LEMMA ReadsKeep ==
  ASSUME AccessInv, NEW p \in Processes, NEW x \in Tx, Found(x), tx' = [tx EXCEPT ![p] = x],
         UNCHANGED <<now, db, history>>
  PROVE  AccessInv'
<1>1. RowsInv'
  BY DEF AccessInv, RowsInv, db
<1>2. FoundInv'
  BY DEF AccessInv, RowsInv, FoundInv
<1>3. (SparedInv /\ AccessFollowsPayment /\ PurgeSparesUnlessOvertaken)'
  BY DEF AccessInv, SparedInv, AccessFollowsPayment, PurgeSparesUnlessOvertaken, Live, db, history
<1> QED BY <1>1, <1>2, <1>3 DEF AccessInv

LEMMA RollbackKeeps ==
  ASSUME AccessInv, NEW p \in Processes, Rollback(p), UNCHANGED now
  PROVE  AccessInv'
<1> QED BY ReadsKeep, IdleFound DEF Rollback

(* What a commit leaves in the rows it writes and in those it does not.      *)
Written(x, who, tenants, subs) ==
  /\ tenant' \in [Tenants -> TenantRow] /\ sub' \in [Tenants -> SubRow]
  /\ \A t \in Tenants \ x.on :
       tenant'[t] = tenant[t] /\ sub'[t] = sub[t] /\ author'[t] = author[t]
  /\ \A t \in x.on :
       /\ tenant'[t].status = IF tenants[t].status = x.tenant[t].status
                                THEN tenant[t].status ELSE tenants[t].status
       /\ tenant'[t].deletion = IF tenants[t].deletion = x.tenant[t].deletion
                                  THEN tenant[t].deletion ELSE tenants[t].deletion
       /\ sub'[t].status = IF subs[t].status = x.sub[t].status
                             THEN sub[t].status ELSE subs[t].status
       /\ author'[t] = IF tenants[t].status # x.tenant[t].status THEN who ELSE author[t]

LEMMA CommitWrites ==
  ASSUME RowsInv, NEW p \in Processes, NEW who,
         NEW tenants \in [Tenants -> TenantRow], NEW subs \in [Tenants -> SubRow],
         Commit(p, who, tenants, subs), ~Conflict(tx[p], subs)
  PROVE  Written(tx[p], who, tenants, subs)
<1> DEFINE x == tx[p]
<1>1. x \in Tx
  BY DEF RowsInv
<1>2. x.tenant \in [Tenants -> TenantRow] /\ x.sub \in [Tenants -> SubRow] /\ x.on \subseteq Tenants
  BY <1>1 DEF Tx
<1>3. /\ tenant' = [t \in Tenants |->
           IF t \in x.on THEN Flush(tenant[t], x.tenant[t], tenants[t]) ELSE tenant[t]]
      /\ sub' = [t \in Tenants |->
           IF t \in x.on THEN Flush(sub[t], x.sub[t], subs[t]) ELSE sub[t]]
      /\ author' = [t \in Tenants |->
           IF t \in x.on /\ tenants[t].status # x.tenant[t].status THEN who ELSE author[t]]
  BY DEF Commit
<1> HIDE DEF x
<1>4. ASSUME NEW t \in Tenants
      PROVE  /\ tenant[t] \in TenantRow /\ x.tenant[t] \in TenantRow /\ tenants[t] \in TenantRow
             /\ sub[t] \in SubRow /\ x.sub[t] \in SubRow /\ subs[t] \in SubRow
  BY <1>2 DEF RowsInv
<1>5. ASSUME NEW t \in Tenants
      PROVE  /\ Flush(tenant[t], x.tenant[t], tenants[t]) \in TenantRow
             /\ Flush(sub[t], x.sub[t], subs[t]) \in SubRow
  <2>1. Flush(tenant[t], x.tenant[t], tenants[t]) \in TenantRow
    BY <1>4, FlushTenant
  <2>2. Flush(sub[t], x.sub[t], subs[t]) \in SubRow
    BY <1>4, FlushSub
  <2> QED BY <2>1, <2>2
<1>6. tenant' \in [Tenants -> TenantRow] /\ sub' \in [Tenants -> SubRow]
  BY <1>3, <1>4, <1>5
<1>7. ASSUME NEW t \in x.on
      PROVE  /\ tenant'[t].status = IF tenants[t].status = x.tenant[t].status
                                      THEN tenant[t].status ELSE tenants[t].status
             /\ tenant'[t].deletion = IF tenants[t].deletion = x.tenant[t].deletion
                                        THEN tenant[t].deletion ELSE tenants[t].deletion
             /\ sub'[t].status = IF subs[t].status = x.sub[t].status
                                   THEN sub[t].status ELSE subs[t].status
             /\ author'[t] = IF tenants[t].status # x.tenant[t].status THEN who ELSE author[t]
  <2>1. t \in Tenants
    BY <1>2
  <2>2. tenant'[t] = Flush(tenant[t], x.tenant[t], tenants[t]) /\ sub'[t] = Flush(sub[t], x.sub[t], subs[t])
    BY <1>3, <2>1
  <2>3. author'[t] = IF tenants[t].status # x.tenant[t].status THEN who ELSE author[t]
    BY <1>3, <2>1
  <2> QED BY <1>4, <2>1, <2>2, <2>3, FlushTenant, FlushSub
<1>8. \A t \in Tenants \ x.on :
        tenant'[t] = tenant[t] /\ sub'[t] = sub[t] /\ author'[t] = author[t]
  BY <1>3
<1> QED BY <1>6, <1>7, <1>8 DEF x, Written

(* A commit keeps the invariant if it leaves the tenants it worked on right, *)
(* those excepted that it has been overtaken with.                           *)
LEMMA CommitKeeps ==
  ASSUME AccessInv, UNCHANGED now, NEW p \in Processes, NEW who,
         NEW tenants \in [Tenants -> TenantRow], NEW subs \in [Tenants -> SubRow],
         Commit(p, who, tenants, subs), ~Conflict(tx[p], subs),
         \A t \in tx[p].on \ overtaken' :
           AccessOf(t)' /\ (t \in paid' => tenant'[t].deletion = Never)
  PROVE  AccessInv'
<1> DEFINE x == tx[p]
<1>1. x \in Tx /\ x.on \subseteq Tenants
  BY DEF AccessInv, RowsInv, Tx
<1>2. /\ tenant' \in [Tenants -> TenantRow] /\ sub' \in [Tenants -> SubRow]
      /\ \A t \in Tenants \ x.on :
           tenant'[t] = tenant[t] /\ sub'[t] = sub[t] /\ author'[t] = author[t]
  BY CommitWrites DEF AccessInv, Written
<1>3. /\ tx' = [tx EXCEPT ![p] = Idle] /\ gone' = gone
      /\ overtaken \subseteq overtaken' /\ paid' \subseteq paid \cup x.on
  BY DEF Commit, Overtaken
<1>4. x.on \cap gone = {}
  BY DEF Conflict
<1> HIDE DEF x
<1>5. RowsInv' /\ FoundInv'
  BY <1>2, <1>3, IdleFound DEF AccessInv, RowsInv, FoundInv
<1>6. SparedInv'
  <2> SUFFICES ASSUME NEW t \in Tenants, t \in paid' \ overtaken'
               PROVE  tenant'[t].deletion = Never
    BY DEF SparedInv
  <2>1. CASE t \in x.on
    BY <2>1 DEF x
  <2>2. CASE t \notin x.on
    BY <1>2, <1>3, <2>2 DEF AccessInv, SparedInv
  <2> QED BY <2>1, <2>2
<1>7. AccessFollowsPayment'
  <2> SUFFICES ASSUME NEW t \in Tenants, t \notin gone, t \notin overtaken'
               PROVE  AccessOf(t)'
    BY <1>3 DEF AccessFollowsPayment, AccessOf, Live
  <2>1. CASE t \in x.on
    BY <2>1 DEF x
  <2>2. CASE t \notin x.on
    BY <1>2, <1>3, <2>2 DEF AccessInv, AccessFollowsPayment, AccessOf, Live
  <2> QED BY <2>1, <2>2
<1>8. PurgeSparesUnlessOvertaken'
  BY <1>3, <1>4 DEF AccessInv, PurgeSparesUnlessOvertaken
<1> QED BY <1>5, <1>6, <1>7, <1>8 DEF AccessInv

(* A request sets a tenant's status in the name of an administrator, and      *)
(* schedules a purge only by an offboarding, which ends what was paid for.   *)
LEMMA RequestKeeps ==
  ASSUME AccessInv, NEW p \in Processes, CommitRequest(p)
  PROVE  AccessInv'
<1> DEFINE x == tx[p]
           Edit(row) == CASE x.op = "suspend"         -> SetStatus(row, "suspended")
                          [] x.op = "activate"        -> SetStatus(row, "active")
                          [] x.op = "offboard"        -> StartOffboard(row)
                          [] x.op = "cancel_offboard" -> CancelOffboard(row)
           edited == [t \in Tenants |-> Edit(x.tenant[t])]
<1>1. /\ x \in Tx /\ x.op \in Requests /\ x.on \subseteq Tenants /\ UNCHANGED now
      /\ x.tenant \in [Tenants -> TenantRow] /\ x.sub \in [Tenants -> SubRow]
      /\ Commit(p, "admin", edited, x.sub)
  BY DEF CommitRequest, AccessInv, RowsInv, Tx
<1>2. ASSUME NEW t \in Tenants
      PROVE  /\ Edit(x.tenant[t]) \in TenantRow
             /\ x.op # "offboard" => Edit(x.tenant[t]).deletion \in {x.tenant[t].deletion, Never}
  <2>1. x.tenant[t] \in TenantRow /\ now + DeletionDelay \in Nat
    BY <1>1, LifecycleAssumption DEF AccessInv, RowsInv, LifecycleAssumption
  <2>2. x.op \in {"suspend", "activate", "offboard", "cancel_offboard"}
    BY <1>1 DEF Requests
  <2> HIDE DEF x
  <2> QED BY <2>1, <2>2 DEF SetStatus, StartOffboard, CancelOffboard, TenantRow, Never
<1>3. edited \in [Tenants -> TenantRow]
  BY <1>2
<1>4. CASE Conflict(x, x.sub)
  BY <1>1, <1>4, RollbackKeeps DEF Commit
<1>5. CASE ~Conflict(x, x.sub)
  <2>0. Written(x, "admin", edited, x.sub)
    <3> HIDE DEF edited
    <3> QED BY <1>1, <1>3, <1>5, CommitWrites DEF AccessInv
  <2>1. ASSUME NEW t \in x.on \ overtaken'
        PROVE  AccessOf(t)' /\ (t \in paid' => tenant'[t].deletion = Never)
    <3> HIDE DEF Edit
    <3>1. t \in Tenants /\ edited[t] = Edit(x.tenant[t])
      BY <1>1, <2>1
    <3>2. tenant[t] = x.tenant[t] /\ t \notin overtaken /\ t \notin gone
      BY <1>1, <1>5, <2>1 DEF Commit, Overtaken, Stale, Conflict, Requests
    <3>3. /\ tenant'[t].status = IF edited[t].status = x.tenant[t].status
                                   THEN tenant[t].status ELSE edited[t].status
          /\ tenant'[t].deletion = IF edited[t].deletion = x.tenant[t].deletion
                                     THEN tenant[t].deletion ELSE edited[t].deletion
          /\ sub'[t].status = sub[t].status
          /\ author'[t] = IF edited[t].status # x.tenant[t].status THEN "admin" ELSE author[t]
      <4> HIDE DEF edited, x
      <4> QED BY <2>0, <2>1 DEF Written
    <3>4. AccessOf(t)
      BY <3>1, <3>2 DEF AccessInv, AccessFollowsPayment, AccessOf, Live
    <3>5. AccessOf(t)'
      BY <3>2, <3>3, <3>4 DEF AccessOf
    <3>6. ASSUME t \in paid' PROVE tenant'[t].deletion = Never
      <4>1. x.event = NoEvent
        BY <1>1 DEF AccessInv, FoundInv, Found, Requests
      <4>2. x.op # "offboard" /\ t \in paid
        BY <1>1, <1>5, <2>1, <3>6, <4>1 DEF Commit
      <4>3. tenant[t].deletion = Never
        BY <3>1, <3>2, <4>2 DEF AccessInv, SparedInv
      <4> QED BY <1>2, <3>1, <3>2, <3>3, <4>2, <4>3
    <3> QED BY <3>5, <3>6
  <2> HIDE DEF edited
  <2> QED BY <1>1, <1>3, <1>5, <2>1, CommitKeeps
<1> QED BY <1>4, <1>5

(* A webhook that nothing has overtaken leaves tenant and subscription as    *)
(* _apply says; a payment cancels the purge.                                 *)
LEMMA ProviderKeeps ==
  ASSUME AccessInv, NEW p \in Processes, CommitWebhook(p)
  PROVE  AccessInv'
<1> DEFINE x == tx[p]
           kind == Kind[x.event]
           edited == [t \in Tenants |-> ApplyToTenant(kind, x.tenant[t])]
           subs == [t \in Tenants |-> ApplyToSub(kind, x.sub[t])]
<1>1. /\ x \in Tx /\ x.op = "webhook" /\ x.on \subseteq Tenants /\ UNCHANGED now
      /\ x.tenant \in [Tenants -> TenantRow] /\ x.sub \in [Tenants -> SubRow]
      /\ kind \in {"activated", "failed", "canceled"} /\ x.event # NoEvent
      /\ Commit(p, "provider", edited, subs)
  <2>1. x \in Tx /\ Found(x)
    BY DEF AccessInv, RowsInv, FoundInv
  <2>2. x.event \in Events /\ x.event # NoEvent
    BY <2>1 DEF Tx, Found, CommitWebhook
  <2> QED BY <2>1, <2>2, LifecycleAssumption DEF CommitWebhook, Tx, LifecycleAssumption
<1> HIDE DEF kind
<1>2. ASSUME NEW t \in Tenants
      PROVE  /\ ApplyToTenant(kind, x.tenant[t]) \in TenantRow
             /\ ApplyToSub(kind, x.sub[t]) \in SubRow
  <2>1. x.tenant[t] \in TenantRow /\ x.sub[t] \in SubRow /\ now + GraceDays \in Nat
    BY <1>1, LifecycleAssumption DEF AccessInv, RowsInv, LifecycleAssumption
  <2> HIDE DEF x
  <2>2. ApplyToTenant(kind, x.tenant[t]) \in TenantRow
    BY <1>1, <2>1 DEF ApplyToTenant, Reactivate, SetStatus, TenantRow, Never
  <2>3. ApplyToSub(kind, x.sub[t]) \in SubRow
    BY <1>1, <2>1 DEF ApplyToSub, SubRow, Never
  <2> QED BY <2>2, <2>3
<1>3. edited \in [Tenants -> TenantRow] /\ subs \in [Tenants -> SubRow]
  BY <1>2
<1>4. CASE Conflict(x, subs)
  BY <1>1, <1>4, RollbackKeeps DEF Commit
<1>5. CASE ~Conflict(x, subs)
  <2>0. Written(x, "provider", edited, subs)
    <3> HIDE DEF edited, subs
    <3> QED BY <1>1, <1>3, <1>5, CommitWrites DEF AccessInv
  <2>1. ASSUME NEW t \in x.on \ overtaken'
        PROVE  AccessOf(t)' /\ (t \in paid' => tenant'[t].deletion = Never)
    <3>1. t \in Tenants /\ x.tenant[t] \in TenantRow /\ x.sub[t] \in SubRow
      BY <1>1, <2>1
    <3>2. tenant[t] = x.tenant[t] /\ sub[t] = x.sub[t] /\ t \notin overtaken /\ t \notin gone
      BY <1>1, <1>5, <2>1 DEF Commit, Overtaken, Stale, Conflict, Requests
    <3>3. /\ tenant'[t].status = ApplyToTenant(kind, x.tenant[t]).status
          /\ tenant'[t].deletion = ApplyToTenant(kind, x.tenant[t]).deletion
          /\ sub'[t].status = ApplyToSub(kind, x.sub[t]).status
      <4>1. edited[t] = ApplyToTenant(kind, x.tenant[t]) /\ subs[t] = ApplyToSub(kind, x.sub[t])
        BY <3>1
      <4> HIDE DEF edited, subs
      <4>2. /\ tenant'[t].status = IF edited[t].status = x.tenant[t].status
                                     THEN tenant[t].status ELSE edited[t].status
            /\ tenant'[t].deletion = IF edited[t].deletion = x.tenant[t].deletion
                                       THEN tenant[t].deletion ELSE edited[t].deletion
            /\ sub'[t].status = IF subs[t].status = x.sub[t].status
                                  THEN sub[t].status ELSE subs[t].status
        BY <2>0, <2>1 DEF Written
      <4> QED BY <3>2, <4>1, <4>2
    <3>4. paid' = IF kind = "activated" THEN paid \cup x.on ELSE paid
      BY <1>1, <1>5 DEF Commit, kind
    <3> HIDE DEF x
    <3>5. CASE kind = "activated"
      BY <3>1, <3>3, <3>5 DEF AccessOf, ApplyToTenant, ApplyToSub, Reactivate, TenantRow, SubRow
    <3>6. CASE kind = "canceled"
      <4>1. AccessOf(t)'
        BY <3>1, <3>3, <3>6 DEF AccessOf, ApplyToTenant, ApplyToSub, SetStatus, TenantRow, SubRow
      <4>2. tenant'[t].deletion = tenant[t].deletion
        BY <3>1, <3>2, <3>3, <3>6 DEF ApplyToTenant, SetStatus, TenantRow
      <4> QED BY <3>1, <3>2, <3>4, <3>6, <4>1, <4>2 DEF AccessInv, SparedInv
    <3>7. CASE kind = "failed"
      <4>1. AccessOf(t)'
        BY <3>1, <3>3, <3>7 DEF AccessOf, ApplyToSub, SubRow
      <4>2. tenant'[t].deletion = tenant[t].deletion
        BY <3>1, <3>2, <3>3, <3>7 DEF ApplyToTenant
      <4> QED BY <3>1, <3>2, <3>4, <3>7, <4>1, <4>2 DEF AccessInv, SparedInv
    <3> QED BY <1>1, <3>5, <3>6, <3>7
  <2> HIDE DEF edited, subs
  <2> QED BY <1>1, <1>3, <1>5, <2>1, CommitKeeps
<1> QED BY <1>4, <1>5

(* The dunning sweep suspends whose subscription is past due.                *)
LEMMA DunningKeeps ==
  ASSUME AccessInv, NEW p \in Processes, CommitDunning(p)
  PROVE  AccessInv'
<1> DEFINE x == tx[p]
           edited == [t \in Tenants |-> SetStatus(x.tenant[t], "suspended")]
           subs == [t \in Tenants |-> [x.sub[t] EXCEPT !.grace = Never]]
<1>1. /\ x \in Tx /\ x.op = "dunning" /\ x.on \subseteq Tenants /\ UNCHANGED now
      /\ x.tenant \in [Tenants -> TenantRow] /\ x.sub \in [Tenants -> SubRow]
      /\ Commit(p, "dunning", edited, subs)
  BY DEF CommitDunning, AccessInv, RowsInv, Tx
<1>2. ASSUME NEW t \in Tenants
      PROVE  /\ edited[t] \in TenantRow /\ edited[t].deletion = x.tenant[t].deletion
             /\ subs[t] \in SubRow /\ subs[t].status = x.sub[t].status
  <2>1. x.tenant[t] \in TenantRow /\ x.sub[t] \in SubRow
    BY <1>1
  <2> HIDE DEF x
  <2> QED BY <2>1 DEF SetStatus, TenantRow, SubRow, Never
<1>3. edited \in [Tenants -> TenantRow] /\ subs \in [Tenants -> SubRow]
  BY <1>2
<1> HIDE DEF edited, subs
<1>4. CASE Conflict(x, subs)
  BY <1>1, <1>4, RollbackKeeps DEF Commit
<1>5. CASE ~Conflict(x, subs)
  <2>0. Written(x, "dunning", edited, subs)
    BY <1>1, <1>3, <1>5, CommitWrites DEF AccessInv
  <2>1. ASSUME NEW t \in x.on \ overtaken'
        PROVE  AccessOf(t)' /\ (t \in paid' => tenant'[t].deletion = Never)
    <3>1. t \in Tenants
      BY <1>1, <2>1
    <3>2. sub[t] = x.sub[t] /\ t \notin overtaken
      BY <1>1, <1>5, <2>1 DEF Commit, Overtaken, Stale, Requests
    <3>3. sub'[t].status = sub[t].status /\ tenant'[t].deletion = tenant[t].deletion
      <4>1. /\ tenant'[t].deletion = IF edited[t].deletion = x.tenant[t].deletion
                                       THEN tenant[t].deletion ELSE edited[t].deletion
            /\ sub'[t].status = IF subs[t].status = x.sub[t].status
                                  THEN sub[t].status ELSE subs[t].status
        BY <2>0, <2>1 DEF Written
      <4> QED BY <1>2, <3>1, <4>1
    <3>4. x.sub[t].status = "past_due" /\ x.event = NoEvent
      BY <1>1, <2>1 DEF AccessInv, FoundInv, Found
    <3>5. paid' = paid
      BY <1>1, <1>5, <3>4 DEF Commit
    <3> QED BY <3>1, <3>2, <3>3, <3>4, <3>5 DEF AccessOf, AccessInv, SparedInv
  <2> QED BY <1>1, <1>3, <1>5, <2>1, CommitKeeps
<1> QED BY <1>4, <1>5

(* The trial sweep decides by the subscription as it is when it commits.     *)
LEMMA TrialsKeep ==
  ASSUME AccessInv, NEW p \in Processes, CommitTrials(p)
  PROVE  AccessInv'
<1> DEFINE x == tx[p]
           edited == [t \in Tenants |-> TrialOver(x.tenant[t], x.sub[t])]
<1>1. /\ x \in Tx /\ x.op = "trials" /\ x.on \subseteq Tenants /\ UNCHANGED now
      /\ x.tenant \in [Tenants -> TenantRow] /\ x.sub \in [Tenants -> SubRow]
      /\ Commit(p, "trials", edited, x.sub)
  BY DEF CommitTrials, AccessInv, RowsInv, Tx
<1>2. ASSUME NEW t \in Tenants
      PROVE  /\ edited[t] \in TenantRow /\ edited[t].deletion = x.tenant[t].deletion
             /\ edited[t].status = IF x.sub[t].status = "active" THEN "active" ELSE "suspended"
  <2>1. x.tenant[t] \in TenantRow
    BY <1>1
  <2> HIDE DEF x
  <2> QED BY <2>1 DEF TrialOver, SetStatus, TenantRow
<1>3. edited \in [Tenants -> TenantRow]
  BY <1>2
<1> HIDE DEF edited
<1>4. CASE Conflict(x, x.sub)
  BY <1>1, <1>4, RollbackKeeps DEF Commit
<1>5. CASE ~Conflict(x, x.sub)
  <2>0. Written(x, "trials", edited, x.sub)
    BY <1>1, <1>3, <1>5, CommitWrites DEF AccessInv
  <2>1. ASSUME NEW t \in x.on \ overtaken'
        PROVE  AccessOf(t)' /\ (t \in paid' => tenant'[t].deletion = Never)
    <3>1. t \in Tenants
      BY <1>1, <2>1
    <3>2. sub[t] = x.sub[t] /\ t \notin overtaken
      BY <1>1, <1>5, <2>1 DEF Commit, Overtaken, Stale, Requests
    <3>3. x.tenant[t].status = "trial" /\ x.event = NoEvent
      BY <1>1, <2>1 DEF AccessInv, FoundInv, Found
    <3>4. /\ sub'[t].status = sub[t].status /\ tenant'[t].deletion = tenant[t].deletion
          /\ tenant'[t].status = IF sub[t].status = "active" THEN "active" ELSE "suspended"
      BY <1>1, <1>2, <1>3, <2>0, <2>1, <3>1, <3>2, <3>3 DEF Written
    <3>5. paid' = paid
      BY <1>1, <1>5, <3>3 DEF Commit
    <3> QED BY <3>1, <3>2, <3>4, <3>5 DEF AccessOf, AccessInv, SparedInv
  <2> QED BY <1>1, <1>3, <1>5, <2>1, CommitKeeps
<1> QED BY <1>4, <1>5

(* The purge deletes what it has listed as due: a tenant that has paid since  *)
(* is due no more, and then the purge has been overtaken.                    *)
LEMMA PurgeKeeps ==
  ASSUME AccessInv, NEW p \in Processes, CommitPurge(p)
  PROVE  AccessInv'
<1> DEFINE x == tx[p]
<1>1. /\ x \in Tx /\ x.on \subseteq Tenants /\ Found(x) /\ x.op = "purge"
      /\ UNCHANGED <<now, tenant, author, paid>> /\ gone' = gone \cup x.on
      /\ sub' = [t \in Tenants |-> IF t \in x.on THEN NoSub ELSE sub[t]]
      /\ tx' = [tx EXCEPT ![p] = Idle]
      /\ overtaken' = overtaken \cup {t \in x.on : Stale(x, t)}
  BY DEF CommitPurge, Overtaken, AccessInv, RowsInv, FoundInv, Tx
<1> HIDE DEF x
<1>2. (RowsInv /\ FoundInv)'
  <2>1. NoSub \in SubRow
    BY DEF NoSub, SubRow, Never
  <2> QED BY <1>1, <2>1, IdleFound DEF AccessInv, RowsInv, FoundInv
<1>3. SparedInv'
  BY <1>1 DEF AccessInv, SparedInv
<1>4. AccessFollowsPayment'
  BY <1>1 DEF AccessInv, AccessFollowsPayment, Live
<1>5. PurgeSparesUnlessOvertaken'
  <2>1. ASSUME NEW t \in x.on, t \in paid, t \notin overtaken
        PROVE  Stale(x, t)
    BY <1>1, <2>1 DEF AccessInv, SparedInv, Found, Stale
  <2> QED BY <1>1, <2>1 DEF AccessInv, PurgeSparesUnlessOvertaken
<1> QED BY <1>2, <1>3, <1>4, <1>5 DEF AccessInv

LEMMA ReadRows ==
  ASSUME RowsInv, NEW on \in SUBSET Tenants
  PROVE  /\ ReadTenants(on) \in [Tenants -> TenantRow] /\ ReadSubs(on) \in [Tenants -> SubRow]
         /\ \A t \in on : ReadTenants(on)[t] = tenant[t] /\ ReadSubs(on)[t] = sub[t]
<1>1. NewTenant \in TenantRow /\ NoSub \in SubRow
  BY DEF NewTenant, NoSub, TenantRow, SubRow, Never
<1> QED BY <1>1 DEF ReadTenants, ReadSubs, RowsInv

(* A transaction begins with what it finds.                                  *)
LEMMA BeginKeeps ==
  ASSUME AccessInv, NEW p \in Processes, NEW x \in Tx, Found(x), Begin(p, x)
  PROVE  AccessInv'
<1> QED BY ReadsKeep DEF Begin

LEMMA BeginsKeep ==
  ASSUME AccessInv, NEW p \in Processes,
         \/ \E op \in Requests, t \in Tenants : BeginRequest(p, op, t)
         \/ \E e \in Events : BeginWebhook(p, e)
         \/ BeginDunning(p) \/ BeginTrials(p) \/ BeginPurge(p)
  PROVE  AccessInv'
<1> USE IdleFound
<1>0. RowsInv
  BY DEF AccessInv
<1>1. ASSUME NEW op \in Requests, NEW t \in Tenants, BeginRequest(p, op, t)
      PROVE  AccessInv'
  <2> DEFINE x == [Idle EXCEPT !.op = op, !.on = {t}, !.loaded = TRUE, !.tenant = ReadTenants({t})]
  <2>1. x \in Tx /\ Found(x)
    BY <1>0, ReadRows DEF Tx, Idle, Found, Requests
  <2>2. Begin(p, x)
    BY <1>1 DEF BeginRequest
  <2> HIDE DEF x
  <2> QED BY <2>1, <2>2, BeginKeeps
<1>2. ASSUME NEW e \in Events, BeginWebhook(p, e)
      PROVE  AccessInv'
  <2> DEFINE on == {About[e]} \ gone
             x == [Idle EXCEPT !.op = "webhook", !.event = e, !.on = on, !.sub = ReadSubs(on)]
  <2>1. on \subseteq Tenants /\ e # NoEvent
    BY LifecycleAssumption DEF LifecycleAssumption
  <2> HIDE DEF on
  <2>2. x \in Tx /\ Found(x)
    BY <1>0, <2>1, ReadRows DEF Tx, Idle, Found
  <2>3. Begin(p, x)
    BY <1>2 DEF BeginWebhook, on
  <2> HIDE DEF x
  <2> QED BY <2>2, <2>3, BeginKeeps
<1>3. CASE BeginDunning(p)
  <2> DEFINE on == GraceExpired
             x == [Idle EXCEPT !.op = "dunning", !.on = on, !.sub = ReadSubs(on)]
  <2>1. on \subseteq Tenants /\ \A t \in on : sub[t].status = "past_due"
    BY DEF GraceExpired, Live
  <2> HIDE DEF on
  <2>a. ReadSubs(on) \in [Tenants -> SubRow] /\ \A t \in on : ReadSubs(on)[t] = sub[t]
    BY <1>0, <2>1, ReadRows
  <2>b. x \in Tx
    BY <2>1, <2>a, IdleFound DEF Tx, Sweeps
  <2>c. Found(x)
    BY <2>1, <2>a, IdleFound DEF Tx, Found
  <2>2. x \in Tx /\ Found(x)
    BY <2>b, <2>c
  <2>3. Begin(p, x)
    BY <1>3 DEF BeginDunning, on
  <2> HIDE DEF x
  <2> QED BY <2>2, <2>3, BeginKeeps
<1>4. CASE BeginTrials(p)
  <2> DEFINE on == TrialsEnded
             x == [Idle EXCEPT !.op = "trials", !.on = on, !.tenant = ReadTenants(on)]
  <2>1. on \subseteq Tenants /\ \A t \in on : tenant[t].status = "trial"
    BY DEF TrialsEnded, Live
  <2> HIDE DEF on
  <2>a. ReadTenants(on) \in [Tenants -> TenantRow] /\ \A t \in on : ReadTenants(on)[t] = tenant[t]
    BY <1>0, <2>1, ReadRows
  <2>b. x \in Tx
    BY <2>1, <2>a, IdleFound DEF Tx, Sweeps
  <2>c. Found(x)
    BY <2>1, <2>a, IdleFound DEF Tx, Found
  <2>2. x \in Tx /\ Found(x)
    BY <2>b, <2>c
  <2>3. Begin(p, x)
    BY <1>4 DEF BeginTrials, on
  <2> HIDE DEF x
  <2> QED BY <2>2, <2>3, BeginKeeps
<1>5. CASE BeginPurge(p)
  <2> DEFINE on == DeletionsDue
             x == [Idle EXCEPT !.op = "purge", !.on = on, !.loaded = TRUE, !.tenant = ReadTenants(on)]
  <2>1. on \subseteq Tenants /\ \A t \in on : tenant[t].deletion # Never
    BY <1>0 DEF DeletionsDue, Live, Never, RowsInv
  <2> HIDE DEF on
  <2>a. ReadTenants(on) \in [Tenants -> TenantRow] /\ \A t \in on : ReadTenants(on)[t] = tenant[t]
    BY <1>0, <2>1, ReadRows
  <2>b. x \in Tx
    BY <2>1, <2>a, IdleFound DEF Tx, Sweeps
  <2>c. Found(x)
    BY <2>1, <2>a, IdleFound DEF Tx, Found
  <2>2. x \in Tx /\ Found(x)
    BY <2>b, <2>c
  <2>3. Begin(p, x)
    BY <1>5 DEF BeginPurge, on
  <2> HIDE DEF x
  <2> QED BY <2>2, <2>3, BeginKeeps
<1> QED BY <1>1, <1>2, <1>3, <1>4, <1>5

LEMMA LoadKeeps ==
  ASSUME AccessInv, NEW p \in Processes, Load(p)
  PROVE  AccessInv'
<1> DEFINE x == tx[p]
<1>1. /\ x \in Tx /\ x.on \subseteq Tenants /\ Found(x) /\ x.op \in {"webhook", "dunning", "trials"}
      /\ UNCHANGED now
  BY DEF AccessInv, RowsInv, FoundInv, Load, Tx
<1>2. CASE x.on \cap gone # {}
  BY <1>1, <1>2, RollbackKeeps DEF Load
<1>3. CASE x.on \cap gone = {}
  <2> DEFINE y == IF x.op = "trials"
                    THEN [x EXCEPT !.loaded = TRUE, !.sub = ReadSubs(x.on)]
                    ELSE [x EXCEPT !.loaded = TRUE, !.tenant = ReadTenants(x.on)]
  <2>1. tx' = [tx EXCEPT ![p] = y] /\ UNCHANGED <<db, history>>
    BY <1>3 DEF Load
  <2> HIDE DEF x
  <2>2. y \in Tx /\ Found(y)
    BY <1>1, ReadRows DEF AccessInv, Tx, Found
  <2> HIDE DEF y
  <2> QED BY <1>1, <2>1, <2>2, ReadsKeep
<1> QED BY <1>2, <1>3

LEMMA NextKeeps == AccessInv /\ [Next]_vars => AccessInv'
<1> SUFFICES ASSUME AccessInv, [Next]_vars
             PROVE  AccessInv'
  OBVIOUS
<1>1. ASSUME NEW p \in Processes, Progress(p)
      PROVE  AccessInv'
  BY <1>1, RequestKeeps, ProviderKeeps, DunningKeeps, TrialsKeep, PurgeKeeps, LoadKeeps DEF Progress
<1>2. ASSUME NEW p \in Processes, Abort(p)
      PROVE  AccessInv'
  BY <1>2, RollbackKeeps DEF Abort
<1>3. CASE Tick \/ UNCHANGED vars
  BY <1>3 DEF Tick, vars, db, history, AccessInv, RowsInv, FoundInv, SparedInv,
              AccessFollowsPayment, PurgeSparesUnlessOvertaken, Live
<1> QED BY <1>1, <1>2, <1>3, BeginsKeep DEF Next

LEMMA InitAccess == Init => AccessInv
<1> SUFFICES ASSUME Init PROVE AccessInv  OBVIOUS
<1>1. RowsInv /\ FoundInv
  BY IdleFound DEF Init, RowsInv, FoundInv, NewTenant, NoSub, TenantRow, SubRow, Never
<1>2. SparedInv /\ AccessFollowsPayment /\ PurgeSparesUnlessOvertaken
  BY DEF Init, SparedInv, AccessFollowsPayment, PurgeSparesUnlessOvertaken, NoSub, Live
<1> QED BY <1>1, <1>2 DEF AccessInv

LEMMA AccessAlways == Spec => []AccessInv
<1> QED BY InitAccess, NextKeeps, PTL DEF Spec

(* Unless a commit rested on rows changed since, no sweep leaves a tenant     *)
(* suspended whose subscription is active, and a canceled one stays closed   *)
(* until an administrator opens it (_apply, suspend_grace_expired,           *)
(* expire_trials).                                                           *)
THEOREM PaidIsOpen == Spec => []AccessFollowsPayment
<1>1. AccessInv => AccessFollowsPayment
  BY DEF AccessInv
<1> QED BY <1>1, AccessAlways, PTL

(* Unless a payment has committed between its list and its commit, the purge  *)
(* spares a tenant that has paid since it was offboarded                     *)
(* (purge_scheduled_tenants, _reactivate_tenant).                            *)
THEOREM PaidIsSpared == Spec => []PurgeSparesUnlessOvertaken
<1>1. AccessInv => PurgeSparesUnlessOvertaken
  BY DEF AccessInv
<1> QED BY <1>1, AccessAlways, PTL
=============================================================================
