-------------------------- MODULE TenantLifecycle --------------------------
(***************************************************************************)
(* The life of a tenant and of its subscription: the platform's requests     *)
(* (modules/tenants/service.py), the payment provider's webhooks             *)
(* (modules/tenants/billing.py) and the Beat sweeps that end a grace period, *)
(* a trial and an offboarding (workers/tasks/tenants.py).                    *)
(*                                                                           *)
(* Each of them is one READ COMMITTED transaction that reads rows without    *)
(* locking them, decides on what it read, and writes.  The ORM writes only   *)
(* the columns it changed from what it read (Flush).  Two steps of a         *)
(* transaction may therefore have other commits between them.                *)
(*                                                                           *)
(* Abstracted: plans, domains, audit rows, the export and the cache; the     *)
(* reads a sweep makes for each of its tenants, which are one step here;     *)
(* offboarding_at, which is set and cleared with deletion_scheduled_at.      *)
(***************************************************************************)
EXTENDS Integers, FiniteSets

CONSTANTS
  Tenants,
  Events,          \* webhook events the provider may deliver, each any number of times
  About,           \* [Events -> the tenant the event is about]
  Kind,            \* [Events -> {"activated", "failed", "canceled"}]
  Processes,       \* requests and tasks that run at once
  NoEvent,
  TrialEnd,        \* trial_ends_at of every tenant
  GraceDays,       \* billing_grace_days
  DeletionDelay,   \* offboard_deletion_delay_days
  MaxTime,         \* bound: the clock stops here
  MaxAborts        \* bound: transactions the database or a worker's death rolls back

ASSUME LifecycleAssumption ==
  /\ About \in [Events -> Tenants]
  /\ Kind \in [Events -> {"activated", "failed", "canceled"}]
  /\ NoEvent \notin Events
  /\ {TrialEnd, GraceDays, DeletionDelay, MaxTime, MaxAborts} \subseteq Nat

VARIABLES
  now,
  tenant,      \* [Tenants -> committed row of tenants]
  sub,         \* [Tenants -> committed row of tenant_subscriptions]
  gone,        \* purged tenants
  recorded,    \* committed rows of billing_events
  tx,          \* [Processes -> open transaction and what it has read]
  aborts,
  applied,     \* history: [Events -> times the event was applied]
  author,      \* history: [Tenants -> who wrote tenants.status last]
  paid,        \* history: tenants with a payment since their last offboarding
  overtaken    \* history: tenants with a commit that rested on rows changed since

db      == <<tenant, sub, gone, recorded>>
history == <<applied, author, paid, overtaken>>
vars    == <<now, db, tx, aborts, history>>

Never == 0     \* NULL
Time  == 0..(MaxTime + GraceDays + DeletionDelay)

Tenant == [status : {"trial", "active", "suspended"}, deletion : Time]
Subscription == [status : {"none", "incomplete", "active", "past_due", "canceled"}, grace : Time]

Requests == {"suspend", "activate", "offboard", "cancel_offboard"}
Sweeps   == {"dunning", "trials", "purge"}

Transaction == [op     : Requests \cup Sweeps \cup {"idle", "webhook"},
                event  : Events \cup {NoEvent},
                on     : SUBSET Tenants,               \* tenants it works on
                loaded : BOOLEAN,                      \* it has read all it needs
                tenant : [Tenants -> Tenant],          \* rows as it read them
                sub    : [Tenants -> Subscription]]

TypeOK ==
  /\ now \in 1..MaxTime
  /\ tenant \in [Tenants -> Tenant]
  /\ sub \in [Tenants -> Subscription]
  /\ gone \in SUBSET Tenants
  /\ recorded \in SUBSET Events
  /\ tx \in [Processes -> Transaction]
  /\ aborts \in 0..MaxAborts
  /\ applied \in [Events -> Nat]
  /\ author \in [Tenants -> {"nobody", "admin", "provider", "dunning", "trials"}]
  /\ paid \in SUBSET Tenants
  /\ overtaken \in SUBSET Tenants

NewTenant == [status |-> "trial", deletion |-> Never]
NoSub     == [status |-> "none", grace |-> Never]

Idle == [op |-> "idle", event |-> NoEvent, on |-> {}, loaded |-> FALSE,
         tenant |-> [t \in Tenants |-> NewTenant], sub |-> [t \in Tenants |-> NoSub]]

Init ==
  /\ now = 1
  /\ tenant = [t \in Tenants |-> NewTenant]
  /\ sub = [t \in Tenants |-> NoSub]
  /\ gone = {}
  /\ recorded = {}
  /\ tx = [p \in Processes |-> Idle]
  /\ aborts = 0
  /\ applied = [e \in Events |-> 0]
  /\ author = [t \in Tenants |-> "nobody"]
  /\ paid = {}
  /\ overtaken = {}

-----------------------------------------------------------------------------
(* Transactions. *)

Live == Tenants \ gone

ReadTenants(on) == [t \in Tenants |-> IF t \in on THEN tenant[t] ELSE NewTenant]
ReadSubs(on)    == [t \in Tenants |-> IF t \in on THEN sub[t] ELSE NoSub]

Begin(p, x) ==
  /\ tx[p] = Idle
  /\ tx' = [tx EXCEPT ![p] = x]
  /\ UNCHANGED <<now, db, aborts, history>>

Rollback(p) ==
  /\ tx' = [tx EXCEPT ![p] = Idle]
  /\ UNCHANGED <<db, history>>

(* What the ORM writes: the columns changed since the row was read. *)
Flush(stored, read, edited) ==
  [c \in DOMAIN stored |-> IF edited[c] = read[c] THEN stored[c] ELSE edited[c]]

(* Rows that are gone cannot be updated, and the subscription of a tenant    *)
(* can be inserted only once: the transaction then fails and is rolled back. *)
Conflict(x, edited) ==
  \E t \in x.on : \/ t \in gone
                  \/ x.sub[t].status = "none" /\ edited[t].status # "none" /\ sub[t].status # "none"

(* What the transaction decides on is not so any more.  The trial sweep       *)
(* decides on the subscription, which it reads last, and not on the tenant.  *)
Stale(x, t) ==
  \/ x.op # "trials" /\ x.tenant[t] # tenant[t]
  \/ x.op \notin Requests \cup {"purge"} /\ x.sub[t] # sub[t]

Overtaken(x) == overtaken' = overtaken \cup {t \in x.on : Stale(x, t)}

(* Writes the edited rows and commits. *)
Commit(p, who, tenants, subs) ==
  LET x == tx[p]
  IN  IF Conflict(x, subs)
        THEN Rollback(p)
        ELSE /\ tx' = [tx EXCEPT ![p] = Idle]
             /\ tenant' = [t \in Tenants |->
                  IF t \in x.on THEN Flush(tenant[t], x.tenant[t], tenants[t]) ELSE tenant[t]]
             /\ sub' = [t \in Tenants |->
                  IF t \in x.on THEN Flush(sub[t], x.sub[t], subs[t]) ELSE sub[t]]
             /\ author' = [t \in Tenants |->
                  IF t \in x.on /\ tenants[t].status # x.tenant[t].status THEN who ELSE author[t]]
             /\ recorded' = recorded \cup ({x.event} \ {NoEvent})
             /\ applied' = [e \in Events |-> applied[e] + (IF e = x.event THEN 1 ELSE 0)]
             /\ paid' = IF x.op = "offboard" THEN paid \ x.on
                        ELSE IF x.event # NoEvent /\ Kind[x.event] = "activated" THEN paid \cup x.on
                        ELSE paid
             /\ Overtaken(x)
             /\ UNCHANGED gone

-----------------------------------------------------------------------------
(* Edits of a row, by the functions that make them. *)

SetStatus(row, status) == [row EXCEPT !.status = status]

StartOffboard(row) ==
  [row EXCEPT !.status = "suspended", !.deletion = now + DeletionDelay]

CancelOffboard(row) == [row EXCEPT !.status = "active", !.deletion = Never]

(* Mutation: a payment leaves the scheduled purge alone. *)
ReactivateOnly(row) == [row EXCEPT !.status = "active"]

Reactivate(row) == [row EXCEPT !.status = "active", !.deletion = Never]

(* _apply, on the tenant and on the subscription. *)
ApplyToTenant(kind, row) ==
  CASE kind = "activated" -> Reactivate(row)
    [] kind = "canceled"  -> SetStatus(row, "suspended")
    [] kind = "failed"    -> row

ApplyToSub(kind, row) ==
  CASE kind = "activated" -> [row EXCEPT !.status = "active", !.grace = Never]
    [] kind = "canceled"  -> [row EXCEPT !.status = "canceled"]
    [] kind = "failed"    -> [row EXCEPT !.status = "past_due", !.grace = now + GraceDays]

(* Mutation: the trial sweep does not look at the subscription. *)
TrialOverForAll(row, s) == SetStatus(row, "suspended")

TrialOver(row, s) == SetStatus(row, IF s.status = "active" THEN "active" ELSE "suspended")

-----------------------------------------------------------------------------
(* Requests of the platform's administrators. *)

BeginRequest(p, op, t) ==
  /\ t \in Live
  /\ Begin(p, [Idle EXCEPT !.op = op, !.on = {t}, !.loaded = TRUE, !.tenant = ReadTenants({t})])

CommitRequest(p) ==
  LET x == tx[p]
      Edit(row) == CASE x.op = "suspend"         -> SetStatus(row, "suspended")
                     [] x.op = "activate"        -> SetStatus(row, "active")
                     [] x.op = "offboard"        -> StartOffboard(row)
                     [] x.op = "cancel_offboard" -> CancelOffboard(row)
  IN  /\ x.op \in Requests
      /\ Commit(p, "admin", [t \in Tenants |-> Edit(x.tenant[t])], x.sub)
      /\ UNCHANGED <<now, aborts>>

-----------------------------------------------------------------------------
(* Webhooks. *)

(* Mutation: the log is searched for the event, which is inserted afterwards. *)
SeenCommitted(e) == e \in recorded

(* INSERT .. ON CONFLICT DO NOTHING waits for a transaction that has inserted *)
(* the same event; a recorded event is acknowledged without effect.          *)
Seen(e) == e \in recorded \/ \E p \in Processes : tx[p].event = e

BeginWebhook(p, e) ==
  /\ ~Seen(e)
  /\ LET on == {About[e]} \ gone
     IN  Begin(p, [Idle EXCEPT !.op = "webhook", !.event = e, !.on = on, !.sub = ReadSubs(on)])

CommitWebhook(p) ==
  LET x == tx[p]
  IN  /\ x.op = "webhook"
      /\ x.loaded
      /\ Commit(p, "provider", [t \in Tenants |-> ApplyToTenant(Kind[x.event], x.tenant[t])],
                               [t \in Tenants |-> ApplyToSub(Kind[x.event], x.sub[t])])
      /\ UNCHANGED <<now, aborts>>

-----------------------------------------------------------------------------
(* Sweeps. *)

(* Mutations: a sweep finds only what has become due since the clock moved. *)
GraceExpiredNow == {t \in Live : sub[t].status = "past_due" /\ sub[t].grace = now}
DeletionsDueNow == {t \in Live : tenant[t].deletion = now}

GraceExpired == {t \in Live : sub[t].status = "past_due" /\ sub[t].grace \in 1..now}
TrialsEnded  == {t \in Live : tenant[t].status = "trial" /\ TrialEnd <= now}
DeletionsDue == {t \in Live : tenant[t].deletion \in 1..now}

BeginDunning(p) ==
  /\ GraceExpired # {}
  /\ Begin(p, [Idle EXCEPT !.op = "dunning", !.on = GraceExpired, !.sub = ReadSubs(GraceExpired)])

CommitDunning(p) ==
  LET x == tx[p]
  IN  /\ x.op = "dunning"
      /\ x.loaded
      /\ Commit(p, "dunning", [t \in Tenants |-> SetStatus(x.tenant[t], "suspended")],
                              [t \in Tenants |-> [x.sub[t] EXCEPT !.grace = Never]])
      /\ UNCHANGED <<now, aborts>>

BeginTrials(p) ==
  /\ TrialsEnded # {}
  /\ Begin(p, [Idle EXCEPT !.op = "trials", !.on = TrialsEnded, !.tenant = ReadTenants(TrialsEnded)])

CommitTrials(p) ==
  LET x == tx[p]
  IN  /\ x.op = "trials"
      /\ x.loaded
      /\ Commit(p, "trials", [t \in Tenants |-> TrialOver(x.tenant[t], x.sub[t])], x.sub)
      /\ UNCHANGED <<now, aborts>>

BeginPurge(p) ==
  /\ DeletionsDue # {}
  /\ Begin(p, [Idle EXCEPT !.op = "purge", !.on = DeletionsDue, !.loaded = TRUE,
                          !.tenant = ReadTenants(DeletionsDue)])

(* Deletes the rows it listed, and with them the subscriptions (CASCADE). *)
CommitPurge(p) ==
  LET x == tx[p]
  IN  /\ x.op = "purge"
      /\ gone' = gone \cup x.on
      /\ sub' = [t \in Tenants |-> IF t \in x.on THEN NoSub ELSE sub[t]]
      /\ tx' = [tx EXCEPT ![p] = Idle]
      /\ Overtaken(x)
      /\ UNCHANGED <<now, tenant, recorded, aborts, applied, author, paid>>

(* The second read of a transaction: a webhook's and the dunning sweep's of   *)
(* the tenants, the trial sweep's of the subscriptions.  A missing tenant is *)
(* a NotFoundError, which ends the whole transaction.                        *)
Load(p) ==
  LET x == tx[p]
  IN  /\ x.op \in {"webhook", "dunning", "trials"}
      /\ ~x.loaded
      /\ IF x.on \cap gone # {}
           THEN Rollback(p)
           ELSE /\ tx' = [tx EXCEPT ![p] =
                     IF x.op = "trials"
                       THEN [x EXCEPT !.loaded = TRUE, !.sub = ReadSubs(x.on)]
                       ELSE [x EXCEPT !.loaded = TRUE, !.tenant = ReadTenants(x.on)]]
                /\ UNCHANGED <<db, history>>
      /\ UNCHANGED <<now, aborts>>

-----------------------------------------------------------------------------
(* The database or the death of a process rolls a transaction back; a sweep  *)
(* runs again at its next hour, an event when the provider sends it again.   *)
Abort(p) ==
  /\ tx[p] # Idle
  /\ aborts < MaxAborts
  /\ aborts' = aborts + 1
  /\ Rollback(p)
  /\ UNCHANGED now

Tick ==
  /\ now < MaxTime
  /\ now' = now + 1
  /\ UNCHANGED <<db, tx, aborts, history>>

Progress(p) ==
  \/ CommitRequest(p) \/ CommitWebhook(p)
  \/ CommitDunning(p) \/ CommitTrials(p) \/ CommitPurge(p)
  \/ Load(p)

Next ==
  \/ \E p \in Processes :
       \/ \E op \in Requests, t \in Tenants : BeginRequest(p, op, t)
       \/ \E e \in Events : BeginWebhook(p, e)
       \/ BeginDunning(p) \/ BeginTrials(p) \/ BeginPurge(p)
       \/ Progress(p)
       \/ Abort(p)
  \/ Tick

Spec == Init /\ [][Next]_vars

(* Open transactions end, and Beat starts every sweep again and again, in a  *)
(* process of its own: that no process is free just now does not prevent it. *)
Fairness ==
  /\ \A p \in Processes : WF_vars(Progress(p))
  /\ SF_vars(\E p \in Processes : BeginDunning(p))
  /\ SF_vars(\E p \in Processes : BeginTrials(p))
  /\ SF_vars(\E p \in Processes : BeginPurge(p))

FairSpec == Spec /\ Fairness

-----------------------------------------------------------------------------
(* Properties. *)

(* handle_webhook: however often and however concurrently the provider sends *)
(* an event, it is applied once if it is recorded and not at all otherwise.  *)
EventExactlyOnce ==
  \A e \in Events : applied[e] = IF e \in recorded THEN 1 ELSE 0

(* Access and payment go together, as long as no transaction about the       *)
(* tenant has committed what another one had made obsolete.  A sweep leaves  *)
(* no tenant suspended whose subscription is active; a canceled tenant is    *)
(* suspended unless an administrator opened it again; the purge spares a     *)
(* tenant that has paid since it was offboarded.                             *)
AccessFollowsPayment ==
  \A t \in Live \ overtaken :
    /\ sub[t].status = "active" =>
         tenant[t].status # "suspended" \/ author[t] \notin {"dunning", "trials"}
    /\ sub[t].status = "canceled" => tenant[t].status = "suspended" \/ author[t] = "admin"

PurgeSparesUnlessOvertaken == (gone \cap paid) \ overtaken = {}

(* _reactivate_tenant: "the scheduled-purge sweep can't delete a tenant that *)
(* just paid".                                                               *)
PurgeSparesPaid == gone \cap paid = {}

(* TenantSubscription.grace_until: "a past_due subscription stays reachable   *)
(* until this instant; the dunning sweep suspends the tenant once it passes", *)
(* unless the tenant pays, is granted a new period, leaves, or the sweep was *)
(* overtaken.                                                                *)
DunningConcludes ==
  \A t \in Tenants :
    sub[t].status = "past_due" /\ sub[t].grace \in 1..now
      ~> \/ tenant[t].status = "suspended"
         \/ sub[t].status # "past_due"
         \/ sub[t].grace > now
         \/ t \in overtaken

(* purge_scheduled_tenants: an offboarded tenant is deleted when it is due,  *)
(* unless that is undone or put off.                                         *)
PurgeConcludes ==
  \A t \in Tenants :
    tenant[t].deletion \in 1..now ~> t \in gone \/ tenant[t].deletion \notin 1..now
=============================================================================
