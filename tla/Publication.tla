----------------------------- MODULE Publication -----------------------------
(***************************************************************************)
(* The life of a listing (modules/listings/service.py), the nightly stale   *)
(* sweep (workers/tasks/listings.py) and the syndication of published       *)
(* listings to one portal (modules/syndication, workers/tasks/syndication). *)
(*                                                                          *)
(* A request is a transaction: Begin reads the listing, with its row lock   *)
(* when the code says FOR UPDATE, and Commit writes what it decided.  Edits *)
(* and the sweep take no lock and write only the columns they change.       *)
(* Leaving or entering "published" and editing a published listing enqueue  *)
(* a sync after the commit.  A sync locks the pair's state row, decides,    *)
(* calls the portal inside that transaction, records the outcome, commits,  *)
(* and only then retries or acknowledges.                                   *)
(*                                                                          *)
(* Abstracted: the columns of a listing other than its status and flag;     *)
(* whose listing it is; the published event, which Outbox carries; alerts;  *)
(* backoff delays.                                                          *)
(***************************************************************************)
EXTENDS Naturals, FiniteSets

CONSTANTS
  Listings,
  Requests,      \* transactions of clients and of the sweep that may overlap
  Workers,       \* Celery workers of the sync queue
  Nothing,       \* no transaction, no task
  Limit,         \* max_listings of the tenant's plan
  Threshold,     \* CIRCUIT_BREAKER_THRESHOLD
  MaxRetries,    \* MAX_SYNC_RETRIES
  MaxRequests,   \* bound: requests after which nobody asks for anything
  MaxFaults      \* bound: portal failures, worker deaths and lost enqueues

ASSUME PublicationAssumption ==
  /\ {Limit, MaxRetries, MaxRequests, MaxFaults} \subseteq Nat /\ Threshold \in Nat \ {0}
  /\ IsFiniteSet(Listings)

VARIABLES
  listing,    \* [Listings -> [status, stale]]
  usage,      \* the tenant's listings_count
  tx,         \* [Requests -> open transaction or Nothing]
  enabled,    \* settings.syndication: is the portal on?
  sync,       \* [Listings -> portal_sync_state row]
  broker,     \* queued syncs
  run,        \* [Workers -> the sync being run or Nothing]
  portal,     \* [Listings -> identifiers under which the portal shows it]
  pushes,     \* [Listings -> identifiers the portal has given out]
  missed,     \* history: listings with a withdrawal that was never carried out
  stray,      \* history: [Listings -> identifiers given out that no row names, or names any more]
  requests, faults

rows   == <<listing, usage>>
queue  == <<broker, missed>>
copies == <<portal, pushes, stray>>
bounds == <<requests, faults>>
vars   == <<rows, tx, enabled, sync, queue, run, copies, bounds>>

Workflow == {"draft", "review", "published", "reserved", "sold", "rented", "archived"}
Actions  == {"push", "update", "remove"}

Tasks == [l : Listings, action : Actions, n : 0..MaxRetries, at : 0..MaxRequests]
Runs  == [task : Tasks, stage : {"start", "waiting", "call", "commit", "done"},
          effective : Actions, verb : Actions \cup {"refuse"}, id : Nat,
          result : {"none", "ok", "transient", "permanent"}, retry : BOOLEAN]
Transactions ==
  [kind : {"transition", "delete", "edit", "sweep"}, ls : SUBSET Listings, to : Workflow,
   was : [status : Workflow, stale : BOOLEAN]]

TypeOK ==
  /\ listing \in [Listings -> [status : Workflow \cup {"absent", "deleted"}, stale : BOOLEAN]]
  /\ usage \in 0..Limit
  /\ tx \in [Requests -> Transactions \cup {Nothing}]
  /\ enabled \in BOOLEAN
  /\ sync \in [Listings -> [row : BOOLEAN, remote : Nat, open : BOOLEAN, failures : 0..Threshold,
                            status : {"pending", "synced", "removed", "failed", "paused"}]]
  /\ broker \in SUBSET Tasks
  /\ run \in [Workers -> Runs \cup {Nothing}]
  /\ pushes \in [Listings -> Nat]
  /\ \A l \in Listings : {portal[l], stray[l]} \subseteq SUBSET (1..pushes[l])
  /\ missed \in SUBSET Listings
  /\ requests \in 0..MaxRequests /\ faults \in 0..MaxFaults

Init ==
  /\ listing = [l \in Listings |-> [status |-> "absent", stale |-> FALSE]]
  /\ usage = 0
  /\ tx = [r \in Requests |-> Nothing]
  /\ enabled = TRUE
  /\ sync = [l \in Listings |-> [row |-> FALSE, remote |-> 0, open |-> FALSE, failures |-> 0,
                                 status |-> "pending"]]
  /\ broker = {} /\ missed = {}
  /\ run = [w \in Workers |-> Nothing]
  /\ portal = [l \in Listings |-> {}]
  /\ pushes = [l \in Listings |-> 0]
  /\ stray = [l \in Listings |-> {}]
  /\ requests = 0 /\ faults = 0

-----------------------------------------------------------------------------
(* The workflow. *)

ALLOWED_TRANSITIONS ==
  [s \in Workflow |->
     CASE s = "draft"     -> {"review", "published", "archived"}
       [] s = "review"    -> {"draft", "published", "archived"}
       [] s = "published" -> {"reserved", "sold", "rented", "archived"}
       [] s = "reserved"  -> {"published", "sold", "rented", "archived"}
       [] s = "archived"  -> {"draft"}
       [] OTHER           -> {"archived"}]

UNDELETABLE_STATUSES == {"published", "reserved", "sold", "rented"}

Exists(l) == listing[l].status \in Workflow

(* Mutation: a listing is withdrawn when it is archived. *)
WithdrawnOnArchive(from, to) ==
  IF to = "published" THEN {"update"} ELSE IF to = "archived" THEN {"remove"} ELSE {}

(* The verb a status change implies; none between two unpublished states. *)
SyndicationAction(from, to) ==
  IF to = "published" THEN {"update"} ELSE IF from = "published" THEN {"remove"} ELSE {}

HoldsRow(r, l) ==
  tx[r] # Nothing /\ tx[r].kind \in {"transition", "delete"} /\ l \in tx[r].ls

RowFree(l) == \A r \in Requests : ~HoldsRow(r, l)

Ask == requests < MaxRequests /\ requests' = requests + 1

Reads(r, kind, ls, to) ==
  tx' = [tx EXCEPT ![r] = [kind |-> kind, ls |-> ls, to |-> to,
                             was |-> listing[CHOOSE l \in ls : TRUE]]]

-----------------------------------------------------------------------------
(* Enqueueing after the commit, one task per enabled portal.  The broker may *)
(* refuse it, and a removal for a portal that is off is never asked for.     *)
Enqueue(ls, actions) ==
  LET new == {[l |-> l, action |-> a, n |-> 0, at |-> requests] : l \in ls, a \in actions}
      skipped == IF "remove" \in actions THEN ls ELSE {}
  IN  \/ /\ enabled \/ new = {}
         /\ broker' = broker \cup new
         /\ UNCHANGED <<missed, faults>>
      \/ /\ ~enabled /\ new # {}
         /\ missed' = missed \cup skipped
         /\ UNCHANGED <<broker, faults>>
      \/ /\ enabled /\ new # {} /\ faults < MaxFaults
         /\ faults' = faults + 1
         /\ missed' = missed \cup skipped
         /\ UNCHANGED broker

-----------------------------------------------------------------------------
(* Requests. *)

(* Mutation: the slot is checked and not reserved. *)
WithoutReserving(n) == n

(* reserve_listing, under the counter's row lock. *)
Reserved(n) == n + 1

(* create and duplicate: a slot, a fresh reference, a draft. *)
Create(l) ==
  /\ listing[l].status = "absent"
  /\ usage < Limit
  /\ Ask
  /\ usage' = Reserved(usage)
  /\ listing' = [listing EXCEPT ![l] = [status |-> "draft", stale |-> FALSE]]
  /\ UNCHANGED <<tx, enabled, sync, queue, run, copies, faults>>

BeginTransition(r, l, to) ==
  /\ tx[r] = Nothing /\ Exists(l) /\ RowFree(l)
  /\ to \in ALLOWED_TRANSITIONS[listing[l].status]
  /\ Ask
  /\ Reads(r, "transition", {l}, to)
  /\ UNCHANGED <<rows, enabled, sync, queue, run, copies, faults>>

(* A transition clears the flag it has seen, unless it publishes.            *)
CommitTransition(r) ==
  LET l == CHOOSE x \in tx[r].ls : TRUE
      was == tx[r].was
      to == tx[r].to
  IN  /\ tx[r] # Nothing /\ tx[r].kind = "transition"
      /\ listing' = [listing EXCEPT ![l] =
                       [status |-> to, stale |-> @.stale /\ (to = "published" \/ ~was.stale)]]
      /\ Enqueue({l}, SyndicationAction(was.status, to))
      /\ tx' = [tx EXCEPT ![r] = Nothing]
      /\ UNCHANGED <<usage, enabled, sync, run, copies, requests>>

BeginDelete(r, l) ==
  /\ tx[r] = Nothing /\ Exists(l) /\ RowFree(l)
  /\ listing[l].status \notin UNDELETABLE_STATUSES
  /\ Ask
  /\ Reads(r, "delete", {l}, "archived")
  /\ UNCHANGED <<rows, enabled, sync, queue, run, copies, faults>>

CommitDelete(r) ==
  /\ tx[r] # Nothing /\ tx[r].kind = "delete"
  /\ listing' = [l \in Listings |->
                   IF l \in tx[r].ls THEN [listing[l] EXCEPT !.status = "deleted"] ELSE listing[l]]
  /\ usage' = IF usage > 0 THEN usage - 1 ELSE 0
  /\ tx' = [tx EXCEPT ![r] = Nothing]
  /\ UNCHANGED <<enabled, sync, queue, run, copies, bounds>>

(* update: no lock. *)
BeginEdit(r, l) ==
  /\ tx[r] = Nothing /\ Exists(l)
  /\ Ask
  /\ Reads(r, "edit", {l}, "draft")
  /\ UNCHANGED <<rows, enabled, sync, queue, run, copies, faults>>

CommitEdit(r) ==
  LET l == CHOOSE x \in tx[r].ls : TRUE
  IN  /\ tx[r] # Nothing /\ tx[r].kind = "edit" /\ RowFree(l)
      /\ listing' = [listing EXCEPT ![l].stale = @ /\ ~tx[r].was.stale]
      /\ Enqueue({l}, IF tx[r].was.status = "published" THEN {"update"} ELSE {})
      /\ tx' = [tx EXCEPT ![r] = Nothing]
      /\ UNCHANGED <<usage, enabled, sync, run, copies, requests>>

(* flag_stale_listings: the published, unflagged listings that have expired. *)
BeginSweep(r) ==
  /\ tx[r] = Nothing
  /\ Ask
  /\ \E ls \in SUBSET {l \in Listings : listing[l].status = "published" /\ ~listing[l].stale} :
       ls # {} /\ Reads(r, "sweep", ls, "draft")
  /\ UNCHANGED <<rows, enabled, sync, queue, run, copies, faults>>

CommitSweep(r) ==
  /\ tx[r] # Nothing /\ tx[r].kind = "sweep" /\ \A l \in tx[r].ls : RowFree(l)
  /\ listing' = [l \in Listings |->
                   IF l \in tx[r].ls THEN [listing[l] EXCEPT !.stale = TRUE] ELSE listing[l]]
  /\ tx' = [tx EXCEPT ![r] = Nothing]
  /\ UNCHANGED <<usage, enabled, sync, queue, run, copies, bounds>>

(* Any transaction may fail before it commits. *)
Abort(r) ==
  /\ tx[r] # Nothing
  /\ faults < MaxFaults
  /\ faults' = faults + 1
  /\ tx' = [tx EXCEPT ![r] = Nothing]
  /\ UNCHANGED <<rows, enabled, sync, queue, run, copies, requests>>

(* replace_settings: the portal is switched on or off. *)
ReplaceSettings ==
  /\ Ask
  /\ enabled' = ~enabled
  /\ UNCHANGED <<rows, tx, sync, queue, run, copies, faults>>

SyncRowFree(l) ==
  \A w \in Workers : run[w] # Nothing /\ run[w].task.l = l => run[w].stage \notin {"call", "commit"}

(* request_repush: closes the breaker of the pair and asks for a push. *)
RequestRepush(l) ==
  /\ listing[l].status = "published" /\ enabled
  /\ SyncRowFree(l) \/ ~sync[l].row
  /\ Ask
  /\ sync' = IF sync[l].open
               THEN [sync EXCEPT ![l].open = FALSE, ![l].failures = 0] ELSE sync
  /\ Enqueue({l}, {"push"})
  /\ UNCHANGED <<rows, tx, enabled, run, copies>>

-----------------------------------------------------------------------------
(* One run of sync_listing_to_portal. *)

Take(w, t) ==
  /\ run[w] = Nothing
  /\ t \in broker
  /\ \A v \in Workers : run[v] # Nothing => run[v].task # t
  /\ run' = [run EXCEPT ![w] = [task |-> t, stage |-> "start", effective |-> t.action,
                                verb |-> "refuse", id |-> 0, result |-> "none", retry |-> FALSE]]
  /\ UNCHANGED <<rows, tx, enabled, sync, queue, copies, bounds>>

(* What an action amounts to, given what the portal is known to have. *)
EffectiveAction(action, remote) ==
  CASE remote = 0 /\ action = "remove" -> {}
    [] remote = 0 /\ action = "update" -> {"push"}
    [] OTHER -> {action}

(* _payload is there for published listings only; without it a push or an    *)
(* update becomes a withdrawal, or is refused.                               *)
Verb(action, l) ==
  CASE action = "remove" -> "remove"
    [] action # "remove" /\ listing[l].status = "published" -> action
    [] OTHER -> IF sync[l].remote = 0 THEN "refuse" ELSE "remove"

Inserting(l) ==
  \E w \in Workers : run[w] # Nothing /\ run[w].task.l = l /\ run[w].stage \in {"call", "commit"}

(* A withdrawal whose task ends without having been tried, or for good. *)
Misses(t) == IF t.action = "remove" THEN {t.l} ELSE {}

(* The state row is locked, or inserted, and the breaker, the settings and   *)
(* the listing are read.  Nothing to do ends the task at once.               *)
Begin(w) ==
  LET t == run[w].task
      s == sync[t.l]
      todo == IF s.open \/ ~enabled THEN {} ELSE EffectiveAction(t.action, s.remote)
  IN  /\ run[w] # Nothing /\ run[w].stage = "start"
      /\ ~Inserting(t.l)
      /\ IF todo = {}
           THEN /\ sync' = [sync EXCEPT ![t.l].row = TRUE,
                                        ![t.l].status = CASE s.open -> @
                                                          [] ~enabled -> "pending"
                                                          [] OTHER -> "removed"]
                /\ run' = [run EXCEPT ![w].stage = "done"]
                /\ missed' = IF s.open \/ ~enabled THEN missed \cup Misses(t) ELSE missed
           ELSE /\ \E e \in todo :
                     run' = [run EXCEPT ![w].stage = "call", ![w].effective = e,
                                        ![w].verb = Verb(e, t.l)]
                /\ UNCHANGED <<sync, missed>>
      /\ UNCHANGED <<rows, tx, enabled, broker, copies, bounds>>

(* Two syncs insert the row of one pair: the second waits for the first ... *)
BeginSecond(w) ==
  /\ run[w] # Nothing /\ run[w].stage = "start"
  /\ ~sync[run[w].task.l].row
  /\ Inserting(run[w].task.l)
  /\ run' = [run EXCEPT ![w].stage = "waiting"]
  /\ UNCHANGED <<rows, tx, enabled, sync, queue, copies, bounds>>

(* ... and fails on the unique key when that commits, unless it rolls back. *)
InsertConflict(w) ==
  LET t == run[w].task
  IN  /\ run[w] # Nothing /\ run[w].stage = "waiting"
      /\ ~Inserting(t.l)
      /\ IF sync[t.l].row
           THEN /\ run' = [run EXCEPT ![w].stage = "done"]
                /\ missed' = missed \cup Misses(t)
           ELSE /\ run' = [run EXCEPT ![w].stage = "start"]
                /\ UNCHANGED missed
      /\ UNCHANGED <<rows, tx, enabled, sync, broker, copies, bounds>>

Ends(w, result) == run' = [run EXCEPT ![w].stage = "commit", ![w].result = result]

Posted(l) ==
  /\ pushes' = [pushes EXCEPT ![l] = @ + 1]
  /\ portal' = [portal EXCEPT ![l] = @ \cup {pushes'[l]}]

Forget(l, ids) == stray' = [stray EXCEPT ![l] = @ \cup ids]

(* The adapter's call.  POST always creates, PUT updates what is there,      *)
(* DELETE is content with what is gone ...                                  *)
Answered(w, l, id) ==
  /\ \/ /\ run[w].verb = "push"
        /\ Posted(l)
        /\ run' = [run EXCEPT ![w].stage = "commit", ![w].result = "ok", ![w].id = pushes'[l]]
     \/ /\ run[w].verb = "update"
        /\ Ends(w, IF id \in portal[l] THEN "ok" ELSE "permanent")
        /\ UNCHANGED <<portal, pushes>>
     \/ /\ run[w].verb = "remove"
        /\ portal' = [portal EXCEPT ![l] = @ \ {id}]
        /\ Ends(w, "ok")
        /\ UNCHANGED pushes
     \/ /\ run[w].verb = "refuse"
        /\ Ends(w, "permanent")
        /\ UNCHANGED <<portal, pushes>>
  /\ UNCHANGED <<stray, faults>>

(* ... and any of them may fail, before its effect or after: a timeout, an   *)
(* error status, a POST answered without an identifier.                     *)
Failed(w, l, id) ==
  /\ run[w].verb # "refuse"
  /\ faults < MaxFaults
  /\ faults' = faults + 1
  /\ \E result \in {"transient", "permanent"} : Ends(w, result)
  /\ \/ UNCHANGED copies
     \/ run[w].verb = "push" /\ Posted(l) /\ Forget(l, {pushes'[l]})
     \/ run[w].verb = "remove" /\ portal' = [portal EXCEPT ![l] = @ \ {id}] /\ UNCHANGED <<pushes, stray>>

Call(w) ==
  LET l == run[w].task.l
      id == sync[l].remote
  IN  /\ run[w] # Nothing /\ run[w].stage = "call"
      /\ Answered(w, l, id) \/ Failed(w, l, id)
      /\ UNCHANGED <<rows, tx, enabled, sync, queue, requests>>

(* _record_success and _record_failure.  A withdrawal keeps the portal's id; *)
(* a second push writes its own over that of a copy still there.            *)
Commit(w) ==
  LET t == run[w].task
      ok == run[w].result = "ok"
      new == ok /\ run[w].id # 0
      trips == ~ok /\ sync[t.l].failures + 1 >= Threshold
      retry == run[w].result = "transient" /\ ~trips
  IN  /\ run[w] # Nothing /\ run[w].stage = "commit"
      /\ sync' = [sync EXCEPT ![t.l] =
           [row |-> TRUE,
            remote |-> IF new THEN run[w].id ELSE @.remote,
            open |-> ~ok /\ (@.open \/ trips),
            failures |-> IF ok THEN 0 ELSE @.failures + 1,
            status |-> CASE ok -> IF run[w].effective = "remove" THEN "removed" ELSE "synced"
                         [] trips -> "paused"
                         [] OTHER -> "failed"]]
      /\ run' = [run EXCEPT ![w].stage = "done", ![w].retry = retry]
      /\ missed' = IF ok \/ retry THEN missed ELSE missed \cup Misses(t)
      /\ Forget(t.l, IF new THEN portal[t.l] \cap {sync[t.l].remote} ELSE {})
      /\ UNCHANGED <<rows, tx, enabled, broker, portal, pushes, bounds>>

(* The task returns or raises Retry, and is acknowledged. *)
Finish(w) ==
  LET t == run[w].task
      again == run[w].retry /\ t.n < MaxRetries
  IN  /\ run[w] # Nothing /\ run[w].stage = "done"
      /\ broker' = (broker \ {t}) \cup (IF again THEN {[t EXCEPT !.n = @ + 1]} ELSE {})
      /\ missed' = IF run[w].retry /\ ~again THEN missed \cup Misses(t) ELSE missed
      /\ run' = [run EXCEPT ![w] = Nothing]
      /\ UNCHANGED <<rows, tx, enabled, sync, copies, bounds>>

(* A worker dies: what it had not committed is rolled back, what the portal  *)
(* did is not, and its task is delivered again or lost (see Webhooks).       *)
Crash(w) ==
  /\ run[w] # Nothing
  /\ faults < MaxFaults
  /\ faults' = faults + 1
  /\ \/ UNCHANGED <<broker, missed>>
     \/ /\ broker' = broker \ {run[w].task}
        /\ missed' = missed \cup Misses(run[w].task)
  /\ Forget(run[w].task.l, IF run[w].stage = "commit" /\ run[w].id # 0 THEN {run[w].id} ELSE {})
  /\ run' = [run EXCEPT ![w] = Nothing]
  /\ UNCHANGED <<rows, tx, enabled, sync, portal, pushes, requests>>

-----------------------------------------------------------------------------
CommitRequest(r) == CommitTransition(r) \/ CommitDelete(r) \/ CommitEdit(r) \/ CommitSweep(r)

Request ==
  \/ \E l \in Listings : Create(l) \/ RequestRepush(l)
  \/ \E r \in Requests :
       \/ \E l \in Listings :
            \/ \E to \in Workflow : BeginTransition(r, l, to)
            \/ BeginDelete(r, l)
            \/ BeginEdit(r, l)
       \/ BeginSweep(r)
       \/ CommitRequest(r)
       \/ Abort(r)
  \/ ReplaceSettings

Step(w) == Begin(w) \/ BeginSecond(w) \/ InsertConflict(w) \/ Call(w) \/ Commit(w) \/ Finish(w)

Next == Request \/ \E w \in Workers : (\E t \in broker : Take(w, t)) \/ Step(w) \/ Crash(w)

Spec == Init /\ [][Next]_vars

(* Begun requests end; live workers work.  Nobody has to ask for anything.   *)
Fairness ==
  /\ \A r \in Requests : WF_vars(CommitRequest(r))
  /\ \A w \in Workers : WF_vars((\E t \in broker : Take(w, t)) \/ Step(w))

FairSpec == Spec /\ Fairness

-----------------------------------------------------------------------------
(* The plan's counter is the number of listings that exist, and each one's   *)
(* slot is freed once (reserve_listing, release_listings).                   *)
UsageCountsListings == usage = Cardinality({l \in Listings : Exists(l)})

(* The portal shows the listing, in a copy that the agency has not lost: one *)
(* posted whose answer never came or was rolled back by a worker's death, or *)
(* whose identifier a second push (request_repush, or its retry) replaced.   *)
Shown(l) == portal[l] \ stray[l] # {}

(* A listing that is no longer published leaves the portal, but for such     *)
(* lost copies, unless it is published again or its withdrawal was given up: *)
(* skipped by the breaker or the settings, refused, out of retries, or lost  *)
(* (sync_to_portal).                                                        *)
WithdrawalConcludes ==
  \A l \in Listings :
    (listing[l].status # "published" /\ Shown(l))
      ~> (listing[l].status = "published" \/ ~Shown(l) \/ l \in missed)
==============================================================================
