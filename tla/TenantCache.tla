---------------------------- MODULE TenantCache ----------------------------
(***************************************************************************)
(* The Redis cache in front of the tenant lookup (DomainTenantResolver in    *)
(* modules/tenants/service.py), for one domain of one tenant.                *)
(*                                                                           *)
(* Every request resolves its Host: it reads the cache, on a miss the        *)
(* database, and then fills the cache.  A transaction that changes the       *)
(* tenant deletes the cache entry in a callback after its commit             *)
(* (core/database.py), which may fail or die with its process; the purge     *)
(* deletes the tenant without one.  An entry expires after its TTL.          *)
(***************************************************************************)
EXTENDS Integers

CONSTANTS
  Readers,      \* requests that resolve the domain at once
  Writers,      \* transactions that change the tenant at once
  Nothing,      \* no cache entry, no result
  MaxChanges,   \* bound: commits
  MaxLost       \* bound: callbacks that fail

ASSUME CacheAssumption == {MaxChanges, MaxLost} \subseteq Nat

VARIABLES
  stored,     \* status of the tenant's row, or Nothing once it is purged
  cache,      \* status in the cached TenantContext, or Nothing
  reader,     \* [Readers -> [at, found]]
  writer,     \* [Writers -> [at, status]]
  changes, lost,
  excused     \* history: the entry may be stale without an invalidation on its way

vars == <<stored, cache, reader, writer, changes, lost, excused>>

Statuses == {"active", "suspended"}
Reader   == [at : {"idle", "get", "query", "fill"}, found : Statuses \cup {Nothing}]
Writer   == [at : {"idle", "flushed", "committed"}, status : Statuses \cup {Nothing}]

TypeOK ==
  /\ stored \in Statuses \cup {Nothing}
  /\ cache \in Statuses \cup {Nothing}
  /\ reader \in [Readers -> Reader]
  /\ writer \in [Writers -> Writer]
  /\ changes \in 0..MaxChanges
  /\ lost \in 0..MaxLost
  /\ excused \in BOOLEAN

Init ==
  /\ stored = "active"
  /\ cache = Nothing
  /\ reader = [r \in Readers |-> [at |-> "idle", found |-> Nothing]]
  /\ writer = [w \in Writers |-> [at |-> "idle", status |-> Nothing]]
  /\ changes = 0
  /\ lost = 0
  /\ excused = FALSE

-----------------------------------------------------------------------------
(* resolve *)

Goto(r, at, found) == reader' = [reader EXCEPT ![r] = [at |-> at, found |-> found]]

Arrive(r) ==
  /\ reader[r].at = "idle"
  /\ Goto(r, "get", Nothing)
  /\ UNCHANGED <<stored, cache, writer, changes, lost, excused>>

(* A hit answers the request; so does a miss after an error of Redis, from   *)
(* the database.                                                             *)
Get(r) ==
  /\ reader[r].at = "get"
  /\ IF cache # Nothing THEN Goto(r, "idle", Nothing) ELSE Goto(r, "query", Nothing)
  /\ UNCHANGED <<stored, cache, writer, changes, lost, excused>>

(* get_by_domain: an unknown domain is not cached. *)
Query(r) ==
  /\ reader[r].at = "query"
  /\ IF stored = Nothing THEN Goto(r, "idle", Nothing) ELSE Goto(r, "fill", stored)
  /\ UNCHANGED <<stored, cache, writer, changes, lost, excused>>

Fill(r) ==
  /\ reader[r].at = "fill"
  /\ cache' = reader[r].found
  /\ excused' = (reader[r].found # stored)
  /\ Goto(r, "idle", Nothing)
  /\ UNCHANGED <<stored, writer, changes, lost>>

(* SET fails: the request is answered, nothing is cached. *)
FillFails(r) ==
  /\ reader[r].at = "fill"
  /\ Goto(r, "idle", Nothing)
  /\ UNCHANGED <<stored, cache, writer, changes, lost, excused>>

(* Mutation: SET without EX. *)
ExpireNever ==
  /\ cache = "expired"
  /\ UNCHANGED vars

(* SET .. EX: the entry lasts for its TTL, however often it is read. *)
Expire ==
  /\ cache # Nothing
  /\ cache' = Nothing
  /\ excused' = FALSE
  /\ UNCHANGED <<stored, reader, writer, changes, lost>>

-----------------------------------------------------------------------------
(* set_status and the other writers of the tenant *)

(* The row is written, and locked until the commit. *)
Write(w, status) ==
  /\ writer[w].at = "idle"
  /\ stored # Nothing
  /\ \A v \in Writers : writer[v].at # "flushed"
  /\ writer' = [writer EXCEPT ![w] = [at |-> "flushed", status |-> status]]
  /\ UNCHANGED <<stored, cache, reader, changes, lost, excused>>

(* Mutation: the entry is deleted before the commit. *)
CommitAfterInvalidate(w) ==
  /\ writer[w].at = "flushed"
  /\ changes < MaxChanges
  /\ changes' = changes + 1
  /\ stored' = writer[w].status
  /\ writer' = [writer EXCEPT ![w] = [at |-> "idle", status |-> Nothing]]
  /\ UNCHANGED <<cache, reader, lost, excused>>

Commit(w) ==
  /\ writer[w].at = "flushed"
  /\ changes < MaxChanges
  /\ changes' = changes + 1
  /\ stored' = writer[w].status
  /\ writer' = [writer EXCEPT ![w].at = "committed"]
  /\ UNCHANGED <<cache, reader, lost, excused>>

Rollback(w) ==
  /\ writer[w].at = "flushed"
  /\ writer' = [writer EXCEPT ![w] = [at |-> "idle", status |-> Nothing]]
  /\ UNCHANGED <<stored, cache, reader, changes, lost, excused>>

(* The post-commit callback, which logs an error of Redis and goes on. *)
Invalidate(w) ==
  /\ writer[w].at = "committed"
  /\ writer' = [writer EXCEPT ![w] = [at |-> "idle", status |-> Nothing]]
  /\ \/ /\ cache' = Nothing
        /\ excused' = FALSE
        /\ UNCHANGED lost
     \/ /\ lost < MaxLost
        /\ lost' = lost + 1
        /\ excused' = TRUE
        /\ UNCHANGED cache
  /\ UNCHANGED <<stored, reader, changes>>

(* purge_scheduled_tenants deletes the row and leaves the cache to its TTL. *)
Purge ==
  /\ stored = "suspended"
  /\ \A v \in Writers : writer[v].at # "flushed"
  /\ stored' = Nothing
  /\ excused' = TRUE
  /\ UNCHANGED <<cache, reader, writer, changes, lost>>

-----------------------------------------------------------------------------
Resolve(r) == Get(r) \/ Query(r) \/ Fill(r)

Next ==
  \/ \E r \in Readers : Arrive(r) \/ Resolve(r) \/ FillFails(r)
  \/ \E w \in Writers :
       \/ \E status \in Statuses : Write(w, status)
       \/ Commit(w) \/ Rollback(w) \/ Invalidate(w)
  \/ Expire
  \/ Purge

Spec == Init /\ [][Next]_vars

(* Every request is answered, and the TTL runs out in between requests.      *)
Fairness ==
  /\ \A r \in Readers : WF_vars(Resolve(r))
  /\ WF_vars(Expire)

FairSpec == Spec /\ Fairness

-----------------------------------------------------------------------------
(* Properties. *)

(* The cached status is the stored one, unless an invalidation is on its way *)
(* or failed, the tenant was purged, or a request put back what it had read  *)
(* before a commit.                                                          *)
StaleIsExplained ==
  cache # Nothing /\ cache # stored => excused \/ \E w \in Writers : writer[w].at = "committed"

(* Whatever happened, the TTL bounds it: a status that stays what it is      *)
(* for ever is in the end the only one a request finds.                      *)
StaleEnds ==
  \A status \in Statuses \cup {Nothing} :
    <>[](stored = status) => <>[](cache \in {status, Nothing})
=============================================================================
