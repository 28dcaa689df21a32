----------------------------- MODULE LegalPages -----------------------------
(***************************************************************************)
(* The versions of one legal page (modules/content) and the public reads of  *)
(* it through the versioned cache (core/cache.py).  Publishing locks the     *)
(* current row, if there is one; two partial unique indexes decide the rest. *)
(* A commit is followed by a bump of the entity's counter; a read takes the  *)
(* counter, looks under it, and on a miss stores what it loads under the     *)
(* counter it took.                                                          *)
(*                                                                          *)
(* Abstracted: the text of a version, kinds and locales, the edge cache in   *)
(* front (s-maxage).                                                         *)
(***************************************************************************)
EXTENDS Naturals, FiniteSets, FiniteSetsExt

CONSTANTS Publishers, Readers, Nothing,
          MaxVersions, \* bound: publications
          MaxReads,    \* bound: public reads
          MaxOutages   \* bound: failing commands of Redis

VARIABLES
  rows,      \* committed legal_pages rows: version and is_current
  publish,   \* [Publishers -> Nothing or an open transaction]
  counter,   \* the cache version of the entity
  cache,     \* counter |-> the version stored under it
  visit,     \* [Readers -> Nothing or the read in progress]
  served,    \* the versions served, each with the newest one announced before its read
  asked, reads, outages,
  announced  \* history: the newest version whose bump was made

legalVars == <<rows, publish, counter, cache, visit, served, asked, reads, outages, announced>>

Init ==
  /\ rows = {} /\ publish = [p \in Publishers |-> Nothing]
  /\ counter = 0 /\ cache = [c \in 0..MaxVersions |-> Nothing]
  /\ visit = [r \in Readers |-> Nothing] /\ served = {}
  /\ asked = 0 /\ reads = 0 /\ outages = 0 /\ announced = 0

Versions == {row.version : row \in rows}
Newest == Max(Versions \cup {0})
Current == {row.version : row \in {x \in rows : x.current}}
Outage == outages < MaxOutages /\ outages' = outages + 1

-----------------------------------------------------------------------------
Step(p, step) == publish[p] # Nothing /\ publish[p].at = step
cached == <<counter, cache, visit, served, reads, outages, announced>>

(* publish_legal_version looks for the current row ...                      *)
Select(p) ==
  /\ publish[p] = Nothing
  /\ asked < MaxVersions /\ asked' = asked + 1
  /\ publish' = [publish EXCEPT ![p] = [at |-> "lock", seen |-> Current, mine |-> {}, next |-> 0]]
  /\ UNCHANGED <<rows, cached>>

RowFree(p) == \A q \in Publishers \ {p} : Step(q, "insert") => publish[q].mine \cap publish[p].seen = {}

(* ... locks it, waiting for whoever holds it; a row that is current no      *)
(* longer when the wait ends is not returned ...                            *)
Lock(p) ==
  /\ Step(p, "lock") /\ RowFree(p)
  /\ publish' = [publish EXCEPT ![p] = [@ EXCEPT !.at = "insert",
                   !.mine = publish[p].seen \cap Current, !.next = Newest + 1]]
  /\ UNCHANGED <<rows, asked, cached>>

(* ... and clears its flag and inserts the next version, unless an index     *)
(* refuses a second row of that number or a second current one (409).       *)
Insert(p) ==
  /\ Step(p, "insert")
  /\ LET kept == {[row EXCEPT !.current = row.current /\ row.version \notin publish[p].mine] : row \in rows}
         free == /\ publish[p].next \notin Versions
                 /\ \A row \in kept : ~row.current
     IN  /\ rows' = IF free THEN kept \cup {[version |-> publish[p].next, current |-> TRUE]} ELSE rows
         /\ publish' = [publish EXCEPT ![p] = IF free THEN [@ EXCEPT !.at = "bump"] ELSE Nothing]
  /\ UNCHANGED <<asked, cached>>

(* bump_version, after the commit; a failure is logged and forgotten.       *)
Bump(p) ==
  /\ Step(p, "bump")
  /\ \/ /\ counter' = counter + 1
        /\ announced' = Max({announced, publish[p].next})
        /\ UNCHANGED outages
     \/ Outage /\ UNCHANGED <<counter, announced>>
  /\ publish' = [publish EXCEPT ![p] = Nothing]
  /\ UNCHANGED <<rows, cache, visit, served, asked, reads>>

-----------------------------------------------------------------------------
pages == <<rows, publish, asked, counter, announced>>
Serve(r, version) ==
  /\ served' = served \cup {[version |-> version, after |-> visit[r].after]}
  /\ visit' = [visit EXCEPT ![r] = Nothing]
At(r, step) == visit[r] # Nothing /\ visit[r].at = step

(* cache_aside takes the counter ...                                        *)
ReadVersion(r) ==
  /\ visit[r] = Nothing
  /\ reads < MaxReads /\ reads' = reads + 1
  /\ \/ visit' = [visit EXCEPT ![r] = [at |-> "get", under |-> counter, value |-> 0, after |-> announced]]
        /\ UNCHANGED outages
     \/ Outage /\ visit' = [visit EXCEPT ![r] = [at |-> "load", under |-> Nothing, value |-> 0, after |-> announced]]
  /\ UNCHANGED <<pages, cache, served>>

(* ... looks under it ...                                                   *)
Get(r) ==
  /\ At(r, "get")
  /\ IF cache[visit[r].under] # Nothing
     THEN Serve(r, cache[visit[r].under])
     ELSE visit' = [visit EXCEPT ![r].at = "load"] /\ UNCHANGED served
  /\ UNCHANGED <<pages, cache, reads, outages>>

(* ... loads the current page: none is a 404, which is not stored ...        *)
Load(r) ==
  /\ At(r, "load")
  /\ \/ /\ Current = {}
        /\ visit' = [visit EXCEPT ![r] = Nothing]
        /\ UNCHANGED served
     \/ /\ Current # {} /\ visit[r].under = Nothing
        /\ Serve(r, Max(Current))
     \/ /\ Current # {} /\ visit[r].under # Nothing
        /\ visit' = [visit EXCEPT ![r] = [@ EXCEPT !.at = "set", !.value = Max(Current)]]
        /\ UNCHANGED served
  /\ UNCHANGED <<pages, cache, reads, outages>>

Under(r) == visit[r].under

(* ... and stores it.                                                       *)
Set(r) ==
  /\ At(r, "set")
  /\ \/ cache' = [cache EXCEPT ![Under(r)] = visit[r].value] /\ UNCHANGED outages
     \/ Outage /\ UNCHANGED cache
  /\ Serve(r, visit[r].value)
  /\ UNCHANGED <<pages, reads>>

(* The TTL of an entry runs out.                                            *)
Expire(c) ==
  /\ cache[c] # Nothing
  /\ cache' = [cache EXCEPT ![c] = Nothing]
  /\ UNCHANGED <<pages, visit, served, reads, outages>>

Next ==
  \/ \E p \in Publishers : Select(p) \/ Lock(p) \/ Insert(p) \/ Bump(p)
  \/ \E r \in Readers : ReadVersion(r) \/ Get(r) \/ Load(r) \/ Set(r)
  \/ \E c \in 0..MaxVersions : Expire(c)

-----------------------------------------------------------------------------
(* "two concurrent publishes can't both claim is_current" (content/service.  *)
(* py): the current page is the newest, versions are numbered without gaps,  *)
(* and a read that starts after a bump is not served an older page.         *)
ReadersSeeTheCurrentPage ==
  /\ rows # {} => Current = {Newest} /\ Cardinality(rows) = Newest
  /\ \A page \in served : page.version >= page.after
=============================================================================
