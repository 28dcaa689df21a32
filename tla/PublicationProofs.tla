------------------------- MODULE PublicationProofs --------------------------
(***************************************************************************)
(* That the plan's counter is the number of listings that exist, for any      *)
(* finite number of listings and any requests, sweeps, plans and bounds.     *)
(*                                                                          *)
(* A deletion frees one slot, so what it deletes must still be there when it  *)
(* commits: it holds the listing's row, and holders exclude one another       *)
(* (HolderInv).  Edits and sweeps hold nothing and wait for the holders.      *)
(*                                                                          *)
(* Then the rest of what is published: testimonials, whose row is locked      *)
(* while it is decided (ReviewInv), and posts and reports, where nothing is,  *)
(* so that what holds does until a row is written that has changed (PostInv,  *)
(* ReportInv).                                                               *)
(***************************************************************************)
EXTENDS Content, FiniteSetTheorems, TLAPS

Statuses == Workflow \cup {"absent", "deleted"}

RowsInv ==
  /\ listing \in [Listings -> [status : Statuses, stale : BOOLEAN]]
  /\ usage \in Nat
  /\ tx = [r \in Requests |-> tx[r]]
  /\ \A r \in Requests : tx[r] # Nothing =>
       /\ tx[r].ls \in SUBSET Listings
       /\ tx[r].kind = "transition" => tx[r].to \in Workflow
       /\ tx[r].was.stale \in BOOLEAN
       /\ tx[r].kind # "sweep" => \E l \in Listings : tx[r].ls = {l}

(* A listing's row has one holder, and the listing is there until it commits. *)
HolderInv ==
  \A r \in Requests, l \in Listings : HoldsRow(r, l) =>
    /\ Exists(l)
    /\ \A q \in Requests : HoldsRow(q, l) => q = r

IInv == RowsInv /\ HolderInv /\ UsageCountsListings

(* Where no listing comes or goes and no row is taken, the counter stands.    *)
LEMMA RowsStand ==
  ASSUME HolderInv, UsageCountsListings, usage' = usage, \A l \in Listings : Exists(l)' <=> Exists(l),
         \A r \in Requests, l \in Listings : HoldsRow(r, l)' => HoldsRow(r, l)
  PROVE  HolderInv' /\ UsageCountsListings'
<1>1. HolderInv'  BY DEF HolderInv
<1>2. {l \in Listings : Exists(l)}' = {l \in Listings : Exists(l)}  OBVIOUS
<1>3. UsageCountsListings'  BY <1>2 DEF UsageCountsListings
<1> QED  BY <1>1, <1>3

(* Reading a listing begins a transaction about it.                          *)
LEMMA ReadsStarts ==
  ASSUME RowsInv, NEW r \in Requests, NEW kind, NEW ls \in SUBSET Listings, NEW to, ls # {},
         kind = "transition" => to \in Workflow,
         kind # "sweep" => \E l \in Listings : ls = {l},
         Reads(r, kind, ls, to), listing' = listing, usage' = usage
  PROVE  /\ RowsInv'
         /\ \A q \in Requests \ {r} : tx'[q] = tx[q]
         /\ tx'[r] # Nothing => tx'[r].kind = kind /\ tx'[r].ls = ls
<1> DEFINE begun == [kind |-> kind, ls |-> ls, to |-> to, was |-> listing[CHOOSE l \in ls : TRUE]]
<1>1. tx' = [tx EXCEPT ![r] = begun]  BY DEF Reads
<1>2. (CHOOSE l \in ls : TRUE) \in Listings  OBVIOUS
<1>3. begun.was.stale \in BOOLEAN  BY <1>2 DEF RowsInv
<1>4. \A q \in Requests \ {r} : tx'[q] = tx[q]  BY <1>1 DEF RowsInv
<1>5. tx'[r] = begun  BY <1>1 DEF RowsInv
<1>6. RowsInv'  BY <1>1, <1>3, <1>4, <1>5 DEF RowsInv
<1>7. tx'[r].kind = kind /\ tx'[r].ls = ls  BY <1>5
<1> QED  BY <1>4, <1>6, <1>7

(* A transition or a deletion waits for the row and then holds it alone.      *)
LEMMA LockTaken ==
  ASSUME IInv, NEW r \in Requests, NEW l \in Listings, NEW kind \in {"transition", "delete"}, NEW to,
         kind = "transition" => to \in Workflow,
         tx[r] = Nothing, Exists(l), RowFree(l),
         Reads(r, kind, {l}, to), listing' = listing, usage' = usage
  PROVE  IInv'
<1> USE DEF IInv
<1>1. /\ RowsInv'
      /\ \A q \in Requests \ {r} : tx'[q] = tx[q]
      /\ tx'[r] # Nothing => tx'[r].kind = kind /\ tx'[r].ls = {l}
  BY ReadsStarts
<1>2. \A k \in Listings : Exists(k)' <=> Exists(k)  BY DEF Exists
<1>3. \A q \in Requests, k \in Listings : HoldsRow(q, k)' => (q = r /\ k = l) \/ (q # r /\ k # l /\ HoldsRow(q, k))
  BY <1>1 DEF HoldsRow, RowFree
<1>4. HolderInv'  BY <1>2, <1>3 DEF HolderInv
<1>5. {k \in Listings : Exists(k)}' = {k \in Listings : Exists(k)}  BY <1>2
<1>6. UsageCountsListings'  BY <1>5 DEF UsageCountsListings
<1> QED  BY <1>1, <1>4, <1>6

(* An edit or a sweep takes no row.                                          *)
LEMMA NothingTaken ==
  ASSUME IInv, NEW r \in Requests, NEW kind \in {"edit", "sweep"}, NEW ls \in SUBSET Listings, NEW to, ls # {},
         kind # "sweep" => \E l \in Listings : ls = {l},
         tx[r] = Nothing, Reads(r, kind, ls, to), listing' = listing, usage' = usage
  PROVE  IInv'
<1> USE DEF IInv
<1>1. /\ RowsInv'
      /\ \A q \in Requests \ {r} : tx'[q] = tx[q]
      /\ tx'[r] # Nothing => tx'[r].kind = kind /\ tx'[r].ls = ls
  BY ReadsStarts
<1>2. \A k \in Listings : Exists(k)' <=> Exists(k)  BY DEF Exists
<1>3. \A q \in Requests, k \in Listings : HoldsRow(q, k)' => HoldsRow(q, k)
  BY <1>1 DEF HoldsRow
<1> QED  BY <1>1, <1>2, <1>3, RowsStand

(* A commit or a rollback lets go of what its request held.                  *)
LEMMA LetGo ==
  ASSUME RowsInv, NEW r \in Requests, tx' = [tx EXCEPT ![r] = Nothing]
  PROVE  /\ tx' = [q \in Requests |-> tx'[q]]
         /\ \A q \in Requests : tx'[q] # Nothing => q # r /\ tx'[q] = tx[q]
         /\ \A q \in Requests, l \in Listings : HoldsRow(q, l)' => q # r /\ HoldsRow(q, l)
BY DEF RowsInv, HoldsRow

(* What changes a listing's row and not whether it exists, and lets go.       *)
LEMMA StatusKept ==
  ASSUME IInv, NEW r \in Requests, tx' = [tx EXCEPT ![r] = Nothing], usage' = usage,
         listing' \in [Listings -> [status : Statuses, stale : BOOLEAN]],
         \A l \in Listings : Exists(l)' <=> Exists(l)
  PROVE  IInv'
<1> USE DEF IInv
<1>1. RowsInv'  BY LetGo DEF RowsInv
<1> QED  BY <1>1, LetGo, RowsStand

-----------------------------------------------------------------------------
LEMMA Counted ==
  ASSUME PublicationAssumption
  PROVE  /\ IsFiniteSet({l \in Listings : Exists(l)})
         /\ Cardinality({l \in Listings : Exists(l)}) \in Nat
<1> DEFINE E == {l \in Listings : Exists(l)}
<1>1. E \in SUBSET Listings /\ IsFiniteSet(Listings)  BY DEF PublicationAssumption
<1>2. IsFiniteSet(E)  BY <1>1, FS_Subset
<1> QED  BY <1>2, FS_CardinalityType

(* A new listing takes a slot.                                              *)
LEMMA CreateCounts ==
  ASSUME PublicationAssumption, IInv, NEW l \in Listings, Create(l)
  PROVE  IInv'
<1> USE DEF IInv
<1> DEFINE E == {k \in Listings : Exists(k)}
           new == [status |-> "draft", stale |-> FALSE]
<1>1. /\ listing[l].status = "absent" /\ usage' = usage + 1 /\ tx' = tx
      /\ listing' = [listing EXCEPT ![l] = new]
  BY DEF Create, Reserved
<1>2. new \in [status : Statuses, stale : BOOLEAN]  BY DEF Statuses, Workflow
<1>3. RowsInv'  BY <1>1, <1>2 DEF RowsInv
<1>4. ~Exists(l)  BY <1>1 DEF Exists, Workflow
<1>5. Exists(l)' /\ \A k \in Listings \ {l} : Exists(k)' <=> Exists(k)
  BY <1>1 DEF Exists, RowsInv, Workflow
<1>6. \A r \in Requests, k \in Listings : HoldsRow(r, k)' <=> HoldsRow(r, k)  BY <1>1 DEF HoldsRow
<1>7. HolderInv'  BY <1>5, <1>6 DEF HolderInv
<1>8. E' = E \cup {l} /\ l \notin E  BY <1>4, <1>5
<1>9. IsFiniteSet(E)  BY Counted
<1>10. Cardinality(E \cup {l}) = Cardinality(E) + 1  BY <1>8, <1>9, FS_AddElement
<1>11. UsageCountsListings'  BY <1>1, <1>8, <1>10 DEF UsageCountsListings
<1> QED  BY <1>3, <1>7, <1>11

(* A deletion frees the slot of a listing that is there, and of no other.     *)
LEMMA DeleteCounts ==
  ASSUME PublicationAssumption, IInv, NEW r \in Requests, CommitDelete(r)
  PROVE  IInv'
<1> USE DEF IInv
<1> DEFINE E == {k \in Listings : Exists(k)}
<1>1. /\ tx[r] # Nothing /\ tx[r].kind = "delete"
      /\ tx' = [tx EXCEPT ![r] = Nothing]
      /\ usage' = IF usage > 0 THEN usage - 1 ELSE 0
  BY DEF CommitDelete
<1>2. PICK l \in Listings : tx[r].ls = {l}  BY <1>1 DEF RowsInv
<1>3. listing' = [k \in Listings |-> IF k = l THEN [listing[k] EXCEPT !.status = "deleted"] ELSE listing[k]]
  BY <1>2 DEF CommitDelete
<1>4. HoldsRow(r, l)  BY <1>1, <1>2 DEF HoldsRow
<1>5. Exists(l) /\ \A q \in Requests : HoldsRow(q, l) => q = r  BY <1>4 DEF HolderInv
<1>6. ~Exists(l)' /\ \A k \in Listings \ {l} : Exists(k)' <=> Exists(k)
  BY <1>3 DEF Exists, RowsInv, Workflow
<1>7. listing' \in [Listings -> [status : Statuses, stale : BOOLEAN]]  BY <1>3 DEF RowsInv, Statuses
<1>8. usage' \in Nat  BY <1>1 DEF RowsInv
<1>9. RowsInv'  BY <1>1, <1>7, <1>8, LetGo DEF RowsInv
<1>10. HolderInv'
  <2> SUFFICES ASSUME NEW q \in Requests, NEW k \in Listings, HoldsRow(q, k)'
               PROVE  Exists(k)' /\ \A p \in Requests : HoldsRow(p, k)' => p = q
    BY DEF HolderInv
  <2>1. q # r /\ HoldsRow(q, k) /\ \A p \in Requests : HoldsRow(p, k)' => HoldsRow(p, k)
    BY <1>1, LetGo
  <2>2. k # l /\ Exists(k) /\ \A p \in Requests : HoldsRow(p, k) => p = q
    BY <1>5, <2>1 DEF HolderInv
  <2> QED  BY <1>6, <2>1, <2>2
<1>11. E' = E \ {l} /\ l \in E  BY <1>5, <1>6
<1>12. IsFiniteSet(E) /\ Cardinality(E) \in Nat  BY Counted
<1>13. Cardinality(E \ {l}) = Cardinality(E) - 1 /\ Cardinality(E) # 0
  BY <1>11, <1>12, FS_RemoveElement, FS_EmptySet
<1>14. UsageCountsListings'
  <2>1. usage = Cardinality(E)  BY DEF UsageCountsListings
  <2> DEFINE n == Cardinality(E)
             m == Cardinality(E \ {l})
  <2>2. usage = n /\ n \in Nat /\ m = n - 1 /\ n # 0  BY <1>12, <1>13, <2>1
  <2> HIDE DEF n, m
  <2>3. usage' = m  BY <1>1, <2>2
  <2>4. usage' = Cardinality(E')  BY <1>11, <2>3 DEF m
  <2> QED  BY <2>4 DEF UsageCountsListings
<1> QED  BY <1>9, <1>10, <1>14

LEMMA TransitionKeeps ==
  ASSUME IInv, NEW r \in Requests, CommitTransition(r)
  PROVE  IInv'
<1> USE DEF IInv
<1>1. tx[r] # Nothing /\ tx[r].kind = "transition" /\ tx' = [tx EXCEPT ![r] = Nothing] /\ usage' = usage
  BY DEF CommitTransition
<1>2. PICK l \in Listings : tx[r].ls = {l}  BY <1>1 DEF RowsInv
<1>3. tx[r].to \in Workflow /\ tx[r].was.stale \in BOOLEAN  BY <1>1 DEF RowsInv
<1> DEFINE now == [status |-> tx[r].to,
                   stale |-> listing[l].stale /\ (tx[r].to = "published" \/ ~tx[r].was.stale)]
<1>4. (CHOOSE x \in tx[r].ls : TRUE) = l  BY <1>2
<1>5. listing' = [listing EXCEPT ![l] = now]  BY <1>4 DEF CommitTransition
<1>6. now \in [status : Statuses, stale : BOOLEAN]  BY <1>3 DEF Statuses, RowsInv
<1>7. Exists(l)  BY <1>1, <1>2 DEF HolderInv, HoldsRow
<1>8. \A k \in Listings : Exists(k)' <=> Exists(k)  BY <1>3, <1>5, <1>7 DEF Exists, RowsInv
<1>9. listing' \in [Listings -> [status : Statuses, stale : BOOLEAN]]  BY <1>5, <1>6 DEF RowsInv
<1> QED  BY <1>1, <1>8, <1>9, StatusKept

LEMMA EditKeeps ==
  ASSUME IInv, NEW r \in Requests, CommitEdit(r)
  PROVE  IInv'
<1> USE DEF IInv
<1>1. tx[r] # Nothing /\ tx[r].kind = "edit" /\ tx' = [tx EXCEPT ![r] = Nothing] /\ usage' = usage
  BY DEF CommitEdit
<1>2. PICK l \in Listings : tx[r].ls = {l}  BY <1>1 DEF RowsInv
<1>3. (CHOOSE x \in tx[r].ls : TRUE) = l /\ tx[r].was.stale \in BOOLEAN  BY <1>1, <1>2 DEF RowsInv
<1>4. listing' = [listing EXCEPT ![l].stale = @ /\ ~tx[r].was.stale]  BY <1>3 DEF CommitEdit
<1>5. listing' \in [Listings -> [status : Statuses, stale : BOOLEAN]]  BY <1>3, <1>4 DEF RowsInv
<1>6. \A k \in Listings : Exists(k)' <=> Exists(k)  BY <1>4 DEF Exists, RowsInv
<1> QED  BY <1>1, <1>5, <1>6, StatusKept

LEMMA SweepKeeps ==
  ASSUME IInv, NEW r \in Requests, CommitSweep(r)
  PROVE  IInv'
<1> USE DEF IInv
<1>1. /\ tx' = [tx EXCEPT ![r] = Nothing] /\ usage' = usage
      /\ listing' = [l \in Listings |->
                       IF l \in tx[r].ls THEN [listing[l] EXCEPT !.stale = TRUE] ELSE listing[l]]
  BY DEF CommitSweep
<1>2. listing' \in [Listings -> [status : Statuses, stale : BOOLEAN]]  BY <1>1 DEF RowsInv
<1>3. \A k \in Listings : Exists(k)' <=> Exists(k)  BY <1>1 DEF Exists, RowsInv
<1> QED  BY <1>1, <1>2, <1>3, StatusKept

(* Syncs and settings touch no listing.                                     *)
LEMMA OtherwiseStill ==
  ASSUME IInv, UNCHANGED <<listing, usage, tx>>
  PROVE  IInv'
<1>1. HolderInv' /\ UsageCountsListings'  BY RowsStand DEF IInv, Exists, HoldsRow
<1>2. RowsInv'  BY DEF IInv, RowsInv
<1> QED  BY <1>1, <1>2 DEF IInv

LEMMA IInvNext ==
  ASSUME PublicationAssumption, IInv, [Next]_vars
  PROVE  IInv'
<1> USE DEF rows, queue, bounds
<1>1. CASE UNCHANGED vars  BY <1>1, OtherwiseStill DEF vars
<1>2. ASSUME NEW l \in Listings, Create(l) PROVE IInv'  BY <1>2, CreateCounts
<1>3. ASSUME NEW l \in Listings, RequestRepush(l) PROVE IInv'
  BY <1>3, OtherwiseStill DEF RequestRepush
<1>4. ASSUME NEW r \in Requests, NEW l \in Listings, NEW to \in Workflow, BeginTransition(r, l, to)
      PROVE  IInv'
  BY <1>4, LockTaken DEF BeginTransition
<1>5. ASSUME NEW r \in Requests, NEW l \in Listings, BeginDelete(r, l) PROVE IInv'
  BY <1>5, LockTaken DEF BeginDelete
<1>6. ASSUME NEW r \in Requests, NEW l \in Listings, BeginEdit(r, l) PROVE IInv'
  <2>1. {l} \in SUBSET Listings /\ {l} # {}  OBVIOUS
  <2> QED  BY <1>6, <2>1, NothingTaken DEF BeginEdit
<1>7. ASSUME NEW r \in Requests, BeginSweep(r) PROVE IInv'
  <2>1. PICK ls \in SUBSET Listings : ls # {} /\ Reads(r, "sweep", ls, "draft")
    BY <1>7 DEF BeginSweep
  <2> QED  BY <1>7, <2>1, NothingTaken DEF BeginSweep
<1>8. ASSUME NEW r \in Requests, CommitRequest(r) PROVE IInv'
  BY <1>8, TransitionKeeps, DeleteCounts, EditKeeps, SweepKeeps DEF CommitRequest
<1>9. ASSUME NEW r \in Requests, Abort(r) PROVE IInv'
  <2>1. tx' = [tx EXCEPT ![r] = Nothing] /\ listing' = listing /\ usage' = usage
    BY <1>9 DEF Abort
  <2> QED  BY <2>1, StatusKept DEF IInv, RowsInv, Exists
<1>10. CASE ReplaceSettings  BY <1>10, OtherwiseStill DEF ReplaceSettings
<1>11. ASSUME NEW w \in Workers, NEW t \in broker, Take(w, t) PROVE IInv'
  BY <1>11, OtherwiseStill DEF Take
<1>12. ASSUME NEW w \in Workers, Step(w) PROVE IInv'
  <2>1. UNCHANGED <<listing, usage, tx>>
    BY <1>12 DEF Step, Begin, BeginSecond, InsertConflict, Call, Commit, Finish
  <2> QED  BY <2>1, OtherwiseStill
<1>13. ASSUME NEW w \in Workers, Crash(w) PROVE IInv'  BY <1>13, OtherwiseStill DEF Crash
<1> QED
  BY <1>1, <1>2, <1>3, <1>4, <1>5, <1>6, <1>7, <1>8, <1>9, <1>10, <1>11, <1>12, <1>13
  DEF Next, Request

(* The plan's counter is the number of listings that exist, whatever creates, *)
(* deletes, edits and sweeps overlap (reserve_listing, release_listings).     *)
THEOREM CounterIsExact == Spec => []UsageCountsListings
<1> USE PublicationAssumption
<1>1. Init => IInv
  <2> SUFFICES ASSUME Init PROVE IInv  OBVIOUS
  <2>1. RowsInv  BY DEF Init, RowsInv, Statuses
  <2>2. HolderInv  BY DEF Init, HolderInv, HoldsRow
  <2>3. {l \in Listings : Exists(l)} = {}  BY DEF Init, Exists, Workflow
  <2>4. UsageCountsListings  BY <2>3, FS_EmptySet DEF Init, UsageCountsListings
  <2> QED  BY <2>1, <2>2, <2>4 DEF IInv
<1>2. IInv /\ [Next]_vars => IInv'  BY IInvNext
<1>3. IInv => UsageCountsListings  BY DEF IInv
<1> QED  BY <1>1, <1>2, <1>3, PTL DEF Spec

-----------------------------------------------------------------------------
(* Reviews.  Who has read the row holds it, so it is still what was read when *)
(* the decision is written.                                                  *)

ReviewAssumption ==
  Nothing \notin Moderators /\ Nothing \notin {"pending", "approved", "rejected"}

Verdicts == {"approved", "rejected"}
Decision == [to : Verdicts \cup {"delete"}, read : Verdicts \cup {"pending", Nothing}]

ReadInv ==
  /\ decision = [m \in Moderators |-> decision[m]]
  /\ \A m \in Moderators : decision[m] # Nothing =>
       /\ decision[m] \in Decision
       /\ decision[m].read # Nothing => holder = m /\ decision[m].read = review
VerdictInv ==
  /\ review \in Verdicts \cup {Nothing, "pending"}
  /\ decided \in {{}, {"approved"}, {"rejected"}}
  /\ submission # "sent" => review = Nothing /\ decided = {} /\ ~deleted
  /\ review = "pending" => decided = {}
  /\ review \in Verdicts => decided = {review}
  /\ deleted => review = Nothing
ShownInv ==
  /\ listed => "approved" \in decided
  /\ rating \in {0, 1} /\ (rating = 1 => "approved" \in decided)

ReviewInv == ReadInv /\ VerdictInv /\ ShownInv

(* A moderator's row is written while it is held.                            *)
LEMMA DecisionSteps ==
  ASSUME ReviewAssumption, ReviewInv, NEW m \in Moderators,
         Testimonials!Moderate(m) \/ Testimonials!Delete(m)
  PROVE  ReviewInv'
<1>1. /\ decision[m] # Nothing /\ decision[m].read # Nothing /\ Testimonials!Done(m)
      /\ UNCHANGED <<submission, rating, listed>>
  BY DEF Testimonials!Moderate, Testimonials!Delete
<1>2. /\ holder = m /\ decision[m].read = review /\ review # Nothing
      /\ decision[m].to \in Verdicts \cup {"delete"}
  BY <1>1 DEF ReviewInv, ReadInv, Decision
<1>3. ReadInv'
  <2>1. /\ decision' = [q \in Moderators |-> decision'[q]] /\ decision'[m] = Nothing
        /\ \A q \in Moderators \ {m} : decision'[q] = decision[q]
    BY <1>1 DEF Testimonials!Done, ReviewInv, ReadInv
  <2>2. \A q \in Moderators \ {m} : decision[q] # Nothing => decision[q].read = Nothing
    BY <1>2 DEF ReviewInv, ReadInv
  <2> QED  BY <2>1, <2>2 DEF ReviewInv, ReadInv
<1>4. CASE Testimonials!Moderate(m)
  <2> DEFINE to == decision[m].to
             allowed == review \in {"pending", to}
  <2>1. /\ to \in Verdicts /\ UNCHANGED deleted
        /\ review' = IF allowed THEN to ELSE review
        /\ decided' = IF allowed THEN decided \cup {to} ELSE decided
    BY <1>2, <1>4 DEF Testimonials!Moderate
  <2>2. CASE allowed
    <3>1. decided' = {to} /\ review' = to
      BY <1>2, <2>1, <2>2 DEF ReviewInv, VerdictInv, Verdicts
    <3> HIDE DEF to, allowed
    <3>2. "approved" \in decided => "approved" \in decided'
      BY <2>1, <2>2 DEF allowed
    <3>3. VerdictInv'
      <4>1. submission = "sent" /\ ~deleted
        BY <1>2 DEF ReviewInv, VerdictInv
      <4> QED  BY <1>1, <2>1, <3>1, <4>1 DEF VerdictInv, Verdicts
    <3>4. ShownInv'  BY <1>1, <3>2 DEF ReviewInv, ShownInv
    <3> QED  BY <1>3, <3>3, <3>4 DEF ReviewInv
  <2>3. CASE ~allowed
    <3>1. UNCHANGED <<review, decided>>  BY <2>1, <2>3
    <3> QED  BY <1>1, <1>3, <2>1, <3>1 DEF ReviewInv, VerdictInv, ShownInv
  <2> QED  BY <2>2, <2>3
<1>5. CASE Testimonials!Delete(m)
  BY <1>1, <1>2, <1>3, <1>5, ReviewAssumption
  DEF Testimonials!Delete, ReviewAssumption, ReviewInv, VerdictInv, ShownInv, Verdicts
<1> QED  BY <1>4, <1>5

LEMMA ReviewSteps ==
  ASSUME ReviewAssumption
  PROVE  ReviewInv /\ [Testimonials!Next]_Testimonials!reviewVars => ReviewInv'
<1> SUFFICES ASSUME ReviewInv, [Testimonials!Next]_Testimonials!reviewVars PROVE ReviewInv'
  OBVIOUS
<1> USE DEF ReviewInv
<1>1. ASSUME Testimonials!ToggleProfile \/ Testimonials!Submit \/ Testimonials!Insert
      PROVE  ReviewInv'
  <2>1. UNCHANGED <<holder, decision, rating, listed, decided, deleted>>
    BY <1>1 DEF Testimonials!ToggleProfile, Testimonials!Submit, Testimonials!Insert
  <2>2. CASE Testimonials!Insert
    <3>1. submission # "sent" /\ submission' = "sent" /\ review' = "pending"
      BY <2>2 DEF Testimonials!Insert
    <3>2. review = Nothing /\ decided = {} /\ ~deleted  BY <3>1 DEF VerdictInv
    <3> QED  BY <2>1, <3>1, <3>2 DEF ReadInv, VerdictInv, ShownInv, Verdicts
  <2>3. CASE ~Testimonials!Insert
    <3>1. review' = review /\ (submission' # "sent" => submission # "sent")
      BY <1>1, <2>3 DEF Testimonials!ToggleProfile, Testimonials!Submit
    <3> QED  BY <2>1, <3>1 DEF ReadInv, VerdictInv, ShownInv
  <2> QED  BY <2>2, <2>3
<1>2. ASSUME Testimonials!ListPublic \/ Testimonials!Aggregate PROVE ReviewInv'
  <2>1. UNCHANGED <<submission, review, holder, decision, decided, deleted>>
    BY <1>2 DEF Testimonials!ListPublic, Testimonials!Aggregate
  <2>2. ReadInv' /\ VerdictInv'  BY <2>1 DEF ReadInv, VerdictInv
  <2>3. review = "approved" => "approved" \in decided'  BY <2>1 DEF VerdictInv, Verdicts
  <2>4. ShownInv'
    <3>1. CASE Testimonials!ListPublic
      <4>1. listed' = (review = "approved") /\ rating' = rating
        BY <3>1 DEF Testimonials!ListPublic
      <4>2. listed' => "approved" \in decided'  BY <2>3, <4>1
      <4> QED  BY <2>1, <4>1, <4>2 DEF ShownInv
    <3>2. CASE Testimonials!Aggregate
      <4>1. rating' = (IF review = "approved" THEN 1 ELSE 0) /\ listed' = listed
        BY <3>2 DEF Testimonials!Aggregate
      <4> QED  BY <2>1, <2>3, <4>1 DEF ShownInv
    <3> QED  BY <1>2, <3>1, <3>2
  <2> QED  BY <2>2, <2>4
<1>3. ASSUME NEW m \in Moderators, NEW to \in {"approved", "rejected", "delete"},
             Testimonials!Ask(m, to)
      PROVE  ReviewInv'
  <2>1. /\ decision' = [decision EXCEPT ![m] = [to |-> to, read |-> Nothing]]
        /\ UNCHANGED <<submission, review, holder, rating, listed, decided, deleted>>
    BY <1>3 DEF Testimonials!Ask
  <2>2. [to |-> to, read |-> Nothing] \in Decision  BY DEF Decision, Verdicts
  <2>3. ReadInv'  BY <2>1, <2>2 DEF ReadInv
  <2> QED  BY <2>1, <2>3 DEF VerdictInv, ShownInv
<1>4. ASSUME NEW m \in Moderators, Testimonials!Lock(m) PROVE ReviewInv'
  <2>1. UNCHANGED <<submission, review, rating, listed, decided, deleted>>
        /\ decision[m] # Nothing /\ holder = Nothing
    BY <1>4 DEF Testimonials!Lock, Testimonials!Free
  <2>2. \A q \in Moderators : decision[q] # Nothing => decision[q].read = Nothing
    BY <2>1 DEF ReadInv, ReviewAssumption
  <2>3. CASE review = Nothing
    <3>1. decision' = [decision EXCEPT ![m] = Nothing]  BY <1>4, <2>3 DEF Testimonials!Lock
    <3>2. ReadInv'  BY <2>2, <3>1 DEF ReadInv
    <3> QED  BY <2>1, <3>2 DEF VerdictInv, ShownInv
  <2>4. CASE review # Nothing
    <3>1. decision' = [decision EXCEPT ![m].read = review] /\ holder' = m
      BY <1>4, <2>4 DEF Testimonials!Lock
    <3>2. /\ decision' = [q \in Moderators |-> decision'[q]]
          /\ decision'[m].to = decision[m].to /\ decision'[m].read = review
          /\ \A q \in Moderators \ {m} : decision'[q] = decision[q]
      BY <2>1, <3>1 DEF ReadInv, Decision
    <3>3. decision'[m] \in Decision
      <4>1. review \in Verdicts \cup {"pending"}  BY <2>4 DEF VerdictInv
      <4> QED  BY <2>1, <3>1, <4>1 DEF ReadInv, Decision
    <3>4. ReadInv'  BY <2>1, <2>2, <3>1, <3>2, <3>3 DEF ReadInv
    <3> QED  BY <2>1, <3>4 DEF VerdictInv, ShownInv
  <2> QED  BY <2>3, <2>4
<1>5. CASE UNCHANGED Testimonials!reviewVars
  BY <1>5 DEF Testimonials!reviewVars, ReadInv, VerdictInv, ShownInv
<1> QED  BY <1>1, <1>2, <1>3, <1>4, <1>5, DecisionSteps DEF Testimonials!Next

-----------------------------------------------------------------------------
(* Posts.  What a request or a sweep makes of a row it has read is as sound    *)
(* as that row was; unless the row has changed since, that is what is stored. *)

PostAssumption == Nothing \notin Nat

PostRow == [status : Blog!Statuses, scheduled : Nat \cup {Nothing},
            published : Nat \cup {Nothing}]
Dated(row) ==
  /\ row.status = "scheduled" => row.scheduled # Nothing
  /\ row.status = "published" => row.published # Nothing

(* A new row keeps the stamp of the old one, and is dated if that was.       *)
Follows(old, new) ==
  /\ old \in PostRow /\ new \in PostRow
  /\ old.published = Nothing \/ new.published = old.published
  /\ Dated(old) => Dated(new)

PostType ==
  /\ time \in Nat
  /\ post \in PostRow \cup {Nothing}
  /\ asked.status \in Blog!Statuses /\ asked.scheduled \in Nat \cup {Nothing}
RequestInv ==
  /\ request = [e \in Authors |-> request[e]]
  /\ \A e \in Authors : request[e] # Nothing /\ request[e].new # Nothing =>
       Follows(request[e].old, request[e].new)
SweepInv ==
  /\ sweep = [w \in Sweeps |-> sweep[w]]
  /\ \A w \in Sweeps : sweep[w] # Nothing =>
       /\ sweep[w] \in [now : Nat, row : PostRow \cup {Nothing}] /\ sweep[w].now <= time
       /\ sweep[w].row # Nothing =>
            /\ sweep[w].row.status = "scheduled"
            /\ sweep[w].row.scheduled \in Nat /\ sweep[w].row.scheduled <= sweep[w].now
AskedInv ==
  post # Nothing /\ ~outrun =>
    /\ post.published = first
    /\ Dated(post)
    /\ asked.status = "draft" => post.status = "draft"
    /\ asked.status = "scheduled" =>
         \/ post.status = "scheduled" /\ post.scheduled = asked.scheduled
         \/ post.status = "published" /\ asked.scheduled \in Nat /\ asked.scheduled <= time

PostInv == PostType /\ RequestInv /\ SweepInv /\ AskedInv

(* The five things a request may make of a row.                              *)
LEMMA RequestsFollow ==
  ASSUME PostAssumption, time \in Nat, NEW row \in PostRow
  PROVE  /\ Follows(row, Blog!Published(row))
         /\ Follows(row, Blog!Unpublished(row))
         /\ \A status \in Blog!Statuses, due \in Nat \cup {Nothing} :
              Blog!Acceptable(Blog!Patched(row, status, due)) =>
                Follows(row, Blog!Patched(row, status, due))
<1> USE DEF PostRow, Blog!Statuses, PostAssumption
<1>1. ASSUME NEW old \in PostRow, NEW status \in {"draft", "published"}
      PROVE  /\ Blog!Stamped(old, status) \in PostRow
             /\ Blog!Stamped(old, status).status = status
             /\ old.published = Nothing \/ Blog!Stamped(old, status).published = old.published
             /\ status = "published" => Blog!Stamped(old, status).published # Nothing
  <2>1. CASE status = "published" /\ old.published = Nothing
    <3>1. Blog!Stamped(old, status) = [old EXCEPT !.status = status, !.published = time]
      BY <2>1 DEF Blog!Stamped
    <3> QED  BY <2>1, <3>1
  <2>2. CASE ~(status = "published" /\ old.published = Nothing)
    <3>1. Blog!Stamped(old, status) = [old EXCEPT !.status = status, !.published = old.published]
      BY <2>2 DEF Blog!Stamped
    <3> QED  BY <2>2, <3>1
  <2> QED  BY <2>1, <2>2
<1>2. Follows(row, Blog!Published(row))
  <2>1. CASE row.status = "published"  BY <2>1 DEF Blog!Published, Follows
  <2>2. CASE row.status # "published"
    <3> DEFINE cleared == [row EXCEPT !.scheduled = Nothing]
    <3>1. cleared \in PostRow /\ cleared.published = row.published  OBVIOUS
    <3>2. Blog!Published(row) = Blog!Stamped(cleared, "published")
      BY <2>2 DEF Blog!Published
    <3> HIDE DEF cleared
    <3> QED  BY <1>1, <3>1, <3>2 DEF Follows, Dated
  <2> QED  BY <2>1, <2>2
<1>3. Follows(row, Blog!Unpublished(row))
  <2>1. CASE row.status = "draft"  BY <2>1 DEF Blog!Unpublished, Follows
  <2>2. CASE row.status # "draft"
    <3>1. Blog!Unpublished(row) = [row EXCEPT !.status = "draft", !.scheduled = Nothing]
      BY <2>2 DEF Blog!Unpublished
    <3> QED  BY <3>1 DEF Follows, Dated
  <2> QED  BY <2>1, <2>2
<1>4. ASSUME NEW status \in Blog!Statuses, NEW due \in Nat \cup {Nothing},
             Blog!Acceptable(Blog!Patched(row, status, due))
      PROVE  Follows(row, Blog!Patched(row, status, due))
  <2> DEFINE set == [row EXCEPT !.scheduled = IF due = Nothing THEN row.scheduled ELSE due]
             cleared == [set EXCEPT !.scheduled = Nothing]
  <2>1. set \in PostRow /\ set.published = row.published
    <3>1. CASE due = Nothing  BY <3>1
    <3>2. CASE due # Nothing
      <4>1. set = [row EXCEPT !.scheduled = due]  BY <3>2
      <4> QED  BY <3>2, <4>1
    <3> QED  BY <3>1, <3>2
  <2>2. /\ status = "scheduled" =>
             Blog!Patched(row, status, due) = [set EXCEPT !.status = status]
        /\ status # "scheduled" =>
             Blog!Patched(row, status, due) = Blog!Stamped(cleared, status)
    BY DEF Blog!Patched
  <2> HIDE DEF set
  <2>3. cleared \in PostRow /\ cleared.published = row.published  BY <2>1
  <2> HIDE DEF cleared
  <2>4. CASE status = "scheduled"
    <3> DEFINE new == Blog!Patched(row, status, due)
    <3>1. new \in PostRow /\ new.status = "scheduled" /\ new.published = row.published
      BY <2>1, <2>2, <2>4
    <3>2. new.scheduled # Nothing  BY <1>4, <3>1 DEF Blog!Acceptable
    <3> HIDE DEF new
    <3>3. Follows(row, new)  BY <3>1, <3>2 DEF Follows, Dated
    <3> QED  BY <3>3 DEF new
  <2>5. CASE status # "scheduled"
    <3>1. status \in {"draft", "published"}  BY <2>5
    <3> QED  BY <1>1, <2>2, <2>3, <2>5, <3>1 DEF Follows, Dated
  <2> QED  BY <2>4, <2>5
<1> QED  BY <1>2, <1>3, <1>4

(* Nothing is written over a row that has changed, or the row is as written.   *)
LEMMA SaveKeeps ==
  ASSUME PostAssumption, PostType, NEW old, NEW new,
         new # Nothing => Follows(old, new),
         Blog!Save(old, new)
  PROVE  /\ post' \in PostRow \cup {Nothing}
         /\ post' # Nothing /\ ~outrun' => post # Nothing /\ post = old /\ post' = new /\ ~outrun
         /\ first' = IF post' # Nothing /\ first = Nothing THEN post'.published ELSE first
<1>1. /\ post' = IF post = Nothing \/ new = Nothing THEN Nothing ELSE Blog!Written(old, new)
      /\ first' = IF post' # Nothing /\ first = Nothing THEN post'.published ELSE first
      /\ outrun' = (outrun \/ post # old)
  BY DEF Blog!Save
<1>2. CASE post = Nothing \/ new = Nothing  BY <1>1, <1>2
<1>3. CASE post # Nothing /\ new # Nothing
  <2>1. old \in PostRow /\ new \in PostRow /\ post \in PostRow
    BY <1>3 DEF Follows, PostType
  <2>2. post' = [c \in DOMAIN post |-> IF new[c] = old[c] THEN post[c] ELSE new[c]]
    BY <1>1, <1>3 DEF Blog!Written
  <2>3. /\ post' = [c \in {"status", "scheduled", "published"} |->
                       IF new[c] = old[c] THEN post[c] ELSE new[c]]
    BY <2>1, <2>2 DEF PostRow
  <2>4. post' \in PostRow
    <3>1. /\ (IF new.status = old.status THEN post.status ELSE new.status) \in Blog!Statuses
          /\ (IF new.scheduled = old.scheduled THEN post.scheduled ELSE new.scheduled)
               \in Nat \cup {Nothing}
          /\ (IF new.published = old.published THEN post.published ELSE new.published)
               \in Nat \cup {Nothing}
      BY <2>1 DEF PostRow
    <3> QED  BY <2>3, <3>1 DEF PostRow
  <2>5. post = old => post' = new
    <3>1. post = old => post' = [c \in {"status", "scheduled", "published"} |-> new[c]]
      BY <2>3
    <3>2. new = [c \in {"status", "scheduled", "published"} |-> new[c]]
      BY <2>1 DEF PostRow
    <3> QED  BY <3>1, <3>2
  <2> QED  BY <1>1, <1>3, <2>4, <2>5
<1> QED  BY <1>2, <1>3

LEMMA CommitSteps ==
  ASSUME PostAssumption, PostInv, NEW e \in Authors, Blog!Commit(e)
  PROVE  PostInv'
<1> DEFINE old == request[e].old
           new == request[e].new
<1>1. /\ request[e] # Nothing
      /\ Blog!Save(old, new)
      /\ new = Nothing => asked' = asked
      /\ new # Nothing => asked' = [status |-> new.status, scheduled |-> new.scheduled]
      /\ request' = [request EXCEPT ![e] = Nothing]
      /\ UNCHANGED <<time, sweep, asks>>
  BY DEF Blog!Commit
<1>2. PostType  BY DEF PostInv
<1>3. new # Nothing => Follows(old, new)  BY <1>1 DEF PostInv, RequestInv
<1> HIDE DEF old, new
<1>4. /\ post' \in PostRow \cup {Nothing}
      /\ post' # Nothing /\ ~outrun' => post # Nothing /\ post = old /\ post' = new /\ ~outrun
      /\ first' = IF post' # Nothing /\ first = Nothing THEN post'.published ELSE first
  BY <1>1, <1>2, <1>3, SaveKeeps
<1>5. PostType'
  <2>1. CASE new = Nothing  BY <1>1, <1>2, <1>4, <2>1 DEF PostType
  <2>2. CASE new # Nothing
    <3>1. new \in PostRow  BY <1>3, <2>2 DEF Follows
    <3>2. asked'.status = new.status /\ asked'.scheduled = new.scheduled  BY <1>1, <2>2
    <3> QED  BY <1>1, <1>2, <1>4, <3>1, <3>2 DEF PostType, PostRow
  <2> QED  BY <2>1, <2>2
<1>6. RequestInv' /\ SweepInv'  BY <1>1 DEF PostInv, RequestInv, SweepInv
<1>7. AskedInv'
  <2> SUFFICES ASSUME post' # Nothing, ~outrun'
               PROVE  /\ post'.published = first'
                      /\ Dated(post)'
                      /\ asked'.status = "draft" => post'.status = "draft"
                      /\ asked'.status = "scheduled" =>
                           post'.status = "scheduled" /\ post'.scheduled = asked'.scheduled
    BY DEF AskedInv
  <2>1. post # Nothing /\ post = old /\ post' = new /\ ~outrun /\ new # Nothing  BY <1>4
  <2>2. post.published = first /\ Dated(old)  BY <2>1 DEF PostInv, AskedInv
  <2>3. Dated(new) /\ (old.published = Nothing \/ new.published = old.published)
    BY <1>3, <2>1, <2>2 DEF Follows
  <2>4. post'.published = first'  BY <1>4, <2>1, <2>2, <2>3
  <2>5. asked'.status = post'.status /\ asked'.scheduled = post'.scheduled  BY <1>1, <2>1
  <2>6. Dated(post)'  BY <2>1, <2>3 DEF Dated
  <2> QED  BY <2>4, <2>5, <2>6
<1> QED  BY <1>5, <1>6, <1>7 DEF PostInv

LEMMA SweepSteps ==
  ASSUME PostAssumption, PostInv, NEW w \in Sweeps,
         Blog!Start(w) \/ Blog!Select(w) \/ Blog!CommitSweep(w) \/ Blog!FailSweep(w)
  PROVE  PostInv'
<1>1. CASE Blog!Start(w)
  <2>1. /\ sweep' = [sweep EXCEPT ![w] = [now |-> time, row |-> Nothing]]
        /\ UNCHANGED <<post, time, request, asks, asked, first, outrun>>
    BY <1>1 DEF Blog!Start
  <2>2. SweepInv'  BY <2>1 DEF PostInv, PostType, SweepInv
  <2> QED  BY <2>1, <2>2 DEF PostInv, PostType, RequestInv, AskedInv
<1>2. CASE Blog!Select(w)
  <2>1. /\ sweep[w] # Nothing
        /\ Blog!Due(sweep[w].now) => sweep' = [sweep EXCEPT ![w] = [sweep[w] EXCEPT !.row = post]]
        /\ ~Blog!Due(sweep[w].now) => sweep' = [sweep EXCEPT ![w] = Nothing]
        /\ UNCHANGED <<post, time, request, asks, asked, first, outrun>>
    BY <1>2 DEF Blog!Select, PostInv, SweepInv
  <2>2. SweepInv'
    <3>1. CASE Blog!Due(sweep[w].now)
      <4>1. post \in PostRow /\ post.status = "scheduled" /\ post.scheduled \in Nat
            /\ post.scheduled <= sweep[w].now
        BY <3>1 DEF Blog!Due, PostInv, PostType, PostRow
      <4>2. sweep[w] \in [now : Nat, row : PostRow \cup {Nothing}] /\ sweep[w].now <= time
        BY <2>1 DEF PostInv, SweepInv
      <4> DEFINE going == [sweep[w] EXCEPT !.row = post]
      <4>3. going \in [now : Nat, row : PostRow \cup {Nothing}]
            /\ going.now = sweep[w].now /\ going.row = post
        BY <4>1, <4>2
      <4>4. sweep' = [sweep EXCEPT ![w] = going]  BY <2>1, <3>1
      <4> HIDE DEF going
      <4> QED  BY <2>1, <4>1, <4>2, <4>3, <4>4 DEF PostInv, SweepInv
    <3>2. CASE ~Blog!Due(sweep[w].now)  BY <2>1, <3>2 DEF PostInv, SweepInv
    <3> QED  BY <3>1, <3>2
  <2> QED  BY <2>1, <2>2 DEF PostInv, PostType, RequestInv, AskedInv
<1>3. CASE Blog!CommitSweep(w)
  <2> DEFINE row == sweep[w].row
             stamp == IF row.published = Nothing THEN sweep[w].now ELSE row.published
             live == [row EXCEPT !.status = "published", !.published = stamp]
  <2>1. /\ sweep[w] # Nothing /\ row # Nothing
        /\ Blog!Save(row, live)
        /\ sweep' = [sweep EXCEPT ![w] = Nothing]
        /\ UNCHANGED <<time, request, asks, asked>>
    <3>1. sweep[w].row # Nothing /\ sweep[w] # Nothing  BY <1>3 DEF Blog!CommitSweep
    <3>2. row \in PostRow  BY <3>1 DEF PostInv, SweepInv
    <3>3. live = [row EXCEPT !.status = "published",
                             !.published = IF @ = Nothing THEN sweep[w].now ELSE @]
      BY <3>2 DEF PostRow
    <3> QED  BY <1>3, <3>1, <3>3 DEF Blog!CommitSweep
  <2>2. /\ row \in PostRow /\ sweep[w].now \in Nat /\ sweep[w].now <= time
        /\ row.scheduled \in Nat /\ row.scheduled <= sweep[w].now /\ row.status = "scheduled"
    BY <2>1 DEF PostInv, SweepInv
  <2>3. /\ live \in PostRow /\ live.status = "published" /\ live.scheduled = row.scheduled
        /\ live.published # Nothing /\ (row.published = Nothing \/ live.published = row.published)
    <3>1. stamp \in Nat /\ (row.published = Nothing \/ stamp = row.published)
      BY <2>2 DEF PostRow
    <3> HIDE DEF stamp
    <3> QED  BY <2>2, <3>1 DEF PostRow, PostAssumption, Blog!Statuses
  <2> HIDE DEF row, live, stamp
  <2>4. Follows(row, live)  BY <2>2, <2>3 DEF Follows, Dated
  <2>5. PostType  BY DEF PostInv
  <2>6. /\ post' \in PostRow \cup {Nothing}
        /\ post' # Nothing /\ ~outrun' => post # Nothing /\ post = row /\ post' = live /\ ~outrun
        /\ first' = IF post' # Nothing /\ first = Nothing THEN post'.published ELSE first
    BY <2>1, <2>4, <2>5, SaveKeeps
  <2>7. PostType' /\ RequestInv'  BY <2>1, <2>5, <2>6 DEF PostInv, PostType, RequestInv
  <2>8. SweepInv'  BY <2>1 DEF PostInv, SweepInv
  <2>9. AskedInv'
    <3> SUFFICES ASSUME post' # Nothing, ~outrun'
                 PROVE  /\ post'.published = first'
                        /\ Dated(post)'
                        /\ asked'.status # "draft"
                        /\ asked'.status = "scheduled" =>
                             /\ post'.status = "published"
                             /\ asked'.scheduled \in Nat /\ asked'.scheduled <= time'
      BY DEF AskedInv
    <3>1. post # Nothing /\ post = row /\ post' = live /\ ~outrun  BY <2>6
    <3>2. /\ post.published = first
          /\ asked.status # "draft"
          /\ asked.status = "scheduled" => post.scheduled = asked.scheduled
      BY <2>2, <3>1 DEF PostInv, AskedInv
    <3>3. post'.published = first'  BY <2>3, <2>6, <3>1, <3>2
    <3>4. Dated(post)'  BY <2>3, <3>1 DEF Dated
    <3>5. asked.status = "scheduled" => asked.scheduled \in Nat /\ asked.scheduled <= time
      BY <2>2, <2>5, <3>1, <3>2 DEF PostType
    <3> QED  BY <2>1, <2>3, <3>1, <3>2, <3>3, <3>4, <3>5
  <2> QED  BY <2>7, <2>8, <2>9 DEF PostInv
<1>4. CASE Blog!FailSweep(w)
  <2>1. /\ sweep' = [sweep EXCEPT ![w] = Nothing]
        /\ UNCHANGED <<post, time, request, asks, asked, first, outrun>>
    BY <1>4 DEF Blog!FailSweep
  <2>2. SweepInv'  BY <2>1 DEF PostInv, SweepInv
  <2> QED  BY <2>1, <2>2 DEF PostInv, PostType, RequestInv, AskedInv
<1> QED  BY <1>1, <1>2, <1>3, <1>4

LEMMA PostSteps ==
  ASSUME PostAssumption
  PROVE  PostInv /\ [Blog!Next]_post_ => PostInv'
<1> SUFFICES ASSUME PostInv, [Blog!Next]_post_ PROVE PostInv'
  OBVIOUS
<1>1. ASSUME Blog!Tick PROVE PostInv'
  <2>1. time' = time + 1 /\ UNCHANGED <<post, request, sweep, asks, asked, first, outrun>>
    BY <1>1 DEF Blog!Tick
  <2>2. time \in Nat /\ time' \in Nat /\ time <= time'  BY <2>1 DEF PostInv, PostType
  <2>3. PostType' /\ RequestInv'  BY <2>1, <2>2 DEF PostInv, PostType, RequestInv
  <2>4. SweepInv'  BY <2>1, <2>2 DEF PostInv, SweepInv
  <2>5. AskedInv'  BY <2>1, <2>2 DEF PostInv, AskedInv, Dated
  <2> QED  BY <2>3, <2>4, <2>5 DEF PostInv
<1>2. ASSUME NEW e \in Authors,
             \/ Blog!PublishPost(e) \/ Blog!UnpublishPost(e) \/ Blog!UpdatePost(e)
             \/ Blog!DeletePost(e)
      PROVE  PostInv'
  <2>1. PICK row : /\ Blog!Read(e, row)
                   /\ row # Nothing => Follows(post, row)
    <3>1. post # Nothing
      BY <1>2 DEF Blog!PublishPost, Blog!UnpublishPost, Blog!UpdatePost, Blog!DeletePost
    <3>2. post \in PostRow /\ time \in Nat  BY <3>1 DEF PostInv, PostType
    <3>3. /\ Follows(post, Blog!Published(post))
          /\ Follows(post, Blog!Unpublished(post))
          /\ \A status \in Blog!Statuses, due \in Nat \cup {Nothing} :
               Blog!Acceptable(Blog!Patched(post, status, due)) =>
                 Follows(post, Blog!Patched(post, status, due))
      BY <3>2, RequestsFollow
    <3>4. CASE Blog!PublishPost(e)
      <4>1. Blog!Read(e, Blog!Published(post))  BY <3>4 DEF Blog!PublishPost
      <4> QED  BY <3>3, <4>1
    <3>5. CASE Blog!UnpublishPost(e)
      <4>1. Blog!Read(e, Blog!Unpublished(post))  BY <3>5 DEF Blog!UnpublishPost
      <4> QED  BY <3>3, <4>1
    <3>6. CASE Blog!UpdatePost(e)
      <4>1. PICK status \in Blog!Statuses, due \in Blog!Times \cup {Nothing} :
              /\ Blog!Acceptable(Blog!Patched(post, status, due))
              /\ Blog!Read(e, Blog!Patched(post, status, due))
        BY <3>6 DEF Blog!UpdatePost
      <4>2. due \in Nat \cup {Nothing}  BY DEF Blog!Times
      <4>3. Follows(post, Blog!Patched(post, status, due))  BY <3>3, <4>1, <4>2
      <4> QED  BY <4>1, <4>3
    <3>7. CASE Blog!DeletePost(e)
      <4>1. Blog!Read(e, Nothing)  BY <3>7 DEF Blog!DeletePost
      <4> QED  BY <4>1
    <3> QED  BY <1>2, <3>4, <3>5, <3>6, <3>7
  <2>2. /\ request' = [request EXCEPT ![e] = [old |-> post, new |-> row]]
        /\ UNCHANGED <<post, time, sweep, asked, first, outrun>>
    BY <2>1 DEF Blog!Read
  <2>3. RequestInv'  BY <2>1, <2>2 DEF PostInv, RequestInv
  <2> QED  BY <2>2, <2>3 DEF PostInv, PostType, SweepInv, AskedInv
<1>3. CASE UNCHANGED post_
  BY <1>3 DEF post_, PostInv, PostType, RequestInv, SweepInv, AskedInv
<1> QED  BY <1>1, <1>2, <1>3, CommitSteps, SweepSteps DEF Blog!Next

LEMMA PostInit ==
  ASSUME PostAssumption, Blog!Init
  PROVE  PostInv
<1>1. PICK status \in Blog!Statuses :
        /\ post = [status |-> status,
                   scheduled |-> IF status = "scheduled" THEN 1 ELSE Nothing,
                   published |-> IF status = "published" THEN 0 ELSE Nothing]
        /\ first = post.published
        /\ asked = [status |-> status, scheduled |-> post.scheduled]
  BY DEF Blog!Init
<1>2. /\ time = 0
      /\ request = [e \in Authors |-> Nothing] /\ sweep = [w \in Sweeps |-> Nothing]
  BY DEF Blog!Init
<1>3. /\ post \in PostRow /\ post.status = status /\ Dated(post)
      /\ asked.status = status /\ asked.scheduled = post.scheduled
  BY <1>1 DEF PostRow, Dated, Blog!Statuses, PostAssumption
<1>4. PostType /\ AskedInv
  BY <1>1, <1>2, <1>3 DEF PostType, AskedInv, PostRow
<1> QED  BY <1>2, <1>4 DEF PostInv, RequestInv, SweepInv

-----------------------------------------------------------------------------
(* Reports.  Runs that do not overlap follow one another: the one under way    *)
(* started from a published row, and the object is the one it uploaded.       *)

ReportRow == [status : {"draft", "published", "ready"}, pdf : BOOLEAN, stats : Nat]
Rendering == [at : {"upload", "select", "mark", "discard"}, stats : Nat,
              row : ReportRow \cup {Nothing}]

ReportAssumption == Nothing \notin Nat /\ Nothing \notin ReportRow /\ Nothing \notin Rendering

ReportType ==
  /\ report \in ReportRow \cup {Nothing}
  /\ stored \in Nat \cup {Nothing} /\ since \in Nat
  /\ edit = [e \in Editors |-> edit[e]]
  /\ \A e \in Editors : edit[e] # Nothing => edit[e].row \in ReportRow
  /\ render = [w \in Workers |-> render[w]]
  /\ \A w \in Workers : render[w] # Nothing => render[w] \in Rendering
  /\ cleanup => report = Nothing

(* What a task is about to write was published when it was read.             *)
MarkInv ==
  \A w \in Workers : render[w] # Nothing /\ render[w].at = "mark" =>
    render[w].row # Nothing /\ render[w].row.status = "published"
WithdrawnInv == wanted = "draft" /\ report # Nothing /\ ~overtaken => report.status = "draft"

(* Whose object it is: a row's, a cleanup's, or that of a run to come back.    *)
Owned ==
  \/ cleanup
  \/ report # Nothing /\ report.pdf
  \/ \E w \in Workers : render[w] # Nothing /\ render[w].at \in {"select", "mark", "discard"}
OwnerInv == ~overtaken /\ ~cut /\ stored # Nothing => Owned

AloneInv ==
  ~overlapped => \A w \in Workers : render[w] # Nothing =>
    /\ \A v \in Workers : render[v] # Nothing => v = w
    /\ render[w].stats >= since
    /\ report # Nothing => report.status # "ready"
    /\ report # Nothing /\ render[w].at \in {"select", "mark"} => stored = render[w].stats
NumbersInv ==
  report # Nothing =>
    /\ since <= report.stats
    /\ report.status = "ready" /\ ~overlapped => stored # Nothing /\ stored >= since

ReportInv == ReportType /\ MarkInv /\ WithdrawnInv /\ OwnerInv /\ AloneInv /\ NumbersInv

EditsTyped ==
  /\ edit = [e \in Editors |-> edit[e]]
  /\ \A e \in Editors : edit[e] # Nothing => edit[e].row \in ReportRow

(* Where runs and objects are as they were, a request keeps the key, and the   *)
(* numbers never go back.                                                    *)
LEMMA RowKeeps ==
  ASSUME ReportAssumption, ReportInv, EditsTyped',
         UNCHANGED <<stored, cleanup, render, since, overlapped, cut>>,
         report # Nothing, report' \in ReportRow,
         report'.pdf = report.pdf, report'.stats >= report.stats,
         report'.status \in {report.status, "draft"},
         report'.status # "draft" => wanted' = wanted /\ overtaken' = overtaken,
         overtaken => overtaken'
  PROVE  ReportInv'
<1>1. report \in ReportRow /\ report' # Nothing
  BY DEF ReportInv, ReportType, ReportAssumption
<1>2. ReportType'  BY <1>1 DEF ReportInv, ReportType, EditsTyped
<1>3. MarkInv'  BY DEF ReportInv, MarkInv
<1>4. WithdrawnInv'  BY <1>1 DEF ReportInv, WithdrawnInv
<1>5. OwnerInv'
  <2>1. Owned => Owned'  BY <1>1 DEF Owned
  <2> QED  BY <2>1 DEF ReportInv, OwnerInv
<1>6. AloneInv'  BY <1>1 DEF ReportInv, AloneInv
<1>7. NumbersInv'
  <2>1. report.stats \in Nat /\ report'.stats \in Nat /\ since \in Nat
    BY <1>1 DEF ReportRow, ReportInv, ReportType
  <2>2. since' <= report'.stats  BY <1>1, <2>1 DEF ReportInv, NumbersInv
  <2> QED  BY <1>1, <2>1, <2>2 DEF ReportInv, NumbersInv
<1> QED  BY <1>2, <1>3, <1>4, <1>5, <1>6, <1>7 DEF ReportInv

LEMMA PublishStep ==
  ASSUME ReportAssumption, ReportInv, Pdf!Publish
  PROVE  ReportInv'
<1>1. /\ report # Nothing /\ report.status = "draft"
      /\ report' = [report EXCEPT !.status = "published"]
      /\ wanted' = "live" /\ since' = report.stats
      /\ overlapped' = (overlapped \/ ~Pdf!Idle)
      /\ UNCHANGED <<stored, cleanup, edit, render, overtaken, cut>>
  BY DEF Pdf!Publish
<1>2. /\ report \in ReportRow /\ report' \in ReportRow /\ report' # Nothing
      /\ report'.status = "published" /\ report'.pdf = report.pdf /\ report'.stats = report.stats
      /\ report.stats \in Nat
  BY <1>1 DEF ReportInv, ReportType, ReportRow, ReportAssumption
<1>3. ReportType'
  <2>1. cleanup' = FALSE \/ ~cleanup'  BY <1>1 DEF ReportInv, ReportType
  <2> QED  BY <1>1, <1>2, <2>1 DEF ReportInv, ReportType
<1>4. MarkInv' /\ WithdrawnInv'  BY <1>1 DEF ReportInv, MarkInv, WithdrawnInv
<1>5. OwnerInv'
  <2>1. Owned => Owned'  BY <1>1, <1>2 DEF Owned
  <2> QED  BY <1>1, <2>1 DEF ReportInv, OwnerInv
<1>6. AloneInv'  BY <1>1 DEF AloneInv, Pdf!Idle
<1>7. NumbersInv'  BY <1>1, <1>2 DEF NumbersInv
<1> QED  BY <1>3, <1>4, <1>5, <1>6, <1>7 DEF ReportInv

LEMMA EditSteps ==
  ASSUME ReportAssumption, ReportInv, NEW e \in Editors,
         \/ \E op \in {"unpublish", "delete"} : Pdf!Load(e, op)
         \/ Pdf!Unpublish(e) \/ Pdf!Delete(e)
  PROVE  ReportInv'
<1>1. CASE \E op \in {"unpublish", "delete"} : Pdf!Load(e, op)
  <2>1. PICK op \in {"unpublish", "delete"} : Pdf!Load(e, op)  BY <1>1
  <2>2. /\ report # Nothing /\ edit' = [edit EXCEPT ![e] = [op |-> op, row |-> report]]
        /\ UNCHANGED <<report, stored, cleanup, render, wanted, since, overlapped, overtaken, cut>>
    BY <2>1 DEF Pdf!Load, Pdf!history
  <2>3. report \in ReportRow  BY <2>2 DEF ReportInv, ReportType
  <2>4. EditsTyped'  BY <2>2, <2>3 DEF EditsTyped, ReportInv, ReportType
  <2>5. report'.stats >= report.stats  BY <2>2, <2>3 DEF ReportRow
  <2> QED  BY <2>2, <2>3, <2>4, <2>5, RowKeeps
<1>2. CASE Pdf!Unpublish(e)
  <2>1. /\ edit[e] # Nothing /\ edit' = [edit EXCEPT ![e] = Nothing]
        /\ UNCHANGED <<stored, cleanup, render, since, overlapped, cut>>
    BY <1>2 DEF Pdf!Unpublish
  <2>2. EditsTyped'  BY <2>1 DEF EditsTyped, ReportInv, ReportType
  <2>3. CASE report = Nothing
    <3>1. UNCHANGED <<report, wanted, overtaken>>  BY <1>2, <2>3 DEF Pdf!Unpublish
    <3>2. ReportType' /\ MarkInv' /\ WithdrawnInv' /\ AloneInv' /\ NumbersInv'
      BY <2>1, <2>2, <2>3, <3>1
      DEF EditsTyped, ReportInv, ReportType, MarkInv, WithdrawnInv, AloneInv, NumbersInv
    <3>3. OwnerInv'  BY <2>1, <3>1 DEF ReportInv, OwnerInv, Owned
    <3> QED  BY <3>2, <3>3 DEF ReportInv
  <2>4. CASE report # Nothing
    <3>1. /\ report' = [report EXCEPT !.status = "draft"]
          /\ overtaken' = (overtaken \/ report # edit[e].row)
      BY <1>2, <2>4 DEF Pdf!Unpublish
    <3>2. /\ report' \in ReportRow /\ report'.status = "draft" /\ report'.pdf = report.pdf
          /\ report'.stats >= report.stats
      BY <2>4, <3>1 DEF ReportInv, ReportType, ReportRow
    <3>3. overtaken => overtaken'  BY <3>1
    <3> QED  BY <2>1, <2>2, <2>4, <3>2, <3>3, RowKeeps
  <2> QED  BY <2>3, <2>4
<1>3. CASE Pdf!Delete(e)
  <2>1. /\ edit[e] # Nothing /\ edit' = [edit EXCEPT ![e] = Nothing]
        /\ UNCHANGED <<stored, render, wanted, since, overlapped>>
    BY <1>3 DEF Pdf!Delete
  <2>2. EditsTyped'  BY <2>1 DEF EditsTyped, ReportInv, ReportType
  <2>3. CASE report = Nothing
    <3>1. UNCHANGED <<report, cleanup, overtaken, cut>>  BY <1>3, <2>3 DEF Pdf!Delete
    <3>2. ReportType' /\ MarkInv' /\ WithdrawnInv' /\ AloneInv' /\ NumbersInv'
      BY <2>1, <2>2, <2>3, <3>1
      DEF EditsTyped, ReportInv, ReportType, MarkInv, WithdrawnInv, AloneInv, NumbersInv
    <3>3. OwnerInv'  BY <2>1, <3>1 DEF ReportInv, OwnerInv, Owned
    <3> QED  BY <3>2, <3>3 DEF ReportInv
  <2>4. CASE report # Nothing
    <3>1. /\ report' = Nothing
          /\ overtaken' = (overtaken \/ report # edit[e].row)
          /\ (cleanup' = edit[e].row.pdf /\ cut' = cut) \/ (cut' = TRUE /\ cleanup' = cleanup)
      BY <1>3, <2>4 DEF Pdf!Delete
    <3>2. ReportType' /\ MarkInv' /\ WithdrawnInv' /\ AloneInv' /\ NumbersInv'
      BY <2>1, <2>2, <3>1
      DEF EditsTyped, ReportInv, ReportType, MarkInv, WithdrawnInv, AloneInv, NumbersInv
    <3>3. OwnerInv'
      <4> SUFFICES ASSUME ~overtaken', ~cut', stored' # Nothing PROVE Owned'
        BY DEF OwnerInv
      <4>1. ~overtaken /\ report = edit[e].row /\ ~cut /\ cleanup' = report.pdf
        <5>1. ~(cut' = TRUE)  OBVIOUS
        <5>2. cleanup' = edit[e].row.pdf /\ cut' = cut  BY <3>1, <5>1
        <5>3. ~overtaken /\ report = edit[e].row  BY <3>1
        <5> QED  BY <5>2, <5>3
      <4>2. Owned  BY <2>1, <4>1 DEF ReportInv, OwnerInv
      <4>3. ~cleanup  BY <2>4 DEF ReportInv, ReportType
      <4>4. CASE report.pdf  BY <4>1, <4>4 DEF Owned
      <4>5. CASE ~report.pdf  BY <2>1, <4>2, <4>3, <4>5 DEF Owned
      <4> QED  BY <4>4, <4>5
    <3> QED  BY <3>2, <3>3 DEF ReportInv
  <2> QED  BY <2>3, <2>4
<1> QED  BY <1>1, <1>2, <1>3

(* The task's first steps.                                                   *)
LEMMA RunSteps ==
  ASSUME ReportAssumption, ReportInv, NEW w \in Workers,
         Pdf!Snapshot(w) \/ Pdf!Upload(w) \/ Pdf!SelectForReady(w)
  PROVE  ReportInv'
<1>1. CASE Pdf!Snapshot(w)
  <2>1. /\ render[w] = Nothing
        /\ UNCHANGED <<report, stored, cleanup, edit, wanted, since, overtaken, cut>>
        /\ overlapped' = (overlapped \/ (Pdf!Renderable /\ ~Pdf!Idle))
    BY <1>1 DEF Pdf!Snapshot
  <2>2. CASE ~Pdf!Renderable
    <3>1. render' = [render EXCEPT ![w] = Nothing]  BY <1>1, <2>2 DEF Pdf!Snapshot
    <3>2. render' = render  BY <2>1, <3>1 DEF ReportInv, ReportType
    <3>3. ~overlapped' => ~overlapped  BY <2>1
    <3>4. ReportType' /\ MarkInv' /\ WithdrawnInv'
      BY <2>1, <3>2 DEF ReportInv, ReportType, MarkInv, WithdrawnInv
    <3>5. OwnerInv'  BY <2>1, <3>2 DEF ReportInv, OwnerInv, Owned
    <3>6. AloneInv' /\ NumbersInv'
      BY <2>1, <3>2, <3>3 DEF ReportInv, AloneInv, NumbersInv
    <3> QED  BY <3>4, <3>5, <3>6 DEF ReportInv
  <2>3. CASE Pdf!Renderable
    <3> DEFINE begun == [at |-> "upload", stats |-> report.stats, row |-> report]
    <3>1. report # Nothing /\ report \in ReportRow /\ report.status = "published"
          /\ report.stats \in Nat /\ since <= report.stats /\ since \in Nat
      BY <2>3 DEF Pdf!Renderable, ReportInv, ReportType, ReportRow, NumbersInv
    <3>2. render' = [render EXCEPT ![w] = begun]  BY <1>1, <2>3 DEF Pdf!Snapshot
    <3>3. begun \in Rendering /\ begun.at = "upload" /\ begun.stats = report.stats
      BY <3>1 DEF Rendering
    <3> HIDE DEF begun
    <3>4. /\ render' = [v \in Workers |-> render'[v]] /\ render'[w] = begun
          /\ \A v \in Workers \ {w} : render'[v] = render[v]
      BY <3>2 DEF ReportInv, ReportType
    <3>5. ReportType'  BY <2>1, <3>3, <3>4 DEF ReportInv, ReportType
    <3>6. MarkInv' /\ WithdrawnInv'
      BY <2>1, <3>3, <3>4 DEF ReportInv, MarkInv, WithdrawnInv
    <3>7. OwnerInv'
      <4>1. Owned => Owned'  BY <2>1, <3>4 DEF Owned
      <4> QED  BY <2>1, <4>1 DEF ReportInv, OwnerInv
    <3>8. AloneInv'
      <4> SUFFICES ASSUME ~overlapped', NEW u \in Workers, render'[u] # Nothing
                   PROVE  /\ \A v \in Workers : render'[v] # Nothing => v = u
                          /\ render'[u].stats >= since'
                          /\ report' # Nothing => report'.status # "ready"
                          /\ report' # Nothing /\ render'[u].at \in {"select", "mark"} =>
                               stored' = render'[u].stats
        BY DEF AloneInv
      <4>1. \A v \in Workers : render[v] = Nothing  BY <2>1, <2>3 DEF Pdf!Idle
      <4>2. u = w /\ \A v \in Workers : render'[v] # Nothing => v = w  BY <3>4, <4>1
      <4> QED  BY <2>1, <3>1, <3>3, <3>4, <4>2
    <3>9. NumbersInv'  BY <2>1, <3>1 DEF ReportInv, NumbersInv
    <3> QED  BY <3>5, <3>6, <3>7, <3>8, <3>9 DEF ReportInv
  <2> QED  BY <2>2, <2>3
<1>2. CASE Pdf!Upload(w)
  <2>1. /\ render[w] # Nothing /\ render[w].at = "upload"
        /\ stored' = render[w].stats
        /\ render' = [render EXCEPT ![w].at = "select"]
        /\ UNCHANGED <<report, cleanup, edit, wanted, since, overlapped, overtaken, cut>>
    BY <1>2 DEF Pdf!Upload, Pdf!At, Pdf!Goto, Pdf!history
  <2>2. render[w] \in Rendering  BY <2>1 DEF ReportInv, ReportType
  <2>3. /\ render' = [v \in Workers |-> render'[v]]
        /\ render'[w] = [render[w] EXCEPT !.at = "select"]
        /\ \A v \in Workers \ {w} : render'[v] = render[v]
    BY <2>1 DEF ReportInv, ReportType
  <2>4. /\ render'[w] \in Rendering /\ render'[w] # Nothing /\ render'[w].at = "select"
        /\ render'[w].stats = render[w].stats /\ render[w].stats \in Nat
    BY <2>2, <2>3 DEF Rendering, ReportAssumption
  <2>5. ReportType'  BY <2>1, <2>3, <2>4 DEF ReportInv, ReportType
  <2>6. MarkInv' /\ WithdrawnInv'
    BY <2>1, <2>3, <2>4 DEF ReportInv, MarkInv, WithdrawnInv
  <2>7. Owned'  BY <2>4 DEF Owned
  <2>8. AloneInv'
    BY <2>1, <2>3, <2>4 DEF ReportInv, AloneInv
  <2>9. NumbersInv'
    BY <2>1 DEF ReportInv, NumbersInv, AloneInv
  <2> QED  BY <2>5, <2>6, <2>7, <2>8, <2>9 DEF ReportInv, OwnerInv
<1>3. CASE Pdf!SelectForReady(w)
  <2> DEFINE next == IF Pdf!Renderable THEN "mark" ELSE "discard"
             read == [render[w] EXCEPT !.at = next, !.row = report]
  <2>1. /\ render[w] # Nothing /\ render[w].at = "select"
        /\ UNCHANGED <<report, stored, cleanup, edit, wanted, since, overlapped, overtaken, cut>>
    BY <1>3 DEF Pdf!SelectForReady, Pdf!At, Pdf!history
  <2>2. render' = [render EXCEPT ![w] = read]
    BY <1>3 DEF Pdf!SelectForReady, ReportInv, ReportType
  <2>3. render[w] \in Rendering  BY <2>1 DEF ReportInv, ReportType
  <2>4. next \in {"mark", "discard"}
        /\ (next = "mark" => report # Nothing /\ report.status = "published")
    BY DEF Pdf!Renderable
  <2> HIDE DEF next
  <2>5. /\ read \in Rendering /\ read # Nothing /\ read.at = next /\ read.row = report
        /\ read.stats = render[w].stats
    BY <2>3, <2>4 DEF Rendering, ReportAssumption, ReportInv, ReportType
  <2> HIDE DEF read
  <2>6. /\ render' = [v \in Workers |-> render'[v]] /\ render'[w] = read
        /\ \A v \in Workers \ {w} : render'[v] = render[v]
    BY <2>2 DEF ReportInv, ReportType
  <2>7. ReportType'  BY <2>1, <2>5, <2>6 DEF ReportInv, ReportType
  <2>8. MarkInv' /\ WithdrawnInv'
    BY <2>1, <2>4, <2>5, <2>6 DEF ReportInv, MarkInv, WithdrawnInv
  <2>9. Owned'  BY <2>4, <2>5, <2>6 DEF Owned
  <2>10. AloneInv'  BY <2>1, <2>5, <2>6 DEF ReportInv, AloneInv
  <2>11. NumbersInv'  BY <2>1 DEF ReportInv, NumbersInv
  <2> QED  BY <2>7, <2>8, <2>9, <2>10, <2>11 DEF ReportInv, OwnerInv
<1> QED  BY <1>1, <1>2, <1>3

(* Its last: the row is marked, the upload removed, or the run given up.      *)
LEMMA EndSteps ==
  ASSUME ReportAssumption, ReportInv, NEW w \in Workers,
         Pdf!MarkReady(w) \/ Pdf!Discard(w) \/ Pdf!Abort(w)
  PROVE  ReportInv'
<1>1. /\ render[w] # Nothing /\ render' = [render EXCEPT ![w] = Nothing]
      /\ UNCHANGED <<cleanup, edit, wanted, since, overlapped>>
  BY DEF Pdf!MarkReady, Pdf!Discard, Pdf!Abort, Pdf!At, Pdf!history
<1>2. /\ render' = [v \in Workers |-> render'[v]] /\ render'[w] = Nothing
      /\ \A v \in Workers \ {w} : render'[v] = render[v]
  BY <1>1 DEF ReportInv, ReportType
<1>3. MarkInv'  BY <1>2 DEF ReportInv, MarkInv
<1>4. ~overlapped => \A v \in Workers : render'[v] = Nothing
  BY <1>1, <1>2 DEF ReportInv, AloneInv
<1>5. AloneInv'  BY <1>1, <1>4 DEF AloneInv
<1>6. CASE Pdf!MarkReady(w) /\ report = Nothing
  <2>1. /\ render[w].at = "mark" /\ report' = report
        /\ overtaken' = (overtaken \/ report # render[w].row)
        /\ UNCHANGED <<stored, cut>>
    BY <1>6 DEF Pdf!MarkReady, Pdf!At
  <2>2. overtaken'  BY <1>1, <1>6, <2>1 DEF ReportInv, MarkInv
  <2>3. ReportType' /\ NumbersInv' /\ WithdrawnInv' /\ OwnerInv'
    BY <1>1, <1>2, <1>6, <2>1, <2>2
    DEF ReportInv, ReportType, NumbersInv, WithdrawnInv, OwnerInv
  <2> QED  BY <1>3, <1>5, <2>3 DEF ReportInv
<1>7. CASE Pdf!MarkReady(w) /\ report # Nothing
  <2>1. /\ render[w].at = "mark" /\ report' = [report EXCEPT !.status = "ready", !.pdf = TRUE]
        /\ overtaken' = (overtaken \/ report # render[w].row)
        /\ UNCHANGED <<stored, cut>>
    BY <1>7 DEF Pdf!MarkReady, Pdf!At
  <2>2. /\ report' \in ReportRow /\ report' # Nothing /\ report'.status = "ready" /\ report'.pdf
        /\ report'.stats = report.stats
    BY <1>7, <2>1 DEF ReportInv, ReportType, ReportRow, ReportAssumption
  <2>3. ReportType'
    <3>1. ~cleanup'  BY <1>1, <1>7 DEF ReportInv, ReportType
    <3> QED  BY <1>1, <1>2, <2>1, <2>2, <3>1 DEF ReportInv, ReportType
  <2>4. Owned'  BY <2>2 DEF Owned
  <2>5. WithdrawnInv'
    <3>1. ~overtaken' => ~overtaken /\ report.status = "published"
      BY <1>1, <2>1 DEF ReportInv, MarkInv
    <3> QED  BY <1>1, <1>7, <3>1 DEF ReportInv, WithdrawnInv
  <2>6. NumbersInv'
    <3>1. ~overlapped => stored = render[w].stats /\ render[w].stats >= since
      BY <1>1, <1>7, <2>1 DEF ReportInv, AloneInv
    <3>2. render[w].stats \in Nat  BY <1>1 DEF ReportInv, ReportType, Rendering
    <3> QED  BY <1>1, <1>7, <2>1, <2>2, <3>1, <3>2
         DEF ReportInv, NumbersInv, ReportAssumption
  <2> QED  BY <1>3, <1>5, <2>3, <2>4, <2>5, <2>6 DEF ReportInv, OwnerInv
<1>8. CASE Pdf!Discard(w)
  <2>1. stored' = Nothing /\ UNCHANGED <<report, overtaken, cut>>
    BY <1>8 DEF Pdf!Discard, Pdf!history
  <2>2. ReportType' /\ WithdrawnInv' /\ OwnerInv'
    BY <1>1, <1>2, <2>1 DEF ReportInv, ReportType, WithdrawnInv, OwnerInv
  <2>3. NumbersInv'
    <3>1. ~overlapped /\ report # Nothing => report.status # "ready"
      BY <1>1 DEF ReportInv, AloneInv
    <3> QED  BY <1>1, <2>1, <3>1 DEF ReportInv, NumbersInv
  <2> QED  BY <1>3, <1>5, <2>2, <2>3 DEF ReportInv
<1>9. CASE Pdf!Abort(w)
  <2>1. cut' = (cut \/ render[w].at # "upload") /\ UNCHANGED <<report, stored, overtaken>>
    BY <1>9 DEF Pdf!Abort
  <2>2. ReportType' /\ WithdrawnInv' /\ NumbersInv'
    BY <1>1, <1>2, <2>1 DEF ReportInv, ReportType, WithdrawnInv, NumbersInv
  <2>3. OwnerInv'
    <3>1. Owned /\ ~cut' => Owned'  BY <1>1, <1>2, <2>1 DEF Owned
    <3> QED  BY <2>1, <3>1 DEF ReportInv, OwnerInv
  <2> QED  BY <1>3, <1>5, <2>2, <2>3 DEF ReportInv
<1> QED  BY <1>6, <1>7, <1>8, <1>9

LEMMA ReportSteps ==
  ASSUME ReportAssumption
  PROVE  ReportInv /\ [Pdf!Next]_report_ => ReportInv'
<1> SUFFICES ASSUME ReportInv, [Pdf!Next]_report_ PROVE ReportInv'
  OBVIOUS
<1>1. CASE Pdf!UpdateStats
  <2>1. /\ report # Nothing /\ report' = [report EXCEPT !.stats = report.stats + 1]
        /\ UNCHANGED <<stored, cleanup, edit, render, wanted, since, overlapped, overtaken, cut>>
    BY <1>1 DEF Pdf!UpdateStats, Pdf!history
  <2>2. report \in ReportRow  BY <2>1 DEF ReportInv, ReportType
  <2>3. /\ report' \in ReportRow /\ report'.pdf = report.pdf /\ report'.status = report.status
        /\ report'.stats >= report.stats
    BY <2>1, <2>2 DEF ReportRow
  <2>4. EditsTyped'  BY <2>1 DEF EditsTyped, ReportInv, ReportType
  <2> QED  BY <2>1, <2>3, <2>4, RowKeeps
<1>2. CASE Pdf!CleanUp
  <2>1. /\ cleanup /\ cleanup' = FALSE /\ stored' = Nothing
        /\ UNCHANGED <<report, edit, render, wanted, since, overlapped, overtaken, cut>>
    BY <1>2 DEF Pdf!CleanUp, Pdf!history
  <2>2. report = Nothing  BY <2>1 DEF ReportInv, ReportType
  <2> QED  BY <2>1, <2>2
       DEF ReportInv, ReportType, MarkInv, WithdrawnInv, OwnerInv, AloneInv, NumbersInv
<1>3. CASE Pdf!FailCleanUp
  <2>1. /\ cleanup /\ stored' \in {stored, Nothing}
        /\ (cleanup' = cleanup /\ cut' = cut) \/ cut' = TRUE
        /\ UNCHANGED <<report, edit, render, wanted, since, overlapped, overtaken>>
    BY <1>3 DEF Pdf!FailCleanUp
  <2>2. report = Nothing  BY <2>1 DEF ReportInv, ReportType
  <2>3. stored' # Nothing => stored' = stored  BY <2>1
  <2>4. ReportType'  BY <2>1, <2>2 DEF ReportInv, ReportType
  <2>5. OwnerInv'  BY <2>1, <2>3 DEF OwnerInv, Owned
  <2> QED  BY <2>1, <2>2, <2>3, <2>4, <2>5
       DEF ReportInv, MarkInv, WithdrawnInv, AloneInv, NumbersInv
<1>4. CASE UNCHANGED report_
  <2>1. UNCHANGED <<report, stored, cleanup, edit, render, wanted, since, overlapped, overtaken, cut>>
    BY <1>4 DEF report_
  <2> QED  BY <2>1
       DEF ReportInv, ReportType, MarkInv, WithdrawnInv, OwnerInv, Owned, AloneInv, NumbersInv
<1> QED  BY <1>1, <1>2, <1>3, <1>4, PublishStep, EditSteps, RunSteps, EndSteps DEF Pdf!Next

LEMMA ReportInit ==
  ASSUME ReportAssumption, Pdf!Init
  PROVE  ReportInv
<1>1. /\ report = [status |-> "draft", pdf |-> FALSE, stats |-> 0] /\ stored = Nothing
      /\ cleanup = FALSE /\ since = 0 /\ wanted = "draft"
      /\ edit = [e \in Editors |-> Nothing] /\ render = [w \in Workers |-> Nothing]
  BY DEF Pdf!Init
<1>2. report \in ReportRow /\ report.status = "draft" /\ report.stats = 0
  BY <1>1 DEF ReportRow
<1> QED  BY <1>1, <1>2
     DEF ReportInv, ReportType, MarkInv, WithdrawnInv, OwnerInv, AloneInv, NumbersInv

-----------------------------------------------------------------------------
LEMMA SameCardinality ==
  ASSUME NEW S
  PROVE  Testimonials!Cardinality(S) = Cardinality(S)
BY DEF Testimonials!Cardinality, Cardinality

ContentInv == ReportInv /\ PostInv /\ ReviewInv

(* What is published is there and what was withdrawn, replaced or refused is   *)
(* not, unless a row was written that had changed since it was read, two runs  *)
(* of a task overlapped or an upload was cut off (tasks/content.py, the blog's *)
(* service and sweep, the moderation of reviews).                            *)
THEOREM ContentExplained ==
  ASSUME ReportAssumption, PostAssumption, ReviewAssumption
  PROVE  AnySpec => []ContentIsExplained
<1>1. AnyInit => ContentInv
  <2> SUFFICES ASSUME AnyInit PROVE ContentInv  OBVIOUS
  <2>1. Pdf!Init /\ Blog!Init /\ Testimonials!Init  BY DEF AnyInit
  <2>2. ReportInv /\ PostInv  BY <2>1, ReportInit, PostInit
  <2>3. ReviewInv
    BY <2>1
    DEF Testimonials!Init, ReviewInv, ReadInv, VerdictInv, ShownInv, Verdicts, ReviewAssumption
  <2> QED  BY <2>2, <2>3 DEF ContentInv
<1>2. ContentInv /\ [AnyNext]_<<part, vars, report_, post_, review_>> => ContentInv'
  <2> SUFFICES ASSUME ContentInv, [AnyNext]_<<part, vars, report_, post_, review_>>
               PROVE  ContentInv'
    OBVIOUS
  <2>1. [Pdf!Next]_report_ /\ [Blog!Next]_post_ /\ [Testimonials!Next]_review_
    BY DEF AnyNext
  <2>2. [Testimonials!Next]_Testimonials!reviewVars
    BY <2>1 DEF review_, Testimonials!reviewVars
  <2> QED  BY <2>1, <2>2, ReportSteps, PostSteps, ReviewSteps DEF ContentInv
<1>3. ContentInv => ContentIsExplained
  <2> SUFFICES ASSUME ContentInv PROVE ContentIsExplained  OBVIOUS
  <2>1. Pdf!ReadyHasItsPdf
    BY DEF Pdf!ReadyHasItsPdf, ContentInv, ReportInv, NumbersInv
  <2>2. Pdf!WithdrawnStaysDown
    <3>1. Pdf!Idle => \A w \in Workers : render[w] = Nothing  BY DEF Pdf!Idle
    <3> QED  BY <3>1
         DEF Pdf!WithdrawnStaysDown, ContentInv, ReportInv, WithdrawnInv, OwnerInv, Owned
  <2>3. Blog!PostsAreSound
    BY DEF Blog!PostsAreSound, ContentInv, PostInv, AskedInv, Dated
  <2>4. Testimonials!DecisionStands
    <3>1. VerdictInv /\ ShownInv  BY DEF ContentInv, ReviewInv
    <3>2. Testimonials!Cardinality(decided) <= 1
      <4>1. Cardinality(decided) \in {0, 1}
        BY <3>1, FS_EmptySet, FS_Singleton DEF VerdictInv
      <4> QED  BY <4>1, SameCardinality
    <3>3. review \in {"approved", "rejected"} => decided = {review}
      BY <3>1 DEF VerdictInv, Verdicts
    <3>4. listed \/ rating > 0 => "approved" \in decided  BY <3>1 DEF ShownInv
    <3>5. deleted => review = Nothing  BY <3>1 DEF VerdictInv
    <3> QED  BY <3>2, <3>3, <3>4, <3>5 DEF Testimonials!DecisionStands
  <2> QED  BY <2>1, <2>2, <2>3, <2>4 DEF ContentIsExplained, Pdf!ReportsAreSound
<1> QED  BY <1>1, <1>2, <1>3, PTL DEF AnySpec
=============================================================================
