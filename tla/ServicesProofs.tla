--------------------------- MODULE ServicesProofs ---------------------------
(***************************************************************************)
(* Proofs about the small services: that no statement reaches another         *)
(* tenant's rows, for any tenants, any pool of connections and any number of  *)
(* transactions; that a second transaction under an idempotency key and a     *)
(* hit over the limit have a cause; that a stale tenant in the cache has one; *)
(* that a deal is settled; that no listing is left out of an alert; and that  *)
(* readers see the current page and every row of a list.  Each rests on an    *)
(* invariant of its own component.                                          *)
(***************************************************************************)
EXTENDS Services, FiniteSetTheorems, TLAPS

Setting == Tenants \cup {Nothing, ""}
Session == [for : Tenants \cup {Platform}, failed : BOOLEAN]

RlsType ==
  /\ guc \in [Connections -> Setting]
  /\ work \in [Connections -> Session \cup {Nothing}]

(* A connection names the tenant of its open transaction, and no tenant if   *)
(* that is the platform's or there is none: this is what makes the policies  *)
(* right, and what a setting that outlived its transaction would break.      *)
SettingIsScoped ==
  \A c \in Connections :
    guc[c] \in Tenants => work[c] # Nothing /\ work[c].for = guc[c]
WorkIsScoped ==
  \A c \in Connections :
    work[c] # Nothing /\ work[c].for \in Tenants => guc[c] = work[c].for

RlsInv == RlsType /\ SettingIsScoped /\ WorkIsScoped /\ Rls!TenantsAreIsolated

(* Tenants are uuids: none is the platform's NULL, an unset variable, or "";  *)
(* and nothing is not a transaction.                                        *)
TenantsAreUuids ==
  /\ Platform \notin Tenants /\ Nothing \notin Tenants /\ "" \notin Tenants
  /\ Nothing \notin Session

-----------------------------------------------------------------------------
(* The policies show a transaction the rows of whom it is for (core/rls.py). *)
LEMMA PolicyIsExact ==
  ASSUME RlsInv, TenantsAreUuids, NEW c \in Connections, work[c] # Nothing,
         NEW x \in Rls!Row, Rls!Visible(c, x)
  PROVE  x.owner = work[c].for
<1> USE DEF RlsInv, RlsType, TenantsAreUuids, Session, Setting
<1>1. work[c].for \in Tenants \cup {Platform}  OBVIOUS
<1>2. x.owner \in Tenants \cup {Platform}  BY DEF Rls!Row
<1>3. CASE guc[c] \in Tenants
  <2>1. work[c].for = guc[c]  BY <1>3 DEF SettingIsScoped
  <2>2. x.owner = guc[c]  BY <1>3 DEF Rls!Visible, Rls!Scope
  <2> QED  BY <2>1, <2>2
<1>4. CASE guc[c] \notin Tenants
  <2>1. work[c].for = Platform  BY <1>1, <1>4 DEF WorkIsScoped
  <2>2. CASE x.table = "tenant"
    <3>1. x.owner \in Tenants  BY <2>2 DEF Rls!Row
    <3> QED  BY <2>2, <3>1, <1>4 DEF Rls!Visible
  <2>3. CASE x.table # "tenant"
    BY <1>4, <2>1, <2>3 DEF Rls!Visible, Rls!Scope
  <2> QED  BY <2>2, <2>3
<1> QED  BY <1>3, <1>4

(* What a transaction reaches is its own.                                   *)
LEMMA ReachedIsOwn ==
  ASSUME RlsInv, TenantsAreUuids, NEW c \in Connections, work[c] # Nothing,
         NEW touched \in SUBSET Rls!Row, \A x \in touched : Rls!Visible(c, x), Rls!Reach(c, touched)
  PROVE  Rls!TenantsAreIsolated'
<1> SUFFICES ASSUME NEW r \in reached' PROVE r.row.owner = r.for
  BY DEF Rls!TenantsAreIsolated
<1>1. CASE r \in reached  BY <1>1 DEF RlsInv, Rls!TenantsAreIsolated
<1>2. CASE r \notin reached
  <2>1. PICK x \in touched : r = [row |-> x, for |-> work[c].for]  BY <1>2 DEF Rls!Reach
  <2>2. x.owner = work[c].for  BY <2>1, PolicyIsExact
  <2> QED  BY <2>1, <2>2
<1> QED  BY <1>1, <1>2

(* An error ends what the transaction can do, not whom it is for.           *)
LEMMA FailedKeeps ==
  ASSUME RlsInv, TenantsAreUuids, NEW c \in Connections, work[c] # Nothing, UNCHANGED guc,
         work' = [work EXCEPT ![c].failed = TRUE] \/ UNCHANGED work
  PROVE  (RlsType /\ SettingIsScoped /\ WorkIsScoped)'
<1> USE DEF RlsInv, RlsType, TenantsAreUuids
<1>1. CASE work' = [work EXCEPT ![c].failed = TRUE]
  <2> DEFINE failing == [work[c] EXCEPT !.failed = TRUE]
  <2>1. work[c] \in Session  OBVIOUS
  <2>2. failing \in Session /\ failing.for = work[c].for  BY <2>1 DEF Session
  <2>3. failing # Nothing  BY <2>2
  <2>4. work' = [work EXCEPT ![c] = failing]  BY <1>1
  <2> HIDE DEF failing
  <2> QED  BY <2>2, <2>3, <2>4 DEF SettingIsScoped, WorkIsScoped
<1>2. CASE UNCHANGED work  BY <1>2 DEF SettingIsScoped, WorkIsScoped
<1> QED  BY <1>1, <1>2

LEMMA RlsStart == ASSUME TenantsAreUuids PROVE Rls!Init => RlsInv
BY DEF TenantsAreUuids, Rls!Init, RlsInv, RlsType, Setting, SettingIsScoped, WorkIsScoped, Rls!TenantsAreIsolated

LEMMA RlsStep ==
  ASSUME TenantsAreUuids PROVE RlsInv /\ [Rls!Next]_Rls!isolationVars => RlsInv'
<1> SUFFICES ASSUME RlsInv, [Rls!Next]_Rls!isolationVars PROVE RlsInv'  OBVIOUS
<1> USE DEF RlsInv, RlsType, Setting, SettingIsScoped, WorkIsScoped, TenantsAreUuids
<1>1. ASSUME NEW c \in Connections, NEW who \in Tenants \cup {Platform}, Rls!Begin(c, who)
      PROVE  RlsInv'
  <2> DEFINE mine == [for |-> who, failed |-> FALSE]
  <2>1. mine \in Session /\ mine.for = who  BY DEF Session
  <2>2. work' = [work EXCEPT ![c] = mine] /\ work[c] = Nothing  BY <1>1 DEF Rls!Begin
  <2>3. guc[c] \notin Tenants  BY <2>2
  <2>4. mine # Nothing  BY <2>1
  <2>5. Rls!TenantsAreIsolated'  BY <1>1 DEF Rls!Begin, Rls!TenantsAreIsolated
  <2> HIDE DEF mine
  <2>6. CASE who = Platform
    <3>1. guc' = guc  BY <1>1, <2>6 DEF Rls!Begin
    <3> QED  BY <2>1, <2>2, <2>3, <2>4, <2>5, <2>6, <3>1
  <2>7. CASE who # Platform
    <3>1. guc' = [guc EXCEPT ![c] = who] /\ who \in Tenants  BY <1>1, <2>7 DEF Rls!Begin
    <3> QED  BY <2>1, <2>2, <2>3, <2>4, <2>5, <2>7, <3>1
  <2> QED  BY <2>6, <2>7
<1>2. ASSUME NEW c \in Connections, NEW touched \in SUBSET Rls!Row, Rls!Statement(c, touched) PROVE RlsInv'
  <2>1. (RlsType /\ SettingIsScoped /\ WorkIsScoped)'
    BY <1>2, FailedKeeps DEF Rls!Statement
  <2>2. CASE \E x \in touched : Rls!Errors(c, x)
    BY <1>2, <2>1, <2>2 DEF Rls!Statement, Rls!TenantsAreIsolated
  <2>3. CASE ~\E x \in touched : Rls!Errors(c, x)
    <3>1. Rls!Reach(c, {x \in touched : Rls!Visible(c, x)})  BY <1>2, <2>3 DEF Rls!Statement
    <3>2. work[c] # Nothing  BY <1>2 DEF Rls!Statement
    <3>3. Rls!TenantsAreIsolated'  BY <3>1, <3>2, ReachedIsOwn
    <3> QED  BY <2>1, <3>3
  <2> QED  BY <2>2, <2>3
<1>3. ASSUME NEW c \in Connections, NEW x \in Rls!Row, Rls!Insert(c, x) PROVE RlsInv'
  <2>1. (RlsType /\ SettingIsScoped /\ WorkIsScoped)'
    BY <1>3, FailedKeeps DEF Rls!Insert
  <2>2. CASE Rls!Errors(c, x) \/ ~Rls!Visible(c, x)
    BY <1>3, <2>1, <2>2 DEF Rls!Insert, Rls!TenantsAreIsolated
  <2>3. CASE ~(Rls!Errors(c, x) \/ ~Rls!Visible(c, x))
    <3>1. Rls!Reach(c, {x}) /\ Rls!Visible(c, x) /\ work[c] # Nothing  BY <1>3, <2>3 DEF Rls!Insert
    <3>2. Rls!TenantsAreIsolated'  BY <3>1, ReachedIsOwn
    <3> QED  BY <2>1, <3>2
  <2> QED  BY <2>2, <2>3
<1>4. ASSUME NEW c \in Connections, Rls!End(c) PROVE RlsInv'
  BY <1>4 DEF Rls!End, Rls!AfterTransaction, Rls!TenantsAreIsolated
<1>5. CASE UNCHANGED Rls!isolationVars  BY <1>5 DEF Rls!isolationVars, Rls!TenantsAreIsolated
<1> QED  BY <1>1, <1>2, <1>3, <1>4, <1>5 DEF Rls!Next

(* "even a buggy query cannot cross tenants" (core/database.py): whatever     *)
(* rows a statement names and whoever had the connection before, it reaches   *)
(* the rows of its own tenant only.                                         *)
THEOREM Isolated == ASSUME TenantsAreUuids PROVE Rls!Spec => []Rls!TenantsAreIsolated
<1>1. RlsInv => Rls!TenantsAreIsolated  BY DEF RlsInv
<1> QED  BY RlsStart, RlsStep, <1>1, PTL DEF Rls!Spec

-----------------------------------------------------------------------------
(* RequestGuards.  What may still commit is counted: the transactions that    *)
(* have, the attempts under way, and the one a free key would let in.         *)

KeyAssumption == IsFiniteSet(Tries)

KeyType ==
  /\ entry \in {"none", "lock", "answer"}
  /\ try \in [Tries -> {"idle", "locked", "unlocked", "sent"}]
  /\ effects \in Nat /\ outages \in Nat /\ lapses \in Nat /\ forgotten \in Nat

UnderWay == {a \in Tries : try[a] # "idle"}

(* A key that is free, or whose lock nobody holds, will let one more in.      *)
Open == IF entry = "none" \/ (entry = "lock" /\ ~Guards!Held) THEN 1 ELSE 0

Uses == effects + Cardinality(UnderWay) + Open
Explained == 1 + outages + lapses + forgotten

KeyInv == KeyType /\ Uses <= Explained

(* What a step adds to each side of the count.                                *)
Adds(e, u, o, x) ==
  /\ effects' = effects + e
  /\ Cardinality(UnderWay') = Cardinality(UnderWay) + u
  /\ Open' = Open + o
  /\ Explained' = Explained + x

(* Who moves on is counted once less, once more, or as before.                *)
LEMMA Moves ==
  ASSUME KeyAssumption, KeyInv, NEW a \in Tries,
         NEW at \in {"idle", "locked", "unlocked", "sent"}, Guards!Goto(a, at)
  PROVE  /\ try' \in [Tries -> {"idle", "locked", "unlocked", "sent"}]
         /\ Cardinality(UnderWay) \in Nat /\ Cardinality(UnderWay') \in Nat
         /\ try[a] # "idle" /\ at = "idle" => Cardinality(UnderWay') = Cardinality(UnderWay) - 1
         /\ try[a] = "idle" /\ at # "idle" => Cardinality(UnderWay') = Cardinality(UnderWay) + 1
         /\ try[a] # "idle" /\ at # "idle" => Cardinality(UnderWay') = Cardinality(UnderWay)
         /\ try[a] # "locked" /\ Guards!Held => Guards!Held'
         /\ at = "locked" => Guards!Held'
<1>1. /\ try' \in [Tries -> {"idle", "locked", "unlocked", "sent"}]
      /\ try'[a] = at /\ \A b \in Tries \ {a} : try'[b] = try[b]
  BY DEF Guards!Goto, KeyInv, KeyType
<1>2. IsFiniteSet(UnderWay) /\ IsFiniteSet(UnderWay')
  BY FS_Subset DEF KeyAssumption, UnderWay
<1>3. Cardinality(UnderWay) \in Nat /\ Cardinality(UnderWay') \in Nat
  BY <1>2, FS_CardinalityType
<1>4. ASSUME try[a] # "idle", at = "idle"
      PROVE  Cardinality(UnderWay') = Cardinality(UnderWay) - 1
  <2>1. UnderWay' = UnderWay \ {a} /\ a \in UnderWay  BY <1>1, <1>4 DEF UnderWay
  <2> QED  BY <1>2, <2>1, FS_RemoveElement
<1>5. ASSUME try[a] = "idle", at # "idle"
      PROVE  Cardinality(UnderWay') = Cardinality(UnderWay) + 1
  <2>1. UnderWay' = UnderWay \cup {a} /\ a \notin UnderWay  BY <1>1, <1>5 DEF UnderWay
  <2> QED  BY <1>2, <2>1, FS_AddElement
<1>6. try[a] # "idle" /\ at # "idle" => UnderWay' = UnderWay  BY <1>1 DEF UnderWay
<1>7. /\ try[a] # "locked" /\ Guards!Held => Guards!Held'
      /\ at = "locked" => Guards!Held'
  BY <1>1 DEF Guards!Held
<1> QED  BY <1>1, <1>3, <1>4, <1>5, <1>6, <1>7

(* The count holds when it grows no faster than what explains it.             *)
LEMMA Kept ==
  ASSUME KeyAssumption, KeyInv, KeyType', NEW e \in Int, NEW u \in Int, NEW o \in Int,
         NEW x \in Int, Adds(e, u, o, x), e + u + o <= x
  PROVE  KeyInv'
<1>1. Cardinality(UnderWay) \in Int /\ Open \in Int
  BY FS_Subset, FS_CardinalityType DEF KeyAssumption, UnderWay, Open
<1>2. Uses \in Int /\ Uses' = Uses + (e + u + o)
  BY <1>1 DEF KeyInv, KeyType, Uses, Adds
<1>3. Explained \in Int  BY DEF KeyInv, KeyType, Explained
<1>6. Explained' = Explained + x  BY DEF Adds
<1>4. Uses <= Explained  BY DEF KeyInv
<1>5. Uses' <= Explained'  BY <1>2, <1>3, <1>4, <1>6
<1> QED  BY <1>5 DEF KeyInv

(* The counters of what went wrong, which only grow.                          *)
LEMMA Excuses ==
  ASSUME KeyInv, NEW x \in {0, 1},
         \/ outages' = outages + x /\ UNCHANGED <<lapses, forgotten>>
         \/ lapses' = lapses + x /\ UNCHANGED <<outages, forgotten>>
         \/ forgotten' = forgotten + x /\ UNCHANGED <<outages, lapses>>
  PROVE  /\ Explained' = Explained + x
         /\ outages' \in Nat /\ lapses' \in Nat /\ forgotten' \in Nat
<1> USE DEF KeyInv, KeyType, Explained
<1>1. CASE outages' = outages + x /\ UNCHANGED <<lapses, forgotten>>  BY <1>1
<1>2. CASE lapses' = lapses + x /\ UNCHANGED <<outages, forgotten>>  BY <1>2
<1>3. CASE forgotten' = forgotten + x /\ UNCHANGED <<outages, lapses>>  BY <1>3
<1> QED  BY <1>1, <1>2, <1>3

LEMMA KeySteps ==
  ASSUME KeyAssumption, KeyInv, Guards!KeyNext
  PROVE  KeyInv'
<1> DEFINE at == {"idle", "locked", "unlocked", "sent"}
           n == Cardinality(UnderWay)
           o == Open' - Open
<1>1. KeyType /\ effects \in Nat  BY DEF KeyInv, KeyType
<1>2. n \in Nat  BY FS_Subset, FS_CardinalityType DEF KeyAssumption, UnderWay
<1>3. Open \in {0, 1} /\ (Guards!Held /\ entry = "lock" => Open = 0)
      /\ (entry = "none" => Open = 1) /\ (entry = "answer" => Open = 0)
      /\ (entry = "lock" /\ ~Guards!Held => Open = 1)
  BY DEF Open
<1>4. Open' \in {0, 1} /\ (entry' = "answer" => Open' = 0)
      /\ (entry' = "lock" /\ Guards!Held' => Open' = 0)
      /\ (entry' = "none" => Open' = 1)
  BY DEF Open
<1>5. o \in Int /\ Open' = Open + o /\ o <= 1 /\ (Open = 1 => o <= 0) /\ (Open' = 0 => o <= 0)
  <2>1. Open \in {0, 1} /\ Open' \in {0, 1}  BY <1>3, <1>4
  <2>2. CASE Open = 0 /\ Open' = 0  BY <2>2
  <2>3. CASE Open = 0 /\ Open' = 1  BY <2>3
  <2>4. CASE Open = 1 /\ Open' = 0  BY <2>4
  <2>5. CASE Open = 1 /\ Open' = 1  BY <2>5
  <2> QED  BY <2>1, <2>2, <2>3, <2>4, <2>5
<1>6. UNCHANGED effects => effects' = effects + 0  BY <1>1
<1>7. UNCHANGED try => n' = n + 0  BY <1>2 DEF UnderWay
<1>8. (entry' = entry /\ (Guards!Held => Guards!Held')) => o <= 0
  BY <1>3, <1>4, <1>5 DEF KeyInv, KeyType
<1> HIDE DEF n, o, at
<1>9. ASSUME NEW a \in Tries, Guards!Claim(a) PROVE KeyInv'
  <2>1. try' \in [Tries -> at] /\ n' = n + 1 /\ Guards!Held'
    BY <1>9, Moves DEF Guards!Claim, n, at
  <2>2. Explained' = Explained + 0 /\ KeyType'
    BY <1>1, <1>9, <2>1, Excuses DEF Guards!Claim, KeyType, at
  <2>3. o = -1  BY <1>3, <1>4, <1>9, <2>1 DEF Guards!Claim, o
  <2>4. Adds(0, 1, o, 0)  BY <1>5, <1>6, <1>9, <2>1, <2>2 DEF Adds, Guards!Claim, n
  <2> QED  BY <1>5, <2>2, <2>3, <2>4, Kept
<1>10. ASSUME NEW a \in Tries, Guards!Replay(a) PROVE KeyInv'
  <2>1. Explained' = Explained + 0 /\ KeyType'
    BY <1>1, <1>10, Excuses DEF Guards!Replay, KeyType
  <2>2. n' = n + 0 /\ o <= 0
    BY <1>7, <1>8, <1>10 DEF Guards!Replay, Guards!Held
  <2>3. Adds(0, 0, o, 0)  BY <1>5, <1>6, <1>10, <2>1, <2>2 DEF Adds, Guards!Replay, n
  <2> QED  BY <1>5, <2>1, <2>2, <2>3, Kept
<1>11. ASSUME NEW a \in Tries, Guards!Bypass(a) PROVE KeyInv'
  <2>1. try' \in [Tries -> at] /\ n' = n + 1 /\ (Guards!Held => Guards!Held')
    BY <1>11, Moves DEF Guards!Bypass, n, at
  <2>2. Explained' = Explained + 1 /\ KeyType'
    BY <1>1, <1>11, <2>1, Excuses DEF Guards!Bypass, KeyType, at
  <2>3. o <= 0  BY <1>8, <1>11, <2>1 DEF Guards!Bypass
  <2>4. Adds(0, 1, o, 1)  BY <1>5, <1>6, <1>11, <2>1, <2>2 DEF Adds, Guards!Bypass, n
  <2> QED  BY <1>5, <2>2, <2>3, <2>4, Kept
<1>12. ASSUME NEW a \in Tries, Guards!Succeed(a) PROVE KeyInv'
  <2>1. try' \in [Tries -> at] /\ n' = n + 0 /\ (try[a] # "locked" /\ Guards!Held => Guards!Held')
    BY <1>2, <1>12, Moves DEF Guards!Succeed, n, at
  <2>2. PICK x \in {0, 1} :
         /\ outages' = outages + x
         /\ (x = 0) => (entry' = "answer" \/ (try[a] = "unlocked" /\ entry' = entry))
         /\ (x = 1) => (entry' = entry)
    <3>1. outages' = outages \/ outages' = outages + 1  BY <1>12 DEF Guards!Succeed, Guards!Command
    <3>2. CASE outages' = outages
      <4>1. outages' = outages + 0  BY <1>1, <3>2 DEF KeyType
      <4>2. outages' # outages + 1  BY <1>1, <3>2 DEF KeyType
      <4> QED  BY <1>12, <4>1, <4>2 DEF Guards!Succeed, Guards!Command
    <3>3. CASE outages' = outages + 1
      <4>1. outages' # outages  BY <1>1, <3>3 DEF KeyType
      <4> QED  BY <1>12, <3>3, <4>1 DEF Guards!Succeed, Guards!Command
    <3> QED  BY <3>1, <3>2, <3>3
  <2>3. Explained' = Explained + x /\ KeyType'
    <3>1. outages' = outages + x /\ UNCHANGED <<effects, lapses, forgotten>>
      <4>1. UNCHANGED <<effects, lapses, forgotten>>  BY <1>12 DEF Guards!Succeed
      <4> QED  BY <2>2, <4>1
    <3>2. Explained' = Explained + x /\ outages' \in Nat  BY <3>1, Excuses
    <3>3. entry' \in {"none", "lock", "answer"}
      <4>1. entry \in {"none", "lock", "answer"}  BY <1>1 DEF KeyType
      <4>2. entry' = "answer" \/ entry' = entry  BY <2>2
      <4> QED  BY <4>1, <4>2
    <3> QED  BY <1>1, <2>1, <3>1, <3>2, <3>3 DEF KeyType, at
  <2>4. o <= x
    <3>1. CASE x = 1  BY <1>5, <3>1
    <3>2. CASE x = 0
      <4>1. CASE entry' = "answer"  BY <1>4, <1>5, <3>2, <4>1
      <4>2. CASE entry' = entry /\ (Guards!Held => Guards!Held')  BY <1>8, <3>2, <4>2
      <4> QED  BY <2>1, <2>2, <3>2, <4>1, <4>2
    <3> QED  BY <3>1, <3>2
  <2>5. Adds(0, 0, o, x)  BY <1>5, <1>6, <1>12, <2>1, <2>3 DEF Adds, Guards!Succeed, n
  <2> QED  BY <1>5, <2>3, <2>4, <2>5, Kept
<1>13. ASSUME NEW a \in Tries, Guards!Fail(a) \/ Guards!Die(a) PROVE KeyInv'
  <2>1. try' \in [Tries -> at] /\ n' = n + (-1)
    BY <1>2, <1>13, Moves DEF Guards!Fail, Guards!Die, n, at
  <2>2. outages' = outages \/ outages' = outages + 1  BY <1>13 DEF Guards!Fail, Guards!Die, Guards!Command
  <2>3. PICK x \in {0, 1} : outages' = outages + x
    BY <1>1, <2>2 DEF KeyType
  <2>4. entry' \in {"none", "lock", "answer"} /\ UNCHANGED <<effects, lapses, forgotten>>
    BY <1>1, <1>13 DEF Guards!Fail, Guards!Die, Guards!Command, KeyType
  <2>5. Explained' = Explained + x /\ KeyType'
    BY <1>1, <2>1, <2>3, <2>4, Excuses DEF KeyType, at
  <2>6. Adds(0, -1, o, x)  BY <1>5, <1>6, <2>1, <2>4, <2>5 DEF Adds, n
  <2> QED  BY <1>5, <2>5, <2>6, Kept
<1>14. ASSUME NEW a \in Tries, Guards!Commit(a) PROVE KeyInv'
  <2>1. try' \in [Tries -> at] /\ n' = n + (-1) /\ (Guards!Held => Guards!Held')
    BY <1>2, <1>14, Moves DEF Guards!Commit, n, at
  <2>2. effects' = effects + 1  BY <1>14 DEF Guards!Commit
  <2>3. Explained' = Explained + 0 /\ KeyType'
    BY <1>1, <1>14, <2>1, <2>2, Excuses DEF Guards!Commit, KeyType, at
  <2>4. o <= 0  BY <1>8, <1>14, <2>1 DEF Guards!Commit
  <2>5. Adds(1, -1, o, 0)  BY <1>5, <2>1, <2>2, <2>3 DEF Adds, n
  <2> QED  BY <1>5, <2>3, <2>4, <2>5, Kept
<1>15. ASSUME Guards!Expire \/ Guards!Lapse \/ Guards!Forget PROVE KeyInv'
  <2>1. UNCHANGED <<try, effects, outages>> /\ entry' = "none"
    BY <1>15 DEF Guards!Expire, Guards!Lapse, Guards!Forget
  <2>2. CASE Guards!Expire
    <3>1. o <= 0  BY <1>3, <1>5, <2>2 DEF Guards!Expire, Guards!Renewing
    <3>2. Explained' = Explained + 0 /\ KeyType'
      BY <1>1, <2>1, <2>2, Excuses DEF Guards!Expire, KeyType
    <3>3. Adds(0, 0, o, 0)  BY <1>5, <1>6, <1>7, <2>1, <3>2 DEF Adds, n
    <3> QED  BY <1>5, <3>1, <3>2, <3>3, Kept
  <2>3. CASE Guards!Lapse \/ Guards!Forget
    <3>1. Explained' = Explained + 1 /\ KeyType'
      BY <1>1, <2>1, <2>3, Excuses DEF Guards!Lapse, Guards!Forget, KeyType
    <3>2. Adds(0, 0, o, 1)  BY <1>5, <1>6, <1>7, <2>1, <3>1 DEF Adds, n
    <3> QED  BY <1>5, <3>1, <3>2, Kept
  <2> QED  BY <1>15, <2>2, <2>3
<1> QED
  BY <1>9, <1>10, <1>11, <1>12, <1>13, <1>14, <1>15 DEF Guards!KeyNext, Guards!Attempt

(* The log holds every hit let through that a window up to the newest one     *)
(* can still see, so what a hit counts is what the windows it opens hold.     *)
RateAssumption == Limit \in Nat /\ Window \in Nat \ {0} /\ MaxTime \in Nat /\ Away \in Nat

Hit == Nat \X Nat
RateType ==
  /\ clock \in Nat /\ hits \in Nat /\ late \in Nat /\ newest \in Nat
  /\ read \in [Callers -> Nat]
  /\ log \subseteq Hit /\ IsFiniteSet(log)
  /\ accepted \subseteq Hit /\ IsFiniteSet(accepted)
LogInv == \A h \in accepted : h[1] <= newest /\ (h[1] > newest - Window => h \in log)

Inside(at) == {h \in accepted : h[1] \in (at - Window + 1)..at}
WindowInv == \A at \in Int : Cardinality(Inside(at)) <= Limit + late

RateInv == RateType /\ LogInv /\ WindowInv

(* An instance has a copy of its own of the standard module.                  *)
LEMMA SameCardinality ==
  ASSUME NEW S
  PROVE  Guards!Cardinality(S) = Cardinality(S)
BY DEF Guards!Cardinality, Cardinality

LEMMA ConsumeSteps ==
  ASSUME RateAssumption, RateInv, NEW r \in Callers, Guards!Consume(r)
  PROVE  RateInv'
<1> DEFINE at == read[r]
           hit == <<at, hits>>
           counted == Guards!InWindow(log, at) \cup {hit}
           ok == Cardinality(counted) <= Limit
<1>1. /\ hits' = hits + 1 /\ log' = counted
      /\ accepted' = IF ok THEN accepted \cup {hit} ELSE accepted
      /\ late' = IF ok /\ at < newest THEN late + 1 ELSE late
      /\ newest' = IF at > newest THEN at ELSE newest
      /\ read' = [read EXCEPT ![r] = Away] /\ UNCHANGED clock
  BY SameCardinality DEF Guards!Consume
<1>2. at \in Nat /\ hit \in Hit /\ hit[1] = at /\ newest \in Nat /\ late \in Nat
  BY DEF RateInv, RateType, Hit
<1>3. Guards!InWindow(log, at) \subseteq log /\ \A h \in log : h[1] > at - Window => h \in Guards!InWindow(log, at)
  BY DEF Guards!InWindow
<1> HIDE DEF at
<1>4. counted \subseteq Hit /\ IsFiniteSet(counted) /\ Cardinality(counted) \in Nat
  <2>1. IsFiniteSet(Guards!InWindow(log, at))  BY <1>3, FS_Subset DEF RateInv, RateType
  <2> QED  BY <1>2, <1>3, <2>1, FS_AddElement, FS_CardinalityType DEF RateInv, RateType
<1>5. IsFiniteSet(accepted \cup {hit}) /\ accepted \cup {hit} \subseteq Hit
  BY <1>2, FS_AddElement DEF RateInv, RateType
<1>6. newest' \in Nat /\ newest' >= newest /\ newest' >= at /\ late' \in Nat /\ late' >= late
  BY <1>1, <1>2
<1>7. RateType'
  <2>1. accepted' \subseteq Hit /\ IsFiniteSet(accepted')  BY <1>1, <1>5 DEF RateInv, RateType
  <2> HIDE DEF counted, hit
  <2> QED  BY <1>1, <1>4, <1>6, <2>1 DEF RateInv, RateType, RateAssumption
<1>8. LogInv'
  <2> SUFFICES ASSUME NEW h \in accepted'
               PROVE  h[1] <= newest' /\ (h[1] > newest' - Window => h \in log')
    BY DEF LogInv
  <2>1. CASE h = hit  BY <1>1, <1>2, <1>6, <2>1
  <2>2. CASE h # hit
    <3>1. h \in accepted /\ h[1] \in Nat  BY <1>1, <2>2 DEF RateInv, RateType, Hit
    <3>2. h[1] <= newest  BY <3>1 DEF RateInv, LogInv
    <3>3. ASSUME h[1] > newest' - Window PROVE h \in log'
      <4>1. h[1] > newest - Window /\ h[1] > at - Window
        BY <1>2, <1>6, <3>1, <3>3 DEF RateAssumption
      <4>2. h \in log  BY <3>1, <4>1 DEF RateInv, LogInv
      <4> QED  BY <1>1, <1>3, <4>1, <4>2
    <3> QED  BY <1>2, <1>6, <3>1, <3>2, <3>3
  <2> QED  BY <2>1, <2>2
<1>9. WindowInv'
  <2> SUFFICES ASSUME NEW w \in Int
               PROVE  Cardinality(Inside(w)') <= Limit + late'
    BY DEF WindowInv
  <2>1. /\ IsFiniteSet(Inside(w)) /\ Cardinality(Inside(w)) \in Nat
        /\ Cardinality(Inside(w)) <= Limit + late
    BY FS_Subset, FS_CardinalityType DEF RateInv, RateType, WindowInv, Inside
  <2>2. CASE ~ok
    <3>1. Inside(w)' = Inside(w) /\ late' = late  BY <1>1, <2>2 DEF Inside
    <3> QED  BY <2>1, <3>1
  <2>3. CASE ok /\ at < newest
    <3>1. Inside(w)' \subseteq Inside(w) \cup {hit} /\ late' = late + 1
      BY <1>1, <2>3 DEF Inside
    <3>2. /\ IsFiniteSet(Inside(w) \cup {hit})
          /\ Cardinality(Inside(w) \cup {hit}) <= Cardinality(Inside(w)) + 1
          /\ Cardinality(Inside(w) \cup {hit}) \in Nat
      <4>1. IsFiniteSet(Inside(w) \cup {hit})  BY <2>1, FS_AddElement
      <4>2. \/ Cardinality(Inside(w) \cup {hit}) = Cardinality(Inside(w))
            \/ Cardinality(Inside(w) \cup {hit}) = Cardinality(Inside(w)) + 1
        BY <2>1, FS_AddElement
      <4> QED  BY <2>1, <4>1, <4>2
    <3>3. Cardinality(Inside(w)') \in Nat /\ Cardinality(Inside(w)') <= Cardinality(Inside(w) \cup {hit})
      BY <3>1, <3>2, FS_Subset, FS_CardinalityType
    <3> QED  BY <1>2, <2>1, <3>1, <3>2, <3>3 DEF RateAssumption
  <2>4. CASE ok /\ ~(at < newest)
    <3>1. late' = late /\ accepted' = accepted \cup {hit}  BY <1>1, <2>4
    <3>2. CASE hit[1] \in (w - Window + 1)..w
      <4>1. Inside(w)' \subseteq counted
        <5> SUFFICES ASSUME NEW h \in Inside(w)', h # hit PROVE h \in counted
          OBVIOUS
        <5>1. h \in accepted /\ h[1] \in Nat /\ h[1] > w - Window /\ at <= w
          BY <1>2, <3>1, <3>2 DEF Inside, RateInv, RateType, Hit, RateAssumption
        <5>2. h[1] <= newest  BY <5>1 DEF RateInv, LogInv
        <5>3. h[1] > at - Window /\ h[1] > newest - Window
          BY <1>2, <2>4, <3>2, <5>1, <5>2 DEF RateAssumption
        <5>4. h \in log  BY <5>1, <5>3 DEF RateInv, LogInv
        <5> QED  BY <1>3, <5>3, <5>4
      <4>2. Cardinality(Inside(w)') \in Nat /\ Cardinality(Inside(w)') <= Cardinality(counted)
        BY <1>4, <4>1, FS_Subset, FS_CardinalityType
      <4> QED  BY <1>2, <1>4, <2>4, <3>1, <4>2 DEF RateAssumption
    <3>3. CASE hit[1] \notin (w - Window + 1)..w
      <4>1. Inside(w)' = Inside(w)  BY <3>1, <3>3 DEF Inside
      <4> QED  BY <2>1, <3>1, <4>1
    <3> QED  BY <3>2, <3>3
  <2> QED  BY <2>2, <2>3, <2>4
<1> QED  BY <1>7, <1>8, <1>9 DEF RateInv

LEMMA RateSteps ==
  ASSUME RateAssumption, RateInv, Guards!RateNext
  PROVE  RateInv'
<1>1. ASSUME NEW r \in Callers, Guards!ReadClock(r) \/ Guards!Unlimited(r) PROVE RateInv'
  BY <1>1 DEF Guards!ReadClock, Guards!Unlimited, RateInv, RateType, RateAssumption, LogInv, WindowInv, Inside
<1>2. CASE Guards!Tick
  BY <1>2 DEF Guards!Tick, RateInv, RateType, LogInv, WindowInv, Inside
<1> QED  BY <1>1, <1>2, ConsumeSteps DEF Guards!RateNext

GuardInv == KeyInv /\ RateInv

LEMMA GuardsStart ==
  ASSUME KeyAssumption, RateAssumption, Guards!GuardsInit
  PROVE  GuardInv
<1>1. KeyInv
  <2>1. UnderWay = {} /\ Cardinality(UnderWay) = 0
    BY FS_EmptySet DEF Guards!GuardsInit, Guards!KeyInit, UnderWay
  <2>2. Open = 1  BY DEF Guards!GuardsInit, Guards!KeyInit, Open
  <2> QED  BY <2>1, <2>2 DEF Guards!GuardsInit, Guards!KeyInit, KeyInv, KeyType, Uses, Explained
<1>2. RateInv
  <2>1. IsFiniteSet({}) /\ Cardinality({}) = 0  BY FS_EmptySet
  <2>2. \A at \in Int : Inside(at) = {}  BY DEF Guards!GuardsInit, Guards!RateInit, Inside
  <2>3. WindowInv
    BY <2>1, <2>2 DEF Guards!GuardsInit, Guards!RateInit, WindowInv, RateAssumption
  <2> QED  BY <2>1, <2>3 DEF Guards!GuardsInit, Guards!RateInit, RateInv, RateType, LogInv, RateAssumption
<1> QED  BY <1>1, <1>2 DEF GuardInv

LEMMA GuardsStep ==
  ASSUME KeyAssumption, RateAssumption
  PROVE  GuardInv /\ [Guards!GuardsNext]_<<Guards!keyed, Guards!limits>> => GuardInv'
<1> SUFFICES ASSUME GuardInv, [Guards!GuardsNext]_<<Guards!keyed, Guards!limits>> PROVE GuardInv'
  OBVIOUS
<1>1. UNCHANGED Guards!keyed => KeyInv'
  BY DEF Guards!keyed, GuardInv, KeyInv, KeyType, Uses, Explained, UnderWay, Open, Guards!Held
<1>2. UNCHANGED Guards!limits => RateInv'
  BY DEF Guards!limits, GuardInv, RateInv, RateType, LogInv, WindowInv, Inside
<1>3. Guards!KeyNext => KeyInv'  BY KeySteps DEF GuardInv
<1>4. Guards!RateNext => RateInv'  BY RateSteps DEF GuardInv
<1> QED  BY <1>1, <1>2, <1>3, <1>4 DEF Guards!GuardsNext, GuardInv

(* Beyond one, every transaction that commits under an idempotency key has a  *)
(* Redis failure, a lock that expired under a live handler or an answer that  *)
(* was forgotten to explain it; and no window of a rate limit lets more       *)
(* through than the limit and the hits that came late.                        *)
THEOREM Guarded ==
  ASSUME KeyAssumption, RateAssumption
  PROVE  Guards!GuardsSpec => []RequestsAreGuarded
<1>1. GuardInv => RequestsAreGuarded
  <2> SUFFICES ASSUME GuardInv PROVE RequestsAreGuarded  OBVIOUS
  <2>1. Guards!EffectsAreExplained
    <3>1. Cardinality(UnderWay) \in Nat /\ Open \in Nat
      BY FS_Subset, FS_CardinalityType DEF KeyAssumption, UnderWay, Open
    <3>2. Explained \in Int /\ Explained = 1 + outages + lapses + forgotten
      BY DEF GuardInv, KeyInv, KeyType, Explained
    <3>3. effects <= Explained
      BY <3>1, <3>2 DEF GuardInv, KeyInv, KeyType, Uses
    <3> QED  BY <3>2, <3>3 DEF Guards!EffectsAreExplained
  <2>2. Guards!NoWindowOverfull
    BY SameCardinality DEF Guards!NoWindowOverfull, GuardInv, RateInv, WindowInv, Inside, RateAssumption
  <2> QED  BY <2>1, <2>2 DEF RequestsAreGuarded, Guards!RequestsAreGuarded
<1> QED  BY <1>1, GuardsStart, GuardsStep, PTL DEF Guards!GuardsSpec

-----------------------------------------------------------------------------
(* TenantCache.  Every step that may leave the entry behind the row says so,  *)
(* or has a callback on its way.                                              *)

CacheInv ==
  /\ writer \in [Writers -> Writer]
  /\ StaleIsExplained

LEMMA CacheSteps == CacheInv /\ [Next]_vars => CacheInv'
<1> SUFFICES ASSUME CacheInv, [Next]_vars PROVE CacheInv'
  OBVIOUS
<1> USE DEF CacheInv, Writer, StaleIsExplained
<1>1. ASSUME NEW r \in Readers, Arrive(r) \/ Resolve(r) \/ FillFails(r)
      PROVE  CacheInv'
  <2>1. CASE Fill(r)  BY <2>1 DEF Fill
  <2>2. CASE ~Fill(r)
    <3>1. UNCHANGED <<stored, cache, writer, excused>>
      BY <1>1, <2>2 DEF Arrive, Resolve, Get, Query, FillFails
    <3> QED  BY <3>1
  <2> QED  BY <2>1, <2>2
<1>2. ASSUME NEW w \in Writers, NEW status \in Statuses, Write(w, status)
      PROVE  CacheInv'
  BY <1>2 DEF Write
<1>3. ASSUME NEW w \in Writers, Commit(w) PROVE CacheInv'
  BY <1>3 DEF Commit
<1>4. ASSUME NEW w \in Writers, Rollback(w) PROVE CacheInv'
  BY <1>4 DEF Rollback
<1>5. ASSUME NEW w \in Writers, Invalidate(w) PROVE CacheInv'
  BY <1>5 DEF Invalidate
<1>6. CASE Expire \/ Purge
  BY <1>6 DEF Expire, Purge
<1>7. CASE UNCHANGED vars  BY <1>7 DEF vars
<1> QED  BY <1>1, <1>2, <1>3, <1>4, <1>5, <1>6, <1>7 DEF Next

(* The cached status of a tenant is the stored one, unless an invalidation is *)
(* on its way or failed, the tenant was purged, or a request put back what it *)
(* had read before a commit (core/database.py's callbacks, resolve).          *)
THEOREM StaleExplained == Spec => []StaleIsExplained
<1>1. Init => CacheInv
  BY DEF Init, CacheInv, Writer, StaleIsExplained
<1>2. CacheInv => StaleIsExplained  BY DEF CacheInv
<1> QED  BY <1>1, <1>2, CacheSteps, PTL DEF Spec

-----------------------------------------------------------------------------
(* Deals.  A request that holds its row has read it as it is; a closed deal   *)
(* stays closed; a stamp covers its date even while the milestone is done.    *)

DealAssumption == Prices # {} /\ \E d \in Days : \A e \in Days : d <= e

DealRow == [status : DOMAIN Transactions!TRANSITIONS, price : Prices,
            commission : Prices \cup {Nothing}]
MilestoneRow == [due : Days, done : BOOLEAN, stamp : BOOLEAN]
OnMilestone == {"milestone", "delete_milestone"}

DealType ==
  /\ deal \in DealRow \cup {Nothing}
  /\ milestone \in MilestoneRow \cup {Nothing}
  /\ closings \in {0, 1}

(* What a request in progress knows of its row.                               *)
Knows(q) ==
  q # Nothing =>
    /\ q.op \in Transactions!OnDeal \cup OnMilestone
    /\ q.arg \in Transactions!Argument(q.op)
    /\ q.op \in Transactions!OnDeal => q.deal = deal /\ deal # Nothing
    /\ q.op \in OnMilestone => q.row = milestone /\ milestone # Nothing

HoldInv ==
  /\ request = [r \in Requests |-> request[r]]
  /\ \A r \in Requests : Knows(request[r])
  /\ \A ops \in {Transactions!OnDeal, OnMilestone} : \A r, q \in Requests :
       /\ request[r] # Nothing /\ request[r].op \in ops
       /\ request[q] # Nothing /\ request[q].op \in ops
       => r = q

ClosedInv == closings = 1 => deal = Nothing \/ deal.status \in Transactions!CLOSED
CommissionInv ==
  deal # Nothing /\ deal.commission # Nothing /\ deal.commission # deal.price => edited
StampInv ==
  milestone # Nothing /\ milestone.stamp => milestone.due \in reminded \/ pardoned

DealInv == DealType /\ HoldInv /\ ClosedInv /\ CommissionInv /\ StampInv

LEMMA Arguments ==
  /\ Transactions!Argument("price") = Prices
  /\ Transactions!Argument("transition") = DOMAIN Transactions!TRANSITIONS
  /\ Transactions!Argument("milestone")
       = [due : Days \cup {Nothing}, done : BOOLEAN \cup {Nothing}]
BY DEF Transactions!Argument

LEMMA Moving ==
  /\ DOMAIN Transactions!TRANSITIONS
       = Transactions!CLOSED \cup {"open", "under_contract"}
  /\ \A s \in DOMAIN Transactions!TRANSITIONS :
       /\ Transactions!TRANSITIONS[s] \subseteq DOMAIN Transactions!TRANSITIONS
       /\ s \in Transactions!CLOSED => Transactions!TRANSITIONS[s] = {}
BY DEF Transactions!TRANSITIONS, Transactions!CLOSED

(* A request that ends leaves the others with what they know.                 *)
LEMMA Ends ==
  ASSUME DealInv, NEW r \in Requests, request[r] # Nothing, Transactions!End(r),
         request[r].op \in OnMilestone => UNCHANGED deal,
         request[r].op \in Transactions!OnDeal =>
           UNCHANGED milestone \/ ~Transactions!Holding(OnMilestone)
  PROVE  HoldInv'
<1>1. /\ request' = [q \in Requests |-> request'[q]]
      /\ request'[r] = Nothing
      /\ \A q \in Requests \ {r} : request'[q] = request[q]
  BY DEF Transactions!End, DealInv, HoldInv
<1>2. ASSUME NEW q \in Requests PROVE Knows(request[q])'
  <2>1. CASE q = r \/ request[q] = Nothing  BY <1>1, <2>1 DEF Knows
  <2>2. CASE q # r /\ request[q] # Nothing
    <3>1. request'[q] = request[q] /\ Knows(request[q]) /\ Knows(request[r])
      BY <1>1, <2>2 DEF DealInv, HoldInv
    <3>2. CASE request[q].op \in Transactions!OnDeal
      <4>1. request[r].op \notin Transactions!OnDeal  BY <2>2, <3>2 DEF DealInv, HoldInv
      <4>2. UNCHANGED deal  BY <3>1, <4>1 DEF Knows
      <4>3. request[q].op \notin OnMilestone
        BY <3>2 DEF Transactions!OnDeal, OnMilestone
      <4> QED  BY <3>1, <4>2, <4>3, <2>2 DEF Knows
    <3>3. CASE request[q].op \in OnMilestone
      <4>1. request[r].op \notin OnMilestone  BY <2>2, <3>3 DEF DealInv, HoldInv
      <4>2. Transactions!Holding(OnMilestone)  BY <2>2, <3>3 DEF Transactions!Holding
      <4>3. UNCHANGED milestone  BY <3>1, <4>1, <4>2 DEF Knows
      <4>4. request[q].op \notin Transactions!OnDeal
        BY <3>3 DEF Transactions!OnDeal, OnMilestone
      <4> QED  BY <3>1, <4>3, <4>4, <2>2 DEF Knows
    <3> QED  BY <2>2, <3>1, <3>2, <3>3 DEF Knows
  <2> QED  BY <2>1, <2>2
<1>3. ASSUME NEW ops \in {Transactions!OnDeal, OnMilestone}, NEW q \in Requests, NEW p \in Requests,
             request'[q] # Nothing, request'[q].op \in ops,
             request'[p] # Nothing, request'[p].op \in ops
      PROVE  q = p
  <2>1. request'[q] = request[q] /\ request'[p] = request[p]  BY <1>1, <1>3
  <2> QED  BY <1>3, <2>1 DEF DealInv, HoldInv
<1> QED  BY <1>1, <1>2, <1>3 DEF HoldInv, OnMilestone, Transactions!OnDeal

LEMMA BeginSteps ==
  ASSUME DealInv, NEW r \in Requests, Transactions!Begin(r)
  PROVE  DealInv'
<1>1. PICK op \in Transactions!OnDeal \cup OnMilestone :
        /\ Transactions!RowFree(op)
        /\ op \notin Transactions!OnDeal => milestone # Nothing
        /\ \E arg \in Transactions!Argument(op) :
             request' = [request EXCEPT ![r] = [op |-> op, arg |-> arg, deal |-> deal, row |-> milestone]]
  BY DEF Transactions!Begin, OnMilestone
<1>2. PICK arg \in Transactions!Argument(op) :
        request' = [request EXCEPT ![r] = [op |-> op, arg |-> arg, deal |-> deal, row |-> milestone]]
  BY <1>1
<1>3. UNCHANGED <<deal, milestone, closings, edited, reminded, pardoned>>
      /\ request[r] = Nothing /\ deal # Nothing
  BY DEF Transactions!Begin
<1> DEFINE new == [op |-> op, arg |-> arg, deal |-> deal, row |-> milestone]
<1>4. /\ request' = [q \in Requests |-> request'[q]]
      /\ request'[r] = new
      /\ \A q \in Requests \ {r} : request'[q] = request[q]
  BY <1>2 DEF DealInv, HoldInv
<1>5. new.op = op /\ new.arg = arg /\ new.deal = deal /\ new.row = milestone  OBVIOUS
<1> HIDE DEF new
<1>6. ASSUME NEW q \in Requests PROVE Knows(request[q])'
  <2>1. CASE q = r
    BY <1>1, <1>2, <1>3, <1>4, <1>5, <2>1 DEF Knows, OnMilestone, Transactions!OnDeal
  <2>2. CASE q # r  BY <1>3, <1>4, <2>2 DEF Knows, DealInv, HoldInv
  <2> QED  BY <2>1, <2>2
<1>7. ASSUME NEW ops \in {Transactions!OnDeal, OnMilestone}, op \in ops, NEW q \in Requests,
             request[q] # Nothing
      PROVE  request[q].op \notin ops
  <2>1. ~Transactions!Holding(ops)
    BY <1>1, <1>7 DEF Transactions!RowFree, OnMilestone, Transactions!OnDeal
  <2> QED  BY <1>7, <2>1 DEF Transactions!Holding
<1>8. ASSUME NEW ops \in {Transactions!OnDeal, OnMilestone}, NEW q \in Requests, NEW p \in Requests,
             request'[q] # Nothing, request'[q].op \in ops,
             request'[p] # Nothing, request'[p].op \in ops
      PROVE  q = p
  <2>1. CASE q = r /\ p # r  BY <1>4, <1>5, <1>7, <1>8, <2>1
  <2>2. CASE p = r /\ q # r  BY <1>4, <1>5, <1>7, <1>8, <2>2
  <2>3. CASE q # r /\ p # r  BY <1>4, <1>8, <2>3 DEF DealInv, HoldInv
  <2> QED  BY <2>1, <2>2, <2>3
<1>9. HoldInv'  BY <1>4, <1>6, <1>8 DEF HoldInv, OnMilestone, Transactions!OnDeal
<1> QED
  BY <1>3, <1>9 DEF DealInv, DealType, DealRow, MilestoneRow, ClosedInv, CommissionInv, StampInv

LEMMA OnDealSteps ==
  ASSUME DealInv, NEW r \in Requests, Transactions!Commit(r),
         request[r].op \in Transactions!OnDeal
  PROVE  DealInv'
<1>1. /\ request[r] # Nothing /\ deal # Nothing /\ deal \in DealRow
      /\ Transactions!End(r) /\ UNCHANGED reminded
  BY DEF Transactions!Commit, DealInv, DealType
<1>2. /\ request[r].arg \in Transactions!Argument(request[r].op)
      /\ request[r].deal = deal /\ request[r].op \notin OnMilestone
  BY <1>1 DEF DealInv, HoldInv, Knows, OnMilestone, Transactions!OnDeal
<1> USE DEF DealInv, DealType, ClosedInv, CommissionInv, StampInv
<1>3. CASE Transactions!UpdatePrice(r)
  <2>1. /\ deal' = [deal EXCEPT !.price = request[r].arg] /\ edited' = TRUE
        /\ UNCHANGED <<milestone, closings, pardoned>> /\ request[r].arg \in Prices
    BY <1>2, <1>3, Arguments DEF Transactions!UpdatePrice
  <2>2. deal' \in DealRow /\ deal'.status = deal.status  BY <1>1, <2>1 DEF DealRow
  <2>3. HoldInv'  BY <1>1, <1>2, <2>1, Ends
  <2> QED  BY <1>1, <2>1, <2>2, <2>3
<1>4. CASE Transactions!Transition(r)
  <2> DEFINE to == request[r].arg
             allowed == to \in Transactions!TRANSITIONS[deal.status]
  <2>1. /\ deal' = IF allowed THEN [deal EXCEPT !.status = to] ELSE deal
        /\ closings' = closings + IF allowed /\ to \in Transactions!CLOSED THEN 1 ELSE 0
        /\ UNCHANGED <<milestone, edited, pardoned>>
        /\ deal.status \in DOMAIN Transactions!TRANSITIONS
    BY <1>1, <1>2, <1>4 DEF Transactions!Transition, DealRow
  <2>2. HoldInv'  BY <1>1, <1>2, <2>1, Ends
  <2>3. CASE allowed
    <3>1. to \in DOMAIN Transactions!TRANSITIONS /\ deal.status \notin Transactions!CLOSED
      BY <2>1, <2>3, Moving
    <3>2. deal' = [deal EXCEPT !.status = to]  BY <2>1, <2>3
    <3> HIDE DEF to, allowed
    <3>3. /\ deal' \in DealRow /\ deal'.status = to
          /\ deal'.price = deal.price /\ deal'.commission = deal.commission
      BY <1>1, <3>1, <3>2 DEF DealRow
    <3>4. closings = 0  BY <1>1, <3>1
    <3>5. closings' = IF to \in Transactions!CLOSED THEN 1 ELSE 0
      BY <2>1, <2>3, <3>4
    <3> QED  BY <1>1, <2>1, <2>2, <3>3, <3>5
  <2>4. CASE ~allowed
    <3>1. deal' = deal /\ closings' = closings  BY <2>1, <2>4
    <3> QED  BY <1>1, <2>1, <2>2, <3>1
  <2> QED  BY <2>3, <2>4
<1>5. CASE Transactions!SetCommission(r)
  <2>1. /\ deal' = [deal EXCEPT !.commission = deal.price] /\ edited' = FALSE
        /\ UNCHANGED <<milestone, closings, pardoned>>
    BY <1>2, <1>5 DEF Transactions!SetCommission
  <2>2. /\ deal' \in DealRow /\ deal'.status = deal.status
        /\ deal'.commission = deal'.price
    BY <1>1, <2>1 DEF DealRow
  <2>3. HoldInv'  BY <1>1, <1>2, <2>1, Ends
  <2> QED  BY <1>1, <2>1, <2>2, <2>3
<1>6. CASE Transactions!DeleteDeal(r)
  <2>1. /\ ~Transactions!Holding(OnMilestone) /\ deal' = Nothing /\ milestone' = Nothing
        /\ UNCHANGED <<closings, edited, pardoned>>
    BY <1>6 DEF Transactions!DeleteDeal, OnMilestone
  <2>2. HoldInv'  BY <1>1, <1>2, <2>1, Ends
  <2> QED  BY <1>1, <2>1, <2>2
<1>7. request[r].op \notin {"milestone", "delete_milestone"}  BY <1>2 DEF OnMilestone
<1> QED
  BY <1>3, <1>4, <1>5, <1>6, <1>7
  DEF Transactions!Commit, Transactions!UpdateMilestone, Transactions!DeleteMilestone

(* What a patch does to an open milestone and to one that is done.            *)
LEMMA Patching ==
  ASSUME NEW old \in MilestoneRow,
         NEW patch \in [due : Days \cup {Nothing}, done : BOOLEAN \cup {Nothing}]
  PROVE  LET new == Transactions!Patched(old, patch) IN
         /\ new \in MilestoneRow
         /\ new.stamp => old.stamp
         /\ new.stamp /\ new.due # old.due => new.done
<1> DEFINE old1 == IF patch.done # Nothing THEN [old EXCEPT !.done = patch.done] ELSE old
           new == Transactions!Patched(old, patch)
<1>1. old1 \in MilestoneRow /\ old1.stamp = old.stamp /\ old1.due = old.due
  BY DEF MilestoneRow
<1>2. new = IF patch.due = Nothing THEN old1
            ELSE [old1 EXCEPT !.due = patch.due, !.stamp = IF old1.done THEN @ ELSE FALSE]
  BY DEF Transactions!Patched
<1> HIDE DEF old1, new
<1>3. CASE patch.due = Nothing  BY <1>1, <1>2, <1>3 DEF new
<1>4. CASE patch.due # Nothing
  <2>1. patch.due \in Days /\ old1.stamp \in BOOLEAN /\ old1.done \in BOOLEAN
    BY <1>1, <1>4 DEF MilestoneRow
  <2>2. CASE old1.done
    <3>1. new = [old1 EXCEPT !.due = patch.due, !.stamp = old1.stamp]  BY <1>2, <1>4, <2>2
    <3> QED  BY <1>1, <2>1, <2>2, <3>1 DEF MilestoneRow, new
  <2>3. CASE ~old1.done
    <3>1. new = [old1 EXCEPT !.due = patch.due, !.stamp = FALSE]  BY <1>2, <1>4, <2>3
    <3> QED  BY <1>1, <2>1, <3>1 DEF MilestoneRow, new
  <2> QED  BY <2>2, <2>3
<1> QED  BY <1>3, <1>4

LEMMA OnMilestoneSteps ==
  ASSUME DealInv, NEW r \in Requests, Transactions!Commit(r),
         request[r].op \in OnMilestone
  PROVE  DealInv'
<1>1. /\ request[r] # Nothing /\ Transactions!End(r) /\ UNCHANGED reminded
  BY DEF Transactions!Commit
<1>2. /\ request[r].arg \in Transactions!Argument(request[r].op)
      /\ request[r].row = milestone /\ milestone # Nothing /\ milestone \in MilestoneRow
      /\ request[r].op \notin Transactions!OnDeal
  BY <1>1 DEF DealInv, DealType, HoldInv, Knows, OnMilestone, Transactions!OnDeal
<1>3. CASE Transactions!UpdateMilestone(r)
  <2>1. /\ milestone' = Transactions!Patched(milestone, request[r].arg)
        /\ pardoned' = (/\ milestone'.stamp
                        /\ \/ pardoned
                           \/ milestone'.done /\ milestone'.due # milestone.due)
        /\ UNCHANGED <<deal, closings, edited>>
        /\ request[r].arg \in [due : Days \cup {Nothing}, done : BOOLEAN \cup {Nothing}]
    BY <1>2, <1>3, Arguments DEF Transactions!UpdateMilestone
  <2>2. /\ milestone' \in MilestoneRow
        /\ milestone'.stamp => milestone.stamp
        /\ milestone'.stamp /\ milestone'.due # milestone.due => milestone'.done
    BY <1>2, <2>1, Patching
  <2>3. StampInv'
    <3> SUFFICES ASSUME milestone'.stamp PROVE milestone'.due \in reminded' \/ pardoned'
      BY DEF StampInv
    <3>1. milestone.due \in reminded \/ pardoned
      BY <1>2, <2>2 DEF DealInv, StampInv
    <3>2. CASE milestone'.due # milestone.due  BY <2>1, <2>2, <3>2
    <3>3. CASE milestone'.due = milestone.due  BY <1>1, <2>1, <3>1, <3>3
    <3> QED  BY <3>2, <3>3
  <2>4. HoldInv'  BY <1>1, <1>2, <2>1, Ends
  <2> QED
    BY <2>1, <2>2, <2>3, <2>4 DEF DealInv, DealType, DealRow, ClosedInv, CommissionInv
<1>4. CASE Transactions!DeleteMilestone(r)
  <2>1. milestone' = Nothing /\ UNCHANGED <<deal, closings, edited>>
    BY <1>4 DEF Transactions!DeleteMilestone
  <2>2. HoldInv'  BY <1>1, <1>2, <2>1, Ends
  <2> QED
    BY <2>1, <2>2 DEF DealInv, DealType, DealRow, ClosedInv, CommissionInv, StampInv
<1>5. request[r].op \notin {"price", "transition", "commission", "delete"}
  BY <1>2 DEF Transactions!OnDeal
<1> QED
  BY <1>3, <1>4, <1>5
  DEF Transactions!Commit, Transactions!UpdatePrice, Transactions!Transition,
      Transactions!SetCommission, Transactions!DeleteDeal

LEMMA SweepSteps ==
  ASSUME DealInv, NEW s \in Sweeps, Transactions!CommitSweep(s)
  PROVE  DealInv'
<1>1. /\ milestone # Nothing /\ milestone \in MilestoneRow
      /\ milestone' = [milestone EXCEPT !.stamp = TRUE]
      /\ reminded' = reminded \cup {sweep[s].due}
      /\ pardoned' = (pardoned \/ milestone.due # sweep[s].due)
      /\ UNCHANGED <<deal, request, closings, edited>>
  BY DEF Transactions!CommitSweep, DealInv, DealType
<1>2. milestone' \in MilestoneRow /\ milestone'.due = milestone.due
  BY <1>1 DEF MilestoneRow
<1>3. \A r \in Requests : request[r] # Nothing => request[r].op \notin OnMilestone
  BY DEF Transactions!CommitSweep, Transactions!Holding, OnMilestone
<1>4. HoldInv'
  BY <1>1, <1>3 DEF DealInv, HoldInv, Knows
<1>5. StampInv'
  <2>1. CASE milestone.due # sweep[s].due
    <3>1. pardoned'  BY <1>1, <2>1
    <3> QED  BY <3>1 DEF StampInv
  <2>2. CASE milestone.due = sweep[s].due
    <3>1. milestone'.due \in reminded'  BY <1>1, <1>2, <2>2
    <3> QED  BY <3>1 DEF StampInv
  <2> QED  BY <2>1, <2>2
<1> QED
  BY <1>1, <1>2, <1>4, <1>5 DEF DealInv, DealType, DealRow, ClosedInv, CommissionInv

LEMMA DealStep == DealInv /\ [Transactions!Next]_Transactions!dealVars => DealInv'
<1> SUFFICES ASSUME DealInv, [Transactions!Next]_Transactions!dealVars PROVE DealInv'
  OBVIOUS
<1>1. ASSUME NEW r \in Requests, Transactions!Commit(r) PROVE DealInv'
  <2>1. request[r].op \in Transactions!OnDeal \cup OnMilestone
    BY <1>1 DEF Transactions!Commit, DealInv, HoldInv, Knows
  <2> QED  BY <1>1, <2>1, OnDealSteps, OnMilestoneSteps
<1>2. ASSUME NEW r \in Requests, Transactions!Rollback(r) PROVE DealInv'
  <2>1. /\ request[r] # Nothing /\ Transactions!End(r)
        /\ UNCHANGED <<deal, milestone, closings, edited, reminded, pardoned>>
    BY <1>2 DEF Transactions!Rollback
  <2>2. HoldInv'  BY <2>1, Ends
  <2> QED
    BY <2>1, <2>2 DEF DealInv, DealType, DealRow, MilestoneRow, ClosedInv, CommissionInv, StampInv
<1>3. ASSUME \/ \E s \in Sweeps : Transactions!BeginSweep(s) \/ Transactions!FailSweep(s)
             \/ Transactions!NextDay
             \/ UNCHANGED Transactions!dealVars
      PROVE  DealInv'
  <2>1. UNCHANGED <<deal, milestone, request, closings, edited, reminded, pardoned>>
    BY <1>3 DEF Transactions!BeginSweep, Transactions!FailSweep, Transactions!NextDay,
                Transactions!dealVars
  <2> QED
    BY <2>1 DEF DealInv, DealType, DealRow, MilestoneRow, HoldInv, Knows,
                ClosedInv, CommissionInv, StampInv
<1> QED  BY <1>1, <1>2, <1>3, BeginSteps, SweepSteps DEF Transactions!Next

(* A percentage commission is computed on the price the deal has, unless the  *)
(* price was edited after it; a deal is closed, with its event, once; and the *)
(* stamp on an open milestone stands for the date its owner was reminded of,  *)
(* unless that was moved under a sweep or while the milestone was done        *)
(* (modules/transactions/service.py, workers/tasks/transactions.py).          *)
THEOREM DealsSettled ==
  ASSUME DealAssumption
  PROVE  Transactions!Spec => []DealsAreSettled
<1>1. Transactions!Init => DealInv
  <2> SUFFICES ASSUME Transactions!Init PROVE DealInv  OBVIOUS
  <2> DEFINE price == CHOOSE p \in Prices : TRUE
             due == CHOOSE d \in Days : \A e \in Days : d <= e
  <2>1. price \in Prices /\ due \in Days  BY DEF DealAssumption
  <2>2. /\ deal = [status |-> "open", price |-> price, commission |-> Nothing]
        /\ milestone = [due |-> due, done |-> FALSE, stamp |-> FALSE]
        /\ request = [r \in Requests |-> Nothing] /\ closings = 0
    BY DEF Transactions!Init
  <2> HIDE DEF price, due
  <2>3. DealType  BY <2>1, <2>2, Moving DEF DealType, DealRow, MilestoneRow
  <2>4. HoldInv  BY <2>2 DEF HoldInv, Knows
  <2> QED  BY <2>2, <2>3, <2>4 DEF DealInv, ClosedInv, CommissionInv, StampInv
<1>2. DealInv => DealsAreSettled
  BY DEF DealInv, DealType, CommissionInv, StampInv, DealsAreSettled, Transactions!DealsAreSettled,
         Transactions!MoneyIsSettled, Transactions!StampCoversDate
<1> QED  BY <1>1, <1>2, DealStep, PTL DEF Transactions!Spec

-----------------------------------------------------------------------------
(* Alerts.  Under "daily" the watermark and the digests under way are behind   *)
(* every listing that is neither mailed nor set apart; under "instant" such a  *)
(* listing has its task.  What has been mailed once is behind the watermark or *)
(* in a digest under way, and under "instant" has no task left.               *)

Underway == [now : Nat, mailed : (SUBSET Listings) \cup {Nothing}]
AlertAssumption ==
  Nothing \notin Nat /\ Nothing \notin SUBSET Listings /\ Nothing \notin Underway

Watermark == [active : BOOLEAN, frequency : {"instant", "daily"}, ran : Nat]
AlertType ==
  /\ now \in Nat
  /\ published \in [Listings -> Nat \cup {Nothing}]
  /\ visible \subseteq Listings /\ matches \subseteq visible /\ begun \subseteq matches
  /\ search \in Watermark
  /\ digest \in [Digests -> Underway \cup {Nothing}]
  /\ mails \in [Listings -> Nat]
ClockInv ==
  /\ search.ran < now
  /\ \A l \in Listings : published[l] # Nothing => published[l] < now
  /\ \A d \in Digests : digest[d] # Nothing => digest[d].now < now
Seen(l) == published[l] # Nothing /\ l \notin missed /\ mails[l] = 0
Mailing(d) == digest[d] # Nothing /\ digest[d].mailed # Nothing
Mailed(l) ==
  \/ published[l] <= search.ran
  \/ \E d \in Digests : Mailing(d) /\ l \in digest[d].mailed
PendingInv ==
  \A l \in Listings :
    /\ l \in visible => published[l] # Nothing
    /\ Seen(l) /\ search.frequency = "daily" =>
         /\ published[l] > search.ran
         /\ \A d \in Digests : Mailing(d) => published[l] > digest[d].now
    /\ Seen(l) /\ search.frequency = "instant" /\ l \in visible => l \in matches
OnceInv ==
  \A l \in Listings :
    /\ mails[l] > 0 => l \in visible
    /\ l \notin again => mails[l] <= 1
    /\ l \notin again /\ mails[l] > 0 =>
         Mailed(l) /\ (search.frequency = "instant" => l \notin matches)
AlertInv == AlertType /\ ClockInv /\ PendingInv /\ OnceInv

(* A publish, its commit and its task.                                       *)
LEMMA MatchSteps ==
  ASSUME AlertAssumption, AlertInv, NEW l \in Listings,
         \/ Favorites!Publish(l) \/ Favorites!CommitPublish(l) \/ Favorites!BeginMatch(l)
         \/ Favorites!Match(l) \/ Favorites!MatchAgain(l) \/ Favorites!FailMatch(l)
  PROVE  AlertInv'
<1> USE DEF AlertInv
<1>1. CASE Favorites!Publish(l)
  <2>1. /\ published[l] = Nothing /\ now' = now + 1 /\ published' = [published EXCEPT ![l] = now]
        /\ UNCHANGED <<visible, search, matches, begun, digest, mails, missed, again>>
    BY <1>1 DEF Favorites!Publish, Favorites!Clock
  <2>2. AlertType'  BY <2>1 DEF AlertType
  <2>3. published'[l] = now /\ \A k \in Listings \ {l} : published'[k] = published[k]
    BY <2>1 DEF AlertType
  <2>4. now \in Nat /\ search.ran \in Nat /\ \A d \in Digests : digest[d] # Nothing => digest[d].now \in Nat
    BY DEF AlertType, Watermark, Underway
  <2>5. ClockInv'
    <3>1. \A k \in Listings : published'[k] # Nothing => published'[k] < now'
      BY <2>1, <2>2, <2>3, <2>4 DEF ClockInv, AlertType
    <3>2. search'.ran < now'  BY <2>1, <2>4 DEF ClockInv
    <3>3. \A d \in Digests : digest'[d] # Nothing => digest'[d].now < now'
      BY <2>1, <2>4 DEF ClockInv
    <3> QED  BY <3>1, <3>2, <3>3 DEF ClockInv
  <2>6. l \notin visible /\ mails[l] = 0
    BY <2>1 DEF PendingInv, OnceInv, AlertType
  <2>7. PendingInv'
    <3>1. \A k \in Listings \ {l} : Seen(k)' <=> Seen(k)  BY <2>1, <2>3 DEF Seen
    <3>2. now > search.ran /\ \A d \in Digests : Mailing(d) => now > digest[d].now
      BY <2>4 DEF ClockInv, Mailing
    <3>3. \A d \in Digests : Mailing(d)' <=> Mailing(d)  BY <2>1 DEF Mailing
    <3> QED  BY <2>1, <2>3, <2>6, <3>1, <3>2, <3>3 DEF PendingInv
  <2>8. OnceInv'
    <3>1. \A k \in Listings \ {l} : Mailed(k)' <=> Mailed(k)
      BY <2>1, <2>3 DEF Mailed, Mailing
    <3> QED  BY <2>1, <2>6, <3>1 DEF OnceInv
  <2> QED  BY <2>2, <2>5, <2>7, <2>8
<1>2. CASE Favorites!CommitPublish(l)
  <2>1. /\ published[l] # Nothing /\ l \notin visible /\ visible' = visible \cup {l}
        /\ UNCHANGED <<now, published, search, begun, digest, mails, again>>
        /\ \/ matches' = matches \cup {l} /\ missed' = missed
           \/ missed' = missed \cup {l} /\ matches' = matches
    BY <1>2 DEF Favorites!CommitPublish
  <2>2. AlertType' /\ ClockInv'  BY <2>1 DEF AlertType, ClockInv
  <2>3. PendingInv'
    <3>1. \A k \in Listings : Seen(k)' => Seen(k) /\ (k # l \/ l \in matches')
      BY <2>1 DEF Seen
    <3>2. \A d \in Digests : Mailing(d)' <=> Mailing(d)  BY <2>1 DEF Mailing
    <3>3. \A k \in Listings \ {l} : k \in matches' <=> k \in matches  BY <2>1
    <3> QED  BY <2>1, <3>1, <3>2, <3>3 DEF PendingInv
  <2>4. OnceInv'
    <3>1. mails[l] = 0  BY <2>1 DEF OnceInv, AlertType
    <3>2. \A k \in Listings : Mailed(k)' <=> Mailed(k)  BY <2>1 DEF Mailed, Mailing
    <3>3. \A k \in Listings \ {l} : k \in matches' <=> k \in matches  BY <2>1
    <3> QED  BY <2>1, <3>1, <3>2, <3>3 DEF OnceInv
  <2> QED  BY <2>2, <2>3, <2>4
<1>3. CASE Favorites!Match(l)
  <2>1. /\ l \in matches /\ matches' = matches \ {l} /\ begun' = begun \ {l}
        /\ UNCHANGED <<published, visible, digest, again>>
    BY <1>3 DEF Favorites!Match, Favorites!Leaves, AlertType
  <2>2. CASE Favorites!Instant /\ reachable
    <3>1. /\ search.frequency = "instant" /\ now' = now + 1 /\ missed' = missed
          /\ mails' = [k \in Listings |-> IF k \in {l} THEN mails[k] + 1 ELSE mails[k]]
          /\ search' = [search EXCEPT !.ran = now]
      BY <1>3, <2>2 DEF Favorites!Match, Favorites!Instant, Favorites!Clock, Favorites!Mailed
    <3>2. /\ search' \in Watermark /\ search'.ran = now /\ search'.frequency = "instant"
          /\ now \in Nat
      BY <3>1 DEF AlertType, Watermark
    <3>3. AlertType'  BY <2>1, <3>1, <3>2 DEF AlertType
    <3>4. ClockInv'
      <4>1. \A d \in Digests : digest[d] # Nothing => digest[d].now \in Nat
        BY DEF AlertType, Underway
      <4>2. \A k \in Listings : published[k] # Nothing => published[k] \in Nat
        BY DEF AlertType
      <4> QED  BY <2>1, <3>1, <3>2, <4>1, <4>2 DEF ClockInv
    <3>5. /\ mails'[l] = mails[l] + 1 /\ \A k \in Listings \ {l} : mails'[k] = mails[k]
          /\ mails[l] \in Nat
      BY <3>1 DEF AlertType
    <3>6. \A k \in Listings : Seen(k)' => Seen(k) /\ k # l  BY <2>1, <3>1, <3>5 DEF Seen
    <3>7. PendingInv'  BY <2>1, <3>1, <3>2, <3>6 DEF PendingInv
    <3>8. OnceInv'
      <4>1. \A k \in Listings : k \in visible => Mailed(k)'
        <5>1. \A k \in visible : published[k] # Nothing /\ published[k] < now /\ published[k] \in Nat
          BY DEF PendingInv, ClockInv, AlertType
        <5> QED  BY <2>1, <3>2, <5>1 DEF Mailed
      <4>2. l \in visible  BY <2>1 DEF AlertType
      <4>3. l \notin again => mails[l] = 0
        BY <2>1, <3>1, <3>5 DEF OnceInv
      <4> QED  BY <2>1, <3>1, <3>2, <3>5, <4>1, <4>2, <4>3 DEF OnceInv
    <3> QED  BY <3>3, <3>4, <3>7, <3>8
  <2>3. CASE ~(Favorites!Instant /\ reachable)
    <3>1. /\ missed' = missed \cup (IF search.frequency = "instant" THEN {l} ELSE {})
          /\ UNCHANGED <<now, mails, search>>
      BY <1>3, <2>3 DEF Favorites!Match, Favorites!PassOver
    <3>2. AlertType' /\ ClockInv'  BY <2>1, <3>1 DEF AlertType, ClockInv
    <3>3. \A k \in Listings : Seen(k)' => Seen(k) /\ (search.frequency = "instant" => k # l)
      BY <2>1, <3>1 DEF Seen
    <3>4. \A d \in Digests : Mailing(d)' <=> Mailing(d)  BY <2>1 DEF Mailing
    <3>5. PendingInv'  BY <2>1, <3>1, <3>3, <3>4 DEF PendingInv
    <3>6. \A k \in Listings : Mailed(k)' <=> Mailed(k)  BY <2>1, <3>1 DEF Mailed, Mailing
    <3>7. OnceInv'  BY <2>1, <3>1, <3>6 DEF OnceInv
    <3> QED  BY <3>2, <3>5, <3>7
  <2> QED  BY <2>2, <2>3
<1>4. CASE Favorites!MatchAgain(l)
  <2>1. /\ l \in matches /\ search.frequency = "instant" /\ now' = now + 1
        /\ mails' = [k \in Listings |-> IF k \in {l} THEN mails[k] + 1 ELSE mails[k]]
        /\ again' = again \cup {l}
        /\ UNCHANGED <<published, visible, digest, missed>>
        /\ search' = search \/ search' = [search EXCEPT !.ran = now]
        /\ begun' = begun \ {l} /\ (matches' = matches \/ matches' = matches \ {l})
    BY <1>4 DEF Favorites!MatchAgain, Favorites!Instant, Favorites!Clock, Favorites!Mailed, AlertType
  <2>2. /\ search' \in Watermark /\ search'.ran \in {search.ran, now}
        /\ search'.frequency = "instant" /\ now \in Nat /\ search.ran \in Nat
    BY <2>1 DEF AlertType, Watermark
  <2>3. AlertType'
    <3>1. matches' \subseteq visible' /\ begun' \subseteq matches'  BY <2>1 DEF AlertType
    <3> QED  BY <2>1, <2>2, <3>1 DEF AlertType
  <2>4. ClockInv'
    <3>1. \A d \in Digests : digest[d] # Nothing => digest[d].now \in Nat
      BY DEF AlertType, Underway
    <3>2. \A k \in Listings : published[k] # Nothing => published[k] \in Nat
      BY DEF AlertType
    <3> QED  BY <2>1, <2>2, <3>1, <3>2 DEF ClockInv
  <2>5. /\ mails'[l] = mails[l] + 1 /\ \A k \in Listings \ {l} : mails'[k] = mails[k]
        /\ mails[l] \in Nat
    BY <2>1 DEF AlertType
  <2>6. \A k \in Listings : Seen(k)' => Seen(k) /\ k # l  BY <2>1, <2>5 DEF Seen
  <2>7. PendingInv'
    <3>1. \A k \in Listings \ {l} : k \in matches' <=> k \in matches  BY <2>1
    <3> QED  BY <2>1, <2>2, <2>6, <3>1 DEF PendingInv
  <2>8. OnceInv'
    <3>1. \A k \in Listings : k \in visible /\ Mailed(k) => Mailed(k)'
      <4>1. \A k \in visible : published[k] < now /\ published[k] \in Nat
        BY DEF PendingInv, ClockInv, AlertType
      <4>2. \A d \in Digests : Mailing(d)' <=> Mailing(d)  BY <2>1 DEF Mailing
      <4>3. \A k \in visible : published[k] <= search.ran => published[k] <= search'.ran
        BY <2>2, <4>1
      <4> QED  BY <2>1, <4>2, <4>3 DEF Mailed
    <3>2. l \in visible  BY <2>1 DEF AlertType
    <3>3. \A k \in Listings \ {l} : k \in matches' <=> k \in matches  BY <2>1
    <3> QED  BY <2>1, <2>2, <2>5, <3>1, <3>2, <3>3 DEF OnceInv
  <2> QED  BY <2>3, <2>4, <2>7, <2>8
<1>5. CASE Favorites!BeginMatch(l) \/ Favorites!FailMatch(l)
  <2>1. /\ UNCHANGED <<now, published, visible, search, digest, mails, again>>
        /\ begun' \subseteq matches' /\ matches' \subseteq matches /\ missed \subseteq missed'
        /\ \A k \in matches \ matches' : search.frequency = "instant" => k \in missed'
    BY <1>5 DEF Favorites!BeginMatch, Favorites!FailMatch, Favorites!Leaves, Favorites!PassOver, AlertType
  <2>2. AlertType' /\ ClockInv'  BY <2>1 DEF AlertType, ClockInv
  <2>3. \A k \in Listings : Seen(k)' => Seen(k) /\ k \notin missed'  BY <2>1 DEF Seen
  <2>4. \A d \in Digests : Mailing(d)' <=> Mailing(d)  BY <2>1 DEF Mailing
  <2>5. PendingInv'  BY <2>1, <2>3, <2>4 DEF PendingInv
  <2>6. \A k \in Listings : Mailed(k)' <=> Mailed(k)  BY <2>1 DEF Mailed, Mailing
  <2>7. OnceInv'  BY <2>1, <2>6 DEF OnceInv
  <2> QED  BY <2>2, <2>5, <2>7
<1> QED  BY <1>1, <1>2, <1>3, <1>4, <1>5

(* A digest.                                                                 *)
LEMMA DigestSteps ==
  ASSUME AlertAssumption, AlertInv, NEW d \in Digests,
         \/ Favorites!StartDigest(d) \/ Favorites!RunDigest(d)
         \/ Favorites!CommitDigest(d) \/ Favorites!FailDigest(d)
  PROVE  AlertInv'
<1> USE DEF AlertInv
<1>1. CASE Favorites!StartDigest(d)
  <2> DEFINE begins == [now |-> now, mailed |-> Nothing]
  <2>1. /\ digest[d] = Nothing /\ now' = now + 1 /\ digest' = [digest EXCEPT ![d] = begins]
        /\ UNCHANGED <<published, visible, search, matches, begun, mails, missed, again>>
    BY <1>1 DEF Favorites!StartDigest, Favorites!Clock
  <2>2. begins \in Underway /\ begins.mailed = Nothing /\ begins.now = now /\ now \in Nat
    <3>1. now \in Nat  BY DEF AlertType
    <3> QED  BY <3>1 DEF Underway
  <2> HIDE DEF begins
  <2>3. digest'[d] = begins /\ \A e \in Digests \ {d} : digest'[e] = digest[e]
    BY <2>1 DEF AlertType
  <2>4. AlertType'  BY <2>1, <2>2 DEF AlertType
  <2>5. ClockInv'
    <3>1. search.ran \in Nat /\ \A l \in Listings : published[l] # Nothing => published[l] \in Nat
      BY DEF AlertType, Watermark
    <3>2. \A e \in Digests : digest[e] # Nothing => digest[e].now \in Nat
      BY DEF AlertType, Underway
    <3> QED  BY <2>1, <2>2, <2>3, <3>1, <3>2 DEF ClockInv
  <2>6. \A e \in Digests : /\ Mailing(e)' <=> Mailing(e)
                           /\ Mailing(e) => digest'[e] = digest[e]
    BY <2>1, <2>2, <2>3 DEF Mailing
  <2>7. \A l \in Listings : /\ Seen(l)' <=> Seen(l)
                            /\ Mailed(l)' <=> Mailed(l)
    BY <2>1, <2>6 DEF Seen, Mailed
  <2>8. PendingInv'  BY <2>1, <2>6, <2>7 DEF PendingInv
  <2>9. OnceInv'  BY <2>1, <2>7 DEF OnceInv
  <2> QED  BY <2>4, <2>5, <2>8, <2>9
<1>2. CASE Favorites!RunDigest(d)
  <2>1. /\ digest[d] # Nothing /\ digest[d].mailed = Nothing
        /\ UNCHANGED <<now, published, visible, search, matches, begun>>
    BY <1>2 DEF Favorites!RunDigest
  <2>2. CASE ~(search.active /\ search.frequency = "daily")
    <3>1. digest' = [digest EXCEPT ![d] = Nothing] /\ UNCHANGED <<mails, missed, again>>
      BY <1>2, <2>2 DEF Favorites!RunDigest
    <3>2. digest'[d] = Nothing /\ \A e \in Digests \ {d} : digest'[e] = digest[e]
      BY <3>1 DEF AlertType
    <3>3. AlertType' /\ ClockInv'  BY <2>1, <3>1, <3>2 DEF AlertType, ClockInv
    <3>4. \A e \in Digests : /\ Mailing(e)' <=> Mailing(e)
                             /\ Mailing(e) => digest'[e] = digest[e]
      BY <2>1, <3>2 DEF Mailing
    <3>5. \A l \in Listings : /\ Seen(l)' <=> Seen(l)
                              /\ Mailed(l)' <=> Mailed(l)
      BY <2>1, <3>1, <3>4 DEF Seen, Mailed
    <3>6. PendingInv'  BY <2>1, <3>4, <3>5 DEF PendingInv
    <3>7. OnceInv'  BY <2>1, <3>1, <3>5 DEF OnceInv
    <3> QED  BY <3>3, <3>6, <3>7
  <2>3. CASE search.active /\ search.frequency = "daily"
    <3>1. PICK sent \in SUBSET Favorites!SinceWatermark :
            /\ Favorites!Mailed(sent)
            /\ digest' = [digest EXCEPT ![d].mailed = sent]
            /\ missed' = missed \cup (Favorites!SinceWatermark \ sent)
                 \cup {l \in Listings \ visible : published[l] # Nothing}
            /\ again' = again \cup {l \in sent : \E e \in Digests \ {d} :
                                       digest[e] # Nothing /\ digest[e].mailed # Nothing}
      BY <1>2, <2>3 DEF Favorites!RunDigest
    <3>2. /\ Favorites!SinceWatermark = {l \in visible : published[l] > search.ran}
          /\ sent \subseteq visible /\ sent \subseteq Listings
      BY <3>1 DEF Favorites!SinceWatermark, AlertType
    <3>3. mails' = [l \in Listings |-> IF l \in sent THEN mails[l] + 1 ELSE mails[l]]
      BY <3>1 DEF Favorites!Mailed
    <3>4. digest[d] \in Underway  BY <2>1 DEF AlertType
    <3>5. /\ digest'[d] \in Underway /\ digest'[d].now = digest[d].now /\ digest'[d].mailed = sent
          /\ \A e \in Digests \ {d} : digest'[e] = digest[e]
          /\ digest' \in [Digests -> Underway \cup {Nothing}]
      <4> DEFINE ran == [digest[d] EXCEPT !.mailed = sent]
      <4>1. ran \in Underway /\ ran.now = digest[d].now /\ ran.mailed = sent
        BY <3>2, <3>4 DEF Underway
      <4>2. digest' = [digest EXCEPT ![d] = ran]  BY <3>1 DEF AlertType
      <4> HIDE DEF ran
      <4> QED  BY <4>1, <4>2 DEF AlertType
    <3>6. \A l \in Listings : mails[l] \in Nat /\ mails'[l] = IF l \in sent THEN mails[l] + 1 ELSE mails[l]
      BY <3>3 DEF AlertType
    <3>7. AlertType'  BY <2>1, <3>3, <3>5, <3>6 DEF AlertType
    <3>8. ClockInv'  BY <2>1, <3>5 DEF ClockInv
    <3>9. Mailing(d)' /\ ~Mailing(d)
      BY <2>1, <3>2, <3>5 DEF Mailing, AlertAssumption
    <3>10. \A e \in Digests \ {d} : (Mailing(e)' <=> Mailing(e)) /\ digest'[e] = digest[e]
      BY <3>5 DEF Mailing
    <3>11. \A l \in Listings : ~Seen(l)'
      <4> SUFFICES ASSUME NEW l \in Listings, Seen(l)' PROVE FALSE
        OBVIOUS
      <4>1. published[l] # Nothing /\ l \notin missed' /\ mails'[l] = 0
        BY <2>1 DEF Seen
      <4>2. l \notin sent /\ mails[l] = 0  BY <3>6, <4>1
      <4>3. l \notin missed /\ l \in visible /\ ~(published[l] > search.ran)
        BY <3>1, <3>2, <4>1, <4>2
      <4>4. Seen(l)  BY <4>1, <4>2, <4>3 DEF Seen
      <4> QED  BY <2>3, <4>3, <4>4 DEF PendingInv
    <3>12. PendingInv'  BY <2>1, <3>11 DEF PendingInv
    <3>13. OnceInv'
      <4> SUFFICES ASSUME NEW l \in Listings
                   PROVE  /\ mails'[l] > 0 => l \in visible
                          /\ l \notin again' => mails'[l] <= 1
                          /\ l \notin again' /\ mails'[l] > 0 => Mailed(l)'
        BY <2>1, <2>3 DEF OnceInv
      <4>1. CASE l \in sent
        <5>1. Mailed(l)'  BY <3>5, <3>9, <4>1 DEF Mailed
        <5>2. l \notin again' => mails[l] = 0
          <6> SUFFICES ASSUME l \notin again', mails[l] # 0 PROVE FALSE
            OBVIOUS
          <6>1. l \notin again /\ mails[l] > 0  BY <3>1, <3>6
          <6>2. Mailed(l) /\ published[l] > search.ran  BY <3>1, <3>2, <4>1, <6>1 DEF OnceInv
          <6>3. published[l] \in Nat /\ search.ran \in Nat
            BY <3>2, <4>1 DEF PendingInv, AlertType, Watermark
          <6>4. PICK e \in Digests : Mailing(e) /\ l \in digest[e].mailed
            BY <6>2, <6>3 DEF Mailed
          <6>5. e # d  BY <3>9, <6>4
          <6> QED  BY <3>1, <4>1, <6>4, <6>5 DEF Mailing
        <5> QED  BY <3>2, <3>6, <4>1, <5>1, <5>2
      <4>2. CASE l \notin sent
        <5>1. mails'[l] = mails[l] /\ (l \in again => l \in again')  BY <3>1, <3>6, <4>2
        <5>2. Mailed(l) => Mailed(l)'
          <6>1. published[l] <= search.ran => Mailed(l)'  BY <2>1 DEF Mailed
          <6>2. ASSUME NEW e \in Digests, Mailing(e), l \in digest[e].mailed PROVE Mailed(l)'
            <7>1. e # d  BY <3>9, <6>2
            <7> QED  BY <3>10, <6>2, <7>1 DEF Mailed
          <6> QED  BY <6>1, <6>2 DEF Mailed
        <5> QED  BY <5>1, <5>2 DEF OnceInv
      <4> QED  BY <4>1, <4>2
    <3> QED  BY <3>7, <3>8, <3>12, <3>13
  <2> QED  BY <2>2, <2>3
<1>3. CASE Favorites!CommitDigest(d)
  <2>1. /\ Mailing(d)
        /\ again' = again \cup {l \in Listings : mails[l] > 0 /\ published[l] > digest[d].now}
        /\ search' = [search EXCEPT !.ran = digest[d].now]
        /\ digest' = [digest EXCEPT ![d] = Nothing]
        /\ UNCHANGED <<now, published, visible, matches, begun, mails, missed>>
    BY <1>3 DEF Favorites!CommitDigest, Mailing
  <2>2. digest[d] # Nothing /\ digest[d].now \in Nat  BY <2>1 DEF Mailing, AlertType, Underway
  <2>3. /\ search' \in Watermark /\ search'.ran = digest[d].now
        /\ search'.frequency = search.frequency
    BY <2>1, <2>2 DEF AlertType, Watermark
  <2>4. digest'[d] = Nothing /\ \A e \in Digests \ {d} : digest'[e] = digest[e]
    BY <2>1 DEF AlertType
  <2>5. AlertType'  BY <2>1, <2>3 DEF AlertType
  <2>6. ClockInv'  BY <2>1, <2>2, <2>3, <2>4 DEF ClockInv
  <2>7. \A e \in Digests : Mailing(e)' => Mailing(e) /\ digest'[e] = digest[e]
    BY <2>4 DEF Mailing
  <2>8. \A l \in Listings : Seen(l)' <=> Seen(l)  BY <2>1 DEF Seen
  <2>9. PendingInv'  BY <2>1, <2>3, <2>7, <2>8 DEF PendingInv
  <2>10. \A l \in Listings : l \notin again' /\ mails[l] > 0 => Mailed(l)'
    <3>1. \A l \in Listings : mails[l] > 0 => published[l] \in Nat
      BY DEF OnceInv, PendingInv, AlertType
    <3> QED  BY <2>1, <2>2, <2>3, <3>1 DEF Mailed
  <2>11. OnceInv'  BY <2>1, <2>3, <2>10 DEF OnceInv
  <2> QED  BY <2>5, <2>6, <2>9, <2>11
<1>4. CASE Favorites!FailDigest(d)
  <2>1. /\ again \subseteq again' /\ (Mailing(d) => digest[d].mailed \subseteq again')
        /\ digest' = [digest EXCEPT ![d] = Nothing]
        /\ UNCHANGED <<now, published, visible, search, matches, begun, mails, missed>>
    BY <1>4 DEF Favorites!FailDigest, Mailing
  <2>2. digest'[d] = Nothing /\ \A e \in Digests \ {d} : digest'[e] = digest[e]
    BY <2>1 DEF AlertType
  <2>3. AlertType' /\ ClockInv'  BY <2>1, <2>2 DEF AlertType, ClockInv
  <2>4. \A e \in Digests : /\ Mailing(e)' => Mailing(e)
                           /\ e # d => (Mailing(e)' <=> Mailing(e)) /\ digest'[e] = digest[e]
    BY <2>2 DEF Mailing
  <2>5. \A l \in Listings : Seen(l)' <=> Seen(l)  BY <2>1 DEF Seen
  <2>6. PendingInv'
    <3>1. \A e \in Digests : Mailing(e)' => Mailing(e) /\ digest'[e] = digest[e]
      BY <2>2 DEF Mailing
    <3> QED  BY <2>1, <2>5, <3>1 DEF PendingInv
  <2>7. \A l \in Listings : l \notin again' /\ Mailed(l) => Mailed(l)'
    <3> SUFFICES ASSUME NEW l \in Listings, l \notin again', Mailed(l) PROVE Mailed(l)'
      OBVIOUS
    <3>1. CASE published[l] <= search.ran  BY <2>1, <3>1 DEF Mailed
    <3>2. ASSUME NEW e \in Digests, Mailing(e), l \in digest[e].mailed PROVE Mailed(l)'
      <4>1. e # d  BY <2>1, <3>2
      <4> QED  BY <2>4, <3>2, <4>1 DEF Mailed
    <3> QED  BY <3>1, <3>2 DEF Mailed
  <2>8. OnceInv'  BY <2>1, <2>7 DEF OnceInv
  <2> QED  BY <2>3, <2>6, <2>8
<1> QED  BY <1>1, <1>2, <1>3, <1>4

LEMMA AlertSteps ==
  ASSUME AlertAssumption
  PROVE  AlertInv /\ [Favorites!Next]_alerts => AlertInv'
<1> SUFFICES ASSUME AlertInv, [Favorites!Next]_alerts PROVE AlertInv'
  OBVIOUS
<1> USE DEF AlertInv
<1>1. ASSUME NEW active \in BOOLEAN, NEW frequency \in {"instant", "daily"},
             Favorites!Edit(active, frequency)
      PROVE  AlertInv'
  <2>1. /\ search' = [search EXCEPT !.active = active, !.frequency = frequency]
        /\ UNCHANGED <<now, published, visible, matches, begun, digest, mails>>
    BY <1>1 DEF Favorites!Edit
  <2>2. /\ search' \in Watermark /\ search'.ran = search.ran /\ search'.frequency = frequency
    BY <2>1 DEF AlertType, Watermark
  <2>3. AlertType' /\ ClockInv'  BY <2>1, <2>2 DEF AlertType, ClockInv
  <2>4. \A l \in Listings : Mailed(l)' <=> Mailed(l)  BY <2>1, <2>2 DEF Mailed, Mailing
  <2>5. \A e \in Digests : Mailing(e)' <=> Mailing(e)  BY <2>1 DEF Mailing
  <2>6. CASE frequency = search.frequency
    <3>1. UNCHANGED <<missed, again>>  BY <1>1, <2>6 DEF Favorites!Edit
    <3>2. \A l \in Listings : Seen(l)' <=> Seen(l)  BY <2>1, <3>1 DEF Seen
    <3>3. PendingInv'  BY <2>1, <2>2, <2>5, <2>6, <3>1, <3>2 DEF PendingInv
    <3>4. OnceInv'  BY <2>1, <2>2, <2>4, <2>6, <3>1 DEF OnceInv
    <3> QED  BY <2>3, <3>3, <3>4
  <2>7. CASE frequency # search.frequency
    <3>1. /\ missed' = missed \cup Favorites!Unmailed
          /\ again' = again \cup matches
               \cup {l \in Listings : \E e \in Digests : digest[e] # Nothing /\ published[l] # Nothing}
      BY <1>1, <2>7 DEF Favorites!Edit
    <3>2. \A l \in Listings : ~Seen(l)'  BY <2>1, <3>1 DEF Seen, Favorites!Unmailed
    <3>3. PendingInv'  BY <2>1, <3>2 DEF PendingInv
    <3>4. OnceInv'  BY <2>1, <2>4, <3>1 DEF OnceInv
    <3> QED  BY <2>3, <3>3, <3>4
  <2> QED  BY <2>6, <2>7
<1>2. CASE Favorites!Turn \/ UNCHANGED alerts
  <2>1. UNCHANGED <<now, published, visible, search, matches, begun, digest, mails, missed, again>>
    BY <1>2 DEF Favorites!Turn, alerts
  <2>2. AlertType' /\ ClockInv'  BY <2>1 DEF AlertType, ClockInv
  <2>3. PendingInv'  BY <2>1 DEF PendingInv, Seen, Mailing
  <2>4. OnceInv'  BY <2>1 DEF OnceInv, Mailed, Mailing
  <2> QED  BY <2>2, <2>3, <2>4
<1> QED  BY <1>1, <1>2, MatchSteps, DigestSteps DEF Favorites!Next

(* "That watermark is the idempotency" (favorites/service.py run_digests): a   *)
(* listing that the watermark has passed was mailed, and none is mailed       *)
(* twice, but for what the property names: a full digest, an owner nobody can  *)
(* reach, a suspended tenant, a publish that had not committed, a change of    *)
(* frequency, a lost callback, a task that failed, two digests at once.      *)
THEOREM AlertsExplained == ASSUME AlertAssumption PROVE AnySpec => []AlertsAreExplained
<1>1. AnyInit => AlertInv
  <2> SUFFICES ASSUME AnyInit PROVE AlertInv  OBVIOUS
  <2>1. Favorites!Init  BY DEF AnyInit
  <2>2. /\ now = 1 /\ published = [l \in Listings |-> Nothing] /\ visible = {}
        /\ matches = {} /\ begun = {}
        /\ search.ran = 0 /\ digest = [d \in Digests |-> Nothing]
        /\ mails = [l \in Listings |-> 0] /\ search \in Watermark
    <3>1. search \in [active : {TRUE}, frequency : {"instant", "daily"}, ran : {0}]
      BY <2>1 DEF Favorites!Init
    <3>2. PICK f \in {"instant", "daily"} : search = [active |-> TRUE, frequency |-> f, ran |-> 0]
      BY <3>1
    <3>3. search.ran = 0 /\ search \in Watermark
      <4>1. [active |-> TRUE, frequency |-> f, ran |-> 0] \in Watermark  BY DEF Watermark
      <4>2. [active |-> TRUE, frequency |-> f, ran |-> 0].ran = 0  OBVIOUS
      <4> QED  BY <3>2, <4>1, <4>2
    <3> QED  BY <2>1, <3>3 DEF Favorites!Init
  <2>3. AlertType /\ ClockInv  BY <2>2 DEF AlertType, ClockInv
  <2>4. PendingInv /\ OnceInv  BY <2>2 DEF PendingInv, OnceInv, Seen
  <2> QED  BY <2>3, <2>4 DEF AlertInv
<1>2. AlertInv /\ [AnyNext]_all => AlertInv'
  <2> SUFFICES ASSUME AlertInv, [AnyNext]_all PROVE AlertInv'  OBVIOUS
  <2>1. [Favorites!Next]_alerts  BY DEF AnyNext, all
  <2> QED  BY <2>1, AlertSteps
<1>3. AlertInv => AlertsAreExplained
  <2> SUFFICES ASSUME AlertInv, NEW l \in Listings
               PROVE  /\ l \in visible \ (matches \cup missed) /\ published[l] <= search.ran =>
                           mails[l] > 0
                      /\ l \notin again => mails[l] <= 1
    BY DEF AlertsAreExplained, Favorites!AlertsAreExplained
  <2>1. l \notin again => mails[l] <= 1  BY DEF AlertInv, OnceInv
  <2>2. ASSUME l \in visible \ (matches \cup missed), published[l] <= search.ran, mails[l] = 0
        PROVE  FALSE
    <3>1. Seen(l)  BY <2>2 DEF AlertInv, PendingInv, Seen
    <3>2. published[l] \in Nat /\ search.ran \in Nat /\ search.frequency \in {"instant", "daily"}
      BY <2>2 DEF AlertInv, AlertType, PendingInv, Watermark
    <3> QED  BY <2>2, <3>1, <3>2 DEF AlertInv, PendingInv
  <2> QED  BY <2>1, <2>2 DEF AlertInv, AlertType
<1> QED  BY <1>1, <1>2, <1>3, PTL DEF AnySpec

-----------------------------------------------------------------------------
(* Paging.  The cursor's condition and the order of the page are one strict    *)
(* total order, so a page is the rows up to its last one, and what was        *)
(* returned is behind the cursor.                                            *)

PagingAssumption ==
  /\ Rows \subseteq Int /\ IsFiniteSet(Rows) /\ Sorts \subseteq Int
  /\ PageSize \in Nat \ {0}
  /\ Nothing \notin [id : Rows, featured : BOOLEAN, sort : Sorts]

Spot == [id : Rows, featured : BOOLEAN, sort : Sorts]

(* Pairs of numbers are compared place by place.                             *)
LEMMA ComparePairs ==
  ASSUME NEW p \in Int, NEW q \in Int, NEW s \in Int, NEW t \in Int
  PROVE  (\E i \in DOMAIN <<p, q>> : <<p, q>>[i] < <<s, t>>[i]
            /\ \A j \in 1..(i - 1) : <<p, q>>[j] = <<s, t>>[j])
         <=> p < s \/ (p = s /\ q < t)
<1>1. DOMAIN <<p, q>> = {1, 2} /\ 1..(1 - 1) = {} /\ 1..(2 - 1) = {1}  OBVIOUS
<1> QED  BY <1>1

(* The order as one of numbers.                                              *)
Lead(x) == IF list \in {"search down", "search up"} THEN IF x.featured THEN 0 ELSE 1 ELSE 0
Major(x) == IF list \in {"search up", "portal up", "agenda"} THEN x.sort ELSE 0 - x.sort
Minor(x) == IF list \in {"portal up", "agenda"} THEN x.id ELSE 0 - x.id
Before(x, y) ==
  \/ Lead(x) < Lead(y)
  \/ Lead(x) = Lead(y) /\ Major(x) < Major(y)
  \/ Lead(x) = Lead(y) /\ Major(x) = Major(y) /\ Minor(x) < Minor(y)

LEMMA Numbers ==
  ASSUME PagingAssumption, NEW x \in Spot
  PROVE  /\ x.featured \in BOOLEAN /\ x.sort \in Int /\ x.id \in Int
         /\ Lead(x) \in Int /\ Major(x) \in Int /\ Minor(x) \in Int
<1>1. x.featured \in BOOLEAN /\ x.sort \in Int /\ x.id \in Int  BY DEF PagingAssumption, Spot
<1>2. Lead(x) \in Int  BY DEF Lead
<1>3. 0 - x.sort \in Int /\ 0 - x.id \in Int  BY <1>1
<1>4. Major(x) \in {x.sort, 0 - x.sort} /\ Minor(x) \in {x.id, 0 - x.id}  BY DEF Major, Minor
<1> QED  BY <1>1, <1>2, <1>3, <1>4

LEMMA AfterIsBefore ==
  ASSUME PagingAssumption, list \in Lists!Lists, NEW x \in Spot, NEW y \in Spot
  PROVE  Lists!After(y, x) <=> Before(x, y)
<1>1. /\ x.sort \in Int /\ x.id \in Int /\ y.sort \in Int /\ y.id \in Int
      /\ x.featured \in BOOLEAN /\ y.featured \in BOOLEAN
  BY Numbers
<1>2. CASE list = "search down"
  <2>1. Lists!After(y, x) <=> Lists!AfterInSearch(y, x, TRUE)  BY <1>2 DEF Lists!After
  <2>2. /\ Lead(x) = (IF x.featured THEN 0 ELSE 1) /\ Major(x) = 0 - x.sort /\ Minor(x) = 0 - x.id
        /\ Lead(y) = (IF y.featured THEN 0 ELSE 1) /\ Major(y) = 0 - y.sort /\ Minor(y) = 0 - y.id
    BY <1>2 DEF Lead, Major, Minor
  <2> QED  BY <1>1, <2>1, <2>2 DEF Lists!AfterInSearch, Before
<1>3. CASE list = "search up"
  <2>1. Lists!After(y, x) <=> Lists!AfterInSearch(y, x, FALSE)  BY <1>3 DEF Lists!After
  <2>2. /\ Lead(x) = (IF x.featured THEN 0 ELSE 1) /\ Major(x) = x.sort /\ Minor(x) = 0 - x.id
        /\ Lead(y) = (IF y.featured THEN 0 ELSE 1) /\ Major(y) = y.sort /\ Minor(y) = 0 - y.id
    BY <1>3 DEF Lead, Major, Minor
  <2> QED  BY <1>1, <2>1, <2>2 DEF Lists!AfterInSearch, Before
<1>4. CASE list \in {"portal down", "newest"}
  <2>1. Lists!After(y, x) <=> Lists!AfterInPortal(y, x, TRUE)
    BY <1>4 DEF Lists!After, Lists!AfterInNewest
  <2>2. /\ Lead(x) = 0 /\ Major(x) = 0 - x.sort /\ Minor(x) = 0 - x.id
        /\ Lead(y) = 0 /\ Major(y) = 0 - y.sort /\ Minor(y) = 0 - y.id
    BY <1>4 DEF Lead, Major, Minor
  <2> QED  BY <1>1, <2>1, <2>2 DEF Lists!AfterInPortal, Before
<1>5. CASE list \in {"portal up", "agenda"}
  <2>1. Lists!After(y, x) <=> Lists!AfterInPortal(y, x, FALSE)
    BY <1>5 DEF Lists!After, Lists!AfterInAgenda
  <2>2. /\ Lead(x) = 0 /\ Major(x) = x.sort /\ Minor(x) = x.id
        /\ Lead(y) = 0 /\ Major(y) = y.sort /\ Minor(y) = y.id
    BY <1>5 DEF Lead, Major, Minor
  <2> QED  BY <1>1, <2>1, <2>2 DEF Lists!AfterInPortal, Before
<1> QED  BY <1>2, <1>3, <1>4, <1>5 DEF Lists!Lists

LEMMA PrecedesIsBefore ==
  ASSUME PagingAssumption, list \in Lists!Lists, NEW x \in Spot, NEW y \in Spot
  PROVE  Lists!Precedes(x, y) <=> Before(x, y)
<1>1. /\ Lead(x) \in Int /\ Major(x) \in Int /\ Minor(x) \in Int
      /\ Lead(y) \in Int /\ Major(y) \in Int /\ Minor(y) \in Int
  BY Numbers
<1>2. CASE list \in {"search down", "search up"}
  <2>1. /\ Lists!OrderBy(x) = <<Lead(x), Major(x), Minor(x)>>
        /\ Lists!OrderBy(y) = <<Lead(y), Major(y), Minor(y)>>
    BY <1>2 DEF Lists!OrderBy, Lead, Major, Minor
  <2> DEFINE a == <<Lead(x), Major(x), Minor(x)>>
             b == <<Lead(y), Major(y), Minor(y)>>
  <2>2. Lists!Precedes(x, y) <=> \E i \in DOMAIN a : a[i] < b[i] /\ \A j \in 1..(i - 1) : a[j] = b[j]
    BY <2>1 DEF Lists!Precedes
  <2>3. (\E i \in DOMAIN a : a[i] < b[i] /\ \A j \in 1..(i - 1) : a[j] = b[j]) <=>
          \/ Lead(x) < Lead(y)
          \/ Lead(x) = Lead(y) /\ Major(x) < Major(y)
          \/ Lead(x) = Lead(y) /\ Major(x) = Major(y) /\ Minor(x) < Minor(y)
    <3>1. PICK p \in Int, q \in Int, r \in Int, t \in Int, u \in Int, v \in Int :
            /\ p = Lead(x) /\ q = Major(x) /\ r = Minor(x)
            /\ t = Lead(y) /\ u = Major(y) /\ v = Minor(y)
      BY <1>1
    <3>2. a = <<p, q, r>> /\ b = <<t, u, v>>  BY <3>1
    <3> HIDE DEF a, b
    <3>3. (\E i \in DOMAIN <<p, q, r>> : <<p, q, r>>[i] < <<t, u, v>>[i]
             /\ \A j \in 1..(i - 1) : <<p, q, r>>[j] = <<t, u, v>>[j])
          <=> p < t \/ (p = t /\ q < u) \/ (p = t /\ q = u /\ r < v)
      <4>1. DOMAIN <<p, q, r>> = {1, 2, 3}  OBVIOUS
      <4>2. 1..(1 - 1) = {} /\ 1..(2 - 1) = {1} /\ 1..(3 - 1) = {1, 2}  OBVIOUS
      <4> QED  BY <4>1, <4>2
    <3> QED  BY <3>1, <3>2, <3>3
  <2> QED  BY <2>2, <2>3 DEF Before
<1>3. CASE list \in {"portal down", "newest", "portal up", "agenda"}
  <2>1. /\ Lists!OrderBy(x) = <<Major(x), Minor(x)>>
        /\ Lists!OrderBy(y) = <<Major(y), Minor(y)>>
    BY <1>3 DEF Lists!OrderBy, Major, Minor
  <2>2. Lead(x) = Lead(y)  BY <1>3 DEF Lead
  <2> DEFINE a == <<Major(x), Minor(x)>>
             b == <<Major(y), Minor(y)>>
  <2>3. Lists!Precedes(x, y) <=> \E i \in DOMAIN a : a[i] < b[i] /\ \A j \in 1..(i - 1) : a[j] = b[j]
    BY <2>1 DEF Lists!Precedes
  <2>4. (\E i \in DOMAIN a : a[i] < b[i] /\ \A j \in 1..(i - 1) : a[j] = b[j]) <=>
          \/ Major(x) < Major(y)
          \/ Major(x) = Major(y) /\ Minor(x) < Minor(y)
    BY <1>1, ComparePairs
  <2> QED  BY <1>1, <2>2, <2>3, <2>4 DEF Before
<1> QED  BY <1>2, <1>3 DEF Lists!Lists

LEMMA OrderIsTotal ==
  ASSUME PagingAssumption, list \in Lists!Lists, NEW x \in Spot, NEW y \in Spot, NEW z \in Spot
  PROVE  /\ ~Lists!After(x, x)
         /\ Lists!After(x, y) /\ Lists!After(y, z) => Lists!After(x, z)
         /\ x.id # y.id => Lists!After(x, y) \/ Lists!After(y, x)
         /\ Lists!Precedes(x, y) <=> Lists!After(y, x)
<1>1. /\ Lead(x) \in Int /\ Major(x) \in Int /\ Minor(x) \in Int
      /\ Lead(y) \in Int /\ Major(y) \in Int /\ Minor(y) \in Int
      /\ Lead(z) \in Int /\ Major(z) \in Int /\ Minor(z) \in Int
  BY Numbers
<1>2. /\ Lists!After(x, x) <=> Before(x, x)
      /\ Lists!After(x, y) <=> Before(y, x)
      /\ Lists!After(y, x) <=> Before(x, y)
      /\ Lists!After(y, z) <=> Before(z, y)
      /\ Lists!After(x, z) <=> Before(z, x)
  BY AfterIsBefore
<1>3. ~Before(x, x)  BY <1>1 DEF Before
<1>4. Before(y, x) /\ Before(z, y) => Before(z, x)  BY <1>1 DEF Before
<1>5. x.id # y.id => Before(x, y) \/ Before(y, x)
  <2>1. x.id \in Int /\ y.id \in Int  BY Numbers
  <2>2. \/ Minor(x) = x.id /\ Minor(y) = y.id
        \/ Minor(x) = 0 - x.id /\ Minor(y) = 0 - y.id
    BY DEF Minor
  <2>3. x.id # y.id => Minor(x) # Minor(y)  BY <2>1, <2>2
  <2> QED  BY <1>1, <2>3 DEF Before
<1> QED  BY <1>2, <1>3, <1>4, <1>5, PrecedesIsBefore

PageType ==
  /\ list \in Lists!Lists
  /\ row \in [Rows -> [featured : BOOLEAN, sort : Sorts, shown : BOOLEAN]]
  /\ cursor \in Spot \cup {Nothing}
  /\ returned \in [Rows -> Nat]
WalkInv ==
  \A r \in Rows \ moved :
    /\ ~row[r].shown => returned[r] = 0
    /\ row[r].shown => \/ returned[r] = 0 /\ ~ended /\ r \in Lists!Rest
                       \/ returned[r] = 1 /\ (ended \/ r \notin Lists!Rest)
PageInv == PageType /\ WalkInv

LEMMA SameCount ==
  ASSUME NEW S
  PROVE  Lists!Cardinality(S) = Cardinality(S)
BY DEF Lists!Cardinality, Cardinality

(* Ranks are the order, and there are no more than rows.                     *)
LEMMA RankGrows ==
  ASSUME PagingAssumption, PageType, NEW r \in Lists!Rest
  PROVE  /\ Lists!Place(r) \in Spot /\ Lists!Place(r).id = r
         /\ Lists!Rank(r) \in Nat /\ Cardinality(Lists!Rest) \in Nat
         /\ Lists!Rank(r) < Cardinality(Lists!Rest)
         /\ \A x \in Lists!Rest : Lists!After(Lists!Place(x), Lists!Place(r)) =>
              Lists!Rank(r) < Lists!Rank(x)
<1> DEFINE R == Lists!Rest
           Ahead(x) == {q \in R : Lists!Precedes(Lists!Place(q), Lists!Place(x))}
<1>1. R \subseteq Rows /\ IsFiniteSet(R)
  <2>1. R \subseteq Rows  BY DEF Lists!Rest
  <2> QED  BY <2>1, FS_Subset DEF PagingAssumption
<1>2. \A x \in R : Lists!Place(x) \in Spot /\ Lists!Place(x).id = x
  BY <1>1 DEF PageType, Lists!Place, Spot
<1>3. \A x \in R : IsFiniteSet(Ahead(x)) /\ Lists!Rank(x) = Cardinality(Ahead(x))
  <2> SUFFICES ASSUME NEW x \in R
               PROVE  IsFiniteSet(Ahead(x)) /\ Lists!Rank(x) = Cardinality(Ahead(x))
    OBVIOUS
  <2>1. Ahead(x) \subseteq R  OBVIOUS
  <2> QED  BY <1>1, <2>1, FS_Subset, SameCount DEF Lists!Rank
<1>4. \A x, y \in R :
        /\ ~Lists!After(Lists!Place(x), Lists!Place(x))
        /\ Lists!Precedes(Lists!Place(x), Lists!Place(y))
             <=> Lists!After(Lists!Place(y), Lists!Place(x))
        /\ \A z \in R : Lists!After(Lists!Place(x), Lists!Place(y))
                        /\ Lists!After(Lists!Place(y), Lists!Place(z)) =>
             Lists!After(Lists!Place(x), Lists!Place(z))
  BY <1>2, OrderIsTotal DEF PageType
<1> HIDE DEF R
<1>5. r \in R  BY DEF R
<1>6. Ahead(r) \subseteq R /\ r \notin Ahead(r)  BY <1>4, <1>5
<1>7. Cardinality(Ahead(r)) < Cardinality(R)
  <2>1. Ahead(r) # R  BY <1>5, <1>6
  <2> HIDE DEF Ahead
  <2> QED  BY <1>1, <1>6, <2>1, FS_Subset, FS_CardinalityType
<1>8. ASSUME NEW x \in R, Lists!After(Lists!Place(x), Lists!Place(r))
      PROVE  Cardinality(Ahead(r)) < Cardinality(Ahead(x))
  <2>1. Ahead(r) \subseteq Ahead(x)  BY <1>4, <1>5, <1>8
  <2>2. r \in Ahead(x)  BY <1>4, <1>5, <1>8
  <2>3. IsFiniteSet(Ahead(x)) /\ Ahead(r) # Ahead(x)  BY <1>3, <1>6, <2>2
  <2> HIDE DEF Ahead
  <2> QED  BY <2>1, <2>3, FS_Subset, FS_CardinalityType
<1>9. Cardinality(Ahead(r)) \in Nat /\ Cardinality(R) \in Nat
  BY <1>1, <1>3, <1>5, FS_CardinalityType
<1> QED  BY <1>2, <1>3, <1>5, <1>7, <1>8, <1>9 DEF R

LEMMA PageStep ==
  ASSUME PagingAssumption, PageInv, Lists!NextPage
  PROVE  PageInv'
<1> DEFINE R == Lists!Rest
           page == {r \in R : Lists!Rank(r) < PageSize}
<1>1. /\ ~ended /\ UNCHANGED <<list, row, moved>>
      /\ returned' = [r \in Rows |-> returned[r] + (IF r \in page THEN 1 ELSE 0)]
  BY DEF Lists!NextPage
<1>2. PageType  BY DEF PageInv
<1>3. /\ R \subseteq Rows /\ \A r \in R : row[r].shown
      /\ \A r \in Rows : row[r].shown /\ r \notin R =>
           cursor # Nothing /\ ~Lists!After(Lists!Place(r), cursor)
      /\ \A r \in R : cursor = Nothing \/ Lists!After(Lists!Place(r), cursor)
  BY DEF Lists!Rest
<1>4. \A r \in R :
        /\ Lists!Rank(r) \in Nat /\ Cardinality(R) \in Nat
        /\ Lists!Rank(r) < Cardinality(R)
        /\ \A x \in R : Lists!After(Lists!Place(x), Lists!Place(r)) => Lists!Rank(r) < Lists!Rank(x)
  BY <1>2, RankGrows
<1>5. \A r \in Rows : Lists!Place(r) \in Spot /\ Lists!Place(r).id = r
  BY <1>2 DEF PageType, Lists!Place, Spot
<1>6. \A r \in Rows : Lists!Place(r)' = Lists!Place(r)  BY <1>1 DEF Lists!Place
<1>7. \A x, y : Lists!After(x, y)' <=> Lists!After(x, y)
  BY <1>1 DEF Lists!After, Lists!AfterInSearch, Lists!AfterInPortal, Lists!AfterInNewest,
              Lists!AfterInAgenda
<1>8. Lists!Rest' = {r \in Rows : row[r].shown
                        /\ (cursor' = Nothing \/ Lists!After(Lists!Place(r), cursor'))}
  BY <1>1, <1>6, <1>7 DEF Lists!Rest
<1>9. \A r \in Rows : /\ returned[r] \in Nat
                      /\ r \in page => returned'[r] = returned[r] + 1
                      /\ r \notin page => returned'[r] = returned[r]
  BY <1>1, <1>2 DEF PageType
<1>10. PageSize \in Nat /\ PageSize >= 1  BY DEF PagingAssumption
<1>11. CASE Cardinality(R) > PageSize
  <2>1. PICK x \in {r \in page : Lists!Rank(r) = PageSize - 1} :
          cursor' = Lists!Place(x) /\ ended' = ended
    BY <1>11, SameCount DEF Lists!NextPage
  <2>2. x \in R /\ Lists!Rank(x) = PageSize - 1 /\ cursor' \in Spot  BY <1>3, <1>5, <2>1
  <2>3. PageType'
    <3>1. returned' \in [Rows -> Nat]  BY <1>1, <1>9
    <3> QED  BY <1>1, <1>2, <2>2, <3>1 DEF PageType
  <2>4. cursor' # Nothing  BY <2>2 DEF Spot, PagingAssumption
  <2>5. ASSUME NEW r \in Rows, row[r].shown, r \notin R
        PROVE  ~Lists!After(Lists!Place(r), Lists!Place(x))
    <3>1. cursor \in Spot /\ ~Lists!After(Lists!Place(r), cursor)
      BY <1>2, <1>3, <2>5 DEF PageType
    <3>2. Lists!After(Lists!Place(x), cursor)  BY <1>3, <2>2, <3>1, <2>5
    <3>3. Lists!Place(r) \in Spot /\ Lists!Place(x) \in Spot  BY <1>3, <1>5, <2>2
    <3>4. Lists!After(Lists!Place(r), Lists!Place(x)) /\ Lists!After(Lists!Place(x), cursor) =>
            Lists!After(Lists!Place(r), cursor)
      BY <1>2, <3>1, <3>3, OrderIsTotal DEF PageType
    <3> QED  BY <3>1, <3>2, <3>4
  <2>6. ASSUME NEW r \in page PROVE ~Lists!After(Lists!Place(r), Lists!Place(x))
    BY <1>4, <1>10, <2>2, <2>6
  <2>7. ASSUME NEW r \in R \ page PROVE Lists!After(Lists!Place(r), Lists!Place(x))
    <3>1. Lists!Rank(r) >= PageSize /\ Lists!Rank(r) \in Nat  BY <1>4, <1>10, <2>7
    <3>2. ~Lists!After(Lists!Place(x), Lists!Place(r))  BY <1>4, <1>10, <2>2, <2>7, <3>1
    <3>3. r # x /\ Lists!Place(r) \in Spot /\ Lists!Place(x) \in Spot
          /\ Lists!Place(r).id # Lists!Place(x).id
      BY <1>3, <1>5, <1>10, <2>2, <2>7, <3>1
    <3> QED  BY <1>2, <3>2, <3>3, OrderIsTotal DEF PageType
  <2>8. \A r \in Rows : r \in Lists!Rest' <=> r \in R \ page
    <3>1. \A r \in Rows : r \in Lists!Rest' <=>
            row[r].shown /\ Lists!After(Lists!Place(r), Lists!Place(x))
      BY <1>8, <2>1, <2>4
    <3> QED  BY <1>3, <2>5, <2>6, <2>7, <3>1
  <2>9. WalkInv'
    <3> SUFFICES ASSUME NEW r \in Rows \ moved
                 PROVE  /\ ~row[r].shown => returned'[r] = 0
                        /\ row[r].shown =>
                             \/ returned'[r] = 0 /\ ~ended' /\ r \in Lists!Rest'
                             \/ returned'[r] = 1 /\ (ended' \/ r \notin Lists!Rest')
      BY <1>1 DEF WalkInv
    <3>1. /\ ~row[r].shown => returned[r] = 0
          /\ row[r].shown => \/ returned[r] = 0 /\ r \in R
                             \/ returned[r] = 1 /\ r \notin R
      BY <1>1 DEF PageInv, WalkInv
    <3>2. ~row[r].shown => r \notin page  BY <1>3
    <3>3. page \subseteq R  OBVIOUS
    <3> HIDE DEF page, R
    <3> QED  BY <1>1, <1>9, <2>1, <2>8, <3>1, <3>2, <3>3
  <2> QED  BY <2>3, <2>9 DEF PageInv
<1>12. CASE ~(Cardinality(R) > PageSize)
  <2>1. ended' = TRUE /\ cursor' = cursor
    BY <1>12, SameCount DEF Lists!NextPage
  <2>2. R = page  BY <1>4, <1>10, <1>12
  <2>3. PageType'
    <3>1. returned' \in [Rows -> Nat]  BY <1>1, <1>9
    <3> QED  BY <1>1, <1>2, <2>1, <3>1 DEF PageType
  <2>4. WalkInv'
    <3> SUFFICES ASSUME NEW r \in Rows \ moved
                 PROVE  /\ ~row[r].shown => returned'[r] = 0
                        /\ row[r].shown => returned'[r] = 1
      BY <1>1, <2>1 DEF WalkInv
    <3>1. /\ ~row[r].shown => returned[r] = 0
          /\ row[r].shown => \/ returned[r] = 0 /\ r \in R
                             \/ returned[r] = 1 /\ r \notin R
      BY <1>1 DEF PageInv, WalkInv
    <3>2. ~row[r].shown => r \notin page  BY <1>3
    <3> HIDE DEF page, R
    <3> QED  BY <1>1, <1>9, <2>2, <3>1, <3>2
  <2> QED  BY <2>3, <2>4 DEF PageInv
<1> QED  BY <1>11, <1>12

LEMMA WalkSteps ==
  ASSUME PagingAssumption
  PROVE  PageInv /\ [Lists!Next]_walk => PageInv'
<1> SUFFICES ASSUME PageInv, [Lists!Next]_walk PROVE PageInv'
  OBVIOUS
<1>1. ASSUME NEW r \in Rows, Lists!Move(r) PROVE PageInv'
  <2>1. moved' = moved \cup {r} /\ UNCHANGED <<list, cursor, ended, returned>>
    BY <1>1 DEF Lists!Move
  <2>2. row \in [Rows -> [featured : BOOLEAN, sort : Sorts, shown : BOOLEAN]]
    BY DEF PageInv, PageType
  <2>3. /\ row' \in [Rows -> [featured : BOOLEAN, sort : Sorts, shown : BOOLEAN]]
        /\ \A q \in Rows \ {r} : row'[q] = row[q]
    <3>1. CASE row' = [row EXCEPT ![r].shown = ~@]  BY <2>2, <3>1
    <3>2. ASSUME NEW sort \in Sorts, row' = [row EXCEPT ![r].sort = sort]
          PROVE  /\ row' \in [Rows -> [featured : BOOLEAN, sort : Sorts, shown : BOOLEAN]]
                 /\ \A q \in Rows \ {r} : row'[q] = row[q]
      <4> DEFINE new == [row[r] EXCEPT !.sort = sort]
      <4>1. new \in [featured : BOOLEAN, sort : Sorts, shown : BOOLEAN]
        <5>1. row[r] \in [featured : BOOLEAN, sort : Sorts, shown : BOOLEAN]  BY <2>2
        <5> QED  BY <5>1
      <4>2. row' = [row EXCEPT ![r] = new]  BY <2>2, <3>2
      <4> HIDE DEF new
      <4> QED  BY <2>2, <4>1, <4>2
    <3>3. CASE row' = [row EXCEPT ![r].featured = ~@]  BY <2>2, <3>3
    <3> QED  BY <1>1, <3>1, <3>2, <3>3 DEF Lists!Move
  <2>4. PageType'  BY <2>1, <2>3 DEF PageInv, PageType
  <2>5. \A q \in Rows \ {r} : q \in Lists!Rest' <=> q \in Lists!Rest
    <3>1. \A q \in Rows \ {r} : Lists!Place(q)' = Lists!Place(q)  BY <2>3 DEF Lists!Place
    <3>2. \A x, y : Lists!After(x, y)' <=> Lists!After(x, y)
      BY <2>1 DEF Lists!After, Lists!AfterInSearch, Lists!AfterInPortal, Lists!AfterInNewest,
                  Lists!AfterInAgenda
    <3> QED  BY <2>1, <2>3, <3>1, <3>2 DEF Lists!Rest
  <2>6. WalkInv'  BY <2>1, <2>3, <2>5 DEF PageInv, WalkInv
  <2> QED  BY <2>4, <2>6 DEF PageInv
<1>2. CASE UNCHANGED walk
  <2>1. UNCHANGED <<list, row, cursor, ended, returned, moved>>  BY <1>2 DEF walk
  <2>2. PageType'  BY <2>1 DEF PageInv, PageType
  <2>3. Lists!Rest' = Lists!Rest
    BY <2>1 DEF Lists!Rest, Lists!Place, Lists!After, Lists!AfterInSearch, Lists!AfterInPortal,
                Lists!AfterInNewest, Lists!AfterInAgenda
  <2>4. WalkInv'  BY <2>1, <2>3 DEF PageInv, WalkInv
  <2> QED  BY <2>2, <2>4 DEF PageInv
<1> QED  BY <1>1, <1>2, PageStep DEF Lists!Next

LEMMA WalkStart ==
  ASSUME PagingAssumption, Lists!Init
  PROVE  PageInv
<1>1. /\ list \in Lists!Lists
      /\ row \in [Rows -> [featured : BOOLEAN, sort : Sorts, shown : BOOLEAN]]
      /\ cursor = Nothing /\ ended = FALSE /\ returned = [r \in Rows |-> 0]
  BY DEF Lists!Init
<1>2. PageType  BY <1>1 DEF PageType
<1>3. \A r \in Rows : row[r].shown => r \in Lists!Rest  BY <1>1 DEF Lists!Rest
<1> QED  BY <1>1, <1>2, <1>3 DEF PageInv, WalkInv

-----------------------------------------------------------------------------
(* LegalPages.  Only the newest row is current, whatever publishers overlap,   *)
(* because an insertion whose number or flag is taken is refused.  A read      *)
(* that takes the counter as it is now began after the last bump, so what it   *)
(* loads, and stores under that counter, is no older than what was announced.  *)

Publishing == [at : {"lock", "insert", "bump"}, seen : SUBSET Nat, mine : SUBSET Nat, next : Nat]
Reading == [at : {"get", "load", "set"}, under : 0..MaxVersions \cup {Nothing},
            value : Nat, after : Nat]
LegalAssumption ==
  /\ IsFiniteSet(Publishers) /\ MaxVersions \in Nat
  /\ Nothing \notin Nat /\ Nothing \notin Publishing /\ Nothing \notin Reading

(* The rows after n publications.                                            *)
Edition(n, v) == [version |-> v, current |-> v = n]
Editions(n) == {Edition(n, v) : v \in 1..n}

LEMMA EditionsAre ==
  ASSUME NEW n \in Nat
  PROVE  /\ {x.version : x \in Editions(n)} = 1..n
         /\ {x.version : x \in {y \in Editions(n) : y.current}} = IF n = 0 THEN {} ELSE {n}
         /\ Cardinality(Editions(n)) = n
<1>1. \A v \in 1..n : Edition(n, v).version = v /\ (Edition(n, v).current <=> v = n)
  BY DEF Edition
<1>2. {x.version : x \in Editions(n)} = 1..n  BY <1>1 DEF Editions
<1>3. {x.version : x \in {y \in Editions(n) : y.current}} = IF n = 0 THEN {} ELSE {n}
  <2>1. {y \in Editions(n) : y.current} = {Edition(n, v) : v \in {u \in 1..n : u = n}}
    BY <1>1 DEF Editions
  <2>2. CASE n = 0
    <3>1. {u \in 1..n : u = n} = {}  BY <2>2
    <3> QED  BY <2>1, <2>2, <3>1
  <2>3. CASE n # 0
    <3>1. {u \in 1..n : u = n} = {n}  BY <2>3
    <3>2. Edition(n, n).version = n  BY <1>1, <2>3
    <3> QED  BY <2>1, <2>3, <3>1, <3>2
  <2> QED  BY <2>2, <2>3
<1>4. Cardinality(Editions(n)) = n
  <2> DEFINE f == [v \in 1..n |-> Edition(n, v)]
  <2>1. f \in [1..n -> Editions(n)]  BY DEF Editions
  <2>2. \A v, w \in 1..n : f[v] = f[w] => v = w  BY <1>1
  <2>3. \A x \in Editions(n) : \E v \in 1..n : f[v] = x  BY DEF Editions
  <2> HIDE DEF f
  <2>4. f \in Bijection(1..n, Editions(n))
    BY <2>1, <2>2, <2>3 DEF Bijection, Injection, Surjection, IsInjective
  <2>5. IsFiniteSet(1..n) /\ Cardinality(1..n) = n  BY FS_Interval
  <2> QED  BY <2>4, <2>5, FS_Bijection DEF ExistsBijection
<1> QED  BY <1>2, <1>3, <1>4

LEMMA Maxima ==
  ASSUME NEW n \in Nat, NEW S, S \subseteq 0..n, n \in S
  PROVE  Legal!Max(S) = n
<1>1. \A y \in S : n >= y /\ y \in Nat  OBVIOUS
<1>2. \A x \in S : (\A y \in S : x >= y) => x = n  BY <1>1
<1> QED  BY <1>1, <1>2 DEF Legal!Max

PagesInv ==
  /\ Legal!Newest \in Nat
  /\ rows = Editions(Legal!Newest)
  /\ announced \in Nat /\ announced <= Legal!Newest
PublishInv ==
  /\ publish = [p \in Publishers |-> publish[p]]
  /\ \A p \in Publishers : publish[p] # Nothing =>
       /\ publish[p] \in Publishing
       /\ publish[p].at = "insert" => publish[p].next \in 1..(Legal!Newest + 1)
       /\ publish[p].at = "bump" => publish[p].next \in 1..Legal!Newest
Opened == {p \in Publishers : publish[p] # Nothing}
CounterInv ==
  /\ counter \in Nat /\ asked \in Nat /\ asked <= MaxVersions
  /\ counter + Cardinality(Opened) <= asked
CachedInv ==
  /\ pages \in [0..MaxVersions -> Nat \cup {Nothing}]
  /\ \A c \in 0..MaxVersions : c > counter => pages[c] = Nothing
  /\ pages[counter] # Nothing => pages[counter] >= announced
(* Reads under one counter began after the same announcement.                *)
VisitInv ==
  /\ visit = [r \in Readers |-> visit[r]]
  /\ \A r \in Readers : visit[r] # Nothing =>
       /\ visit[r] \in Reading /\ visit[r].after <= announced
       /\ visit[r].at \in {"get", "set"} => visit[r].under # Nothing
       /\ visit[r].at = "set" => visit[r].value >= visit[r].after
       /\ visit[r].under # Nothing =>
            /\ visit[r].under <= counter
            /\ visit[r].under = counter => visit[r].after = announced
            /\ pages[visit[r].under] # Nothing => pages[visit[r].under] >= visit[r].after
            /\ \A q \in Readers : visit[q] # Nothing /\ visit[q].under = visit[r].under =>
                 visit[q].after = visit[r].after
ServedInv == \A page \in served : page.version >= page.after
LegalInv == PagesInv /\ PublishInv /\ CounterInv /\ CachedInv /\ VisitInv /\ ServedInv

(* What the invariant says of the page.                                      *)
LEMMA ThePage ==
  ASSUME PagesInv
  PROVE  /\ Legal!Versions = 1..Legal!Newest
         /\ Legal!Current = IF Legal!Newest = 0 THEN {} ELSE {Legal!Newest}
         /\ Cardinality(rows) = Legal!Newest
<1> DEFINE n == Legal!Newest
<1>1. n \in Nat /\ rows = Editions(n)  BY DEF PagesInv
<1> HIDE DEF n
<1>2. /\ {x.version : x \in Editions(n)} = 1..n
      /\ {x.version : x \in {y \in Editions(n) : y.current}} = IF n = 0 THEN {} ELSE {n}
      /\ Cardinality(Editions(n)) = n
  BY <1>1, EditionsAre
<1>3. Legal!Versions = 1..n /\ Legal!Current = IF n = 0 THEN {} ELSE {n}
  BY <1>1, <1>2 DEF Legal!Versions, Legal!Current
<1> QED  BY <1>1, <1>2, <1>3 DEF n

(* What opens and closes a publication.                                     *)
LEMMA OpenedMoves ==
  ASSUME LegalAssumption, PublishInv, NEW p \in Publishers, NEW new,
         publish' = [publish EXCEPT ![p] = new]
  PROVE  /\ Cardinality(Opened) \in Nat /\ Cardinality(Opened') \in Nat
         /\ Cardinality(Opened') <= Cardinality(Opened) + 1
         /\ publish[p] # Nothing => Cardinality(Opened') <= Cardinality(Opened)
         /\ publish[p] # Nothing /\ new = Nothing =>
              Cardinality(Opened') = Cardinality(Opened) - 1
<1>1. \A q \in Publishers : publish'[q] = IF q = p THEN new ELSE publish[q]
  BY DEF PublishInv
<1>2. IsFiniteSet(Opened) /\ IsFiniteSet(Opened')
  <2>1. Opened \subseteq Publishers /\ Opened' \subseteq Publishers  BY DEF Opened
  <2> QED  BY <2>1, FS_Subset DEF LegalAssumption
<1>3. Cardinality(Opened) \in Nat /\ Cardinality(Opened') \in Nat
  BY <1>2, FS_CardinalityType
<1>4. Opened' \subseteq Opened \cup {p}  BY <1>1 DEF Opened
<1>5. /\ IsFiniteSet(Opened \cup {p})
      /\ Cardinality(Opened \cup {p}) <= Cardinality(Opened) + 1
  <2>1. /\ IsFiniteSet(Opened \cup {p})
        /\ Cardinality(Opened \cup {p}) =
             IF p \in Opened THEN Cardinality(Opened) ELSE Cardinality(Opened) + 1
    BY <1>2, FS_AddElement
  <2> QED  BY <1>3, <2>1
<1>6. Cardinality(Opened \cup {p}) \in Nat  BY <1>5, FS_CardinalityType
<1>7. Cardinality(Opened') <= Cardinality(Opened \cup {p})  BY <1>4, <1>5, FS_Subset
<1>8. ASSUME publish[p] # Nothing  PROVE Cardinality(Opened') <= Cardinality(Opened)
  <2>1. Opened \cup {p} = Opened  BY <1>8 DEF Opened
  <2> QED  BY <1>7, <2>1
<1>9. ASSUME publish[p] # Nothing, new = Nothing
      PROVE  Cardinality(Opened') = Cardinality(Opened) - 1
  <2>1. p \in Opened /\ Opened' = Opened \ {p}  BY <1>1, <1>9 DEF Opened
  <2> QED  BY <1>2, <2>1, FS_RemoveElement
<1> QED  BY <1>3, <1>5, <1>6, <1>7, <1>8, <1>9

(* A transaction that moves on as the invariant allows; the rows, the counter *)
(* and the reads are as they were.                                          *)
LEMMA Progress ==
  ASSUME LegalAssumption, LegalInv, NEW p \in Publishers,
         NEW new, new \in Publishing \cup {Nothing},
         publish' = [publish EXCEPT ![p] = new],
         new # Nothing =>
           /\ new.at = "insert" => new.next \in 1..(Legal!Newest + 1)
           /\ new.at = "bump" => new.next \in 1..Legal!Newest,
         asked' \in Nat, asked' <= MaxVersions,
         asked' = asked + 1 \/ (asked' = asked /\ publish[p] # Nothing),
         UNCHANGED <<rows, counter, pages, visit, served, announced>>
  PROVE  LegalInv'
<1>1. Legal!Newest' = Legal!Newest  BY DEF Legal!Newest, Legal!Versions
<1>2. PagesInv'  BY <1>1 DEF LegalInv, PagesInv
<1>3. PublishInv'  BY <1>1 DEF LegalInv, PublishInv
<1>4. CounterInv'
  <2>1. /\ Cardinality(Opened) \in Nat /\ Cardinality(Opened') \in Nat
        /\ Cardinality(Opened') <= Cardinality(Opened) + 1
        /\ publish[p] # Nothing => Cardinality(Opened') <= Cardinality(Opened)
    BY OpenedMoves DEF LegalInv
  <2> QED  BY <2>1 DEF LegalInv, CounterInv
<1>5. CachedInv' /\ VisitInv' /\ ServedInv'
  BY DEF LegalInv, CachedInv, VisitInv, ServedInv
<1> QED  BY <1>2, <1>3, <1>4, <1>5 DEF LegalInv

LEMMA SelectAndLock ==
  ASSUME LegalAssumption, LegalInv, NEW p \in Publishers,
         Legal!Select(p) \/ Legal!Lock(p)
  PROVE  LegalInv'
<1> USE DEF Legal!cached
<1>1. /\ Legal!Newest \in Nat /\ Legal!Versions = 1..Legal!Newest
      /\ Legal!Current = IF Legal!Newest = 0 THEN {} ELSE {Legal!Newest}
  BY ThePage DEF LegalInv, PagesInv
<1>2. Legal!Current \subseteq Nat  BY <1>1
<1>3. asked \in Nat /\ asked <= MaxVersions /\ MaxVersions \in Nat
  BY DEF LegalInv, CounterInv, LegalAssumption
<1>4. CASE Legal!Select(p)
  <2> DEFINE new == [at |-> "lock", seen |-> Legal!Current, mine |-> {}, next |-> 0]
  <2>1. /\ publish' = [publish EXCEPT ![p] = new]
        /\ asked < MaxVersions /\ asked' = asked + 1
        /\ UNCHANGED <<rows, counter, pages, visit, served, announced>>
    BY <1>4 DEF Legal!Select
  <2>2. new \in Publishing /\ new.at = "lock"  BY <1>2 DEF Publishing
  <2> HIDE DEF new
  <2>3. asked' \in Nat /\ asked' <= MaxVersions  BY <1>3, <2>1
  <2> QED  BY <2>1, <2>2, <2>3, Progress
<1>5. CASE Legal!Lock(p)
  <2>1. publish[p] # Nothing /\ publish[p] \in Publishing
    BY <1>5 DEF Legal!Lock, Legal!Step, LegalInv, PublishInv
  <2> DEFINE locked == publish[p].seen \cap Legal!Current
             k == Legal!Newest + 1
             new == [publish[p] EXCEPT !.at = "insert", !.mine = locked, !.next = k]
  <2>2. /\ publish' = [publish EXCEPT ![p] = new] /\ asked' = asked
        /\ UNCHANGED <<rows, counter, pages, visit, served, announced>>
    BY <1>5 DEF Legal!Lock
  <2>3. new \in Publishing /\ new.at = "insert" /\ new.next = k
    <3>1. locked \in SUBSET Nat /\ k \in Nat  BY <1>1, <1>2
    <3> HIDE DEF locked, k
    <3> QED  BY <2>1, <3>1 DEF Publishing
  <2>4. k \in 1..(Legal!Newest + 1)  BY <1>1
  <2> HIDE DEF new
  <2> QED  BY <1>3, <2>1, <2>2, <2>3, <2>4, Progress
<1> QED  BY <1>4, <1>5

LEMMA InsertKeeps ==
  ASSUME LegalAssumption, LegalInv, NEW p \in Publishers, Legal!Insert(p)
  PROVE  LegalInv'
<1> USE DEF Legal!cached
<1> DEFINE n == Legal!Newest
           kept == {[x EXCEPT !.current = x.current /\ x.version \notin publish[p].mine] : x \in rows}
           free == /\ publish[p].next \notin Legal!Versions
                   /\ \A x \in kept : ~x.current
<1>1. n \in Nat /\ rows = Editions(n) /\ Legal!Versions = 1..n
      /\ announced \in Nat /\ announced <= n
  BY ThePage DEF LegalInv, PagesInv
<1>2. /\ publish[p] # Nothing /\ publish[p] \in Publishing /\ publish[p].at = "insert"
      /\ publish[p].next \in 1..(n + 1)
  BY DEF Legal!Insert, Legal!Step, LegalInv, PublishInv
<1>3. /\ rows' = IF free THEN kept \cup {[version |-> publish[p].next, current |-> TRUE]} ELSE rows
      /\ publish' = [publish EXCEPT ![p] = IF free THEN [publish[p] EXCEPT !.at = "bump"] ELSE Nothing]
      /\ UNCHANGED <<asked, counter, pages, visit, served, announced>>
  BY DEF Legal!Insert
<1>4. CASE ~free
  <2>1. rows' = rows /\ publish' = [publish EXCEPT ![p] = Nothing]  BY <1>3, <1>4
  <2>2. asked \in Nat /\ asked <= MaxVersions  BY DEF LegalInv, CounterInv
  <2> HIDE DEF free, kept, n
  <2> QED  BY <1>2, <1>3, <2>1, <2>2, Progress
<1>5. CASE free
  <2> DEFINE new == [publish[p] EXCEPT !.at = "bump"]
  <2>1. publish[p].next = n + 1  BY <1>1, <1>2, <1>5
  <2>2. new \in Publishing /\ new.at = "bump" /\ new.next = n + 1
    BY <1>2, <2>1 DEF Publishing
  <2>3. rows' = kept \cup {Edition(n + 1, n + 1)} /\ publish' = [publish EXCEPT ![p] = new]
    BY <1>3, <1>5, <2>1 DEF Edition
  <2>4. kept = {Edition(n + 1, v) : v \in 1..n}
    <3>1. \A v \in 1..n : LET x == Edition(n, v) IN
            [x EXCEPT !.current = x.current /\ x.version \notin publish[p].mine] = Edition(n + 1, v)
      <4> TAKE v \in 1..n
      <4> DEFINE x == Edition(n, v)
                 y == [x EXCEPT !.current = x.current /\ x.version \notin publish[p].mine]
      <4>1. x \in rows  BY <1>1 DEF Editions
      <4>2. y \in kept  BY <4>1
      <4>3. ~y.current  BY <1>5, <4>2
      <4>4. y = [version |-> v, current |-> y.current] /\ y.current \in BOOLEAN
        BY DEF Edition
      <4>5. Edition(n + 1, v) = [version |-> v, current |-> FALSE]
        <5>1. (v = n + 1) = FALSE  BY <1>1
        <5> HIDE DEF n
        <5> QED  BY <5>1 DEF Edition
      <4> HIDE DEF y
      <4>6. y = Edition(n + 1, v)  BY <4>3, <4>4, <4>5
      <4> QED  BY <4>6 DEF y
    <3>2. kept = {LET x == Edition(n, v) IN
                    [x EXCEPT !.current = x.current /\ x.version \notin publish[p].mine] : v \in 1..n}
      BY <1>1 DEF Editions
    <3> HIDE DEF kept, n
    <3> QED  BY <3>1, <3>2
  <2> HIDE DEF free, kept, new
  <2>5. rows' = Editions(n + 1)
    <3>1. 1..(n + 1) = (1..n) \cup {n + 1}  BY <1>1
    <3> HIDE DEF n
    <3> QED  BY <2>3, <2>4, <3>1 DEF Editions
  <2>6. Legal!Newest' = n + 1
    <3> DEFINE m == n + 1
    <3>0. m \in Nat  BY <1>1
    <3>1. rows' = Editions(m)  BY <2>5
    <3> HIDE DEF m
    <3>2. {x.version : x \in Editions(m)} = 1..m  BY <3>0, EditionsAre
    <3>3. Legal!Versions' = 1..m  BY <3>1, <3>2 DEF Legal!Versions
    <3>4. Legal!Newest' = Legal!Max((1..m) \cup {0})  BY <3>3 DEF Legal!Newest
    <3>5. (1..m) \cup {0} \subseteq 0..m /\ m \in (1..m) \cup {0}  BY <3>0
    <3>6. Legal!Max((1..m) \cup {0}) = m  BY <3>0, <3>5, Maxima
    <3> QED  BY <3>4, <3>6 DEF m
  <2>7. PagesInv'
    <3>1. announced' \in Nat /\ announced' <= n + 1 /\ n + 1 \in Nat  BY <1>1, <1>3
    <3> QED  BY <2>5, <2>6, <3>1 DEF PagesInv
  <2>8. PublishInv'
    <3>1. publish' = [q \in Publishers |-> publish'[q]]  BY <2>3 DEF LegalInv, PublishInv
    <3>2. ASSUME NEW q \in Publishers, publish'[q] # Nothing
          PROVE  /\ publish'[q] \in Publishing
                 /\ publish'[q].at = "insert" => publish'[q].next \in 1..(n + 1 + 1)
                 /\ publish'[q].at = "bump" => publish'[q].next \in 1..(n + 1)
      <4>1. CASE q = p
        <5>1. publish'[q] = new  BY <2>3, <4>1 DEF LegalInv, PublishInv
        <5> QED  BY <1>1, <2>2, <5>1
      <4>2. CASE q # p
        <5>1. publish'[q] = publish[q]  BY <2>3, <4>2 DEF LegalInv, PublishInv
        <5> QED  BY <1>1, <3>2, <5>1 DEF LegalInv, PublishInv
      <4> QED  BY <4>1, <4>2
    <3> QED  BY <2>6, <3>1, <3>2 DEF PublishInv
  <2>9. CounterInv'
    <3>1. /\ Cardinality(Opened) \in Nat /\ Cardinality(Opened') \in Nat
          /\ Cardinality(Opened') <= Cardinality(Opened)
      BY <1>2, <2>3, OpenedMoves DEF LegalInv
    <3> QED  BY <1>3, <3>1 DEF LegalInv, CounterInv
  <2>10. CachedInv' /\ VisitInv' /\ ServedInv'
    BY <1>3 DEF LegalInv, CachedInv, VisitInv, ServedInv
  <2> QED  BY <2>7, <2>8, <2>9, <2>10 DEF LegalInv
<1> QED  BY <1>4, <1>5

LEMMA BumpKeeps ==
  ASSUME LegalAssumption, LegalInv, NEW p \in Publishers, Legal!Bump(p)
  PROVE  LegalInv'
<1>1. /\ publish[p] # Nothing /\ publish[p] \in Publishing
      /\ publish[p].next \in 1..Legal!Newest
  BY DEF Legal!Bump, Legal!Step, LegalInv, PublishInv
<1>2. /\ publish' = [publish EXCEPT ![p] = Nothing]
      /\ UNCHANGED <<rows, pages, visit, served, asked>>
  BY DEF Legal!Bump
<1>3. Legal!Newest' = Legal!Newest  BY <1>2 DEF Legal!Newest, Legal!Versions
<1>4. CASE counter' = counter /\ announced' = announced
  <2>1. asked \in Nat /\ asked <= MaxVersions  BY DEF LegalInv, CounterInv
  <2> QED  BY <1>1, <1>2, <1>4, <2>1, Progress
<1>5. CASE counter' = counter + 1 /\ announced' = Legal!Max({announced, publish[p].next})
  <2>1. Legal!Newest \in Nat /\ announced \in Nat /\ announced <= Legal!Newest
    BY DEF LegalInv, PagesInv
  <2>2. announced' \in Nat /\ announced <= announced' /\ announced' <= Legal!Newest
    <3> DEFINE a == announced
               b == publish[p].next
    <3>1. a \in Nat /\ b \in Nat /\ a <= Legal!Newest /\ b <= Legal!Newest
      BY <1>1, <2>1
    <3>2. announced' = Legal!Max({a, b})  BY <1>5
    <3> HIDE DEF a, b
    <3>3. CASE a <= b
      <4>1. {a, b} \subseteq 0..b  BY <3>1, <3>3
      <4>2. Legal!Max({a, b}) = b  BY <3>1, <4>1, Maxima
      <4> QED  BY <3>1, <3>2, <3>3, <4>2 DEF a
    <3>4. CASE b <= a
      <4>1. {a, b} \subseteq 0..a  BY <3>1, <3>4
      <4>2. Legal!Max({a, b}) = a  BY <3>1, <4>1, Maxima
      <4> QED  BY <3>1, <3>2, <4>2 DEF a
    <3> QED  BY <3>1, <3>3, <3>4
  <2>3. PagesInv'  BY <1>2, <1>3, <2>2 DEF LegalInv, PagesInv
  <2>4. PublishInv'  BY <1>2, <1>3 DEF LegalInv, PublishInv
  <2>5. /\ Cardinality(Opened) \in Nat /\ Cardinality(Opened') \in Nat
        /\ Cardinality(Opened') = Cardinality(Opened) - 1
    BY <1>1, <1>2, OpenedMoves DEF LegalInv
  <2>6. CounterInv'  BY <1>2, <1>5, <2>5 DEF LegalInv, CounterInv
  <2>7. counter \in Nat /\ counter + 1 \in 0..MaxVersions
    BY <2>5 DEF LegalInv, CounterInv, LegalAssumption
  <2>8. pages[counter + 1] = Nothing  BY <2>7 DEF LegalInv, CachedInv
  <2>9. CachedInv'
    BY <1>2, <1>5, <2>7, <2>8 DEF LegalInv, CachedInv
  <2>10. VisitInv'
    <3>1. ASSUME NEW r \in Readers, visit[r] # Nothing
          PROVE  /\ visit[r].after <= announced'
                 /\ visit[r].under # Nothing => visit[r].under <= counter' /\ visit[r].under # counter'
      <4>1. visit[r] \in Reading /\ visit[r].after <= announced
        BY <3>1 DEF LegalInv, VisitInv
      <4>2. visit[r].under # Nothing => visit[r].under <= counter /\ visit[r].under \in Nat
        BY <3>1, <4>1 DEF LegalInv, VisitInv, Reading
      <4>3. visit[r].after \in Nat  BY <4>1 DEF Reading
      <4> QED  BY <1>5, <2>1, <2>2, <2>7, <4>1, <4>2, <4>3
    <3> QED  BY <1>2, <3>1 DEF LegalInv, VisitInv
  <2>11. ServedInv'  BY <1>2 DEF LegalInv, ServedInv
  <2> QED  BY <2>3, <2>4, <2>6, <2>9, <2>10, <2>11 DEF LegalInv
<1> QED  BY <1>4, <1>5 DEF Legal!Bump

(* A read that takes its next step, or ends: the pages stored are as they were. *)
LEMMA ReadMoves ==
  ASSUME LegalAssumption, LegalInv, NEW r \in Readers,
         NEW new, new \in Reading \cup {Nothing},
         visit' = [visit EXCEPT ![r] = new],
         UNCHANGED <<counter, pages, announced>>,
         new # Nothing =>
           /\ new.after <= announced
           /\ new.at \in {"get", "set"} => new.under # Nothing
           /\ new.at = "set" => new.value >= new.after
           /\ new.under # Nothing =>
                /\ new.under <= counter
                /\ new.under = counter => new.after = announced
                /\ pages[new.under] # Nothing => pages[new.under] >= new.after
                /\ \A q \in Readers : visit[q] # Nothing /\ visit[q].under = new.under =>
                     visit[q].after = new.after
  PROVE  VisitInv'
<1>1. \A q \in Readers : visit'[q] = IF q = r THEN new ELSE visit[q]
  BY DEF LegalInv, VisitInv
<1>2. visit' = [q \in Readers |-> visit'[q]]  BY DEF LegalInv, VisitInv
<1>3. ASSUME NEW q \in Readers, visit'[q] # Nothing
      PROVE  /\ visit'[q] \in Reading /\ visit'[q].after <= announced
             /\ visit'[q].at \in {"get", "set"} => visit'[q].under # Nothing
             /\ visit'[q].at = "set" => visit'[q].value >= visit'[q].after
             /\ visit'[q].under # Nothing =>
                  /\ visit'[q].under <= counter
                  /\ visit'[q].under = counter => visit'[q].after = announced
                  /\ pages[visit'[q].under] # Nothing => pages[visit'[q].under] >= visit'[q].after
  <2>1. CASE q = r
    <3>1. visit'[q] = new  BY <1>1, <2>1
    <3> QED  BY <1>3, <3>1
  <2>2. CASE q # r
    <3>1. visit'[q] = visit[q]  BY <1>1, <2>2
    <3> QED  BY <1>3, <3>1 DEF LegalInv, VisitInv
  <2> QED  BY <2>1, <2>2
<1>4. ASSUME NEW q \in Readers, visit'[q] # Nothing, visit'[q].under # Nothing,
             NEW t \in Readers, visit'[t] # Nothing, visit'[t].under = visit'[q].under
      PROVE  visit'[t].after = visit'[q].after
  <2>1. CASE q = r /\ t = r
    BY <2>1
  <2>2. CASE q = r /\ t # r
    <3>1. visit'[q] = new /\ visit'[t] = visit[t]  BY <1>1, <2>2
    <3> QED  BY <1>4, <3>1
  <2>3. CASE q # r /\ t = r
    <3>1. visit'[q] = visit[q] /\ visit'[t] = new  BY <1>1, <2>3
    <3> QED  BY <1>4, <3>1
  <2>4. CASE q # r /\ t # r
    <3>1. visit'[q] = visit[q] /\ visit'[t] = visit[t]  BY <1>1, <2>4
    <3> QED  BY <1>4, <3>1 DEF LegalInv, VisitInv
  <2> QED  BY <2>1, <2>2, <2>3, <2>4
<1> QED  BY <1>2, <1>3, <1>4 DEF VisitInv

(* The pages, the publications and the counter are not a reader's to change.  *)
LEMMA ReadersLeave ==
  ASSUME LegalInv, UNCHANGED <<rows, publish, asked, counter, announced>>
  PROVE  PagesInv' /\ PublishInv' /\ CounterInv'
<1>1. Legal!Newest' = Legal!Newest  BY DEF Legal!Newest, Legal!Versions
<1>2. Cardinality(Opened)' = Cardinality(Opened)  BY DEF Opened
<1> QED  BY <1>1, <1>2 DEF LegalInv, PagesInv, PublishInv, CounterInv

LEMMA ReadingSteps ==
  ASSUME LegalAssumption, LegalInv, NEW r \in Readers,
         Legal!ReadVersion(r) \/ Legal!Get(r) \/ Legal!Load(r)
  PROVE  LegalInv'
<1>1. UNCHANGED <<rows, publish, asked, counter, announced, pages>>
  BY DEF Legal!ReadVersion, Legal!Get, Legal!Load, Legal!pages
<1>2. PagesInv' /\ PublishInv' /\ CounterInv'  BY <1>1, ReadersLeave
<1>3. CachedInv'  BY <1>1 DEF LegalInv, CachedInv
<1>4. /\ announced \in Nat /\ counter \in 0..MaxVersions
      /\ Legal!Newest \in Nat /\ announced <= Legal!Newest
  <2>1. Cardinality(Opened) \in Nat
    <3>1. Opened \subseteq Publishers  BY DEF Opened
    <3> QED  BY <3>1, FS_Subset, FS_CardinalityType DEF LegalAssumption
  <2> QED  BY <2>1 DEF LegalInv, CounterInv, PagesInv, LegalAssumption
<1>5. CASE visit[r] = Nothing
  <2>0. Legal!ReadVersion(r)  BY <1>5 DEF Legal!Get, Legal!Load, Legal!At
  <2>1. served' = served  BY <2>0 DEF Legal!ReadVersion
  <2>2. CASE visit' = [visit EXCEPT ![r] = [at |-> "get", under |-> counter, value |-> 0, after |-> announced]]
    <3> DEFINE new == [at |-> "get", under |-> counter, value |-> 0, after |-> announced]
    <3>1. /\ new \in Reading /\ new.at = "get" /\ new.under = counter /\ new.after = announced
      BY <1>4 DEF Reading
    <3>2. visit' = [visit EXCEPT ![r] = new]  BY <2>2
    <3> HIDE DEF new
    <3>3. pages[counter] # Nothing => pages[counter] >= announced  BY DEF LegalInv, CachedInv
    <3>4. counter # Nothing /\ counter \in Nat  BY <1>4 DEF LegalAssumption
    <3>5. \A q \in Readers : visit[q] # Nothing /\ visit[q].under = counter =>
            visit[q].after = announced
      BY <3>4 DEF LegalInv, VisitInv
    <3>6. /\ new.after <= announced /\ new.at # "set"
          /\ new.under # Nothing /\ new.under <= counter
          /\ new.under = counter => new.after = announced
          /\ pages[new.under] # Nothing => pages[new.under] >= new.after
          /\ \A q \in Readers : visit[q] # Nothing /\ visit[q].under = new.under =>
               visit[q].after = new.after
      BY <1>4, <3>1, <3>3, <3>4, <3>5
    <3>7. VisitInv'  BY <1>1, <3>1, <3>2, <3>6, ReadMoves
    <3> QED  BY <1>2, <1>3, <2>1, <3>7 DEF LegalInv, ServedInv
  <2>3. CASE visit' = [visit EXCEPT ![r] = [at |-> "load", under |-> Nothing, value |-> 0, after |-> announced]]
    <3> DEFINE new == [at |-> "load", under |-> Nothing, value |-> 0, after |-> announced]
    <3>1. /\ new \in Reading /\ new.at = "load" /\ new.under = Nothing /\ new.after = announced
      BY <1>4 DEF Reading
    <3>2. visit' = [visit EXCEPT ![r] = new]  BY <2>3
    <3> HIDE DEF new
    <3>3. new.after <= announced /\ new.at \notin {"get", "set"} /\ new.under = Nothing
      BY <1>4, <3>1
    <3>4. VisitInv'  BY <1>1, <3>1, <3>2, <3>3, ReadMoves
    <3> QED  BY <1>2, <1>3, <2>1, <3>4 DEF LegalInv, ServedInv
  <2> QED  BY <2>0, <2>2, <2>3 DEF Legal!ReadVersion
<1>6. CASE visit[r] # Nothing
  <2> DEFINE v == visit[r]
  <2>1. /\ v \in Reading /\ v.after <= announced /\ v.after \in Nat
        /\ v.at \in {"get", "set"} => v.under # Nothing
        /\ v.under # Nothing =>
             /\ v.under <= counter
             /\ v.under = counter => v.after = announced
             /\ pages[v.under] # Nothing => pages[v.under] >= v.after
             /\ \A q \in Readers : visit[q] # Nothing /\ visit[q].under = v.under =>
                  visit[q].after = v.after
    BY <1>6 DEF LegalInv, VisitInv, Reading
  <2>2. Legal!Get(r) \/ Legal!Load(r)  BY <1>6 DEF Legal!ReadVersion
  <2>3. ASSUME NEW page, Legal!Serve(r, page), page >= v.after
        PROVE  LegalInv'
    <3>1. visit' = [visit EXCEPT ![r] = Nothing]
          /\ served' = served \cup {[version |-> page, after |-> v.after]}
      BY <2>3 DEF Legal!Serve
    <3>2. VisitInv'  BY <1>1, <3>1, ReadMoves
    <3>3. ServedInv'  BY <2>3, <3>1 DEF LegalInv, ServedInv
    <3> QED  BY <1>2, <1>3, <3>2, <3>3 DEF LegalInv
  <2>4. CASE Legal!Get(r)
    <3>1. v.at = "get" /\ v.under # Nothing  BY <2>1, <2>4 DEF Legal!Get, Legal!At
    <3>2. CASE pages[v.under] # Nothing
      <4>1. Legal!Serve(r, pages[v.under])  BY <2>4, <3>2 DEF Legal!Get
      <4>2. pages[v.under] >= v.after  BY <2>1, <3>1, <3>2
      <4> QED  BY <2>3, <4>1, <4>2
    <3>3. CASE pages[v.under] = Nothing
      <4>1. visit' = [visit EXCEPT ![r].at = "load"] /\ served' = served
        BY <2>4, <3>3 DEF Legal!Get
      <4> DEFINE new == [visit[r] EXCEPT !.at = "load"]
      <4>2. visit' = [visit EXCEPT ![r] = new]
        BY <4>1 DEF LegalInv, VisitInv
      <4>3. /\ new \in Reading /\ new.at = "load"
            /\ new.under = v.under /\ new.after = v.after
        BY <2>1 DEF Reading
      <4> HIDE DEF new, v
      <4>4. VisitInv'  BY <1>1, <2>1, <4>2, <4>3, ReadMoves
      <4> QED  BY <1>2, <1>3, <4>1, <4>4 DEF LegalInv, ServedInv
    <3> QED  BY <3>2, <3>3
  <2>5. CASE Legal!Load(r)
    <3>1. Legal!Current = IF Legal!Newest = 0 THEN {} ELSE {Legal!Newest}
      BY ThePage DEF LegalInv
    <3>2. CASE Legal!Current = {}
      <4>1. visit' = [visit EXCEPT ![r] = Nothing] /\ served' = served
        BY <2>5, <3>2 DEF Legal!Load
      <4>2. VisitInv'  BY <1>1, <4>1, ReadMoves
      <4> QED  BY <1>2, <1>3, <4>1, <4>2 DEF LegalInv, ServedInv
    <3>3. CASE Legal!Current # {}
      <4> DEFINE page == Legal!Max(Legal!Current)
      <4>1. page = Legal!Newest
        <5>1. Legal!Current = {Legal!Newest}  BY <3>1, <3>3
        <5>2. {Legal!Newest} \subseteq 0..Legal!Newest  BY <1>4
        <5> QED  BY <1>4, <5>1, <5>2, Maxima
      <4>2. page \in Nat /\ page >= v.after  BY <1>4, <2>1, <4>1
      <4>3. CASE v.under = Nothing
        <5>1. Legal!Serve(r, page)  BY <2>5, <3>3, <4>3 DEF Legal!Load
        <5> QED  BY <2>3, <4>2, <5>1
      <4>4. CASE v.under # Nothing
        <5> DEFINE new == [visit[r] EXCEPT !.at = "set", !.value = page]
        <5>1. visit' = [visit EXCEPT ![r] = new] /\ served' = served
          BY <2>5, <3>3, <4>4 DEF Legal!Load
        <5> HIDE DEF page
        <5>2. /\ new \in Reading /\ new.at = "set" /\ new.value = page
              /\ new.under = v.under /\ new.after = v.after
          BY <2>1, <4>2 DEF Reading
        <5> HIDE DEF new, v
        <5>3. VisitInv'  BY <1>1, <2>1, <4>2, <4>4, <5>1, <5>2, ReadMoves
        <5> QED  BY <1>2, <1>3, <5>1, <5>3 DEF LegalInv, ServedInv
      <4> QED  BY <4>3, <4>4
    <3> QED  BY <3>2, <3>3
  <2> QED  BY <2>2, <2>4, <2>5
<1> QED  BY <1>5, <1>6

LEMMA SetKeeps ==
  ASSUME LegalAssumption, LegalInv, NEW r \in Readers, Legal!Set(r)
  PROVE  LegalInv'
<1> DEFINE v == visit[r]
<1>1. UNCHANGED <<rows, publish, asked, counter, announced>>
  BY DEF Legal!Set, Legal!pages
<1>2. PagesInv' /\ PublishInv' /\ CounterInv'  BY <1>1, ReadersLeave
<1>3. /\ v # Nothing /\ v \in Reading /\ v.under # Nothing /\ v.value >= v.after
      /\ v.under <= counter /\ v.under \in 0..MaxVersions
      /\ v.under = counter => v.after = announced
      /\ \A q \in Readers : visit[q] # Nothing /\ visit[q].under = v.under =>
           visit[q].after = v.after
  BY DEF Legal!Set, Legal!At, LegalInv, VisitInv, Reading
<1>4. v.value \in Nat /\ v.after \in Nat  BY <1>3 DEF Reading
<1>5. /\ pages' = [pages EXCEPT ![v.under] = v.value] \/ pages' = pages
      /\ visit' = [visit EXCEPT ![r] = Nothing]
      /\ served' = served \cup {[version |-> v.value, after |-> v.after]}
  BY DEF Legal!Set, Legal!Under, Legal!Serve
<1> HIDE DEF v
<1>6. pages \in [0..MaxVersions -> Nat \cup {Nothing}] /\ counter \in Nat
  BY DEF LegalInv, CachedInv, CounterInv
<1>7. ASSUME NEW c \in 0..MaxVersions
      PROVE  pages'[c] = pages[c] \/ (c = v.under /\ pages'[c] = v.value)
  BY <1>5, <1>6
<1>8. pages' \in [0..MaxVersions -> Nat \cup {Nothing}]
  BY <1>4, <1>5, <1>6
<1>9. CachedInv'
  <2>1. ASSUME NEW c \in 0..MaxVersions, c > counter  PROVE pages'[c] = Nothing
    <3>1. c # v.under  BY <1>3, <1>6, <2>1
    <3> QED  BY <1>7, <2>1, <3>1 DEF LegalInv, CachedInv
  <2>2. ASSUME pages'[counter] # Nothing  PROVE pages'[counter] >= announced
    <3>0. counter \in 0..MaxVersions
      <4>1. Cardinality(Opened) \in Nat
        <5>1. Opened \subseteq Publishers  BY DEF Opened
        <5> QED  BY <5>1, FS_Subset, FS_CardinalityType DEF LegalAssumption
      <4> QED  BY <4>1 DEF LegalInv, CounterInv, LegalAssumption
    <3>1. CASE pages'[counter] = pages[counter]
      BY <2>2, <3>1 DEF LegalInv, CachedInv
    <3>2. CASE counter = v.under /\ pages'[counter] = v.value
      BY <1>3, <3>2
    <3> QED  BY <1>7, <3>0, <3>1, <3>2
  <2> QED  BY <1>1, <1>8, <2>1, <2>2 DEF CachedInv
<1>10. VisitInv'
  <2>1. visit' = [q \in Readers |-> visit'[q]]  BY <1>5 DEF LegalInv, VisitInv
  <2>2. \A q \in Readers : visit'[q] # Nothing => visit'[q] = visit[q]
    BY <1>5 DEF LegalInv, VisitInv
  <2>3. ASSUME NEW q \in Readers, visit[q] # Nothing, visit[q].under # Nothing,
               pages'[visit[q].under] # Nothing
        PROVE  pages'[visit[q].under] >= visit[q].after
    <3>1. visit[q].under \in 0..MaxVersions  BY <2>3 DEF LegalInv, VisitInv, Reading
    <3>2. CASE pages'[visit[q].under] = pages[visit[q].under]
      BY <2>3, <3>2 DEF LegalInv, VisitInv
    <3>3. CASE visit[q].under = v.under /\ pages'[visit[q].under] = v.value
      <4>1. visit[q].after = v.after  BY <1>3, <2>3, <3>3
      <4> QED  BY <1>3, <3>3, <4>1
    <3> QED  BY <1>7, <3>1, <3>2, <3>3
  <2>4. ASSUME NEW q \in Readers, visit'[q] # Nothing
        PROVE  /\ visit[q] # Nothing /\ visit'[q] = visit[q]
               /\ visit[q] \in Reading /\ visit[q].after <= announced
               /\ visit[q].at \in {"get", "set"} => visit[q].under # Nothing
               /\ visit[q].at = "set" => visit[q].value >= visit[q].after
               /\ visit[q].under # Nothing =>
                    /\ visit[q].under <= counter
                    /\ visit[q].under = counter => visit[q].after = announced
                    /\ \A t \in Readers : visit[t] # Nothing /\ visit[t].under = visit[q].under =>
                         visit[t].after = visit[q].after
    <3>1. visit'[q] = visit[q] /\ visit[q] # Nothing  BY <2>2, <2>4
    <3> QED  BY <3>1 DEF LegalInv, VisitInv
  <2> QED  BY <1>1, <2>1, <2>2, <2>3, <2>4 DEF VisitInv
<1>11. ServedInv'  BY <1>3, <1>5 DEF LegalInv, ServedInv
<1> QED  BY <1>2, <1>9, <1>10, <1>11 DEF LegalInv

LEMMA ExpireKeeps ==
  ASSUME LegalAssumption, LegalInv, NEW c \in 0..MaxVersions, Legal!Expire(c)
  PROVE  LegalInv'
<1>1. /\ UNCHANGED <<rows, publish, asked, counter, announced, visit, served>>
      /\ pages' = [pages EXCEPT ![c] = Nothing]
  BY DEF Legal!Expire, Legal!pages
<1>2. PagesInv' /\ PublishInv' /\ CounterInv'  BY <1>1, ReadersLeave
<1>3. pages \in [0..MaxVersions -> Nat \cup {Nothing}]  BY DEF LegalInv, CachedInv
<1>4. /\ pages' \in [0..MaxVersions -> Nat \cup {Nothing}]
      /\ \A d \in 0..MaxVersions : pages'[d] # Nothing => pages'[d] = pages[d]
  BY <1>1, <1>3
<1>5. counter \in 0..MaxVersions
  <2>1. Cardinality(Opened) \in Nat
    <3>1. Opened \subseteq Publishers  BY DEF Opened
    <3> QED  BY <3>1, FS_Subset, FS_CardinalityType DEF LegalAssumption
  <2> QED  BY <2>1 DEF LegalInv, CounterInv, LegalAssumption
<1>6. CachedInv'  BY <1>1, <1>4, <1>5 DEF LegalInv, CachedInv
<1>7. VisitInv'
  <2>1. ASSUME NEW q \in Readers, visit[q] # Nothing, visit[q].under # Nothing,
               pages'[visit[q].under] # Nothing
        PROVE  pages'[visit[q].under] >= visit[q].after
    <3>1. visit[q].under \in 0..MaxVersions  BY <2>1 DEF LegalInv, VisitInv, Reading
    <3>2. pages'[visit[q].under] = pages[visit[q].under]  BY <1>4, <2>1, <3>1
    <3> QED  BY <2>1, <3>2 DEF LegalInv, VisitInv
  <2> QED  BY <1>1, <2>1 DEF LegalInv, VisitInv
<1>8. ServedInv'  BY <1>1 DEF LegalInv, ServedInv
<1> QED  BY <1>2, <1>6, <1>7, <1>8 DEF LegalInv

LEMMA LegalStart == ASSUME LegalAssumption, Legal!Init PROVE LegalInv
<1>1. /\ rows = {} /\ publish = [p \in Publishers |-> Nothing]
      /\ counter = 0 /\ pages = [c \in 0..MaxVersions |-> Nothing]
      /\ visit = [r \in Readers |-> Nothing] /\ served = {}
      /\ asked = 0 /\ announced = 0
  BY DEF Legal!Init
<1>2. Legal!Newest = 0
  <2>1. Legal!Versions \cup {0} = {0}  BY <1>1 DEF Legal!Versions
  <2>2. {0} \subseteq 0..0 /\ 0 \in {0}  OBVIOUS
  <2>3. Legal!Max({0}) = 0  BY <2>2, Maxima
  <2> QED  BY <2>1, <2>3 DEF Legal!Newest
<1>3. PagesInv  BY <1>1, <1>2 DEF PagesInv, Editions
<1>4. PublishInv  BY <1>1 DEF PublishInv
<1>5. CounterInv
  <2>1. Opened = {}  BY <1>1 DEF Opened
  <2> QED  BY <1>1, <2>1, FS_EmptySet DEF CounterInv, LegalAssumption
<1>6. CachedInv /\ VisitInv /\ ServedInv
  BY <1>1 DEF CachedInv, VisitInv, ServedInv, LegalAssumption
<1> QED  BY <1>3, <1>4, <1>5, <1>6 DEF LegalInv

LEMMA LegalSteps ==
  ASSUME LegalAssumption PROVE LegalInv /\ [Legal!Next]_legal => LegalInv'
<1> SUFFICES ASSUME LegalInv, [Legal!Next]_legal PROVE LegalInv'  OBVIOUS
<1>1. CASE UNCHANGED legal
  <2>1. UNCHANGED <<rows, publish, counter, pages, visit, served, asked, announced>>
    BY <1>1 DEF legal
  <2>2. PagesInv' /\ PublishInv' /\ CounterInv'  BY <2>1, ReadersLeave
  <2>3. CachedInv' /\ VisitInv' /\ ServedInv'
    BY <2>1 DEF LegalInv, CachedInv, VisitInv, ServedInv
  <2> QED  BY <2>2, <2>3 DEF LegalInv
<1>2. ASSUME NEW p \in Publishers,
             Legal!Select(p) \/ Legal!Lock(p) \/ Legal!Insert(p) \/ Legal!Bump(p)
      PROVE  LegalInv'
  <2>1. CASE Legal!Select(p) \/ Legal!Lock(p)  BY <2>1, SelectAndLock
  <2>2. CASE Legal!Insert(p)  BY <2>2, InsertKeeps
  <2>3. CASE Legal!Bump(p)  BY <2>3, BumpKeeps
  <2> QED  BY <1>2, <2>1, <2>2, <2>3
<1>3. ASSUME NEW r \in Readers,
             Legal!ReadVersion(r) \/ Legal!Get(r) \/ Legal!Load(r) \/ Legal!Set(r)
      PROVE  LegalInv'
  <2>1. CASE Legal!ReadVersion(r) \/ Legal!Get(r) \/ Legal!Load(r)  BY <2>1, ReadingSteps
  <2>2. CASE Legal!Set(r)  BY <2>2, SetKeeps
  <2> QED  BY <1>3, <2>1, <2>2
<1>4. ASSUME NEW c \in 0..MaxVersions, Legal!Expire(c)  PROVE LegalInv'
  BY <1>4, ExpireKeeps
<1> QED  BY <1>1, <1>2, <1>3, <1>4 DEF Legal!Next

(* What the runs check of the reads: "two concurrent publishes can't both     *)
(* claim is_current" and no read that begins after a bump is served an older  *)
(* page (content/service.py); a walk of a list whose rows move under it misses *)
(* and repeats no row that stays ("the ordering stays total", listings/        *)
(* repository.py); and no statement reaches another tenant's rows.  Each of    *)
(* the three has an invariant of its own.                                   *)
THEOREM ReadsSound ==
  ASSUME LegalAssumption, PagingAssumption, TenantsAreUuids
  PROVE  AnySpec => []ReadsAreSound
<1> DEFINE Inv == LegalInv /\ PageInv /\ RlsInv
<1>1. AnyInit => Inv
  BY LegalStart, WalkStart, RlsStart DEF AnyInit
<1>2. Inv /\ [AnyNext]_all => Inv'
  <2> SUFFICES ASSUME Inv, [AnyNext]_all PROVE Inv'  OBVIOUS
  <2>1. [Legal!Next]_legal  BY DEF AnyNext, all
  <2>2. [Lists!Next]_walk  BY DEF AnyNext, all
  <2>3. [Rls!Next]_rls  BY DEF AnyNext, all
  <2>4. [Rls!Next]_Rls!isolationVars  BY <2>3 DEF rls, Rls!isolationVars
  <2>5. LegalInv'  BY <2>1, LegalSteps
  <2>6. PageInv'  BY <2>2, WalkSteps
  <2>7. RlsInv'  BY <2>4, RlsStep
  <2> QED  BY <2>5, <2>6, <2>7
<1>3. Inv => ReadsAreSound
  <2> SUFFICES ASSUME Inv PROVE ReadsAreSound  OBVIOUS
  <2>1. Legal!ReadersSeeTheCurrentPage
    <3>1. /\ Legal!Newest \in Nat /\ rows = Editions(Legal!Newest)
          /\ Legal!Current = IF Legal!Newest = 0 THEN {} ELSE {Legal!Newest}
          /\ Cardinality(rows) = Legal!Newest
      BY ThePage DEF LegalInv, PagesInv
    <3>2. rows # {} => Legal!Newest # 0  BY <3>1 DEF Editions
    <3>3. Legal!Cardinality(rows) = Cardinality(rows)
      BY DEF Legal!Cardinality, Cardinality
    <3> QED  BY <3>1, <3>2, <3>3 DEF LegalInv, ServedInv, Legal!ReadersSeeTheCurrentPage
  <2>2. Lists!WalkIsComplete
    BY DEF PageInv, WalkInv, PageType, Lists!WalkIsComplete
  <2>3. Rls!TenantsAreIsolated  BY DEF RlsInv
  <2> QED  BY <2>1, <2>2, <2>3 DEF ReadsAreSound
<1> HIDE DEF Inv
<1> QED  BY <1>1, <1>2, <1>3, PTL DEF AnySpec
=============================================================================
