------------------------------ MODULE Isolation ------------------------------
(***************************************************************************)
(* Row-level security (core/rls.py) and the transactions that name their      *)
(* tenant for it (core/database.py, workers/db.py).  Connections are pooled:  *)
(* app.tenant_id is set for one transaction, and PostgreSQL leaves an empty   *)
(* string behind, which is not "never set".  A statement may be wrong about   *)
(* the rows it names; the policy decides which it reaches.                   *)
(*                                                                          *)
(* Abstracted: columns, queries and what they change: a statement names any   *)
(* set of the rows there could be.  The owner role, which no policy binds,     *)
(* runs migrations and partition maintenance only.                          *)
(***************************************************************************)
EXTENDS Naturals, FiniteSets

CONSTANTS Tenants, Connections, Nothing,
          Platform,      \* the NULL tenant of platform staff
          MaxStatements  \* bound: transactions begun and statements

(* The rows there could be: those of users, sessions and oauth_identities      *)
(* ("identity") may belong to the platform, all others have a tenant.       *)
Row == [table : {"tenant"}, owner : Tenants] \cup [table : {"identity"}, owner : Tenants \cup {Platform}]

VARIABLES
  guc,        \* [Connections -> app.tenant_id: Nothing if never set, "" or a tenant]
  work,       \* [Connections -> Nothing or the open transaction: for whom, and whether it failed]
  statements,
  reached     \* history: rows read or written, each with whom that was for

isolationVars == <<guc, work, statements, reached>>

Init ==
  /\ guc = [c \in Connections |-> Nothing]
  /\ work = [c \in Connections |-> Nothing]
  /\ statements = 0 /\ reached = {}

Spend == statements < MaxStatements /\ statements' = statements + 1

(* get_session and _scoped_transaction: a request on a tenant's host and a    *)
(* task of a tenant set the variable, for this transaction; platform         *)
(* requests, and sweeps over the table of tenants, do not.                  *)
Begin(c, who) ==
  /\ work[c] = Nothing
  /\ Spend
  /\ work' = [work EXCEPT ![c] = [for |-> who, failed |-> FALSE]]
  /\ guc' = IF who = Platform THEN guc ELSE [guc EXCEPT ![c] = who]
  /\ UNCHANGED reached

(* set_config(..., is_local): what is left when the transaction ends.       *)
AfterTransaction(c) == IF guc[c] = Nothing THEN Nothing ELSE ""

(* The policy of tenant tables reads the variable without missing_ok and      *)
(* casts it: unless it names a tenant the statement is an error.            *)
Errors(c, row) == row.table = "tenant" /\ guc[c] \notin Tenants

(* The policy of identity tables takes no tenant for the platform's.        *)
Scope(c) == IF guc[c] \in Tenants THEN guc[c] ELSE Platform
Visible(c, row) ==
  IF row.table = "tenant" THEN row.owner = guc[c] ELSE row.owner = Scope(c)

Reach(c, rows) == reached' = reached \cup {[row |-> row, for |-> work[c].for] : row \in rows}

(* A statement reads or changes what it may see of the rows it names.       *)
Statement(c, rows) ==
  /\ work[c] # Nothing /\ ~work[c].failed
  /\ Spend
  /\ IF \E row \in rows : Errors(c, row)
     THEN work' = [work EXCEPT ![c].failed = TRUE] /\ UNCHANGED reached
     ELSE Reach(c, {row \in rows : Visible(c, row)}) /\ UNCHANGED work
  /\ UNCHANGED guc

(* The policy is also the check of a row that is inserted.                  *)
Insert(c, row) ==
  /\ work[c] # Nothing /\ ~work[c].failed
  /\ Spend
  /\ IF Errors(c, row) \/ ~Visible(c, row)
     THEN work' = [work EXCEPT ![c].failed = TRUE] /\ UNCHANGED reached
     ELSE Reach(c, {row}) /\ UNCHANGED work
  /\ UNCHANGED guc

(* It commits or rolls back, and the connection goes back to the pool.      *)
End(c) ==
  /\ work[c] # Nothing
  /\ work' = [work EXCEPT ![c] = Nothing]
  /\ guc' = [guc EXCEPT ![c] = AfterTransaction(c)]
  /\ UNCHANGED <<statements, reached>>

Next ==
  \E c \in Connections :
    \/ \E who \in Tenants \cup {Platform} : Begin(c, who)
    \/ \E rows \in SUBSET Row : Statement(c, rows)
    \/ \E row \in Row : Insert(c, row)
    \/ End(c)

Spec == Init /\ [][Next]_isolationVars

-----------------------------------------------------------------------------
(* "even a buggy query cannot cross tenants" (core/database.py), whichever     *)
(* transactions had the connection before, and the platform reaches its own   *)
(* identity rows and nothing of a tenant's.                                 *)
TenantsAreIsolated == \A r \in reached : r.row.owner = r.for
=============================================================================
