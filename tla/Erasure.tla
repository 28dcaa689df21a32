------------------------------ MODULE Erasure ------------------------------
(***************************************************************************)
(* One address that signs up, is erased (modules/compliance) and may come    *)
(* back: DELETE /me soft-deletes the account and leaves a request, which the *)
(* daily purge carries out thirty days later.  Forms make contacts (modules/ *)
(* leads) under the same address all the while, and the purge finds them by  *)
(* the address, not by the account.                                          *)
(*                                                                          *)
(* Abstracted: favorites, searches and notifications, which go with the      *)
(* account they belong to; suspended tenants, which the purge passes over.   *)
(***************************************************************************)
EXTENDS Naturals, FiniteSets

CONSTANTS Accounts, Contacts,
          Calls,       \* DELETE /me at once
          Purges,      \* purge tasks at once
          Nothing,
          MaxErasures, \* bound: erasure requests
          MaxFailures  \* bound: purges that stop half way

VARIABLES
  account,  \* [Accounts -> absent, active, deleted or tombstone]
  contact,  \* [Contacts -> Nothing, or known: has the address, made after: accounts that were tombstones]
  call,     \* [Calls -> the account whose DELETE /me has begun]
  dsr,      \* [1 .. MaxErasures -> Nothing, or of, status, due]
  purge,    \* [Purges -> the requests it has listed]
  failures,
  wronged,  \* history: a contact made after an account was erased was stripped for it
  doubled   \* history: two requests of one account, or two purges of one request

erasureVars == <<account, contact, call, dsr, purge, failures, wronged, doubled>>

Requests == 1 .. MaxErasures
Tombstones == {a \in Accounts : account[a] = "tombstone"}
Pending == {d \in Requests : dsr[d] # Nothing /\ dsr[d].status = "pending"}

Init ==
  /\ account = [a \in Accounts |-> "absent"]
  /\ contact = [c \in Contacts |-> Nothing]
  /\ call = [r \in Calls |-> Nothing]
  /\ dsr = [d \in Requests |-> Nothing]
  /\ purge = [p \in Purges |-> {}]
  /\ failures = 0
  /\ wronged = FALSE /\ doubled = FALSE

-----------------------------------------------------------------------------
(* register_account: the address is unique among all rows, the deleted ones  *)
(* too, and a tombstone has given it up.                                     *)
Register(a) ==
  /\ account[a] = "absent"
  /\ \A b \in Accounts : account[b] \in {"absent", "tombstone"}
  /\ account' = [account EXCEPT ![a] = "active"]
  /\ UNCHANGED <<contact, call, dsr, purge, failures, wronged, doubled>>

(* find_or_create_contact: none has the address yet. *)
Capture(c) ==
  /\ contact[c] = Nothing
  /\ \A k \in Contacts : contact[k] # Nothing => ~contact[k].known
  /\ contact' = [contact EXCEPT ![c] = [known |-> TRUE, after |-> Tombstones]]
  /\ UNCHANGED <<account, call, dsr, purge, failures, wronged, doubled>>

(* request_erasure reads the pending requests; one there is returned as is. *)
BeginErase(r, a) ==
  /\ call[r] = Nothing
  /\ account[a] = "active"
  /\ \A d \in Pending : dsr[d].of # a
  /\ call' = [call EXCEPT ![r] = a]
  /\ UNCHANGED <<account, contact, dsr, purge, failures, wronged, doubled>>

CommitErase(r) ==
  /\ call[r] # Nothing
  /\ \E d \in Requests :
       /\ dsr[d] = Nothing /\ \A e \in 1 .. d - 1 : dsr[e] # Nothing
       /\ dsr' = [dsr EXCEPT ![d] = [of |-> call[r], status |-> "pending", due |-> FALSE]]
  /\ account' = [account EXCEPT ![call[r]] = "deleted"]
  /\ doubled' = (doubled \/ \E d \in Pending : dsr[d].of = call[r])
  /\ call' = [call EXCEPT ![r] = Nothing]
  /\ UNCHANGED <<contact, purge, failures, wronged>>

AbortErase(r) ==
  /\ call[r] # Nothing
  /\ call' = [call EXCEPT ![r] = Nothing]
  /\ UNCHANGED <<account, contact, dsr, purge, failures, wronged, doubled>>

(* Thirty days on: a request that began before has long ended. *)
FallsDue(d) ==
  /\ d \in Pending /\ ~dsr[d].due
  /\ \A r \in Calls : call[r] # dsr[d].of
  /\ dsr' = [dsr EXCEPT ![d].due = TRUE]
  /\ UNCHANGED <<account, contact, call, purge, failures, wronged, doubled>>

-----------------------------------------------------------------------------
(* purge_due_erasures: list_erasures_due ... *)
ListDue(p) ==
  /\ purge[p] = {}
  /\ \E d \in Pending : dsr[d].due
  /\ purge' = [purge EXCEPT ![p] = {d \in Pending : dsr[d].due}]
  /\ doubled' = (doubled \/ \E q \in Purges : purge[q] \cap Pending # {})
  /\ UNCHANGED <<account, contact, call, dsr, failures, wronged>>

(* A slip the model can tell: what was done is not written down. *)
NotStamped(ds) == dsr

Completed(ds) == [d \in Requests |-> IF d \in ds THEN [dsr[d] EXCEPT !.status = "completed"] ELSE dsr[d]]

(* anonymize_account: an account that is a tombstone already has no address  *)
(* to give, and the request's own copy is taken.                             *)
Stripped == [c \in Contacts |-> IF contact[c] = Nothing THEN Nothing ELSE [contact[c] EXCEPT !.known = FALSE]]

(* ... execute_erasure for each, and one commit. *)
Execute(p) ==
  /\ purge[p] # {}
  /\ LET of == {dsr[d].of : d \in purge[p]}
     IN /\ account' = [a \in Accounts |-> IF a \in of THEN "tombstone" ELSE account[a]]
        /\ wronged' = (wronged \/ \E c \in Contacts :
             contact[c] # Nothing /\ contact[c].known /\ of \subseteq contact[c].after)
  /\ contact' = Stripped
  /\ dsr' = Completed(purge[p])
  /\ purge' = [purge EXCEPT ![p] = {}]
  /\ UNCHANGED <<call, failures, doubled>>

FailPurge(p) ==
  /\ purge[p] # {}
  /\ failures < MaxFailures
  /\ failures' = failures + 1
  /\ purge' = [purge EXCEPT ![p] = {}]
  /\ UNCHANGED <<account, contact, call, dsr, wronged, doubled>>

Next ==
  \/ \E a \in Accounts : Register(a) \/ \E r \in Calls : BeginErase(r, a)
  \/ \E c \in Contacts : Capture(c)
  \/ \E r \in Calls : CommitErase(r) \/ AbortErase(r)
  \/ \E d \in Requests : FallsDue(d)
  \/ \E p \in Purges : ListDue(p) \/ Execute(p) \/ FailPurge(p)

(* Who comes back after an erasure is not erased with it: a contact made     *)
(* once the account was forgotten is stripped only if the account was erased *)
(* twice over ("Idempotent", execute_erasure and request_erasure: two DELETE *)
(* /me that overlap leave two requests, two purges may hold the same one).   *)
(* A request that is done has left a tombstone, and no older contact.        *)
ErasureSparesWhoReturns ==
  /\ wronged => doubled
  /\ \A d \in Requests : dsr[d] # Nothing /\ dsr[d].status = "completed" =>
       /\ account[dsr[d].of] = "tombstone"
       /\ \A c \in Contacts : contact[c] # Nothing /\ contact[c].known => dsr[d].of \in contact[c].after
=============================================================================
