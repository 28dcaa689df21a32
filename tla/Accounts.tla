------------------------------ MODULE Accounts ------------------------------
(***************************************************************************)
(* Sessions and accounts (modules/auth, modules/users, core/permissions).   *)
(* A request authenticates and reads its rows without a lock (Begin), sends *)
(* its statements and its Redis commands (Flush, which holds the locks of   *)
(* the rows it writes), and commits; a statement waits for the locks of     *)
(* another request.  Redis is no part of the transaction: what a flush did  *)
(* there survives an abort.                                                 *)
(*                                                                         *)
(* One session row has one access token, the one issued with it, so the row *)
(* identifies the token.  Expiry, which only ends sessions and tickets      *)
(* sooner, is left out; so are the passwords and codes themselves: a wrong  *)
(* one is a refusal, and Lockout counts those.                              *)
(***************************************************************************)
EXTENDS Naturals, FiniteSets

CONSTANTS Users, Sids, Processes, Nothing,
          MaxRequests,   \* requests in a behaviour
          MaxFaults,     \* aborted transactions and lost Redis commands
          Menus,         \* sets of requests: a behaviour makes those of one menu
          WithFactor,    \* users with a confirmed second factor
          Device         \* the session each user starts with

Operations == {"login", "verify", "refresh", "logout", "logout_all", "forgot", "reset",
               "disable", "enable", "delete", "erase"}

(* What the rows and the requests are made of. *)
Account == [status : {"active", "disabled"}, deleted : BOOLEAN, erasure : BOOLEAN]
Session == [user : Users, family : Sids, revoked : BOOLEAN, late : BOOLEAN]
Effects == [account : Account, writes : SUBSET {"status", "deleted", "erasure"},
            revokes : SUBSET Sids, issues : Sids \cup {Nothing}, family : Sids \cup {Nothing},
            denies : SUBSET Sids, forgets : SUBSET (Users \X Sids),
            ticket : SUBSET ({"mfa", "reset"} \X Users)]
InProgress == [op : Operations, sid : Sids \cup {Nothing}, user : Users, account : Account,
               session : Session \cup {Nothing}, burnt : BOOLEAN, effect : Effects \cup {Nothing}]

ASSUME AccountsAssumption ==
  /\ Users # {}
  /\ \A m \in Menus : m \subseteq Operations
  /\ DOMAIN Device \subseteq Sids /\ \A s \in DOMAIN Device : Device[s] \in Users
  /\ Nothing \notin Sids /\ Nothing \notin Session
  /\ Nothing \notin Effects /\ Nothing \notin InProgress

VARIABLES
  menu,       \* the requests of this behaviour
  users,      \* the account rows
  sessions,   \* the committed session rows
  denied,     \* Redis: access tokens on the denylist
  tracked,    \* Redis: the tokens of each user a force-logout will find
  tickets,    \* Redis: single-use tickets, <<kind, user>>
  proc,       \* the requests in progress
  requests, faults,
  burned,     \* history: families revoked because a rotated token came back
  excuses     \* history: how a tenant may have lost its administrators

vars == <<menu, users, sessions, denied, tracked, tickets, proc, requests, faults, burned, excuses>>

Request == [op : menu, sid : Sids \cup {Nothing}, user : Users]

(* Every user is an administrator who is signed in on one device. *)
Init ==
  /\ menu \in Menus
  /\ users = [u \in Users |-> [status |-> "active", deleted |-> FALSE, erasure |-> FALSE]]
  /\ sessions = [s \in Sids |-> IF s \in DOMAIN Device
                   THEN [user |-> Device[s], family |-> s, revoked |-> FALSE, late |-> FALSE]
                   ELSE Nothing]
  /\ tracked = {<<Device[s], s>> : s \in DOMAIN Device}
  /\ denied = {}
  /\ tickets = {}
  /\ proc = [p \in Processes |-> Nothing]
  /\ requests = 0
  /\ faults = 0
  /\ burned = {}
  /\ excuses = {}

-----------------------------------------------------------------------------
Rows == {s \in Sids : sessions[s] # Nothing}
RowsOf(u) == {s \in Rows : sessions[s].user = u /\ ~sessions[s].revoked}
Active(account) == account.status = "active" /\ ~account.deleted
Flushed == {p \in Processes : proc[p] # Nothing /\ proc[p].effect # Nothing}
(* A row uncommitted inserts have taken is not free. *)
FreeSids == {s \in Sids \ Rows : \A p \in Flushed : proc[p].effect.issues # s}

(* What a request does when it goes through: the account's row, the sessions *)
(* it revokes, whether it opens one and in which family, and in Redis the    *)
(* tokens it denies and the ticket it leaves.                                *)
NoEffect(q) == [account |-> q.account, writes |-> {}, revokes |-> {}, issues |-> Nothing,
                family |-> Nothing, denies |-> {}, forgets |-> {}, ticket |-> {}]

Issued(e, family) ==
  LET new == CHOOSE s \in FreeSids : TRUE
  IN  [e EXCEPT !.issues = new, !.family = IF family = Nothing THEN new ELSE family]

ForcedOut(e, u) ==
  [e EXCEPT !.revokes = RowsOf(u),
            !.denies = {s \in Sids : <<u, s>> \in tracked},
            !.forgets = {u} \X Sids]

(* Only a changed column is written. *)
Changed(e, column, differs) == IF differs THEN e.writes \cup {column} ELSE e.writes
SetStatus(e, status) ==
  [e EXCEPT !.account.status = status, !.writes = Changed(e, "status", e.account.status # status)]
SetDeleted(e) ==
  [e EXCEPT !.account.deleted = TRUE, !.writes = Changed(e, "deleted", ~e.account.deleted)]
SetErasure(e) ==
  [e EXCEPT !.account.erasure = TRUE, !.writes = Changed(e, "erasure", ~e.account.erasure)]

(* Slips the model can tell: a revocation undone by the 401 that follows it, *)
(* and an account disabled without signing its user out.                     *)
UndoneByThe401(f) == {s \in Rows : FALSE}
DisabledOnly(q) == SetStatus(NoEffect(q), "disabled")

Login(q) ==
  IF q.user \in WithFactor THEN [NoEffect(q) EXCEPT !.ticket = {<<"mfa", q.user>>}]
  ELSE Issued(NoEffect(q), Nothing)

VerifyMfa(q) == Issued(NoEffect(q), Nothing)

Refresh(q) == Issued([NoEffect(q) EXCEPT !.revokes = {q.sid}], q.session.family)

Logout(q) ==
  [NoEffect(q) EXCEPT !.revokes = IF q.session.revoked THEN {} ELSE {q.sid}, !.denies = {q.sid}]

LogoutAll(q) == LET e == ForcedOut(NoEffect(q), q.user) IN [e EXCEPT !.denies = @ \cup {q.sid}]

ForgotPassword(q) == [NoEffect(q) EXCEPT !.ticket = {<<"reset", q.user>>}]

ResetPassword(q) == ForcedOut(NoEffect(q), q.user)

Disable(q) == ForcedOut(SetStatus(NoEffect(q), "disabled"), q.user)
Enable(q) == SetStatus(NoEffect(q), "active")
SoftDelete(q) == ForcedOut(SetDeleted(NoEffect(q)), q.user)
(* Asking again while an erasure is pending only signs out again. *)
EraseSelf(q) == ForcedOut(SetErasure(SetDeleted(NoEffect(q))), q.user)

Effect(q) ==
  CASE q.op = "login" -> Login(q)           [] q.op = "verify" -> VerifyMfa(q)
    [] q.op = "refresh" -> Refresh(q)       [] q.op = "logout" -> Logout(q)
    [] q.op = "logout_all" -> LogoutAll(q)  [] q.op = "forgot" -> ForgotPassword(q)
    [] q.op = "reset" -> ResetPassword(q)   [] q.op = "disable" -> Disable(q)
    [] q.op = "enable" -> Enable(q)         [] q.op = "delete" -> SoftDelete(q)
    [] q.op = "erase" -> EraseSelf(q)

(* The refusals that come before any statement. *)
Refused(q) ==
  \/ q.op \in {"login", "refresh", "reset", "forgot", "verify"} /\ ~Active(q.account)
  \/ q.op = "refresh" /\ q.session.revoked
  \/ q.op \in {"disable", "enable", "delete"} /\ q.user = q.session.user
  \/ q.op \in {"disable", "enable", "delete"} /\ q.account.deleted
  \/ q.op = "erase" /\ q.account.deleted /\ ~q.account.erasure

-----------------------------------------------------------------------------
Public == {"login", "verify", "refresh", "forgot", "reset"}
(* Requests only the signed-in user makes for themselves. *)
Own == {"logout", "logout_all", "erase"}
Ticket(r) == IF r.op = "verify" THEN {<<"mfa", r.user>>}
             ELSE IF r.op = "reset" THEN {<<"reset", r.user>>} ELSE {}

(* A token is of a session, alive or not; nothing but the denylist ends it.  *)
Authenticated(s) == s \in Rows
Denied(r) == r.op \notin Public /\ r.sid \in denied

(* Requests that may open a session. *)
Opening == {"login", "verify", "refresh"}

(* What a request needs before its handler runs. *)
Admissible(r) ==
  /\ r.op \in Public \ {"refresh"} <=> r.sid = Nothing
  /\ Ticket(r) \subseteq tickets
  /\ r.op = "refresh" => r.sid \in Rows /\ sessions[r.sid].user = r.user
  /\ r.op \notin Public => Authenticated(r.sid)
  /\ r.op \in Own => sessions[r.sid].user = r.user

(* The handler reads what it will decide on; a ticket is consumed at once.   *)
(* With Redis out of reach a denied token is let in.                         *)
Begin(p) ==
  /\ proc[p] = Nothing
  /\ requests < MaxRequests
  /\ \E r \in Request :
       /\ Admissible(r)
       /\ \/ ~Denied(r) /\ UNCHANGED <<faults, excuses>>
          \/ /\ Denied(r) /\ faults < MaxFaults
             /\ faults' = faults + 1
             /\ excuses' = excuses \cup {"redis"}
       /\ tickets' = tickets \ Ticket(r)
       /\ proc' = [proc EXCEPT ![p] =
            [op |-> r.op, sid |-> r.sid, user |-> r.user, account |-> users[r.user],
             session |-> IF r.sid = Nothing THEN Nothing ELSE sessions[r.sid],
             burnt |-> r.sid # Nothing /\ sessions[r.sid].family \in burned,
             effect |-> Nothing]]
  /\ requests' = requests + 1
  /\ UNCHANGED <<menu, users, sessions, denied, tracked, burned>>

(* 401, 404 or 409. *)
Refuse(p) ==
  /\ proc[p] # Nothing
  /\ proc[p].effect = Nothing
  /\ Refused(proc[p])
  /\ ~(proc[p].op = "refresh" /\ proc[p].session.revoked)
  /\ proc' = [proc EXCEPT ![p] = Nothing]
  /\ UNCHANGED <<menu, users, sessions, denied, tracked, tickets, requests, faults, burned, excuses>>

(* The locks of the rows a request writes are not held by another. *)
Lockable(p, e) ==
  \A o \in Flushed \ {p} :
    /\ proc[o].effect.revokes \cap e.revokes = {}
    /\ proc[o].user = proc[p].user => proc[o].effect.writes = {} \/ e.writes = {}

FamilyRows(f) == {s \in Rows : sessions[s].family = f /\ ~sessions[s].revoked}

(* A rotated token came back: its whole family is revoked, in a transaction  *)
(* that commits although the request itself is answered 401 and rolled back. *)
RevokeFamily(p) ==
  /\ proc[p] # Nothing
  /\ proc[p].op = "refresh"
  /\ proc[p].effect = Nothing
  /\ proc[p].session.revoked
  /\ LET family == FamilyRows(proc[p].session.family) IN
       /\ Lockable(p, [NoEffect(proc[p]) EXCEPT !.revokes = family])
       /\ sessions' = [s \in Sids |-> IF s \in family THEN [sessions[s] EXCEPT !.revoked = TRUE]
                                      ELSE sessions[s]]
  /\ burned' = burned \cup {proc[p].session.family}
  /\ proc' = [proc EXCEPT ![p] = Nothing]
  /\ UNCHANGED <<menu, users, denied, tracked, tickets, requests, faults, excuses>>

(* A sign-out reads a user's tokens and then deletes them: a token that is   *)
(* added in between is forgotten.                                            *)
Forgetting(u) == \E o \in Flushed : proc[o].user = u /\ proc[o].effect.forgets # {}

(* The statements and the Redis commands; Redis failing is swallowed. *)
Flush(p) ==
  /\ proc[p] # Nothing
  /\ proc[p].effect = Nothing
  /\ ~Refused(proc[p])
  /\ proc[p].op \in Opening => FreeSids # {}
  /\ LET e == Effect(proc[p]) IN
       /\ Lockable(p, e)
       /\ proc' = [proc EXCEPT ![p].effect = e]
       /\ \/ /\ denied' = denied \cup e.denies
             /\ tracked' = (tracked \ e.forgets) \cup ({proc[p].user} \X ({e.issues} \ {Nothing}))
             /\ UNCHANGED <<faults, excuses>>
          \/ /\ e.denies # {} \/ e.issues # Nothing
             /\ faults < MaxFaults
             /\ faults' = faults + 1
             /\ excuses' = excuses \cup {"redis"}
             /\ UNCHANGED <<denied, tracked>>
          \/ /\ e.issues # Nothing /\ Forgetting(proc[p].user)
             /\ excuses' = excuses \cup {"overlap"}
             /\ UNCHANGED <<denied, tracked, faults>>
       /\ tickets' = tickets \cup e.ticket
  /\ UNCHANGED <<menu, users, sessions, requests, burned>>

Saved(account, e) ==
  [status  |-> IF "status" \in e.writes THEN e.account.status ELSE account.status,
   deleted |-> IF "deleted" \in e.writes THEN e.account.deleted ELSE account.deleted,
   erasure |-> IF "erasure" \in e.writes THEN e.account.erasure ELSE account.erasure]

(* An account was changed while its user was making a request, was the       *)
(* subject of another, or was being signed in.                               *)
Alters(q) == q.effect # Nothing /\ q.effect.writes \cap {"status", "deleted"} # {}
Concerns(q, u) == q.user = u \/ (q.session # Nothing /\ q.session.user = u)
Overlaps(q, o) ==
  \/ Alters(q) /\ Concerns(o, q.user)
  \/ q.effect.issues # Nothing /\ Alters(o) /\ o.user = q.user

Commit(p) ==
  /\ p \in Flushed
  /\ LET q == proc[p]
         e == q.effect
         new == [user |-> q.user, family |-> e.family, revoked |-> FALSE,
                 late |-> q.op = "refresh"
                          /\ (q.session.late \/ (~q.burnt /\ q.session.family \in burned))]
     IN /\ users' = [users EXCEPT ![q.user] = Saved(users[q.user], e)]
        /\ sessions' = [s \in Sids |->
             CASE s = e.issues    -> new
               [] s \in e.revokes -> [sessions[s] EXCEPT !.revoked = TRUE]
               [] OTHER           -> sessions[s]]
        /\ excuses' = excuses
             \cup {x \in {"erased"} : q.op = "erase"}
             \cup {x \in {"overlap"} : \E o \in Processes \ {p} :
                                          proc[o] # Nothing /\ Overlaps(q, proc[o])}
  /\ proc' = [proc EXCEPT ![p] = Nothing]
  /\ UNCHANGED <<menu, denied, tracked, tickets, requests, faults, burned>>

(* A crash or an error after the statements: the transaction is rolled back. *)
Abort(p) ==
  /\ p \in Flushed
  /\ faults < MaxFaults
  /\ faults' = faults + 1
  /\ proc' = [proc EXCEPT ![p] = Nothing]
  /\ UNCHANGED <<menu, users, sessions, denied, tracked, tickets, requests, burned, excuses>>

Next == \E p \in Processes : Begin(p) \/ Refuse(p) \/ RevokeFamily(p) \/ Flush(p) \/ Commit(p) \/ Abort(p)

Spec == Init /\ [][Next]_vars

-----------------------------------------------------------------------------
(* Once a rotated refresh token has come back, no session of its family is  *)
(* alive (auth/service.py refresh, "kill the whole family so neither the    *)
(* thief nor the victim keeps a session"), but one that was being issued, by *)
(* a refresh that had read its token before, when the family was revoked.    *)
BurnedFamilyIsDead ==
  \A s \in Rows : sessions[s].family \in burned /\ ~sessions[s].revoked => sessions[s].late

(* Nobody may disable or delete themselves, and who is disabled is signed   *)
(* out at once, so an agency keeps an administrator (users/service.py        *)
(* admin_update, "a lockout footgun"; users/router.py) unless an account was *)
(* changed while its user was making a request or being signed in, Redis     *)
(* failed a request, or somebody erased themselves.                          *)
SomeAdministratorRemains == (\E u \in Users : Active(users[u])) \/ excuses # {}
=============================================================================
