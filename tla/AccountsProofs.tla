--------------------------- MODULE AccountsProofs ---------------------------
(***************************************************************************)
(* Proofs about Agency: about Accounts, and after it about the parts beside   *)
(* it, each of which takes its steps alone.                                  *)
(*                                                                          *)
(* That a burned family stays dead rests on what a refresh knew when it read *)
(* its token: a session of a family burned by then was read as revoked, and   *)
(* refused, or was late itself.  That an administrator remains rests on the   *)
(* tokens: as long as nothing went wrong, each row's token is tracked or     *)
(* denied, so a user who is not active has none that is let in, and whoever  *)
(* disables somebody else is active.  No lock is needed for either.          *)
(*                                                                          *)
(* The last and longest part is the schema's: what each revision makes of    *)
(* the one before, both ways, and that deletions work themselves off.        *)
(***************************************************************************)
EXTENDS Agency, Sequences, FiniteSetTheorems, WellFoundedInduction, TLAPS

TypeInv ==
  /\ menu \subseteq Operations
  /\ users \in [Users -> Account]
  /\ sessions \in [Sids -> Session \cup {Nothing}]
  /\ tracked \subseteq Users \X Sids /\ denied \subseteq Sids
  /\ tickets \subseteq {"mfa", "reset"} \X Users
  /\ proc \in [Processes -> InProgress \cup {Nothing}]

(* A request that works with a session has read a row. *)
Sound(q) ==
  /\ q.op \in Public \ {"refresh"} <=> q.sid = Nothing
  /\ q.sid = Nothing <=> q.session = Nothing
  /\ q.session # Nothing => q.sid \in Rows /\ q.session.family \in Rows
  /\ q.burnt => q.session # Nothing /\ (q.session.revoked \/ q.session.late)

(* What a request that was not refused has sent. *)
OpensRow(q) ==
  q.effect.issues # Nothing =>
    /\ q.op \in Opening /\ q.effect.issues \notin Rows
    /\ q.effect.family = IF q.op = "refresh" THEN q.session.family ELSE q.effect.issues
WritesRow(q) ==
  /\ q.effect.writes # {} => q.op \in {"disable", "enable", "delete", "erase"}
  /\ q.op \in {"disable", "enable", "delete"} => "erasure" \notin q.effect.writes
  /\ q.op = "enable" => "deleted" \notin q.effect.writes /\ q.effect.account.status = "active"
Sent(q) == ~Refused(q) /\ q.effect.revokes \subseteq Rows /\ OpensRow(q) /\ WritesRow(q)

RequestInv == \A p \in Processes : proc[p] # Nothing => Sound(proc[p])
SentInv == \A p \in Flushed : Sent(proc[p])

(* Two requests do not insert the same row. *)
IssueInv ==
  \A p, o \in Flushed :
    p # o /\ proc[p].effect.issues # Nothing => proc[o].effect.issues # proc[p].effect.issues

(* A family is named for the row that opened it. *)
FamilyInv == burned \subseteq Rows /\ \A s \in Rows : sessions[s].family \in Rows

SInv == TypeInv /\ RequestInv /\ SentInv /\ IssueInv /\ FamilyInv /\ BurnedFamilyIsDead

(* The token of a row, or of a row about to be, is tracked or denied. *)
TrackedInv ==
  /\ \A s \in Rows : <<sessions[s].user, s>> \in tracked \/ s \in denied
  /\ \A p \in Flushed : LET s == proc[p].effect.issues IN
       s # Nothing => <<proc[p].user, s>> \in tracked \/ s \in denied
(* Only an active user has a token that is let in. *)
TokenInv == \A s \in Rows : s \in denied \/ Active(users[sessions[s].user])
(* Who was let in is still active, *)
ActorInv ==
  \A p \in Processes : proc[p] # Nothing =>
    /\ proc[p].op \notin Public => Active(users[proc[p].session.user])
    /\ proc[p].op \in Opening /\ Active(proc[p].account) => Active(users[proc[p].user])
(* and who is about to be disabled has been signed out. *)
LeavingInv ==
  \A p \in Flushed : proc[p].op \in {"disable", "delete"} /\ proc[p].effect.writes # {} =>
    \A s \in Rows : sessions[s].user = proc[p].user => s \in denied

AInv ==
  excuses = {} =>
    TrackedInv /\ TokenInv /\ ActorInv /\ LeavingInv /\ \E u \in Users : Active(users[u])

IInv == SInv /\ AInv

-----------------------------------------------------------------------------
(* The helpers of the model. *)

LEMMA NoEffectFacts ==
  ASSUME NEW q, q.account \in Account, Nothing \notin Effects
  PROVE  /\ NoEffect(q) \in Effects
         /\ NoEffect(q).writes = {} /\ NoEffect(q).revokes = {}
         /\ NoEffect(q).issues = Nothing /\ NoEffect(q).account = q.account
         /\ NoEffect(q).denies = {} /\ NoEffect(q).forgets = {}
<1> QED  BY DEF NoEffect, Effects

LEMMA IssuedFacts ==
  ASSUME NEW e \in Effects, NEW family \in Sids \cup {Nothing}, FreeSids # {}, Nothing \notin Sids
  PROVE  /\ Issued(e, family) \in Effects
         /\ Issued(e, family).issues \in FreeSids
         /\ Issued(e, family).family =
              IF family = Nothing THEN Issued(e, family).issues ELSE family
         /\ Issued(e, family).writes = e.writes /\ Issued(e, family).revokes = e.revokes
         /\ Issued(e, family).denies = e.denies /\ Issued(e, family).forgets = e.forgets
<1> DEFINE new == CHOOSE s \in FreeSids : TRUE
<1>1. new \in FreeSids  OBVIOUS
<1>2. new \in Sids  BY <1>1 DEF FreeSids
<1>3. Issued(e, family) =
        [e EXCEPT !.issues = new, !.family = IF family = Nothing THEN new ELSE family]
  BY DEF Issued
<1> HIDE DEF new
<1>4. (IF family = Nothing THEN new ELSE family) \in Sids  BY <1>2
<1> QED  BY <1>1, <1>2, <1>3, <1>4 DEF Effects

LEMMA ForcedOutFacts ==
  ASSUME NEW e \in Effects, NEW u \in Users
  PROVE  /\ ForcedOut(e, u) \in Effects
         /\ ForcedOut(e, u).revokes = RowsOf(u)
         /\ ForcedOut(e, u).denies = {s \in Sids : <<u, s>> \in tracked}
         /\ ForcedOut(e, u).forgets = {u} \X Sids
         /\ ForcedOut(e, u).writes = e.writes /\ ForcedOut(e, u).account = e.account
         /\ ForcedOut(e, u).issues = e.issues
<1>1. RowsOf(u) \subseteq Sids  BY DEF RowsOf, Rows
<1>2. {u} \X Sids \subseteq Users \X Sids  OBVIOUS
<1> QED  BY <1>1, <1>2 DEF ForcedOut, Effects

LEMMA SetFacts ==
  ASSUME NEW e \in Effects, NEW status \in {"active", "disabled"}
  PROVE  /\ SetStatus(e, status) \in Effects /\ SetDeleted(e) \in Effects
         /\ SetErasure(e) \in Effects
         /\ SetStatus(e, status).issues = e.issues /\ SetDeleted(e).issues = e.issues
         /\ SetErasure(e).issues = e.issues
         /\ SetStatus(e, status).revokes = e.revokes
         /\ SetStatus(e, status).denies = e.denies /\ SetStatus(e, status).forgets = e.forgets
         /\ SetStatus(e, status).account.status = status
         /\ SetStatus(e, status).writes \subseteq e.writes \cup {"status"}
         /\ SetDeleted(e).writes \subseteq e.writes \cup {"deleted"}
<1>1. SetStatus(e, status) \in Effects /\ SetStatus(e, status).account.status = status
  BY DEF SetStatus, Changed, Effects, Account
<1>2. SetDeleted(e) \in Effects  BY DEF SetDeleted, Changed, Effects, Account
<1>3. SetErasure(e) \in Effects  BY DEF SetErasure, Changed, Effects, Account
<1>4. /\ SetStatus(e, status).writes \subseteq e.writes \cup {"status"}
      /\ SetStatus(e, status).issues = e.issues /\ SetStatus(e, status).revokes = e.revokes
      /\ SetStatus(e, status).denies = e.denies /\ SetStatus(e, status).forgets = e.forgets
  BY DEF SetStatus, Changed, Effects
<1>5. /\ SetDeleted(e).writes \subseteq e.writes \cup {"deleted"}
      /\ SetDeleted(e).issues = e.issues
  BY DEF SetDeleted, Changed, Effects
<1>6. SetErasure(e).issues = e.issues  BY DEF SetErasure, Effects
<1> QED  BY <1>1, <1>2, <1>3, <1>4, <1>5, <1>6

(* What the effect of a request is, whatever the request. *)
Expected(q, e) ==
  /\ e \in Effects
  /\ e.revokes \subseteq Rows
  /\ e.issues # Nothing =>
       /\ q.op \in Opening /\ e.issues \in FreeSids /\ e.denies = {} /\ e.forgets = {}
       /\ e.family = IF q.op = "refresh" THEN q.session.family ELSE e.issues
  /\ e.writes # {} => q.op \in {"disable", "enable", "delete", "erase"}
  /\ q.op \in {"disable", "enable", "delete"} => "erasure" \notin e.writes
  /\ q.op = "enable" => "deleted" \notin e.writes /\ e.account.status = "active"
  /\ q.op \in {"disable", "delete"} => e.denies = {s \in Sids : <<q.user, s>> \in tracked}
  /\ e.forgets # {} =>
       e.forgets = {q.user} \X Sids /\ {s \in Sids : <<q.user, s>> \in tracked} \subseteq e.denies

LEMMA SignOutExpected ==
  ASSUME AccountsAssumption, NEW q \in InProgress, NEW e \in Effects, e.issues = Nothing,
         q.op \in {"disable", "delete", "erase", "reset", "logout_all"},
         e.writes # {} => q.op \in {"disable", "delete", "erase"},
         q.op \in {"disable", "delete"} => "erasure" \notin e.writes
  PROVE  Expected(q, ForcedOut(e, q.user))
<1>1. q.user \in Users  BY DEF InProgress
<1>2. RowsOf(q.user) \subseteq Rows  BY DEF RowsOf
<1> QED  BY <1>1, <1>2, ForcedOutFacts DEF Expected

LEMMA OpeningExpected ==
  ASSUME AccountsAssumption, NEW q \in InProgress, Sound(q), FreeSids # {},
         NEW e \in Effects, e.writes = {}, e.denies = {}, e.forgets = {}, e.revokes \subseteq Rows,
         q.op \in Opening
  PROVE  Expected(q, Issued(e, IF q.op = "refresh" THEN q.session.family ELSE Nothing))
<1> DEFINE family == IF q.op = "refresh" THEN q.session.family ELSE Nothing
<1>1. q.op = "refresh" => q.session \in Session  BY DEF InProgress, Sound, Public
<1>2. q.op = "refresh" => q.session.family \in Sids /\ q.session.family # Nothing
  BY <1>1 DEF Session, AccountsAssumption
<1>3. family \in Sids \cup {Nothing} /\ (q.op # "refresh" <=> family = Nothing)  BY <1>2
<1>4. q.op = "refresh" => family = q.session.family  OBVIOUS
<1> HIDE DEF family
<1>5. Nothing \notin Sids  BY DEF AccountsAssumption
<1>6. Expected(q, Issued(e, family))
  BY <1>3, <1>4, <1>5, IssuedFacts DEF Expected, Opening
<1> QED  BY <1>6 DEF family

LEMMA EffectExpected ==
  ASSUME AccountsAssumption, NEW q \in InProgress, Sound(q), q.op \in Opening => FreeSids # {}
  PROVE  Expected(q, Effect(q))
<1> DEFINE none == NoEffect(q)
<1>1. q.account \in Account /\ q.user \in Users /\ q.op \in Operations /\ Nothing \notin Effects
  BY DEF InProgress, AccountsAssumption
<1>2. /\ none \in Effects
      /\ none.writes = {} /\ none.revokes = {} /\ none.issues = Nothing
      /\ none.denies = {} /\ none.forgets = {} /\ none.account = q.account
  BY <1>1, NoEffectFacts
<1>3. q.sid # Nothing => q.sid \in Rows /\ q.sid \in Sids /\ q.session \in Session
  BY DEF InProgress, Sound, Rows
<1> HIDE DEF none
<1>4. CASE q.op = "login"
  <2>1. Effect(q) = Login(q)  BY <1>4 DEF Effect
  <2>2. CASE q.user \in WithFactor
    <3>1. Effect(q) = [none EXCEPT !.ticket = {<<"mfa", q.user>>}]  BY <2>1, <2>2 DEF Login, none
    <3>2. {<<"mfa", q.user>>} \subseteq {"mfa", "reset"} \X Users  BY <1>1
    <3> QED  BY <1>2, <1>4, <3>1, <3>2 DEF Expected, Effects
  <2>3. CASE q.user \notin WithFactor
    <3>1. Effect(q) = Issued(none, Nothing)  BY <2>1, <2>3 DEF Login, none
    <3> QED  BY <1>2, <1>4, <3>1, OpeningExpected DEF Opening
  <2> QED  BY <2>2, <2>3
<1>5. CASE q.op = "verify"
  <2>1. Effect(q) = Issued(none, Nothing)  BY <1>5 DEF Effect, VerifyMfa, none
  <2> QED  BY <1>2, <1>5, <2>1, OpeningExpected DEF Opening
<1>6. CASE q.op = "refresh"
  <2> DEFINE e == [none EXCEPT !.revokes = {q.sid}]
  <2>1. Effect(q) = Issued(e, q.session.family)  BY <1>6 DEF Effect, Refresh, none
  <2>2. q.sid \in Rows /\ q.sid \in Sids  BY <1>3, <1>6 DEF Sound, Public
  <2>3. e \in Effects /\ e.writes = {} /\ e.denies = {} /\ e.forgets = {} /\ e.revokes \subseteq Rows
    BY <1>2, <2>2 DEF Effects
  <2> HIDE DEF e
  <2> QED  BY <1>6, <2>1, <2>3, OpeningExpected DEF Opening
<1>7. CASE q.op = "logout"
  <2> DEFINE ended == IF q.session.revoked THEN {} ELSE {q.sid}
  <2>1. Effect(q) = [none EXCEPT !.revokes = ended, !.denies = {q.sid}]
    BY <1>7 DEF Effect, Logout, none
  <2>2. q.sid \in Rows /\ q.sid \in Sids  BY <1>3, <1>7 DEF Sound, Public
  <2>3. /\ ended \subseteq Rows /\ ended \in SUBSET Sids
        /\ {q.sid} \in SUBSET Sids
    BY <2>2 DEF Rows
  <2> HIDE DEF ended
  <2>4. Effect(q) \in Effects  BY <1>2, <2>1, <2>3 DEF Effects
  <2>5. /\ Effect(q).revokes = ended /\ Effect(q).issues = Nothing
        /\ Effect(q).writes = {} /\ Effect(q).forgets = {}
    BY <1>2, <2>1 DEF Effects
  <2> QED  BY <1>7, <2>3, <2>4, <2>5 DEF Expected
<1>8. CASE q.op = "logout_all"
  <2> DEFINE e == ForcedOut(none, q.user)
  <2>1. Expected(q, e)  BY <1>2, <1>8, SignOutExpected
  <2>2. Effect(q) = [e EXCEPT !.denies = @ \cup {q.sid}]
    BY <1>8 DEF Effect, LogoutAll, none
  <2>3. q.sid \in Sids  BY <1>3, <1>8 DEF Sound, Public
  <2>4. e.issues = Nothing  BY <1>1, <1>2, ForcedOutFacts
  <2> HIDE DEF e
  <2> QED  BY <1>8, <2>1, <2>2, <2>3, <2>4 DEF Expected, Effects
<1>9. CASE q.op = "forgot"
  <2>1. Effect(q) = [none EXCEPT !.ticket = {<<"reset", q.user>>}]
    BY <1>9 DEF Effect, ForgotPassword, none
  <2>2. {<<"reset", q.user>>} \subseteq {"mfa", "reset"} \X Users  BY <1>1
  <2> QED  BY <1>2, <1>9, <2>1, <2>2 DEF Expected, Effects
<1>10. CASE q.op = "reset"
  <2>1. Effect(q) = ForcedOut(none, q.user)  BY <1>10 DEF Effect, ResetPassword, none
  <2> QED  BY <1>2, <1>10, <2>1, SignOutExpected
<1>11. CASE q.op = "disable"
  <2>1. Effect(q) = ForcedOut(SetStatus(none, "disabled"), q.user)
    BY <1>11 DEF Effect, Disable, none
  <2> QED  BY <1>2, <1>11, <2>1, SetFacts, SignOutExpected
<1>12. CASE q.op = "enable"
  <2>1. Effect(q) = SetStatus(none, "active")  BY <1>12 DEF Effect, Enable, none
  <2> QED  BY <1>2, <1>12, <2>1, SetFacts DEF Expected
<1>13. CASE q.op = "delete"
  <2>1. Effect(q) = ForcedOut(SetDeleted(none), q.user)
    BY <1>13 DEF Effect, SoftDelete, none
  <2> QED  BY <1>2, <1>13, <2>1, SetFacts, SignOutExpected
<1>14. CASE q.op = "erase"
  <2>1. Effect(q) = ForcedOut(SetErasure(SetDeleted(none)), q.user)
    BY <1>14 DEF Effect, EraseSelf, none
  <2> QED  BY <1>2, <1>14, <2>1, SetFacts, SignOutExpected
<1> QED
  BY <1>1, <1>4, <1>5, <1>6, <1>7, <1>8, <1>9, <1>10, <1>11, <1>12, <1>13, <1>14 DEF Operations

-----------------------------------------------------------------------------
(* What steps have in common. *)

(* A row stays, with its user and its family, and is never revived. *)
RowsKept ==
  \A s \in Rows :
    /\ s \in Rows'
    /\ sessions'[s].user = sessions[s].user /\ sessions'[s].family = sessions[s].family
    /\ sessions'[s].late = sessions[s].late /\ (~sessions'[s].revoked => ~sessions[s].revoked)

(* The only row a step adds is the one its request was to insert. *)
OnlyRowOf(p) == \A s \in Rows' \ Rows : p \in Flushed /\ s = proc[p].effect.issues

Leaves(p) == proc' = [proc EXCEPT ![p] = Nothing]

LEMMA Types ==
  ASSUME TypeInv, AccountsAssumption
  PROVE  /\ \A p \in Processes : proc[p] # Nothing => proc[p] \in InProgress
         /\ \A p \in Flushed : proc[p] \in InProgress /\ proc[p].effect \in Effects
         /\ \A s \in Rows : s \in Sids /\ sessions[s] \in Session
<1>1. \A p \in Processes : proc[p] # Nothing => proc[p] \in InProgress  BY DEF TypeInv
<1>2. \A p \in Flushed : proc[p] \in InProgress /\ proc[p].effect \in Effects
  BY <1>1 DEF Flushed, InProgress
<1>3. \A s \in Rows : s \in Sids /\ sessions[s] \in Session  BY DEF TypeInv, Rows
<1> QED  BY <1>1, <1>2, <1>3

(* Who leaves takes nothing from the others' requests. *)
LEMMA LeavesSound ==
  ASSUME AccountsAssumption, SInv, NEW p \in Processes, Leaves(p), RowsKept, OnlyRowOf(p)
  PROVE  RequestInv' /\ SentInv' /\ IssueInv'
<1>1. \A o \in Processes : proc'[o] # Nothing => o # p /\ proc'[o] = proc[o]
  BY DEF Leaves, SInv, TypeInv
<1>2. \A o \in Flushed' : o # p /\ o \in Flushed /\ proc'[o] = proc[o]  BY <1>1 DEF Flushed
<1>3. Rows \subseteq Rows'  BY DEF RowsKept
<1>4. RequestInv'  BY <1>1, <1>3 DEF SInv, RequestInv, Sound
<1>5. SentInv'
  <2> SUFFICES ASSUME NEW o \in Flushed' PROVE Sent(proc[o])'
    BY DEF SentInv
  <2>1. o # p /\ o \in Flushed /\ proc'[o] = proc[o] /\ Sent(proc[o])
    BY <1>2 DEF SInv, SentInv
  <2>2. ~Refused(proc[o])'  BY <2>1 DEF Sent, Refused, Active
  <2>3. (proc[o].effect.revokes \subseteq Rows)'  BY <2>1, <1>3 DEF Sent
  <2>4. OpensRow(proc[o])'
    <3>1. proc[o].effect.issues # Nothing => proc[o].effect.issues \notin Rows'
      BY <2>1 DEF OnlyRowOf, SInv, IssueInv, Sent, OpensRow
    <3> QED  BY <3>1, <2>1 DEF Sent, OpensRow
  <2>5. WritesRow(proc[o])'  BY <2>1 DEF Sent, WritesRow
  <2> QED  BY <2>2, <2>3, <2>4, <2>5 DEF Sent
<1>6. IssueInv'  BY <1>2 DEF SInv, IssueInv
<1> QED  BY <1>4, <1>5, <1>6

(* A step that leaves the rows alone. *)
LEMMA SameRows ==
  ASSUME TypeInv, UNCHANGED sessions
  PROVE  Rows' = Rows /\ RowsKept
<1> QED  BY DEF Rows, RowsKept

-----------------------------------------------------------------------------
(* One action at a time: the sessions. *)

LEMMA BeginSays ==
  ASSUME AccountsAssumption, SInv, NEW p \in Processes, Begin(p)
  PROVE  /\ TypeInv' /\ proc[p] = Nothing
         /\ proc'[p] \in InProgress /\ proc'[p].effect = Nothing /\ Sound(proc'[p])
         /\ \A o \in Processes \ {p} : proc'[o] = proc[o]
         /\ proc'[p].account = users[proc'[p].user]
         /\ excuses' = {} => excuses = {} /\ (proc'[p].op \notin Public => proc'[p].sid \notin denied)
         /\ proc'[p].session # Nothing => proc'[p].session = sessions[proc'[p].sid]
<1>1. PICK r \in Request :
        /\ Admissible(r)
        /\ excuses' = {} => excuses = {} /\ ~Denied(r)
        /\ tickets' = tickets \ Ticket(r)
        /\ proc' = [proc EXCEPT ![p] =
             [op |-> r.op, sid |-> r.sid, user |-> r.user, account |-> users[r.user],
              session |-> IF r.sid = Nothing THEN Nothing ELSE sessions[r.sid],
              burnt |-> r.sid # Nothing /\ sessions[r.sid].family \in burned,
              effect |-> Nothing]]
  BY DEF Begin
<1> DEFINE session == IF r.sid = Nothing THEN Nothing ELSE sessions[r.sid]
           burnt == r.sid # Nothing /\ sessions[r.sid].family \in burned
           q == [op |-> r.op, sid |-> r.sid, user |-> r.user, account |-> users[r.user],
                 session |-> session, burnt |-> burnt, effect |-> Nothing]
<1>2. proc[p] = Nothing /\ proc' = [proc EXCEPT ![p] = q]  BY <1>1 DEF Begin
<1>3. r.op \in Operations /\ r.sid \in Sids \cup {Nothing} /\ r.user \in Users
  BY DEF Request, SInv, TypeInv
<1>4. users[r.user] \in Account  BY <1>3 DEF SInv, TypeInv
<1>5. /\ r.op \in Public \ {"refresh"} <=> r.sid = Nothing
      /\ excuses' = {} => excuses = {} /\ (r.op \notin Public => r.sid \notin denied)
      /\ r.sid # Nothing => r.sid \in Rows
  BY <1>1, <1>3 DEF Admissible, Authenticated, Denied, Public
<1>6. /\ session \in Session \cup {Nothing}
      /\ r.sid = Nothing <=> session = Nothing
      /\ session # Nothing => session = sessions[r.sid]
  <2>1. r.sid # Nothing => sessions[r.sid] \in Session  BY <1>5, Types DEF SInv
  <2> QED  BY <2>1 DEF AccountsAssumption
<1>7. burnt \in BOOLEAN  OBVIOUS
<1>8. /\ session # Nothing => session.family \in Rows
      /\ burnt => session # Nothing /\ (session.revoked \/ session.late)
  BY <1>5, <1>6 DEF SInv, FamilyInv, BurnedFamilyIsDead
<1> HIDE DEF session, burnt
<1>9. q \in InProgress  BY <1>3, <1>4, <1>6, <1>7 DEF InProgress
<1>10. Sound(q)  BY <1>5, <1>6, <1>8 DEF Sound
<1>11. q.effect = Nothing /\ q.sid = r.sid /\ q.op = r.op /\ q.user = r.user
       /\ q.account = users[r.user] /\ q.session = session
  OBVIOUS
<1> HIDE DEF q
<1>12. proc'[p] = q /\ \A o \in Processes \ {p} : proc'[o] = proc[o]  BY <1>2 DEF SInv, TypeInv
<1>13. TypeInv'
  <2>1. proc' \in [Processes -> InProgress \cup {Nothing}]  BY <1>2, <1>9 DEF SInv, TypeInv
  <2>2. UNCHANGED <<menu, users, sessions, denied, tracked>>  BY DEF Begin
  <2> QED  BY <1>1, <2>1, <2>2 DEF SInv, TypeInv
<1> QED  BY <1>2, <1>5, <1>6, <1>9, <1>10, <1>11, <1>12, <1>13

LEMMA BeginSInv ==
  ASSUME AccountsAssumption, SInv, NEW p \in Processes, Begin(p)
  PROVE  SInv'
<1> USE BeginSays
<1>1. UNCHANGED <<sessions, burned>>  BY DEF Begin
<1>2. Rows' = Rows  BY <1>1 DEF Rows
<1>3. RequestInv'
  BY <1>1, <1>2 DEF SInv, RequestInv, Sound
<1>4. Flushed' = Flushed /\ \A o \in Flushed : proc'[o] = proc[o]
  BY DEF Flushed
<1>5. SentInv'  BY <1>2, <1>4 DEF SInv, SentInv, Sent, OpensRow, WritesRow, Refused, Active
<1>6. IssueInv'  BY <1>4 DEF SInv, IssueInv
<1>7. FamilyInv' /\ BurnedFamilyIsDead'  BY <1>1, <1>2 DEF SInv, FamilyInv, BurnedFamilyIsDead
<1> QED  BY <1>3, <1>5, <1>6, <1>7 DEF SInv

(* Requests that leave without a row. *)
LEMMA QuitSInv ==
  ASSUME AccountsAssumption, SInv, NEW p \in Processes, Leaves(p),
         UNCHANGED <<menu, users, sessions, denied, tracked, tickets, burned>>
  PROVE  SInv'
<1>1. Rows' = Rows /\ RowsKept  BY SameRows DEF SInv
<1>2. OnlyRowOf(p)  BY <1>1 DEF OnlyRowOf
<1>3. RequestInv' /\ SentInv' /\ IssueInv'  BY <1>1, <1>2, LeavesSound
<1>4. TypeInv'  BY DEF SInv, TypeInv, Leaves
<1>5. FamilyInv' /\ BurnedFamilyIsDead'  BY <1>1 DEF SInv, FamilyInv, BurnedFamilyIsDead
<1> QED  BY <1>3, <1>4, <1>5 DEF SInv

LEMMA RevokeFamilySInv ==
  ASSUME AccountsAssumption, SInv, NEW p \in Processes, RevokeFamily(p)
  PROVE  SInv' /\ Rows' = Rows /\ RowsKept
<1> DEFINE f == proc[p].session.family
           family == FamilyRows(f)
<1>1. /\ proc[p] # Nothing /\ proc[p].op = "refresh"
      /\ Leaves(p) /\ burned' = burned \cup {f}
      /\ sessions' = [s \in Sids |-> IF s \in family THEN [sessions[s] EXCEPT !.revoked = TRUE]
                                     ELSE sessions[s]]
      /\ UNCHANGED <<menu, users, denied, tracked, tickets>>
  BY DEF RevokeFamily, Leaves
<1>2. Sound(proc[p])  BY <1>1 DEF SInv, RequestInv
<1>3. f \in Rows  BY <1>1, <1>2 DEF Sound, Public
<1>4. \A s \in family : s \in Rows  BY DEF FamilyRows
<1>5. \A s \in Rows : s \in family <=> sessions[s].family = f /\ ~sessions[s].revoked
  BY DEF FamilyRows
<1> HIDE DEF family, f
<1>6. \A s \in Rows : sessions[s] \in Session  BY Types DEF SInv
<1>7. sessions' \in [Sids -> Session \cup {Nothing}]
  <2>1. \A s \in family : [sessions[s] EXCEPT !.revoked = TRUE] \in Session
    BY <1>4, <1>6 DEF Session
  <2> QED  BY <1>1, <2>1 DEF SInv, TypeInv
<1>8. /\ \A s \in family : sessions'[s] = [sessions[s] EXCEPT !.revoked = TRUE]
      /\ \A s \in Sids \ family : sessions'[s] = sessions[s]
  BY <1>1, <1>4 DEF Rows
<1>9. \A s \in family : sessions'[s] \in Session /\ sessions'[s].revoked
  BY <1>4, <1>6, <1>8 DEF Session
<1>10. Rows' = Rows
  BY <1>4, <1>8, <1>9 DEF Rows, AccountsAssumption
<1>11. RowsKept
  <2> SUFFICES ASSUME NEW s \in Rows
               PROVE  /\ sessions'[s].user = sessions[s].user
                      /\ sessions'[s].family = sessions[s].family
                      /\ sessions'[s].late = sessions[s].late
                      /\ ~sessions'[s].revoked => ~sessions[s].revoked
    BY <1>10 DEF RowsKept
  <2>1. CASE s \in family
    <3>1. sessions'[s] = [sessions[s] EXCEPT !.revoked = TRUE]  BY <1>8, <2>1
    <3> QED  BY <1>6, <3>1 DEF Session
  <2>2. CASE s \notin family
    <3>1. sessions'[s] = sessions[s]  BY <1>8, <2>2 DEF Rows
    <3> QED  BY <3>1
  <2> QED  BY <2>1, <2>2
<1>12. OnlyRowOf(p)  BY <1>10 DEF OnlyRowOf
<1>13. RequestInv' /\ SentInv' /\ IssueInv'  BY <1>1, <1>11, <1>12, LeavesSound
<1>14. TypeInv'  BY <1>1, <1>7 DEF SInv, TypeInv, Leaves
<1>15. FamilyInv'  BY <1>1, <1>3, <1>10, <1>11 DEF SInv, FamilyInv, RowsKept
<1>16. BurnedFamilyIsDead'
  <2> SUFFICES ASSUME NEW s \in Rows, sessions'[s].family \in burned', ~sessions'[s].revoked
               PROVE  sessions'[s].late
    BY <1>10 DEF BurnedFamilyIsDead
  <2>1. s \notin family  BY <1>9
  <2>2. sessions'[s] = sessions[s]  BY <1>8, <2>1 DEF Rows
  <2>3. sessions[s].family # f  BY <1>5, <2>1, <2>2
  <2> QED  BY <1>1, <2>2, <2>3 DEF SInv, BurnedFamilyIsDead
<1> QED  BY <1>10, <1>11, <1>13, <1>14, <1>15, <1>16 DEF SInv

(* What a flush does to the request and to Redis. *)
LEMMA FlushSays ==
  ASSUME AccountsAssumption, SInv, NEW p \in Processes, Flush(p)
  PROVE  LET e == Effect(proc[p]) IN
         /\ proc[p] \in InProgress /\ Sound(proc[p]) /\ proc[p].effect = Nothing
         /\ ~Refused(proc[p]) /\ Expected(proc[p], e)
         /\ proc' = [proc EXCEPT ![p].effect = e]
         /\ tickets' = tickets \cup e.ticket
<1>1. proc[p] # Nothing /\ proc[p].effect = Nothing /\ ~Refused(proc[p])
  BY DEF Flush
<1>2. proc[p] \in InProgress /\ Sound(proc[p])  BY <1>1, Types DEF SInv, RequestInv
<1>3. Expected(proc[p], Effect(proc[p]))  BY <1>2, EffectExpected DEF Flush
<1> QED  BY <1>1, <1>2, <1>3 DEF Flush

LEMMA FlushProc ==
  ASSUME AccountsAssumption, SInv, NEW p \in Processes, NEW e \in Effects,
         proc[p] \in InProgress, proc[p].effect = Nothing, proc' = [proc EXCEPT ![p].effect = e]
  PROVE  /\ proc' \in [Processes -> InProgress \cup {Nothing}]
         /\ \A o \in Processes \ {p} : proc'[o] = proc[o]
         /\ proc'[p] \in InProgress /\ proc'[p] # Nothing /\ proc'[p].effect = e
         /\ proc'[p].op = proc[p].op /\ proc'[p].sid = proc[p].sid
         /\ proc'[p].user = proc[p].user /\ proc'[p].account = proc[p].account
         /\ proc'[p].session = proc[p].session /\ (proc'[p].burnt <=> proc[p].burnt)
         /\ Flushed' = Flushed \cup {p} /\ p \notin Flushed
<1>1. proc'[p] = [proc[p] EXCEPT !.effect = e] /\ \A o \in Processes \ {p} : proc'[o] = proc[o]
  BY DEF SInv, TypeInv
<1>2. /\ proc'[p] \in InProgress /\ proc'[p].effect = e
      /\ proc'[p].op = proc[p].op /\ proc'[p].sid = proc[p].sid
      /\ proc'[p].user = proc[p].user /\ proc'[p].account = proc[p].account
      /\ proc'[p].session = proc[p].session /\ (proc'[p].burnt <=> proc[p].burnt)
  BY <1>1 DEF InProgress
<1>3. proc' \in [Processes -> InProgress \cup {Nothing}]  BY <1>1, <1>2 DEF SInv, TypeInv
<1>4. proc'[p] # Nothing /\ e # Nothing /\ proc[p] # Nothing  BY <1>2 DEF AccountsAssumption
<1>5. Flushed' = Flushed \cup {p} /\ p \notin Flushed  BY <1>1, <1>2, <1>4 DEF Flushed
<1> QED  BY <1>1, <1>2, <1>3, <1>4, <1>5

LEMMA FlushSInv ==
  ASSUME AccountsAssumption, SInv, NEW p \in Processes, Flush(p)
  PROVE  SInv'
<1> DEFINE e == Effect(proc[p])
<1>1. /\ proc[p] \in InProgress /\ Sound(proc[p]) /\ proc[p].effect = Nothing
      /\ ~Refused(proc[p]) /\ Expected(proc[p], e)
      /\ proc' = [proc EXCEPT ![p].effect = e] /\ tickets' = tickets \cup e.ticket
  BY FlushSays
<1>2. UNCHANGED <<menu, users, sessions, burned>>  BY DEF Flush
<1>3. Rows' = Rows  BY <1>2 DEF Rows
<1>4. \/ UNCHANGED <<denied, tracked>>
      \/ /\ denied' = denied \cup e.denies
         /\ tracked' = (tracked \ e.forgets) \cup ({proc[p].user} \X ({e.issues} \ {Nothing}))
  BY DEF Flush
<1>5. e \in Effects  BY <1>1 DEF Expected
<1> HIDE DEF e
<1>6. /\ proc' \in [Processes -> InProgress \cup {Nothing}]
      /\ \A o \in Processes \ {p} : proc'[o] = proc[o]
      /\ proc'[p] \in InProgress /\ proc'[p] # Nothing /\ proc'[p].effect = e
      /\ proc'[p].op = proc[p].op /\ proc'[p].sid = proc[p].sid
      /\ proc'[p].user = proc[p].user /\ proc'[p].account = proc[p].account
      /\ proc'[p].session = proc[p].session /\ (proc'[p].burnt <=> proc[p].burnt)
      /\ Flushed' = Flushed \cup {p} /\ p \notin Flushed
  BY <1>1, <1>5, FlushProc
<1>7. proc[p].user \in Users /\ e.issues \in Sids \cup {Nothing} /\ e.denies \subseteq Sids
      /\ e.ticket \subseteq {"mfa", "reset"} \X Users
  BY <1>1, <1>5 DEF InProgress, Effects
<1>8. TypeInv'
  <2>1. tracked' \subseteq Users \X Sids /\ denied' \subseteq Sids  BY <1>4, <1>7 DEF SInv, TypeInv
  <2> QED  BY <1>1, <1>2, <1>6, <1>7, <2>1 DEF SInv, TypeInv
<1>9. RequestInv'
  <2> SUFFICES ASSUME NEW o \in Processes, proc'[o] # Nothing PROVE Sound(proc[o])'
    BY DEF RequestInv
  <2>1. CASE o = p  BY <1>1, <1>3, <1>6, <2>1 DEF Sound
  <2>2. CASE o # p
    <3>1. proc'[o] = proc[o] /\ Sound(proc[o])  BY <1>6, <2>2 DEF SInv, RequestInv
    <3> QED  BY <1>3, <3>1 DEF Sound
  <2> QED  BY <2>1, <2>2
<1>10. SentInv'
  <2> SUFFICES ASSUME NEW o \in Flushed' PROVE Sent(proc[o])'
    BY DEF SentInv
  <2>1. CASE o = p
    <3>1. ~Refused(proc[p])'  BY <1>1, <1>6 DEF Refused, Active
    <3>2. (proc[p].effect.revokes \subseteq Rows)'  BY <1>1, <1>3, <1>6 DEF Expected
    <3>3. OpensRow(proc[p])'  BY <1>1, <1>3, <1>6 DEF Expected, OpensRow, FreeSids
    <3>4. WritesRow(proc[p])'  BY <1>1, <1>6 DEF Expected, WritesRow
    <3> QED  BY <2>1, <3>1, <3>2, <3>3, <3>4 DEF Sent
  <2>2. CASE o # p
    <3>1. o \in Flushed /\ proc'[o] = proc[o] /\ Sent(proc[o])
      BY <1>6, <2>2 DEF SInv, SentInv, Flushed
    <3> QED  BY <1>3, <3>1 DEF Sent, OpensRow, WritesRow, Refused, Active
  <2> QED  BY <2>1, <2>2
<1>11. IssueInv'
  <2>1. \A o \in Flushed : o # p /\ proc'[o] = proc[o]  BY <1>6 DEF Flushed
  <2>2. e.issues # Nothing => \A o \in Flushed : proc[o].effect.issues # e.issues
    BY <1>1 DEF Expected, FreeSids
  <2> QED  BY <1>6, <2>1, <2>2 DEF SInv, IssueInv
<1>12. FamilyInv' /\ BurnedFamilyIsDead'  BY <1>2, <1>3 DEF SInv, FamilyInv, BurnedFamilyIsDead
<1> QED  BY <1>8, <1>9, <1>10, <1>11, <1>12 DEF SInv

(* What a commit does to the rows of the sessions. *)
LEMMA CommitSays ==
  ASSUME AccountsAssumption, SInv, NEW p \in Processes, Commit(p)
  PROVE  /\ p \in Flushed /\ proc[p] \in InProgress /\ proc[p].effect \in Effects
         /\ Sound(proc[p]) /\ Sent(proc[p]) /\ Leaves(p)
         /\ users' = [users EXCEPT ![proc[p].user] = Saved(users[proc[p].user], proc[p].effect)]
         /\ users' \in [Users -> Account]
         /\ UNCHANGED <<menu, denied, tracked, tickets, burned>>
<1>1. p \in Flushed /\ Leaves(p)  BY DEF Commit, Leaves
<1>2. proc[p] \in InProgress /\ proc[p].effect \in Effects  BY <1>1, Types DEF SInv
<1>3. Sound(proc[p]) /\ Sent(proc[p])  BY <1>1 DEF SInv, RequestInv, SentInv, Flushed
<1>4. users' = [users EXCEPT ![proc[p].user] = Saved(users[proc[p].user], proc[p].effect)]
  BY DEF Commit
<1>5. proc[p].user \in Users /\ proc[p].effect.account \in Account
  BY <1>2 DEF InProgress, Effects
<1>6. users[proc[p].user] \in Account  BY <1>5 DEF SInv, TypeInv
<1>7. Saved(users[proc[p].user], proc[p].effect) \in Account
  BY <1>5, <1>6 DEF Saved, Account
<1>8. users' \in [Users -> Account]  BY <1>4, <1>5, <1>7 DEF SInv, TypeInv
<1> QED  BY <1>1, <1>2, <1>3, <1>4, <1>8 DEF Commit

LEMMA CommitRows ==
  ASSUME AccountsAssumption, SInv, NEW p \in Processes, Commit(p)
  PROVE  LET q == proc[p]
             s == proc[p].effect.issues
         IN /\ sessions' \in [Sids -> Session \cup {Nothing}]
            /\ RowsKept /\ Rows' = Rows \cup ({s} \ {Nothing})
            /\ s # Nothing =>
                 /\ s \in Sids /\ s \notin Rows
                 /\ sessions'[s].user = q.user /\ sessions'[s].family = q.effect.family
                 /\ q.op = "refresh" =>
                      (sessions'[s].late <=>
                         q.session.late \/ (~q.burnt /\ q.session.family \in burned))
<1> DEFINE q == proc[p]
           e == q.effect
           late == q.op = "refresh" /\ (q.session.late \/ (~q.burnt /\ q.session.family \in burned))
           new == [user |-> q.user, family |-> e.family, revoked |-> FALSE, late |-> late]
<1>1. /\ q \in InProgress /\ e \in Effects /\ Sound(q) /\ Sent(q)
      /\ sessions' = [s \in Sids |->
             CASE s = e.issues    -> new
               [] s \in e.revokes -> [sessions[s] EXCEPT !.revoked = TRUE]
               [] OTHER           -> sessions[s]]
  BY CommitSays DEF Commit
<1>2. late \in BOOLEAN  OBVIOUS
<1> HIDE DEF late, q
<1>3. e.issues \in Sids \cup {Nothing} /\ Nothing \notin Sids /\ e.revokes \subseteq Rows
  BY <1>1 DEF Effects, AccountsAssumption, Sent
<1>4. e.issues # Nothing => new \in Session /\ e.issues \notin Rows
  <2> SUFFICES ASSUME e.issues # Nothing PROVE new \in Session /\ e.issues \notin Rows
    OBVIOUS
  <2>1. e.issues \in Sids /\ e.issues \notin Rows /\ q.op \in Opening
    BY <1>1, <1>3 DEF Sent, OpensRow
  <2>2. e.family \in Sids
    <3>1. CASE q.op = "refresh"
      <4>1. q.session # Nothing  BY <1>1, <3>1 DEF Sound, Public
      <4> QED  BY <1>1, <2>1, <3>1, <4>1 DEF Sent, OpensRow, Sound, Rows
    <3>2. CASE q.op # "refresh"  BY <1>1, <2>1, <3>2 DEF Sent, OpensRow
    <3> QED  BY <3>1, <3>2
  <2> QED  BY <1>1, <1>2, <2>1, <2>2 DEF InProgress, Session
<1> HIDE DEF e, new
<1>5. \A s \in Rows : s \in Sids /\ sessions[s] \in Session  BY Types DEF SInv
<1>6. /\ e.issues # Nothing => sessions'[e.issues] = new
      /\ \A s \in e.revokes : s # e.issues => sessions'[s] = [sessions[s] EXCEPT !.revoked = TRUE]
      /\ \A s \in Sids : s # e.issues /\ s \notin e.revokes => sessions'[s] = sessions[s]
  <2>1. e.issues # Nothing => sessions'[e.issues] = new
    <3>1. e.issues # Nothing => e.issues \in Sids /\ e.issues \notin e.revokes  BY <1>3, <1>4
    <3> QED  BY <1>1, <3>1
  <2>2. \A s \in e.revokes : s # e.issues => sessions'[s] = [sessions[s] EXCEPT !.revoked = TRUE]
    BY <1>1, <1>3, <1>5
  <2>3. \A s \in Sids : s # e.issues /\ s \notin e.revokes => sessions'[s] = sessions[s]
    BY <1>1
  <2> QED  BY <2>1, <2>2, <2>3
<1>7. e.issues # Nothing =>
        /\ sessions'[e.issues].user = q.user /\ sessions'[e.issues].family = e.family
        /\ sessions'[e.issues].late <=> late
  BY <1>6 DEF new
<1>8. \A s \in e.revokes : [sessions[s] EXCEPT !.revoked = TRUE] \in Session
  BY <1>3, <1>5 DEF Session
<1>9. DOMAIN sessions' = Sids /\ sessions' = [s \in Sids |-> sessions'[s]]  BY <1>1
<1>10. ASSUME NEW s \in Sids PROVE sessions'[s] \in Session \cup {Nothing}
  <2>1. CASE s = e.issues  BY <1>3, <1>4, <1>6, <2>1
  <2>2. CASE s # e.issues /\ s \in e.revokes  BY <1>6, <1>8, <2>2
  <2>3. CASE s # e.issues /\ s \notin e.revokes  BY <1>6, <2>3 DEF SInv, TypeInv
  <2> QED  BY <2>1, <2>2, <2>3
<1>11. sessions' \in [Sids -> Session \cup {Nothing}]  BY <1>9, <1>10
<1>12. \A s \in Rows :
         /\ sessions'[s] \in Session
         /\ sessions'[s].user = sessions[s].user /\ sessions'[s].family = sessions[s].family
         /\ sessions'[s].late = sessions[s].late
         /\ ~sessions'[s].revoked => ~sessions[s].revoked
  <2> SUFFICES ASSUME NEW s \in Rows
               PROVE  /\ sessions'[s] \in Session
                      /\ sessions'[s].user = sessions[s].user
                      /\ sessions'[s].family = sessions[s].family
                      /\ sessions'[s].late = sessions[s].late
                      /\ ~sessions'[s].revoked => ~sessions[s].revoked
    OBVIOUS
  <2>1. s # e.issues  BY <1>3, <1>4, <1>5
  <2>2. CASE s \in e.revokes
    <3>1. sessions'[s] = [sessions[s] EXCEPT !.revoked = TRUE]  BY <1>6, <2>1, <2>2
    <3> QED  BY <1>5, <3>1 DEF Session
  <2>3. CASE s \notin e.revokes  BY <1>5, <1>6, <2>1, <2>3
  <2> QED  BY <2>2, <2>3
<1>13. Nothing \notin Session  BY DEF AccountsAssumption
<1>14. Rows' = Rows \cup ({e.issues} \ {Nothing})
  <2>1. Rows \subseteq Rows'  BY <1>5, <1>12, <1>13 DEF Rows
  <2>2. e.issues # Nothing => e.issues \in Rows'  BY <1>3, <1>4, <1>6, <1>13 DEF Rows
  <2>3. \A s \in Rows' : s \in Rows \/ s = e.issues
    BY <1>3, <1>6 DEF Rows
  <2>4. Rows' \subseteq Sids  BY DEF Rows
  <2> QED  BY <1>3, <2>1, <2>2, <2>3, <2>4
<1>15. RowsKept  BY <1>12, <1>14 DEF RowsKept
<1>16. q.op = "refresh" =>
         (late <=> q.session.late \/ (~q.burnt /\ q.session.family \in burned))
  BY DEF late
<1> QED  BY <1>3, <1>4, <1>7, <1>11, <1>14, <1>15, <1>16 DEF e, q

LEMMA CommitSInv ==
  ASSUME AccountsAssumption, SInv, NEW p \in Processes, Commit(p)
  PROVE  SInv'
<1> DEFINE q == proc[p]
           s == proc[p].effect.issues
<1>1. /\ p \in Flushed /\ q \in InProgress /\ q.effect \in Effects /\ Sound(q) /\ Sent(q)
      /\ Leaves(p) /\ users' \in [Users -> Account]
      /\ UNCHANGED <<menu, denied, tracked, tickets, burned>>
  BY CommitSays
<1>2. /\ sessions' \in [Sids -> Session \cup {Nothing}]
      /\ RowsKept /\ Rows' = Rows \cup ({s} \ {Nothing})
      /\ s # Nothing =>
           /\ s \in Sids /\ s \notin Rows
           /\ sessions'[s].family = q.effect.family
           /\ q.op = "refresh" =>
                (sessions'[s].late <=> q.session.late \/ (~q.burnt /\ q.session.family \in burned))
  BY CommitRows
<1>3. OnlyRowOf(p)  BY <1>1, <1>2 DEF OnlyRowOf
<1>4. RequestInv' /\ SentInv' /\ IssueInv'  BY <1>1, <1>2, <1>3, LeavesSound
<1>5. TypeInv'  BY <1>1, <1>2 DEF SInv, TypeInv, Leaves
<1>6. s # Nothing => q.effect.family \in Rows'
                     /\ (q.effect.family \in burned => q.op = "refresh")
  <2> SUFFICES ASSUME s # Nothing
               PROVE  q.effect.family \in Rows' /\ (q.effect.family \in burned => q.op = "refresh")
    OBVIOUS
  <2>1. CASE q.op = "refresh"
    <3>1. q.session.family \in Rows  BY <1>1, <2>1 DEF Sound, Public
    <3> QED  BY <1>1, <1>2, <2>1, <3>1 DEF Sent, OpensRow
  <2>2. CASE q.op # "refresh"
    <3>1. q.effect.family = s  BY <1>1, <2>2 DEF Sent, OpensRow
    <3> QED  BY <1>2, <3>1 DEF SInv, FamilyInv
  <2> QED  BY <2>1, <2>2
<1>7. FamilyInv'
  <2>1. burned' \subseteq Rows'  BY <1>1, <1>2 DEF SInv, FamilyInv
  <2>2. ASSUME NEW r \in Rows' PROVE sessions'[r].family \in Rows'
    BY <1>2, <1>6, <2>2 DEF SInv, FamilyInv, RowsKept
  <2> QED  BY <2>1, <2>2 DEF FamilyInv
<1>8. BurnedFamilyIsDead'
  <2> SUFFICES ASSUME NEW r \in Rows', sessions'[r].family \in burned, ~sessions'[r].revoked
               PROVE  sessions'[r].late
    BY <1>1 DEF BurnedFamilyIsDead
  <2>1. CASE r \in Rows  BY <2>1, <1>2 DEF SInv, BurnedFamilyIsDead, RowsKept
  <2>2. CASE r \notin Rows
    <3>1. r = s /\ s # Nothing  BY <1>2, <2>2
    <3>2. q.op = "refresh" /\ q.effect.family \in burned  BY <1>2, <1>6, <3>1
    <3>3. q.session.family \in burned  BY <1>1, <3>1, <3>2 DEF Sent, OpensRow
    <3>4. ~q.session.revoked  BY <1>1, <3>2 DEF Sent, Refused
    <3>5. q.session.late \/ ~q.burnt  BY <1>1, <3>4 DEF Sound
    <3> QED  BY <1>2, <3>1, <3>2, <3>3, <3>5
  <2> QED  BY <2>1, <2>2
<1> QED  BY <1>4, <1>5, <1>7, <1>8 DEF SInv

-----------------------------------------------------------------------------
(* One action at a time: the accounts. *)

LEMMA BeginAInv ==
  ASSUME AccountsAssumption, IInv, NEW p \in Processes, Begin(p)
  PROVE  AInv'
<1> SUFFICES ASSUME excuses' = {}
             PROVE  (TrackedInv /\ TokenInv /\ ActorInv /\ LeavingInv /\ \E u \in Users : Active(users[u]))'
  BY DEF AInv
<1>1. SInv /\ TrackedInv /\ TokenInv /\ ActorInv /\ LeavingInv /\ \E u \in Users : Active(users[u])
  BY BeginSays DEF IInv, AInv
<1>2. UNCHANGED <<users, sessions, denied, tracked>>  BY DEF Begin
<1>3. /\ proc[p] = Nothing
      /\ proc'[p] \in InProgress /\ proc'[p].effect = Nothing /\ Sound(proc'[p])
      /\ \A o \in Processes \ {p} : proc'[o] = proc[o]
      /\ proc'[p].account = users[proc'[p].user]
      /\ excuses = {} /\ (proc'[p].op \notin Public => proc'[p].sid \notin denied)
      /\ proc'[p].session # Nothing => proc'[p].session = sessions[proc'[p].sid]
  BY <1>1, BeginSays
<1>4. Rows' = Rows  BY <1>2 DEF Rows
<1>5. Flushed' = Flushed /\ \A o \in Flushed : proc'[o] = proc[o]  BY <1>3 DEF Flushed
<1>6. TrackedInv'  BY <1>1, <1>2, <1>4, <1>5 DEF TrackedInv
<1>7. TokenInv'  BY <1>1, <1>2, <1>4 DEF TokenInv
<1>8. ActorInv'
  <2>1. proc'[p].op \notin Public => Active(users[proc'[p].session.user])
    BY <1>1, <1>3 DEF Sound, TokenInv
  <2> QED  BY <1>1, <1>2, <1>3, <2>1 DEF ActorInv, Active
<1>9. LeavingInv'  BY <1>1, <1>2, <1>4, <1>5 DEF LeavingInv
<1> QED  BY <1>1, <1>2, <1>6, <1>7, <1>8, <1>9 DEF Active

LEMMA LeavesAInv ==
  ASSUME AccountsAssumption, IInv, NEW p \in Processes, Leaves(p), Rows' = Rows, RowsKept,
         UNCHANGED <<users, denied, tracked, excuses>>
  PROVE  AInv'
<1> SUFFICES ASSUME excuses = {}
             PROVE  (TrackedInv /\ TokenInv /\ ActorInv /\ LeavingInv /\ \E u \in Users : Active(users[u]))'
  BY DEF AInv
<1>1. SInv /\ TrackedInv /\ TokenInv /\ ActorInv /\ LeavingInv /\ \E u \in Users : Active(users[u])
  BY DEF IInv, AInv
<1>2. \A o \in Processes : proc'[o] # Nothing => o # p /\ proc'[o] = proc[o]
  BY <1>1 DEF Leaves, SInv, TypeInv
<1>3. \A o \in Flushed' : o \in Flushed /\ proc'[o] = proc[o]  BY <1>2 DEF Flushed
<1>4. TrackedInv'  BY <1>1, <1>3 DEF TrackedInv, RowsKept
<1>5. TokenInv'  BY <1>1 DEF TokenInv, RowsKept, Active
<1>6. ActorInv'  BY <1>1, <1>2 DEF ActorInv, Active
<1>7. LeavingInv'  BY <1>1, <1>3 DEF LeavingInv, RowsKept
<1> QED  BY <1>1, <1>4, <1>5, <1>6, <1>7 DEF Active

LEMMA FlushAInv ==
  ASSUME AccountsAssumption, IInv, NEW p \in Processes, Flush(p)
  PROVE  AInv'
<1> SUFFICES ASSUME excuses' = {}
             PROVE  (TrackedInv /\ TokenInv /\ ActorInv /\ LeavingInv /\ \E u \in Users : Active(users[u]))'
  BY DEF AInv
<1> DEFINE e == Effect(proc[p])
<1>1. /\ excuses = {}
      /\ denied' = denied \cup e.denies
      /\ tracked' = (tracked \ e.forgets) \cup ({proc[p].user} \X ({e.issues} \ {Nothing}))
      /\ UNCHANGED <<users, sessions>>
  BY DEF Flush
<1>2. SInv /\ TrackedInv /\ TokenInv /\ ActorInv /\ LeavingInv /\ \E u \in Users : Active(users[u])
  BY <1>1 DEF IInv, AInv
<1>3. /\ proc[p] \in InProgress /\ Sound(proc[p]) /\ proc[p].effect = Nothing
      /\ Expected(proc[p], e) /\ proc' = [proc EXCEPT ![p].effect = e]
  BY <1>2, FlushSays
<1>4. e \in Effects  BY <1>3 DEF Expected
<1> HIDE DEF e
<1>5. /\ \A o \in Processes \ {p} : proc'[o] = proc[o]
      /\ proc'[p].effect = e /\ proc'[p].op = proc[p].op /\ proc'[p].user = proc[p].user
      /\ proc'[p].account = proc[p].account /\ proc'[p].session = proc[p].session
      /\ Flushed' = Flushed \cup {p} /\ p \notin Flushed
  BY <1>2, <1>3, <1>4, FlushProc
<1>6. Rows' = Rows /\ proc[p] # Nothing
  BY <1>1, <1>3 DEF Rows, AccountsAssumption
<1>7. \A o \in Flushed : o # p /\ o \in Processes /\ proc'[o] = proc[o]  BY <1>5 DEF Flushed
<1>8. ASSUME NEW u \in Users, NEW s \in Sids, <<u, s>> \in tracked \/ s \in denied
      PROVE  <<u, s>> \in tracked' \/ s \in denied'
  <2>1. CASE <<u, s>> \in e.forgets
    <3>1. u = proc[p].user /\ (<<u, s>> \in tracked => s \in e.denies)
      BY <1>3, <2>1 DEF Expected
    <3> QED  BY <1>1, <1>8, <3>1
  <2>2. CASE <<u, s>> \notin e.forgets  BY <1>1, <1>8, <2>2
  <2> QED  BY <2>1, <2>2
<1>9. TrackedInv'
  <2>1. ASSUME NEW s \in Rows PROVE <<sessions[s].user, s>> \in tracked' \/ s \in denied'
    <3>1. s \in Sids /\ sessions[s].user \in Users  BY <1>2, Types DEF SInv, Session
    <3> QED  BY <1>2, <1>8, <3>1 DEF TrackedInv
  <2>2. ASSUME NEW o \in Flushed', proc'[o].effect.issues # Nothing
        PROVE  <<proc'[o].user, proc'[o].effect.issues>> \in tracked'
               \/ proc'[o].effect.issues \in denied'
    <3>1. CASE o = p  BY <1>1, <1>5, <2>2, <3>1
    <3>2. CASE o # p
      <4>1. o \in Flushed /\ proc'[o] = proc[o]  BY <1>5, <1>7, <3>2
      <4>2. proc[o].user \in Users /\ proc[o].effect.issues \in Sids
        BY <1>2, <2>2, <4>1, Types DEF SInv, InProgress, Effects
      <4> QED  BY <1>2, <1>8, <2>2, <4>1, <4>2 DEF TrackedInv
    <3> QED  BY <3>1, <3>2
  <2> QED  BY <1>1, <1>6, <2>1, <2>2 DEF TrackedInv
<1>10. TokenInv'  BY <1>1, <1>2, <1>6 DEF TokenInv, Active
<1>11. ActorInv'
  <2> SUFFICES ASSUME NEW o \in Processes, proc'[o] # Nothing
               PROVE  /\ proc'[o].op \notin Public => Active(users[proc'[o].session.user])
                      /\ proc'[o].op \in Opening /\ Active(proc'[o].account)
                           => Active(users[proc'[o].user])
    BY <1>1 DEF ActorInv, Active
  <2>1. CASE o = p  BY <1>2, <1>5, <1>6, <2>1 DEF ActorInv
  <2>2. CASE o # p  BY <1>2, <1>5, <2>2 DEF ActorInv
  <2> QED  BY <2>1, <2>2
<1>12. LeavingInv'
  <2> SUFFICES ASSUME NEW o \in Flushed', proc'[o].op \in {"disable", "delete"},
                      proc'[o].effect.writes # {},
                      NEW s \in Rows, sessions[s].user = proc'[o].user
               PROVE  s \in denied'
    BY <1>1, <1>6 DEF LeavingInv
  <2>1. CASE o = p
    <3>1. e.denies = {r \in Sids : <<proc[p].user, r>> \in tracked}
      BY <1>3, <1>5, <2>1 DEF Expected
    <3>2. s \in Sids /\ sessions[s].user = proc[p].user  BY <1>5, <2>1 DEF Rows
    <3> QED  BY <1>1, <1>2, <3>1, <3>2 DEF TrackedInv
  <2>2. CASE o # p
    <3>1. o \in Flushed /\ proc'[o] = proc[o]  BY <1>5, <1>7, <2>2
    <3> QED  BY <1>1, <1>2, <3>1 DEF LeavingInv
  <2> QED  BY <2>1, <2>2
<1> QED  BY <1>1, <1>2, <1>9, <1>10, <1>11, <1>12 DEF Active

(* What a commit that gives no excuse does to the accounts. *)
LEMMA CommitUsers ==
  ASSUME AccountsAssumption, SInv, NEW p \in Processes, Commit(p), excuses' = {}
  PROVE  /\ excuses = {} /\ proc[p].op # "erase"
         /\ \A o \in Processes \ {p} : proc[o] # Nothing => ~Overlaps(proc[p], proc[o])
         /\ \A u \in Users \ {proc[p].user} : users'[u] = users[u]
         /\ ~Alters(proc[p]) => users' = users
         /\ proc[p].op \notin {"disable", "delete"} \/ proc[p].effect.writes = {} =>
              \A u \in Users : Active(users[u]) => Active(users'[u])
         /\ \A o \in Flushed : proc[o].op \in {"disable", "delete"} /\ proc[o].effect.writes # {} =>
              Alters(proc[o])
<1> DEFINE q == proc[p]
           e == q.effect
           old == users[q.user]
<1>1. /\ p \in Flushed /\ q \in InProgress /\ e \in Effects /\ Sent(q)
      /\ users' = [users EXCEPT ![q.user] = Saved(old, e)]
      /\ users' \in [Users -> Account]
  BY CommitSays
<1>2. excuses' = excuses \cup {x \in {"erased"} : q.op = "erase"}
                 \cup {x \in {"overlap"} : \E o \in Processes \ {p} :
                                              proc[o] # Nothing /\ Overlaps(q, proc[o])}
  BY DEF Commit
<1>3. q.op # "erase" /\ excuses = {}  BY <1>2
<1>4. \A o \in Processes \ {p} : proc[o] # Nothing => ~Overlaps(q, proc[o])  BY <1>2
<1>5. q.user \in Users /\ old \in Account /\ e # Nothing
  BY <1>1 DEF InProgress, SInv, TypeInv, Flushed
<1>6. WritesRow(q) /\ e.writes \subseteq {"status", "deleted", "erasure"}
  BY <1>1 DEF Sent, Effects
<1>7. "erasure" \notin e.writes  BY <1>3, <1>6 DEF WritesRow
<1>8. users'[q.user] = Saved(old, e)  BY <1>1, <1>5 DEF SInv, TypeInv
<1>9. \A u \in Users \ {q.user} : users'[u] = users[u]  BY <1>1 DEF SInv, TypeInv
<1>10. e.writes = {} => users' = users
  <2> SUFFICES ASSUME e.writes = {} PROVE users' = users
    OBVIOUS
  <2>1. Saved(old, e) = old  BY <1>5 DEF Saved, Account
  <2> QED  BY <1>1, <2>1 DEF SInv, TypeInv
<1>11. ~Alters(q) => users' = users  BY <1>5, <1>6, <1>7, <1>10 DEF Alters
<1>12. ASSUME q.op \notin {"disable", "delete"} \/ e.writes = {}, NEW u \in Users, Active(users[u])
       PROVE  Active(users'[u])
  <2>1. CASE e.writes = {}  BY <1>10, <1>12, <2>1
  <2>2. CASE e.writes # {}
    <3>1. q.op = "enable"  BY <1>3, <1>6, <1>12, <2>2 DEF WritesRow
    <3>2. "deleted" \notin e.writes /\ e.account.status = "active"  BY <1>6, <3>1 DEF WritesRow
    <3>3. CASE u = q.user
      <4>1. Saved(old, e).status = "active" \/ Saved(old, e).status = old.status
        BY <3>2 DEF Saved
      <4>2. Saved(old, e).deleted = old.deleted  BY <3>2 DEF Saved
      <4> QED  BY <1>8, <1>12, <3>3, <4>1, <4>2 DEF Active
    <3>4. CASE u # q.user  BY <1>9, <1>12, <3>4
    <3> QED  BY <3>3, <3>4
  <2> QED  BY <2>1, <2>2
<1>13. ASSUME NEW o \in Flushed, proc[o].op \in {"disable", "delete"}, proc[o].effect.writes # {}
       PROVE  Alters(proc[o])
  <2>1. proc[o].effect \in Effects /\ proc[o].effect # Nothing  BY Types DEF SInv, Flushed
  <2>2. "erasure" \notin proc[o].effect.writes  BY <1>13 DEF SInv, SentInv, Sent, WritesRow
  <2>3. proc[o].effect.writes \subseteq {"status", "deleted", "erasure"}  BY <2>1 DEF Effects
  <2> QED  BY <1>13, <2>1, <2>2, <2>3 DEF Alters
<1> QED  BY <1>3, <1>4, <1>9, <1>11, <1>12, <1>13

LEMMA CommitAInv ==
  ASSUME AccountsAssumption, IInv, NEW p \in Processes, Commit(p)
  PROVE  AInv'
<1> SUFFICES ASSUME excuses' = {}
             PROVE  (TrackedInv /\ TokenInv /\ ActorInv /\ LeavingInv /\ \E u \in Users : Active(users[u]))'
  BY DEF AInv
<1> DEFINE q == proc[p]
           s == proc[p].effect.issues
<1>1. SInv  BY DEF IInv
<1>2. /\ excuses = {} /\ q.op # "erase"
      /\ \A o \in Processes \ {p} : proc[o] # Nothing => ~Overlaps(q, proc[o])
      /\ \A u \in Users \ {q.user} : users'[u] = users[u]
      /\ ~Alters(q) => users' = users
      /\ q.op \notin {"disable", "delete"} \/ q.effect.writes = {} =>
           \A u \in Users : Active(users[u]) => Active(users'[u])
      /\ \A o \in Flushed : proc[o].op \in {"disable", "delete"} /\ proc[o].effect.writes # {} =>
           Alters(proc[o])
  BY <1>1, CommitUsers
<1>3. TrackedInv /\ TokenInv /\ ActorInv /\ LeavingInv /\ \E u \in Users : Active(users[u])
  BY <1>2 DEF IInv, AInv
<1>4. /\ p \in Flushed /\ q \in InProgress /\ q.effect \in Effects /\ Sound(q) /\ Sent(q)
      /\ Leaves(p) /\ UNCHANGED <<denied, tracked>>
  BY <1>1, CommitSays
<1>5. /\ RowsKept /\ Rows' = Rows \cup ({s} \ {Nothing})
      /\ s # Nothing => s \notin Rows /\ sessions'[s].user = q.user
  BY <1>1, CommitRows
<1>6. \A o \in Processes : proc'[o] # Nothing => o # p /\ proc'[o] = proc[o]
  BY <1>1, <1>4 DEF Leaves, SInv, TypeInv
<1>7. \A o \in Flushed' : o # p /\ o \in Flushed /\ proc'[o] = proc[o]  BY <1>6 DEF Flushed
<1>8. \A r \in Rows : sessions[r].user \in Users /\ sessions'[r].user = sessions[r].user
  BY <1>1, <1>5, Types DEF SInv, RowsKept, Session
<1>9. q \in InProgress /\ q.user \in Users /\ q.op \in Operations /\ proc[p] # Nothing
  BY <1>4 DEF InProgress, Flushed
<1>10. s # Nothing => q.op \in Opening  BY <1>4 DEF Sent, OpensRow
<1>11. TrackedInv'
  <2>1. ASSUME NEW r \in Rows' PROVE <<sessions'[r].user, r>> \in tracked' \/ r \in denied'
    <3>1. CASE r \in Rows  BY <1>3, <1>4, <1>8, <3>1 DEF TrackedInv
    <3>2. CASE r \notin Rows
      <4>1. r = s /\ s # Nothing  BY <1>5, <3>2
      <4> QED  BY <1>3, <1>4, <1>5, <4>1 DEF TrackedInv
    <3> QED  BY <3>1, <3>2
  <2> QED  BY <1>3, <1>4, <1>7, <2>1 DEF TrackedInv
<1>12. TokenInv'
  <2> SUFFICES ASSUME NEW r \in Rows' PROVE r \in denied \/ Active(users'[sessions'[r].user])
    BY <1>4 DEF TokenInv, Active
  <2>1. CASE r \in Rows
    <3>1. CASE q.op \in {"disable", "delete"} /\ q.effect.writes # {}
      <4>1. CASE sessions[r].user = q.user  BY <1>3, <1>4, <2>1, <3>1, <4>1 DEF LeavingInv
      <4>2. CASE sessions[r].user # q.user
        BY <1>2, <1>3, <1>8, <2>1, <4>2 DEF TokenInv
      <4> QED  BY <4>1, <4>2
    <3>2. CASE ~(q.op \in {"disable", "delete"} /\ q.effect.writes # {})
      BY <1>2, <1>3, <1>8, <2>1, <3>2 DEF TokenInv
    <3> QED  BY <3>1, <3>2
  <2>2. CASE r \notin Rows
    <3>1. r = s /\ s # Nothing  BY <1>5, <2>2
    <3>2. Active(users[q.user])
      BY <1>3, <1>4, <1>9, <1>10, <3>1 DEF ActorInv, Sent, Refused, Opening
    <3> QED  BY <1>2, <1>5, <1>9, <1>10, <3>1, <3>2 DEF Opening
  <2> QED  BY <2>1, <2>2
<1>13. ActorInv'
  <2> SUFFICES ASSUME NEW o \in Processes, proc'[o] # Nothing
               PROVE  /\ proc'[o].op \notin Public => Active(users'[proc'[o].session.user])
                      /\ proc'[o].op \in Opening /\ Active(proc'[o].account)
                           => Active(users'[proc'[o].user])
    BY DEF ActorInv, Active
  <2>1. o # p /\ proc'[o] = proc[o] /\ proc[o] # Nothing  BY <1>6
  <2>2. proc[o] \in InProgress /\ Sound(proc[o])  BY <1>1, <2>1, Types DEF SInv, RequestInv
  <2>3. CASE Alters(q)
    <3>1. ~Concerns(proc[o], q.user)  BY <1>2, <2>1, <2>3 DEF Overlaps
    <3>2. proc[o].user \in Users \ {q.user}  BY <2>2, <3>1 DEF Concerns, InProgress
    <3>3. proc[o].op \notin Public => proc[o].session.user \in Users \ {q.user}
      BY <2>2, <3>1 DEF Concerns, Sound, InProgress, Session
    <3> QED  BY <1>2, <1>3, <2>1, <3>2, <3>3 DEF ActorInv
  <2>4. CASE ~Alters(q)  BY <1>2, <1>3, <2>1, <2>4 DEF ActorInv
  <2> QED  BY <2>3, <2>4
<1>14. LeavingInv'
  <2> SUFFICES ASSUME NEW o \in Flushed', proc'[o].op \in {"disable", "delete"},
                      proc'[o].effect.writes # {},
                      NEW r \in Rows', sessions'[r].user = proc'[o].user
               PROVE  r \in denied
    BY <1>4 DEF LeavingInv
  <2>1. o # p /\ o \in Flushed /\ proc'[o] = proc[o]  BY <1>7
  <2>2. CASE r \in Rows  BY <1>3, <1>8, <2>1, <2>2 DEF LeavingInv
  <2>3. CASE r \notin Rows
    <3>1. r = s /\ s # Nothing /\ sessions'[r].user = q.user  BY <1>5, <2>3
    <3>2. Alters(proc[o]) /\ proc[o] # Nothing  BY <1>2, <2>1 DEF Flushed
    <3>3. Overlaps(q, proc[o])  BY <2>1, <3>1, <3>2 DEF Overlaps
    <3> QED  BY <1>2, <2>1, <3>2, <3>3 DEF Flushed
  <2> QED  BY <2>2, <2>3
<1>15. \E u \in Users : Active(users'[u])
  <2>1. CASE q.op \in {"disable", "delete"}
    <3>1. q.session \in Session /\ q.session.user # q.user
      BY <1>4, <2>1 DEF Sound, Sent, Refused, InProgress, Public
    <3>2. Active(users[q.session.user])  BY <1>3, <1>9, <2>1 DEF ActorInv, Public
    <3> QED  BY <1>2, <3>1, <3>2 DEF Session
  <2>2. CASE q.op \notin {"disable", "delete"}  BY <1>2, <1>3, <2>2
  <2> QED  BY <2>1, <2>2
<1> QED  BY <1>11, <1>12, <1>13, <1>14, <1>15 DEF Active

-----------------------------------------------------------------------------
LEMMA Initially ==
  ASSUME AccountsAssumption, Init
  PROVE  IInv
<1>1. TypeInv
  <2>1. users \in [Users -> Account]  BY DEF Init, Account
  <2>2. sessions \in [Sids -> Session \cup {Nothing}]
    BY DEF Init, Session, AccountsAssumption
  <2>3. tracked \subseteq Users \X Sids  BY DEF Init, AccountsAssumption
  <2> QED  BY <2>1, <2>2, <2>3 DEF Init, TypeInv, AccountsAssumption
<1>2. \A p \in Processes : proc[p] = Nothing  BY DEF Init
<1>3. Flushed = {}  BY <1>2 DEF Flushed
<1>4. RequestInv /\ SentInv /\ IssueInv  BY <1>2, <1>3 DEF RequestInv, SentInv, IssueInv
<1>5. \A s \in Rows : /\ s \in DOMAIN Device /\ s \in Sids /\ Device[s] \in Users
                      /\ sessions[s].user = Device[s] /\ sessions[s].family = s
  BY DEF Init, Rows, AccountsAssumption
<1>6. FamilyInv /\ BurnedFamilyIsDead  BY <1>5 DEF Init, FamilyInv, BurnedFamilyIsDead
<1>7. \A u \in Users : Active(users[u])  BY DEF Init, Active
<1>8. TrackedInv /\ LeavingInv /\ ActorInv
  <2>1. \A s \in Rows : <<sessions[s].user, s>> \in tracked  BY <1>5 DEF Init
  <2> QED  BY <1>2, <1>3, <2>1 DEF TrackedInv, LeavingInv, ActorInv
<1>9. TokenInv /\ \E u \in Users : Active(users[u])
  BY <1>5, <1>7 DEF TokenInv, AccountsAssumption
<1> QED  BY <1>1, <1>4, <1>6, <1>8, <1>9 DEF IInv, SInv, AInv

LEMMA Preserved ==
  ASSUME AccountsAssumption, IInv, [Next]_vars
  PROVE  IInv'
<1>1. ASSUME NEW p \in Processes, Begin(p) PROVE IInv'
  BY <1>1, BeginSInv, BeginAInv DEF IInv
<1>2. ASSUME NEW p \in Processes, Refuse(p) \/ Abort(p) PROVE IInv'
  <2>1. /\ Leaves(p)
        /\ UNCHANGED <<menu, users, sessions, denied, tracked, tickets, burned, excuses>>
    BY <1>2 DEF Refuse, Abort, Leaves
  <2>2. Rows' = Rows /\ RowsKept  BY <2>1, SameRows DEF IInv, SInv
  <2> QED  BY <2>1, <2>2, QuitSInv, LeavesAInv DEF IInv
<1>3. ASSUME NEW p \in Processes, RevokeFamily(p) PROVE IInv'
  <2>1. SInv' /\ Rows' = Rows /\ RowsKept  BY <1>3, RevokeFamilySInv DEF IInv
  <2>2. Leaves(p) /\ UNCHANGED <<users, denied, tracked, excuses>>
    BY <1>3 DEF RevokeFamily, Leaves
  <2> QED  BY <2>1, <2>2, LeavesAInv DEF IInv
<1>4. ASSUME NEW p \in Processes, Flush(p) PROVE IInv'
  BY <1>4, FlushSInv, FlushAInv DEF IInv
<1>5. ASSUME NEW p \in Processes, Commit(p) PROVE IInv'
  BY <1>5, CommitSInv, CommitAInv DEF IInv
<1>6. CASE UNCHANGED vars
  <2>1. UNCHANGED <<menu, users, sessions, denied, tracked, tickets, burned, excuses, proc>>
        /\ Flushed' = Flushed /\ Rows' = Rows
    BY <1>6 DEF vars, Flushed, Rows
  <2>2. TypeInv'  BY <2>1 DEF IInv, SInv, TypeInv
  <2>3. RequestInv' /\ SentInv' /\ IssueInv'
    BY <2>1 DEF IInv, SInv, RequestInv, SentInv, IssueInv, Sound, Sent, OpensRow, WritesRow, Refused
  <2>4. FamilyInv' /\ BurnedFamilyIsDead'
    BY <2>1 DEF IInv, SInv, FamilyInv, BurnedFamilyIsDead
  <2>5. AInv'
    BY <2>1 DEF IInv, AInv, TrackedInv, TokenInv, ActorInv, LeavingInv, Active
  <2> QED  BY <2>2, <2>3, <2>4, <2>5 DEF IInv, SInv
<1> QED  BY <1>1, <1>2, <1>3, <1>4, <1>5, <1>6 DEF Next

LEMMA Inductive == Spec => []IInv
<1>1. Init => IInv  BY AccountsAssumption, Initially
<1>2. IInv /\ [Next]_vars => IInv'  BY AccountsAssumption, Preserved
<1> QED  BY <1>1, <1>2, PTL DEF Spec

(* Every reachable state is type correct (auth/models.py, users/models.py).  *)
THEOREM TypeCorrect == Spec => []TypeInv
<1>1. IInv => TypeInv  BY DEF IInv, SInv
<1> QED  BY <1>1, Inductive, PTL

(* Once a rotated token has come back, no session of its family is alive but *)
(* one whose refresh had read its token before (auth/service.py refresh).     *)
THEOREM FamiliesDie == Spec => []BurnedFamilyIsDead
<1>1. IInv => BurnedFamilyIsDead  BY DEF IInv, SInv
<1> QED  BY <1>1, Inductive, PTL

(* An agency keeps an administrator unless requests overlapped, Redis was    *)
(* down or somebody erased themselves (users/service.py admin_update).        *)
THEOREM AnAdministratorRemains == Spec => []SomeAdministratorRemains
<1>1. IInv => SomeAdministratorRemains  BY DEF IInv, AInv, SomeAdministratorRemains
<1> QED  BY <1>1, Inductive, PTL

(* As long as that holds, whoever is not active has no token that is let in  *)
(* (core/permissions.py get_current_user reads the denylist and no row).      *)
THEOREM TokensFollowAccounts == Spec => [](excuses = {} => TokenInv)
<1>1. IInv => (excuses = {} => TokenInv)  BY DEF IInv, AInv
<1> QED  BY <1>1, Inductive, PTL

-----------------------------------------------------------------------------
(* Erasure.  A request to erase leaves a deleted account, and one that is due  *)
(* has no DELETE /me under way that could touch the account again; so a        *)
(* tombstone stays one, and whoever came later stays apart from it.           *)

Forgettable == [of : Persons, status : {"pending", "completed"}, due : BOOLEAN]
Known == [known : BOOLEAN, after : SUBSET Persons]
ErasureAssumption ==
  /\ Nothing \notin Persons /\ Nothing \notin Forgettable /\ Nothing \notin Known

ErasureType ==
  /\ account \in [Persons -> {"absent", "active", "deleted", "tombstone"}]
  /\ contact \in [Contacts -> Known \cup {Nothing}]
  /\ call \in [Processes -> Persons \cup {Nothing}]
  /\ dsr \in [1..MaxErasures -> Forgettable \cup {Nothing}]
  /\ purge \in [Purges -> SUBSET (1..MaxErasures)]
  /\ doubled \in BOOLEAN /\ wronged \in BOOLEAN
DsrInv ==
  \A d \in 1..MaxErasures : dsr[d] # Nothing =>
    /\ account[dsr[d].of] \in {"deleted", "tombstone"}
    /\ dsr[d].status = "completed" => dsr[d].due /\ account[dsr[d].of] = "tombstone"
    /\ dsr[d].due => \A r \in Processes : call[r] # dsr[d].of
CallInv ==
  \A r \in Processes : call[r] # Nothing => account[call[r]] \in {"active", "deleted"}
ListedInv ==
  \A p \in Purges : \A d \in purge[p] : dsr[d] # Nothing /\ dsr[d].due
KnownInv ==
  \A c \in Contacts : contact[c] # Nothing =>
    /\ \A a \in contact[c].after : account[a] = "tombstone"
    /\ contact[c].known => \A d \in 1..MaxErasures :
         dsr[d] # Nothing /\ dsr[d].status = "completed" => dsr[d].of \in contact[c].after
(* Unless something was doubled, an account has one request, and a purge what  *)
(* is still to be done.                                                      *)
OnceOnly ==
  ~doubled =>
    /\ \A d, e \in 1..MaxErasures :
         dsr[d] # Nothing /\ dsr[e] # Nothing /\ dsr[d].of = dsr[e].of => d = e
    /\ \A d \in 1..MaxErasures :
         dsr[d] # Nothing /\ account[dsr[d].of] = "tombstone" => dsr[d].status = "completed"
    /\ \A p \in Purges : \A d \in purge[p] : dsr[d].status = "pending"
    /\ \A p, q \in Purges : purge[p] # {} /\ purge[q] # {} => p = q
    /\ ~wronged
ErasureInv == ErasureType /\ DsrInv /\ CallInv /\ ListedInv /\ KnownInv /\ OnceOnly

(* A person who signs up, forms that make contacts, and requests that begin or *)
(* break off.                                                                *)
LEMMA PersonSteps ==
  ASSUME ErasureAssumption, ErasureInv,
         \/ \E a \in Persons : Compliance!Register(a)
         \/ \E c \in Contacts : Compliance!Capture(c)
         \/ \E a \in Persons, r \in Processes : Compliance!BeginErase(r, a)
         \/ \E r \in Processes : Compliance!AbortErase(r)
         \/ \E p \in Purges : Compliance!FailPurge(p)
  PROVE  ErasureInv'
<1> USE DEF ErasureInv, ErasureAssumption
<1>1. ASSUME NEW a \in Persons, Compliance!Register(a)  PROVE ErasureInv'
  <2>1. /\ account[a] = "absent" /\ account' = [account EXCEPT ![a] = "active"]
        /\ UNCHANGED <<contact, call, dsr, purge, wronged, doubled>>
    BY <1>1 DEF Compliance!Register
  <2>2. ErasureType'  BY <2>1 DEF ErasureType
  <2>3. \A b \in Persons : account[b] # "absent" => account'[b] = account[b]
    BY <2>1 DEF ErasureType
  <2>4. \A d \in 1..MaxErasures : dsr[d] # Nothing =>
          dsr[d].of \in Persons /\ account'[dsr[d].of] = account[dsr[d].of]
    BY <2>3 DEF ErasureType, DsrInv, Forgettable
  <2>5. DsrInv' /\ OnceOnly'  BY <2>1, <2>4 DEF DsrInv, OnceOnly
  <2>6. CallInv'  BY <2>1, <2>3 DEF ErasureType, CallInv
  <2>7. ListedInv'  BY <2>1 DEF ListedInv
  <2>8. KnownInv'  BY <2>1, <2>3 DEF ErasureType, KnownInv, Known
  <2> QED  BY <2>2, <2>5, <2>6, <2>7, <2>8
<1>2. ASSUME NEW c \in Contacts, Compliance!Capture(c)  PROVE ErasureInv'
  <2> DEFINE new == [known |-> TRUE, after |-> Compliance!Tombstones]
  <2>1. /\ contact' = [contact EXCEPT ![c] = new]
        /\ UNCHANGED <<account, call, dsr, purge, wronged, doubled>>
    BY <1>2 DEF Compliance!Capture
  <2>2. Compliance!Tombstones \subseteq Persons
        /\ \A a \in Persons : a \in Compliance!Tombstones <=> account[a] = "tombstone"
    BY DEF Compliance!Tombstones
  <2>3. new \in Known /\ new.after = Compliance!Tombstones  BY <2>2 DEF Known
  <2> HIDE DEF new
  <2>4. ErasureType'  BY <2>1, <2>3 DEF ErasureType
  <2>5. DsrInv' /\ CallInv' /\ ListedInv' /\ OnceOnly'
    BY <2>1 DEF DsrInv, CallInv, ListedInv, OnceOnly
  <2>6. \A d \in 1..MaxErasures : dsr[d] # Nothing /\ dsr[d].status = "completed" =>
          dsr[d].of \in new.after
    BY <2>2, <2>3 DEF ErasureType, DsrInv, Forgettable
  <2>7. KnownInv'
    <3>1. \A k \in Contacts : contact'[k] = IF k = c THEN new ELSE contact[k]
      BY <2>1 DEF ErasureType
    <3>2. \A a \in new.after : account[a] = "tombstone"  BY <2>2, <2>3
    <3> QED  BY <2>1, <2>6, <3>1, <3>2 DEF KnownInv
  <2> QED  BY <2>4, <2>5, <2>7
<1>3. ASSUME NEW a \in Persons, NEW r \in Processes, Compliance!BeginErase(r, a)  PROVE ErasureInv'
  <2>1. /\ account[a] = "active" /\ call' = [call EXCEPT ![r] = a]
        /\ UNCHANGED <<account, contact, dsr, purge, wronged, doubled>>
    BY <1>3 DEF Compliance!BeginErase
  <2>2. ErasureType'  BY <2>1 DEF ErasureType
  <2>3. \A o \in Processes : call'[o] = IF o = r THEN a ELSE call[o]  BY <2>1 DEF ErasureType
  <2>4. DsrInv'  BY <2>1, <2>3 DEF DsrInv
  <2>5. CallInv'  BY <2>1, <2>3 DEF CallInv
  <2>6. ListedInv' /\ KnownInv' /\ OnceOnly'  BY <2>1 DEF ListedInv, KnownInv, OnceOnly
  <2> QED  BY <2>2, <2>4, <2>5, <2>6
<1>4. ASSUME NEW r \in Processes, Compliance!AbortErase(r)  PROVE ErasureInv'
  <2>1. /\ call' = [call EXCEPT ![r] = Nothing]
        /\ UNCHANGED <<account, contact, dsr, purge, wronged, doubled>>
    BY <1>4 DEF Compliance!AbortErase
  <2>2. ErasureType'  BY <2>1 DEF ErasureType
  <2>3. \A o \in Processes : call'[o] # Nothing => call'[o] = call[o]  BY <2>1 DEF ErasureType
  <2>4. DsrInv'  BY <2>1, <2>3 DEF DsrInv, ErasureType, Forgettable
  <2>5. CallInv'  BY <2>1, <2>3 DEF CallInv
  <2>6. ListedInv' /\ KnownInv' /\ OnceOnly'  BY <2>1 DEF ListedInv, KnownInv, OnceOnly
  <2> QED  BY <2>2, <2>4, <2>5, <2>6
<1>5. ASSUME NEW p \in Purges, Compliance!FailPurge(p)  PROVE ErasureInv'
  <2>1. /\ purge' = [purge EXCEPT ![p] = {}]
        /\ UNCHANGED <<account, contact, call, dsr, wronged, doubled>>
    BY <1>5 DEF Compliance!FailPurge
  <2>2. ErasureType'  BY <2>1 DEF ErasureType
  <2>3. \A q \in Purges : purge'[q] # {} => purge'[q] = purge[q]  BY <2>1 DEF ErasureType
  <2>4. DsrInv' /\ CallInv' /\ KnownInv'  BY <2>1 DEF DsrInv, CallInv, KnownInv
  <2>5. ListedInv'  BY <2>1, <2>3 DEF ListedInv
  <2>6. OnceOnly'  BY <2>1, <2>3 DEF OnceOnly
  <2> QED  BY <2>2, <2>4, <2>5, <2>6
<1> QED  BY <1>1, <1>2, <1>3, <1>4, <1>5

(* A request is made, falls due, is listed and is carried out.                *)
LEMMA RequestSteps ==
  ASSUME ErasureAssumption, ErasureInv,
         \/ \E r \in Processes : Compliance!CommitErase(r)
         \/ \E d \in 1..MaxErasures : Compliance!FallsDue(d)
         \/ \E p \in Purges : Compliance!ListDue(p)
  PROVE  ErasureInv'
<1> USE DEF ErasureInv, ErasureAssumption
<1>1. ASSUME NEW r \in Processes, Compliance!CommitErase(r)  PROVE ErasureInv'
  <2> DEFINE a == call[r]
             new == [of |-> a, status |-> "pending", due |-> FALSE]
  <2>1. PICK d \in 1..MaxErasures :
          dsr[d] = Nothing /\ dsr' = [dsr EXCEPT ![d] = new]
    BY <1>1 DEF Compliance!CommitErase, Compliance!Requests
  <2>2. /\ a # Nothing
        /\ account' = [account EXCEPT ![a] = "deleted"]
        /\ doubled' = (doubled \/ \E e \in Compliance!Pending : dsr[e].of = a)
        /\ call' = [call EXCEPT ![r] = Nothing]
        /\ UNCHANGED <<contact, purge, wronged>>
    BY <1>1 DEF Compliance!CommitErase
  <2>3. a \in Persons /\ account[a] \in {"active", "deleted"}  BY <2>2 DEF ErasureType, CallInv
  <2>4. /\ new \in Forgettable /\ new # Nothing
        /\ new.of = a /\ new.status = "pending" /\ new.due = FALSE
    <3>1. new \in Forgettable  BY <2>3 DEF Forgettable
    <3>2. new.of = a /\ new.status = "pending" /\ new.due = FALSE  OBVIOUS
    <3> HIDE DEF new, a
    <3> QED  BY <3>1, <3>2
  <2>5. \A e \in 1..MaxErasures : dsr[e] # Nothing /\ dsr[e].of = a => e \in Compliance!Pending
    BY <2>3 DEF DsrInv, ErasureType, Forgettable, Compliance!Pending, Compliance!Requests
  <2> HIDE DEF new, a
  <2>6. ErasureType'
    BY <2>1, <2>2, <2>3, <2>4 DEF ErasureType
  <2>7. /\ \A e \in 1..MaxErasures : dsr'[e] = IF e = d THEN new ELSE dsr[e]
        /\ \A b \in Persons : account'[b] = IF b = a THEN "deleted" ELSE account[b]
        /\ \A o \in Processes : call'[o] = IF o = r THEN Nothing ELSE call[o]
    BY <2>1, <2>2, <2>3 DEF ErasureType
  <2>8. \A e \in 1..MaxErasures : dsr[e] # Nothing => dsr[e].of \in Persons /\ dsr[e].of # Nothing
    BY DEF ErasureType, Forgettable
  <2>9. DsrInv'
    BY <2>2, <2>3, <2>4, <2>5, <2>7, <2>8 DEF DsrInv, Compliance!Pending
  <2>10. CallInv'
    <3>1. ASSUME NEW o \in Processes, call'[o] # Nothing
          PROVE  account'[call'[o]] \in {"active", "deleted"}
      <4>1. call'[o] = call[o] /\ call[o] \in Persons  BY <2>7, <3>1 DEF ErasureType
      <4> QED  BY <2>7, <3>1, <4>1 DEF CallInv
    <3> QED  BY <3>1 DEF CallInv
  <2>11. ListedInv'
    <3>1. ASSUME NEW p \in Purges, NEW e \in purge[p]  PROVE dsr'[e] = dsr[e] /\ dsr[e] # Nothing /\ dsr[e].due
      <4>1. dsr[e] # Nothing /\ dsr[e].due /\ e \in 1..MaxErasures  BY <3>1 DEF ListedInv, ErasureType
      <4> QED  BY <2>1, <2>7, <4>1
    <3> QED  BY <2>2, <3>1 DEF ListedInv
  <2>12. KnownInv'
    <3>1. \A c \in Contacts : contact[c] # Nothing => contact[c].after \subseteq Persons
      BY DEF ErasureType, Known
    <3> QED  BY <2>2, <2>3, <2>4, <2>7, <3>1 DEF KnownInv
  <2>13. OnceOnly'
    <3> SUFFICES ASSUME ~doubled'  PROVE OnceOnly'
      BY DEF OnceOnly
    <3>1. ~doubled /\ \A e \in 1..MaxErasures : dsr[e] # Nothing => dsr[e].of # a
      BY <2>2, <2>5
    <3>2. \A e, f \in 1..MaxErasures :
            dsr'[e] # Nothing /\ dsr'[f] # Nothing /\ dsr'[e].of = dsr'[f].of => e = f
      BY <2>4, <2>7, <3>1 DEF OnceOnly
    <3>3. \A e \in 1..MaxErasures :
            dsr'[e] # Nothing /\ account'[dsr'[e].of] = "tombstone" => dsr'[e].status = "completed"
      BY <2>3, <2>4, <2>7, <2>8, <3>1 DEF OnceOnly
    <3>4. \A p \in Purges : \A e \in purge[p] : dsr'[e].status = "pending"
      <4>1. ASSUME NEW p \in Purges, NEW e \in purge[p]  PROVE dsr'[e].status = "pending"
        <5>1. dsr[e] # Nothing /\ e \in 1..MaxErasures  BY <4>1 DEF ListedInv, ErasureType
        <5> QED  BY <2>1, <2>7, <3>1, <5>1 DEF OnceOnly
      <4> QED  BY <4>1
    <3> QED  BY <2>2, <3>1, <3>2, <3>3, <3>4 DEF OnceOnly
  <2> QED  BY <2>6, <2>9, <2>10, <2>11, <2>12, <2>13
<1>2. ASSUME NEW d \in 1..MaxErasures, Compliance!FallsDue(d)  PROVE ErasureInv'
  <2> DEFINE new == [dsr[d] EXCEPT !.due = TRUE]
  <2>1. /\ dsr[d] # Nothing /\ dsr[d].status = "pending"
        /\ \A r \in Processes : call[r] # dsr[d].of
        /\ dsr' = [dsr EXCEPT ![d] = new]
        /\ UNCHANGED <<account, contact, call, purge, wronged, doubled>>
    BY <1>2 DEF Compliance!FallsDue, Compliance!Pending
  <2>2. /\ new \in Forgettable /\ new # Nothing
        /\ new.of = dsr[d].of /\ new.status = "pending" /\ new.due = TRUE
    BY <2>1 DEF ErasureType, Forgettable
  <2> HIDE DEF new
  <2>3. ErasureType'  BY <2>1, <2>2 DEF ErasureType
  <2>4. \A e \in 1..MaxErasures : dsr'[e] = IF e = d THEN new ELSE dsr[e]  BY <2>1 DEF ErasureType
  <2>5. \A e \in 1..MaxErasures : (dsr'[e] # Nothing <=> dsr[e] # Nothing)
          /\ (dsr[e] # Nothing => dsr'[e].of = dsr[e].of /\ dsr'[e].status = dsr[e].status
                                   /\ (dsr[e].due => dsr'[e].due))
    BY <2>1, <2>2, <2>4
  <2>6. DsrInv'  BY <2>1, <2>2, <2>4 DEF DsrInv
  <2>7. CallInv' /\ KnownInv'  BY <2>1, <2>5 DEF CallInv, KnownInv
  <2>8. ListedInv'  BY <2>1, <2>5 DEF ListedInv, ErasureType
  <2>9. OnceOnly'
    <3>1. \A p \in Purges : \A e \in purge[p] : dsr[e] # Nothing /\ e \in 1..MaxErasures
      BY DEF ListedInv, ErasureType
    <3> QED  BY <2>1, <2>5, <3>1 DEF OnceOnly
  <2> QED  BY <2>3, <2>6, <2>7, <2>8, <2>9
<1>3. ASSUME NEW p \in Purges, Compliance!ListDue(p)  PROVE ErasureInv'
  <2> DEFINE due == {d \in Compliance!Pending : dsr[d].due}
  <2>1. /\ purge' = [purge EXCEPT ![p] = due]
        /\ doubled' = (doubled \/ \E q \in Purges : purge[q] \cap Compliance!Pending # {})
        /\ UNCHANGED <<account, contact, call, dsr, wronged>>
    BY <1>3 DEF Compliance!ListDue
  <2>2. due \subseteq 1..MaxErasures
        /\ \A d \in due : dsr[d] # Nothing /\ dsr[d].due /\ dsr[d].status = "pending"
    BY DEF Compliance!Pending, Compliance!Requests
  <2> HIDE DEF due
  <2>3. ErasureType'  BY <2>1, <2>2 DEF ErasureType
  <2>4. \A q \in Purges : purge'[q] = IF q = p THEN due ELSE purge[q]  BY <2>1 DEF ErasureType
  <2>5. DsrInv' /\ CallInv' /\ KnownInv'  BY <2>1 DEF DsrInv, CallInv, KnownInv
  <2>6. ListedInv'
    <3>1. ASSUME NEW q \in Purges, NEW d \in purge'[q]  PROVE dsr[d] # Nothing /\ dsr[d].due
      <4>1. CASE q = p  BY <2>2, <2>4, <3>1, <4>1
      <4>2. CASE q # p  BY <2>4, <3>1, <4>2 DEF ListedInv
      <4> QED  BY <4>1, <4>2
    <3> QED  BY <2>1, <3>1 DEF ListedInv
  <2>7. OnceOnly'
    <3> SUFFICES ASSUME ~doubled'  PROVE OnceOnly'
      BY DEF OnceOnly
    <3>1. ~doubled /\ \A q \in Purges : purge[q] \cap Compliance!Pending = {}  BY <2>1
    <3>2. \A q \in Purges : purge[q] = {}
      <4> SUFFICES ASSUME NEW q \in Purges, NEW d \in purge[q] PROVE FALSE
        OBVIOUS
      <4>1. dsr[d] # Nothing /\ dsr[d].status = "pending" /\ d \in 1..MaxErasures
        BY <3>1 DEF OnceOnly, ListedInv, ErasureType
      <4> QED  BY <3>1, <4>1 DEF Compliance!Pending, Compliance!Requests
    <3>3. \A q \in Purges : purge'[q] # {} => q = p  BY <2>4, <3>2
    <3>4. \A q \in Purges : \A d \in purge'[q] : dsr[d].status = "pending"
      <4>1. \A d \in purge'[p] : dsr[d].status = "pending"  BY <2>2, <2>4
      <4> QED  BY <3>3, <4>1
    <3> QED  BY <2>1, <3>1, <3>3, <3>4 DEF OnceOnly
  <2> QED  BY <2>3, <2>5, <2>6, <2>7
<1> QED  BY <1>1, <1>2, <1>3

LEMMA ExecuteKeeps ==
  ASSUME ErasureAssumption, ErasureInv, NEW p \in Purges, Compliance!Execute(p)
  PROVE  ErasureInv'
<1> USE DEF ErasureInv, ErasureAssumption
<1> DEFINE of == {dsr[d].of : d \in purge[p]}
<1>1. /\ purge[p] # {}
      /\ account' = [a \in Persons |-> IF a \in of THEN "tombstone" ELSE account[a]]
      /\ contact' = [c \in Contacts |-> IF contact[c] = Nothing THEN Nothing
                                       ELSE [contact[c] EXCEPT !.known = FALSE]]
      /\ dsr' = [d \in 1..MaxErasures |-> IF d \in purge[p] THEN [dsr[d] EXCEPT !.status = "completed"]
                                         ELSE dsr[d]]
      /\ purge' = [purge EXCEPT ![p] = {}]
      /\ wronged' = (wronged \/ \E c \in Contacts :
           contact[c] # Nothing /\ contact[c].known /\ of \subseteq contact[c].after)
      /\ UNCHANGED <<call, doubled>>
  BY DEF Compliance!Execute, Compliance!Stripped, Compliance!Completed, Compliance!Requests
<1>2. \A d \in purge[p] : /\ d \in 1..MaxErasures /\ dsr[d] # Nothing /\ dsr[d].due
                          /\ dsr[d].of \in of /\ dsr[d].of \in Persons
                          /\ \A r \in Processes : call[r] # dsr[d].of
  BY DEF ErasureType, ListedInv, DsrInv, Forgettable
<1>3. \A a \in of : a \in Persons /\ \A r \in Processes : call[r] # a  BY <1>2
<1> HIDE DEF of
<1>4. \A a \in Persons : account'[a] = IF a \in of THEN "tombstone" ELSE account[a]  BY <1>1
<1>5. ASSUME NEW d \in 1..MaxErasures
      PROVE  /\ dsr'[d] \in Forgettable \cup {Nothing}
             /\ dsr'[d] # Nothing <=> dsr[d] # Nothing
             /\ dsr[d] # Nothing => dsr'[d].of = dsr[d].of /\ dsr'[d].due = dsr[d].due
             /\ dsr[d] # Nothing => dsr[d].of \in Persons
             /\ d \in purge[p] => dsr'[d].status = "completed"
             /\ d \notin purge[p] => dsr'[d] = dsr[d]
  <2>1. CASE d \in purge[p]
    <3>1. dsr[d] \in Forgettable /\ dsr'[d] = [dsr[d] EXCEPT !.status = "completed"]
      BY <1>1, <1>2, <2>1 DEF ErasureType
    <3>2. /\ dsr'[d] \in Forgettable /\ dsr'[d].of = dsr[d].of /\ dsr'[d].due = dsr[d].due
          /\ dsr'[d].status = "completed" /\ dsr[d].of \in Persons
      BY <3>1 DEF Forgettable
    <3> QED  BY <2>1, <3>1, <3>2
  <2>2. CASE d \notin purge[p]
    <3>1. dsr'[d] = dsr[d]  BY <1>1, <2>2
    <3> QED  BY <2>2, <3>1 DEF ErasureType, Forgettable
  <2> QED  BY <2>1, <2>2
<1>6. ASSUME NEW c \in Contacts
      PROVE  /\ contact'[c] \in Known \cup {Nothing}
             /\ contact'[c] # Nothing <=> contact[c] # Nothing
             /\ contact[c] # Nothing => ~contact'[c].known /\ contact'[c].after = contact[c].after
  <2>1. CASE contact[c] = Nothing  BY <1>1, <2>1
  <2>2. CASE contact[c] # Nothing
    <3>1. contact[c] \in Known /\ contact'[c] = [contact[c] EXCEPT !.known = FALSE]
      BY <1>1, <2>2 DEF ErasureType
    <3>2. contact'[c] \in Known /\ ~contact'[c].known /\ contact'[c].after = contact[c].after
      BY <3>1 DEF Known
    <3> QED  BY <2>2, <3>2
  <2> QED  BY <2>1, <2>2
<1>7. ErasureType'
  <2>1. account' \in [Persons -> {"absent", "active", "deleted", "tombstone"}]
    BY <1>1 DEF ErasureType
  <2>2. contact' \in [Contacts -> Known \cup {Nothing}]  BY <1>1, <1>6
  <2>3. dsr' \in [1..MaxErasures -> Forgettable \cup {Nothing}]  BY <1>1, <1>5
  <2>4. purge' \in [Purges -> SUBSET (1..MaxErasures)]  BY <1>1 DEF ErasureType
  <2>5. wronged' \in BOOLEAN /\ call' = call /\ doubled' = doubled  BY <1>1
  <2> QED  BY <2>1, <2>2, <2>3, <2>4, <2>5 DEF ErasureType
<1>8. DsrInv'
  <2> SUFFICES ASSUME NEW d \in 1..MaxErasures, dsr'[d] # Nothing
               PROVE  /\ account'[dsr'[d].of] \in {"deleted", "tombstone"}
                      /\ dsr'[d].status = "completed" =>
                           dsr'[d].due /\ account'[dsr'[d].of] = "tombstone"
                      /\ dsr'[d].due => \A r \in Processes : call'[r] # dsr'[d].of
    BY DEF DsrInv
  <2>1. dsr[d] # Nothing /\ dsr'[d].of = dsr[d].of /\ dsr'[d].due = dsr[d].due /\ dsr[d].of \in Persons
    BY <1>5
  <2>2. CASE d \in purge[p]
    <3>1. account'[dsr[d].of] = "tombstone" /\ dsr[d].due  BY <1>2, <1>4, <2>1, <2>2
    <3> QED  BY <1>1, <1>2, <2>1, <2>2, <3>1
  <2>3. CASE d \notin purge[p]
    <3>1. dsr'[d].status = dsr[d].status  BY <1>5, <2>3
    <3>2. /\ account[dsr[d].of] \in {"deleted", "tombstone"}
          /\ dsr[d].status = "completed" => dsr[d].due /\ account[dsr[d].of] = "tombstone"
          /\ dsr[d].due => \A r \in Processes : call[r] # dsr[d].of
      BY <2>1 DEF DsrInv
    <3>3. account'[dsr[d].of] \in {"tombstone", account[dsr[d].of]}  BY <1>4, <2>1
    <3>4. account'[dsr'[d].of] \in {"deleted", "tombstone"}  BY <2>1, <3>2, <3>3
    <3>5. dsr'[d].status = "completed" => dsr'[d].due /\ account'[dsr'[d].of] = "tombstone"
      BY <2>1, <3>1, <3>2, <3>3
    <3>6. dsr'[d].due => \A r \in Processes : call'[r] # dsr'[d].of  BY <1>1, <2>1, <3>2
    <3> QED  BY <3>4, <3>5, <3>6
  <2> QED  BY <2>2, <2>3
<1>9. CallInv'
  <2>1. ASSUME NEW r \in Processes, call[r] # Nothing
        PROVE  account'[call[r]] \in {"active", "deleted"}
    <3>1. call[r] \in Persons /\ call[r] \notin of  BY <1>3, <2>1 DEF ErasureType
    <3> QED  BY <1>4, <2>1, <3>1 DEF CallInv
  <2> QED  BY <1>1, <2>1 DEF CallInv
<1>10. ListedInv'
  <2>1. ASSUME NEW q \in Purges, NEW d \in purge'[q]  PROVE dsr'[d] # Nothing /\ dsr'[d].due
    <3>1. d \in purge[q]  BY <1>1, <2>1 DEF ErasureType
    <3>2. d \in 1..MaxErasures /\ dsr[d] # Nothing /\ dsr[d].due  BY <3>1 DEF ErasureType, ListedInv
    <3> QED  BY <1>5, <3>2
  <2> QED  BY <2>1 DEF ListedInv
<1>11. KnownInv'
  <2>1. \A c \in Contacts : contact[c] # Nothing => contact[c].after \subseteq Persons
    BY DEF ErasureType, Known
  <2> QED  BY <1>4, <1>6, <2>1 DEF KnownInv
<1>12. OnceOnly'
  <2> SUFFICES ASSUME ~doubled'  PROVE OnceOnly'
    BY DEF OnceOnly
  <2>1. ~doubled /\ ~wronged  BY <1>1 DEF OnceOnly
  <2>2. \A d, e \in 1..MaxErasures :
          dsr'[d] # Nothing /\ dsr'[e] # Nothing /\ dsr'[d].of = dsr'[e].of => d = e
    BY <1>5, <2>1 DEF OnceOnly
  <2>3. ASSUME NEW d \in 1..MaxErasures, dsr'[d] # Nothing, account'[dsr'[d].of] = "tombstone"
        PROVE  dsr'[d].status = "completed"
    <3>1. dsr[d] # Nothing /\ dsr'[d].of = dsr[d].of /\ dsr[d].of \in Persons  BY <1>5, <2>3
    <3>2. CASE d \in purge[p]  BY <1>5, <3>2
    <3>3. CASE d \notin purge[p]
      <4>1. dsr[d].of \notin of
        <5> SUFFICES ASSUME dsr[d].of \in of PROVE FALSE
          OBVIOUS
        <5>1. PICK e \in purge[p] : dsr[e].of = dsr[d].of  BY DEF of
        <5>2. e = d  BY <1>2, <2>1, <3>1, <5>1 DEF OnceOnly
        <5> QED  BY <3>3, <5>2
      <4>2. account[dsr[d].of] = "tombstone"  BY <1>4, <2>3, <3>1, <4>1
      <4> QED  BY <1>5, <2>1, <3>1, <3>3, <4>2 DEF OnceOnly
    <3> QED  BY <3>2, <3>3
  <2>4. \A q \in Purges : purge'[q] = {}
    BY <1>1, <2>1 DEF OnceOnly, ErasureType
  <2>5. ~wronged'
    <3> SUFFICES ASSUME NEW c \in Contacts, contact[c] # Nothing, of \subseteq contact[c].after
                 PROVE  FALSE
      BY <1>1, <2>1
    <3>1. PICK d \in purge[p] : TRUE  BY <1>1
    <3>2. dsr[d].of \in contact[c].after  BY <1>2
    <3>3. account[dsr[d].of] = "tombstone"  BY <3>2 DEF KnownInv
    <3>4. dsr[d].status = "pending" /\ dsr[d].status = "completed"
      BY <1>2, <2>1, <3>3 DEF OnceOnly
    <3> QED  BY <3>4
  <2> QED  BY <2>2, <2>3, <2>4, <2>5 DEF OnceOnly
<1> QED  BY <1>7, <1>8, <1>9, <1>10, <1>11, <1>12

(* Who comes back after an erasure is not erased with it, unless the account   *)
(* was erased twice over; and what was erased stays so (compliance/service.py  *)
(* request_erasure, execute_erasure and the daily purge).                    *)
THEOREM ReturnersSpared ==
  ASSUME ErasureAssumption PROVE AgencySpec => []ErasureSparesWhoReturns
<1>1. AgencyInit => ErasureInv
  <2> SUFFICES ASSUME AgencyInit PROVE ErasureInv  OBVIOUS
  <2>1. /\ account = [a \in Persons |-> "absent"] /\ contact = [c \in Contacts |-> Nothing]
        /\ call = [r \in Processes |-> Nothing] /\ dsr = [d \in 1..MaxErasures |-> Nothing]
        /\ purge = [p \in Purges |-> {}] /\ wronged = FALSE /\ doubled = FALSE
    BY DEF AgencyInit, Compliance!Init, Compliance!Requests
  <2> QED  BY <2>1 DEF ErasureInv, ErasureType, DsrInv, CallInv, ListedInv, KnownInv, OnceOnly
<1>2. ErasureInv /\ [AgencyNext]_agency => ErasureInv'
  <2> SUFFICES ASSUME ErasureInv, [AgencyNext]_agency PROVE ErasureInv'  OBVIOUS
  <2>1. [Compliance!Next]_people  BY DEF AgencyNext, agency
  <2>2. CASE UNCHANGED people
    BY <2>2 DEF people, ErasureInv, ErasureType, DsrInv, CallInv, ListedInv, KnownInv, OnceOnly
  <2>3. CASE Compliance!Next
    BY <2>3, PersonSteps, RequestSteps, ExecuteKeeps DEF Compliance!Next, Compliance!Requests
  <2> QED  BY <2>1, <2>2, <2>3
<1>3. ErasureInv => ErasureSparesWhoReturns
  BY DEF ErasureInv, DsrInv, KnownInv, OnceOnly, ErasureType, ErasureSparesWhoReturns,
         Compliance!ErasureSparesWhoReturns, Compliance!Requests
<1> QED  BY <1>1, <1>2, <1>3, PTL DEF AgencySpec

-----------------------------------------------------------------------------
(* Failed sign-ins.  What passed the check before a lock was set is still      *)
(* under way: under a lock, failures and attempts under way are bounded        *)
(* together, and there are as many attempts as there are processes.           *)

Underway(k) == {a \in Processes : attempt[a] # Idle /\ k \in Signins!KeysOf(attempt[a])}
Limit(k) == IF k = "ip" THEN AddressThreshold ELSE EmailThreshold
(* The failures that each lock which ran out has let by.                     *)
Renewed(k) == Cardinality(Processes) * lapses[k]

LockoutAssumption ==
  /\ IsFiniteSet(Processes)
  /\ EmailThreshold \in Nat \ {0} /\ AddressThreshold \in Nat \ {0}
  /\ Idle \notin Emails

LockoutType ==
  /\ count \in [Signins!Keys -> Nat] /\ guesses = count /\ lapses \in [Signins!Keys -> Nat]
  /\ locked \subseteq Signins!Keys
  /\ attempt \in [Processes -> Emails \cup {Idle}]
  /\ outages \in Nat
Within(k) ==
  IF k \in locked
  THEN guesses[k] + Cardinality(Underway(k)) <= Limit(k) - 1 + Cardinality(Processes) + Renewed(k) + outages
  ELSE guesses[k] <= Limit(k) - 1 + Renewed(k) + outages
LockedInv == \A k \in Signins!Keys : Within(k)
LockoutInv == LockoutType /\ LockedInv

(* A multiple of what a set holds, one higher.                               *)
LEMMA OneMore ==
  ASSUME NEW n \in Nat, NEW m \in Nat
  PROVE  n * m \in Nat /\ n * (1 + m) = n + n * m /\ n * 0 = 0
OBVIOUS

LEMMA UnderwayFacts ==
  ASSUME LockoutAssumption, NEW k
  PROVE  /\ Cardinality(Processes) \in Nat /\ IsFiniteSet(Underway(k))
         /\ Cardinality(Underway(k)) \in Nat /\ Cardinality(Underway(k)) <= Cardinality(Processes)
<1>1. Underway(k) \subseteq Processes  BY DEF Underway
<1> QED  BY <1>1, FS_Subset, FS_CardinalityType DEF LockoutAssumption

LEMMA LockoutFacts ==
  ASSUME LockoutAssumption, LockoutType, NEW k \in Signins!Keys
  PROVE  /\ guesses[k] \in Nat /\ count[k] = guesses[k] /\ lapses[k] \in Nat
         /\ Limit(k) \in Nat /\ Limit(k) >= 1
         /\ Renewed(k) \in Nat /\ outages \in Nat
<1>1. Limit(k) \in Nat /\ Limit(k) >= 1  BY DEF Limit, LockoutAssumption
<1>2. guesses[k] \in Nat /\ count[k] = guesses[k] /\ lapses[k] \in Nat /\ outages \in Nat  BY DEF LockoutType
<1>3. Renewed(k) \in Nat  BY <1>2, UnderwayFacts, OneMore DEF Renewed
<1> QED  BY <1>1, <1>2, <1>3

(* An attempt that begins, and one that is over.                              *)
LEMMA Begun ==
  ASSUME LockoutAssumption, LockoutType, NEW a \in Processes, NEW e \in Emails,
         attempt[a] = Idle, attempt' = [attempt EXCEPT ![a] = e], NEW k
  PROVE  Cardinality(Underway(k)') =
           Cardinality(Underway(k)) + (IF k \in Signins!KeysOf(e) THEN 1 ELSE 0)
<1>1. \A x \in Processes : attempt'[x] = IF x = a THEN e ELSE attempt[x]  BY DEF LockoutType
<1>2. e # Idle  BY DEF LockoutAssumption
<1>3. a \notin Underway(k) /\ IsFiniteSet(Underway(k))  BY UnderwayFacts DEF Underway
<1>4. CASE k \in Signins!KeysOf(e)
  <2>1. Underway(k)' = Underway(k) \cup {a}  BY <1>1, <1>2, <1>4 DEF Underway
  <2> QED  BY <1>3, <1>4, <2>1, FS_AddElement
<1>5. CASE k \notin Signins!KeysOf(e)
  <2>1. Underway(k)' = Underway(k)  BY <1>1, <1>3, <1>5 DEF Underway
  <2> QED  BY <1>3, <1>5, <2>1, FS_CardinalityType
<1> QED  BY <1>4, <1>5

LEMMA Ended ==
  ASSUME LockoutAssumption, LockoutType, NEW a \in Processes,
         attempt[a] # Idle, attempt' = [attempt EXCEPT ![a] = Idle], NEW k
  PROVE  Cardinality(Underway(k)') =
           Cardinality(Underway(k)) - (IF k \in Signins!KeysOf(attempt[a]) THEN 1 ELSE 0)
<1>1. \A x \in Processes : attempt'[x] = IF x = a THEN Idle ELSE attempt[x]  BY DEF LockoutType
<1>2. IsFiniteSet(Underway(k)) /\ Cardinality(Underway(k)) \in Nat  BY UnderwayFacts
<1>3. CASE k \in Signins!KeysOf(attempt[a])
  <2>1. Underway(k)' = Underway(k) \ {a} /\ a \in Underway(k)  BY <1>1, <1>3 DEF Underway
  <2> QED  BY <1>2, <1>3, <2>1, FS_RemoveElement
<1>4. CASE k \notin Signins!KeysOf(attempt[a])
  <2>1. Underway(k)' = Underway(k)  BY <1>1, <1>4 DEF Underway
  <2> QED  BY <1>2, <1>4, <2>1
<1> QED  BY <1>3, <1>4

(* An attempt begins unless a lock is seen, and is recorded or lost.           *)
LEMMA AttemptSteps ==
  ASSUME LockoutAssumption, LockoutInv, NEW a \in Processes,
         \/ \E e \in Emails : Signins!Check(a, e)
         \/ Signins!RecordFailure(a)
         \/ Signins!RecordFails(a)
  PROVE  LockoutInv'
<1> USE DEF LockoutInv, Within
<1>1. ASSUME NEW e \in Emails, Signins!Check(a, e)  PROVE LockoutInv'
  <2>1. /\ attempt[a] = Idle /\ attempt' = [attempt EXCEPT ![a] = e]
        /\ \/ locked \cap Signins!KeysOf(e) = {} /\ outages' = outages
           \/ outages' = outages + 1
        /\ UNCHANGED <<count, locked, guesses, lapses>>
    BY <1>1 DEF Signins!Check, Signins!IsLocked
  <2>2. LockoutType'  BY <2>1 DEF LockoutType
  <2>3. ASSUME NEW k \in Signins!Keys
        PROVE  Within(k)'
    <3>1. /\ guesses[k] \in Nat /\ Limit(k) \in Nat /\ Renewed(k) \in Nat /\ outages \in Nat
      BY LockoutFacts
    <3>2. Cardinality(Underway(k)) \in Nat /\ Cardinality(Processes) \in Nat  BY UnderwayFacts
    <3>3. guesses'[k] = guesses[k] /\ Renewed(k)' = Renewed(k) /\ locked' = locked
      BY <2>1 DEF Renewed
    <3>4. Cardinality(Underway(k)') =
            Cardinality(Underway(k)) + (IF k \in Signins!KeysOf(e) THEN 1 ELSE 0)
      BY <2>1, Begun
    <3>5. outages' >= outages /\ outages' \in Nat  BY <2>1, <3>1
    <3>6. CASE k \in locked
      <4>1. guesses[k] + Cardinality(Underway(k)) <=
              Limit(k) - 1 + Cardinality(Processes) + Renewed(k) + outages
        BY <3>6 DEF LockedInv
      <4>2. outages' = outages => k \notin Signins!KeysOf(e)  BY <2>1, <3>1, <3>6
      <4>3. Cardinality(Underway(k)') + outages <= Cardinality(Underway(k)) + outages'
        BY <2>1, <3>1, <3>2, <3>4, <4>2
      <4> QED
        BY <3>1, <3>2, <3>3, <3>4, <3>5, <3>6, <4>1, <4>3
    <3>7. CASE k \notin locked
      <4>1. guesses[k] <= Limit(k) - 1 + Renewed(k) + outages  BY <3>7 DEF LockedInv
      <4> QED  BY <3>1, <3>3, <3>5, <3>7, <4>1
    <3> QED  BY <3>6, <3>7
  <2> QED  BY <2>2, <2>3 DEF LockedInv
<1>2. CASE Signins!RecordFailure(a)
  <2> DEFINE keys == Signins!KeysOf(attempt[a])
  <2>1. /\ attempt[a] # Idle /\ attempt' = [attempt EXCEPT ![a] = Idle]
        /\ count' = [k \in Signins!Keys |-> count[k] + IF k \in keys THEN 1 ELSE 0]
        /\ guesses' = [k \in Signins!Keys |-> guesses[k] + IF k \in keys THEN 1 ELSE 0]
        /\ UNCHANGED <<outages, lapses>>
    BY <1>2 DEF Signins!RecordFailure
  <2>2. locked' = locked \cup {k \in keys : Signins!Crossed(k)}
    BY <1>2 DEF Signins!RecordFailure
  <2>3. keys \subseteq Signins!Keys
    BY <2>1 DEF LockoutType, Signins!KeysOf, Signins!Keys
  <2>4. \A k \in Signins!Keys : Signins!Crossed(k) <=> count'[k] >= Limit(k)
    BY DEF Signins!Crossed, Limit, Signins!Keys
  <2> HIDE DEF keys
  <2>5. LockoutType'
    <3>1. \A k \in Signins!Keys : count[k] \in Nat  BY DEF LockoutType
    <3>2. \A k \in Signins!Keys : count[k] + (IF k \in keys THEN 1 ELSE 0) \in Nat  BY <3>1
    <3>3. count' \in [Signins!Keys -> Nat]  BY <2>1, <3>2
    <3>4. guesses' = count'  BY <2>1 DEF LockoutType
    <3> QED  BY <2>1, <2>2, <2>3, <3>3, <3>4 DEF LockoutType
  <2>6. ASSUME NEW k \in Signins!Keys
        PROVE  Within(k)'
    <3>1. /\ guesses[k] \in Nat /\ count[k] = guesses[k]
          /\ Limit(k) \in Nat /\ Limit(k) >= 1 /\ Renewed(k) \in Nat /\ outages \in Nat
      BY LockoutFacts
    <3>2. /\ Cardinality(Underway(k)) \in Nat /\ Cardinality(Processes) \in Nat
          /\ Cardinality(Underway(k)) <= Cardinality(Processes)
      BY UnderwayFacts
    <3>3. /\ guesses'[k] = guesses[k] + (IF k \in keys THEN 1 ELSE 0) /\ count'[k] = guesses'[k]
          /\ Renewed(k)' = Renewed(k) /\ outages' = outages
      BY <2>1, <3>1 DEF Renewed
    <3>4. Cardinality(Underway(k)') =
            Cardinality(Underway(k)) - (IF k \in keys THEN 1 ELSE 0)
      BY <2>1, Ended DEF keys
    <3>5. guesses'[k] + Cardinality(Underway(k)') = guesses[k] + Cardinality(Underway(k))
      BY <3>1, <3>2, <3>3, <3>4
    <3>6. guesses[k] + Cardinality(Underway(k)) <=
            Limit(k) - 1 + Cardinality(Processes) + Renewed(k) + outages
      <4>1. CASE k \in locked  BY <4>1 DEF LockedInv
      <4>2. CASE k \notin locked
        <5>1. guesses[k] <= Limit(k) - 1 + Renewed(k) + outages  BY <4>2 DEF LockedInv
        <5> QED  BY <3>1, <3>2, <5>1
      <4> QED  BY <4>1, <4>2
    <3>7. k \notin locked' => guesses'[k] <= Limit(k) - 1 + Renewed(k) + outages
      <4> SUFFICES ASSUME k \notin locked' PROVE guesses'[k] <= Limit(k) - 1 + Renewed(k) + outages
        OBVIOUS
      <4>1. k \notin locked /\ (k \in keys => ~(guesses'[k] >= Limit(k)))  BY <2>2, <2>4, <3>3
      <4>2. CASE k \in keys
        <5>1. guesses'[k] <= Limit(k) - 1  BY <3>1, <3>3, <4>1, <4>2
        <5> QED  BY <3>1, <3>3, <4>2, <5>1
      <4>3. CASE k \notin keys
        <5>1. guesses'[k] = guesses[k]  BY <3>1, <3>3, <4>3
        <5> QED  BY <4>1, <5>1 DEF LockedInv
      <4> QED  BY <4>2, <4>3
    <3> QED  BY <3>3, <3>5, <3>6, <3>7
  <2> QED  BY <2>5, <2>6 DEF LockedInv
<1>3. CASE Signins!RecordFails(a)
  <2>1. /\ attempt[a] # Idle /\ attempt' = [attempt EXCEPT ![a] = Idle] /\ outages' = outages + 1
        /\ UNCHANGED <<count, locked, guesses, lapses>>
    BY <1>3 DEF Signins!RecordFails
  <2>2. LockoutType'  BY <2>1 DEF LockoutType
  <2>3. ASSUME NEW k \in Signins!Keys
        PROVE  Within(k)'
    <3>1. guesses[k] \in Nat /\ Limit(k) \in Nat /\ Renewed(k) \in Nat /\ outages \in Nat
      BY LockoutFacts
    <3>2. Cardinality(Underway(k)) \in Nat /\ Cardinality(Processes) \in Nat  BY UnderwayFacts
    <3>3. guesses'[k] = guesses[k] /\ Renewed(k)' = Renewed(k) /\ locked' = locked
      BY <2>1 DEF Renewed
    <3>4. Cardinality(Underway(k)') =
            Cardinality(Underway(k)) - (IF k \in Signins!KeysOf(attempt[a]) THEN 1 ELSE 0)
      BY <2>1, Ended
    <3>5. Cardinality(Underway(k)') <= Cardinality(Underway(k)) /\ Cardinality(Underway(k)') \in Int
      BY <3>2, <3>4
    <3>6. CASE k \in locked
      <4>1. guesses[k] + Cardinality(Underway(k)) <=
              Limit(k) - 1 + Cardinality(Processes) + Renewed(k) + outages
        BY <3>6 DEF LockedInv
      <4> QED  BY <2>1, <3>1, <3>2, <3>3, <3>5, <3>6, <4>1
    <3>7. CASE k \notin locked
      <4>1. guesses[k] <= Limit(k) - 1 + Renewed(k) + outages  BY <3>7 DEF LockedInv
      <4> QED  BY <2>1, <3>1, <3>3, <3>7, <4>1
    <3> QED  BY <3>6, <3>7
  <2> QED  BY <2>2, <2>3 DEF LockedInv
<1> QED  BY <1>1, <1>2, <1>3

(* A count that begins again, with the sign-ins that are under way.            *)
LEMMA Anew ==
  ASSUME LockoutAssumption, LockoutType', NEW k \in Signins!Keys, guesses'[k] = 0
  PROVE  Within(k)'
<1>1. Limit(k) \in Nat /\ Limit(k) >= 1  BY DEF Limit, LockoutAssumption
<1>2. lapses'[k] \in Nat /\ outages' \in Nat  BY DEF LockoutType
<1>3. Cardinality(Processes) \in Nat  BY UnderwayFacts
<1>4. Renewed(k)' \in Nat  BY <1>2, <1>3, OneMore DEF Renewed
<1>5. Underway(k)' \subseteq Processes  BY DEF Underway
<1>6. Cardinality(Underway(k)') \in Nat /\ Cardinality(Underway(k)') <= Cardinality(Processes)
  BY <1>5, FS_Subset, FS_CardinalityType DEF LockoutAssumption
<1> QED  BY <1>1, <1>2, <1>3, <1>4, <1>6 DEF Within

(* The right password, a lock that runs out and a window that ends.            *)
LEMMA ForgettingSteps ==
  ASSUME LockoutAssumption, LockoutInv,
         \/ \E a \in Processes : Signins!Reset(a)
         \/ \E k \in Signins!Keys : Signins!LockLapses(k) \/ Signins!WindowEnds(k)
  PROVE  LockoutInv'
<1> USE DEF LockoutInv, Within
<1>1. ASSUME NEW a \in Processes, Signins!Reset(a)  PROVE LockoutInv'
  <2> DEFINE cleared == Signins!KeysOf(attempt[a])
  <2>1. /\ attempt[a] # Idle /\ attempt' = [attempt EXCEPT ![a] = Idle] /\ outages' = outages
        /\ count' = [k \in Signins!Keys |-> IF k \in cleared THEN 0 ELSE count[k]]
        /\ locked' = locked \ cleared
        /\ guesses' = [k \in Signins!Keys |-> IF k \in cleared THEN 0 ELSE guesses[k]]
        /\ lapses' = [k \in Signins!Keys |-> IF k \in cleared THEN 0 ELSE lapses[k]]
    BY <1>1 DEF Signins!Reset, Signins!Forgotten
  <2>2. \A k \in Signins!Keys : k \notin cleared => Cardinality(Underway(k)') = Cardinality(Underway(k))
    <3> SUFFICES ASSUME NEW k \in Signins!Keys, k \notin cleared
                 PROVE  Cardinality(Underway(k)') = Cardinality(Underway(k))
      OBVIOUS
    <3>1. Cardinality(Underway(k)') = Cardinality(Underway(k)) - 0  BY <2>1, Ended
    <3> QED  BY <3>1, UnderwayFacts
  <2> HIDE DEF cleared
  <2>3. LockoutType'
    <3>1. guesses' = count'  BY <2>1 DEF LockoutType
    <3>2. count' \in [Signins!Keys -> Nat] /\ lapses' \in [Signins!Keys -> Nat]
      BY <2>1 DEF LockoutType
    <3> QED  BY <2>1, <3>1, <3>2 DEF LockoutType
  <2>4. ASSUME NEW k \in Signins!Keys
        PROVE  Within(k)'
    <3>1. CASE k \in cleared
      <4>1. guesses'[k] = 0  BY <2>1, <3>1
      <4> QED  BY <2>3, <4>1, Anew
    <3>2. CASE k \notin cleared
      <4>1. /\ guesses'[k] = guesses[k] /\ Renewed(k)' = Renewed(k) /\ outages' = outages
            /\ k \in locked' <=> k \in locked
        BY <2>1, <3>2 DEF Renewed
      <4>2. Cardinality(Underway(k)') = Cardinality(Underway(k))  BY <2>2, <3>2
      <4> QED  BY <4>1, <4>2 DEF LockedInv
    <3> QED  BY <3>1, <3>2
  <2> QED  BY <2>3, <2>4 DEF LockedInv
<1>2. ASSUME NEW l \in Signins!Keys, Signins!LockLapses(l)  PROVE LockoutInv'
  <2>1. /\ l \in locked /\ locked' = locked \ {l}
        /\ lapses' = [lapses EXCEPT ![l] = @ + 1]
        /\ UNCHANGED <<count, attempt, outages, guesses>>
    BY <1>2 DEF Signins!LockLapses
  <2>2. LockoutType'  BY <2>1 DEF LockoutType
  <2>3. ASSUME NEW k \in Signins!Keys
        PROVE  Within(k)'
    <3>1. Underway(k)' = Underway(k)  BY <2>1 DEF Underway
    <3>2. CASE k = l
      <4>1. lapses'[k] = 1 + lapses[k] /\ lapses[k] \in Nat  BY <2>1, <3>2 DEF LockoutType
      <4>2. Renewed(k)' = Cardinality(Processes) + Renewed(k)  BY <4>1, UnderwayFacts, OneMore DEF Renewed
      <4>3. guesses[k] + Cardinality(Underway(k)) <=
              Limit(k) - 1 + Cardinality(Processes) + Renewed(k) + outages
        BY <2>1, <3>2 DEF LockedInv
      <4>4. /\ guesses[k] \in Nat /\ Limit(k) \in Nat /\ Renewed(k) \in Nat /\ outages \in Nat
            /\ Cardinality(Underway(k)) \in Nat /\ Cardinality(Processes) \in Nat
        BY LockoutFacts, UnderwayFacts
      <4> QED  BY <2>1, <3>2, <4>2, <4>3, <4>4
    <3>3. CASE k # l
      <4>1. Renewed(k)' = Renewed(k) /\ (k \in locked' <=> k \in locked)
        BY <2>1, <3>3 DEF LockoutType, Renewed
      <4> QED  BY <2>1, <3>1, <4>1 DEF LockedInv
    <3> QED  BY <3>2, <3>3
  <2> QED  BY <2>2, <2>3 DEF LockedInv
<1>3. ASSUME NEW l \in Signins!Keys, Signins!WindowEnds(l)  PROVE LockoutInv'
  <2>1. /\ count' = [k \in Signins!Keys |-> IF k \in {l} THEN 0 ELSE count[k]]
        /\ guesses' = [k \in Signins!Keys |-> IF k \in {l} THEN 0 ELSE guesses[k]]
        /\ lapses' = [k \in Signins!Keys |-> IF k \in {l} THEN 0 ELSE lapses[k]]
        /\ UNCHANGED <<locked, attempt, outages>>
    BY <1>3 DEF Signins!WindowEnds, Signins!Forgotten
  <2>2. LockoutType'
    <3>1. guesses' = count'  BY <2>1 DEF LockoutType
    <3>2. count' \in [Signins!Keys -> Nat] /\ lapses' \in [Signins!Keys -> Nat]
      BY <2>1 DEF LockoutType
    <3> QED  BY <2>1, <3>1, <3>2 DEF LockoutType
  <2>3. ASSUME NEW k \in Signins!Keys
        PROVE  Within(k)'
    <3>1. CASE k = l
      <4>1. guesses'[k] = 0  BY <2>1, <3>1
      <4> QED  BY <2>2, <4>1, Anew
    <3>2. CASE k # l
      <4>1. guesses'[k] = guesses[k] /\ lapses'[k] = lapses[k]  BY <2>1, <3>2
      <4>2. Underway(k)' = Underway(k) /\ Renewed(k)' = Renewed(k)  BY <2>1, <4>1 DEF Underway, Renewed
      <4> QED  BY <2>1, <4>1, <4>2 DEF LockedInv
    <3> QED  BY <3>1, <3>2
  <2> QED  BY <2>2, <2>3 DEF LockedInv
<1> QED  BY <1>1, <1>2, <1>3

LEMMA SigninsCount ==
  ASSUME NEW S PROVE Signins!Cardinality(S) = Cardinality(S)
BY DEF Signins!Cardinality, Cardinality

(* Failures on an account or address are bounded by its threshold, by as many  *)
(* more as sign-ins overlap, once and for each lock that ran out, and by the    *)
(* times Redis was out of reach (core/lockout.py record_failure).             *)
THEOREM GuessesBounded ==
  ASSUME LockoutAssumption PROVE AgencySpec => [](Signins!GuessesAreBounded)
<1>1. AgencyInit => LockoutInv
  <2> SUFFICES ASSUME AgencyInit PROVE LockoutInv  OBVIOUS
  <2>1. /\ count = [k \in Signins!Keys |-> 0] /\ guesses = [k \in Signins!Keys |-> 0]
        /\ lapses = [k \in Signins!Keys |-> 0] /\ locked = {} /\ outages = 0
        /\ attempt = [a \in Processes |-> Idle]
    BY DEF AgencyInit, Signins!Init
  <2>2. LockoutType  BY <2>1 DEF LockoutType
  <2>3. \A k \in Signins!Keys : guesses[k] = 0 /\ k \notin locked  BY <2>1
  <2>4. LockedInv  BY <2>2, <2>3, LockoutFacts DEF LockedInv, Within
  <2> QED  BY <2>2, <2>4 DEF LockoutInv
<1>2. LockoutInv /\ [AgencyNext]_agency => LockoutInv'
  <2> SUFFICES ASSUME LockoutInv, [AgencyNext]_agency PROVE LockoutInv'  OBVIOUS
  <2>1. [Signins!Next]_signins  BY DEF AgencyNext, agency
  <2>2. CASE UNCHANGED signins
    BY <2>2 DEF signins, LockoutInv, LockoutType, LockedInv, Within, Underway, Renewed
  <2>3. CASE Signins!Next
    BY <2>3, AttemptSteps, ForgettingSteps DEF Signins!Next
  <2> QED  BY <2>1, <2>2, <2>3
<1>3. LockoutInv => Signins!GuessesAreBounded
  <2> SUFFICES ASSUME LockoutInv, NEW k \in Signins!Keys
               PROVE  guesses[k] <= Limit(k) - 1 + Cardinality(Processes) * (1 + lapses[k]) + outages
    BY SigninsCount DEF Signins!GuessesAreBounded, Signins!Keys, Limit
  <2>1. /\ guesses[k] \in Nat /\ lapses[k] \in Nat /\ Limit(k) \in Nat /\ Renewed(k) \in Nat /\ outages \in Nat
        /\ Cardinality(Underway(k)) \in Nat /\ Cardinality(Processes) \in Nat
    BY LockoutFacts, UnderwayFacts DEF LockoutInv
  <2>2. Cardinality(Processes) * (1 + lapses[k]) = Cardinality(Processes) + Renewed(k)
    BY <2>1, OneMore DEF Renewed
  <2>3. CASE k \in locked
    <3>1. guesses[k] + Cardinality(Underway(k)) <=
            Limit(k) - 1 + Cardinality(Processes) + Renewed(k) + outages
      BY <2>3 DEF LockoutInv, LockedInv, Within
    <3> QED  BY <2>1, <2>2, <3>1
  <2>4. CASE k \notin locked
    <3>1. guesses[k] <= Limit(k) - 1 + Renewed(k) + outages  BY <2>4 DEF LockoutInv, LockedInv, Within
    <3> QED  BY <2>1, <2>2, <3>1
  <2> QED  BY <2>3, <2>4
<1> QED  BY <1>1, <1>2, <1>3, PTL DEF AgencySpec

-----------------------------------------------------------------------------
(* Roles and routes.  Every route that requires a token lets in only the roles  *)
(* with business there, and the others lead to what anybody may do.            *)

Fits(route) ==
  /\ route.reach = "anybody" => route.on \in {"site", "platform"}
  /\ \A c : Acting!Admitted([role |-> c], route) => c \in Acting!Business(route.on)

LEMMA Granted ==
  /\ Acting!Roles = {"buyer_renter", "seller", "agent", "team_lead", "marketing", "admin",
                     "platform_support", "platform_admin"}
  /\ Acting!PLATFORM_ROLES = {"platform_admin", "platform_support"}
  /\ \A c \in Acting!Roles :
       LET held == Acting!ROLE_PERMISSIONS[c]
       IN  /\ "LISTING_MANAGE" \in held => c \in {"agent", "team_lead", "marketing", "admin"}
           /\ "LEAD_MANAGE" \in held => c \in {"agent", "team_lead", "marketing", "admin"}
           /\ "APPOINTMENT_MANAGE" \in held => c \in {"agent", "team_lead", "marketing", "admin"}
           /\ "DEAL_MANAGE" \in held => c \in {"agent", "team_lead", "admin"}
           /\ "LEAD_VIEW_ALL" \in held => c \in {"team_lead", "marketing", "admin"}
           /\ "LEAD_ASSIGN" \in held => c \in {"team_lead", "marketing", "admin"}
           /\ "AGENT_MANAGE" \in held => c \in {"team_lead", "marketing", "admin"}
           /\ "ANALYTICS_VIEW" \in held => c \in {"team_lead", "marketing", "admin"}
           /\ "CONTENT_MANAGE" \in held => c \in {"marketing", "admin"}
           /\ "REVIEW_MODERATE" \in held => c \in {"marketing", "admin"}
           /\ "USER_VIEW" \in held => c = "admin"
           /\ "USER_MANAGE" \in held => c = "admin"
           /\ "COMPLIANCE_MANAGE" \in held => c = "admin"
           /\ "WEBHOOK_MANAGE" \in held => c = "admin"
           /\ "PLATFORM_TENANT_MANAGE" \in held => c = "platform_admin"
           /\ "PLATFORM_STAFF_MANAGE" \in held => c = "platform_admin"
BY DEF Acting!Roles, Acting!PLATFORM_ROLES, Acting!ROLE_PERMISSIONS

(* Routes that all are alike in what the check reads.                         *)
LEMMA RouteFits ==
  ASSUME NEW on, NEW needs, NEW who, NEW reach, NEW names,
         who \subseteq Acting!Roles,
         reach = "anybody" => on \in {"site", "platform"},
         \A c \in who : ((c \in Acting!PLATFORM_ROLES) = (reach = "platform"))
                           /\ needs \subseteq Acting!ROLE_PERMISSIONS[c] => c \in Acting!Business(on)
  PROVE  \A r \in Acting!Route(on, needs, who, reach, names) : Fits(r)
<1> SUFFICES ASSUME NEW r \in Acting!Route(on, needs, who, reach, names) PROVE Fits(r)
  OBVIOUS
<1>1. r.on = on /\ r.needs = needs /\ r.roles = who /\ r.reach = reach  BY DEF Acting!Route
<1>2. ASSUME NEW c, Acting!Admitted([role |-> c], r)  PROVE c \in Acting!Business(on)
  <2>1. /\ ((c \in Acting!PLATFORM_ROLES) = (reach = "platform"))
        /\ needs \subseteq Acting!ROLE_PERMISSIONS[c] /\ c \in who
    BY <1>1, <1>2 DEF Acting!Admitted
  <2> QED  BY <2>1
<1> QED  BY <1>1, <1>2 DEF Fits

LEMMA BusinessFacts ==
  /\ Acting!Business("account") = Acting!Roles \ Acting!PLATFORM_ROLES
  /\ Acting!Business("profile") = Acting!Roles \ Acting!PLATFORM_ROLES
  /\ Acting!Business("own figures") = Acting!Roles \ Acting!PLATFORM_ROLES
  /\ \A on \in {"listing", "new listing", "lead", "new lead", "appointment", "syndication"} :
       Acting!Business(on) = {"agent", "team_lead", "marketing", "admin"}
  /\ \A on \in {"deal", "new deal"} : Acting!Business(on) = {"agent", "team_lead", "admin"}
  /\ \A on \in {"contact", "assignment", "roster", "figures", "team"} :
       Acting!Business(on) = {"team_lead", "marketing", "admin"}
  /\ \A on \in {"content", "review"} : Acting!Business(on) = {"marketing", "admin"}
  /\ \A on \in {"user", "compliance", "webhook", "commission"} : Acting!Business(on) = {"admin"}
  /\ \A on \in {"tenant seen", "own session"} : Acting!Business(on) = Acting!PLATFORM_ROLES
  /\ \A on \in {"tenant", "staff"} : Acting!Business(on) = {"platform_admin"}
  /\ \A on \in {"site", "platform"} : Acting!Business(on) = Acting!Roles \cup {"nobody"}
BY DEF Acting!Business

(* What anybody may do; one's own; a permission's holders; the platform's staff. *)
LEMMA AnybodyFits ==
  ASSUME NEW on \in {"site", "platform"}, NEW names
  PROVE  \A r \in Acting!Anybody(on, names) : Fits(r)
<1>1. \A c \in Acting!Roles : c \in Acting!Business(on)  BY BusinessFacts
<1> QED  BY <1>1, RouteFits DEF Acting!Anybody

LEMMA OneselfFits ==
  ASSUME NEW names
  PROVE  \A r \in Acting!Oneself("account", names) : Fits(r)
<1>1. \A c \in Acting!Roles : ((c \in Acting!PLATFORM_ROLES) = ("own" = "platform")) =>
        c \in Acting!Business("account")
  BY BusinessFacts
<1> QED  BY <1>1, RouteFits DEF Acting!Oneself

LEMMA PermissionFits ==
  ASSUME NEW on, NEW needs, NEW who, NEW reach, NEW names,
         who \subseteq Acting!Roles, reach \in {"tenant", "scope", "team", "platform"},
         \E p \in needs : \A c \in Acting!Roles : p \in Acting!ROLE_PERMISSIONS[c] => c \in Acting!Business(on)
  PROVE  \A r \in Acting!Route(on, needs, who, reach, names) : Fits(r)
<1>1. \A c \in who : needs \subseteq Acting!ROLE_PERMISSIONS[c] => c \in Acting!Business(on)
  OBVIOUS
<1> QED  BY <1>1, RouteFits

LEMMA UnpermittedFits ==
  ASSUME NEW names
  PROVE  /\ \A on \in {"profile", "own figures"} : \A r \in Acting!InScope(on, {}, names) : Fits(r)
         /\ \A r \in Acting!Staff("own session", {}, names) : Fits(r)
         /\ \A r \in Acting!Staff("tenant seen", {"PLATFORM_TENANT_VIEW"}, names) : Fits(r)
<1>1. ASSUME NEW on \in {"profile", "own figures"}
      PROVE  \A r \in Acting!InScope(on, {}, names) : Fits(r)
  <2>1. \A c \in Acting!Roles : ((c \in Acting!PLATFORM_ROLES) = ("scope" = "platform")) =>
          c \in Acting!Business(on)
    BY BusinessFacts
  <2> QED  BY <2>1, RouteFits DEF Acting!InScope
<1>2. ASSUME NEW on \in {"own session", "tenant seen"}, NEW needs
      PROVE  \A r \in Acting!Staff(on, needs, names) : Fits(r)
  <2>1. \A c \in Acting!Roles : ((c \in Acting!PLATFORM_ROLES) = ("platform" = "platform")) =>
          c \in Acting!Business(on)
    BY BusinessFacts
  <2> QED  BY <2>1, RouteFits DEF Acting!Staff
<1> QED  BY <1>1, <1>2

(* A permission whose holders all have business with what it is asked for.     *)
Covers(p, on) == \A c \in Acting!Roles : p \in Acting!ROLE_PERMISSIONS[c] => c \in Acting!Business(on)

LEMMA Covered ==
  /\ Covers("AGENT_MANAGE", "roster") /\ Covers("AGENT_MANAGE", "team")
  /\ Covers("ANALYTICS_VIEW", "figures") /\ Covers("APPOINTMENT_MANAGE", "appointment")
  /\ Covers("CONTENT_MANAGE", "content") /\ Covers("COMPLIANCE_MANAGE", "compliance")
  /\ Covers("LEAD_MANAGE", "lead") /\ Covers("LEAD_MANAGE", "new lead")
  /\ Covers("LEAD_ASSIGN", "assignment") /\ Covers("LEAD_VIEW_ALL", "contact")
  /\ Covers("LISTING_MANAGE", "listing") /\ Covers("LISTING_MANAGE", "new listing")
  /\ Covers("LISTING_MANAGE", "syndication") /\ Covers("REVIEW_MODERATE", "review")
  /\ Covers("PLATFORM_TENANT_MANAGE", "tenant") /\ Covers("PLATFORM_STAFF_MANAGE", "staff")
  /\ Covers("DEAL_MANAGE", "deal") /\ Covers("DEAL_MANAGE", "new deal")
  /\ Covers("USER_MANAGE", "user") /\ Covers("USER_VIEW", "user") /\ Covers("WEBHOOK_MANAGE", "webhook")
<1>1. /\ Covers("AGENT_MANAGE", "roster") /\ Covers("AGENT_MANAGE", "team")
  BY Granted, BusinessFacts DEF Covers
<1>2. /\ Covers("ANALYTICS_VIEW", "figures") /\ Covers("APPOINTMENT_MANAGE", "appointment")
  BY Granted, BusinessFacts DEF Covers
<1>3. /\ Covers("CONTENT_MANAGE", "content") /\ Covers("COMPLIANCE_MANAGE", "compliance")
  BY Granted, BusinessFacts DEF Covers
<1>4. /\ Covers("LEAD_MANAGE", "lead") /\ Covers("LEAD_MANAGE", "new lead")
  BY Granted, BusinessFacts DEF Covers
<1>5. /\ Covers("LEAD_ASSIGN", "assignment") /\ Covers("LEAD_VIEW_ALL", "contact")
  BY Granted, BusinessFacts DEF Covers
<1>6. /\ Covers("LISTING_MANAGE", "listing") /\ Covers("LISTING_MANAGE", "new listing")
  BY Granted, BusinessFacts DEF Covers
<1>7. /\ Covers("LISTING_MANAGE", "syndication") /\ Covers("REVIEW_MODERATE", "review")
  BY Granted, BusinessFacts DEF Covers
<1>8. /\ Covers("PLATFORM_TENANT_MANAGE", "tenant") /\ Covers("PLATFORM_STAFF_MANAGE", "staff")
  BY Granted, BusinessFacts DEF Covers
<1>9. /\ Covers("DEAL_MANAGE", "deal") /\ Covers("DEAL_MANAGE", "new deal")
  BY Granted, BusinessFacts DEF Covers
<1>10. /\ Covers("USER_MANAGE", "user") /\ Covers("USER_VIEW", "user") /\ Covers("WEBHOOK_MANAGE", "webhook")
  BY Granted, BusinessFacts DEF Covers
<1> QED  BY <1>1, <1>2, <1>3, <1>4, <1>5, <1>6, <1>7, <1>8, <1>9, <1>10

LEMMA HoldersFits ==
  ASSUME NEW p, NEW on, NEW names, Covers(p, on)
  PROVE  /\ \A r \in Acting!Holders(on, p, names) : Fits(r)
         /\ \A r \in Acting!InScope(on, {p}, names) : Fits(r)
         /\ \A r \in Acting!Staff(on, {p, "PLATFORM_TENANT_VIEW"}, names) : Fits(r)
         /\ \A r \in Acting!Staff(on, {p}, names) : Fits(r)
         /\ \A r \in Acting!Route(on, {p}, Acting!Roles, "team", names) : Fits(r)
         /\ \A r \in Acting!Route(on, {p}, Acting!Roles, "tenant", names) : Fits(r)
<1>1. \E q \in {p} : \A c \in Acting!Roles :
        q \in Acting!ROLE_PERMISSIONS[c] => c \in Acting!Business(on)
  BY DEF Covers
<1>2. \E q \in {p, "PLATFORM_TENANT_VIEW"} : \A c \in Acting!Roles :
        q \in Acting!ROLE_PERMISSIONS[c] => c \in Acting!Business(on)
  BY DEF Covers
<1> QED  BY <1>1, <1>2, PermissionFits DEF Acting!Holders, Acting!InScope, Acting!Staff

(* An administrator's, whatever else the route requires.                      *)
LEMMA AdministratorFits ==
  ASSUME NEW on \in {"team", "commission"}, NEW needs, NEW names
  PROVE  \A r \in Acting!Route(on, needs, {"admin"}, "tenant", names) : Fits(r)
<1>1. {"admin"} \subseteq Acting!Roles /\ \A c \in {"admin"} : c \in Acting!Business(on)
  BY Granted, BusinessFacts
<1> QED  BY <1>1, RouteFits

(* Every route of the API (build_api_v1_router).                              *)
LEMMA RoutesFit == \A r \in Acting!AllRoutes : Fits(r)
<1> USE AnybodyFits, OneselfFits, UnpermittedFits, HoldersFits, AdministratorFits, Covered
<1>1. \A r \in Acting!AgentsPublic : Fits(r)  BY DEF Acting!AgentsPublic
<1>2. \A r \in Acting!AgentsPortal : Fits(r)  BY DEF Acting!AgentsPortal
<1>3. \A r \in Acting!Teams : Fits(r)  BY DEF Acting!Teams
<1>4. \A r \in Acting!Analytics : Fits(r)  BY DEF Acting!Analytics
<1>5. \A r \in Acting!Appointments : Fits(r)  BY DEF Acting!Appointments
<1>6. \A r \in Acting!AppointmentsPortal : Fits(r)  BY DEF Acting!AppointmentsPortal
<1>7. \A r \in Acting!Auth : Fits(r)  BY DEF Acting!Auth
<1>8. \A r \in Acting!AuthSecurity : Fits(r)  BY DEF Acting!AuthSecurity
<1>9. \A r \in Acting!BlogPublic : Fits(r)  BY DEF Acting!BlogPublic
<1>10. \A r \in Acting!BlogPortal : Fits(r)  BY DEF Acting!BlogPortal
<1>11. \A r \in Acting!CompliancePublic : Fits(r)  BY DEF Acting!CompliancePublic
<1>12. \A r \in Acting!ComplianceMe : Fits(r)  BY DEF Acting!ComplianceMe
<1>13. \A r \in Acting!CompliancePortal : Fits(r)  BY DEF Acting!CompliancePortal
<1>14. \A r \in Acting!ContentPublic : Fits(r)  BY DEF Acting!ContentPublic
<1>15. \A r \in Acting!ReportsPublic : Fits(r)  BY DEF Acting!ReportsPublic
<1>16. \A r \in Acting!PagesPortal : Fits(r)  BY DEF Acting!PagesPortal
<1>17. \A r \in Acting!GuidesPortal : Fits(r)  BY DEF Acting!GuidesPortal
<1>18. \A r \in Acting!ReportsPortal : Fits(r)  BY DEF Acting!ReportsPortal
<1>19. \A r \in Acting!Favorites : Fits(r)  BY DEF Acting!Favorites
<1>20. \A r \in Acting!SavedSearches : Fits(r)  BY DEF Acting!SavedSearches
<1>21. \A r \in Acting!LeadsPublic : Fits(r)  BY DEF Acting!LeadsPublic
<1>22. \A r \in Acting!LeadsPortal : Fits(r)  BY DEF Acting!LeadsPortal
<1>23. \A r \in Acting!ContactsPortal : Fits(r)  BY DEF Acting!ContactsPortal
<1>24. \A r \in Acting!ListingsPublic : Fits(r)  BY DEF Acting!ListingsPublic
<1>25. \A r \in Acting!ListingsSeo : Fits(r)  BY DEF Acting!ListingsSeo
<1>26. \A r \in Acting!ListingsPortal : Fits(r)  BY DEF Acting!ListingsPortal
<1>27. \A r \in Acting!Media : Fits(r)  BY DEF Acting!Media
<1>28. \A r \in Acting!Notifications : Fits(r)  BY DEF Acting!Notifications
<1>29. \A r \in Acting!ReviewsPublic : Fits(r)  BY DEF Acting!ReviewsPublic
<1>30. \A r \in Acting!ReviewsPortal : Fits(r)  BY DEF Acting!ReviewsPortal
<1>31. \A r \in Acting!Feeds : Fits(r)  BY DEF Acting!Feeds
<1>32. \A r \in Acting!SyndicationPortal : Fits(r)  BY DEF Acting!SyndicationPortal
<1>33. \A r \in Acting!TenantsPlatform : Fits(r)  BY DEF Acting!TenantsPlatform
<1>34. \A r \in Acting!PlatformAdmin : Fits(r)  BY DEF Acting!PlatformAdmin
<1>35. \A r \in Acting!Site : Fits(r)  BY DEF Acting!Site
<1>36. \A r \in Acting!Deals : Fits(r)  BY DEF Acting!Deals
<1>37. \A r \in Acting!DealParts : Fits(r)  BY DEF Acting!DealParts
<1>38. \A r \in Acting!UsersOwn : Fits(r)  BY DEF Acting!UsersOwn
<1>39. \A r \in Acting!UsersAdmin : Fits(r)  BY DEF Acting!UsersAdmin
<1>40. \A r \in Acting!PlatformStaff : Fits(r)  BY DEF Acting!PlatformStaff
<1>41. \A r \in Acting!ValuationsPublic : Fits(r)  BY DEF Acting!ValuationsPublic
<1>42. \A r \in Acting!Webhooks : Fits(r)  BY DEF Acting!Webhooks
<1> HIDE AnybodyFits, OneselfFits, UnpermittedFits, HoldersFits, AdministratorFits, Covered
<1> QED
  BY <1>1, <1>2, <1>3, <1>4, <1>5, <1>6, <1>7, <1>8, <1>9, <1>10, <1>11, <1>12, <1>13, <1>14,
     <1>15, <1>16, <1>17, <1>18, <1>19, <1>20, <1>21, <1>22, <1>23, <1>24, <1>25, <1>26, <1>27, <1>28,
     <1>29, <1>30, <1>31, <1>32, <1>33, <1>34, <1>35, <1>36, <1>37, <1>38, <1>39, <1>40, <1>41, <1>42
  DEF Acting!AllRoutes

-----------------------------------------------------------------------------
(* Acts.  A token that is let in has its user's role, because the tokens of    *)
(* whose role is about to change are denied first; and a request that no        *)
(* change overtook is still what the rows allow.                             *)

Reasons == {"redis", "overtaken", "impersonation"}
Claims == [user : Actors, role : Acting!Roles, tracked : BOOLEAN, denied : BOOLEAN, why : SUBSET Reasons]
Acted == [does : {"plain", "add", "remove", "lead", "role", "owner", "impersonate", "sign in"},
          subject : Actors \cup {Nothing}, to : Acting!Roles \cup {Nothing}]
Asked == [user : Actors \cup {Nothing}, business : {Acting!Business(k.on) : k \in Acting!Kinds},
          reach : {k.reach : k \in Acting!Kinds}, effect : Acted, sent : BOOLEAN, why : SUBSET Reasons]

RolesAssumption ==
  /\ FirstRole \in [Actors -> Acting!Roles] /\ FirstUser \in [Tokens -> Actors \cup {Nothing}]
  /\ FirstTeam \in [lead : Actors \cup {Nothing}, members : SUBSET Actors]
  /\ RolesGiven \subseteq Acting!Roles
  /\ Nothing \notin Actors /\ Nothing \notin Acting!Roles /\ Nothing \notin Claims /\ Nothing \notin Asked

ActType ==
  /\ role \in [Actors -> Acting!Roles]
  /\ team \in [lead : Actors \cup {Nothing}, members : SUBSET Actors]
  /\ owner \in Actors \cup {Nothing}
  /\ tokens \in [Tokens -> Claims \cup {Nothing}]
  /\ act \in [Processes -> Asked \cup {Nothing}]

(* A change of role has a user and a role, and so has a token; who joins a team *)
(* is a user.                                                               *)
Aimed(e) ==
  /\ e.does \in {"role", "sign in", "impersonate"} => e.subject \in Actors /\ e.to \in Acting!Roles
  /\ e.does = "add" => e.subject \in Actors
(* What nothing explains is allowed by the rows as they are now,               *)
AllowedInv == \A r \in Processes : act[r] # Nothing =>
  /\ Aimed(act[r].effect)
  /\ act[r].why = {} => Acting!Allowed(act[r])
(* a sign-in that no change overtook has the role of its row,                 *)
SignInv == \A r \in Processes : act[r] # Nothing =>
  (act[r].effect.does = "sign in" /\ "overtaken" \notin act[r].why =>
     act[r].effect.to = role[act[r].effect.subject])
(* and so has a token that is let in, which is tracked;                       *)
Spent(t) == tokens[t].denied \/ tokens[t].why # {}
ClaimInv == \A t \in Tokens : tokens[t] # Nothing =>
  Spent(t) \/ (tokens[t].tracked /\ tokens[t].role = role[tokens[t].user])
(* but none is let in whose user's role is about to change.                   *)
ChangeInv == \A t \in Tokens : tokens[t] # Nothing /\ Acting!Changing(tokens[t].user) => Spent(t)
ActInv == ActType /\ AllowedInv /\ SignInv /\ ClaimInv /\ ChangeInv /\ Acting!ActsAreExplained

(* What a request may change, as it is read.                                  *)
LEMMA EffectFacts ==
  ASSUME RolesAssumption, ActType, NEW actor, NEW kind, NEW e \in Acting!Effects(actor, kind)
  PROVE  /\ e \in Acted /\ Aimed(e)
         /\ e.does = "sign in" => e.to = role[e.subject]
<1> USE DEF Acting!Effect
<1>1. ASSUME e = Acting!Plain
      PROVE  e \in Acted /\ Aimed(e) /\ e.does # "sign in"
  BY <1>1 DEF Acting!Plain, Acted, Aimed
<1>2. ASSUME e \in Acting!TeamEffects(actor)
      PROVE  e \in Acted /\ Aimed(e) /\ e.does # "sign in"
  <2>1. Acting!TeamMembers \subseteq Actors /\ team.members \subseteq Actors
    BY DEF Acting!TeamMembers, ActType
  <2>2. PICK u \in Actors \cup {Nothing}, d \in {"add", "remove", "lead"} :
          e = [does |-> d, subject |-> u, to |-> Nothing] /\ (d = "add" => u \in Actors)
    <3>1. CASE e \in {Acting!Effect("add", u, Nothing) : u \in Acting!TeamMembers \ team.members}
      BY <2>1, <3>1
    <3>2. CASE e \in {Acting!Effect("remove", u, Nothing) : u \in team.members}
      BY <2>1, <3>2
    <3>3. CASE e \in {Acting!Effect("lead", u, Nothing) : u \in Acting!TeamMembers \cup {Nothing}}
      BY <2>1, <3>3
    <3> QED  BY <1>2, <3>1, <3>2, <3>3 DEF Acting!TeamEffects
  <2> QED  BY <2>2 DEF Acted, Aimed
<1>3. ASSUME e \in Acting!RoleEffects(actor)
      PROVE  e \in Acted /\ Aimed(e) /\ e.does # "sign in"
  <2>1. PICK u \in Actors, to \in RolesGiven : e = [does |-> "role", subject |-> u, to |-> to]
    BY <1>3 DEF Acting!RoleEffects
  <2> QED  BY <2>1 DEF Acted, Aimed, RolesAssumption
<1>4. ASSUME e \in Acting!OwnerEffects(actor, kind.on)
      PROVE  e \in Acted /\ Aimed(e) /\ e.does # "sign in"
  <2>1. PICK u \in Actors : e = [does |-> "owner", subject |-> u, to |-> Nothing]
    <3>1. e \in {Acting!Effect("owner", u, Nothing) : u \in Actors}  BY <1>4 DEF Acting!OwnerEffects
    <3> QED  BY <3>1
  <2> QED  BY <2>1 DEF Acted, Aimed
<1>5. ASSUME e \in Acting!Impersonations
      PROVE  e \in Acted /\ Aimed(e) /\ e.does # "sign in"
  <2>1. PICK u \in Actors : e = [does |-> "impersonate", subject |-> u, to |-> "admin"]
    BY <1>5 DEF Acting!Impersonations
  <2> QED  BY <2>1, Granted DEF Acted, Aimed
<1>6. ASSUME e \in Acting!SignIns
      PROVE  e \in Acted /\ Aimed(e) /\ e.to = role[e.subject]
  <2>1. PICK u \in Actors : e = [does |-> "sign in", subject |-> u, to |-> role[u]]
    BY <1>6 DEF Acting!SignIns
  <2> QED  BY <2>1 DEF Acted, Aimed, ActType
<1>7. \/ e = Acting!Plain \/ e \in Acting!TeamEffects(actor) \/ e \in Acting!RoleEffects(actor)
      \/ e \in Acting!OwnerEffects(actor, kind.on) \/ e \in Acting!Impersonations \/ e \in Acting!SignIns
  <2> HIDE DEF Acting!Effect
  <2>1. CASE kind.on = "team"  BY <2>1 DEF Acting!Effects
  <2>2. CASE kind.on = "user"  BY <2>2 DEF Acting!Effects
  <2>3. CASE kind.on \in {"listing", "lead", "deal"}  BY <2>3 DEF Acting!Effects
  <2>4. CASE kind.on = "tenant"  BY <2>4 DEF Acting!Effects
  <2>5. CASE kind.on \notin {"team", "user", "listing", "lead", "deal", "tenant"}
    <3>1. CASE kind.reach = "anybody"  BY <2>5, <3>1 DEF Acting!Effects
    <3>2. CASE kind.reach # "anybody"  BY <2>5, <3>2 DEF Acting!Effects
    <3> QED  BY <3>1, <3>2
  <2> QED  BY <2>1, <2>2, <2>3, <2>4, <2>5
<1> QED  BY <1>1, <1>2, <1>3, <1>4, <1>5, <1>6, <1>7

(* Who is let in has business there, and anybody where nobody is asked.        *)
LEMMA KindFits ==
  ASSUME NEW kind \in Acting!Kinds
  PROVE  /\ kind.reach = "anybody" => "nobody" \in Acting!Business(kind.on)
         /\ \A claims : Acting!Admitted(claims, kind) => claims.role \in Acting!Business(kind.on)
<1>1. PICK r \in Acting!AllRoutes :
        kind = [on |-> r.on, needs |-> r.needs, roles |-> r.roles, reach |-> r.reach]
  BY DEF Acting!Kinds
<1>2. Fits(r)  BY RoutesFit
<1>3. kind.reach = r.reach /\ kind.on = r.on /\ kind.needs = r.needs /\ kind.roles = r.roles  BY <1>1
<1>4. kind.reach = "anybody" => "nobody" \in Acting!Business(kind.on)
  BY <1>2, <1>3, BusinessFacts DEF Fits
<1>5. ASSUME NEW claims, Acting!Admitted(claims, kind)  PROVE claims.role \in Acting!Business(kind.on)
  <2>1. Acting!Admitted([role |-> claims.role], r)  BY <1>3, <1>5 DEF Acting!Admitted
  <2> QED  BY <1>2, <1>3, <2>1 DEF Fits
<1> QED  BY <1>4, <1>5

(* What comes to be under way when nothing else changes.                      *)
LEMMA BeginKeeps ==
  ASSUME RolesAssumption, ActInv, NEW r \in Processes, Acting!Begin(r)
  PROVE  ActInv'
<1> USE DEF ActInv
<1>1. PICK t \in Tokens \cup {Nothing}, kind \in Acting!Kinds :
        LET actor == IF t = Nothing THEN Acting!Nobody ELSE tokens[t]
        IN  /\ actor # Nothing
            /\ IF t = Nothing THEN kind.reach = "anybody"
               ELSE kind.reach # "anybody" /\ Acting!Admitted(actor, kind)
                    /\ Acting!Reached(actor.user, actor.role, kind.reach)
            /\ \E effect \in Acting!Effects(actor, kind) :
                 act' = [act EXCEPT ![r] =
                   [user |-> actor.user, business |-> Acting!Business(kind.on), reach |-> kind.reach,
                    effect |-> effect, sent |-> FALSE,
                    why |-> actor.why \cup (IF actor.denied THEN {"redis"} ELSE {})]]
  BY DEF Acting!Begin
<1> DEFINE actor == IF t = Nothing THEN Acting!Nobody ELSE tokens[t]
<1>2. PICK effect \in Acting!Effects(actor, kind) :
        act' = [act EXCEPT ![r] =
          [user |-> actor.user, business |-> Acting!Business(kind.on), reach |-> kind.reach,
           effect |-> effect, sent |-> FALSE,
           why |-> actor.why \cup (IF actor.denied THEN {"redis"} ELSE {})]]
  BY <1>1
<1>3. UNCHANGED <<role, team, owner, tokens, verdicts>>  BY DEF Acting!Begin
<1> DEFINE new == [user |-> actor.user, business |-> Acting!Business(kind.on), reach |-> kind.reach,
                   effect |-> effect, sent |-> FALSE,
                   why |-> actor.why \cup (IF actor.denied THEN {"redis"} ELSE {})]
<1>4. effect \in Acted /\ Aimed(effect) /\ (effect.does = "sign in" => effect.to = role[effect.subject])
  BY EffectFacts
<1>5. /\ actor.user \in Actors \cup {Nothing} /\ actor.why \in SUBSET Reasons /\ actor.denied \in BOOLEAN
      /\ t # Nothing => tokens[t] \in Claims /\ actor = tokens[t] /\ actor.user \in Actors
      /\ t = Nothing => actor.user = Nothing
  <2>1. CASE t = Nothing  BY <2>1 DEF Acting!Nobody
  <2>2. CASE t # Nothing
    <3>1. tokens[t] \in Claims  BY <1>1, <2>2 DEF ActType
    <3> QED  BY <2>2, <3>1, RolesAssumption DEF Claims, RolesAssumption
  <2> QED  BY <2>1, <2>2
<1> HIDE DEF actor
<1>6. /\ new.user = actor.user /\ new.business = Acting!Business(kind.on) /\ new.reach = kind.reach
      /\ new.effect = effect /\ new.sent = FALSE
      /\ new.why = actor.why \cup (IF actor.denied THEN {"redis"} ELSE {})
  OBVIOUS
<1>7. new \in Asked
  <2>1. new.why \in SUBSET Reasons  BY <1>5, <1>6 DEF Reasons
  <2> QED  BY <1>4, <1>5, <2>1 DEF Asked
<1> HIDE DEF new
<1>8. act' = [act EXCEPT ![r] = new]  BY <1>2 DEF new
<1>9. \A x \in Processes : act'[x] = IF x = r THEN new ELSE act[x]  BY <1>8 DEF ActType
<1>10. new # Nothing  BY <1>7 DEF RolesAssumption
<1>11. ActType'  BY <1>3, <1>7, <1>8 DEF ActType
<1>12. new.why = {} => Acting!Allowed(new)
  <2> SUFFICES ASSUME new.why = {} PROVE Acting!Allowed(new)
    OBVIOUS
  <2>1. actor.why = {} /\ ~actor.denied  BY <1>6
  <2>2. CASE t = Nothing
    <3>1. kind.reach = "anybody" /\ new.user = Nothing  BY <1>1, <1>5, <1>6, <2>2
    <3>2. "nobody" \in new.business  BY <1>6, <3>1, KindFits
    <3> QED  BY <1>6, <3>1, <3>2 DEF Acting!Allowed, Acting!Reached
  <2>3. CASE t # Nothing
    <3>1. tokens[t] # Nothing /\ ~Spent(t) /\ t \in Tokens
      BY <1>1, <1>5, <2>1, <2>3 DEF Spent
    <3>2. actor.role = role[actor.user] /\ actor.user # Nothing /\ actor = tokens[t]
      BY <1>5, <2>3, <3>1, RolesAssumption DEF ClaimInv, RolesAssumption
    <3>3. Acting!Admitted(actor, kind) /\ Acting!Reached(actor.user, actor.role, kind.reach)
      BY <1>1, <2>3, <3>2
    <3>4. actor.role \in Acting!Business(kind.on)  BY <3>3, KindFits
    <3> QED  BY <1>6, <3>2, <3>3, <3>4 DEF Acting!Allowed
  <2> QED  BY <2>2, <2>3
<1>13. AllowedInv'
  <2>2. ASSUME NEW x \in Processes, act'[x] # Nothing
        PROVE  Aimed(act'[x].effect) /\ (act'[x].why = {} => Acting!Allowed(act'[x]))
    <3>1. CASE x = r  BY <1>4, <1>6, <1>9, <1>12, <3>1
    <3>2. CASE x # r  BY <1>9, <2>2, <3>2 DEF AllowedInv
    <3> QED  BY <3>1, <3>2
  <2>1. ASSUME NEW x \in Processes PROVE Acting!Allowed(act[x])' <=> Acting!Allowed(act'[x])
    BY <1>3 DEF Acting!Allowed, Acting!Reached, Acting!Scoped, Acting!OwnTeam
  <2> QED  BY <2>1, <2>2 DEF AllowedInv, Aimed
<1>14. SignInv'
  <2>1. ASSUME NEW x \in Processes, act'[x] # Nothing, act'[x].effect.does = "sign in",
               "overtaken" \notin act'[x].why
        PROVE  act'[x].effect.to = role[act'[x].effect.subject]
    <3>1. CASE x = r  BY <1>4, <1>6, <1>9, <2>1, <3>1
    <3>2. CASE x # r  BY <1>9, <2>1, <3>2 DEF SignInv
    <3> QED  BY <3>1, <3>2
  <2> QED  BY <1>3, <2>1 DEF SignInv
<1>15. ClaimInv'  BY <1>3 DEF ClaimInv, Spent
<1>16. ChangeInv'
  <2>1. \A u : Acting!Changing(u)' => Acting!Changing(u)
    BY <1>6, <1>9 DEF Acting!Changing
  <2> QED  BY <1>3, <2>1 DEF ChangeInv, Spent, Acting!Changing
<1>17. Acting!ActsAreExplained'  BY <1>3 DEF Acting!ActsAreExplained
<1> QED  BY <1>11, <1>13, <1>14, <1>15, <1>16, <1>17

(* A request that ends, and the tokens of whose role is about to change.       *)
LEMMA LogoutKeeps ==
  ASSUME RolesAssumption, ActInv, NEW r \in Processes, Acting!ForceLogout(r) \/ Acting!Abort(r)
  PROVE  ActInv'
<1> USE DEF ActInv
<1>1. CASE Acting!ForceLogout(r)
  <2> DEFINE u == act[r].effect.subject
             held == {t \in Tokens : tokens[t] # Nothing /\ tokens[t].user = u /\ tokens[t].tracked}
             new == [act[r] EXCEPT !.sent = TRUE]
  <2>1. /\ act[r] # Nothing /\ act' = [act EXCEPT ![r].sent = TRUE]
        /\ \/ tokens' = [t \in Tokens |->
                IF t \in held THEN [tokens[t] EXCEPT !.denied = TRUE, !.tracked = FALSE] ELSE tokens[t]]
           \/ tokens' = [t \in Tokens |->
                IF t \in held THEN [tokens[t] EXCEPT !.why = @ \cup {"redis"}] ELSE tokens[t]]
        /\ UNCHANGED <<role, team, owner, verdicts>>
    BY <1>1 DEF Acting!ForceLogout
  <2>2. act[r] \in Asked  BY <2>1 DEF ActType
  <2>3. /\ new \in Asked /\ new.user = act[r].user /\ new.business = act[r].business
        /\ new.reach = act[r].reach /\ new.effect = act[r].effect /\ new.why = act[r].why
    BY <2>2 DEF Asked
  <2>4. act' = [act EXCEPT ![r] = new]  BY <2>1 DEF ActType
  <2> HIDE DEF new
  <2>5. /\ \A x \in Processes : x # r => act'[x] = act[x]
        /\ act'[r] = new
    BY <2>4 DEF ActType
  <2>6. new # Nothing  BY <2>3 DEF RolesAssumption
  <2>7. \A x \in Processes :
          /\ act'[x] # Nothing => act[x] # Nothing
          /\ act[x] # Nothing =>
               /\ act'[x].user = act[x].user /\ act'[x].business = act[x].business
               /\ act'[x].reach = act[x].reach /\ act'[x].effect = act[x].effect /\ act'[x].why = act[x].why
          /\ act'[x] # Nothing /\ act'[x].sent => act'[x].effect.subject = u \/ act[x].sent
    <3> SUFFICES ASSUME NEW x \in Processes
                 PROVE  /\ act'[x] # Nothing => act[x] # Nothing
                        /\ act[x] # Nothing =>
                             /\ act'[x].user = act[x].user /\ act'[x].business = act[x].business
                             /\ act'[x].reach = act[x].reach /\ act'[x].effect = act[x].effect
                             /\ act'[x].why = act[x].why
                        /\ act'[x] # Nothing /\ act'[x].sent => act'[x].effect.subject = u \/ act[x].sent
      OBVIOUS
    <3>1. CASE x = r  BY <2>1, <2>3, <2>5, <3>1
    <3>2. CASE x # r  BY <2>5, <3>2
    <3> QED  BY <3>1, <3>2
  <2>8. ASSUME NEW t \in Tokens
        PROVE  /\ tokens'[t] \in Claims \cup {Nothing}
               /\ tokens'[t] # Nothing => tokens[t] # Nothing
               /\ tokens[t] # Nothing => tokens'[t].user = tokens[t].user
               /\ tokens[t] # Nothing /\ Spent(t) => Spent(t)'
               /\ t \in held => Spent(t)'
               /\ t \notin held => tokens'[t] = tokens[t]
    <3>1. CASE t \in held
      <4>1. tokens[t] \in Claims  BY <3>1 DEF ActType
      <4>2. CASE tokens'[t] = [tokens[t] EXCEPT !.denied = TRUE, !.tracked = FALSE]
        <5>1. tokens'[t] \in Claims /\ tokens'[t].user = tokens[t].user /\ tokens'[t].denied
          BY <4>1, <4>2 DEF Claims
        <5> QED  BY <3>1, <5>1 DEF Spent
      <4>3. CASE tokens'[t] = [tokens[t] EXCEPT !.why = @ \cup {"redis"}]
        <5>1. tokens'[t] \in Claims /\ tokens'[t].user = tokens[t].user /\ "redis" \in tokens'[t].why
          BY <4>1, <4>3 DEF Claims, Reasons
        <5>2. tokens'[t].why # {}  BY <5>1
        <5> QED  BY <3>1, <5>1, <5>2 DEF Spent
      <4> QED  BY <2>1, <3>1, <4>2, <4>3
    <3>2. CASE t \notin held
      <4>1. tokens'[t] = tokens[t]  BY <2>1, <3>2
      <4> QED  BY <3>2, <4>1 DEF ActType, Spent
    <3> QED  BY <3>1, <3>2
  <2>9. ActType'
    <3>1. tokens' \in [Tokens -> Claims \cup {Nothing}]  BY <2>1, <2>8
    <3>2. act' \in [Processes -> Asked \cup {Nothing}]  BY <2>3, <2>4 DEF ActType
    <3> QED  BY <2>1, <3>1, <3>2 DEF ActType
  <2>10. AllowedInv'
    <3>1. ASSUME NEW x \in Processes, act[x] # Nothing, Acting!Allowed(act[x])
          PROVE  Acting!Allowed(act[x])'
      BY <2>1, <2>7, <3>1 DEF Acting!Allowed, Acting!Reached, Acting!Scoped, Acting!OwnTeam
    <3> QED  BY <2>7, <3>1 DEF AllowedInv, Aimed
  <2>11. SignInv'
    <3>1. ASSUME NEW x \in Processes, act'[x] # Nothing
          PROVE  act'[x].effect.does = "sign in" /\ "overtaken" \notin act'[x].why =>
                   act'[x].effect.to = role[act'[x].effect.subject]
      <4>1. act[x] # Nothing /\ act'[x].effect = act[x].effect /\ act'[x].why = act[x].why  BY <2>7, <3>1
      <4> QED  BY <4>1 DEF SignInv
    <3> QED  BY <2>1, <3>1 DEF SignInv
  <2>12. ClaimInv'
    <3>1. ASSUME NEW t \in Tokens, tokens'[t] # Nothing
          PROVE  Spent(t)' \/ (tokens'[t].tracked /\ tokens'[t].role = role[tokens'[t].user])
      <4>1. tokens[t] # Nothing  BY <2>8, <3>1
      <4>2. CASE t \in held \/ Spent(t)  BY <2>8, <4>1, <4>2
      <4>3. CASE ~(t \in held \/ Spent(t))
        <5>1. tokens[t].tracked /\ tokens[t].role = role[tokens[t].user]  BY <4>1, <4>3 DEF ClaimInv
        <5> QED  BY <2>8, <4>3, <5>1
      <4> QED  BY <4>2, <4>3
    <3> QED  BY <2>1, <3>1 DEF ClaimInv
  <2>13. ChangeInv'
    <3> SUFFICES ASSUME NEW t \in Tokens, tokens'[t] # Nothing, Acting!Changing(tokens[t].user)'
                 PROVE  Spent(t)'
      BY <2>8 DEF ChangeInv, Acting!Changing
    <3>1. tokens[t] # Nothing /\ tokens'[t].user = tokens[t].user  BY <2>8
    <3>2. PICK x \in Processes : act'[x] # Nothing /\ act'[x].sent /\ act'[x].effect.subject = tokens'[t].user
      BY DEF Acting!Changing
    <3>3. CASE act[x].sent
      <4>1. Acting!Changing(tokens[t].user)  BY <2>7, <3>1, <3>2, <3>3 DEF Acting!Changing
      <4> QED  BY <2>8, <3>1, <4>1 DEF ChangeInv
    <3>4. CASE ~act[x].sent
      <4>1. tokens[t].user = u  BY <2>7, <3>1, <3>2, <3>4
      <4>2. CASE t \in held  BY <2>8, <4>2
      <4>3. CASE t \notin held
        <5>1. ~tokens[t].tracked  BY <3>1, <4>1, <4>3
        <5>2. Spent(t)  BY <3>1, <5>1 DEF ClaimInv
        <5> QED  BY <2>8, <3>1, <5>2
      <4> QED  BY <4>2, <4>3
    <3> QED  BY <3>3, <3>4
  <2>14. Acting!ActsAreExplained'  BY <2>1 DEF Acting!ActsAreExplained
  <2> QED  BY <2>9, <2>10, <2>11, <2>12, <2>13, <2>14
<1>2. CASE Acting!Abort(r)
  <2>1. /\ act' = [act EXCEPT ![r] = Nothing]
        /\ UNCHANGED <<role, team, owner, tokens, verdicts>>
    BY <1>2 DEF Acting!Abort
  <2>2. \A x \in Processes : act'[x] # Nothing => act'[x] = act[x]  BY <2>1 DEF ActType
  <2>3. ActType'  BY <2>1 DEF ActType
  <2>4. AllowedInv'
    <3>1. ASSUME NEW x \in Processes PROVE Acting!Allowed(act[x])' <=> Acting!Allowed(act'[x])
      BY <2>1 DEF Acting!Allowed, Acting!Reached, Acting!Scoped, Acting!OwnTeam
    <3> QED  BY <2>2, <3>1 DEF AllowedInv, Aimed
  <2>5. SignInv'  BY <2>1, <2>2 DEF SignInv
  <2>6. ClaimInv'  BY <2>1 DEF ClaimInv, Spent
  <2>7. ChangeInv'
    <3>1. \A u : Acting!Changing(u)' => Acting!Changing(u)  BY <2>2 DEF Acting!Changing
    <3> QED  BY <2>1, <3>1 DEF ChangeInv, Spent, Acting!Changing
  <2>8. Acting!ActsAreExplained'  BY <2>1 DEF Acting!ActsAreExplained
  <2> QED  BY <2>3, <2>4, <2>5, <2>6, <2>7, <2>8
<1> QED  BY <1>1, <1>2

(* A token that is issued.                                                  *)
LEMMA MintedFacts ==
  ASSUME RolesAssumption, ActType, NEW q \in Asked,
         q.effect.does \in {"sign in", "impersonate"}, Aimed(q.effect)
  PROVE  LET token == Acting!Minted(q)
         IN  /\ token \in Claims /\ token.user = q.effect.subject
             /\ token.why = {} => /\ q.effect.does = "sign in" /\ "overtaken" \notin q.why
                                  /\ token.tracked /\ token.role = q.effect.to
                                  /\ ~Acting!Changing(q.effect.subject)
             /\ Acting!Untracked(token) \in Claims /\ Acting!Untracked(token).user = q.effect.subject
             /\ Acting!Untracked(token).why # {}
<1> DEFINE why == IF q.effect.does = "impersonate" THEN {"impersonation"}
                  ELSE (q.why \cap {"overtaken"}) \cup
                       (IF Acting!Changing(q.effect.subject) THEN {"overtaken"} ELSE {})
           first == [user |-> q.effect.subject, role |-> q.effect.to, tracked |-> TRUE, denied |-> FALSE,
                     why |-> {}]
           token == [first EXCEPT !.why = why, !.tracked = q.effect.does = "sign in"]
<1>1. Acting!Minted(q) = token  BY DEF Acting!Minted, Acting!Token
<1>2. first \in Claims  BY DEF Claims, Aimed
<1>3. why \in SUBSET Reasons  BY DEF Reasons
<1>4. why = {} => q.effect.does = "sign in" /\ "overtaken" \notin q.why /\ ~Acting!Changing(q.effect.subject)
  <2>1. CASE q.effect.does = "impersonate"  BY <2>1
  <2>2. CASE q.effect.does # "impersonate"
    <3>1. q.effect.does = "sign in"  BY <2>2
    <3> QED  BY <2>2, <3>1
  <2> QED  BY <2>1, <2>2
<1> HIDE DEF why
<1>5. /\ first.user = q.effect.subject /\ first.role = q.effect.to /\ (q.effect.does = "sign in") \in BOOLEAN
  OBVIOUS
<1> HIDE DEF first
<1>6. token \in Claims  BY <1>2, <1>3, <1>5 DEF Claims
<1>7. token.user = q.effect.subject /\ token.role = q.effect.to /\ token.why = why
      /\ token.tracked = (q.effect.does = "sign in")
  BY <1>2, <1>5 DEF Claims
<1> HIDE DEF token
<1>8. Acting!Untracked(token) = [token EXCEPT !.tracked = FALSE, !.why = @ \cup {"redis"}]
  BY DEF Acting!Untracked
<1>9. /\ Acting!Untracked(token) \in Claims /\ Acting!Untracked(token).user = q.effect.subject
      /\ "redis" \in Acting!Untracked(token).why
  BY <1>6, <1>7, <1>8 DEF Claims, Reasons
<1>10. Acting!Untracked(token).why # {}  BY <1>9
<1> QED  BY <1>1, <1>4, <1>6, <1>7, <1>9, <1>10

(* What a change leaves: a request that it did not overtake sees the rows as    *)
(* they were.                                                               *)
LEMMA SparedFacts ==
  ASSUME RolesAssumption, ActInv, NEW r \in Processes, Acting!Commit(r),
         NEW q \in Asked, ~Acting!Overtaken(q, act[r].effect), Aimed(q.effect)
  PROVE  /\ Acting!Allowed(q) => Acting!Allowed(q)'
         /\ q.effect.does = "sign in" => role'[q.effect.subject] = role[q.effect.subject]
<1> DEFINE e == act[r].effect
<1>1. /\ act[r] # Nothing
      /\ role' = IF e.does = "role" THEN [role EXCEPT ![e.subject] = e.to] ELSE role
      /\ team' = CASE e.does = "add"    -> [team EXCEPT !.members = @ \cup {e.subject}]
                   [] e.does = "remove" -> [team EXCEPT !.members = @ \ {e.subject}]
                   [] e.does = "lead"   -> [team EXCEPT !.lead = e.subject]
                   [] OTHER             -> team
      /\ owner' = IF e.does = "owner" THEN e.subject ELSE owner
  BY DEF Acting!Commit
<1>2. e.does = "role" => q.user # e.subject
      /\ (q.effect.does = "sign in" => q.effect.subject # e.subject)
  BY DEF Acting!Overtaken
<1>3. q.reach \in {"scope", "team"} => e.does \notin {"add", "remove", "lead"}  BY DEF Acting!Overtaken
<1>4. q.reach = "scope" => e.does # "owner"  BY DEF Acting!Overtaken
<1> HIDE DEF e
<1>5. q.user \in Actors \cup {Nothing} /\ role \in [Actors -> Acting!Roles]  BY DEF Asked, ActInv, ActType
<1>6. ASSUME NEW u \in Actors, e.does = "role" => u # e.subject  PROVE role'[u] = role[u]
  <2>1. CASE e.does = "role"  BY <1>1, <1>5, <1>6, <2>1
  <2>2. CASE e.does # "role"  BY <1>1, <2>2
  <2> QED  BY <2>1, <2>2
<1>7. q.user # Nothing => role'[q.user] = role[q.user]  BY <1>2, <1>5, <1>6
<1>8. q.effect.does = "sign in" => role'[q.effect.subject] = role[q.effect.subject]
  BY <1>2, <1>6 DEF Aimed
<1>9. q.reach \in {"scope", "team"} => team' = team  BY <1>1, <1>3
<1>10. q.reach = "scope" => owner' = owner  BY <1>1, <1>4
<1>11. ASSUME NEW as  PROVE Acting!Reached(q.user, as, q.reach) <=> Acting!Reached(q.user, as, q.reach)'
  BY <1>9, <1>10 DEF Acting!Reached, Acting!Scoped, Acting!OwnTeam
<1>12. ASSUME Acting!Allowed(q)  PROVE Acting!Allowed(q)'
  <2>1. CASE q.user = Nothing  BY <1>11, <1>12, <2>1 DEF Acting!Allowed
  <2>2. CASE q.user # Nothing  BY <1>7, <1>11, <1>12, <2>2 DEF Acting!Allowed
  <2> QED  BY <2>1, <2>2
<1> QED  BY <1>8, <1>12

(* A request takes effect.                                                  *)
LEMMA CommitKeeps ==
  ASSUME RolesAssumption, ActInv, NEW r \in Processes, Acting!Commit(r)
  PROVE  ActInv'
<1> USE DEF ActInv
<1> DEFINE q == act[r]
           e == q.effect
<1>1. /\ q # Nothing /\ (e.does = "role" => q.sent)
      /\ verdicts' = IF Acting!Allowed(q) THEN verdicts ELSE verdicts \cup {q.why}
      /\ role' = IF e.does = "role" THEN [role EXCEPT ![e.subject] = e.to] ELSE role
      /\ team' = CASE e.does = "add"    -> [team EXCEPT !.members = @ \cup {e.subject}]
                   [] e.does = "remove" -> [team EXCEPT !.members = @ \ {e.subject}]
                   [] e.does = "lead"   -> [team EXCEPT !.lead = e.subject]
                   [] OTHER             -> team
      /\ owner' = IF e.does = "owner" THEN e.subject ELSE owner
      /\ act' = [x \in Processes |->
                   IF x = r THEN Nothing
                   ELSE IF act[x] # Nothing /\ Acting!Overtaken(act[x], e)
                   THEN [act[x] EXCEPT !.why = @ \cup {"overtaken"}] ELSE act[x]]
  BY DEF Acting!Commit
<1>2. \A t \in Tokens :
        \/ tokens'[t] = tokens[t]
        \/ /\ e.does \in {"sign in", "impersonate"} /\ tokens[t] = Nothing
           /\ tokens'[t] \in {Acting!Minted(q), Acting!Untracked(Acting!Minted(q))}
  <2>1. CASE e.does \in {"sign in", "impersonate"}
    <3>1. PICK t \in Tokens :
            /\ tokens[t] = Nothing
            /\ \/ tokens' = [tokens EXCEPT ![t] = Acting!Minted(q)]
               \/ tokens' = [tokens EXCEPT ![t] = Acting!Untracked(Acting!Minted(q))]
      BY <2>1 DEF Acting!Commit
    <3>2. \A o \in Tokens : o # t => tokens'[o] = tokens[o]  BY <3>1 DEF ActType
    <3>3. tokens'[t] \in {Acting!Minted(q), Acting!Untracked(Acting!Minted(q))}  BY <3>1 DEF ActType
    <3> QED  BY <2>1, <3>1, <3>2, <3>3
  <2>2. CASE e.does \notin {"sign in", "impersonate"}
    BY <2>2 DEF Acting!Commit
  <2> QED  BY <2>1, <2>2
<1>3. q \in Asked /\ e \in Acted /\ Aimed(e)  BY <1>1 DEF ActType, Asked, AllowedInv
<1>4. tokens' \in [Tokens -> Claims \cup {Nothing}]
  <2>1. DOMAIN tokens' = Tokens /\ tokens' = [t \in Tokens |-> tokens'[t]]
    <3>1. CASE e.does \in {"sign in", "impersonate"}  BY <3>1 DEF Acting!Commit, ActType
    <3>2. CASE e.does \notin {"sign in", "impersonate"}  BY <3>2 DEF Acting!Commit, ActType
    <3> QED  BY <3>1, <3>2
  <2>2. ASSUME NEW t \in Tokens  PROVE tokens'[t] \in Claims \cup {Nothing}
    <3>1. CASE tokens'[t] = tokens[t]  BY <3>1 DEF ActType
    <3>2. CASE tokens'[t] # tokens[t]  BY <1>2, <1>3, <3>2, MintedFacts
    <3> QED  BY <3>1, <3>2
  <2> QED  BY <2>1, <2>2
<1>5. ASSUME NEW t \in Tokens, tokens'[t] # Nothing, tokens'[t] # tokens[t]
      PROVE  /\ tokens'[t].user = e.subject
             /\ tokens'[t].why = {} => /\ e.does = "sign in" /\ "overtaken" \notin q.why
                                       /\ tokens'[t].tracked /\ tokens'[t].role = e.to
                                       /\ ~Acting!Changing(e.subject)
  BY <1>2, <1>3, <1>5, MintedFacts
<1>6. ASSUME NEW x \in Processes, act'[x] # Nothing
      PROVE  /\ x # r /\ act[x] # Nothing /\ act[x] \in Asked /\ act'[x] \in Asked
             /\ act'[x].user = act[x].user /\ act'[x].business = act[x].business
             /\ act'[x].reach = act[x].reach /\ act'[x].effect = act[x].effect /\ act'[x].sent = act[x].sent
             /\ "overtaken" \notin act'[x].why =>
                  ~Acting!Overtaken(act[x], e) /\ act'[x].why = act[x].why
  <2>1. x # r /\ act[x] # Nothing  BY <1>1, <1>6
  <2>2. act[x] \in Asked  BY <2>1 DEF ActType
  <2>3. CASE Acting!Overtaken(act[x], e)
    <3>1. act'[x] = [act[x] EXCEPT !.why = @ \cup {"overtaken"}]  BY <1>1, <2>1, <2>3
    <3>2. /\ act'[x] \in Asked /\ act'[x].user = act[x].user /\ act'[x].business = act[x].business
          /\ act'[x].reach = act[x].reach /\ act'[x].effect = act[x].effect /\ act'[x].sent = act[x].sent
          /\ "overtaken" \in act'[x].why
      BY <2>2, <3>1 DEF Asked, Reasons
    <3> QED  BY <2>1, <2>2, <3>2
  <2>4. CASE ~Acting!Overtaken(act[x], e)
    <3>1. act'[x] = act[x]  BY <1>1, <2>1, <2>4
    <3> QED  BY <2>1, <2>2, <2>4, <3>1
  <2> QED  BY <2>3, <2>4
<1>7. ActType'
  <2>1. role' \in [Actors -> Acting!Roles]
    <3>1. CASE e.does = "role"  BY <1>1, <1>3, <3>1 DEF Aimed, ActType
    <3>2. CASE e.does # "role"  BY <1>1, <3>2 DEF ActType
    <3> QED  BY <3>1, <3>2
  <2>2. team' \in [lead : Actors \cup {Nothing}, members : SUBSET Actors]
    <3>1. e.subject \in Actors \cup {Nothing}  BY <1>3 DEF Acted
    <3>2. CASE e.does = "add"
      <4>1. team' = [team EXCEPT !.members = @ \cup {e.subject}]  BY <1>1, <3>2
      <4>2. e.subject \in Actors  BY <1>3, <3>2 DEF Aimed
      <4> QED  BY <4>1, <4>2 DEF ActType
    <3>3. CASE e.does = "remove"
      <4>1. team' = [team EXCEPT !.members = @ \ {e.subject}]  BY <1>1, <3>3
      <4> QED  BY <4>1 DEF ActType
    <3>4. CASE e.does = "lead"
      <4>1. team' = [team EXCEPT !.lead = e.subject]  BY <1>1, <3>4
      <4> QED  BY <3>1, <4>1 DEF ActType
    <3>5. CASE e.does \notin {"add", "remove", "lead"}
      <4>1. team' = team  BY <1>1, <3>5
      <4> QED  BY <4>1 DEF ActType
    <3> QED  BY <3>2, <3>3, <3>4, <3>5
  <2>3. owner' \in Actors \cup {Nothing}
    <3>1. e.subject \in Actors \cup {Nothing}  BY <1>3 DEF Acted
    <3> QED  BY <1>1, <3>1 DEF ActType
  <2>4. act' \in [Processes -> Asked \cup {Nothing}]
    <3>1. \A x \in Processes : act'[x] \in Asked \cup {Nothing}  BY <1>6
    <3> QED  BY <1>1, <3>1
  <2> QED  BY <1>4, <2>1, <2>2, <2>3, <2>4 DEF ActType
<1> HIDE DEF e, q
<1>8. AllowedInv'
  <2>1. ASSUME NEW x \in Processes, act'[x] # Nothing
        PROVE  Aimed(act'[x].effect) /\ (act'[x].why = {} => Acting!Allowed(act[x])')
    <3>1. Aimed(act'[x].effect)  BY <1>6, <2>1 DEF AllowedInv
    <3>2. ASSUME act'[x].why = {}  PROVE Acting!Allowed(act[x])'
      <4>1. /\ ~Acting!Overtaken(act[x], e) /\ act[x].why = {} /\ act[x] # Nothing /\ act[x] \in Asked
            /\ act'[x].user = act[x].user /\ act'[x].business = act[x].business
            /\ act'[x].reach = act[x].reach
        BY <1>6, <2>1, <3>2
      <4>2. Acting!Allowed(act[x]) /\ Aimed(act[x].effect)  BY <4>1 DEF AllowedInv
      <4>3. PICK o \in Asked : o = act[x]  BY <4>1
      <4>4. Acting!Allowed(o)'  BY <4>1, <4>2, <4>3, SparedFacts DEF e, q
      <4>5. o.user = act'[x].user /\ o.business = act'[x].business /\ o.reach = act'[x].reach
        BY <4>1, <4>3
      <4> QED  BY <4>4, <4>5 DEF Acting!Allowed
    <3> QED  BY <3>1, <3>2
  <2> QED  BY <2>1 DEF AllowedInv, Aimed
<1>9. SignInv'
  <2>1. ASSUME NEW x \in Processes, act'[x] # Nothing, act'[x].effect.does = "sign in",
               "overtaken" \notin act'[x].why
        PROVE  act'[x].effect.to = role'[act'[x].effect.subject]
    <3>1. /\ ~Acting!Overtaken(act[x], e) /\ act[x] # Nothing /\ act[x] \in Asked
          /\ act'[x].effect = act[x].effect /\ act'[x].why = act[x].why
      BY <1>6, <2>1
    <3>2. Aimed(act[x].effect) /\ act[x].effect.to = role[act[x].effect.subject]
      BY <2>1, <3>1 DEF AllowedInv, SignInv
    <3>3. role'[act[x].effect.subject] = role[act[x].effect.subject]
      BY <2>1, <3>1, <3>2, SparedFacts DEF e, q
    <3> QED  BY <3>1, <3>2, <3>3
  <2> QED  BY <2>1 DEF SignInv
<1>10. \A u : Acting!Changing(u)' => Acting!Changing(u)  BY <1>6 DEF Acting!Changing
<1>11. e.does = "role" => Acting!Changing(e.subject)  BY <1>1 DEF Acting!Changing, e, q
<1>12. \A u \in Actors : (e.does = "role" => u # e.subject) => role'[u] = role[u]
  <2>1. CASE e.does = "role"  BY <1>1, <1>3, <2>1 DEF ActType, Aimed
  <2>2. CASE e.does # "role"  BY <1>1, <2>2
  <2> QED  BY <2>1, <2>2
<1>13. ClaimInv'
  <2>1. ASSUME NEW t \in Tokens, tokens'[t] # Nothing, ~Spent(t)'
        PROVE  tokens'[t].tracked /\ tokens'[t].role = role'[tokens'[t].user]
    <3>1. CASE tokens'[t] = tokens[t]
      <4>1. tokens[t] # Nothing /\ ~Spent(t) /\ tokens[t].user \in Actors
        BY <2>1, <3>1 DEF Spent, ActType, Claims
      <4>2. tokens[t].tracked /\ tokens[t].role = role[tokens[t].user]  BY <4>1 DEF ClaimInv
      <4>3. ~Acting!Changing(tokens[t].user)  BY <4>1 DEF ChangeInv
      <4>4. role'[tokens[t].user] = role[tokens[t].user]  BY <1>11, <1>12, <4>1, <4>3
      <4> QED  BY <3>1, <4>2, <4>4
    <3>2. CASE tokens'[t] # tokens[t]
      <4>1. /\ tokens'[t].user = e.subject /\ e.does = "sign in" /\ "overtaken" \notin q.why
            /\ tokens'[t].tracked /\ tokens'[t].role = e.to
        BY <1>5, <2>1, <3>2 DEF Spent
      <4>2. e.to = role[e.subject] /\ e.subject \in Actors  BY <1>1, <1>3, <4>1 DEF SignInv, Aimed, e, q
      <4>3. role'[e.subject] = role[e.subject]  BY <1>12, <4>1, <4>2
      <4> QED  BY <4>1, <4>2, <4>3
    <3> QED  BY <3>1, <3>2
  <2> QED  BY <2>1 DEF ClaimInv
<1>14. ChangeInv'
  <2>1. ASSUME NEW t \in Tokens, tokens'[t] # Nothing, NEW u, u = tokens'[t].user, Acting!Changing(u)'
        PROVE  Spent(t)'
    <3>1. Acting!Changing(u)  BY <1>10, <2>1
    <3>2. CASE tokens'[t] = tokens[t]
      <4>1. Spent(t)  BY <2>1, <3>1, <3>2 DEF ChangeInv
      <4> QED  BY <3>2, <4>1 DEF Spent
    <3>3. CASE tokens'[t] # tokens[t]  BY <1>5, <2>1, <3>1, <3>3 DEF Spent
    <3> QED  BY <3>2, <3>3
  <2> QED  BY <2>1 DEF ChangeInv, Acting!Changing
<1>15. Acting!ActsAreExplained'
  <2>1. Acting!Allowed(q) \/ q.why # {}  BY <1>1 DEF AllowedInv, q
  <2> QED  BY <1>1, <2>1 DEF Acting!ActsAreExplained
<1> QED  BY <1>7, <1>8, <1>9, <1>13, <1>14, <1>15

(* "Disable/demotion must bite now" (users/router.py): what a request does is   *)
(* its actor's to do, by the rows as they are when it takes effect, unless a    *)
(* change overtook it, Redis failed or its token was one of platform staff.    *)
THEOREM ActsExplained ==
  ASSUME RolesAssumption PROVE AgencySpec => [](Acting!ActsAreExplained)
<1>1. AgencyInit => ActInv
  <2> SUFFICES ASSUME AgencyInit PROVE ActInv  OBVIOUS
  <2>1. /\ role = FirstRole /\ team = FirstTeam /\ owner \in Actors \cup {Nothing}
        /\ tokens = [t \in Tokens |-> IF FirstUser[t] = Nothing THEN Nothing
                                      ELSE Acting!Token(FirstUser[t], role[FirstUser[t]])]
        /\ act = [r \in Processes |-> Nothing] /\ verdicts = {}
    BY DEF AgencyInit, Acting!Init
  <2>2. ASSUME NEW t \in Tokens, tokens[t] # Nothing
        PROVE  /\ tokens[t] \in Claims /\ tokens[t].tracked
               /\ tokens[t].role = role[tokens[t].user]
    <3>1. FirstUser[t] \in Actors /\ tokens[t] = Acting!Token(FirstUser[t], role[FirstUser[t]])
      BY <2>1, <2>2 DEF RolesAssumption
    <3>2. role[FirstUser[t]] \in Acting!Roles  BY <2>1, <3>1 DEF RolesAssumption
    <3> QED  BY <3>1, <3>2 DEF Acting!Token, Claims
  <2>3. ActType
    <3>1. tokens \in [Tokens -> Claims \cup {Nothing}]
      <4>1. \A t \in Tokens : tokens[t] \in Claims \cup {Nothing}  BY <2>2
      <4> QED  BY <2>1, <4>1
    <3> QED  BY <2>1, <3>1 DEF ActType, RolesAssumption
  <2>4. AllowedInv /\ SignInv  BY <2>1 DEF AllowedInv, SignInv
  <2>5. ClaimInv  BY <2>2 DEF ClaimInv
  <2>6. ChangeInv  BY <2>1 DEF ChangeInv, Acting!Changing
  <2>7. Acting!ActsAreExplained  BY <2>1 DEF Acting!ActsAreExplained
  <2> QED  BY <2>3, <2>4, <2>5, <2>6, <2>7 DEF ActInv
<1>2. ActInv /\ [AgencyNext]_agency => ActInv'
  <2> SUFFICES ASSUME ActInv, [AgencyNext]_agency PROVE ActInv'  OBVIOUS
  <2>1. [Acting!Next]_roles  BY DEF AgencyNext, agency
  <2>2. CASE UNCHANGED roles
    BY <2>2 DEF roles, ActInv, ActType, AllowedInv, SignInv, ClaimInv, ChangeInv, Spent, Acting!ActsAreExplained,
                Acting!Allowed, Acting!Reached, Acting!Scoped, Acting!OwnTeam, Acting!Changing
  <2>3. CASE Acting!Next
    BY <2>3, BeginKeeps, LogoutKeeps, CommitKeeps DEF Acting!Next
  <2> QED  BY <2>1, <2>2, <2>3
<1>3. ActInv => Acting!ActsAreExplained  BY DEF ActInv
<1> QED  BY <1>1, <1>2, <1>3, PTL DEF AgencySpec

(* What the run checks of failed sign-ins and of acts, together.               *)
THEOREM AccessGuarded ==
  ASSUME LockoutAssumption, RolesAssumption PROVE AgencySpec => []AccessIsGuarded
<1>1. Signins!GuessesAreBounded /\ Acting!ActsAreExplained => AccessIsGuarded  BY DEF AccessIsGuarded
<1> QED  BY <1>1, GuessesBounded, ActsExplained, PTL

-----------------------------------------------------------------------------
(* Domains and settings.  A transaction that nothing overlapped commits what it *)
(* made of the rows as they are.  Whatever overlaps, an id belongs to one row,  *)
(* whose stamp stays; so columns merged into a row do not verify it without.   *)

Held == [id : Nat, primary : BOOLEAN, status : {"pending", "verified", "failed"}, stamped : BOOLEAN]
Names == [Domains -> Held \cup {Nothing}]
Transaction == [domain : Names, newDomain : Names, settings : [Namespaces -> Nat],
                newSettings : [Namespaces -> Nat], keys : SUBSET Namespaces]
SiteAssumption == FirstDomain \in Domains /\ Nothing \notin Held /\ Nothing \notin Transaction

SiteType ==
  /\ domain \in Names /\ settings \in [Namespaces -> Nat] /\ accepted \in [Namespaces -> Nat]
  /\ change \in [Editors -> Transaction \cup {Nothing}] /\ changes \in Nat
  /\ crossed \in BOOLEAN

OnePrimary(names) ==
  \E p \in Domains : \A d \in Domains : names[d] # Nothing /\ names[d].primary <=> d = p
Proved(row) == row # Nothing /\ row.status = "verified" => row.id \in proven /\ row.stamped
(* What a row was and what it is, if it is the same row.                      *)
Later(old, new) == old # Nothing /\ new # Nothing /\ old.id = new.id /\ old.stamped => new.stamped
Dated(row) == row # Nothing => row.id <= changes
Inserted(q, d) == q.domain[d] = Nothing /\ q.newDomain[d] # Nothing

(* What a transaction makes of what it has read;                             *)
Makes(q) ==
  /\ OnePrimary(q.domain) => OnePrimary(q.newDomain)
  /\ \A k \in Namespaces \ q.keys : q.newSettings[k] = q.settings[k]
  /\ \A d \in Domains :
       /\ Proved(q.newDomain[d]) /\ Dated(q.domain[d]) /\ Dated(q.newDomain[d])
       /\ Later(q.domain[d], q.newDomain[d]) /\ Later(q.domain[d], domain[d])
       /\ q.domain[d] # Nothing /\ q.newDomain[d] # Nothing => q.newDomain[d].id = q.domain[d].id
MakesInv == \A r \in Editors : change[r] # Nothing => Makes(change[r])
(* an id that is to be inserted belongs to nobody yet.                        *)
FreshInv ==
  \A r \in Editors, d \in Domains : change[r] # Nothing /\ Inserted(change[r], d) =>
    /\ domain[d] # Nothing => domain[d].id # change[r].newDomain[d].id
    /\ \A o \in Editors : change[o] # Nothing =>
         /\ change[o].domain[d] # Nothing => change[o].domain[d].id # change[r].newDomain[d].id
         /\ o # r /\ Inserted(change[o], d) => change[o].newDomain[d].id # change[r].newDomain[d].id
RowsInv ==
  /\ \A d \in Domains : Proved(domain[d]) /\ Dated(domain[d])
  /\ ~crossed => OnePrimary(domain) /\ settings = accepted
SiteInv == SiteType /\ MakesInv /\ FreshInv /\ RowsInv

(* The columns a transaction changed, written into the row that is there.      *)
LEMMA MergeFacts ==
  ASSUME NEW old \in Held, NEW new \in Held, NEW row \in Held,
         NEW m, m = [c \in DOMAIN new |-> IF new[c] # old[c] THEN new[c] ELSE row[c]]
  PROVE  /\ m \in Held
         /\ m.id = IF new.id # old.id THEN new.id ELSE row.id
         /\ m.primary = IF new.primary # old.primary THEN new.primary ELSE row.primary
         /\ m.status = IF new.status # old.status THEN new.status ELSE row.status
         /\ m.stamped = IF new.stamped # old.stamped THEN new.stamped ELSE row.stamped
         /\ row = old => m = new
<1>1. DOMAIN new = {"id", "primary", "status", "stamped"}  BY DEF Held
<1>2. /\ m.id = IF new.id # old.id THEN new.id ELSE row.id
      /\ m.primary = IF new.primary # old.primary THEN new.primary ELSE row.primary
      /\ m.status = IF new.status # old.status THEN new.status ELSE row.status
      /\ m.stamped = IF new.stamped # old.stamped THEN new.stamped ELSE row.stamped
  BY <1>1
<1>3. /\ m.id \in Nat /\ m.primary \in BOOLEAN /\ m.status \in {"pending", "verified", "failed"}
      /\ m.stamped \in BOOLEAN
  BY <1>2 DEF Held
<1>4. m = [id |-> m.id, primary |-> m.primary, status |-> m.status, stamped |-> m.stamped]
  BY <1>1
<1>5. new = [id |-> new.id, primary |-> new.primary, status |-> new.status, stamped |-> new.stamped]
  BY DEF Held
<1>6. row = old => m = new  BY <1>2, <1>4, <1>5
<1> QED BY <1>2, <1>3, <1>4, <1>6 DEF Held

(* What a transaction may make of a row: leave it, remove it, insert it, or     *)
(* change it into one that is proved if it is verified.                       *)
Turned(old, new) ==
  \/ new = old
  \/ new = Nothing
  \/ old = Nothing /\ new \in Held /\ new.id = changes + 1 /\ new.status = "pending"
  \/ /\ old # Nothing /\ new \in Held /\ new.id = old.id /\ (old.stamped => new.stamped)
     /\ new.status = "verified" => new.id \in proven' /\ new.stamped

LEMMA OpenKeeps ==
  ASSUME SiteAssumption, SiteInv, NEW r \in Editors, NEW newDomain \in Names,
         NEW newSettings \in [Namespaces -> Nat], NEW keys \in SUBSET Namespaces,
         Tenancy!Open(r, newDomain, newSettings, keys), proven \subseteq proven',
         OnePrimary(domain) => OnePrimary(newDomain),
         \A k \in Namespaces \ keys : newSettings[k] = settings[k],
         \A d \in Domains : Turned(domain[d], newDomain[d])
  PROVE  SiteInv'
<1> USE DEF SiteInv, SiteAssumption
<1> DEFINE new == [domain |-> domain, settings |-> settings, newDomain |-> newDomain,
                   newSettings |-> newSettings, keys |-> keys]
<1>1. /\ change[r] = Nothing /\ change' = [change EXCEPT ![r] = new] /\ changes' = changes + 1
      /\ UNCHANGED <<domain, settings, accepted, crossed>>
  BY DEF Tenancy!Open
<1>2. /\ new \in Transaction /\ new.domain = domain /\ new.settings = settings /\ new.newDomain = newDomain
      /\ new.newSettings = newSettings /\ new.keys = keys
  BY DEF SiteType, Transaction
<1> HIDE DEF new
<1>3. \A o \in Editors : change'[o] = IF o = r THEN new ELSE change[o]  BY <1>1 DEF SiteType
<1>4. SiteType'  BY <1>1, <1>2 DEF SiteType
<1>5. changes \in Nat /\ changes' = changes + 1  BY <1>1 DEF SiteType
<1>6. \A d \in Domains : domain[d] \in Held \cup {Nothing} /\ newDomain[d] \in Held \cup {Nothing}
  BY DEF SiteType, Names
<1>7. \A row \in Held \cup {Nothing} : (Proved(row) => Proved(row)') /\ (Dated(row) => Dated(row)')
  BY <1>5 DEF Proved, Dated, Held
<1>8. ASSUME NEW d \in Domains
      PROVE  /\ Proved(newDomain[d])' /\ Dated(domain[d])' /\ Dated(newDomain[d])'
             /\ Later(domain[d], newDomain[d]) /\ Later(domain[d], domain[d])
             /\ domain[d] # Nothing /\ newDomain[d] # Nothing => newDomain[d].id = domain[d].id
  <2>1. Proved(domain[d]) /\ Dated(domain[d])  BY DEF RowsInv
  <2>2. Proved(domain[d])' /\ Dated(domain[d])'  BY <1>1, <1>6, <1>7, <2>1 DEF Proved, Dated
  <2>3. CASE newDomain[d] = domain[d]
    BY <1>1, <2>2, <2>3 DEF Proved, Dated, Later
  <2>4. CASE newDomain[d] = Nothing
    BY <2>2, <2>4 DEF Proved, Dated, Later
  <2>5. CASE domain[d] = Nothing /\ newDomain[d] \in Held /\ newDomain[d].id = changes + 1
             /\ newDomain[d].status = "pending"
    BY <1>5, <2>2, <2>5 DEF Proved, Dated, Later
  <2>6. CASE /\ domain[d] # Nothing /\ newDomain[d] \in Held /\ newDomain[d].id = domain[d].id
             /\ (domain[d].stamped => newDomain[d].stamped)
             /\ newDomain[d].status = "verified" => newDomain[d].id \in proven' /\ newDomain[d].stamped
    BY <1>1, <2>2, <2>6 DEF Proved, Dated, Later
  <2> QED  BY <2>3, <2>4, <2>5, <2>6 DEF Turned
<1>9. MakesInv'
  <2> SUFFICES ASSUME NEW o \in Editors, change'[o] # Nothing  PROVE Makes(change[o])'
    BY DEF MakesInv
  <2>1. CASE o = r
    <3>1. change'[o].domain = domain /\ change'[o].newDomain = newDomain /\ change'[o].settings = settings
          /\ change'[o].newSettings = newSettings /\ change'[o].keys = keys
      BY <1>2, <1>3, <2>1
    <3>2. /\ OnePrimary(change[o].domain)' => OnePrimary(change[o].newDomain)'
          /\ \A k \in Namespaces \ change'[o].keys : change'[o].newSettings[k] = change'[o].settings[k]
      BY <3>1 DEF OnePrimary
    <3>3. ASSUME NEW d \in Domains
          PROVE  /\ Proved(change[o].newDomain[d])' /\ Dated(change[o].domain[d])'
                 /\ Dated(change[o].newDomain[d])'
                 /\ Later(change[o].domain[d], change[o].newDomain[d])'
                 /\ Later(change[o].domain[d], domain[d])'
                 /\ change'[o].domain[d] # Nothing /\ change'[o].newDomain[d] # Nothing =>
                      change'[o].newDomain[d].id = change'[o].domain[d].id
      BY <1>1, <1>8, <3>1 DEF Proved, Dated, Later
    <3> QED  BY <3>2, <3>3 DEF Makes
  <2>2. CASE o # r
    <3>1. change'[o] = change[o] /\ change[o] \in Transaction  BY <1>3, <2>2 DEF SiteType
    <3>2. Makes(change[o])  BY <3>1 DEF MakesInv
    <3>3. \A d \in Domains : change[o].domain[d] \in Held \cup {Nothing}
                             /\ change[o].newDomain[d] \in Held \cup {Nothing}
      BY <3>1 DEF Transaction, Names
    <3>4. \A d \in Domains : Dated(change[o].domain[d])' /\ Dated(change[o].newDomain[d])'
                             /\ Proved(change[o].newDomain[d])'
      BY <1>5, <1>7, <3>1, <3>2, <3>3 DEF Makes, Dated, Proved
    <3>5. /\ OnePrimary(change[o].domain)' => OnePrimary(change[o].newDomain)'
          /\ \A k \in Namespaces \ change'[o].keys : change'[o].newSettings[k] = change'[o].settings[k]
      BY <3>1, <3>2 DEF Makes, OnePrimary
    <3>6. ASSUME NEW d \in Domains
          PROVE  /\ Later(change[o].domain[d], change[o].newDomain[d])'
                 /\ Later(change[o].domain[d], domain[d])'
                 /\ change'[o].domain[d] # Nothing /\ change'[o].newDomain[d] # Nothing =>
                      change'[o].newDomain[d].id = change'[o].domain[d].id
      BY <1>1, <3>1, <3>2 DEF Makes, Later
    <3> QED  BY <3>4, <3>5, <3>6 DEF Makes
  <2> QED  BY <2>1, <2>2
<1>10. FreshInv'
  <2> SUFFICES ASSUME NEW o \in Editors, NEW d \in Domains, change'[o] # Nothing, Inserted(change[o], d)'
               PROVE  /\ domain[d] # Nothing => domain[d].id # change'[o].newDomain[d].id
                      /\ \A x \in Editors : change'[x] # Nothing =>
                           /\ change'[x].domain[d] # Nothing =>
                                change'[x].domain[d].id # change'[o].newDomain[d].id
                           /\ x # o /\ Inserted(change[x], d)' =>
                                change'[x].newDomain[d].id # change'[o].newDomain[d].id
    BY <1>1 DEF FreshInv
  <2>1. /\ domain[d] # Nothing => domain[d].id \in Nat /\ domain[d].id <= changes
        /\ \A x \in Editors : x # r /\ change[x] # Nothing =>
             /\ change[x].domain[d] # Nothing =>
                  change[x].domain[d].id \in Nat /\ change[x].domain[d].id <= changes
             /\ change[x].newDomain[d] # Nothing =>
                  change[x].newDomain[d].id \in Nat /\ change[x].newDomain[d].id <= changes
    <3>1. domain[d] # Nothing => domain[d].id \in Nat /\ domain[d].id <= changes
      BY <1>6 DEF RowsInv, Dated, Held
    <3>2. ASSUME NEW x \in Editors, x # r, change[x] # Nothing
          PROVE  /\ change[x].domain[d] # Nothing =>
                      change[x].domain[d].id \in Nat /\ change[x].domain[d].id <= changes
                 /\ change[x].newDomain[d] # Nothing =>
                      change[x].newDomain[d].id \in Nat /\ change[x].newDomain[d].id <= changes
      <4>1. change[x] \in Transaction /\ Makes(change[x])  BY <3>2 DEF SiteType, MakesInv
      <4>2. change[x].domain[d] \in Held \cup {Nothing} /\ change[x].newDomain[d] \in Held \cup {Nothing}
        BY <4>1 DEF Transaction, Names
      <4> QED  BY <4>1, <4>2 DEF Makes, Dated, Held
    <3> QED  BY <3>1, <3>2
  <2>2. CASE o = r
    <3>1. domain[d] = Nothing /\ newDomain[d] # Nothing /\ change'[o].newDomain[d] = newDomain[d]
      BY <1>2, <1>3, <2>2 DEF Inserted
    <3>2. newDomain[d].id = changes + 1  BY <3>1 DEF Turned
    <3>3. \A x \in Editors : x # r => change'[x] = change[x]  BY <1>3
    <3>4. change'[r].domain[d] = Nothing  BY <1>2, <1>3, <3>1
    <3>5. ASSUME NEW x \in Editors, x # r, change[x] # Nothing
          PROVE  /\ change[x].domain[d] # Nothing => change[x].domain[d].id # newDomain[d].id
                 /\ Inserted(change[x], d) => change[x].newDomain[d].id # newDomain[d].id
      BY <1>5, <2>1, <3>2, <3>5 DEF Inserted
    <3>6. \A x \in Editors : x # r => (Inserted(change[x], d)' <=> Inserted(change[x], d))
      BY <3>3 DEF Inserted
    <3> QED  BY <2>2, <3>1, <3>3, <3>4, <3>5, <3>6
  <2>3. CASE o # r
    <3>1. change'[o] = change[o] /\ change[o] # Nothing /\ Inserted(change[o], d)
      BY <1>3, <2>3 DEF Inserted
    <3>2. domain[d] # Nothing => domain[d].id # change[o].newDomain[d].id  BY <3>1 DEF FreshInv
    <3>3. ASSUME NEW x \in Editors, change'[x] # Nothing
          PROVE  /\ change'[x].domain[d] # Nothing => change'[x].domain[d].id # change'[o].newDomain[d].id
                 /\ x # o /\ Inserted(change[x], d)' =>
                      change'[x].newDomain[d].id # change'[o].newDomain[d].id
      <4>1. CASE x = r
        <5>1. change'[x].domain[d] = domain[d] /\ change'[x].newDomain[d] = newDomain[d]
          BY <1>2, <1>3, <4>1
        <5>2. change[o].newDomain[d].id \in Nat /\ change[o].newDomain[d].id <= changes
          BY <2>1, <2>3, <3>1 DEF Inserted
        <5>3. Inserted(change[x], d)' => newDomain[d].id = changes + 1
          BY <5>1 DEF Inserted, Turned
        <5> QED  BY <1>5, <3>1, <3>2, <5>1, <5>2, <5>3
      <4>2. CASE x # r
        <5>1. change'[x] = change[x] /\ change[x] # Nothing /\ (Inserted(change[x], d)' <=> Inserted(change[x], d))
          BY <1>3, <3>3, <4>2 DEF Inserted
        <5> QED  BY <3>1, <5>1 DEF FreshInv
      <4> QED  BY <4>1, <4>2
    <3> QED  BY <3>1, <3>2, <3>3
  <2> QED  BY <2>2, <2>3
<1>11. RowsInv'  BY <1>1, <1>8 DEF RowsInv, Proved, Dated, OnePrimary
<1> QED  BY <1>4, <1>9, <1>10, <1>11

(* The operations: each opens a transaction.                                  *)
LEMMA DomainSteps ==
  ASSUME SiteAssumption, SiteInv, NEW r \in Editors, NEW d \in Domains,
         \/ \E primary \in BOOLEAN : Tenancy!AddDomain(r, d, primary)
         \/ Tenancy!RemoveDomain(r, d)
         \/ Tenancy!VerifyDomain(r, d)
  PROVE  SiteInv'
<1>1. /\ domain \in Names /\ settings \in [Namespaces -> Nat] /\ changes \in Nat
      /\ \A e \in Domains : domain[e] \in Held \cup {Nothing} /\ Proved(domain[e])
  BY DEF SiteInv, SiteType, Names, RowsInv
<1>2. \A k \in Namespaces \ {} : settings[k] = settings[k]
  OBVIOUS
<1>3. ASSUME NEW primary \in BOOLEAN, Tenancy!AddDomain(r, d, primary)  PROVE SiteInv'
  <2> DEFINE new == Tenancy!WithDomain(d, primary)
             row == [id |-> changes + 1, primary |-> primary, status |-> "pending", stamped |-> FALSE]
  <2>1. domain[d] = Nothing /\ Tenancy!Open(r, new, settings, {}) /\ proven' = proven
    BY <1>3 DEF Tenancy!AddDomain, Tenancy!Registered
  <2>2. row \in Held /\ row.id = changes + 1 /\ row.status = "pending" /\ row.primary = primary
    BY <1>1 DEF Held
  <2>3. new = [e \in Domains |-> CASE e = d -> row
                [] e # d /\ domain[e] # Nothing /\ primary -> [domain[e] EXCEPT !.primary = FALSE]
                [] OTHER -> domain[e]]
    BY DEF Tenancy!WithDomain, Tenancy!Fresh
  <2> HIDE DEF new, row
  <2>4. new[d] = row  BY <2>3
  <2>5. ASSUME NEW e \in Domains, e # d
        PROVE  /\ new[e] \in Held \cup {Nothing} /\ Turned(domain[e], new[e])
               /\ primary => (new[e] # Nothing => ~new[e].primary)
               /\ ~primary => new[e] = domain[e]
    <3>1. CASE domain[e] # Nothing /\ primary
      <4>1. new[e] = [domain[e] EXCEPT !.primary = FALSE] /\ domain[e] \in Held  BY <1>1, <2>3, <2>5, <3>1
      <4>2. /\ new[e] \in Held /\ new[e].id = domain[e].id /\ new[e].status = domain[e].status
            /\ new[e].stamped = domain[e].stamped /\ new[e].primary = FALSE
        BY <4>1 DEF Held
      <4> QED  BY <1>1, <2>1, <3>1, <4>2 DEF Turned, Proved
    <3>2. CASE ~(domain[e] # Nothing /\ primary)
      <4>1. new[e] = domain[e]  BY <2>3, <2>5, <3>2
      <4> QED  BY <1>1, <3>2, <4>1 DEF Turned
    <3> QED  BY <3>1, <3>2
  <2>6. new \in Names
    <3>1. \A e \in Domains : new[e] \in Held \cup {Nothing}  BY <2>2, <2>4, <2>5
    <3> QED  BY <2>3, <3>1 DEF Names
  <2>7. \A e \in Domains : Turned(domain[e], new[e])
    <3>1. Turned(domain[d], new[d])  BY <2>1, <2>2, <2>4 DEF Turned
    <3> QED  BY <2>5, <3>1
  <2>8. OnePrimary(domain) => OnePrimary(new)
    <3> SUFFICES ASSUME OnePrimary(domain) PROVE OnePrimary(new)
      OBVIOUS
    <3>1. row # Nothing
      <4>1. Nothing \notin Held /\ row \in Held  BY <2>2 DEF SiteAssumption
      <4> QED  BY <4>1
    <3>2. CASE primary
      <4>1. \A e \in Domains : new[e] # Nothing /\ new[e].primary <=> e = d
        BY <2>2, <2>4, <2>5, <3>1, <3>2
      <4> QED  BY <4>1 DEF OnePrimary
    <3>3. CASE ~primary
      <4>1. PICK p \in Domains : \A e \in Domains : domain[e] # Nothing /\ domain[e].primary <=> e = p
        BY DEF OnePrimary
      <4>2. p # d  BY <2>1, <4>1
      <4>3. \A e \in Domains : new[e] # Nothing /\ new[e].primary <=> e = p
        BY <2>2, <2>4, <2>5, <3>3, <4>1, <4>2
      <4> QED  BY <4>3 DEF OnePrimary
    <3> QED  BY <3>2, <3>3
  <2>9. proven \subseteq proven'  BY <2>1
  <2> QED  BY <1>1, <1>2, <2>1, <2>6, <2>7, <2>8, <2>9, OpenKeeps
<1>4. ASSUME Tenancy!RemoveDomain(r, d)  PROVE SiteInv'
  <2> DEFINE new == [domain EXCEPT ![d] = Nothing]
  <2>1. domain[d] # Nothing /\ ~domain[d].primary /\ Tenancy!Open(r, new, settings, {}) /\ proven' = proven
    BY <1>4 DEF Tenancy!RemoveDomain, Tenancy!Registered
  <2>2. new \in Names /\ \A e \in Domains : new[e] = IF e = d THEN Nothing ELSE domain[e]
    BY <1>1 DEF Names
  <2> HIDE DEF new
  <2>3. \A e \in Domains : Turned(domain[e], new[e])  BY <2>2 DEF Turned
  <2>4. OnePrimary(domain) => OnePrimary(new)  BY <2>1, <2>2 DEF OnePrimary
  <2>5. proven \subseteq proven'  BY <2>1
  <2> QED  BY <1>1, <1>2, <2>1, <2>2, <2>3, <2>4, <2>5, OpenKeeps
<1>5. ASSUME Tenancy!VerifyDomain(r, d)  PROVE SiteInv'
  <2>1. PICK found \in SUBSET {d} :
          /\ Tenancy!Lookup(found)
          /\ Tenancy!Open(r, [domain EXCEPT ![d] = IF d \in found THEN Tenancy!Verified(@)
                                                   ELSE [@ EXCEPT !.status = "failed"]], settings, {})
    BY <1>5 DEF Tenancy!VerifyDomain
  <2> DEFINE row == IF d \in found THEN [domain[d] EXCEPT !.status = "verified", !.stamped = TRUE]
                    ELSE [domain[d] EXCEPT !.status = "failed"]
             new == [domain EXCEPT ![d] = row]
  <2>2. domain[d] # Nothing /\ domain[d] \in Held
    BY <1>1, <1>5 DEF Tenancy!VerifyDomain, Tenancy!Registered
  <2>3. Tenancy!Open(r, new, settings, {})
    BY <1>1, <2>1 DEF Tenancy!Verified, Names
  <2>4. proven \subseteq proven' /\ (d \in found => domain[d].id \in proven')
    BY <2>1 DEF Tenancy!Lookup
  <2>5. /\ row \in Held /\ row.id = domain[d].id /\ row.primary = domain[d].primary
        /\ (domain[d].stamped => row.stamped)
        /\ (row.status = "verified" => row.stamped /\ d \in found)
    <3>1. CASE d \in found
      <4>1. row = [domain[d] EXCEPT !.status = "verified", !.stamped = TRUE]  BY <3>1
      <4> QED  BY <2>2, <3>1, <4>1 DEF Held
    <3>2. CASE d \notin found
      <4>1. row = [domain[d] EXCEPT !.status = "failed"]  BY <3>2
      <4> QED  BY <2>2, <3>2, <4>1 DEF Held
    <3> QED  BY <3>1, <3>2
  <2> HIDE DEF row
  <2>6. new \in Names /\ \A e \in Domains : new[e] = IF e = d THEN row ELSE domain[e]
    BY <1>1, <2>5 DEF Names
  <2> HIDE DEF new
  <2>7. \A e \in Domains : Turned(domain[e], new[e])  BY <2>2, <2>4, <2>5, <2>6 DEF Turned
  <2>8. OnePrimary(domain) => OnePrimary(new)
    <3>1. row # Nothing
      <4>1. Nothing \notin Held /\ row \in Held  BY <2>5 DEF SiteAssumption
      <4> QED  BY <4>1
    <3> QED  BY <2>2, <2>5, <2>6, <3>1 DEF OnePrimary
  <2> QED  BY <1>1, <1>2, <2>3, <2>4, <2>6, <2>7, <2>8, OpenKeeps
<1> QED  BY <1>3, <1>4, <1>5

LEMMA TenantSteps ==
  ASSUME SiteAssumption, SiteInv, NEW r \in Editors,
         \/ \E k \in Namespaces : Tenancy!ReplaceSettingsKey(r, k)
         \/ Tenancy!VerifyPending(r)
         \/ Tenancy!Update(r)
  PROVE  SiteInv'
<1>1. /\ domain \in Names /\ settings \in [Namespaces -> Nat] /\ changes \in Nat
      /\ \A e \in Domains : domain[e] \in Held \cup {Nothing} /\ Proved(domain[e])
  BY DEF SiteInv, SiteType, Names, RowsInv
<1>2. \A e \in Domains : Turned(domain[e], domain[e])  BY DEF Turned
<1>3. ASSUME NEW k \in Namespaces, Tenancy!ReplaceSettingsKey(r, k)  PROVE SiteInv'
  <2> DEFINE new == [settings EXCEPT ![k] = changes + 1]
  <2>1. Tenancy!Open(r, domain, new, {k}) /\ proven \subseteq proven'
    BY <1>3 DEF Tenancy!ReplaceSettingsKey
  <2>2. new \in [Namespaces -> Nat] /\ \A l \in Namespaces \ {k} : new[l] = settings[l]  BY <1>1
  <2> HIDE DEF new
  <2> QED  BY <1>1, <1>2, <2>1, <2>2, OpenKeeps
<1>4. ASSUME Tenancy!VerifyPending(r)  PROVE SiteInv'
  <2>1. PICK found \in SUBSET {d \in Tenancy!Registered : domain[d].status # "verified"} :
          /\ Tenancy!Lookup(found)
          /\ Tenancy!Open(r, [d \in Domains |-> IF d \in found THEN Tenancy!Verified(domain[d]) ELSE domain[d]],
                          settings, {})
    BY <1>4 DEF Tenancy!VerifyPending
  <2> DEFINE new == [d \in Domains |-> IF d \in found THEN [domain[d] EXCEPT !.status = "verified", !.stamped = TRUE]
                                       ELSE domain[d]]
  <2>2. Tenancy!Open(r, new, settings, {})  BY <2>1 DEF Tenancy!Verified
  <2>3. proven \subseteq proven' /\ \A d \in found : d \in Domains /\ domain[d] # Nothing /\ domain[d].id \in proven'
    BY <2>1 DEF Tenancy!Lookup, Tenancy!Registered
  <2>4. ASSUME NEW d \in Domains
        PROVE  /\ new[d] \in Held \cup {Nothing} /\ Turned(domain[d], new[d])
               /\ new[d] # Nothing /\ new[d].primary <=> domain[d] # Nothing /\ domain[d].primary
    <3>1. CASE d \in found
      <4>1. domain[d] \in Held /\ domain[d] # Nothing /\ domain[d].id \in proven'  BY <1>1, <2>3, <3>1
      <4>2. new[d] = [domain[d] EXCEPT !.status = "verified", !.stamped = TRUE]  BY <3>1
      <4>3. /\ new[d] \in Held /\ new[d].id = domain[d].id /\ new[d].primary = domain[d].primary
            /\ new[d].stamped = TRUE
        BY <4>1, <4>2 DEF Held
      <4>4. new[d] # Nothing
        <5>1. Nothing \notin Held  BY DEF SiteAssumption
        <5> QED  BY <4>3, <5>1
      <4> HIDE DEF new
      <4> QED  BY <4>1, <4>3, <4>4 DEF Turned
    <3>2. CASE d \notin found
      <4>1. new[d] = domain[d]  BY <3>2
      <4> HIDE DEF new
      <4> QED  BY <1>1, <4>1 DEF Turned
    <3> QED  BY <3>1, <3>2
  <2>5. new \in Names
    <3>1. \A d \in Domains : new[d] \in Held \cup {Nothing}  BY <2>4
    <3>2. new = [d \in Domains |-> new[d]]  OBVIOUS
    <3> HIDE DEF new
    <3> QED  BY <3>1, <3>2 DEF Names
  <2> HIDE DEF new
  <2>6. OnePrimary(domain) => OnePrimary(new)  BY <2>4 DEF OnePrimary
  <2>7. \A d \in Domains : Turned(domain[d], new[d])  BY <2>4
  <2>8. \A k \in Namespaces \ {} : settings[k] = settings[k]  OBVIOUS
  <2> QED  BY <1>1, <2>2, <2>3, <2>5, <2>6, <2>7, <2>8, OpenKeeps
<1>5. ASSUME Tenancy!Update(r)  PROVE SiteInv'
  <2> DEFINE new == [k \in Namespaces |-> changes + 1]
  <2>1. Tenancy!Open(r, domain, new, Namespaces) /\ proven \subseteq proven'  BY <1>5 DEF Tenancy!Update
  <2>2. new \in [Namespaces -> Nat] /\ \A l \in Namespaces \ Namespaces : new[l] = settings[l]  BY <1>1
  <2> HIDE DEF new
  <2> QED  BY <1>1, <1>2, <2>1, <2>2, OpenKeeps
<1> QED  BY <1>3, <1>4, <1>5

(* What a commit leaves of a row: what was there, what it wants to be there, or *)
(* the row that is there with the columns it changed.                        *)
LEMMA RowFacts ==
  ASSUME SiteAssumption, SiteInv, NEW r \in Editors, NEW q, q = change[r], q # Nothing,
         Tenancy!Possible(r), NEW d \in Domains, NEW row, row = Tenancy!Row(r, d)
  PROVE  /\ row \in Held \cup {Nothing} /\ Proved(row) /\ Dated(row)
         /\ domain[d] = q.domain[d] => row = q.newDomain[d]
         /\ \/ row = domain[d]
            \/ row = Nothing
            \/ Inserted(q, d) /\ row = q.newDomain[d]
            \/ domain[d] # Nothing /\ row # Nothing /\ row.id = domain[d].id /\ (domain[d].stamped => row.stamped)
<1> DEFINE old == q.domain[d]
           new == q.newDomain[d]
<1>1. q \in Transaction /\ Makes(q)  BY DEF SiteInv, SiteType, MakesInv
<1>2. /\ old \in Held \cup {Nothing} /\ new \in Held \cup {Nothing} /\ domain[d] \in Held \cup {Nothing}
      /\ Nothing \notin Held
  BY <1>1 DEF Transaction, Names, SiteInv, SiteType, SiteAssumption
<1>3. /\ Proved(new) /\ Dated(new) /\ Proved(domain[d]) /\ Dated(domain[d])
      /\ Later(old, new) /\ Later(old, domain[d])
      /\ old # Nothing /\ new # Nothing => new.id = old.id
  BY <1>1 DEF Makes, SiteInv, RowsInv
<1>4. row = CASE new = old -> domain[d]
              [] new # old /\ (old = Nothing \/ new = Nothing) -> new
              [] OTHER -> [c \in DOMAIN new |-> IF new[c] # old[c] THEN new[c] ELSE domain[d][c]]
  BY DEF Tenancy!Row, Tenancy!Touched
<1>5. new # old => IF old = Nothing THEN domain[d] = Nothing ELSE domain[d] # Nothing /\ domain[d].id = old.id
  BY DEF Tenancy!Possible, Tenancy!Touched
<1>6. Inserted(q, d) <=> old = Nothing /\ new # Nothing  BY DEF Inserted
<1> HIDE DEF old, new
<1>7. CASE new = old
  <2>1. row = domain[d]  BY <1>4, <1>7
  <2>2. domain[d] = old => row = new  BY <1>7, <2>1
  <2> QED  BY <1>2, <1>3, <2>1, <2>2 DEF old, new
<1>8. CASE new # old /\ (old = Nothing \/ new = Nothing)
  <2>1. row = new  BY <1>4, <1>8
  <2> QED  BY <1>2, <1>3, <1>6, <1>8, <2>1 DEF old, new
<1>9. CASE new # old /\ old # Nothing /\ new # Nothing
  <2>1. row = [c \in DOMAIN new |-> IF new[c] # old[c] THEN new[c] ELSE domain[d][c]]  BY <1>4, <1>9
  <2>2. old \in Held /\ new \in Held /\ domain[d] \in Held /\ domain[d] # Nothing
        /\ domain[d].id = old.id /\ new.id = old.id
    BY <1>2, <1>3, <1>5, <1>9
  <2>3. /\ row \in Held
        /\ row.id = IF new.id # old.id THEN new.id ELSE domain[d].id
        /\ row.status = IF new.status # old.status THEN new.status ELSE domain[d].status
        /\ row.stamped = IF new.stamped # old.stamped THEN new.stamped ELSE domain[d].stamped
        /\ domain[d] = old => row = new
    BY <2>1, <2>2, MergeFacts
  <2>4. row # Nothing /\ row.id = domain[d].id  BY <1>2, <2>2, <2>3
  <2>5. /\ new.stamped \in BOOLEAN /\ old.stamped \in BOOLEAN /\ domain[d].stamped \in BOOLEAN
        /\ (old.stamped => new.stamped) /\ (old.stamped => domain[d].stamped)
    BY <1>3, <1>9, <2>2 DEF Held, Later
  <2>6. (domain[d].stamped => row.stamped) /\ (new.stamped => row.stamped)  BY <2>3, <2>5
  <2>7. row.status = "verified" => row.id \in proven /\ row.stamped
    <3>1. CASE new.status # old.status
      BY <1>3, <1>9, <2>2, <2>3, <2>4, <2>6, <3>1 DEF Proved
    <3>2. CASE new.status = old.status
      BY <1>3, <2>2, <2>3, <2>4, <2>6, <3>2 DEF Proved
    <3> QED  BY <3>1, <3>2
  <2>8. Dated(row)  BY <1>3, <2>2, <2>4 DEF Dated
  <2> QED  BY <2>2, <2>3, <2>4, <2>6, <2>7, <2>8 DEF Proved, old, new
<1> QED  BY <1>7, <1>8, <1>9

LEMMA MergeKeeps ==
  ASSUME SiteAssumption, SiteInv, NEW r \in Editors, Tenancy!Commit(r)  PROVE SiteInv'
<1> DEFINE q == change[r]
<1>1. /\ q # Nothing /\ Tenancy!Possible(r) /\ domain' = [d \in Domains |-> Tenancy!Row(r, d)]
      /\ settings' = IF q.keys # {} THEN q.newSettings ELSE settings
      /\ accepted' = [k \in Namespaces |-> IF k \in q.keys THEN q.newSettings[k] ELSE accepted[k]]
      /\ crossed' = (crossed \/ domain # q.domain \/ settings # q.settings)
      /\ change' = [change EXCEPT ![r] = Nothing] /\ changes' = changes /\ proven' = proven
  BY DEF Tenancy!Commit, Tenancy!Writes
<1>2. q \in Transaction /\ Makes(q)  BY <1>1 DEF SiteInv, SiteType, MakesInv
<1>3. /\ domain \in Names /\ settings \in [Namespaces -> Nat] /\ accepted \in [Namespaces -> Nat]
      /\ change \in [Editors -> Transaction \cup {Nothing}] /\ changes \in Nat /\ crossed \in BOOLEAN
  BY DEF SiteInv, SiteType
<1>4. ASSUME NEW d \in Domains
      PROVE  /\ domain'[d] \in Held \cup {Nothing} /\ Proved(domain'[d]) /\ Dated(domain'[d])
             /\ domain[d] = q.domain[d] => domain'[d] = q.newDomain[d]
             /\ \/ domain'[d] = domain[d]
                \/ domain'[d] = Nothing
                \/ Inserted(q, d) /\ domain'[d] = q.newDomain[d]
                \/ domain[d] # Nothing /\ domain'[d] # Nothing /\ domain'[d].id = domain[d].id
                   /\ (domain[d].stamped => domain'[d].stamped)
  <2>1. domain'[d] = Tenancy!Row(r, d)  BY <1>1
  <2> QED  BY <1>1, <2>1, RowFacts
<1>5. \A o \in Editors : change'[o] # Nothing => o # r /\ change'[o] = change[o]
  BY <1>1, <1>3
<1>6. /\ q.domain \in Names /\ q.newDomain \in Names /\ q.settings \in [Namespaces -> Nat]
      /\ q.newSettings \in [Namespaces -> Nat] /\ q.keys \subseteq Namespaces
  BY <1>2 DEF Transaction
<1> HIDE DEF q
<1>7. SiteType'
  <2>1. domain' \in Names
    <3>1. \A d \in Domains : domain'[d] \in Held \cup {Nothing}  BY <1>4
    <3> QED  BY <1>1, <3>1 DEF Names
  <2>2. settings' \in [Namespaces -> Nat] /\ accepted' \in [Namespaces -> Nat]  BY <1>1, <1>3, <1>6
  <2>3. change' \in [Editors -> Transaction \cup {Nothing}]  BY <1>1, <1>3
  <2>4. crossed' \in BOOLEAN /\ changes' \in Nat  BY <1>1, <1>3
  <2> QED  BY <2>1, <2>2, <2>3, <2>4 DEF SiteType
<1>8. MakesInv'
  <2> SUFFICES ASSUME NEW o \in Editors, change'[o] # Nothing  PROVE Makes(change[o])'
    BY DEF MakesInv
  <2>1. o # r /\ change'[o] = change[o] /\ change[o] # Nothing  BY <1>5
  <2>2. Makes(change[o])  BY <2>1 DEF SiteInv, MakesInv
  <2>3. ASSUME NEW d \in Domains  PROVE Later(change[o].domain[d], domain'[d])
    <3>1. Later(change[o].domain[d], domain[d])  BY <2>2 DEF Makes
    <3>2. CASE domain'[d] = domain[d]  BY <3>1, <3>2
    <3>3. CASE domain'[d] = Nothing  BY <3>3 DEF Later
    <3>4. CASE Inserted(q, d) /\ domain'[d] = q.newDomain[d]
      <4>1. change[o].domain[d] # Nothing => change[o].domain[d].id # q.newDomain[d].id
        BY <1>1, <2>1, <3>4 DEF SiteInv, FreshInv, q
      <4> QED  BY <3>4, <4>1 DEF Later
    <3>5. CASE domain[d] # Nothing /\ domain'[d] # Nothing /\ domain'[d].id = domain[d].id
               /\ (domain[d].stamped => domain'[d].stamped)
      BY <3>1, <3>5 DEF Later
    <3> QED  BY <1>4, <3>2, <3>3, <3>4, <3>5
  <2>4. ASSUME NEW d \in Domains
        PROVE  /\ Proved(change[o].newDomain[d])' /\ Dated(change[o].domain[d])'
               /\ Dated(change[o].newDomain[d])'
               /\ Later(change[o].domain[d], change[o].newDomain[d])'
               /\ Later(change[o].domain[d], domain[d])'
               /\ change'[o].domain[d] # Nothing /\ change'[o].newDomain[d] # Nothing =>
                    change'[o].newDomain[d].id = change'[o].domain[d].id
    BY <1>1, <2>1, <2>2, <2>3 DEF Makes, Proved, Dated, Later
  <2>5. /\ OnePrimary(change[o].domain)' => OnePrimary(change[o].newDomain)'
        /\ \A k \in Namespaces \ change'[o].keys : change'[o].newSettings[k] = change'[o].settings[k]
    BY <2>1, <2>2 DEF Makes, OnePrimary
  <2> QED  BY <2>4, <2>5 DEF Makes
<1>9. FreshInv'
  <2> SUFFICES ASSUME NEW o \in Editors, NEW d \in Domains, change'[o] # Nothing, Inserted(change[o], d)'
               PROVE  /\ domain'[d] # Nothing => domain'[d].id # change'[o].newDomain[d].id
                      /\ \A x \in Editors : change'[x] # Nothing =>
                           /\ change'[x].domain[d] # Nothing =>
                                change'[x].domain[d].id # change'[o].newDomain[d].id
                           /\ x # o /\ Inserted(change[x], d)' =>
                                change'[x].newDomain[d].id # change'[o].newDomain[d].id
    BY DEF FreshInv
  <2>1. o # r /\ change'[o] = change[o] /\ change[o] # Nothing /\ Inserted(change[o], d)
    BY <1>5 DEF Inserted
  <2>2. domain'[d] # Nothing => domain'[d].id # change[o].newDomain[d].id
    <3>1. domain[d] # Nothing => domain[d].id # change[o].newDomain[d].id
      BY <2>1 DEF SiteInv, FreshInv
    <3>2. Inserted(q, d) => q.newDomain[d].id # change[o].newDomain[d].id
      BY <1>1, <2>1 DEF SiteInv, FreshInv, q
    <3> QED  BY <1>4, <3>1, <3>2
  <2>3. ASSUME NEW x \in Editors, change'[x] # Nothing
        PROVE  /\ change'[x].domain[d] # Nothing => change'[x].domain[d].id # change[o].newDomain[d].id
               /\ x # o /\ Inserted(change[x], d)' =>
                    change'[x].newDomain[d].id # change[o].newDomain[d].id
    <3>1. change'[x] = change[x] /\ change[x] # Nothing /\ (Inserted(change[x], d)' <=> Inserted(change[x], d))
      BY <1>5, <2>3 DEF Inserted
    <3> QED  BY <2>1, <3>1 DEF SiteInv, FreshInv
  <2> QED  BY <2>1, <2>2, <2>3
<1>10. RowsInv'
  <2>1. \A d \in Domains : Proved(domain[d])' /\ Dated(domain[d])'
    BY <1>1, <1>4 DEF Proved, Dated
  <2>2. ASSUME ~crossed'  PROVE OnePrimary(domain)' /\ settings' = accepted'
    <3>1. ~crossed /\ domain = q.domain /\ settings = q.settings  BY <1>1, <1>3, <2>2
    <3>2. OnePrimary(domain) /\ settings = accepted  BY <3>1 DEF SiteInv, RowsInv
    <3>3. \A d \in Domains : domain'[d] = q.newDomain[d]  BY <1>4, <3>1
    <3>4. OnePrimary(domain)'
      BY <1>2, <3>1, <3>2, <3>3 DEF Makes, OnePrimary
    <3>5. \A k \in Namespaces : settings'[k] = accepted'[k]
      <4>1. CASE q.keys = {}  BY <1>1, <3>2, <4>1
      <4>2. CASE q.keys # {}
        <5>1. \A k \in Namespaces \ q.keys : q.newSettings[k] = accepted[k]
          BY <1>2, <3>1, <3>2 DEF Makes
        <5> QED  BY <1>1, <4>2, <5>1
      <4> QED  BY <4>1, <4>2
    <3> QED  BY <1>7, <3>4, <3>5 DEF SiteType
  <2> QED  BY <2>1, <2>2 DEF RowsInv
<1> QED  BY <1>7, <1>8, <1>9, <1>10 DEF SiteInv

LEMMA RollbackKeeps ==
  ASSUME SiteAssumption, SiteInv, NEW r \in Editors, Tenancy!Rollback(r)  PROVE SiteInv'
<1>1. /\ change' = [change EXCEPT ![r] = Nothing]
      /\ UNCHANGED <<domain, settings, accepted, changes, proven, crossed>>
  BY DEF Tenancy!Rollback
<1>2. \A o \in Editors : change'[o] # Nothing => change'[o] = change[o]  BY <1>1 DEF SiteInv, SiteType
<1>3. SiteType'  BY <1>1 DEF SiteInv, SiteType
<1>4. MakesInv'
  <2> SUFFICES ASSUME NEW o \in Editors, change'[o] # Nothing  PROVE Makes(change[o])'
    BY DEF MakesInv
  <2>1. change'[o] = change[o] /\ Makes(change[o])  BY <1>2 DEF SiteInv, MakesInv
  <2>2. ASSUME NEW d \in Domains
        PROVE  /\ Proved(change[o].newDomain[d])' /\ Dated(change[o].domain[d])'
               /\ Dated(change[o].newDomain[d])'
               /\ Later(change[o].domain[d], change[o].newDomain[d])'
               /\ Later(change[o].domain[d], domain[d])'
               /\ change'[o].domain[d] # Nothing /\ change'[o].newDomain[d] # Nothing =>
                    change'[o].newDomain[d].id = change'[o].domain[d].id
    BY <1>1, <2>1 DEF Makes, Proved, Dated, Later
  <2>3. /\ OnePrimary(change[o].domain)' => OnePrimary(change[o].newDomain)'
        /\ \A k \in Namespaces \ change'[o].keys : change'[o].newSettings[k] = change'[o].settings[k]
    BY <2>1 DEF Makes, OnePrimary
  <2> QED  BY <2>2, <2>3 DEF Makes
<1>5. FreshInv'
  <2>1. \A o \in Editors, d \in Domains :
          change'[o] # Nothing => (Inserted(change[o], d)' <=> Inserted(change[o], d))
    BY <1>2 DEF Inserted
  <2> QED  BY <1>1, <1>2, <2>1 DEF SiteInv, FreshInv
<1>6. RowsInv'  BY <1>1 DEF SiteInv, RowsInv, Proved, Dated, OnePrimary
<1> QED  BY <1>3, <1>4, <1>5, <1>6 DEF SiteInv

LEMMA RecordKeeps ==
  ASSUME SiteAssumption, SiteInv, NEW d \in Domains, Tenancy!EditRecord(d)  PROVE SiteInv'
<1>1. changes' = changes + 1 /\ UNCHANGED <<domain, settings, accepted, change, proven, crossed>>
  BY DEF Tenancy!EditRecord
<1>2. SiteType'  BY <1>1 DEF SiteInv, SiteType
<1>3. changes \in Nat  BY DEF SiteInv, SiteType
<1>4. \A row \in Held \cup {Nothing} : Dated(row) => Dated(row)'
  BY <1>1, <1>3 DEF Dated, Held
<1>5. ASSUME NEW e \in Domains
      PROVE  /\ Dated(domain[e])'
             /\ \A o \in Editors : change[o] # Nothing =>
                  Dated(change[o].domain[e])' /\ Dated(change[o].newDomain[e])'
  <2>1. domain[e] \in Held \cup {Nothing} /\ Dated(domain[e])
    BY DEF SiteInv, SiteType, Names, RowsInv
  <2>2. ASSUME NEW o \in Editors, change[o] # Nothing
        PROVE  Dated(change[o].domain[e])' /\ Dated(change[o].newDomain[e])'
    <3>1. change[o] \in Transaction /\ Makes(change[o])  BY <2>2 DEF SiteInv, SiteType, MakesInv
    <3>2. /\ change[o].domain[e] \in Held \cup {Nothing} /\ change[o].newDomain[e] \in Held \cup {Nothing}
          /\ Dated(change[o].domain[e]) /\ Dated(change[o].newDomain[e])
      BY <3>1 DEF Transaction, Names, Makes
    <3> QED  BY <1>1, <1>4, <3>2 DEF Dated
  <2> QED  BY <1>1, <1>4, <2>1, <2>2 DEF Dated
<1>6. MakesInv'
  <2> SUFFICES ASSUME NEW o \in Editors, change[o] # Nothing  PROVE Makes(change[o])'
    BY <1>1 DEF MakesInv
  <2>1. Makes(change[o])  BY DEF SiteInv, MakesInv
  <2>2. change' = change /\ domain' = domain /\ proven' = proven  BY <1>1
  <2> QED  BY <1>5, <2>1, <2>2 DEF Makes, Proved, Later, OnePrimary, Dated
<1>7. FreshInv'  BY <1>1 DEF SiteInv, FreshInv, Inserted
<1>8. RowsInv'  BY <1>1, <1>5 DEF SiteInv, RowsInv, Proved, OnePrimary, Dated
<1> QED  BY <1>2, <1>6, <1>7, <1>8 DEF SiteInv

(* A tenant has one primary domain and the settings that were accepted, unless  *)
(* two transactions overlapped, and no domain is verified without its lookup   *)
(* (Sites).                                                                 *)
THEOREM SitesKept ==
  ASSUME SiteAssumption PROVE AgencySpec => [](Tenancy!SitesAreKept)
<1>1. AgencyInit => SiteInv
  <2> SUFFICES ASSUME AgencyInit PROVE SiteInv  OBVIOUS
  <2>1. /\ domain = [d \in Domains |-> IF d = FirstDomain
                                       THEN [id |-> 0, primary |-> TRUE, status |-> "pending", stamped |-> FALSE]
                                       ELSE Nothing]
        /\ settings = [k \in Namespaces |-> 0] /\ accepted = [k \in Namespaces |-> 0]
        /\ change = [r \in Editors |-> Nothing] /\ changes = 0 /\ crossed = FALSE
    BY DEF AgencyInit, Tenancy!Init, Tenancy!Fresh
  <2>2. \A d \in Domains :
          IF d = FirstDomain THEN domain[d] \in Held /\ domain[d] # Nothing /\ domain[d].primary
                                  /\ domain[d].status = "pending" /\ domain[d].id = 0
          ELSE domain[d] = Nothing
    <3> DEFINE first == [id |-> 0, primary |-> TRUE, status |-> "pending", stamped |-> FALSE]
    <3>1. first \in Held /\ first.primary /\ first.status = "pending" /\ first.id = 0  BY DEF Held
    <3>2. first # Nothing  BY <3>1 DEF SiteAssumption
    <3>3. \A d \in Domains : domain[d] = IF d = FirstDomain THEN first ELSE Nothing  BY <2>1
    <3> HIDE DEF first
    <3> QED  BY <3>1, <3>2, <3>3
  <2>3. SiteType  BY <2>1, <2>2 DEF SiteType, Names
  <2>4. MakesInv /\ FreshInv  BY <2>1 DEF MakesInv, FreshInv
  <2>5. RowsInv
    <3>1. OnePrimary(domain)  BY <2>2 DEF OnePrimary, SiteAssumption
    <3> QED  BY <2>1, <2>2, <3>1 DEF RowsInv, Proved, Dated
  <2> QED  BY <2>3, <2>4, <2>5 DEF SiteInv
<1>2. SiteInv /\ [AgencyNext]_agency => SiteInv'
  <2> SUFFICES ASSUME SiteInv, [AgencyNext]_agency PROVE SiteInv'  OBVIOUS
  <2>1. [Tenancy!Next]_sites  BY DEF AgencyNext, agency
  <2>2. CASE UNCHANGED sites
    BY <2>2 DEF sites, SiteInv, SiteType, MakesInv, FreshInv, RowsInv, Makes, Proved, Dated, Later,
                OnePrimary, Inserted
  <2>3. CASE Tenancy!Next
    BY <2>3, DomainSteps, TenantSteps, MergeKeeps, RollbackKeeps, RecordKeeps DEF Tenancy!Next
  <2> QED  BY <2>1, <2>2, <2>3
<1>3. SiteInv => Tenancy!SitesAreKept
  <2> SUFFICES ASSUME SiteInv PROVE Tenancy!SitesAreKept  OBVIOUS
  <2>1. ASSUME ~crossed  PROVE Cardinality({d \in Tenancy!Registered : domain[d].primary}) = 1
    <3>1. PICK p \in Domains : \A d \in Domains : domain[d] # Nothing /\ domain[d].primary <=> d = p
      BY <2>1 DEF SiteInv, RowsInv, OnePrimary
    <3>2. {d \in Tenancy!Registered : domain[d].primary} = {p}  BY <3>1 DEF Tenancy!Registered
    <3> QED  BY <3>2, FS_Singleton
  <2>2. \A S : Tenancy!Cardinality(S) = Cardinality(S)  BY DEF Tenancy!Cardinality, Cardinality
  <2>3. \A d \in Tenancy!Registered : domain[d].status = "verified" => domain[d].id \in proven /\ domain[d].stamped
    BY DEF SiteInv, RowsInv, Proved, Tenancy!Registered
  <2>4. ~crossed => settings = accepted  BY DEF SiteInv, RowsInv
  <2> QED  BY <2>1, <2>2, <2>3, <2>4 DEF Tenancy!SitesAreKept
<1> QED  BY <1>1, <1>2, <1>3, PTL DEF AgencySpec

-----------------------------------------------------------------------------
(* Daily figures.  A run alone at work holds, of the day it knows as yesterday, *)
(* what is true of it until something changes, which makes it stale; no run is  *)
(* early enough to overwrite that day as its today.  The months from today's to *)
(* the last that maintenance provided for have their partitions.             *)

Tally == [views : Nat, won : Nat]
Counting == UNION {[dates -> Tally] : dates \in SUBSET Figures!Days}
Night == [now : Figures!Days, seen : Counting \cup {Nothing}]
FigureAssumption ==
  /\ MaxDay \in Nat /\ PARTITION_LOOKAHEAD_MONTHS \in Nat
  /\ MonthDays \in Nat \ {0} /\ RAW_RETENTION_DAYS \in Nat \ {0}
  /\ Nothing \notin Counting \cup Night

Exact(d) == [views |-> ingested[d], won |-> won[d]]
Seen(w) == rollup[w] # Nothing /\ rollup[w].seen # Nothing

FigureType ==
  /\ day \in Figures!Days /\ ahead \in Nat
  /\ events \in [Figures!Days -> Nat] /\ ingested \in [Figures!Days -> Nat]
  /\ won \in [Figures!Days -> Nat] /\ hadWon \in [Figures!Days -> SUBSET Nat] /\ figures \in [Figures!Days -> Tally]
  /\ visit \in [Visits -> Figures!Days \cup {Nothing}]
  /\ DOMAIN rollup = Runs /\ rollup = [w \in Runs |-> rollup[w]]
  /\ counted \subseteq Figures!Days /\ overlapped \in BOOLEAN

(* Nothing is counted that did not happen.                                   *)
BoundedInv ==
  \A d \in Figures!Days :
    /\ events[d] <= ingested[d] /\ figures[d].views <= ingested[d]
    /\ won[d] \in hadWon[d] /\ figures[d].won \in hadWon[d]
Working(run) ==
  /\ run = [now |-> run.now, seen |-> run.seen]
  /\ run.now \in Figures!Days /\ run.now <= day /\ day + 1 <= run.now + RAW_RETENTION_DAYS
  /\ run.seen # Nothing =>
       /\ run.seen \in [Figures!Dates(run.now) -> Tally]
       /\ \A d \in Figures!Dates(run.now) :
            run.seen[d].views <= ingested[d] /\ run.seen[d].won \in hadWon[d]
RunInv == \A w \in Runs : rollup[w] # Nothing => Working(rollup[w])
AloneInv ==
  ~overlapped =>
    /\ \A w, x \in Runs : rollup[w] # Nothing /\ rollup[x] # Nothing => w = x
    /\ \A w \in Runs, d \in Figures!Days :
         /\ rollup[w] # Nothing /\ d \in counted => d + 1 <= rollup[w].now
         /\ Seen(w) /\ d + 1 = rollup[w].now /\ d \notin stale => rollup[w].seen[d] = Exact(d)
    /\ \A d \in counted \ stale :
         figures[d] = Exact(d) \/ \E w \in Runs : Seen(w) /\ d + 1 = rollup[w].now
CountedInv == \A d \in counted : d + 1 <= day
EventsInv ==
  /\ \A d \in Figures!Days : d + RAW_RETENTION_DAYS >= day => events[d] = ingested[d]
  /\ \A m \in Figures!Month(day)..ahead : m \in partition
  /\ \A refusal \in lost : Figures!Month(refusal.day) > refusal.ahead
FigureInv == FigureType /\ BoundedInv /\ RunInv /\ AloneInv /\ CountedInv /\ EventsInv

(* The month of a day is the one it lies in, and months follow one another.    *)
LEMMA MonthFacts ==
  ASSUME FigureAssumption, NEW d \in Nat
  PROVE  /\ Figures!Month(d) \in Nat /\ d < (Figures!Month(d) + 1) * MonthDays
         /\ \A e \in Nat : d <= e => Figures!Month(d) <= Figures!Month(e)
         /\ \A m \in Nat : Figures!Month(d) <= m => d < (m + 1) * MonthDays
<1>1. \A e \in Nat : /\ e \div MonthDays \in Nat /\ (e \div MonthDays) * MonthDays <= e
                     /\ e < (e \div MonthDays + 1) * MonthDays
  BY DEF FigureAssumption
<1>2. \A a, b \in Nat : a <= b => a * MonthDays <= b * MonthDays  BY DEF FigureAssumption
<1>3. ASSUME NEW e \in Nat, d <= e  PROVE d \div MonthDays <= e \div MonthDays
  <2> DEFINE a == d \div MonthDays
             b == e \div MonthDays
  <2>1. a \in Nat /\ b \in Nat /\ a * MonthDays <= d /\ e < (b + 1) * MonthDays  BY <1>1
  <2> HIDE DEF a, b
  <2>2. a * MonthDays \in Nat /\ (b + 1) * MonthDays \in Nat  BY <2>1 DEF FigureAssumption
  <2>3. ASSUME b + 1 <= a  PROVE FALSE
    <3>1. (b + 1) * MonthDays <= a * MonthDays  BY <1>2, <2>1, <2>3
    <3> QED  BY <1>3, <2>1, <2>2, <3>1
  <2>4. a <= b  BY <2>1, <2>3
  <2> QED  BY <2>4 DEF a, b
<1>4. ASSUME NEW m \in Nat, d \div MonthDays <= m  PROVE d < (m + 1) * MonthDays
  <2> DEFINE a == d \div MonthDays
  <2>1. a \in Nat /\ d < (a + 1) * MonthDays  BY <1>1
  <2> HIDE DEF a
  <2>2. (a + 1) * MonthDays <= (m + 1) * MonthDays  BY <1>2, <1>4, <2>1 DEF a
  <2>3. (a + 1) * MonthDays \in Nat /\ (m + 1) * MonthDays \in Nat  BY <2>1 DEF FigureAssumption
  <2> QED  BY <2>1, <2>2, <2>3
<1> QED  BY <1>1, <1>3, <1>4 DEF Figures!Month

(* What the visitors and the leads do: days change, and are stale if they do.   *)
LEMMA ChangesKeep ==
  ASSUME FigureAssumption, FigureInv,
         events' \in [Figures!Days -> Nat], ingested' \in [Figures!Days -> Nat],
         won' \in [Figures!Days -> Nat], hadWon' \in [Figures!Days -> SUBSET Nat], visit' \in [Visits -> Figures!Days \cup {Nothing}],
         \A d \in Figures!Days :
           /\ ingested[d] <= ingested'[d] /\ hadWon[d] \subseteq hadWon'[d] /\ won'[d] \in hadWon'[d]
           /\ events'[d] <= ingested'[d]
           /\ d + RAW_RETENTION_DAYS >= day => events'[d] = ingested'[d]
           /\ d \notin stale' => ingested'[d] = ingested[d] /\ won'[d] = won[d],
         stale \subseteq stale',
         \A refusal \in lost' : Figures!Month(refusal.day) > refusal.ahead,
         UNCHANGED <<day, partition, figures, rollup, counted, overlapped, ahead>>
  PROVE  FigureInv'
<1> USE DEF FigureInv
<1>1. Figures!Days \subseteq Nat  BY DEF Figures!Days
<1>2. FigureType'  BY DEF FigureType
<1>3. ASSUME NEW d \in Figures!Days
      PROVE  /\ ingested[d] \in Nat /\ ingested'[d] \in Nat /\ won[d] \in Nat /\ won'[d] \in Nat
             /\ figures[d] \in Tally
             /\ ingested[d] <= ingested'[d] /\ hadWon[d] \subseteq hadWon'[d] /\ won'[d] \in hadWon'[d]
  BY DEF FigureType
<1>4. BoundedInv'  BY <1>3 DEF BoundedInv, Tally
<1>5. RunInv'
  <2> SUFFICES ASSUME NEW w \in Runs, rollup[w] # Nothing, rollup[w].seen # Nothing,
                      NEW d \in Figures!Dates(rollup[w].now)
               PROVE  rollup[w].seen[d].views <= ingested'[d] /\ rollup[w].seen[d].won \in hadWon'[d]
    BY DEF RunInv, Working, Figures!Dates
  <2>1. d \in Figures!Days  BY DEF Figures!Dates
  <2>2. rollup[w].seen[d] \in Tally /\ rollup[w].seen[d].views <= ingested[d] /\ rollup[w].seen[d].won \in hadWon[d]
    BY DEF RunInv, Working
  <2> QED  BY <1>3, <2>1, <2>2 DEF Tally
<1>6. \A d \in Figures!Days : d \notin stale' => d \notin stale /\ Exact(d)' = Exact(d)  BY DEF Exact
<1>7. \A w \in Runs : Seen(w)' <=> Seen(w)  BY DEF Seen
<1>8. AloneInv'
  <2> SUFFICES ASSUME ~overlapped PROVE AloneInv'  BY DEF AloneInv
  <2>1. \A w \in Runs, d \in Figures!Days :
          Seen(w) /\ d + 1 = rollup[w].now /\ d \notin stale' => rollup[w].seen[d] = Exact(d)'
    BY <1>6 DEF AloneInv
  <2>2. \A d \in counted \ stale' :
          figures[d] = Exact(d)' \/ \E w \in Runs : Seen(w) /\ d + 1 = rollup[w].now
    BY <1>6 DEF AloneInv, FigureType
  <2> QED  BY <1>7, <2>1, <2>2 DEF AloneInv
<1>9. CountedInv'  BY DEF CountedInv
<1>10. EventsInv'  BY DEF EventsInv, Figures!Month
<1> QED  BY <1>2, <1>4, <1>5, <1>8, <1>9, <1>10

LEMMA VisitorSteps ==
  ASSUME FigureAssumption, FigureInv,
         \/ \E granted \in BOOLEAN : Figures!RecordConsent(granted)
         \/ \E v \in Visits : Figures!Ingest(v) \/ Figures!CommitIngest(v)
         \/ \E d \in Figures!Days, wins \in BOOLEAN : Figures!TransitionStage(d, wins)
  PROVE  FigureInv'
<1>1. /\ FigureType /\ Figures!Days \subseteq Nat /\ RAW_RETENTION_DAYS \in Nat
      /\ \A d \in Figures!Days : /\ events[d] \in Nat /\ ingested[d] \in Nat /\ won[d] \in Nat
                                 /\ events[d] <= ingested[d] /\ won[d] \in hadWon[d]
                                 /\ d + RAW_RETENTION_DAYS >= day => events[d] = ingested[d]
      /\ \A refusal \in lost : Figures!Month(refusal.day) > refusal.ahead
  BY DEF FigureInv, FigureType, BoundedInv, EventsInv, FigureAssumption, Figures!Days
<1>2. ASSUME NEW granted \in BOOLEAN, Figures!RecordConsent(granted)  PROVE FigureInv'
  <2>1. UNCHANGED <<day, partition, events, won, figures, visit, rollup,
                    ingested, hadWon, counted, stale, overlapped, ahead, lost>>
    BY <1>2 DEF Figures!RecordConsent, Figures!history
  <2> QED  BY <1>1, <2>1, ChangesKeep DEF FigureType
<1>3. ASSUME NEW v \in Visits, Figures!Ingest(v)  PROVE FigureInv'
  <2>1. UNCHANGED <<day, partition, events, won, figures, rollup, ingested, hadWon, counted, stale, overlapped, ahead>>
    BY <1>3 DEF Figures!Ingest
  <2>2. visit' \in [Visits -> Figures!Days \cup {Nothing}]  BY <1>1, <1>3 DEF Figures!Ingest, FigureType
  <2>3. \A refusal \in lost' : Figures!Month(refusal.day) > refusal.ahead
    <3>1. CASE lost' = lost  BY <1>1, <3>1
    <3>2. CASE Figures!Month(day) \notin partition /\ lost' = lost \cup {[day |-> day, ahead |-> ahead]}
      <4>1. day \in Nat /\ ahead \in Nat  BY <1>1 DEF FigureType
      <4>2. Figures!Month(day) \in Nat  BY <4>1, MonthFacts
      <4>3. Figures!Month(day) > ahead  BY <3>2, <4>1, <4>2 DEF FigureInv, EventsInv
      <4> QED  BY <1>1, <3>2, <4>3
    <3> QED  BY <1>3, <3>1, <3>2 DEF Figures!Ingest
  <2> QED  BY <1>1, <2>1, <2>2, <2>3, ChangesKeep DEF FigureType
<1>4. ASSUME NEW v \in Visits, Figures!CommitIngest(v)  PROVE FigureInv'
  <2>1. PICK d \in Figures!Days : d = visit[v]  BY <1>1, <1>4 DEF Figures!CommitIngest, FigureType
  <2>2. /\ events' = [events EXCEPT ![d] = @ + 1] /\ ingested' = [ingested EXCEPT ![d] = @ + 1]
        /\ stale' = stale \cup {d} /\ visit' = [visit EXCEPT ![v] = Nothing]
        /\ UNCHANGED <<day, partition, won, figures, rollup, hadWon, counted, overlapped, ahead, lost>>
    BY <1>4, <2>1 DEF Figures!CommitIngest
  <2>3. /\ events' \in [Figures!Days -> Nat] /\ ingested' \in [Figures!Days -> Nat]
        /\ visit' \in [Visits -> Figures!Days \cup {Nothing}]
    BY <1>1, <2>2 DEF FigureType
  <2>4. \A e \in Figures!Days : /\ events'[e] = IF e = d THEN events[e] + 1 ELSE events[e]
                                /\ ingested'[e] = IF e = d THEN ingested[e] + 1 ELSE ingested[e]
    BY <1>1, <2>2 DEF FigureType
  <2>5. \A e \in Figures!Days :
          /\ ingested[e] <= ingested'[e] /\ hadWon[e] \subseteq hadWon'[e] /\ won'[e] \in hadWon'[e]
          /\ events'[e] <= ingested'[e]
          /\ e + RAW_RETENTION_DAYS >= day => events'[e] = ingested'[e]
          /\ e \notin stale' => ingested'[e] = ingested[e] /\ won'[e] = won[e]
    BY <1>1, <2>2, <2>4
  <2> QED  BY <1>1, <2>2, <2>3, <2>5, ChangesKeep DEF FigureType
<1>5. ASSUME NEW d \in Figures!Days, NEW wins \in BOOLEAN, Figures!TransitionStage(d, wins)  PROVE FigureInv'
  <2> DEFINE now == IF wins THEN won[d] + 1 ELSE won[d] - 1
  <2>1. /\ wins \/ won[d] > 0
        /\ won' = [won EXCEPT ![d] = now] /\ stale' = stale \cup {d}
        /\ hadWon' = [hadWon EXCEPT ![d] = @ \cup {won'[d]}]
        /\ UNCHANGED <<day, partition, events, figures, visit, rollup,
                       ingested, counted, overlapped, ahead, lost>>
    BY <1>1, <1>5 DEF Figures!TransitionStage, FigureType
  <2>2. now \in Nat  BY <1>1, <2>1
  <2> HIDE DEF now
  <2>3. won' \in [Figures!Days -> Nat] /\ \A e \in Figures!Days : won'[e] = IF e = d THEN now ELSE won[e]
    BY <1>1, <2>1, <2>2 DEF FigureType
  <2>4. /\ hadWon' \in [Figures!Days -> SUBSET Nat]
        /\ \A e \in Figures!Days : hadWon'[e] = IF e = d THEN hadWon[e] \cup {now} ELSE hadWon[e]
    BY <1>1, <2>1, <2>2, <2>3 DEF FigureType
  <2>5. \A e \in Figures!Days :
          /\ ingested[e] <= ingested'[e] /\ hadWon[e] \subseteq hadWon'[e] /\ won'[e] \in hadWon'[e]
          /\ events'[e] <= ingested'[e]
          /\ e + RAW_RETENTION_DAYS >= day => events'[e] = ingested'[e]
          /\ e \notin stale' => ingested'[e] = ingested[e] /\ won'[e] = won[e]
    BY <1>1, <2>1, <2>3, <2>4
  <2> QED  BY <1>1, <2>1, <2>3, <2>4, <2>5, ChangesKeep DEF FigureType
<1> QED  BY <1>2, <1>3, <1>4, <1>5

(* The calendar and the maintenance of the partitions.                       *)
LEMMA CalendarSteps ==
  ASSUME FigureAssumption, FigureInv,
         Figures!Midnight \/ Figures!EnsurePartitions \/ Figures!PruneRawEvents
  PROVE  FigureInv'
<1> USE DEF FigureInv
<1>1. /\ day \in Nat /\ ahead \in Nat /\ RAW_RETENTION_DAYS \in Nat /\ MonthDays \in Nat /\ MaxDay \in Nat
      /\ PARTITION_LOOKAHEAD_MONTHS \in Nat /\ Figures!Days \subseteq Nat /\ Figures!Month(day) \in Nat
      /\ \A d \in Figures!Days : events[d] \in Nat /\ ingested[d] \in Nat
  BY MonthFacts DEF FigureType, FigureAssumption, Figures!Days
<1>2. ASSUME Figures!Midnight  PROVE FigureInv'
  <2>1. /\ day < MaxDay /\ day' = day + 1
        /\ \A w \in Runs : rollup[w] # Nothing => day' <= rollup[w].now - 1 + RAW_RETENTION_DAYS
        /\ UNCHANGED <<partition, events, won, figures, visit, rollup, ingested, hadWon, counted, stale, overlapped,
                       ahead, lost>>
    BY <1>2 DEF Figures!Midnight, Figures!history
  <2>2. FigureType'
    <3>1. day' \in Figures!Days  BY <1>1, <2>1 DEF Figures!Days
    <3> QED  BY <2>1, <3>1 DEF FigureType
  <2>3. BoundedInv'  BY <2>1 DEF BoundedInv
  <2>4. RunInv'
    <3> SUFFICES ASSUME NEW w \in Runs, rollup[w] # Nothing
                 PROVE  rollup[w].now <= day' /\ day' + 1 <= rollup[w].now + RAW_RETENTION_DAYS
      BY <2>1 DEF RunInv, Working, Figures!Dates
    <3>1. rollup[w].now \in Nat /\ rollup[w].now <= day  BY <1>1 DEF RunInv, Working
    <3>2. day' <= rollup[w].now - 1 + RAW_RETENTION_DAYS  BY <2>1
    <3> QED  BY <1>1, <2>1, <3>1, <3>2
  <2>5. AloneInv'  BY <2>1 DEF AloneInv, Seen, Exact
  <2>6. CountedInv'
    <3>1. \A d \in counted : d \in Nat /\ d + 1 <= day  BY <1>1 DEF CountedInv, FigureType
    <3> QED  BY <1>1, <2>1, <3>1 DEF CountedInv
  <2>7. EventsInv'
    <3>1. \A d \in Figures!Days : d + RAW_RETENTION_DAYS >= day' => events[d] = ingested[d]
      BY <1>1, <2>1 DEF EventsInv
    <3>2. \A m \in Figures!Month(day')..ahead : m \in partition
      <4>1. day' \in Nat /\ day <= day'  BY <1>1, <2>1
      <4>2. Figures!Month(day') \in Nat /\ Figures!Month(day) <= Figures!Month(day')  BY <1>1, <4>1, MonthFacts
      <4>3. \A m \in Figures!Month(day')..ahead : m \in Figures!Month(day)..ahead  BY <1>1, <4>2
      <4> QED  BY <4>3 DEF EventsInv
    <3>3. \A refusal \in lost : Figures!Month(refusal.day) > refusal.ahead  BY DEF EventsInv
    <3> QED  BY <2>1, <3>1, <3>2, <3>3 DEF EventsInv, Figures!Month
  <2> QED  BY <2>2, <2>3, <2>4, <2>5, <2>6, <2>7
<1>3. ASSUME Figures!EnsurePartitions  PROVE FigureInv'
  <2>1. /\ partition' = partition \cup Figures!Month(day)..(Figures!Month(day) + PARTITION_LOOKAHEAD_MONTHS)
        /\ ahead' = Figures!Month(day) + PARTITION_LOOKAHEAD_MONTHS
        /\ UNCHANGED <<day, events, won, figures, visit, rollup, ingested, hadWon, counted, stale, overlapped, lost>>
    BY <1>3 DEF Figures!EnsurePartitions
  <2>2. FigureType'  BY <1>1, <2>1 DEF FigureType
  <2>3. BoundedInv' /\ RunInv' /\ CountedInv'
    BY <2>1 DEF BoundedInv, RunInv, Working, CountedInv, Figures!Dates
  <2>4. AloneInv'  BY <2>1 DEF AloneInv, Seen, Exact
  <2>5. EventsInv'  BY <2>1 DEF EventsInv, Figures!Month
  <2> QED  BY <2>2, <2>3, <2>4, <2>5
<1>4. ASSUME Figures!PruneRawEvents  PROVE FigureInv'
  <2>1. /\ partition' = {m \in partition : ~Figures!Old(m)}
        /\ events' = [d \in Figures!Days |->
                        IF Figures!Month(d) \in partition /\ Figures!Old(Figures!Month(d))
                        THEN 0 ELSE events[d]]
        /\ UNCHANGED <<day, won, figures, visit, rollup, ingested, hadWon, counted, stale, overlapped, ahead, lost>>
    BY <1>4 DEF Figures!PruneRawEvents, Figures!history
  <2>2. \A d \in Figures!Days : events'[d] = 0 \/ events'[d] = events[d]  BY <2>1
  <2>3. events' \in [Figures!Days -> Nat]  BY <1>1, <2>1
  <2>4. FigureType'  BY <2>1, <2>3 DEF FigureType
  <2>5. BoundedInv'  BY <1>1, <2>1, <2>2 DEF BoundedInv
  <2>6. RunInv' /\ CountedInv'  BY <2>1 DEF RunInv, Working, CountedInv, Figures!Dates
  <2>7. AloneInv'  BY <2>1 DEF AloneInv, Seen, Exact
  <2>8. ASSUME NEW d \in Figures!Days, d + RAW_RETENTION_DAYS >= day  PROVE events'[d] = ingested'[d]
    <3>1. d \in Nat /\ Figures!Month(d) \in Nat /\ d < (Figures!Month(d) + 1) * MonthDays
      BY <1>1, MonthFacts
    <3>2. (Figures!Month(d) + 1) * MonthDays \in Nat  BY <1>1, <3>1
    <3>3. ~Figures!Old(Figures!Month(d))  BY <1>1, <2>8, <3>1, <3>2 DEF Figures!Old
    <3> QED  BY <2>1, <2>8, <3>3 DEF EventsInv
  <2>9. ASSUME NEW m \in Figures!Month(day)..ahead  PROVE m \in partition'
    <3>1. m \in Nat /\ Figures!Month(day) <= m  BY <1>1
    <3>2. day < (m + 1) * MonthDays  BY <1>1, <3>1, MonthFacts
    <3>3. (m + 1) * MonthDays \in Nat  BY <1>1, <3>1
    <3>4. ~Figures!Old(m)  BY <1>1, <3>2, <3>3 DEF Figures!Old
    <3> QED  BY <2>1, <3>4 DEF EventsInv
  <2>10. EventsInv'
    <3>1. Figures!Month(day)' = Figures!Month(day) /\ ahead' = ahead /\ day' = day /\ lost' = lost
      BY <2>1 DEF Figures!Month
    <3>2. \A refusal \in lost' : Figures!Month(refusal.day) > refusal.ahead  BY <3>1 DEF EventsInv
    <3> QED  BY <2>8, <2>9, <3>1, <3>2 DEF EventsInv, Figures!Month
  <2> QED  BY <2>4, <2>5, <2>6, <2>7, <2>10
<1> QED  BY <1>2, <1>3, <1>4

(* The nightly run, up to what it counts.                                    *)
LEMMA StartKeeps ==
  ASSUME FigureAssumption, FigureInv, NEW w \in Runs, Figures!Start(w)  PROVE FigureInv'
<1> USE DEF FigureInv
<1> DEFINE run == [now |-> day, seen |-> Nothing]
<1>1. /\ rollup[w] = Nothing /\ rollup' = [rollup EXCEPT ![w] = run]
      /\ overlapped' = (overlapped \/ \E x \in Runs : rollup[x] # Nothing)
      /\ UNCHANGED <<day, partition, events, won, figures, visit, ingested, hadWon, counted, stale, ahead, lost>>
  BY DEF Figures!Start
<1>2. run.now = day /\ run.seen = Nothing /\ run = [now |-> run.now, seen |-> run.seen]  OBVIOUS
<1> HIDE DEF run
<1>3. \A x \in Runs : rollup'[x] = IF x = w THEN run ELSE rollup[x]  BY <1>1 DEF FigureType
<1>4. DOMAIN rollup' = Runs /\ rollup' = [x \in Runs |-> rollup'[x]]  BY <1>1 DEF FigureType
<1>5. overlapped' \in BOOLEAN  BY <1>1 DEF FigureType
<1>6. FigureType'  BY <1>1, <1>4, <1>5 DEF FigureType
<1>7. BoundedInv' /\ CountedInv'  BY <1>1 DEF BoundedInv, CountedInv
<1>8. RunInv'
  <2> SUFFICES ASSUME NEW x \in Runs, rollup'[x] # Nothing
               PROVE  Working(rollup[x])'
    BY DEF RunInv
  <2>1. CASE x = w
    <3>1. rollup'[x] = run  BY <1>3, <2>1
    <3>2. day \in Figures!Days /\ day \in Nat /\ RAW_RETENTION_DAYS \in Nat \ {0}
      BY DEF FigureType, FigureAssumption, Figures!Days
    <3> QED  BY <1>1, <1>2, <3>1, <3>2 DEF Working
  <2>2. CASE x # w
    <3>1. rollup'[x] = rollup[x] /\ rollup[x] # Nothing  BY <1>3, <2>2
    <3>2. Working(rollup[x])  BY <3>1 DEF RunInv
    <3> QED  BY <1>1, <3>1, <3>2 DEF Working, Figures!Dates
  <2> QED  BY <2>1, <2>2
<1>9. \A x \in Runs : Seen(x)' <=> Seen(x)  BY <1>1, <1>2, <1>3 DEF Seen
<1>10. AloneInv'
  <2> SUFFICES ASSUME ~overlapped' PROVE AloneInv'  BY DEF AloneInv
  <2>1. ~overlapped /\ \A x \in Runs : rollup[x] = Nothing  BY <1>1, <1>5 DEF FigureType
  <2>2. \A x \in Runs : ~Seen(x) /\ (rollup'[x] # Nothing => x = w)  BY <1>3, <2>1 DEF Seen
  <2>3. \A d \in counted : d + 1 <= run.now  BY <1>2 DEF CountedInv
  <2>4. rollup'[w] = run  BY <1>3
  <2>5. \A d \in counted' \ stale' : figures'[d] = Exact(d)'
    BY <1>1, <2>1, <2>2 DEF AloneInv, Exact
  <2> QED  BY <1>1, <1>9, <2>2, <2>3, <2>4, <2>5 DEF AloneInv
<1>11. EventsInv'  BY <1>1 DEF EventsInv, Figures!Month
<1> QED  BY <1>6, <1>7, <1>8, <1>10, <1>11

LEMMA CountKeeps ==
  ASSUME FigureAssumption, FigureInv, NEW w \in Runs, Figures!Count(w)  PROVE FigureInv'
<1> USE DEF FigureInv
<1> DEFINE now == rollup[w].now
           seen == [d \in Figures!Dates(now) |-> [views |-> events[d], won |-> won[d]]]
           run == [rollup[w] EXCEPT !.seen = seen]
<1>1. /\ rollup[w] # Nothing /\ rollup[w].seen = Nothing
      /\ rollup' = [rollup EXCEPT ![w] = run] /\ stale' = stale \ {now - 1}
      /\ UNCHANGED <<day, partition, events, won, figures, visit, ingested, hadWon, counted, overlapped, ahead, lost>>
  BY DEF Figures!Count, Figures!Counts, FigureType
<1>2. /\ rollup[w] = [now |-> now, seen |-> rollup[w].seen]
      /\ now \in Figures!Days /\ now <= day /\ day + 1 <= now + RAW_RETENTION_DAYS
  BY <1>1 DEF RunInv, Working
<1>3. run.now = now /\ run.seen = seen /\ run = [now |-> run.now, seen |-> run.seen]
  <2>1. run = [now |-> now, seen |-> seen]  BY <1>2
  <2> QED  BY <2>1
<1>4. /\ Figures!Dates(now) \in SUBSET Figures!Days /\ Figures!Days \subseteq Nat /\ now \in Nat
      /\ \A d \in Figures!Days : /\ events[d] \in Nat /\ ingested[d] \in Nat /\ won[d] \in Nat
                                 /\ events[d] <= ingested[d] /\ won[d] \in hadWon[d]
  BY <1>2 DEF Figures!Dates, Figures!Days, FigureType, BoundedInv
<1>5. /\ seen \in [Figures!Dates(now) -> Tally]
      /\ \A d \in Figures!Dates(now) : /\ seen[d].views = events[d] /\ seen[d].won = won[d]
                                       /\ seen[d] = [views |-> events[d], won |-> won[d]]
  BY <1>4 DEF Tally
<1>6. seen \in Counting /\ seen # Nothing
  <2>1. seen \in Counting  BY <1>4, <1>5 DEF Counting
  <2> QED  BY <2>1 DEF FigureAssumption
<1> HIDE DEF run, seen
<1>7. \A x \in Runs : rollup'[x] = IF x = w THEN run ELSE rollup[x]  BY <1>1 DEF FigureType
<1>8. DOMAIN rollup' = Runs /\ rollup' = [x \in Runs |-> rollup'[x]]  BY <1>1 DEF FigureType
<1>9. FigureType'  BY <1>1, <1>8 DEF FigureType
<1>10. BoundedInv' /\ CountedInv'  BY <1>1 DEF BoundedInv, CountedInv
<1>11. RunInv'
  <2> SUFFICES ASSUME NEW x \in Runs, rollup'[x] # Nothing
               PROVE  Working(rollup[x])'
    BY DEF RunInv
  <2>1. CASE x = w
    <3>1. rollup'[x] = run  BY <1>7, <2>1
    <3>2. \A d \in Figures!Dates(now) : seen[d].views <= ingested[d] /\ seen[d].won \in hadWon[d]
      BY <1>4, <1>5
    <3>3. /\ run = [now |-> run.now, seen |-> run.seen] /\ run.now \in Figures!Days /\ run.now <= day
          /\ day + 1 <= run.now + RAW_RETENTION_DAYS /\ run.seen \in [Figures!Dates(run.now) -> Tally]
          /\ \A d \in Figures!Dates(run.now) : run.seen[d].views <= ingested[d] /\ run.seen[d].won \in hadWon[d]
      BY <1>2, <1>3, <1>5, <3>2
    <3> QED  BY <1>1, <3>1, <3>3 DEF Working, Figures!Dates
  <2>2. CASE x # w
    <3>1. rollup'[x] = rollup[x] /\ rollup[x] # Nothing  BY <1>7, <2>2
    <3>2. Working(rollup[x])  BY <3>1 DEF RunInv
    <3> QED  BY <1>1, <3>1, <3>2 DEF Working, Figures!Dates
  <2> QED  BY <2>1, <2>2
<1>12. \A x \in Runs : Seen(x)' <=> Seen(x) \/ x = w
  <2>1. run # Nothing
    <3>1. run \in Night  BY <1>2, <1>3, <1>6 DEF Night
    <3> QED  BY <3>1 DEF FigureAssumption
  <2> QED  BY <1>1, <1>3, <1>6, <1>7, <2>1 DEF Seen
<1>13. AloneInv'
  <2> SUFFICES ASSUME ~overlapped PROVE AloneInv'  BY <1>1 DEF AloneInv
  <2>1. \A x \in Runs : rollup[x] # Nothing => x = w  BY <1>1 DEF AloneInv
  <2>2. \A x \in Runs : rollup'[x] # Nothing => x = w  BY <1>7, <2>1
  <2>3. rollup'[w] = run /\ Seen(w)'  BY <1>7, <1>12
  <2>4. \A d \in Figures!Days : d \in counted => d + 1 <= run.now  BY <1>1, <1>3 DEF AloneInv
  <2>5. ASSUME NEW d \in Figures!Days, d + 1 = run.now  PROVE run.seen[d] = Exact(d)'
    <3>1. d \in Figures!Dates(now) /\ d \in Nat  BY <1>3, <1>4, <2>5 DEF Figures!Dates
    <3>2. d + RAW_RETENTION_DAYS >= day
      <4>1. d + 1 = now  BY <1>3, <2>5
      <4>2. day \in Nat /\ RAW_RETENTION_DAYS \in Nat
        BY <1>4 DEF FigureType, FigureAssumption
      <4> QED  BY <1>2, <3>1, <4>1, <4>2
    <3>3. events[d] = ingested[d]  BY <3>2 DEF EventsInv
    <3> QED  BY <1>1, <1>3, <1>5, <3>1, <3>3 DEF Exact
  <2>6. ASSUME NEW d \in counted' \ stale'
        PROVE  figures'[d] = Exact(d)' \/ \E x \in Runs : Seen(x)' /\ d + 1 = rollup'[x].now
    <3>1. d \in Figures!Days /\ d \in Nat  BY <1>1, <1>4, <2>6 DEF FigureType
    <3>2. CASE d + 1 = now  BY <1>3, <2>3, <3>2
    <3>3. CASE d + 1 # now
      <4>1. d # now - 1  BY <1>4, <3>1, <3>3
      <4>2. d \in counted \ stale  BY <1>1, <2>6, <4>1
      <4>3. \A x \in Runs : ~Seen(x)  BY <1>1, <2>1 DEF Seen
      <4> QED  BY <1>1, <4>2, <4>3 DEF AloneInv, Exact
    <3> QED  BY <3>2, <3>3
  <2> HIDE DEF now
  <2>7. \A x, y \in Runs : rollup'[x] # Nothing /\ rollup'[y] # Nothing => x = y  BY <2>2
  <2>8. ASSUME NEW x \in Runs, NEW d \in Figures!Days
        PROVE  /\ rollup'[x] # Nothing /\ d \in counted' => d + 1 <= rollup'[x].now
               /\ Seen(x)' /\ d + 1 = rollup'[x].now /\ d \notin stale' =>
                    rollup'[x].seen[d] = Exact(d)'
    <3>1. Seen(x)' => rollup'[x] # Nothing  BY DEF Seen
    <3> QED  BY <1>1, <2>2, <2>3, <2>4, <2>5, <3>1
  <2> QED  BY <2>6, <2>7, <2>8 DEF AloneInv
<1>14. EventsInv'  BY <1>1 DEF EventsInv, Figures!Month
<1> QED  BY <1>9, <1>10, <1>11, <1>13, <1>14

(* A run that ends, its figures written or not.                              *)
LEMMA CommitRollupKeeps ==
  ASSUME FigureAssumption, FigureInv, NEW w \in Runs, Figures!CommitRollup(w)  PROVE FigureInv'
<1> USE DEF FigureInv
<1> DEFINE now == rollup[w].now
           seen == rollup[w].seen
<1>1. /\ rollup[w] # Nothing /\ seen # Nothing
      /\ figures' = [d \in Figures!Days |->
           IF d \in Figures!Dates(now) THEN Figures!Upserted(d, seen[d]) ELSE figures[d]]
      /\ counted' = counted \cup {d \in Figures!Days : d + 1 = now}
      /\ rollup' = [rollup EXCEPT ![w] = Nothing]
      /\ UNCHANGED <<day, partition, events, won, visit, ingested, hadWon, stale, overlapped, ahead, lost>>
  BY DEF Figures!CommitRollup
<1>2. /\ now \in Figures!Days /\ now <= day
      /\ \A d \in Figures!Dates(now) :
           seen[d] \in Tally /\ seen[d].views <= ingested[d] /\ seen[d].won \in hadWon[d]
  BY <1>1 DEF RunInv, Working
<1>3. /\ Figures!Days \subseteq Nat /\ now \in Nat
      /\ \A d \in Figures!Days : ingested[d] \in Nat /\ won[d] \in Nat /\ figures[d] \in Tally
                                 /\ figures[d].views <= ingested[d] /\ figures[d].won \in hadWon[d]
  BY <1>2 DEF Figures!Days, FigureType, BoundedInv
<1>4. ASSUME NEW d \in Figures!Days
      PROVE  /\ figures'[d] \in Tally /\ figures'[d].views <= ingested[d] /\ figures'[d].won \in hadWon[d]
             /\ d \notin Figures!Dates(now) => figures'[d] = figures[d]
             /\ d \in Figures!Dates(now) /\ seen[d] = Exact(d) => figures'[d] = Exact(d)
  <2>1. CASE d \notin Figures!Dates(now)
    <3>1. figures'[d] = figures[d]  BY <1>1, <2>1
    <3> QED  BY <1>3, <2>1, <3>1
  <2>2. CASE d \in Figures!Dates(now)
    <3> DEFINE new == [views |-> IF seen[d].views = 0 THEN figures[d].views ELSE seen[d].views,
                       won |-> seen[d].won]
    <3>1. figures'[d] = new  BY <1>1, <2>2 DEF Figures!Upserted
    <3>2. /\ new.views = IF seen[d].views = 0 THEN figures[d].views ELSE seen[d].views
          /\ new.won = seen[d].won
      OBVIOUS
    <3>3. new.views \in Nat /\ new.won \in Nat /\ new.views <= ingested[d] /\ new.won \in hadWon[d]
      BY <1>2, <1>3, <2>2, <3>2 DEF Tally
    <3>4. new = [views |-> new.views, won |-> new.won]  OBVIOUS
    <3>5. ASSUME seen[d] = Exact(d)  PROVE new = Exact(d)
      <4>1. seen[d].views = ingested[d] /\ seen[d].won = won[d]  BY <3>5 DEF Exact
      <4>2. new.views = ingested[d]
        <5>1. figures[d].views \in Nat  BY <1>3 DEF Tally
        <5> QED  BY <1>3, <3>2, <4>1, <5>1
      <4> QED  BY <3>2, <4>1, <4>2 DEF Exact
    <3> HIDE DEF new
    <3>6. new \in Tally  BY <3>3, <3>4 DEF Tally
    <3> QED  BY <2>2, <3>1, <3>3, <3>5, <3>6
  <2> QED  BY <2>1, <2>2
<1>5. \A x \in Runs : rollup'[x] # Nothing => x # w /\ rollup'[x] = rollup[x]  BY <1>1 DEF FigureType
<1>6. FigureType'
  <2>1. figures' \in [Figures!Days -> Tally]  BY <1>1, <1>4
  <2>2. DOMAIN rollup' = Runs /\ rollup' = [x \in Runs |-> rollup'[x]]  BY <1>1 DEF FigureType
  <2>3. counted' \subseteq Figures!Days  BY <1>1 DEF FigureType
  <2> QED  BY <1>1, <2>1, <2>2, <2>3 DEF FigureType
<1>7. BoundedInv'  BY <1>1, <1>4 DEF BoundedInv
<1>8. RunInv'
  <2> SUFFICES ASSUME NEW x \in Runs, rollup'[x] # Nothing  PROVE Working(rollup[x])'  BY DEF RunInv
  <2>1. rollup'[x] = rollup[x] /\ rollup[x] # Nothing  BY <1>5
  <2>2. Working(rollup[x])  BY <2>1 DEF RunInv
  <2> QED  BY <1>1, <2>1, <2>2 DEF Working, Figures!Dates
<1>9. CountedInv'  BY <1>1, <1>2 DEF CountedInv
<1>10. AloneInv'
  <2> SUFFICES ASSUME ~overlapped PROVE AloneInv'  BY <1>1 DEF AloneInv
  <2>1. \A x \in Runs : rollup[x] # Nothing => x = w  BY <1>1 DEF AloneInv
  <2>2. \A x \in Runs : rollup'[x] = Nothing  BY <1>5, <2>1
  <2>3. ASSUME NEW d \in counted' \ stale'  PROVE figures'[d] = Exact(d)'
    <3>1. d \in Figures!Days /\ d \in Nat /\ d \notin stale  BY <1>1, <1>3, <2>3 DEF FigureType
    <3>2. Exact(d)' = Exact(d)  BY <1>1 DEF Exact
    <3>3. CASE d + 1 = now
      <4>1. d \in Figures!Dates(now)  BY <3>1, <3>3 DEF Figures!Dates
      <4>2. Seen(w)  BY <1>1 DEF Seen
      <4>3. seen[d] = Exact(d)  BY <3>1, <3>3, <4>2 DEF AloneInv
      <4> QED  BY <1>4, <3>1, <3>2, <4>1, <4>3
    <3>4. CASE d + 1 # now
      <4>1. d \in counted  BY <1>1, <2>3, <3>4
      <4>2. d + 1 <= now  BY <1>1, <3>1, <4>1 DEF AloneInv
      <4>3. d \notin Figures!Dates(now)  BY <1>3, <3>1, <3>4, <4>2 DEF Figures!Dates
      <4>4. \A x \in Runs : Seen(x) => x = w  BY <2>1 DEF Seen
      <4>5. figures[d] = Exact(d)  BY <3>1, <3>4, <4>1, <4>4 DEF AloneInv
      <4> QED  BY <1>4, <3>1, <3>2, <4>3, <4>5
    <3> QED  BY <3>3, <3>4
  <2>4. \A x \in Runs : ~Seen(x)'  BY <2>2 DEF Seen
  <2> QED  BY <2>2, <2>3, <2>4 DEF AloneInv
<1>11. EventsInv'  BY <1>1 DEF EventsInv, Figures!Month
<1> QED  BY <1>6, <1>7, <1>8, <1>9, <1>10, <1>11

LEMMA FailRollupKeeps ==
  ASSUME FigureAssumption, FigureInv, NEW w \in Runs, Figures!FailRollup(w)  PROVE FigureInv'
<1> USE DEF FigureInv
<1>1. /\ rollup[w] # Nothing /\ rollup' = [rollup EXCEPT ![w] = Nothing]
      /\ stale' = IF rollup[w].seen = Nothing THEN stale ELSE stale \cup Figures!Dates(rollup[w].now)
      /\ UNCHANGED <<day, partition, events, won, figures, visit, ingested, hadWon, counted, overlapped, ahead, lost>>
  BY DEF Figures!FailRollup
<1>2. \A x \in Runs : rollup'[x] # Nothing => x # w /\ rollup'[x] = rollup[x]  BY <1>1 DEF FigureType
<1>3. FigureType'
  <2>1. DOMAIN rollup' = Runs /\ rollup' = [x \in Runs |-> rollup'[x]]  BY <1>1 DEF FigureType
  <2> QED  BY <1>1, <2>1 DEF FigureType
<1>4. BoundedInv' /\ CountedInv'  BY <1>1 DEF BoundedInv, CountedInv
<1>5. RunInv'
  <2> SUFFICES ASSUME NEW x \in Runs, rollup'[x] # Nothing  PROVE Working(rollup[x])'  BY DEF RunInv
  <2>1. rollup'[x] = rollup[x] /\ rollup[x] # Nothing  BY <1>2
  <2>2. Working(rollup[x])  BY <2>1 DEF RunInv
  <2> QED  BY <1>1, <2>1, <2>2 DEF Working, Figures!Dates
<1>6. AloneInv'
  <2> SUFFICES ASSUME ~overlapped PROVE AloneInv'  BY <1>1 DEF AloneInv
  <2>1. \A x \in Runs : rollup[x] # Nothing => x = w  BY <1>1 DEF AloneInv
  <2>2. \A x \in Runs : rollup'[x] = Nothing  BY <1>2, <2>1
  <2>3. ASSUME NEW d \in counted' \ stale'  PROVE figures'[d] = Exact(d)'
    <3>1. d \in counted \ stale /\ d \in Figures!Days  BY <1>1, <2>3 DEF FigureType
    <3>2. ASSUME NEW x \in Runs, Seen(x), d + 1 = rollup[x].now  PROVE FALSE
      <4>1. x = w /\ rollup[w].seen # Nothing  BY <2>1, <3>2 DEF Seen
      <4>2. d \in Figures!Dates(rollup[w].now)  BY <3>1, <3>2, <4>1 DEF Figures!Dates
      <4> QED  BY <1>1, <2>3, <4>1, <4>2
    <3>3. figures[d] = Exact(d)  BY <3>1, <3>2 DEF AloneInv
    <3> QED  BY <1>1, <3>3 DEF Exact
  <2>4. \A x \in Runs : ~Seen(x)'  BY <2>2 DEF Seen
  <2> QED  BY <2>2, <2>3, <2>4 DEF AloneInv
<1>7. EventsInv'  BY <1>1 DEF EventsInv, Figures!Month
<1> QED  BY <1>3, <1>4, <1>5, <1>6, <1>7

(* The figures of a day never exceed its events and are wins its leads had at   *)
(* some time; they are exact once the run of the day after has written them,    *)
(* unless runs overlapped or the day changed; raw events last as long as they   *)
(* are kept, and none is refused in a month that maintenance provided for       *)
(* (Analytics).                                                              *)
THEOREM FiguresSound ==
  ASSUME FigureAssumption PROVE AgencySpec => [](Figures!AnalyticsIsSound)
<1>1. AgencyInit => FigureInv
  <2> SUFFICES ASSUME AgencyInit PROVE FigureInv  OBVIOUS
  <2>1. /\ day = 0 /\ partition = {0, 1} /\ ahead = 1 /\ lost = {} /\ counted = {} /\ overlapped = FALSE
        /\ events = [d \in Figures!Days |-> 0] /\ won = [d \in Figures!Days |-> 0]
        /\ ingested = [d \in Figures!Days |-> 0] /\ hadWon = [d \in Figures!Days |-> {0}]
        /\ figures = [d \in Figures!Days |-> [views |-> 0, won |-> 0]]
        /\ visit = [v \in Visits |-> Nothing] /\ rollup = [w \in Runs |-> Nothing]
    BY DEF AgencyInit, Figures!Init
  <2>2. 0 \in Figures!Days  BY DEF FigureAssumption, Figures!Days
  <2>3. FigureType
    <3>1. hadWon \in [Figures!Days -> SUBSET Nat]
      <4>1. {0} \in SUBSET Nat  OBVIOUS
      <4> QED  BY <2>1, <4>1
    <3> QED  BY <2>1, <2>2, <3>1 DEF FigureType, Tally
  <2>4. BoundedInv  BY <2>1 DEF BoundedInv
  <2>5. RunInv /\ CountedInv /\ AloneInv  BY <2>1 DEF RunInv, Working, CountedInv, AloneInv, Seen
  <2>6. EventsInv
    <3>1. Figures!Month(day) \in Nat  BY <2>1, MonthFacts
    <3>2. \A m \in Figures!Month(day)..ahead : m \in partition  BY <2>1, <3>1
    <3> QED  BY <2>1, <3>2 DEF EventsInv
  <2> QED  BY <2>3, <2>4, <2>5, <2>6 DEF FigureInv
<1>2. FigureInv /\ [AgencyNext]_agency => FigureInv'
  <2> SUFFICES ASSUME FigureInv, [AgencyNext]_agency PROVE FigureInv'  OBVIOUS
  <2>1. [Figures!Next]_daily  BY DEF AgencyNext, agency
  <2>2. CASE UNCHANGED daily
    <3>1. /\ day' = day /\ partition' = partition /\ events' = events /\ won' = won /\ figures' = figures
          /\ visit' = visit /\ rollup' = rollup /\ ingested' = ingested /\ counted' = counted /\ hadWon' = hadWon
          /\ stale' = stale /\ overlapped' = overlapped /\ ahead' = ahead /\ lost' = lost
      BY <2>2 DEF daily
    <3>2. FigureType' /\ BoundedInv' /\ CountedInv'  BY <3>1 DEF FigureInv, FigureType, BoundedInv, CountedInv
    <3>3. RunInv'  BY <3>1 DEF FigureInv, RunInv, Working, Figures!Dates
    <3>4. AloneInv'  BY <3>1 DEF FigureInv, AloneInv, Seen, Exact
    <3>5. EventsInv'  BY <3>1 DEF FigureInv, EventsInv, Figures!Month
    <3> QED  BY <3>2, <3>3, <3>4, <3>5 DEF FigureInv
  <2>3. CASE Figures!Next
    BY <2>3, VisitorSteps, CalendarSteps, StartKeeps, CountKeeps, CommitRollupKeeps, FailRollupKeeps
    DEF Figures!Next
  <2> QED  BY <2>1, <2>2, <2>3
<1>3. FigureInv => Figures!AnalyticsIsSound
  <2> SUFFICES ASSUME FigureInv PROVE Figures!AnalyticsIsSound  OBVIOUS
  <2>1. ASSUME NEW d \in counted \ stale, ~overlapped, \A w \in Runs : rollup[w] = Nothing
        PROVE  figures[d] = [views |-> ingested[d], won |-> won[d]]
    BY <2>1 DEF FigureInv, AloneInv, Seen, Exact
  <2>2. Figures!FiguresAreExplained
    BY <2>1 DEF FigureInv, BoundedInv, Figures!FiguresAreExplained
  <2>3. Figures!RawEventsLast  BY DEF FigureInv, EventsInv, Figures!RawEventsLast
  <2> QED  BY <2>2, <2>3 DEF Figures!AnalyticsIsSound
<1> QED  BY <1>1, <1>2, <1>3, PTL DEF AgencySpec

-----------------------------------------------------------------------------
(***************************************************************************)
(* The schema.  That a version has one schema, however it was come by, is   *)
(* shown revision by revision: from a schema with the tables, policies and   *)
(* columns of the version before, each script runs through, and its opposite *)
(* leads back to the very same schema; but for 0023's, once a second factor  *)
(* is stored.  What is run one after another is composed by induction.       *)
(* Every key of the newest schema is lawful, which a deletion rests on: no   *)
(* key leads around in a circle, only a deal restricts whose user goes, and  *)
(* users go with their tenant only, when deals and consents have gone.       *)
(***************************************************************************)

LEMMA LeastNumber ==
  ASSUME NEW T \in SUBSET Nat, T # {}
  PROVE  \E n \in T : \A m \in T : n <= m
<1> DEFINE R == {p \in Nat \X Nat : p[1] < p[2]}
<1>1. IsWellFoundedOn(R, Nat)  BY NatLessThanWellFounded, Zenon DEF OpToRel
<1>2. \A x, y \in Nat : y < x => <<y, x>> \in R  BY DEF R
<1> HIDE DEF R
<1>3. PICK x \in T : \A y \in T : ~(<<y, x>> \in R)  BY <1>1, WFMin
<1>4. \A y \in T : ~(y < x)  BY <1>2, <1>3
<1> QED  BY <1>4

(* Numbers up to a bound, by induction: the failures have no least. *)
LEMMA UpTo ==
  ASSUME NEW m \in Nat, NEW T, 0 \in T, \A n \in 0..m : n < m /\ n \in T => n + 1 \in T
  PROVE  \A n \in 0..m : n \in T
<1> DEFINE F == {n \in 0..m : n \notin T}
<1> SUFFICES ASSUME F # {} PROVE FALSE  OBVIOUS
<1>1. F \in SUBSET Nat  OBVIOUS
<1>2. PICK n \in F : \A k \in F : n <= k  BY <1>1, LeastNumber
<1>3. n # 0 /\ n - 1 \in 0..m /\ n - 1 < m  BY <1>2
<1>4. n - 1 \notin F  BY <1>2, <1>3
<1> QED  BY <1>2, <1>3, <1>4

(* The schemas between the first m statements. *)
Course(f, s, e, a, m) == f = [n \in 0..m |-> IF n = 0 THEN s ELSE Tables!Try(f[n - 1], e, a[n])]

LEMMA ExecuteRec ==
  ASSUME NEW s, NEW e, NEW a, Len(a) \in Nat
  PROVE  \E f : Course(f, s, e, a, Len(a)) /\ Tables!Execute(s, e, a) = f[Len(a)]
<1> DEFINE Is(f, m) == f = [n \in 0..m |-> IF n = 0 THEN s ELSE Tables!Try(f[n - 1], e, a[n])]
           T == {m \in 0..Len(a) : \E f : Is(f, m)}
<1>1. 0 \in T
  <2>1. \E f : Is(f, 0)
    <3> WITNESS [n \in 0..0 |-> s]
    <3> QED  OBVIOUS
  <2> HIDE DEF Is
  <2> QED  BY <2>1
<1>2. ASSUME NEW m \in 0..Len(a), m < Len(a), m \in T
      PROVE  m + 1 \in T
  <2>1. PICK f : Is(f, m)  BY <1>2
  <2> DEFINE g == [n \in 0..(m + 1) |-> IF n = m + 1 THEN Tables!Try(f[m], e, a[m + 1]) ELSE f[n]]
  <2>2. \A n \in 0..(m + 1) : g[n] = IF n = 0 THEN s ELSE Tables!Try(g[n - 1], e, a[n])
    <3> SUFFICES ASSUME NEW n \in 0..(m + 1) PROVE g[n] = IF n = 0 THEN s ELSE Tables!Try(g[n - 1], e, a[n])
        OBVIOUS
    <3>1. CASE n = m + 1
      <4>1. n - 1 = m /\ n # 0 /\ m \in 0..(m + 1) /\ m # m + 1  BY <3>1
      <4>2. g[n] = Tables!Try(f[m], e, a[n])  BY <3>1
      <4>3. g[n - 1] = f[m]  BY <4>1
      <4> QED  BY <4>1, <4>2, <4>3
    <3>2. CASE n # m + 1
      <4>1. n \in 0..m  BY <3>2
      <4>2. g[n] = f[n]  BY <3>2
      <4>3. CASE n = 0  BY <4>1, <4>2, <4>3, <2>1
      <4>4. CASE n # 0
        <5>1. n - 1 \in 0..(m + 1) /\ n - 1 # m + 1  BY <4>1, <4>4
        <5>2. g[n - 1] = f[n - 1]  BY <5>1
        <5> QED  BY <4>1, <4>2, <4>4, <5>2, <2>1
      <4> QED  BY <4>3, <4>4
    <3> QED  BY <3>1, <3>2
  <2>3. Is(g, m + 1)
    <3>1. DOMAIN g = 0..(m + 1) /\ g = [n \in 0..(m + 1) |-> g[n]]  OBVIOUS
    <3> HIDE DEF g
    <3> QED  BY <3>1, <2>2
  <2>4. m + 1 \in 0..Len(a)  BY <1>2
  <2> QED  BY <2>3, <2>4
<1>3. \A m \in 0..Len(a) : m \in T
  <2> HIDE DEF T
  <2> QED  BY <1>1, <1>2, UpTo
<1>4. \E f : Is(f, Len(a))  BY <1>3
<1> DEFINE h == CHOOSE f : Is(f, Len(a))
<1>5. Is(h, Len(a))  BY <1>4
<1>6. Tables!Execute(s, e, a) = h[Len(a)]  BY DEF Tables!Execute
<1>7. Course(h, s, e, a, Len(a))  BY <1>5 DEF Course
<1> HIDE DEF h
<1> QED  BY <1>6, <1>7

Agree(a, m, b, k) == m \in Nat /\ k \in Nat /\ m <= k /\ \A n \in 1..m : a[n] = b[n]
Longer(a, b) == Len(b) = Len(a) + 1 /\ Agree(a, Len(a), b, Len(b))

LEMMA TwoRecursions ==
  ASSUME NEW s, NEW e, NEW a, NEW b, NEW f, NEW g, NEW m, NEW k, Agree(a, m, b, k),
         Course(f, s, e, a, m), Course(g, s, e, b, k)
  PROVE  f[m] = g[m]
<1> USE DEF Agree
<1> DEFINE T == {n \in 0..m : f[n] = g[n]}
<1>0. /\ f = [n \in 0..m |-> IF n = 0 THEN s ELSE Tables!Try(f[n - 1], e, a[n])]
      /\ g = [n \in 0..k |-> IF n = 0 THEN s ELSE Tables!Try(g[n - 1], e, b[n])]
  BY DEF Course
<1>1. 0 \in T  BY <1>0
<1>2. ASSUME NEW n \in 0..m, n < m, n \in T
      PROVE  n + 1 \in T
  <2>1. n + 1 \in 0..m /\ n + 1 \in 0..k /\ n + 1 # 0 /\ n + 1 \in 1..m /\ n + 1 - 1 = n  BY <1>2
  <2>2. f[n + 1] = Tables!Try(f[n], e, a[n + 1])  BY <1>0, <2>1
  <2>3. g[n + 1] = Tables!Try(g[n], e, b[n + 1])  BY <1>0, <2>1
  <2> QED  BY <2>1, <2>2, <2>3, <1>2
<1>3. \A n \in 0..m : n \in T
  <2> HIDE DEF T
  <2> QED  BY <1>1, <1>2, UpTo
<1>4. m \in T  BY <1>3
<1> QED  BY <1>4

LEMMA ExecuteNothing ==
  ASSUME NEW s, NEW e
  PROVE  Tables!Execute(s, e, <<>>) = s
<1>1. Len(<<>>) = 0  OBVIOUS
<1> QED  BY <1>1, ExecuteRec DEF Course

LEMMA ExecuteOneMore ==
  ASSUME NEW s, NEW e, NEW a, NEW b, Longer(a, b)
  PROVE  Tables!Execute(s, e, b) = Tables!Try(Tables!Execute(s, e, a), e, b[Len(b)])
<1>1. Len(a) \in Nat /\ Len(b) \in Nat /\ Agree(a, Len(a), b, Len(b))  BY DEF Longer, Agree
<1>2. PICK f : Course(f, s, e, a, Len(a)) /\ Tables!Execute(s, e, a) = f[Len(a)]  BY <1>1, ExecuteRec
<1>3. PICK g : Course(g, s, e, b, Len(b)) /\ Tables!Execute(s, e, b) = g[Len(b)]  BY <1>1, ExecuteRec
<1>4. f[Len(a)] = g[Len(a)]  BY <1>1, <1>2, <1>3, TwoRecursions
<1>5. Len(b) \in 0..Len(b) /\ Len(b) # 0 /\ Len(b) - 1 = Len(a)  BY <1>1 DEF Longer
<1>6. g[Len(b)] = Tables!Try(g[Len(a)], e, b[Len(b)])  BY <1>3, <1>5 DEF Course
<1> QED  BY <1>2, <1>3, <1>4, <1>6

(* Two scripts one after the other. *)
LEMMA ExecuteBoth ==
  ASSUME NEW s, NEW e, NEW X, NEW a \in Seq(X), NEW b \in Seq(X)
  PROVE  Tables!Execute(s, e, a \o b) = Tables!Execute(Tables!Execute(s, e, a), e, b)
<1> DEFINE T == {n \in 0..Len(b) : Tables!Execute(s, e, a \o SubSeq(b, 1, n))
                                   = Tables!Execute(Tables!Execute(s, e, a), e, SubSeq(b, 1, n))}
<1>1. 0 \in T
  <2>1. SubSeq(b, 1, 0) = <<>> /\ a \o <<>> = a /\ 0 \in 0..Len(b)  OBVIOUS
  <2>2. Tables!Execute(Tables!Execute(s, e, a), e, <<>>) = Tables!Execute(s, e, a)  BY ExecuteNothing
  <2> QED  BY <2>1, <2>2
<1>2. ASSUME NEW n \in 0..Len(b), n < Len(b), n \in T
      PROVE  n + 1 \in T
  <2> DEFINE c == SubSeq(b, 1, n)
             d == SubSeq(b, 1, n + 1)
  <2>1. c \in Seq(X) /\ d \in Seq(X) /\ Len(c) = n /\ Len(d) = n + 1  BY <1>2
  <2>2. \A i \in 1..n : c[i] = d[i]  BY <1>2
  <2>3. d[n + 1] = b[n + 1]  BY <1>2
  <2>4. Tables!Execute(Tables!Execute(s, e, a), e, d) = Tables!Try(Tables!Execute(Tables!Execute(s, e, a), e,
      c), e, b[n + 1])
    <3>1. Longer(c, d)  BY <2>1, <2>2 DEF Longer, Agree
    <3> HIDE DEF c, d
    <3> QED  BY <2>1, <2>3, <3>1, ExecuteOneMore
  <2>5. /\ Len(a \o c) = Len(a) + n /\ Len(a \o d) = Len(a \o c) + 1
        /\ \A i \in 1..Len(a \o c) : (a \o c)[i] = (a \o d)[i]
        /\ (a \o d)[Len(a \o d)] = b[n + 1]
    <3> HIDE DEF c, d
    <3>1. Len(a \o c) = Len(a) + n /\ Len(a \o d) = Len(a) + (n + 1) /\ Len(a) \in Nat  BY <2>1
    <3>2. ASSUME NEW i \in 1..(Len(a) + n) PROVE (a \o c)[i] = (a \o d)[i]
      <4>1. CASE i \in 1..Len(a)  BY <2>1, <4>1
      <4>2. CASE i \notin 1..Len(a)
        <5>1. i - Len(a) \in 1..n  BY <3>1, <4>2
        <5>2. c[i - Len(a)] = d[i - Len(a)]  BY <2>2, <5>1
        <5> QED  BY <2>1, <3>1, <4>2, <5>1, <5>2
      <4> QED  BY <4>1, <4>2
    <3>3. (a \o d)[Len(a) + (n + 1)] = d[n + 1]  BY <2>1, <3>1
    <3> QED  BY <2>3, <3>1, <3>2, <3>3
  <2>6. Tables!Execute(s, e, a \o d) = Tables!Try(Tables!Execute(s, e, a \o c), e, b[n + 1])
    <3> HIDE DEF c, d
    <3> DEFINE ac == a \o c
               ad == a \o d
    <3>1. Longer(ac, ad) /\ ad[Len(ad)] = b[n + 1]  BY <2>1, <2>5 DEF Longer, Agree
    <3> HIDE DEF ac, ad
    <3>2. Tables!Execute(s, e, ad) = Tables!Try(Tables!Execute(s, e, ac), e, ad[Len(ad)])
      BY <3>1, ExecuteOneMore
    <3>3. Tables!Execute(s, e, ad) = Tables!Try(Tables!Execute(s, e, ac), e, b[n + 1])  BY <3>1, <3>2
    <3> QED  BY <3>3 DEF ac, ad
  <2> QED  BY <1>2, <2>4, <2>6
<1>3. \A n \in 0..Len(b) : n \in T
  <2>1. Len(b) \in Nat  OBVIOUS
  <2> HIDE DEF T
  <2> QED  BY <1>1, <1>2, <2>1, UpTo
<1>4. Len(b) \in T /\ SubSeq(b, 1, Len(b)) = b  BY <1>3
<1> QED  BY <1>4

LEMMA ExecuteOne ==
  ASSUME NEW s, NEW e, NEW x
  PROVE  Tables!Execute(s, e, <<x>>) = Tables!Try(s, e, x)
<1> DEFINE a == <<>>
           b == <<x>>
<1>1. Longer(a, b) /\ b[Len(b)] = x  BY DEF Longer, Agree
<1>2. Tables!Execute(s, e, a) = s  BY ExecuteNothing
<1> HIDE DEF a, b
<1>3. Tables!Execute(s, e, b) = Tables!Try(Tables!Execute(s, e, a), e, b[Len(b)])  BY <1>1, ExecuteOneMore
<1>4. Tables!Execute(s, e, b) = Tables!Try(s, e, x)  BY <1>1, <1>2, <1>3
<1> QED  BY <1>4 DEF b

(* The schemas between the first m revisions. *)
Path(f, s, e, a, m) == f = [n \in 0..m |-> IF n = 0 THEN s ELSE Tables!Continue(f[n - 1], e, a[n])]

LEMMA MigrateRec ==
  ASSUME NEW s, NEW e, NEW a, Len(a) \in Nat
  PROVE  \E f : Path(f, s, e, a, Len(a)) /\ Tables!Migrate(s, e, a) = f[Len(a)]
<1> DEFINE Is(f, m) == f = [n \in 0..m |-> IF n = 0 THEN s ELSE Tables!Continue(f[n - 1], e, a[n])]
           T == {m \in 0..Len(a) : \E f : Is(f, m)}
<1>1. 0 \in T
  <2>1. \E f : Is(f, 0)
    <3> WITNESS [n \in 0..0 |-> s]
    <3> QED  OBVIOUS
  <2> HIDE DEF Is
  <2> QED  BY <2>1
<1>2. ASSUME NEW m \in 0..Len(a), m < Len(a), m \in T
      PROVE  m + 1 \in T
  <2>1. PICK f : Is(f, m)  BY <1>2
  <2> DEFINE g == [n \in 0..(m + 1) |-> IF n = m + 1 THEN Tables!Continue(f[m], e, a[m + 1]) ELSE f[n]]
  <2>2. \A n \in 0..(m + 1) : g[n] = IF n = 0 THEN s ELSE Tables!Continue(g[n - 1], e, a[n])
    <3> SUFFICES ASSUME NEW n \in 0..(m + 1) PROVE g[n] = IF n = 0 THEN s ELSE Tables!Continue(g[n - 1], e, a[n])
        OBVIOUS
    <3>1. CASE n = m + 1
      <4>1. n - 1 = m /\ n # 0 /\ m \in 0..(m + 1) /\ m # m + 1  BY <3>1
      <4>2. g[n] = Tables!Continue(f[m], e, a[n])  BY <3>1
      <4>3. g[n - 1] = f[m]  BY <4>1
      <4> QED  BY <4>1, <4>2, <4>3
    <3>2. CASE n # m + 1
      <4>1. n \in 0..m  BY <3>2
      <4>2. g[n] = f[n]  BY <3>2
      <4>3. CASE n = 0  BY <4>1, <4>2, <4>3, <2>1
      <4>4. CASE n # 0
        <5>1. n - 1 \in 0..(m + 1) /\ n - 1 # m + 1  BY <4>1, <4>4
        <5>2. g[n - 1] = f[n - 1]  BY <5>1
        <5> QED  BY <4>1, <4>2, <4>4, <5>2, <2>1
      <4> QED  BY <4>3, <4>4
    <3> QED  BY <3>1, <3>2
  <2>3. Is(g, m + 1)
    <3>1. DOMAIN g = 0..(m + 1) /\ g = [n \in 0..(m + 1) |-> g[n]]  OBVIOUS
    <3> HIDE DEF g
    <3> QED  BY <3>1, <2>2
  <2>4. m + 1 \in 0..Len(a)  BY <1>2
  <2> QED  BY <2>3, <2>4
<1>3. \A m \in 0..Len(a) : m \in T
  <2> HIDE DEF T
  <2> QED  BY <1>1, <1>2, UpTo
<1>4. \E f : Is(f, Len(a))  BY <1>3
<1> DEFINE h == CHOOSE f : Is(f, Len(a))
<1>5. Is(h, Len(a))  BY <1>4
<1>6. Tables!Migrate(s, e, a) = h[Len(a)]  BY DEF Tables!Migrate
<1>7. Path(h, s, e, a, Len(a))  BY <1>5 DEF Path
<1> HIDE DEF h
<1> QED  BY <1>6, <1>7

LEMMA TwoPaths ==
  ASSUME NEW s, NEW e, NEW a, NEW b, NEW f, NEW g, NEW m, NEW k, Agree(a, m, b, k),
         Path(f, s, e, a, m), Path(g, s, e, b, k)
  PROVE  f[m] = g[m]
<1> USE DEF Agree
<1> DEFINE T == {n \in 0..m : f[n] = g[n]}
<1>0. /\ f = [n \in 0..m |-> IF n = 0 THEN s ELSE Tables!Continue(f[n - 1], e, a[n])]
      /\ g = [n \in 0..k |-> IF n = 0 THEN s ELSE Tables!Continue(g[n - 1], e, b[n])]
  BY DEF Path
<1>1. 0 \in T  BY <1>0
<1>2. ASSUME NEW n \in 0..m, n < m, n \in T
      PROVE  n + 1 \in T
  <2>1. n + 1 \in 0..m /\ n + 1 \in 0..k /\ n + 1 # 0 /\ n + 1 \in 1..m /\ n + 1 - 1 = n  BY <1>2
  <2>2. f[n + 1] = Tables!Continue(f[n], e, a[n + 1])  BY <1>0, <2>1
  <2>3. g[n + 1] = Tables!Continue(g[n], e, b[n + 1])  BY <1>0, <2>1
  <2> QED  BY <2>1, <2>2, <2>3, <1>2
<1>3. \A n \in 0..m : n \in T
  <2> HIDE DEF T
  <2> QED  BY <1>1, <1>2, UpTo
<1>4. m \in T  BY <1>3
<1> QED  BY <1>4

LEMMA MigrateNothing ==
  ASSUME NEW s, NEW e
  PROVE  Tables!Migrate(s, e, <<>>) = s
<1>1. Len(<<>>) = 0  OBVIOUS
<1> QED  BY <1>1, MigrateRec DEF Path

LEMMA MigrateOneMore ==
  ASSUME NEW s, NEW e, NEW a, NEW b, Longer(a, b)
  PROVE  Tables!Migrate(s, e, b) = Tables!Continue(Tables!Migrate(s, e, a), e, b[Len(b)])
<1>1. Len(a) \in Nat /\ Len(b) \in Nat /\ Agree(a, Len(a), b, Len(b))  BY DEF Longer, Agree
<1>2. PICK f : Path(f, s, e, a, Len(a)) /\ Tables!Migrate(s, e, a) = f[Len(a)]  BY <1>1, MigrateRec
<1>3. PICK g : Path(g, s, e, b, Len(b)) /\ Tables!Migrate(s, e, b) = g[Len(b)]  BY <1>1, MigrateRec
<1>4. f[Len(a)] = g[Len(a)]  BY <1>1, <1>2, <1>3, TwoPaths
<1>5. Len(b) \in 0..Len(b) /\ Len(b) # 0 /\ Len(b) - 1 = Len(a)  BY <1>1 DEF Longer
<1>6. g[Len(b)] = Tables!Continue(g[Len(a)], e, b[Len(b)])  BY <1>3, <1>5 DEF Path
<1> QED  BY <1>2, <1>3, <1>4, <1>6

(* How far a table is from the tenant along its keys. *)
Depth(t) ==
  CASE t = "tenants" -> 0
    [] t \in {"users", "contacts", "blog_categories", "webhook_endpoints", "legal_pages"} -> 1
    [] t \in {"listings", "teams", "notifications"} -> 2
    [] t = "leads" -> 3
    [] t = "deals" -> 4
    [] OTHER -> 5
(* What is true of every foreign key. *)
Lawful(k) ==
  /\ k.from # "tenants" /\ k.from # "billing_events"
  /\ Depth(k.to) < Depth(k.from)
  /\ k.does \in {"CASCADE", "SET NULL", "RESTRICT"}
  /\ k.does = "RESTRICT" => k.from = "deals" /\ k.to = "users"
  /\ k.from = "consent_records" /\ k.column = "user_id" => k.to = "users"
  /\ k.from = "audit_log" => k.to = "tenants"
  /\ k.to = "tenants" => k.column = "tenant_id" /\ k.does = IF k.from = "audit_log" THEN "SET NULL" ELSE "CASCADE"
  /\ k.from \in {"sessions", "oauth_identities"} => k.to = "users" /\ k.does = "CASCADE" /\ ~k.nullable

(* The keys of a table that is created, as they stand in the schema. *)
Row(t, k) == [from |-> t, column |-> k.column, to |-> k.to, does |-> k.does, nullable |-> k.nullable]

(* A table that is a tenant's, has no parent else, and may have other keys. *)
Ordinary(t) ==
  t \notin {"tenants", "users", "sessions", "oauth_identities", "audit_log", "billing_events"}
Refers(t, k, T) == k.to \in T /\ Lawful(Row(t, k))

(* Whose rows a row is deleted with. *)
Parent(t) == IF t \in {"sessions", "oauth_identities"} THEN "users" ELSE "tenants"
Owed(t, keys) ==
  t \in {"tenants", "audit_log", "billing_events"} \/ \E k \in keys : k.from = t /\ k.to = Parent(t)

(* A schema with tables T, of which G are under a policy, and added columns C. *)
Good(s, T, G, C) ==
  /\ s = [tables |-> T, keys |-> s.keys, columns |-> C, guarded |-> G, ok |-> TRUE]
  /\ G \subseteq T
  /\ \A c \in C : c[1] \in T
  /\ \A k \in s.keys : k.from \in T /\ k.to \in T /\ Lawful(k)
  /\ \A t \in T : Owed(t, s.keys)

(* A script leads from one schema to another, whatever is stored. *)
Yields(s, a, u) == (\E X : a \in Seq(X)) /\ \A e : Tables!Execute(s, e, a) = u
Turns(s, up, down, u) == Yields(s, up, u) /\ Yields(u, down, s)

LEMMA YieldsBoth ==
  ASSUME NEW s, NEW u, NEW v, NEW a, NEW b, Yields(s, a, u), Yields(u, b, v)
  PROVE  Yields(s, a \o b, v)
<1>1. PICK X : a \in Seq(X)  BY DEF Yields
<1>2. PICK Y : b \in Seq(Y)  BY DEF Yields
<1> DEFINE Z == X \cup Y
<1>3. a \in Seq(Z) /\ b \in Seq(Z)  BY <1>1, <1>2
<1> HIDE DEF Z
<1>4. a \o b \in Seq(Z)  BY <1>3
<1>5. ASSUME NEW e PROVE Tables!Execute(s, e, a \o b) = v
  <2>1. Tables!Execute(s, e, a) = u /\ Tables!Execute(u, e, b) = v  BY DEF Yields
  <2> QED  BY <1>3, <2>1, ExecuteBoth
<1> QED  BY <1>4, <1>5 DEF Yields

LEMMA YieldsOne ==
  ASSUME NEW s, NEW u, NEW x, \A e : Tables!Try(s, e, x) = u
  PROVE  Yields(s, <<x>>, u)
<1>1. <<x>> \in Seq({x})  OBVIOUS
<1>2. \A e : Tables!Execute(s, e, <<x>>) = u  BY ExecuteOne
<1> QED  BY <1>1, <1>2 DEF Yields

LEMMA CreateTurns ==
  ASSUME NEW s, NEW T, NEW G, NEW C, Good(s, T, G, C), NEW t, NEW keys,
         t \notin T, \A k \in keys : Refers(t, k, T),
         Owed(t, {Row(t, k) : k \in keys})
  PROVE  \E u : Good(u, T \cup {t}, G, C) /\ Turns(s, Tables!Create(t, keys), Tables!Drop(t), u)
<1> DEFINE K == {Row(t, k) : k \in keys}
           u == [tables |-> T \cup {t}, keys |-> s.keys \cup K, columns |-> C, guarded |-> G, ok |-> TRUE]
           up == [does |-> "create", table |-> t, keys |-> keys]
           down == [does |-> "drop", table |-> t]
<1>r. PICK old : s = [tables |-> T, keys |-> old, columns |-> C, guarded |-> G, ok |-> TRUE]  BY DEF Good
<1>s. s = [tables |-> T, keys |-> s.keys, columns |-> C, guarded |-> G, ok |-> TRUE]  BY DEF Good
<1>k. \A k \in K : k.from = t /\ k.to \in T /\ Lawful(k)  BY DEF Row, Refers
<1>o. \A k \in s.keys : k.from \in T /\ k.to \in T /\ Lawful(k)  BY DEF Good
<1>1. Good(u, T \cup {t}, G, C)
  <2>1. \A x \in T \cup {t} : Owed(x, s.keys \cup K)  BY DEF Good, Owed
  <2> HIDE DEF K
  <2>2. \A k \in s.keys \cup K : k.from \in T \cup {t} /\ k.to \in T \cup {t} /\ Lawful(k)  BY <1>k, <1>o
  <2>3. G \subseteq T \cup {t} /\ \A c \in C : c[1] \in T \cup {t}  BY DEF Good
  <2> QED  BY <2>1, <2>2, <2>3 DEF Good
<1>2. ASSUME NEW e PROVE Tables!Try(s, e, up) = u
  <2>1. Tables!Possible(s, e, up)  BY <1>s DEF Tables!Possible, Refers
  <2>2. Tables!Done(s, up) = u
    <3>1. up.does = "create" /\ up.table = t /\ up.keys = keys  OBVIOUS
    <3>2. Tables!Done(s, up) = [s EXCEPT !.tables = @ \cup {t}, !.keys = @ \cup K]  BY <3>1 DEF Tables!Done, Row
    <3> HIDE DEF up, K
    <3> QED  BY <1>r, <3>2
  <2>3. s.ok  BY <1>s
  <2> HIDE DEF up, u
  <2> QED  BY <2>1, <2>2, <2>3 DEF Tables!Try
<1>3. ASSUME NEW e PROVE Tables!Try(u, e, down) = s
  <2> HIDE DEF K
  <2>1. Tables!Possible(u, e, down)  BY <1>k, <1>o DEF Tables!Possible
  <2>2. Tables!Done(u, down) = s
    <3>1. down.does = "drop" /\ down.table = t  OBVIOUS
    <3>2. Tables!Done(u, down) = [u EXCEPT !.tables = @ \ {t}, !.keys = {k \in @ : k.from # t},
                                    !.columns = {c \in @ : c[1] # t}, !.guarded = @ \ {t}]
      <4> HIDE DEF u, down
      <4> QED  BY <3>1 DEF Tables!Done
    <3>3. (T \cup {t}) \ {t} = T /\ G \ {t} = G /\ {c \in C : c[1] # t} = C  BY DEF Good
    <3>4. {k \in s.keys \cup K : k.from # t} = s.keys  BY <1>k, <1>o
    <3> HIDE DEF down
    <3> QED  BY <1>s, <3>2, <3>3, <3>4
  <2>3. u.ok  OBVIOUS
  <2> HIDE DEF down, u
  <2> QED  BY <2>1, <2>2, <2>3 DEF Tables!Try
<1>4. Yields(s, <<up>>, u) /\ Yields(u, <<down>>, s)
  <2> HIDE DEF up, down, u
  <2> QED  BY <1>2, <1>3, YieldsOne
<1>5. Turns(s, Tables!Create(t, keys), Tables!Drop(t), u)  BY <1>4 DEF Turns, Tables!Create, Tables!Drop
<1> HIDE DEF u
<1> QED  BY <1>1, <1>5

LEMMA Depths ==
  /\ Depth("tenants") = 0
  /\ \A t \in {"users", "contacts", "blog_categories", "webhook_endpoints", "legal_pages"} : Depth(t) = 1
  /\ \A t \in {"listings", "teams", "notifications"} : Depth(t) = 2
  /\ Depth("leads") = 3 /\ Depth("deals") = 4
  /\ \A t : t \notin {"tenants", "users", "contacts", "blog_categories", "webhook_endpoints", "legal_pages",
                     "listings", "teams", "notifications", "leads", "deals"} => Depth(t) = 5
BY DEF Depth

LEMMA OwedBy ==
  ASSUME NEW t, NEW keys, NEW k \in keys, k.to = Parent(t)
  PROVE  Owed(t, {Row(t, x) : x \in keys})
<1>1. Row(t, k).from = t /\ Row(t, k).to = Parent(t)  BY DEF Row
<1>2. Row(t, k) \in {Row(t, x) : x \in keys}  OBVIOUS
<1> QED  BY <1>1, <1>2 DEF Owed

LEMMA OwnedTurns ==
  ASSUME NEW s, NEW T, NEW G, NEW C, Good(s, T, G, C), NEW t, NEW keys,
         t \notin T, Ordinary(t), "tenants" \in T, \A k \in keys : Refers(t, k, T)
  PROVE  \E u : Good(u, T \cup {t}, G, C) /\ Turns(s, Tables!Owned(t, keys), Tables!Drop(t), u)
<1>1. Depth("tenants") < Depth(t)  BY Depths DEF Ordinary
<1>2. Lawful(Row(t, Tables!Owner)) /\ Tables!Owner.to = "tenants"
  BY <1>1 DEF Lawful, Row, Tables!Owner, Tables!Key, Ordinary
<1>3. Owed(t, {Row(t, k) : k \in keys \cup {Tables!Owner}})
  <2>1. Row(t, Tables!Owner).from = t /\ Row(t, Tables!Owner).to = Parent(t)
    BY DEF Row, Tables!Owner, Tables!Key, Parent, Ordinary
  <2> QED  BY <2>1 DEF Owed
<1>4. \A k \in keys \cup {Tables!Owner} : Refers(t, k, T)  BY <1>2 DEF Refers
<1> QED  BY <1>3, <1>4, CreateTurns DEF Tables!Owned

LEMMA OrdinaryKey ==
  ASSUME NEW t, Ordinary(t), NEW T, NEW column, NEW to \in T, NEW does, to # "tenants", Depth(to) < Depth(t),
         column = "user_id" => to = "users",
         does \in {"CASCADE", "SET NULL"} \/ (does = "RESTRICT" /\ t = "deals" /\ to = "users")
  PROVE  Refers(t, Tables!Key(column, to, does), T) /\ Refers(t, Tables!Maybe(column, to, does), T)
<1> DEFINE k == Row(t, Tables!Key(column, to, does))
           m == Row(t, Tables!Maybe(column, to, does))
<1>1. k.from = t /\ k.column = column /\ k.to = to /\ k.does = does  BY DEF Row, Tables!Key
<1>2. m.from = t /\ m.column = column /\ m.to = to /\ m.does = does  BY DEF Row, Tables!Maybe
<1>3. Tables!Key(column, to, does).to \in T /\ Tables!Maybe(column, to, does).to \in T
  BY DEF Tables!Key, Tables!Maybe
<1> HIDE DEF k, m
<1>4. Lawful(k) /\ Lawful(m)  BY <1>1, <1>2 DEF Lawful, Ordinary
<1> QED  BY <1>3, <1>4 DEF Refers, k, m

LEMMA OtherKeys ==
  /\ \A T : "tenants" \in T => Refers("users", Tables!Maybe("tenant_id", "tenants", "CASCADE"), T)
  /\ \A T : "tenants" \in T => Refers("audit_log", Tables!Maybe("tenant_id", "tenants", "SET NULL"), T)
  /\ \A T, t : "users" \in T /\ t \in {"sessions", "oauth_identities"} =>
       Refers(t, Tables!Key("user_id", "users", "CASCADE"), T)
BY Depths DEF Refers, Lawful, Row, Tables!Key, Tables!Maybe

LEMMA GuardTurns ==
  ASSUME NEW s, NEW T, NEW G, NEW C, Good(s, T, G, C), NEW S, NEW R, S \subseteq T, S \cap G = {}, R = S
  PROVE  \E u : Good(u, T, G \cup S, C) /\ Turns(s, Tables!Guard(S), Tables!Unguard(R), u)
<1> DEFINE u == [tables |-> T, keys |-> s.keys, columns |-> C, guarded |-> G \cup S, ok |-> TRUE]
           up == [does |-> "guard", tables |-> S]
           down == [does |-> "unguard", tables |-> R]
<1>r. PICK old : s = [tables |-> T, keys |-> old, columns |-> C, guarded |-> G, ok |-> TRUE]  BY DEF Good
<1>s. s = [tables |-> T, keys |-> s.keys, columns |-> C, guarded |-> G, ok |-> TRUE]  BY DEF Good
<1>1. Good(u, T, G \cup S, C)
  <2>1. u.keys = s.keys  OBVIOUS
  <2>2. u = [tables |-> T, keys |-> u.keys, columns |-> C, guarded |-> G \cup S, ok |-> TRUE]  OBVIOUS
  <2> HIDE DEF u
  <2> QED  BY <2>1, <2>2 DEF Good
<1>2. ASSUME NEW e PROVE Tables!Try(s, e, up) = u
  <2>1. Tables!Possible(s, e, up)  BY <1>s DEF Tables!Possible
  <2>2. Tables!Done(s, up) = u
    <3>1. Tables!Done(s, up) = [s EXCEPT !.guarded = @ \cup S]  BY DEF Tables!Done
    <3> HIDE DEF up
    <3> QED  BY <1>r, <3>1
  <2>3. s.ok  BY <1>s
  <2> HIDE DEF up, u
  <2> QED  BY <2>1, <2>2, <2>3 DEF Tables!Try
<1>3. ASSUME NEW e PROVE Tables!Try(u, e, down) = s
  <2>1. Tables!Possible(u, e, down)  BY DEF Tables!Possible
  <2>2. Tables!Done(u, down) = s
    <3>1. Tables!Done(u, down) = [u EXCEPT !.guarded = @ \ R]  BY DEF Tables!Done
    <3>2. (G \cup S) \ R = G  OBVIOUS
    <3> HIDE DEF down
    <3> QED  BY <1>s, <3>1, <3>2
  <2>3. u.ok  OBVIOUS
  <2> HIDE DEF down, u
  <2> QED  BY <2>1, <2>2, <2>3 DEF Tables!Try
<1>4. Yields(s, <<up>>, u) /\ Yields(u, <<down>>, s)
  <2> HIDE DEF up, down, u
  <2> QED  BY <1>2, <1>3, YieldsOne
<1>5. Turns(s, Tables!Guard(S), Tables!Unguard(R), u)  BY <1>4 DEF Turns, Tables!Guard, Tables!Unguard
<1> HIDE DEF u
<1> QED  BY <1>1, <1>5

LEMMA AddTurns ==
  ASSUME NEW s, NEW T, NEW G, NEW C, Good(s, T, G, C), NEW t \in T, NEW S, NEW R,
         ({t} \X S) \cap C = {}, R = S
  PROVE  \E u : Good(u, T, G, C \cup ({t} \X S)) /\ Turns(s, Tables!AddColumns(t, S), Tables!DropColumns(t, R),
      u)
<1> DEFINE u == [tables |-> T, keys |-> s.keys, columns |-> C \cup ({t} \X S), guarded |-> G, ok |-> TRUE]
           up == [does |-> "add", table |-> t, columns |-> S]
           down == [does |-> "remove", table |-> t, columns |-> R]
<1>r. PICK old : s = [tables |-> T, keys |-> old, columns |-> C, guarded |-> G, ok |-> TRUE]  BY DEF Good
<1>s. s = [tables |-> T, keys |-> s.keys, columns |-> C, guarded |-> G, ok |-> TRUE]  BY DEF Good
<1>1. Good(u, T, G, C \cup ({t} \X S))
  <2>1. u.keys = s.keys  OBVIOUS
  <2>2. u = [tables |-> T, keys |-> u.keys, columns |-> C \cup ({t} \X S), guarded |-> G, ok |-> TRUE]  OBVIOUS
  <2>3. \A c \in C \cup ({t} \X S) : c[1] \in T  BY DEF Good
  <2> HIDE DEF u
  <2> QED  BY <2>1, <2>2, <2>3 DEF Good
<1>2. ASSUME NEW e PROVE Tables!Try(s, e, up) = u
  <2>1. Tables!Possible(s, e, up)  BY <1>s DEF Tables!Possible
  <2>2. Tables!Done(s, up) = u
    <3>1. Tables!Done(s, up) = [s EXCEPT !.columns = @ \cup ({t} \X S)]  BY DEF Tables!Done
    <3> HIDE DEF up
    <3> QED  BY <1>r, <3>1
  <2>3. s.ok  BY <1>s
  <2> HIDE DEF up, u
  <2> QED  BY <2>1, <2>2, <2>3 DEF Tables!Try
<1>3. ASSUME NEW e PROVE Tables!Try(u, e, down) = s
  <2>1. Tables!Possible(u, e, down)  BY DEF Tables!Possible
  <2>2. Tables!Done(u, down) = s
    <3>1. Tables!Done(u, down) = [u EXCEPT !.columns = @ \ ({t} \X R)]  BY DEF Tables!Done
    <3>2. (C \cup ({t} \X S)) \ ({t} \X R) = C  OBVIOUS
    <3> HIDE DEF down
    <3> QED  BY <1>s, <3>1, <3>2
  <2>3. u.ok  OBVIOUS
  <2> HIDE DEF down, u
  <2> QED  BY <2>1, <2>2, <2>3 DEF Tables!Try
<1>4. Yields(s, <<up>>, u) /\ Yields(u, <<down>>, s)
  <2> HIDE DEF up, down, u
  <2> QED  BY <1>2, <1>3, YieldsOne
<1>5. Turns(s, Tables!AddColumns(t, S), Tables!DropColumns(t, R), u)
  BY <1>4 DEF Turns, Tables!AddColumns, Tables!DropColumns
<1> HIDE DEF u
<1> QED  BY <1>1, <1>5

(* 0023 undone, but for the column it made wider. *)
DownButNarrow ==
  Tables!Unguard({"oauth_identities"}) \o Tables!Drop("oauth_identities") \o Tables!DropColumns("sessions",
      {"last_used_at"}) \o Tables!DropColumns("users", {"mfa_enrolled_at", "mfa_enabled", "mfa_pending_secret"})

Tables0001 == {} \cup {"tenants"} \cup {"tenant_domains"}
Tables0002 == Tables0001 \cup {"users"} \cup {"sessions"}
Tables0003 == Tables0002 \cup {"listings"} \cup {"listing_status_history"} \cup {"listing_reference_counters"}
Tables0005 == Tables0003 \cup {"listing_media"}
Tables0007 == Tables0005 \cup {"contacts"} \cup {"leads"} \cup {"lead_activities"} \cup {"assignment_rules"}
    \cup {"lead_drip_state"}
Tables0008 == Tables0007 \cup {"agent_profiles"} \cup {"teams"} \cup {"team_members"}
Tables0009 == Tables0008 \cup {"favorites"} \cup {"saved_searches"}
Tables0011 == Tables0009 \cup {"agent_availability"} \cup {"appointments"}
Tables0012 == Tables0011 \cup {"valuation_requests"}
Tables0013 == Tables0012 \cup {"content_pages"} \cup {"legal_pages"}
Tables0014 == Tables0013 \cup {"blog_categories"} \cup {"blog_posts"}
Tables0015 == Tables0014 \cup {"reviews"}
Tables0016 == Tables0015 \cup {"neighborhood_guides"} \cup {"market_reports"}
Tables0017 == Tables0016 \cup {"notifications"} \cup {"notification_preferences"} \cup {"notification_sends"}
    \cup {"notification_digest_items"}
Tables0018 == Tables0017 \cup {"deals"} \cup {"deal_milestones"} \cup {"deal_documents"}
Tables0019 == Tables0018 \cup {"portal_sync_state"}
Tables0020 == Tables0019 \cup {"analytics_events"} \cup {"listing_stats_daily"} \cup {"lead_funnel_daily"}
    \cup {"source_performance_daily"}
Tables0021 == Tables0020 \cup {"tenant_usage"} \cup {"tenant_subscriptions"} \cup {"billing_events"} \cup
    {"audit_log"}
Tables0022 == Tables0021 \cup {"consent_records"} \cup {"cookie_consent_configs"} \cup {"dsr_requests"}
Tables0023 == Tables0022 \cup {"oauth_identities"}
Tables0024 == Tables0023 \cup {"outbox"} \cup {"webhook_endpoints"} \cup {"webhook_deliveries"}

Added0004 == {} \cup ({"listings"} \X {"stale_flagged_at"})
Added0006 == Added0004 \cup ({"listings"} \X {"featured"}) \cup ({"listings"} \X {"search_vector"})
Added0010 == Added0006 \cup ({"agent_profiles"} \X {"whatsapp_number"})
Added0021 == Added0010 \cup ({"tenants"} \X {"plan", "trial_ends_at", "offboarding_at",
    "deletion_scheduled_at", "deleted_at", "export_object_key"}) \cup ({"tenant_domains"} \X
    {"verification_token", "verification_status"})
Added0023 == Added0021 \cup ({"users"} \X {"mfa_pending_secret", "mfa_enabled", "mfa_enrolled_at"}) \cup
    ({"sessions"} \X {"last_used_at"})

(* The schema of version v. *)
Stands(s, v) ==
  \/ v = 0 /\ Good(s, {}, {}, {})
  \/ v = 1 /\ Good(s, Tables0001, Tables0001 \ Tables!Platform, {})
  \/ v = 2 /\ Good(s, Tables0002, Tables0002 \ Tables!Platform, {})
  \/ v = 3 /\ Good(s, Tables0003, Tables0003 \ Tables!Platform, {})
  \/ v = 4 /\ Good(s, Tables0003, Tables0003 \ Tables!Platform, Added0004)
  \/ v = 5 /\ Good(s, Tables0005, Tables0005 \ Tables!Platform, Added0004)
  \/ v = 6 /\ Good(s, Tables0005, Tables0005 \ Tables!Platform, Added0006)
  \/ v = 7 /\ Good(s, Tables0007, Tables0007 \ Tables!Platform, Added0006)
  \/ v = 8 /\ Good(s, Tables0008, Tables0008 \ Tables!Platform, Added0006)
  \/ v = 9 /\ Good(s, Tables0009, Tables0009 \ Tables!Platform, Added0006)
  \/ v = 10 /\ Good(s, Tables0009, Tables0009 \ Tables!Platform, Added0010)
  \/ v = 11 /\ Good(s, Tables0011, Tables0011 \ Tables!Platform, Added0010)
  \/ v = 12 /\ Good(s, Tables0012, Tables0012 \ Tables!Platform, Added0010)
  \/ v = 13 /\ Good(s, Tables0013, Tables0013 \ Tables!Platform, Added0010)
  \/ v = 14 /\ Good(s, Tables0014, Tables0014 \ Tables!Platform, Added0010)
  \/ v = 15 /\ Good(s, Tables0015, Tables0015 \ Tables!Platform, Added0010)
  \/ v = 16 /\ Good(s, Tables0016, Tables0016 \ Tables!Platform, Added0010)
  \/ v = 17 /\ Good(s, Tables0017, Tables0017 \ Tables!Platform, Added0010)
  \/ v = 18 /\ Good(s, Tables0018, Tables0018 \ Tables!Platform, Added0010)
  \/ v = 19 /\ Good(s, Tables0019, Tables0019 \ Tables!Platform, Added0010)
  \/ v = 20 /\ Good(s, Tables0020, Tables0020 \ Tables!Platform, Added0010)
  \/ v = 21 /\ Good(s, Tables0021, Tables0021 \ Tables!Platform, Added0021)
  \/ v = 22 /\ Good(s, Tables0022, Tables0022 \ Tables!Platform, Added0021)
  \/ v = 23 /\ Good(s, Tables0023, Tables0023 \ Tables!Platform, Added0023)
  \/ v = 24 /\ Good(s, Tables0024, Tables0024 \ Tables!Platform, Added0023)

LEMMA Turns2 ==
  ASSUME NEW s, NEW a, NEW b, NEW u1, NEW u2, NEW d1, NEW d2,
         Turns(s, u1, d1, a), Turns(a, u2, d2, b)
  PROVE  Turns(s, u1 \o u2, d2 \o d1, b)
<1>0. Yields(s, u1, a) /\ Yields(a, u2, b)
  BY DEF Turns
<1>1. Yields(a, d1, s) /\ Yields(b, d2, a)
  BY DEF Turns
<1>2. Yields(s, u1 \o u2, b)  BY <1>0, YieldsBoth
<1>3. Yields(b, d2 \o d1, s)  BY <1>1, YieldsBoth
<1> QED  BY <1>2, <1>3 DEF Turns

LEMMA Turns3 ==
  ASSUME NEW s, NEW a, NEW b, NEW c, NEW u1, NEW u2, NEW u3, NEW d1, NEW d2, NEW d3,
         Turns(s, u1, d1, a), Turns(a, u2, d2, b), Turns(b, u3, d3, c)
  PROVE  Turns(s, u1 \o u2 \o u3, d3 \o d2 \o d1, c)
<1>0. Yields(s, u1, a) /\ Yields(a, u2, b) /\ Yields(b, u3, c)
  BY DEF Turns
<1>1. Yields(a, d1, s) /\ Yields(b, d2, a) /\ Yields(c, d3, b)
  BY DEF Turns
<1>2. Yields(s, u1 \o u2, b)  BY <1>0, YieldsBoth
<1>3. Yields(s, u1 \o u2 \o u3, c)  BY <1>0, <1>2, YieldsBoth
<1>4. Yields(c, d3 \o d2, a)  BY <1>1, YieldsBoth
<1>5. Yields(c, d3 \o d2 \o d1, s)  BY <1>1, <1>4, YieldsBoth
<1> QED  BY <1>3, <1>5 DEF Turns

LEMMA Turns4 ==
  ASSUME NEW s, NEW a, NEW b, NEW c, NEW d, NEW u1, NEW u2, NEW u3, NEW u4, NEW d1, NEW d2, NEW d3, NEW d4,
         Turns(s, u1, d1, a), Turns(a, u2, d2, b), Turns(b, u3, d3, c), Turns(c, u4, d4, d)
  PROVE  Turns(s, u1 \o u2 \o u3 \o u4, d4 \o d3 \o d2 \o d1, d)
<1>0. Yields(s, u1, a) /\ Yields(a, u2, b) /\ Yields(b, u3, c) /\ Yields(c, u4, d)
  BY DEF Turns
<1>1. Yields(a, d1, s) /\ Yields(b, d2, a) /\ Yields(c, d3, b) /\ Yields(d, d4, c)
  BY DEF Turns
<1>2. Yields(s, u1 \o u2, b)  BY <1>0, YieldsBoth
<1>3. Yields(s, u1 \o u2 \o u3, c)  BY <1>0, <1>2, YieldsBoth
<1>4. Yields(s, u1 \o u2 \o u3 \o u4, d)  BY <1>0, <1>3, YieldsBoth
<1>5. Yields(d, d4 \o d3, b)  BY <1>1, YieldsBoth
<1>6. Yields(d, d4 \o d3 \o d2, a)  BY <1>1, <1>5, YieldsBoth
<1>7. Yields(d, d4 \o d3 \o d2 \o d1, s)  BY <1>1, <1>6, YieldsBoth
<1> QED  BY <1>4, <1>7 DEF Turns

LEMMA Turns5 ==
  ASSUME NEW s, NEW a, NEW b, NEW c, NEW d, NEW e, NEW u1, NEW u2, NEW u3, NEW u4, NEW u5, NEW d1, NEW d2,
         NEW d3, NEW d4, NEW d5,
         Turns(s, u1, d1, a), Turns(a, u2, d2, b), Turns(b, u3, d3, c), Turns(c, u4, d4, d),
         Turns(d, u5, d5, e)
  PROVE  Turns(s, u1 \o u2 \o u3 \o u4 \o u5, d5 \o d4 \o d3 \o d2 \o d1, e)
<1>0. Yields(s, u1, a) /\ Yields(a, u2, b) /\ Yields(b, u3, c) /\ Yields(c, u4, d) /\ Yields(d, u5, e)
  BY DEF Turns
<1>1. Yields(a, d1, s) /\ Yields(b, d2, a) /\ Yields(c, d3, b) /\ Yields(d, d4, c) /\ Yields(e, d5, d)
  BY DEF Turns
<1>2. Yields(s, u1 \o u2, b)  BY <1>0, YieldsBoth
<1>3. Yields(s, u1 \o u2 \o u3, c)  BY <1>0, <1>2, YieldsBoth
<1>4. Yields(s, u1 \o u2 \o u3 \o u4, d)  BY <1>0, <1>3, YieldsBoth
<1>5. Yields(s, u1 \o u2 \o u3 \o u4 \o u5, e)  BY <1>0, <1>4, YieldsBoth
<1>6. Yields(e, d5 \o d4, c)  BY <1>1, YieldsBoth
<1>7. Yields(e, d5 \o d4 \o d3, b)  BY <1>1, <1>6, YieldsBoth
<1>8. Yields(e, d5 \o d4 \o d3 \o d2, a)  BY <1>1, <1>7, YieldsBoth
<1>9. Yields(e, d5 \o d4 \o d3 \o d2 \o d1, s)  BY <1>1, <1>8, YieldsBoth
<1> QED  BY <1>5, <1>9 DEF Turns

LEMMA Turns6 ==
  ASSUME NEW s, NEW a, NEW b, NEW c, NEW d, NEW e, NEW f, NEW u1, NEW u2, NEW u3, NEW u4, NEW u5, NEW u6,
         NEW d1, NEW d2, NEW d3, NEW d4, NEW d5, NEW d6,
         Turns(s, u1, d1, a), Turns(a, u2, d2, b), Turns(b, u3, d3, c), Turns(c, u4, d4, d),
         Turns(d, u5, d5, e), Turns(e, u6, d6, f)
  PROVE  Turns(s, u1 \o u2 \o u3 \o u4 \o u5 \o u6, d6 \o d5 \o d4 \o d3 \o d2 \o d1, f)
<1>0. Yields(s, u1, a) /\ Yields(a, u2, b) /\ Yields(b, u3, c) /\ Yields(c, u4, d) /\ Yields(d, u5,
                              e) /\ Yields(e, u6, f)
  BY DEF Turns
<1>1. Yields(a, d1, s) /\ Yields(b, d2, a) /\ Yields(c, d3, b) /\ Yields(d, d4, c) /\ Yields(e, d5,
                              d) /\ Yields(f, d6, e)
  BY DEF Turns
<1>2. Yields(s, u1 \o u2, b)  BY <1>0, YieldsBoth
<1>3. Yields(s, u1 \o u2 \o u3, c)  BY <1>0, <1>2, YieldsBoth
<1>4. Yields(s, u1 \o u2 \o u3 \o u4, d)  BY <1>0, <1>3, YieldsBoth
<1>5. Yields(s, u1 \o u2 \o u3 \o u4 \o u5, e)  BY <1>0, <1>4, YieldsBoth
<1>6. Yields(s, u1 \o u2 \o u3 \o u4 \o u5 \o u6, f)  BY <1>0, <1>5, YieldsBoth
<1>7. Yields(f, d6 \o d5, d)  BY <1>1, YieldsBoth
<1>8. Yields(f, d6 \o d5 \o d4, c)  BY <1>1, <1>7, YieldsBoth
<1>9. Yields(f, d6 \o d5 \o d4 \o d3, b)  BY <1>1, <1>8, YieldsBoth
<1>10. Yields(f, d6 \o d5 \o d4 \o d3 \o d2, a)  BY <1>1, <1>9, YieldsBoth
<1>11. Yields(f, d6 \o d5 \o d4 \o d3 \o d2 \o d1, s)  BY <1>1, <1>10, YieldsBoth
<1> QED  BY <1>6, <1>11 DEF Turns

LEMMA Turns8 ==
  ASSUME NEW s, NEW a, NEW b, NEW c, NEW d, NEW e, NEW f, NEW g, NEW h, NEW u1, NEW u2, NEW u3, NEW u4,
         NEW u5, NEW u6, NEW u7, NEW u8, NEW d1, NEW d2, NEW d3, NEW d4, NEW d5, NEW d6, NEW d7, NEW d8,
         Turns(s, u1, d1, a), Turns(a, u2, d2, b), Turns(b, u3, d3, c), Turns(c, u4, d4, d),
         Turns(d, u5, d5, e), Turns(e, u6, d6, f), Turns(f, u7, d7, g), Turns(g, u8, d8, h)
  PROVE  Turns(s, u1 \o u2 \o u3 \o u4 \o u5 \o u6 \o u7 \o u8, d8 \o d7 \o d6 \o d5 \o d4 \o d3 \o d2 \o d1, h)
<1>0. Yields(s, u1, a) /\ Yields(a, u2, b) /\ Yields(b, u3, c) /\ Yields(c, u4, d) /\ Yields(d, u5, e) /\
      Yields(e, u6, f) /\ Yields(f, u7, g) /\ Yields(g, u8, h)
  BY DEF Turns
<1>1. Yields(a, d1, s) /\ Yields(b, d2, a) /\ Yields(c, d3, b) /\ Yields(d, d4, c) /\ Yields(e, d5, d) /\
      Yields(f, d6, e) /\ Yields(g, d7, f) /\ Yields(h, d8, g)
  BY DEF Turns
<1>2. Yields(s, u1 \o u2, b)  BY <1>0, YieldsBoth
<1>3. Yields(s, u1 \o u2 \o u3, c)  BY <1>0, <1>2, YieldsBoth
<1>4. Yields(s, u1 \o u2 \o u3 \o u4, d)  BY <1>0, <1>3, YieldsBoth
<1>5. Yields(s, u1 \o u2 \o u3 \o u4 \o u5, e)  BY <1>0, <1>4, YieldsBoth
<1>6. Yields(s, u1 \o u2 \o u3 \o u4 \o u5 \o u6, f)  BY <1>0, <1>5, YieldsBoth
<1>7. Yields(s, u1 \o u2 \o u3 \o u4 \o u5 \o u6 \o u7, g)  BY <1>0, <1>6, YieldsBoth
<1>8. Yields(s, u1 \o u2 \o u3 \o u4 \o u5 \o u6 \o u7 \o u8, h)  BY <1>0, <1>7, YieldsBoth
<1>9. Yields(h, d8 \o d7, f)  BY <1>1, YieldsBoth
<1>10. Yields(h, d8 \o d7 \o d6, e)  BY <1>1, <1>9, YieldsBoth
<1>11. Yields(h, d8 \o d7 \o d6 \o d5, d)  BY <1>1, <1>10, YieldsBoth
<1>12. Yields(h, d8 \o d7 \o d6 \o d5 \o d4, c)  BY <1>1, <1>11, YieldsBoth
<1>13. Yields(h, d8 \o d7 \o d6 \o d5 \o d4 \o d3, b)  BY <1>1, <1>12, YieldsBoth
<1>14. Yields(h, d8 \o d7 \o d6 \o d5 \o d4 \o d3 \o d2, a)  BY <1>1, <1>13, YieldsBoth
<1>15. Yields(h, d8 \o d7 \o d6 \o d5 \o d4 \o d3 \o d2 \o d1, s)  BY <1>1, <1>14, YieldsBoth
<1> QED  BY <1>8, <1>15 DEF Turns

LEMMA Revision0001 ==
  ASSUME NEW s, Stands(s, 0)
  PROVE  \E u : Stands(u, 1) /\ Turns(s, Tables!Up0001, Tables!Down0001, u)
<1>0. Good(s, {}, {}, {})  BY DEF Stands
<1>1. {} \cap {"tenants", "tenant_domains"} = {}
  OBVIOUS
<1>2. Owed("tenants", {Row("tenants", k) : k \in {}})
  BY DEF Owed
<1>3. PICK a : /\ Good(a, {} \cup {"tenants"}, {}, {})
               /\ Turns(s, Tables!Create("tenants", {}), Tables!Drop("tenants"), a)
  BY <1>0, <1>1, <1>2, CreateTurns
<1>4. PICK b : /\ Good(b, {} \cup {"tenants"} \cup {"tenant_domains"}, {}, {})
               /\ Turns(a, Tables!Owned("tenant_domains", {}), Tables!Drop("tenant_domains"), b)
  BY <1>3, <1>1, OwnedTurns DEF Ordinary
<1>5. Stands(b, 1)
  <2>1. {} = Tables0001 \ Tables!Platform
    BY DEF Tables!Platform, Tables0001
  <2> QED  BY <1>4, <2>1 DEF Stands, Tables0001
<1>6. Turns(s, Tables!Up0001, Tables!Down0001, b)
  BY <1>3, <1>4, Turns2 DEF Tables!Up0001, Tables!Down0001
<1> QED  BY <1>5, <1>6

LEMMA Revision0002 ==
  ASSUME NEW s, Stands(s, 1)
  PROVE  \E u : Stands(u, 2) /\ Turns(s, Tables!Up0002, Tables!Down0002, u)
<1>0. Good(s, Tables0001, Tables0001 \ Tables!Platform, {})  BY DEF Stands
<1>1. /\ Tables0001 \cap {"users", "sessions"} = {}
      /\ {"tenants"} \subseteq Tables0001
  BY DEF Tables0001
<1>2. \A k \in {Tables!Maybe("tenant_id", "tenants", "CASCADE")} : Refers("users", k, Tables0001)
  BY <1>1, OtherKeys
<1>3. Owed("users", {Row("users", k) : k \in {Tables!Maybe("tenant_id", "tenants", "CASCADE")}})
  BY OwedBy DEF Parent, Tables!Key, Tables!Maybe
<1>4. PICK a : /\ Good(a, Tables0001 \cup {"users"}, Tables0001 \ Tables!Platform, {})
               /\ Turns(s, Tables!Create("users", {Tables!Maybe("tenant_id", "tenants", "CASCADE")}),
                      Tables!Drop("users"), a)
  BY <1>0, <1>1, <1>3, <1>2, CreateTurns
<1>5. \A k \in {Tables!Key("user_id", "users", "CASCADE")} : Refers("sessions", k, Tables0001 \cup {"users"})
  BY <1>1, OtherKeys
<1>6. Owed("sessions", {Row("sessions", k) : k \in {Tables!Key("user_id", "users", "CASCADE")}})
  BY OwedBy DEF Parent, Tables!Key, Tables!Maybe
<1>7. PICK b : /\ Good(b, Tables0001 \cup {"users"} \cup {"sessions"}, Tables0001 \ Tables!Platform, {})
               /\ Turns(a, Tables!Create("sessions", {Tables!Key("user_id", "users", "CASCADE")}),
                      Tables!Drop("sessions"), b)
  BY <1>4, <1>1, <1>6, <1>5, CreateTurns
<1>8. PICK c : /\ Good(c, Tables0001 \cup {"users"} \cup {"sessions"}, (Tables0001 \ Tables!Platform)
                      \cup {"users", "sessions"}, {})
               /\ Turns(b, Tables!Guard({"users", "sessions"}), Tables!Unguard({"sessions", "users"}), c)
  BY <1>7, <1>1, GuardTurns DEF Tables!Platform
<1>9. Stands(c, 2)
  <2>1. (Tables0001 \ Tables!Platform) \cup {"users", "sessions"} = Tables0002 \ Tables!Platform
    BY DEF Tables!Platform, Tables0002
  <2> QED  BY <1>8, <2>1 DEF Stands, Tables0002
<1>10. Turns(s, Tables!Up0002, Tables!Down0002, c)
  BY <1>4, <1>7, <1>8, Turns3 DEF Tables!Up0002, Tables!Down0002
<1> QED  BY <1>9, <1>10

LEMMA Revision0003 ==
  ASSUME NEW s, Stands(s, 2)
  PROVE  \E u : Stands(u, 3) /\ Turns(s, Tables!Up0003, Tables!Down0003, u)
<1>0. Good(s, Tables0002, Tables0002 \ Tables!Platform, {})  BY DEF Stands
<1>1. /\ Tables0002 \cap {"listings", "listing_status_history", "listing_reference_counters"} = {}
      /\ {"tenants", "users"} \subseteq Tables0002
  BY DEF Tables0001, Tables0002
<1>2. \A k \in {Tables!Maybe("agent_id", "users", "SET NULL"), Tables!Maybe("created_by", "users",
    "SET NULL")} :
         Refers("listings", k, Tables0002)
  <2>1. Depth("users") < Depth("listings")
    BY Depths
  <2>2. Ordinary("listings")  BY DEF Ordinary
  <2> QED  BY <1>1, <2>1, <2>2, OrdinaryKey
<1>3. PICK a : /\ Good(a, Tables0002 \cup {"listings"}, Tables0002 \ Tables!Platform, {})
               /\ Turns(s, Tables!Owned("listings", {Tables!Maybe("agent_id", "users", "SET NULL"),
                      Tables!Maybe("created_by", "users",
                        "SET NULL")}), Tables!Drop("listings"), a)
  BY <1>0, <1>1, <1>2, OwnedTurns DEF Ordinary
<1>4. \A k \in {Tables!Key("listing_id", "listings", "CASCADE"), Tables!Maybe("changed_by", "users",
    "SET NULL")} :
         Refers("listing_status_history", k, Tables0002 \cup {"listings"})
  <2>1. Depth("listings") < Depth("listing_status_history") /\ Depth("users") < Depth("listing_status_history")
    BY Depths
  <2>2. Ordinary("listing_status_history")  BY DEF Ordinary
  <2> DEFINE T == Tables0002 \cup {"listings"}
  <2>3. {"listings", "users"} \subseteq T  BY <1>1
  <2> HIDE DEF T
  <2>4. \A k \in {Tables!Key("listing_id", "listings", "CASCADE"), Tables!Maybe("changed_by", "users",
      "SET NULL")} : Refers("listing_status_history", k, T)
    BY <2>1, <2>2, <2>3, OrdinaryKey
  <2> QED  BY <2>4 DEF T
<1>5. PICK b : /\ Good(b, Tables0002 \cup {"listings"} \cup {"listing_status_history"},
                      Tables0002 \ Tables!Platform, {})
               /\ Turns(a, Tables!Owned("listing_status_history", {Tables!Key("listing_id", "listings",
                      "CASCADE"), Tables!Maybe("changed_by",
                        "users", "SET NULL")}), Tables!Drop("listing_status_history"), b)
  BY <1>3, <1>1, <1>4, OwnedTurns DEF Ordinary
<1>6. PICK c : /\ Good(c, Tables0002 \cup {"listings"} \cup {"listing_status_history"}
                      \cup {"listing_reference_counters"}, Tables0002 \ Tables!Platform, {})
               /\ Turns(b, Tables!Owned("listing_reference_counters", {}),
                      Tables!Drop("listing_reference_counters"), c)
  BY <1>5, <1>1, OwnedTurns DEF Ordinary
<1>7. PICK d : /\ Good(d, Tables0002 \cup {"listings"} \cup {"listing_status_history"}
                      \cup {"listing_reference_counters"}, (Tables0002 \ Tables!Platform) \cup {"listings",
                          "listing_status_history", "listing_reference_counters"}, {})
               /\ Turns(c, Tables!Guard({"listings", "listing_status_history", "listing_reference_counters"}),
                        Tables!Unguard({"listing_reference_counters", "listing_status_history", "listings"}), d)
  BY <1>6, <1>1, GuardTurns DEF Tables!Platform
<1>8. Stands(d, 3)
  <2>1. (Tables0002 \ Tables!Platform) \cup {"listings", "listing_status_history",
      "listing_reference_counters"} = Tables0003 \ Tables!Platform
    BY DEF Tables!Platform, Tables0003
  <2> QED  BY <1>7, <2>1 DEF Stands, Tables0003
<1>9. Turns(s, Tables!Up0003, Tables!Down0003, d)
  BY <1>3, <1>5, <1>6, <1>7, Turns4 DEF Tables!Up0003, Tables!Listings0003, Tables!Down0003
<1> QED  BY <1>8, <1>9

LEMMA Revision0004 ==
  ASSUME NEW s, Stands(s, 3)
  PROVE  \E u : Stands(u, 4) /\ Turns(s, Tables!Up0004, Tables!Down0004, u)
<1>0. Good(s, Tables0003, Tables0003 \ Tables!Platform, {})  BY DEF Stands
<1>1. {"listings"} \subseteq Tables0003
  BY DEF Tables0001, Tables0002, Tables0003
<1>2. ({"listings"} \X {"stale_flagged_at"}) \cap ({}) = {}
  OBVIOUS
<1>3. PICK a : /\ Good(a, Tables0003, Tables0003 \ Tables!Platform, {}
                      \cup ({"listings"} \X {"stale_flagged_at"}))
               /\ Turns(s, Tables!AddColumns("listings", {"stale_flagged_at"}), Tables!DropColumns("listings",
                      {"stale_flagged_at"}), a)
  BY <1>0, <1>1, <1>2, AddTurns
<1>4. Stands(a, 4)
  <2>1. TRUE
    OBVIOUS
  <2> QED  BY <1>3, <2>1 DEF Stands, Added0004
<1>5. Turns(s, Tables!Up0004, Tables!Down0004, a)
  BY <1>3 DEF Tables!Up0004, Tables!Down0004
<1> QED  BY <1>4, <1>5

LEMMA Revision0005 ==
  ASSUME NEW s, Stands(s, 4)
  PROVE  \E u : Stands(u, 5) /\ Turns(s, Tables!Up0005, Tables!Down0005, u)
<1>0. Good(s, Tables0003, Tables0003 \ Tables!Platform, Added0004)  BY DEF Stands
<1>1. /\ Tables0003 \cap {"listing_media"} = {}
      /\ {"listings", "tenants", "users"} \subseteq Tables0003
  BY DEF Tables0001, Tables0002, Tables0003
<1>2. \A k \in {Tables!Key("listing_id", "listings", "CASCADE"), Tables!Maybe("created_by", "users",
    "SET NULL")} :
         Refers("listing_media", k, Tables0003)
  <2>1. Depth("listings") < Depth("listing_media") /\ Depth("users") < Depth("listing_media")
    BY Depths
  <2>2. Ordinary("listing_media")  BY DEF Ordinary
  <2> QED  BY <1>1, <2>1, <2>2, OrdinaryKey
<1>3. PICK a : /\ Good(a, Tables0003 \cup {"listing_media"}, Tables0003 \ Tables!Platform, Added0004)
               /\ Turns(s, Tables!Owned("listing_media", {Tables!Key("listing_id", "listings", "CASCADE"),
                      Tables!Maybe("created_by", "users",
                        "SET NULL")}), Tables!Drop("listing_media"), a)
  BY <1>0, <1>1, <1>2, OwnedTurns DEF Ordinary
<1>4. PICK b : /\ Good(b, Tables0003 \cup {"listing_media"}, (Tables0003 \ Tables!Platform)
                      \cup {"listing_media"}, Added0004)
               /\ Turns(a, Tables!Guard({"listing_media"}), Tables!Unguard({"listing_media"}), b)
  BY <1>3, <1>1, GuardTurns DEF Tables!Platform
<1>5. Stands(b, 5)
  <2>1. (Tables0003 \ Tables!Platform) \cup {"listing_media"} = Tables0005 \ Tables!Platform
    BY DEF Tables!Platform, Tables0005
  <2> QED  BY <1>4, <2>1 DEF Stands, Tables0005
<1>6. Turns(s, Tables!Up0005, Tables!Down0005, b)
  BY <1>3, <1>4, Turns2 DEF Tables!Up0005, Tables!Down0005
<1> QED  BY <1>5, <1>6

LEMMA Revision0006 ==
  ASSUME NEW s, Stands(s, 5)
  PROVE  \E u : Stands(u, 6) /\ Turns(s, Tables!Up0006, Tables!Down0006, u)
<1>0. Good(s, Tables0005, Tables0005 \ Tables!Platform, Added0004)  BY DEF Stands
<1>1. {"listings"} \subseteq Tables0005
  BY DEF Tables0001, Tables0002, Tables0003, Tables0005
<1>2. ({"listings"} \X {"featured"}) \cap (Added0004) = {}
  BY DEF Added0004
<1>3. PICK a : /\ Good(a, Tables0005, Tables0005 \ Tables!Platform, Added0004
                      \cup ({"listings"} \X {"featured"}))
               /\ Turns(s, Tables!AddColumns("listings", {"featured"}), Tables!DropColumns("listings",
                      {"featured"}), a)
  BY <1>0, <1>1, <1>2, AddTurns
<1>4. ({"listings"} \X {"search_vector"}) \cap (Added0004 \cup ({"listings"} \X {"featured"})) = {}
  BY DEF Added0004
<1>5. PICK b : /\ Good(b, Tables0005, Tables0005 \ Tables!Platform, Added0004
                      \cup ({"listings"} \X {"featured"}) \cup ({"listings"} \X {"search_vector"}))
               /\ Turns(a, Tables!AddColumns("listings", {"search_vector"}), Tables!DropColumns("listings",
                      {"search_vector"}), b)
  BY <1>3, <1>1, <1>4, AddTurns
<1>6. Stands(b, 6)
  <2>1. TRUE
    OBVIOUS
  <2> QED  BY <1>5, <2>1 DEF Stands, Added0006
<1>7. Turns(s, Tables!Up0006, Tables!Down0006, b)
  BY <1>3, <1>5, Turns2 DEF Tables!Up0006, Tables!Down0006
<1> QED  BY <1>6, <1>7

LEMMA Revision0007 ==
  ASSUME NEW s, Stands(s, 6)
  PROVE  \E u : Stands(u, 7) /\ Turns(s, Tables!Up0007, Tables!Down0007, u)
<1>0. Good(s, Tables0005, Tables0005 \ Tables!Platform, Added0006)  BY DEF Stands
<1>1. /\ Tables0005 \cap {"contacts", "leads", "lead_activities", "assignment_rules", "lead_drip_state"} = {}
      /\ {"listings", "tenants", "users"} \subseteq Tables0005
  BY DEF Tables0001, Tables0002, Tables0003, Tables0005
<1>2. PICK a : /\ Good(a, Tables0005 \cup {"contacts"}, Tables0005 \ Tables!Platform, Added0006)
               /\ Turns(s, Tables!Owned("contacts", {}), Tables!Drop("contacts"), a)
  BY <1>0, <1>1, OwnedTurns DEF Ordinary
<1>3. \A k \in {Tables!Key("contact_id", "contacts", "CASCADE"), Tables!Maybe("listing_id", "listings",
    "SET NULL"),
         Tables!Maybe("agent_id", "users", "SET NULL")} : Refers("leads", k, Tables0005 \cup {"contacts"})
  <2>1. Depth("contacts") < Depth("leads") /\ Depth("listings") < Depth("leads") /\ Depth("users") < Depth("leads")
    BY Depths
  <2>2. Ordinary("leads")  BY DEF Ordinary
  <2> DEFINE T == Tables0005 \cup {"contacts"}
  <2>3. {"contacts", "listings", "users"} \subseteq T  BY <1>1
  <2> HIDE DEF T
  <2>4. \A k \in {Tables!Key("contact_id", "contacts", "CASCADE"), Tables!Maybe("listing_id", "listings",
      "SET NULL"), Tables!Maybe("agent_id", "users", "SET NULL")} : Refers("leads", k, T)
    BY <2>1, <2>2, <2>3, OrdinaryKey
  <2> QED  BY <2>4 DEF T
<1>4. PICK b : /\ Good(b, Tables0005 \cup {"contacts"} \cup {"leads"}, Tables0005 \ Tables!Platform, Added0006)
               /\ Turns(a, Tables!Owned("leads", {Tables!Key("contact_id", "contacts", "CASCADE"),
                      Tables!Maybe("listing_id", "listings",
                        "SET NULL"), Tables!Maybe("agent_id", "users", "SET NULL")}), Tables!Drop("leads"), b)
  BY <1>2, <1>1, <1>3, OwnedTurns DEF Ordinary
<1>5. \A k \in {Tables!Key("lead_id", "leads", "CASCADE"), Tables!Maybe("actor_id", "users", "SET NULL")} :
         Refers("lead_activities", k, Tables0005 \cup {"contacts"} \cup {"leads"})
  <2>1. Depth("leads") < Depth("lead_activities") /\ Depth("users") < Depth("lead_activities")
    BY Depths
  <2>2. Ordinary("lead_activities")  BY DEF Ordinary
  <2> DEFINE T == Tables0005 \cup {"contacts"} \cup {"leads"}
  <2>3. {"leads", "users"} \subseteq T  BY <1>1
  <2> HIDE DEF T
  <2>4. \A k \in {Tables!Key("lead_id", "leads", "CASCADE"), Tables!Maybe("actor_id", "users",
      "SET NULL")} : Refers("lead_activities", k, T)
    BY <2>1, <2>2, <2>3, OrdinaryKey
  <2> QED  BY <2>4 DEF T
<1>6. PICK c : /\ Good(c, Tables0005 \cup {"contacts"} \cup {"leads"} \cup {"lead_activities"},
                      Tables0005 \ Tables!Platform, Added0006)
               /\ Turns(b, Tables!Owned("lead_activities", {Tables!Key("lead_id", "leads", "CASCADE"),
                      Tables!Maybe("actor_id", "users",
                        "SET NULL")}), Tables!Drop("lead_activities"), c)
  BY <1>4, <1>1, <1>5, OwnedTurns DEF Ordinary
<1>7. PICK d : /\ Good(d, Tables0005 \cup {"contacts"} \cup {"leads"} \cup {"lead_activities"}
                      \cup {"assignment_rules"}, Tables0005 \ Tables!Platform, Added0006)
               /\ Turns(c, Tables!Owned("assignment_rules", {}), Tables!Drop("assignment_rules"), d)
  BY <1>6, <1>1, OwnedTurns DEF Ordinary
<1>8. \A k \in {Tables!Key("lead_id", "leads", "CASCADE")} : Refers("lead_drip_state", k, Tables0005 \cup
         {"contacts"} \cup {"leads"} \cup {"lead_activities"} \cup {"assignment_rules"})
  <2>1. Depth("leads") < Depth("lead_drip_state")
    BY Depths
  <2>2. Ordinary("lead_drip_state")  BY DEF Ordinary
  <2> DEFINE T == Tables0005 \cup {"contacts"} \cup {"leads"} \cup {"lead_activities"} \cup {"assignment_rules"}
  <2>3. {"leads"} \subseteq T  BY <1>1
  <2> HIDE DEF T
  <2>4. \A k \in {Tables!Key("lead_id", "leads", "CASCADE")} : Refers("lead_drip_state", k, T)
    BY <2>1, <2>2, <2>3, OrdinaryKey
  <2> QED  BY <2>4 DEF T
<1>9. PICK e : /\ Good(e, Tables0005 \cup {"contacts"} \cup {"leads"} \cup {"lead_activities"}
                      \cup {"assignment_rules"} \cup {"lead_drip_state"}, Tables0005 \ Tables!Platform,
                          Added0006)
               /\ Turns(d, Tables!Owned("lead_drip_state", {Tables!Key("lead_id", "leads", "CASCADE")}),
                      Tables!Drop("lead_drip_state"), e)
  BY <1>7, <1>1, <1>8, OwnedTurns DEF Ordinary
<1>10. PICK f : /\ Good(f, Tables0005 \cup {"contacts"} \cup {"leads"} \cup {"lead_activities"}
                       \cup {"assignment_rules"} \cup {"lead_drip_state"}, (Tables0005 \ Tables!Platform)
                           \cup {"contacts", "leads", "lead_activities", "assignment_rules", "lead_drip_state"},
                               Added0006)
               /\ Turns(e, Tables!Guard({"contacts", "leads", "lead_activities", "assignment_rules",
                      "lead_drip_state"}),
                        Tables!Unguard({"lead_drip_state", "assignment_rules", "lead_activities", "leads",
                        "contacts"}), f)
  BY <1>9, <1>1, GuardTurns DEF Tables!Platform
<1>11. Stands(f, 7)
  <2>1. (Tables0005 \ Tables!Platform) \cup {"contacts", "leads", "lead_activities", "assignment_rules",
      "lead_drip_state"} = Tables0007 \ Tables!Platform
    BY DEF Tables!Platform, Tables0007
  <2> QED  BY <1>10, <2>1 DEF Stands, Tables0007
<1>12. Turns(s, Tables!Up0007, Tables!Down0007, f)
  <2> DEFINE u1 == Tables!Owned("contacts", {})
             u2 == Tables!Owned("leads", {Tables!Key("contact_id", "contacts", "CASCADE"),
                    Tables!Maybe("listing_id", "listings", "SET NULL"), Tables!Maybe("agent_id", "users",
                    "SET NULL")})
             u3 == Tables!Owned("lead_activities", {Tables!Key("lead_id", "leads", "CASCADE"),
                    Tables!Maybe("actor_id", "users", "SET NULL")})
             u4 == Tables!Owned("assignment_rules", {})
             u5 == Tables!Owned("lead_drip_state", {Tables!Key("lead_id", "leads", "CASCADE")})
             u6 == Tables!Guard({"contacts", "leads", "lead_activities", "assignment_rules",
                    "lead_drip_state"})
             d1 == Tables!Drop("contacts")
             d2 == Tables!Drop("leads")
             d3 == Tables!Drop("lead_activities")
             d4 == Tables!Drop("assignment_rules")
             d5 == Tables!Drop("lead_drip_state")
             d6 == Tables!Unguard({"lead_drip_state", "assignment_rules", "lead_activities", "leads",
                    "contacts"})
  <2>1. /\ Turns(s, u1, d1, a) /\ Turns(a, u2, d2, b) /\ Turns(b, u3, d3, c)
        /\ Turns(c, u4, d4, d) /\ Turns(d, u5, d5, e) /\ Turns(e, u6, d6, f)
    BY <1>2, <1>4, <1>6, <1>7, <1>9, <1>10
  <2> HIDE DEF u1, u2, u3, u4, u5, u6, d1, d2, d3, d4, d5, d6
  <2>2. Turns(s, u1 \o u2 \o u3 \o u4 \o u5 \o u6, d6 \o d5 \o d4 \o d3 \o d2 \o d1, f)  BY <2>1, Turns6
  <2> QED  BY <2>2 DEF Tables!Up0007, Tables!Leads0007, Tables!Down0007,
                      u1, u2, u3, u4, u5, u6, d1, d2, d3, d4, d5, d6
<1> QED  BY <1>11, <1>12

LEMMA Revision0008 ==
  ASSUME NEW s, Stands(s, 7)
  PROVE  \E u : Stands(u, 8) /\ Turns(s, Tables!Up0008, Tables!Down0008, u)
<1>0. Good(s, Tables0007, Tables0007 \ Tables!Platform, Added0006)  BY DEF Stands
<1>1. /\ Tables0007 \cap {"agent_profiles", "teams", "team_members"} = {}
      /\ {"tenants", "users"} \subseteq Tables0007
  BY DEF Tables0001, Tables0002, Tables0003, Tables0005, Tables0007
<1>2. \A k \in {Tables!Key("user_id", "users", "CASCADE")} : Refers("agent_profiles", k, Tables0007)
  <2>1. Depth("users") < Depth("agent_profiles")
    BY Depths
  <2>2. Ordinary("agent_profiles")  BY DEF Ordinary
  <2> QED  BY <1>1, <2>1, <2>2, OrdinaryKey
<1>3. PICK a : /\ Good(a, Tables0007 \cup {"agent_profiles"}, Tables0007 \ Tables!Platform, Added0006)
               /\ Turns(s, Tables!Owned("agent_profiles", {Tables!Key("user_id", "users", "CASCADE")}),
                      Tables!Drop("agent_profiles"), a)
  BY <1>0, <1>1, <1>2, OwnedTurns DEF Ordinary
<1>4. \A k \in {Tables!Maybe("lead_user_id", "users", "SET NULL")} : Refers("teams", k, Tables0007 \cup
         {"agent_profiles"})
  <2>1. Depth("users") < Depth("teams")
    BY Depths
  <2>2. Ordinary("teams")  BY DEF Ordinary
  <2> DEFINE T == Tables0007 \cup {"agent_profiles"}
  <2>3. {"users"} \subseteq T  BY <1>1
  <2> HIDE DEF T
  <2>4. \A k \in {Tables!Maybe("lead_user_id", "users", "SET NULL")} : Refers("teams", k, T)
    BY <2>1, <2>2, <2>3, OrdinaryKey
  <2> QED  BY <2>4 DEF T
<1>5. PICK b : /\ Good(b, Tables0007 \cup {"agent_profiles"} \cup {"teams"}, Tables0007 \ Tables!Platform,
                      Added0006)
               /\ Turns(a, Tables!Owned("teams", {Tables!Maybe("lead_user_id", "users", "SET NULL")}),
                      Tables!Drop("teams"), b)
  BY <1>3, <1>1, <1>4, OwnedTurns DEF Ordinary
<1>6. \A k \in {Tables!Key("team_id", "teams", "CASCADE"), Tables!Key("user_id", "users", "CASCADE")} :
         Refers("team_members", k, Tables0007 \cup {"agent_profiles"} \cup {"teams"})
  <2>1. Depth("teams") < Depth("team_members") /\ Depth("users") < Depth("team_members")
    BY Depths
  <2>2. Ordinary("team_members")  BY DEF Ordinary
  <2> DEFINE T == Tables0007 \cup {"agent_profiles"} \cup {"teams"}
  <2>3. {"teams", "users"} \subseteq T  BY <1>1
  <2> HIDE DEF T
  <2>4. \A k \in {Tables!Key("team_id", "teams", "CASCADE"), Tables!Key("user_id", "users",
      "CASCADE")} : Refers("team_members", k, T)
    BY <2>1, <2>2, <2>3, OrdinaryKey
  <2> QED  BY <2>4 DEF T
<1>7. PICK c : /\ Good(c, Tables0007 \cup {"agent_profiles"} \cup {"teams"} \cup {"team_members"},
                      Tables0007 \ Tables!Platform, Added0006)
               /\ Turns(b, Tables!Owned("team_members", {Tables!Key("team_id", "teams", "CASCADE"),
                      Tables!Key("user_id", "users", "CASCADE")}),
                        Tables!Drop("team_members"), c)
  BY <1>5, <1>1, <1>6, OwnedTurns DEF Ordinary
<1>8. PICK d : /\ Good(d, Tables0007 \cup {"agent_profiles"} \cup {"teams"} \cup {"team_members"},
                      (Tables0007 \ Tables!Platform) \cup {"agent_profiles", "teams", "team_members"},
                          Added0006)
               /\ Turns(c, Tables!Guard({"agent_profiles", "teams", "team_members"}),
                      Tables!Unguard({"team_members", "teams",
                        "agent_profiles"}), d)
  BY <1>7, <1>1, GuardTurns DEF Tables!Platform
<1>9. Stands(d, 8)
  <2>1. (Tables0007 \ Tables!Platform) \cup {"agent_profiles", "teams",
      "team_members"} = Tables0008 \ Tables!Platform
    BY DEF Tables!Platform, Tables0008
  <2> QED  BY <1>8, <2>1 DEF Stands, Tables0008
<1>10. Turns(s, Tables!Up0008, Tables!Down0008, d)
  BY <1>3, <1>5, <1>7, <1>8, Turns4 DEF Tables!Up0008, Tables!Agents0008, Tables!Down0008
<1> QED  BY <1>9, <1>10

LEMMA Revision0009 ==
  ASSUME NEW s, Stands(s, 8)
  PROVE  \E u : Stands(u, 9) /\ Turns(s, Tables!Up0009, Tables!Down0009, u)
<1>0. Good(s, Tables0008, Tables0008 \ Tables!Platform, Added0006)  BY DEF Stands
<1>1. /\ Tables0008 \cap {"favorites", "saved_searches"} = {}
      /\ {"listings", "tenants", "users"} \subseteq Tables0008
  BY DEF Tables0001, Tables0002, Tables0003, Tables0005, Tables0007, Tables0008
<1>2. \A k \in {Tables!Key("user_id", "users", "CASCADE"), Tables!Key("listing_id", "listings", "CASCADE")} :
         Refers("favorites", k, Tables0008)
  <2>1. Depth("users") < Depth("favorites") /\ Depth("listings") < Depth("favorites")
    BY Depths
  <2>2. Ordinary("favorites")  BY DEF Ordinary
  <2> QED  BY <1>1, <2>1, <2>2, OrdinaryKey
<1>3. PICK a : /\ Good(a, Tables0008 \cup {"favorites"}, Tables0008 \ Tables!Platform, Added0006)
               /\ Turns(s, Tables!Owned("favorites", {Tables!Key("user_id", "users", "CASCADE"),
                      Tables!Key("listing_id", "listings", "CASCADE")}),
                        Tables!Drop("favorites"), a)
  BY <1>0, <1>1, <1>2, OwnedTurns DEF Ordinary
<1>4. \A k \in {Tables!Maybe("user_id", "users", "CASCADE")} : Refers("saved_searches", k, Tables0008 \cup
         {"favorites"})
  <2>1. Depth("users") < Depth("saved_searches")
    BY Depths
  <2>2. Ordinary("saved_searches")  BY DEF Ordinary
  <2> DEFINE T == Tables0008 \cup {"favorites"}
  <2>3. {"users"} \subseteq T  BY <1>1
  <2> HIDE DEF T
  <2>4. \A k \in {Tables!Maybe("user_id", "users", "CASCADE")} : Refers("saved_searches", k, T)
    BY <2>1, <2>2, <2>3, OrdinaryKey
  <2> QED  BY <2>4 DEF T
<1>5. PICK b : /\ Good(b, Tables0008 \cup {"favorites"} \cup {"saved_searches"}, Tables0008 \ Tables!Platform,
                      Added0006)
               /\ Turns(a, Tables!Owned("saved_searches", {Tables!Maybe("user_id", "users", "CASCADE")}),
                      Tables!Drop("saved_searches"), b)
  BY <1>3, <1>1, <1>4, OwnedTurns DEF Ordinary
<1>6. PICK c : /\ Good(c, Tables0008 \cup {"favorites"} \cup {"saved_searches"}, (Tables0008 \ Tables!Platform)
                      \cup {"favorites", "saved_searches"}, Added0006)
               /\ Turns(b, Tables!Guard({"favorites", "saved_searches"}), Tables!Unguard({"saved_searches",
                      "favorites"}), c)
  BY <1>5, <1>1, GuardTurns DEF Tables!Platform
<1>7. Stands(c, 9)
  <2>1. (Tables0008 \ Tables!Platform) \cup {"favorites", "saved_searches"} = Tables0009 \ Tables!Platform
    BY DEF Tables!Platform, Tables0009
  <2> QED  BY <1>6, <2>1 DEF Stands, Tables0009
<1>8. Turns(s, Tables!Up0009, Tables!Down0009, c)
  BY <1>3, <1>5, <1>6, Turns3 DEF Tables!Up0009, Tables!Down0009
<1> QED  BY <1>7, <1>8

LEMMA Revision0010 ==
  ASSUME NEW s, Stands(s, 9)
  PROVE  \E u : Stands(u, 10) /\ Turns(s, Tables!Up0010, Tables!Down0010, u)
<1>0. Good(s, Tables0009, Tables0009 \ Tables!Platform, Added0006)  BY DEF Stands
<1>1. {"agent_profiles"} \subseteq Tables0009
  BY DEF Tables0001, Tables0002, Tables0003, Tables0005, Tables0007, Tables0008, Tables0009
<1>2. ({"agent_profiles"} \X {"whatsapp_number"}) \cap (Added0006) = {}
  BY DEF Added0004, Added0006
<1>3. PICK a : /\ Good(a, Tables0009, Tables0009 \ Tables!Platform, Added0006
                      \cup ({"agent_profiles"} \X {"whatsapp_number"}))
               /\ Turns(s, Tables!AddColumns("agent_profiles", {"whatsapp_number"}),
                      Tables!DropColumns("agent_profiles",
                        {"whatsapp_number"}), a)
  BY <1>0, <1>1, <1>2, AddTurns
<1>4. Stands(a, 10)
  <2>1. TRUE
    OBVIOUS
  <2> QED  BY <1>3, <2>1 DEF Stands, Added0010
<1>5. Turns(s, Tables!Up0010, Tables!Down0010, a)
  BY <1>3 DEF Tables!Up0010, Tables!Down0010
<1> QED  BY <1>4, <1>5

LEMMA Revision0011 ==
  ASSUME NEW s, Stands(s, 10)
  PROVE  \E u : Stands(u, 11) /\ Turns(s, Tables!Up0011, Tables!Down0011, u)
<1>0. Good(s, Tables0009, Tables0009 \ Tables!Platform, Added0010)  BY DEF Stands
<1>1. /\ Tables0009 \cap {"agent_availability", "appointments"} = {}
      /\ {"contacts", "leads", "listings", "tenants", "users"} \subseteq Tables0009
  BY DEF Tables0001, Tables0002, Tables0003, Tables0005, Tables0007, Tables0008, Tables0009
<1>2. \A k \in {Tables!Key("agent_user_id", "users", "CASCADE")} : Refers("agent_availability", k, Tables0009)
  <2>1. Depth("users") < Depth("agent_availability")
    BY Depths
  <2>2. Ordinary("agent_availability")  BY DEF Ordinary
  <2> QED  BY <1>1, <2>1, <2>2, OrdinaryKey
<1>3. PICK a : /\ Good(a, Tables0009 \cup {"agent_availability"}, Tables0009 \ Tables!Platform, Added0010)
               /\ Turns(s, Tables!Owned("agent_availability", {Tables!Key("agent_user_id", "users",
                      "CASCADE")}), Tables!Drop("agent_availability"),
                        a)
  BY <1>0, <1>1, <1>2, OwnedTurns DEF Ordinary
<1>4. \A k \in {Tables!Key("agent_user_id", "users", "CASCADE"), Tables!Maybe("listing_id", "listings",
    "SET NULL"),
         Tables!Key("contact_id", "contacts", "CASCADE"), Tables!Maybe("lead_id", "leads", "SET NULL")} :
         Refers("appointments", k, Tables0009 \cup {"agent_availability"})
  <2>1. Depth("users") < Depth("appointments") /\ Depth("listings") < Depth("appointments") /\
        Depth("contacts") < Depth("appointments") /\ Depth("leads") < Depth("appointments")
    BY Depths
  <2>2. Ordinary("appointments")  BY DEF Ordinary
  <2> DEFINE T == Tables0009 \cup {"agent_availability"}
  <2>3. {"users", "listings", "contacts", "leads"} \subseteq T  BY <1>1
  <2> HIDE DEF T
  <2>4. \A k \in {Tables!Key("agent_user_id", "users", "CASCADE"), Tables!Maybe("listing_id", "listings",
      "SET NULL"), Tables!Key("contact_id", "contacts", "CASCADE"), Tables!Maybe("lead_id", "leads",
          "SET NULL")} : Refers("appointments", k, T)
    BY <2>1, <2>2, <2>3, OrdinaryKey
  <2> QED  BY <2>4 DEF T
<1>5. PICK b : /\ Good(b, Tables0009 \cup {"agent_availability"} \cup {"appointments"},
                      Tables0009 \ Tables!Platform, Added0010)
               /\ Turns(a, Tables!Owned("appointments", {Tables!Key("agent_user_id", "users", "CASCADE"),
                      Tables!Maybe("listing_id", "listings",
                        "SET NULL"), Tables!Key("contact_id", "contacts", "CASCADE"), Tables!Maybe("lead_id",
                            "leads",
                        "SET NULL")}), Tables!Drop("appointments"), b)
  BY <1>3, <1>1, <1>4, OwnedTurns DEF Ordinary
<1>6. PICK c : /\ Good(c, Tables0009 \cup {"agent_availability"} \cup {"appointments"},
                      (Tables0009 \ Tables!Platform) \cup {"agent_availability", "appointments"}, Added0010)
               /\ Turns(b, Tables!Guard({"agent_availability", "appointments"}), Tables!Unguard({"appointments",
                      "agent_availability"}), c)
  BY <1>5, <1>1, GuardTurns DEF Tables!Platform
<1>7. Stands(c, 11)
  <2>1. (Tables0009 \ Tables!Platform) \cup {"agent_availability",
      "appointments"} = Tables0011 \ Tables!Platform
    BY DEF Tables!Platform, Tables0011
  <2> QED  BY <1>6, <2>1 DEF Stands, Tables0011
<1>8. Turns(s, Tables!Up0011, Tables!Down0011, c)
  BY <1>3, <1>5, <1>6, Turns3 DEF Tables!Up0011, Tables!Down0011
<1> QED  BY <1>7, <1>8

LEMMA Revision0012 ==
  ASSUME NEW s, Stands(s, 11)
  PROVE  \E u : Stands(u, 12) /\ Turns(s, Tables!Up0012, Tables!Down0012, u)
<1>0. Good(s, Tables0011, Tables0011 \ Tables!Platform, Added0010)  BY DEF Stands
<1>1. /\ Tables0011 \cap {"valuation_requests"} = {}
      /\ {"contacts", "leads", "tenants"} \subseteq Tables0011
  BY DEF Tables0001, Tables0002, Tables0003, Tables0005, Tables0007, Tables0008, Tables0009, Tables0011
<1>2. \A k \in {Tables!Maybe("contact_id", "contacts", "SET NULL"), Tables!Maybe("lead_id", "leads",
    "SET NULL")} :
         Refers("valuation_requests", k, Tables0011)
  <2>1. Depth("contacts") < Depth("valuation_requests") /\ Depth("leads") < Depth("valuation_requests")
    BY Depths
  <2>2. Ordinary("valuation_requests")  BY DEF Ordinary
  <2> QED  BY <1>1, <2>1, <2>2, OrdinaryKey
<1>3. PICK a : /\ Good(a, Tables0011 \cup {"valuation_requests"}, Tables0011 \ Tables!Platform, Added0010)
               /\ Turns(s, Tables!Owned("valuation_requests", {Tables!Maybe("contact_id", "contacts",
                      "SET NULL"), Tables!Maybe("lead_id", "leads",
                        "SET NULL")}), Tables!Drop("valuation_requests"), a)
  BY <1>0, <1>1, <1>2, OwnedTurns DEF Ordinary
<1>4. PICK b : /\ Good(b, Tables0011 \cup {"valuation_requests"}, (Tables0011 \ Tables!Platform)
                      \cup {"valuation_requests"}, Added0010)
               /\ Turns(a, Tables!Guard({"valuation_requests"}), Tables!Unguard({"valuation_requests"}), b)
  BY <1>3, <1>1, GuardTurns DEF Tables!Platform
<1>5. Stands(b, 12)
  <2>1. (Tables0011 \ Tables!Platform) \cup {"valuation_requests"} = Tables0012 \ Tables!Platform
    BY DEF Tables!Platform, Tables0012
  <2> QED  BY <1>4, <2>1 DEF Stands, Tables0012
<1>6. Turns(s, Tables!Up0012, Tables!Down0012, b)
  BY <1>3, <1>4, Turns2 DEF Tables!Up0012, Tables!Down0012
<1> QED  BY <1>5, <1>6

LEMMA Revision0013 ==
  ASSUME NEW s, Stands(s, 12)
  PROVE  \E u : Stands(u, 13) /\ Turns(s, Tables!Up0013, Tables!Down0013, u)
<1>0. Good(s, Tables0012, Tables0012 \ Tables!Platform, Added0010)  BY DEF Stands
<1>1. /\ Tables0012 \cap {"content_pages", "legal_pages"} = {}
      /\ {"tenants"} \subseteq Tables0012
  BY DEF Tables0001, Tables0002, Tables0003, Tables0005, Tables0007, Tables0008, Tables0009, Tables0011,
         Tables0012
<1>2. PICK a : /\ Good(a, Tables0012 \cup {"content_pages"}, Tables0012 \ Tables!Platform, Added0010)
               /\ Turns(s, Tables!Owned("content_pages", {}), Tables!Drop("content_pages"), a)
  BY <1>0, <1>1, OwnedTurns DEF Ordinary
<1>3. PICK b : /\ Good(b, Tables0012 \cup {"content_pages"} \cup {"legal_pages"}, Tables0012 \ Tables!Platform,
                      Added0010)
               /\ Turns(a, Tables!Owned("legal_pages", {}), Tables!Drop("legal_pages"), b)
  BY <1>2, <1>1, OwnedTurns DEF Ordinary
<1>4. PICK c : /\ Good(c, Tables0012 \cup {"content_pages"} \cup {"legal_pages"}, (Tables0012 \ Tables!Platform)
                      \cup {"content_pages", "legal_pages"}, Added0010)
               /\ Turns(b, Tables!Guard({"content_pages", "legal_pages"}), Tables!Unguard({"legal_pages",
                      "content_pages"}), c)
  BY <1>3, <1>1, GuardTurns DEF Tables!Platform
<1>5. Stands(c, 13)
  <2>1. (Tables0012 \ Tables!Platform) \cup {"content_pages", "legal_pages"} = Tables0013 \ Tables!Platform
    BY DEF Tables!Platform, Tables0013
  <2> QED  BY <1>4, <2>1 DEF Stands, Tables0013
<1>6. Turns(s, Tables!Up0013, Tables!Down0013, c)
  BY <1>2, <1>3, <1>4, Turns3 DEF Tables!Up0013, Tables!Down0013
<1> QED  BY <1>5, <1>6

LEMMA Revision0014 ==
  ASSUME NEW s, Stands(s, 13)
  PROVE  \E u : Stands(u, 14) /\ Turns(s, Tables!Up0014, Tables!Down0014, u)
<1>0. Good(s, Tables0013, Tables0013 \ Tables!Platform, Added0010)  BY DEF Stands
<1>1. /\ Tables0013 \cap {"blog_categories", "blog_posts"} = {}
      /\ {"tenants"} \subseteq Tables0013
  BY DEF Tables0001, Tables0002, Tables0003, Tables0005, Tables0007, Tables0008, Tables0009, Tables0011,
         Tables0012, Tables0013
<1>2. PICK a : /\ Good(a, Tables0013 \cup {"blog_categories"}, Tables0013 \ Tables!Platform, Added0010)
               /\ Turns(s, Tables!Owned("blog_categories", {}), Tables!Drop("blog_categories"), a)
  BY <1>0, <1>1, OwnedTurns DEF Ordinary
<1>3. \A k \in {Tables!Maybe("category_id", "blog_categories", "SET NULL")} : Refers("blog_posts", k, Tables0013
         \cup {"blog_categories"})
  <2>1. Depth("blog_categories") < Depth("blog_posts")
    BY Depths
  <2>2. Ordinary("blog_posts")  BY DEF Ordinary
  <2> DEFINE T == Tables0013 \cup {"blog_categories"}
  <2>3. {"blog_categories"} \subseteq T  BY <1>1
  <2> HIDE DEF T
  <2>4. \A k \in {Tables!Maybe("category_id", "blog_categories", "SET NULL")} : Refers("blog_posts", k, T)
    BY <2>1, <2>2, <2>3, OrdinaryKey
  <2> QED  BY <2>4 DEF T
<1>4. PICK b : /\ Good(b, Tables0013 \cup {"blog_categories"} \cup {"blog_posts"}, Tables0013 \ Tables!Platform,
                      Added0010)
               /\ Turns(a, Tables!Owned("blog_posts", {Tables!Maybe("category_id", "blog_categories",
                      "SET NULL")}), Tables!Drop("blog_posts"), b)
  BY <1>2, <1>1, <1>3, OwnedTurns DEF Ordinary
<1>5. PICK c : /\ Good(c, Tables0013 \cup {"blog_categories"} \cup {"blog_posts"},
                      (Tables0013 \ Tables!Platform) \cup {"blog_categories", "blog_posts"}, Added0010)
               /\ Turns(b, Tables!Guard({"blog_categories", "blog_posts"}), Tables!Unguard({"blog_posts",
                      "blog_categories"}), c)
  BY <1>4, <1>1, GuardTurns DEF Tables!Platform
<1>6. Stands(c, 14)
  <2>1. (Tables0013 \ Tables!Platform) \cup {"blog_categories", "blog_posts"} = Tables0014 \ Tables!Platform
    BY DEF Tables!Platform, Tables0014
  <2> QED  BY <1>5, <2>1 DEF Stands, Tables0014
<1>7. Turns(s, Tables!Up0014, Tables!Down0014, c)
  BY <1>2, <1>4, <1>5, Turns3 DEF Tables!Up0014, Tables!Down0014
<1> QED  BY <1>6, <1>7

LEMMA Revision0015 ==
  ASSUME NEW s, Stands(s, 14)
  PROVE  \E u : Stands(u, 15) /\ Turns(s, Tables!Up0015, Tables!Down0015, u)
<1>0. Good(s, Tables0014, Tables0014 \ Tables!Platform, Added0010)  BY DEF Stands
<1>1. /\ Tables0014 \cap {"reviews"} = {}
      /\ {"listings", "tenants", "users"} \subseteq Tables0014
  BY DEF Tables0001, Tables0002, Tables0003, Tables0005, Tables0007, Tables0008, Tables0009, Tables0011,
         Tables0012, Tables0013, Tables0014
<1>2. \A k \in {Tables!Maybe("agent_user_id", "users", "CASCADE"), Tables!Maybe("listing_id", "listings",
    "SET NULL"),
         Tables!Maybe("moderated_by", "users", "SET NULL")} : Refers("reviews", k, Tables0014)
  <2>1. Depth("users") < Depth("reviews") /\ Depth("listings") < Depth("reviews")
    BY Depths
  <2>2. Ordinary("reviews")  BY DEF Ordinary
  <2>3. Refers("reviews", Tables!Maybe("agent_user_id", "users", "CASCADE"), Tables0014)
    BY <1>1, <2>1, <2>2, OrdinaryKey
  <2>4. Refers("reviews", Tables!Maybe("listing_id", "listings", "SET NULL"), Tables0014)
    BY <1>1, <2>1, <2>2, OrdinaryKey
  <2>5. Refers("reviews", Tables!Maybe("moderated_by", "users", "SET NULL"), Tables0014)
    BY <1>1, <2>1, <2>2, OrdinaryKey
  <2> QED  BY <2>3, <2>4, <2>5
<1>3. PICK a : /\ Good(a, Tables0014 \cup {"reviews"}, Tables0014 \ Tables!Platform, Added0010)
               /\ Turns(s, Tables!Owned("reviews", {Tables!Maybe("agent_user_id", "users", "CASCADE"),
                      Tables!Maybe("listing_id", "listings",
                        "SET NULL"), Tables!Maybe("moderated_by", "users", "SET NULL")}),
                            Tables!Drop("reviews"), a)
  BY <1>0, <1>1, <1>2, OwnedTurns DEF Ordinary
<1>4. PICK b : /\ Good(b, Tables0014 \cup {"reviews"}, (Tables0014 \ Tables!Platform) \cup {"reviews"},
                      Added0010)
               /\ Turns(a, Tables!Guard({"reviews"}), Tables!Unguard({"reviews"}), b)
  BY <1>3, <1>1, GuardTurns DEF Tables!Platform
<1>5. Stands(b, 15)
  <2>1. (Tables0014 \ Tables!Platform) \cup {"reviews"} = Tables0015 \ Tables!Platform
    BY DEF Tables!Platform, Tables0015
  <2> QED  BY <1>4, <2>1 DEF Stands, Tables0015
<1>6. Turns(s, Tables!Up0015, Tables!Down0015, b)
  BY <1>3, <1>4, Turns2 DEF Tables!Up0015, Tables!Down0015
<1> QED  BY <1>5, <1>6

LEMMA Revision0016 ==
  ASSUME NEW s, Stands(s, 15)
  PROVE  \E u : Stands(u, 16) /\ Turns(s, Tables!Up0016, Tables!Down0016, u)
<1>0. Good(s, Tables0015, Tables0015 \ Tables!Platform, Added0010)  BY DEF Stands
<1>1. /\ Tables0015 \cap {"neighborhood_guides", "market_reports"} = {}
      /\ {"tenants"} \subseteq Tables0015
  BY DEF Tables0001, Tables0002, Tables0003, Tables0005, Tables0007, Tables0008, Tables0009, Tables0011,
         Tables0012, Tables0013, Tables0014, Tables0015
<1>2. PICK a : /\ Good(a, Tables0015 \cup {"neighborhood_guides"}, Tables0015 \ Tables!Platform, Added0010)
               /\ Turns(s, Tables!Owned("neighborhood_guides", {}), Tables!Drop("neighborhood_guides"), a)
  BY <1>0, <1>1, OwnedTurns DEF Ordinary
<1>3. PICK b : /\ Good(b, Tables0015 \cup {"neighborhood_guides"} \cup {"market_reports"},
                      Tables0015 \ Tables!Platform, Added0010)
               /\ Turns(a, Tables!Owned("market_reports", {}), Tables!Drop("market_reports"), b)
  BY <1>2, <1>1, OwnedTurns DEF Ordinary
<1>4. PICK c : /\ Good(c, Tables0015 \cup {"neighborhood_guides"} \cup {"market_reports"},
                      (Tables0015 \ Tables!Platform) \cup {"neighborhood_guides", "market_reports"}, Added0010)
               /\ Turns(b, Tables!Guard({"neighborhood_guides", "market_reports"}),
                      Tables!Unguard({"market_reports",
                        "neighborhood_guides"}), c)
  BY <1>3, <1>1, GuardTurns DEF Tables!Platform
<1>5. Stands(c, 16)
  <2>1. (Tables0015 \ Tables!Platform) \cup {"neighborhood_guides",
      "market_reports"} = Tables0016 \ Tables!Platform
    BY DEF Tables!Platform, Tables0016
  <2> QED  BY <1>4, <2>1 DEF Stands, Tables0016
<1>6. Turns(s, Tables!Up0016, Tables!Down0016, c)
  BY <1>2, <1>3, <1>4, Turns3 DEF Tables!Up0016, Tables!Down0016
<1> QED  BY <1>5, <1>6

LEMMA Revision0017 ==
  ASSUME NEW s, Stands(s, 16)
  PROVE  \E u : Stands(u, 17) /\ Turns(s, Tables!Up0017, Tables!Down0017, u)
<1>0. Good(s, Tables0016, Tables0016 \ Tables!Platform, Added0010)  BY DEF Stands
<1>1. /\ Tables0016 \cap {"notifications", "notification_preferences", "notification_sends",
         "notification_digest_items"} = {}
      /\ {"tenants", "users"} \subseteq Tables0016
  BY DEF Tables0001, Tables0002, Tables0003, Tables0005, Tables0007, Tables0008, Tables0009, Tables0011,
         Tables0012, Tables0013, Tables0014, Tables0015, Tables0016
<1>2. \A k \in {Tables!Key("user_id", "users", "CASCADE")} : Refers("notifications", k, Tables0016)
  <2>1. Depth("users") < Depth("notifications")
    BY Depths
  <2>2. Ordinary("notifications")  BY DEF Ordinary
  <2> QED  BY <1>1, <2>1, <2>2, OrdinaryKey
<1>3. PICK a : /\ Good(a, Tables0016 \cup {"notifications"}, Tables0016 \ Tables!Platform, Added0010)
               /\ Turns(s, Tables!Owned("notifications", {Tables!Key("user_id", "users", "CASCADE")}),
                      Tables!Drop("notifications"), a)
  BY <1>0, <1>1, <1>2, OwnedTurns DEF Ordinary
<1>4. \A k \in {Tables!Key("user_id", "users", "CASCADE")} : Refers("notification_preferences", k,
    Tables0016 \cup
         {"notifications"})
  <2>1. Depth("users") < Depth("notification_preferences")
    BY Depths
  <2>2. Ordinary("notification_preferences")  BY DEF Ordinary
  <2> DEFINE T == Tables0016 \cup {"notifications"}
  <2>3. {"users"} \subseteq T  BY <1>1
  <2> HIDE DEF T
  <2>4. \A k \in {Tables!Key("user_id", "users", "CASCADE")} : Refers("notification_preferences", k, T)
    BY <2>1, <2>2, <2>3, OrdinaryKey
  <2> QED  BY <2>4 DEF T
<1>5. PICK b : /\ Good(b, Tables0016 \cup {"notifications"} \cup {"notification_preferences"},
                      Tables0016 \ Tables!Platform, Added0010)
               /\ Turns(a, Tables!Owned("notification_preferences", {Tables!Key("user_id", "users",
                      "CASCADE")}),
                        Tables!Drop("notification_preferences"), b)
  BY <1>3, <1>1, <1>4, OwnedTurns DEF Ordinary
<1>6. \A k \in {Tables!Maybe("notification_id", "notifications", "SET NULL")} : Refers("notification_sends", k,
         Tables0016 \cup {"notifications"} \cup {"notification_preferences"})
  <2>1. Depth("notifications") < Depth("notification_sends")
    BY Depths
  <2>2. Ordinary("notification_sends")  BY DEF Ordinary
  <2> DEFINE T == Tables0016 \cup {"notifications"} \cup {"notification_preferences"}
  <2>3. {"notifications"} \subseteq T  BY <1>1
  <2> HIDE DEF T
  <2>4. \A k \in {Tables!Maybe("notification_id", "notifications", "SET NULL")} : Refers("notification_sends",
      k, T)
    BY <2>1, <2>2, <2>3, OrdinaryKey
  <2> QED  BY <2>4 DEF T
<1>7. PICK c : /\ Good(c, Tables0016 \cup {"notifications"} \cup {"notification_preferences"}
                      \cup {"notification_sends"}, Tables0016 \ Tables!Platform, Added0010)
               /\ Turns(b, Tables!Owned("notification_sends", {Tables!Maybe("notification_id", "notifications",
                      "SET NULL")}),
                        Tables!Drop("notification_sends"), c)
  BY <1>5, <1>1, <1>6, OwnedTurns DEF Ordinary
<1>8. \A k \in {Tables!Key("user_id", "users", "CASCADE"), Tables!Key("notification_id", "notifications",
    "CASCADE")} :
         Refers("notification_digest_items", k, Tables0016 \cup {"notifications"} \cup
         {"notification_preferences"} \cup {"notification_sends"})
  <2>1. Depth("users") < Depth("notification_digest_items") /\
        Depth("notifications") < Depth("notification_digest_items")
    BY Depths
  <2>2. Ordinary("notification_digest_items")  BY DEF Ordinary
  <2> DEFINE T == Tables0016 \cup {"notifications"} \cup {"notification_preferences"}
      \cup {"notification_sends"}
  <2>3. {"users", "notifications"} \subseteq T  BY <1>1
  <2> HIDE DEF T
  <2>4. \A k \in {Tables!Key("user_id", "users", "CASCADE"), Tables!Key("notification_id", "notifications",
      "CASCADE")} : Refers("notification_digest_items", k, T)
    BY <2>1, <2>2, <2>3, OrdinaryKey
  <2> QED  BY <2>4 DEF T
<1>9. PICK d : /\ Good(d, Tables0016 \cup {"notifications"} \cup {"notification_preferences"}
                      \cup {"notification_sends"} \cup {"notification_digest_items"},
                          Tables0016 \ Tables!Platform, Added0010)
               /\ Turns(c, Tables!Owned("notification_digest_items", {Tables!Key("user_id", "users", "CASCADE"),
                      Tables!Key("notification_id",
                        "notifications", "CASCADE")}), Tables!Drop("notification_digest_items"), d)
  BY <1>7, <1>1, <1>8, OwnedTurns DEF Ordinary
<1>10. PICK e : /\ Good(e, Tables0016 \cup {"notifications"} \cup {"notification_preferences"}
                       \cup {"notification_sends"} \cup {"notification_digest_items"},
                           (Tables0016 \ Tables!Platform) \cup {"notifications", "notification_preferences",
                               "notification_sends", "notification_digest_items"}, Added0010)
               /\ Turns(d, Tables!Guard({"notifications", "notification_preferences", "notification_sends",
                        "notification_digest_items"}), Tables!Unguard({"notifications",
                            "notification_preferences",
                        "notification_sends", "notification_digest_items"}), e)
  BY <1>9, <1>1, GuardTurns DEF Tables!Platform
<1>11. Stands(e, 17)
  <2>1. (Tables0016 \ Tables!Platform) \cup {"notifications", "notification_preferences", "notification_sends",
      "notification_digest_items"} = Tables0017 \ Tables!Platform
    BY DEF Tables!Platform, Tables0017
  <2> QED  BY <1>10, <2>1 DEF Stands, Tables0017
<1>12. Turns(s, Tables!Up0017, Tables!Down0017, e)
  <2> DEFINE u1 == Tables!Owned("notifications", {Tables!Key("user_id", "users", "CASCADE")})
             u2 == Tables!Owned("notification_preferences", {Tables!Key("user_id", "users", "CASCADE")})
             u3 == Tables!Owned("notification_sends", {Tables!Maybe("notification_id", "notifications",
                    "SET NULL")})
             u4 == Tables!Owned("notification_digest_items", {Tables!Key("user_id", "users", "CASCADE"),
                    Tables!Key("notification_id", "notifications", "CASCADE")})
             u5 == Tables!Guard({"notifications", "notification_preferences", "notification_sends",
                    "notification_digest_items"})
             d1 == Tables!Drop("notifications")
             d2 == Tables!Drop("notification_preferences")
             d3 == Tables!Drop("notification_sends")
             d4 == Tables!Drop("notification_digest_items")
             d5 == Tables!Unguard({"notifications", "notification_preferences", "notification_sends",
                    "notification_digest_items"})
  <2>1. /\ Turns(s, u1, d1, a) /\ Turns(a, u2, d2, b) /\ Turns(b, u3, d3, c)
        /\ Turns(c, u4, d4, d) /\ Turns(d, u5, d5, e)
    BY <1>3, <1>5, <1>7, <1>9, <1>10
  <2> HIDE DEF u1, u2, u3, u4, u5, d1, d2, d3, d4, d5
  <2>2. Turns(s, u1 \o u2 \o u3 \o u4 \o u5, d5 \o d4 \o d3 \o d2 \o d1, e)  BY <2>1, Turns5
  <2> QED  BY <2>2 DEF Tables!Up0017, Tables!Notifications0017, Tables!Down0017,
                      u1, u2, u3, u4, u5, d1, d2, d3, d4, d5
<1> QED  BY <1>11, <1>12

LEMMA Revision0018 ==
  ASSUME NEW s, Stands(s, 17)
  PROVE  \E u : Stands(u, 18) /\ Turns(s, Tables!Up0018, Tables!Down0018, u)
<1>0. Good(s, Tables0017, Tables0017 \ Tables!Platform, Added0010)  BY DEF Stands
<1>1. /\ Tables0017 \cap {"deals", "deal_milestones", "deal_documents"} = {}
      /\ {"contacts", "leads", "listings", "tenants", "users"} \subseteq Tables0017
  BY DEF Tables0001, Tables0002, Tables0003, Tables0005, Tables0007, Tables0008, Tables0009, Tables0011,
         Tables0012, Tables0013, Tables0014, Tables0015, Tables0016, Tables0017
<1>2. \A k \in {Tables!Key("owner_user_id", "users", "RESTRICT"), Tables!Maybe("listing_id", "listings",
    "SET NULL"),
         Tables!Maybe("lead_id", "leads", "SET NULL"), Tables!Maybe("contact_id", "contacts", "SET NULL")} :
         Refers("deals", k, Tables0017)
  <2>1. Depth("users") < Depth("deals") /\ Depth("listings") < Depth("deals") /\ Depth("leads") < Depth("deals") /\
        Depth("contacts") < Depth("deals")
    BY Depths
  <2>2. Ordinary("deals")  BY DEF Ordinary
  <2>3. Refers("deals", Tables!Key("owner_user_id", "users", "RESTRICT"), Tables0017)
    BY <1>1, <2>1, <2>2, OrdinaryKey
  <2>4. Refers("deals", Tables!Maybe("listing_id", "listings", "SET NULL"), Tables0017)
    BY <1>1, <2>1, <2>2, OrdinaryKey
  <2>5. Refers("deals", Tables!Maybe("lead_id", "leads", "SET NULL"), Tables0017)
    BY <1>1, <2>1, <2>2, OrdinaryKey
  <2>6. Refers("deals", Tables!Maybe("contact_id", "contacts", "SET NULL"), Tables0017)
    BY <1>1, <2>1, <2>2, OrdinaryKey
  <2> QED  BY <2>3, <2>4, <2>5, <2>6
<1>3. PICK a : /\ Good(a, Tables0017 \cup {"deals"}, Tables0017 \ Tables!Platform, Added0010)
               /\ Turns(s, Tables!Owned("deals", {Tables!Key("owner_user_id", "users", "RESTRICT"),
                      Tables!Maybe("listing_id", "listings",
                        "SET NULL"), Tables!Maybe("lead_id", "leads", "SET NULL"), Tables!Maybe("contact_id",
                            "contacts",
                        "SET NULL")}), Tables!Drop("deals"), a)
  BY <1>0, <1>1, <1>2, OwnedTurns DEF Ordinary
<1>4. \A k \in {Tables!Key("deal_id", "deals", "CASCADE"), Tables!Maybe("owner_user_id", "users", "SET NULL")} :
         Refers("deal_milestones", k, Tables0017 \cup {"deals"})
  <2>1. Depth("deals") < Depth("deal_milestones") /\ Depth("users") < Depth("deal_milestones")
    BY Depths
  <2>2. Ordinary("deal_milestones")  BY DEF Ordinary
  <2> DEFINE T == Tables0017 \cup {"deals"}
  <2>3. {"deals", "users"} \subseteq T  BY <1>1
  <2> HIDE DEF T
  <2>4. \A k \in {Tables!Key("deal_id", "deals", "CASCADE"), Tables!Maybe("owner_user_id", "users",
      "SET NULL")} : Refers("deal_milestones", k, T)
    BY <2>1, <2>2, <2>3, OrdinaryKey
  <2> QED  BY <2>4 DEF T
<1>5. PICK b : /\ Good(b, Tables0017 \cup {"deals"} \cup {"deal_milestones"}, Tables0017 \ Tables!Platform,
                      Added0010)
               /\ Turns(a, Tables!Owned("deal_milestones", {Tables!Key("deal_id", "deals", "CASCADE"),
                      Tables!Maybe("owner_user_id", "users",
                        "SET NULL")}), Tables!Drop("deal_milestones"), b)
  BY <1>3, <1>1, <1>4, OwnedTurns DEF Ordinary
<1>6. \A k \in {Tables!Key("deal_id", "deals", "CASCADE"), Tables!Maybe("uploaded_by", "users", "SET NULL")} :
         Refers("deal_documents", k, Tables0017 \cup {"deals"} \cup {"deal_milestones"})
  <2>1. Depth("deals") < Depth("deal_documents") /\ Depth("users") < Depth("deal_documents")
    BY Depths
  <2>2. Ordinary("deal_documents")  BY DEF Ordinary
  <2> DEFINE T == Tables0017 \cup {"deals"} \cup {"deal_milestones"}
  <2>3. {"deals", "users"} \subseteq T  BY <1>1
  <2> HIDE DEF T
  <2>4. \A k \in {Tables!Key("deal_id", "deals", "CASCADE"), Tables!Maybe("uploaded_by", "users",
      "SET NULL")} : Refers("deal_documents", k, T)
    BY <2>1, <2>2, <2>3, OrdinaryKey
  <2> QED  BY <2>4 DEF T
<1>7. PICK c : /\ Good(c, Tables0017 \cup {"deals"} \cup {"deal_milestones"} \cup {"deal_documents"},
                      Tables0017 \ Tables!Platform, Added0010)
               /\ Turns(b, Tables!Owned("deal_documents", {Tables!Key("deal_id", "deals", "CASCADE"),
                      Tables!Maybe("uploaded_by", "users",
                        "SET NULL")}), Tables!Drop("deal_documents"), c)
  BY <1>5, <1>1, <1>6, OwnedTurns DEF Ordinary
<1>8. PICK d : /\ Good(d, Tables0017 \cup {"deals"} \cup {"deal_milestones"} \cup {"deal_documents"},
                      (Tables0017 \ Tables!Platform) \cup {"deals", "deal_milestones", "deal_documents"},
                          Added0010)
               /\ Turns(c, Tables!Guard({"deals", "deal_milestones", "deal_documents"}),
                      Tables!Unguard({"deals", "deal_milestones",
                        "deal_documents"}), d)
  BY <1>7, <1>1, GuardTurns DEF Tables!Platform
<1>9. Stands(d, 18)
  <2>1. (Tables0017 \ Tables!Platform) \cup {"deals", "deal_milestones",
      "deal_documents"} = Tables0018 \ Tables!Platform
    BY DEF Tables!Platform, Tables0018
  <2> QED  BY <1>8, <2>1 DEF Stands, Tables0018
<1>10. Turns(s, Tables!Up0018, Tables!Down0018, d)
  BY <1>3, <1>5, <1>7, <1>8, Turns4 DEF Tables!Up0018, Tables!Deals0018, Tables!Down0018
<1> QED  BY <1>9, <1>10

LEMMA Revision0019 ==
  ASSUME NEW s, Stands(s, 18)
  PROVE  \E u : Stands(u, 19) /\ Turns(s, Tables!Up0019, Tables!Down0019, u)
<1>0. Good(s, Tables0018, Tables0018 \ Tables!Platform, Added0010)  BY DEF Stands
<1>1. /\ Tables0018 \cap {"portal_sync_state"} = {}
      /\ {"listings", "tenants"} \subseteq Tables0018
  BY DEF Tables0001, Tables0002, Tables0003, Tables0005, Tables0007, Tables0008, Tables0009, Tables0011,
         Tables0012, Tables0013, Tables0014, Tables0015, Tables0016, Tables0017, Tables0018
<1>2. \A k \in {Tables!Key("listing_id", "listings", "CASCADE")} : Refers("portal_sync_state", k, Tables0018)
  <2>1. Depth("listings") < Depth("portal_sync_state")
    BY Depths
  <2>2. Ordinary("portal_sync_state")  BY DEF Ordinary
  <2> QED  BY <1>1, <2>1, <2>2, OrdinaryKey
<1>3. PICK a : /\ Good(a, Tables0018 \cup {"portal_sync_state"}, Tables0018 \ Tables!Platform, Added0010)
               /\ Turns(s, Tables!Owned("portal_sync_state", {Tables!Key("listing_id", "listings", "CASCADE")}),
                      Tables!Drop("portal_sync_state"), a)
  BY <1>0, <1>1, <1>2, OwnedTurns DEF Ordinary
<1>4. PICK b : /\ Good(b, Tables0018 \cup {"portal_sync_state"}, (Tables0018 \ Tables!Platform)
                      \cup {"portal_sync_state"}, Added0010)
               /\ Turns(a, Tables!Guard({"portal_sync_state"}), Tables!Unguard({"portal_sync_state"}), b)
  BY <1>3, <1>1, GuardTurns DEF Tables!Platform
<1>5. Stands(b, 19)
  <2>1. (Tables0018 \ Tables!Platform) \cup {"portal_sync_state"} = Tables0019 \ Tables!Platform
    BY DEF Tables!Platform, Tables0019
  <2> QED  BY <1>4, <2>1 DEF Stands, Tables0019
<1>6. Turns(s, Tables!Up0019, Tables!Down0019, b)
  BY <1>3, <1>4, Turns2 DEF Tables!Up0019, Tables!Down0019
<1> QED  BY <1>5, <1>6

LEMMA Revision0020 ==
  ASSUME NEW s, Stands(s, 19)
  PROVE  \E u : Stands(u, 20) /\ Turns(s, Tables!Up0020, Tables!Down0020, u)
<1>0. Good(s, Tables0019, Tables0019 \ Tables!Platform, Added0010)  BY DEF Stands
<1>1. /\ Tables0019 \cap {"analytics_events", "listing_stats_daily", "lead_funnel_daily",
             "source_performance_daily"}
         = {}
      /\ {"tenants"} \subseteq Tables0019
  BY DEF Tables0001, Tables0002, Tables0003, Tables0005, Tables0007, Tables0008, Tables0009, Tables0011,
         Tables0012, Tables0013, Tables0014, Tables0015, Tables0016, Tables0017, Tables0018, Tables0019
<1>2. PICK a : /\ Good(a, Tables0019 \cup {"analytics_events"}, Tables0019 \ Tables!Platform, Added0010)
               /\ Turns(s, Tables!Owned("analytics_events", {}), Tables!Drop("analytics_events"), a)
  BY <1>0, <1>1, OwnedTurns DEF Ordinary
<1>3. PICK b : /\ Good(b, Tables0019 \cup {"analytics_events"}, (Tables0019 \ Tables!Platform)
                      \cup {"analytics_events"}, Added0010)
               /\ Turns(a, Tables!Guard({"analytics_events"}), Tables!Unguard({"analytics_events"}), b)
  BY <1>2, <1>1, GuardTurns DEF Tables!Platform
<1>4. PICK c : /\ Good(c, Tables0019 \cup {"analytics_events"} \cup {"listing_stats_daily"},
                      (Tables0019 \ Tables!Platform) \cup {"analytics_events"}, Added0010)
               /\ Turns(b, Tables!Owned("listing_stats_daily", {}), Tables!Drop("listing_stats_daily"), c)
  BY <1>3, <1>1, OwnedTurns DEF Ordinary
<1>5. PICK d : /\ Good(d, Tables0019 \cup {"analytics_events"} \cup {"listing_stats_daily"},
                      ((Tables0019 \ Tables!Platform) \cup {"analytics_events"}) \cup {"listing_stats_daily"},
                          Added0010)
               /\ Turns(c, Tables!Guard({"listing_stats_daily"}), Tables!Unguard({"listing_stats_daily"}), d)
  BY <1>4, <1>1, GuardTurns DEF Tables!Platform
<1>6. PICK e : /\ Good(e, Tables0019 \cup {"analytics_events"} \cup {"listing_stats_daily"}
                      \cup {"lead_funnel_daily"}, ((Tables0019 \ Tables!Platform) \cup {"analytics_events"})
                          \cup {"listing_stats_daily"}, Added0010)
               /\ Turns(d, Tables!Owned("lead_funnel_daily", {}), Tables!Drop("lead_funnel_daily"), e)
  BY <1>5, <1>1, OwnedTurns DEF Ordinary
<1>7. PICK f : /\ Good(f, Tables0019 \cup {"analytics_events"} \cup {"listing_stats_daily"}
                      \cup {"lead_funnel_daily"}, (((Tables0019 \ Tables!Platform) \cup {"analytics_events"})
                          \cup {"listing_stats_daily"}) \cup {"lead_funnel_daily"}, Added0010)
               /\ Turns(e, Tables!Guard({"lead_funnel_daily"}), Tables!Unguard({"lead_funnel_daily"}), f)
  BY <1>6, <1>1, GuardTurns DEF Tables!Platform
<1>8. PICK g : /\ Good(g, Tables0019 \cup {"analytics_events"} \cup {"listing_stats_daily"}
                      \cup {"lead_funnel_daily"} \cup {"source_performance_daily"},
                          (((Tables0019 \ Tables!Platform) \cup {"analytics_events"})
                              \cup {"listing_stats_daily"}) \cup {"lead_funnel_daily"}, Added0010)
               /\ Turns(f, Tables!Owned("source_performance_daily", {}),
                      Tables!Drop("source_performance_daily"), g)
  BY <1>7, <1>1, OwnedTurns DEF Ordinary
<1>9. PICK h : /\ Good(h, Tables0019 \cup {"analytics_events"} \cup {"listing_stats_daily"}
                      \cup {"lead_funnel_daily"} \cup {"source_performance_daily"},
                          ((((Tables0019 \ Tables!Platform) \cup {"analytics_events"})
                              \cup {"listing_stats_daily"}) \cup {"lead_funnel_daily"})
                                  \cup {"source_performance_daily"}, Added0010)
               /\ Turns(g, Tables!Guard({"source_performance_daily"}),
                      Tables!Unguard({"source_performance_daily"}), h)
  BY <1>8, <1>1, GuardTurns DEF Tables!Platform
<1>10. Stands(h, 20)
  <2>1. ((((Tables0019 \ Tables!Platform) \cup {"analytics_events"}) \cup {"listing_stats_daily"})
      \cup {"lead_funnel_daily"}) \cup {"source_performance_daily"} = Tables0020 \ Tables!Platform
    BY DEF Tables!Platform, Tables0020
  <2> QED  BY <1>9, <2>1 DEF Stands, Tables0020
<1>11. Turns(s, Tables!Up0020, Tables!Down0020, h)
  BY <1>2, <1>3, <1>4, <1>5, <1>6, <1>7, <1>8, <1>9, Turns8 DEF Tables!Up0020, Tables!Events0020,
      Tables!Down0020
<1> QED  BY <1>10, <1>11

LEMMA Revision0021 ==
  ASSUME NEW s, Stands(s, 20)
  PROVE  \E u : Stands(u, 21) /\ Turns(s, Tables!Up0021, Tables!Down0021, u)
<1>0. Good(s, Tables0020, Tables0020 \ Tables!Platform, Added0010)  BY DEF Stands
<1>1. /\ Tables0020 \cap {"tenant_usage", "tenant_subscriptions", "billing_events", "audit_log"} = {}
      /\ {"tenant_domains", "tenants"} \subseteq Tables0020
  BY DEF Tables0001, Tables0002, Tables0003, Tables0005, Tables0007, Tables0008, Tables0009, Tables0011,
         Tables0012, Tables0013, Tables0014, Tables0015, Tables0016, Tables0017, Tables0018, Tables0019,
         Tables0020
<1>2. ({"tenants"} \X {"plan", "trial_ends_at", "offboarding_at", "deletion_scheduled_at", "deleted_at",
         "export_object_key"}) \cap (Added0010) = {}
  BY DEF Added0004, Added0006, Added0010
<1>3. PICK a : /\ Good(a, Tables0020, Tables0020 \ Tables!Platform, Added0010 \cup ({"tenants"} \X {"plan",
                      "trial_ends_at", "offboarding_at", "deletion_scheduled_at", "deleted_at",
                          "export_object_key"}))
               /\ Turns(s, Tables!AddColumns("tenants", {"plan", "trial_ends_at", "offboarding_at",
                      "deletion_scheduled_at",
                        "deleted_at", "export_object_key"}), Tables!DropColumns("tenants", {"export_object_key",
                        "deleted_at", "deletion_scheduled_at", "offboarding_at", "trial_ends_at", "plan"}), a)
  BY <1>0, <1>1, <1>2, AddTurns
<1>4. ({"tenant_domains"} \X {"verification_token", "verification_status"}) \cap (Added0010 \cup ({"tenants"}
         \X {"plan", "trial_ends_at", "offboarding_at", "deletion_scheduled_at", "deleted_at",
         "export_object_key"})) = {}
  BY DEF Added0004, Added0006, Added0010
<1>5. PICK b : /\ Good(b, Tables0020, Tables0020 \ Tables!Platform, Added0010 \cup ({"tenants"} \X {"plan",
                      "trial_ends_at", "offboarding_at", "deletion_scheduled_at", "deleted_at",
                          "export_object_key"}) \cup ({"tenant_domains"} \X {"verification_token",
                              "verification_status"}))
               /\ Turns(a, Tables!AddColumns("tenant_domains", {"verification_token", "verification_status"}),
                        Tables!DropColumns("tenant_domains", {"verification_status", "verification_token"}), b)
  BY <1>3, <1>1, <1>4, AddTurns
<1>6. PICK c : /\ Good(c, Tables0020 \cup {"tenant_usage"}, Tables0020 \ Tables!Platform, Added0010
                      \cup ({"tenants"} \X {"plan", "trial_ends_at", "offboarding_at", "deletion_scheduled_at",
                          "deleted_at", "export_object_key"}) \cup ({"tenant_domains"} \X {"verification_token",
                              "verification_status"}))
               /\ Turns(b, Tables!Owned("tenant_usage", {}), Tables!Drop("tenant_usage"), c)
  BY <1>5, <1>1, OwnedTurns DEF Ordinary
<1>7. PICK d : /\ Good(d, Tables0020 \cup {"tenant_usage"} \cup {"tenant_subscriptions"},
                      Tables0020 \ Tables!Platform, Added0010 \cup ({"tenants"} \X {"plan", "trial_ends_at",
                          "offboarding_at", "deletion_scheduled_at", "deleted_at", "export_object_key"})
                              \cup ({"tenant_domains"} \X {"verification_token", "verification_status"}))
               /\ Turns(c, Tables!Owned("tenant_subscriptions", {}), Tables!Drop("tenant_subscriptions"), d)
  BY <1>6, <1>1, OwnedTurns DEF Ordinary
<1>8. Owed("billing_events", {Row("billing_events", k) : k \in {}})
  BY DEF Owed
<1>9. PICK e : /\ Good(e, Tables0020 \cup {"tenant_usage"} \cup {"tenant_subscriptions"}
                      \cup {"billing_events"}, Tables0020 \ Tables!Platform, Added0010
                          \cup ({"tenants"} \X {"plan", "trial_ends_at", "offboarding_at",
                              "deletion_scheduled_at", "deleted_at", "export_object_key"})
                                  \cup ({"tenant_domains"} \X {"verification_token", "verification_status"}))
               /\ Turns(d, Tables!Create("billing_events", {}), Tables!Drop("billing_events"), e)
  BY <1>7, <1>1, <1>8, CreateTurns
<1>10. \A k \in {Tables!Maybe("tenant_id", "tenants", "SET NULL")} : Refers("audit_log", k, Tables0020 \cup
         {"tenant_usage"} \cup {"tenant_subscriptions"} \cup {"billing_events"})
  BY <1>1, OtherKeys
<1>11. Owed("audit_log", {Row("audit_log", k) : k \in {Tables!Maybe("tenant_id", "tenants", "SET NULL")}})
  BY DEF Owed
<1>12. PICK f : /\ Good(f, Tables0020 \cup {"tenant_usage"} \cup {"tenant_subscriptions"}
                       \cup {"billing_events"} \cup {"audit_log"}, Tables0020 \ Tables!Platform, Added0010
                           \cup ({"tenants"} \X {"plan", "trial_ends_at", "offboarding_at",
                               "deletion_scheduled_at", "deleted_at", "export_object_key"})
                                   \cup ({"tenant_domains"} \X {"verification_token", "verification_status"}))
               /\ Turns(e, Tables!Create("audit_log", {Tables!Maybe("tenant_id", "tenants", "SET NULL")}),
                      Tables!Drop("audit_log"), f)
  BY <1>9, <1>1, <1>11, <1>10, CreateTurns
<1>13. Stands(f, 21)
  <2>1. Tables0020 \ Tables!Platform = Tables0021 \ Tables!Platform
    BY DEF Tables!Platform, Tables0021
  <2> QED  BY <1>12, <2>1 DEF Stands, Tables0021, Added0021
<1>14. Turns(s, Tables!Up0021, Tables!Down0021, f)
  <2> DEFINE u1 == Tables!AddColumns("tenants", {"plan", "trial_ends_at", "offboarding_at",
                    "deletion_scheduled_at", "deleted_at", "export_object_key"})
             u2 == Tables!AddColumns("tenant_domains", {"verification_token", "verification_status"})
             u3 == Tables!Owned("tenant_usage", {})
             u4 == Tables!Owned("tenant_subscriptions", {})
             u5 == Tables!Create("billing_events", {})
             u6 == Tables!Create("audit_log", {Tables!Maybe("tenant_id", "tenants", "SET NULL")})
             d1 == Tables!DropColumns("tenants", {"export_object_key", "deleted_at", "deletion_scheduled_at",
                    "offboarding_at", "trial_ends_at", "plan"})
             d2 == Tables!DropColumns("tenant_domains", {"verification_status", "verification_token"})
             d3 == Tables!Drop("tenant_usage")
             d4 == Tables!Drop("tenant_subscriptions")
             d5 == Tables!Drop("billing_events")
             d6 == Tables!Drop("audit_log")
  <2>1. /\ Turns(s, u1, d1, a) /\ Turns(a, u2, d2, b) /\ Turns(b, u3, d3, c)
        /\ Turns(c, u4, d4, d) /\ Turns(d, u5, d5, e) /\ Turns(e, u6, d6, f)
    BY <1>3, <1>5, <1>6, <1>7, <1>9, <1>12
  <2> HIDE DEF u1, u2, u3, u4, u5, u6, d1, d2, d3, d4, d5, d6
  <2>2. Turns(s, u1 \o u2 \o u3 \o u4 \o u5 \o u6, d6 \o d5 \o d4 \o d3 \o d2 \o d1, f)  BY <2>1, Turns6
  <2> QED  BY <2>2 DEF Tables!Up0021, Tables!Columns0021, Tables!Down0021,
                      u1, u2, u3, u4, u5, u6, d1, d2, d3, d4, d5, d6
<1> QED  BY <1>13, <1>14

LEMMA Revision0022 ==
  ASSUME NEW s, Stands(s, 21)
  PROVE  \E u : Stands(u, 22) /\ Turns(s, Tables!Up0022, Tables!Down0022, u)
<1>0. Good(s, Tables0021, Tables0021 \ Tables!Platform, Added0021)  BY DEF Stands
<1>1. /\ Tables0021 \cap {"consent_records", "cookie_consent_configs", "dsr_requests"} = {}
      /\ {"legal_pages", "tenants", "users"} \subseteq Tables0021
  BY DEF Tables0001, Tables0002, Tables0003, Tables0005, Tables0007, Tables0008, Tables0009, Tables0011,
         Tables0012, Tables0013, Tables0014, Tables0015, Tables0016, Tables0017, Tables0018, Tables0019,
         Tables0020, Tables0021
<1>2. \A k \in {Tables!Maybe("user_id", "users", "SET NULL"), Tables!Maybe("legal_page_id", "legal_pages",
    "SET NULL")} :
         Refers("consent_records", k, Tables0021)
  <2>1. Depth("users") < Depth("consent_records") /\ Depth("legal_pages") < Depth("consent_records")
    BY Depths
  <2>2. Ordinary("consent_records")  BY DEF Ordinary
  <2> QED  BY <1>1, <2>1, <2>2, OrdinaryKey
<1>3. PICK a : /\ Good(a, Tables0021 \cup {"consent_records"}, Tables0021 \ Tables!Platform, Added0021)
               /\ Turns(s, Tables!Owned("consent_records", {Tables!Maybe("user_id", "users", "SET NULL"),
                      Tables!Maybe("legal_page_id",
                        "legal_pages", "SET NULL")}), Tables!Drop("consent_records"), a)
  BY <1>0, <1>1, <1>2, OwnedTurns DEF Ordinary
<1>4. PICK b : /\ Good(b, Tables0021 \cup {"consent_records"}, (Tables0021 \ Tables!Platform)
                      \cup {"consent_records"}, Added0021)
               /\ Turns(a, Tables!Guard({"consent_records"}), Tables!Unguard({"consent_records"}), b)
  BY <1>3, <1>1, GuardTurns DEF Tables!Platform
<1>5. PICK c : /\ Good(c, Tables0021 \cup {"consent_records"} \cup {"cookie_consent_configs"},
                      (Tables0021 \ Tables!Platform) \cup {"consent_records"}, Added0021)
               /\ Turns(b, Tables!Owned("cookie_consent_configs", {}), Tables!Drop("cookie_consent_configs"), c)
  BY <1>4, <1>1, OwnedTurns DEF Ordinary
<1>6. PICK d : /\ Good(d, Tables0021 \cup {"consent_records"} \cup {"cookie_consent_configs"},
                      ((Tables0021 \ Tables!Platform) \cup {"consent_records"}) \cup {"cookie_consent_configs"},
                          Added0021)
               /\ Turns(c, Tables!Guard({"cookie_consent_configs"}), Tables!Unguard({"cookie_consent_configs"}),
                      d)
  BY <1>5, <1>1, GuardTurns DEF Tables!Platform
<1>7. \A k \in {Tables!Maybe("user_id", "users", "SET NULL")} : Refers("dsr_requests", k, Tables0021 \cup
         {"consent_records"} \cup {"cookie_consent_configs"})
  <2>1. Depth("users") < Depth("dsr_requests")
    BY Depths
  <2>2. Ordinary("dsr_requests")  BY DEF Ordinary
  <2> DEFINE T == Tables0021 \cup {"consent_records"} \cup {"cookie_consent_configs"}
  <2>3. {"users"} \subseteq T  BY <1>1
  <2> HIDE DEF T
  <2>4. \A k \in {Tables!Maybe("user_id", "users", "SET NULL")} : Refers("dsr_requests", k, T)
    BY <2>1, <2>2, <2>3, OrdinaryKey
  <2> QED  BY <2>4 DEF T
<1>8. PICK e : /\ Good(e, Tables0021 \cup {"consent_records"} \cup {"cookie_consent_configs"}
                      \cup {"dsr_requests"}, ((Tables0021 \ Tables!Platform) \cup {"consent_records"})
                          \cup {"cookie_consent_configs"}, Added0021)
               /\ Turns(d, Tables!Owned("dsr_requests", {Tables!Maybe("user_id", "users", "SET NULL")}),
                      Tables!Drop("dsr_requests"), e)
  BY <1>6, <1>1, <1>7, OwnedTurns DEF Ordinary
<1>9. PICK f : /\ Good(f, Tables0021 \cup {"consent_records"} \cup {"cookie_consent_configs"}
                      \cup {"dsr_requests"}, (((Tables0021 \ Tables!Platform) \cup {"consent_records"})
                          \cup {"cookie_consent_configs"}) \cup {"dsr_requests"}, Added0021)
               /\ Turns(e, Tables!Guard({"dsr_requests"}), Tables!Unguard({"dsr_requests"}), f)
  BY <1>8, <1>1, GuardTurns DEF Tables!Platform
<1>10. Stands(f, 22)
  <2>1. (((Tables0021 \ Tables!Platform) \cup {"consent_records"}) \cup {"cookie_consent_configs"})
      \cup {"dsr_requests"} = Tables0022 \ Tables!Platform
    BY DEF Tables!Platform, Tables0022
  <2> QED  BY <1>9, <2>1 DEF Stands, Tables0022
<1>11. Turns(s, Tables!Up0022, Tables!Down0022, f)
  <2> DEFINE u1 == Tables!Owned("consent_records", {Tables!Maybe("user_id", "users", "SET NULL"),
                    Tables!Maybe("legal_page_id", "legal_pages", "SET NULL")})
             u2 == Tables!Guard({"consent_records"})
             u3 == Tables!Owned("cookie_consent_configs", {})
             u4 == Tables!Guard({"cookie_consent_configs"})
             u5 == Tables!Owned("dsr_requests", {Tables!Maybe("user_id", "users", "SET NULL")})
             u6 == Tables!Guard({"dsr_requests"})
             d1 == Tables!Drop("consent_records")
             d2 == Tables!Unguard({"consent_records"})
             d3 == Tables!Drop("cookie_consent_configs")
             d4 == Tables!Unguard({"cookie_consent_configs"})
             d5 == Tables!Drop("dsr_requests")
             d6 == Tables!Unguard({"dsr_requests"})
  <2>1. /\ Turns(s, u1, d1, a) /\ Turns(a, u2, d2, b) /\ Turns(b, u3, d3, c)
        /\ Turns(c, u4, d4, d) /\ Turns(d, u5, d5, e) /\ Turns(e, u6, d6, f)
    BY <1>3, <1>4, <1>5, <1>6, <1>8, <1>9
  <2> HIDE DEF u1, u2, u3, u4, u5, u6, d1, d2, d3, d4, d5, d6
  <2>2. Turns(s, u1 \o u2 \o u3 \o u4 \o u5 \o u6, d6 \o d5 \o d4 \o d3 \o d2 \o d1, f)  BY <2>1, Turns6
  <2> QED  BY <2>2 DEF Tables!Up0022, Tables!Down0022,
                      u1, u2, u3, u4, u5, u6, d1, d2, d3, d4, d5, d6
<1> QED  BY <1>10, <1>11

LEMMA Revision0023 ==
  ASSUME NEW s, Stands(s, 22)
  PROVE  \E u : Stands(u, 23) /\ Turns(s, Tables!Up0023, DownButNarrow, u)
<1>0. Good(s, Tables0022, Tables0022 \ Tables!Platform, Added0021)  BY DEF Stands
<1>1. /\ Tables0022 \cap {"oauth_identities"} = {}
      /\ {"sessions", "users"} \subseteq Tables0022
  BY DEF Tables0001, Tables0002, Tables0003, Tables0005, Tables0007, Tables0008, Tables0009, Tables0011,
         Tables0012, Tables0013, Tables0014, Tables0015, Tables0016, Tables0017, Tables0018, Tables0019,
         Tables0020, Tables0021, Tables0022
<1>2. ({"users"} \X {"mfa_pending_secret", "mfa_enabled", "mfa_enrolled_at"}) \cap (Added0021) = {}
  BY DEF Added0004, Added0006, Added0010, Added0021
<1>3. PICK a : /\ Good(a, Tables0022, Tables0022 \ Tables!Platform, Added0021
                      \cup ({"users"} \X {"mfa_pending_secret", "mfa_enabled", "mfa_enrolled_at"}))
               /\ Turns(s, Tables!AddColumns("users", {"mfa_pending_secret", "mfa_enabled", "mfa_enrolled_at"}),
                      Tables!DropColumns("users",
                        {"mfa_enrolled_at", "mfa_enabled", "mfa_pending_secret"}), a)
  BY <1>0, <1>1, <1>2, AddTurns
<1>4. ({"sessions"} \X {"last_used_at"}) \cap (Added0021 \cup ({"users"} \X {"mfa_pending_secret",
         "mfa_enabled", "mfa_enrolled_at"})) = {}
  BY DEF Added0004, Added0006, Added0010, Added0021
<1>5. PICK b : /\ Good(b, Tables0022, Tables0022 \ Tables!Platform, Added0021
                      \cup ({"users"} \X {"mfa_pending_secret", "mfa_enabled", "mfa_enrolled_at"})
                          \cup ({"sessions"} \X {"last_used_at"}))
               /\ Turns(a, Tables!AddColumns("sessions", {"last_used_at"}), Tables!DropColumns("sessions",
                      {"last_used_at"}), b)
  BY <1>3, <1>1, <1>4, AddTurns
<1>6. \A k \in {Tables!Key("user_id", "users", "CASCADE")} : Refers("oauth_identities", k, Tables0022)
  BY <1>1, OtherKeys
<1>7. Owed("oauth_identities", {Row("oauth_identities", k) : k \in {Tables!Key("user_id", "users", "CASCADE")}})
  BY OwedBy DEF Parent, Tables!Key, Tables!Maybe
<1>8. PICK c : /\ Good(c, Tables0022 \cup {"oauth_identities"}, Tables0022 \ Tables!Platform, Added0021
                      \cup ({"users"} \X {"mfa_pending_secret", "mfa_enabled", "mfa_enrolled_at"})
                          \cup ({"sessions"} \X {"last_used_at"}))
               /\ Turns(b, Tables!Create("oauth_identities", {Tables!Key("user_id", "users", "CASCADE")}),
                      Tables!Drop("oauth_identities"), c)
  BY <1>5, <1>1, <1>7, <1>6, CreateTurns
<1>9. PICK d : /\ Good(d, Tables0022 \cup {"oauth_identities"}, (Tables0022 \ Tables!Platform)
                      \cup {"oauth_identities"}, Added0021 \cup ({"users"} \X {"mfa_pending_secret",
                          "mfa_enabled", "mfa_enrolled_at"}) \cup ({"sessions"} \X {"last_used_at"}))
               /\ Turns(c, Tables!Guard({"oauth_identities"}), Tables!Unguard({"oauth_identities"}), d)
  BY <1>8, <1>1, GuardTurns DEF Tables!Platform
<1>10. Stands(d, 23)
  <2>1. (Tables0022 \ Tables!Platform) \cup {"oauth_identities"} = Tables0023 \ Tables!Platform
    BY DEF Tables!Platform, Tables0023
  <2> QED  BY <1>9, <2>1 DEF Stands, Tables0023, Added0023
<1>11. Turns(s, Tables!Up0023, DownButNarrow, d)
  BY <1>3, <1>5, <1>8, <1>9, Turns4 DEF Tables!Up0023, DownButNarrow
<1> QED  BY <1>10, <1>11

LEMMA Revision0024 ==
  ASSUME NEW s, Stands(s, 23)
  PROVE  \E u : Stands(u, 24) /\ Turns(s, Tables!Up0024, Tables!Down0024, u)
<1>0. Good(s, Tables0023, Tables0023 \ Tables!Platform, Added0023)  BY DEF Stands
<1>1. /\ Tables0023 \cap {"outbox", "webhook_endpoints", "webhook_deliveries"} = {}
      /\ {"tenants"} \subseteq Tables0023
  BY DEF Tables0001, Tables0002, Tables0003, Tables0005, Tables0007, Tables0008, Tables0009, Tables0011,
         Tables0012, Tables0013, Tables0014, Tables0015, Tables0016, Tables0017, Tables0018, Tables0019,
         Tables0020, Tables0021, Tables0022, Tables0023
<1>2. PICK a : /\ Good(a, Tables0023 \cup {"outbox"}, Tables0023 \ Tables!Platform, Added0023)
               /\ Turns(s, Tables!Owned("outbox", {}), Tables!Drop("outbox"), a)
  BY <1>0, <1>1, OwnedTurns DEF Ordinary
<1>3. PICK b : /\ Good(b, Tables0023 \cup {"outbox"}, (Tables0023 \ Tables!Platform) \cup {"outbox"}, Added0023)
               /\ Turns(a, Tables!Guard({"outbox"}), Tables!Unguard({"outbox"}), b)
  BY <1>2, <1>1, GuardTurns DEF Tables!Platform
<1>4. PICK c : /\ Good(c, Tables0023 \cup {"outbox"} \cup {"webhook_endpoints"}, (Tables0023 \ Tables!Platform)
                      \cup {"outbox"}, Added0023)
               /\ Turns(b, Tables!Owned("webhook_endpoints", {}), Tables!Drop("webhook_endpoints"), c)
  BY <1>3, <1>1, OwnedTurns DEF Ordinary
<1>5. PICK d : /\ Good(d, Tables0023 \cup {"outbox"} \cup {"webhook_endpoints"}, ((Tables0023 \ Tables!Platform)
                      \cup {"outbox"}) \cup {"webhook_endpoints"}, Added0023)
               /\ Turns(c, Tables!Guard({"webhook_endpoints"}), Tables!Unguard({"webhook_endpoints"}), d)
  BY <1>4, <1>1, GuardTurns DEF Tables!Platform
<1>6. \A k \in {Tables!Key("endpoint_id", "webhook_endpoints", "CASCADE")} : Refers("webhook_deliveries", k,
         Tables0023 \cup {"outbox"} \cup {"webhook_endpoints"})
  <2>1. Depth("webhook_endpoints") < Depth("webhook_deliveries")
    BY Depths
  <2>2. Ordinary("webhook_deliveries")  BY DEF Ordinary
  <2> DEFINE T == Tables0023 \cup {"outbox"} \cup {"webhook_endpoints"}
  <2>3. {"webhook_endpoints"} \subseteq T  BY <1>1
  <2> HIDE DEF T
  <2>4. \A k \in {Tables!Key("endpoint_id", "webhook_endpoints", "CASCADE")} : Refers("webhook_deliveries", k,
      T)
    BY <2>1, <2>2, <2>3, OrdinaryKey
  <2> QED  BY <2>4 DEF T
<1>7. PICK e : /\ Good(e, Tables0023 \cup {"outbox"} \cup {"webhook_endpoints"} \cup {"webhook_deliveries"},
                      ((Tables0023 \ Tables!Platform) \cup {"outbox"}) \cup {"webhook_endpoints"}, Added0023)
               /\ Turns(d, Tables!Owned("webhook_deliveries", {Tables!Key("endpoint_id", "webhook_endpoints",
                      "CASCADE")}),
                        Tables!Drop("webhook_deliveries"), e)
  BY <1>5, <1>1, <1>6, OwnedTurns DEF Ordinary
<1>8. PICK f : /\ Good(f, Tables0023 \cup {"outbox"} \cup {"webhook_endpoints"} \cup {"webhook_deliveries"},
                      (((Tables0023 \ Tables!Platform) \cup {"outbox"}) \cup {"webhook_endpoints"})
                          \cup {"webhook_deliveries"}, Added0023)
               /\ Turns(e, Tables!Guard({"webhook_deliveries"}), Tables!Unguard({"webhook_deliveries"}), f)
  BY <1>7, <1>1, GuardTurns DEF Tables!Platform
<1>9. Stands(f, 24)
  <2>1. (((Tables0023 \ Tables!Platform) \cup {"outbox"}) \cup {"webhook_endpoints"})
      \cup {"webhook_deliveries"} = Tables0024 \ Tables!Platform
    BY DEF Tables!Platform, Tables0024
  <2> QED  BY <1>8, <2>1 DEF Stands, Tables0024
<1>10. Turns(s, Tables!Up0024, Tables!Down0024, f)
  BY <1>2, <1>3, <1>4, <1>5, <1>7, <1>8, Turns6 DEF Tables!Up0024, Tables!Down0024
<1> QED  BY <1>9, <1>10

Undone(s, v, e) == IF v = 23 /\ e THEN [s EXCEPT !.ok = FALSE] ELSE s
Leads(s, v, u) == \A e \in BOOLEAN : Tables!Execute(s, e, Tables!Ups[v]) = u /\ Tables!Execute(u, e,
    Tables!Downs[v]) = Undone(s, v, e)

LEMMA Narrows ==
  ASSUME NEW s, NEW u, Stands(s, 22), Turns(s, Tables!Up0023, DownButNarrow, u), NEW e \in BOOLEAN
  PROVE  Tables!Execute(u, e, Tables!Down0023) = Undone(s, 23, e)
<1> DEFINE st == [does |-> "narrow"]
<1>1. Tables!Execute(u, e, DownButNarrow) = s  BY DEF Turns, Yields
<1>2. PICK X : DownButNarrow \in Seq(X)  BY DEF Turns, Yields
<1> DEFINE Z == X \cup {st}
<1>3. DownButNarrow \in Seq(Z)  BY <1>2
<1>4. <<st>> \in Seq(Z)  OBVIOUS
<1>5. Tables!Down0023 = DownButNarrow \o <<st>>  BY DEF Tables!Down0023, DownButNarrow, Tables!NarrowSecret
<1>6. s.ok  BY DEF Stands, Good
<1>7. Tables!Try(s, e, st) = Undone(s, 23, e)
  <2>1. Tables!Possible(s, e, st) <=> ~e  BY DEF Tables!Possible
  <2>2. Tables!Done(s, st) = s  BY DEF Tables!Done
  <2> HIDE DEF st
  <2>3. CASE e  BY <1>6, <2>1, <2>3 DEF Tables!Try, Undone
  <2>4. CASE ~e  BY <1>6, <2>1, <2>2, <2>4 DEF Tables!Try, Undone
  <2> QED  BY <2>3, <2>4
<1> DEFINE last == <<st>>
<1>8. Tables!Execute(s, e, last) = Tables!Try(s, e, st)  BY ExecuteOne
<1>9. Tables!Execute(u, e, DownButNarrow \o last) = Tables!Execute(Tables!Execute(u, e, DownButNarrow), e, last)
  <2>1. last \in Seq(Z)  BY <1>4
  <2> HIDE DEF Z, last
  <2> QED  BY <1>3, <2>1, ExecuteBoth
<1> QED  BY <1>1, <1>5, <1>7, <1>8, <1>9

LEMMA RevisionLeads ==
  ASSUME NEW v \in 1..24, NEW s, Stands(s, v - 1)
  PROVE  \E u : Stands(u, v) /\ Leads(s, v, u)
<1>1. CASE v = 1
  <2>1. Tables!Ups[v] = Tables!Up0001 /\ Tables!Downs[v] = Tables!Down0001  BY <1>1 DEF Tables!Ups, Tables!Downs
  <2>2. PICK u : Stands(u, 1) /\ Turns(s, Tables!Up0001, Tables!Down0001, u)  BY <1>1, Revision0001
  <2> QED  BY <1>1, <2>1, <2>2 DEF Leads, Turns, Yields, Undone
<1>2. CASE v = 2
  <2>1. Tables!Ups[v] = Tables!Up0002 /\ Tables!Downs[v] = Tables!Down0002  BY <1>2 DEF Tables!Ups, Tables!Downs
  <2>2. PICK u : Stands(u, 2) /\ Turns(s, Tables!Up0002, Tables!Down0002, u)  BY <1>2, Revision0002
  <2> QED  BY <1>2, <2>1, <2>2 DEF Leads, Turns, Yields, Undone
<1>3. CASE v = 3
  <2>1. Tables!Ups[v] = Tables!Up0003 /\ Tables!Downs[v] = Tables!Down0003  BY <1>3 DEF Tables!Ups, Tables!Downs
  <2>2. PICK u : Stands(u, 3) /\ Turns(s, Tables!Up0003, Tables!Down0003, u)  BY <1>3, Revision0003
  <2> QED  BY <1>3, <2>1, <2>2 DEF Leads, Turns, Yields, Undone
<1>4. CASE v = 4
  <2>1. Tables!Ups[v] = Tables!Up0004 /\ Tables!Downs[v] = Tables!Down0004  BY <1>4 DEF Tables!Ups, Tables!Downs
  <2>2. PICK u : Stands(u, 4) /\ Turns(s, Tables!Up0004, Tables!Down0004, u)  BY <1>4, Revision0004
  <2> QED  BY <1>4, <2>1, <2>2 DEF Leads, Turns, Yields, Undone
<1>5. CASE v = 5
  <2>1. Tables!Ups[v] = Tables!Up0005 /\ Tables!Downs[v] = Tables!Down0005  BY <1>5 DEF Tables!Ups, Tables!Downs
  <2>2. PICK u : Stands(u, 5) /\ Turns(s, Tables!Up0005, Tables!Down0005, u)  BY <1>5, Revision0005
  <2> QED  BY <1>5, <2>1, <2>2 DEF Leads, Turns, Yields, Undone
<1>6. CASE v = 6
  <2>1. Tables!Ups[v] = Tables!Up0006 /\ Tables!Downs[v] = Tables!Down0006  BY <1>6 DEF Tables!Ups, Tables!Downs
  <2>2. PICK u : Stands(u, 6) /\ Turns(s, Tables!Up0006, Tables!Down0006, u)  BY <1>6, Revision0006
  <2> QED  BY <1>6, <2>1, <2>2 DEF Leads, Turns, Yields, Undone
<1>7. CASE v = 7
  <2>1. Tables!Ups[v] = Tables!Up0007 /\ Tables!Downs[v] = Tables!Down0007  BY <1>7 DEF Tables!Ups, Tables!Downs
  <2>2. PICK u : Stands(u, 7) /\ Turns(s, Tables!Up0007, Tables!Down0007, u)  BY <1>7, Revision0007
  <2> QED  BY <1>7, <2>1, <2>2 DEF Leads, Turns, Yields, Undone
<1>8. CASE v = 8
  <2>1. Tables!Ups[v] = Tables!Up0008 /\ Tables!Downs[v] = Tables!Down0008  BY <1>8 DEF Tables!Ups, Tables!Downs
  <2>2. PICK u : Stands(u, 8) /\ Turns(s, Tables!Up0008, Tables!Down0008, u)  BY <1>8, Revision0008
  <2> QED  BY <1>8, <2>1, <2>2 DEF Leads, Turns, Yields, Undone
<1>9. CASE v = 9
  <2>1. Tables!Ups[v] = Tables!Up0009 /\ Tables!Downs[v] = Tables!Down0009  BY <1>9 DEF Tables!Ups, Tables!Downs
  <2>2. PICK u : Stands(u, 9) /\ Turns(s, Tables!Up0009, Tables!Down0009, u)  BY <1>9, Revision0009
  <2> QED  BY <1>9, <2>1, <2>2 DEF Leads, Turns, Yields, Undone
<1>10. CASE v = 10
  <2>1. Tables!Ups[v] = Tables!Up0010 /\ Tables!Downs[v] = Tables!Down0010
    BY <1>10 DEF Tables!Ups, Tables!Downs
  <2>2. PICK u : Stands(u, 10) /\ Turns(s, Tables!Up0010, Tables!Down0010, u)  BY <1>10, Revision0010
  <2> QED  BY <1>10, <2>1, <2>2 DEF Leads, Turns, Yields, Undone
<1>11. CASE v = 11
  <2>1. Tables!Ups[v] = Tables!Up0011 /\ Tables!Downs[v] = Tables!Down0011
    BY <1>11 DEF Tables!Ups, Tables!Downs
  <2>2. PICK u : Stands(u, 11) /\ Turns(s, Tables!Up0011, Tables!Down0011, u)  BY <1>11, Revision0011
  <2> QED  BY <1>11, <2>1, <2>2 DEF Leads, Turns, Yields, Undone
<1>12. CASE v = 12
  <2>1. Tables!Ups[v] = Tables!Up0012 /\ Tables!Downs[v] = Tables!Down0012
    BY <1>12 DEF Tables!Ups, Tables!Downs
  <2>2. PICK u : Stands(u, 12) /\ Turns(s, Tables!Up0012, Tables!Down0012, u)  BY <1>12, Revision0012
  <2> QED  BY <1>12, <2>1, <2>2 DEF Leads, Turns, Yields, Undone
<1>13. CASE v = 13
  <2>1. Tables!Ups[v] = Tables!Up0013 /\ Tables!Downs[v] = Tables!Down0013
    BY <1>13 DEF Tables!Ups, Tables!Downs
  <2>2. PICK u : Stands(u, 13) /\ Turns(s, Tables!Up0013, Tables!Down0013, u)  BY <1>13, Revision0013
  <2> QED  BY <1>13, <2>1, <2>2 DEF Leads, Turns, Yields, Undone
<1>14. CASE v = 14
  <2>1. Tables!Ups[v] = Tables!Up0014 /\ Tables!Downs[v] = Tables!Down0014
    BY <1>14 DEF Tables!Ups, Tables!Downs
  <2>2. PICK u : Stands(u, 14) /\ Turns(s, Tables!Up0014, Tables!Down0014, u)  BY <1>14, Revision0014
  <2> QED  BY <1>14, <2>1, <2>2 DEF Leads, Turns, Yields, Undone
<1>15. CASE v = 15
  <2>1. Tables!Ups[v] = Tables!Up0015 /\ Tables!Downs[v] = Tables!Down0015
    BY <1>15 DEF Tables!Ups, Tables!Downs
  <2>2. PICK u : Stands(u, 15) /\ Turns(s, Tables!Up0015, Tables!Down0015, u)  BY <1>15, Revision0015
  <2> QED  BY <1>15, <2>1, <2>2 DEF Leads, Turns, Yields, Undone
<1>16. CASE v = 16
  <2>1. Tables!Ups[v] = Tables!Up0016 /\ Tables!Downs[v] = Tables!Down0016
    BY <1>16 DEF Tables!Ups, Tables!Downs
  <2>2. PICK u : Stands(u, 16) /\ Turns(s, Tables!Up0016, Tables!Down0016, u)  BY <1>16, Revision0016
  <2> QED  BY <1>16, <2>1, <2>2 DEF Leads, Turns, Yields, Undone
<1>17. CASE v = 17
  <2>1. Tables!Ups[v] = Tables!Up0017 /\ Tables!Downs[v] = Tables!Down0017
    BY <1>17 DEF Tables!Ups, Tables!Downs
  <2>2. PICK u : Stands(u, 17) /\ Turns(s, Tables!Up0017, Tables!Down0017, u)  BY <1>17, Revision0017
  <2> QED  BY <1>17, <2>1, <2>2 DEF Leads, Turns, Yields, Undone
<1>18. CASE v = 18
  <2>1. Tables!Ups[v] = Tables!Up0018 /\ Tables!Downs[v] = Tables!Down0018
    BY <1>18 DEF Tables!Ups, Tables!Downs
  <2>2. PICK u : Stands(u, 18) /\ Turns(s, Tables!Up0018, Tables!Down0018, u)  BY <1>18, Revision0018
  <2> QED  BY <1>18, <2>1, <2>2 DEF Leads, Turns, Yields, Undone
<1>19. CASE v = 19
  <2>1. Tables!Ups[v] = Tables!Up0019 /\ Tables!Downs[v] = Tables!Down0019
    BY <1>19 DEF Tables!Ups, Tables!Downs
  <2>2. PICK u : Stands(u, 19) /\ Turns(s, Tables!Up0019, Tables!Down0019, u)  BY <1>19, Revision0019
  <2> QED  BY <1>19, <2>1, <2>2 DEF Leads, Turns, Yields, Undone
<1>20. CASE v = 20
  <2>1. Tables!Ups[v] = Tables!Up0020 /\ Tables!Downs[v] = Tables!Down0020
    BY <1>20 DEF Tables!Ups, Tables!Downs
  <2>2. PICK u : Stands(u, 20) /\ Turns(s, Tables!Up0020, Tables!Down0020, u)  BY <1>20, Revision0020
  <2> QED  BY <1>20, <2>1, <2>2 DEF Leads, Turns, Yields, Undone
<1>21. CASE v = 21
  <2>1. Tables!Ups[v] = Tables!Up0021 /\ Tables!Downs[v] = Tables!Down0021
    BY <1>21 DEF Tables!Ups, Tables!Downs
  <2>2. PICK u : Stands(u, 21) /\ Turns(s, Tables!Up0021, Tables!Down0021, u)  BY <1>21, Revision0021
  <2> QED  BY <1>21, <2>1, <2>2 DEF Leads, Turns, Yields, Undone
<1>22. CASE v = 22
  <2>1. Tables!Ups[v] = Tables!Up0022 /\ Tables!Downs[v] = Tables!Down0022
    BY <1>22 DEF Tables!Ups, Tables!Downs
  <2>2. PICK u : Stands(u, 22) /\ Turns(s, Tables!Up0022, Tables!Down0022, u)  BY <1>22, Revision0022
  <2> QED  BY <1>22, <2>1, <2>2 DEF Leads, Turns, Yields, Undone
<1>23. CASE v = 23
  <2>1. Tables!Ups[v] = Tables!Up0023 /\ Tables!Downs[v] = Tables!Down0023
    BY <1>23 DEF Tables!Ups, Tables!Downs
  <2>2. PICK u : Stands(u, 23) /\ Turns(s, Tables!Up0023, DownButNarrow, u)  BY <1>23, Revision0023
  <2>3. \A e \in BOOLEAN : Tables!Execute(u, e, Tables!Down0023) = Undone(s, 23, e)  BY <1>23, <2>2, Narrows
  <2> QED  BY <1>23, <2>1, <2>2, <2>3 DEF Leads, Turns, Yields
<1>24. CASE v = 24
  <2>1. Tables!Ups[v] = Tables!Up0024 /\ Tables!Downs[v] = Tables!Down0024
    BY <1>24 DEF Tables!Ups, Tables!Downs
  <2>2. PICK u : Stands(u, 24) /\ Turns(s, Tables!Up0024, Tables!Down0024, u)  BY <1>24, Revision0024
  <2> QED  BY <1>24, <2>1, <2>2 DEF Leads, Turns, Yields, Undone
<1> QED  BY <1>1, <1>2, <1>3, <1>4, <1>5, <1>6, <1>7, <1>8, <1>9, <1>10, <1>11, <1>12, <1>13, <1>14, <1>15,
    <1>16, <1>17, <1>18, <1>19, <1>20, <1>21, <1>22, <1>23, <1>24

LEMMA Revisions == Len(Tables!Ups) = 24 /\ Len(Tables!Downs) = 24 /\ Tables!Newest = 25
BY DEF Tables!Ups, Tables!Downs, Tables!Newest

LEMMA StandsOk ==
  ASSUME NEW s, NEW v, Stands(s, v)
  PROVE  "ok" \in DOMAIN s /\ s.ok
<1>1. PICK T, G, C : Good(s, T, G, C)  BY DEF Stands
<1> QED  BY <1>1 DEF Good

LEMMA BuiltAt == \A v \in 0..24 : Tables!Built[v] = Tables!Migrate(Tables!Empty, FALSE, Tables!Above(0, v))
<1>1. Tables!Newest - 1 = 24  BY Revisions
<1> QED  BY <1>1 DEF Tables!Built

LEMMA BuiltFirst == Tables!Built[0] = Tables!Empty /\ Stands(Tables!Empty, 0)
<1>1. Tables!Above(0, 0) = <<>>  BY DEF Tables!Above
<1>2. Tables!Built[0] = Tables!Migrate(Tables!Empty, FALSE, Tables!Above(0, 0))
  <2>1. 0 \in 0..24  OBVIOUS
  <2> QED  BY <2>1, BuiltAt, Zenon
<1>3. Good(Tables!Empty, {}, {}, {})  BY DEF Good, Tables!Empty
<1> QED  BY <1>1, <1>2, <1>3, MigrateNothing DEF Stands

LEMMA AboveLonger ==
  ASSUME NEW v \in 0..24, NEW to \in v..23
  PROVE  Longer(Tables!Above(v, to), Tables!Above(v, to + 1)) /\ Tables!Above(v, to + 1)[Len(Tables!Above(v,
      to + 1))] = Tables!Ups[to + 1]
<1>1. /\ Len(Tables!Above(v, to)) = to - v /\ Len(Tables!Above(v, to + 1)) = to + 1 - v
      /\ \A n \in 1..(to - v) : Tables!Above(v, to)[n] = Tables!Ups[v + n]
      /\ \A n \in 1..(to + 1 - v) : Tables!Above(v, to + 1)[n] = Tables!Ups[v + n]
  BY DEF Tables!Above
<1>2. /\ to - v \in Nat /\ to + 1 - v = to - v + 1 /\ v + (to + 1 - v) = to + 1
      /\ to + 1 - v \in 1..(to + 1 - v)
  OBVIOUS
<1>3. \A n \in 1..(to - v) : n \in 1..(to + 1 - v)  OBVIOUS
<1> HIDE DEF Tables!Above
<1> QED  BY <1>1, <1>2, <1>3 DEF Longer, Agree

LEMMA BelowLonger ==
  ASSUME NEW v \in 0..24, NEW to \in 1..v
  PROVE  Longer(Tables!Below(v, to), Tables!Below(v, to - 1)) /\ Tables!Below(v, to - 1)[Len(Tables!Below(v,
      to - 1))] = Tables!Downs[to]
<1>1. /\ Len(Tables!Below(v, to)) = v - to /\ Len(Tables!Below(v, to - 1)) = v - (to - 1)
      /\ \A n \in 1..(v - to) : Tables!Below(v, to)[n] = Tables!Downs[v + 1 - n]
      /\ \A n \in 1..(v - (to - 1)) : Tables!Below(v, to - 1)[n] = Tables!Downs[v + 1 - n]
  BY DEF Tables!Below
<1>2. v - to \in Nat /\ v - (to - 1) = v - to + 1 /\ v + 1 - (v - (to - 1)) = to
      /\ v - (to - 1) \in 1..(v - (to - 1))
  OBVIOUS
<1>3. \A n \in 1..(v - to) : n \in 1..(v - (to - 1))  OBVIOUS
<1> QED  BY <1>1, <1>2, <1>3 DEF Longer, Agree

LEMMA BuiltNext ==
  ASSUME NEW v \in 0..23
  PROVE  Tables!Built[v + 1] = Tables!Continue(Tables!Built[v], FALSE, Tables!Ups[v + 1])
<1> DEFINE e == FALSE
<1>1. v \in 0..24 /\ v + 1 \in 0..24 /\ 0 \in 0..24  OBVIOUS
<1>2. Tables!Built[v] = Tables!Migrate(Tables!Empty, e, Tables!Above(0,
    v)) /\ Tables!Built[v + 1] = Tables!Migrate(Tables!Empty, e, Tables!Above(0, v + 1))
  BY <1>1, BuiltAt
<1>3. Longer(Tables!Above(0, v), Tables!Above(0, v + 1)) /\ Tables!Above(0, v + 1)[Len(Tables!Above(0,
    v + 1))] = Tables!Ups[v + 1]
  BY <1>1, AboveLonger
<1>4. Tables!Built[v + 1] = Tables!Continue(Tables!Built[v], e, Tables!Ups[v + 1])
  <2> HIDE DEF e
  <2> QED  BY <1>2, <1>3, MigrateOneMore
<1> QED  BY <1>4

(* Each version is reached from nothing, and is the schema it should be. *)
LEMMA BuiltStands == \A v \in 0..24 : Stands(Tables!Built[v], v)
<1> DEFINE T == {v \in 0..24 : Stands(Tables!Built[v], v)}
<1>1. 0 \in T  BY BuiltFirst
<1>2. ASSUME NEW v \in 0..24, v < 24, v \in T
      PROVE  v + 1 \in T
  <2>1. v + 1 \in 1..24 /\ (v + 1) - 1 = v /\ v \in 0..23  BY <1>2
  <2>2. PICK u : Stands(u, v + 1) /\ Leads(Tables!Built[v], v + 1, u)  BY <1>2, <2>1, RevisionLeads
  <2>3. Tables!Built[v].ok  BY <1>2, StandsOk
  <2>4. u = Tables!Built[v + 1]  BY <2>1, <2>2, <2>3, BuiltNext DEF Leads, Tables!Continue
  <2> QED  BY <2>1, <2>2, <2>4
<1>3. \A v \in 0..24 : v \in T
  <2> HIDE DEF T
  <2> QED  BY <1>1, <1>2, UpTo
<1> QED  BY <1>3

LEMMA BuiltOk == \A v \in 0..24 : "ok" \in DOMAIN Tables!Built[v] /\ Tables!Built[v].ok
BY BuiltStands, StandsOk

LEMMA BuiltLeads ==
  ASSUME NEW v \in 1..24
  PROVE  Leads(Tables!Built[v - 1], v, Tables!Built[v])
<1> DEFINE m == v - 1
<1>1. m \in 0..24 /\ m \in 0..23 /\ m + 1 = v  OBVIOUS
<1>2. Stands(Tables!Built[m], m)  BY <1>1, BuiltStands
<1>3. PICK u : Leads(Tables!Built[m], v, u)  BY <1>2, RevisionLeads
<1>4. Tables!Built[m + 1] = Tables!Execute(Tables!Built[m], FALSE, Tables!Ups[m + 1])
  BY <1>1, BuiltNext, BuiltOk DEF Tables!Continue
<1>5. u = Tables!Built[v]  BY <1>1, <1>3, <1>4 DEF Leads
<1> QED  BY <1>3, <1>5

LEMMA Upgrades ==
  ASSUME NEW v \in 0..24, NEW to \in v..24, NEW e \in BOOLEAN
  PROVE  Tables!Migrate(Tables!Built[v], e, Tables!Above(v, to)) = Tables!Built[to]
<1> DEFINE T == {n \in 0..(24 - v) : Tables!Migrate(Tables!Built[v], e, Tables!Above(v,
    v + n)) = Tables!Built[v + n]}
<1>1. 0 \in T
  <2>1. Tables!Above(v, v + 0) = <<>> /\ v + 0 = v  BY DEF Tables!Above
  <2> QED  BY <2>1, MigrateNothing
<1>2. ASSUME NEW n \in 0..(24 - v), n < 24 - v, n \in T
      PROVE  n + 1 \in T
  <2>1. v + n \in v..23 /\ v + n + 1 = v + (n + 1) /\ v + n + 1 \in 1..24 /\ v + n + 1 - 1 = v + n
        /\ n + 1 \in 0..(24 - v)
    BY <1>2
  <2> DEFINE m == v + n
  <2>2. Longer(Tables!Above(v, m), Tables!Above(v, m + 1)) /\ Tables!Above(v, m + 1)[Len(Tables!Above(v,
      m + 1))] = Tables!Ups[m + 1]
    BY <2>1, AboveLonger
  <2>3. Tables!Migrate(Tables!Built[v], e, Tables!Above(v,
      m + 1)) = Tables!Continue(Tables!Migrate(Tables!Built[v], e, Tables!Above(v, m)), e, Tables!Ups[m + 1])
    BY <2>2, MigrateOneMore
  <2>4. Tables!Migrate(Tables!Built[v], e, Tables!Above(v, m)) = Tables!Built[m]  BY <1>2
  <2>5. Leads(Tables!Built[m], m + 1, Tables!Built[m + 1])
    <3> DEFINE k == m + 1
    <3>1. k \in 1..24 /\ k - 1 = m  BY <2>1
    <3> HIDE DEF k
    <3>2. Leads(Tables!Built[k - 1], k, Tables!Built[k])  BY <3>1, BuiltLeads
    <3> QED  BY <3>1, <3>2 DEF k
  <2>6. Tables!Built[m].ok  BY <2>1, BuiltOk
  <2>7. Tables!Migrate(Tables!Built[v], e, Tables!Above(v, m + 1)) = Tables!Built[m + 1]
    BY <2>3, <2>4, <2>5, <2>6 DEF Leads, Tables!Continue
  <2> QED  BY <2>1, <2>7
<1>3. 24 - v \in Nat /\ to - v \in 0..(24 - v) /\ v + (to - v) = to  OBVIOUS
<1>4. \A n \in 0..(24 - v) : n \in T
  <2> HIDE DEF T
  <2> QED  BY <1>1, <1>2, <1>3, UpTo
<1>5. to - v \in T  BY <1>3, <1>4
<1> QED  BY <1>3, <1>5

(* A run that has failed has failed. *)
Broken(s) == "ok" \in DOMAIN s /\ s.ok = FALSE

(* Nothing below 0023 is reached once a second factor is stored. *)
Free(e, v, to) == ~e \/ v < 23 \/ to >= 23

LEMMA Downgrades ==
  ASSUME NEW v \in 0..24, NEW to \in 0..v, NEW e \in BOOLEAN
  PROVE  LET s == Tables!Migrate(Tables!Built[v], e, Tables!Below(v, to)) IN
         IF Free(e, v, to) THEN s = Tables!Built[to] ELSE Broken(s)
<1> DEFINE S(n) == Tables!Migrate(Tables!Built[v], e, Tables!Below(v, v - n))
           T == {n \in 0..v : IF Free(e, v, v - n) THEN S(n) = Tables!Built[v - n] ELSE Broken(S(n))}
<1>1. 0 \in T
  <2>1. Tables!Below(v, v - 0) = <<>> /\ v - 0 = v  BY DEF Tables!Below
  <2>2. Free(e, v, v - 0)  BY DEF Free
  <2> QED  BY <2>1, <2>2, MigrateNothing
<1>2. ASSUME NEW n \in 0..v, n < v, n \in T
      PROVE  n + 1 \in T
  <2> DEFINE m == v - n
             b == Tables!Built[m - 1]
  <2>1. m \in 1..v /\ m \in 1..24 /\ m - 1 = v - (n + 1) /\ n + 1 \in 0..v  BY <1>2
  <2>2. Longer(Tables!Below(v, m), Tables!Below(v, m - 1)) /\ Tables!Below(v, m - 1)[Len(Tables!Below(v,
      m - 1))] = Tables!Downs[m]
    <3> HIDE DEF m
    <3> QED  BY <2>1, BelowLonger
  <2>3. S(n + 1) = Tables!Continue(S(n), e, Tables!Downs[m])
    <3>1. Tables!Migrate(Tables!Built[v], e, Tables!Below(v,
        m - 1)) = Tables!Continue(Tables!Migrate(Tables!Built[v], e, Tables!Below(v, m)), e, Tables!Downs[m])
      <4> HIDE DEF m
      <4> QED  BY <2>2, MigrateOneMore
    <3> QED  BY <2>1, <3>1
  <2>4. IF Free(e, v, m) THEN S(n) = Tables!Built[m] ELSE Broken(S(n))  BY <1>2
  <2>5. Leads(b, m, Tables!Built[m])
    <3> HIDE DEF m
    <3> QED  BY <2>1, BuiltLeads
  <2>6. Tables!Execute(Tables!Built[m], e, Tables!Downs[m]) = Undone(b, m, e)  BY <2>5 DEF Leads
  <2>7. "ok" \in DOMAIN b /\ Tables!Built[m].ok  BY <2>1, BuiltOk
  <2>8. IF Free(e, v, m - 1) THEN S(n + 1) = b ELSE Broken(S(n + 1))
    <3> HIDE DEF m, S
    <3>1. CASE Free(e, v, m - 1)
      <4>1. Free(e, v, m) /\ ~(m = 23 /\ e)  BY <2>1, <3>1 DEF Free
      <4> QED  BY <2>3, <2>4, <2>6, <2>7, <3>1, <4>1 DEF Undone, Tables!Continue
    <3>2. CASE ~Free(e, v, m - 1) /\ Free(e, v, m)
      <4>1. m = 23 /\ e  BY <2>1, <3>2 DEF Free
      <4>2. S(n + 1) = [b EXCEPT !.ok = FALSE]
        BY <2>3, <2>4, <2>6, <2>7, <3>2, <4>1 DEF Undone, Tables!Continue
      <4>3. Broken([b EXCEPT !.ok = FALSE])
        <5> HIDE DEF b
        <5> QED  BY <2>7 DEF Broken
      <4> QED  BY <3>2, <4>2, <4>3
    <3>3. CASE ~Free(e, v, m - 1) /\ ~Free(e, v, m)
      BY <2>3, <2>4, <3>3 DEF Broken, Tables!Continue
    <3> QED  BY <3>1, <3>2, <3>3
  <2> QED  BY <2>1, <2>8
<1>3. \A n \in 0..v : n \in T
  <2> HIDE DEF T
  <2> QED  BY <1>1, <1>2, UpTo
<1>4. v - to \in T /\ v - (v - to) = to  BY <1>3
<1> QED  BY <1>4

SchemaAssumption == Nothing \notin [to : Nat, next : Nat]

(* 0025 changes no table. *)
Schemas(v) == IF v = 25 THEN 24 ELSE v

VersionInv ==
  /\ version \in 0..25 /\ db = Tables!Built[Schemas(version)]
  /\ enrolled \in BOOLEAN /\ (enrolled => version >= 23)
  /\ stuck \subseteq {23, 24, 25} /\ (25 \in stuck => version = 25)

(* An index there is, if nothing was cut, valid: all of them at the newest     *)
(* version, unless a downgrade has stumbled after it dropped them, none before *)
(* it, and those a run has come to, or not yet, in between.                 *)
Standing(i) ==
  IF building = Nothing THEN version = 25 /\ 25 \notin stuck
  ELSE IF building.to = 25 THEN i < building.next
  ELSE 25 \notin stuck /\ building.next <= i
Kinds == {"absent", "valid", "invalid"}
IndexInv ==
  /\ cuts \in Nat
  /\ indexes \in [1..3 -> Kinds]
  /\ building # Nothing =>
       /\ building \in [to : 0..25, next : 1..4]
       /\ version = IF building.to = 25 THEN 24 ELSE 25
  /\ cuts = 0 => \A i \in 1..3 : indexes[i] = IF Standing(i) THEN "valid" ELSE "absent"

(* A tenant goes first, then all that refers to it, then the sessions and the  *)
(* identities of its users.                                                 *)
Purging ==
  /\ \A t \in deletion.rows : Owed(t, deletion.keys)
  /\ "tenants" \notin deletion.rows
  /\ deletion.gone = {"tenants"} \/ deletion.rows \subseteq {"sessions", "oauth_identities", "audit_log",
         "billing_events"}
  /\ deletion.gone = {} => deletion.rows \subseteq {"audit_log", "billing_events"}

DeletionInv ==
  deletion # Nothing =>
    /\ deletion = [of |-> deletion.of, rows |-> deletion.rows, keys |-> deletion.keys, gone |-> deletion.gone,
                   ok |-> TRUE]
    /\ \A k \in deletion.keys : Lawful(k) /\ k.from \in deletion.rows /\ k.to \in deletion.rows
           \cup deletion.gone
    /\ IF deletion.of = "tenants" THEN Purging ELSE deletion.gone \cap {"tenants", "users"} = {}

SchemaInv == VersionInv /\ IndexInv /\ DeletionInv

LEMMA SchemaStart == Tables!Init => SchemaInv
<1> SUFFICES ASSUME Tables!Init PROVE SchemaInv  OBVIOUS
<1>1. /\ version = 0 /\ db = Tables!Empty /\ indexes = [i \in 1..3 |-> "absent"] /\ building = Nothing
      /\ enrolled = FALSE /\ stuck = {} /\ deletion = Nothing /\ cuts = 0
  BY DEF Tables!Init, Tables!PlatformIndexes
<1>2. VersionInv
  <2>1. Schemas(version) = 0  BY <1>1 DEF Schemas
  <2>2. db = Tables!Built[Schemas(version)]  BY <1>1, <2>1, BuiltFirst
  <2>3. version \in 0..25 /\ stuck = {}  BY <1>1
  <2>4. enrolled \in BOOLEAN /\ (enrolled => version >= 23)  BY <1>1, Zenon
  <2> QED  BY <2>2, <2>3, <2>4 DEF VersionInv
<1>3. IndexInv  BY <1>1 DEF IndexInv, Standing, Kinds
<1> QED  BY <1>1, <1>2, <1>3 DEF SchemaInv, DeletionInv

(* No upgrade fails, and a downgrade only where a second factor is in its way. *)
LEMMA UpgradeKeeps ==
  ASSUME SchemaInv, NEW to \in 0..(Tables!Newest - 1), Tables!Upgrade(to) PROVE SchemaInv'
<1> DEFINE new == Tables!Migrate(db, enrolled, Tables!Above(version, to))
<1>1. /\ to > version /\ building = Nothing /\ deletion = Nothing
      /\ IF new.ok THEN db' = new /\ version' = to /\ UNCHANGED stuck
         ELSE stuck' = stuck \cup {version} /\ UNCHANGED <<db, version>>
      /\ UNCHANGED <<indexes, building, enrolled, deletion, cuts>>
  BY DEF Tables!Upgrade, Tables!Move, Tables!Ready
<1>2. version \in 0..24 /\ to \in 0..24 /\ to \in version..24 /\ db = Tables!Built[version] /\ enrolled \in BOOLEAN
  BY <1>1, Revisions DEF SchemaInv, VersionInv, Schemas
<1>3. Tables!Migrate(Tables!Built[version], enrolled, Tables!Above(version, to)) = Tables!Built[to]
  <2> DEFINE v == version
             e == enrolled
  <2>1. v \in 0..24 /\ to \in v..24 /\ e \in BOOLEAN  BY <1>2
  <2> HIDE DEF v, e
  <2>2. Tables!Migrate(Tables!Built[v], e, Tables!Above(v, to)) = Tables!Built[to]  BY <2>1, Upgrades
  <2> QED  BY <2>2 DEF v, e
<1>4. new = Tables!Built[to] /\ new.ok  BY <1>2, <1>3, BuiltOk
<1> HIDE DEF new
<1>5. version' = to /\ db' = Tables!Built[to] /\ stuck' = stuck /\ enrolled' = enrolled  BY <1>1, <1>4
<1>6. VersionInv'  BY <1>1, <1>2, <1>5 DEF SchemaInv, VersionInv, Schemas
<1>7. IndexInv'  BY <1>1, <1>2, <1>5 DEF SchemaInv, IndexInv, Standing
<1>8. DeletionInv'  BY <1>1 DEF DeletionInv
<1> QED  BY <1>6, <1>7, <1>8 DEF SchemaInv

LEMMA DowngradeKeeps ==
  ASSUME SchemaInv, NEW to \in 0..(Tables!Newest - 1), Tables!Downgrade(to) PROVE SchemaInv'
<1> DEFINE new == Tables!Migrate(db, enrolled, Tables!Below(version, to))
<1>1. /\ to < version /\ version < Tables!Newest /\ building = Nothing /\ deletion = Nothing
      /\ IF new.ok THEN db' = new /\ version' = to /\ UNCHANGED stuck
         ELSE stuck' = stuck \cup {version} /\ UNCHANGED <<db, version>>
      /\ UNCHANGED <<indexes, building, enrolled, deletion, cuts>>
  BY DEF Tables!Downgrade, Tables!Move, Tables!Ready
<1>2. version \in 0..24 /\ to \in 0..24 /\ to \in 0..version /\ db = Tables!Built[version] /\ enrolled \in BOOLEAN
  BY <1>1, Revisions DEF SchemaInv, VersionInv, Schemas
<1>3. IF Free(enrolled, version, to) THEN new = Tables!Built[to] ELSE Broken(new)
  <2> DEFINE v == version
             e == enrolled
             r == Tables!Migrate(Tables!Built[v], e, Tables!Below(v, to))
  <2>1. v \in 0..24 /\ to \in 0..v /\ e \in BOOLEAN  BY <1>2
  <2> HIDE DEF v, e
  <2>2. IF Free(e, v, to) THEN r = Tables!Built[to] ELSE Broken(r)  BY <2>1, Downgrades
  <2>3. new = r  BY <1>2 DEF v, e
  <2> HIDE DEF r
  <2> QED  BY <2>2, <2>3 DEF v, e
<1> HIDE DEF new
<1>4. IndexInv'
  <2>1. version' # 25 /\ version # 25  BY <1>1, <1>2
  <2> QED  BY <1>1, <2>1 DEF SchemaInv, IndexInv, Standing
<1>5. DeletionInv'  BY <1>1 DEF DeletionInv
<1>6. CASE Free(enrolled, version, to)
  <2>1. new = Tables!Built[to] /\ new.ok  BY <1>2, <1>3, <1>6, BuiltOk
  <2>2. version' = to /\ db' = Tables!Built[to] /\ stuck' = stuck /\ enrolled' = enrolled  BY <1>1, <2>1
  <2>3. enrolled => to >= 23  BY <1>2, <1>6 DEF SchemaInv, VersionInv, Free
  <2>4. VersionInv'  BY <1>2, <2>2, <2>3 DEF SchemaInv, VersionInv, Schemas
  <2> QED  BY <1>4, <1>5, <2>4 DEF SchemaInv
<1>7. CASE ~Free(enrolled, version, to)
  <2>1. ~new.ok  BY <1>3, <1>7 DEF Broken
  <2>2. version' = version /\ db' = db /\ stuck' = stuck \cup {version} /\ enrolled' = enrolled  BY <1>1, <2>1
  <2>3. version \in {23, 24}  BY <1>2, <1>7 DEF Free
  <2>4. VersionInv'  BY <2>2, <2>3 DEF SchemaInv, VersionInv
  <2> QED  BY <1>4, <1>5, <2>4 DEF SchemaInv
<1> QED  BY <1>6, <1>7

LEMMA StartIndexesKeeps ==
  ASSUME SchemaAssumption, SchemaInv, Tables!StartIndexes PROVE SchemaInv'
<1> DEFINE new == Tables!Migrate(db, enrolled, Tables!Above(version, 24))
           run == [to |-> 25, next |-> 1]
<1>1. /\ version < 25 /\ building = Nothing /\ deletion = Nothing
      /\ IF new.ok THEN db' = new /\ version' = 24 /\ building' = run /\ UNCHANGED stuck
         ELSE stuck' = stuck \cup {version} /\ UNCHANGED <<db, version, building>>
      /\ UNCHANGED <<indexes, enrolled, deletion, cuts>>
  BY Revisions DEF Tables!StartIndexes, Tables!Move, Tables!Ready
<1>2. version \in 0..24 /\ 24 \in version..24 /\ db = Tables!Built[version] /\ enrolled \in BOOLEAN
  BY <1>1 DEF SchemaInv, VersionInv, Schemas
<1>3. Tables!Migrate(Tables!Built[version], enrolled, Tables!Above(version, 24)) = Tables!Built[24]
  <2> DEFINE v == version
             e == enrolled
  <2>1. v \in 0..24 /\ 24 \in v..24 /\ e \in BOOLEAN  BY <1>2
  <2> HIDE DEF v, e
  <2>2. Tables!Migrate(Tables!Built[v], e, Tables!Above(v, 24)) = Tables!Built[24]  BY <2>1, Upgrades
  <2> QED  BY <2>2 DEF v, e
<1>4. new = Tables!Built[24] /\ new.ok  BY <1>2, <1>3, BuiltOk
<1> HIDE DEF new
<1>5. version' = 24 /\ db' = Tables!Built[24] /\ building' = run /\ stuck' = stuck  BY <1>1, <1>4
<1>6. VersionInv'
  <2>1. 25 \notin stuck /\ stuck \subseteq {23, 24, 25}  BY <1>1, <1>2 DEF SchemaInv, VersionInv
  <2> QED  BY <1>1, <1>2, <1>5, <2>1 DEF VersionInv, Schemas
<1>7. DeletionInv'  BY <1>1 DEF DeletionInv
<1>8. run \in [to : 0..25, next : 1..4] /\ run.to = 25 /\ run.next = 1 /\ run # Nothing
  BY DEF SchemaAssumption
<1> HIDE DEF run
<1>9. ASSUME cuts = 0, NEW i \in 1..3  PROVE indexes'[i] = IF Standing(i)' THEN "valid" ELSE "absent"
  <2>1. indexes'[i] = "absent"  BY <1>1, <1>2, <1>9 DEF SchemaInv, IndexInv, Standing
  <2>2. ~Standing(i)'  BY <1>5, <1>8 DEF Standing
  <2> QED  BY <2>1, <2>2
<1>10. IndexInv'  BY <1>1, <1>5, <1>8, <1>9 DEF SchemaInv, IndexInv
<1> QED  BY <1>6, <1>7, <1>10 DEF SchemaInv

LEMMA StartDropsKeeps ==
  ASSUME SchemaAssumption, SchemaInv, NEW to \in 0..(Tables!Newest - 1), Tables!StartDrops(to) PROVE SchemaInv'
<1> DEFINE run == [to |-> to, next |-> 1]
<1>1. /\ version = 25 /\ building = Nothing /\ deletion = Nothing /\ building' = run
      /\ UNCHANGED <<version, db, indexes, enrolled, stuck, deletion, cuts>>
  BY Revisions DEF Tables!StartDrops, Tables!Move, Tables!Ready
<1>2. to \in 0..24  BY Revisions
<1>3. run \in [to : 0..25, next : 1..4] /\ run.to # 25 /\ run.next = 1 /\ run # Nothing
  BY <1>2 DEF SchemaAssumption
<1> HIDE DEF run
<1>4. VersionInv' /\ DeletionInv'  BY <1>1 DEF SchemaInv, VersionInv, DeletionInv, Schemas
<1>5. ASSUME NEW i \in 1..3  PROVE Standing(i)' <=> Standing(i)  BY <1>1, <1>3 DEF Standing
<1>6. IndexInv'  BY <1>1, <1>3, <1>5 DEF SchemaInv, IndexInv
<1> QED  BY <1>4, <1>6 DEF SchemaInv

LEMMA BuildIndexKeeps ==
  ASSUME SchemaAssumption, SchemaInv, Tables!BuildIndex PROVE SchemaInv'
<1> DEFINE i == building.next
<1>1. /\ building # Nothing /\ building.to = 25 /\ i \in 1..3
      /\ UNCHANGED <<version, db, enrolled, stuck, deletion>>
      /\ \/ /\ indexes' = [indexes EXCEPT ![i] = IF @ = "absent" THEN "valid" ELSE @]
            /\ building' = [building EXCEPT !.next = i + 1]
            /\ cuts' = cuts
         \/ /\ cuts' = cuts + 1
            /\ \E left \in {"absent", "invalid"} :
                 indexes' = [indexes EXCEPT ![i] = IF @ = "absent" THEN left ELSE @]
            /\ building' = Nothing
  BY Revisions DEF Tables!BuildIndex, Tables!PlatformIndexes
<1>2. building = [to |-> 25, next |-> i] /\ version = 24 /\ cuts \in Nat /\ indexes \in [1..3 -> Kinds]
  BY <1>1 DEF SchemaInv, IndexInv
<1>3. VersionInv' /\ DeletionInv'  BY <1>1 DEF SchemaInv, VersionInv, DeletionInv, Schemas, Purging
<1>4. CASE /\ indexes' = [indexes EXCEPT ![i] = IF @ = "absent" THEN "valid" ELSE @]
           /\ building' = [building EXCEPT !.next = i + 1] /\ cuts' = cuts
  <2>1. ASSUME cuts = 0, NEW x \in 1..3  PROVE indexes[x] = IF x < i THEN "valid" ELSE "absent"
    BY <1>1, <2>1 DEF SchemaInv, IndexInv, Standing
  <2> HIDE DEF i
  <2>2. building' = [to |-> 25, next |-> i + 1]  BY <1>2, <1>4
  <2>3. /\ building' \in [to : 0..25, next : 1..4] /\ building'.to = 25 /\ building'.next = i + 1
        /\ building' # Nothing
    BY <1>1, <2>2 DEF SchemaAssumption
  <2>4. indexes' \in [1..3 -> Kinds]  BY <1>1, <1>2, <1>4 DEF Kinds
  <2>5. ASSUME cuts = 0, NEW x \in 1..3  PROVE indexes'[x] = IF Standing(x)' THEN "valid" ELSE "absent"
    <3>1. indexes'[x] = IF x < i + 1 THEN "valid" ELSE "absent"  BY <1>1, <1>2, <1>4, <2>1, <2>5
    <3>2. Standing(x)' <=> x < i + 1  BY <2>3 DEF Standing
    <3> QED  BY <3>1, <3>2
  <2> QED  BY <1>1, <1>2, <1>3, <1>4, <2>3, <2>4, <2>5 DEF SchemaInv, IndexInv
<1> HIDE DEF i
<1>5. CASE /\ cuts' = cuts + 1 /\ building' = Nothing
           /\ \E left \in {"absent", "invalid"} :
                indexes' = [indexes EXCEPT ![i] = IF @ = "absent" THEN left ELSE @]
  <2>1. indexes' \in [1..3 -> Kinds]  BY <1>1, <1>2, <1>5 DEF Kinds
  <2>2. cuts' \in Nat /\ cuts' # 0  BY <1>2, <1>5
  <2> QED  BY <1>3, <1>5, <2>1, <2>2 DEF SchemaInv, IndexInv
<1> QED  BY <1>1, <1>4, <1>5

LEMMA DropIndexKeeps ==
  ASSUME SchemaAssumption, SchemaInv, Tables!DropIndex PROVE SchemaInv'
<1> DEFINE i == building.next
<1>1. /\ building # Nothing /\ building.to # 25 /\ i \in 1..3
      /\ UNCHANGED <<version, db, enrolled, stuck, deletion>>
      /\ \/ /\ indexes' = [indexes EXCEPT ![i] = "absent"]
            /\ building' = [building EXCEPT !.next = i + 1]
            /\ cuts' = cuts
         \/ /\ cuts' = cuts + 1 /\ building' = Nothing
            /\ \E left \in {indexes[i], "invalid"} :
                 indexes' = [indexes EXCEPT ![i] = IF @ = "absent" THEN @ ELSE left]
  BY Revisions DEF Tables!DropIndex, Tables!PlatformIndexes
<1>2. /\ building = [to |-> building.to, next |-> i] /\ building.to \in 0..25 /\ version = 25 /\ cuts \in Nat
      /\ indexes \in [1..3 -> Kinds]
  BY <1>1 DEF SchemaInv, IndexInv
<1>3. VersionInv' /\ DeletionInv'  BY <1>1 DEF SchemaInv, VersionInv, DeletionInv, Schemas, Purging
<1>4. CASE /\ indexes' = [indexes EXCEPT ![i] = "absent"]
           /\ building' = [building EXCEPT !.next = i + 1] /\ cuts' = cuts
  <2>1. ASSUME cuts = 0, NEW x \in 1..3
        PROVE  indexes[x] = IF 25 \notin stuck /\ i <= x THEN "valid" ELSE "absent"
    BY <1>1, <2>1 DEF SchemaInv, IndexInv, Standing
  <2>2. PICK to \in 0..25 : to # 25 /\ building = [to |-> to, next |-> i]  BY <1>1, <1>2
  <2> HIDE DEF i
  <2>3. building' = [to |-> to, next |-> i + 1]  BY <1>4, <2>2
  <2>4. /\ building' \in [to : 0..25, next : 1..4] /\ building'.to # 25 /\ building'.next = i + 1
        /\ building' # Nothing
    BY <1>1, <2>2, <2>3 DEF SchemaAssumption
  <2>5. indexes' \in [1..3 -> Kinds]  BY <1>1, <1>2, <1>4 DEF Kinds
  <2>6. ASSUME cuts = 0, NEW x \in 1..3  PROVE indexes'[x] = IF Standing(x)' THEN "valid" ELSE "absent"
    <3>1. indexes'[x] = IF 25 \notin stuck /\ i + 1 <= x THEN "valid" ELSE "absent"
      BY <1>1, <1>2, <1>4, <2>1, <2>6
    <3>2. Standing(x)' <=> 25 \notin stuck /\ i + 1 <= x  BY <1>1, <2>4 DEF Standing
    <3> QED  BY <3>1, <3>2
  <2> QED  BY <1>1, <1>2, <1>3, <1>4, <2>4, <2>5, <2>6 DEF SchemaInv, IndexInv
<1> HIDE DEF i
<1>5. CASE /\ cuts' = cuts + 1 /\ building' = Nothing
           /\ \E left \in {indexes[i], "invalid"} :
                indexes' = [indexes EXCEPT ![i] = IF @ = "absent" THEN @ ELSE left]
  <2>1. indexes' \in [1..3 -> Kinds]  BY <1>1, <1>2, <1>5 DEF Kinds
  <2>2. cuts' \in Nat /\ cuts' # 0  BY <1>2, <1>5
  <2> QED  BY <1>2, <1>3, <1>5, <2>1, <2>2 DEF SchemaInv, IndexInv
<1> QED  BY <1>1, <1>4, <1>5

(* The transaction that ends a run of 0025 either writes where the run got to, *)
(* or leaves the version the run found; a downgrade that stumbles leaves it    *)
(* without its indexes.                                                     *)
LEMMA EndIndexesKeeps ==
  ASSUME SchemaInv, Tables!EndIndexes PROVE SchemaInv'
<1> DEFINE new == Tables!Migrate(db, enrolled, Tables!Below(24, building.to))
<1>1. /\ building # Nothing /\ building.next \notin 1..3 /\ building' = Nothing
      /\ UNCHANGED <<indexes, enrolled, deletion>>
      /\ \/ building.to = 25 /\ version' = 25 /\ UNCHANGED <<db, stuck, cuts>>
         \/ /\ building.to # 25 /\ UNCHANGED cuts
            /\ IF new.ok THEN db' = new /\ version' = building.to /\ stuck' = stuck \ {25}
               ELSE stuck' = stuck \cup {25} /\ UNCHANGED <<db, version>>
         \/ cuts' = cuts + 1 /\ UNCHANGED <<version, db, stuck>>
  BY Revisions DEF Tables!EndIndexes, Tables!PlatformIndexes
<1>2. /\ building.next = 4 /\ building.to \in 0..25 /\ version = (IF building.to = 25 THEN 24 ELSE 25)
      /\ db = Tables!Built[24] /\ enrolled \in BOOLEAN /\ stuck \subseteq {23, 24, 25} /\ cuts \in Nat
      /\ (25 \in stuck => version = 25)
  BY <1>1 DEF SchemaInv, VersionInv, IndexInv, Schemas
<1>3. DeletionInv'  BY <1>1 DEF SchemaInv, DeletionInv, Purging
<1>4. ASSUME cuts = 0, NEW i \in 1..3
      PROVE  indexes'[i] = IF building.to = 25 THEN "valid" ELSE "absent"
  BY <1>1, <1>2, <1>4 DEF SchemaInv, IndexInv, Standing
<1>5. CASE building.to = 25 /\ version' = 25 /\ UNCHANGED <<db, stuck, cuts>>
  <2>1. VersionInv'  BY <1>1, <1>2, <1>5 DEF VersionInv, Schemas
  <2>2. \A i \in 1..3 : Standing(i)'  BY <1>1, <1>2, <1>5 DEF Standing
  <2>3. IndexInv'  BY <1>1, <1>4, <1>5, <2>2 DEF SchemaInv, IndexInv
  <2> QED  BY <1>3, <2>1, <2>3 DEF SchemaInv
<1>6. CASE /\ building.to # 25 /\ UNCHANGED cuts
           /\ IF new.ok THEN db' = new /\ version' = building.to /\ stuck' = stuck \ {25}
              ELSE stuck' = stuck \cup {25} /\ UNCHANGED <<db, version>>
  <2>1. IF Free(enrolled, 24, building.to) THEN new = Tables!Built[building.to] ELSE Broken(new)
    <3> DEFINE to == building.to
               e == enrolled
               s == Tables!Migrate(Tables!Built[24], e, Tables!Below(24, to))
    <3>1. to \in 0..24 /\ e \in BOOLEAN  BY <1>2, <1>6
    <3> HIDE DEF to, e
    <3>2. IF Free(e, 24, to) THEN s = Tables!Built[to] ELSE Broken(s)  BY <3>1, Downgrades
    <3>3. new = s  BY <1>2 DEF to, e
    <3> HIDE DEF s
    <3> QED  BY <3>2, <3>3 DEF to, e
  <2> HIDE DEF new
  <2>2. CASE Free(enrolled, 24, building.to)
    <3>1. new = Tables!Built[building.to] /\ new.ok  BY <1>2, <1>6, <2>1, <2>2, BuiltOk
    <3>2. version' = building.to /\ db' = Tables!Built[building.to] /\ stuck' = stuck \ {25}
      BY <1>6, <3>1
    <3>3. VersionInv'  BY <1>1, <1>2, <1>6, <2>2, <3>2 DEF VersionInv, Schemas, Free
    <3>4. \A i \in 1..3 : ~Standing(i)'  BY <1>1, <1>2, <1>6, <3>2 DEF Standing
    <3>5. IndexInv'  BY <1>1, <1>4, <1>6, <3>4 DEF SchemaInv, IndexInv
    <3> QED  BY <1>3, <3>3, <3>5 DEF SchemaInv
  <2>3. CASE ~Free(enrolled, 24, building.to)
    <3>1. ~new.ok  BY <2>1, <2>3 DEF Broken
    <3>2. version' = version /\ db' = db /\ stuck' = stuck \cup {25}  BY <1>6, <3>1
    <3>3. VersionInv'  BY <1>1, <1>2, <1>6, <3>2 DEF VersionInv, Schemas
    <3>4. \A i \in 1..3 : ~Standing(i)'  BY <1>1, <3>2 DEF Standing
    <3>5. IndexInv'  BY <1>1, <1>4, <1>6, <3>4 DEF SchemaInv, IndexInv
    <3> QED  BY <1>3, <3>3, <3>5 DEF SchemaInv
  <2> QED  BY <2>2, <2>3
<1>7. CASE cuts' = cuts + 1 /\ UNCHANGED <<version, db, stuck>>
  <2>1. VersionInv'  BY <1>1, <1>2, <1>7 DEF SchemaInv, VersionInv, Schemas
  <2>2. cuts' \in Nat /\ cuts' # 0  BY <1>2, <1>7
  <2>3. IndexInv'  BY <1>1, <2>2 DEF SchemaInv, IndexInv
  <2> QED  BY <1>3, <2>1, <2>3 DEF SchemaInv
<1> QED  BY <1>1, <1>5, <1>6, <1>7

LEMMA EnrolKeeps ==
  ASSUME SchemaInv, Tables!Enrol PROVE SchemaInv'
<1>1. /\ version = 25 /\ enrolled' = ~enrolled /\ enrolled' \in BOOLEAN
      /\ UNCHANGED <<version, db, indexes, building, stuck, deletion, cuts>>
  BY Revisions DEF Tables!Enrol
<1>2. VersionInv'  BY <1>1 DEF SchemaInv, VersionInv, Schemas
<1>3. IndexInv' /\ DeletionInv'  BY <1>1 DEF SchemaInv, IndexInv, Standing, DeletionInv, Purging
<1> QED  BY <1>2, <1>3 DEF SchemaInv

(* Five keys on, no key leads any further. *)
DeepAtMost(rows, keys, n) == \A k \in keys : k.from \in rows /\ k.to \notin rows => Depth(k.from) <= n

LEMMA DepthType == \A t : Depth(t) \in 0..5
BY DEF Depth

LEMMA ReachedDeepAtMost ==
  ASSUME NEW rows, NEW keys, NEW n \in Int, DeepAtMost(rows, keys, n), \A k \in keys : Lawful(k)
  PROVE  DeepAtMost(Tables!Reached(rows, keys), keys, n - 1)
<1> SUFFICES ASSUME NEW k \in keys, k.from \in Tables!Reached(rows, keys), k.to \notin Tables!Reached(rows,
    keys)
             PROVE  Depth(k.from) <= n - 1
    BY DEF DeepAtMost
<1>1. k.from \notin rows  BY DEF Tables!Reached
<1>2. PICK x \in keys : x.from \in rows /\ k.from = x.to  BY <1>1 DEF Tables!Reached
<1>3. Depth(x.from) <= n  BY <1>1, <1>2 DEF DeepAtMost
<1>4. Depth(x.to) < Depth(x.from)  BY <1>2 DEF Lawful
<1> QED  BY <1>2, <1>3, <1>4, DepthType

LEMMA ClosedIsClosed ==
  ASSUME NEW rows, NEW keys, NEW T, rows \subseteq T, \A k \in keys : Lawful(k) /\ k.to \in T
  PROVE  /\ Tables!Closed(rows, keys) \subseteq T
         /\ \A k \in keys : k.from \in Tables!Closed(rows, keys) => k.to \in Tables!Closed(rows, keys)
<1> DEFINE a == Tables!Reached(rows, keys)
           b == Tables!Reached(a, keys)
           c == Tables!Reached(b, keys)
           d == Tables!Reached(c, keys)
           e == Tables!Reached(d, keys)
<1>1. \A r : r \subseteq T => Tables!Reached(r, keys) \subseteq T  BY DEF Tables!Reached
<1>2. DeepAtMost(rows, keys, 5)  BY DepthType DEF DeepAtMost
<1>3. \A r : \A n \in Int : DeepAtMost(r, keys, n) => DeepAtMost(Tables!Reached(r, keys), keys, n - 1)
  BY ReachedDeepAtMost
<1>4. Tables!Closed(rows, keys) = e  BY DEF Tables!Closed
<1>5. DeepAtMost(a, keys, 4)
  <2>1. DeepAtMost(a, keys, 5 - 1)  BY <1>2, <1>3
  <2> QED  BY <2>1
<1>6. DeepAtMost(b, keys, 3)
  <2> HIDE DEF a
  <2>1. DeepAtMost(b, keys, 4 - 1)  BY <1>3, <1>5
  <2> QED  BY <2>1
<1>7. DeepAtMost(c, keys, 2)
  <2> HIDE DEF b
  <2>1. DeepAtMost(c, keys, 3 - 1)  BY <1>3, <1>6
  <2> QED  BY <2>1
<1>8. DeepAtMost(d, keys, 1)
  <2> HIDE DEF c
  <2>1. DeepAtMost(d, keys, 2 - 1)  BY <1>3, <1>7
  <2> QED  BY <2>1
<1>9. DeepAtMost(e, keys, 0)
  <2> HIDE DEF d
  <2>1. DeepAtMost(e, keys, 1 - 1)  BY <1>3, <1>8
  <2> QED  BY <2>1
<1>10. e \subseteq T
  <2>1. a \subseteq T  BY <1>1
  <2> HIDE DEF a
  <2>2. b \subseteq T  BY <1>1, <2>1
  <2> HIDE DEF b
  <2>3. c \subseteq T  BY <1>1, <2>2
  <2> HIDE DEF c
  <2>4. d \subseteq T  BY <1>1, <2>3
  <2> HIDE DEF d
  <2> QED  BY <1>1, <2>4
<1> HIDE DEF e
<1>11. \A k \in keys : k.from \in e => k.to \in e
  <2> SUFFICES ASSUME NEW k \in keys, k.from \in e, k.to \notin e PROVE FALSE  OBVIOUS
  <2>1. Depth(k.from) <= 0  BY <1>9 DEF DeepAtMost
  <2>2. Depth(k.to) < Depth(k.from)  BY DEF Lawful
  <2> QED  BY <2>1, <2>2, DepthType
<1> QED  BY <1>4, <1>10, <1>11

(* The newest schema. *)
LEMMA NewestStands == Good(Tables!Built[24], Tables0024, Tables0024 \ Tables!Platform, Added0023)
<1>1. Stands(Tables!Built[24], 24)  BY BuiltStands
<1> QED  BY <1>1 DEF Stands

LEMMA DeletableStands == Tables!Deletable \subseteq Tables0024 /\ "users" \notin Tables!Deletable
BY DEF Tables!Deletable, Tables0001, Tables0002, Tables0003, Tables0005, Tables0007, Tables0008, Tables0009,
       Tables0011, Tables0012, Tables0013, Tables0014, Tables0015, Tables0016, Tables0017, Tables0018,
       Tables0019, Tables0020, Tables0021, Tables0022, Tables0023, Tables0024

(* The key a row is deleted by is set in every row. *)
LEMMA OwedSet ==
  ASSUME NEW t, NEW keys, NEW full, \A k \in keys : Lawful(k), Owed(t, keys)
  PROVE  Owed(t, {k \in keys : full \/ ~k.nullable \/ k.column = "tenant_id"})
<1> SUFFICES ASSUME NEW k \in keys, k.from = t, k.to = Parent(t)
             PROVE  ~k.nullable \/ k.column = "tenant_id"
    BY DEF Owed
<1>1. Lawful(k)  OBVIOUS
<1>2. CASE t \in {"sessions", "oauth_identities"}  BY <1>1, <1>2 DEF Lawful
<1>3. CASE t \notin {"sessions", "oauth_identities"}
  <2>1. k.to = "tenants"  BY <1>3 DEF Parent
  <2> QED  BY <1>1, <2>1 DEF Lawful
<1> QED  BY <1>2, <1>3

LEMMA DeleteKeeps ==
  ASSUME SchemaInv, NEW table \in Tables!Deletable, Tables!Delete(table) PROVE SchemaInv'
<1>1. PICK full \in BOOLEAN, other \in {k.from : k \in {x \in db.keys : x.to = table}} \cup {Nothing} :
        deletion' =
          LET keys == Tables!SetKeys(full)
              rows == IF other = Nothing THEN db.tables ELSE Tables!Closed({table, other}, keys)
          IN  [of |-> table, rows |-> rows \ {table}, keys |-> {k \in keys : k.from \in rows \ {table}},
               gone |-> {table}, ok |-> TRUE]
  BY DEF Tables!Delete
<1>2. version = 25 /\ building = Nothing /\ deletion = Nothing
      /\ UNCHANGED <<version, db, indexes, building, enrolled, stuck, cuts>>
  BY Revisions DEF Tables!Delete, Tables!Ready
<1>3. db = Tables!Built[24]  BY <1>2 DEF SchemaInv, VersionInv, Schemas
<1>4. Good(db, Tables0024, Tables0024 \ Tables!Platform, Added0023)  BY <1>3, NewestStands
<1> DEFINE keys == Tables!SetKeys(full)
           rows == IF other = Nothing THEN db.tables ELSE Tables!Closed({table, other}, keys)
           left == rows \ {table}
           set == {k \in keys : k.from \in left}
<1>5. keys = {k \in db.keys : full \/ ~k.nullable \/ k.column = "tenant_id"}  BY DEF Tables!SetKeys
<1>6. db.tables = Tables0024  BY <1>4 DEF Good
<1>7. \A k \in db.keys : Lawful(k) /\ k.from \in Tables0024 /\ k.to \in Tables0024  BY <1>4 DEF Good
<1>8. \A k \in keys : Lawful(k) /\ k.from \in Tables0024 /\ k.to \in Tables0024  BY <1>5, <1>7
<1>9. table \in Tables0024 /\ table # "users"  BY DeletableStands
<1>10. rows \subseteq Tables0024 /\ \A k \in keys : k.from \in rows => k.to \in rows
  <2> HIDE DEF keys
  <2>1. CASE other = Nothing  BY <1>6, <1>8, <2>1
  <2>2. CASE other # Nothing
    <3>1. {table, other} \subseteq Tables0024  BY <1>7, <1>9, <2>2
    <3> DEFINE both == {table, other}
    <3>2. both \subseteq Tables0024  BY <3>1
    <3> HIDE DEF both
    <3>3. Tables!Closed(both, keys) \subseteq Tables0024
          /\ \A k \in keys : k.from \in Tables!Closed(both, keys) => k.to \in Tables!Closed(both, keys)
      BY <1>8, <3>2, ClosedIsClosed
    <3> QED  BY <2>2, <3>3 DEF both
  <2> QED  BY <2>1, <2>2
<1>11. deletion' = [of |-> table, rows |-> left, keys |-> set, gone |-> {table}, ok |-> TRUE]  BY <1>1
<1>12. table = "tenants" => \A t \in left : Owed(t, set)
  <2> SUFFICES ASSUME table = "tenants", NEW t \in left PROVE Owed(t, set)  OBVIOUS
  <2>1. t \in Tables0024 /\ t \in rows  BY <1>10
  <2>2. Owed(t, db.keys)  BY <1>4, <2>1 DEF Good
  <2>3. Owed(t, keys)  BY <1>5, <1>7, <2>2, OwedSet
  <2> HIDE DEF keys, rows, left
  <2> QED  BY <2>3 DEF Owed
<1> HIDE DEF keys, rows
<1>13. \A k \in set : Lawful(k) /\ k.from \in left /\ k.to \in left \cup {table}  BY <1>8, <1>10
<1>14. "tenants" \notin left \/ table # "tenants"  OBVIOUS
<1> HIDE DEF left, set
<1>15. /\ deletion'.of = table /\ deletion'.rows = left /\ deletion'.keys = set /\ deletion'.gone = {table}
       /\ deletion' = [of |-> deletion'.of, rows |-> deletion'.rows, keys |-> deletion'.keys,
                       gone |-> deletion'.gone, ok |-> TRUE]
  BY <1>11
<1>16. CASE table = "tenants"
  <2>1. Purging'  BY <1>12, <1>14, <1>15, <1>16 DEF Purging
  <2> QED  BY <1>2, <1>13, <1>15, <1>16, <2>1 DEF SchemaInv, VersionInv, IndexInv, Standing, DeletionInv, Schemas
<1>17. CASE table # "tenants"
  <2>1. deletion'.gone \cap {"tenants", "users"} = {}  BY <1>9, <1>15, <1>17
  <2> QED  BY <1>2, <1>13, <1>15, <1>17, <2>1 DEF SchemaInv, VersionInv, IndexInv, Standing, DeletionInv, Schemas
<1> QED  BY <1>16, <1>17

LEMMA CascadeKeeps ==
  ASSUME SchemaInv, Tables!Cascade PROVE SchemaInv'
<1> DEFINE hit == {k \in deletion.keys : k.to \in deletion.gone /\ k.from \in deletion.rows}
           gone == {k.from : k \in {x \in hit : x.does = "CASCADE"}}
           cleared == {k \in hit : k.does = "SET NULL"}
           blocked == \/ \E k \in hit : k.does = "RESTRICT"
                      \/ \E k \in cleared : k.from = "consent_records" /\ k.column = "user_id"
           left == deletion.rows \ gone
           set == {k \in deletion.keys \ cleared : k.from \in left}
<1>1. /\ deletion # Nothing /\ deletion.gone # {}
      /\ deletion' = IF blocked THEN [deletion EXCEPT !.ok = FALSE]
                     ELSE [deletion EXCEPT !.rows = left, !.gone = gone,
                             !.keys = {k \in @ \ cleared : k.from \in left}]
      /\ UNCHANGED <<version, db, indexes, building, enrolled, stuck, cuts>>
  BY DEF Tables!Cascade
<1>2. deletion = [of |-> deletion.of, rows |-> deletion.rows, keys |-> deletion.keys, gone |-> deletion.gone,
                  ok |-> TRUE]
  BY <1>1 DEF SchemaInv, DeletionInv
<1>3. \A k \in deletion.keys : Lawful(k) /\ k.from \in deletion.rows /\ k.to \in deletion.rows
    \cup deletion.gone
  BY <1>1 DEF SchemaInv, DeletionInv
<1>4. IF deletion.of = "tenants" THEN Purging ELSE deletion.gone \cap {"tenants", "users"} = {}
  BY <1>1 DEF SchemaInv, DeletionInv
<1>5. \A k \in hit : Lawful(k) /\ k \in deletion.keys /\ k.to \in deletion.gone /\ k.from \in deletion.rows
  BY <1>3
<1>6. \A k \in hit : ~(k.to = "users" /\ k.from \in {"deals", "consent_records"})
  <2> SUFFICES ASSUME NEW k \in hit, k.to = "users", k.from \in {"deals", "consent_records"} PROVE FALSE
      OBVIOUS
  <2> HIDE DEF hit
  <2>1. "users" \in deletion.gone /\ k.from \in deletion.rows  BY <1>5
  <2>2. deletion.of = "tenants" /\ Purging  BY <1>4, <2>1
  <2>3. deletion.gone # {"tenants"}  BY <2>1
  <2>4. deletion.rows \subseteq {"sessions", "oauth_identities", "audit_log", "billing_events"}
    BY <2>2, <2>3 DEF Purging
  <2> QED  BY <2>1, <2>4
<1>7. ~blocked
  <2> HIDE DEF hit
  <2>1. ASSUME NEW k \in hit, k.does = "RESTRICT" PROVE FALSE  BY <1>5, <1>6, <2>1 DEF Lawful
  <2>2. ASSUME NEW k \in cleared, k.from = "consent_records" /\ k.column = "user_id" PROVE FALSE
    BY <1>5, <1>6, <2>2 DEF Lawful
  <2> QED  BY <2>1, <2>2
<1>8. deletion' = [of |-> deletion.of, rows |-> left, keys |-> set, gone |-> gone, ok |-> TRUE]
  <2> HIDE DEF blocked, cleared, gone, left
  <2>1. deletion' = [deletion EXCEPT !.rows = left, !.gone = gone,
                                     !.keys = {k \in @ \ cleared : k.from \in left}]
    BY <1>1, <1>7
  <2>2. PICK o, r, k, g : deletion = [of |-> o, rows |-> r, keys |-> k, gone |-> g, ok |-> TRUE]  BY <1>2
  <2> QED  BY <2>1, <2>2
<1>9. \A k \in hit : k.does = "CASCADE" => k.from \in gone  OBVIOUS
<1>10. \A k \in set : Lawful(k) /\ k.from \in left /\ k.to \in left \cup gone
  <2> SUFFICES ASSUME NEW k \in set PROVE Lawful(k) /\ k.from \in left /\ k.to \in left \cup gone  OBVIOUS
  <2>1. k \in deletion.keys /\ k \notin cleared /\ k.from \in left /\ k.from \in deletion.rows /\ k.from \notin gone
    OBVIOUS
  <2>2. Lawful(k) /\ k.to \in deletion.rows \cup deletion.gone  BY <1>3, <2>1
  <2>3. k.to \notin deletion.gone
    <3> SUFFICES ASSUME k.to \in deletion.gone PROVE FALSE  OBVIOUS
    <3>1. k \in hit  BY <2>1
    <3>2. k.does # "CASCADE" /\ k.does # "SET NULL" /\ k.does # "RESTRICT"
      <4>1. k.does # "CASCADE"  BY <1>9, <2>1, <3>1
      <4>2. k.does # "SET NULL"  BY <2>1, <3>1
      <4>3. k.does # "RESTRICT"  BY <1>7, <3>1
      <4> QED  BY <4>1, <4>2, <4>3
    <3> QED  BY <2>2, <3>2 DEF Lawful
  <2> QED  BY <2>1, <2>2, <2>3
<1>11. /\ deletion'.of = deletion.of /\ deletion'.rows = left /\ deletion'.keys = set /\ deletion'.gone = gone
       /\ deletion' = [of |-> deletion'.of, rows |-> deletion'.rows, keys |-> deletion'.keys,
                       gone |-> deletion'.gone, ok |-> TRUE]
  <2> HIDE DEF left, set, gone
  <2> QED  BY <1>8
<1>12. CASE deletion.of # "tenants"
  <2>1. gone \cap {"tenants", "users"} = {}
    <3> SUFFICES ASSUME NEW k \in hit, k.from \in {"tenants", "users"} PROVE FALSE  OBVIOUS
    <3> HIDE DEF hit
    <3>1. k.from = "users" /\ Depth(k.to) < Depth("users")  BY <1>5 DEF Lawful
    <3>2. k.to = "tenants"  BY <3>1 DEF Depth
    <3> QED  BY <1>4, <1>5, <1>12, <3>2
  <2> HIDE DEF hit, gone, left, set
  <2> QED  BY <1>1, <1>10, <1>11, <1>12, <2>1 DEF SchemaInv, VersionInv, IndexInv, Standing, DeletionInv, Schemas
<1>13. CASE deletion.of = "tenants"
  <2>1. Purging  BY <1>4, <1>13
  <2> DEFINE Last == {"sessions", "oauth_identities", "audit_log", "billing_events"}
  <2>2. \A t \in left : t \in Last
    <3> SUFFICES ASSUME NEW t \in left, t \notin Last PROVE FALSE  OBVIOUS
    <3>1. t \in deletion.rows /\ t # "tenants"  BY <2>1 DEF Purging
    <3>2. deletion.gone = {"tenants"}  BY <2>1, <3>1 DEF Purging
    <3>3. PICK k \in deletion.keys : k.from = t /\ k.to = "tenants"  BY <2>1, <3>1 DEF Purging, Owed, Parent
    <3>4. k.does = "CASCADE"  BY <1>3, <3>3 DEF Lawful
    <3>5. k \in hit  BY <3>1, <3>2, <3>3
    <3> QED  BY <1>9, <3>3, <3>4, <3>5
  <2>3. \A t \in left : Owed(t, set)
    <3> SUFFICES ASSUME NEW t \in left, t \notin {"tenants", "audit_log", "billing_events"} PROVE Owed(t, set)
        BY DEF Owed
    <3>1. t \in {"sessions", "oauth_identities"}  BY <2>2
    <3>2. PICK k \in deletion.keys : k.from = t /\ k.to = Parent(t)  BY <2>1 DEF Purging, Owed
    <3>3. k.does = "CASCADE"  BY <1>3, <3>1, <3>2 DEF Lawful
    <3>4. k \in set  BY <3>2, <3>3
    <3> QED  BY <3>2, <3>4 DEF Owed
  <2>4. "tenants" \notin left  BY <2>1 DEF Purging
  <2>5. gone = {} => left \subseteq {"audit_log", "billing_events"}
    <3> SUFFICES ASSUME gone = {}, NEW t \in left, t \notin {"audit_log", "billing_events"} PROVE FALSE
        OBVIOUS
    <3>1. t \in {"sessions", "oauth_identities"}  BY <2>2
    <3>2. PICK k \in set : k.from = t /\ k.to = "users"  BY <2>3, <3>1 DEF Owed, Parent
    <3>3. "users" \in left  BY <1>10, <3>2
    <3> QED  BY <2>2, <3>3
  <2> HIDE DEF hit, gone, left, set
  <2>6. Purging'  BY <1>11, <2>2, <2>3, <2>4, <2>5 DEF Purging
  <2> QED  BY <1>1, <1>10, <1>11, <1>13, <2>6 DEF SchemaInv, VersionInv, IndexInv, Standing, DeletionInv, Schemas
<1> QED  BY <1>12, <1>13

LEMMA EndDeletionKeeps ==
  ASSUME SchemaInv, Tables!EndDeletion PROVE SchemaInv'
<1>1. deletion' = Nothing /\ UNCHANGED <<version, db, indexes, building, enrolled, stuck, cuts>>
  BY DEF Tables!EndDeletion
<1> QED  BY <1>1 DEF SchemaInv, VersionInv, IndexInv, Standing, DeletionInv, Schemas

LEMMA SchemaSteps ==
  ASSUME SchemaAssumption, SchemaInv, [Tables!Next]_tables PROVE SchemaInv'
<1>1. CASE UNCHANGED tables
  BY <1>1 DEF tables, SchemaInv, VersionInv, IndexInv, Standing, DeletionInv, Schemas, Purging
<1>2. CASE Tables!Next
  BY <1>2, UpgradeKeeps, DowngradeKeeps, StartIndexesKeeps, StartDropsKeeps, BuildIndexKeeps,
     DropIndexKeeps, EndIndexesKeeps, EnrolKeeps, DeleteKeeps, CascadeKeeps, EndDeletionKeeps DEF Tables!Next
<1> QED  BY <1>1, <1>2

LEMMA StandsGuarded ==
  ASSUME NEW s, NEW v \in 0..24, Stands(s, v) PROVE s.guarded = s.tables \ Tables!Platform
<1>1. Good(s, {}, {}, {}) => s.guarded = s.tables \ Tables!Platform  BY DEF Good
<1>2. \A T, C : Good(s, T, T \ Tables!Platform, C) => s.guarded = s.tables \ Tables!Platform  BY DEF Good
<1> QED  BY <1>1, <1>2 DEF Stands

LEMMA SchemaHolds ==
  ASSUME SchemaInv PROVE Tables!SchemaIsSound
<1>1. Tables!VersionsAreSound
  <2>1. /\ db = Tables!Built[IF version = Tables!Newest THEN Tables!Newest - 1 ELSE version]
        /\ stuck \subseteq {Tables!Newest - 2, Tables!Newest - 1, Tables!Newest}
    BY Revisions DEF SchemaInv, VersionInv, Schemas
  <2>2. version = Tables!Newest /\ cuts = 0 /\ building = Nothing /\ Tables!Newest \notin stuck =>
          \A i \in Tables!PlatformIndexes : indexes[i] = "valid"
    BY Revisions DEF SchemaInv, IndexInv, Standing, Tables!PlatformIndexes
  <2> QED  BY <2>1, <2>2 DEF Tables!VersionsAreSound
<1>2. Tables!TablesAreGuarded
  <2> DEFINE v == Schemas(version)
  <2>1. v \in 0..24 /\ db = Tables!Built[v]  BY DEF SchemaInv, VersionInv, Schemas
  <2> HIDE DEF v
  <2>2. Stands(db, v)  BY <2>1, BuiltStands
  <2> QED  BY <2>1, <2>2, StandsGuarded DEF Tables!TablesAreGuarded
<1>3. Tables!DeletionsComplete
  <2> SUFFICES ASSUME deletion # Nothing
               PROVE  /\ deletion.ok
                      /\ deletion.gone = {} =>
                           /\ \A k \in deletion.keys : k.from \in deletion.rows => k.to \in deletion.rows
                           /\ deletion.of = "tenants" => deletion.rows \subseteq {"audit_log", "billing_events"}
      BY DEF Tables!DeletionsComplete
  <2>1. /\ deletion = [of |-> deletion.of, rows |-> deletion.rows, keys |-> deletion.keys,
                       gone |-> deletion.gone, ok |-> TRUE]
        /\ \A k \in deletion.keys : k.to \in deletion.rows \cup deletion.gone
        /\ deletion.of = "tenants" => Purging
    BY DEF SchemaInv, DeletionInv
  <2>2. deletion.ok  BY <2>1
  <2> QED  BY <2>1, <2>2 DEF Purging
<1> QED  BY <1>1, <1>2, <1>3 DEF Tables!SchemaIsSound

(* A version of the schema is the same whichever upgrades and downgrades led to  *)
(* it, upgrades never fail and downgrades at the column 0023 made wider only, and  *)
(* 0025 has its indexes unless a run of it was cut or stumbled on its way down; all *)
(* tenant-owned tables are under their policy at every version; no deletion is   *)
(* refused by a key or leaves a row that refers to one that is gone (Schema).     *)
THEOREM SchemaSound ==
  ASSUME SchemaAssumption PROVE AgencySpec => [](Tables!SchemaIsSound)
<1>1. AgencyInit => SchemaInv  BY SchemaStart DEF AgencyInit
<1>2. SchemaInv /\ [AgencyNext]_agency => SchemaInv'
  <2> SUFFICES ASSUME SchemaInv, [AgencyNext]_agency PROVE SchemaInv'  OBVIOUS
  <2>1. [Tables!Next]_tables  BY DEF AgencyNext, agency
  <2> QED  BY <2>1, SchemaSteps
<1>3. SchemaInv => Tables!SchemaIsSound  BY SchemaHolds
<1> QED  BY <1>1, <1>2, <1>3, PTL DEF AgencySpec

(* What belongs to a tenant is kept: its domains and settings (Sites), its       *)
(* figures (Analytics), and the schema its rows are in (Schema).              *)
THEOREM TenantDataKept ==
  ASSUME SiteAssumption, FigureAssumption, SchemaAssumption
  PROVE  AgencySpec => []TenantDataIsKept
<1>1. AgencySpec => [](Tenancy!SitesAreKept)  BY SitesKept
<1>2. AgencySpec => [](Figures!AnalyticsIsSound)  BY FiguresSound
<1>3. AgencySpec => [](Tables!SchemaIsSound)  BY SchemaSound
<1>4. Tenancy!SitesAreKept /\ Figures!AnalyticsIsSound /\ Tables!SchemaIsSound => TenantDataIsKept
  BY DEF TenantDataIsKept
<1> QED  BY <1>1, <1>2, <1>3, <1>4, PTL
=============================================================================
