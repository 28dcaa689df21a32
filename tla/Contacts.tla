------------------------------- MODULE Contacts -------------------------------
(***************************************************************************)
(* Who a lead is about (modules/leads): a form matches a contact by email   *)
(* or telephone and fills what is missing, or makes a new one; staff edit   *)
(* contacts; erasures and the retention sweep (modules/compliance) empty    *)
(* them.  Each reads and writes in one transaction; no lock and no unique   *)
(* key stands behind what it has read, and the ORM writes only the columns  *)
(* whose value it changes.                                                  *)
(*                                                                          *)
(* Abstracted: names, consent, tags and notes, which are merged and emptied *)
(* like the telephone; what else a capture writes (Leads).                  *)
(***************************************************************************)
EXTENDS Naturals, FiniteSets

CONSTANTS
  Contacts, Emails, Phones,
  Transactions,  \* those that may overlap
  Nothing,
  MaxRequests    \* bound: requests after which nobody asks for anything

VARIABLES
  contact,    \* [Contacts -> [row, email, phone]]
  lost,       \* contacts of a lead that was lost long ago
  tx,         \* [Transactions -> what an open one has read and wants, or Nothing]
  erased,     \* history: contacts emptied by an erasure or the retention sweep
  refilled,   \* history: those among them it overlapped, or staff edited since
  requests

vars == <<contact, lost, tx, erased, refilled, requests>>

Blank == [row |-> FALSE, email |-> Nothing, phone |-> Nothing]

Init ==
  /\ contact = [c \in Contacts |-> Blank]
  /\ tx = [r \in Transactions |-> Nothing]
  /\ lost = {} /\ erased = {} /\ refilled = {}
  /\ requests = 0

Ask == requests < MaxRequests /\ requests' = requests + 1

Bare(c) == contact[c].email = Nothing /\ contact[c].phone = Nothing
WithEmail(e) == {c \in Contacts : e # Nothing /\ contact[c].email = e}
WithPhone(p) == {c \in Contacts : p # Nothing /\ contact[c].phone = p}

(* find_contact_for_dedupe: the email decides, then the phone; several       *)
(* matches are an error and fail the request.                                *)
Dedupe(e, p) == IF WithEmail(e) # {} THEN WithEmail(e) ELSE WithPhone(p)

-----------------------------------------------------------------------------
(* What a transaction reads ...                                             *)
Begin(r, kind, cs, e, p) ==
  /\ tx[r] = Nothing
  /\ tx' = [tx EXCEPT ![r] = [kind |-> kind, read |-> [c \in cs |-> contact[c]],
                              email |-> e, phone |-> p]]
  /\ UNCHANGED <<contact, lost, erased, refilled>>

(* capture_lead and the other surfaces. *)
Capture(r, e, p) ==
  /\ e # Nothing \/ p # Nothing
  /\ Cardinality(Dedupe(e, p)) <= 1
  /\ Ask
  /\ Begin(r, "fill", Dedupe(e, p), e, p)

(* update_contact: staff write what they like. *)
UpdateContact(r, c, e, p) ==
  /\ contact[c].row /\ <<e, p>> # <<contact[c].email, contact[c].phone>>
  /\ Ask
  /\ Begin(r, "edit", {c}, e, p)

(* Erasure of a subject: every contact with the address. *)
AnonymizeSubject(r, e) ==
  /\ WithEmail(e) # {}
  /\ Ask
  /\ Begin(r, "erase", WithEmail(e), Nothing, Nothing)

(* Retention: the contacts of lost leads that still carry something.  The    *)
(* sweep comes round again for one that was filled since.                    *)
AnonymizeLostLeads(r) ==
  /\ ~(lost \subseteq {c \in Contacts : Bare(c)})
  /\ Begin(r, "erase", {c \in lost : ~Bare(c)}, Nothing, Nothing)
  /\ UNCHANGED requests

-----------------------------------------------------------------------------
(* ... and what it then writes. *)

(* Merge-fill: what is empty is filled, the rest is left alone.              *)
Filled(was, e, p) ==
  [was EXCEPT !.email = IF @ = Nothing THEN e ELSE @, !.phone = IF @ = Nothing THEN p ELSE @]

(* Mutation: the identity goes, the telephone number stays. *)
KeepPhone(was) == [was EXCEPT !.email = Nothing]

Anonymized(was) == [was EXCEPT !.email = Nothing, !.phone = Nothing]

New(t, was) ==
  CASE t.kind = "fill"  -> Filled(was, t.email, t.phone)
    [] t.kind = "edit"  -> [was EXCEPT !.email = t.email, !.phone = t.phone]
    [] t.kind = "erase" -> Anonymized(was)

Flushed(now, was, new) ==
  [row |-> TRUE,
   email |-> IF new.email = was.email THEN now.email ELSE new.email,
   phone |-> IF new.phone = was.phone THEN now.phone ELSE new.phone]

(* Filled since an erasure read them, or read by somebody who may yet.       *)
Overlapped(r) ==
  {c \in DOMAIN tx[r].read :
     \/ contact[c] # tx[r].read[c] /\ ~Bare(c)
     \/ \E s \in Transactions :
          tx[s] # Nothing /\ tx[s].kind # "erase" /\ c \in DOMAIN tx[s].read}

Write(r) ==
  LET t == tx[r]
      rows == DOMAIN t.read
  IN  /\ t # Nothing /\ rows # {}
      /\ contact' = [c \in Contacts |->
                       IF c \in rows THEN Flushed(contact[c], t.read[c], New(t, t.read[c]))
                                     ELSE contact[c]]
      /\ erased' = IF t.kind = "erase" THEN erased \cup rows ELSE erased
      /\ refilled' = CASE t.kind = "fill"  -> refilled
                       [] t.kind = "edit"  -> refilled \cup (erased \cap rows)
                       [] t.kind = "erase" -> (refilled \ rows) \cup Overlapped(r)
      /\ tx' = [tx EXCEPT ![r] = Nothing]
      /\ UNCHANGED <<lost, requests>>

(* A capture that matched nobody makes a contact. *)
Make(r) ==
  LET t == tx[r]
      free == {c \in Contacts : ~contact[c].row}
  IN  /\ t # Nothing /\ DOMAIN t.read = {}
      /\ free # {}
      /\ contact' = [contact EXCEPT ![CHOOSE c \in free : TRUE] =
                       [row |-> TRUE, email |-> t.email, phone |-> t.phone]]
      /\ tx' = [tx EXCEPT ![r] = Nothing]
      /\ UNCHANGED <<lost, erased, refilled, requests>>

Abort(r) ==
  /\ tx[r] # Nothing
  /\ tx' = [tx EXCEPT ![r] = Nothing]
  /\ UNCHANGED <<contact, lost, erased, refilled, requests>>

(* A lead of the contact was lost and the retention period has passed. *)
LongLost(c) ==
  /\ contact[c].row /\ c \notin lost
  /\ lost' = lost \cup {c}
  /\ UNCHANGED <<contact, tx, erased, refilled, requests>>

Next ==
  \/ \E r \in Transactions :
       \/ \E e \in Emails \cup {Nothing}, p \in Phones \cup {Nothing} :
            Capture(r, e, p) \/ \E c \in Contacts : UpdateContact(r, c, e, p)
       \/ \E e \in Emails : AnonymizeSubject(r, e)
       \/ AnonymizeLostLeads(r)
       \/ Write(r) \/ Make(r) \/ Abort(r)
  \/ \E c \in Contacts : LongLost(c)

Spec == Init /\ [][Next]_vars

-----------------------------------------------------------------------------
(* What an erasure emptied stays empty (anonymize_subject,                   *)
(* anonymize_lost_leads): a form sent later makes a new contact.  Unless a   *)
(* form or an edit had read the contact when the erasure committed, or       *)
(* filled it after the erasure read it; or staff edited it afterwards.       *)
ErasedStaysEmpty == \A c \in erased \ refilled : Bare(c)
==============================================================================
