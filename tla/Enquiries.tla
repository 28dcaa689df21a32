------------------------------ MODULE Enquiries ------------------------------
(***************************************************************************)
(* What a visitor meets, composed: visits (Appointments), the pipeline of     *)
(* leads (Leads), contacts (Contacts), the form that values a home           *)
(* (Valuations), and the notifications these send (Notices).  They share no   *)
(* state that the models keep: `part' is chosen at the start and only that    *)
(* one moves.                                                               *)
(***************************************************************************)
EXTENDS Appointments

CONSTANTS
  LeadIds, Agents, Stages, Steps, MaxOpen, MaxRequests,              \* Leads
  Contacts, Emails, Phones, Transactions, MaxForms,                  \* Contacts
  Fillings, Areas, Notes, MIN_COMPS, MaxFillings,                    \* Valuations
  Notices, Workers, MaxRetries, MaxEdits, MaxMishaps                 \* Notices

VARIABLE part

VARIABLES lead, drip, active, round, events, told, mails, again, unreached, asked, failures

Pipeline == INSTANCE Leads WITH
  sweep <- round, repeated <- again, requests <- asked, faults <- failures

pipeline == <<lead, drip, active, round, events, told, mails, again, unreached, asked, failures>>

VARIABLES contact, lost, session, erased, refilled, forms

People == INSTANCE Contacts WITH tx <- session, requests <- forms, MaxRequests <- MaxForms

people == <<contact, lost, session, erased, refilled, forms>>

VARIABLES comps, valuation, filling, leads, estimates, mail, fillings, kept, overlapped

Estimates == INSTANCE Valuations WITH
  Requests <- Fillings, MaxRequests <- MaxFillings, request <- filling, requests <- fillings

form == <<comps, valuation, filling, leads, estimates, mail, fillings, kept, overlapped>>

VARIABLES notice, preference, notify, tasks, send, logged, posted, edits, mishaps,
          addressed, wanted, doubled, dropped, gone

Inbox == INSTANCE Notices WITH tx <- notify, mailed <- posted, told <- wanted, erased <- gone

inbox == <<notice, preference, notify, tasks, send, logged, posted, edits, mishaps,
           addressed, wanted, doubled, dropped, gone>>

EnquiriesInit ==
  /\ Init /\ Pipeline!Init /\ People!Init /\ Estimates!Init /\ Inbox!Init
  /\ part \in {"visits", "pipeline", "contacts", "form", "inbox"}
  /\ part # "form" => valuation.located /\ comps[1] = MIN_COMPS
  /\ part # "inbox" => \A n \in Notices : addressed[n]

EnquiriesNext ==
  /\ UNCHANGED part
  /\ \/ part = "visits" /\ Next /\ UNCHANGED <<pipeline, people, form, inbox>>
     \/ part = "pipeline" /\ Pipeline!Next /\ UNCHANGED <<vars, people, form, inbox>>
     \/ part = "contacts" /\ People!Next /\ UNCHANGED <<vars, pipeline, form, inbox>>
     \/ part = "form" /\ Estimates!Next /\ UNCHANGED <<vars, pipeline, people, inbox>>
     \/ part = "inbox" /\ Inbox!Next /\ UNCHANGED <<vars, pipeline, people, form>>

enquiries == <<part, vars, pipeline, people, form, inbox>>
EnquiriesSpec == EnquiriesInit /\ [][EnquiriesNext]_enquiries
FairEnquiries == EnquiriesSpec /\ (part = "pipeline" => Pipeline!Fairness)

(* A mail or an escalation that repeats has a reason (see Leads).             *)
RepeatsAreExplained == Pipeline!RepeatsAreExplained
(* Somebody is told of every announced lead (see Leads).                      *)
LeadReachesSomeone == part = "pipeline" => Pipeline!LeadReachesSomeone
(* What was erased stays empty (see Contacts).                               *)
ErasedStaysEmpty == People!ErasedStaysEmpty
(* A form is one lead with the band of the nearest comparables, and what a     *)
(* notification mails was wanted, is mailed once and is logged, but for what  *)
(* they name (see Valuations and Notices).                                   *)
FormsAndNoticesAreSound == Estimates!ValuationsAreSound /\ Inbox!NoticesAreSound

-----------------------------------------------------------------------------
(* The run's value: one window on one day.                                   *)
OneWindow == {{[from |-> 1, to |-> 4, block |-> FALSE]}}
=============================================================================
