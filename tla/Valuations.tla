------------------------------ MODULE Valuations ------------------------------
(***************************************************************************)
(* The estimate form of one visitor (modules/valuations): the details are    *)
(* sent in steps, and completing the form stores a price band and mints a    *)
(* lead.  No request locks the row: it reads it, and at its commit writes    *)
(* the columns it changed.  The mortgage calculator's mail mints leads too.  *)
(*                                                                          *)
(* Abstracted: the signed token, which names the row; prices and percentiles *)
(* (the band is the radius and the area it was computed from); address,      *)
(* rooms and other details, which are written as the area is.               *)
(***************************************************************************)
EXTENDS Naturals, FiniteSets, FiniteSetsExt

CONSTANTS Requests, Nothing,
          Areas, Notes,
          MIN_COMPS,
          MaxRequests  \* bound: requests

Rings == 1..3  \* RADIUS_LADDER_KM

VARIABLES
  comps,     \* [Rings -> published comparable listings within the radius]
  valuation, \* located, area, notes (details), band, lead and completed
  request,   \* [Requests -> Nothing or an open transaction]
  leads,     \* leads minted by a completed form, each with the band it shows
  estimates, \* leads minted by a mailed mortgage estimate
  mail,      \* send_email tasks of those, queued after the commit
  requests,
  kept,      \* history: the notes accepted
  overlapped \* history: a row was written that had changed since it was read

valuationVars == <<comps, valuation, request, leads, estimates, mail, requests, kept, overlapped>>

(* start.                                                                   *)
Init ==
  /\ comps \in {c \in [Rings -> 0..MIN_COMPS] : \A i \in 1..2 : c[i] <= c[i + 1]}
  /\ \E located \in BOOLEAN :
       valuation = [located |-> located, area |-> Nothing, notes |-> {}, band |-> Nothing,
                    lead |-> Nothing, completed |-> FALSE]
  /\ request = [r \in Requests |-> Nothing]
  /\ leads = {} /\ estimates = 0 /\ mail = 0 /\ requests = 0
  /\ kept = {} /\ overlapped = FALSE

Open(r, change) ==
  /\ request[r] = Nothing
  /\ requests < MaxRequests /\ requests' = requests + 1
  /\ request' = [request EXCEPT ![r] = change]
  /\ UNCHANGED <<comps, valuation, leads, estimates, mail, kept, overlapped>>

Columns == {"area", "notes", "band", "lead", "completed"}

(* update_details: a completed form is a 404.  The details are written as    *)
(* one object, what was read and what is added.                             *)
UpdateDetails(r) ==
  /\ ~valuation.completed
  /\ \E area \in Areas \cup {valuation.area}, notes \in SUBSET Notes :
       Open(r, [op |-> "details", row |-> valuation, added |-> notes,
                new |-> [valuation EXCEPT !.area = area, !.notes = valuation.notes \cup notes]])

(* Mutation: the widest radius. *)
WidestRing(row) ==
  IF row.located /\ row.area # Nothing /\ comps[3] >= MIN_COMPS
  THEN [ring |-> 3, area |-> row.area] ELSE Nothing

(* _estimate: the first radius with enough comparables, if the form has what *)
(* it takes.                                                                *)
Estimate(row) ==
  LET enough == {i \in Rings : comps[i] >= MIN_COMPS}
  IN  IF row.located /\ row.area # Nothing /\ enough # {}
      THEN [ring |-> Min(enough), area |-> row.area] ELSE Nothing

(* complete: the second time is a 409.                                      *)
Complete(r) ==
  /\ ~valuation.completed
  /\ Open(r, [op |-> "complete", row |-> valuation, added |-> {},
              new |-> [valuation EXCEPT !.band = Estimate(valuation), !.lead = r,
                                        !.completed = TRUE]])

(* What the request changed is written over what is there, and the lead is   *)
(* committed with it.                                                       *)
Commit(r) ==
  /\ request[r] # Nothing
  /\ LET old == request[r].row
         new == request[r].new
     IN  /\ valuation' = [c \in DOMAIN valuation |->
                            IF c \in Columns /\ new[c] # old[c] THEN new[c] ELSE valuation[c]]
         /\ leads' = IF request[r].op = "complete"
                     THEN leads \cup {[by |-> r, shows |-> new.band]} ELSE leads
         /\ overlapped' = (overlapped \/ valuation # old)
  /\ kept' = kept \cup request[r].added
  /\ request' = [request EXCEPT ![r] = Nothing]
  /\ UNCHANGED <<comps, estimates, mail, requests>>

(* A failing request leaves nothing.                                        *)
Rollback(r) ==
  /\ request[r] # Nothing
  /\ request' = [request EXCEPT ![r] = Nothing]
  /\ UNCHANGED <<comps, valuation, leads, estimates, mail, requests, kept, overlapped>>

(* mortgage_email: a lead, and after its commit a mail, unless the callback   *)
(* fails; a bot that fills the honeypot gets the estimate only.             *)
MortgageEmail ==
  /\ requests < MaxRequests /\ requests' = requests + 1
  /\ estimates' = estimates + 1
  /\ mail' \in {mail, mail + 1}
  /\ UNCHANGED <<comps, valuation, request, leads, kept, overlapped>>

Next ==
  \/ \E r \in Requests : UpdateDetails(r) \/ Complete(r) \/ Commit(r) \/ Rollback(r)
  \/ MortgageEmail

-----------------------------------------------------------------------------
(* A form mints one lead, shows the visitor, the agent and the row one band,  *)
(* that of the details it ends with, and loses no note it accepted, unless   *)
(* two requests overlapped: "a second complete is a 409" (service.py) holds   *)
(* for the one that comes after.                                            *)
FormIsOneLead ==
  ~overlapped =>
    /\ Cardinality(leads) = (IF valuation.completed THEN 1 ELSE 0)
    /\ valuation.completed =>
         /\ leads = {[by |-> valuation.lead, shows |-> valuation.band]}
         /\ valuation.band # Nothing => valuation.band.area = valuation.area
    /\ kept = valuation.notes

(* "a dense neighborhood prices on 2 km, a rural property on 10"              *)
(* (service.py): no narrower radius than the one shown has enough            *)
(* comparables, and none does if no band is shown for a whole form.         *)
BandIsNearest ==
  \A lead \in leads :
    IF lead.shows = Nothing
    THEN overlapped \/ ~valuation.located \/ valuation.area = Nothing \/ comps[3] < MIN_COMPS
    ELSE \A i \in Rings : comps[i] >= MIN_COMPS <=> i >= lead.shows.ring

ValuationsAreSound == FormIsOneLead /\ BandIsNearest
=============================================================================
