------------------------------- MODULE Reviews -------------------------------
(***************************************************************************)
(* One testimonial (modules/reviews): a visitor submits it, staff approve,   *)
(* reject or delete it under the row lock, and visitors are shown it and its *)
(* place in the rating of the agent.                                         *)
(*                                                                          *)
(* Abstracted: texts, stars and the verified badge; listings a review may    *)
(* name, which are checked as the agent is; the honeypot, which stores       *)
(* nothing.                                                                 *)
(***************************************************************************)
EXTENDS Naturals, FiniteSets

CONSTANTS Moderators, Nothing,
          MaxDecisions  \* bound: moderations and deletions asked

VARIABLES
  profile,   \* the agent's profile is published
  submission,\* "none", "checked" (the agent was found) or "sent"
  review,    \* Nothing, or its status
  holder,    \* the moderator with the row locked, or Nothing
  decision,  \* [Moderators -> Nothing or the decision asked, and the status that was read]
  decisions,
  rating,    \* the number of approved reviews that the last read of the rating counted
  listed,    \* the review was shown by the last read of the feed
  decided,   \* history: the decisions that were committed
  deleted    \* history: the review was deleted

reviewVars == <<profile, submission, review, holder, decision, decisions, rating, listed,
                decided, deleted>>

Init ==
  /\ profile \in BOOLEAN /\ submission = "none"
  /\ review = Nothing /\ holder = Nothing
  /\ decision = [m \in Moderators |-> Nothing] /\ decisions = 0
  /\ rating = 0 /\ listed = FALSE
  /\ decided = {} /\ deleted = FALSE

(* Elsewhere, an agent's profile is published or hidden.                    *)
ToggleProfile ==
  /\ profile' = ~profile
  /\ UNCHANGED <<submission, review, holder, decision, decisions, rating, listed, decided, deleted>>

-----------------------------------------------------------------------------
(* submit looks for a published agent ...                                   *)
Submit ==
  /\ submission = "none" /\ profile
  /\ submission' = "checked"
  /\ UNCHANGED <<profile, review, holder, decision, decisions, rating, listed, decided, deleted>>

(* ... and inserts the review, pending.                                     *)
Insert ==
  /\ submission = "checked"
  /\ submission' = "sent"
  /\ review' = "pending"
  /\ UNCHANGED <<profile, holder, decision, decisions, rating, listed, decided, deleted>>

-----------------------------------------------------------------------------
Free(m) == holder = Nothing

Ask(m, to) ==
  /\ decision[m] = Nothing /\ review # Nothing
  /\ decisions < MaxDecisions /\ decisions' = decisions + 1
  /\ decision' = [decision EXCEPT ![m] = [to |-> to, read |-> Nothing]]
  /\ UNCHANGED <<profile, submission, review, holder, rating, listed, decided, deleted>>

(* get(for_update): the row as it is when the lock is had; a row that is     *)
(* gone is a 404 ...                                                        *)
Lock(m) ==
  /\ decision[m] # Nothing /\ decision[m].read = Nothing
  /\ Free(m)
  /\ IF review = Nothing
     THEN decision' = [decision EXCEPT ![m] = Nothing] /\ UNCHANGED holder
     ELSE decision' = [decision EXCEPT ![m].read = review] /\ holder' = m
  /\ UNCHANGED <<profile, submission, review, decisions, rating, listed, decided, deleted>>

Done(m) ==
  /\ decision' = [decision EXCEPT ![m] = Nothing]
  /\ holder' = IF holder = m THEN Nothing ELSE holder

(* ... moderate: the other way round is a 409, the same again is not ...     *)
Moderate(m) ==
  /\ decision[m] # Nothing /\ decision[m].to # "delete" /\ decision[m].read # Nothing
  /\ LET to == decision[m].to
         allowed == decision[m].read \in {"pending", to} /\ review # Nothing
     IN  /\ review' = IF allowed THEN to ELSE review
         /\ decided' = IF allowed THEN decided \cup {to} ELSE decided
  /\ Done(m)
  /\ UNCHANGED <<profile, submission, decisions, rating, listed, deleted>>

(* ... or delete.                                                           *)
Delete(m) ==
  /\ decision[m] # Nothing /\ decision[m].to = "delete" /\ decision[m].read # Nothing
  /\ review' = Nothing /\ deleted' = TRUE
  /\ Done(m)
  /\ UNCHANGED <<profile, submission, decisions, rating, listed, decided>>

-----------------------------------------------------------------------------
(* The feed of a published agent, and the rating: approved reviews only.    *)
ListPublic ==
  /\ profile
  /\ listed' = (review = "approved")
  /\ UNCHANGED <<profile, submission, review, holder, decision, decisions, rating, decided, deleted>>
Aggregate ==
  /\ rating' = (IF review = "approved" THEN 1 ELSE 0)
  /\ UNCHANGED <<profile, submission, review, holder, decision, decisions, listed, decided, deleted>>

Next ==
  \/ ToggleProfile \/ Submit \/ Insert \/ ListPublic \/ Aggregate
  \/ \E m \in Moderators : \/ \E to \in {"approved", "rejected", "delete"} : Ask(m, to)
                           \/ Lock(m) \/ Moderate(m) \/ Delete(m)

-----------------------------------------------------------------------------
(* "a review can't flip approved<->rejected once decided" (service.py),       *)
(* whoever decides at the same time; the public is shown, and the rating     *)
(* counts, what was approved.                                               *)
DecisionStands ==
  /\ Cardinality(decided) <= 1
  /\ review \in {"approved", "rejected"} => decided = {review}
  /\ listed \/ rating > 0 => "approved" \in decided
  /\ deleted => review = Nothing
=============================================================================
