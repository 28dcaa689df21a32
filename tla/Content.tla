------------------------------- MODULE Content -------------------------------
(* What an agency publishes, one part at a time: listings and their portals,  *)
(* or the PDF of a report, a blog post, a testimonial.                       *)
EXTENDS Publication

CONSTANTS Editors, MaxMishaps,       \* Reports
          Authors, Sweeps, MaxTime,  \* Posts
          MaxChanges,                \* Reports and Posts
          Moderators, MaxDecisions   \* Reviews

VARIABLES part,
  report, stored, renders, cleanup, edit, render, changes, mishaps, wanted, since,
  overlapped, overtaken, cut,
  post, time, request, sweep, asks, asked, first, outrun,
  shown, submission, review, holder, decision, decisions, rating, listed, decided, deleted

report_ == <<report, stored, renders, cleanup, edit, render, changes, mishaps, wanted, since,
             overlapped, overtaken, cut>>
post_ == <<post, time, request, sweep, asks, asked, first, outrun>>
review_ == <<shown, submission, review, holder, decision, decisions, rating, listed, decided, deleted>>

Pdf == INSTANCE Reports WITH queue <- renders
Blog == INSTANCE Posts WITH
  Editors <- Authors, changes <- asks, wanted <- asked, overtaken <- outrun
Testimonials == INSTANCE Reviews WITH profile <- shown

AnyInit ==
  /\ part \in {"listing", "report", "post", "review"}
  /\ Init /\ Pdf!Init /\ Blog!Init /\ Testimonials!Init
  /\ part # "post" => post.status = "draft"
  /\ part # "review" => shown
AnyNext ==
  /\ UNCHANGED part
  /\ \/ part = "listing" /\ Next /\ UNCHANGED <<report_, post_, review_>>
     \/ part = "report" /\ Pdf!Next /\ UNCHANGED <<vars, post_, review_>>
     \/ part = "post" /\ Blog!Next /\ UNCHANGED <<vars, report_, review_>>
     \/ part = "review" /\ Testimonials!Next /\ UNCHANGED <<vars, report_, post_>>
AnySpec ==
  /\ AnyInit /\ [][AnyNext]_<<part, vars, report_, post_, review_>>
  /\ part = "listing" => Fairness

(* See Reports, Posts and Reviews: what is published is there, and what was   *)
(* withdrawn, replaced or refused is not, but for what they name.           *)
ContentIsExplained ==
  /\ Pdf!ReportsAreSound
  /\ Blog!PostsAreSound
  /\ Testimonials!DecisionStands
==============================================================================
