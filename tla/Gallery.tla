------------------------------- MODULE Gallery -------------------------------
(***************************************************************************)
(* The images, composed: those of listings (MediaPipeline) and the photo of  *)
(* an agent's profile (AgentPhotos).  They share the workers and no state:    *)
(* `part' is chosen at the start and only that one moves.                    *)
(***************************************************************************)
EXTENDS MediaPipeline

CONSTANTS Pictures, MaxUploads, MaxSlips  \* AgentPhotos

VARIABLES part,
  profile, originals, public, deletions, photoTasks, photoRun, uploads, slips, sent, twice,
  crossed, photoCut

Agents == INSTANCE AgentPhotos WITH
  Images <- Pictures, Nothing <- NoTask, MaxMishaps <- MaxSlips,
  queue <- photoTasks, run <- photoRun, mishaps <- slips, cut <- photoCut

Photo == [key : Agents!Uploads \cup {NoTask},
          status : {"none", "pending", "processing", "ready", "failed"},
          variants : Pictures \cup {NoTask}]
PhotoTask == [at : {"fetch", "derive", "reject", "load", "refuse", "ready", "failed", "discard"},
              key : Agents!Uploads, image : Agents!Contents \cup {NoTask}]

(* What stands for nothing is no value of the kinds it stands in for, and a   *)
(* picture is not a bad one.                                                 *)
ASSUME PhotoAssumption ==
  /\ MaxUploads \in Nat /\ MaxSlips \in Nat
  /\ "bad" \notin Pictures
  /\ NoTask \notin Agents!Uploads /\ NoTask \notin Agents!Contents
  /\ NoTask \notin Photo /\ NoTask \notin PhotoTask

photo ==
  <<profile, originals, public, deletions, photoTasks, photoRun, uploads, slips, sent, twice,
    crossed, photoCut>>

GalleryInit == part \in {"listing", "agent"} /\ Init /\ Agents!Init

GalleryNext ==
  /\ UNCHANGED part
  /\ \/ part = "listing" /\ Next /\ UNCHANGED photo
     \/ part = "agent" /\ Agents!Next /\ UNCHANGED vars

gallery == <<part, vars, photo>>
GallerySpec == GalleryInit /\ [][GalleryNext]_gallery
FairGallery == GallerySpec /\ (part = "listing" => Fairness)

(* The variants of a ready image are there unless something they name took    *)
(* them, and an agent's photo leaves no variants behind (see MediaPipeline    *)
(* and AgentPhotos).                                                        *)
ImagesAreThere == VariantsLostOnlyToDouble /\ Agents!PhotosAreSound

-----------------------------------------------------------------------------
(* The run's values: one upload is larger than its client declared.          *)
DeclaredSizes == [m \in Media |-> 1]
ActualSizes ==
  LET large == CHOOSE m \in Media : TRUE
  IN  [m \in Media |-> IF m = large THEN 2 ELSE 1]
=============================================================================
