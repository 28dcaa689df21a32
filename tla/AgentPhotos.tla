----------------------------- MODULE AgentPhotos -----------------------------
(***************************************************************************)
(* The photo of one agent profile (modules/agents) and the task that makes   *)
(* its public variants.  A request replaces the photo wholesale under the    *)
(* row lock, under a new key, and has the old objects deleted after commit;  *)
(* variants are stored under a digest of their content, so one image sent    *)
(* twice has one set of variants.  The task's transactions read the row      *)
(* without a lock.                                                          *)
(*                                                                          *)
(* Abstracted: the sizes and formats of variants; "bad" stands for whatever  *)
(* the checks of size, bytes and decoding refuse.                           *)
(***************************************************************************)
EXTENDS Naturals

CONSTANTS Workers, Images, Nothing,
          MaxUploads, \* bound: upload requests
          MaxMishaps  \* bound: callbacks lost, tasks delivered twice, runs that fail or die

Uploads == 1..MaxUploads
Contents == Images \cup {"bad"}

VARIABLES
  profile,   \* Nothing once deleted, or key (an upload or Nothing), status, variants (an image)
  originals, \* [Uploads -> Nothing or what the private bucket holds under its key]
  public,    \* images whose variants are in the public bucket
  deletions, \* delete_media_objects tasks: the key and the image of their objects
  queue,     \* process_agent_photo tasks in the broker
  run,       \* [Workers -> Nothing or where the task is, its key and its image]
  uploads, mishaps,
  sent,      \* history: [Uploads -> what the client has PUT under its key, if anything]
  twice,     \* history: one image was PUT under two keys
  crossed,   \* history: two runs overlapped, or one wrote to a photo that replaced its own
  cut        \* history: a callback was lost, a run or a deletion cut off or a last write refused

photoVars == <<profile, originals, public, deletions, queue, run, uploads, mishaps,
               sent, twice, crossed, cut>>

Init ==
  /\ profile = [key |-> Nothing, status |-> "none", variants |-> Nothing]
  /\ originals = [u \in Uploads |-> Nothing]
  /\ public = {} /\ deletions = {} /\ queue = 0
  /\ run = [w \in Workers |-> Nothing]
  /\ uploads = 0 /\ mishaps = 0
  /\ sent = [u \in Uploads |-> {}]
  /\ twice = FALSE /\ crossed = FALSE /\ cut = FALSE

history == <<sent, twice, crossed, cut>>
Mishap == mishaps < MaxMishaps /\ mishaps' = mishaps + 1
Busy == \E w \in Workers : run[w] # Nothing

(* _photo_objects, enqueued by a callback that may be lost.                 *)
DeleteObjects ==
  \/ /\ deletions' = deletions \cup
          (IF profile.key = Nothing THEN {} ELSE {[key |-> profile.key, image |-> profile.variants]})
     /\ UNCHANGED <<mishaps, cut>>
  \/ Mishap /\ cut' = TRUE /\ UNCHANGED deletions

-----------------------------------------------------------------------------
RequestUpload ==
  /\ profile # Nothing /\ uploads < MaxUploads
  /\ uploads' = uploads + 1
  /\ DeleteObjects
  /\ profile' = [key |-> uploads + 1, status |-> "pending", variants |-> Nothing]
  /\ UNCHANGED <<originals, public, queue, run, sent, twice, crossed>>

(* The client uses its presigned URL, in time or late (bound: once).        *)
Put(u, content) ==
  /\ u <= uploads /\ sent[u] = {}
  /\ originals' = [originals EXCEPT ![u] = content]
  /\ sent' = [sent EXCEPT ![u] = {content}]
  /\ twice' = (twice \/ \E v \in Uploads \ {u} : content \in sent[v])
  /\ UNCHANGED <<profile, public, deletions, queue, run, uploads, mishaps, crossed, cut>>

ConfirmPhoto ==
  /\ profile # Nothing /\ profile.status = "pending"
  /\ profile' = [profile EXCEPT !.status = "processing"]
  /\ \/ queue' = queue + 1 /\ UNCHANGED <<mishaps, cut>>
     \/ Mishap /\ cut' = TRUE /\ UNCHANGED queue
  /\ UNCHANGED <<originals, public, deletions, run, uploads, sent, twice, crossed>>

DeleteProfile ==
  /\ profile # Nothing
  /\ DeleteObjects
  /\ profile' = Nothing
  /\ UNCHANGED <<originals, public, queue, run, uploads, sent, twice, crossed>>

(* delete_media_objects: the original goes first, then its variants ...     *)
Remove(d, variants) ==
  /\ originals' = [originals EXCEPT ![d.key] = Nothing]
  /\ public' = IF variants THEN public \ {d.image} ELSE public

CleanUp(d) ==
  /\ d \in deletions
  /\ deletions' = deletions \ {d}
  /\ Remove(d, TRUE)
  /\ UNCHANGED <<profile, queue, run, uploads, mishaps, history>>

(* ... or fails on the way.  It is tried again, or it was the last of its     *)
(* retries, or it died with its process.                                    *)
FailCleanUp(d) ==
  /\ d \in deletions
  /\ Mishap
  /\ \/ UNCHANGED <<originals, public>>
     \/ \E variants \in BOOLEAN : Remove(d, variants)
  /\ \/ UNCHANGED <<deletions, cut>>
     \/ deletions' = deletions \ {d} /\ cut' = TRUE
  /\ UNCHANGED <<profile, queue, run, uploads, sent, twice, crossed>>

-----------------------------------------------------------------------------
(* process_agent_photo.                                                     *)
Processing == profile # Nothing /\ profile.status = "processing"

At(w, step) == run[w] # Nothing /\ run[w].at = step
Goto(w, step) == run' = [run EXCEPT ![w].at = step]
Finish(w) == run' = [run EXCEPT ![w] = Nothing]
Stored == <<originals, public>>
Broker == <<deletions, queue>>

Snapshot(w) ==
  /\ run[w] = Nothing /\ queue > 0
  /\ queue' = queue - 1
  /\ run' = [run EXCEPT ![w] = IF Processing
                               THEN [at |-> "fetch", key |-> profile.key, image |-> Nothing]
                               ELSE Nothing]
  /\ crossed' = (crossed \/ (Processing /\ Busy))
  /\ UNCHANGED <<profile, Stored, deletions, uploads, mishaps, sent, twice, cut>>

(* HEAD, GET and the checks.                                                *)
Fetch(w) ==
  /\ At(w, "fetch")
  /\ run' = [run EXCEPT ![w].image = originals[run[w].key],
                        ![w].at = IF originals[run[w].key] \in Images THEN "derive" ELSE "reject"]
  /\ UNCHANGED <<profile, Stored, Broker, uploads, mishaps, history>>

Derive(w) ==
  /\ At(w, "derive")
  /\ public' = public \cup {run[w].image}
  /\ Goto(w, "load")
  /\ UNCHANGED <<profile, originals, Broker, uploads, mishaps, history>>

Reject(w) ==
  /\ At(w, "reject")
  /\ originals' = [originals EXCEPT ![run[w].key] = Nothing]
  /\ Goto(w, "refuse")
  /\ UNCHANGED <<profile, public, Broker, uploads, mishaps, history>>

(* _mark_ready and _mark_failed read the row ...                            *)
Load(w) ==
  /\ run[w] # Nothing /\ run[w].at \in {"load", "refuse"}
  /\ \/ ~Processing /\ At(w, "refuse") /\ Finish(w)
     \/ ~Processing /\ At(w, "load") /\ Goto(w, "discard")
     \/ Processing /\ Goto(w, IF At(w, "load") THEN "ready" ELSE "failed")
  /\ UNCHANGED <<profile, Stored, Broker, uploads, mishaps, history>>

(* ... and write it.  A row deleted in between fails the run, whose retry   *)
(* is skipped.                                                              *)
Mark(w) ==
  /\ run[w] # Nothing /\ run[w].at \in {"ready", "failed"}
  /\ profile' = CASE profile = Nothing -> Nothing
                  [] profile # Nothing /\ At(w, "ready") ->
                       [profile EXCEPT !.status = "ready", !.variants = run[w].image]
                  [] OTHER -> [profile EXCEPT !.status = "failed", !.key = Nothing]
  /\ queue' = IF profile = Nothing THEN queue + 1 ELSE queue
  /\ Finish(w)
  /\ crossed' = (crossed \/ (profile # Nothing /\ profile.key # run[w].key))
  /\ cut' = (cut \/ profile = Nothing)
  /\ UNCHANGED <<Stored, deletions, uploads, mishaps, sent, twice>>

Discard(w) ==
  /\ At(w, "discard")
  /\ public' = public \ {run[w].image}
  /\ Finish(w)
  /\ UNCHANGED <<profile, originals, Broker, uploads, mishaps, history>>

(* An infrastructure error requeues the run, a last one or a death drops it. *)
Abort(w) ==
  /\ run[w] # Nothing
  /\ Mishap
  /\ queue' \in {queue, queue + 1}
  /\ Finish(w)
  /\ cut' = TRUE
  /\ UNCHANGED <<profile, Stored, deletions, uploads, sent, twice, crossed>>

(* acks_late: the broker may deliver a task that is running again.          *)
Redeliver ==
  /\ Busy
  /\ Mishap
  /\ queue' = queue + 1
  /\ UNCHANGED <<profile, Stored, deletions, run, uploads, history>>

Next ==
  \/ RequestUpload \/ ConfirmPhoto \/ DeleteProfile \/ Redeliver
  \/ \E u \in Uploads, content \in Contents : Put(u, content)
  \/ \E d \in deletions : CleanUp(d) \/ FailCleanUp(d)
  \/ \E w \in Workers : \/ Snapshot(w) \/ Fetch(w) \/ Derive(w) \/ Reject(w)
                        \/ Load(w) \/ Mark(w) \/ Discard(w) \/ Abort(w)

-----------------------------------------------------------------------------
(* A ready photo shows what was sent under the key on record and its         *)
(* variants are stored ("the just-uploaded variants are ours to clean up",   *)
(* tasks/agents.py), unless runs overlapped or one wrote to the photo that     *)
(* replaced its own, or one image was sent twice and shares its variants.   *)
ReadyPhotoIsThere ==
  profile # Nothing /\ profile.status = "ready" /\ ~crossed =>
    /\ profile.variants \in sent[profile.key]
    /\ twice \/ profile.variants \in public

(* A photo being processed has a task to finish it, and no variants outlive  *)
(* the photo that showed them, unless a callback, a run or a deletion was cut *)
(* off or given up, or runs crossed.                                        *)
NothingLeftBehind ==
  ~cut /\ ~crossed =>
    /\ Processing => queue > 0 \/ Busy
    /\ profile = Nothing /\ deletions = {} /\ ~Busy => public = {}

PhotosAreSound == ReadyPhotoIsThere /\ NothingLeftBehind
=============================================================================
