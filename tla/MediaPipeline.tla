--------------------------- MODULE MediaPipeline ---------------------------
(***************************************************************************)
(* Listing media (modules/media/service.py) and the Celery tasks that        *)
(* process and delete the stored objects (workers/tasks/media.py).           *)
(*                                                                           *)
(* A request mints a pending row and a presigned URL; the client PUTs the    *)
(* original; a confirmation enqueues a task, which reads the row in one      *)
(* transaction, works on the objects outside any transaction, and records    *)
(* the result in another.  Only requests lock rows: the task reads the row   *)
(* without a lock and writes it at the end of the same short transaction.    *)
(*                                                                           *)
(* Abstracted: one listing of one tenant; image bytes, which are good or     *)
(* bad; all variants of a photo, which have keys derived from the original   *)
(* and are one unit here; positions and alternative texts.                   *)
(***************************************************************************)
EXTENDS Integers, FiniteSets, FiniteSetsExt

CONSTANTS
  Media,            \* ids the requests may mint
  Workers,          \* Celery worker processes of the media queue
  NoTask,           \* what an idle worker holds
  NoCount,          \* no presign request is open for a row
  Declared,         \* [Media -> size the client declares]
  Actual,           \* [Media -> size of the object it uploads]
  PhotoQuota,       \* max_photos_per_listing
  StorageLimit,     \* the plan's storage limit
  MaxRetries,       \* max_retries of process_media
  MaxMishaps        \* bound: errors of storage, database and broker, worker deaths, and
                    \* tasks handed to a second worker while one is running them

ASSUME MediaAssumption ==
  /\ Declared \in [Media -> Nat \ {0}]
  /\ Actual \in [Media -> Nat \ {0}]
  /\ {PhotoQuota, StorageLimit, MaxRetries, MaxMishaps} \subseteq Nat
  /\ IsFiniteSet(Media)
  /\ NoCount \notin Nat
  /\ NoTask \notin [m : Media, n : Nat]

VARIABLES
  row,          \* [Media -> listing_media row]
  cover,        \* rows with is_cover
  counted,      \* [Media -> photos counted by the open presign request, or NoCount]
  usage,        \* tenant_usage.storage_bytes
  docs,         \* [Media -> original object in the private bucket]
  bucket,       \* media whose variants are in the public bucket
  queue,        \* process_media tasks: [m |-> media, n |-> retries so far]
  cleanups,     \* delete_media_objects tasks
  pc,           \* [Workers -> control state of the task]
  task,         \* [Workers -> the task being run]
  abandoned,    \* history: media whose task was dropped before it was done
  cut,          \* history: media one of whose runs, callbacks or cleanups was cut off
  doubled,      \* history: media whose task ran twice at once
  mishaps

requests == <<row, cover, counted, usage>>
objects  == <<docs, bucket>>
tasks    == <<queue, cleanups>>
workers  == <<pc, task>>
history  == <<abandoned, cut, doubled>>
vars     == <<requests, objects, tasks, workers, history, mishaps>>

Tasks    == [m : Media, n : 0..MaxRetries]
Cleanups == [m : Media, original : BOOLEAN, variants : BOOLEAN]
Row      == [status   : {"absent", "pending", "processing", "ready", "failed", "deleted"},
             photo    : BOOLEAN,    \* an uploaded photo, not an embedded URL
             original : BOOLEAN,    \* storage_key is set
             variants : BOOLEAN,    \* variants lists their keys
             size     : Nat]        \* size_bytes

TypeOK ==
  /\ row \in [Media -> Row]
  /\ cover \in SUBSET Media
  /\ counted \in [Media -> Nat \cup {NoCount}]
  /\ usage \in Nat
  /\ docs \in [Media -> {"none", "good", "bad"}]
  /\ bucket \in SUBSET Media
  /\ queue \in SUBSET Tasks
  /\ cleanups \in SUBSET Cleanups
  /\ pc \in [Workers -> {"idle", "start", "load", "derive", "derived", "ready",
                         "reject", "rejected", "failed"}]
  /\ task \in [Workers -> Tasks \cup {NoTask}]
  /\ abandoned \in SUBSET Media
  /\ cut \in SUBSET Media
  /\ doubled \in SUBSET Media
  /\ mishaps \in 0..MaxMishaps

NoRow == [status |-> "absent", photo |-> FALSE, original |-> FALSE, variants |-> FALSE, size |-> 0]

Init ==
  /\ row = [m \in Media |-> NoRow]
  /\ cover = {}
  /\ counted = [m \in Media |-> NoCount]
  /\ usage = 0
  /\ docs = [m \in Media |-> "none"]
  /\ bucket = {}
  /\ queue = {}
  /\ cleanups = {}
  /\ pc = [w \in Workers |-> "idle"]
  /\ task = [w \in Workers |-> NoTask]
  /\ abandoned = {}
  /\ cut = {}
  /\ doubled = {}
  /\ mishaps = 0

-----------------------------------------------------------------------------
(* Requests of the portal. *)

Exists(m) == row[m].status \notin {"absent", "deleted"}

ActivePhotos == {m \in Media : row[m].photo /\ row[m].status \in {"pending", "processing", "ready"}}

(* Mutation: the listing is read without FOR UPDATE. *)
ListingUnlocked == FALSE

(* A presign request holds the listing's row lock until it commits. *)
ListingLocked == \E m \in Media : counted[m] # NoCount

(* request_upload locks the listing and counts its photos ... *)
BeginUpload(m) ==
  /\ row[m].status = "absent"
  /\ counted[m] = NoCount
  /\ ~ListingLocked
  /\ counted' = [counted EXCEPT ![m] = Cardinality(ActivePhotos)]
  /\ UNCHANGED <<row, cover, usage, objects, tasks, workers, history, mishaps>>

(* ... and then reserves the declared bytes and inserts the row, or refuses. *)
FinishUpload(m) ==
  /\ counted[m] # NoCount
  /\ counted' = [counted EXCEPT ![m] = NoCount]
  /\ IF counted[m] < PhotoQuota /\ usage + Declared[m] <= StorageLimit
       THEN /\ usage' = usage + Declared[m]
            /\ row' = [row EXCEPT ![m] = [status |-> "pending", photo |-> TRUE, original |-> TRUE,
                                          variants |-> FALSE, size |-> Declared[m]]]
       ELSE UNCHANGED <<usage, row>>
  /\ UNCHANGED <<cover, objects, tasks, workers, history, mishaps>>

(* create_embed: a URL, ready at birth, with nothing stored. *)
CreateEmbed(m) ==
  /\ row[m].status = "absent"
  /\ counted[m] = NoCount
  /\ row' = [row EXCEPT ![m] = [NoRow EXCEPT !.status = "ready"]]
  /\ UNCHANGED <<cover, counted, usage, objects, tasks, workers, history, mishaps>>

(* The client uses its presigned URL, once or again, in time or too late. *)
PutObject(m, content) ==
  /\ row[m].photo
  /\ docs' = [docs EXCEPT ![m] = content]
  /\ UNCHANGED <<requests, bucket, tasks, workers, history, mishaps>>

(* Something goes wrong in the world around. *)
Mishap ==
  /\ mishaps < MaxMishaps
  /\ mishaps' = mishaps + 1

(* The post-commit callback that enqueues may fail: its task is lost. *)
Enqueue(m, lose) ==
  IF lose
    THEN Mishap /\ cut' = cut \cup {m}
    ELSE UNCHANGED <<mishaps, cut>>

ConfirmUpload(m) ==
  /\ row[m].status = "pending"
  /\ row' = [row EXCEPT ![m].status = "processing"]
  /\ \E lose \in BOOLEAN :
       /\ Enqueue(m, lose)
       /\ queue' = IF lose THEN queue ELSE queue \cup {[m |-> m, n |-> 0]}
       /\ abandoned' = IF lose THEN abandoned \cup {m} ELSE abandoned
  /\ UNCHANGED <<cover, counted, usage, objects, cleanups, workers, doubled>>

(* update with is_cover: clears the old cover.  Of two at once, the unique   *)
(* index uq_listing_media_cover refuses one, which is then as if not sent.   *)
SetCover(m) ==
  /\ row[m].photo
  /\ row[m].status = "ready"
  /\ cover' = {m}
  /\ UNCHANGED <<row, counted, usage, objects, tasks, workers, history, mishaps>>

ClearCover(m) ==
  /\ m \in cover
  /\ cover' = cover \ {m}
  /\ UNCHANGED <<row, counted, usage, objects, tasks, workers, history, mishaps>>

(* delete, under the row's lock: releases the bytes on record and enqueues   *)
(* the removal of the objects on record.                                     *)
DeleteMedia(m) ==
  /\ Exists(m)
  /\ row' = [row EXCEPT ![m].status = "deleted"]
  /\ cover' = cover \ {m}
  /\ usage' = Max({usage - row[m].size, 0})
  /\ LET stored == [m |-> m, original |-> row[m].original, variants |-> row[m].variants]
     IN  IF stored.original \/ stored.variants
           THEN \E lose \in BOOLEAN :
                  /\ Enqueue(m, lose)
                  /\ cleanups' = IF lose THEN cleanups ELSE cleanups \cup {stored}
           ELSE UNCHANGED <<mishaps, cut, cleanups>>
  /\ UNCHANGED <<counted, objects, queue, workers, abandoned, doubled>>

-----------------------------------------------------------------------------
(* delete_media_objects: the original goes first, then the variants. *)
Remove(c, original, variants) ==
  /\ docs' = IF original /\ c.original THEN [docs EXCEPT ![c.m] = "none"] ELSE docs
  /\ bucket' = IF variants /\ c.variants THEN bucket \ {c.m} ELSE bucket

RunCleanup(c) ==
  /\ c \in cleanups
  /\ cleanups' = cleanups \ {c}
  /\ Remove(c, TRUE, TRUE)
  /\ UNCHANGED <<requests, queue, workers, history, mishaps>>

(* A run that fails or dies on the way is made again, or it was the last: of  *)
(* its retries, or because only the pool process died (see Crash).           *)
FailCleanup(c) ==
  /\ c \in cleanups
  /\ Mishap
  /\ \E original, variants \in BOOLEAN : (variants => original) /\ Remove(c, original, variants)
  /\ \/ UNCHANGED <<cleanups, cut>>
     \/ cleanups' = cleanups \ {c} /\ cut' = cut \cup {c.m}
  /\ UNCHANGED <<requests, queue, workers, abandoned, doubled>>

-----------------------------------------------------------------------------
(* One run of process_media. *)

Goto(w, label) == pc' = [pc EXCEPT ![w] = label]

Release(w) ==
  /\ Goto(w, "idle")
  /\ task' = [task EXCEPT ![w] = NoTask]

(* The task returns and is acknowledged. *)
Acknowledge(w) ==
  /\ Release(w)
  /\ queue' = queue \ {task[w]}

(* The task raises: it is queued again, or its retries are exhausted. *)
Retry(w) ==
  LET t == task[w]
  IN  /\ Release(w)
      /\ cut' = cut \cup {t.m}
      /\ IF t.n < MaxRetries
           THEN /\ queue' = (queue \ {t}) \cup {[t EXCEPT !.n = @ + 1]}
                /\ UNCHANGED abandoned
           ELSE /\ queue' = queue \ {t}
                /\ abandoned' = abandoned \cup {t.m}

(* A worker receives a task, which stays in the queue until acknowledged. *)
Take(w, t) ==
  /\ pc[w] = "idle"
  /\ t \in queue
  /\ IF \E v \in Workers : task[v] = t
       THEN Mishap /\ doubled' = doubled \cup {t.m}
       ELSE UNCHANGED <<mishaps, doubled>>
  /\ Goto(w, "start")
  /\ task' = [task EXCEPT ![w] = t]
  /\ UNCHANGED <<requests, objects, tasks, abandoned, cut>>

(* The first transaction: anything but a processing row is skipped. *)
Snapshot(w) ==
  /\ pc[w] = "start"
  /\ IF row[task[w].m].status = "processing"
       THEN Goto(w, "load") /\ UNCHANGED <<task, queue>>
       ELSE Acknowledge(w)
  /\ UNCHANGED <<requests, objects, cleanups, history, mishaps>>

(* Mutation: the row is marked before the variants are uploaded. *)
LoadSkipsDerive(w) ==
  /\ pc[w] = "load"
  /\ Goto(w, IF docs[task[w].m] = "good" THEN "derived" ELSE "reject")
  /\ UNCHANGED <<requests, objects, tasks, task, history, mishaps>>

(* HEAD, GET and the checks: a missing or a bad original is rejected. *)
Load(w) ==
  /\ pc[w] = "load"
  /\ Goto(w, IF docs[task[w].m] = "good" THEN "derive" ELSE "reject")
  /\ UNCHANGED <<requests, objects, tasks, task, history, mishaps>>

(* The variants are uploaded under keys a second run would use again. *)
Derive(w) ==
  /\ pc[w] = "derive"
  /\ bucket' = bucket \cup {task[w].m}
  /\ Goto(w, "derived")
  /\ UNCHANGED <<requests, docs, tasks, task, history, mishaps>>

(* Mutation: what was uploaded for a row that is gone is left behind. *)
SelectForReadyNoCleanup(w) ==
  /\ pc[w] = "derived"
  /\ IF row[task[w].m].status = "processing"
       THEN Goto(w, "ready") /\ UNCHANGED <<task, queue>>
       ELSE Acknowledge(w)
  /\ UNCHANGED <<requests, objects, cleanups, history, mishaps>>

(* The last transaction reads the row: if it is not processing any more, the *)
(* variants just uploaded are removed.                                       *)
SelectForReady(w) ==
  /\ pc[w] = "derived"
  /\ IF row[task[w].m].status = "processing"
       THEN Goto(w, "ready") /\ UNCHANGED <<task, queue, bucket>>
       ELSE Acknowledge(w) /\ bucket' = bucket \ {task[w].m}
  /\ UNCHANGED <<requests, docs, cleanups, history, mishaps>>

(* ... and then updates it.  The update of a row deleted in between matches  *)
(* nothing, which the ORM raises as an error.                                *)
MarkReady(w) ==
  LET m == task[w].m
  IN  /\ pc[w] = "ready"
      /\ IF Exists(m)
           THEN /\ row' = [row EXCEPT ![m].status = "ready", ![m].variants = TRUE,
                                      ![m].size = Actual[m]]
                /\ Acknowledge(w)
                /\ UNCHANGED history
           ELSE Retry(w) /\ UNCHANGED <<row, doubled>>
      /\ UNCHANGED <<cover, counted, usage, objects, cleanups, mishaps>>

(* The rejected original is deleted first, then the row is marked failed. *)
Reject(w) ==
  /\ pc[w] = "reject"
  /\ docs' = [docs EXCEPT ![task[w].m] = "none"]
  /\ Goto(w, "rejected")
  /\ UNCHANGED <<requests, bucket, tasks, task, history, mishaps>>

SelectForFailed(w) ==
  /\ pc[w] = "rejected"
  /\ IF row[task[w].m].status = "processing"
       THEN Goto(w, "failed") /\ UNCHANGED <<task, queue>>
       ELSE Acknowledge(w)
  /\ UNCHANGED <<requests, objects, cleanups, history, mishaps>>

MarkFailed(w) ==
  LET m == task[w].m
  IN  /\ pc[w] = "failed"
      /\ IF Exists(m)
           THEN /\ row' = [row EXCEPT ![m].status = "failed", ![m].original = FALSE]
                /\ Acknowledge(w)
                /\ UNCHANGED history
           ELSE Retry(w) /\ UNCHANGED <<row, doubled>>
      /\ UNCHANGED <<cover, counted, usage, objects, cleanups, mishaps>>

(* Mutation: an infrastructure error ends the task (no autoretry_for). *)
FaultEndsTask(w) ==
  /\ pc[w] # "idle"
  /\ Mishap
  /\ Acknowledge(w)
  /\ UNCHANGED <<requests, objects, cleanups, history>>

(* Storage or the database fails: any other exception is retried. *)
Fault(w) ==
  /\ pc[w] # "idle"
  /\ Mishap
  /\ Retry(w)
  /\ UNCHANGED <<requests, objects, cleanups, doubled>>

(* The worker dies: its task stays queued, or is acknowledged when only the  *)
(* pool process died (task_reject_on_worker_lost is not set).                *)
Crash(w) ==
  LET t == task[w]
  IN  /\ pc[w] # "idle"
      /\ Mishap
      /\ cut' = cut \cup {t.m}
      /\ \/ UNCHANGED <<queue, abandoned>>
         \/ queue' = queue \ {t} /\ abandoned' = abandoned \cup {t.m}
      /\ Release(w)
      /\ UNCHANGED <<requests, objects, cleanups, doubled>>

-----------------------------------------------------------------------------
Request(m) ==
  \/ BeginUpload(m)
  \/ FinishUpload(m)
  \/ CreateEmbed(m)
  \/ \E content \in {"good", "bad"} : PutObject(m, content)
  \/ ConfirmUpload(m)
  \/ SetCover(m)
  \/ ClearCover(m)
  \/ DeleteMedia(m)

Run(w) ==
  \/ Snapshot(w) \/ Load(w)
  \/ Derive(w) \/ SelectForReady(w) \/ MarkReady(w)
  \/ Reject(w) \/ SelectForFailed(w) \/ MarkFailed(w)

Next ==
  \/ \E m \in Media : Request(m)
  \/ \E c \in Cleanups : RunCleanup(c) \/ FailCleanup(c)
  \/ \E w \in Workers : (\E t \in Tasks : Take(w, t)) \/ Run(w) \/ Fault(w) \/ Crash(w)

Spec == Init /\ [][Next]_vars

(* Workers poll the queue and keep running; nobody has to send a request. *)
Fairness ==
  \A w \in Workers : WF_vars(\E t \in Tasks : Take(w, t)) /\ WF_vars(Run(w))

FairSpec == Spec /\ Fairness

-----------------------------------------------------------------------------
(* Properties. *)

OnTask(m) == (\E t \in queue : t.m = m) \/ (\E w \in Workers : task[w] # NoTask /\ task[w].m = m)

(* A listing never has more photos than its quota, whatever presign requests *)
(* run at once (request_upload: "two concurrent presign requests must not    *)
(* both pass at quota-1"), except those whose task ran twice at once: the    *)
(* second run may make ready what the first has rejected.                    *)
QuotaRespected == Cardinality(ActivePhotos \ doubled) <= PhotoQuota

(* A row is left processing with nobody to process it only if its task was   *)
(* dropped: by a lost enqueue, a dead worker, or the last of its retries.    *)
StuckOnlyIfAbandoned ==
  \A m \in Media : row[m].status = "processing" => OnTask(m) \/ m \in abandoned

(* Variants without a row are on their way out, unless a run or a callback   *)
(* was cut off between an upload and the transaction that records it, or the *)
(* cleanup that was to remove them was given up or died ("the variants        *)
(* uploaded above are ours to clean up", process_media).                    *)
LeaksOnlyWhenCutOff ==
  \A m \in bucket :
    row[m].status = "deleted" => \/ OnTask(m)
                                 \/ \E c \in cleanups : c.m = m /\ c.variants
                                 \/ m \in cut

(* A ready row is without its variants only if its task ran twice at once.   *)
VariantsLostOnlyToDouble ==
  \A m \in Media \ doubled : row[m].status = "ready" /\ row[m].variants => m \in bucket

(* A confirmed upload ends ready, failed or deleted, if its task survives.   *)
EventuallyProcessed ==
  \A m \in Media :
    row[m].status = "processing" ~> row[m].status # "processing" \/ m \in abandoned
=============================================================================
