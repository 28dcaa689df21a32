------------------------ MODULE MediaPipelineProofs ------------------------
(***************************************************************************)
(* Proofs about Gallery.  In MediaPipeline the quota rests on the presign   *)
(* request that holds the listing's lock: what it counted still bounds the   *)
(* photos when it inserts its own.  The other properties rest on who works   *)
(* on a row: as long as no task is run twice at once, a row has one task, in *)
(* the queue, and one worker, and only that worker takes the row out of      *)
(* processing.  AgentPhotos is the same under the key of a photo: its rows,  *)
(* runs and deletions each have one, and a run whose key is on record has a  *)
(* photo that waits for it.                                                *)
(***************************************************************************)
EXTENDS Gallery, FiniteSetTheorems, TLAPS

On(w, m) == task[w] # NoTask /\ task[w].m = m

(* A busy worker holds a task. *)
TaskInv == \A w \in Workers : pc[w] # "idle" <=> task[w] \in Tasks

(* The rows a presign request counts for are not there yet; it is alone; and *)
(* the photos are still no more than it counted.                             *)
CountInv ==
  \A m \in Media : counted[m] # NoCount =>
    /\ row[m].status = "absent"
    /\ \A k \in Media : counted[k] # NoCount => k = m
    /\ Cardinality(ActivePhotos \ doubled) <= counted[m]

(* The task of a processing row is in the queue until it is acknowledged. *)
QueuedInv ==
  \A m \in Media : row[m].status = "processing" => m \in abandoned \/ \E t \in queue : t.m = m

(* A row whose task never ran twice at once has one task and one worker.     *)
Lone(m) ==
  /\ \A s, t \in queue : s.m = m /\ t.m = m => s = t
  /\ \A w \in Workers : On(w, m) => task[w] \in queue
  /\ \A v, w \in Workers : On(v, m) /\ On(w, m) => v = w
  /\ \A w \in Workers : On(w, m) /\ pc[w] # "start" => row[m].status \in {"processing", "deleted"}
  /\ row[m].status \in {"absent", "pending"} => \A t \in queue : t.m # m
LoneInv == \A m \in Media \ doubled : Lone(m)

(* Objects are removed for rows that are gone. *)
CleanupInv == \A c \in cleanups : row[c.m].status = "deleted"

(* Variants in the bucket are listed by a row, about to be, about to be      *)
(* removed, or left by what was cut off.                                     *)
Uploading(m) == \E w \in Workers : On(w, m) /\ pc[w] \in {"derived", "ready"}
Leaving(m) == \E c \in cleanups : c.m = m /\ c.variants
BucketInv ==
  \A m \in bucket : (Exists(m) /\ row[m].variants) \/ Uploading(m) \/ Leaving(m) \/ m \in cut

(* ... and what a row lists, or is about to, is in the bucket. *)
VariantInv ==
  \A m \in Media \ doubled : Uploading(m) => m \in bucket \/ row[m].status = "deleted"

IInv ==
  /\ TypeOK /\ TaskInv /\ CountInv /\ QueuedInv /\ LoneInv /\ CleanupInv /\ BucketInv
  /\ VariantInv /\ VariantsLostOnlyToDouble /\ QuotaRespected

-----------------------------------------------------------------------------
(* Helpers of the model. *)

LEMMA MaxWithZero ==
  ASSUME NEW i \in Int
  PROVE  Max({i, 0}) \in Nat
<1>1. \E x \in {i, 0} : \A y \in {i, 0} : x >= y
  <2>1. CASE i >= 0  BY <2>1
  <2>2. CASE ~(i >= 0)  BY <2>2
  <2> QED  BY <2>1, <2>2
<1>2. PICK x \in {i, 0} : x = Max({i, 0}) /\ \A y \in {i, 0} : x >= y  BY <1>1 DEF Max
<1> QED  BY <1>2

(* The task a worker puts back on the queue is of the same row. *)
LEMMA Again ==
  ASSUME NEW t \in Tasks, t.n < MaxRetries, MediaAssumption
  PROVE  [t EXCEPT !.n = @ + 1] \in Tasks /\ [t EXCEPT !.n = @ + 1].m = t.m
BY DEF Tasks, MediaAssumption

(* What a run writes to its row. *)
LEMMA RowMarked ==
  ASSUME TypeOK, MediaAssumption, NEW m \in Media,
         \/ row' = [row EXCEPT ![m].status = "ready", ![m].variants = TRUE, ![m].size = Actual[m]]
         \/ row' = [row EXCEPT ![m].status = "failed", ![m].original = FALSE]
  PROVE  /\ row' \in [Media -> Row]
         /\ \A k \in Media \ {m} : row'[k] = row[k]
         /\ row'[m].photo = row[m].photo
         /\ \/ row'[m].status = "ready" /\ row'[m].variants
            \/ row'[m].status = "failed" /\ row'[m].variants = row[m].variants
<1>1. row[m] \in Row /\ Actual[m] \in Nat  BY DEF TypeOK, MediaAssumption
<1>2. CASE row' = [row EXCEPT ![m].status = "ready", ![m].variants = TRUE, ![m].size = Actual[m]]
  BY <1>1, <1>2 DEF TypeOK, Row
<1>3. CASE row' = [row EXCEPT ![m].status = "failed", ![m].original = FALSE]
  BY <1>1, <1>3 DEF TypeOK, Row
<1> QED  BY <1>2, <1>3

LEMMA NoTaskIsNone == MediaAssumption => NoTask \notin Tasks
BY DEF MediaAssumption, Tasks

(* The ways a worker lets go of its task. *)
LEMMA Released ==
  ASSUME TypeOK, TaskInv, MediaAssumption, NEW w \in Workers, pc[w] # "idle",
         Acknowledge(w) \/ Retry(w)
  PROVE  /\ task[w] \in Tasks /\ task[w].m \in Media
         /\ pc' = [pc EXCEPT ![w] = "idle"] /\ task' = [task EXCEPT ![w] = NoTask]
         /\ queue' \in SUBSET Tasks
<1>1. task[w] \in Tasks /\ task[w].m \in Media  BY DEF TaskInv, Tasks
<1>2. pc' = [pc EXCEPT ![w] = "idle"] /\ task' = [task EXCEPT ![w] = NoTask]
  BY DEF Acknowledge, Retry, Release, Goto
<1>3. queue' \in SUBSET Tasks
  <2>1. CASE Acknowledge(w)  BY <2>1 DEF Acknowledge, TypeOK
  <2>2. CASE Retry(w)  BY <1>1, <2>2, Again DEF Retry, TypeOK
  <2> QED  BY <2>1, <2>2
<1> QED  BY <1>1, <1>2, <1>3

LEMMA TypeInit == MediaAssumption /\ Init => TypeOK /\ TaskInv
BY NoTaskIsNone DEF Init, TypeOK, TaskInv, Row, NoRow, MediaAssumption

LEMMA TypeRequest ==
  ASSUME MediaAssumption, TypeOK, NEW m \in Media, Request(m)
  PROVE  TypeOK'
<1> USE DEF TypeOK, requests, objects, tasks, workers, history
<1>1. CASE BeginUpload(m)
  <2>1. Cardinality(ActivePhotos) \in Nat
    <3>1. IsFiniteSet(ActivePhotos)  BY FS_Subset DEF ActivePhotos, MediaAssumption
    <3> QED  BY <3>1, FS_CardinalityType
  <2> QED  BY <1>1, <2>1 DEF BeginUpload
<1>2. CASE FinishUpload(m)
  <2>1. Declared[m] \in Nat  BY DEF MediaAssumption
  <2>2. CASE counted[m] < PhotoQuota /\ usage + Declared[m] <= StorageLimit
    <3> DEFINE new == [status |-> "pending", photo |-> TRUE, original |-> TRUE,
                       variants |-> FALSE, size |-> Declared[m]]
    <3>1. new \in Row  BY <2>1 DEF Row
    <3>2. row' = [row EXCEPT ![m] = new] /\ usage' = usage + Declared[m]
      BY <1>2, <2>2 DEF FinishUpload
    <3> HIDE DEF new
    <3> QED  BY <1>2, <2>1, <3>1, <3>2 DEF FinishUpload
  <2>3. CASE ~(counted[m] < PhotoQuota /\ usage + Declared[m] <= StorageLimit)
    <3>1. row' = row /\ usage' = usage  BY <1>2, <2>3 DEF FinishUpload
    <3> QED  BY <1>2, <3>1 DEF FinishUpload
  <2> QED  BY <2>2, <2>3
<1>3. CASE CreateEmbed(m)
  <2>1. row' \in [Media -> Row]  BY <1>3 DEF CreateEmbed, NoRow, Row
  <2> QED  BY <1>3, <2>1 DEF CreateEmbed
<1>4. CASE \E content \in {"good", "bad"} : PutObject(m, content)  BY <1>4 DEF PutObject
<1>5. CASE ConfirmUpload(m)
  <2>1. row' \in [Media -> Row]  BY <1>5 DEF ConfirmUpload, Row
  <2>2. [m |-> m, n |-> 0] \in Tasks  BY DEF Tasks, MediaAssumption
  <2>3. mishaps' \in 0..MaxMishaps /\ cut' \in SUBSET Media
    BY <1>5 DEF ConfirmUpload, Enqueue, Mishap, MediaAssumption
  <2> QED  BY <1>5, <2>1, <2>2, <2>3 DEF ConfirmUpload
<1>6. CASE SetCover(m)  BY <1>6 DEF SetCover
<1>7. CASE ClearCover(m)  BY <1>7 DEF ClearCover
<1>8. CASE DeleteMedia(m)
  <2>1. row[m] \in Row  OBVIOUS
  <2>2. row' \in [Media -> Row]  BY <1>8, <2>1 DEF DeleteMedia, Row
  <2>3. usage' \in Nat
    <3>1. usage - row[m].size \in Int  BY <2>1 DEF Row
    <3> QED  BY <1>8, <3>1, MaxWithZero DEF DeleteMedia
  <2>4. [m |-> m, original |-> row[m].original, variants |-> row[m].variants] \in Cleanups
    BY <2>1 DEF Row, Cleanups
  <2>5. /\ cleanups' \in SUBSET Cleanups /\ cut' \in SUBSET Media /\ mishaps' \in 0..MaxMishaps
    BY <1>8, <2>4 DEF DeleteMedia, Enqueue, Mishap, MediaAssumption
  <2> QED  BY <1>8, <2>2, <2>3, <2>5 DEF DeleteMedia
<1> QED  BY <1>1, <1>2, <1>3, <1>4, <1>5, <1>6, <1>7, <1>8 DEF Request

LEMMA TypeRun ==
  ASSUME MediaAssumption, TypeOK, TaskInv, NEW w \in Workers, Run(w) \/ Fault(w) \/ Crash(w)
  PROVE  TypeOK'
<1> USE DEF TypeOK, requests, objects, tasks, history
<1>1. CASE Snapshot(w)  BY <1>1, Released DEF Snapshot, Goto, Acknowledge, Release
<1>2. CASE Load(w)  BY <1>2 DEF Load, Goto
<1>3. CASE Derive(w)  BY <1>3 DEF Derive, Goto, TaskInv, Tasks
<1>4. CASE SelectForReady(w)
  BY <1>4, Released DEF SelectForReady, Goto, Acknowledge, Release
<1>5. CASE MarkReady(w)
  <2>1. pc[w] # "idle" /\ (Acknowledge(w) \/ Retry(w))  BY <1>5 DEF MarkReady
  <2>2. row' \in [Media -> Row]  BY <1>5, <2>1, Released, RowMarked DEF MarkReady
  <2>3. abandoned' \in SUBSET Media /\ cut' \in SUBSET Media
    BY <1>5, <2>1, Released DEF MarkReady, Retry
  <2> QED  BY <1>5, <2>1, <2>2, <2>3, Released DEF MarkReady
<1>6. CASE Reject(w)  BY <1>6 DEF Reject, Goto, TaskInv, Tasks
<1>7. CASE SelectForFailed(w)  BY <1>7, Released DEF SelectForFailed, Goto, Acknowledge, Release
<1>8. CASE MarkFailed(w)
  <2>1. pc[w] # "idle" /\ (Acknowledge(w) \/ Retry(w))  BY <1>8 DEF MarkFailed
  <2>2. row' \in [Media -> Row]  BY <1>8, <2>1, Released, RowMarked DEF MarkFailed
  <2>3. abandoned' \in SUBSET Media /\ cut' \in SUBSET Media
    BY <1>8, <2>1, Released DEF MarkFailed, Retry
  <2> QED  BY <1>8, <2>1, <2>2, <2>3, Released DEF MarkFailed
<1>9. CASE Fault(w)
  <2>1. pc[w] # "idle" /\ Retry(w)  BY <1>9 DEF Fault
  <2>2. abandoned' \in SUBSET Media /\ cut' \in SUBSET Media  BY <2>1, Released DEF Retry
  <2> QED  BY <1>9, <2>1, <2>2, Released DEF Fault, Mishap, MediaAssumption
<1>10. CASE Crash(w)
  <2>1. task[w].m \in Media  BY <1>10 DEF Crash, TaskInv, Tasks
  <2> QED  BY <1>10, <2>1 DEF Crash, Mishap, MediaAssumption, Release, Goto
<1> QED  BY <1>1, <1>2, <1>3, <1>4, <1>5, <1>6, <1>7, <1>8, <1>9, <1>10 DEF Run

LEMMA TypeNext ==
  ASSUME MediaAssumption, TypeOK, TaskInv, [Next]_vars
  PROVE  TypeOK'
<1>1. ASSUME NEW m \in Media, Request(m) PROVE TypeOK'  BY <1>1, TypeRequest
<1>2. ASSUME NEW c \in Cleanups, RunCleanup(c) \/ FailCleanup(c) PROVE TypeOK'
  <2>1. c.m \in Media  BY DEF Cleanups
  <2> QED  BY <1>2, <2>1 DEF RunCleanup, FailCleanup, Remove, Mishap, MediaAssumption, TypeOK, requests,
                             workers, history
<1>3. ASSUME NEW w \in Workers, NEW t \in Tasks, Take(w, t) PROVE TypeOK'
  <2>1. t.m \in Media  BY DEF Tasks
  <2> QED
    BY <1>3, <2>1 DEF Take, Goto, Mishap, TypeOK, MediaAssumption, requests, objects, tasks
<1>4. ASSUME NEW w \in Workers, Run(w) \/ Fault(w) \/ Crash(w) PROVE TypeOK'  BY <1>4, TypeRun
<1>5. CASE UNCHANGED vars
  BY <1>5 DEF vars, TypeOK, requests, objects, tasks, workers, history
<1> QED  BY <1>1, <1>2, <1>3, <1>4, <1>5 DEF Next

(* A worker is busy as long as it has a task. *)
LEMMA TaskNext ==
  ASSUME MediaAssumption, TypeOK, TaskInv, [Next]_vars
  PROVE  TaskInv'
<1> USE NoTaskIsNone DEF TaskInv, workers
<1>1. ASSUME NEW m \in Media, Request(m) PROVE TaskInv'
  <2>1. UNCHANGED workers
    BY <1>1 DEF Request, BeginUpload, FinishUpload, CreateEmbed, PutObject, ConfirmUpload,
                SetCover, ClearCover, DeleteMedia
  <2> QED  BY <2>1
<1>2. ASSUME NEW c \in Cleanups, RunCleanup(c) \/ FailCleanup(c) PROVE TaskInv'
  BY <1>2 DEF RunCleanup, FailCleanup
<1>3. ASSUME NEW w \in Workers, NEW t \in Tasks, Take(w, t) PROVE TaskInv'
  BY <1>3 DEF Take, Goto, TypeOK
<1>4. ASSUME NEW w \in Workers, Run(w) \/ Fault(w) \/ Crash(w) PROVE TaskInv'
  <2>1. /\ pc[w] # "idle"
        /\ \/ \E label : label # "idle" /\ pc' = [pc EXCEPT ![w] = label] /\ task' = task
           \/ pc' = [pc EXCEPT ![w] = "idle"] /\ task' = [task EXCEPT ![w] = NoTask]
    BY <1>4 DEF Run, Snapshot, Load, Derive, SelectForReady, MarkReady, Reject, SelectForFailed,
                MarkFailed, Fault, Crash, Goto, Release, Acknowledge, Retry, tasks
  <2> QED  BY <2>1 DEF TypeOK
<1>5. CASE UNCHANGED vars  BY <1>5 DEF vars
<1> QED  BY <1>1, <1>2, <1>3, <1>4, <1>5 DEF Next

-----------------------------------------------------------------------------
(* One task, one worker. *)

(* A worker lets go of its task, and the task leaves the queue, unless the   *)
(* worker died, or is replaced by its next retry.                            *)
LetsGo(w) ==
  /\ pc[w] # "idle"
  /\ pc' = [pc EXCEPT ![w] = "idle"]
  /\ task' = [task EXCEPT ![w] = NoTask]
  /\ \/ queue' = queue
     \/ queue' = queue \ {task[w]}
     \/ task[w].n < MaxRetries /\ queue' = (queue \ {task[w]}) \cup {[task[w] EXCEPT !.n = @ + 1]}

(* ... in which case nobody else was working on the row. *)
LEMMA LoneAlone ==
  ASSUME MediaAssumption, TypeOK, TaskInv, NEW w \in Workers, LetsGo(w), NEW m \in Media, Lone(m)
  PROVE  /\ On(w, m) => (\A v \in Workers : ~On(v, m)') /\ \A s, t \in queue' : s.m = m /\ t.m = m => s = t
         /\ ~On(w, m) => /\ \A v \in Workers : (On(v, m)' <=> On(v, m)) /\ (On(v, m) => v # w)
                         /\ \A t \in Tasks : t.m = m => (t \in queue' <=> t \in queue)
<1>1. task[w] \in Tasks /\ (On(w, m) <=> task[w].m = m)  BY NoTaskIsNone DEF LetsGo, TaskInv, On
<1>2. ASSUME On(w, m)
      PROVE  (\A v \in Workers : ~On(v, m)') /\ \A s, t \in queue' : s.m = m /\ t.m = m => s = t
  <2>1. \A v \in Workers : v # w => ~On(v, m)  BY <1>2 DEF Lone
  <2>2. \A v \in Workers : ~On(v, m)'  BY <2>1 DEF LetsGo, On, TypeOK
  <2>3. task[w] \in queue /\ \A t \in queue : t.m = m => t = task[w]  BY <1>1, <1>2 DEF Lone
  <2>4. \A s, t \in queue' : s.m = m /\ t.m = m => s = t  BY <2>3 DEF LetsGo
  <2> QED  BY <2>2, <2>4
<1>3. ASSUME ~On(w, m)
      PROVE  /\ \A v \in Workers : (On(v, m)' <=> On(v, m)) /\ (On(v, m) => v # w)
             /\ \A t \in Tasks : t.m = m => (t \in queue' <=> t \in queue)
  <2>1. task[w].m # m  BY <1>1, <1>3
  <2>2. task[w].n < MaxRetries => [task[w] EXCEPT !.n = @ + 1].m # m  BY <1>1, <2>1, Again
  <2>3. \A v \in Workers : (On(v, m)' <=> On(v, m)) /\ (On(v, m) => v # w)
    BY <1>3 DEF LetsGo, On, TypeOK
  <2>4. \A t \in Tasks : t.m = m => (t \in queue' <=> t \in queue)  BY <2>1, <2>2 DEF LetsGo
  <2> QED  BY <2>3, <2>4
<1> QED  BY <1>2, <1>3

LEMMA LoneReleased ==
  ASSUME MediaAssumption, TypeOK, TaskInv, LoneInv, NEW w \in Workers, LetsGo(w), doubled' = doubled,
         queue' \subseteq Tasks,
         \A m \in Media : row'[m].status \in {"absent", "pending"} => row'[m] = row[m],
         \A m \in Media : m # task[w].m => row'[m] = row[m]
  PROVE  LoneInv'
<1> SUFFICES ASSUME NEW m \in Media \ doubled PROVE Lone(m)'  BY DEF LoneInv
<1>1. Lone(m)  BY DEF LoneInv
<1>2. CASE On(w, m)
  <2>1. row[m].status \in {"absent", "pending"} => FALSE  BY <1>1, <1>2 DEF Lone, On
  <2> QED  BY <1>1, <1>2, <2>1, LoneAlone DEF Lone
<1>3. CASE ~On(w, m)
  <2>1. row'[m] = row[m]  BY <1>3, NoTaskIsNone DEF LetsGo, TaskInv, On
  <2>2. /\ \A v \in Workers : (On(v, m)' <=> On(v, m)) /\ (On(v, m) => v # w)
        /\ \A t \in Tasks : t.m = m => (t \in queue' <=> t \in queue)
    BY <1>1, <1>3, LoneAlone
  <2>3. \A v \in Workers : On(v, m) => task'[v] = task[v] /\ pc'[v] = pc[v] /\ task[v] \in Tasks
    BY <2>2 DEF LetsGo, TypeOK, On
  <2>4. queue \subseteq Tasks  BY DEF TypeOK
  <2>5. \A v \in Workers : On(v, m)' => task'[v] \in queue'
    BY <1>1, <2>2, <2>3 DEF Lone, On
  <2>6. \A s, t \in queue' : s.m = m /\ t.m = m => s = t  BY <1>1, <2>2, <2>4 DEF Lone
  <2>7. \A v \in Workers : On(v, m)' /\ pc'[v] # "start" => row'[m].status \in {"processing", "deleted"}
    BY <1>1, <2>1, <2>2, <2>3 DEF Lone
  <2>8. row'[m].status \in {"absent", "pending"} => \A t \in queue' : t.m # m
    BY <1>1, <2>1, <2>2 DEF Lone
  <2> QED  BY <1>1, <2>2, <2>5, <2>6, <2>7, <2>8 DEF Lone
<1> QED  BY <1>2, <1>3

(* Two shapes of a worker's step: it goes on with its task, or lets go of it. *)
GoesOn(w) ==
  /\ pc[w] # "idle"
  /\ \E label : label # "idle" /\ pc' = [pc EXCEPT ![w] = label]
  /\ UNCHANGED <<task, queue, row>>
  /\ pc[w] = "start" => row[task[w].m].status = "processing"

LEMMA WorkerSteps ==
  ASSUME TypeOK, NEW w \in Workers, Run(w) \/ Fault(w) \/ Crash(w)
  PROVE  doubled' = doubled /\ (GoesOn(w) \/ LetsGo(w))
<1> USE DEF requests, objects, tasks, history, Goto
<1>1. ASSUME pc[w] # "idle", Acknowledge(w) PROVE LetsGo(w)
  BY <1>1 DEF Acknowledge, Release, LetsGo
<1>2. ASSUME pc[w] # "idle", Retry(w) PROVE LetsGo(w)
  BY <1>2 DEF Retry, Release, LetsGo
<1>3. CASE Snapshot(w)  BY <1>1, <1>3 DEF Snapshot, GoesOn
<1>4. CASE Load(w)  BY <1>4 DEF Load, GoesOn
<1>5. CASE Derive(w)  BY <1>5 DEF Derive, GoesOn
<1>6. CASE SelectForReady(w)  BY <1>1, <1>6 DEF SelectForReady, GoesOn
<1>7. CASE MarkReady(w)  BY <1>1, <1>2, <1>7 DEF MarkReady
<1>8. CASE Reject(w)  BY <1>8 DEF Reject, GoesOn
<1>9. CASE SelectForFailed(w)  BY <1>1, <1>9 DEF SelectForFailed, GoesOn
<1>10. CASE MarkFailed(w)  BY <1>1, <1>2, <1>10 DEF MarkFailed
<1>11. CASE Fault(w)  BY <1>2, <1>11 DEF Fault
<1>12. CASE Crash(w)  BY <1>12 DEF Crash, Release, LetsGo
<1> QED  BY <1>3, <1>4, <1>5, <1>6, <1>7, <1>8, <1>9, <1>10, <1>11, <1>12 DEF Run

(* What a worker does to rows: it may take an existing one out of processing. *)
LEMMA WorkerRows ==
  ASSUME MediaAssumption, TypeOK, TaskInv, NEW w \in Workers, Run(w) \/ Fault(w) \/ Crash(w)
  PROVE  \/ row' = row
         \/ /\ LetsGo(w) /\ queue' = queue \ {task[w]}
            /\ pc[w] \in {"ready", "failed"} /\ UNCHANGED <<abandoned, cut, bucket, cleanups>>
            /\ Exists(task[w].m)
            /\ \A k \in Media \ {task[w].m} : row'[k] = row[k]
            /\ row'[task[w].m].photo = row[task[w].m].photo
            /\ \/ row'[task[w].m].status = "ready" /\ row'[task[w].m].variants /\ pc[w] = "ready"
               \/ /\ row'[task[w].m].status = "failed" /\ pc[w] = "failed"
                  /\ row'[task[w].m].variants = row[task[w].m].variants
<1>1. ASSUME MarkReady(w) \/ MarkFailed(w), row' # row
      PROVE  /\ LetsGo(w) /\ queue' = queue \ {task[w]}
             /\ UNCHANGED <<abandoned, cut, bucket, cleanups>>
             /\ Exists(task[w].m) /\ task[w].m \in Media
  <2>1. pc[w] # "idle" /\ Acknowledge(w) /\ Exists(task[w].m)
        /\ UNCHANGED <<abandoned, cut, bucket, cleanups>>
    BY <1>1 DEF MarkReady, MarkFailed, history, objects
  <2>2. task[w].m \in Media  BY <2>1 DEF TaskInv, Tasks
  <2> QED  BY <2>1, <2>2 DEF Acknowledge, Release, Goto, LetsGo
<1>2. CASE MarkReady(w) /\ row' # row
  <2>1. row' = [row EXCEPT ![task[w].m].status = "ready", ![task[w].m].variants = TRUE,
                           ![task[w].m].size = Actual[task[w].m]]
    BY <1>2 DEF MarkReady
  <2>2. pc[w] = "ready"  BY <1>2 DEF MarkReady
  <2>3. task[w].m \in Media  BY <1>1, <1>2
  <2>4. row[task[w].m] \in Row  BY <2>3 DEF TypeOK
  <2>5. /\ \A k \in Media \ {task[w].m} : row'[k] = row[k]
        /\ row'[task[w].m].photo = row[task[w].m].photo
        /\ row'[task[w].m].status = "ready" /\ row'[task[w].m].variants
    BY <2>1, <2>3, <2>4 DEF TypeOK, Row
  <2> QED  BY <1>1, <1>2, <2>2, <2>5
<1>3. CASE MarkFailed(w) /\ row' # row
  <2>1. row' = [row EXCEPT ![task[w].m].status = "failed", ![task[w].m].original = FALSE]
    BY <1>3 DEF MarkFailed
  <2>2. pc[w] = "failed"  BY <1>3 DEF MarkFailed
  <2>3. task[w].m \in Media  BY <1>1, <1>3
  <2>4. row[task[w].m] \in Row  BY <2>3 DEF TypeOK
  <2>5. /\ \A k \in Media \ {task[w].m} : row'[k] = row[k]
        /\ row'[task[w].m].photo = row[task[w].m].photo
        /\ row'[task[w].m].status = "failed" /\ row'[task[w].m].variants = row[task[w].m].variants
    BY <2>1, <2>3, <2>4 DEF TypeOK, Row
  <2> QED  BY <1>1, <1>3, <2>2, <2>5
<1>4. CASE ~MarkReady(w) /\ ~MarkFailed(w)
  BY <1>4 DEF Run, Snapshot, Load, Derive, SelectForReady, Reject, SelectForFailed, Fault, Crash, requests
<1> QED  BY <1>2, <1>3, <1>4

(* What a request does to rows. *)
LEMMA RequestRows ==
  ASSUME TypeOK, CountInv, NEW m \in Media, Request(m)
  PROVE  /\ UNCHANGED <<pc, task, bucket, doubled>>
         /\ \A k \in Media \ {m} : row'[k] = row[k]
         /\ \/ row'[m] = row[m]
            \/ /\ row[m].status = "absent" /\ ~row'[m].variants
               /\ \/ FinishUpload(m) /\ row'[m].status = "pending"
                  \/ CreateEmbed(m) /\ row'[m].status = "ready" /\ ~row'[m].photo
            \/ ConfirmUpload(m) /\ row[m].status = "pending" /\ row'[m] = [row[m] EXCEPT !.status = "processing"]
            \/ DeleteMedia(m) /\ Exists(m) /\ row'[m] = [row[m] EXCEPT !.status = "deleted"]
         /\ queue' = queue \/ ConfirmUpload(m)
<1> USE DEF TypeOK, requests, objects, tasks, workers, history
<1>1. CASE BeginUpload(m)  BY <1>1 DEF BeginUpload
<1>2. CASE FinishUpload(m)
  <2>1. CASE row' = row  BY <1>2, <2>1 DEF FinishUpload
  <2>2. CASE row' = [row EXCEPT ![m] = [status |-> "pending", photo |-> TRUE, original |-> TRUE,
                                        variants |-> FALSE, size |-> Declared[m]]]
    BY <1>2, <2>2 DEF FinishUpload, CountInv
  <2> QED  BY <1>2, <2>1, <2>2 DEF FinishUpload
<1>3. CASE CreateEmbed(m)
  <2>1. row'[m].status = "ready" /\ ~row'[m].photo /\ ~row'[m].variants
    BY <1>3 DEF CreateEmbed, NoRow
  <2> QED  BY <1>3, <2>1 DEF CreateEmbed
<1>4. CASE \E content \in {"good", "bad"} : PutObject(m, content)  BY <1>4 DEF PutObject
<1>5. CASE ConfirmUpload(m)  BY <1>5 DEF ConfirmUpload
<1>6. CASE SetCover(m)  BY <1>6 DEF SetCover
<1>7. CASE ClearCover(m)  BY <1>7 DEF ClearCover
<1>8. CASE DeleteMedia(m)  BY <1>8 DEF DeleteMedia
<1> QED  BY <1>1, <1>2, <1>3, <1>4, <1>5, <1>6, <1>7, <1>8 DEF Request

LEMMA LoneNext ==
  ASSUME MediaAssumption, TypeOK, TypeOK', TaskInv, CountInv, LoneInv, [Next]_vars
  PROVE  LoneInv'
<1>1. ASSUME NEW m \in Media, Request(m) PROVE LoneInv'
  <2>1. /\ UNCHANGED <<pc, task, doubled>>
        /\ \A k \in Media \ {m} : row'[k] = row[k]
    BY <1>1, RequestRows
  <2> SUFFICES ASSUME NEW k \in Media \ doubled PROVE Lone(k)'  BY <2>1 DEF LoneInv
  <2>2. Lone(k)  BY DEF LoneInv
  <2>3. \A w \in Workers : On(w, k)' <=> On(w, k)  BY <2>1 DEF On
  <2>4. CASE ConfirmUpload(m)
    <3>1. /\ row[m].status = "pending" /\ row'[m].status = "processing"
          /\ queue' = queue \/ queue' = queue \cup {[m |-> m, n |-> 0]}
      BY <2>4 DEF ConfirmUpload, TypeOK
    <3>2. CASE k = m
      <4>1. (\A t \in queue : t.m # k) /\ \A w \in Workers : ~On(w, k)
        BY <2>2, <3>1, <3>2 DEF Lone, On
      <4> QED  BY <2>3, <3>1, <3>2, <4>1 DEF Lone
    <3>3. CASE k # m
      <4>1. row'[k] = row[k] /\ \A t \in queue' : t.m = k => t \in queue  BY <2>1, <3>1, <3>3
      <4>2. queue \subseteq queue'  BY <3>1
      <4> QED  BY <2>1, <2>2, <2>3, <4>1, <4>2 DEF Lone
    <3> QED  BY <3>2, <3>3
  <2>5. CASE ~ConfirmUpload(m)
    <3>1. queue' = queue  BY <1>1, <2>5, RequestRows
    <3>2. CASE row'[k].status = row[k].status  BY <2>1, <2>2, <2>3, <3>1, <3>2 DEF Lone
    <3>3. CASE row'[k].status # row[k].status
      <4>1. k = m /\ (row[m].status = "absent" \/ row'[m].status = "deleted")
        <5>1. k = m /\ row'[m] # row[m]  BY <2>1, <3>3
        <5>2. row[m] \in Row  BY DEF TypeOK
        <5>3. row'[m] = [row[m] EXCEPT !.status = "deleted"] => row'[m].status = "deleted"
          BY <5>2 DEF Row
        <5> QED  BY <1>1, <2>5, <5>1, <5>3, RequestRows
      <4>2. CASE row[m].status = "absent"
        <5>1. (\A t \in queue : t.m # k) /\ \A w \in Workers : ~On(w, k)
          BY <2>2, <4>1, <4>2 DEF Lone, On
        <5> QED  BY <2>3, <3>1, <5>1 DEF Lone
      <4>3. CASE row'[m].status = "deleted"
        BY <2>1, <2>2, <2>3, <3>1, <4>1, <4>3 DEF Lone
      <4> QED  BY <4>1, <4>2, <4>3
    <3> QED  BY <3>2, <3>3
  <2> QED  BY <2>4, <2>5
<1>2. ASSUME NEW c \in Cleanups, RunCleanup(c) \/ FailCleanup(c) PROVE LoneInv'
  BY <1>2 DEF RunCleanup, FailCleanup, LoneInv, Lone, On, requests, workers, history
<1>3. ASSUME NEW w \in Workers, NEW t \in Tasks, Take(w, t) PROVE LoneInv'
  <2>1. /\ pc[w] = "idle" /\ t \in queue /\ row' = row /\ queue' = queue
        /\ pc' = [pc EXCEPT ![w] = "start"] /\ task' = [task EXCEPT ![w] = t]
        /\ doubled \subseteq doubled' /\ (t.m \in doubled' \/ \A v \in Workers : task[v] # t)
    BY <1>3 DEF Take, Goto, requests, tasks
  <2> SUFFICES ASSUME NEW m \in Media \ doubled' PROVE Lone(m)'  BY DEF LoneInv
  <2>2. Lone(m)  BY <2>1 DEF LoneInv
  <2>3. \A v \in Workers : v # w => task'[v] = task[v] /\ pc'[v] = pc[v] /\ (On(v, m)' <=> On(v, m))
    BY <2>1 DEF On, TypeOK
  <2>4. task'[w] = t /\ pc'[w] = "start" /\ (On(w, m)' <=> t.m = m)
    BY <2>1, NoTaskIsNone DEF On, TypeOK
  <2>5. CASE t.m = m
    <3>1. \A v \in Workers : ~On(v, m)
      <4>1. \A v \in Workers : On(v, m) => task[v] = t  BY <2>1, <2>2, <2>5 DEF Lone, On
      <4> QED  BY <2>1, <2>5, <4>1
    <3>2. \A v \in Workers : On(v, m)' => v = w  BY <2>3, <3>1
    <3> QED  BY <2>1, <2>2, <2>4, <3>2 DEF Lone
  <2>6. CASE t.m # m
    <3>1. \A v \in Workers : On(v, m)' => v # w /\ On(v, m)  BY <2>3, <2>4, <2>6
    <3> QED  BY <2>1, <2>2, <2>3, <3>1 DEF Lone
  <2> QED  BY <2>5, <2>6
<1>4. ASSUME NEW w \in Workers, Run(w) \/ Fault(w) \/ Crash(w) PROVE LoneInv'
  <2>1. doubled' = doubled /\ (GoesOn(w) \/ LetsGo(w))  BY <1>4, WorkerSteps
  <2>2. CASE GoesOn(w)
    <3> SUFFICES ASSUME NEW m \in Media \ doubled PROVE Lone(m)'  BY <2>1 DEF LoneInv
    <3>1. Lone(m)  BY DEF LoneInv
    <3>2. \A v \in Workers : On(v, m)' <=> On(v, m)  BY <2>2 DEF On, GoesOn
    <3>3. \A v \in Workers : On(v, m) /\ pc'[v] # "start" => row[m].status \in {"processing", "deleted"}
      BY <2>2, <3>1 DEF GoesOn, TypeOK, Lone, On
    <3> QED  BY <2>2, <3>1, <3>2, <3>3 DEF GoesOn, Lone
  <2>3. CASE LetsGo(w)
    <3>1. queue' \subseteq Tasks  BY DEF TypeOK
    <3>2. \A m \in Media : m # task[w].m => row'[m] = row[m]  BY <1>4, WorkerRows
    <3>3. \A m \in Media : row'[m].status \in {"absent", "pending"} => row'[m] = row[m]
      BY <1>4, WorkerRows
    <3> QED  BY <2>1, <2>3, <3>1, <3>2, <3>3, LoneReleased
  <2> QED  BY <2>1, <2>2, <2>3
<1>5. CASE UNCHANGED vars
  BY <1>5 DEF vars, LoneInv, Lone, On, requests, workers, tasks, history
<1> QED  BY <1>1, <1>2, <1>3, <1>4, <1>5 DEF Next

-----------------------------------------------------------------------------
(* The quota. *)

Photos == ActivePhotos \ doubled

LEMMA PhotosFinite ==
  ASSUME MediaAssumption
  PROVE  /\ IsFiniteSet(Photos) /\ Cardinality(Photos) \in Nat
         /\ \A S \in SUBSET Photos : IsFiniteSet(S) /\ Cardinality(S) \in Nat
                                     /\ Cardinality(S) <= Cardinality(Photos)
<1>1. IsFiniteSet(Media) /\ Photos \subseteq Media  BY DEF MediaAssumption, Photos, ActivePhotos
<1>2. IsFiniteSet(Photos)  BY <1>1, FS_Subset
<1> QED  BY <1>2, FS_Subset, FS_CardinalityType

(* Where no photo is added, what was counted still bounds the photos. *)
LEMMA CountStands ==
  ASSUME MediaAssumption, CountInv, QuotaRespected, Photos' \subseteq Photos,
         \A m \in Media : counted'[m] # NoCount =>
            counted'[m] = counted[m] /\ row'[m].status = row[m].status,
         counted \in [Media -> Nat \cup {NoCount}]
  PROVE  CountInv' /\ QuotaRespected'
<1>1. Cardinality(Photos') \in Nat /\ Cardinality(Photos) \in Nat
      /\ Cardinality(Photos') <= Cardinality(Photos)
  BY PhotosFinite
<1>2. Cardinality(Photos) <= PhotoQuota /\ PhotoQuota \in Nat
  BY DEF QuotaRespected, Photos, MediaAssumption
<1>3. QuotaRespected'  BY <1>1, <1>2 DEF QuotaRespected, Photos
<1>4. CountInv'
  <2> SUFFICES ASSUME NEW m \in Media, counted'[m] # NoCount
               PROVE  /\ row'[m].status = "absent"
                      /\ \A k \in Media : counted'[k] # NoCount => k = m
                      /\ Cardinality(Photos') <= counted'[m]
    BY DEF CountInv, Photos
  <2>1. counted'[m] = counted[m] /\ row'[m].status = row[m].status  OBVIOUS
  <2>2. Cardinality(Photos) <= counted[m] /\ counted[m] \in Nat  BY <2>1 DEF CountInv, Photos
  <2>3. Cardinality(Photos') <= counted'[m]  BY <1>1, <2>1, <2>2
  <2> QED  BY <2>1, <2>3 DEF CountInv
<1> QED  BY <1>3, <1>4

LEMMA CountNext ==
  ASSUME MediaAssumption, TypeOK, TaskInv, LoneInv, CountInv, QuotaRespected, [Next]_vars
  PROVE  CountInv' /\ QuotaRespected'
<1> USE DEF requests, objects, tasks, workers, history
<1>0. counted \in [Media -> Nat \cup {NoCount}] /\ row \in [Media -> Row]  BY DEF TypeOK
<1>1. ASSUME NEW m \in Media, Request(m) PROVE CountInv' /\ QuotaRespected'
  <2>1. doubled' = doubled /\ \A k \in Media \ {m} : row'[k] = row[k]
    BY <1>1, RequestRows
  <2>2. CASE BeginUpload(m)
    <3>1. /\ row[m].status = "absent" /\ row' = row
          /\ counted' = [counted EXCEPT ![m] = Cardinality(ActivePhotos)]
          /\ \A k \in Media : counted[k] = NoCount
      BY <2>2 DEF BeginUpload, ListingLocked
    <3>2. Photos' = Photos  BY <2>1, <3>1 DEF Photos, ActivePhotos
    <3>3. Cardinality(Photos) <= Cardinality(ActivePhotos)
      <4>1. IsFiniteSet(ActivePhotos)  BY FS_Subset DEF ActivePhotos, MediaAssumption
      <4> QED  BY <4>1, FS_Subset DEF Photos
    <3>4. QuotaRespected'  BY <3>2 DEF QuotaRespected, Photos
    <3>5. CountInv'  BY <1>0, <3>1, <3>2, <3>3 DEF CountInv, Photos
    <3> QED  BY <3>4, <3>5
  <2>3. CASE FinishUpload(m) /\ row' # row
    <3>1. /\ counted[m] # NoCount /\ counted[m] < PhotoQuota
          /\ counted' = [counted EXCEPT ![m] = NoCount]
      BY <2>3 DEF FinishUpload
    <3>2. /\ counted[m] \in Nat /\ PhotoQuota \in Nat /\ Cardinality(Photos) <= counted[m]
          /\ \A k \in Media : counted'[k] = NoCount
      BY <1>0, <3>1 DEF CountInv, MediaAssumption, Photos
    <3>3. Photos' \subseteq Photos \cup {m}  BY <2>1 DEF Photos, ActivePhotos
    <3>4. Cardinality(Photos') <= PhotoQuota
      <4>1. IsFiniteSet(Photos) /\ Cardinality(Photos) \in Nat  BY PhotosFinite
      <4>2. IsFiniteSet(Photos \cup {m}) /\ Cardinality(Photos \cup {m}) <= Cardinality(Photos) + 1
        <5> DEFINE n == Cardinality(Photos)
        <5>1. IsFiniteSet(Photos \cup {m})
              /\ Cardinality(Photos \cup {m}) = IF m \in Photos THEN n ELSE n + 1
          BY <4>1, FS_AddElement
        <5>2. n \in Nat  BY <4>1
        <5> HIDE DEF n
        <5>3. Cardinality(Photos \cup {m}) <= n + 1  BY <5>1, <5>2
        <5> QED  BY <5>1, <5>3 DEF n
      <4>3. /\ Cardinality(Photos') \in Nat /\ Cardinality(Photos \cup {m}) \in Nat
            /\ Cardinality(Photos') <= Cardinality(Photos \cup {m})
        BY <3>3, <4>2, FS_Subset, FS_CardinalityType
      <4> QED  BY <3>1, <3>2, <4>1, <4>2, <4>3
    <3>5. QuotaRespected'  BY <3>4 DEF QuotaRespected, Photos
    <3>6. CountInv'  BY <3>2 DEF CountInv
    <3> QED  BY <3>5, <3>6
  <2>4. CASE ~BeginUpload(m) /\ ~(FinishUpload(m) /\ row' # row)
    <3>1. \A k \in Media : counted'[k] # NoCount => counted'[k] = counted[k]
      BY <1>0, <1>1, <2>4 DEF Request, FinishUpload, CreateEmbed, PutObject, ConfirmUpload, SetCover,
                              ClearCover, DeleteMedia
    <3>2. counted'[m] # NoCount => row'[m] = row[m]
      BY <1>1, <2>4, <3>1, RequestRows DEF CountInv, FinishUpload, CreateEmbed, Exists
    <3>3. Photos' \subseteq Photos
      <4>1. m \in Photos' => m \in Photos
        <5>1. row[m] \in Row  BY <1>0
        <5>2. CASE row'[m] = row[m]  BY <2>1, <5>2 DEF Photos, ActivePhotos
        <5>3. CASE row'[m].status = "ready" /\ ~row'[m].photo  BY <5>3 DEF Photos, ActivePhotos
        <5>4. CASE row[m].status = "pending" /\ row'[m] = [row[m] EXCEPT !.status = "processing"]
          BY <2>1, <5>1, <5>4 DEF Photos, ActivePhotos, Row
        <5>5. CASE row'[m] = [row[m] EXCEPT !.status = "deleted"]
          BY <5>1, <5>5 DEF Photos, ActivePhotos, Row
        <5> QED  BY <1>1, <2>4, <5>2, <5>3, <5>4, <5>5, RequestRows
      <4>2. \A k \in Media \ {m} : k \in Photos' => k \in Photos  BY <2>1 DEF Photos, ActivePhotos
      <4>3. Photos' \subseteq Media  BY DEF Photos, ActivePhotos
      <4> QED  BY <4>1, <4>2, <4>3
    <3>4. \A k \in Media : counted'[k] # NoCount => row'[k].status = row[k].status
      BY <2>1, <3>2
    <3> QED  BY <1>0, <3>1, <3>3, <3>4, CountStands
  <2> QED  BY <2>2, <2>3, <2>4
<1>2. ASSUME NEW c \in Cleanups, RunCleanup(c) \/ FailCleanup(c) PROVE CountInv' /\ QuotaRespected'
  BY <1>2 DEF RunCleanup, FailCleanup, CountInv, QuotaRespected, ActivePhotos, requests, history
<1>3. ASSUME NEW w \in Workers, NEW t \in Tasks, Take(w, t) PROVE CountInv' /\ QuotaRespected'
  <2>1. row' = row /\ counted' = counted /\ doubled \subseteq doubled'  BY <1>3 DEF Take
  <2>2. Photos' \subseteq Photos  BY <2>1 DEF Photos, ActivePhotos
  <2> QED  BY <1>0, <2>1, <2>2, CountStands
<1>4. ASSUME NEW w \in Workers, Run(w) \/ Fault(w) \/ Crash(w) PROVE CountInv' /\ QuotaRespected'
  <2>1. counted' = counted /\ doubled' = doubled
    <3>1. counted' = counted
      BY <1>4 DEF Run, Snapshot, Load, Derive, SelectForReady, MarkReady, Reject, SelectForFailed,
                  MarkFailed, Fault, Crash
    <3> QED  BY <1>4, <3>1, WorkerSteps
  <2>2. CASE row' = row
    <3>1. Photos' = Photos  BY <2>1, <2>2 DEF Photos, ActivePhotos
    <3> QED  BY <1>0, <2>1, <2>2, <3>1, CountStands
  <2>3. CASE row' # row
    <3> DEFINE m == task[w].m
    <3>1. /\ pc[w] \in {"ready", "failed"} /\ Exists(m) /\ row'[m].photo = row[m].photo
          /\ \A k \in Media \ {m} : row'[k] = row[k]
      BY <1>4, <2>3, WorkerRows
    <3>2. m \in Media /\ On(w, m)  BY <3>1, NoTaskIsNone DEF TaskInv, Tasks, On
    <3> HIDE DEF m
    <3>3. m \notin doubled => row[m].status = "processing"
      BY <3>1, <3>2 DEF LoneInv, Lone, Exists
    <3>4. Photos' \subseteq Photos
      <4>1. m \in Photos' => m \in Photos  BY <2>1, <3>1, <3>2, <3>3 DEF Photos, ActivePhotos
      <4>2. \A k \in Media \ {m} : k \in Photos' => k \in Photos
        BY <2>1, <3>1 DEF Photos, ActivePhotos
      <4>3. Photos' \subseteq Media  BY DEF Photos, ActivePhotos
      <4> QED  BY <4>1, <4>2, <4>3
    <3>5. counted[m] = NoCount  BY <3>1, <3>2 DEF CountInv, Exists
    <3>6. \A k \in Media : counted'[k] # NoCount => row'[k].status = row[k].status
      BY <2>1, <3>1, <3>5
    <3> QED  BY <1>0, <2>1, <3>4, <3>6, CountStands
  <2> QED  BY <2>2, <2>3
<1>5. CASE UNCHANGED vars
  BY <1>5 DEF vars, CountInv, QuotaRespected, ActivePhotos
<1> QED  BY <1>1, <1>2, <1>3, <1>4, <1>5 DEF Next

-----------------------------------------------------------------------------
(* The task of a processing row. *)

(* A run that lets go of a row that stays processing leaves a task for it,   *)
(* or gives it up.                                                           *)
LEMMA LeavesATask ==
  ASSUME MediaAssumption, TypeOK, TaskInv, NEW w \in Workers, Run(w) \/ Fault(w) \/ Crash(w)
  PROVE  /\ abandoned \subseteq abandoned'
         /\ \/ row'[task[w].m].status # "processing" \/ queue' = queue \/ task[w].m \in abandoned'
            \/ [task[w] EXCEPT !.n = @ + 1] \in queue'
<1> USE DEF requests, objects, tasks, history, Goto
<1>1. ASSUME Retry(w)
      PROVE  /\ abandoned \subseteq abandoned'
             /\ task[w].m \in abandoned' \/ [task[w] EXCEPT !.n = @ + 1] \in queue'
  BY <1>1 DEF Retry
<1>2. CASE Snapshot(w)  BY <1>2 DEF Snapshot
<1>3. CASE Load(w)  BY <1>3 DEF Load
<1>4. CASE Derive(w)  BY <1>4 DEF Derive
<1>5. CASE SelectForReady(w)  BY <1>5 DEF SelectForReady
<1>6. CASE MarkReady(w) \/ MarkFailed(w)
  <2>1. CASE ~Exists(task[w].m)  BY <1>1, <1>6, <2>1 DEF MarkReady, MarkFailed
  <2>2. CASE Exists(task[w].m)
    <3>1. task[w].m \in Media  BY <1>6 DEF MarkReady, MarkFailed, TaskInv, Tasks
    <3>2. abandoned' = abandoned  BY <1>6, <2>2 DEF MarkReady, MarkFailed
    <3>3. row'[task[w].m].status \in {"ready", "failed"}
      BY <1>6, <2>2, <3>1, RowMarked DEF MarkReady, MarkFailed
    <3> QED  BY <3>2, <3>3
  <2> QED  BY <2>1, <2>2
<1>7. CASE Reject(w)  BY <1>7 DEF Reject
<1>8. CASE SelectForFailed(w)  BY <1>8 DEF SelectForFailed
<1>9. CASE Fault(w)  BY <1>1, <1>9 DEF Fault
<1>10. CASE Crash(w)  BY <1>10 DEF Crash
<1> QED  BY <1>2, <1>3, <1>4, <1>5, <1>6, <1>7, <1>8, <1>9, <1>10 DEF Run

LEMMA QueuedNext ==
  ASSUME MediaAssumption, TypeOK, TaskInv, CountInv, QueuedInv, [Next]_vars
  PROVE  QueuedInv'
<1> USE DEF requests, objects, tasks, workers, history
<1>1. ASSUME NEW m \in Media, Request(m) PROVE QueuedInv'
  <2> SUFFICES ASSUME NEW k \in Media, row'[k].status = "processing"
               PROVE  k \in abandoned' \/ \E t \in queue' : t.m = k
    BY DEF QueuedInv
  <2>1. CASE ConfirmUpload(m)
    <3>1. /\ abandoned \subseteq abandoned' /\ queue \subseteq queue'
          /\ m \in abandoned' \/ [m |-> m, n |-> 0] \in queue'
          /\ k # m => row'[k] = row[k]
      BY <2>1 DEF ConfirmUpload, TypeOK
    <3>2. CASE k = m
      <4>1. [m |-> m, n |-> 0].m = k  BY <3>2
      <4> QED  BY <3>1, <3>2, <4>1
    <3>3. CASE k # m  BY <3>1, <3>3 DEF QueuedInv
    <3> QED  BY <3>2, <3>3
  <2>2. CASE ~ConfirmUpload(m)
    <3>1. queue' = queue /\ abandoned' = abandoned
      BY <1>1, <2>2 DEF Request, BeginUpload, FinishUpload, CreateEmbed, PutObject, SetCover,
                        ClearCover, DeleteMedia
    <3>2. row[k].status = "processing"
      <4>1. row[k] \in Row /\ row[m] \in Row  BY DEF TypeOK
      <4>2. CASE k # m  BY <1>1, <4>2, RequestRows
      <4>3. CASE k = m  BY <1>1, <2>2, <4>1, <4>3, RequestRows DEF Row
      <4> QED  BY <4>2, <4>3
    <3> QED  BY <3>1, <3>2 DEF QueuedInv
  <2> QED  BY <2>1, <2>2
<1>2. ASSUME NEW c \in Cleanups, RunCleanup(c) \/ FailCleanup(c) PROVE QueuedInv'
  BY <1>2 DEF RunCleanup, FailCleanup, QueuedInv, requests, history
<1>3. ASSUME NEW w \in Workers, NEW t \in Tasks, Take(w, t) PROVE QueuedInv'
  BY <1>3 DEF Take, QueuedInv
<1>4. ASSUME NEW w \in Workers, Run(w) \/ Fault(w) \/ Crash(w) PROVE QueuedInv'
  <2> SUFFICES ASSUME NEW k \in Media, row'[k].status = "processing"
               PROVE  k \in abandoned' \/ \E t \in queue' : t.m = k
    BY DEF QueuedInv
  <2>1. abandoned \subseteq abandoned'  BY <1>4, LeavesATask
  <2>2. CASE queue' = queue
    <3>1. row[k].status = "processing"  BY <1>4, WorkerRows
    <3> QED  BY <2>1, <2>2, <3>1 DEF QueuedInv
  <2>3. CASE queue' # queue
    <3>1. LetsGo(w) /\ task[w] \in Tasks
      BY <1>4, <2>3, WorkerSteps DEF GoesOn, LetsGo, TaskInv
    <3>2. CASE k = task[w].m
      <4>1. CASE k \in abandoned'  BY <4>1
      <4>2. CASE [task[w] EXCEPT !.n = @ + 1] \in queue'
        <5>1. [task[w] EXCEPT !.n = @ + 1].m = task[w].m  BY <3>1 DEF Tasks
        <5> QED  BY <3>2, <4>2, <5>1
      <4> QED  BY <1>4, <2>3, <3>2, <4>1, <4>2, LeavesATask
    <3>3. CASE k # task[w].m
      <4>1. row[k].status = "processing"  BY <1>4, <3>3, WorkerRows
      <4>2. \A t \in queue : t.m = k => t \in queue'  BY <3>1, <3>3 DEF LetsGo
      <4> QED  BY <2>1, <4>1, <4>2 DEF QueuedInv
    <3> QED  BY <3>2, <3>3
  <2> QED  BY <2>2, <2>3
<1>5. CASE UNCHANGED vars  BY <1>5 DEF vars, QueuedInv
<1> QED  BY <1>1, <1>2, <1>3, <1>4, <1>5 DEF Next

-----------------------------------------------------------------------------
(* The variants. *)

LEMMA CleanupNext ==
  ASSUME MediaAssumption, TypeOK, TaskInv, CountInv, CleanupInv, [Next]_vars
  PROVE  CleanupInv'
<1> USE DEF requests, objects, tasks, workers, history
<1>0. \A c \in cleanups : c.m \in Media  BY DEF TypeOK, Cleanups
<1>1. ASSUME NEW m \in Media, Request(m) PROVE CleanupInv'
  <2>1. \A k \in Media : row[k].status = "deleted" => row'[k].status = "deleted"
    <3>1. row[m] \in Row  BY DEF TypeOK
    <3> QED  BY <1>1, <3>1, RequestRows DEF Exists
  <2>2. CASE DeleteMedia(m)
    <3>1. row'[m].status = "deleted" /\ \A c \in cleanups' : c \in cleanups \/ c.m = m
      BY <2>2 DEF DeleteMedia, TypeOK, Row
    <3> QED  BY <1>0, <2>1, <3>1 DEF CleanupInv
  <2>3. CASE ~DeleteMedia(m)
    <3>1. cleanups' = cleanups
      BY <1>1, <2>3 DEF Request, BeginUpload, FinishUpload, CreateEmbed, PutObject, ConfirmUpload,
                        SetCover, ClearCover
    <3> QED  BY <1>0, <2>1, <3>1 DEF CleanupInv
  <2> QED  BY <2>2, <2>3
<1>2. ASSUME NEW c \in Cleanups, RunCleanup(c) \/ FailCleanup(c) PROVE CleanupInv'
  BY <1>2 DEF RunCleanup, FailCleanup, CleanupInv, requests, history
<1>3. ASSUME NEW w \in Workers, NEW t \in Tasks, Take(w, t) PROVE CleanupInv'
  BY <1>3 DEF Take, CleanupInv
<1>4. ASSUME NEW w \in Workers, Run(w) \/ Fault(w) \/ Crash(w) PROVE CleanupInv'
  <2>1. cleanups' = cleanups
    BY <1>4 DEF Run, Snapshot, Load, Derive, SelectForReady, MarkReady, Reject, SelectForFailed,
                MarkFailed, Fault, Crash
  <2>2. \A k \in Media : row[k].status = "deleted" => row'[k] = row[k]
    BY <1>4, WorkerRows DEF Exists
  <2> QED  BY <1>0, <2>1, <2>2 DEF CleanupInv
<1>5. CASE UNCHANGED vars  BY <1>5 DEF vars, CleanupInv
<1> QED  BY <1>1, <1>2, <1>3, <1>4, <1>5 DEF Next

LEMMA BucketNext ==
  ASSUME MediaAssumption, TypeOK, TaskInv, CountInv, BucketInv, [Next]_vars
  PROVE  BucketInv'
<1> USE DEF requests, objects, tasks, workers, history, Goto
<1>1. ASSUME NEW m \in Media, Request(m) PROVE BucketInv'
  <2> SUFFICES ASSUME NEW k \in bucket
               PROVE  (Exists(k)' /\ row'[k].variants) \/ Uploading(k)' \/ Leaving(k)' \/ k \in cut'
    BY <1>1, RequestRows DEF BucketInv
  <2>1. (Uploading(k) <=> Uploading(k)') /\ cleanups \subseteq cleanups' /\ cut \subseteq cut'
    <3>1. pc' = pc /\ task' = task  BY <1>1, RequestRows
    <3>2. cleanups \subseteq cleanups' /\ cut \subseteq cut'
      BY <1>1 DEF Request, BeginUpload, FinishUpload, CreateEmbed, PutObject, ConfirmUpload, SetCover,
                  ClearCover, DeleteMedia, Enqueue
    <3> QED  BY <3>1, <3>2 DEF Uploading, On
  <2>2. k \in Media /\ row[k] \in Row  BY DEF TypeOK
  <2>3. CASE Uploading(k) \/ Leaving(k) \/ k \in cut  BY <2>1, <2>3 DEF Leaving
  <2>4. CASE Exists(k) /\ row[k].variants
    <3>1. CASE DeleteMedia(m) /\ k = m
      <4> DEFINE stored == [m |-> m, original |-> row[m].original, variants |-> row[m].variants]
      <4>1. m \in cut' \/ stored \in cleanups'
        BY <2>4, <3>1 DEF DeleteMedia, Enqueue
      <4>2. stored.m = k /\ stored.variants  BY <2>4, <3>1
      <4> QED  BY <3>1, <4>1, <4>2 DEF Leaving
    <3>2. CASE ~(DeleteMedia(m) /\ k = m)
      <4>1. \/ row'[k] = row[k]
            \/ row'[k] = [row[k] EXCEPT !.status = "processing"]
        <5>1. CASE k # m  BY <1>1, <2>2, <5>1, RequestRows
        <5>2. CASE k = m
          <6>1. row[m].status # "absent" /\ ~DeleteMedia(m)  BY <2>4, <3>2, <5>2 DEF Exists
          <6> QED  BY <1>1, <5>2, <6>1, RequestRows
        <5> QED  BY <5>1, <5>2
      <4>2. row'[k].variants /\ row'[k].status \in {row[k].status, "processing"}
        BY <2>2, <2>4, <4>1 DEF Row
      <4> QED  BY <2>4, <4>2 DEF Exists
    <3> QED  BY <3>1, <3>2
  <2> QED  BY <2>3, <2>4 DEF BucketInv
<1>2. ASSUME NEW c \in Cleanups, RunCleanup(c) \/ FailCleanup(c) PROVE BucketInv'
  <2>1. /\ UNCHANGED <<row, pc, task>> /\ bucket' \subseteq bucket /\ cut \subseteq cut'
        /\ \/ cleanups' = cleanups
           \/ cleanups' = cleanups \ {c} /\ (c.m \in cut' \/ (c.variants => c.m \notin bucket'))
    BY <1>2 DEF RunCleanup, FailCleanup, Remove, requests, workers, history
  <2> SUFFICES ASSUME NEW k \in bucket'
               PROVE  (Exists(k) /\ row[k].variants) \/ Uploading(k) \/ Leaving(k)' \/ k \in cut'
    BY <2>1 DEF BucketInv, Exists, Uploading, On
  <2>2. Leaving(k) => Leaving(k)' \/ k \in cut'  BY <2>1 DEF Leaving
  <2> QED  BY <2>1, <2>2 DEF BucketInv
<1>3. ASSUME NEW w \in Workers, NEW t \in Tasks, Take(w, t) PROVE BucketInv'
  <2>1. /\ UNCHANGED <<row, bucket, cleanups, cut>> /\ pc[w] = "idle"
        /\ pc' = [pc EXCEPT ![w] = "start"] /\ task' = [task EXCEPT ![w] = t]
    BY <1>3 DEF Take
  <2>2. \A k \in Media : Uploading(k) => Uploading(k)'
    BY <2>1 DEF Uploading, On, TypeOK
  <2> QED  BY <2>1, <2>2 DEF BucketInv, Exists, Leaving, TypeOK
<1>4. ASSUME NEW w \in Workers, Run(w) \/ Fault(w) \/ Crash(w) PROVE BucketInv'
  <2>0. /\ pc[w] # "idle" /\ task[w] \in Tasks /\ (GoesOn(w) \/ LetsGo(w))
    BY <1>4, WorkerSteps DEF GoesOn, LetsGo, TaskInv
  <2>a. PICK m \in Media : m = task[w].m  BY <2>0 DEF Tasks
  <2>1. /\ pc[w] # "idle" /\ task[w] \in Tasks /\ m = task[w].m /\ (GoesOn(w) \/ LetsGo(w))
    BY <2>0, <2>a
  <2>2. /\ cleanups' = cleanups /\ cut \subseteq cut'
        /\ \A k \in bucket' : k \in bucket \/ (k = m /\ GoesOn(w) /\ pc'[w] = "derived")
    <3>1. CASE Derive(w)  BY <2>1, <3>1 DEF Derive, GoesOn, TypeOK
    <3>2. CASE ~Derive(w)
      BY <1>4, <3>2 DEF Run, Snapshot, Load, SelectForReady, MarkReady, Reject, SelectForFailed,
                        MarkFailed, Fault, Crash, Retry
    <3> QED  BY <3>1, <3>2
  <2>3. \A k \in Media : Exists(k) /\ row[k].variants => Exists(k)' /\ row'[k].variants
    <3>1. \A k \in Media : row'[k] = row[k] => Exists(k)' = Exists(k)  BY DEF Exists
    <3>2. CASE row' = row  BY <3>1, <3>2
    <3>3. CASE row' # row
      <4>1. \A k \in Media \ {m} : row'[k] = row[k]  BY <1>4, <2>1, <3>3, WorkerRows
      <4>2. row'[m].status \in {"ready", "failed"} /\ (row[m].variants => row'[m].variants)
        BY <1>4, <2>1, <3>3, WorkerRows
      <4>3. Exists(m)'  BY <4>2 DEF Exists
      <4> QED  BY <3>1, <4>1, <4>2, <4>3
    <3> QED  BY <3>2, <3>3
  <2>4. \A k \in Media \ {m} : Uploading(k) => Uploading(k)'
    <3> SUFFICES ASSUME NEW k \in Media \ {m}, NEW v \in Workers, On(v, k), pc[v] \in {"derived", "ready"}
                 PROVE  On(v, k)' /\ pc'[v] \in {"derived", "ready"}
      BY DEF Uploading
    <3>1. v # w  BY <2>1 DEF On
    <3> QED  BY <2>1, <3>1 DEF On, GoesOn, LetsGo, TypeOK
  <2>5. m \in bucket' => (Exists(m)' /\ row'[m].variants) \/ Uploading(m)' \/ Leaving(m) \/ m \in cut'
    <3>1. CASE GoesOn(w) /\ pc'[w] \in {"derived", "ready"}
      <4>1. On(w, m)'  BY <2>1, <3>1, NoTaskIsNone DEF GoesOn, On
      <4> QED  BY <3>1, <4>1 DEF Uploading
    <3>2. CASE pc[w] \in {"derived", "ready"} /\ ~(GoesOn(w) /\ pc'[w] \in {"derived", "ready"})
      <4>1. CASE SelectForReady(w)
        BY <2>1, <3>2, <4>1 DEF SelectForReady, GoesOn, TypeOK
      <4>2. CASE MarkReady(w) /\ Exists(m)
        <5>1. row'[m].status = "ready" /\ row'[m].variants
          <6>1. row' = [row EXCEPT ![m].status = "ready", ![m].variants = TRUE, ![m].size = Actual[m]]
            BY <2>1, <4>2 DEF MarkReady
          <6>2. row[m] \in Row  BY <2>1 DEF TypeOK
          <6> QED  BY <2>1, <6>1, <6>2 DEF TypeOK, Row
        <5>2. Exists(m)'  BY <5>1 DEF Exists
        <5> QED  BY <5>1, <5>2
      <4>3. CASE MarkReady(w) /\ ~Exists(m)  BY <2>1, <4>3 DEF MarkReady, Retry
      <4>4. CASE Fault(w) \/ Crash(w)  BY <2>1, <4>4 DEF Fault, Crash, Retry
      <4>5. SelectForReady(w) \/ MarkReady(w) \/ Fault(w) \/ Crash(w)
        BY <1>4, <3>2 DEF Run, Snapshot, Load, Derive, Reject, SelectForFailed, MarkFailed
      <4> QED  BY <4>1, <4>2, <4>3, <4>4, <4>5
    <3>3. CASE pc[w] \notin {"derived", "ready"} /\ ~(GoesOn(w) /\ pc'[w] \in {"derived", "ready"})
      <4>1. m \in bucket' => m \in bucket  BY <2>2, <3>3
      <4>2. Uploading(m) => Uploading(m)'
        <5> SUFFICES ASSUME NEW v \in Workers, On(v, m), pc[v] \in {"derived", "ready"}
                     PROVE  On(v, m)' /\ pc'[v] \in {"derived", "ready"}
          BY DEF Uploading
        <5>1. v # w  BY <3>3
        <5>2. task'[v] = task[v] /\ pc'[v] = pc[v]  BY <2>1, <5>1 DEF GoesOn, LetsGo, TypeOK
        <5> QED  BY <5>2 DEF On
      <4> QED  BY <2>1, <2>2, <2>3, <4>1, <4>2 DEF BucketInv
    <3> QED  BY <3>1, <3>2, <3>3
  <2>6. ASSUME NEW k \in bucket', k # m
        PROVE  (Exists(k)' /\ row'[k].variants) \/ Uploading(k)' \/ Leaving(k) \/ k \in cut'
    <3>1. k \in bucket /\ k \in Media  BY <2>2, <2>6 DEF TypeOK
    <3> QED  BY <2>2, <2>3, <2>4, <2>6, <3>1 DEF BucketInv
  <2>7. \A k \in Media : Leaving(k)' <=> Leaving(k)  BY <2>2 DEF Leaving
  <2>8. \A k \in bucket' : k \in Media  BY <2>1, <2>2 DEF TypeOK
  <2> QED  BY <2>5, <2>6, <2>7, <2>8 DEF BucketInv
<1>5. CASE UNCHANGED vars
  BY <1>5 DEF vars, BucketInv, Exists, Uploading, Leaving, On
<1> QED  BY <1>1, <1>2, <1>3, <1>4, <1>5 DEF Next

LEMMA VariantNext ==
  ASSUME MediaAssumption, TypeOK, TaskInv, CountInv, LoneInv, CleanupInv, VariantInv,
         VariantsLostOnlyToDouble, [Next]_vars
  PROVE  VariantInv' /\ VariantsLostOnlyToDouble'
<1> USE DEF requests, objects, tasks, workers, history, Goto
<1>1. ASSUME NEW m \in Media, Request(m) PROVE VariantInv' /\ VariantsLostOnlyToDouble'
  <2>1. UNCHANGED <<pc, task, bucket, doubled>>  BY <1>1, RequestRows
  <2>2. \A k \in Media : /\ row[k].status = "deleted" => row'[k].status = "deleted"
                         /\ row'[k].status = "ready" /\ row'[k].variants => row'[k] = row[k]
    <3>1. row[m] \in Row  BY DEF TypeOK
    <3>2. /\ row[m].status = "deleted" => row'[m].status = "deleted"
          /\ row'[m].status = "ready" /\ row'[m].variants => row'[m] = row[m]
      BY <1>1, <3>1, RequestRows DEF Exists, Row
    <3>3. \A k \in Media \ {m} : row'[k] = row[k]  BY <1>1, RequestRows
    <3> QED  BY <3>2, <3>3
  <2>3. \A k \in Media : Uploading(k)' <=> Uploading(k)  BY <2>1 DEF Uploading, On
  <2>4. VariantInv'  BY <2>1, <2>2, <2>3 DEF VariantInv
  <2>5. VariantsLostOnlyToDouble'  BY <2>1, <2>2 DEF VariantsLostOnlyToDouble
  <2> QED  BY <2>4, <2>5
<1>2. ASSUME NEW c \in Cleanups, RunCleanup(c) \/ FailCleanup(c)
      PROVE  VariantInv' /\ VariantsLostOnlyToDouble'
  <2>1. UNCHANGED <<row, pc, task, doubled>> /\ row[c.m].status = "deleted"
        /\ \A k \in bucket : k \in bucket' \/ k = c.m
    BY <1>2 DEF RunCleanup, FailCleanup, Remove, CleanupInv
  <2>2. \A k \in Media : Uploading(k)' <=> Uploading(k)  BY <2>1 DEF Uploading, On
  <2>3. VariantInv'  BY <2>1, <2>2 DEF VariantInv
  <2>4. VariantsLostOnlyToDouble'  BY <2>1 DEF VariantsLostOnlyToDouble
  <2> QED  BY <2>3, <2>4
<1>3. ASSUME NEW w \in Workers, NEW t \in Tasks, Take(w, t)
      PROVE  VariantInv' /\ VariantsLostOnlyToDouble'
  <2>1. /\ UNCHANGED <<row, bucket>> /\ doubled \subseteq doubled'
        /\ pc' = [pc EXCEPT ![w] = "start"] /\ task' = [task EXCEPT ![w] = t]
    BY <1>3 DEF Take
  <2>2. \A k \in Media : Uploading(k)' => Uploading(k)  BY <2>1 DEF Uploading, On, TypeOK
  <2>3. VariantInv'  BY <2>1, <2>2 DEF VariantInv
  <2>4. VariantsLostOnlyToDouble'  BY <2>1 DEF VariantsLostOnlyToDouble
  <2> QED  BY <2>3, <2>4
<1>4. ASSUME NEW w \in Workers, Run(w) \/ Fault(w) \/ Crash(w)
      PROVE  VariantInv' /\ VariantsLostOnlyToDouble'
  <2>0. /\ pc[w] # "idle" /\ task[w] \in Tasks /\ (GoesOn(w) \/ LetsGo(w)) /\ doubled' = doubled
    BY <1>4, WorkerSteps DEF GoesOn, LetsGo, TaskInv
  <2>a. PICK m \in Media : m = task[w].m  BY <2>0 DEF Tasks
  <2>1. On(w, m) /\ m = task[w].m /\ (m \notin doubled => Lone(m))
    BY <2>0, <2>a, NoTaskIsNone DEF On, LoneInv
  <2>2. /\ \A k \in Media \ {m} : row'[k] = row[k] /\ (k \in bucket' <=> k \in bucket)
        /\ \A k \in Media : row[k].status = "deleted" => row'[k].status = "deleted"
    <3>1. \A k \in Media \ {m} : k \in bucket' <=> k \in bucket
      BY <1>4, <2>1 DEF Run, Snapshot, Load, Derive, SelectForReady, MarkReady, Reject, SelectForFailed,
                        MarkFailed, Fault, Crash
    <3>2. \A k \in Media \ {m} : row'[k] = row[k]  BY <1>4, <2>1, WorkerRows
    <3>3. \A k \in Media : row[k].status = "deleted" => row'[k].status = "deleted"
      BY <1>4, WorkerRows DEF Exists
    <3> QED  BY <3>1, <3>2, <3>3
  <2>3. \A k \in Media \ {m} : Uploading(k)' => Uploading(k)
    <3> SUFFICES ASSUME NEW k \in Media \ {m}, NEW v \in Workers, On(v, k)', pc'[v] \in {"derived", "ready"}
                 PROVE  On(v, k) /\ pc[v] \in {"derived", "ready"}
      BY DEF Uploading
    <3>1. v # w  BY <2>0, <2>1 DEF On, GoesOn, LetsGo, TypeOK
    <3>2. task'[v] = task[v] /\ pc'[v] = pc[v]  BY <2>0, <3>1 DEF GoesOn, LetsGo, TypeOK
    <3> QED  BY <3>2 DEF On
  <2>4. m \notin doubled /\ Uploading(m)' => m \in bucket' \/ row'[m].status = "deleted"
    <3> SUFFICES ASSUME m \notin doubled, NEW v \in Workers, On(v, m)', pc'[v] \in {"derived", "ready"}
                 PROVE  m \in bucket' \/ row'[m].status = "deleted"
      BY DEF Uploading
    <3>1. GoesOn(w) /\ v = w
      <4>1. On(v, m) \/ v = w  BY <2>0 DEF On, GoesOn, LetsGo, TypeOK
      <4>2. v = w  BY <2>1, <4>1 DEF Lone
      <4>3. ~LetsGo(w)  BY <4>2 DEF LetsGo, TypeOK
      <4> QED  BY <2>0, <4>2, <4>3
    <3>2. CASE Derive(w)  BY <2>1, <3>2 DEF Derive
    <3>3. CASE SelectForReady(w)
      <4>1. pc[w] = "derived" /\ bucket' = bucket
        BY <3>1, <3>3 DEF SelectForReady, GoesOn, Acknowledge, Release, TypeOK
      <4>2. Uploading(m)  BY <2>1, <4>1 DEF Uploading
      <4> QED  BY <2>2, <4>1, <4>2 DEF VariantInv
    <3>4. CASE ~Derive(w) /\ ~SelectForReady(w)
      BY <1>4, <3>1, <3>4 DEF Run, Snapshot, Load, MarkReady, Reject, SelectForFailed, MarkFailed,
                              Fault, Crash, Retry, Acknowledge, Release, TypeOK
    <3> QED  BY <3>2, <3>3, <3>4
  <2>5. m \notin doubled /\ row'[m].status = "ready" /\ row'[m].variants => m \in bucket'
    <3> SUFFICES ASSUME m \notin doubled, row'[m].status = "ready", row'[m].variants
                 PROVE  m \in bucket'
      OBVIOUS
    <3>1. CASE row' = row
      <4>1. m \in bucket  BY <3>1 DEF VariantsLostOnlyToDouble
      <4>2. pc[w] = "start"  BY <2>1, <3>1 DEF Lone
      <4>3. bucket' = bucket
        BY <1>4, <4>2 DEF Run, Snapshot, Load, Derive, SelectForReady, MarkReady, Reject, SelectForFailed,
                          MarkFailed, Fault, Crash
      <4> QED  BY <4>1, <4>3
    <3>2. CASE row' # row
      <4>1. pc[w] = "ready" /\ Exists(m) /\ bucket' = bucket  BY <1>4, <2>1, <3>2, WorkerRows
      <4>2. Uploading(m)  BY <2>1, <4>1 DEF Uploading
      <4> QED  BY <4>1, <4>2 DEF VariantInv, Exists
    <3> QED  BY <3>1, <3>2
  <2>6. VariantInv'  BY <2>0, <2>2, <2>3, <2>4 DEF VariantInv
  <2>7. VariantsLostOnlyToDouble'  BY <2>0, <2>2, <2>5 DEF VariantsLostOnlyToDouble
  <2> QED  BY <2>6, <2>7
<1>5. CASE UNCHANGED vars
  BY <1>5 DEF vars, VariantInv, VariantsLostOnlyToDouble, Uploading, On
<1> QED  BY <1>1, <1>2, <1>3, <1>4, <1>5 DEF Next

-----------------------------------------------------------------------------
LEMMA InitIInv == MediaAssumption /\ Init => IInv
<1> SUFFICES ASSUME MediaAssumption, Init PROVE IInv  OBVIOUS
<1>1. TypeOK /\ TaskInv  BY TypeInit
<1>2. ActivePhotos \ doubled = {}  BY DEF Init, NoRow, ActivePhotos
<1>3. QuotaRespected  BY <1>2, FS_EmptySet DEF QuotaRespected, MediaAssumption
<1>4. CountInv /\ QueuedInv /\ CleanupInv /\ BucketInv  
  BY DEF Init, NoRow, CountInv, QueuedInv, CleanupInv, BucketInv
<1>5. LoneInv /\ VariantInv /\ VariantsLostOnlyToDouble
  BY DEF Init, NoRow, LoneInv, Lone, On, VariantInv, Uploading, VariantsLostOnlyToDouble
<1> QED  BY <1>1, <1>3, <1>4, <1>5 DEF IInv

LEMMA NextIInv == MediaAssumption /\ IInv /\ [Next]_vars => IInv'
<1> SUFFICES ASSUME MediaAssumption, IInv, [Next]_vars PROVE IInv'  OBVIOUS
<1> USE DEF IInv
<1>1. TypeOK'  BY TypeNext
<1>2. TaskInv'  BY TaskNext
<1>3. CountInv' /\ QuotaRespected'  BY CountNext
<1>4. QueuedInv'  BY QueuedNext
<1>5. LoneInv'  BY <1>1, LoneNext
<1>6. CleanupInv' /\ BucketInv'  BY CleanupNext, BucketNext
<1>7. VariantInv' /\ VariantsLostOnlyToDouble'  BY VariantNext
<1> QED  BY <1>1, <1>2, <1>3, <1>4, <1>5, <1>6, <1>7

LEMMA AlwaysIInv == Spec => []IInv
<1>1. Init => IInv  BY InitIInv, MediaAssumption
<1>2. IInv /\ [Next]_vars => IInv'  BY NextIInv, MediaAssumption
<1> QED  BY <1>1, <1>2, PTL DEF Spec

(* Rows, tasks and objects are well formed at every step of a run and of a    *)
(* request (MediaService, process_media).                                    *)
THEOREM TypeCorrect == Spec => []TypeOK
<1>1. IInv => TypeOK  BY DEF IInv
<1> QED  BY <1>1, AlwaysIInv, PTL

(* Whatever presign requests race, a listing has no more photos than its      *)
(* quota, but those a second run of the same task has revived                *)
(* (request_upload).                                                         *)
THEOREM QuotaKept == Spec => []QuotaRespected
<1>1. IInv => QuotaRespected  BY DEF IInv
<1> QED  BY <1>1, AlwaysIInv, PTL

(* A row left processing has a task, or its task was dropped: by a lost       *)
(* enqueue, a dead worker or the last retry (confirm_upload, process_media). *)
THEOREM NothingIsStuck == Spec => []StuckOnlyIfAbandoned
<1>1. IInv => StuckOnlyIfAbandoned
  BY DEF IInv, QueuedInv, StuckOnlyIfAbandoned, OnTask
<1> QED  BY <1>1, AlwaysIInv, PTL

(* Variants of a deleted row are being removed, or something was cut off      *)
(* between the upload and the transaction that records it (process_media,    *)
(* delete).                                                                  *)
THEOREM NothingLeaks == Spec => []LeaksOnlyWhenCutOff
<1>1. IInv => LeaksOnlyWhenCutOff
  BY DEF IInv, BucketInv, LeaksOnlyWhenCutOff, Exists, Uploading, Leaving, On, OnTask
<1> QED  BY <1>1, AlwaysIInv, PTL

(* What a ready row lists is in the public bucket, unless its task ran twice  *)
(* at once (process_media).                                                  *)
THEOREM VariantsStay == Spec => []VariantsLostOnlyToDouble
<1>1. IInv => VariantsLostOnlyToDouble  BY DEF IInv
<1> QED  BY <1>1, AlwaysIInv, PTL

-----------------------------------------------------------------------------
Deletion == [key : Agents!Uploads, image : Pictures \cup {NoTask}]

PhotoTypeInv ==
  /\ profile \in Photo \cup {NoTask}
  /\ originals \in [Agents!Uploads -> Agents!Contents \cup {NoTask}]
  /\ public \subseteq Pictures
  /\ deletions \subseteq Deletion
  /\ photoTasks \in Nat
  /\ photoRun \in [Workers -> PhotoTask \cup {NoTask}]
  /\ uploads \in 0..MaxUploads
  /\ sent \in [Agents!Uploads -> SUBSET Agents!Contents]

(* Every key on record was minted; only an upload of its own is behind what a *)
(* key stores or a run works on; and what is to be deleted is not on record. *)
Holds(w, i) == photoRun[w] # NoTask /\ photoRun[w].at \in {"load", "ready",
"discard"} /\ photoRun[w].image = i
For(w) == profile # NoTask /\ photoRun[w] # NoTask /\ photoRun[w].key = profile.key

KeyInv ==
  /\ profile # NoTask =>
       /\ profile.key # NoTask => profile.key <= uploads
       /\ profile.status \in {"pending", "processing"} => profile.key # NoTask
       /\ \A d \in deletions : d.key # profile.key
  /\ \A d \in deletions : d.key <= uploads
  /\ \A w \in Workers : photoRun[w] # NoTask => photoRun[w].key <= uploads

SentInv ==
  /\ \A u \in Agents!Uploads : originals[u] # NoTask => originals[u] \in sent[u]
  /\ \A w \in Workers :
       photoRun[w] # NoTask /\ photoRun[w].at \in {"derive", "load", "ready", "discard"} =>
         photoRun[w].image \in Pictures \cap sent[photoRun[w].key]
  /\ ~twice => \A u, v \in Agents!Uploads : \A i \in sent[u] \cap sent[v] : u = v

(* A photo whose runs never crossed has one run at most, which leaves it      *)
(* processing until it is done.                                              *)
AloneInv ==
  /\ \A v, w \in Workers : photoRun[v] # NoTask /\ photoRun[w] # NoTask => v = w
  /\ \A w \in Workers : For(w) => profile.status = "processing"
  /\ profile # NoTask =>
       IF profile.status = "ready"
       THEN profile.key # NoTask /\ profile.variants \in Pictures \cap sent[profile.key]
       ELSE profile.variants = NoTask
  /\ \A d \in deletions : d.image # NoTask => d.image \in sent[d.key]

(* ... and its variants, shown or about to be, are stored.                   *)
StoredInv ==
  /\ profile # NoTask /\ profile.status = "ready" => profile.variants \in public
  /\ \A w \in Workers : For(w) /\ photoRun[w].at \in {"load", "ready"} => photoRun[w].image \in public

(* Nothing is cut off: a photo being processed has its task, and what is      *)
(* stored is shown, held by a run or to be deleted.                          *)
WholeInv ==
  /\ Agents!Processing => photoTasks > 0 \/ \E w \in Workers : For(w) /\ photoRun[w].at # "discard"
  /\ \A i \in public :
       \/ profile # NoTask /\ profile.key # NoTask /\ profile.variants = i
       \/ \E d \in deletions : d.image = i
       \/ \E w \in Workers : Holds(w, i)

PhotoInv ==
  /\ PhotoTypeInv /\ KeyInv /\ SentInv
  /\ ~crossed => AloneInv
  /\ ~crossed /\ ~twice => StoredInv
  /\ ~crossed /\ ~photoCut => WholeInv

LEMMA NoPhoto == PhotoAssumption => NoTask \notin Photo /\ NoTask \notin PhotoTask
BY DEF PhotoAssumption

LEMMA PhotoTypeInit == PhotoAssumption /\ Agents!Init => PhotoTypeInv
BY DEF PhotoAssumption, Agents!Init, PhotoTypeInv, Photo, PhotoTask, Deletion

LEMMA PhotoTypeRequest ==
  ASSUME PhotoAssumption, PhotoTypeInv,
         \/ Agents!RequestUpload \/ Agents!ConfirmPhoto \/ Agents!DeleteProfile
         \/ Agents!Redeliver
         \/ \E u \in Agents!Uploads, content \in Agents!Contents : Agents!Put(u, content)
         \/ \E d \in deletions : Agents!CleanUp(d) \/ Agents!FailCleanUp(d)
  PROVE  PhotoTypeInv'
<1> USE DEF PhotoTypeInv, PhotoAssumption
<1>1. ASSUME Agents!DeleteObjects, profile \in Photo PROVE deletions' \subseteq Deletion
  BY <1>1 DEF Agents!DeleteObjects, Photo, Deletion
<1>2. CASE Agents!RequestUpload
  <2>1. uploads + 1 \in Agents!Uploads  BY <1>2 DEF Agents!RequestUpload, Agents!Uploads
  <2> QED  BY <1>1, <1>2, <2>1 DEF Agents!RequestUpload, Photo
<1>3. CASE Agents!ConfirmPhoto
  <2>1. profile' \in Photo  BY <1>3 DEF Agents!ConfirmPhoto, Photo
  <2>2. photoTasks' \in Nat  BY <1>3 DEF Agents!ConfirmPhoto
  <2> QED  BY <1>3, <2>1, <2>2 DEF Agents!ConfirmPhoto
<1>4. CASE Agents!DeleteProfile  BY <1>1, <1>4 DEF Agents!DeleteProfile
<1>5. CASE Agents!Redeliver  BY <1>5 DEF Agents!Redeliver, Agents!Stored, Agents!history
<1>6. CASE \E u \in Agents!Uploads, content \in Agents!Contents : Agents!Put(u, content)
  BY <1>6 DEF Agents!Put
<1>7. CASE \E d \in deletions : Agents!CleanUp(d) \/ Agents!FailCleanUp(d)
  BY <1>7 DEF Agents!CleanUp, Agents!FailCleanUp, Agents!Remove, Agents!Mishap, Agents!history, Deletion
<1> QED  BY <1>2, <1>3, <1>4, <1>5, <1>6, <1>7

Step(w) ==
  \/ Agents!Snapshot(w) \/ Agents!Fetch(w) \/ Agents!Derive(w) \/ Agents!Reject(w)
  \/ Agents!Load(w) \/ Agents!Mark(w) \/ Agents!Discard(w) \/ Agents!Abort(w)

LEMMA PhotoTypeRun ==
  ASSUME PhotoAssumption, PhotoTypeInv, KeyInv, SentInv, NEW w \in Workers, Step(w)
  PROVE  PhotoTypeInv'
<1> USE DEF PhotoTypeInv, PhotoAssumption, Agents!Stored, Agents!Broker, Agents!history,
            Agents!Goto, Agents!Finish, Agents!At
<1>1. CASE Agents!Snapshot(w)
  <2>1. photoTasks' \in Nat  BY <1>1 DEF Agents!Snapshot
  <2>2. CASE Agents!Processing
    <3>1. profile.key \in Agents!Uploads  BY <2>2 DEF Agents!Processing, KeyInv, Photo
    <3>2. photoRun' = [photoRun EXCEPT ![w] = [at |-> "fetch", key |-> profile.key, image |-> NoTask]]
      BY <1>1, <2>2 DEF Agents!Snapshot
    <3> QED  BY <1>1, <2>1, <3>1, <3>2 DEF Agents!Snapshot, PhotoTask
  <2>3. CASE ~Agents!Processing  BY <1>1, <2>1, <2>3 DEF Agents!Snapshot
  <2> QED  BY <2>2, <2>3
<1>2. CASE Agents!Fetch(w)
  <2>1. photoRun[w] \in PhotoTask /\ originals[photoRun[w].key] \in Agents!Contents \cup {NoTask}
    BY <1>2 DEF Agents!Fetch, PhotoTask
  <2> DEFINE new == [at |-> IF originals[photoRun[w].key] \in Pictures THEN "derive" ELSE "reject",
                     key |-> photoRun[w].key, image |-> originals[photoRun[w].key]]
  <2>2. new \in PhotoTask  BY <2>1 DEF PhotoTask
  <2>3. photoRun' = [photoRun EXCEPT ![w] = new]  BY <1>2, <2>1 DEF Agents!Fetch, PhotoTask
  <2> HIDE DEF new
  <2>4. photoRun' \in [Workers -> PhotoTask \cup {NoTask}]  BY <2>2, <2>3
  <2> QED  BY <1>2, <2>4 DEF Agents!Fetch
<1>3. CASE Agents!Derive(w)  BY <1>3 DEF Agents!Derive, PhotoTask, SentInv
<1>4. CASE Agents!Reject(w)  BY <1>4 DEF Agents!Reject, PhotoTask
<1>5. CASE Agents!Load(w)  BY <1>5 DEF Agents!Load, PhotoTask
<1>6. CASE Agents!Mark(w)
  <2>1. profile' \in Photo \cup {NoTask}
    <3>1. CASE profile = NoTask  BY <1>6, <3>1 DEF Agents!Mark
    <3>2. CASE profile # NoTask /\ photoRun[w].at = "ready"
      BY <1>6, <3>2 DEF Agents!Mark, Photo, SentInv
    <3>3. CASE profile # NoTask /\ photoRun[w].at = "failed"
      BY <1>6, <3>3 DEF Agents!Mark, Photo
    <3> QED  BY <1>6, <3>1, <3>2, <3>3 DEF Agents!Mark
  <2>2. photoTasks' \in Nat  BY <1>6 DEF Agents!Mark
  <2> QED  BY <1>6, <2>1, <2>2 DEF Agents!Mark
<1>7. CASE Agents!Discard(w)  BY <1>7 DEF Agents!Discard
<1>8. CASE Agents!Abort(w)  BY <1>8 DEF Agents!Abort
<1> QED  BY <1>1, <1>2, <1>3, <1>4, <1>5, <1>6, <1>7, <1>8 DEF Step
-----------------------------------------------------------------------------
(* What a step of a worker does to its run, and to what it leaves alone.     *)
LEMMA OwnRun ==
  ASSUME PhotoTypeInv, NEW w \in Workers, Step(w)
  PROVE  /\ \A v \in Workers \ {w} : photoRun'[v] = photoRun[v]
         /\ uploads' = uploads /\ deletions' = deletions /\ sent' = sent /\ twice' = twice
BY DEF PhotoTypeInv, Step, Agents!Snapshot, Agents!Fetch, Agents!Derive, Agents!Reject, Agents!Load,
       Agents!Mark, Agents!Discard, Agents!Abort, Agents!Stored, Agents!Broker, Agents!history,
       Agents!Goto, Agents!Finish, Agents!At

LEMMA OwnPlace ==
  ASSUME PhotoTypeInv, NEW w \in Workers, Step(w), photoRun'[w] # NoTask
  PROVE  \/ /\ Agents!Snapshot(w) /\ Agents!Processing /\ photoRun[w] = NoTask
            /\ photoRun'[w] = [at |-> "fetch", key |-> profile.key, image |-> NoTask]
         \/ /\ photoRun[w] # NoTask /\ photoRun'[w].key = photoRun[w].key
            /\ profile' = profile
            /\ \/ /\ Agents!Fetch(w) /\ photoRun[w].at = "fetch"
                  /\ photoRun'[w].image = originals[photoRun[w].key]
                  /\ photoRun'[w].at = IF originals[photoRun[w].key] \in Pictures
                                       THEN "derive" ELSE "reject"
               \/ /\ photoRun'[w].image = photoRun[w].image
                  /\ \/ Agents!Derive(w) /\ photoRun[w].at = "derive" /\ photoRun'[w].at = "load"
                     \/ Agents!Reject(w) /\ photoRun[w].at = "reject" /\ photoRun'[w].at = "refuse"
                     \/ /\ Agents!Load(w) /\ photoRun[w].at = "load" /\ ~Agents!Processing
                        /\ photoRun'[w].at = "discard"
                     \/ /\ Agents!Load(w) /\ photoRun[w].at = "load" /\ Agents!Processing
                        /\ photoRun'[w].at = "ready"
                     \/ /\ Agents!Load(w) /\ photoRun[w].at = "refuse" /\ Agents!Processing
                        /\ photoRun'[w].at = "failed"
<1> USE DEF PhotoTypeInv, Agents!Goto, Agents!Finish, Agents!At, Agents!Stored, Agents!Broker
<1>1. CASE Agents!Snapshot(w)  BY <1>1 DEF Agents!Snapshot
<1>2. CASE Agents!Fetch(w)  BY <1>2 DEF Agents!Fetch, PhotoTask
<1>3. CASE Agents!Derive(w)  BY <1>3 DEF Agents!Derive, PhotoTask
<1>4. CASE Agents!Reject(w)  BY <1>4 DEF Agents!Reject, PhotoTask
<1>5. CASE Agents!Load(w)  BY <1>5 DEF Agents!Load, PhotoTask
<1>6. CASE Agents!Mark(w) \/ Agents!Discard(w) \/ Agents!Abort(w)
  BY <1>6 DEF Agents!Mark, Agents!Discard, Agents!Abort
<1> QED  BY <1>1, <1>2, <1>3, <1>4, <1>5, <1>6 DEF Step

(* What a request, or a deletion, leaves of the runs and the uploads. *)
Portal ==
  \/ Agents!RequestUpload \/ Agents!ConfirmPhoto \/ Agents!DeleteProfile \/ Agents!Redeliver
  \/ \E u \in Agents!Uploads, content \in Agents!Contents : Agents!Put(u, content)
  \/ \E d \in deletions : Agents!CleanUp(d) \/ Agents!FailCleanUp(d)

LEMMA PhotoSteps == Agents!Next => Portal \/ \E w \in Workers : Step(w)
BY DEF Agents!Next, Portal, Step

LEMMA PortalRuns == Portal => photoRun' = photoRun /\ crossed' = crossed
BY DEF Portal, Agents!RequestUpload, Agents!ConfirmPhoto, Agents!DeleteProfile, Agents!Redeliver,
       Agents!Put, Agents!CleanUp, Agents!FailCleanUp, Agents!Remove, Agents!Mishap, Agents!history

(* How a request leaves the photo of the profile. *)
LEMMA PortalPhoto ==
  ASSUME PhotoAssumption, PhotoTypeInv, KeyInv, Portal
  PROVE  \/ profile' = profile
         \/ Agents!DeleteProfile /\ profile # NoTask /\ profile' = NoTask
         \/ /\ Agents!RequestUpload /\ profile # NoTask
            /\ profile' = [key |-> uploads + 1, status |-> "pending", variants |-> NoTask]
            /\ uploads' = uploads + 1
         \/ /\ Agents!ConfirmPhoto /\ profile # NoTask /\ profile' # NoTask
            /\ profile.status = "pending" /\ profile'.status = "processing"
            /\ profile'.key = profile.key /\ profile'.variants = profile.variants
            /\ deletions' = deletions
<1>1. CASE Agents!RequestUpload  BY <1>1 DEF Agents!RequestUpload
<1>2. CASE Agents!ConfirmPhoto
  <2>1. profile \in Photo /\ profile' = [profile EXCEPT !.status = "processing"]
    BY <1>2 DEF Agents!ConfirmPhoto, PhotoTypeInv
  <2>2. profile' \in Photo /\ profile'.status = "processing"  BY <2>1 DEF Photo
  <2>3. profile'.key = profile.key /\ profile'.variants = profile.variants  BY <2>1 DEF Photo
  <2> QED  BY <1>2, <2>2, <2>3, NoPhoto DEF Agents!ConfirmPhoto
<1>3. CASE Agents!DeleteProfile  BY <1>3 DEF Agents!DeleteProfile
<1> QED
  BY <1>1, <1>2, <1>3 DEF Portal, Agents!Redeliver, Agents!Put, Agents!CleanUp, Agents!FailCleanUp,
                          Agents!Remove, Agents!Mishap

LEMMA PortalDeletions ==
  ASSUME PhotoTypeInv, Portal, NEW d \in deletions', d \notin deletions
  PROVE  /\ profile # NoTask /\ profile.key # NoTask
         /\ d = [key |-> profile.key, image |-> profile.variants]
         /\ Agents!RequestUpload \/ Agents!DeleteProfile
BY DEF Portal, Agents!RequestUpload, Agents!ConfirmPhoto, Agents!DeleteProfile, Agents!Redeliver,
       Agents!Put, Agents!CleanUp, Agents!FailCleanUp, Agents!Remove, Agents!Mishap,
       Agents!DeleteObjects, Agents!history

LEMMA KeyNext ==
  ASSUME PhotoAssumption, PhotoTypeInv, KeyInv, Agents!Next
  PROVE  KeyInv'
<1>1. CASE Portal
  <2>1. uploads' \in {uploads, uploads + 1} /\ uploads \in Nat
    BY <1>1 DEF Portal, Agents!RequestUpload, Agents!ConfirmPhoto, Agents!DeleteProfile,
       Agents!Redeliver, Agents!Put, Agents!CleanUp, Agents!FailCleanUp, Agents!Remove, Agents!Mishap,
       Agents!history, PhotoTypeInv, PhotoAssumption
  <2>2. ASSUME NEW d \in deletions' PROVE d.key <= uploads /\ d.key \in Nat
    BY <1>1, <2>2, PortalDeletions DEF KeyInv, PhotoTypeInv, Deletion, Photo, Agents!Uploads
  <2>3. \A d \in deletions' : d.key <= uploads'  BY <2>1, <2>2
  <2>4. \A w \in Workers : photoRun'[w] # NoTask => photoRun'[w].key <= uploads'
    BY <1>1, <2>1, PortalRuns DEF KeyInv, PhotoTypeInv, PhotoTask, Agents!Uploads
  <2>5. ASSUME profile' # NoTask
        PROVE  /\ profile'.key # NoTask => profile'.key <= uploads'
               /\ profile'.status \in {"pending", "processing"} => profile'.key # NoTask
               /\ \A d \in deletions' : d.key # profile'.key
    <3>1. CASE Agents!RequestUpload
      <4>1. /\ profile'.key = uploads + 1 /\ uploads' = uploads + 1
            /\ uploads + 1 \in Agents!Uploads
        BY <3>1, <2>1 DEF Agents!RequestUpload, Agents!Uploads, PhotoAssumption, PhotoTypeInv
      <4> QED  BY <2>1, <2>2, <4>1 DEF PhotoAssumption
    <3>2. CASE ~Agents!RequestUpload
      <4>1. profile # NoTask /\ profile'.key = profile.key
            /\ (profile'.status \in {"pending", "processing"}
                  => profile.status \in {"pending", "processing"})
        BY <1>1, <2>5, <3>2, PortalPhoto
      <4>2. deletions' \subseteq deletions  BY <1>1, <2>5, <3>2, PortalDeletions DEF Agents!DeleteProfile
      <4>3. profile.key # NoTask => profile.key \in Nat
        BY <4>1 DEF PhotoTypeInv, Photo, Agents!Uploads
      <4> QED  BY <2>1, <4>1, <4>2, <4>3 DEF KeyInv
    <3> QED  BY <3>1, <3>2
  <2> QED  BY <2>3, <2>4, <2>5 DEF KeyInv
<1>2. ASSUME NEW w \in Workers, Step(w) PROVE KeyInv'
  <2>1. uploads' = uploads /\ deletions' = deletions  BY <1>2, OwnRun
  <2>2. ASSUME NEW v \in Workers, photoRun'[v] # NoTask PROVE photoRun'[v].key <= uploads
    <3>1. CASE v # w  BY <1>2, <2>2, <3>1, OwnRun DEF KeyInv
    <3>2. CASE v = w  BY <1>2, <2>2, <3>2, OwnPlace DEF KeyInv, Agents!Processing
    <3> QED  BY <3>1, <3>2
  <2>3. ASSUME profile' # NoTask
        PROVE  /\ profile # NoTask /\ profile'.key \in {profile.key, NoTask}
               /\ (profile'.status \in {"pending", "processing"} => profile' = profile)
    <3>1. CASE Agents!Mark(w)
      <4>1. profile # NoTask  BY <2>3, <3>1 DEF Agents!Mark
      <4>2. CASE photoRun[w].at = "ready"
        BY <3>1, <4>1, <4>2 DEF Agents!Mark, Agents!At, PhotoTypeInv, Photo
      <4>3. CASE photoRun[w].at = "failed"
        BY <3>1, <4>1, <4>3 DEF Agents!Mark, Agents!At, PhotoTypeInv, Photo
      <4> QED  BY <3>1, <4>1, <4>2, <4>3 DEF Agents!Mark
    <3>2. CASE ~Agents!Mark(w)
      BY <1>2, <2>3, <3>2 DEF Step, Agents!Snapshot, Agents!Fetch, Agents!Derive, Agents!Reject,
                              Agents!Load, Agents!Discard, Agents!Abort
    <3> QED  BY <3>1, <3>2
  <2>4. \A d \in deletions : d.key # NoTask  BY DEF PhotoTypeInv, Deletion, PhotoAssumption
  <2> QED  BY <2>1, <2>2, <2>3, <2>4 DEF KeyInv
<1> QED  BY <1>1, <1>2, PhotoSteps

LEMMA SentNext ==
  ASSUME PhotoAssumption, PhotoTypeInv, KeyInv, SentInv, Agents!Next
  PROVE  SentInv'
<1>0. \A i \in Pictures : i # NoTask /\ i \in Agents!Contents  BY DEF PhotoAssumption, Agents!Contents
<1>1. ASSUME NEW u \in Agents!Uploads, NEW content \in Agents!Contents, Agents!Put(u, content)
      PROVE  SentInv'
  <2>1. /\ sent[u] = {} /\ sent' = [sent EXCEPT ![u] = {content}]
        /\ originals' = [originals EXCEPT ![u] = content]
        /\ twice' = (twice \/ \E v \in Agents!Uploads \ {u} : content \in sent[v])
        /\ photoRun' = photoRun
    BY <1>1 DEF Agents!Put
  <2>2. /\ sent'[u] = {content} /\ originals'[u] = content
        /\ \A v \in Agents!Uploads \ {u} : sent'[v] = sent[v] /\ originals'[v] = originals[v]
    BY <2>1 DEF PhotoTypeInv
  <2>3. \A v \in Agents!Uploads : originals'[v] # NoTask => originals'[v] \in sent'[v]
    BY <2>2 DEF SentInv
  <2>4. \A v \in Agents!Uploads : sent[v] \subseteq sent'[v]  BY <2>1, <2>2
  <2>5. ASSUME NEW w \in Workers, photoRun[w] # NoTask,
               photoRun[w].at \in {"derive", "load", "ready", "discard"}
        PROVE  photoRun[w].image \in Pictures \cap sent'[photoRun[w].key]
    BY <2>4, <2>5 DEF SentInv, PhotoTypeInv, PhotoTask
  <2>6. ~twice' => \A x, y \in Agents!Uploads : \A i \in sent'[x] \cap sent'[y] : x = y
    <3> SUFFICES ASSUME ~twice', NEW x \in Agents!Uploads, NEW y \in Agents!Uploads,
                        NEW i \in sent'[x] \cap sent'[y]
                 PROVE  x = y
      OBVIOUS
    <3>1. ~twice /\ \A v \in Agents!Uploads \ {u} : content \notin sent[v]  BY <2>1
    <3>2. CASE x = u \/ y = u  BY <2>2, <3>1, <3>2
    <3>3. CASE x # u /\ y # u  BY <2>2, <3>1, <3>3 DEF SentInv
    <3> QED  BY <3>2, <3>3
  <2> QED  BY <2>1, <2>3, <2>5, <2>6 DEF SentInv
<1>2. CASE Portal /\ sent' = sent
  <2>1. photoRun' = photoRun /\ twice' = twice
    <3>1. ASSUME NEW u \in Agents!Uploads, NEW content \in Agents!Contents, Agents!Put(u, content)
          PROVE  sent' # sent
      <4>1. sent[u] = {} /\ sent' = [sent EXCEPT ![u] = {content}]  BY <3>1 DEF Agents!Put
      <4>2. sent'[u] = {content}  BY <4>1 DEF PhotoTypeInv
      <4> QED  BY <4>1, <4>2
    <3> QED
      BY <1>2, <3>1, PortalRuns
         DEF Portal, Agents!RequestUpload, Agents!ConfirmPhoto, Agents!DeleteProfile,
             Agents!Redeliver, Agents!CleanUp, Agents!FailCleanUp, Agents!Remove, Agents!Mishap,
             Agents!history
  <2>2. \A u \in Agents!Uploads : originals'[u] # NoTask => originals'[u] \in sent[u]
    BY <1>2 DEF Portal, Agents!RequestUpload, Agents!ConfirmPhoto, Agents!DeleteProfile,
                Agents!Redeliver, Agents!CleanUp, Agents!FailCleanUp, Agents!Remove, Agents!Mishap,
                Agents!history, Agents!Put, Agents!Stored, SentInv, PhotoTypeInv
  <2> QED  BY <1>2, <2>1, <2>2 DEF SentInv
<1>3. ASSUME NEW w \in Workers, Step(w) PROVE SentInv'
  <2>1. sent' = sent /\ twice' = twice  BY <1>3, OwnRun
  <2>2. \A u \in Agents!Uploads : originals'[u] \in {originals[u], NoTask}
    BY <1>3 DEF Step, Agents!Snapshot, Agents!Fetch, Agents!Derive, Agents!Reject, Agents!Load,
                Agents!Mark, Agents!Discard, Agents!Abort, Agents!Stored, PhotoTypeInv
  <2>3. ASSUME NEW v \in Workers, photoRun'[v] # NoTask,
               photoRun'[v].at \in {"derive", "load", "ready", "discard"}
        PROVE  photoRun'[v].image \in Pictures \cap sent[photoRun'[v].key]
    <3>1. CASE v # w  BY <1>3, <2>3, <3>1, OwnRun DEF SentInv
    <3>2. CASE v = w /\ Agents!Fetch(w)
      <4>1. /\ photoRun[w] # NoTask /\ photoRun'[w].key = photoRun[w].key
            /\ photoRun'[w].image = originals[photoRun[w].key]
            /\ originals[photoRun[w].key] \in Pictures
        BY <1>3, <2>3, <3>2 DEF Agents!Fetch, Agents!At, PhotoTypeInv, PhotoTask
      <4>2. photoRun[w].key \in Agents!Uploads  BY <4>1 DEF PhotoTypeInv, PhotoTask
      <4> QED  BY <1>0, <3>2, <4>1, <4>2 DEF SentInv
    <3>3. CASE v = w /\ ~Agents!Fetch(w)
      <4>1. /\ photoRun[w] # NoTask /\ photoRun'[w].key = photoRun[w].key
            /\ photoRun'[w].image = photoRun[w].image
            /\ photoRun[w].at \in {"derive", "load"}
        BY <1>3, <2>3, <3>3, OwnPlace
      <4> QED  BY <3>3, <4>1 DEF SentInv
    <3> QED  BY <3>1, <3>2, <3>3
  <2> QED  BY <2>1, <2>2, <2>3 DEF SentInv
<1>4. CASE Portal /\ sent' # sent
  BY <1>1, <1>4 DEF Portal, Agents!RequestUpload, Agents!ConfirmPhoto, Agents!DeleteProfile,
                    Agents!Redeliver, Agents!CleanUp, Agents!FailCleanUp, Agents!Remove, Agents!Mishap,
                    Agents!history
<1> QED  BY <1>2, <1>3, <1>4, PhotoSteps

(* Runs that have not crossed follow one another.                            *)
LEMMA AloneRun ==
  ASSUME PhotoAssumption, PhotoTypeInv, KeyInv, SentInv, AloneInv,
         NEW w \in Workers, Step(w), ~crossed'
  PROVE  AloneInv'
<1>0. sent' = sent /\ deletions' = deletions  BY OwnRun
<1>1. \A u, v \in Workers : photoRun'[u] # NoTask /\ photoRun'[v] # NoTask => u = v
  <2>1. \A v \in Workers : photoRun'[v] # NoTask => photoRun[v] # NoTask \/ (Agents!Snapshot(w) /\ v = w)
    BY OwnRun, OwnPlace
  <2>2. Agents!Snapshot(w) /\ photoRun'[w] # NoTask => \A v \in Workers : photoRun[v] = NoTask
    BY DEF Agents!Snapshot, Agents!Busy, PhotoTypeInv
  <2> QED  BY <2>1, <2>2 DEF AloneInv
<1>2. CASE Agents!Mark(w)
  <2>0. \A v \in Workers : photoRun'[v] = NoTask
    BY <1>2, OwnRun DEF Agents!Mark, Agents!Finish, AloneInv, PhotoTypeInv
  <2>1. CASE profile = NoTask  
    <3>1. profile' = NoTask  BY <1>2, <2>1 DEF Agents!Mark
    <3> QED  BY <1>0, <1>1, <2>0, <3>1 DEF AloneInv, For
  <2>2. CASE profile # NoTask
    <3>1. For(w) /\ profile.status = "processing" /\ profile.key = photoRun[w].key
      BY <1>2, <2>2 DEF Agents!Mark, For, AloneInv, PhotoTypeInv
    <3>2. CASE photoRun[w].at = "ready"
      <4>1. profile' = [profile EXCEPT !.status = "ready", !.variants = photoRun[w].image]
        BY <1>2, <2>2, <3>2 DEF Agents!Mark, Agents!At
      <4>2. photoRun[w].image \in Pictures \cap sent[photoRun[w].key]
        BY <3>1, <3>2 DEF SentInv, For
      <4>3. /\ profile' # NoTask /\ profile'.status = "ready" /\ profile'.key = profile.key
            /\ profile'.variants = photoRun[w].image
        <5>1. profile \in Photo  BY <2>2 DEF PhotoTypeInv
        <5>2. profile' \in Photo  BY <4>1, <4>2, <5>1 DEF Photo
        <5>3. /\ profile'.status = "ready" /\ profile'.key = profile.key
              /\ profile'.variants = photoRun[w].image
          BY <4>1, <5>1 DEF Photo
        <5> QED  BY <5>2, <5>3, NoPhoto
      <4>4. profile'.key # NoTask  BY <2>2, <3>1, <4>3 DEF KeyInv
      <4> QED  BY <1>0, <1>1, <2>0, <3>1, <4>2, <4>3, <4>4 DEF AloneInv, For
    <3>3. CASE photoRun[w].at = "failed"
      <4>1. profile' = [profile EXCEPT !.status = "failed", !.key = NoTask]
        BY <1>2, <2>2, <3>3 DEF Agents!Mark, Agents!At
      <4>2. profile'.status = "failed" /\ profile'.variants = profile.variants
        BY <2>2, <4>1 DEF PhotoTypeInv, Photo, PhotoAssumption
      <4>3. profile'.variants = NoTask  BY <2>2, <3>1, <4>2 DEF AloneInv
      <4> QED  BY <1>0, <1>1, <2>0, <4>2, <4>3 DEF AloneInv, For
    <3> QED  BY <1>2, <3>2, <3>3 DEF Agents!Mark
  <2> QED  BY <2>1, <2>2
<1>3. CASE ~Agents!Mark(w)
  <2>1. profile' = profile
    BY <1>3 DEF Step, Agents!Snapshot, Agents!Fetch, Agents!Derive, Agents!Reject, Agents!Load,
                Agents!Discard, Agents!Abort
  <2>2. crossed' = crossed \/ Agents!Snapshot(w)
    BY <1>3 DEF Step, Agents!Snapshot, Agents!Fetch, Agents!Derive, Agents!Reject, Agents!Load,
                Agents!Discard, Agents!Abort, Agents!history
  <2>3. ASSUME NEW v \in Workers, profile # NoTask, photoRun'[v] # NoTask,
               photoRun'[v].key = profile.key
        PROVE  profile.status = "processing"
    <3>1. CASE photoRun[v] # NoTask /\ photoRun'[v].key = photoRun[v].key
      BY <2>3, <3>1 DEF AloneInv, For
    <3>2. CASE v = w /\ Agents!Processing  BY <3>2 DEF Agents!Processing
    <3> QED  BY <2>3, <3>1, <3>2, OwnRun, OwnPlace
  <2> QED  BY <1>0, <1>1, <2>1, <2>3 DEF AloneInv, For
<1> QED  BY <1>2, <1>3

LEMMA AlonePortal ==
  ASSUME PhotoAssumption, PhotoTypeInv, KeyInv, SentInv, AloneInv, Portal
  PROVE  AloneInv'
<1>1. photoRun' = photoRun  BY PortalRuns
<1>2. \A u \in Agents!Uploads : sent[u] \subseteq sent'[u]
  BY DEF Portal, Agents!RequestUpload, Agents!ConfirmPhoto, Agents!DeleteProfile,
         Agents!Redeliver, Agents!CleanUp, Agents!FailCleanUp, Agents!Remove, Agents!Mishap,
         Agents!history, Agents!Put, PhotoTypeInv
<1>3. ASSUME NEW d \in deletions', d.image # NoTask PROVE d.image \in sent'[d.key]
  <2>1. CASE d \in deletions  BY <1>2, <1>3, <2>1 DEF AloneInv, PhotoTypeInv, Deletion
  <2>2. CASE d \notin deletions
    <3>1. /\ profile # NoTask /\ profile.key # NoTask
          /\ d = [key |-> profile.key, image |-> profile.variants]
      BY <2>2, PortalDeletions
    <3>2. profile.status = "ready"  BY <1>3, <3>1 DEF AloneInv
    <3>3. profile.variants \in sent[profile.key] /\ profile.key \in Agents!Uploads
      BY <3>1, <3>2 DEF AloneInv, PhotoTypeInv, Photo
    <3> QED  BY <1>2, <3>1, <3>3
  <2> QED  BY <2>1, <2>2
<1>4. ASSUME profile' # NoTask
      PROVE  /\ \A w \in Workers : photoRun[w] # NoTask /\ photoRun[w].key = profile'.key
                                     => profile'.status = "processing"
             /\ IF profile'.status = "ready"
                THEN profile'.key # NoTask /\ profile'.variants \in Pictures \cap sent'[profile'.key]
                ELSE profile'.variants = NoTask
  <2>1. CASE profile' = profile
    BY <1>2, <1>4, <2>1 DEF AloneInv, For, PhotoTypeInv, Photo
  <2>2. CASE /\ profile' = [key |-> uploads + 1, status |-> "pending", variants |-> NoTask]
    <3>1. \A w \in Workers : photoRun[w] # NoTask => photoRun[w].key # uploads + 1
      BY DEF KeyInv, PhotoTypeInv, PhotoTask, Agents!Uploads, PhotoAssumption
    <3> QED  BY <2>2, <3>1
  <2>3. CASE /\ profile # NoTask /\ profile.status = "pending" /\ profile'.status = "processing"
             /\ profile'.key = profile.key /\ profile'.variants = profile.variants
    BY <2>3 DEF AloneInv, For
  <2> QED  BY <1>4, <2>1, <2>2, <2>3, PortalPhoto
<1> QED  BY <1>1, <1>3, <1>4 DEF AloneInv, For

(* Who leaves the row alone, and what a mark makes of it.                    *)
LEMMA MarkedPhoto ==
  ASSUME PhotoAssumption, PhotoTypeInv, KeyInv, SentInv, AloneInv,
         NEW w \in Workers, Agents!Mark(w), ~crossed', profile # NoTask
  PROVE  /\ For(w) /\ profile.status = "processing" /\ profile.variants = NoTask
         /\ profile' # NoTask /\ public' = public
         /\ \A v \in Workers : photoRun[v] # NoTask => v = w
         /\ \A v \in Workers : photoRun'[v] = NoTask
         /\ \/ /\ photoRun[w].at = "ready" /\ profile'.status = "ready"
               /\ profile'.variants = photoRun[w].image
               /\ profile'.key = profile.key /\ profile.key # NoTask
            \/ photoRun[w].at = "failed" /\ profile'.status = "failed"
<1>1. For(w) /\ profile.status = "processing"
  BY DEF Agents!Mark, For, AloneInv, PhotoTypeInv
<1>2. /\ profile.variants = NoTask /\ profile.key # NoTask /\ public' = public
      /\ \A v \in Workers : photoRun[v] # NoTask => v = w
      /\ \A v \in Workers : photoRun'[v] = NoTask
  BY <1>1 DEF Agents!Mark, Agents!Stored, Agents!Finish, For, AloneInv, KeyInv, PhotoTypeInv
<1>3. profile \in Photo  BY DEF PhotoTypeInv
<1>4. CASE photoRun[w].at = "ready"
  <2>1. profile' = [profile EXCEPT !.status = "ready", !.variants = photoRun[w].image]
    BY <1>4 DEF Agents!Mark, Agents!At
  <2>2. photoRun[w].image \in Pictures  BY <1>1, <1>4 DEF SentInv, For
  <2>3. /\ profile' \in Photo /\ profile'.status = "ready"
        /\ profile'.key = profile.key /\ profile'.variants = photoRun[w].image
    BY <1>3, <2>1, <2>2 DEF Photo
  <2> QED  BY <1>1, <1>2, <1>4, <2>3, NoPhoto
<1>5. CASE photoRun[w].at = "failed"
  <2>1. profile' = [profile EXCEPT !.status = "failed", !.key = NoTask]
    BY <1>5 DEF Agents!Mark, Agents!At
  <2>2. profile' \in Photo  BY <1>3, <2>1 DEF Photo
  <2>3. profile'.status = "failed"  BY <1>3, <2>1 DEF Photo
  <2> QED  BY <1>1, <1>2, <1>5, <2>2, <2>3, NoPhoto
<1> QED  BY <1>4, <1>5 DEF Agents!Mark

LEMMA RunKeepsPhoto ==
  ASSUME NEW w \in Workers, Step(w), ~Agents!Mark(w)
  PROVE  /\ profile' = profile
         /\ \/ public' = public /\ ~Agents!Derive(w)
            \/ Agents!Derive(w) /\ public' = public \cup {photoRun[w].image}
            \/ Agents!Discard(w) /\ public' = public \ {photoRun[w].image}
<1> USE DEF Agents!Stored
<1>1. CASE Agents!Derive(w)  BY <1>1 DEF Agents!Derive
<1>2. CASE Agents!Discard(w)  BY <1>2 DEF Agents!Discard
<1>3. CASE ~Agents!Derive(w) /\ ~Agents!Discard(w)
  <2>1. profile' = profile /\ public' = public
    BY <1>3 DEF Step, Agents!Snapshot, Agents!Fetch, Agents!Reject, Agents!Load, Agents!Abort
  <2> QED  BY <1>3, <2>1
<1> QED  BY <1>1, <1>2, <1>3

LEMMA StoredPortal ==
  ASSUME PhotoAssumption, PhotoTypeInv, KeyInv, SentInv, AloneInv, StoredInv, ~twice, Portal
  PROVE  StoredInv'
<1>1. photoRun' = photoRun  BY PortalRuns
<1>2. ASSUME profile # NoTask, profile.key # NoTask, NEW i \in public \cap sent[profile.key]
      PROVE  i \in public'
  <2>1. i \in Pictures /\ i # NoTask  BY DEF PhotoTypeInv, PhotoAssumption, Agents!Contents
  <2>2. ASSUME NEW d \in deletions, Agents!CleanUp(d) \/ Agents!FailCleanUp(d) PROVE i # d.image
    <3>1. d.key \in Agents!Uploads /\ profile.key \in Agents!Uploads
      BY <1>2 DEF PhotoTypeInv, Photo, Deletion
    <3>2. d.key # profile.key  BY <1>2 DEF KeyInv
    <3> QED  BY <2>1, <3>1, <3>2 DEF AloneInv, SentInv
  <2> QED
    BY <2>2 DEF Portal, Agents!RequestUpload, Agents!ConfirmPhoto, Agents!DeleteProfile,
         Agents!Redeliver, Agents!CleanUp, Agents!FailCleanUp, Agents!Remove, Agents!Mishap, Agents!Put,
         Agents!Stored
<1>3. CASE profile' = profile
  <2>1. profile # NoTask /\ profile.status = "ready" => profile.variants \in public'
    BY <1>2 DEF AloneInv, StoredInv
  <2>2. ASSUME NEW w \in Workers, For(w), photoRun[w].at \in {"load", "ready"}
        PROVE  photoRun[w].image \in public'
    <3>1. /\ photoRun[w].image \in public /\ photoRun[w].image \in sent[profile.key]
          /\ profile # NoTask /\ photoRun[w] # NoTask /\ photoRun[w].key = profile.key
      BY <2>2 DEF StoredInv, SentInv, For
    <3>2. profile.key # NoTask  BY <3>1 DEF PhotoTypeInv, PhotoTask, PhotoAssumption
    <3> QED  BY <1>2, <3>1, <3>2
  <2> QED  BY <1>1, <1>3, <2>1, <2>2 DEF StoredInv, For
<1>4. CASE profile' # profile
  <2>1. profile' # NoTask => profile'.status \in {"pending", "processing"}  BY <1>4, PortalPhoto
  <2>2. \A w \in Workers : profile' # NoTask /\ photoRun[w] # NoTask => photoRun[w].key # profile'.key
    <3>1. \A w \in Workers : photoRun[w] # NoTask => photoRun[w].key # uploads + 1
      BY DEF KeyInv, PhotoTypeInv, PhotoTask, Agents!Uploads, PhotoAssumption
    <3> QED  BY <1>4, <3>1, PortalPhoto DEF AloneInv, For
  <2> QED  BY <1>1, <2>1, <2>2 DEF StoredInv, For
<1> QED  BY <1>3, <1>4

LEMMA StoredRun ==
  ASSUME PhotoAssumption, PhotoTypeInv, KeyInv, SentInv, AloneInv, StoredInv, ~twice,
         NEW w \in Workers, Step(w), ~crossed'
  PROVE  StoredInv'
<1>1. CASE Agents!Mark(w) /\ profile = NoTask
  BY <1>1 DEF Agents!Mark, StoredInv, For
<1>2. CASE Agents!Mark(w) /\ profile # NoTask
  <2>1. photoRun[w].at = "ready" => photoRun[w].image \in public
    BY <1>2, MarkedPhoto DEF StoredInv
  <2> QED  BY <1>2, <2>1, MarkedPhoto DEF StoredInv, For
<1>3. CASE ~Agents!Mark(w)
  <2>1. profile' = profile  BY <1>3, RunKeepsPhoto
  <2>2. profile # NoTask /\ profile.status = "ready" => profile.variants \in public'
    <3>1. CASE Agents!Discard(w)
      <4> SUFFICES ASSUME profile # NoTask, profile.status = "ready" PROVE profile.variants \in public'
        OBVIOUS
      <4>1. photoRun[w] # NoTask /\ photoRun[w].at = "discard"  BY <3>1 DEF Agents!Discard, Agents!At
      <4>2. photoRun[w].key # profile.key  BY <4>1 DEF AloneInv, For
      <4>3. photoRun[w].key \in Agents!Uploads /\ profile.key \in Agents!Uploads
        BY <4>1 DEF PhotoTypeInv, Photo, PhotoTask, AloneInv
      <4>4. photoRun[w].image \in sent[photoRun[w].key]  BY <4>1 DEF SentInv
      <4>5. profile.variants \in sent[profile.key] /\ profile.variants \in public
        BY DEF AloneInv, StoredInv
      <4> QED  BY <3>1, <4>2, <4>3, <4>4, <4>5 DEF Agents!Discard, SentInv
    <3>2. CASE ~Agents!Discard(w)  BY <1>3, <3>2, RunKeepsPhoto DEF StoredInv
    <3> QED  BY <3>1, <3>2
  <2>3. ASSUME NEW v \in Workers, profile # NoTask, photoRun'[v] # NoTask,
               photoRun'[v].key = profile.key, photoRun'[v].at \in {"load", "ready"}
        PROVE  photoRun'[v].image \in public'
    <3>1. CASE v # w
      <4>1. photoRun'[v] = photoRun[v]  BY <3>1, OwnRun
      <4>2. photoRun[v].image \in public /\ photoRun[v] # NoTask  BY <2>3, <4>1 DEF StoredInv, For
      <4>3. photoRun[w] = NoTask  BY <3>1, <4>2 DEF AloneInv
      <4> QED  BY <1>3, <4>1, <4>2, <4>3, RunKeepsPhoto DEF Agents!Discard, Agents!At
    <3>2. CASE v = w
      <4>1. /\ photoRun[w] # NoTask /\ photoRun'[w].key = photoRun[w].key
            /\ photoRun'[w].image = photoRun[w].image
            /\ \/ Agents!Derive(w)
               \/ Agents!Load(w) /\ photoRun[w].at = "load"
        BY <2>3, <3>2, OwnPlace
      <4>2. CASE Agents!Derive(w)  BY <3>2, <4>1, <4>2 DEF Agents!Derive
      <4>3. CASE Agents!Load(w) /\ photoRun[w].at = "load"
        <5>1. photoRun[w].image \in public  BY <2>3, <3>2, <4>1, <4>3 DEF StoredInv, For
        <5>2. public' = public  BY <4>3 DEF Agents!Load, Agents!Stored
        <5> QED  BY <3>2, <4>1, <5>1, <5>2
      <4> QED  BY <4>1, <4>2, <4>3
    <3> QED  BY <3>1, <3>2
  <2> QED  BY <2>1, <2>2, <2>3 DEF StoredInv, For
<1> QED  BY <1>1, <1>2, <1>3

LEMMA WholePortal ==
  ASSUME PhotoAssumption, PhotoTypeInv, KeyInv, SentInv, AloneInv, WholeInv, Portal, ~photoCut'
  PROVE  WholeInv'
<1>1. photoRun' = photoRun  BY PortalRuns
<1>2. ASSUME profile' # NoTask, profile'.status = "processing"
      PROVE  photoTasks' > 0 \/ \E w \in Workers : For(w) /\ photoRun[w].at # "discard" /\ profile'.key = profile.key
  <2>1. CASE Agents!ConfirmPhoto
    BY <2>1 DEF Agents!ConfirmPhoto, PhotoTypeInv
  <2>2. CASE ~Agents!ConfirmPhoto
    <3>1. profile' = profile  BY <1>2, <2>2, PortalPhoto
    <3>2. photoTasks' = photoTasks \/ photoTasks' = photoTasks + 1
      BY <2>2 DEF Portal, Agents!RequestUpload, Agents!DeleteProfile, Agents!Redeliver, Agents!Put,
                  Agents!CleanUp, Agents!FailCleanUp
    <3> QED  BY <1>2, <3>1, <3>2 DEF WholeInv, Agents!Processing, PhotoTypeInv
  <2> QED  BY <2>1, <2>2
<1>3. ASSUME NEW i \in public'
      PROVE  \/ profile' # NoTask /\ profile'.key # NoTask /\ profile'.variants = i
             \/ \E d \in deletions' : d.image = i
             \/ \E w \in Workers : Holds(w, i)
  <2>1. i \in public /\ \A d \in deletions : d.image = i => d \in deletions'
    <3>1. ASSUME NEW d \in deletions, Agents!CleanUp(d) \/ Agents!FailCleanUp(d)
          PROVE  i \in public /\ (deletions' = deletions \/ (deletions' = deletions \ {d} /\ d.image # i))
      BY <3>1 DEF Agents!CleanUp, Agents!FailCleanUp, Agents!Remove
    <3>2. ASSUME ~\E d \in deletions : Agents!CleanUp(d) \/ Agents!FailCleanUp(d)
          PROVE  public' = public /\ deletions \subseteq deletions'
      <4>1. CASE Agents!RequestUpload \/ Agents!DeleteProfile
        BY <4>1 DEF Agents!RequestUpload, Agents!DeleteProfile, Agents!DeleteObjects
      <4>2. CASE Agents!ConfirmPhoto \/ Agents!Redeliver \/ \E u \in Agents!Uploads,
      j \in Agents!Contents : Agents!Put(u, j)
        BY <4>2 DEF Agents!ConfirmPhoto, Agents!Redeliver, Agents!Put, Agents!Stored
      <4> QED  BY <3>2, <4>1, <4>2 DEF Portal
    <3> QED  BY <3>1, <3>2
  <2>2. CASE profile # NoTask /\ profile.key # NoTask /\ profile.variants = i
    <3>1. CASE Agents!RequestUpload \/ Agents!DeleteProfile
      <4>1. Agents!DeleteObjects  BY <3>1 DEF Agents!RequestUpload, Agents!DeleteProfile
      <4>2. [key |-> profile.key, image |-> i] \in deletions'
        BY <2>2, <4>1 DEF Agents!DeleteObjects
      <4> QED  BY <4>2
    <3>2. CASE ~(Agents!RequestUpload \/ Agents!DeleteProfile)
      BY <2>2, <3>2, PortalPhoto
    <3> QED  BY <3>1, <3>2
  <2>3. ASSUME NEW d \in deletions, d.image = i PROVE \E e \in deletions' : e.image = i  BY <2>1, <2>3
  <2> QED  BY <2>1, <2>2, <2>3 DEF WholeInv
<1> QED  BY <1>1, <1>2, <1>3 DEF WholeInv, Agents!Processing, For, Holds

LEMMA WholeRun ==
  ASSUME PhotoAssumption, PhotoTypeInv, KeyInv, SentInv, AloneInv, WholeInv,
         NEW w \in Workers, Step(w), ~crossed', ~photoCut'
  PROVE  WholeInv'
<1>0. deletions' = deletions /\ \A v \in Workers \ {w} : photoRun'[v] = photoRun[v]  BY OwnRun
<1>1. CASE Agents!Mark(w)
  <2>1. profile # NoTask  BY <1>1 DEF Agents!Mark
  <2>2. ASSUME NEW i \in public
        PROVE  \/ profile' # NoTask /\ profile'.key # NoTask /\ profile'.variants = i
               \/ \E d \in deletions : d.image = i
    <3>1. profile.variants # i
      BY <1>1, <2>1, MarkedPhoto DEF PhotoTypeInv, PhotoAssumption, Agents!Contents
    <3>2. ASSUME NEW v \in Workers, Holds(v, i)
          PROVE  profile' # NoTask /\ profile'.key # NoTask /\ profile'.variants = i
      BY <1>1, <2>1, <3>2, MarkedPhoto DEF Holds
    <3> QED  BY <3>1, <3>2 DEF WholeInv
  <2> QED  BY <1>0, <1>1, <2>1, <2>2, MarkedPhoto DEF WholeInv, Agents!Processing
<1>2. CASE ~Agents!Mark(w)
  <2>1. profile' = profile /\ ~Agents!Abort(w)  BY <1>2, RunKeepsPhoto DEF Agents!Abort
  <2>2. ASSUME Agents!Processing
        PROVE  photoTasks' > 0 \/ \E v \in Workers :
                 photoRun'[v] # NoTask /\ photoRun'[v].key = profile.key /\ photoRun'[v].at # "discard"
    <3>1. CASE Agents!Snapshot(w)
      <4>1. photoRun'[w] = [at |-> "fetch", key |-> profile.key, image |-> NoTask]
        BY <2>2, <3>1 DEF Agents!Snapshot, PhotoTypeInv
      <4>2. photoRun'[w] # NoTask
        <5>1. profile.key \in Agents!Uploads
          BY <2>2 DEF Agents!Processing, KeyInv, PhotoTypeInv, Photo
        <5>2. photoRun'[w] \in PhotoTask  BY <4>1, <5>1 DEF PhotoTask
        <5> QED  BY <5>2, NoPhoto
      <4> QED  BY <4>1, <4>2
    <3>2. CASE ~Agents!Snapshot(w)
      <4>1. photoTasks' = photoTasks
        BY <1>2, <2>1, <3>2 DEF Step, Agents!Fetch, Agents!Derive, Agents!Reject, Agents!Load,
                                Agents!Discard, Agents!Broker
      <4>2. CASE photoTasks > 0  BY <4>1, <4>2
      <4>3. ASSUME NEW v \in Workers, For(v), photoRun[v].at # "discard"
            PROVE  /\ photoRun'[v] # NoTask /\ photoRun'[v].key = profile.key
                   /\ photoRun'[v].at # "discard"
        <5>1. CASE v # w  BY <1>0, <4>3, <5>1 DEF For
        <5>2. CASE v = w
          <6>1. photoRun[w] \in PhotoTask /\ photoRun[w].key = profile.key
            BY <4>3, <5>2 DEF For, PhotoTypeInv
          <6>2. photoRun'[w] \in PhotoTask \cup {NoTask} /\ photoRun'[w] # NoTask
            <7>1. CASE Agents!Fetch(w)
              <8>1. originals[photoRun[w].key] \in Agents!Contents \cup {NoTask}
                BY <6>1 DEF PhotoTypeInv, PhotoTask
              <8>2. \E at \in {"derive", "reject"} :
                      photoRun'[w] = [photoRun[w] EXCEPT !.image = originals[photoRun[w].key], !.at = at]
                BY <7>1 DEF Agents!Fetch, PhotoTypeInv
              <8>3. photoRun'[w] \in PhotoTask  BY <6>1, <8>1, <8>2 DEF PhotoTask
              <8> QED  BY <8>3, NoPhoto
            <7>2. CASE Agents!Derive(w) \/ Agents!Reject(w)
              BY <6>1, <7>2, NoPhoto DEF Agents!Derive, Agents!Reject, Agents!Goto, PhotoTypeInv, PhotoTask
            <7>3. CASE Agents!Load(w)
              BY <2>2, <6>1, <7>3, NoPhoto DEF Agents!Load, Agents!Goto, Agents!At, PhotoTypeInv, PhotoTask
            <7> QED  BY <1>2, <2>1, <3>2, <4>3, <5>2, <7>1, <7>2, <7>3 DEF Step, Agents!Discard, Agents!At
          <6> QED  BY <2>2, <3>2, <5>2, <6>1, <6>2, OwnPlace
        <5> QED  BY <5>1, <5>2
      <4> QED  BY <2>2, <4>2, <4>3 DEF WholeInv
    <3> QED  BY <3>1, <3>2
  <2>3. ASSUME NEW i \in public'
        PROVE  \/ profile # NoTask /\ profile.key # NoTask /\ profile.variants = i
               \/ \E d \in deletions : d.image = i
               \/ \E v \in Workers : /\ photoRun'[v] # NoTask /\ photoRun'[v].image = i
                                     /\ photoRun'[v].at \in {"load", "ready", "discard"}
    <3>1. CASE Agents!Derive(w) /\ i = photoRun[w].image
      <4>1. photoRun[w] \in PhotoTask  BY <3>1 DEF Agents!Derive, Agents!At, PhotoTypeInv
      <4>2. photoRun'[w] = [photoRun[w] EXCEPT !.at = "load"]
        BY <3>1 DEF Agents!Derive, Agents!Goto, PhotoTypeInv
      <4>3. photoRun'[w] \in PhotoTask /\ photoRun'[w].at = "load" /\ photoRun'[w].image = i
        BY <3>1, <4>1, <4>2 DEF PhotoTask
      <4> QED  BY <4>3, NoPhoto
    <3>2. CASE ~(Agents!Derive(w) /\ i = photoRun[w].image)
      <4>1. i \in public /\ ~(Agents!Discard(w) /\ i = photoRun[w].image)
        BY <1>2, <3>2, RunKeepsPhoto DEF Agents!Discard
      <4>2. ASSUME NEW v \in Workers, Holds(v, i)
            PROVE  /\ photoRun'[v] # NoTask /\ photoRun'[v].image = i
                   /\ photoRun'[v].at \in {"load", "ready", "discard"}
        <5>1. CASE v # w  BY <1>0, <4>2, <5>1 DEF Holds
        <5>2. CASE v = w
          <6>1. Agents!Load(w) /\ photoRun[w] \in PhotoTask /\ photoRun[w].at = "load"
            BY <1>2, <2>1, <4>1, <4>2, <5>2
               DEF Holds, Step, Agents!Snapshot, Agents!Fetch, Agents!Derive, Agents!Reject,
                   Agents!Discard, Agents!Load, Agents!At, PhotoTypeInv
          <6>2. \E place \in {"discard", "ready"} : photoRun'[w] = [photoRun[w] EXCEPT !.at = place]
            BY <6>1 DEF Agents!Load, Agents!Goto, Agents!At, PhotoTypeInv
          <6>3. photoRun'[w] \in PhotoTask /\ photoRun'[w].image = i
                  /\ photoRun'[w].at \in {"discard", "ready"}
            BY <4>2, <5>2, <6>1, <6>2 DEF PhotoTask, Holds
          <6> QED  BY <5>2, <6>3, NoPhoto
        <5> QED  BY <5>1, <5>2
      <4> QED  BY <4>1, <4>2 DEF WholeInv
    <3> QED  BY <3>1, <3>2
  <2> QED  BY <1>0, <2>1, <2>2, <2>3 DEF WholeInv, Agents!Processing, For, Holds
<1> QED  BY <1>1, <1>2

LEMMA PhotoInit == PhotoAssumption /\ Agents!Init => PhotoInv
<1> SUFFICES ASSUME PhotoAssumption, Agents!Init PROVE PhotoInv  OBVIOUS
<1>1. PhotoTypeInv  BY PhotoTypeInit
<1>2. /\ profile = [key |-> NoTask, status |-> "none", variants |-> NoTask]
      /\ deletions = {} /\ public = {}
      /\ \A w \in Workers : photoRun[w] = NoTask
      /\ \A u \in Agents!Uploads : originals[u] = NoTask /\ sent[u] = {}
  BY DEF Agents!Init
<1>3. KeyInv /\ SentInv  BY <1>2 DEF KeyInv, SentInv
<1>4. AloneInv /\ StoredInv /\ WholeInv
  BY <1>2 DEF AloneInv, StoredInv, WholeInv, For, Agents!Processing
<1> QED  BY <1>1, <1>3, <1>4 DEF PhotoInv

LEMMA PhotoNext ==
  ASSUME PhotoAssumption, PhotoInv, Agents!Next
  PROVE  PhotoInv'
<1> USE DEF PhotoInv
<1>1. KeyInv' /\ SentInv'  BY KeyNext, SentNext
<1>2. CASE Portal
  <2>1. PhotoTypeInv'  BY <1>2, PhotoTypeRequest DEF Portal
  <2>2. crossed' = crossed  BY <1>2, PortalRuns
  <2>3. (twice => twice') /\ (photoCut => photoCut')
    <3>1. twice' = twice \/ \E u \in Agents!Uploads, content \in Agents!Contents : Agents!Put(u, content)
      BY <1>2 DEF Portal, Agents!RequestUpload, Agents!ConfirmPhoto, Agents!DeleteProfile,
                  Agents!Redeliver, Agents!CleanUp, Agents!FailCleanUp, Agents!Remove, Agents!Mishap,
                  Agents!history
    <3>2. twice => twice'  BY <3>1 DEF Agents!Put
    <3>3. photoCut' = photoCut \/ photoCut' = TRUE
      BY <1>2 DEF Portal, Agents!RequestUpload, Agents!ConfirmPhoto, Agents!DeleteProfile,
                  Agents!Redeliver, Agents!Put, Agents!CleanUp, Agents!FailCleanUp, Agents!Remove,
                  Agents!Mishap, Agents!DeleteObjects, Agents!history
    <3> QED  BY <3>2, <3>3
  <2>4. ~crossed' => AloneInv'  BY <1>2, <2>2, AlonePortal
  <2>5. ~crossed' /\ ~twice' => StoredInv'  BY <1>2, <2>2, <2>3, StoredPortal
  <2>6. ~crossed' /\ ~photoCut' => WholeInv'  BY <1>2, <2>2, <2>3, WholePortal
  <2> QED  BY <1>1, <2>1, <2>4, <2>5, <2>6
<1>3. ASSUME NEW w \in Workers, Step(w) PROVE PhotoInv'
  <2>1. PhotoTypeInv'  BY <1>3, PhotoTypeRun
  <2>2. (crossed => crossed') /\ twice' = twice /\ (photoCut => photoCut')
    <3>1. twice' = twice  BY <1>3, OwnRun
    <3>2. CASE Agents!Snapshot(w) \/ Agents!Mark(w)
      <4>1. CASE Agents!Snapshot(w)
        <5>1. crossed' = (crossed \/ (Agents!Processing /\ Agents!Busy)) /\ photoCut' = photoCut
          BY <4>1 DEF Agents!Snapshot
        <5> QED  BY <3>1, <5>1
      <4>2. CASE Agents!Mark(w)
        <5>1. /\ crossed' = (crossed \/ (profile # NoTask /\ profile.key # photoRun[w].key))
              /\ photoCut' = (photoCut \/ profile = NoTask)
          BY <4>2 DEF Agents!Mark
        <5> QED  BY <3>1, <5>1
      <4> QED  BY <3>2, <4>1, <4>2
    <3>3. CASE Agents!Abort(w)  BY <3>1, <3>3 DEF Agents!Abort
    <3>4. CASE ~(Agents!Snapshot(w) \/ Agents!Mark(w) \/ Agents!Abort(w))
      BY <1>3, <3>4 DEF Step, Agents!Fetch, Agents!Derive, Agents!Reject, Agents!Load,
                        Agents!Discard, Agents!history
    <3> QED  BY <3>2, <3>3, <3>4
  <2>3. ~crossed' => AloneInv'  BY <1>3, <2>2, AloneRun
  <2>4. ~crossed' /\ ~twice' => StoredInv'  BY <1>3, <2>2, StoredRun
  <2>5. ~crossed' /\ ~photoCut' => WholeInv'  BY <1>3, <2>2, WholeRun
  <2> QED  BY <1>1, <2>1, <2>3, <2>4, <2>5
<1> QED  BY <1>2, <1>3, PhotoSteps

LEMMA PhotoStutters == PhotoInv /\ UNCHANGED photo => PhotoInv'
BY DEF photo, PhotoInv, PhotoTypeInv, KeyInv, SentInv, AloneInv, StoredInv, WholeInv, For, Holds,
       Agents!Processing

LEMMA PhotoSound == PhotoAssumption /\ PhotoInv => Agents!PhotosAreSound
<1> SUFFICES ASSUME PhotoAssumption, PhotoInv PROVE Agents!PhotosAreSound  OBVIOUS
<1>1. Agents!ReadyPhotoIsThere
  BY DEF Agents!ReadyPhotoIsThere, PhotoInv, AloneInv, StoredInv
<1>2. ASSUME ~photoCut, ~crossed
      PROVE  /\ Agents!Processing => photoTasks > 0 \/ Agents!Busy
             /\ profile = NoTask /\ deletions = {} /\ ~Agents!Busy => public = {}
  <2>1. WholeInv  BY <1>2 DEF PhotoInv
  <2> QED  BY <2>1 DEF WholeInv, Agents!Busy, For, Holds
<1> QED  BY <1>1, <1>2 DEF Agents!PhotosAreSound, Agents!NothingLeftBehind

(* What a ready image lists is in the public bucket, unless its task ran      *)
(* twice at once; a ready photo of an agent shows what its client sent, and   *)
(* leaves no variants behind, unless its runs crossed or were cut off          *)
(* (process_media, process_agent_photo, delete_media_objects).                *)
THEOREM ImagesStay == GallerySpec => []ImagesAreThere
<1>1. GalleryInit => IInv /\ PhotoInv
  BY InitIInv, PhotoInit, MediaAssumption, PhotoAssumption DEF GalleryInit
<1>2. IInv /\ PhotoInv /\ [GalleryNext]_gallery => (IInv /\ PhotoInv)'
  <2> SUFFICES ASSUME IInv, PhotoInv, [GalleryNext]_gallery PROVE IInv' /\ PhotoInv'  OBVIOUS
  <2>1. [Next]_vars  BY DEF GalleryNext, gallery
  <2>2. IInv'  BY <2>1, NextIInv, MediaAssumption
  <2>3. Agents!Next \/ UNCHANGED photo  BY DEF GalleryNext, gallery
  <2>4. PhotoInv'  BY <2>3, PhotoNext, PhotoStutters, PhotoAssumption
  <2> QED  BY <2>2, <2>4
<1>3. IInv /\ PhotoInv => ImagesAreThere
  BY PhotoSound, PhotoAssumption DEF ImagesAreThere, IInv
<1> QED  BY <1>1, <1>2, <1>3, PTL DEF GallerySpec
=============================================================================
