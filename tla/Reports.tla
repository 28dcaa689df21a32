------------------------------ MODULE Reports ------------------------------
(***************************************************************************)
(* One market report (modules/content) and the task that renders its PDF.    *)
(* Publishing locks the row and queues the task; unpublishing, deleting and  *)
(* the task's last transaction read the row without a lock and write it      *)
(* later.  Every run of the task uploads under the same key.                 *)
(*                                                                          *)
(* Abstracted: title and slug; numbers are versions, later ones larger.      *)
(***************************************************************************)
EXTENDS Naturals

CONSTANTS Editors, Workers, Nothing,
          MaxChanges, \* bound: publications and edits of the numbers
          MaxMishaps  \* bound: callbacks lost, tasks that fail or die

VARIABLES
  report,    \* Nothing once deleted, or status, pdf (pdf_object_key is set), stats
  stored,    \* Nothing, or the numbers in the object under the report's key
  queue,     \* generate_report_pdf tasks in the broker
  cleanup,   \* a delete_media_objects task is in the broker
  edit,      \* [Editors -> Nothing or an open transaction and the row as it read it]
  render,    \* [Workers -> Nothing or where the task is and the numbers it read]
  changes, mishaps,
  wanted,    \* history: what the editors did last, "draft" or "live"
  since,     \* history: the numbers at the last publication
  overlapped,\* history: two runs of the task, or a run and a publication, overlapped
  overtaken, \* history: a row was written that had changed since it was read
  cut        \* history: an upload was interrupted, or its removal was or was given up

reportVars == <<report, stored, queue, cleanup, edit, render, changes, mishaps,
                wanted, since, overlapped, overtaken, cut>>

Init ==
  /\ report = [status |-> "draft", pdf |-> FALSE, stats |-> 0]
  /\ stored = Nothing
  /\ queue = 0 /\ cleanup = FALSE
  /\ edit = [e \in Editors |-> Nothing]
  /\ render = [w \in Workers |-> Nothing]
  /\ changes = 0 /\ mishaps = 0
  /\ wanted = "draft" /\ since = 0
  /\ overlapped = FALSE /\ overtaken = FALSE /\ cut = FALSE

Mishap == mishaps < MaxMishaps /\ mishaps' = mishaps + 1
Idle == \A w \in Workers : render[w] = Nothing
history == <<wanted, since, overlapped, overtaken, cut>>

-----------------------------------------------------------------------------
(* publish_report, under the row lock; the task is queued by a callback.    *)
Publish ==
  /\ report # Nothing /\ report.status = "draft"
  /\ changes < MaxChanges /\ changes' = changes + 1
  /\ report' = [report EXCEPT !.status = "published"]
  /\ \/ queue' = queue + 1 /\ UNCHANGED mishaps
     \/ Mishap /\ UNCHANGED queue
  /\ wanted' = "live" /\ since' = report.stats
  /\ overlapped' = (overlapped \/ ~Idle)
  /\ UNCHANGED <<stored, cleanup, edit, render, overtaken, cut>>

(* update_report, for the numbers: the column is written whatever it was.   *)
UpdateStats ==
  /\ report # Nothing
  /\ changes < MaxChanges /\ changes' = changes + 1
  /\ report' = [report EXCEPT !.stats = report.stats + 1]
  /\ UNCHANGED <<stored, queue, cleanup, edit, render, mishaps, history>>

(* get_report, for unpublish_report and delete_report.                      *)
Load(e, op) ==
  /\ edit[e] = Nothing /\ report # Nothing
  /\ op = "unpublish" => report.status # "draft"
  /\ edit' = [edit EXCEPT ![e] = [op |-> op, row |-> report]]
  /\ UNCHANGED <<report, stored, queue, cleanup, render, changes, mishaps, history>>

(* A row that is gone when it is written fails the transaction.             *)
Unpublish(e) ==
  /\ edit[e] # Nothing /\ edit[e].op = "unpublish"
  /\ IF report = Nothing
     THEN UNCHANGED <<report, wanted, overtaken>>
     ELSE /\ report' = [report EXCEPT !.status = "draft"]
          /\ wanted' = "draft"
          /\ overtaken' = (overtaken \/ report # edit[e].row)
  /\ edit' = [edit EXCEPT ![e] = Nothing]
  /\ UNCHANGED <<stored, queue, cleanup, render, changes, mishaps, since, overlapped, cut>>

(* delete_report: the object goes if the key was set when the row was read. *)
Delete(e) ==
  /\ edit[e] # Nothing /\ edit[e].op = "delete"
  /\ IF report = Nothing
     THEN UNCHANGED <<report, cleanup, mishaps, overtaken, cut>>
     ELSE /\ report' = Nothing
          /\ overtaken' = (overtaken \/ report # edit[e].row)
          /\ \/ cleanup' = edit[e].row.pdf /\ UNCHANGED <<mishaps, cut>>
             \/ Mishap /\ cut' = TRUE /\ UNCHANGED cleanup
  /\ edit' = [edit EXCEPT ![e] = Nothing]
  /\ UNCHANGED <<stored, queue, render, changes, wanted, since, overlapped>>

(* delete_media_objects ...                                                 *)
CleanUp ==
  /\ cleanup
  /\ cleanup' = FALSE
  /\ stored' = Nothing
  /\ UNCHANGED <<report, queue, edit, render, changes, mishaps, history>>

(* ... which may fail, before or after the object is gone.  It is tried       *)
(* again, or it was the last of its retries, or it died with its process.    *)
FailCleanUp ==
  /\ cleanup
  /\ Mishap
  /\ stored' \in {stored, Nothing}
  /\ \/ UNCHANGED <<cleanup, cut>>
     \/ cleanup' = FALSE /\ cut' = TRUE
  /\ UNCHANGED <<report, queue, edit, render, changes, wanted, since, overlapped, overtaken>>

-----------------------------------------------------------------------------
(* generate_report_pdf: what a run that is not skipped may start from.      *)
Renderable == report # Nothing /\ report.status = "published"

Snapshot(w) ==
  /\ queue > 0 /\ render[w] = Nothing
  /\ queue' = queue - 1
  /\ render' = [render EXCEPT ![w] =
                  IF Renderable THEN [at |-> "upload", stats |-> report.stats, row |-> report]
                  ELSE Nothing]
  /\ overlapped' = (overlapped \/ (Renderable /\ ~Idle))
  /\ UNCHANGED <<report, stored, cleanup, edit, changes, mishaps, wanted, since, overtaken, cut>>

At(w, step) == render[w] # Nothing /\ render[w].at = step
Goto(w, step) == render' = [render EXCEPT ![w].at = step]

Upload(w) ==
  /\ At(w, "upload")
  /\ stored' = render[w].stats
  /\ Goto(w, "select")
  /\ UNCHANGED <<report, queue, cleanup, edit, changes, mishaps, history>>

(* _mark_ready reads the row ...                                            *)
SelectForReady(w) ==
  /\ At(w, "select")
  /\ render' = [render EXCEPT ![w] = [@ EXCEPT !.at = IF Renderable THEN "mark" ELSE "discard",
                                               !.row = report]]
  /\ UNCHANGED <<report, stored, queue, cleanup, edit, changes, mishaps, history>>

(* ... and writes it.  A row deleted in between fails the run: it is tried   *)
(* again, and skipped.                                                      *)
MarkReady(w) ==
  /\ At(w, "mark")
  /\ IF report = Nothing
     THEN queue' = queue + 1 /\ UNCHANGED report
     ELSE report' = [report EXCEPT !.status = "ready", !.pdf = TRUE] /\ UNCHANGED queue
  /\ overtaken' = (overtaken \/ report # render[w].row)
  /\ render' = [render EXCEPT ![w] = Nothing]
  /\ UNCHANGED <<stored, cleanup, edit, changes, mishaps, wanted, since, overlapped, cut>>

(* The row was deleted or unpublished mid-render: the upload is removed.    *)
Discard(w) ==
  /\ At(w, "discard")
  /\ stored' = Nothing
  /\ render' = [render EXCEPT ![w] = Nothing]
  /\ UNCHANGED <<report, queue, cleanup, edit, changes, mishaps, history>>

(* An infrastructure error requeues the run, a death may drop it.           *)
Abort(w) ==
  /\ render[w] # Nothing
  /\ Mishap
  /\ queue' \in {queue, queue + 1}
  /\ cut' = (cut \/ render[w].at # "upload")
  /\ render' = [render EXCEPT ![w] = Nothing]
  /\ UNCHANGED <<report, stored, cleanup, edit, changes, wanted, since, overlapped, overtaken>>

Next ==
  \/ Publish \/ UpdateStats \/ CleanUp \/ FailCleanUp
  \/ \E e \in Editors : \/ \E op \in {"unpublish", "delete"} : Load(e, op)
                        \/ Unpublish(e) \/ Delete(e)
  \/ \E w \in Workers : \/ Snapshot(w) \/ Upload(w) \/ SelectForReady(w)
                        \/ MarkReady(w) \/ Discard(w) \/ Abort(w)

-----------------------------------------------------------------------------
(* "flips the row to ready so the gated download can serve it" (tasks/       *)
(* content.py): a ready report has its object, with numbers no older than    *)
(* those it was published with, unless runs overlapped: a late one finds the *)
(* row ready and removes what it shares with the first.                     *)
ReadyHasItsPdf ==
  report # Nothing /\ report.status = "ready" /\ ~overlapped =>
    stored # Nothing /\ stored >= since

(* What was unpublished last stays unpublished, and what was deleted leaves  *)
(* no object, unless a row was written that had changed since it was read;   *)
(* or, for the object, its upload was cut off or its removal given up.       *)
WithdrawnStaysDown ==
  /\ wanted = "draft" /\ report # Nothing /\ ~overtaken => report.status = "draft"
  /\ report = Nothing /\ Idle /\ ~cleanup /\ ~overtaken /\ ~cut => stored = Nothing

ReportsAreSound == ReadyHasItsPdf /\ WithdrawnStaysDown
=============================================================================
