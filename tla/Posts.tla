-------------------------------- MODULE Posts --------------------------------
(***************************************************************************)
(* One blog post (modules/blog) and the sweep that publishes what is due.     *)
(* Nothing locks the row: a request or a sweep reads it, and at its commit    *)
(* writes the columns it changed, whatever they have become.                 *)
(*                                                                          *)
(* Abstracted: texts, which a PATCH may carry and which are sanitised;        *)
(* categories and slugs.                                                    *)
(***************************************************************************)
EXTENDS Naturals

CONSTANTS Editors, Sweeps, Nothing,
          MaxTime,    \* bound: the clock
          MaxChanges  \* bound: requests

Times == 1..MaxTime
Statuses == {"draft", "scheduled", "published"}

VARIABLES
  post,      \* Nothing once deleted, or status, scheduled_at and published_at
  time,
  request,   \* [Editors -> Nothing or the row as read and as it will be]
  sweep,     \* [Sweeps -> Nothing or its now and the row as read]
  changes,
  wanted,    \* history: what the last request left: a status and a go-live time
  first,     \* history: when the post was first published
  overtaken  \* history: a row was written that had changed since it was read

postVars == <<post, time, request, sweep, changes, wanted, first, overtaken>>

(* create_post.                                                             *)
Init ==
  /\ time = 0
  /\ \E status \in Statuses :
       /\ post = [status |-> status,
                  scheduled |-> IF status = "scheduled" THEN 1 ELSE Nothing,
                  published |-> IF status = "published" THEN 0 ELSE Nothing]
       /\ first = post.published
       /\ wanted = [status |-> status, scheduled |-> post.scheduled]
  /\ request = [e \in Editors |-> Nothing]
  /\ sweep = [w \in Sweeps |-> Nothing]
  /\ changes = 0 /\ overtaken = FALSE

Tick == time < MaxTime /\ time' = time + 1
        /\ UNCHANGED <<post, request, sweep, changes, wanted, first, overtaken>>

(* Mutation: every publication stamps the row. *)
StampedAgain(row, status) == [row EXCEPT !.status = status, !.published = time]

(* The first transition into published stamps published_at, once.           *)
Stamped(row, status) ==
  [row EXCEPT !.status = status,
              !.published = IF status = "published" /\ row.published = Nothing THEN time ELSE @]

-----------------------------------------------------------------------------
(* What a request makes of the row it has read; a refused one rolls back.   *)
Published(row) == IF row.status = "published" THEN row
                  ELSE Stamped([row EXCEPT !.scheduled = Nothing], "published")
Unpublished(row) == IF row.status = "draft" THEN row
                    ELSE [row EXCEPT !.status = "draft", !.scheduled = Nothing]

(* update_post: the PATCH may set a status, a go-live time, both or neither. *)
Patched(row, status, at) ==
  LET set == [row EXCEPT !.scheduled = IF at = Nothing THEN @ ELSE at]
  IN  IF status = "scheduled" THEN [set EXCEPT !.status = status]
      ELSE Stamped([set EXCEPT !.scheduled = Nothing], status)
Acceptable(row) == row.status = "scheduled" => row.scheduled # Nothing /\ row.scheduled > time

Read(e, row) ==
  /\ request[e] = Nothing
  /\ changes < MaxChanges /\ changes' = changes + 1
  /\ request' = [request EXCEPT ![e] = [old |-> post, new |-> row]]
  /\ UNCHANGED <<post, time, sweep, wanted, first, overtaken>>

PublishPost(e) == post # Nothing /\ Read(e, Published(post))
UnpublishPost(e) == post # Nothing /\ Read(e, Unpublished(post))
UpdatePost(e) ==
  /\ post # Nothing
  /\ \E status \in Statuses, at \in Times \cup {Nothing} :
       /\ Acceptable(Patched(post, status, at))
       /\ Read(e, Patched(post, status, at))
DeletePost(e) == post # Nothing /\ Read(e, Nothing)

(* The columns that were changed are written over what is there.            *)
Written(old, new) ==
  [c \in DOMAIN post |-> IF new[c] = old[c] THEN post[c] ELSE new[c]]

Save(old, new) ==
  /\ post' = IF post = Nothing \/ new = Nothing THEN Nothing ELSE Written(old, new)
  /\ first' = IF post' # Nothing /\ first = Nothing THEN post'.published ELSE first
  /\ overtaken' = (overtaken \/ post # old)

Commit(e) ==
  /\ request[e] # Nothing
  /\ Save(request[e].old, request[e].new)
  /\ wanted' = IF request[e].new = Nothing THEN wanted
               ELSE [status |-> request[e].new.status, scheduled |-> request[e].new.scheduled]
  /\ request' = [request EXCEPT ![e] = Nothing]
  /\ UNCHANGED <<time, sweep, changes>>

-----------------------------------------------------------------------------
(* publish_scheduled_posts takes the time, then reads each tenant in turn.   *)
Start(w) ==
  /\ sweep[w] = Nothing
  /\ sweep' = [sweep EXCEPT ![w] = [now |-> time, row |-> Nothing]]
  /\ UNCHANGED <<post, time, request, changes, wanted, first, overtaken>>

Due(now) == post # Nothing /\ post.status = "scheduled"
            /\ post.scheduled # Nothing /\ post.scheduled <= now

Select(w) ==
  /\ sweep[w] # Nothing /\ sweep[w].row = Nothing
  /\ sweep' = [sweep EXCEPT ![w] = IF Due(@.now) THEN [@ EXCEPT !.row = post] ELSE Nothing]
  /\ UNCHANGED <<post, time, request, changes, wanted, first, overtaken>>

CommitSweep(w) ==
  /\ sweep[w] # Nothing /\ sweep[w].row # Nothing
  /\ LET row == sweep[w].row
     IN  Save(row, [row EXCEPT !.status = "published",
                               !.published = IF @ = Nothing THEN sweep[w].now ELSE @])
  /\ sweep' = [sweep EXCEPT ![w] = Nothing]
  /\ UNCHANGED <<time, request, changes, wanted>>

(* A failed tenant fails the task; its transaction is rolled back.          *)
FailSweep(w) ==
  /\ sweep[w] # Nothing
  /\ sweep' = [sweep EXCEPT ![w] = Nothing]
  /\ UNCHANGED <<post, time, request, changes, wanted, first, overtaken>>

Next ==
  \/ Tick
  \/ \E e \in Editors : \/ PublishPost(e) \/ UnpublishPost(e) \/ UpdatePost(e)
                        \/ DeletePost(e) \/ Commit(e)
  \/ \E w \in Sweeps : Start(w) \/ Select(w) \/ CommitSweep(w) \/ FailSweep(w)

-----------------------------------------------------------------------------
(* Unless a row was written that had changed since it was read, what the     *)
(* last request took down stays down, nothing goes live before its time, a   *)
(* scheduled post has a time to go live, and "published_at" is stamped once. *)
PostsAreSound ==
  post # Nothing /\ ~overtaken =>
    /\ wanted.status = "draft" => post.status = "draft"
    /\ wanted.status = "scheduled" /\ post.status = "published" => wanted.scheduled <= time
    /\ post.status = "scheduled" => post.scheduled # Nothing
    /\ post.status = "published" => post.published # Nothing /\ post.published = first
=============================================================================
