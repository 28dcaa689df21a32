------------------------------- MODULE Alerts -------------------------------
(***************************************************************************)
(* One saved search (modules/favorites) and the listings that match it: the  *)
(* instant matcher, queued after a publish commits, and the digest task,     *)
(* which mails what was published since the search's watermark.  Both mail   *)
(* before they commit, and both move the watermark.                          *)
(*                                                                          *)
(* Abstracted: filters (every listing matches), favorites, the weekly digest *)
(* (a daily one that runs less often), withdrawn listings.                   *)
(***************************************************************************)
EXTENDS Naturals, FiniteSets

CONSTANTS Listings, Digests, Nothing,
          DIGEST_MAX_LISTINGS,
          MaxTime,    \* bound: readings of the clock
          MaxEdits,   \* bound: changes of the search, its owner's account and the tenant's status
          MaxFailures \* bound: tasks that fail or are delivered again

VARIABLES
  now,
  published,   \* [Listings -> published_at, or Nothing]
  visible,     \* listings whose publish has committed
  search,      \* is_active, frequency, last_run_at
  reachable,   \* there is an address: the search's own, or that of an active account
  suspended,   \* the tenant is
  matches,     \* listings with a match_published_listing task queued or under way
  begun,       \* those whose task has found the tenant in business
  digest,      \* [Digests -> the time it took, what it has mailed]
  edits, failures,
  mails,       \* history: [Listings -> mails sent]
  missed,      \* history: listings passed over for a reason the code accepts
  again        \* history: listings that may be mailed twice

owner == <<reachable, suspended>>
alertVars == <<now, published, visible, search, owner, matches, begun, digest, edits, failures,
               mails, missed, again>>

(* create_saved_search: the first watermark is the moment it was created. *)
Init ==
  /\ now = 1
  /\ published = [l \in Listings |-> Nothing]
  /\ visible = {}
  /\ search \in [active : {TRUE}, frequency : {"instant", "daily"}, ran : {0}]
  /\ reachable = TRUE /\ suspended = FALSE
  /\ matches = {} /\ begun = {}
  /\ digest = [d \in Digests |-> Nothing]
  /\ edits = 0 /\ failures = 0
  /\ mails = [l \in Listings |-> 0]
  /\ missed = {} /\ again = {}

(* Every reading of the clock is later than the one before. *)
Clock == now < MaxTime /\ now' = now + 1

Mailed(ls) == mails' = [l \in Listings |-> IF l \in ls THEN mails[l] + 1 ELSE mails[l]]
Unmailed == {l \in Listings : published[l] # Nothing /\ mails[l] = 0}
Stumble == failures < MaxFailures /\ failures' = failures + 1

-----------------------------------------------------------------------------
(* transition: published_at is taken inside the transaction ... *)
Publish(l) ==
  /\ published[l] = Nothing
  /\ Clock
  /\ published' = [published EXCEPT ![l] = now]
  /\ UNCHANGED <<visible, search, owner, matches, begun, digest, edits, failures, mails, missed, again>>

(* ... and the matcher is queued after it: the callback can be lost. *)
CommitPublish(l) ==
  /\ published[l] # Nothing /\ l \notin visible
  /\ visible' = visible \cup {l}
  /\ \/ matches' = matches \cup {l} /\ UNCHANGED <<failures, missed>>
     \/ Stumble /\ missed' = missed \cup {l} /\ UNCHANGED matches
  /\ UNCHANGED <<now, published, search, owner, begun, digest, edits, mails, again>>

(* match_published_listing reads the tenant ... *)
Instant == search.active /\ search.frequency = "instant"

Leaves(l) == matches' = matches \ {l} /\ begun' = begun \ {l}
PassOver(l) == missed' = missed \cup (IF search.frequency = "instant" THEN {l} ELSE {})

BeginMatch(l) ==
  /\ l \in matches \ begun
  /\ IF suspended THEN Leaves(l) /\ PassOver(l)
                  ELSE begun' = begun \cup {l} /\ UNCHANGED <<matches, missed>>
  /\ UNCHANGED <<now, published, visible, search, owner, digest, edits, failures, mails, again>>

(* ... and then runs this search, unless its owner cannot be reached. *)
Match(l) ==
  /\ l \in begun
  /\ Leaves(l)
  /\ IF Instant /\ reachable
     THEN Clock /\ Mailed({l}) /\ search' = [search EXCEPT !.ran = now] /\ UNCHANGED missed
     ELSE PassOver(l) /\ UNCHANGED <<now, mails, search>>
  /\ UNCHANGED <<published, visible, owner, digest, edits, failures, again>>

(* The mail is queued before the commit: the task fails after it, or is      *)
(* delivered a second time ...                                              *)
MatchAgain(l) ==
  /\ l \in begun /\ Instant /\ reachable
  /\ Stumble
  /\ Clock
  /\ Mailed({l})
  /\ again' = again \cup {l}
  /\ begun' = begun \ {l}
  /\ \/ UNCHANGED <<search, matches>>
     \/ search' = [search EXCEPT !.ran = now] /\ UNCHANGED matches
     \/ matches' = matches \ {l} /\ UNCHANGED search
  /\ UNCHANGED <<published, visible, owner, digest, edits, missed>>

(* ... or fails before it, for good, or dies and is delivered again.         *)
FailMatch(l) ==
  /\ l \in matches
  /\ Stumble
  /\ \/ Leaves(l) /\ PassOver(l)
     \/ begun' = begun \ {l} /\ UNCHANGED <<matches, missed>>
  /\ UNCHANGED <<now, published, visible, search, owner, digest, edits, mails, again>>

-----------------------------------------------------------------------------
(* send_saved_search_digests takes the time once, for every tenant that is   *)
(* not suspended.                                                           *)
StartDigest(d) ==
  /\ digest[d] = Nothing /\ ~suspended
  /\ Clock
  /\ digest' = [digest EXCEPT ![d] = [now |-> now, mailed |-> Nothing]]
  /\ UNCHANGED <<published, visible, search, owner, matches, begun, edits, failures, mails, missed, again>>

(* A slip the model can tell: what is new since the search was created. *)
SinceCreated == {l \in visible : published[l] > 0}

SinceWatermark == {l \in visible : published[l] > search.ran}

(* A featured listing comes first, so any may be among those that fit. *)
Fit(shown) ==
  /\ Cardinality(shown) <= DIGEST_MAX_LISTINGS
  /\ shown # SinceWatermark => Cardinality(shown) = DIGEST_MAX_LISTINGS

(* run_digests: list, query, mail, or not if there is nobody to mail.  What  *)
(* it mails beyond its own time, or while another run has yet to commit, is  *)
(* mailed again.                                                            *)
RunDigest(d) ==
  /\ digest[d] # Nothing /\ digest[d].mailed = Nothing
  /\ IF search.active /\ search.frequency = "daily"
     THEN \E shown \in SUBSET SinceWatermark :
            /\ IF reachable THEN Fit(shown) ELSE shown = {}
            /\ Mailed(shown)
            /\ digest' = [digest EXCEPT ![d].mailed = shown]
            /\ missed' = missed \cup (SinceWatermark \ shown)
                 \cup {l \in Listings \ visible : published[l] # Nothing}
            /\ again' = again \cup {l \in shown : \E e \in Digests \ {d} :
                                       digest[e] # Nothing /\ digest[e].mailed # Nothing}
     ELSE digest' = [digest EXCEPT ![d] = Nothing] /\ UNCHANGED <<mails, missed, again>>
  /\ UNCHANGED <<now, published, visible, search, owner, matches, begun, edits, failures>>

(* The watermark is the task's time: what was published after it, and mailed *)
(* all the same, is new to the next run.                                     *)
CommitDigest(d) ==
  /\ digest[d] # Nothing /\ digest[d].mailed # Nothing
  /\ again' = again \cup {l \in Listings : mails[l] > 0 /\ published[l] > digest[d].now}
  /\ search' = [search EXCEPT !.ran = digest[d].now]
  /\ digest' = [digest EXCEPT ![d] = Nothing]
  /\ UNCHANGED <<now, published, visible, owner, matches, begun, edits, failures, mails, missed>>

(* The run fails or dies, perhaps after the mail was sent: at a later search, *)
(* or at another tenant.                                                    *)
FailDigest(d) ==
  /\ digest[d] # Nothing
  /\ Stumble
  /\ again' = again \cup (IF digest[d].mailed = Nothing THEN {} ELSE digest[d].mailed)
  /\ digest' = [digest EXCEPT ![d] = Nothing]
  /\ UNCHANGED <<now, published, visible, search, owner, matches, begun, edits, mails, missed>>

-----------------------------------------------------------------------------
(* update_saved_search, confirm_signup and unsubscribe: another frequency    *)
(* leaves the watermark where it is.                                         *)
Edit(active, frequency) ==
  /\ edits < MaxEdits
  /\ edits' = edits + 1
  /\ <<active, frequency>> # <<search.active, search.frequency>>
  /\ search' = [search EXCEPT !.active = active, !.frequency = frequency]
  /\ IF frequency # search.frequency
     THEN /\ missed' = missed \cup Unmailed
          /\ again' = again \cup matches
               \cup {l \in Listings : \E d \in Digests : digest[d] # Nothing /\ published[l] # Nothing}
     ELSE UNCHANGED <<missed, again>>
  /\ UNCHANGED <<now, published, visible, owner, matches, begun, digest, failures, mails>>

(* The owner's account is disabled or enabled, the tenant is suspended or    *)
(* comes back.                                                              *)
Turn ==
  /\ edits < MaxEdits
  /\ edits' = edits + 1
  /\ \/ reachable' = ~reachable /\ UNCHANGED suspended
     \/ suspended' = ~suspended /\ UNCHANGED reachable
  /\ UNCHANGED <<now, published, visible, search, matches, begun, digest, failures, mails, missed, again>>

Next ==
  \/ \E l \in Listings :
       Publish(l) \/ CommitPublish(l) \/ BeginMatch(l) \/ Match(l) \/ MatchAgain(l) \/ FailMatch(l)
  \/ \E d \in Digests : StartDigest(d) \/ RunDigest(d) \/ CommitDigest(d) \/ FailDigest(d)
  \/ \E active \in BOOLEAN, frequency \in {"instant", "daily"} : Edit(active, frequency)
  \/ Turn

(* "That watermark is the idempotency" (run_digests): a listing the          *)
(* watermark has passed, and no task is left for, was mailed, and none is    *)
(* mailed twice.  What the code accepts is set apart: the digest is full,    *)
(* there was no address to mail to, the tenant was suspended when an instant *)
(* match ran, the publish had not committed when the digest read, the owner  *)
(* changed the frequency or was away, a callback was lost, a task failed     *)
(* before or after mailing, two digests overlapped.                          *)
AlertsAreExplained ==
  \A l \in Listings :
    /\ l \in visible \ (matches \cup missed) /\ published[l] <= search.ran => mails[l] > 0
    /\ l \notin again => mails[l] <= 1
=============================================================================
