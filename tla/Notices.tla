------------------------------- MODULE Notices -------------------------------
(***************************************************************************)
(* The notifications of one user (modules/notifications).  notify() adds a   *)
(* row in its caller's transaction and reads the preferences there; after    *)
(* the commit one task per wanted channel is queued, which sends and then    *)
(* commits its line in the log.                                             *)
(*                                                                          *)
(* Abstracted: templates and payloads, except for whether a payload has an   *)
(* address; the live push, which nobody relies on; WhatsApp, which is        *)
(* treated as "sms" is.  No type of notification may wait for a digest        *)
(* (types.py), so none is parked.                                           *)
(***************************************************************************)
EXTENDS Naturals, FiniteSets

CONSTANTS Notices, Workers, Nothing,
          MaxRetries, \* deliver_notification's max_retries
          MaxEdits,   \* bound: preferences changed
          MaxMishaps  \* bound: callbacks lost, tasks delivered twice, runs that fail or die

Channels == {"email", "sms"}
Default == {"email"}

VARIABLES
  notice,     \* [Notices -> Nothing or addressed, read]: the notifications table
  preference, \* [Channels -> Nothing or enabled]: the explicit rows
  tx,         \* [Notices -> Nothing or the channels notify() found, of a transaction still open]
  tasks,      \* deliver_notification tasks in the broker: notice, channel, tries, copy
  send,       \* [Workers -> Nothing or where the run is, and its task]
  logged,     \* [Notices -> the log lines that were committed for it]
  mailed,     \* [Notices -> mails sent for it]
  edits, mishaps,
  addressed,  \* [Notices -> the payload has an address], chosen when it is notified
  told,       \* history: [Notices -> Nothing or the channels wanted when notified, once committed]
  doubled,    \* history: [Notices -> runs that ended after mailing without a log line, or were doubled]
  dropped,    \* history: notices one of whose tasks was lost or gave up
  erased      \* history: notices deleted by an erasure

noticeVars == <<notice, preference, tx, tasks, send, logged, mailed, edits, mishaps,
                addressed, told, doubled, dropped, erased>>

Init ==
  /\ notice = [n \in Notices |-> Nothing]
  /\ preference = [c \in Channels |-> Nothing]
  /\ tx = [n \in Notices |-> Nothing]
  /\ tasks = {} /\ send = [w \in Workers |-> Nothing]
  /\ logged = [n \in Notices |-> {}] /\ mailed = [n \in Notices |-> 0]
  /\ edits = 0 /\ mishaps = 0
  /\ addressed \in [Notices -> BOOLEAN]
  /\ told = [n \in Notices |-> Nothing]
  /\ doubled = [n \in Notices |-> 0]
  /\ dropped = {} /\ erased = {}

Mishap == mishaps < MaxMishaps /\ mishaps' = mishaps + 1

(* Explicit preference rows override the default of the type.               *)
ResolvedChannels ==
  {c \in Channels : IF preference[c] = Nothing THEN c \in Default ELSE preference[c]}

-----------------------------------------------------------------------------
(* notify, inside the transaction of a sweep or an event handler ...        *)
Notify(n) ==
  /\ tx[n] = Nothing /\ told[n] = Nothing
  /\ tx' = [tx EXCEPT ![n] = ResolvedChannels]
  /\ UNCHANGED <<notice, preference, tasks, send, logged, mailed, edits, mishaps,
                 addressed, told, doubled, dropped, erased>>

(* ... whose rollback leaves nothing ...                                    *)
Rollback(n) ==
  /\ tx[n] # Nothing
  /\ tx' = [tx EXCEPT ![n] = Nothing]
  /\ UNCHANGED <<notice, preference, tasks, send, logged, mailed, edits, mishaps,
                 addressed, told, doubled, dropped, erased>>

(* ... and whose commit queues the tasks, each by a callback of its own.    *)
Commit(n) ==
  /\ tx[n] # Nothing
  /\ notice' = [notice EXCEPT ![n] = [read |-> FALSE]]
  /\ told' = [told EXCEPT ![n] = tx[n]]
  /\ \E lost \in SUBSET tx[n] :
       /\ IF lost = {} THEN UNCHANGED <<mishaps, dropped>>
          ELSE Mishap /\ dropped' = dropped \cup {n}
       /\ tasks' = tasks \cup {[notice |-> n, channel |-> c, tries |-> 0] : c \in tx[n] \ lost}
  /\ tx' = [tx EXCEPT ![n] = Nothing]
  /\ UNCHANGED <<preference, send, logged, mailed, edits, addressed, doubled, erased>>

(* update_preferences: an upsert under a unique key.                        *)
UpdatePreference(c, enabled) ==
  /\ edits < MaxEdits /\ edits' = edits + 1
  /\ preference' = [preference EXCEPT ![c] = enabled]
  /\ UNCHANGED <<notice, tx, tasks, send, logged, mailed, mishaps,
                 addressed, told, doubled, dropped, erased>>

(* mark_read, for some ids or for all: what was read meanwhile stays read.  *)
MarkRead(ids) ==
  /\ \E n \in ids : notice[n] # Nothing /\ ~notice[n].read
  /\ notice' = [n \in Notices |-> IF n \in ids /\ notice[n] # Nothing
                                  THEN [notice[n] EXCEPT !.read = TRUE] ELSE notice[n]]
  /\ UNCHANGED <<preference, tx, tasks, send, logged, mailed, edits, mishaps,
                 addressed, told, doubled, dropped, erased>>

(* erase_for_user deletes the rows and the preferences; the log stays.      *)
Erase ==
  /\ \E n \in Notices : notice[n] # Nothing
  /\ erased' = erased \cup {n \in Notices : notice[n] # Nothing}
  /\ notice' = [n \in Notices |-> Nothing]
  /\ preference' = [c \in Channels |-> Nothing]
  /\ UNCHANGED <<tx, tasks, send, logged, mailed, edits, mishaps, addressed, told, doubled, dropped>>

-----------------------------------------------------------------------------
(* deliver_notification reads the row ...                                   *)
Deliver(w, t) ==
  /\ t \in tasks /\ send[w] = Nothing
  /\ tasks' = tasks \ {t}
  /\ send' = [send EXCEPT ![w] = IF notice[t.notice] = Nothing THEN Nothing
                                 ELSE [at |-> "send", task |-> t]]
  /\ UNCHANGED <<notice, preference, tx, logged, mailed, edits, mishaps,
                 addressed, told, doubled, dropped, erased>>

Mailing(t) == t.channel = "email" /\ addressed[t.notice]

(* ... mails, if there is an address and the channel has an adapter ...      *)
Send(w) ==
  /\ send[w] # Nothing /\ send[w].at = "send"
  /\ mailed' = [mailed EXCEPT ![send[w].task.notice] = @ + (IF Mailing(send[w].task) THEN 1 ELSE 0)]
  /\ send' = [send EXCEPT ![w].at = "log"]
  /\ UNCHANGED <<notice, preference, tx, tasks, logged, edits, mishaps,
                 addressed, told, doubled, dropped, erased>>

(* A run that failed is queued again, with a try less.                      *)
Retry(t) ==
  IF t.tries < MaxRetries
  THEN tasks' = tasks \cup {[t EXCEPT !.tries = t.tries + 1]} /\ UNCHANGED dropped
  ELSE dropped' = dropped \cup {t.notice} /\ UNCHANGED tasks

(* ... and commits its log line, whose foreign key needs the row.           *)
Log(w) ==
  /\ send[w] # Nothing /\ send[w].at = "log"
  /\ LET t == send[w].task
     IN  IF notice[t.notice] # Nothing
         THEN /\ logged' = [logged EXCEPT ![t.notice] = @ \cup
                              {[channel |-> t.channel,
                                status |-> IF Mailing(t) THEN "sent" ELSE "skipped"]}]
              /\ UNCHANGED <<tasks, dropped>>
         ELSE Retry(t) /\ UNCHANGED logged
  /\ send' = [send EXCEPT ![w] = Nothing]
  /\ UNCHANGED <<notice, preference, tx, mailed, edits, mishaps, addressed, told, doubled, erased>>

(* The mail server or the database fails, or the worker dies: acks_late, but *)
(* a lost worker's task is acknowledged.                                    *)
Fail(w) ==
  /\ send[w] # Nothing
  /\ Mishap
  /\ LET t == send[w].task
     IN  /\ \/ Retry(t)
            \/ dropped' = dropped \cup {t.notice} /\ UNCHANGED tasks
         /\ doubled' = [doubled EXCEPT ![t.notice] = @ + (IF send[w].at = "log" THEN 1 ELSE 0)]
  /\ send' = [send EXCEPT ![w] = Nothing]
  /\ UNCHANGED <<notice, preference, tx, logged, mailed, edits, addressed, told, erased>>

(* The broker delivers a task again while it runs.                          *)
Redeliver(w) ==
  /\ send[w] # Nothing
  /\ Mishap
  /\ tasks' = tasks \cup {send[w].task}
  /\ doubled' = [doubled EXCEPT ![send[w].task.notice] = @ + 1]
  /\ UNCHANGED <<notice, preference, tx, send, logged, mailed, edits, addressed, told, dropped, erased>>

Next ==
  \/ \E n \in Notices : Notify(n) \/ Rollback(n) \/ Commit(n) \/ MarkRead({n})
  \/ \E c \in Channels, enabled \in BOOLEAN : UpdatePreference(c, enabled)
  \/ MarkRead(Notices) \/ Erase
  \/ \E w \in Workers : \/ \E t \in tasks : Deliver(w, t)
                        \/ Send(w) \/ Log(w) \/ Fail(w) \/ Redeliver(w)

-----------------------------------------------------------------------------
Underway(n, c) ==
  \/ \E t \in tasks : t.notice = n /\ t.channel = c
  \/ \E w \in Workers : send[w] # Nothing /\ send[w].task.notice = n /\ send[w].task.channel = c

(* "a rolled-back notify sends nothing" (notifications/service.py), one that *)
(* was committed mails only if mail was wanted then, and once unless a run    *)
(* ended between the mail and its log line or was doubled.                  *)
MailsAreExplained ==
  \A n \in Notices :
    /\ mailed[n] > 0 => told[n] # Nothing /\ "email" \in told[n] /\ addressed[n]
    /\ mailed[n] <= 1 + doubled[n]

(* Every channel wanted is logged or will be, unless a task was lost or gave  *)
(* up or the user was erased; nothing is logged as sent that was not.       *)
NoticesAreLogged ==
  \A n \in Notices :
    /\ told[n] # Nothing =>
         \A c \in told[n] : \/ \E line \in logged[n] : line.channel = c
                            \/ Underway(n, c) \/ n \in dropped \/ n \in erased
    /\ [channel |-> "email", status |-> "sent"] \in logged[n] => mailed[n] > 0

NoticesAreSound == MailsAreExplained /\ NoticesAreLogged
=============================================================================
