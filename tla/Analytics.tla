------------------------------ MODULE Analytics ------------------------------
(***************************************************************************)
(* The events of one tenant's visitors and the daily figures made of them    *)
(* (modules/analytics, workers/tasks/analytics.py).  A nightly run counts     *)
(* yesterday and today over again and overwrites their figures; the raw      *)
(* events lie in month partitions that are created ahead and dropped whole.  *)
(*                                                                          *)
(* Abstracted: which listing, event type or source is counted; a month has   *)
(* MonthDays days.  The figures of a day are its events and, for the leads    *)
(* created that day, how many are won now.                                  *)
(***************************************************************************)
EXTENDS Naturals, FiniteSets

CONSTANTS Visits, Runs, Nothing,
          MonthDays,
          RAW_RETENTION_DAYS,
          PARTITION_LOOKAHEAD_MONTHS,
          MaxDay,     \* bound: the calendar
          MaxEvents   \* bound: events, leads won or no longer, changes of consent and runs

Days == 0..MaxDay
Month(d) == d \div MonthDays

VARIABLES
  day,
  partition,  \* months that have a partition
  events,     \* [Days -> events stored and not dropped]
  won,        \* [Days -> leads created that day that are won now]
  figures,    \* [Days -> views and won in the daily tables, 0 where there is no row]
  visit,      \* [Visits -> Nothing or the day of an ingestion not committed yet]
  rollup,     \* [Runs -> Nothing or the run's date and what it counted]
  consent,    \* the latest choice of the visitor's session: Nothing or granted
  happened,   \* bound counter
  ingested,   \* history: [Days -> events ever stored]
  hadWon,     \* history: [Days -> the values `won' has had]
  counted,    \* history: days a run that knew them as yesterday has written
  stale,      \* history: days changed since such a run counted them
  overlapped, \* history: two runs overlapped
  ahead,      \* history: the last month that maintenance provided for
  lost        \* history: when an event was refused for want of a partition, and `ahead' then

analyticsVars == <<day, partition, events, won, figures, visit, rollup, consent,
                   happened, ingested, hadWon, counted, stale, overlapped, ahead, lost>>

Init ==
  /\ day = 0
  /\ partition = {0, 1}  \* the migration's
  /\ events = [d \in Days |-> 0] /\ won = [d \in Days |-> 0]
  /\ figures = [d \in Days |-> [views |-> 0, won |-> 0]]
  /\ visit = [v \in Visits |-> Nothing]
  /\ rollup = [w \in Runs |-> Nothing]
  /\ consent \in {Nothing, TRUE}
  /\ happened = 0
  /\ ingested = [d \in Days |-> 0] /\ hadWon = [d \in Days |-> {0}]
  /\ counted = {} /\ stale = {} /\ overlapped = FALSE /\ ahead = 1 /\ lost = {}

Happen == happened < MaxEvents /\ happened' = happened + 1
history == <<ingested, hadWon, counted, stale, overlapped, ahead, lost>>

(* Bound: no run is still at work when what it counts may be pruned.        *)
Midnight ==
  /\ day < MaxDay /\ day' = day + 1
  /\ \A w \in Runs : rollup[w] # Nothing => day' <= rollup[w].now - 1 + RAW_RETENTION_DAYS
  /\ UNCHANGED <<partition, events, won, figures, visit, rollup, consent, happened, history>>

-----------------------------------------------------------------------------
(* record_consent appends a choice.                                         *)
RecordConsent(granted) ==
  /\ Happen
  /\ consent' = granted
  /\ UNCHANGED <<day, partition, events, won, figures, visit, rollup, history>>

(* analytics_allowed: a session that names itself needs a granted choice.   *)
AnalyticsAllowed == consent # Nothing /\ consent

(* ingest: the event is stamped when its transaction starts; without a       *)
(* partition for that day the insert fails ...                              *)
Ingest(v) ==
  /\ visit[v] = Nothing /\ AnalyticsAllowed
  /\ Happen
  /\ IF Month(day) \in partition
     THEN visit' = [visit EXCEPT ![v] = day] /\ UNCHANGED lost
     ELSE lost' = lost \cup {[day |-> day, ahead |-> ahead]} /\ UNCHANGED visit
  /\ UNCHANGED <<day, partition, events, won, figures, rollup, consent,
                 ingested, hadWon, counted, stale, overlapped, ahead>>

(* ... and is seen once it is committed.                                    *)
CommitIngest(v) ==
  /\ visit[v] # Nothing
  /\ events' = [events EXCEPT ![visit[v]] = @ + 1]
  /\ ingested' = [ingested EXCEPT ![visit[v]] = @ + 1]
  /\ stale' = stale \cup {visit[v]}
  /\ visit' = [visit EXCEPT ![v] = Nothing]
  /\ UNCHANGED <<day, partition, won, figures, rollup, consent, happened,
                 hadWon, counted, overlapped, ahead, lost>>

(* transition_stage lets a lead, here of day d, go from any stage to any: it    *)
(* is won, or is no longer.                                                 *)
TransitionStage(d, wins) ==
  /\ d <= day /\ (wins \/ won[d] > 0)
  /\ Happen
  /\ won' = [won EXCEPT ![d] = IF wins THEN @ + 1 ELSE @ - 1]
  /\ hadWon' = [hadWon EXCEPT ![d] = @ \cup {won'[d]}]
  /\ stale' = stale \cup {d}
  /\ UNCHANGED <<day, partition, events, figures, visit, rollup, consent,
                 ingested, counted, overlapped, ahead, lost>>

-----------------------------------------------------------------------------
(* The upsert sets what was counted; nothing counted is not written.        *)
Upserted(d, seen) ==
  [views |-> IF seen.views = 0 THEN figures[d].views ELSE seen.views, won |-> seen.won]

Counts(d) == [views |-> events[d], won |-> won[d]]
Dates(now) == {d \in Days : d = now \/ d + 1 = now}

(* rollup_analytics takes its time (a tenant suspended then is passed over:    *)
(* for it there is no run) ...                                              *)
Start(w) ==
  /\ rollup[w] = Nothing
  /\ Happen
  /\ rollup' = [rollup EXCEPT ![w] = [now |-> day, seen |-> Nothing]]
  /\ overlapped' = (overlapped \/ \E x \in Runs : rollup[x] # Nothing)
  /\ UNCHANGED <<day, partition, events, won, figures, visit, consent,
                 ingested, hadWon, counted, stale, ahead, lost>>

(* ... counts yesterday and today ...                                       *)
Count(w) ==
  /\ rollup[w] # Nothing /\ rollup[w].seen = Nothing
  /\ rollup' = [rollup EXCEPT ![w].seen = [d \in Dates(rollup[w].now) |-> Counts(d)]]
  /\ stale' = stale \ {rollup[w].now - 1}
  /\ UNCHANGED <<day, partition, events, won, figures, visit, consent, happened,
                 ingested, hadWon, counted, overlapped, ahead, lost>>

(* ... and commits the figures of both.                                     *)
CommitRollup(w) ==
  /\ rollup[w] # Nothing /\ rollup[w].seen # Nothing
  /\ figures' = [d \in Days |-> IF d \in Dates(rollup[w].now)
                                THEN Upserted(d, rollup[w].seen[d]) ELSE figures[d]]
  /\ counted' = counted \cup {d \in Days : d + 1 = rollup[w].now}
  /\ rollup' = [rollup EXCEPT ![w] = Nothing]
  /\ UNCHANGED <<day, partition, events, won, visit, consent, happened,
                 ingested, hadWon, stale, overlapped, ahead, lost>>

(* A failing tenant fails the run; the next one is a night later.           *)
FailRollup(w) ==
  /\ rollup[w] # Nothing
  /\ rollup' = [rollup EXCEPT ![w] = Nothing]
  /\ stale' = IF rollup[w].seen = Nothing THEN stale
              ELSE stale \cup Dates(rollup[w].now)
  /\ UNCHANGED <<day, partition, events, won, figures, visit, consent, happened,
                 ingested, hadWon, counted, overlapped, ahead, lost>>

-----------------------------------------------------------------------------
EnsurePartitions ==
  /\ partition' = partition \cup Month(day)..(Month(day) + PARTITION_LOOKAHEAD_MONTHS)
  /\ ahead' = Month(day) + PARTITION_LOOKAHEAD_MONTHS
  /\ UNCHANGED <<day, events, won, figures, visit, rollup, consent, happened,
                 ingested, hadWon, counted, stale, overlapped, lost>>

(* prune_raw_events: months that ended before the cutoff, once no insert into *)
(* them is open.                                                            *)
Old(m) == (m + 1) * MonthDays + RAW_RETENTION_DAYS <= day
PruneRawEvents ==
  /\ \E m \in partition : Old(m)
  /\ \A v \in Visits : visit[v] # Nothing => ~Old(Month(visit[v]))
  /\ partition' = {m \in partition : ~Old(m)}
  /\ events' = [d \in Days |-> IF Month(d) \in partition /\ Old(Month(d)) THEN 0 ELSE events[d]]
  /\ UNCHANGED <<day, won, figures, visit, rollup, consent, happened, history>>

Next ==
  \/ Midnight \/ EnsurePartitions \/ PruneRawEvents
  \/ \E granted \in BOOLEAN : RecordConsent(granted)
  \/ \E v \in Visits : Ingest(v) \/ CommitIngest(v)
  \/ \E d \in Days, wins \in BOOLEAN : TransitionStage(d, wins)
  \/ \E w \in Runs : Start(w) \/ Count(w) \/ CommitRollup(w) \/ FailRollup(w)

-----------------------------------------------------------------------------
(* "recomputes identical values, never double-counts" (tasks/analytics.py):   *)
(* the figures of a day never exceed its events and are wins its leads had at    *)
(* some time; once the run that knew the day as yesterday has written them     *)
(* they are those of the raw events and of the leads, unless two runs          *)
(* overlapped or the day changed after it was counted, which no later run     *)
(* will notice.                                                             *)
FiguresAreExplained ==
  \A d \in Days :
    /\ figures[d].views <= ingested[d] /\ figures[d].won \in hadWon[d]
    /\ d \in counted \ stale /\ ~overlapped /\ (\A w \in Runs : rollup[w] = Nothing) =>
         figures[d] = [views |-> ingested[d], won |-> won[d]]

(* Pruning spares what is younger than the retention, hence whatever a run     *)
(* still counts; an event is refused only if maintenance has not run for the  *)
(* months it looks ahead.                                                   *)
RawEventsLast ==
  /\ \A d \in Days : d + RAW_RETENTION_DAYS >= day => events[d] = ingested[d]
  /\ \A refusal \in lost : Month(refusal.day) > refusal.ahead

AnalyticsIsSound == FiguresAreExplained /\ RawEventsLast
=============================================================================
