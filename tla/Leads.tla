-------------------------------- MODULE Leads --------------------------------
(***************************************************************************)
(* The leads pipeline (modules/leads, workers/tasks/leads.py): a captured   *)
(* lead is assigned and its agent told through the outbox, a drip of mails  *)
(* runs until an agent answers, and a sweep of the beat advances the drips  *)
(* and escalates what nobody owns.                                          *)
(*                                                                          *)
(* A sweep is one transaction: it reads the drips that are due, queues      *)
(* their mails as it goes and writes at its commit, with no lock.  Stage    *)
(* moves and activities hold the lead's row and are one step here.          *)
(*                                                                          *)
(* Abstracted: the contact (Contacts) except whether it has an email; the   *)
(* timeline except the escalation; the score; the copy of the mails.        *)
(***************************************************************************)
EXTENDS Naturals, FiniteSets

CONSTANTS
  LeadIds, Agents,
  Stages,        \* LeadStage
  Sweeps,        \* runs of the beat that may overlap
  Nothing,
  Steps,         \* mails of the drip sequence
  MaxOpen,       \* max_open_leads_per_agent
  MaxRequests,   \* bound: requests after which nobody asks for anything
  MaxFaults      \* bound: sweeps that fail

VARIABLES
  lead,       \* [LeadIds -> [stage, mailable, agent, old, escalations]]
  drip,       \* [LeadIds -> [step, due, stopped]]
  active,     \* agents whose account is active
  sweep,      \* [Sweeps -> what a running sweep has read and done, or Nothing]
  events,     \* lead.created events the outbox has not applied
  told,       \* leads whose agent was notified
  mails,      \* [LeadIds -> [0..Steps-1 -> mails queued]]
  repeated,   \* history: leads two sweeps held at once, or a failed one mailed
  unreached,  \* history: leads reassigned by hand, or whose agent left first
  requests, faults

history == <<repeated, unreached>>
bounds  == <<requests, faults>>
vars == <<lead, drip, active, sweep, events, told, mails, history, bounds>>

DRIP_ACTIVE_STAGES == {"new", "contacted"}

Init ==
  /\ lead = [l \in LeadIds |-> [stage |-> "absent", mailable |-> FALSE, agent |-> Nothing,
                                old |-> FALSE, escalations |-> 0]]
  /\ drip = [l \in LeadIds |-> [step |-> 0, due |-> FALSE, stopped |-> TRUE]]
  /\ active = Agents
  /\ sweep = [s \in Sweeps |-> Nothing]
  /\ events = {} /\ told = {}
  /\ mails = [l \in LeadIds |-> [k \in 0..(Steps - 1) |-> 0]]
  /\ repeated = {} /\ unreached = {}
  /\ requests = 0 /\ faults = 0

Ask == requests < MaxRequests /\ requests' = requests + 1
Exists(l) == lead[l].stage # "absent"

-----------------------------------------------------------------------------
(* Assignment. *)

Load(a) ==
  Cardinality({l \in LeadIds : lead[l].agent = a /\ lead[l].stage \notin {"won", "lost", "absent"}})

(* The agents the least-loaded pick may return: the first of those with the  *)
(* fewest open leads, among those below the cap.                             *)
LeastLoaded(pool) ==
  LET free == {a \in pool : Load(a) < MaxOpen}
  IN  IF free = {} THEN {Nothing} ELSE {a \in free : \A b \in free : Load(a) <= Load(b)}

(* Whatever the tenant's strategy: the listing's agent; the least loaded of  *)
(* a configured pool, of all agents, or of those whose area holds the        *)
(* listing; or nobody.  All are re-validated.                                *)
Assignees == {Nothing} \cup active \cup UNION {LeastLoaded(pool) : pool \in SUBSET active}

(* An account is disabled; leads already assigned keep it. *)
DisableAgent(a) ==
  /\ a \in active
  /\ Ask
  /\ active' = active \ {a}
  /\ unreached' = unreached \cup {l \in LeadIds : lead[l].agent = a}
  /\ UNCHANGED <<lead, drip, sweep, events, told, mails, repeated, faults>>

(* _create_captured_lead, for every public surface, and create_manual, which *)
(* announces nothing: the lead, its agent, its drip and its event.           *)
Create(l, mailable, announced) ==
  /\ ~Exists(l)
  /\ Ask
  /\ \E a \in Assignees :
       lead' = [lead EXCEPT ![l] = [stage |-> "new", mailable |-> mailable, agent |-> a,
                                    old |-> FALSE, escalations |-> 0]]
  /\ drip' = [drip EXCEPT ![l] = [step |-> 0, due |-> TRUE, stopped |-> FALSE]]
  /\ events' = IF announced THEN events \cup {l} ELSE events
  /\ unreached' = IF announced THEN unreached ELSE unreached \cup {l}
  /\ UNCHANGED <<active, sweep, told, mails, repeated, faults>>

(* update: a manager reassigns, or unassigns.  The event still names the     *)
(* agent of the capture.                                                     *)
Reassign(l, a) ==
  /\ Exists(l) /\ a \in active \cup {Nothing} /\ a # lead[l].agent
  /\ Ask
  /\ lead' = [lead EXCEPT ![l].agent = a]
  /\ unreached' = unreached \cup {l}
  /\ UNCHANGED <<drip, active, sweep, events, told, mails, repeated, faults>>

-----------------------------------------------------------------------------
(* The pipeline. *)

StopDrip(l) == drip' = [drip EXCEPT ![l].stopped = TRUE]

(* Any stage may follow any; beyond first contact the drip stops for good.   *)
TransitionStage(l, to) ==
  /\ Exists(l)
  /\ Ask
  /\ lead' = [lead EXCEPT ![l].stage = to]
  /\ IF to \in DRIP_ACTIVE_STAGES THEN UNCHANGED drip ELSE StopDrip(l)
  /\ UNCHANGED <<active, sweep, events, told, mails, history, faults>>

(* record_activity, of a type an agent authors: the conversation has begun.  *)
RecordActivity(l) ==
  /\ Exists(l)
  /\ Ask
  /\ StopDrip(l)
  /\ UNCHANGED <<lead, active, sweep, events, told, mails, history, faults>>

(* The relay applies lead.created, for an agent who is still active.         *)
HandleLeadCreated(l) ==
  /\ l \in events
  /\ events' = events \ {l}
  /\ told' = IF lead[l].agent \in active THEN told \cup {l} ELSE told
  /\ UNCHANGED <<lead, drip, active, sweep, mails, history, bounds>>

(* Time: a lead passes the escalation delay, a drip's next date comes.       *)
Age(l) ==
  /\ Exists(l) /\ ~lead[l].old
  /\ lead' = [lead EXCEPT ![l].old = TRUE]
  /\ UNCHANGED <<drip, active, sweep, events, told, mails, history, bounds>>

FallDue(l) ==
  /\ ~drip[l].stopped /\ ~drip[l].due
  /\ drip' = [drip EXCEPT ![l].due = TRUE]
  /\ UNCHANGED <<lead, active, sweep, events, told, mails, history, bounds>>
-----------------------------------------------------------------------------
(* One sweep: the drips that are due, then the leads nobody owns.  A sweep   *)
(* that finds nothing is left out.                                           *)

Due(l) == ~drip[l].stopped /\ drip[l].due

(* Mutation: the test on the agent is the wrong way round. *)
Owned(l) ==
  lead[l].stage = "new" /\ lead[l].agent # Nothing /\ lead[l].old /\ lead[l].escalations = 0

(* _escalate_unassigned: old, new and never escalated. *)
Unassigned(l) ==
  lead[l].stage = "new" /\ lead[l].agent = Nothing /\ lead[l].old /\ lead[l].escalations = 0

BeginSweep(s) ==
  LET due == {l \in LeadIds : Due(l)}
  IN  /\ sweep[s] = Nothing
      /\ \E l \in LeadIds : Due(l) \/ Unassigned(l)
      /\ sweep' = [sweep EXCEPT ![s] =
            [stage |-> "read", due |-> due, step |-> [l \in due |-> drip[l].step],
             sent |-> {}, flag |-> {}]]
      /\ repeated' = repeated \cup
            {l \in due : \E o \in Sweeps : sweep[o] # Nothing /\ l \in sweep[o].due}
      /\ UNCHANGED <<lead, drip, active, events, told, mails, unreached, bounds>>

(* advance_drip for each row read: the mail is queued at once, the row is    *)
(* written at commit.  Then the escalations are read.                        *)
AdvanceDrips(s) ==
  LET w == sweep[s]
      goes == {l \in w.due : lead[l].stage \in DRIP_ACTIVE_STAGES /\ w.step[l] < Steps}
      flag == {l \in LeadIds : Unassigned(l)}
  IN  /\ w # Nothing
      /\ w.stage = "read"
      /\ sweep' = [sweep EXCEPT ![s].stage = "written", ![s].sent = goes, ![s].flag = flag]
      /\ mails' = [l \in LeadIds |->
            IF l \in goes /\ lead[l].mailable THEN [mails[l] EXCEPT ![w.step[l]] = @ + 1]
            ELSE mails[l]]
      /\ repeated' = repeated \cup
            {l \in flag : \E o \in Sweeps : sweep[o] # Nothing /\ l \in sweep[o].flag}
      /\ UNCHANGED <<lead, drip, active, events, told, unreached, bounds>>

(* Mutation: the date of the next step is set, the step is not. *)
SameStep(d, step) == [d EXCEPT !.due = FALSE]

(* The next step and its date, or the end of the sequence. *)
Advanced(d, step) == [d EXCEPT !.step = step, !.due = FALSE, !.stopped = @ \/ step >= Steps]

CommitSweep(s) ==
  LET w == sweep[s]
  IN  /\ w # Nothing
      /\ w.stage = "written"
      /\ drip' = [l \in LeadIds |->
           CASE l \in w.sent -> Advanced(drip[l], w.step[l] + 1)
             [] l \in w.due \ w.sent -> [drip[l] EXCEPT !.stopped = TRUE]
             [] OTHER -> drip[l]]
      /\ lead' = [l \in LeadIds |->
           IF l \in w.flag THEN [lead[l] EXCEPT !.escalations = @ + 1] ELSE lead[l]]
      /\ sweep' = [sweep EXCEPT ![s] = Nothing]
      /\ UNCHANGED <<active, events, told, mails, history, bounds>>

(* The broker refuses a mail, the database an insert, or the worker dies:    *)
(* nothing is written, and the mails already queued go out.                  *)
FailSweep(s) ==
  /\ sweep[s] # Nothing
  /\ faults < MaxFaults
  /\ faults' = faults + 1
  /\ repeated' = repeated \cup sweep[s].sent
  /\ sweep' = [sweep EXCEPT ![s] = Nothing]
  /\ UNCHANGED <<lead, drip, active, events, told, mails, unreached, requests>>

-----------------------------------------------------------------------------
Sweep(s) == BeginSweep(s) \/ AdvanceDrips(s) \/ CommitSweep(s)

Next ==
  \/ \E l \in LeadIds :
       \/ \E mailable, announced \in BOOLEAN : Create(l, mailable, announced)
       \/ \E a \in Agents \cup {Nothing} : Reassign(l, a)
       \/ \E to \in Stages : TransitionStage(l, to)
       \/ RecordActivity(l)
       \/ HandleLeadCreated(l) \/ Age(l) \/ FallDue(l)
  \/ \E a \in Agents : DisableAgent(a)
  \/ \E s \in Sweeps : Sweep(s) \/ FailSweep(s)

Spec == Init /\ [][Next]_vars

(* Time passes, the relay applies its events (see Outbox), the beat starts a *)
(* sweep every quarter of an hour and a sweep that runs goes on.             *)
Fairness ==
  /\ \A l \in LeadIds : WF_vars(Age(l)) /\ WF_vars(HandleLeadCreated(l))
  /\ \A s \in Sweeps : WF_vars(Sweep(s))

FairSpec == Spec /\ Fairness

-----------------------------------------------------------------------------
(* A step of the drip is mailed once, and a lead escalated once, unless two  *)
(* sweeps held the lead at the same time or a sweep that had mailed it       *)
(* failed (sweep_drips_and_escalations).                                     *)
RepeatsAreExplained ==
  \A l \in LeadIds \ repeated :
    lead[l].escalations <= 1 /\ \A k \in 0..(Steps - 1) : mails[l][k] <= 1

(* A captured lead reaches somebody: its agent is told or the                *)
(* administrators are, or someone moves it on; unless it was reassigned by   *)
(* hand or its agent was disabled before the event was applied.              *)
LeadReachesSomeone ==
  \A l \in LeadIds :
    Exists(l) ~> (l \in told \/ lead[l].escalations > 0 \/ lead[l].stage # "new" \/ l \in unreached)
==============================================================================
