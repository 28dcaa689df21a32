------------------------------- MODULE Deals -------------------------------
(***************************************************************************)
(* One deal with one milestone (modules/transactions) under requests that    *)
(* read their row FOR UPDATE and then write it, and the reminder sweep       *)
(* (workers/tasks/transactions.py), which reads its rows without a lock.     *)
(* Amounts are what they were derived from: a percentage commission is the   *)
(* price it was computed on.  Links, owners and documents are left out.      *)
(***************************************************************************)
EXTENDS Naturals

CONSTANTS Requests,   \* requests at once
          Sweeps,     \* reminder sweeps at once
          Prices, Days, Nothing,
          MaxEdits    \* requests in a behaviour

VARIABLES deal, milestone,
          today,
          request, sweep, edits,
          closings,   \* history: deal.closed events
          edited,     \* history: the price was changed since the commission was set
          reminded,   \* history: due dates the owner was reminded of
          excused     \* history: the stamp stands for a date that was not reminded of

dealVars == <<deal, milestone, today, request, sweep, edits, closings, edited, reminded, excused>>

CLOSED == {"closed_won", "closed_lost"}
TRANSITIONS ==
  [s \in CLOSED \cup {"open", "under_contract"} |->
     CASE s = "open" -> CLOSED \cup {"under_contract"}
       [] s = "under_contract" -> CLOSED \cup {"open"}
       [] OTHER -> {}]

(* Created with a price and one milestone. *)
Init ==
  /\ deal = [status |-> "open", price |-> CHOOSE p \in Prices : TRUE, commission |-> Nothing]
  /\ milestone = [due |-> CHOOSE d \in Days : \A e \in Days : d <= e, done |-> FALSE, stamp |-> FALSE]
  /\ today = 0
  /\ request = [r \in Requests |-> Nothing]
  /\ sweep = [s \in Sweeps |-> Nothing]
  /\ edits = 0
  /\ closings = 0
  /\ edited = FALSE
  /\ reminded = {}
  /\ excused = FALSE

-----------------------------------------------------------------------------
OnDeal == {"price", "transition", "commission", "delete"}
Argument(op) ==
  CASE op = "price" -> Prices
    [] op = "transition" -> DOMAIN TRANSITIONS
    [] op = "milestone" -> [due : Days \cup {Nothing}, done : BOOLEAN \cup {Nothing}]
    [] OTHER -> {Nothing}

Holding(ops) == \E r \in Requests : request[r] # Nothing /\ request[r].op \in ops

(* A slip the model can tell: the row is read without FOR UPDATE. *)
Unlocked(op) == TRUE

(* SELECT .. FOR UPDATE waits for the request that holds the row. *)
RowFree(op) == ~Holding(IF op \in OnDeal THEN OnDeal ELSE {"milestone", "delete_milestone"})

(* _deal_or_404 or get_milestone: what is gone is a 404. *)
Begin(r) ==
  /\ request[r] = Nothing
  /\ edits < MaxEdits
  /\ edits' = edits + 1
  /\ deal # Nothing
  /\ \E op \in OnDeal \cup {"milestone", "delete_milestone"} :
       /\ RowFree(op)
       /\ op \notin OnDeal => milestone # Nothing
       /\ \E arg \in Argument(op) :
            request' = [request EXCEPT ![r] = [op |-> op, arg |-> arg, deal |-> deal, row |-> milestone]]
  /\ UNCHANGED <<deal, milestone, today, sweep, closings, edited, reminded, excused>>

End(r) == request' = [request EXCEPT ![r] = Nothing]

UpdatePrice(r) ==
  /\ request[r].op = "price"
  /\ deal' = [deal EXCEPT !.price = request[r].arg]
  /\ edited' = TRUE
  /\ UNCHANGED <<milestone, closings, excused>>

(* The same status again is a no-op, a move that is not allowed a conflict. *)
Transition(r) ==
  /\ request[r].op = "transition"
  /\ LET to == request[r].arg
         moved == to \in TRANSITIONS[request[r].deal.status]
     IN /\ deal' = IF moved THEN [deal EXCEPT !.status = to] ELSE deal
        /\ closings' = closings + IF moved /\ to \in CLOSED THEN 1 ELSE 0
  /\ UNCHANGED <<milestone, edited, excused>>

(* The amount is derived from the price the request has read. *)
SetCommission(r) ==
  /\ request[r].op = "commission"
  /\ deal' = [deal EXCEPT !.commission = request[r].deal.price]
  /\ edited' = FALSE
  /\ UNCHANGED <<milestone, closings, excused>>

(* Milestones and documents go with it. *)
DeleteDeal(r) ==
  /\ request[r].op = "delete"
  /\ ~Holding({"milestone", "delete_milestone"})
  /\ deal' = Nothing
  /\ milestone' = Nothing
  /\ UNCHANGED <<closings, edited, excused>>

DeleteMilestone(r) ==
  /\ request[r].op = "delete_milestone"
  /\ milestone' = Nothing
  /\ UNCHANGED <<deal, closings, edited, excused>>

(* completed first, then the date, which clears the stamp of an open one. *)
Patched(row, patch) ==
  LET row1 == IF patch.done # Nothing THEN [row EXCEPT !.done = patch.done] ELSE row
  IN  IF patch.due = Nothing THEN row1
      ELSE [row1 EXCEPT !.due = patch.due, !.stamp = IF row1.done THEN @ ELSE FALSE]

UpdateMilestone(r) ==
  /\ request[r].op = "milestone"
  /\ milestone' = Patched(request[r].row, request[r].arg)
  /\ excused' = (/\ milestone'.stamp
               /\ \/ excused
                  \/ milestone'.done /\ milestone'.due # milestone.due)
  /\ UNCHANGED <<deal, closings, edited>>

(* An UPDATE of a row that is gone fails. *)
Commit(r) ==
  /\ request[r] # Nothing
  /\ IF request[r].op \in OnDeal THEN deal # Nothing ELSE milestone # Nothing
  /\ \/ UpdatePrice(r) \/ Transition(r) \/ SetCommission(r)
     \/ DeleteDeal(r) \/ DeleteMilestone(r) \/ UpdateMilestone(r)
  /\ End(r)
  /\ UNCHANGED <<today, sweep, edits, reminded>>

(* The process stops, or the transaction fails. *)
Rollback(r) ==
  /\ request[r] # Nothing
  /\ End(r)
  /\ UNCHANGED <<deal, milestone, today, sweep, edits, closings, edited, reminded, excused>>

-----------------------------------------------------------------------------
(* due_milestones *)
Due == /\ milestone # Nothing
       /\ ~milestone.done /\ ~milestone.stamp /\ milestone.due <= today
       /\ deal.status \notin CLOSED

BeginSweep(s) ==
  /\ sweep[s] = Nothing
  /\ Due
  /\ sweep' = [sweep EXCEPT ![s] = milestone]
  /\ UNCHANGED <<deal, milestone, today, request, edits, closings, edited, reminded, excused>>

(* The stamp and the notification in one transaction; a milestone deleted   *)
(* since it was read fails it.                                               *)
CommitSweep(s) ==
  /\ sweep[s] # Nothing
  /\ milestone # Nothing
  /\ ~Holding({"milestone", "delete_milestone", "delete"})
  /\ milestone' = [milestone EXCEPT !.stamp = TRUE]
  /\ reminded' = reminded \cup {sweep[s].due}
  /\ excused' = (excused \/ milestone.due # sweep[s].due)
  /\ sweep' = [sweep EXCEPT ![s] = Nothing]
  /\ UNCHANGED <<deal, today, request, edits, closings, edited>>

FailSweep(s) ==
  /\ sweep[s] # Nothing
  /\ sweep' = [sweep EXCEPT ![s] = Nothing]
  /\ UNCHANGED <<deal, milestone, today, request, edits, closings, edited, reminded, excused>>

NextDay ==
  /\ \E d \in Days : today < d
  /\ today' = today + 1
  /\ UNCHANGED <<deal, milestone, request, sweep, edits, closings, edited, reminded, excused>>

Next == \/ \E r \in Requests : Begin(r) \/ Commit(r) \/ Rollback(r)
        \/ \E s \in Sweeps : BeginSweep(s) \/ CommitSweep(s) \/ FailSweep(s)
        \/ NextDay

Spec == Init /\ [][Next]_dealVars

-----------------------------------------------------------------------------
(* A percentage commission is computed on the deal's price, unless the price *)
(* was edited after it (transactions/models.py, "commission_amount = price * *)
(* commission_rate / 100"; update_deal does not derive it again), and a deal *)
(* is closed, with its event, once.                                          *)
MoneyIsSettled ==
  /\ closings <= 1
  /\ deal # Nothing /\ deal.commission # Nothing /\ deal.commission # deal.price => edited

(* A stamp on an open milestone means that its owner was reminded of the     *)
(* date it has now (update_milestone: "so a rescheduled milestone can be     *)
(* reminded again"), unless it was moved under a sweep that had read it, or  *)
(* while it was completed.                                                   *)
StampCoversDate ==
  milestone # Nothing /\ milestone.stamp /\ ~milestone.done =>
    milestone.due \in reminded \/ excused

DealsAreSettled == MoneyIsSettled /\ StampCoversDate
=============================================================================
