------------------------------- MODULE Quests -------------------------------
(***************************************************************************)
(* One player's progress in one quest. Every row put into the event log    *)
(* runs evaluate_quest_progress in a trigger, in the transaction of        *)
(* whoever records the event; a new step's row runs it again for the       *)
(* player's oldest events. The player's own ship and the corporation's     *)
(* ships fly at the same time, so several such transactions run at once.   *)
(*                                                                         *)
(* They run at READ COMMITTED: a statement sees what is committed when it  *)
(* starts and what its own transaction wrote; an UPDATE waits for the      *)
(* transaction that wrote the row before, and then writes the columns it   *)
(* was given. What a transaction has written and not committed is its      *)
(* draft here, and the rows of its draft are the rows it has locked.       *)
(***************************************************************************)
EXTENDS Naturals, FiniteSets, SequencesExt

CONSTANTS
  Txns,      \* database sessions
  Kinds,     \* kinds of events, as far as types and filters tell them apart
  Heard,     \* Heard[s]: the kinds of the event types step s subscribes to
  Passing,   \* Passing[s]: those of them that pass the step's payload filter
  Target,    \* Target[s]: the number of events that complete step s
  Limit,     \* how many past events a new step replays (50)
  MaxEvents, \* bound of the model: events recorded
  MaxClaims, \* bound of the model: claims
  MaxFaults  \* bound of the model: evaluations that fail, sessions that die

Final == Len(Heard)
Steps == 1..Final

ASSUME QuestAssumption ==
  /\ Heard \in Seq(SUBSET Kinds) /\ Final > 0
  /\ Passing \in [Steps -> SUBSET Kinds]
  /\ \A s \in Steps : Passing[s] \subseteq Heard[s]
  /\ Target \in [Steps -> Nat \ {0}]
  /\ Limit \in Nat

VARIABLES
  events,    \* the types of the events, by id (a sequence: ids are given once)
  committed, \* the ids of the events that are in the log
  quest,     \* the player's row in player_quests
  rows,      \* the rows in player_quest_steps
  applied,   \* quest_progress_events: pairs of an event and a step
  txns,      \* the sessions: where they are and what they have drafted
  paid,      \* rewards granted for each step
  claims, faults, \* bounds
  stale,     \* history: steps whose count was written over a newer one
  before,    \* history: the log, and the events under way, when a step began
  skipped    \* history: events whose evaluation failed

history == <<stale, before, skipped>>
vars == <<events, committed, quest, rows, applied, txns, paid, claims, faults, history>>

Unassigned == [status |-> "none", step |-> 0]
Fresh(s) == [step |-> s, val |-> 0, done |-> FALSE, claimed |-> FALSE]
NoRow == [id |-> 0, step |-> 0, val |-> 0]

NoDraft == [quest |-> Unassigned, rows |-> << >>, applied |-> {}]
Resting == [pc |-> "idle", event |-> 0, todo |-> << >>, read |-> NoRow, draft |-> NoDraft]

\* The table f with row r as written, and the table g under the draft f.
Put(f, r, row) == [x \in DOMAIN f \cup {r} |-> IF x = r THEN row ELSE f[x]]
Over(f, g) == [x \in DOMAIN f \cup DOMAIN g |-> IF x \in DOMAIN f THEN f[x] ELSE g[x]]

\* What a statement of session t sees.
QuestOf(t) ==
  IF txns[t].draft.quest = Unassigned THEN quest ELSE txns[t].draft.quest
RowsOf(t) == Over(txns[t].draft.rows, rows)
LogOf(t) == committed \cup ({txns[t].event} \ {0})

Others(t) == Txns \ {t}
RowFree(t, r) == \A u \in Others(t) : r \notin DOMAIN txns[u].draft.rows
QuestFree(t) == \A u \in Others(t) : txns[u].draft.quest = Unassigned
NewId == 1 + Cardinality(DOMAIN rows \cup UNION {DOMAIN txns[t].draft.rows : t \in Txns})

-----------------------------------------------------------------------------
(* The work of evaluate_quest_progress: pairs of an event and a step that  *)
(* subscribes to it.                                                       *)

\* Evaluations go by the ids of the events, and for one event by its steps.
Earlier(a, b) == a[1] < b[1] \/ (a[1] = b[1] /\ a[2] < b[2])
Arranged(pairs) ==
  CHOOSE q \in [1..Cardinality(pairs) -> pairs] :
    \A m, n \in DOMAIN q : m < n => Earlier(q[m], q[n])

Subscribed(e, kind) == Arranged({p \in {e} \X Steps : kind \in Heard[p[2]]})

\* Mutant: a new step starts at nothing, as it did before there was a catch-up.
CatchUp_None(s, log) == << >>

\* The player's oldest events of the step's types, whether they pass its filter
\* or not, as the log is when the step begins (catch_up_new_quest_step).
CatchUp(s, log) ==
  LET asked == {e \in log : events[e] \in Heard[s]}
      oldest == {e \in asked : Cardinality({d \in asked : d <= e}) <= Limit}
  IN Arranged({p \in oldest \X Steps : events[p[1]] \in Heard[p[2]]})

\* History: the log a step's catch-up read, and, when its row is committed, the
\* events that were recorded without seeing the row.
Begins(s, t) == [before EXCEPT ![s] = [log |-> LogOf(t), flying |-> {}]]
Begun(t) ==
  LET drafted == txns[t].draft.rows
      new == {drafted[r].step : r \in DOMAIN drafted \ DOMAIN rows}
  IN [s \in Steps |->
        IF s \in new THEN [before[s] EXCEPT !.flying = DOMAIN events \ before[s].log]
        ELSE before[s]]

-----------------------------------------------------------------------------
Init ==
  /\ events = << >> /\ committed = {}
  /\ quest = Unassigned /\ rows = << >> /\ applied = {}
  /\ txns = [t \in Txns |-> Resting]
  /\ paid = [s \in Steps |-> 0]
  /\ claims = 0 /\ faults = 0
  /\ stale = {} /\ skipped = {}
  /\ before = [s \in Steps |-> [log |-> {}, flying |-> {}]]

\* A game function records an event of the player's; the trigger runs.
Record(t, kind) ==
  /\ txns[t].pc = "idle"
  /\ Len(events) < MaxEvents
  /\ LET e == Len(events) + 1 IN
     /\ events' = Append(events, kind)
     /\ txns' = [txns EXCEPT ![t] =
          [Resting EXCEPT !.pc = "look", !.event = e, !.todo = Subscribed(e, kind)]]
  /\ UNCHANGED <<committed, quest, rows, applied, paid, claims, faults, history>>

\* The quest and its first step, which catches up at once.
Assigned(t) ==
  /\ txns' = [txns EXCEPT ![t] =
       [Resting EXCEPT !.pc = "look", !.todo = CatchUp(1, committed),
          !.draft = [NoDraft EXCEPT !.quest = [status |-> "active", step |-> 1],
                                    !.rows = Put(@, NewId, Fresh(1))]]]
  /\ before' = Begins(1, t)
  /\ UNCHANGED <<events, committed, quest, rows, applied, paid, claims, faults, stale, skipped>>

\* Mutant: nothing keeps a quest from being assigned again.
Assign_Again(t) ==
  /\ txns[t].pc = "idle"
  /\ QuestFree(t)
  /\ Assigned(t)

\* assign_quest: refused when the player has the quest; another session that
\* is assigning it is waited for, and then the unique key refuses.
Assign(t) ==
  /\ txns[t].pc = "idle"
  /\ quest = Unassigned
  /\ QuestFree(t)
  /\ Assigned(t)

\* The step's open row, if the step is the current one of an active quest.
Candidates(t, s) ==
  IF QuestOf(t) = [status |-> "active", step |-> s]
  THEN {r \in DOMAIN RowsOf(t) : RowsOf(t)[r].step = s /\ ~RowsOf(t)[r].done}
  ELSE {}

\* Mutant: an event counts each time it comes by.
Seen_Never(t, e, s) == FALSE

\* The unique key of quest_progress_events; a key that another session has
\* drafted cannot be met here, as only sessions that see one row draft it.
Seen(t, e, s) == <<e, s>> \in applied \cup txns[t].draft.applied

\* Nothing to count: the step is not current, or does not want this event, or
\* has had it.
Pass(t) ==
  LET x == txns[t] IN
  /\ x.pc = "look" /\ x.todo # << >>
  /\ LET e == Head(x.todo)[1]
         s == Head(x.todo)[2]
     IN Candidates(t, s) = {} \/ events[e] \notin Passing[s] \/ Seen(t, e, s)
  /\ txns' = [txns EXCEPT ![t].todo = Tail(@)]
  /\ UNCHANGED <<events, committed, quest, rows, applied, paid, claims, faults, history>>

\* The row is read, and the event entered as applied. If there are two rows
\* (see CountsAgree), either may come.
Look(t) ==
  LET x == txns[t] IN
  /\ x.pc = "look" /\ x.todo # << >>
  /\ LET e == Head(x.todo)[1]
         s == Head(x.todo)[2]
     IN
     /\ events[e] \in Passing[s] /\ ~Seen(t, e, s)
     /\ \E r \in Candidates(t, s) :
          txns' = [txns EXCEPT
            ![t].pc = "count",
            ![t].read = [id |-> r, step |-> s, val |-> RowsOf(t)[r].val],
            ![t].draft.applied = @ \cup {<<e, s>>}]
  /\ UNCHANGED <<events, committed, quest, rows, applied, paid, claims, faults, history>>

\* The count read, plus one, is written over whatever the row has by then.
Count(t) ==
  LET x == txns[t]
      r == x.read.id
      row == RowsOf(t)[r]
      full == x.read.val + 1 >= Target[x.read.step]
  IN
  /\ x.pc = "count"
  /\ RowFree(t, r)
  /\ txns' = [txns EXCEPT
       ![t].pc = IF full THEN "advance" ELSE "look",
       ![t].todo = IF full THEN @ ELSE Tail(@),
       ![t].draft.rows = Put(@, r, [row EXCEPT !.val = x.read.val + 1, !.done = @ \/ full])]
  /\ stale' = IF row.val = x.read.val /\ ~row.done THEN stale
              ELSE stale \cup {x.read.step}
  /\ UNCHANGED <<events, committed, quest, rows, applied, paid, claims, faults, before, skipped>>

\* The step is complete: the quest moves to the step after the one read, whose
\* new row catches up before anything else is evaluated.
Advance(t) ==
  LET x == txns[t]
      s == x.read.step
  IN
  /\ x.pc = "advance"
  /\ QuestFree(t)
  /\ IF s < Final
     THEN /\ txns' = [txns EXCEPT
               ![t].pc = "look",
               ![t].todo = CatchUp(s + 1, LogOf(t)) \o Tail(@),
               ![t].draft.quest = [QuestOf(t) EXCEPT !.step = s + 1],
               ![t].draft.rows = Put(@, NewId, Fresh(s + 1))]
          /\ before' = Begins(s + 1, t)
     ELSE /\ txns' = [txns EXCEPT
               ![t].pc = "look",
               ![t].todo = Tail(@),
               ![t].draft.quest = [QuestOf(t) EXCEPT !.status = "completed"]]
          /\ UNCHANGED before
  /\ UNCHANGED <<events, committed, quest, rows, applied, paid, claims, faults, stale, skipped>>

Commit(t) ==
  LET x == txns[t] IN
  /\ x.pc = "look" /\ x.todo = << >>
  /\ committed' = LogOf(t)
  /\ quest' = QuestOf(t)
  /\ rows' = RowsOf(t)
  /\ applied' = applied \cup x.draft.applied
  /\ txns' = [txns EXCEPT ![t] = Resting]
  /\ before' = Begun(t)
  /\ UNCHANGED <<events, paid, claims, faults, stale, skipped>>

\* An evaluation raises an error: the trigger catches it, which undoes the
\* evaluation and keeps the event.
Swallow(t) ==
  LET x == txns[t] IN
  /\ faults < MaxFaults
  /\ x.event # 0 /\ (x.pc = "look" => x.todo # << >>)
  /\ faults' = faults + 1
  /\ skipped' = skipped \cup {x.event}
  /\ txns' = [txns EXCEPT ![t] = [Resting EXCEPT !.pc = "look", !.event = x.event]]
  /\ UNCHANGED <<events, committed, quest, rows, applied, paid, claims, stale, before>>

\* The session dies, or the assignment raises an error: nothing of it stays.
Abort(t) ==
  /\ faults < MaxFaults
  /\ txns[t].pc # "idle"
  /\ faults' = faults + 1
  /\ txns' = [txns EXCEPT ![t] = Resting]
  /\ UNCHANGED <<events, committed, quest, rows, applied, paid, claims, history>>

-----------------------------------------------------------------------------
(* claim_quest_step_reward *)

\* Mutant: the row is read without FOR UPDATE.
LockStep_Unlocked(t, r) ==
  /\ txns[t].pc = "idle"
  /\ claims < MaxClaims
  /\ rows[r].done /\ ~rows[r].claimed
  /\ claims' = claims + 1
  /\ txns' = [txns EXCEPT ![t] =
       [Resting EXCEPT !.pc = "grant", !.read = [id |-> r, step |-> rows[r].step, val |-> rows[r].val]]]
  /\ UNCHANGED <<events, committed, quest, rows, applied, paid, faults, history>>

\* The row is locked and, once it is, must be complete and not claimed.
LockStep(t, r) ==
  /\ txns[t].pc = "idle"
  /\ claims < MaxClaims
  /\ RowFree(t, r)
  /\ rows[r].done /\ ~rows[r].claimed
  /\ claims' = claims + 1
  /\ txns' = [txns EXCEPT ![t] =
       [Resting EXCEPT !.pc = "grant",
                       !.read = [id |-> r, step |-> rows[r].step, val |-> rows[r].val],
                       !.draft = [NoDraft EXCEPT !.rows = Put(@, r, rows[r])]]]
  /\ UNCHANGED <<events, committed, quest, rows, applied, paid, faults, history>>

\* The ship's credits grow by the reward, in one statement, and the row is
\* marked, in one transaction.
Grant(t) ==
  LET x == txns[t] IN
  /\ x.pc = "grant"
  /\ paid' = [paid EXCEPT ![x.read.step] = @ + 1]
  /\ rows' = [rows EXCEPT ![x.read.id].claimed = TRUE]
  /\ txns' = [txns EXCEPT ![t] = Resting]
  /\ UNCHANGED <<events, committed, quest, applied, claims, faults, history>>

TxnStep(t) ==
  \/ \E kind \in Kinds : Record(t, kind)
  \/ Assign(t) \/ Pass(t) \/ Look(t) \/ Count(t) \/ Advance(t) \/ Commit(t)
  \/ Swallow(t) \/ Abort(t)
  \/ \E r \in DOMAIN rows : LockStep(t, r)
  \/ Grant(t)

Next == \E t \in Txns : TxnStep(t)

Spec == Init /\ [][Next]_vars

-----------------------------------------------------------------------------
(* Properties. *)

RowsFor(s) == {r \in DOMAIN rows : rows[r].step = s}
AppliedTo(s) == {e \in committed : <<e, s>> \in applied}

\* The count of this step, and of the steps before it, was never written over
\* a newer one.
Undisturbed(s) == \A p \in stale : p > s

\* A step has one row, and its count is the number of events entered for it in
\* quest_progress_events: up to the target, which completes it, and no event
\* twice, though an event comes by in its own trigger and in every catch-up.
\* The exception is a step, or one after it, whose row two transactions had
\* read before either wrote: evaluate_quest_progress takes no lock before its
\* UPDATE (20260408000000_quest_evaluate_resync.sql:59).
CountsAgree ==
  \A s \in Steps : Undisturbed(s) =>
    /\ Cardinality(RowsFor(s)) <= 1
    /\ \A r \in RowsFor(s) :
         /\ rows[r].val = Cardinality(AppliedTo(s))
         /\ rows[r].val <= Target[s]
         /\ rows[r].done <=> rows[r].val = Target[s]

\* A quest goes through its steps in order and never back: not when it is
\* assigned again, nor when a catch-up completes several steps at once. Only a
\* count written over a newer one takes it back, since the step it moves to is
\* computed from the one read.
NeverBack ==
  [][stale' = {} =>
       /\ quest'.step >= quest.step
       /\ quest.status = "completed" => quest' = quest
       /\ quest.status = "active" => quest'.status # "none"]_vars

\* An event the current step asks for counts, whether it came before the step
\* or after: a step cannot be stuck because its condition was met too early
\* (20260226100000_quest_assign_catchup.sql). The exceptions are an event that
\* was being recorded while the step was made, so that neither saw the other; the
\* past events beyond the limit; and those whose evaluation failed.
NothingMissed ==
  quest.status = "active" /\ stale = {} =>
    \A e \in committed :
      LET s == quest.step
          past == {d \in before[s].log : d <= e /\ events[d] \in Heard[s]}
      IN
      \/ events[e] \notin Passing[s]
      \/ <<e, s>> \in applied
      \/ e \in before[s].flying
      \/ e \in before[s].log /\ Cardinality(past) > Limit
      \/ e \in skipped

\* A row's reward is granted when the step is complete, once, however many
\* claims for it run at the same time; so is a step's, unless the step has two
\* rows.
RewardsOnce ==
  \A s \in Steps :
    /\ paid[s] = Cardinality({r \in RowsFor(s) : rows[r].claimed})
    /\ \A r \in RowsFor(s) : rows[r].claimed => rows[r].done
    /\ Undisturbed(s) => paid[s] <= 1
=============================================================================
