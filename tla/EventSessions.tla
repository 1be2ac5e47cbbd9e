--------------------------- MODULE EventSessions ---------------------------
(***************************************************************************)
(* How the events of the game reach a voice bot: the session row and the   *)
(* queue the database keeps for it (event_sessions and pgmq), the bot's    *)
(* PubsubEventAdapter, and the tasks of corporation ships that widen and   *)
(* narrow what the session listens to.                                     *)
(*                                                                         *)
(* An event here is one row for one recipient, numbered in the order its   *)
(* row is inserted; its copy is put in the queue later in the same         *)
(* transaction and is seen when that commits.                              *)
(***************************************************************************)
EXTENDS Integers, FiniteSets, Sequences, SequencesExt

CONSTANTS
  Me,         \* the bot's own character, always listened to
  Ships,      \* ships of its corporation, which run tasks
  Qty,        \* messages read at a time
  Attempts,   \* MAX_DISPATCH_ATTEMPTS
  Budgets     \* bounds of the model: events, calls and faults of an instance

ASSUME NamesAssumption == Ships \cap {Me, "heart", "poll"} = {}
ASSUME ReadAssumption == Qty \in Nat \ {0} /\ Attempts \in Nat \ {0}
ASSUME BudgetAssumption ==
  /\ Budgets \subseteq [events : Nat, tasks : Nat, faults : Nat]
  /\ \E m \in Budgets : \A b \in Budgets : b.events <= m.events

VARIABLES
  row,      \* the session's row in event_sessions
  evs,      \* rows of events, in the order of their ids: to whom, whether an echo
            \* of a bootstrap call, how far (at), and what had committed before (after)
  queue,    \* ids in the order their copies were sent
  mail,     \* mail[i]: where the copy of event i is; tries[i]: its read_ct
  tries,
  phase,    \* how far the adapter has come: new, registered, draining, drained,
            \* replayed, live; or deaf, failed, stopped
  poll,     \* what the poll loop has in hand
  buffer,   \* _catchup_buffer
  desired,  \* ships in _character_ids; pending: _pending_scope_sync
  pending,
  syncs,    \* calls of _update_session_scope in flight, by caller
  task,     \* how far the task of each ship has come
  seen,     \* history: ids dispatched, in order
  lapses,   \* history: what may excuse an event seen twice, late or never
  missed,   \* history: the scope was set while a call carried the old one
  budget    \* bounds left

base == <<row, evs, queue, mail, tries>>
reader == <<phase, poll, buffer, seen>>
scoping == <<desired, pending, syncs, task, missed>>
vars == <<base, reader, scoping, lapses, budget>>

Most == CHOOSE n \in {b.events : b \in Budgets} : \A b \in Budgets : b.events <= n
Ids == 1..Most
Callers == {"heart", "poll"} \cup Ships
Resting == [at |-> "off", batch |-> << >>, acks |-> {}]
Quiet == [at |-> "idle", scope |-> {}]

Init ==
  /\ row = [life |-> "none", hard |-> FALSE, scope |-> {}, allowed |-> Ships]
  /\ evs = << >>
  /\ queue = << >>
  /\ mail = [i \in Ids |-> "none"]
  /\ tries = [i \in Ids |-> 0]
  /\ phase = "new"
  /\ poll = Resting
  /\ buffer = {}
  /\ desired = {}
  /\ pending = FALSE
  /\ syncs = [k \in Callers |-> Quiet]
  /\ task = [s \in Ships |-> "idle"]
  /\ seen = << >>
  /\ lapses = {}
  /\ missed = FALSE
  /\ budget \in Budgets

Fault == budget.faults > 0 /\ budget' = [budget EXCEPT !.faults = @ - 1]
Excused(why) == lapses' = lapses \cup {why}
Online == row.life = "live"
Seen == ToSet(seen)
InIdOrder(S) ==
  CHOOSE s \in [1..Cardinality(S) -> S] : \A m, n \in DOMAIN s : m < n => s[m] < s[n]

(***************************************************************************)
(* The database: an event is recorded, sent to the session if it is online *)
(* and listens to the recipient, and committed. A row whose heartbeats     *)
(* stay away lapses; one past its hard limit lapses for good; lapsed rows  *)
(* are dropped with their queues, which waits for whoever is sending.      *)
(***************************************************************************)
(* While bootstrap calls run, an event may be the echo of one of them. *)
Record(to, echo) ==
  /\ budget.events > 0
  /\ phase /= "new"
  /\ echo => phase = "registered" /\ to = Me
  /\ evs' = Append(evs, [to |-> to, echo |-> echo, at |-> "inserted",
                         after |-> {i \in DOMAIN evs : evs[i].at = "out"}])
  /\ budget' = [budget EXCEPT !.events = @ - 1]
  /\ UNCHANGED <<row, queue, mail, tries, reader, scoping, lapses>>

Send(i) ==
  /\ i \in DOMAIN evs /\ evs[i].at = "inserted"
  /\ evs' = [evs EXCEPT ![i].at = "sent"]
  /\ IF Online /\ evs[i].to \in row.scope \cup {Me}
     THEN queue' = Append(queue, i) /\ mail' = [mail EXCEPT ![i] = "unseen"]
     ELSE UNCHANGED <<queue, mail>>
  /\ UNCHANGED <<row, tries, reader, scoping, lapses, budget>>

Commit(i) ==
  /\ i \in DOMAIN evs /\ evs[i].at = "sent"
  /\ evs' = [evs EXCEPT ![i].at = "out"]
  /\ UNCHANGED <<row, queue, mail, tries, reader, scoping, lapses, budget>>

Lapse(hard) ==
  /\ Online
  /\ IF phase = "deaf" THEN UNCHANGED budget ELSE Fault
  /\ row' = [row EXCEPT !.life = "lapsed", !.hard = hard]
  /\ Excused("outage")
  /\ UNCHANGED <<evs, queue, mail, tries, reader, scoping>>

Dropped == [i \in Ids |-> IF mail[i] \in {"unseen", "held"} THEN "dropped" ELSE mail[i]]

Cleanup ==
  /\ row.life = "lapsed"
  /\ \A i \in ToSet(queue) : evs[i].at = "out"
  /\ row' = [row EXCEPT !.life = "gone"]
  /\ mail' = Dropped
  /\ UNCHANGED <<evs, queue, tries, reader, scoping, lapses, budget>>

(* A ship leaves the corporation, or the player does. *)
Lose(s) ==
  /\ s \in row.allowed /\ Fault
  /\ row' = [row EXCEPT !.allowed = @ \ {s}]
  /\ UNCHANGED <<evs, queue, mail, tries, reader, scoping, lapses>>

(* A copy that was read and not archived can be read again after a while. *)
Reappear(i) ==
  /\ mail[i] = "held"
  /\ i \notin ToSet(poll.batch) \cup poll.acks
  /\ mail' = [mail EXCEPT ![i] = "unseen"]
  /\ UNCHANGED <<row, evs, queue, tries, reader, scoping, lapses, budget>>

(***************************************************************************)
(* Joining: the session is registered before the bootstrap calls, whose    *)
(* echoes are dropped; what else came meanwhile is kept and dispatched     *)
(* before the poll loop starts.                                            *)
(***************************************************************************)
Prepare ==
  /\ phase = "new"
  /\ phase' = "registered"
  /\ row' = [row EXCEPT !.life = "live", !.scope = desired]
  /\ pending' = FALSE
  /\ UNCHANGED <<evs, queue, mail, tries, poll, buffer, seen, desired, syncs, task,
                 missed, lapses, budget>>

\* Mutant of Readable: a copy that was read before is not read again.
Readable_Once(i) == mail[i] = "unseen" /\ evs[i].at = "out" /\ tries[i] = 0

Readable(i) == mail[i] = "unseen" /\ evs[i].at = "out"

\* The first of the queue, as many as are read at a time.
Waiting == {n \in DOMAIN queue : Readable(queue[n])}
NextBatch == {queue[n] : n \in {m \in Waiting : Cardinality(Waiting \cap 1..(m - 1)) < Qty}}
Replied == \A i \in DOMAIN evs : evs[i].echo => evs[i].at = "out"
Kept(batch) == {i \in batch : ~evs[i].echo}

\* Mutant of Drain: the drain does not archive what it keeps.
Drain_Unarchived(late) ==
  /\ phase \in {"registered", "draining"} /\ Online /\ Replied
  /\ LET batch == NextBatch IN
       /\ late => batch /= {}
       /\ mail' = [i \in Ids |-> IF i \in batch THEN "held" ELSE mail[i]]
       /\ tries' = [i \in Ids |-> IF i \in batch THEN tries[i] + 1 ELSE tries[i]]
       /\ buffer' = buffer \cup Kept(batch)
       /\ phase' = IF late \/ batch = {} THEN "drained" ELSE "draining"
  /\ lapses' = IF late THEN lapses \cup {"deadline"} ELSE lapses
  /\ UNCHANGED <<row, evs, queue, poll, seen, scoping, budget>>

(* One read of the drain; it ends when nothing is left, or by its deadline. *)
Drain(late) ==
  /\ phase \in {"registered", "draining"} /\ Online /\ Replied
  /\ LET batch == NextBatch IN
       /\ late => batch /= {}
       /\ mail' = [i \in Ids |-> IF i \in batch THEN "archived" ELSE mail[i]]
       /\ tries' = [i \in Ids |-> IF i \in batch THEN tries[i] + 1 ELSE tries[i]]
       /\ buffer' = buffer \cup Kept(batch)
       /\ phase' = IF late \/ batch = {} THEN "drained" ELSE "draining"
  /\ lapses' = IF late THEN lapses \cup {"deadline"} ELSE lapses
  /\ UNCHANGED <<row, evs, queue, poll, seen, scoping, budget>>

JoinFails ==
  /\ phase \in {"registered", "draining"} /\ ~Online
  /\ phase' = "failed"
  /\ UNCHANGED <<base, poll, buffer, seen, scoping, lapses, budget>>

Replay ==
  /\ phase = "drained"
  /\ seen' = seen \o InIdOrder(buffer)
  /\ buffer' = {}
  /\ phase' = "replayed"
  /\ UNCHANGED <<base, poll, scoping, lapses, budget>>

(* Dispatching raises in the middle of the replay: the join fails with it, *)
(* and the rest, no longer in the buffer nor in the queue, is lost.        *)
ReplayFails ==
  /\ phase = "drained" /\ Fault
  /\ \E n \in 0..(Cardinality(buffer) - 1) : seen' = seen \o SubSeq(InIdOrder(buffer), 1, n)
  /\ buffer' = {}
  /\ phase' = "failed"
  /\ Excused("replay")
  /\ UNCHANGED <<base, poll, scoping>>

\* Mutant of Start: the poll loop starts before what was kept is replayed.
Start_Early ==
  /\ phase = "drained"
  /\ phase' = "live"
  /\ poll' = [poll EXCEPT !.at = "loop"]
  /\ seen' = seen
  /\ UNCHANGED <<base, buffer, scoping, lapses, budget>>

Start ==
  /\ phase = "replayed"
  /\ phase' = "live"
  /\ poll' = [poll EXCEPT !.at = "loop"]
  /\ UNCHANGED <<base, buffer, seen, scoping, lapses, budget>>

Stop ==
  /\ phase \notin {"new", "stopped"}
  /\ \A i \in ToSet(queue) : evs[i].at = "out"
  /\ phase' = "stopped"
  /\ poll' = Resting
  /\ syncs' = [k \in Callers |-> Quiet]
  /\ task' = [s \in Ships |-> "idle"]
  /\ row' = [row EXCEPT !.life = "gone"]
  /\ mail' = Dropped
  /\ UNCHANGED <<evs, queue, tries, buffer, desired, pending, seen, missed, lapses, budget>>

(***************************************************************************)
(* The poll loop: the scope is synchronized, a batch is read, dispatched   *)
(* in the order of the ids, and archived. A call that raises ends the      *)
(* round: the loop connects again and has forgotten the batch.             *)
(***************************************************************************)
Asked(k) == [syncs EXCEPT ![k] = [at |-> "asked", scope |-> {}]]

Round ==
  /\ poll.at = "loop" /\ phase = "live"
  /\ IF pending
     THEN syncs' = Asked("poll") /\ poll' = [poll EXCEPT !.at = "sync"]
     ELSE poll' = [poll EXCEPT !.at = "read"] /\ UNCHANGED syncs
  /\ UNCHANGED <<base, phase, buffer, seen, desired, pending, task, missed, lapses, budget>>

Read ==
  /\ poll.at = "read"
  /\ LET batch == IF Online THEN NextBatch ELSE {} IN
       /\ mail' = [i \in Ids |-> IF i \in batch THEN "held" ELSE mail[i]]
       /\ tries' = [i \in Ids |-> IF i \in batch THEN tries[i] + 1 ELSE tries[i]]
       /\ poll' = [at |-> IF batch = {} THEN "loop" ELSE "batch",
                   batch |-> InIdOrder(batch), acks |-> {}]
  /\ UNCHANGED <<row, evs, queue, phase, buffer, seen, scoping, lapses, budget>>

Dispatch ==
  /\ poll.at = "batch" /\ poll.batch /= << >>
  /\ seen' = Append(seen, Head(poll.batch))
  /\ poll' = [poll EXCEPT !.batch = Tail(@), !.acks = @ \cup {Head(poll.batch)}]
  /\ UNCHANGED <<base, phase, buffer, scoping, lapses, budget>>

\* Mutant of GivenUp: a copy is given up one attempt too soon.
GivenUp_Early(i) == tries[i] + 1 >= Attempts

(* Dispatching raises: the copy is left to be read again, or given up. *)
GivenUp(i) == tries[i] >= Attempts

DispatchFails ==
  /\ poll.at = "batch" /\ poll.batch /= << >> /\ Fault
  /\ LET i == Head(poll.batch) IN
       poll' = [poll EXCEPT !.batch = Tail(@), !.acks = IF GivenUp(i) THEN @ \cup {i} ELSE @]
  /\ Excused("dispatch")
  /\ UNCHANGED <<base, phase, buffer, seen, scoping>>

BatchDone == poll.at = "batch" /\ poll.batch = << >>
Again == [at |-> "loop", batch |-> << >>, acks |-> {}]

Archive ==
  /\ BatchDone /\ (poll.acks = {} \/ Online)
  /\ mail' = [i \in Ids |-> IF i \in poll.acks THEN "archived" ELSE mail[i]]
  /\ poll' = Again
  /\ UNCHANGED <<row, evs, queue, tries, phase, buffer, seen, scoping, lapses, budget>>

ArchiveFails ==
  /\ BatchDone /\ poll.acks /= {}
  /\ IF Online THEN Fault ELSE UNCHANGED budget
  /\ poll' = Again
  /\ Excused("archive")
  /\ UNCHANGED <<base, phase, buffer, seen, scoping>>

(***************************************************************************)
(* The scope: set in memory at once, and carried to the row by whoever     *)
(* synchronizes first. A call takes the scope once it is connected, and    *)
(* takes the mark off when it is answered.                                 *)
(***************************************************************************)
Carried == \E k \in Callers : syncs[k].at \in {"sent", "applied"}
Children == {s \in Ships : task[s] \in {"child", "running"}}

\* Mutant of SetScope: setting the scope leaves the mark as it is.
SetScope_Unmarked(S) ==
  /\ desired' = S
  /\ UNCHANGED pending
  /\ missed' = Carried

SetScope(S) ==
  /\ desired' = S
  /\ pending' = TRUE
  /\ missed' = Carried

Heartbeat ==
  /\ phase \notin {"new", "deaf", "stopped"} /\ row.life \in {"live", "lapsed"} /\ ~row.hard
  /\ syncs["heart"] = Quiet
  /\ row' = [row EXCEPT !.life = "live"]
  /\ syncs' = IF pending THEN Asked("heart") ELSE syncs
  /\ UNCHANGED <<evs, queue, mail, tries, reader, desired, pending, task, missed,
                 lapses, budget>>

Capture(k) ==
  /\ syncs[k].at = "asked"
  /\ syncs' = [syncs EXCEPT ![k] = [at |-> "sent", scope |-> desired]]
  /\ UNCHANGED <<base, reader, desired, pending, task, missed, lapses, budget>>

Apply(k) ==
  /\ syncs[k].at = "sent" /\ Online /\ syncs[k].scope \subseteq row.allowed
  /\ row' = [row EXCEPT !.scope = syncs[k].scope]
  /\ syncs' = [syncs EXCEPT ![k].at = "applied"]
  /\ UNCHANGED <<evs, queue, mail, tries, reader, desired, pending, task, missed,
                 lapses, budget>>

Answered(k) ==
  /\ syncs[k].at = "applied"
  /\ pending' = FALSE
  /\ syncs' = [syncs EXCEPT ![k] = Quiet]
  /\ poll' = IF k = "poll" THEN [poll EXCEPT !.at = "read"] ELSE poll
  /\ task' = IF k \in Ships THEN [task EXCEPT ![k] = "launched"] ELSE task
  /\ UNCHANGED <<base, phase, buffer, seen, desired, missed, lapses, budget>>

\* Mutant of GivesUp: a call that fails takes the mark off too.
GivesUp_Forgets(k) ==
  /\ syncs' = [syncs EXCEPT ![k] = Quiet]
  /\ poll' = IF k = "poll" THEN Again ELSE poll
  /\ task' = IF k \in Ships THEN [task EXCEPT ![k] = "idle"] ELSE task
  /\ pending' = FALSE
  /\ UNCHANGED <<base, buffer, seen, desired, missed>>

(* Whoever called gives up: the loops go round, a start is not made. *)
GivesUp(k) ==
  /\ syncs' = [syncs EXCEPT ![k] = Quiet]
  /\ poll' = IF k = "poll" THEN Again ELSE poll
  /\ task' = IF k \in Ships THEN [task EXCEPT ![k] = "idle"] ELSE task
  /\ UNCHANGED <<base, buffer, seen, desired, pending, missed>>

SyncFails(k) ==
  /\ syncs[k].at /= "idle"
  /\ IF syncs[k].at = "sent" /\ ~Online THEN UNCHANGED budget ELSE Fault
  /\ GivesUp(k)
  /\ UNCHANGED <<phase, lapses>>

(* A ship the bot may no longer hear is taken for a misconfiguration, and  *)
(* ends both loops for good.                                               *)
Refused(k) ==
  /\ syncs[k].at = "sent" /\ Online /\ ~(syncs[k].scope \subseteq row.allowed)
  /\ GivesUp(k)
  /\ phase' = IF k \in Ships THEN phase ELSE "deaf"
  /\ UNCHANGED <<lapses, budget>>

(***************************************************************************)
(* A task of a ship: the scope is widened and synchronized, the start is   *)
(* announced, the agent is added, reports ready, and ends; being ready and *)
(* ending set the scope to the ships of the agents there are.              *)
(***************************************************************************)
StartTask(s) ==
  /\ phase \in {"live", "deaf"} /\ task[s] = "idle" /\ budget.tasks > 0
  /\ task' = [task EXCEPT ![s] = "starting"]
  /\ SetScope(Children \cup {s})
  /\ syncs' = Asked(s)
  /\ budget' = [budget EXCEPT !.tasks = @ - 1]
  /\ UNCHANGED <<base, reader, lapses>>

(* The server refuses the start, the agent is added, or it cannot be. *)
Launch(s, added) ==
  /\ task[s] = "launched"
  /\ task' = [task EXCEPT ![s] = IF added THEN "child" ELSE "idle"]
  /\ UNCHANGED <<base, reader, desired, pending, syncs, missed, lapses, budget>>

Ready(s) ==
  /\ task[s] = "child"
  /\ task' = [task EXCEPT ![s] = "running"]
  /\ SetScope(Children)
  /\ UNCHANGED <<base, reader, syncs, lapses, budget>>

EndTask(s) ==
  /\ task[s] \in {"child", "running"}
  /\ task' = [task EXCEPT ![s] = "idle"]
  /\ SetScope(Children \ {s})
  /\ UNCHANGED <<base, reader, syncs, lapses, budget>>

Events ==
  \/ \E to \in Ships \cup {Me}, echo \in BOOLEAN : Record(to, echo)
  \/ \E i \in Ids : Send(i) \/ Commit(i)
Database == \E hard \in BOOLEAN : Lapse(hard)
Joining == Prepare \/ (\E late \in BOOLEAN : Drain(late)) \/ JoinFails \/ Replay \/ ReplayFails \/ Start
Polling == Round \/ Read \/ Dispatch \/ Archive
Syncing == \E k \in Callers : Capture(k) \/ Apply(k) \/ Answered(k) \/ Refused(k)
Tasks == \E s \in Ships :
  StartTask(s) \/ Ready(s) \/ EndTask(s) \/ (\E added \in BOOLEAN : Launch(s, added))

Next ==
  \/ Events \/ Database \/ Cleanup \/ (\E s \in Ships : Lose(s))
  \/ \E i \in Ids : Reappear(i)
  \/ Joining \/ Stop \/ Polling \/ DispatchFails \/ ArchiveFails
  \/ Heartbeat \/ Syncing \/ (\E k \in Callers : SyncFails(k)) \/ Tasks

Spec == Init /\ [][Next]_vars

(* The bot goes on joining, polling and waiting for its calls, a           *)
(* transaction that records an event goes on to its end, and the queue     *)
(* shows again what was not archived.                                      *)
FairSpec ==
  /\ Spec
  /\ \A i \in Ids : WF_vars(Send(i) \/ Commit(i)) /\ WF_vars(Reappear(i))
  /\ WF_vars(Drain(FALSE) \/ Replay \/ Start \/ JoinFails)
  /\ WF_vars(Polling \/ ArchiveFails)
  /\ \A k \in Callers : WF_vars(Capture(k) \/ Apply(k) \/ Answered(k) \/ Refused(k) \/ SyncFails(k))

(***************************************************************************)
(* Properties.                                                             *)
(***************************************************************************)
(* A copy leaves the queue for the archive only when its event has been    *)
(* dispatched or is kept for the replay, is an echo of the bootstrap, or   *)
(* has failed as often as the code allows (pubsub.py, the poll and the     *)
(* drain); only a replay that raises loses what it had not dispatched.     *)
NothingLost == \A i \in Ids :
  mail[i] = "archived" =>
    \/ i \in Seen \cup buffer \/ evs[i].echo
    \/ tries[i] >= Attempts \/ "replay" \in lapses

(* An event is put in the queue once, and the bot hears it twice only when *)
(* an archive failed after it was dispatched: what the drain took is not   *)
(* read again by the poll loop. Nor do the answers of the bootstrap calls  *)
(* come a second time as events, unless the drain was cut short by its     *)
(* deadline.                                                               *)
HeardOnce ==
  /\ IsInjective(queue)
  /\ IsInjective(seen) \/ "archive" \in lapses
  /\ (\E i \in Seen : evs[i].echo) => "deadline" \in lapses

(* As long as nothing fails, an event recorded after another had committed *)
(* is dispatched after it, across the drain, the replay and the poll loop. *)
InOrder == lapses \subseteq {"deadline"} =>
  \A p \in DOMAIN seen : \A i \in evs[seen[p]].after :
    mail[i] \in {"none", "dropped"} \/ evs[i].echo \/ \E q \in 1..(p - 1) : seen[q] = i

(* When a task of a ship is announced the row already listens to the ship  *)
(* (what _sync_polling_scope_for_task_start is awaited for); and when no   *)
(* call is in flight and nothing is left to synchronize, it listens to     *)
(* what was set last. Excepted is a scope set again meanwhile, or while an *)
(* older one was on its way.                                               *)
ScopeAgrees ==
  /\ \A s \in Ships :
       task[s] = "launched" /\ s \in desired /\ ~missed => s \in row.scope
  /\ ~pending /\ ~missed /\ (\A k \in Callers : syncs[k] = Quiet) => row.scope = desired

Over == phase \in {"deaf", "failed", "stopped"} \/ ~Online

(* A copy put in the queue is in the end dispatched, dropped as an echo or *)
(* given up, unless the session lapses, is refused or is stopped.          *)
Delivered == \A i \in Ids : mail[i] = "unseen" ~> mail[i] = "archived" \/ Over

(* The ship of a running task is listened to in the end, with the same     *)
(* exceptions, or when its scope was lost to a call in flight.             *)
Listens == \A s \in Ships :
  task[s] = "running" /\ s \in desired ~>
    s \in row.scope \/ missed \/ task[s] /= "running" \/ Over
=============================================================================
