# Gradient Bang, specified

TLA+ models of the game server of Gradient Bang, their TLC runs, and theorems
about them checked by TLAPS. Paths below are relative to `src/`; `F/` stands for
`deployment/supabase/functions/`, `S/` for `F/_shared/`, `M/` for
`deployment/supabase/migrations/`.

The server is a set of edge functions in TypeScript around one Postgres
database. A function has no state of its own between calls. Most of them read
some rows, compute, and write rows back, through a REST client in which every
statement is its own transaction. Few take locks. A function may be killed at
any point (time limit, deployment, worker restart), its callers retry, cron jobs
call the same code, and nothing orders two calls that arrive together. That is
where the program is hard to test, and what these models are about: each
function is cut at its awaits, and the pieces interleave freely.

## 1. Inventory

State and operations of every part; `PROJECT.json` lists the same parts with
their sources and what is modelled of each.

| Part | State it keeps | Operations | What is hard | What makes it correct |
|---|---|---|---|---|
| Combat column (`S/combat_state.ts`, `M/20260429000000_combat_state_cas.sql`) | one JSON value per sector, `sector_contents.combat`: round, participants, pending actions, toll registry, salvage waiting for the end; `last_updated` and `resolving_started_at` in it | load, compare-and-swap on `last_updated`, mark, list the due | no lock; the mark is advisory and times out; a write may come from a copy loaded seconds ago | no write undoes another |
| Round resolution (`S/combat_resolution.ts`, `S/combat_engine.ts`, `S/combat_garrison.ts`, `F/combat_tick`) | a copy of the column in memory | enter, resolve, flush to the tables, move those who fled, eject the wrecks, drop salvage, leave | a dozen awaits between first and last write; overlapping ticks; being killed | a round happens once, from the actions accepted for it |
| Finalization (`S/combat_finalization.ts`, `S/combat_flee.ts`) | rows of ships and garrisons, the sector's salvage | capture, convert to escape pod, drop, delete garrison | partial failure between "capture", "wipe the hold", "drop" | cargo neither lost nor doubled |
| Combat requests (`F/combat_initiate`, `F/combat_action`) | a pending action; credits, for a toll | start, choose, pay, resolve if all have chosen | payment and record are two writes | charged once for a peace that holds |
| Garrison auto-engage, joining (`S/garrison_combat.ts`, end of `F/move`) | participants | engage an arrival, join a fight in progress | waits for the mark, retries, gives up | nobody shoots at, or is, somebody who is not there |
| Port and trade (`F/trade`, `S/trading.ts`, `S/pg_queries.ts`, `M/20251117030000_create_port_admin_procedures.sql`) | `ports`: stock, version; the ship's hold and purse | trade, regenerate, reset | optimistic version with retries; the ship's row has no version | stock exact, price current |
| Purses and bank (`F/transfer_credits`, `F/bank_transfer`, `F/ship_sell`, `F/recharge_warp_power`, `F/purchase_fighters`) | credits of ships, credits in the bank, warp power, fighters | transfer, deposit, withdraw, sell, buy | absolute writes of stale balances; two statements without a transaction; results not looked at | credits are neither made nor lost |
| Salvage (`S/salvage.ts`, `F/salvage_collect`, `F/dump_cargo`) | a JSON list per sector | append, claim, take, settle | the whole list is read and written | a container is had once |
| Garrison ledger (`S/garrison_transactions.ts`, `F/combat_leave_fighters`, `F/combat_collect_fighters`, `F/combat_disband_garrison`, `F/combat_set_garrison_mode`) | `garrisons`: fighters, mode, toll balance | leave, collect (advisory locks), disband, set mode, and the rounds that overwrite the row | two disciplines on one row | fighters and tolls conserved |
| Movement (`F/move`, `S/movement.ts`, `S/map.ts`) | sector, `in_hyperspace`, warp power | start, arrive, recover a stuck ship, clean up | a function that sleeps for the flight; recovery by another call while it still runs | a ship is in one place, and arrives |
| Corporations (`S/corporations.ts`, `F/corporation_*`), ship purchase | membership, founder, ships, limits | create, join, leave, kick, buy | last member leaving; limit under an advisory lock | one corporation per pilot; limit kept |
| Quests (`M/2026*_quest_*.sql`, `F/quest_*`) | progress per step, rewards | assign, evaluate on event, claim | triggers; replays | reward claimed once |
| Event log, sessions (`S/events.ts`, `M/20260515020000_*`, `game/transport/*.py`) | events, recipients, queues per session | record, fan out, poll, heartbeat, prune | soft expiry against fanout | an addressee gets each event |
| Subagent bus, BYOA (`M/20260512000000_*`, `M/20260515030000_*`, `runtime/byoa_coordinator.py`, `runtime/bus_transport/pgmq.py`) | peers, leases, queues | wake, register, renew, clean up | leases against a sleeping process | one agent for a ship |
| Task lifecycle (`F/task_lifecycle`, `F/task_cancel`, `runtime/subagents/task_agent.py`) | task events | start, finish, cancel | best-effort guards | one task per ship |
| Voice bot (`runtime/orchestrator.py`, `runtime/event_relay.py`, `runtime/inference_gate.py`) | deferred events, the gate | pipeline around language models | callbacks, priorities | events reach the model once |
| Strategies, accounts, maps, clients, newspaper, NPCs | rows of single owners; static graph; user interface | single statements, searches, rendering | little | not modelled |

How they meet: `move` brings a ship into a sector and, in the same call, into a
fight. A fight's rounds write ships, garrisons and the sector's salvage.
`salvage_collect` and `dump_cargo` write ships and salvage, `trade` and the purse
functions write ships. All of them write the same rows of `ship_instances`, each
from its own reading. Every function emits events, which only clients read.

`PROJECT.json` lists the hazards, each at its line with the properties that would
catch it. The hazards without a property are behaviour the source does not promise
against; their notes say what the models do there.

## 2. Modules

```
CombatRules              what one round does to one encounter (operators)
  CombatEncounter        the column, the requests, the ticks, the resolutions
    EncounterRefinement  maps it to AtomicEncounter
      CombatEncounterProofs    any overlap and any crash: the column, the rounds, the
                               wrecks, the tables, and then the mapping
  AtomicEncounter        the fight as one object: what the column promises
GarrisonLedger           fighters and tolls in garrisons, and who moves them
SalvageField             a sector's salvage and its three writers
  SectorProofs           about both: what lies in a sector besides its fight
PortTrade                the port's row and the trade function
  ShipAccounts           adds purses, bank and sale, and composes the two
    ShipAccountsProofs
Hyperspace               jumps, their recovery, and warp power
  HyperspaceProofs
Corporation              members, founders, ships and claims
  CorporationProofs
EventSessions            the way of an event to a bot, and what a bot listens to
  EventSessionsProofs
Quests                   progress, catch-up and rewards
  QuestsProofs
Sums                     lemmas about sums over finite sets and about listing them
                         in an order, for the proofs
MCEncounter, MCGarrison, MCAccounts, MCSalvage, MCHyperspace, MCCorporation,
MCEvents, MCQuests       instances for TLC
```

### Combat

`CombatRules` has the decisions of `resolveRound` and of the code around it: who
has fled, who shoots, who is dead, the end state, the toll's stand-down, what the
encounter looks like after the round. A fighter count is "has fighters" (`live`)
or not. Which of those shot at come through depends on counts, shields and a hash
of `base_seed` and the round; here it is `luck`, a part of the encounter, so that
resolving one blob twice gives the same result, as in the code. The set of
outcomes is larger than the engine's: anybody may die once anybody shoots.
Corporation mates and former mates on one side are left out (everybody is on a
side of its own), and there is at most one garrison, in toll mode, which is the
mode with state.

`CombatEncounter` has one action per piece of work between awaits:

| Actions | Code |
|---|---|
| `Arrive` `Look` `GiveUpJoin` `WaitOut` `Join` `RetryJoin` `AutoEngage` | end of `completeMovement`, `joinExistingCombat`, `checkGarrisonAutoEngage` |
| `Initiate` `StartFight` `Reinforce` `EngageConflict` | `handleCombatInitiate`, `initiateGarrisonCombat` |
| `Act` `PayToll` `TooPoor` `StoreAction` `ActAndResolve` `ActConflict` | `handleCombatAction`, `processTollPayment` |
| `ListDue` `TickEnters` `TickConflict` | `combat_tick`, entry of `resolveEncounterRound` |
| `Flush` `Depart` `Capture` `EjectConflict` `FinalizeConflict` `Convert` `Drop` `Leave` `LeaveConflict` | `resolveEncounterRound` and what it calls |
| `DeadlinePasses` `MarkerExpires` `Crash` | time; a killed function |

`last_updated` is not a number in the model. A stamp matters only in comparison
with the column's, so `current` is the set of processes whose copy bears the
column's stamp; a write leaves only the writer in it, or nobody when the request
is over. Two writes in one millisecond would bear the same stamp; that is not
modelled. Time is two booleans: the deadline has passed (`due`), the mark is older
than `RESOLVING_LOCK_TTL_MS` (`stale`). Merged steps: capture reads and commits in
one step, those who fled leave in one step, the drop of several entries is one
step, and a character has one request in flight. Other movement, purchases and
deployments by the participants are outside this model.

### Garrisons

`GarrisonLedger` has counts where `CombatEncounter` has booleans. Leaving
(`LeaveRows`, `LeaveShip`, `CommitLeave`) and collecting (`CollectShip`,
`CollectRows`, `CommitCollect`) are transactions; `SectorLocked`, `ShipLocked` and
`GarrisonLocked` say which locks a request holds from how far it is. Disbanding
(`ReadGarrison`, `PayOut`, `Delete`) and the change of mode (`SetMode`) are separate
statements. A fight is the part of `CombatEncounter` that matters here: a copy of
the rows (`StartFight`), from which rounds (`ShootGarrison`, `ShootShip`) and toll
payments (`PayToll`) write absolute values back. Collecting, disbanding and the
change of mode do not ask where the ship is, in the code as in the model. A toll
is one credit. The history `crossed` notes what was written behind a running fight
and which disbands were overtaken.

### Port and purses

`PortTrade` has the trade function: `OpenTrade` reads the ship, `ReadPort` the
port, `Refuse`, `Commit`, `RollBack` and `Mismatch` are the outcomes of
`computeTradeOutcome` and of the transaction in `pgExecuteTradeTransaction`;
`Regenerate` and `Reset` are the two SQL procedures. Prices are a table, a
constant; the runs fill it with what `S/trading.ts` computes at a capacity of
three. `ShipAccounts` adds the functions that move credits. They differ in
what they read, check and write first, and share the actions `ReadPayee`, `Debit`
and `Credit`; a job's `kind` is the function, and `left` its statements still to
do, because `transfer_credits` sends both at once. `Fail` is a statement that
returns an error, `Kill` a function cut short. The unlinking of pilot,
registration and owner at the end of a sale is one step. Membership, permission,
place and combat checks are left out: they refuse calls and change nothing. The
history `contended` is set when two requests that overlap touch the same balance.

### Salvage

`SalvageField` has the list as a function from `salvage_id` to container. Who
changes it holds a copy of all of it. One commodity stands for the three and for
scrap; loading several is several statements on one ship. A pilot has one call at
a time; fights that end append through the same function.

### Jumps

In `Hyperspace` a jump is `Ask` (the row is read and everything checked on it),
`Start` (one guarded statement, beside others whose failure ends the function and
leaves the ship in hyperspace), a wait, `Finish` (unguarded), `Report`, and on
failure `Cleanup`, which puts the ship back where it came from. `Recover` is what
`move` and `my_status` do for a ship they take for stuck; `Join` and `Flee` write
the ship's place without asking. `Recharge` and the two statements of a transfer
(`Debit`, `Credit`) write the tank. Time is a count of ticks to the arrival, for the
ship's row (`hyperspace_eta`) and for each function of its own; `Threshold` is the
twenty seconds after which a ship counts as stuck, `Slack` how much later than the
arrival a living function may finish. `Slack <= Threshold` is an assumption: a
function that is alive is faster than that. What happens when it is not (a recovery
while the function still runs) is therefore outside of what `JumpOwned` shows. The
history `cut` notes what took a ship off its way, and the writes of a tank from a
reading above what it then had; `out` is what jumps burnt less what was bought.

### Corporations

No function of `Corporation` has a transaction around its writes, so a call is a
plan: it reads, decides, and the statements it has left are a sequence that `Found`,
`Enrol`, `Stamp`, `Left`, `List`, `Release`, `Close`, `Build`, `Link`, `Claim`, ... take one
by one. A disbanding lists the corporation's ships (`List`), releases those it has
listed (`Release`) and closes, with awaits between. Membership is kept twice, in `corporation_members` (`member`) and on the
character (`affil`). The advisory lock of the ship cap is `Lock` and `Unlock`. Joining
asks for a confirmation; the model has the call that confirms, which decides
everything again. Credits are not in this module.

### Events

In `EventSessions` an event is a row for one recipient. `Record`, `Send` and
`Commit` are the steps of the recording transaction that matter to others:
the id is taken first, the copy sent later, and both are seen at the commit, so ids
and commits may be in different orders. `Lapse`, `Cleanup` and `Heartbeat` are the
session's life; `Prepare`, `Drain`, `Replay` and `Start` the way a bot joins; `Round`,
`Read`, `Dispatch`, `DispatchFails` and `Archive` its poll loop. `SetScope`, `Capture`,
`Apply` and `Answered` carry what the bot wants to listen to into the session's row,
from the poll loop, the heartbeat and the start of a task, which may overlap.
A corporation's scope is the set of its ships. Malformed messages and the backoff
of reconnections are left out.

### Quests

`Quests` is SQL, in transactions at READ COMMITTED. What a session has written and
not committed is its `draft`: nobody else sees it, and whoever wants to write one of
its rows waits. `Record` is the event and its trigger; `Pass`, `Look`, `Count` and
`Advance` are one turn of `evaluate_quest_progress`; a new step puts its `CatchUp` in
front of what is left to evaluate. `Swallow` is the trigger's exception handler,
`Abort` a session that dies. `LockStep` and `Grant` are the claim. One player and one
quest; one event is one row of the log; a step counts by one. In the tables an event
with several recipients is several rows, and each of them that bears the same actor
is evaluated: such an event counts several times. The same holds for `EventSessions`,
where an event recorded for two recipients in the scope of one session would be two
rows and be heard twice. Both are outside the models.

## 3. Runs

| Run | Question | Bounds |
|---|---|---|
| `encounter_race` | Whatever overlaps or dies: does any write of a fight undo another, is cargo wiped unsaved, is peace given away? | 2 ships with fighters, one of them there from the start, a toll garrison, credits for one toll, 1 tick, 3 requests, 1 kill, marks outlived, a tick that overtakes what a request began |
| `encounter_rounds` | With a tick that overtakes and a kill anywhere: is every round resolved once, is a wreck made once, do column, ships and sector agree, do the handlers implement `AtomicEncounter`? | 2 ships, one of them there from the start, each ship with fighters or without, garrison or none, 1 tick, 3 requests, 1 kill, 2 rounds |
| `encounter_live` | Is a round whose time is up resolved in the end, also after a kill? | 2 ships, a toll garrison, 1 tick, 2 requests, 1 kill, 3 rounds, fairness |
| `garrison` | Deployments, collections, disbands and changes of mode that overlap, beside a fight: one garrison, no crossed locks, fighters and tolls accounted for? | 3 pilots, two of one corporation, 2 sectors, 2 requests, 1 fight, 1 move, at most 3 fighters |
| `accounts_race` | Trades, transfers, bank business, purchases and a sale overlap, and one of them fails or is killed: is stock exact, the price current, does anybody go below zero, and do the books balance where no two of them meet? | personal ship and corporation ship, 2 trades, 2 jobs, 3 requests, 1 regeneration, 1 fault |
| `salvage_calls` | Calls one after the other, one killed anywhere: is a container had once, is the rest kept, is the claim released? | 2 pilots, 1 wreck, 2 containers, 5 calls, 1 kill |
| `hyperspace` | Is a ship carried by one function at most, does a jump go along a warp and end, is no warp power made? | 2 ships, 3 sectors, 2 functions at a time, 3 calls besides `my_status`, 1 kill or failure, fairness |
| `corporation` | From every roll and every fleet: does the cap hold, do the two records of a membership agree, does anybody own what a disbanded corporation had, are claims held? | 3 players, 2 corporations, 2 ships, a cap of 1, 2 calls that overlap, 1 of them may end early |
| `events` | Is anything lost, heard twice or out of order, and does the session listen to what the bot wants? | 2 ships, at most 3 events, 2 faults, 2 tasks, in five combinations (`MCBudgets`); 2 messages a read, 2 attempts; fairness |
| `quests` | Do counts agree with the events entered, is nothing missed, is a reward paid once, does a quest never go back? | 2 sessions, 4 events of 2 kinds, 2 steps, a catch-up of 2, 2 claims, 1 fault |
| `encounter_salvage_lost` | expected violation, below | 2 ships, 4 requests, 2 fights, 1 kill |
| `accounts_retry` | expected violation | 1 ship, 2 trades |

Why so small is enough: a fence, a lock, a claim or a stale row goes wrong between
two actors and one row. Requests are bounded so that at least two of them overlap;
two rounds suffice for the demand round and the one after it, where the garrison
shoots; a kill can fall between any two steps, and a second kill only repeats it.
A cap of one is reached by one ship, and exceeded by two calls that both count none.
Two sessions that evaluate one row are what a count can be lost to; four events
reach the second step of the quest with one to spare, and a catch-up of two can
be too short for them. A task, an outage and a failure meet pairwise in `MCBudgets`:
all of them at once would only be their sum. The theorems of section 5 hold without
these bounds. `corporation` does not begin with nothing: it begins with every roll
and fleet the functions leave behind, so that two calls reach what otherwise many
would.

Runs do not check for deadlock. Calls are bounded, so every instance stops; and
the system itself stops in earnest when nobody calls. That two transactions do not
wait for one another is `NoLockCycle`.

**Assumptions of a run, by name.** `LockOutlived`: a resolution may take longer than
the mark is respected; a tick enters a round regardless of the mark in every run,
but requests and joins respect it, and all runs of fights but `encounter_race`
assume that it outlives its resolution. `OneAtATime`: calls on one sector's salvage
do not overlap.

No run assumes that a tick finds the last round's resolution finished. `ListDue`
goes by the deadline only, as `listDueCombats` does, so a resolution that
`combat_action` began just before the deadline is overtaken by the tick. With one
tick in the instances, two ticks do not overtake each other there; the theorems are
for any number. For liveness this is an assumption: ticks that always overtake one
another before any of them has written would never finish a round.

**Excuses.** Much of what one would like to claim of this code is true only while no
two requests meet in a certain way, and the code has nothing against their meeting.
Such a property names the meeting: a history variable notes it (`astray`, `torn`,
`crossed`, `contended`, `cut`, `lapses`, `missed`, `stale`, `skipped`), the property claims
the rest, and its comment says which line lets it happen. The histories change
nothing of what the model does, and the runs contain the behaviours they excuse.
A hazard whose own failure is excused is not caught by the property that excuses it;
its note in `PROJECT.json` says so.

In fights, `astray` is set when a resolution is overtaken by a tick or killed while
the tables have, or will get from it, an outcome that the column has not: the rest is
then done a second time, salvage included. `torn` has the rounds that were overtaken or
killed when a part of their outcome was in the column already: they are resolved
again, from a column in which some wrecks are ejected.

**Fairness.** `FairSpec` of `CombatEncounter` has weak fairness of each tick and
of each resolution: the cron job fires every five seconds for ever
(`pg_cron`), and a function that is not killed goes on. Nobody has to make a
request and no deadline has to pass. `FairSpec` of `SalvageField` has weak
fairness of the next step of a call that has begun. In `Hyperspace` time passes,
functions go on, and somebody asks for every ship's status again and again, which
the game's client and the bot do for as long as somebody plays; a ship nobody asks
about stays in hyperspace. In `EventSessions` the bot's loops and calls go on, and
the queue shows a message again that was not archived (pgmq's visibility timeout);
heartbeats, lapses and tasks need not happen.

### What the checks showed

Two runs are expected to fail; each contradicts what the source says, and
`PROJECT.json` quotes the line.

* `encounter_salvage_lost`: the write that makes salvage durable also ends the
  fight. A function killed after it has converted the ship leaves the salvage in a
  column nobody resolves again, and the next fight replaces it
  (`S/combat_finalization.ts:574`). A next fight that starts while the function is
  alive does no harm: it will drop the salvage from its memory, and does not violate
  the property.
* `accounts_retry`: a trade that finds the port changed reads it again and not the
  ship, and its second attempt writes away the goods of the trade of the same ship
  that overtook it (`F/trade/index.ts:588`). The property speaks of retried trades
  only: that any two overlapping writes of a ship lose one is excused elsewhere.

The models contain more of the kind, which the properties excuse or the runs
avoid by their assumptions. Of fights, garrisons and salvage:

* a toll is debited before the column is written. If that write loses its
  compare-and-swap the payment is forgotten, the caller is told to resubmit, and is
  charged again (`F/combat_action/index.ts:786`);
* a tick that overtakes a resolution between its writes to the tables and to the
  column makes a wreck, and drops its salvage, a second time, and moves the tables
  away from the column; resolutions that always take longer than five seconds can
  overtake each other for ever;
* a ship that enters a fight without fighters is made an escape pod by the
  first round in which anybody fights (`S/combat_finalization.ts:111`);
* a destroyed toll garrison with a debtor left keeps the fight open for rounds in
  which nobody shoots (`S/combat_resolution.ts:130`);
* fighters deployed or collected during a fight are undone, or doubled, by its
  next round (`S/combat_finalization.ts:632`), and a balance collected during a
  fight is restored by its next toll and paid a second time;
* two disbands, or a disband and a collection, both pay the balance
  (`F/combat_disband_garrison/index.ts:269`); a garrison that is no longer in toll mode
  loses its balance when it is collected or disbanded;
* the "atomic" claim of a container is a read and an unconditional write; two
  pilots empty one container (`F/salvage_collect/index.ts:261`); an append that
  overlaps another one, or a collection, loses one of the two (`S/salvage.ts:81`); a
  kill during a collection leaves the container claimed.

Of ships and their owners:

* a transfer and a trade of one ship lose one of the two changes
  (`F/transfer_credits/index.ts:313`), and two sales of one ship are both paid
  (`F/ship_sell/index.ts:286`); a withdrawal whose first statement fails still pays
  (`F/bank_transfer/index.ts:778`); a sale also pays out what the ship had on board,
  where the game's own text says it is lost
  (`gradientbang/prompts/fragments/ships.md:60`);
* a failure after the arrival brings the ship back to where it came from, and ends
  another jump it may have begun (`F/move/index.ts:545`); a recovery that comes late
  does the same; fleeing writes only the sector, and joining ends a jump whose
  function still runs;
* a transfer killed between its statements loses what it had taken, and a jump or
  another transfer that empties a tank between a transfer's, a jump's or a recharge's
  reading and its write makes warp power (`F/transfer_warp_power/index.ts:317`);
* a player who joins a corporation while it is disbanded stays its member; being
  removed while leaving and joining another takes the new affiliation away; a ship
  linked after the disbanding has listed its ships stays with it, where the
  comment before `disbandCorporation` says that callers have checked
  (`S/corporations.ts:772`); a purchase killed between its inserts leaves a ship that
  no cap counts; a claimed ship stays claimed when its claimant leaves, and a ship
  bought by a member who has left can be sold by nobody, so that the founder can
  never disband.

Of events and quests:

* an answer that comes late takes off the mark of a scope set meanwhile, and the
  session goes on listening to the old one (`pubsub.py:405`); a task's start widens
  the scope, which another task's start or end sets without it;
* a session that has lapsed and been cleaned up, or that has reached its hard
  limit of six hours, is never registered again: the adapter retries for ever;
* a ship that has left the corporation makes the server refuse the whole scope,
  which ends both loops: the bot hears nothing any more;
* a replay that raises loses what it had not replayed yet; an archive that fails
  has a message dispatched twice;
* two events evaluated at once lose one of the two counts, or both complete the
  step; the next step then has two rows, with a reward each, and a later count
  may set the quest back to a step it had left;
* an event recorded while a step's row is made is never counted, nor is one beyond
  the oldest fifty of its type, though they may not pass the step's filter;
* a quest that `is_repeatable` cannot be assigned again: the table's key refuses.

## 4. Properties

Of the combat column: `NothingRolledBack` (payments, log, round number, end and
fighters only move forward), `CargoSafe` (a hold is wiped only after its contents
are in the column or the sector), `PaidForPeace`, `Fenced` (whoever may write has
missed nobody's write), `WreckedOnce` (salvage is dropped once, and no overtaken
write gives a pod fighters; but for `astray`), `TablesAgree` (whenever no resolution
that can still write is running; but for `astray`), `RoundsOnce` (but for `torn`),
`RoundsEnd`, and
`ImplementsAtomic`: under the mapping of `EncounterRefinement` every step of every
handler is a step of `AtomicEncounter` or nothing. The mapping: while a resolution
that will go on to another round may still write, the encounter is the one it
started from, however much of the next the column holds already; a round that ends
the fight has happened with the first write that says so, though its wrecks are
still being cleared up. A resolution that is overtaken or killed with a part of its
ejections written shows as `Tear`: those wrecks are gone, the round is still to come.

Of garrisons: `TypeOK` (the cap included), `OneGarrison`, `NoLockCycle`,
`DeployedOnTheSpot`, `FightersAccounted`, `TollsAccounted`. Of port and purses:
`StockAccounted` and `PricedAtStock` (the version test is enough, retries included),
`NoOverdraft` (though all checks are made on stale rows), `BooksBalance`,
`GoodsBalance`, `RetryAddsToHold` (which the code violates). Of salvage: `Conserved`, `ClaimsReleased`. Of jumps: `JumpOwned`,
`AlongWarps`, `NoWarpMade` (losses are allowed, in a transfer that is killed and in a
write from a reading below what the tank has), `LeavesHyperspace`. Of corporations: `ShipCap`,
`RollsAgree`, `NothingOrphaned`, `ClaimsHeld`. Of events: `NothingLost`, `HeardOnce`,
`InOrder`, `ScopeAgrees`, `Delivered`, `Listens`. Of quests: `CountsAgree`,
`NothingMissed`, `RewardsOnce`, `NeverBack`.

The type invariants of `CombatEncounter`, `ShipAccounts` and `Hyperspace` are
theorems and are not run.

Every property has a mutant: a plausible bug in a mapped definition (the fence
dropped, the stamp not advanced, capture kept in memory, `LEAST` forgotten, the
count taken before the lock, ...) under which its run fails. Mutants stand beside
what they change and are marked.

## 5. Proofs

A theorem holds for every value of its module's constants: any finite set of ships,
ticks, sectors, pilots, players, goods and jobs, any set of sessions or of wrecks,
any number of events, any map, any steps of a quest, any bounds, prices, caps and
times. Assumptions are
those named in the modules: sets of actors that are finite, capacities, limits and
amounts that are natural numbers, opening rows that are not negative, null, or the
name of a loop, that is nobody's name, a bound on the events of an instance, a buyer
of a corporation ship who has a ship of his own, a quest whose steps pass only
events they hear and have targets above nothing, and for jumps
`Slack <= Threshold`. The four last theorems about fights add `~LockOutlived`, as
their run does, and nothing else: ticks that overtake and functions that are killed
are in all of them. `WrecksAreOnce` and `TablesDoAgree` speak of a sector's first
fight, and excuse `astray`, as their properties do. Those about salvage are for
`OneAtATime`, as its run is, and for pilots that have one call at a time. Without these
the models contain the counterexamples listed in section 3.

| Theorem | States | Argument |
|---|---|---|
| `TypeCorrect` | `[]TypeOK` of `CombatEncounter` | each action; typing lemmas for `Fresh`, `Enrolled`, `Submitted`, `Settled`, `NextRound` |
| `FenceHolds` | `[]Fenced` | inductive with `TypeOK`: whoever is `current` has in memory what the column holds, or, once it has written part of its round, the encounter the round began with |
| `RollbackFree` | `NothingRolledBack` | a write needs `Matches`; by `Fenced` it is then built from what the column holds, and `Keeps` is shown for each function that builds it |
| `CargoIsSafe` | `[]CargoSafe` | `CargoAccounted`: what any process takes for captured is in the column or the sector, and whoever may still write has in memory all the column has and the sector has not |
| `PeaceIsPaidFor` | `[]PaidForPeace` | `TollsCharged`: also in memory, and for the request that has paid and not yet written |
| `RoundsAreOnce` | `[]RoundsOnce` | `Owned`: no second writer beside a resolution that may still write (`RoundOwned`), its round was ready or due (`Called`), no wreck is forgotten (`Cleaning`). `Numbers`: the log is a chain in which each round follows the last or is the same one again if that was torn, and the round of whoever owns the column goes on from there |
| `WrecksAreOnce`, `TablesDoAgree` | `[](fights <= 1 => WreckedOnce)`, `[](fights <= 1 => TablesAgree)` | `Orderly`: in the first fight, and as long as it is not `astray`, the tables fit the encounter that counts, which is the column's while nobody resolves, the round's start until its losses are written and its outcome from then on (`Ground`); a resolution that was overtaken has nothing left to write in the tables (`Ghosts`); what an arrival or an initiator has read of the ships is still so when it is used (`Eve`, `Guests`) |
| `HandlersAreAtomic` | `ImplementsAtomic` | `Owned /\ AllEntitled`: a request may write what it is about to write (`Entitled`). Then step by step: the steps that only read, and those that only change the tables, stutter; joins, actions and new fights map to themselves; a round to the write at which the mapping says it happens. A resolution that is overtaken or killed had shown nothing of its round, or all of it, or some of its wrecks, and then the step that overtakes or kills it is a `Tear`. One overtaken by the sector's next fight needs no invariant: the fence stops it |
| `AccountsTypeCorrect` | `[]TypeOK` of `ShipAccounts` | with it, stock stays between nothing and capacity |
| `StockIsAccounted` | `[]StockAccounted` | `PortFenced`: a copy of the port with the port's version is the port's row, and no copy has a later version |
| `PricesAreCurrent` | `PricedAtStock` | the same |
| `NoOverdrafts` | `[]NoOverdraft` | `Solvency`: also the rows in memory, and each job that writes can afford it on the row it has read |
| `BooksAreBalanced`, `GoodsAreBalanced` | `[]BooksBalance`, `[]GoodsBalance` | `Books`: where no two calls met on a balance, a row in memory that is still to be written over is the row in the tables (`Current`); purses, bank and payments then come to the opening worth and what calls have paid and not yet taken, or taken and not yet paid (`Float`). A ship is sold once, since a sale that has paid has its row in hand (`SoldOnce`) |
| `TypeSafety`, `SectorsHoldOne`, `NoDeadlock` of `SectorProofs` | `[]TypeOK` with the cap, `[]OneGarrison`, `[]NoLockCycle` | `TypeOK /\ Locks /\ Safe`: two transactions are never in one sector or at one ship (`SectorsApart`, `ShipsApart`); what one has read under its locks is what the tables hold (`ReadsCurrent`); what it was granted on that reading fits (`Grants`) |
| `FightersAreAccounted`, `TollsAreAccounted`, `DeploysOnTheSpot` | `[]FightersAccounted`, `[]TollsAccounted`, `DeployedOnTheSpot` | `Ledger`: a fight's copies agree with the tables as long as nobody wrote behind its back (`Copies`), so bays, garrisons and losses come to what was fielded (`FighterBooks`); what a disband has paid for is in its reading until the row is gone (`AllDue`), so the tolls collected come to what was paid out, went down and is in the rows (`TollBooks`) |
| `SalvageIsConserved` | `[](OneAtATime => Conserved)` | `FieldInv`: a ship is as its pilot's call has read it (`ShipsInHand`). With `OneAtATime` the call under way has the list as it is and a container claimed or not as its step requires (`Single`, `ListsInHand`), and ships, unclaimed containers and what it has in hand come at each of its steps to what came in, or to less once a call was killed (`Books`) |
| `ClaimsAreAttended` | `[](OneAtATime /\ kills = 0 => Attended)`: a claimed container is being collected | `FieldInv`: the only call under way is the one that claimed it, and its last write removes the container or the mark |
| `TypeSafety`, `TransitsOnWarps`, `JumpsOwned`, `MovesAlongWarps` of `HyperspaceProofs` | types with the tanks' bounds, `[]TransitOnWarp`, `[]JumpOwned`, `AlongWarps` | `TypeSane /\ Jumps`: a request about to start was cleared for its way and its fuel; a carried jump has the time its row has (`InTime`), which has not run past `Slack`. That nobody takes a jump for stuck while its function lives rests on the assumption `Slack <= Threshold`. A ship whose function was killed is carried by nobody |
| `NoneIsMade` | `[]NoWarpMade` | `Covered`: the tanks, what transfers have in hand between their two statements (`InHand`) and `out` together (`Books`) never come to more than the opening. Each step leaves that sum as it is or lowers it (a kill with units in hand, a write from a reading below the tank), unless it writes from a reading above the tank, which `cut` notes |
| `CapHolds` | `[]ShipCap` | every plan has one of a few shapes (`Shaped`), told by its first and its last statement; a plan that has counted and not yet written holds its buyer's lock alone (`Exclusive`) and has room for one more ship (`Room`); the ship it has built is its own (`NewHulls`), the ship it gives back was bought by the one it counted (`Buyers`) |
| `ClaimsAreHeld` | `ClaimsHeld` | with the types, action by action; `Unmoved` is asked in the statement that writes |
| `RollsDoAgree`, `NoneIsOrphaned` | `[]RollsAgree`, `[]NothingOrphaned` | `Rolls` and `Docked`: a statement of a plan is preceded by the one that makes it right, so that the two records of a membership differ only where a call is between them or a history variable says it was cut or overtaken. A ship of a corporation that is being disbanded is still to be listed, or on the list of the call that disbands it, which has yet to release it (`Handed`), or was linked after the listing, which `crossed` notes |
| `NothingIsLost`, `HeardIsOnce`, `OrderIsKept`, `ScopesDoAgree` | `[]NothingLost`, `[]HeardOnce`, `[]InOrder`, `[]ScopeAgrees` | `TypeOK /\ Heard /\ Scoped`: a copy the poll loop has read is in its hands, and the drain's are archived (`Handled`); what was heard is not to be read again unless an archive failed (`Once`); the echoes are gone before the loop starts (`NoEcho`); what had committed before an event is before it in the queue (`Dated`), a read takes a prefix of what waits (`ReadIsPrefix`), and so with what the bot has got it has got what came before (`Ordered`). `Scoped`: what a call carries is what was set last |
| `Invariance` of `QuestsProofs` | the inductive invariant itself | `Sound`: who holds which lock (`Locks`), a draft agrees with the rows it was made from but for what it adds (`Kept`), what is in hand at each statement (`Held`), an event belongs to one session and is recorded by its end (`Logged`), a payment has its claimed row (`Paid`). To it `Tallied`, `InStep` and `Noted`, below |
| `CountsDoAgree` | `[]CountsAgree` | `Tallied`: in the tables and in each session's view of them a step has at most one row, its count is the number of events entered for it, less the one just entered by whoever is about to count it, and it is full only when done (`Tally`) |
| `NothingIsMissed` | `[]NothingMissed` | `Noted`: an event of the log is entered, or among the exceptions (`LogNoted`); an event that a session evaluates is so too, or still on its list (`EventNoted`); and a step a session has begun finds the log of its beginning on the list (`CatchesUp`), for which the list of a catch-up is shown to hold exactly the oldest `Limit` events that concern the step |
| `RewardsAreOnce` | `[]RewardsOnce` | `Paid`, with `Held`: a claim that is about to pay has marked the row under its lock, and the row was done and not yet claimed |
| `GoesForward` | `NeverBack` | `InStep`: every step before the quest's has its row done and its own is open, also in the view of a session that moves the quest |

A batch of events is handled in the order of ids, which `EventSessions` chooses
(`InIdOrder`), and a quest's evaluation goes through its steps, and its catch-up
through past events, in theirs (`Arranged`). That every finite set can be listed so is
shown in `Sums` by the same means as the facts about sums.

Sums over ships, sectors and players are folds (`SumFunctionOnSet`), and what a
fold computes needs induction, which is out of reach as a theorem over operators.
`Sums` proves the few facts needed (a sum splits off one summand, or into the sums
over two parts; two functions that agree have one sum) by taking a smallest counterexample among the subsets,
with the theorems about finite sets of the library.

Hardly any property proved is inductive: it says nothing of the copies in memory,
and every write comes from a copy. `Fenced`, `CargoAccounted`, `TollsCharged`,
`PortFenced`, `Solvency`, `ReadsCurrent`, `TypeSane`, `Room`, `Handled` and `Tallied`
say what is true of the copies. `Fenced` is also an invariant of `encounter_race`. `CargoSafe` is about a
sector's first fight; for the next it is false, which is what
`encounter_salvage_lost` shows.

Only model-checked is liveness, which is out of the prover's reach: `RoundsEnd`,
`ClaimsReleased`, `LeavesHyperspace`, `Delivered`, `Listens`. Of `ClaimsReleased` the
part that is not liveness is `ClaimsAreAttended`: there is always somebody whose
next steps take the mark off.

## 6. Not modelled

Parts left out altogether:

* Combat strategies and doctrines: one row per ship, written by its owner and read
  into a prompt.
* Task lifecycle: that a ship has one task is known to the bot's memory alone. What a
  task's start and end do to a session is in `EventSessions`.
* The voice bot's pipeline: its order is that of third-party frame processors around
  language models.
* The bus of subagents, its leases and the waking of a sleeping process. The queue
  below it is the one of `EventSessions`, the claim of a ship is in `Corporation`.
* Accounts, tokens, rate limits, characters: single statements, and a third party's
  authentication.
* The universe and its maps: searches over a graph that does not change, and its
  generator. `Hyperspace` takes the graph as a constant.
* Clients, the combat simulator, the newspaper, the NPC runner and the scripts: user
  interface, rendering, and batch programs that call the functions modelled here.

Inside the parts that are modelled:

* fighter counts, shields and volleys of `S/combat_engine.ts`: `CombatRules` allows
  any outcome they could have and more. The arithmetic is a seeded hash, and a bounded
  copy of it would only repeat the code;
* corporation mates in a fight, more than one garrison in it, the offensive and the
  defensive mode;
* the personal purchase of a ship with its trade-in, renaming of ships and of
  corporations, invite codes;
* the queries of the event log, the choice of recipients, and the older HTTP
  polling;
* several quests of one player, steps that add up a field or count distinct values;
* two writes of the combat column in the same millisecond, whose stamps agree.
