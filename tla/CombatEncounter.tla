--------------------------- MODULE CombatEncounter ---------------------------
(***************************************************************************)
(* One sector's combat: the JSON column sector_contents.combat, and the    *)
(* request handlers and cron ticks that load it, work and write it back.   *)
(*                                                                         *)
(* There is no lock.  A write is a compare-and-swap on last_updated        *)
(* (cas_update_combat); a process that has begun to resolve a round also   *)
(* leaves the mark resolving_started_at in the column, which joins, new    *)
(* fights and combat_action respect for RESOLVING_LOCK_TTL_MS, and which   *)
(* combat_tick does not look at.  Every await is a point where the others  *)
(* may run, so a handler is one action per piece of work between awaits.   *)
(***************************************************************************)
EXTENDS CombatRules

CONSTANTS
  Ticks,         \* invocations of combat_tick that may run at the same time
  Wealth,        \* how many tolls a character can afford
  LockOutlived,  \* a resolution may take longer than RESOLVING_LOCK_TTL_MS
  MaxCalls,      \* bound: requests the characters make
  MaxFights,     \* bound: encounters started in the sector
  MaxCrashes,    \* bound: functions killed in mid-resolution
  LastRound,     \* bound: no deadline passes after this round
  Outcomes       \* bound: whom the luck of a round may favour

ASSUME EncounterAssumption ==
  /\ IsFiniteSet(Ticks)
  /\ Ticks \cap (Players \cup {"garrison", "none"}) = {}
  /\ LockOutlived \in BOOLEAN
  /\ Outcomes \subseteq Lucks /\ Outcomes # {}
  /\ {Wealth, MaxCalls, MaxFights, MaxCrashes, LastRound} \subseteq Nat

Procs == Players \cup Ticks

Column ==
  [enc      : Encounter,
   marker   : BOOLEAN,          \* resolving_started_at is set
   captured : SUBSET Players,   \* salvage_captured of each participant
   salvage  : SUBSET Players]   \* pending_salvage_entries, by wrecked ship

Empty ==
  [enc |-> NoEncounter, marker |-> FALSE,
   captured |-> {}, salvage |-> {}]

VARIABLES
  row,      \* the column
  current,  \* processes whose last_updated is still the column's
  due,      \* the column's deadline has passed
  stale,    \* the column's mark is older than the TTL
  present,  \* characters whose ship is in the sector
  armed,    \* ships with fighters, and the garrison, in the canonical tables
  pod,      \* ships converted to escape pods: cargo and credits are wiped
  drops,    \* how often each ship's salvage was put in sector_contents.salvage
  charged,  \* tolls each character was charged
  fights, calls, crashes,
  astray,   \* history: a resolution was overtaken or killed while the tables
            \* had, or were to have, an outcome that the column had not
  torn,     \* history: rounds of this fight that were overtaken or killed with
            \* a part of the outcome in the column
  pc,       \* where each process is
  mem,      \* the column as each process has it in memory
  choice,   \* the action a combat_action request carries
  tries,    \* CAS conflicts a join has met
  crew,     \* the ships and garrison as the process has read them
  auto,     \* the fight is started by checkGarrisonAutoEngage
  todo,     \* wrecks a resolution has still to handle
  done      \* wrecks it has handled

column  == <<row, current, due, stale>>
world   == <<present, armed, pod, drops, charged>>
budget  == <<fights, calls, crashes, astray, torn>>
local   == <<pc, mem, choice, tries, crew, auto, todo, done>>
vars    == <<column, world, budget, local>>

Stages == {"entered", "flushed", "clearing", "leaving"}  \* of a resolution

Pcs == Stages \cup {"idle", "arrived", "join", "auto", "engage", "pay", "act",
                    "listed"}

Resolving(q) == pc[q] \in Stages

Active == ~row.enc.ended

LockHeld == row.marker /\ ~stale

TypeOK ==
  /\ row \in Column
  /\ current \subseteq Procs
  /\ due \in BOOLEAN /\ stale \in BOOLEAN
  /\ present \subseteq Players
  /\ armed \subseteq Players \cup {Garrison}
  /\ pod \subseteq Players
  /\ drops \in [Players -> 0..2]
  /\ charged \in [Players -> Nat]
  /\ fights \in Nat /\ calls \in Nat /\ crashes \in Nat
  /\ astray \in BOOLEAN /\ torn \subseteq Nat
  /\ pc \in [Procs -> Pcs]
  /\ mem \in [Procs -> Column]
  /\ choice \in [Procs -> Acts \cup {"none"}]
  /\ tries \in [Procs -> 0..3]
  /\ crew \in [Procs -> Rosters]
  /\ auto \in [Procs -> BOOLEAN]
  /\ todo \in [Procs -> SUBSET Players]
  /\ done \in [Procs -> SUBSET Players]

Init ==
  /\ row = Empty /\ current = {} /\ due = FALSE /\ stale = FALSE
  /\ present \in SUBSET Players
  /\ armed \in SUBSET (Players \cup {Garrison})
  /\ pod = {}
  /\ drops = [p \in Players |-> 0] /\ charged = [p \in Players |-> 0]
  /\ fights = 0 /\ calls = 0 /\ crashes = 0 /\ astray = FALSE /\ torn = {}
  /\ pc = [q \in Procs |-> "idle"]
  /\ mem = [q \in Procs |-> Empty]
  /\ choice = [q \in Procs |-> "none"] /\ tries = [q \in Procs |-> 0]
  /\ crew = [q \in Procs |-> Nobody] /\ auto = [q \in Procs |-> FALSE]
  /\ todo = [q \in Procs |-> {}] /\ done = [q \in Procs |-> {}]

-----------------------------------------------------------------------------
(* The column: loading it, and the compare-and-swap of persistCombatState. *)

Load(q) ==
  /\ mem' = [mem EXCEPT ![q] = row]
  /\ current' = current \cup {q}

\* Mutant of Matches: the plain write path of persistCombatState.
Matches_PlainWrite(q) == TRUE

Matches(q) == q \in current

Write(q, col) == row' = col /\ current' = {q}

\* Mutant of WriteOut: the save does not advance last_updated.
WriteOut_SameStamp(col) == row' = col /\ UNCHANGED current

\* The last write of a request: nobody is left with the new last_updated.
WriteOut(col) == row' = col /\ current' = {}

Goto(q, l) == pc' = [pc EXCEPT ![q] = l]

\* A request or tick is over; what it held in memory is gone.
Finish(q) ==
  /\ Goto(q, "idle")
  /\ mem' = [mem EXCEPT ![q] = Empty]
  /\ choice' = [choice EXCEPT ![q] = "none"]
  /\ tries' = [tries EXCEPT ![q] = 0]
  /\ crew' = [crew EXCEPT ![q] = Nobody]
  /\ auto' = [auto EXCEPT ![q] = FALSE]
  /\ todo' = [todo EXCEPT ![q] = {}]
  /\ done' = [done EXCEPT ![q] = {}]

Call == calls < MaxCalls /\ calls' = calls + 1

-----------------------------------------------------------------------------
(* Arrival in the sector (the end of move): join the fight, or else let a  *)
(* garrison start one.                                                     *)

SeatOf(p) == IF p \in armed THEN "live" ELSE "down"

\* The ship is loaded now, and used for the join later.
Arrive(p) ==
  /\ pc[p] = "idle" /\ p \notin present \cup pod
  /\ Call
  /\ present' = present \cup {p}
  /\ crew' = [crew EXCEPT ![p][p] = SeatOf(p)]
  /\ Goto(p, "arrived")
  /\ UNCHANGED <<column, armed, pod, drops, charged, fights, crashes, astray, torn,
                 mem, choice, tries, auto, todo, done>>

\* loadCombatForSector of move.
Look(p) ==
  /\ pc[p] = "arrived"
  /\ Load(p)
  /\ Goto(p, IF Active THEN "join" ELSE "auto")
  /\ tries' = [tries EXCEPT ![p] = 0]
  /\ UNCHANGED <<row, due, stale, world, budget, choice, crew, auto, todo, done>>

\* The column a join has loaded carries a mark younger than the TTL.
Waits(p) == mem[p].marker /\ ~stale

\* joinExistingCombat gives the arrival up for this encounter.
JoinDeclined(p) ==
  LET e == mem[p].enc IN
  \/ e.ended
  \/ e.seat[p] # "out"
  \/ Waits(p)
  \/ ~Waits(p) /\ ~HasHostile(e, p)
  \/ tries[p] = 3

GiveUpJoin(p) ==
  /\ pc[p] = "join" /\ JoinDeclined(p)
  /\ Goto(p, "auto")
  /\ UNCHANGED <<column, world, budget, mem, choice, tries, crew, auto, todo, done>>

CanJoin(p) ==
  LET e == mem[p].enc IN
  pc[p] = "join" /\ ~e.ended /\ e.seat[p] = "out" /\ tries[p] < 3

\* The mark is respected: sleep, load again.
WaitOut(p) ==
  /\ CanJoin(p) /\ Waits(p)
  /\ <<mem[p], p \in current>> # <<row, TRUE>>
  /\ Load(p)
  /\ UNCHANGED <<row, due, stale, world, budget, pc, choice, tries, crew, auto,
                 todo, done>>

\* Mutant of Joined: joined_round is not stamped.
Joined_Unstamped(p) ==
  [mem[p] EXCEPT !.enc.seat[p] = crew[p][p], !.captured = mem[p].captured \ {p}]

Joined(p) ==
  [mem[p] EXCEPT !.enc = Enrolled(mem[p].enc, p, crew[p][p]),
                 !.captured = mem[p].captured \ {p}]

Join(p) ==
  /\ CanJoin(p) /\ ~Waits(p) /\ HasHostile(mem[p].enc, p)
  /\ Matches(p)
  /\ WriteOut(Joined(p))
  /\ Finish(p)
  /\ UNCHANGED <<due, stale, world, budget>>

RetryJoin(p) ==
  /\ CanJoin(p) /\ ~Waits(p) /\ HasHostile(mem[p].enc, p)
  /\ ~Matches(p)
  /\ Load(p)
  /\ tries' = [tries EXCEPT ![p] = @ + 1]
  /\ UNCHANGED <<row, due, stale, world, budget, pc, choice, crew, auto, todo, done>>

\* loadCharacterCombatants and loadGarrisonCombatants.
Ships == present \ pod

Roster ==
  [x \in Players \cup {Garrison} |->
     IF x \in Ships \cup (armed \cap {Garrison}) THEN SeatOf(x) ELSE "out"]

\* checkGarrisonAutoEngage: it looks at the column once more.
AutoEngage(p) ==
  /\ pc[p] = "auto"
  /\ IF ~Active /\ Garrison \in armed /\ Ships # {}
     THEN /\ fights < MaxFights
          /\ Load(p)
          /\ Goto(p, "engage")
          /\ crew' = [crew EXCEPT ![p] = Roster]
          /\ auto' = [auto EXCEPT ![p] = TRUE]
          /\ UNCHANGED <<choice, tries, todo, done>>
     ELSE Finish(p) /\ current' = current \ {p}
  /\ UNCHANGED <<row, due, stale, world, budget>>

\* combat_initiate: needs fighters and somebody to fight, and no resolution.
Initiate(p) ==
  /\ pc[p] = "idle" /\ p \in Ships \cap armed
  /\ Active => ~LockHeld
  /\ Active \/ fights < MaxFights
  /\ ((Ships \cup {Garrison}) \ {p}) \cap armed # {}
  /\ Call
  /\ Load(p)
  /\ Goto(p, "engage")
  /\ crew' = [crew EXCEPT ![p] = Roster]
  /\ auto' = [auto EXCEPT ![p] = FALSE]
  /\ UNCHANGED <<row, due, stale, world, fights, crashes, astray, torn, choice, tries, todo, done>>

\* The fight is over (or there never was one): a new one replaces the column.
StartFight(p) ==
  /\ pc[p] = "engage" /\ Matches(p) /\ mem[p].enc.ended
  /\ \E luck \in Outcomes :
       WriteOut([enc |-> Fresh(crew[p], auto[p], luck), marker |-> FALSE,
                 captured |-> {}, salvage |-> {}])
  /\ due' = FALSE /\ stale' = FALSE
  /\ fights' = fights + 1
  /\ Finish(p)
  /\ torn' = {}
  /\ UNCHANGED <<world, calls, crashes, astray>>

\* combat_initiate on a fight in progress.
Reinforce(p) ==
  /\ pc[p] = "engage" /\ Matches(p) /\ ~mem[p].enc.ended
  /\ WriteOut(IF mem[p].enc.seat[p] = "out" THEN Joined(p) ELSE mem[p])
  /\ Finish(p)
  /\ UNCHANGED <<due, stale, world, budget>>

EngageConflict(p) ==
  /\ pc[p] = "engage" /\ ~Matches(p)
  /\ Finish(p)
  /\ UNCHANGED <<column, world, budget>>

-----------------------------------------------------------------------------
(* combat_action.                                                          *)

\* Mutant of Act: isResolvingLockHeld is not asked.
Act_IgnoresMark(p, a) ==
  /\ pc[p] = "idle"
  /\ MaySubmit(row.enc, p) /\ MayChoose(row.enc, p, a)
  /\ Call
  /\ Load(p)
  /\ choice' = [choice EXCEPT ![p] = a]
  /\ Goto(p, IF a = "pay" THEN "pay" ELSE "act")
  /\ UNCHANGED <<row, due, stale, world, fights, crashes, astray, torn, tries, crew, auto,
                 todo, done>>

\* Mutant of Act: paying is left to the round's resolution.
Act_PayLater(p, a) ==
  /\ pc[p] = "idle" /\ ~LockHeld
  /\ MaySubmit(row.enc, p) /\ MayChoose(row.enc, p, a)
  /\ Call
  /\ Load(p)
  /\ choice' = [choice EXCEPT ![p] = a]
  /\ Goto(p, "act")
  /\ UNCHANGED <<row, due, stale, world, fights, crashes, astray, torn, tries, crew, auto,
                 todo, done>>

Act(p, a) ==
  /\ pc[p] = "idle" /\ ~LockHeld
  /\ MaySubmit(row.enc, p) /\ MayChoose(row.enc, p, a)
  /\ Call
  /\ Load(p)
  /\ choice' = [choice EXCEPT ![p] = a]
  /\ Goto(p, IF a = "pay" THEN "pay" ELSE "act")
  /\ UNCHANGED <<row, due, stale, world, fights, crashes, astray, torn, tries, crew, auto,
                 todo, done>>

\* processTollPayment debits the ship before the column is written.
PayToll(p) ==
  /\ pc[p] = "pay" /\ charged[p] < Wealth
  /\ charged' = [charged EXCEPT ![p] = @ + 1]
  /\ Goto(p, "act")
  /\ UNCHANGED <<column, present, armed, pod, drops, budget, mem, choice, tries,
                 crew, auto, todo, done>>

TooPoor(p) ==
  /\ pc[p] = "pay" /\ charged[p] >= Wealth
  /\ current' = current \ {p}
  /\ Finish(p)
  /\ UNCHANGED <<row, due, stale, world, budget>>

Acted(p) == [mem[p] EXCEPT !.enc = Submitted(mem[p].enc, p, choice[p])]

\* The round is not complete: the action is stored.
StoreAction(p) ==
  /\ pc[p] = "act" /\ Matches(p) /\ ~RoundReady(Acted(p).enc) /\ ~due
  /\ WriteOut(Acted(p))
  /\ Finish(p)
  /\ UNCHANGED <<due, stale, world, budget>>

\* The round is complete, or its time is up: this request resolves it.
ActAndResolve(p) ==
  /\ pc[p] = "act" /\ Matches(p) /\ (RoundReady(Acted(p).enc) \/ due)
  /\ LET col == [Acted(p) EXCEPT !.marker = TRUE] IN
       Write(p, col) /\ mem' = [mem EXCEPT ![p] = col]
  /\ stale' = FALSE
  /\ Goto(p, "entered")
  /\ choice' = [choice EXCEPT ![p] = "none"]
  /\ UNCHANGED <<due, world, budget, tries, crew, auto, todo, done>>

ActConflict(p) ==
  /\ pc[p] = "act" /\ ~Matches(p)
  /\ Finish(p)
  /\ UNCHANGED <<column, world, budget>>

-----------------------------------------------------------------------------
(* combat_tick: list the combats that are due, resolve each.               *)

DeadlinePasses ==
  /\ Active /\ ~due /\ row.enc.round <= LastRound
  /\ due' = TRUE
  /\ UNCHANGED <<row, current, stale, world, budget, local>>

MarkerExpires ==
  /\ row.marker /\ ~stale
  /\ LockOutlived \/ \A q \in current : ~Resolving(q)
  /\ stale' = TRUE
  /\ UNCHANGED <<row, current, due, world, budget, local>>

\* Mutant of ListDue: combats whose mark is set are left out, however old it is.
ListDue_SkipsMarked(t) ==
  /\ pc[t] = "idle" /\ Active /\ due /\ ~row.marker
  /\ Load(t)
  /\ Goto(t, "listed")
  /\ UNCHANGED <<row, due, stale, world, budget, choice, tries, crew, auto,
                 todo, done>>

ListDue(t) ==
  /\ pc[t] = "idle" /\ Active /\ due
  /\ Load(t)
  /\ Goto(t, "listed")
  /\ UNCHANGED <<row, due, stale, world, budget, choice, tries, crew, auto,
                 todo, done>>

\* The tables and the column agree on what q has done of its round, which is not
\* the last, and q has nothing more to write in the tables.
AtPeace(q) ==
  /\ pc[q] \in {"clearing", "leaving"} /\ ~Over(mem[q].enc)
  /\ todo[q] \cap mem[q].captured = {}
  /\ q \in current => row.enc # mem[q].enc

\* The histories, when the resolutions of S are overtaken or killed.
Abandon(S) ==
  /\ astray' = (astray \/ \E q \in S : Resolving(q) /\ ~AtPeace(q))
  /\ torn' = IF \E q \in S \cap current : /\ Resolving(q) /\ ~Over(mem[q].enc)
                                         /\ row.enc # mem[q].enc
             THEN torn \cup {row.enc.round} ELSE torn

\* Mutant of TickEnters: the mark is written without the fence.
TickEnters_PlainWrite(t) ==
  /\ pc[t] = "listed"
  /\ LET col == [mem[t] EXCEPT !.marker = TRUE] IN
       Write(t, col) /\ mem' = [mem EXCEPT ![t] = col]
  /\ stale' = FALSE
  /\ Goto(t, "entered")
  /\ Abandon(Procs \ {t})
  /\ UNCHANGED <<due, world, fights, calls, crashes, choice, tries, crew, auto, todo, done>>

TickEnters(t) ==
  /\ pc[t] = "listed" /\ Matches(t)
  /\ LET col == [mem[t] EXCEPT !.marker = TRUE] IN
       Write(t, col) /\ mem' = [mem EXCEPT ![t] = col]
  /\ stale' = FALSE
  /\ Goto(t, "entered")
  /\ Abandon(Procs \ {t})
  /\ UNCHANGED <<due, world, fights, calls, crashes, choice, tries, crew, auto, todo, done>>

TickConflict(t) ==
  /\ pc[t] = "listed" /\ ~Matches(t)
  /\ Finish(t)
  /\ UNCHANGED <<column, world, budget>>

-----------------------------------------------------------------------------
(* resolveEncounterRound, once its entry has been committed.               *)

\* mem[q].enc stays the encounter the round started from: what the code has in
\* memory is this image, and what it commits at the end its next round.
Image(q) ==
  [enc      |-> Settled(mem[q].enc, done[q]),
   marker   |-> TRUE,
   captured |-> mem[q].captured \ Fled(mem[q].enc),
   salvage  |-> mem[q].salvage]

\* Mutant of Flush: the tables are written before the losses are applied.
Flush_BeforeLosses(q) ==
  /\ pc[q] = "entered"
  /\ armed' = armed \cup Living(mem[q].enc)
  /\ Goto(q, "flushed")
  /\ UNCHANGED <<column, present, pod, drops, charged, budget, mem, choice, tries,
                 crew, auto, todo, done>>

\* persistRoundOutcomeToCanonicalTables.
Flush(q) ==
  /\ pc[q] = "entered"
  /\ LET e == mem[q].enc IN
       armed' = (armed \ (Dead(e) \cup Wrecks(e)))
                  \cup (Living(e) \ Dead(e))
  /\ Goto(q, "flushed")
  /\ UNCHANGED <<column, present, pod, drops, charged, budget, mem, choice, tries,
                 crew, auto, todo, done>>

\* departSuccessfulFleers; then the wrecks are collected.
Depart(q) ==
  /\ pc[q] = "flushed"
  /\ present' = present \ Fled(mem[q].enc)
  /\ todo' = [todo EXCEPT ![q] = Wrecks(mem[q].enc)]
  /\ Goto(q, "clearing")
  /\ UNCHANGED <<column, armed, pod, drops, charged, budget, mem, choice, tries,
                 crew, auto, done>>

\* captureSalvageForDefeatedShip: what is in the hold now goes to the column's
\* salvage.  A pod's hold is empty.
Banked(q, p) ==
  [Image(q) EXCEPT !.captured = @ \cup {p},
                   !.salvage  = @ \cup ({p} \ pod)]

NextWreck(q, p) ==
  /\ pc[q] = "clearing"
  /\ p \in todo[q] \ mem[q].captured
  /\ todo[q] \cap mem[q].captured = {}

\* Mutant of Capture: the captured salvage stays in memory.
Capture_NotPersisted(q, p) ==
  /\ NextWreck(q, p) /\ Matches(q)
  /\ mem' = [mem EXCEPT ![q].captured = @ \cup {p},
                        ![q].salvage  = @ \cup ({p} \ pod)]
  /\ UNCHANGED <<column, world, budget, pc, choice, tries, crew, auto, todo, done>>

Capture(q, p) ==
  /\ NextWreck(q, p) /\ Matches(q)
  /\ Write(q, Banked(q, p))
  /\ mem' = [mem EXCEPT ![q].captured = @ \cup {p},
                        ![q].salvage  = @ \cup ({p} \ pod)]
  /\ due' = (due /\ ~Over(mem[q].enc))
  /\ UNCHANGED <<stale, world, budget, pc, choice, tries, crew, auto, todo, done>>

\* ejectDestroyedFromCombat goes on to the next wreck.
EjectConflict(q, p) ==
  /\ NextWreck(q, p) /\ ~Matches(q) /\ ~Over(mem[q].enc)
  /\ todo' = [todo EXCEPT ![q] = @ \ {p}]
  /\ UNCHANGED <<column, world, budget, pc, mem, choice, tries, crew, auto, done>>

\* finalizeCombat lets the error out of the resolution.
FinalizeConflict(q, p) ==
  /\ NextWreck(q, p) /\ ~Matches(q) /\ Over(mem[q].enc)
  /\ Finish(q)
  /\ UNCHANGED <<column, world, budget>>

\* convertShipToEscapePod: cargo and credits are wiped.
Convert(q, p) ==
  /\ pc[q] = "clearing" /\ p \in todo[q] \cap mem[q].captured
  /\ pod' = pod \cup {p}
  /\ armed' = armed \ {p}
  /\ todo' = [todo EXCEPT ![q] = @ \ {p}]
  /\ done' = [done EXCEPT ![q] = @ \cup {p}]
  /\ UNCHANGED <<column, present, drops, charged, budget, pc, mem, choice, tries,
                 crew, auto>>

\* dropPendingSalvageAtCombatEnd, when this is the last round.
Drop(q) ==
  /\ pc[q] = "clearing" /\ todo[q] = {}
  /\ IF Over(mem[q].enc)
     THEN /\ drops' = [p \in Players |->
                         IF p \in mem[q].salvage /\ drops[p] < 2
                         THEN drops[p] + 1 ELSE drops[p]]
          /\ mem' = [mem EXCEPT ![q].salvage = {}]
     ELSE UNCHANGED <<drops, mem>>
  /\ Goto(q, "leaving")
  /\ UNCHANGED <<column, present, armed, pod, charged, budget, choice, tries, crew,
                 auto, todo, done>>

\* The last write: the next round begins, or the fight is over.
Leave(q) ==
  /\ pc[q] = "leaving" /\ Matches(q)
  /\ \E luck \in Outcomes :
       WriteOut([Image(q) EXCEPT !.enc = NextRound(@, luck), !.marker = FALSE])
  /\ due' = FALSE /\ stale' = FALSE
  /\ Finish(q)
  /\ UNCHANGED <<world, budget>>

LeaveConflict(q) ==
  /\ pc[q] = "leaving" /\ ~Matches(q)
  /\ Finish(q)
  /\ UNCHANGED <<column, world, budget>>

\* The function is killed.  Only the column's mark remembers it.
Crash(q) ==
  /\ Resolving(q) \/ pc[q] = "act"
  /\ crashes < MaxCrashes
  /\ crashes' = crashes + 1
  /\ Abandon({q})
  /\ current' = current \ {q}
  /\ Finish(q)
  /\ UNCHANGED <<row, due, stale, world, fights, calls>>

-----------------------------------------------------------------------------

Resolve(q) ==
  \/ Flush(q) \/ Depart(q) \/ Drop(q) \/ Leave(q) \/ LeaveConflict(q)
  \/ \E p \in Players :
       Capture(q, p) \/ EjectConflict(q, p) \/ FinalizeConflict(q, p) \/ Convert(q, p)

Tick(t) == ListDue(t) \/ TickEnters(t) \/ TickConflict(t)

Request(p) ==
  \/ Arrive(p) \/ Look(p) \/ GiveUpJoin(p) \/ WaitOut(p) \/ Join(p) \/ RetryJoin(p)
  \/ AutoEngage(p) \/ Initiate(p) \/ StartFight(p) \/ Reinforce(p) \/ EngageConflict(p)
  \/ \E a \in Acts : Act(p, a)
  \/ PayToll(p) \/ TooPoor(p) \/ StoreAction(p) \/ ActAndResolve(p) \/ ActConflict(p)

Next ==
  \/ \E p \in Players : Request(p)
  \/ \E t \in Ticks : Tick(t)
  \/ \E q \in Procs : Resolve(q) \/ Crash(q)
  \/ DeadlinePasses
  \/ MarkerExpires

Spec == Init /\ [][Next]_vars

\* The cron job fires every 5 s for ever, and a function that is not killed
\* goes on.  Nobody has to make a request, and no deadline need pass.
Fairness ==
  /\ \A t \in Ticks : WF_vars(Tick(t))
  /\ \A q \in Procs : WF_vars(Resolve(q))

FairSpec == Spec /\ Fairness

-----------------------------------------------------------------------------
(* What the column keeps, whoever races whom and whatever is killed.       *)

IsExtension(s, t) == Len(s) <= Len(t) /\ \A i \in 1..Len(s) : t[i] = s[i]

Keeps(old, new) ==
  /\ old.paid \subseteq new.paid
  /\ IsExtension(old.log, new.log)
  /\ old.round <= new.round
  /\ old.ended => new.ended
  /\ \A p \in Players :
       old.seat[p] = "live" /\ new.seat[p] = "out" => p \in Fled(old)

\* Nothing that was once written to a fight's column is rolled back by a writer
\* that had loaded it earlier: tolls paid stay paid, rounds and logs only grow,
\* a fight that is over stays over, and a ship with fighters is only taken out
\* of the fight by its own flight (persistCombatState's fence).
NothingRolledBack ==
  [][fights' = fights => Keeps(row.enc, row'.enc)]_vars

\* A ship's cargo is wiped only when its salvage is in the column or already in
\* the sector: it is not lost with a function that dies, or a resolution that is
\* overtaken, between the two (captureSalvageForDefeatedShip and the persist
\* after it).  True of the sector's first fight; see SalvageNotOverwritten.
CargoSafe ==
  fights <= 1 => \A p \in pod : p \in row.salvage \/ drops[p] > 0

\* Peace with the garrison is never given away: whoever is on record as having
\* paid was charged (processTollPayment).
PaidForPeace == \A p \in row.enc.paid : charged[p] > 0

-----------------------------------------------------------------------------
(* Why: the invariants that every step preserves.                          *)

\* The process that the fence would let write: it has the column in memory, or,
\* once it has written a part of its round, the encounter the round began with.
Holds(q) ==
  /\ pc[q] \in {"join", "engage", "pay", "act", "listed", "entered", "flushed"} =>
       row = mem[q]
  /\ pc[q] \in {"clearing", "leaving"} =>
       \/ row.enc = mem[q].enc
       \/ \E w \in SUBSET Players : row.enc = Settled(mem[q].enc, w)

\* Nobody acts on, or resolves, a fight it has seen to be over.
Unfinished(q) ==
  pc[q] \in Stages \cup {"pay", "act", "listed"} => ~mem[q].enc.ended

\* Whoever could still write has not missed anybody's write (last_updated is
\* new after every save).
Fenced ==
  /\ \A q \in current : Holds(q)
  /\ \A q \in Procs : Unfinished(q)

Dropped == {p \in Players : drops[p] > 0}

Saved == row.salvage \cup Dropped

Accounted ==
  /\ pod \cup row.captured \subseteq Saved
  /\ \A q \in Procs : mem[q].captured \subseteq Saved
  /\ \A q \in current : Resolving(q) => row.salvage \subseteq mem[q].salvage \cup Dropped

Untouched ==
  /\ row.enc.ended /\ pod \cup row.captured = {}
  /\ \A q \in Procs : mem[q].enc.ended /\ mem[q].captured = {}

\* In the sector's first fight, what any process takes for captured is in the
\* column or in the sector, and a resolution that may still write has in memory
\* all that the column has and the sector has not.
CargoAccounted == (fights <= 1 => Accounted) /\ (fights = 0 => Untouched)

\* Also in the memory of whoever is about to write, and for the request that has
\* debited the ship and not yet written, the toll was charged.
TollsCharged ==
  /\ PaidForPeace
  /\ \A q \in Procs : \A p \in mem[q].enc.paid : charged[p] > 0
  /\ \A p \in Players : pc[p] = "act" /\ choice[p] = "pay" => charged[p] > 0

-----------------------------------------------------------------------------
(* What a round does to the world outside the column.                      *)

\* A wreck is made once: its salvage is put in the sector once, and no write of
\* an overtaken resolution gives the escape pod its fighters back.  A tick enters
\* the round of a resolution that still runs, marked or not (listDueCombats):
\* excused is what follows when it does so, or a kill falls, while the tables are
\* or are to be ahead of the column (astray).
WreckedOnce ==
  /\ astray \/ \A p \in Players : drops[p] <= 1
  /\ astray \/ armed \cap pod = {}

\* Between resolutions the canonical tables agree with the column: whoever still
\* fights is still in the sector, and ships have fighters, and the garrison its
\* row, exactly if their entry has.  A resolution that was overtaken does not
\* matter, running or not, unless it is excused as above.
TablesAgree ==
  Active /\ ~astray /\ (\A q \in current : ~Resolving(q)) =>
    /\ Living(row.enc) \subseteq present
    /\ \A p \in Players : row.enc.seat[p] # "out" =>
                          (p \in armed <=> row.enc.seat[p] = "live")
    /\ row.enc.guard <=> Garrison \in armed

\* Every round is resolved once, whichever requests and ticks enter it: the log
\* has one entry for each, in order.  Only a round of which a part had reached the
\* column when its resolution was overtaken or killed (torn) is resolved again.
RoundsOnce ==
  LET log == row.enc.log IN
  \A i \in DOMAIN log :
    IF i = 1 THEN log[i] = 1
    ELSE \/ log[i] = log[i - 1] + 1
         \/ log[i] = log[i - 1] /\ log[i] \in torn

\* The resolution that has yet to put this wreck's salvage in the sector lives.
WillDrop(p) ==
  \E q \in Procs : Resolving(q) /\ Over(mem[q].enc) /\ p \in mem[q].salvage

\* The salvage of a stripped ship is not lost with the function that was to drop
\* it: a new fight does not replace a column with salvage that is neither in the
\* sector nor with anybody alive who will put it there.
SalvageNotOverwritten ==
  [][fights' # fights =>
       \A p \in row.salvage \cap pod : drops[p] > 0 \/ WillDrop(p)]_vars

\* Once its time is up a round is resolved.
RoundsEnd ==
  \A r \in 1..(LastRound + 1) :
    (Active /\ due /\ row.enc.round = r) ~> (~Active \/ row.enc.round # r)

=============================================================================
