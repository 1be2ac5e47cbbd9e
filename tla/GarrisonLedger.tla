--------------------------- MODULE GarrisonLedger ---------------------------
(***************************************************************************)
(* The fighters and tolls of the garrisons, and the four functions that    *)
(* move them: combat_leave_fighters, combat_collect_fighters,              *)
(* combat_disband_garrison and combat_set_garrison_mode, with the fights   *)
(* that write the same rows.                                               *)
(*                                                                         *)
(* Leaving and collecting are transactions that take the sector's advisory *)
(* lock and then the rows they need, in different orders. Disbanding and   *)
(* changing the mode are a read followed by statements of their own. A     *)
(* fight has its own copy of the numbers and writes that copy back.        *)
(***************************************************************************)
EXTENDS Integers, FiniteSets, Functions

CONSTANTS
  Ships,        \* ships, each with the one pilot who flies it
  Sectors,      \* sectors outside Federation Space
  Corp,         \* Corp[s]: the effective corporation of the pilot of s
  NoCorp,       \* the pilot is in none
  Jobs,         \* requests that may overlap
  Kinds,        \* which of the four functions are called
  Quantities,   \* numbers of fighters asked for
  Opening,      \* fighters each ship starts with
  Standing,     \* Standing[x]: the garrison of sector x at first, or none
  Berth,        \* Berth[s]: the sector of ship s at first
  Bay,          \* fighters a ship has room for (ship_definitions.fighters)
  MaxGarrison,  \* MAX_GARRISON_FIGHTERS
  MaxRequests,  \* bound of the model: requests made
  MaxFights,    \* bound of the model: fights started
  MaxMoves      \* bound of the model: moves between the sectors

Modes == {"toll", "defensive"}
GarrisonRow == [owner : Ships, fighters : 1..MaxGarrison, mode : Modes, toll : Nat]

ASSUME CorpAssumption == Corp \in [Ships -> {Corp[s] : s \in Ships}]
ASSUME NumbersAssumption ==
  /\ Quantities \subseteq Nat \ {0}
  /\ Opening \in Nat /\ Bay \in Nat /\ MaxGarrison \in Nat
  /\ MaxRequests \in Nat /\ MaxFights \in Nat /\ MaxMoves \in Nat
  /\ Kinds \subseteq {"leave", "collect", "disband", "mode"}
ASSUME StartAssumption ==
  /\ Ships # {} /\ Sectors # {}
  /\ IsFiniteSet(Ships) /\ IsFiniteSet(Sectors) /\ IsFiniteSet(Jobs)
  /\ Berth \in [Ships -> Sectors]
  /\ Standing \in [Sectors -> SUBSET GarrisonRow]
  /\ \A x \in Sectors : \A r, q \in Standing[x] : r = q

VARIABLES
  gar,     \* gar[x]: the rows of garrisons for sector x
  bays,    \* current_fighters of each ship
  place,   \* current_sector of each ship
  fight,   \* the encounter of each sector: its copy of the numbers
  jobs,    \* what each request has in memory
  tolls,   \* history: credits tolls took from purses, payouts gave back, and
           \* garrisons took with them
  lost,    \* history: fighters shot or disbanded
  fielded, \* history: fighters there were at first
  crossed, \* history: what was written behind the back of a running fight,
           \* or between a disband's read and its delete
  budget   \* bounds: requests, fights and moves left

vars == <<gar, bays, place, fight, jobs, tolls, lost, fielded, crossed, budget>>

NoFight == [guard |-> {}, crew |-> [s \in {} |-> 0], paid |-> {}, on |-> FALSE]
Resting == [kind |-> "none", step |-> "idle", ship |-> CHOOSE s \in Ships : TRUE,
            at |-> CHOOSE x \in Sectors : TRUE, asked |-> 0, mode |-> "toll",
            read |-> {}]

Total(f, S) == SumFunctionOnSet(f, S)
Stationed(x) == Total([r \in gar[x] |-> r.fighters], gar[x])
Balance(x) == Total([r \in gar[x] |-> r.toll], gar[x])

Friendly(a, b) == a = b \/ (Corp[a] = Corp[b] /\ Corp[a] # NoCorp)
Smaller(a, b) == IF a <= b THEN a ELSE b

-----------------------------------------------------------------------------
(* Locks. They are held to the end of the transaction, and by nobody who   *)
(* is not in one.                                                          *)

InTransaction(j) == jobs[j].step \in {"first", "second", "commit"}

\* pg_advisory_xact_lock(sector): shared by leaving and collecting.
SectorLocked(x) == \E j \in Jobs : InTransaction(j) /\ jobs[j].at = x

\* SELECT ... FOR UPDATE of the garrison rows: the first rows that leaving
\* locks, the second that collecting locks. No row, no lock.
GarrisonLocked(x) ==
  \E j \in Jobs :
    /\ jobs[j].at = x /\ jobs[j].read # {}
    /\ \/ jobs[j].kind = "leave" /\ jobs[j].step \in {"second", "commit"}
       \/ jobs[j].kind = "collect" /\ jobs[j].step = "commit"

\* SELECT ... FOR UPDATE of the ship: the other way round.
ShipLocked(s) ==
  \E j \in Jobs :
    /\ jobs[j].ship = s
    /\ \/ jobs[j].kind = "collect" /\ jobs[j].step \in {"second", "commit"}
       \/ jobs[j].kind = "leave" /\ jobs[j].step = "commit"

-----------------------------------------------------------------------------
Init ==
  /\ gar = Standing
  /\ bays = [s \in Ships |-> Opening]
  /\ place = Berth
  /\ fight = [x \in Sectors |-> NoFight]
  /\ jobs = [j \in Jobs |-> Resting]
  /\ tolls = [paid |-> Total([x \in Sectors |-> Balance(x)], Sectors), out |-> 0, gone |-> 0]
  /\ fielded = Cardinality(Ships) * Opening + Total([x \in Sectors |-> Stationed(x)], Sectors)
  /\ lost = 0
  /\ crossed = {}
  /\ budget = [requests |-> MaxRequests, fights |-> MaxFights, moves |-> MaxMoves]

Become(j, job) == jobs' = [jobs EXCEPT ![j] = job]
Spent(what) == budget' = [budget EXCEPT ![what] = @ - 1]

\* A request arrives. Where the ship is, is checked for leaving alone, before
\* the transaction and again in it.
Call(j, kind, s, x, n, mode) ==
  /\ kind \in Kinds
  /\ jobs[j].step = "idle" /\ budget.requests > 0
  /\ kind = "leave" => place[s] = x /\ n <= MaxGarrison
  /\ Become(j, [kind |-> kind, step |-> "begin", ship |-> s, at |-> x,
                asked |-> n, mode |-> mode, read |-> {}])
  /\ Spent("requests")
  /\ UNCHANGED <<fielded, gar, bays, place, fight, tolls, lost, crossed>>

Requests(j) ==
  \E s \in Ships, x \in Sectors :
    \/ \E n \in Quantities, m \in Modes : Call(j, "leave", s, x, n, m)
    \/ \E n \in Quantities : Call(j, "collect", s, x, n, "toll")
    \/ Call(j, "disband", s, x, 0, "toll")
    \/ \E m \in Modes : Call(j, "mode", s, x, 0, m)

\* Mutant: sectors are not locked.
Begin_Unlocked(j) ==
  LET x == jobs[j] IN
  /\ x.step = "begin" /\ x.kind \in {"leave", "collect"}
  /\ Become(j, [x EXCEPT !.step = "first"])
  /\ UNCHANGED <<fielded, gar, bays, place, fight, tolls, lost, crossed, budget>>

Begin(j) ==
  LET x == jobs[j] IN
  /\ x.step = "begin" /\ x.kind \in {"leave", "collect"}
  /\ ~SectorLocked(x.at)
  /\ Become(j, [x EXCEPT !.step = "first"])
  /\ UNCHANGED <<fielded, gar, bays, place, fight, tolls, lost, crossed, budget>>

\* Any error rolls the transaction back and releases its locks.
RollBack(j) == Become(j, Resting)
Proceed(j, ok, job) == IF ok THEN Become(j, job) ELSE RollBack(j)

-----------------------------------------------------------------------------
(* runLeaveFightersTransaction. *)

\* The garrison of the sector, if any, must be one, friendly, and have room.
\* Mutant: only the number asked for is held against the cap.
MayReinforce_CapOnAsked(x, rows) ==
  /\ \A a, b \in rows : a = b
  /\ \A r \in rows : Friendly(r.owner, x.ship)

MayReinforce(x, rows) ==
  /\ \A a, b \in rows : a = b
  /\ \A r \in rows : /\ Friendly(r.owner, x.ship)
                     /\ r.fighters + x.asked <= MaxGarrison

LeaveRows(j) ==
  LET x == jobs[j] IN
  /\ x.kind = "leave" /\ x.step = "first"
  /\ ~GarrisonLocked(x.at)
  /\ Proceed(j, MayReinforce(x, gar[x.at]),
             [x EXCEPT !.step = "second", !.read = gar[x.at]])
  /\ UNCHANGED <<fielded, gar, bays, place, fight, tolls, lost, crossed, budget>>

\* Mutant: where the ship is, was checked before the transaction.
LeaveShip_CheckedBefore(j) ==
  LET x == jobs[j] IN
  /\ x.kind = "leave" /\ x.step = "second"
  /\ ~ShipLocked(x.ship)
  /\ Proceed(j, x.asked <= bays[x.ship], [x EXCEPT !.step = "commit"])
  /\ UNCHANGED <<fielded, gar, bays, place, fight, tolls, lost, crossed, budget>>

LeaveShip(j) ==
  LET x == jobs[j] IN
  /\ x.kind = "leave" /\ x.step = "second"
  /\ ~ShipLocked(x.ship)
  /\ Proceed(j, place[x.ship] = x.at /\ x.asked <= bays[x.ship],
             [x EXCEPT !.step = "commit"])
  /\ UNCHANGED <<fielded, gar, bays, place, fight, tolls, lost, crossed, budget>>

\* A reinforcement adds fighters; one by the owner also sets the mode. The
\* balance of a new garrison is zero, that of an old one is kept.
Reinforced(x, rows) ==
  IF x.read = {}
  THEN rows \cup
       {[owner |-> x.ship, fighters |-> x.asked, mode |-> x.mode, toll |-> 0]}
  ELSE {[r EXCEPT !.fighters = @ + x.asked,
                  !.mode = IF r.owner = x.ship THEN x.mode ELSE @] : r \in rows}

\* The request writes what a running fight has its own copy of.
Behind(x) ==
  IF \E y \in Sectors :
       fight[y].on /\ (y = x.at \/ x.ship \in DOMAIN fight[y].crew)
  THEN {"fight"} ELSE {}

CommitLeave(j) ==
  LET x == jobs[j] IN
  /\ x.kind = "leave" /\ x.step = "commit"
  /\ bays' = [bays EXCEPT ![x.ship] = @ - x.asked]
  /\ gar' = [gar EXCEPT ![x.at] = Reinforced(x, @)]
  /\ crossed' = crossed \cup Behind(x)
  /\ RollBack(j)
  /\ UNCHANGED <<fielded, place, fight, tolls, lost, budget>>

-----------------------------------------------------------------------------
(* runCollectFightersTransaction: the ship may be anywhere. *)

CollectShip(j) ==
  LET x == jobs[j] IN
  /\ x.kind = "collect" /\ x.step = "first"
  /\ ~ShipLocked(x.ship)
  /\ Proceed(j, bays[x.ship] < Bay, [x EXCEPT !.step = "second"])
  /\ UNCHANGED <<fielded, gar, bays, place, fight, tolls, lost, crossed, budget>>

MayCollect(x, rows) ==
  /\ rows # {}
  /\ \A a, b \in rows : a = b
  /\ \A r \in rows : Friendly(r.owner, x.ship)

CollectRows(j) ==
  LET x == jobs[j] IN
  /\ x.kind = "collect" /\ x.step = "second"
  /\ ~GarrisonLocked(x.at)
  /\ Proceed(j, MayCollect(x, gar[x.at]),
             [x EXCEPT !.step = "commit", !.read = gar[x.at]])
  /\ UNCHANGED <<fielded, gar, bays, place, fight, tolls, lost, crossed, budget>>

\* Mutant: only the room in the bay limits what is taken.
Taken_RoomOnly(x, r) == Smaller(x.asked, Bay - bays[x.ship])
Taken(x, r) == Smaller(x.asked, Smaller(r.fighters, Bay - bays[x.ship]))

Payout(r) == IF r.mode = "toll" THEN r.toll ELSE 0

\* Mutant: the balance stays with the fighters that stay.
Remainder_KeepsToll(r, n) ==
  IF r.fighters > n THEN {[r EXCEPT !.fighters = @ - n]} ELSE {}

\* What is left of a garrison that gives up n fighters and its balance.
Remainder(r, n) ==
  IF r.fighters > n THEN {[r EXCEPT !.fighters = @ - n, !.toll = 0]} ELSE {}

CommitCollect(j) ==
  LET x == jobs[j] IN
  /\ x.kind = "collect" /\ x.step = "commit"
  /\ \E r \in x.read :
       LET n == Taken(x, r) IN
       /\ bays' = [bays EXCEPT ![x.ship] = @ + n]
       /\ gar' = [gar EXCEPT ![x.at] = Remainder(r, n)]
       /\ tolls' = [tolls EXCEPT !.out = @ + Payout(r),
                                 !.gone = @ + r.toll - Payout(r)]
  /\ crossed' = crossed \cup Behind(x)
  /\ RollBack(j)
  /\ UNCHANGED <<fielded, place, fight, lost, budget>>

-----------------------------------------------------------------------------
(* combat_disband_garrison and combat_set_garrison_mode: a read, and then  *)
(* statements of their own.                                                *)

ReadGarrison(j) ==
  LET x == jobs[j] IN
  /\ x.kind \in {"disband", "mode"} /\ x.step = "begin"
  /\ IF \E r \in gar[x.at] : Friendly(r.owner, x.ship)
     THEN \E r \in gar[x.at] :
            /\ Friendly(r.owner, x.ship)
            /\ Become(j, [x EXCEPT !.read = {r},
                          !.step = IF x.kind = "mode" THEN "write"
                                   ELSE IF Payout(r) > 0 THEN "pay" ELSE "delete"])
     ELSE RollBack(j)
  /\ UNCHANGED <<fielded, gar, bays, place, fight, tolls, lost, crossed, budget>>

Outdated(x) == IF x.read \subseteq gar[x.at] THEN {} ELSE {"disband"}

PayOut(j) ==
  LET x == jobs[j] IN
  /\ x.step = "pay"
  /\ ~ShipLocked(x.ship)
  /\ \E r \in x.read : tolls' = [tolls EXCEPT !.out = @ + Payout(r)]
  /\ crossed' = crossed \cup Outdated(x)
  /\ Become(j, [x EXCEPT !.step = "delete"])
  /\ UNCHANGED <<fielded, gar, bays, place, fight, lost, budget>>

\* DELETE ... WHERE owner_id = the owner that was read, whatever the row holds.
Delete(j) ==
  LET x == jobs[j] IN
  /\ x.step = "delete"
  /\ ~GarrisonLocked(x.at)
  /\ \E r \in x.read :
       LET doomed == {d \in gar[x.at] : d.owner = r.owner} IN
       /\ gar' = [gar EXCEPT ![x.at] = @ \ doomed]
       /\ lost' = lost + Total([d \in doomed |-> d.fighters], doomed)
       /\ tolls' = [tolls EXCEPT !.gone =
                      @ + Total([d \in doomed |-> d.toll], doomed)
                        - Payout(r)]
  /\ crossed' = crossed \cup Outdated(x) \cup Behind(x)
  /\ RollBack(j)
  /\ UNCHANGED <<fielded, bays, place, fight, budget>>

SetMode(j) ==
  LET x == jobs[j] IN
  /\ x.step = "write"
  /\ ~GarrisonLocked(x.at)
  /\ \E r \in x.read :
       gar' = [gar EXCEPT ![x.at] =
                 {IF d.owner = r.owner THEN [d EXCEPT !.mode = x.mode] ELSE d : d \in @}]
  /\ RollBack(j)
  /\ UNCHANGED <<fielded, bays, place, fight, tolls, lost, crossed, budget>>

\* A function is killed: its transaction is rolled back, and what a disband
\* has paid stays paid.
Kill(j) ==
  /\ jobs[j].step # "idle"
  /\ crossed' = crossed \cup IF jobs[j].step = "delete" THEN {"disband"} ELSE {}
  /\ RollBack(j)
  /\ UNCHANGED <<fielded, gar, bays, place, fight, tolls, lost, budget>>

-----------------------------------------------------------------------------
(* Fights and moves, as far as they touch these rows.                      *)

\* initiateGarrisonCombat and its like copy the rows of the sector.
StartFight(x) ==
  LET crew == {s \in Ships : place[s] = x} IN
  /\ ~fight[x].on /\ budget.fights > 0
  /\ Cardinality(crew) + Cardinality(gar[x]) >= 2
  /\ fight' = [fight EXCEPT ![x] =
       [guard |-> gar[x], crew |-> [s \in crew |-> bays[s]], paid |-> {}, on |-> TRUE]]
  /\ Spent("fights")
  /\ UNCHANGED <<fielded, gar, bays, place, jobs, tolls, lost, crossed>>

\* The row of g's owner as a round writes it: gone when no fighter is left.
Persisted(rows, g) ==
  IF g.fighters > 0
  THEN {IF r.owner = g.owner THEN [r EXCEPT !.fighters = g.fighters] ELSE r : r \in rows}
  ELSE {r \in rows : r.owner # g.owner}

\* persistRoundOutcomeToCanonicalTables: every fighter count is written from
\* the encounter's copy, from which one fighter was shot.
Round(x, guard, crew) ==
  /\ ~GarrisonLocked(x)
  /\ \A s \in DOMAIN crew : ~ShipLocked(s)
  /\ \E g \in guard : gar' = [gar EXCEPT ![x] = Persisted(@, g)]
  /\ bays' = [s \in Ships |-> IF s \in DOMAIN crew THEN crew[s] ELSE bays[s]]
  /\ fight' = [fight EXCEPT ![x].guard = {g \in guard : g.fighters > 0},
                            ![x].crew = crew]
  /\ lost' = lost + 1

ShootGarrison(x) ==
  /\ fight[x].on
  /\ \E g \in fight[x].guard :
       LET hit == [g EXCEPT !.fighters = @ - 1] IN
       /\ Round(x, {hit}, fight[x].crew)
       /\ tolls' = [tolls EXCEPT !.gone =
            @ + IF hit.fighters = 0
                THEN Total([r \in gar[x] |-> r.toll],
                                      {r \in gar[x] : r.owner = g.owner})
                ELSE 0]
  /\ UNCHANGED <<fielded, place, jobs, crossed, budget>>

ShootShip(x) ==
  /\ fight[x].on
  /\ \E s \in DOMAIN fight[x].crew :
       LET crew == [fight[x].crew EXCEPT ![s] = @ - 1] IN
       /\ crew[s] >= 0
       /\ IF fight[x].guard # {} THEN Round(x, fight[x].guard, crew)
          ELSE /\ \A t \in DOMAIN crew : ~ShipLocked(t)
               /\ bays' = [t \in Ships |-> IF t \in DOMAIN crew THEN crew[t] ELSE bays[t]]
               /\ fight' = [fight EXCEPT ![x].crew = crew]
               /\ lost' = lost + 1 /\ UNCHANGED gar
  /\ UNCHANGED <<fielded, place, jobs, tolls, crossed, budget>>

\* processTollPayment: the balance is written from the encounter's copy.
PayToll(x, s) ==
  /\ fight[x].on /\ s \in DOMAIN fight[x].crew \ fight[x].paid
  /\ ~GarrisonLocked(x) /\ ~ShipLocked(s)
  /\ \E g \in fight[x].guard :
       LET due == [g EXCEPT !.toll = @ + 1] IN
       /\ g.mode = "toll" /\ ~Friendly(g.owner, s)
       /\ gar' = [gar EXCEPT ![x] =
            {IF r.owner = g.owner THEN [r EXCEPT !.toll = due.toll] ELSE r : r \in @}]
       /\ fight' = [fight EXCEPT ![x].guard = {due}, ![x].paid = @ \cup {s}]
  /\ tolls' = [tolls EXCEPT !.paid = @ + 1]
  /\ UNCHANGED <<fielded, bays, place, jobs, lost, crossed, budget>>

EndFight(x) ==
  /\ fight[x].on
  /\ fight' = [fight EXCEPT ![x] = NoFight]
  /\ UNCHANGED <<fielded, gar, bays, place, jobs, tolls, lost, crossed, budget>>

\* A ship that is not in a fight moves, and joins a fight where it arrives.
Move(s, x) ==
  /\ place[s] # x /\ budget.moves > 0
  /\ \A y \in Sectors : s \notin DOMAIN fight[y].crew
  /\ ~ShipLocked(s)
  /\ place' = [place EXCEPT ![s] = x]
  /\ LET new == IF fight[x].on THEN {s} ELSE {} IN
     fight' = [fight EXCEPT ![x].crew =
                 [t \in DOMAIN @ \cup new |-> IF t \in new THEN bays[t] ELSE @[t]]]
  /\ Spent("moves")
  /\ UNCHANGED <<fielded, gar, bays, jobs, tolls, lost, crossed>>

-----------------------------------------------------------------------------
JobStep(j) ==
  \/ Begin(j) \/ LeaveRows(j) \/ LeaveShip(j) \/ CommitLeave(j)
  \/ CollectShip(j) \/ CollectRows(j) \/ CommitCollect(j)
  \/ ReadGarrison(j) \/ PayOut(j) \/ Delete(j) \/ SetMode(j)

Next ==
  \/ \E j \in Jobs : Requests(j) \/ JobStep(j) \/ Kill(j)
  \/ \E x \in Sectors :
       \/ StartFight(x) \/ ShootGarrison(x) \/ ShootShip(x) \/ EndFight(x)
       \/ \E s \in Ships : PayToll(x, s) \/ Move(s, x)

Spec == Init /\ [][Next]_vars

-----------------------------------------------------------------------------
(* Properties. *)

JobStates ==
  [kind : {"none", "leave", "collect", "disband", "mode"},
   step : {"idle", "begin", "first", "second", "commit", "pay", "delete", "write"},
   ship : Ships, at : Sectors, asked : Nat, mode : Modes, read : SUBSET GarrisonRow]

FightStates(crew) ==
  [guard : SUBSET GarrisonRow, crew : [crew -> Nat], paid : SUBSET Ships, on : BOOLEAN]

\* Every table and every copy keeps its shape: a garrison has at least one
\* fighter and never more than MAX_GARRISON_FIGHTERS, a ship not fewer than none.
TypeOK ==
  /\ gar \in [Sectors -> SUBSET GarrisonRow]
  /\ bays \in [Ships -> Nat]
  /\ place \in [Ships -> Sectors]
  /\ fight = [x \in Sectors |-> fight[x]]
  /\ \A x \in Sectors : /\ DOMAIN fight[x].crew \subseteq Ships
                         /\ fight[x] \in FightStates(DOMAIN fight[x].crew)
  /\ jobs \in [Jobs -> JobStates]

\* A sector has one garrison at most: two pilots who deploy at the same time
\* do not both find it empty (the advisory lock; the table's key would allow
\* a row for each).
OneGarrison == \A x \in Sectors : \A a, b \in gar[x] : a = b

\* Fighters move between ships and garrisons and are neither made nor lost but
\* by shots and disbanding, whatever overlaps and whatever is killed, as long
\* as nobody moves fighters that a running fight has its own count of.
FightersAccounted ==
  "fight" \notin crossed =>
    Total(bays, Ships) + Total([x \in Sectors |-> Stationed(x)], Sectors) + lost
      = fielded

\* A toll that was paid is in a balance, paid out once, or gone with its
\* garrison, unless a disband was overtaken or a fight had its own copy.
TollsAccounted ==
  crossed = {} /\ (\A j \in Jobs : jobs[j].step # "delete") =>
    tolls.paid = tolls.out + tolls.gone + Total([x \in Sectors |-> Balance(x)], Sectors)

\* A garrison grows from a ship that is in its sector at that very moment,
\* though the ship may have left since the request was checked.
DeployedOnTheSpot ==
  [][\A x \in Sectors :
       fight' = fight /\ Stationed(x)' > Stationed(x)
       => \E s \in Ships : place[s] = x /\ bays'[s] < bays[s]]_vars

\* j is held up by k, which holds the lock j asks for next.
HeldUp(j, k) ==
  LET x == jobs[j] IN
  \/ /\ x.kind = "leave" /\ x.step = "second"
     /\ jobs[k].kind = "collect" /\ jobs[k].step \in {"second", "commit"}
     /\ jobs[k].ship = x.ship
  \/ /\ x.kind = "collect" /\ x.step = "second"
     /\ jobs[k].kind = "leave" /\ jobs[k].step \in {"second", "commit"}
     /\ jobs[k].at = x.at /\ jobs[k].read # {}

\* Leaving locks the garrison and then the ship, collecting the ship and then
\* the garrison, and still no two of them wait for one another.
NoLockCycle == \A j, k \in Jobs : ~(HeldUp(j, k) /\ HeldUp(k, j))
=============================================================================
