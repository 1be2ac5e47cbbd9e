----------------------------- MODULE Hyperspace -----------------------------
(***************************************************************************)
(* Jumps between sectors and the warp power they cost: the functions move, *)
(* my_status, join, recharge_warp_power and transfer_warp_power, and the   *)
(* flight from a fight, as far as they write a ship's place and tank.      *)
(*                                                                         *)
(* A jump is carried by the function that started it: it enters            *)
(* hyperspace in one guarded statement, sleeps, and leaves in a statement  *)
(* that has no guard. Whoever finds a ship past its arrival by more than   *)
(* the threshold takes its function for dead and finishes for it. Time     *)
(* counts down in ticks, for each ship and each function of its own.       *)
(***************************************************************************)
EXTENDS Integers, FiniteSets, Functions

CONSTANTS
  Ships,       \* ships, each with a pilot
  Sectors,     \* sectors
  Warps,       \* Warps[x]: the sectors one jump from x
  Depots,      \* sectors with a mega-port
  Berth,       \* Berth[s]: the sector of ship s at first
  Jobs,        \* requests that may overlap
  Tank,        \* warp_power_capacity
  Full,        \* warp power each ship has at first
  Cost,        \* turns_per_warp
  Flight,      \* ticks a jump takes
  Threshold,   \* ticks past the arrival after which a ship is stuck
  Slack,       \* ticks past the arrival within which a living function ends
  Units,       \* units of warp power asked for
  MaxCalls,    \* bound of the model: calls other than of my_status
  MaxFaults    \* bound of the model: kills and failed steps

ASSUME ShipsAssumption == IsFiniteSet(Ships) /\ Ships # {}
ASSUME JobsAssumption == IsFiniteSet(Jobs)
ASSUME MapAssumption == Warps \in [Sectors -> SUBSET Sectors] /\ Berth \in [Ships -> Sectors]
ASSUME WarpAssumption ==
  Cost \in Nat /\ Tank \in Nat /\ Full \in 0..Tank /\ Units \subseteq Nat \ {0}
ASSUME TimeAssumption ==
  Flight \in Nat /\ Threshold \in Nat /\ Slack \in Nat /\ Slack <= Threshold
ASSUME BoundAssumption == MaxCalls \in Nat /\ MaxFaults \in Nat

VARIABLES
  ship,    \* rows of ship_instances
  jobs,    \* what each request has in memory
  out,     \* history: warp power burnt by jumps, less what was bought
  cut,     \* history: what may bring a ship off its way or its books
  budget   \* bounds: calls and faults left

vars == <<ship, jobs, out, cut, budget>>

Never == -(Threshold + 1)   \* time stops here: the ship is stuck
Ticks == Never..Flight
Row == [sector : Sectors, hyper : BOOLEAN, dest : Sectors, left : Ticks, warp : 0..Tank]
Steps == {"idle", "recover", "start", "jump", "arrived", "abort", "back",
          "join", "recharge", "debit", "credit"}
Job == [step : Steps, ship : Ships, from : Sectors, dest : Sectors, stuck : Sectors,
        left : Ticks, warp : 0..Tank, other : Ships, has : 0..Tank, units : 0..Tank,
        then : BOOLEAN]
AnySector == CHOOSE x \in Sectors : TRUE
AnyShip == CHOOSE s \in Ships : TRUE
Resting == [step |-> "idle", ship |-> AnyShip, from |-> AnySector, dest |-> AnySector,
            stuck |-> AnySector, left |-> Never, warp |-> 0, other |-> AnyShip,
            has |-> 0, units |-> 0, then |-> FALSE]

Init ==
  /\ ship = [s \in Ships |-> [sector |-> Berth[s], hyper |-> FALSE, dest |-> Berth[s],
                              left |-> Never, warp |-> Full]]
  /\ jobs = [j \in Jobs |-> Resting]
  /\ out = 0
  /\ cut = {}
  /\ budget = [calls |-> MaxCalls, faults |-> MaxFaults]

Lesser(a, b) == IF a <= b THEN a ELSE b
Become(j, job) == jobs' = [jobs EXCEPT ![j] = job]
EndJob(j) == Become(j, Resting)
Spent(what) == budget[what] > 0 /\ budget' = [budget EXCEPT ![what] = @ - 1]

\* Past the arrival by more than the threshold, with a destination on record.
Overdue(s) == ship[s].hyper /\ ship[s].left = Never

\* pgFinishHyperspace, and what join writes: a place, on no condition.
Landed(s, x) ==
  [ship EXCEPT ![s] = [@ EXCEPT !.sector = x, !.hyper = FALSE, !.dest = x, !.left = Never]]

-----------------------------------------------------------------------------
(* move: the row is read once, and everything is checked on that reading.  *)

\* Adjacency and fuel, for a ship in sector x: go on to the jump or refuse.
Cleared(job, x) ==
  IF job.dest \in Warps[x] /\ job.warp >= Cost
  THEN [job EXCEPT !.step = "start", !.from = x, !.left = Flight] ELSE Resting

Ask(j, s, d) ==
  LET job == [Resting EXCEPT !.ship = s, !.dest = d, !.from = ship[s].sector,
                             !.warp = ship[s].warp] IN
  /\ jobs[j].step = "idle" /\ Spent("calls")
  /\ ship[s].hyper => Overdue(s)
  /\ Become(j, IF ship[s].hyper
               THEN [job EXCEPT !.step = "recover", !.stuck = ship[s].dest, !.then = TRUE]
               ELSE Cleared(job, ship[s].sector))
  /\ UNCHANGED <<ship, out, cut>>

\* The recovery of a stuck ship, by move (which then goes on) and by
\* my_status. It is off the mark when the ship is not stuck there any more.
Recover(j) ==
  LET job == jobs[j] s == job.ship IN
  /\ job.step = "recover"
  /\ ship' = Landed(s, job.stuck)
  /\ cut' = cut \cup IF Overdue(s) /\ ship[s].dest = job.stuck THEN {} ELSE {"recovery"}
  /\ Become(j, IF job.then THEN Cleared(job, job.stuck) ELSE Resting)
  /\ UNCHANGED <<out, budget>>

\* A tank is written from what was read of it. That makes warp power if the
\* tank has less by now; if it has more, what came in since is lost.
OffBooks(s, warp) == IF warp <= ship[s].warp THEN {} ELSE {"warp"}

EnterHyperspace(j) ==
  LET job == jobs[j] s == job.ship IN
  /\ ship' = [ship EXCEPT ![s] = [@ EXCEPT !.hyper = TRUE, !.dest = job.dest,
                                           !.left = job.left, !.warp = job.warp - Cost]]
  /\ out' = out + Cost
  /\ cut' = cut \cup OffBooks(s, job.warp)

\* Started beside other statements, the failure of any of which ends the
\* request and leaves the ship in hyperspace.
Carried(j) ==
  \/ Become(j, [jobs[j] EXCEPT !.step = "jump"]) /\ UNCHANGED budget
  \/ EndJob(j) /\ Spent("faults")

\* Mutant: only the flag is tested, and not the sector.
Start_AnySector(j) ==
  LET job == jobs[j] s == job.ship IN
  /\ job.step = "start"
  /\ IF ~ship[s].hyper
     THEN EnterHyperspace(j) /\ Carried(j)
     ELSE EndJob(j) /\ UNCHANGED <<ship, out, cut, budget>>

\* Mutant: only the sector is tested, and not the flag.
Start_Again(j) ==
  LET job == jobs[j] s == job.ship IN
  /\ job.step = "start"
  /\ IF ship[s].sector = job.from
     THEN EnterHyperspace(j) /\ Carried(j)
     ELSE EndJob(j) /\ UNCHANGED <<ship, out, cut, budget>>

Start(j) ==
  LET job == jobs[j] s == job.ship IN
  /\ job.step = "start"
  /\ IF ~ship[s].hyper /\ ship[s].sector = job.from
     THEN EnterHyperspace(j) /\ Carried(j)
     ELSE EndJob(j) /\ UNCHANGED <<ship, out, cut, budget>>

\* completeMovement: after the delay, the ship is put down.
Finish(j) ==
  LET job == jobs[j] IN
  /\ job.step = "jump" /\ job.left <= 0
  /\ ship' = Landed(job.ship, job.dest)
  /\ Become(j, [job EXCEPT !.step = "arrived"])
  /\ UNCHANGED <<out, cut, budget>>

FinishFails(j) ==
  /\ jobs[j].step = "jump" /\ jobs[j].left <= 0 /\ Spent("faults")
  /\ Become(j, [jobs[j] EXCEPT !.step = "abort"])
  /\ UNCHANGED <<ship, out, cut>>

\* The status, the map and the events of the arrival, any of which may fail.
Report(j) ==
  /\ jobs[j].step = "arrived"
  /\ \/ EndJob(j) /\ UNCHANGED budget
     \/ Become(j, [jobs[j] EXCEPT !.step = "back"]) /\ Spent("faults")
  /\ UNCHANGED <<ship, out, cut>>

\* The finally block: whatever failed, the ship is back where it came from.
Cleanup(j) ==
  LET job == jobs[j] IN
  /\ job.step \in {"abort", "back"}
  /\ ship' = Landed(job.ship, job.from)
  /\ cut' = cut \cup IF job.step = "back" THEN {"back"} ELSE {}
  /\ EndJob(j)
  /\ UNCHANGED <<out, budget>>

-----------------------------------------------------------------------------
\* Mutant: a ship in hyperspace is refused its status, stuck or not.
AskStatus_Refused(j, s) == FALSE

\* my_status reads a stuck ship; for others it writes nothing.
AskStatus(j, s) ==
  /\ jobs[j].step = "idle" /\ Overdue(s)
  /\ Become(j, [Resting EXCEPT !.step = "recover", !.ship = s, !.stuck = ship[s].dest])
  /\ UNCHANGED <<ship, out, cut, budget>>

\* join: the sector asked for, or the one that was read.
AskJoin(j, s, x) ==
  /\ jobs[j].step = "idle" /\ Spent("calls")
  /\ Become(j, [Resting EXCEPT !.step = "join", !.ship = s, !.dest = x])
  /\ UNCHANGED <<ship, out, cut>>

Join(j) ==
  LET job == jobs[j] IN
  /\ job.step = "join"
  /\ ship' = Landed(job.ship, job.dest)
  /\ cut' = cut \cup IF ship[job.ship].hyper \/ ship[job.ship].sector # job.dest
                     THEN {"join"} ELSE {}
  /\ EndJob(j)
  /\ UNCHANGED <<out, budget>>

\* A ship flees from a fight: only its sector is written.
Flee(s, x) ==
  /\ x \in Warps[ship[s].sector] /\ Spent("calls")
  /\ ship' = [ship EXCEPT ![s].sector = x]
  /\ cut' = cut \cup IF ship[s].hyper THEN {"flee"} ELSE {}
  /\ UNCHANGED <<jobs, out>>

-----------------------------------------------------------------------------
(* Fuel: bought at a depot, or given to a ship in the same sector.         *)

AskRecharge(j, s, n) ==
  /\ jobs[j].step = "idle" /\ Spent("calls")
  /\ ~ship[s].hyper /\ ship[s].sector \in Depots /\ ship[s].warp < Tank
  /\ Become(j, [Resting EXCEPT !.step = "recharge", !.ship = s, !.warp = ship[s].warp,
                               !.units = Lesser(n, Tank - ship[s].warp)])
  /\ UNCHANGED <<ship, out, cut>>

Recharge(j) ==
  LET job == jobs[j] IN
  /\ job.step = "recharge"
  /\ ship' = [ship EXCEPT ![job.ship].warp = job.warp + job.units]
  /\ out' = out - job.units
  /\ cut' = cut \cup OffBooks(job.ship, job.warp)
  /\ EndJob(j)
  /\ UNCHANGED budget

Moved(n, warp, has) == Lesser(n, Lesser(warp, Tank - has))

AskTransfer(j, s, t, n) ==
  LET units == Moved(n, ship[s].warp, ship[t].warp) IN
  /\ jobs[j].step = "idle" /\ Spent("calls") /\ s # t
  /\ ~ship[s].hyper /\ ~ship[t].hyper /\ ship[s].sector = ship[t].sector
  /\ units > 0
  /\ Become(j, [Resting EXCEPT !.step = "debit", !.ship = s, !.other = t, !.units = units,
                               !.warp = ship[s].warp, !.has = ship[t].warp])
  /\ UNCHANGED <<ship, out, cut>>

\* Mutant: the receiver's tank is written first, and then the giver's.
Debit_Last(j) ==
  LET job == jobs[j] IN
  /\ job.step = "debit"
  /\ ship' = [ship EXCEPT ![job.other].warp = job.has + job.units]
  /\ cut' = cut \cup OffBooks(job.other, job.has)
  /\ Become(j, [job EXCEPT !.step = "credit", !.other = job.ship, !.has = job.warp,
                           !.units = -job.units])
  /\ UNCHANGED <<out, budget>>

Debit(j) ==
  LET job == jobs[j] IN
  /\ job.step = "debit"
  /\ ship' = [ship EXCEPT ![job.ship].warp = job.warp - job.units]
  /\ cut' = cut \cup OffBooks(job.ship, job.warp)
  /\ Become(j, [job EXCEPT !.step = "credit"])
  /\ UNCHANGED <<out, budget>>

Credit(j) ==
  LET job == jobs[j] IN
  /\ job.step = "credit"
  /\ ship' = [ship EXCEPT ![job.other].warp = job.has + job.units]
  /\ cut' = cut \cup OffBooks(job.other, job.has)
  /\ EndJob(j)
  /\ UNCHANGED <<out, budget>>

-----------------------------------------------------------------------------
\* A function is killed, or the statement it waits for fails and no other
\* follows: what it wrote stays.
Kill(j) ==
  /\ jobs[j].step # "idle" /\ Spent("faults")
  /\ EndJob(j)
  /\ UNCHANGED <<ship, out, cut>>

Flying(j) == jobs[j].step \in {"start", "jump", "abort"}
Sooner(n) == IF n = Never THEN Never ELSE n - 1

\* A living function puts its ship down within Slack of the arrival.
Tick ==
  /\ \A j \in Jobs : Flying(j) => jobs[j].left > -Slack
  /\ ship' = [s \in Ships |-> [ship[s] EXCEPT !.left = Sooner(@)]]
  /\ jobs' = [j \in Jobs |-> IF Flying(j) THEN [jobs[j] EXCEPT !.left = Sooner(@)]
                                          ELSE jobs[j]]
  /\ UNCHANGED <<out, cut, budget>>

Calls(j) ==
  \E s \in Ships :
    \/ \E x \in Sectors : Ask(j, s, x) \/ AskJoin(j, s, x)
    \/ \E n \in Units : AskRecharge(j, s, n) \/ \E t \in Ships : AskTransfer(j, s, t, n)

JobStep(j) ==
  \/ Recover(j) \/ Start(j) \/ Finish(j) \/ FinishFails(j) \/ Report(j) \/ Cleanup(j)
  \/ Join(j) \/ Recharge(j) \/ Debit(j) \/ Credit(j)

Next ==
  \/ \E j \in Jobs : Calls(j) \/ JobStep(j) \/ Kill(j)
  \/ \E j \in Jobs, s \in Ships : AskStatus(j, s)
  \/ \E s \in Ships, x \in Sectors : Flee(s, x)
  \/ Tick

Spec == Init /\ [][Next]_vars

\* Time passes, functions go on until they end or are killed, and somebody
\* asks for the status of every ship again and again.
FairSpec ==
  /\ Spec
  /\ WF_vars(Tick)
  /\ \A j \in Jobs : WF_vars(JobStep(j))
  /\ \A s \in Ships : WF_vars(\E j \in Jobs : AskStatus(j, s))

-----------------------------------------------------------------------------
(* Properties. *)

\* Rows and copies keep their shape; a tank never holds less than nothing or
\* more than its capacity, though its writes are of values read before.
TypeOK ==
  /\ ship \in [Ships -> Row]
  /\ jobs \in [Jobs -> Job]
  /\ out \in Int
  /\ cut \subseteq {"recovery", "warp", "back", "join", "flee"}
  /\ budget \in [calls : Nat, faults : Nat]

\* A ship in hyperspace is on its way along a warp from the sector its row
\* still shows, though the way was checked on an older reading of the row.
TransitOnWarp ==
  "flee" \notin cut => \A s \in Ships : ship[s].hyper => ship[s].dest \in Warps[ship[s].sector]

\* What took a ship off its way: a recovery that came too late, a failure
\* after the arrival, joining in mid-flight, fleeing in mid-flight.
OnCourse == cut \subseteq {"warp"}

\* The row of a ship that a function carries is that function's jump, and no
\* ship is carried by two functions. (That nobody takes a living jump for
\* stuck is not checked but assumed: Slack <= Threshold.)
JumpOwned ==
  OnCourse =>
    \A j \in Jobs : jobs[j].step \in {"jump", "abort"} =>
      LET r == ship[jobs[j].ship] IN
      /\ r.hyper /\ r.sector = jobs[j].from /\ r.dest = jobs[j].dest
      /\ \A k \in Jobs \ {j} :
           jobs[k].step \in {"jump", "abort"} => jobs[k].ship # jobs[j].ship

\* A ship changes sector along a warp and no other way.
AlongWarps ==
  [][OnCourse' => \A s \in Ships :
       ship'[s].sector # ship[s].sector => ship'[s].sector \in Warps[ship[s].sector]]_vars

\* All tanks hold no more than was there at first and was bought, less what
\* the jumps burnt: a transfer takes before it gives, so that one cut short
\* makes nothing, and jumps, clean-ups and overtaken writes may only lose.
\* Excused once a tank was written from a reading above what it then had.
NoWarpMade ==
  "warp" \notin cut =>
    SumFunctionOnSet([s \in Ships |-> ship[s].warp], Ships) + out <= Cardinality(Ships) * Full

\* A ship does not stay in hyperspace, whatever is killed or fails.
LeavesHyperspace == \A s \in Ships : ship[s].hyper ~> ~ship[s].hyper
=============================================================================
