-------------------------- MODULE HyperspaceProofs --------------------------
(***************************************************************************)
(* Proofs about Hyperspace, for any map, fleet, number of requests and     *)
(* constants of time: rows and copies keep their shape and no tank runs    *)
(* under or over, a ship in hyperspace is on a warp, no two functions      *)
(* carry one ship, ships change sector along warps, and no warp power is   *)
(* made.                                                                   *)
(*                                                                         *)
(* What is inductive is TypeSane /\ Jumps: a request that will start was   *)
(* cleared for its way and its fuel, a carried jump has the time its row   *)
(* has, and that time has not run past the slack. That a living function   *)
(* is not taken for dead rests on TimeAssumption: Slack <= Threshold.      *)
(***************************************************************************)
EXTENDS Hyperspace, Sums, TLAPS

\* What a copy in memory guarantees at each of its steps.
Sane(job) ==
  /\ job.step = "start" => job.dest \in Warps[job.from] /\ Cost <= job.warp
  /\ job.step \in {"start", "jump", "abort"} => -Slack <= job.left
  /\ job.step = "recharge" => job.warp + job.units <= Tank
  /\ job.step \in {"debit", "credit"} => job.units <= job.warp /\ job.has + job.units <= Tank

JobsSane == \A j \in Jobs : Sane(jobs[j])

Carries(j) == jobs[j].step \in {"jump", "abort"}

\* The function of a jump and the row count the same time.
InTime == OnCourse => \A j \in Jobs : Carries(j) => ship[jobs[j].ship].left = jobs[j].left

-----------------------------------------------------------------------------
(* Copies and rows, one at a time. *)

LEMMA AnyPlace == AnySector \in Sectors /\ AnyShip \in Ships
<1>1. AnyShip \in Ships
  BY ShipsAssumption DEF AnyShip
<1>2. Berth[AnyShip] \in Sectors
  BY <1>1, MapAssumption
<1>. QED
  BY <1>1, <1>2 DEF AnySector

\* A request that rests is well formed and promises nothing.
LEMMA RestingSane == Resting \in Job /\ Sane(Resting)
  BY AnyPlace, WarpAssumption, TimeAssumption DEF Resting, Job, Steps, Sane, Ticks, Never

\* Storing a sane copy keeps all copies sane.
LEMMA BecomeSane ==
  ASSUME NEW j \in Jobs, NEW job \in Job, Sane(job), jobs \in [Jobs -> Job], JobsSane,
         Become(j, job)
  PROVE  jobs' \in [Jobs -> Job] /\ JobsSane' /\ jobs'[j] = job
         /\ \A k \in Jobs \ {j} : jobs'[k] = jobs[k]
  BY DEF Become, JobsSane

LEMMA EndJobSane ==
  ASSUME NEW j \in Jobs, jobs \in [Jobs -> Job], JobsSane, EndJob(j)
  PROVE  jobs' \in [Jobs -> Job] /\ JobsSane' /\ jobs'[j] = Resting
         /\ \A k \in Jobs \ {j} : jobs'[k] = jobs[k]
  BY RestingSane, BecomeSane DEF EndJob

\* Clearing for the way and the fuel gives a copy that may start.
LEMMA ClearedSane ==
  ASSUME NEW job \in Job, NEW x \in Sectors
  PROVE  Cleared(job, x) \in Job /\ Sane(Cleared(job, x)) /\ ~(Cleared(job, x).step \in {"jump", "abort"})
<1>1. CASE job.dest \in Warps[x] /\ job.warp >= Cost
  <2>. DEFINE go == [job EXCEPT !.step = "start", !.from = x, !.left = Flight]
  <2>0. Flight \in Ticks
    BY TimeAssumption DEF Ticks, Never
  <2>1. go \in Job /\ go.step = "start" /\ go.from = x /\ go.left = Flight
        /\ go.dest = job.dest /\ go.warp = job.warp
    BY <2>0 DEF Job, Steps
  <2>2. Sane(go)
    BY <1>1, <2>1, TimeAssumption, WarpAssumption DEF Sane, Job
  <2>3. Cleared(job, x) = go
    BY <1>1 DEF Cleared
  <2>. QED
    BY <2>1, <2>2, <2>3
<1>2. CASE ~(job.dest \in Warps[x] /\ job.warp >= Cost)
  BY <1>2, RestingSane DEF Cleared, Resting
<1>. QED
  BY <1>1, <1>2

\* Putting a ship down changes its row and no other.
LEMMA LandedRow ==
  ASSUME NEW s \in Ships, NEW x \in Sectors, ship \in [Ships -> Row]
  PROVE  /\ Landed(s, x) \in [Ships -> Row]
         /\ ~Landed(s, x)[s].hyper /\ Landed(s, x)[s].sector = x
         /\ \A t \in Ships \ {s} : Landed(s, x)[t] = ship[t]
<1>. DEFINE r == [ship[s] EXCEPT !.sector = x, !.hyper = FALSE, !.dest = x, !.left = Never]
<1>1. Never \in Ticks
  BY TimeAssumption DEF Ticks, Never
<1>2. r \in Row /\ ~r.hyper /\ r.sector = x
  BY <1>1 DEF Row
<1>3. Landed(s, x) = [ship EXCEPT ![s] = r]
  BY DEF Landed
<1>. HIDE DEF r
<1>. QED
  BY <1>2, <1>3

LEMMA SoonerTick ==
  ASSUME NEW n \in Ticks
  PROVE  Sooner(n) \in Ticks /\ (n > -Slack => Sooner(n) >= -Slack /\ Sooner(n) = n - 1)
<1>1. Slack \in Nat /\ Threshold \in Nat /\ Flight \in Nat /\ Slack <= Threshold
  BY TimeAssumption
<1>2. n \in Int /\ n >= -Threshold - 1 /\ n <= Flight
  BY <1>1 DEF Ticks, Never
<1>3. CASE n = -Threshold - 1
  BY <1>1, <1>2, <1>3 DEF Sooner, Ticks, Never
<1>4. CASE n # -Threshold - 1
  BY <1>1, <1>2, <1>4 DEF Sooner, Ticks, Never
<1>. QED
  BY <1>3, <1>4

\* Writing a tank leaves everything else of every row.
LEMMA FuelRow ==
  ASSUME NEW s \in Ships, NEW w \in 0..Tank, ship \in [Ships -> Row]
  PROVE  LET f == [ship EXCEPT ![s].warp = w] IN
         /\ f \in [Ships -> Row]
         /\ \A t \in Ships : /\ f[t].hyper = ship[t].hyper /\ f[t].sector = ship[t].sector
                            /\ f[t].dest = ship[t].dest /\ f[t].left = ship[t].left
<1>. DEFINE r == [ship[s] EXCEPT !.warp = w]
            f == [ship EXCEPT ![s].warp = w]
<1>1. /\ r \in Row /\ r.hyper = ship[s].hyper /\ r.sector = ship[s].sector
      /\ r.dest = ship[s].dest /\ r.left = ship[s].left
  BY DEF Row
<1>2. f = [ship EXCEPT ![s] = r]
  OBVIOUS
<1>. HIDE DEF r, f
<1>3. f \in [Ships -> Row]
  BY <1>1, <1>2
<1>4. \A t \in Ships : /\ f[t].hyper = ship[t].hyper /\ f[t].sector = ship[t].sector
                      /\ f[t].dest = ship[t].dest /\ f[t].left = ship[t].left
  BY <1>1, <1>2
<1>. QED
  BY <1>3, <1>4 DEF f

-----------------------------------------------------------------------------
(* Types, and what the copies in memory promise. *)

TypeSane == TypeOK /\ JobsSane

LEMMA InitTypes == Init => TypeSane
<1>. SUFFICES ASSUME Init PROVE TypeSane
  OBVIOUS
<1>1. ship \in [Ships -> Row]
  BY MapAssumption, WarpAssumption, TimeAssumption DEF Init, Row, Ticks, Never
<1>2. jobs \in [Jobs -> Job] /\ JobsSane
  BY RestingSane DEF Init, JobsSane
<1>3. out \in Int /\ cut \subseteq {} /\ budget \in [calls : Nat, faults : Nat]
  BY BoundAssumption DEF Init
<1>. QED
  BY <1>1, <1>2, <1>3 DEF TypeSane, TypeOK

LEMMA SpentType ==
  ASSUME NEW what \in {"calls", "faults"}, budget \in [calls : Nat, faults : Nat], Spent(what)
  PROVE  budget' \in [calls : Nat, faults : Nat]
  BY DEF Spent

\* Asking for a jump, for a sector, for fuel, or to give fuel.
LEMMA AskTypes ==
  ASSUME TypeSane, NEW j \in Jobs, NEW s \in Ships, NEW d \in Sectors, Ask(j, s, d)
  PROVE  TypeSane'
<1>. DEFINE job == [Resting EXCEPT !.ship = s, !.dest = d, !.from = ship[s].sector,
                                   !.warp = ship[s].warp]
            rec == [job EXCEPT !.step = "recover", !.stuck = ship[s].dest, !.then = TRUE]
<1>1. ship[s] \in Row /\ ship[s].sector \in Sectors /\ ship[s].dest \in Sectors
      /\ ship[s].warp \in 0..Tank
  BY DEF TypeSane, TypeOK, Row
<1>2. job \in Job
  BY <1>1, RestingSane DEF Job
<1>3. rec \in Job /\ rec.step = "recover"
  BY <1>1, <1>2 DEF Job, Steps
<1>. HIDE DEF job, rec
<1>4. Sane(rec)
  BY <1>3 DEF Sane
<1>5. Become(j, IF ship[s].hyper THEN rec ELSE Cleared(job, ship[s].sector))
  BY DEF Ask, job, rec
<1>6. jobs' \in [Jobs -> Job] /\ JobsSane'
  <2>1. CASE ship[s].hyper
    BY <1>3, <1>4, <1>5, <2>1, BecomeSane DEF TypeSane, TypeOK
  <2>2. CASE ~ship[s].hyper
    BY <1>1, <1>2, <1>5, <2>2, ClearedSane, BecomeSane DEF TypeSane, TypeOK
  <2>. QED
    BY <2>1, <2>2
<1>7. budget' \in [calls : Nat, faults : Nat]
  BY SpentType DEF Ask, TypeSane, TypeOK
<1>. QED
  BY <1>6, <1>7 DEF Ask, TypeSane, TypeOK

LEMMA AskJoinTypes ==
  ASSUME TypeSane, NEW j \in Jobs, NEW s \in Ships, NEW x \in Sectors, AskJoin(j, s, x)
  PROVE  TypeSane'
<1>. DEFINE job == [Resting EXCEPT !.step = "join", !.ship = s, !.dest = x]
<1>1. job \in Job /\ job.step = "join"
  BY RestingSane DEF Job, Steps
<1>. HIDE DEF job
<1>2. Become(j, job) /\ Sane(job)
  BY <1>1 DEF AskJoin, job, Sane
<1>3. jobs' \in [Jobs -> Job] /\ JobsSane'
  BY <1>1, <1>2, BecomeSane DEF TypeSane, TypeOK
<1>4. budget' \in [calls : Nat, faults : Nat]
  BY SpentType DEF AskJoin, TypeSane, TypeOK
<1>. QED
  BY <1>3, <1>4 DEF AskJoin, TypeSane, TypeOK

LEMMA AskStatusTypes ==
  ASSUME TypeSane, NEW j \in Jobs, NEW s \in Ships, AskStatus(j, s)
  PROVE  TypeSane'
<1>. DEFINE job == [Resting EXCEPT !.step = "recover", !.ship = s, !.stuck = ship[s].dest]
<1>1. ship[s].dest \in Sectors
  BY DEF TypeSane, TypeOK, Row
<1>2. job \in Job /\ job.step = "recover"
  BY <1>1, RestingSane DEF Job, Steps
<1>. HIDE DEF job
<1>3. Become(j, job) /\ Sane(job)
  BY <1>2 DEF AskStatus, job, Sane
<1>4. jobs' \in [Jobs -> Job] /\ JobsSane'
  BY <1>2, <1>3, BecomeSane DEF TypeSane, TypeOK
<1>. QED
  BY <1>4 DEF AskStatus, TypeSane, TypeOK

\* What is bought fits the tank; what is given is there and fits.
LEMMA AskRechargeTypes ==
  ASSUME TypeSane, NEW j \in Jobs, NEW s \in Ships, NEW n \in Units, AskRecharge(j, s, n)
  PROVE  TypeSane'
<1>. DEFINE units == Lesser(n, Tank - ship[s].warp)
            job == [Resting EXCEPT !.step = "recharge", !.ship = s, !.warp = ship[s].warp,
                                   !.units = units]
<1>1. ship[s].warp \in 0..Tank /\ n \in Nat /\ Tank \in Nat
  BY WarpAssumption DEF TypeSane, TypeOK, Row
<1>2. units \in 0..Tank /\ ship[s].warp + units <= Tank
  BY <1>1 DEF Lesser
<1>. HIDE DEF units
<1>3. job \in Job /\ job.step = "recharge" /\ job.warp = ship[s].warp /\ job.units = units
  BY <1>1, <1>2, RestingSane DEF Job, Steps
<1>4. Become(j, job)
  BY DEF AskRecharge, job, units
<1>. HIDE DEF job
<1>5. Sane(job)
  BY <1>2, <1>3 DEF Sane
<1>6. jobs' \in [Jobs -> Job] /\ JobsSane'
  BY <1>3, <1>4, <1>5, BecomeSane DEF TypeSane, TypeOK
<1>7. budget' \in [calls : Nat, faults : Nat]
  BY SpentType DEF AskRecharge, TypeSane, TypeOK
<1>. QED
  BY <1>6, <1>7 DEF AskRecharge, TypeSane, TypeOK

LEMMA AskTransferTypes ==
  ASSUME TypeSane, NEW j \in Jobs, NEW s \in Ships, NEW t \in Ships, NEW n \in Units,
         AskTransfer(j, s, t, n)
  PROVE  TypeSane'
<1>. DEFINE units == Moved(n, ship[s].warp, ship[t].warp)
            job == [Resting EXCEPT !.step = "debit", !.ship = s, !.other = t, !.units = units,
                                   !.warp = ship[s].warp, !.has = ship[t].warp]
<1>1. /\ ship[s].warp \in 0..Tank /\ ship[t].warp \in 0..Tank
      /\ n \in Nat /\ Tank \in Nat
  BY WarpAssumption DEF TypeSane, TypeOK, Row
<1>2. units \in 0..Tank /\ units <= ship[s].warp /\ ship[t].warp + units <= Tank
  BY <1>1 DEF Moved, Lesser
<1>. HIDE DEF units
<1>3. /\ job \in Job /\ job.step = "debit" /\ job.units = units
      /\ job.warp = ship[s].warp /\ job.has = ship[t].warp
  BY <1>1, <1>2, RestingSane DEF Job, Steps
<1>4. Become(j, job)
  BY DEF AskTransfer, job, units
<1>. HIDE DEF job
<1>5. Sane(job)
  BY <1>2, <1>3 DEF Sane
<1>6. jobs' \in [Jobs -> Job] /\ JobsSane'
  BY <1>3, <1>4, <1>5, BecomeSane DEF TypeSane, TypeOK
<1>7. budget' \in [calls : Nat, faults : Nat]
  BY SpentType DEF AskTransfer, TypeSane, TypeOK
<1>. QED
  BY <1>6, <1>7 DEF AskTransfer, TypeSane, TypeOK

\* A step that only changes the name of the step of a flying copy.
LEMMA FlyOn ==
  ASSUME TypeSane, NEW j \in Jobs, jobs[j].step \in {"start", "jump", "abort", "arrived"},
         NEW step \in {"jump", "abort", "arrived", "back"},
         step \in {"jump", "abort"} => jobs[j].step \in {"start", "jump"},
         Become(j, [jobs[j] EXCEPT !.step = step])
  PROVE  /\ jobs' \in [Jobs -> Job] /\ JobsSane'
         /\ \A k \in Jobs \ {j} : jobs'[k] = jobs[k]
         /\ jobs'[j].step = step /\ jobs'[j].ship = jobs[j].ship
         /\ jobs'[j].from = jobs[j].from /\ jobs'[j].dest = jobs[j].dest
         /\ jobs'[j].left = jobs[j].left
<1>. DEFINE job == [jobs[j] EXCEPT !.step = step]
<1>1. /\ job \in Job /\ job.step = step /\ job.ship = jobs[j].ship
      /\ job.from = jobs[j].from /\ job.dest = jobs[j].dest /\ job.left = jobs[j].left
  BY DEF Job, Steps, TypeSane, TypeOK
<1>2. Sane(jobs[j])
  BY DEF TypeSane, JobsSane
<1>3. Become(j, job)
  OBVIOUS
<1>. HIDE DEF job
<1>4. Sane(job)
  BY <1>1, <1>2 DEF Sane
<1>. QED
  BY <1>1, <1>3, <1>4, BecomeSane DEF TypeSane, TypeOK

\* The places and amounts of a copy.
LEMMA JobFields ==
  ASSUME TypeSane, NEW j \in Jobs
  PROVE  /\ jobs[j] \in Job /\ jobs[j].ship \in Ships /\ jobs[j].other \in Ships
         /\ jobs[j].from \in Sectors /\ jobs[j].dest \in Sectors /\ jobs[j].stuck \in Sectors
         /\ jobs[j].left \in Ticks /\ jobs[j].warp \in 0..Tank /\ jobs[j].has \in 0..Tank
         /\ jobs[j].units \in 0..Tank /\ Sane(jobs[j])
         /\ ship \in [Ships -> Row] /\ jobs \in [Jobs -> Job] /\ JobsSane
  BY DEF TypeSane, TypeOK, JobsSane, Job

\* The row that enters hyperspace: the other rows stay.
LEMMA EnterRow ==
  ASSUME TypeSane, NEW j \in Jobs, jobs[j].step = "start", EnterHyperspace(j)
  PROVE  /\ ship' \in [Ships -> Row] /\ out' \in Int
         /\ cut' \subseteq {"recovery", "warp", "back", "join", "flee"}
         /\ cut \subseteq cut' /\ cut' \subseteq cut \cup {"warp"}
         /\ ship'[jobs[j].ship].hyper /\ ship'[jobs[j].ship].dest = jobs[j].dest
         /\ ship'[jobs[j].ship].left = jobs[j].left
         /\ ship'[jobs[j].ship].sector = ship[jobs[j].ship].sector
         /\ \A t \in Ships \ {jobs[j].ship} : ship'[t] = ship[t]
<1>. DEFINE s == jobs[j].ship
            r == [ship[s] EXCEPT !.hyper = TRUE, !.dest = jobs[j].dest,
                                 !.left = jobs[j].left, !.warp = jobs[j].warp - Cost]
<1>1. s \in Ships /\ ship[s] \in Row /\ ship \in [Ships -> Row]
  BY JobFields
<1>2. jobs[j].dest \in Sectors /\ jobs[j].left \in Ticks /\ jobs[j].warp - Cost \in 0..Tank
  BY JobFields, WarpAssumption DEF Sane
<1>3. /\ r \in Row /\ r.hyper /\ r.dest = jobs[j].dest /\ r.left = jobs[j].left
      /\ r.sector = ship[s].sector
  BY <1>1, <1>2 DEF Row
<1>4. ship' = [ship EXCEPT ![s] = r]
  BY DEF EnterHyperspace
<1>. HIDE DEF r, s
<1>5. /\ ship' \in [Ships -> Row] /\ ship'[s] = r
      /\ \A t \in Ships \ {s} : ship'[t] = ship[t]
  BY <1>1, <1>3, <1>4
<1>6. out' \in Int
  BY WarpAssumption DEF EnterHyperspace, TypeSane, TypeOK
<1>7. /\ cut' \subseteq {"recovery", "warp", "back", "join", "flee"}
      /\ cut \subseteq cut' /\ cut' \subseteq cut \cup {"warp"}
  BY DEF EnterHyperspace, OffBooks, TypeSane, TypeOK
<1>. QED
  BY <1>3, <1>5, <1>6, <1>7 DEF s

LEMMA StartTypes ==
  ASSUME TypeSane, NEW j \in Jobs, Start(j)
  PROVE  TypeSane'
<1>1. CASE EnterHyperspace(j) /\ Carried(j)
  <2>1. jobs[j].step = "start"
    BY DEF Start
  <2>2. jobs' \in [Jobs -> Job] /\ JobsSane'
    <3>1. CASE EndJob(j)
      BY <3>1, EndJobSane, JobFields
    <3>2. CASE Become(j, [jobs[j] EXCEPT !.step = "jump"])
      BY <3>2, <2>1, FlyOn
    <3>. QED
      BY <1>1, <3>1, <3>2 DEF Carried
  <2>3. budget' \in [calls : Nat, faults : Nat]
    BY <1>1, SpentType DEF Carried, TypeSane, TypeOK
  <2>. QED
    BY <1>1, <2>1, <2>2, <2>3, EnterRow DEF TypeSane, TypeOK
<1>2. CASE EndJob(j) /\ UNCHANGED <<ship, out, cut, budget>>
  BY <1>2, EndJobSane, JobFields DEF TypeSane, TypeOK
<1>. QED
  BY <1>1, <1>2 DEF Start

LEMMA RecoverTypes ==
  ASSUME TypeSane, NEW j \in Jobs, Recover(j)
  PROVE  TypeSane'
<1>1. ship' \in [Ships -> Row]
  BY JobFields, LandedRow DEF Recover
<1>2. jobs' \in [Jobs -> Job] /\ JobsSane'
  BY JobFields, ClearedSane, RestingSane, BecomeSane DEF Recover
<1>3. cut' \subseteq {"recovery", "warp", "back", "join", "flee"}
  BY DEF Recover, TypeSane, TypeOK
<1>. QED
  BY <1>1, <1>2, <1>3 DEF Recover, TypeSane, TypeOK

\* Arriving, failing to arrive, and being brought back.
LEMMA FinishTypes ==
  ASSUME TypeSane, NEW j \in Jobs, Finish(j) \/ FinishFails(j)
  PROVE  TypeSane'
<1>1. CASE Finish(j)
  <2>1. ship' \in [Ships -> Row]
    BY <1>1, JobFields, LandedRow DEF Finish
  <2>2. jobs' \in [Jobs -> Job] /\ JobsSane'
    BY <1>1, FlyOn DEF Finish
  <2>. QED
    BY <1>1, <2>1, <2>2 DEF Finish, TypeSane, TypeOK
<1>2. CASE FinishFails(j)
  <2>1. jobs' \in [Jobs -> Job] /\ JobsSane'
    BY <1>2, FlyOn DEF FinishFails
  <2>2. budget' \in [calls : Nat, faults : Nat]
    BY <1>2, SpentType DEF FinishFails, TypeSane, TypeOK
  <2>. QED
    BY <1>2, <2>1, <2>2 DEF FinishFails, TypeSane, TypeOK
<1>. QED
  BY <1>1, <1>2

LEMMA ReportTypes ==
  ASSUME TypeSane, NEW j \in Jobs, Report(j)
  PROVE  TypeSane'
<1>1. jobs' \in [Jobs -> Job] /\ JobsSane'
  <2>1. CASE EndJob(j)
    BY <2>1, EndJobSane, JobFields
  <2>2. CASE Become(j, [jobs[j] EXCEPT !.step = "back"])
    BY <2>2, FlyOn DEF Report
  <2>. QED
    BY <2>1, <2>2 DEF Report
<1>2. budget' \in [calls : Nat, faults : Nat]
  BY SpentType DEF Report, TypeSane, TypeOK
<1>. QED
  BY <1>1, <1>2 DEF Report, TypeSane, TypeOK

LEMMA CleanupTypes ==
  ASSUME TypeSane, NEW j \in Jobs, Cleanup(j) \/ Join(j) \/ Kill(j)
  PROVE  TypeSane'
<1>1. jobs' \in [Jobs -> Job] /\ JobsSane'
  BY EndJobSane, JobFields DEF Cleanup, Join, Kill
<1>2. ship' \in [Ships -> Row]
  BY JobFields, LandedRow DEF Cleanup, Join, Kill
<1>3. cut' \subseteq {"recovery", "warp", "back", "join", "flee"}
  BY DEF Cleanup, Join, Kill, TypeSane, TypeOK
<1>4. out' \in Int /\ budget' \in [calls : Nat, faults : Nat]
  BY SpentType DEF Cleanup, Join, Kill, TypeSane, TypeOK
<1>. QED
  BY <1>1, <1>2, <1>3, <1>4 DEF TypeSane, TypeOK

LEMMA FleeTypes ==
  ASSUME TypeSane, NEW s \in Ships, NEW x \in Sectors, Flee(s, x)
  PROVE  TypeSane'
<1>. DEFINE r == [ship[s] EXCEPT !.sector = x]
<1>1. r \in Row /\ ship' = [ship EXCEPT ![s] = r]
  BY DEF Flee, Row, TypeSane, TypeOK
<1>2. ship' \in [Ships -> Row]
  BY <1>1 DEF TypeSane, TypeOK
<1>3. budget' \in [calls : Nat, faults : Nat]
  BY SpentType DEF Flee, TypeSane, TypeOK
<1>4. cut' \subseteq {"recovery", "warp", "back", "join", "flee"} /\ JobsSane'
  BY DEF Flee, TypeSane, TypeOK, JobsSane
<1>. QED
  BY <1>2, <1>3, <1>4 DEF Flee, TypeSane, TypeOK

\* A tank is written from a reading, and stays between nothing and full.
LEMMA FuelTypes ==
  ASSUME TypeSane, NEW j \in Jobs, Recharge(j) \/ Debit(j) \/ Credit(j)
  PROVE  /\ TypeSane'
         /\ \A t \in Ships : /\ ship'[t].hyper = ship[t].hyper /\ ship'[t].dest = ship[t].dest
                            /\ ship'[t].sector = ship[t].sector /\ ship'[t].left = ship[t].left
         /\ cut \subseteq cut' /\ cut' \subseteq cut \cup {"warp"}
         /\ ~Carries(j)' /\ jobs'[j].step # "start" /\ \A k \in Jobs \ {j} : jobs'[k] = jobs[k]
<1>. DEFINE job == jobs[j]
<1>1. /\ job \in Job /\ job.ship \in Ships /\ job.other \in Ships
      /\ job.warp \in 0..Tank /\ job.has \in 0..Tank /\ job.units \in 0..Tank /\ Sane(job)
      /\ ship \in [Ships -> Row] /\ jobs \in [Jobs -> Job] /\ JobsSane /\ Tank \in Nat
  BY JobFields, WarpAssumption
<1>2. /\ cut \subseteq cut' /\ cut' \subseteq cut \cup {"warp"}
      /\ cut' \subseteq {"recovery", "warp", "back", "join", "flee"} /\ out' \in Int
      /\ budget' = budget
  BY <1>1 DEF Recharge, Debit, Credit, OffBooks, TypeSane, TypeOK
<1>3. PICK s \in Ships, w \in 0..Tank : ship' = [ship EXCEPT ![s].warp = w]
  <2>1. CASE Recharge(j)
    <3>1. job.warp + job.units \in 0..Tank
      BY <1>1, <2>1 DEF Recharge, Sane
    <3>. QED
      BY <1>1, <2>1, <3>1 DEF Recharge
  <2>2. CASE Debit(j)
    <3>1. job.warp - job.units \in 0..Tank
      BY <1>1, <2>2 DEF Debit, Sane
    <3>. QED
      BY <1>1, <2>2, <3>1 DEF Debit
  <2>3. CASE Credit(j)
    <3>1. job.has + job.units \in 0..Tank
      BY <1>1, <2>3 DEF Credit, Sane
    <3>. QED
      BY <1>1, <2>3, <3>1 DEF Credit
  <2>. QED
    BY <2>1, <2>2, <2>3
<1>4. /\ ship' \in [Ships -> Row]
      /\ \A t \in Ships : /\ ship'[t].hyper = ship[t].hyper /\ ship'[t].dest = ship[t].dest
                         /\ ship'[t].sector = ship[t].sector /\ ship'[t].left = ship[t].left
  BY <1>1, <1>3, FuelRow
<1>5. /\ jobs' \in [Jobs -> Job] /\ JobsSane' /\ \A k \in Jobs \ {j} : jobs'[k] = jobs[k]
      /\ jobs'[j].step \in {"idle", "credit"}
  <2>1. CASE EndJob(j)
    BY <1>1, <2>1, EndJobSane DEF Resting
  <2>2. CASE Debit(j)
    <3>. DEFINE next == [job EXCEPT !.step = "credit"]
    <3>1. /\ next \in Job /\ next.step = "credit" /\ next.warp = job.warp
          /\ next.has = job.has /\ next.units = job.units
      BY <1>1 DEF Job, Steps
    <3>2. Become(j, next)
      BY <2>2 DEF Debit
    <3>. HIDE DEF next
    <3>3. Sane(next)
      BY <1>1, <2>2, <3>1 DEF Debit, Sane
    <3>. QED
      BY <1>1, <3>1, <3>2, <3>3, BecomeSane
  <2>. QED
    BY <2>1, <2>2 DEF Recharge, Credit
<1>. QED
  BY <1>2, <1>4, <1>5 DEF TypeSane, TypeOK, Carries

\* A tick counts down every row and every flying copy alike.
LEMMA TickStep ==
  ASSUME TypeSane, Tick
  PROVE  /\ ship' \in [Ships -> Row]
         /\ \A s \in Ships : /\ ship'[s].hyper = ship[s].hyper /\ ship'[s].dest = ship[s].dest
                            /\ ship'[s].sector = ship[s].sector
                            /\ ship'[s].left = Sooner(ship[s].left)
         /\ jobs' \in [Jobs -> Job]
         /\ \A j \in Jobs : Flying(j) => jobs'[j].left = Sooner(jobs[j].left)
         /\ \A j \in Jobs : Flying(j) => jobs[j].left > -Slack
         /\ \A j \in Jobs : ~Flying(j) => jobs'[j].left = jobs[j].left
         /\ \A j \in Jobs : /\ jobs'[j].step = jobs[j].step /\ jobs'[j].ship = jobs[j].ship
                           /\ jobs'[j].from = jobs[j].from /\ jobs'[j].dest = jobs[j].dest
                           /\ jobs'[j].warp = jobs[j].warp /\ jobs'[j].has = jobs[j].has
                           /\ jobs'[j].units = jobs[j].units
<1>1. \A s \in Ships :
        LET r == [ship[s] EXCEPT !.left = Sooner(@)] IN
        /\ r \in Row /\ r.hyper = ship[s].hyper /\ r.dest = ship[s].dest
        /\ r.sector = ship[s].sector /\ r.left = Sooner(ship[s].left)
  <2>. TAKE s \in Ships
  <2>1. ship[s] \in Row /\ Sooner(ship[s].left) \in Ticks
    BY SoonerTick DEF TypeSane, TypeOK, Row
  <2>. QED
    BY <2>1 DEF Row
<1>2. \A s \in Ships : ship'[s] = [ship[s] EXCEPT !.left = Sooner(@)]
  BY DEF Tick
<1>3. ship' \in [Ships -> Row]
  BY <1>1 DEF Tick
<1>4. \A j \in Jobs :
        LET job == [jobs[j] EXCEPT !.left = Sooner(@)] IN
        /\ job \in Job /\ job.left = Sooner(jobs[j].left)
        /\ job.step = jobs[j].step /\ job.ship = jobs[j].ship
        /\ job.from = jobs[j].from /\ job.dest = jobs[j].dest
        /\ job.warp = jobs[j].warp /\ job.has = jobs[j].has /\ job.units = jobs[j].units
  <2>. TAKE j \in Jobs
  <2>1. jobs[j] \in Job /\ Sooner(jobs[j].left) \in Ticks
    BY SoonerTick, JobFields
  <2>. QED
    BY <2>1 DEF Job
<1>5. \A j \in Jobs : jobs'[j] = IF Flying(j) THEN [jobs[j] EXCEPT !.left = Sooner(@)] ELSE jobs[j]
  BY DEF Tick
<1>6. jobs' \in [Jobs -> Job]
  BY <1>4, JobFields DEF Tick
<1>7. \A j \in Jobs : Flying(j) => jobs[j].left > -Slack
  BY DEF Tick
<1>8. \A j \in Jobs : /\ Flying(j) => jobs'[j].left = Sooner(jobs[j].left)
                      /\ ~Flying(j) => jobs'[j].left = jobs[j].left
                      /\ jobs'[j].step = jobs[j].step /\ jobs'[j].ship = jobs[j].ship
                      /\ jobs'[j].from = jobs[j].from /\ jobs'[j].dest = jobs[j].dest
                      /\ jobs'[j].warp = jobs[j].warp /\ jobs'[j].has = jobs[j].has
                      /\ jobs'[j].units = jobs[j].units
  <2>. TAKE j \in Jobs
  <2>1. CASE Flying(j)
    BY <2>1, <1>4, <1>5
  <2>2. CASE ~Flying(j)
    BY <2>2, <1>5
  <2>. QED
    BY <2>1, <2>2
<1>9. \A s \in Ships : /\ ship'[s].hyper = ship[s].hyper /\ ship'[s].dest = ship[s].dest
                      /\ ship'[s].sector = ship[s].sector
                      /\ ship'[s].left = Sooner(ship[s].left)
  BY <1>1, <1>2
<1>10. \A j \in Jobs : Flying(j) => jobs'[j].left = Sooner(jobs[j].left)
  BY <1>8
<1>11. \A j \in Jobs : ~Flying(j) => jobs'[j].left = jobs[j].left
  BY <1>8
<1>12. \A j \in Jobs : /\ jobs'[j].step = jobs[j].step /\ jobs'[j].ship = jobs[j].ship
                      /\ jobs'[j].from = jobs[j].from /\ jobs'[j].dest = jobs[j].dest
                      /\ jobs'[j].warp = jobs[j].warp /\ jobs'[j].has = jobs[j].has
                      /\ jobs'[j].units = jobs[j].units
  BY <1>8
<1>. QED
  BY <1>3, <1>6, <1>7, <1>9, <1>10, <1>11, <1>12

LEMMA TickTypes ==
  ASSUME TypeSane, Tick
  PROVE  TypeSane'
<1>1. \A j \in Jobs : Sane(jobs'[j])
  <2>. TAKE j \in Jobs
  <2>1. Sane(jobs[j]) /\ jobs[j].left \in Ticks
    BY JobFields
  <2>2. CASE Flying(j)
    <3>1. jobs[j].left > -Slack /\ jobs'[j].left = Sooner(jobs[j].left)
      BY <2>2, TickStep
    <3>2. jobs'[j].left >= -Slack
      BY <2>1, <3>1, SoonerTick
    <3>3. /\ jobs'[j].step = jobs[j].step /\ jobs'[j].warp = jobs[j].warp
          /\ jobs'[j].from = jobs[j].from /\ jobs'[j].dest = jobs[j].dest
          /\ jobs'[j].units = jobs[j].units /\ jobs'[j].has = jobs[j].has
      BY TickStep
    <3>4. -Slack <= jobs'[j].left
      BY <2>1, <3>1, <3>2, SoonerTick, TimeAssumption DEF Ticks, Never
    <3>. QED
      BY <2>1, <3>3, <3>4 DEF Sane
  <2>3. CASE ~Flying(j)
    BY <2>1, <2>3, TickStep DEF Sane, Flying
  <2>. QED
    BY <2>2, <2>3
<1>. QED
  BY <1>1, TickStep DEF Tick, TypeSane, TypeOK, JobsSane

LEMMA NextTypes == TypeSane /\ [Next]_vars => TypeSane'
<1>. SUFFICES ASSUME TypeSane, [Next]_vars PROVE TypeSane'
  OBVIOUS
<1>1. ASSUME NEW j \in Jobs, Calls(j) PROVE TypeSane'
  BY <1>1, AskTypes, AskJoinTypes, AskRechargeTypes, AskTransferTypes DEF Calls
<1>2. ASSUME NEW j \in Jobs, JobStep(j) PROVE TypeSane'
  BY <1>2, RecoverTypes, StartTypes, FinishTypes, ReportTypes, CleanupTypes, FuelTypes DEF JobStep
<1>3. ASSUME NEW j \in Jobs, Kill(j) PROVE TypeSane'
  BY <1>3, CleanupTypes
<1>4. CASE UNCHANGED vars
  BY <1>4 DEF vars, TypeSane, TypeOK, JobsSane, Sane
<1>. QED
  BY <1>1, <1>2, <1>3, <1>4, AskStatusTypes, FleeTypes, TickTypes DEF Next

(* Rows and copies in memory keep their shape, and no tank is written      *)
(* below nothing or above its capacity, for any map, fleet and tank.       *)
THEOREM TypeSafety == Spec => []TypeOK
<1>1. TypeSane => TypeOK
  BY DEF TypeSane
<1>. QED
  BY <1>1, InitTypes, NextTypes, PTL DEF Spec

-----------------------------------------------------------------------------
(* Jumps. A step either leaves the way of every ship alone, or puts one    *)
(* ship down that no other function carries, or starts one jump, or lets a *)
(* ship flee, or lets time pass.                                           *)

Jumps == TransitOnWarp /\ JumpOwned /\ InTime

SameWay(s) ==
  /\ ship'[s].hyper = ship[s].hyper /\ ship'[s].dest = ship[s].dest
  /\ ship'[s].sector = ship[s].sector /\ ship'[s].left = ship[s].left

SameJump(j) ==
  /\ Carries(j) /\ jobs'[j].ship = jobs[j].ship /\ jobs'[j].from = jobs[j].from
  /\ jobs'[j].dest = jobs[j].dest /\ jobs'[j].left = jobs[j].left

\* What excuses a ship once excuses it for good.
LEMMA CourseOnce ==
  ASSUME cut \subseteq cut'
  PROVE  (OnCourse' => OnCourse) /\ ("flee" \notin cut' => "flee" \notin cut)
  BY DEF OnCourse

LEMMA OnCourseNoFlee ==
  ASSUME OnCourse
  PROVE  "flee" \notin cut
  BY DEF OnCourse

\* No ship changes its way, and no function takes one up.
LEMMA Calm ==
  ASSUME Jumps, NEW j \in Jobs, \A s \in Ships : SameWay(s), cut \subseteq cut',
         TypeSane, TypeSane',
         \A k \in Jobs \ {j} : jobs'[k] = jobs[k], Carries(j)' => SameJump(j)
  PROVE  Jumps'
<1>1. TransitOnWarp'
  BY CourseOnce DEF Jumps, TransitOnWarp, SameWay
<1>2. ASSUME OnCourse', NEW k \in Jobs, Carries(k)' PROVE SameJump(k) /\ OnCourse
  BY <1>2, CourseOnce DEF SameJump, Carries
<1>3. \A k \in Jobs : jobs[k].ship \in Ships /\ jobs'[k].ship \in Ships
  BY DEF TypeSane, TypeOK, Job
<1>4. JumpOwned'
  <2>. SUFFICES ASSUME OnCourse', NEW k \in Jobs, Carries(k)'
                PROVE  LET r == ship'[jobs'[k].ship] IN
                       /\ r.hyper /\ r.sector = jobs'[k].from /\ r.dest = jobs'[k].dest
                       /\ \A l \in Jobs \ {k} : Carries(l)' => jobs'[l].ship # jobs'[k].ship
    BY DEF JumpOwned, Carries
  <2>1. SameJump(k) /\ OnCourse /\ SameWay(jobs[k].ship)
    BY <1>2, <1>3
  <2>2. LET r == ship[jobs[k].ship] IN
        /\ r.hyper /\ r.sector = jobs[k].from /\ r.dest = jobs[k].dest
        /\ \A l \in Jobs \ {k} : Carries(l) => jobs[l].ship # jobs[k].ship
    BY <2>1 DEF Jumps, JumpOwned, Carries, SameJump
  <2>3. \A l \in Jobs \ {k} : Carries(l)' => jobs'[l].ship # jobs'[k].ship
    BY <1>2, <2>1, <2>2 DEF SameJump
  <2>. QED
    BY <2>1, <2>2, <2>3 DEF SameJump, SameWay
<1>5. InTime'
  <2>. SUFFICES ASSUME OnCourse', NEW k \in Jobs, Carries(k)'
                PROVE  ship'[jobs'[k].ship].left = jobs'[k].left
    BY DEF InTime
  <2>1. SameJump(k) /\ OnCourse /\ SameWay(jobs[k].ship)
    BY <1>2, <1>3
  <2>. QED
    BY <2>1 DEF Jumps, InTime, SameJump, SameWay
<1>. QED
  BY <1>1, <1>4, <1>5 DEF Jumps

\* A ship is put down that nobody else carries.
LEMMA PutDown ==
  ASSUME Jumps, TypeSane, TypeSane', NEW j \in Jobs, NEW s \in Ships, NEW x \in Sectors,
         ship' = Landed(s, x), cut \subseteq cut', ~Carries(j)',
         \A k \in Jobs \ {j} : jobs'[k] = jobs[k],
         OnCourse' => \A k \in Jobs \ {j} : Carries(k) => jobs[k].ship # s
  PROVE  Jumps'
<1>1. ~ship'[s].hyper /\ \A t \in Ships \ {s} : ship'[t] = ship[t]
  BY LandedRow DEF TypeSane, TypeOK
<1>2. TransitOnWarp'
  BY <1>1, CourseOnce DEF Jumps, TransitOnWarp
<1>3. ASSUME OnCourse', NEW k \in Jobs, Carries(k)'
      PROVE  /\ OnCourse /\ Carries(k) /\ jobs'[k] = jobs[k]
             /\ ship'[jobs[k].ship] = ship[jobs[k].ship]
  <2>1. k # j /\ jobs'[k] = jobs[k]
    BY <1>3
  <2>2. Carries(k) /\ jobs[k].ship \in Ships \ {s}
    BY <1>3, <2>1 DEF Carries, TypeSane, TypeOK, Job
  <2>. QED
    BY <1>1, <1>3, <2>1, <2>2, CourseOnce
<1>4. JumpOwned'
  <2>. SUFFICES ASSUME OnCourse', NEW k \in Jobs, Carries(k)'
                PROVE  LET r == ship'[jobs'[k].ship] IN
                       /\ r.hyper /\ r.sector = jobs'[k].from /\ r.dest = jobs'[k].dest
                       /\ \A l \in Jobs \ {k} : Carries(l)' => jobs'[l].ship # jobs'[k].ship
    BY DEF JumpOwned, Carries
  <2>1. LET r == ship[jobs[k].ship] IN
        /\ r.hyper /\ r.sector = jobs[k].from /\ r.dest = jobs[k].dest
        /\ \A l \in Jobs \ {k} : Carries(l) => jobs[l].ship # jobs[k].ship
    BY <1>3 DEF Jumps, JumpOwned, Carries
  <2>. QED
    BY <1>3, <2>1
<1>5. InTime'
  <2>. SUFFICES ASSUME OnCourse', NEW k \in Jobs, Carries(k)'
                PROVE  ship'[jobs'[k].ship].left = jobs'[k].left
    BY DEF InTime
  <2>. QED
    BY <1>3 DEF Jumps, InTime
<1>. QED
  BY <1>2, <1>4, <1>5 DEF Jumps

\* A ship changes sector along a warp in this step.
ByWarp ==
  OnCourse' => \A s \in Ships :
    ship'[s].sector # ship[s].sector => ship'[s].sector \in Warps[ship[s].sector]

LEMMA PutDownByWarp ==
  ASSUME TypeSane, NEW s \in Ships, NEW x \in Sectors, ship' = Landed(s, x),
         OnCourse' => x = ship[s].sector \/ x \in Warps[ship[s].sector]
  PROVE  ByWarp
<1>1. ship'[s].sector = x /\ \A t \in Ships \ {s} : ship'[t] = ship[t]
  BY LandedRow DEF TypeSane, TypeOK
<1>. QED
  BY <1>1 DEF ByWarp

\* A call that begins, ends or is killed.
LEMMA CallJumps ==
  ASSUME Jumps, TypeSane, TypeSane', NEW j \in Jobs,
         Calls(j) \/ Kill(j) \/ (\E s \in Ships : AskStatus(j, s))
  PROVE  Jumps' /\ ByWarp
<1>1. ship' = ship /\ cut' = cut
  BY ZenonT(30) DEF Calls, Kill, AskStatus, Ask, AskJoin, AskRecharge, AskTransfer
<1>2. PICK job : Become(j, job) /\ ~(job.step \in {"jump", "abort"})
  <2>1. ASSUME NEW s \in Ships, NEW x \in Sectors, Ask(j, s, x)
        PROVE  \E job : Become(j, job) /\ ~(job.step \in {"jump", "abort"})
    <3>. DEFINE job == [Resting EXCEPT !.ship = s, !.dest = x, !.from = ship[s].sector,
                                       !.warp = ship[s].warp]
                rec == [job EXCEPT !.step = "recover", !.stuck = ship[s].dest, !.then = TRUE]
    <3>1. ship[s].sector \in Sectors /\ ship[s].warp \in 0..Tank
      BY DEF TypeSane, TypeOK, Row
    <3>2. job \in Job
      BY <3>1, RestingSane DEF Job
    <3>3. rec.step = "recover"
      BY <3>2 DEF Job
    <3>4. Become(j, rec) \/ Become(j, Cleared(job, ship[s].sector))
      BY <2>1 DEF Ask
    <3>. HIDE DEF job, rec
    <3>. QED
      BY <3>1, <3>2, <3>3, <3>4, ClearedSane
  <2>2. ASSUME NEW s \in Ships, NEW x \in Sectors, AskJoin(j, s, x)
        PROVE  \E job : Become(j, job) /\ ~(job.step \in {"jump", "abort"})
    <3>. DEFINE job == [Resting EXCEPT !.step = "join", !.ship = s, !.dest = x]
    <3>1. job.step = "join"
      BY RestingSane DEF Job
    <3>2. Become(j, job)
      BY <2>2 DEF AskJoin
    <3>. HIDE DEF job
    <3>. QED
      BY <3>1, <3>2
  <2>3. ASSUME NEW s \in Ships, NEW n \in Units, AskRecharge(j, s, n)
        PROVE  \E job : Become(j, job) /\ ~(job.step \in {"jump", "abort"})
    <3>. DEFINE job == [Resting EXCEPT !.step = "recharge", !.ship = s, !.warp = ship[s].warp,
                                       !.units = Lesser(n, Tank - ship[s].warp)]
    <3>1. job.step = "recharge"
      BY RestingSane DEF Job
    <3>2. Become(j, job)
      BY <2>3 DEF AskRecharge
    <3>. HIDE DEF job
    <3>. QED
      BY <3>1, <3>2
  <2>4. ASSUME NEW s \in Ships, NEW n \in Units, NEW t \in Ships, AskTransfer(j, s, t, n)
        PROVE  \E job : Become(j, job) /\ ~(job.step \in {"jump", "abort"})
    <3>. DEFINE job == [Resting EXCEPT !.step = "debit", !.ship = s, !.other = t,
                                       !.units = Moved(n, ship[s].warp, ship[t].warp),
                                       !.warp = ship[s].warp, !.has = ship[t].warp]
    <3>1. job.step = "debit"
      BY RestingSane DEF Job
    <3>2. Become(j, job)
      BY <2>4 DEF AskTransfer
    <3>. HIDE DEF job
    <3>. QED
      BY <3>1, <3>2
  <2>5. ASSUME NEW s \in Ships, AskStatus(j, s)
        PROVE  \E job : Become(j, job) /\ ~(job.step \in {"jump", "abort"})
    <3>. DEFINE job == [Resting EXCEPT !.step = "recover", !.ship = s, !.stuck = ship[s].dest]
    <3>1. job.step = "recover"
      BY RestingSane DEF Job
    <3>2. Become(j, job)
      BY <2>5 DEF AskStatus
    <3>. HIDE DEF job
    <3>. QED
      BY <3>1, <3>2
  <2>6. ASSUME Kill(j)
        PROVE  \E job : Become(j, job) /\ ~(job.step \in {"jump", "abort"})
    BY <2>6, RestingSane DEF Kill, EndJob, Resting
  <2>. QED
    BY <2>1, <2>2, <2>3, <2>4, <2>5, <2>6 DEF Calls
<1>3. ~Carries(j)' /\ \A k \in Jobs \ {j} : jobs'[k] = jobs[k]
  BY <1>2 DEF Become, Carries, TypeSane, TypeOK
<1>4. Jumps'
  BY <1>1, <1>3, Calm DEF SameWay
<1>. QED
  BY <1>1, <1>4, ZenonT(30) DEF ByWarp

(* Where a jump that is carried is, when nothing took a ship off its way.  *)
LEMMA CarriedRow ==
  ASSUME Jumps, TypeSane, OnCourse, NEW k \in Jobs, Carries(k)
  PROVE  /\ ship[jobs[k].ship].hyper /\ ship[jobs[k].ship].sector = jobs[k].from
         /\ ship[jobs[k].ship].dest = jobs[k].dest /\ ship[jobs[k].ship].left = jobs[k].left
         /\ ship[jobs[k].ship].left # Never
         /\ \A l \in Jobs \ {k} : Carries(l) => jobs[l].ship # jobs[k].ship
<1>1. /\ ship[jobs[k].ship].hyper /\ ship[jobs[k].ship].sector = jobs[k].from
      /\ ship[jobs[k].ship].dest = jobs[k].dest
      /\ \A l \in Jobs \ {k} : Carries(l) => jobs[l].ship # jobs[k].ship
  BY DEF Jumps, JumpOwned, Carries
<1>2. ship[jobs[k].ship].left = jobs[k].left
  BY DEF Jumps, InTime
<1>3. jobs[k].left \in Ticks /\ -Slack <= jobs[k].left
  BY JobFields DEF Sane, Carries
<1>4. jobs[k].left # Never
  BY <1>3, TimeAssumption DEF Ticks, Never
<1>. QED
  BY <1>1, <1>2, <1>4

LEMMA RecoverJumps ==
  ASSUME Jumps, TypeSane, TypeSane', NEW j \in Jobs, Recover(j)
  PROVE  Jumps' /\ ByWarp
<1>. DEFINE s == jobs[j].ship
            x == jobs[j].stuck
<1>1. s \in Ships /\ x \in Sectors /\ ship' = Landed(s, x) /\ cut \subseteq cut'
  BY JobFields DEF Recover
<1>2. ~Carries(j)' /\ \A k \in Jobs \ {j} : jobs'[k] = jobs[k]
  BY JobFields, ClearedSane, RestingSane, BecomeSane DEF Recover, Carries, Resting
<1>3. OnCourse' => OnCourse /\ Overdue(s) /\ ship[s].dest = x
  BY CourseOnce, <1>1 DEF Recover, OnCourse
<1>4. OnCourse' => \A k \in Jobs \ {j} : Carries(k) => jobs[k].ship # s
  BY <1>3, CarriedRow DEF Overdue
<1>5. OnCourse' => x \in Warps[ship[s].sector]
  BY <1>1, <1>3, OnCourseNoFlee DEF Jumps, TransitOnWarp, Overdue
<1>. HIDE DEF s, x
<1>6. Jumps'
  BY <1>1, <1>2, <1>4, PutDown
<1>7. ByWarp
  BY <1>1, <1>5, PutDownByWarp
<1>. QED
  BY <1>6, <1>7

LEMMA FinishJumps ==
  ASSUME Jumps, TypeSane, TypeSane', NEW j \in Jobs, Finish(j)
  PROVE  Jumps' /\ ByWarp
<1>. DEFINE s == jobs[j].ship
            x == jobs[j].dest
<1>1. /\ s \in Ships /\ x \in Sectors /\ ship' = Landed(s, x) /\ cut' = cut
      /\ Carries(j)
  BY JobFields DEF Finish, Carries
<1>2. ~Carries(j)' /\ \A k \in Jobs \ {j} : jobs'[k] = jobs[k]
  BY FlyOn DEF Finish, Carries
<1>3. OnCourse' => OnCourse
  BY <1>1 DEF OnCourse
<1>4. OnCourse' => \A k \in Jobs \ {j} : Carries(k) => jobs[k].ship # s
  BY <1>1, <1>3, CarriedRow
<1>5. OnCourse' => x \in Warps[ship[s].sector]
  BY <1>1, <1>3, CarriedRow, OnCourseNoFlee DEF Jumps, TransitOnWarp
<1>. HIDE DEF s, x
<1>6. Jumps'
  BY <1>1, <1>2, <1>4, PutDown
<1>7. ByWarp
  BY <1>1, <1>5, PutDownByWarp
<1>. QED
  BY <1>6, <1>7

LEMMA CleanupJumps ==
  ASSUME Jumps, TypeSane, TypeSane', NEW j \in Jobs, Cleanup(j)
  PROVE  Jumps' /\ ByWarp
<1>. DEFINE s == jobs[j].ship
            x == jobs[j].from
<1>1. s \in Ships /\ x \in Sectors /\ ship' = Landed(s, x) /\ cut \subseteq cut'
  BY JobFields DEF Cleanup
<1>2. ~Carries(j)' /\ \A k \in Jobs \ {j} : jobs'[k] = jobs[k]
  BY EndJobSane, JobFields DEF Cleanup, Carries, Resting
<1>3. OnCourse' => OnCourse /\ Carries(j)
  BY <1>1, CourseOnce DEF Cleanup, OnCourse, Carries
<1>4. OnCourse' => \A k \in Jobs \ {j} : Carries(k) => jobs[k].ship # s
  BY <1>3, CarriedRow
<1>5. OnCourse' => x = ship[s].sector
  BY <1>3, CarriedRow
<1>. HIDE DEF s, x
<1>6. Jumps'
  BY <1>1, <1>2, <1>4, PutDown
<1>7. ByWarp
  BY <1>1, <1>5, PutDownByWarp
<1>. QED
  BY <1>6, <1>7

LEMMA JoinJumps ==
  ASSUME Jumps, TypeSane, TypeSane', NEW j \in Jobs, Join(j)
  PROVE  Jumps' /\ ByWarp
<1>. DEFINE s == jobs[j].ship
            x == jobs[j].dest
<1>1. s \in Ships /\ x \in Sectors /\ ship' = Landed(s, x) /\ cut \subseteq cut'
  BY JobFields DEF Join
<1>2. ~Carries(j)' /\ \A k \in Jobs \ {j} : jobs'[k] = jobs[k]
  BY EndJobSane, JobFields DEF Join, Carries, Resting
<1>3. OnCourse' => OnCourse /\ ~ship[s].hyper /\ x = ship[s].sector
  BY <1>1, CourseOnce DEF Join, OnCourse
<1>4. OnCourse' => \A k \in Jobs \ {j} : Carries(k) => jobs[k].ship # s
  BY <1>3, CarriedRow
<1>. HIDE DEF s, x
<1>5. Jumps'
  BY <1>1, <1>2, <1>4, PutDown
<1>6. ByWarp
  BY <1>1, <1>3, PutDownByWarp
<1>. QED
  BY <1>5, <1>6

LEMMA StartJumps ==
  ASSUME Jumps, TypeSane, TypeSane', NEW j \in Jobs, Start(j)
  PROVE  Jumps' /\ ByWarp
<1>. DEFINE s == jobs[j].ship
<1>1. CASE ~ship[s].hyper /\ ship[s].sector = jobs[j].from
  <2>1. EnterHyperspace(j) /\ Carried(j) /\ jobs[j].step = "start"
    BY <1>1 DEF Start
  <2>2. /\ s \in Ships /\ jobs[j].dest \in Warps[jobs[j].from]
        /\ jobs[j].from \in Sectors /\ jobs[j].dest \in Sectors
    BY <2>1, JobFields DEF Sane
  <2>3. /\ cut \subseteq cut' /\ ship'[s].hyper /\ ship'[s].dest = jobs[j].dest
        /\ ship'[s].left = jobs[j].left /\ ship'[s].sector = jobs[j].from
        /\ \A t \in Ships \ {s} : ship'[t] = ship[t]
    BY <1>1, <2>1, EnterRow
  <2>4. /\ \A k \in Jobs \ {j} : jobs'[k] = jobs[k]
        /\ Carries(j)' => /\ jobs'[j].ship = s /\ jobs'[j].from = jobs[j].from
                          /\ jobs'[j].dest = jobs[j].dest /\ jobs'[j].left = jobs[j].left
    <3>1. CASE EndJob(j)
      BY <3>1, EndJobSane, JobFields DEF Carries, Resting
    <3>2. CASE Become(j, [jobs[j] EXCEPT !.step = "jump"])
      BY <2>1, <3>2, FlyOn
    <3>. QED
      BY <2>1, <3>1, <3>2 DEF Carried
  <2>5. OnCourse' => OnCourse /\ \A k \in Jobs \ {j} : Carries(k) => jobs[k].ship # s
    BY <1>1, <2>3, CarriedRow, CourseOnce
  <2>6. \A k \in Jobs : jobs[k].ship \in Ships
    BY JobFields
  <2>. HIDE DEF s
  <2>7. TransitOnWarp'
    BY <2>2, <2>3, CourseOnce DEF Jumps, TransitOnWarp
  <2>8. ASSUME OnCourse', NEW k \in Jobs \ {j}, Carries(k)'
        PROVE  /\ OnCourse /\ Carries(k) /\ jobs'[k] = jobs[k] /\ jobs[k].ship # s
               /\ ship'[jobs[k].ship] = ship[jobs[k].ship]
    <3>1. jobs'[k] = jobs[k] /\ Carries(k)
      BY <2>4, <2>8 DEF Carries
    <3>. QED
      BY <2>3, <2>5, <2>6, <2>8, <3>1
  <2>9. JumpOwned'
    <3>. SUFFICES ASSUME OnCourse', NEW k \in Jobs, Carries(k)'
                  PROVE  LET r == ship'[jobs'[k].ship] IN
                         /\ r.hyper /\ r.sector = jobs'[k].from /\ r.dest = jobs'[k].dest
                         /\ \A l \in Jobs \ {k} : Carries(l)' => jobs'[l].ship # jobs'[k].ship
      BY DEF JumpOwned, Carries
    <3>1. CASE k = j
      BY <2>3, <2>4, <2>8, <3>1
    <3>2. CASE k # j
      <4>1. LET r == ship[jobs[k].ship] IN
            /\ r.hyper /\ r.sector = jobs[k].from /\ r.dest = jobs[k].dest
            /\ \A l \in Jobs \ {k} : Carries(l) => jobs[l].ship # jobs[k].ship
        BY <2>8, <3>2 DEF Jumps, JumpOwned, Carries
      <4>2. \A l \in Jobs \ {k} : Carries(l)' => jobs'[l].ship # jobs'[k].ship
        BY <2>4, <2>8, <3>2, <4>1
      <4>. QED
        BY <2>8, <3>2, <4>1, <4>2
    <3>. QED
      BY <3>1, <3>2
  <2>10. InTime'
    <3>. SUFFICES ASSUME OnCourse', NEW k \in Jobs, Carries(k)'
                  PROVE  ship'[jobs'[k].ship].left = jobs'[k].left
      BY DEF InTime
    <3>1. CASE k = j
      BY <2>3, <2>4, <3>1
    <3>2. CASE k # j
      BY <2>8, <3>2 DEF Jumps, InTime
    <3>. QED
      BY <3>1, <3>2
  <2>11. ByWarp
    BY <1>1, <2>3 DEF ByWarp, s
  <2>. QED
    BY <2>7, <2>9, <2>10, <2>11 DEF Jumps
<1>2. CASE ~(~ship[s].hyper /\ ship[s].sector = jobs[j].from)
  <2>1. EndJob(j) /\ ship' = ship /\ cut' = cut
    BY <1>2 DEF Start
  <2>2. ~Carries(j)' /\ \A k \in Jobs \ {j} : jobs'[k] = jobs[k]
    BY <2>1, EndJobSane, JobFields DEF Carries, Resting
  <2>3. Jumps'
    BY <2>1, <2>2, Calm DEF SameWay
  <2>. QED
    BY <2>1, <2>3 DEF ByWarp
<1>. QED
  BY <1>1, <1>2

\* The arrival that fails, and the reports after one that did not.
LEMMA ReportJumps ==
  ASSUME Jumps, TypeSane, TypeSane', NEW j \in Jobs, FinishFails(j) \/ Report(j)
  PROVE  Jumps' /\ ByWarp
<1>1. ship' = ship /\ cut' = cut
  BY DEF FinishFails, Report
<1>2. (Carries(j)' => SameJump(j)) /\ \A k \in Jobs \ {j} : jobs'[k] = jobs[k]
  <2>1. CASE FinishFails(j)
    BY <2>1, FlyOn DEF FinishFails, Carries, SameJump
  <2>2. CASE Report(j) /\ EndJob(j)
    BY <2>2, EndJobSane, JobFields DEF Carries, Resting
  <2>3. CASE Report(j) /\ Become(j, [jobs[j] EXCEPT !.step = "back"])
    BY <2>3, FlyOn DEF Report, Carries
  <2>. QED
    BY <2>1, <2>2, <2>3 DEF Report
<1>3. Jumps'
  BY <1>1, <1>2, Calm DEF SameWay
<1>. QED
  BY <1>1, <1>3 DEF ByWarp

LEMMA FuelJumps ==
  ASSUME Jumps, TypeSane, TypeSane', NEW j \in Jobs, Recharge(j) \/ Debit(j) \/ Credit(j)
  PROVE  Jumps' /\ ByWarp
<1>1. \A s \in Ships : SameWay(s)
  BY FuelTypes DEF SameWay
<1>2. /\ cut \subseteq cut' /\ ~Carries(j)'
      /\ \A k \in Jobs \ {j} : jobs'[k] = jobs[k]
  BY FuelTypes
<1>3. Jumps'
  BY <1>1, <1>2, Calm
<1>. QED
  BY <1>1, <1>3 DEF ByWarp, SameWay

\* Who flees in mid-flight is excused; who is not in flight is not carried.
LEMMA FleeJumps ==
  ASSUME Jumps, TypeSane, TypeSane', NEW s \in Ships, NEW x \in Sectors, Flee(s, x)
  PROVE  Jumps' /\ ByWarp
<1>. DEFINE r == [ship[s] EXCEPT !.sector = x]
<1>1. /\ r.hyper = ship[s].hyper /\ r.sector = x
      /\ ship' = [ship EXCEPT ![s] = r]
  BY DEF Flee, Row, TypeSane, TypeOK
<1>2. /\ ship'[s].hyper = ship[s].hyper /\ ship'[s].sector = x
      /\ \A t \in Ships \ {s} : ship'[t] = ship[t]
  BY <1>1 DEF TypeSane, TypeOK
<1>. HIDE DEF r
<1>3. /\ jobs' = jobs /\ cut \subseteq cut' /\ x \in Warps[ship[s].sector]
      /\ "flee" \notin cut' => ~ship[s].hyper
  BY DEF Flee
<1>4. TransitOnWarp'
  BY <1>2, <1>3, CourseOnce DEF Jumps, TransitOnWarp
<1>5. OnCourse' => OnCourse /\ ~ship[s].hyper
  BY <1>3, CourseOnce DEF OnCourse
<1>6. ASSUME OnCourse', NEW k \in Jobs, Carries(k)
      PROVE  OnCourse /\ ship'[jobs[k].ship] = ship[jobs[k].ship]
  <2>1. jobs[k].ship \in Ships /\ ship[jobs[k].ship].hyper
    BY <1>5, <1>6, CarriedRow, JobFields
  <2>. QED
    BY <1>2, <1>5, <1>6, <2>1
<1>7. JumpOwned' /\ InTime'
  BY <1>3, <1>6 DEF Jumps, JumpOwned, InTime, Carries
<1>8. ByWarp
  BY <1>2, <1>3 DEF ByWarp
<1>. QED
  BY <1>4, <1>7, <1>8 DEF Jumps

LEMMA TickJumps ==
  ASSUME Jumps, TypeSane, TypeSane', Tick
  PROVE  Jumps' /\ ByWarp
<1>1. cut' = cut /\ (OnCourse' <=> OnCourse)
  BY DEF Tick, OnCourse
<1>2. \A s \in Ships : /\ ship'[s].hyper = ship[s].hyper /\ ship'[s].dest = ship[s].dest
                       /\ ship'[s].sector = ship[s].sector
                       /\ ship'[s].left = Sooner(ship[s].left)
  BY TickStep
<1>3. \A j \in Jobs : /\ jobs'[j].step = jobs[j].step /\ jobs'[j].ship = jobs[j].ship
                      /\ jobs'[j].from = jobs[j].from /\ jobs'[j].dest = jobs[j].dest
  BY TickStep
<1>4. \A j \in Jobs : Carries(j) => jobs'[j].left = Sooner(jobs[j].left)
  BY TickStep DEF Carries, Flying
<1>5. \A j \in Jobs : jobs[j].ship \in Ships
  BY JobFields
<1>6. TransitOnWarp'
  BY <1>1, <1>2 DEF Jumps, TransitOnWarp
<1>7. JumpOwned'
  BY <1>1, <1>2, <1>3, <1>5 DEF Jumps, JumpOwned
<1>8. InTime'
  BY <1>1, <1>2, <1>3, <1>4, <1>5 DEF Jumps, InTime, Carries
<1>9. ByWarp
  BY <1>2 DEF ByWarp
<1>. QED
  BY <1>6, <1>7, <1>8, <1>9 DEF Jumps

LEMMA InitJumps == Init => Jumps
  BY DEF Init, Jumps, TransitOnWarp, JumpOwned, InTime, Carries, Resting

\* Every step keeps the jumps in order and moves ships along warps.
LEMMA NextJumps ==
  ASSUME Jumps, TypeSane, TypeSane', [Next]_vars
  PROVE  Jumps' /\ ByWarp
<1>1. ASSUME NEW j \in Jobs, Calls(j) \/ Kill(j) \/ (\E s \in Ships : AskStatus(j, s))
      PROVE  Jumps' /\ ByWarp
  BY <1>1, CallJumps
<1>2. ASSUME NEW j \in Jobs, JobStep(j) PROVE Jumps' /\ ByWarp
  BY <1>2, RecoverJumps, StartJumps, FinishJumps, ReportJumps, CleanupJumps, JoinJumps,
     FuelJumps DEF JobStep
<1>3. CASE UNCHANGED vars
  BY <1>3 DEF vars, Jumps, TransitOnWarp, JumpOwned, InTime, Carries, OnCourse, ByWarp
<1>. QED
  BY <1>1, <1>2, <1>3, FleeJumps, TickJumps DEF Next

LEMMA Inductive == Spec => [](TypeSane /\ Jumps)
<1>1. Init => TypeSane /\ Jumps
  BY InitTypes, InitJumps
<1>2. TypeSane /\ Jumps /\ [Next]_vars => (TypeSane /\ Jumps)'
  BY NextTypes, NextJumps
<1>. QED
  BY <1>1, <1>2, PTL DEF Spec

(* A ship in hyperspace is on its way along a warp from the sector its row *)
(* shows, though the way was checked on an older reading of the row: the   *)
(* guard of pgStartHyperspace carries what move checked over to the row.   *)
THEOREM TransitsOnWarps == Spec => []TransitOnWarp
<1>1. TypeSane /\ Jumps => TransitOnWarp
  BY DEF Jumps
<1>. QED
  BY <1>1, Inductive, PTL

(* At most one function carries a ship, and while one does the row shows   *)
(* its jump: as long as every living function ends within the threshold    *)
(* of the recovery (Slack <= Threshold, in TimeAssumption), and until a    *)
(* ship was taken off its way by one of the things that OnCourse excludes. *)
(* After a kill or a failed step a ship may fly with nobody to carry it.   *)
THEOREM JumpsOwned == Spec => []JumpOwned
<1>1. TypeSane /\ Jumps => JumpOwned
  BY DEF Jumps
<1>. QED
  BY <1>1, Inductive, PTL

(* Every step that changes a ship's sector changes it along a warp, what   *)
(* ever functions overlap, die or are recovered from.                      *)
THEOREM MovesAlongWarps == Spec => AlongWarps
<1>1. TypeSane /\ Jumps /\ [Next]_vars => ByWarp
  BY NextTypes, NextJumps
<1>2. ByWarp <=> (OnCourse' => \A s \in Ships :
        ship'[s].sector # ship[s].sector => ship'[s].sector \in Warps[ship[s].sector])
  BY DEF ByWarp
<1>3. TypeSane /\ Jumps /\ [Next]_vars =>
        [OnCourse' => \A s \in Ships :
          ship'[s].sector # ship[s].sector => ship'[s].sector \in Warps[ship[s].sector]]_vars
  BY <1>1, <1>2
<1>. QED
  BY <1>3, Inductive, PTL DEF Spec, AlongWarps
-----------------------------------------------------------------------------
(* Warp power. What the tanks hold, what a transfer has in hand and what   *)
(* was burnt, less what was bought, never come to more than before a step  *)
(* unless it notes that it wrote a tank up from a stale reading.           *)

Fuel == [s \in Ships |-> ship[s].warp]
AllFuel == SumFunctionOnSet(Fuel, Ships)

\* Between the two statements of a transfer its units are in no tank.
InHand == [j \in Jobs |-> IF jobs[j].step = "credit" THEN jobs[j].units ELSE 0]
AllInHand == SumFunctionOnSet(InHand, Jobs)

Books == AllFuel + AllInHand + out

LEMMA BooksInt ==
  ASSUME TypeOK
  PROVE  AllFuel \in Int /\ AllInHand \in Nat /\ out \in Int
<1>1. \A s \in Ships : Fuel[s] \in Int
  BY WarpAssumption DEF TypeOK, Row, Fuel
<1>2. \A j \in Jobs : InHand[j] \in Nat
  BY WarpAssumption DEF TypeOK, Job, InHand
<1>3. IsFiniteSet(Ships) /\ IsFiniteSet(Jobs)
  BY ShipsAssumption, JobsAssumption
<1>. QED
  BY <1>1, <1>2, <1>3, SumIsInt, SumIsNat DEF AllFuel, AllInHand, TypeOK

LEMMA FuelKept ==
  ASSUME \A s \in Ships : ship'[s].warp = ship[s].warp
  PROVE  AllFuel' = AllFuel
<1>1. Fuel' = Fuel
  BY DEF Fuel
<1>. QED
  BY <1>1 DEF AllFuel

\* One tank is written, to no more than a difference above what it has.
LEMMA FuelWritten ==
  ASSUME TypeOK, TypeOK', NEW a \in Ships, NEW d \in Int,
         ship'[a].warp <= ship[a].warp + d,
         \A s \in Ships \ {a} : ship'[s].warp = ship[s].warp
  PROVE  AllFuel' \in Int /\ AllFuel' <= AllFuel + d
<1>. DEFINE g == [s \in Ships |-> ship'[s].warp]
<1>1. \A s \in Ships : Fuel[s] \in Int /\ g[s] \in Int /\ Fuel[s] = ship[s].warp
  BY WarpAssumption DEF TypeOK, Row, Fuel
<1>2. \A s \in Ships \ {a} : g[s] = Fuel[s]
  BY DEF Fuel
<1>3. g[a] <= Fuel[a] + d
  BY DEF Fuel
<1>4. AllFuel' = SumFunctionOnSet(g, Ships)
  BY DEF AllFuel, Fuel
<1>5. IsFiniteSet(Ships)
  BY ShipsAssumption
<1>. HIDE DEF g
<1>6. SumFunctionOnSet(g, Ships) = SumFunctionOnSet(Fuel, Ships) - Fuel[a] + g[a]
  BY <1>1, <1>2, <1>5, SumChanges
<1>7. SumFunctionOnSet(Fuel, Ships) \in Int
  BY <1>1, <1>5, SumIsInt
<1>. QED
  BY <1>1, <1>3, <1>4, <1>6, <1>7 DEF AllFuel

\* One request goes on: what is in hand changes by what that one has.
LEMMA HandChanged ==
  ASSUME TypeOK, TypeOK', NEW j \in Jobs, \A k \in Jobs \ {j} : jobs'[k] = jobs[k]
  PROVE  AllInHand' = AllInHand - InHand[j] + InHand'[j]
<1>. DEFINE g == [k \in Jobs |-> IF jobs'[k].step = "credit" THEN jobs'[k].units ELSE 0]
<1>1. \A k \in Jobs : InHand[k] \in Int /\ g[k] \in Int
  BY WarpAssumption DEF TypeOK, Job, InHand
<1>2. \A k \in Jobs \ {j} : g[k] = InHand[k]
  BY DEF InHand
<1>3. AllInHand' = SumFunctionOnSet(g, Jobs) /\ InHand'[j] = g[j]
  BY DEF AllInHand, InHand
<1>. HIDE DEF g
<1>. QED
  BY <1>1, <1>2, <1>3, JobsAssumption, SumChanges DEF AllInHand

\* A request that has nothing in hand afterwards leaves no more in hand.
LEMMA HandEmptied ==
  ASSUME TypeOK, TypeOK', NEW j \in Jobs, \A k \in Jobs \ {j} : jobs'[k] = jobs[k],
         jobs'[j].step # "credit"
  PROVE  AllInHand' = AllInHand - InHand[j] /\ InHand[j] \in Nat
<1>1. InHand[j] \in Nat /\ InHand'[j] = 0
  BY WarpAssumption DEF TypeOK, Job, InHand
<1>2. AllInHand' = AllInHand - InHand[j] + InHand'[j]
  BY HandChanged
<1>3. AllInHand \in Nat
  BY BooksInt
<1>. QED
  BY <1>1, <1>2, <1>3

\* What a step does to the books.
OnBooks == "warp" \notin cut' => "warp" \notin cut /\ Books' \in Int /\ Books' <= Books

\* No tank is written and nothing burnt or bought.
LEMMA DryStep ==
  ASSUME TypeOK, TypeOK', NEW j \in Jobs, \A k \in Jobs \ {j} : jobs'[k] = jobs[k],
         jobs'[j].step # "credit", \A s \in Ships : ship'[s].warp = ship[s].warp,
         out' = out, cut \subseteq cut'
  PROVE  OnBooks
<1>1. AllFuel' = AllFuel
  BY FuelKept
<1>2. AllInHand' = AllInHand - InHand[j] /\ InHand[j] \in Nat
  BY HandEmptied
<1>3. AllFuel \in Int /\ AllInHand \in Nat /\ out \in Int
  BY BooksInt
<1>4. Books' = AllFuel' + AllInHand' + out'
  BY DEF Books
<1>. QED
  BY <1>1, <1>2, <1>3, <1>4 DEF OnBooks, Books

\* One tank is written from a reading, and hand and history move along.
LEMMA FuelStep ==
  ASSUME TypeOK, TypeOK', NEW s \in Ships, NEW w \in Int, NEW d \in Int,
         ship'[s].warp = w + d, \A t \in Ships \ {s} : ship'[t].warp = ship[t].warp,
         cut' = cut \cup OffBooks(s, w),
         NEW e \in Int, AllInHand' = AllInHand + e, out' = out - d - e
  PROVE  OnBooks
<1>1. SUFFICES ASSUME "warp" \notin cut' PROVE Books' \in Int /\ Books' <= Books
  BY DEF OnBooks
<1>2. w <= ship[s].warp
  BY <1>1 DEF OffBooks
<1>3. ship[s].warp \in Int
  BY WarpAssumption DEF TypeOK, Row
<1>4. ship'[s].warp <= ship[s].warp + d
  BY <1>2, <1>3
<1>5. PICK f \in Int : AllFuel' = f /\ f <= AllFuel + d
  BY <1>4, FuelWritten
<1>6. AllFuel \in Int /\ AllInHand \in Int /\ out \in Int
  BY BooksInt
<1>7. Books' = AllFuel' + AllInHand' + out' /\ Books = AllFuel + AllInHand + out
  BY DEF Books
<1>8. Books' = f + (AllInHand + e) + (out - d - e)
  BY <1>5, <1>7
<1>. QED
  BY <1>5, <1>6, <1>7, <1>8

\* Recharge and the two statements of a transfer.
LEMMA TransferFuel ==
  ASSUME TypeSane, NEW j \in Jobs, Recharge(j) \/ Debit(j) \/ Credit(j)
  PROVE  OnBooks
<1>. DEFINE job == jobs[j]
<1>1. /\ job.ship \in Ships /\ job.other \in Ships /\ job.warp \in Int /\ job.has \in Int
      /\ job.units \in Int /\ -job.units \in Int /\ ship \in [Ships -> Row]
      /\ jobs \in [Jobs -> Job] /\ out \in Int /\ TypeOK
  BY JobFields, WarpAssumption DEF TypeSane, TypeOK
<1>2. TypeOK' /\ \A k \in Jobs \ {j} : jobs'[k] = jobs[k]
  BY FuelTypes DEF TypeSane
<1>3. AllInHand' = AllInHand - InHand[j] + InHand'[j] /\ AllInHand \in Int
  BY <1>1, <1>2, HandChanged, BooksInt
<1>4. CASE Recharge(j)
  <2>1. /\ ship'[job.ship].warp = job.warp + job.units
        /\ \A t \in Ships \ {job.ship} : ship'[t].warp = ship[t].warp
    BY <1>1, <1>4 DEF Recharge, Row
  <2>2. InHand[j] = 0 /\ InHand'[j] = 0
    BY <1>1, <1>4 DEF Recharge, InHand, EndJob, Become, Resting
  <2>3. AllInHand' = AllInHand + 0 /\ out' = out - job.units - 0
    BY <1>1, <1>3, <1>4, <2>2 DEF Recharge
  <2>4. cut' = cut \cup OffBooks(job.ship, job.warp)
    BY <1>4 DEF Recharge
  <2>. QED
    BY <1>1, <1>2, <2>1, <2>3, <2>4, FuelStep
<1>5. CASE Debit(j)
  <2>1. /\ ship'[job.ship].warp = job.warp + (-job.units)
        /\ \A t \in Ships \ {job.ship} : ship'[t].warp = ship[t].warp
    BY <1>1, <1>5 DEF Debit, Row
  <2>2. InHand[j] = 0 /\ InHand'[j] = job.units
    BY <1>1, <1>5 DEF Debit, InHand, Become, Job
  <2>3. AllInHand' = AllInHand + job.units /\ out' = out - (-job.units) - job.units
    BY <1>1, <1>3, <1>5, <2>2 DEF Debit
  <2>4. cut' = cut \cup OffBooks(job.ship, job.warp)
    BY <1>5 DEF Debit
  <2>. QED
    BY <1>1, <1>2, <2>1, <2>3, <2>4, FuelStep
<1>6. CASE Credit(j)
  <2>1. /\ ship'[job.other].warp = job.has + job.units
        /\ \A t \in Ships \ {job.other} : ship'[t].warp = ship[t].warp
    BY <1>1, <1>6 DEF Credit, Row
  <2>2. InHand[j] = job.units /\ InHand'[j] = 0
    BY <1>1, <1>6 DEF Credit, InHand, EndJob, Become, Resting
  <2>3. AllInHand' = AllInHand + (-job.units) /\ out' = out - job.units - (-job.units)
    BY <1>1, <1>3, <1>6, <2>2 DEF Credit
  <2>4. cut' = cut \cup OffBooks(job.other, job.has)
    BY <1>6 DEF Credit
  <2>. QED
    BY <1>1, <1>2, <2>1, <2>3, <2>4, FuelStep
<1>. QED
  BY <1>4, <1>5, <1>6

\* A jump that is started burns its cost, and no other start burns any.
LEMMA StartFuel ==
  ASSUME TypeSane, NEW j \in Jobs, Start(j)
  PROVE  OnBooks
<1>1. TypeOK /\ TypeOK' /\ out \in Int
  BY StartTypes DEF TypeSane, TypeOK
<1>2. /\ \A k \in Jobs \ {j} : jobs'[k] = jobs[k]
      /\ jobs[j].step = "start" /\ jobs'[j].step # "credit"
  BY JobFields DEF Start, Carried, EndJob, Become, Resting, TypeSane, TypeOK, Job
<1>3. CASE EnterHyperspace(j)
  <2>. DEFINE s == jobs[j].ship
  <2>1. s \in Ships /\ jobs[j].warp \in Int /\ Cost \in Int /\ -Cost \in Int
    BY JobFields, WarpAssumption
  <2>2. /\ ship'[s].warp = jobs[j].warp + (-Cost)
        /\ \A t \in Ships \ {s} : ship'[t].warp = ship[t].warp
    BY <1>1, <1>3, <2>1 DEF EnterHyperspace, TypeOK, Row
  <2>3. InHand[j] = 0 /\ InHand'[j] = 0
    BY <1>2 DEF InHand
  <2>4. AllInHand' = AllInHand - InHand[j] + InHand'[j] /\ AllInHand \in Int
    BY <1>1, <1>2, HandChanged, BooksInt
  <2>5. AllInHand' = AllInHand + 0 /\ out' = out - (-Cost) - 0
    BY <1>1, <1>3, <2>1, <2>3, <2>4 DEF EnterHyperspace
  <2>6. cut' = cut \cup OffBooks(s, jobs[j].warp)
    BY <1>3 DEF EnterHyperspace
  <2>. QED
    BY <1>1, <2>1, <2>2, <2>5, <2>6, FuelStep
<1>4. CASE UNCHANGED <<ship, out, cut>>
  BY <1>1, <1>2, <1>4, DryStep
<1>. QED
  BY <1>3, <1>4 DEF Start

\* Only the first statement of a transfer leaves its units in hand.
LEMMA BecomesOther ==
  ASSUME TypeSane, NEW j \in Jobs,
         \/ Calls(j) \/ Kill(j) \/ (\E s \in Ships : AskStatus(j, s))
         \/ Recover(j) \/ Finish(j) \/ FinishFails(j) \/ Report(j) \/ Cleanup(j) \/ Join(j)
  PROVE  \E job : Become(j, job) /\ job.step # "credit"
<1>1. Resting.step = "idle"
  BY DEF Resting
<1>2. CASE EndJob(j)
  BY <1>1, <1>2 DEF EndJob
<1>3. ASSUME NEW s \in Ships, NEW x \in Sectors, Ask(j, s, x)
      PROVE  \E job : Become(j, job) /\ job.step # "credit"
  <2>. DEFINE job == [Resting EXCEPT !.ship = s, !.dest = x, !.from = ship[s].sector,
                                     !.warp = ship[s].warp]
              rec == [job EXCEPT !.step = "recover", !.stuck = ship[s].dest, !.then = TRUE]
              go == [job EXCEPT !.step = "start", !.from = ship[s].sector, !.left = Flight]
  <2>1. rec.step # "credit" /\ go.step # "credit"
    BY DEF Resting
  <2>2. Become(j, rec) \/ Become(j, go) \/ Become(j, Resting)
    BY <1>3 DEF Ask, Cleared
  <2>. QED
    BY <1>1, <2>1, <2>2
<1>4. ASSUME NEW s \in Ships, NEW x \in Sectors, AskJoin(j, s, x)
      PROVE  \E job : Become(j, job) /\ job.step # "credit"
  <2>1. [Resting EXCEPT !.step = "join", !.ship = s, !.dest = x].step # "credit"
    BY DEF Resting
  <2>. QED
    BY <1>4, <2>1 DEF AskJoin
<1>5. ASSUME NEW s \in Ships, NEW n \in Units, AskRecharge(j, s, n)
      PROVE  \E job : Become(j, job) /\ job.step # "credit"
  <2>. DEFINE job == [Resting EXCEPT !.step = "recharge", !.ship = s, !.warp = ship[s].warp,
                                     !.units = Lesser(n, Tank - ship[s].warp)]
  <2>1. job.step # "credit" /\ Become(j, job)
    BY <1>5 DEF AskRecharge, Resting
  <2>. QED
    BY <2>1
<1>6. ASSUME NEW s \in Ships, NEW n \in Units, NEW t \in Ships, AskTransfer(j, s, t, n)
      PROVE  \E job : Become(j, job) /\ job.step # "credit"
  <2>. DEFINE job == [Resting EXCEPT !.step = "debit", !.ship = s, !.other = t,
                                     !.units = Moved(n, ship[s].warp, ship[t].warp),
                                     !.warp = ship[s].warp, !.has = ship[t].warp]
  <2>1. job.step # "credit" /\ Become(j, job)
    BY <1>6 DEF AskTransfer, Resting
  <2>. QED
    BY <2>1
<1>7. ASSUME NEW s \in Ships, AskStatus(j, s)
      PROVE  \E job : Become(j, job) /\ job.step # "credit"
  <2>. DEFINE job == [Resting EXCEPT !.step = "recover", !.ship = s, !.stuck = ship[s].dest]
  <2>1. job.step # "credit" /\ Become(j, job)
    BY <1>7 DEF AskStatus, Resting
  <2>. QED
    BY <2>1
<1>8. CASE Recover(j)
  <2>1. CASE Become(j, Cleared(jobs[j], jobs[j].stuck))
    <3>. DEFINE go == [jobs[j] EXCEPT !.step = "start", !.from = jobs[j].stuck, !.left = Flight]
    <3>1. go.step = "start"
      BY JobFields DEF Job
    <3>2. Cleared(jobs[j], jobs[j].stuck) \in {go, Resting}
      BY DEF Cleared
    <3>. QED
      BY <1>1, <2>1, <3>1, <3>2
  <2>. QED
    BY <1>1, <1>8, <2>1 DEF Recover
<1>9. CASE Finish(j) \/ FinishFails(j) \/ Report(j)
  <2>1. \A step \in Steps : [jobs[j] EXCEPT !.step = step].step = step
    BY JobFields DEF Job
  <2>2. \/ EndJob(j)
        \/ \E step \in {"arrived", "abort", "back"} : Become(j, [jobs[j] EXCEPT !.step = step])
    BY <1>9 DEF Finish, FinishFails, Report
  <2>. QED
    BY <1>2, <2>1, <2>2 DEF Steps
<1>10. CASE Kill(j) \/ Cleanup(j) \/ Join(j)
  BY <1>2, <1>10 DEF Kill, Cleanup, Join
<1>. QED
  BY <1>3, <1>4, <1>5, <1>6, <1>7, <1>8, <1>9, <1>10 DEF Calls

\* The steps of one request that only put its ship down, or touch none.
LEMMA OtherFuel ==
  ASSUME TypeSane, TypeSane', NEW j \in Jobs,
         \/ Calls(j) \/ Kill(j) \/ (\E s \in Ships : AskStatus(j, s))
         \/ Recover(j) \/ Finish(j) \/ FinishFails(j) \/ Report(j) \/ Cleanup(j) \/ Join(j)
  PROVE  OnBooks
<1>1. TypeOK /\ TypeOK'
  BY DEF TypeSane
<1>2. CASE Calls(j) \/ Kill(j) \/ (\E s \in Ships : AskStatus(j, s)) \/ FinishFails(j) \/ Report(j)
  <2>1. UNCHANGED <<ship, out, cut>>
    BY <1>2, ZenonT(40) DEF Calls, Ask, AskJoin, AskRecharge, AskTransfer, Kill, AskStatus, FinishFails, Report
  <2>2. \E job : Become(j, job) /\ job.step # "credit"
    BY <1>2, BecomesOther
  <2>3. /\ \A k \in Jobs \ {j} : jobs'[k] = jobs[k]
        /\ jobs'[j].step # "credit"
    BY <1>1, <2>2 DEF Become, TypeOK
  <2>. QED
    BY <1>1, <2>1, <2>3, DryStep, SMTT(40)
<1>3. CASE Recover(j) \/ Finish(j) \/ Cleanup(j) \/ Join(j)
  <2>0. \E job : Become(j, job) /\ job.step # "credit"
    BY <1>3, BecomesOther
  <2>1. /\ \A k \in Jobs \ {j} : jobs'[k] = jobs[k]
        /\ jobs'[j].step # "credit"
    BY <1>1, <2>0 DEF Become, TypeOK
  <2>2. \E x \in {jobs[j].stuck, jobs[j].dest, jobs[j].from} : ship' = Landed(jobs[j].ship, x)
    BY <1>3 DEF Recover, Finish, Cleanup, Join
  <2>3. out' = out /\ cut \subseteq cut'
    BY <1>3 DEF Recover, Finish, Cleanup, Join
  <2>4. \A s \in Ships : ship'[s].warp = ship[s].warp
    BY <1>1, <2>2 DEF Landed, TypeOK, Row
  <2>. QED
    BY <1>1, <2>1, <2>3, <2>4, DryStep
<1>. QED
  BY <1>2, <1>3

LEMMA NextFuel == TypeSane /\ [Next]_vars => OnBooks
<1>. SUFFICES ASSUME TypeSane, [Next]_vars PROVE OnBooks
  OBVIOUS
<1>1. TypeSane' /\ TypeOK /\ AllFuel \in Int /\ AllInHand \in Int /\ out \in Int
  BY NextTypes, BooksInt DEF TypeSane
<1>2. ASSUME NEW j \in Jobs, Calls(j) \/ JobStep(j) \/ Kill(j) \/ (\E s \in Ships : AskStatus(j, s))
      PROVE  OnBooks
  BY <1>1, <1>2, OtherFuel, StartFuel, TransferFuel DEF JobStep
\* No request has more or less in hand, and no tank is written.
<1>3. ASSUME InHand' = InHand, \A t \in Ships : ship'[t].warp = ship[t].warp, out' = out,
             cut \subseteq cut'
      PROVE  OnBooks
  <2>1. AllFuel' = AllFuel
    BY <1>3, FuelKept
  <2>2. AllInHand' = AllInHand
    BY <1>3 DEF AllInHand
  <2>3. Books' = Books
    BY <1>3, <2>1, <2>2 DEF Books
  <2>4. Books \in Int
    BY <1>1 DEF Books
  <2>. QED
    BY <1>3, <2>3, <2>4 DEF OnBooks
<1>4. CASE UNCHANGED vars
  BY <1>3, <1>4 DEF vars, InHand
<1>5. ASSUME NEW s \in Ships, NEW x \in Sectors, Flee(s, x)
      PROVE  OnBooks
  <2>1. \A t \in Ships : ship'[t].warp = ship[t].warp
    BY <1>5 DEF Flee, TypeSane, TypeOK, Row
  <2>2. InHand' = InHand
    BY <1>5 DEF Flee, InHand
  <2>3. out' = out /\ cut \subseteq cut'
    BY <1>5 DEF Flee
  <2>. QED
    BY <1>3, <2>1, <2>2, <2>3
<1>6. CASE Tick
  <2>1. \A t \in Ships : ship'[t].warp = ship[t].warp
    BY <1>6 DEF Tick, TypeSane, TypeOK, Row
  <2>2. \A j \in Jobs : jobs'[j].step = jobs[j].step /\ jobs'[j].units = jobs[j].units
    BY <1>6 DEF Tick, TypeSane, TypeOK, Job
  <2>3. InHand' = InHand
    BY <2>2 DEF InHand
  <2>4. out' = out /\ cut \subseteq cut'
    BY <1>6 DEF Tick
  <2>. QED
    BY <1>3, <2>1, <2>3, <2>4
<1>. QED
  BY <1>2, <1>4, <1>5, <1>6 DEF Next

\* What the books may come to, and what that says of the tanks.
Covered == "warp" \notin cut => Books <= Cardinality(Ships) * Full

LEMMA InitFuel == Init => Covered
<1>. SUFFICES ASSUME Init PROVE Covered
  OBVIOUS
<1>1. \A s \in Ships : Fuel[s] = Full
  BY DEF Init, Fuel
<1>2. \A j \in Jobs : InHand[j] = 0
  BY DEF Init, InHand, Resting
<1>3. Full \in Int /\ IsFiniteSet(Ships) /\ IsFiniteSet(Jobs) /\ out = 0
  BY WarpAssumption, ShipsAssumption, JobsAssumption DEF Init
<1>4. AllFuel = Cardinality(Ships) * Full
  BY <1>1, <1>3, SumOfConstant DEF AllFuel
<1>5. AllInHand = Cardinality(Jobs) * 0
  BY <1>2, <1>3, SumOfConstant DEF AllInHand
<1>6. Cardinality(Ships) * Full \in Int /\ Cardinality(Jobs) * 0 = 0
  BY <1>3, FS_CardinalityType
<1>. QED
  BY <1>3, <1>4, <1>5, <1>6 DEF Covered, Books

(* However jumps, purchases and transfers overlap, fail or are killed, the *)
(* tanks never come to more than was there and bought less what the jumps  *)
(* burnt: between its two statements a transfer has in hand what it took.  *)
(* Excused once a tank was written from a reading above what it then had.  *)
THEOREM NoneIsMade == Spec => []NoWarpMade
<1>1. TypeSane /\ Covered => NoWarpMade
  <2>. SUFFICES ASSUME TypeSane, Covered, "warp" \notin cut
                PROVE  AllFuel + out <= Cardinality(Ships) * Full
    BY DEF NoWarpMade, AllFuel, Fuel
  <2>1. AllFuel \in Int /\ AllInHand \in Nat /\ out \in Int
    BY BooksInt DEF TypeSane
  <2>2. Cardinality(Ships) * Full \in Int
    BY WarpAssumption, ShipsAssumption, FS_CardinalityType
  <2>. QED
    BY <2>1, <2>2 DEF Covered, Books
<1>2. TypeSane /\ Covered /\ [Next]_vars => Covered'
  <2>. SUFFICES ASSUME TypeSane, Covered, [Next]_vars, "warp" \notin cut'
                PROVE  Books' <= Cardinality(Ships) * Full
    BY DEF Covered
  <2>1. "warp" \notin cut /\ Books' \in Int /\ Books' <= Books
    BY NextFuel DEF OnBooks
  <2>2. Books <= Cardinality(Ships) * Full
    BY <2>1 DEF Covered
  <2>3. Books \in Int /\ Cardinality(Ships) * Full \in Int
    BY BooksInt, WarpAssumption, ShipsAssumption, FS_CardinalityType DEF TypeSane, Books
  <2>. QED
    BY <2>1, <2>2, <2>3
<1>. QED
  BY <1>1, <1>2, InitFuel, Inductive, PTL DEF Spec
=============================================================================
