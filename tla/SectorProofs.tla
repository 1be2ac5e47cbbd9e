---------------------------- MODULE SectorProofs ----------------------------
(***************************************************************************)
(* Proofs about what lies in a sector besides its fight: its garrison      *)
(* (GarrisonLedger) and its salvage (SalvageField), for any ships, pilots, *)
(* sectors, corporations, containers, number of requests and amounts.      *)
(*                                                                         *)
(* Garrisons stay within their cap and ships do not go below nothing, a    *)
(* sector has one garrison, no two transactions wait for one another, and  *)
(* fighters and tolls are accounted for.  What is inductive is             *)
(* TypeOK /\ Locks /\ Safe: the locks exclude, what a transaction has read *)
(* under them is what the tables hold, and what it was granted on that     *)
(* reading still holds.                                                    *)
(*                                                                         *)
(* Salvage is neither had twice nor lost while its list has one writer at  *)
(* a time, and no claim outlives its collector: the second half, from      *)
(* FieldInv, in which a pilot has one call at a time.                      *)
(***************************************************************************)
EXTENDS GarrisonLedger, SalvageField, Sums, TLAPS

\* A copy whose transaction has begun, has the row of its ship, has read the
\* rows of its sector.
InTx(x) == x.step \in {"first", "second", "commit"}
HasShip(x) ==
  \/ x.kind = "collect" /\ x.step \in {"second", "commit"}
  \/ x.kind = "leave" /\ x.step = "commit"
HasRows(x) ==
  \/ x.kind = "leave" /\ x.step \in {"second", "commit"}
  \/ x.kind = "collect" /\ x.step = "commit"

SectorsApart ==
  \A j, k \in Jobs : InTx(jobs[j]) /\ InTx(jobs[k]) /\ jobs[j].at = jobs[k].at => j = k
ShipsApart ==
  \A j, k \in Jobs :
    HasShip(jobs[j]) /\ HasShip(jobs[k]) /\ jobs[j].ship = jobs[k].ship => j = k
Locks == SectorsApart /\ ShipsApart

\* What is read under a lock stays true.
ReadsCurrent == \A j \in Jobs : HasRows(jobs[j]) => gar[jobs[j].at] = jobs[j].read

\* What a transaction was granted, at the step it has come to.
Granted(x) ==
  /\ x.kind = "leave" => x.asked \in 1..MaxGarrison
  /\ x.kind = "leave" /\ x.step \in {"second", "commit"} => MayReinforce(x, x.read)
  /\ x.kind = "leave" /\ x.step = "commit" => place[x.ship] = x.at /\ x.asked <= bays[x.ship]
  /\ x.kind = "collect" /\ x.step \in {"second", "commit"} => bays[x.ship] < Bay
  /\ x.kind = "collect" /\ x.step = "commit" => MayCollect(x, x.read)
Grants == \A j \in Jobs : Granted(jobs[j])

Safe == ReadsCurrent /\ Grants /\ OneGarrison

Inv == TypeOK /\ Locks /\ Safe

-----------------------------------------------------------------------------
(* Jobs. *)

LEMMA RestingShape == Resting \in JobStates
  BY StartAssumption DEF Resting, JobStates, Modes

\* Storing a copy changes that copy alone.
LEMMA BecomeShape ==
  ASSUME NEW j \in Jobs, NEW x \in JobStates, jobs \in [Jobs -> JobStates], Become(j, x)
  PROVE  /\ jobs' \in [Jobs -> JobStates]
         /\ jobs'[j] = x
         /\ \A k \in Jobs \ {j} : jobs'[k] = jobs[k]
  BY DEF Become

\* A request that has ended holds nothing and was granted nothing.
LEMMA RestingHolds ==
  ~InTx(Resting) /\ ~HasShip(Resting) /\ ~HasRows(Resting) /\ Granted(Resting)
  BY DEF Resting, InTx, HasShip, HasRows, Granted

LEMMA LockedSectors ==
  ASSUME NEW x \in Sectors
  PROVE  SectorLocked(x) <=> \E k \in Jobs : InTx(jobs[k]) /\ jobs[k].at = x
  BY DEF SectorLocked, InTransaction, InTx

LEMMA LockedShips ==
  ASSUME NEW s \in Ships
  PROVE  ShipLocked(s) <=> \E k \in Jobs : HasShip(jobs[k]) /\ jobs[k].ship = s
  BY DEF ShipLocked, HasShip

\* A request that goes on, and takes its locks when they are free, leaves
\* everything as it must be, as long as it writes no table.
LEMMA GoesOn ==
  ASSUME NEW j \in Jobs, NEW x \in JobStates, Inv, Become(j, x),
         UNCHANGED <<gar, bays, place, fight>>,
         InTx(x) => (InTx(jobs[j]) /\ jobs[j].at = x.at) \/ ~SectorLocked(x.at),
         HasShip(x) => (HasShip(jobs[j]) /\ jobs[j].ship = x.ship) \/ ~ShipLocked(x.ship),
         HasRows(x) => gar[x.at] = x.read,
         Granted(x)
  PROVE  Inv'
<1>. USE DEF Inv, TypeOK
<1>1. /\ jobs' \in [Jobs -> JobStates]
      /\ jobs'[j] = x
      /\ \A k \in Jobs \ {j} : jobs'[k] = jobs[k]
  BY BecomeShape
<1>2. TypeOK'
  BY <1>1 DEF FightStates
<1>3. x.at \in Sectors /\ x.ship \in Ships
  BY DEF JobStates
<1>4. SectorsApart'
  <2>. SUFFICES ASSUME NEW k \in Jobs \ {j}, InTx(x), InTx(jobs[k]), jobs[k].at = x.at
                PROVE  FALSE
    BY <1>1 DEF SectorsApart, Locks
  <2>. QED
    BY <1>3, LockedSectors DEF SectorsApart, Locks
<1>5. ShipsApart'
  <2>. SUFFICES ASSUME NEW k \in Jobs \ {j}, HasShip(x), HasShip(jobs[k]), jobs[k].ship = x.ship
                PROVE  FALSE
    BY <1>1 DEF ShipsApart, Locks
  <2>. QED
    BY <1>3, LockedShips DEF ShipsApart, Locks
<1>6. ReadsCurrent'
  BY <1>1 DEF ReadsCurrent, Safe
<1>7. Grants'
  <2>. SUFFICES ASSUME NEW k \in Jobs PROVE Granted(jobs[k])'
    BY DEF Grants
  <2>1. CASE k = j
    BY <2>1, <1>1 DEF Granted
  <2>2. CASE k # j
    BY <2>2, <1>1 DEF Granted, Grants, Safe
  <2>. QED
    BY <2>1, <2>2
<1>8. OneGarrison'
  BY DEF OneGarrison, Safe
<1>. QED
  BY <1>2, <1>4, <1>5, <1>6, <1>7, <1>8 DEF Locks, Safe

\* So does one that ends.
LEMMA Ends ==
  ASSUME NEW j \in Jobs, Inv, RollBack(j), UNCHANGED <<gar, bays, place, fight>>
  PROVE  Inv'
  BY GoesOn, RestingShape, RestingHolds DEF RollBack

-----------------------------------------------------------------------------
(* The steps that write no table. *)

LEMMA StartsWell ==
  ASSUME Init
  PROVE  Inv
<1>. USE DEF Init
<1>1. jobs \in [Jobs -> JobStates] /\ \A j \in Jobs : jobs[j] = Resting
  BY RestingShape
<1>2. gar \in [Sectors -> SUBSET GarrisonRow] /\ place \in [Ships -> Sectors]
  BY StartAssumption
<1>3. bays \in [Ships -> Nat]
  BY NumbersAssumption
<1>4. ASSUME NEW x \in Sectors
      PROVE  /\ DOMAIN fight[x].crew \subseteq Ships
             /\ fight[x] \in FightStates(DOMAIN fight[x].crew)
  BY DEF NoFight, FightStates
<1>5. TypeOK
  BY <1>1, <1>2, <1>3, <1>4 DEF TypeOK
<1>6. Locks
  BY <1>1, RestingHolds DEF Locks, SectorsApart, ShipsApart
<1>7. OneGarrison
  BY StartAssumption DEF OneGarrison
<1>8. ReadsCurrent /\ Grants
  BY <1>1, RestingHolds DEF ReadsCurrent, Grants
<1>. QED
  BY <1>5, <1>6, <1>7, <1>8 DEF Inv, Safe

LEMMA KeepsRequests ==
  ASSUME NEW j \in Jobs, Inv, Requests(j)
  PROVE  Inv'
<1>1. ASSUME NEW kind \in {"leave", "collect", "disband", "mode"}, NEW s \in Ships,
             NEW x \in Sectors, NEW n \in Nat, NEW m \in Modes,
             kind = "leave" => n # 0,
             Call(j, kind, s, x, n, m)
      PROVE  Inv'
  <2>. DEFINE job == [kind |-> kind, step |-> "begin", ship |-> s, at |-> x,
                      asked |-> n, mode |-> m, read |-> {}]
  <2>1. job \in JobStates
    BY DEF JobStates
  <2>2. ~InTx(job) /\ ~HasShip(job) /\ ~HasRows(job)
    BY DEF InTx, HasShip, HasRows
  <2>3. Granted(job)
    BY <1>1, NumbersAssumption DEF Granted, Call
  <2>4. Become(j, job) /\ UNCHANGED <<gar, bays, place, fight>>
    BY <1>1 DEF Call
  <2>. HIDE DEF job
  <2>. QED
    BY <2>1, <2>2, <2>3, <2>4, GoesOn
<1>. QED
  BY <1>1, NumbersAssumption DEF Requests, Modes

LEMMA KeepsBegin ==
  ASSUME NEW j \in Jobs, Inv, Begin(j)
  PROVE  Inv'
<1>. DEFINE x == [jobs[j] EXCEPT !.step = "first"]
<1>1. jobs[j] \in JobStates /\ Granted(jobs[j])
  BY DEF Inv, TypeOK, Safe, Grants
<1>2. x \in JobStates /\ ~HasShip(x) /\ ~HasRows(x) /\ x.at = jobs[j].at
  BY <1>1 DEF JobStates, HasShip, HasRows
<1>3. Granted(x)
  BY <1>1 DEF Granted, JobStates
<1>4. Become(j, x) /\ ~SectorLocked(x.at) /\ UNCHANGED <<gar, bays, place, fight>>
  BY <1>2 DEF Begin
<1>. HIDE DEF x
<1>. QED
  BY <1>2, <1>3, <1>4, GoesOn

LEMMA KeepsLeaveRows ==
  ASSUME NEW j \in Jobs, Inv, LeaveRows(j)
  PROVE  Inv'
<1>. DEFINE x == [jobs[j] EXCEPT !.step = "second", !.read = gar[jobs[j].at]]
<1>1. jobs[j] \in JobStates /\ Granted(jobs[j]) /\ gar[jobs[j].at] \in SUBSET GarrisonRow
  BY DEF Inv, TypeOK, Safe, Grants, JobStates
<1>2. UNCHANGED <<gar, bays, place, fight>>
  BY DEF LeaveRows
<1>3. CASE MayReinforce(jobs[j], gar[jobs[j].at])
  <2>1. Become(j, x) /\ jobs[j].kind = "leave" /\ jobs[j].step = "first"
    BY <1>3 DEF LeaveRows, Proceed
  <2>2. /\ x \in JobStates /\ ~HasShip(x) /\ x.at = jobs[j].at
        /\ InTx(jobs[j]) /\ gar[x.at] = x.read
    BY <1>1, <2>1 DEF JobStates, HasShip, InTx
  <2>3. Granted(x)
    BY <1>1, <1>3, <2>1 DEF Granted, JobStates, MayReinforce
  <2>. HIDE DEF x
  <2>. QED
    BY <1>2, <2>1, <2>2, <2>3, GoesOn
<1>4. CASE ~MayReinforce(jobs[j], gar[jobs[j].at])
  BY <1>2, <1>4, Ends DEF LeaveRows, Proceed
<1>. QED
  BY <1>3, <1>4

LEMMA KeepsLeaveShip ==
  ASSUME NEW j \in Jobs, Inv, LeaveShip(j)
  PROVE  Inv'
<1>. DEFINE x == [jobs[j] EXCEPT !.step = "commit"]
            ok == place[jobs[j].ship] = jobs[j].at /\ jobs[j].asked <= bays[jobs[j].ship]
<1>1. jobs[j] \in JobStates /\ Granted(jobs[j])
  BY DEF Inv, TypeOK, Safe, Grants
<1>2. UNCHANGED <<gar, bays, place, fight>> /\ Proceed(j, ok, x)
  BY DEF LeaveShip
<1>3. CASE ok
  <2>1. /\ Become(j, x) /\ jobs[j].kind = "leave" /\ jobs[j].step = "second"
        /\ ~ShipLocked(jobs[j].ship)
    BY <1>3 DEF LeaveShip, Proceed
  <2>2. /\ x \in JobStates /\ x.at = jobs[j].at /\ x.ship = jobs[j].ship
        /\ InTx(jobs[j]) /\ HasRows(jobs[j]) /\ x.read = jobs[j].read
    BY <1>1, <2>1 DEF JobStates, InTx, HasRows
  <2>3. gar[x.at] = x.read
    BY <2>2 DEF Inv, Safe, ReadsCurrent
  <2>4. Granted(x)
    BY <1>1, <1>3, <2>1 DEF Granted, JobStates, MayReinforce
  <2>. HIDE DEF x, ok
  <2>. QED
    BY <1>2, <2>1, <2>2, <2>3, <2>4, GoesOn
<1>4. CASE ~ok
  BY <1>2, <1>4, Ends DEF Proceed
<1>. QED
  BY <1>3, <1>4

LEMMA KeepsCollectShip ==
  ASSUME NEW j \in Jobs, Inv, CollectShip(j)
  PROVE  Inv'
<1>. DEFINE x == [jobs[j] EXCEPT !.step = "second"]
            ok == bays[jobs[j].ship] < Bay
<1>1. jobs[j] \in JobStates /\ Granted(jobs[j])
  BY DEF Inv, TypeOK, Safe, Grants
<1>2. UNCHANGED <<gar, bays, place, fight>> /\ Proceed(j, ok, x)
  BY DEF CollectShip
<1>3. CASE ok
  <2>1. /\ Become(j, x) /\ jobs[j].kind = "collect" /\ jobs[j].step = "first"
        /\ ~ShipLocked(jobs[j].ship)
    BY <1>3 DEF CollectShip, Proceed
  <2>2. /\ x \in JobStates /\ x.at = jobs[j].at /\ x.ship = jobs[j].ship
        /\ InTx(jobs[j]) /\ ~HasRows(x)
    BY <1>1, <2>1 DEF JobStates, InTx, HasRows
  <2>3. Granted(x)
    BY <1>1, <1>3, <2>1 DEF Granted, JobStates
  <2>. HIDE DEF x, ok
  <2>. QED
    BY <1>2, <2>1, <2>2, <2>3, GoesOn
<1>4. CASE ~ok
  BY <1>2, <1>4, Ends DEF Proceed
<1>. QED
  BY <1>3, <1>4

LEMMA KeepsCollectRows ==
  ASSUME NEW j \in Jobs, Inv, CollectRows(j)
  PROVE  Inv'
<1>. DEFINE x == [jobs[j] EXCEPT !.step = "commit", !.read = gar[jobs[j].at]]
            ok == MayCollect(jobs[j], gar[jobs[j].at])
<1>1. jobs[j] \in JobStates /\ Granted(jobs[j]) /\ gar[jobs[j].at] \in SUBSET GarrisonRow
  BY DEF Inv, TypeOK, Safe, Grants, JobStates
<1>2. UNCHANGED <<gar, bays, place, fight>> /\ Proceed(j, ok, x)
  BY DEF CollectRows
<1>3. CASE ok
  <2>1. Become(j, x) /\ jobs[j].kind = "collect" /\ jobs[j].step = "second"
    BY <1>3 DEF CollectRows, Proceed
  <2>2. /\ x \in JobStates /\ x.at = jobs[j].at /\ x.ship = jobs[j].ship
        /\ InTx(jobs[j]) /\ HasShip(jobs[j]) /\ gar[x.at] = x.read
    BY <1>1, <2>1, ZenonT(30) DEF JobStates, InTx, HasShip
  <2>3. Granted(x)
    BY <1>1, <1>3, <2>1 DEF Granted, JobStates, MayCollect
  <2>. HIDE DEF x, ok
  <2>. QED
    BY <1>2, <2>1, <2>2, <2>3, GoesOn
<1>4. CASE ~ok
  BY <1>2, <1>4, Ends DEF Proceed
<1>. QED
  BY <1>3, <1>4

LEMMA KeepsReadGarrison ==
  ASSUME NEW j \in Jobs, Inv, ReadGarrison(j)
  PROVE  Inv'
<1>1. jobs[j] \in JobStates /\ Granted(jobs[j]) /\ gar[jobs[j].at] \in SUBSET GarrisonRow
  BY DEF Inv, TypeOK, Safe, Grants, JobStates
<1>2. UNCHANGED <<gar, bays, place, fight>> /\ jobs[j].kind \in {"disband", "mode"}
  BY DEF ReadGarrison
<1>3. ASSUME NEW r \in gar[jobs[j].at], NEW step \in {"write", "pay", "delete"},
             Become(j, [jobs[j] EXCEPT !.read = {r}, !.step = step])
      PROVE  Inv'
  <2>. DEFINE x == [jobs[j] EXCEPT !.read = {r}, !.step = step]
  <2>1. x \in JobStates /\ ~InTx(x) /\ ~HasShip(x) /\ ~HasRows(x)
    BY <1>1, <1>2 DEF JobStates, InTx, HasShip, HasRows
  <2>2. Granted(x)
    BY <1>1, <1>2 DEF JobStates, Granted
  <2>. HIDE DEF x
  <2>. QED
    BY <1>2, <1>3, <2>1, <2>2, GoesOn DEF x
<1>4. CASE RollBack(j)
  BY <1>2, <1>4, Ends
<1>. QED
  BY <1>3, <1>4, ZenonT(30) DEF ReadGarrison

LEMMA KeepsPayOut ==
  ASSUME NEW j \in Jobs, Inv, PayOut(j)
  PROVE  Inv'
<1>. DEFINE x == [jobs[j] EXCEPT !.step = "delete"]
<1>1. jobs[j] \in JobStates /\ Granted(jobs[j])
  BY DEF Inv, TypeOK, Safe, Grants
<1>2. x \in JobStates /\ ~InTx(x) /\ ~HasShip(x) /\ ~HasRows(x)
  BY <1>1 DEF JobStates, InTx, HasShip, HasRows
<1>3. Granted(x)
  BY <1>1 DEF JobStates, Granted
<1>4. Become(j, x) /\ UNCHANGED <<gar, bays, place, fight>>
  BY DEF PayOut
<1>. HIDE DEF x
<1>. QED
  BY <1>2, <1>3, <1>4, GoesOn

LEMMA KeepsKill ==
  ASSUME NEW j \in Jobs, Inv, Kill(j)
  PROVE  Inv'
  BY Ends DEF Kill

-----------------------------------------------------------------------------
(* The steps that write. *)

\* A step that writes leaves everything as it must be when it spares the rows
\* that those hold who are still in their transactions after it.
LEMMA Writes ==
  ASSUME Inv, TypeOK', OneGarrison',
         \A k \in Jobs : jobs'[k] = jobs[k] \/ jobs'[k] = Resting,
         \A k \in Jobs : jobs'[k] = jobs[k] /\ HasRows(jobs[k])
                         => gar'[jobs[k].at] = gar[jobs[k].at],
         \A k \in Jobs : jobs'[k] = jobs[k] /\ HasShip(jobs[k])
                         => /\ bays'[jobs[k].ship] = bays[jobs[k].ship]
                            /\ place'[jobs[k].ship] = place[jobs[k].ship]
  PROVE  Inv'
<1>1. Locks'
  BY RestingHolds DEF Inv, Locks, SectorsApart, ShipsApart
<1>2. ReadsCurrent'
  BY RestingHolds DEF Inv, Safe, ReadsCurrent
<1>3. ASSUME NEW k \in Jobs PROVE Granted(jobs[k])'
  <2>1. CASE jobs'[k] = jobs[k]
    BY <2>1 DEF Inv, Safe, Grants, Granted, HasShip
  <2>2. CASE jobs'[k] = Resting
    BY <2>2, RestingHolds DEF Granted, Resting
  <2>. QED
    BY <2>1, <2>2
<1>. QED
  BY <1>1, <1>2, <1>3 DEF Inv, Safe, Grants

\* The end of one transaction spares all others.
LEMMA Alone ==
  ASSUME NEW j \in Jobs, Inv, RollBack(j)
  PROVE  /\ jobs' \in [Jobs -> JobStates]
         /\ \A k \in Jobs : jobs'[k] = jobs[k] \/ jobs'[k] = Resting
         /\ InTx(jobs[j]) =>
              \A k \in Jobs : jobs'[k] = jobs[k] /\ HasRows(jobs[k])
                              => jobs[k].at # jobs[j].at
         /\ HasShip(jobs[j]) =>
              \A k \in Jobs : jobs'[k] = jobs[k] /\ HasShip(jobs[k])
                              => jobs[k].ship # jobs[j].ship
<1>1. /\ jobs' \in [Jobs -> JobStates]
      /\ jobs'[j] = Resting
      /\ \A k \in Jobs \ {j} : jobs'[k] = jobs[k]
  BY BecomeShape, RestingShape DEF RollBack, Inv, TypeOK
<1>2. \A k \in Jobs : HasRows(jobs[k]) => InTx(jobs[k])
  BY DEF HasRows, InTx
<1>. QED
  BY <1>1, <1>2, RestingHolds DEF Inv, Locks, SectorsApart, ShipsApart

\* Rows that are not locked are read by nobody, or were not there when read.
LEMMA UnlockedRows ==
  ASSUME NEW x \in Sectors, Inv, ~GarrisonLocked(x), NEW k \in Jobs,
         HasRows(jobs[k]), jobs[k].at = x
  PROVE  gar[x] = {}
  BY DEF GarrisonLocked, HasRows, Inv, Safe, ReadsCurrent

\* A row with another number, mode or balance is a row.
LEMMA RowChanged ==
  ASSUME NEW r \in GarrisonRow, NEW n \in 1..MaxGarrison, NEW m \in Modes, NEW t \in Nat
  PROVE  /\ [r EXCEPT !.fighters = n, !.mode = m] \in GarrisonRow
         /\ [r EXCEPT !.fighters = n] \in GarrisonRow
         /\ [r EXCEPT !.mode = m] \in GarrisonRow
         /\ [r EXCEPT !.toll = t] \in GarrisonRow
  BY DEF GarrisonRow

LEMMA KeepsCommitLeave ==
  ASSUME NEW j \in Jobs, Inv, CommitLeave(j)
  PROVE  Inv'
<1>. DEFINE x == jobs[j]
<1>1. /\ x \in JobStates /\ x.kind = "leave" /\ x.step = "commit" /\ RollBack(j)
      /\ bays' = [bays EXCEPT ![x.ship] = @ - x.asked]
      /\ gar' = [gar EXCEPT ![x.at] = Reinforced(x, gar[x.at])]
      /\ UNCHANGED <<place, fight>>
  BY DEF CommitLeave, Inv, TypeOK
<1>2. /\ x.asked \in 1..MaxGarrison /\ x.asked <= bays[x.ship]
      /\ MayReinforce(x, x.read) /\ gar[x.at] = x.read
      /\ InTx(x) /\ HasShip(x)
  BY <1>1 DEF Inv, Safe, Grants, Granted, ReadsCurrent, HasRows, InTx, HasShip
<1>3. x.at \in Sectors /\ x.ship \in Ships /\ x.mode \in Modes
  BY <1>1 DEF JobStates
<1>. HIDE DEF x
<1>4. /\ Reinforced(x, gar[x.at]) \in SUBSET GarrisonRow
      /\ \A a, b \in Reinforced(x, gar[x.at]) : a = b
  <2>1. CASE x.read = {}
    BY <1>2, <1>3, <2>1 DEF Reinforced, GarrisonRow
  <2>2. CASE x.read # {}
    <3>1. gar[x.at] \in SUBSET GarrisonRow
      BY <1>3 DEF Inv, TypeOK
    <3>2. ASSUME NEW r \in gar[x.at]
          PROVE  [r EXCEPT !.fighters = @ + x.asked,
                           !.mode = IF r.owner = x.ship THEN x.mode ELSE @] \in GarrisonRow
      <4>1. r.fighters + x.asked <= MaxGarrison /\ r \in GarrisonRow
        BY <1>2, <3>1 DEF MayReinforce
      <4>2. r.fighters + x.asked \in 1..MaxGarrison
        BY <4>1, <1>2, NumbersAssumption DEF GarrisonRow
      <4>. QED
        BY <4>1, <4>2, <1>3, RowChanged
    <3>3. \A a, b \in gar[x.at] : a = b
      BY <1>2 DEF MayReinforce
    <3>. QED
      BY <2>2, <3>2, <3>3 DEF Reinforced
  <2>. QED
    BY <2>1, <2>2
<1>5. gar' \in [Sectors -> SUBSET GarrisonRow]
  BY <1>1, <1>4 DEF Inv, TypeOK
<1>6. bays' \in [Ships -> Nat]
  BY <1>1, <1>2, <1>3 DEF Inv, TypeOK
<1>7. TypeOK'
  BY <1>1, <1>5, <1>6, Alone DEF Inv, TypeOK, FightStates
<1>8. OneGarrison'
  BY <1>1, <1>4, <1>3 DEF Inv, Safe, TypeOK, OneGarrison
<1>9. /\ \A k \in Jobs : jobs'[k] = jobs[k] /\ HasRows(jobs[k])
                         => gar'[jobs[k].at] = gar[jobs[k].at]
      /\ \A k \in Jobs : jobs'[k] = jobs[k] /\ HasShip(jobs[k])
                         => bays'[jobs[k].ship] = bays[jobs[k].ship]
  BY <1>1, <1>2, Alone DEF Inv, TypeOK, x
<1>. QED
  BY <1>1, <1>7, <1>8, <1>9, Alone, Writes

LEMMA KeepsCommitCollect ==
  ASSUME NEW j \in Jobs, Inv, CommitCollect(j)
  PROVE  Inv'
<1>. DEFINE x == jobs[j]
<1>1. /\ x \in JobStates /\ x.kind = "collect" /\ x.step = "commit" /\ RollBack(j)
      /\ UNCHANGED <<place, fight>>
  BY DEF CommitCollect, Inv, TypeOK
<1>2. PICK r \in x.read :
        /\ bays' = [bays EXCEPT ![x.ship] = @ + Taken(x, r)]
        /\ gar' = [gar EXCEPT ![x.at] = Remainder(r, Taken(x, r))]
  BY DEF CommitCollect
<1>3. bays[x.ship] < Bay /\ InTx(x) /\ HasShip(x)
  BY <1>1 DEF Inv, Safe, Grants, Granted, InTx, HasShip
<1>4. x.at \in Sectors /\ x.ship \in Ships /\ x.asked \in Nat /\ r \in GarrisonRow
  BY <1>1, <1>2 DEF JobStates
<1>. HIDE DEF x
<1>5. Taken(x, r) \in Nat
  BY <1>3, <1>4, NumbersAssumption DEF Taken, Smaller, GarrisonRow, Inv, TypeOK
<1>. DEFINE n == Taken(x, r)
<1>. HIDE DEF n
<1>6. Remainder(r, n) \in SUBSET GarrisonRow /\ \A a, b \in Remainder(r, n) : a = b
  <2>1. CASE r.fighters > n
    <3>1. r.fighters - n \in 1..MaxGarrison
      BY <1>4, <1>5, <2>1, NumbersAssumption DEF GarrisonRow, n
    <3>2. [r EXCEPT !.fighters = r.fighters - n, !.toll = 0] \in GarrisonRow
      BY <1>4, <3>1 DEF GarrisonRow
    <3>. QED
      BY <2>1, <3>2 DEF Remainder
  <2>2. CASE ~(r.fighters > n)
    BY <2>2 DEF Remainder
  <2>. QED
    BY <2>1, <2>2
<1>7. gar' \in [Sectors -> SUBSET GarrisonRow]
  BY <1>2, <1>6 DEF Inv, TypeOK, n
<1>8. bays' \in [Ships -> Nat]
  BY <1>2, <1>4, <1>5 DEF Inv, TypeOK
<1>9. TypeOK'
  BY <1>1, <1>7, <1>8, Alone DEF Inv, TypeOK, FightStates
<1>10. OneGarrison'
  BY <1>2, <1>6, <1>4 DEF Inv, Safe, TypeOK, OneGarrison, n
<1>11. /\ \A k \in Jobs : jobs'[k] = jobs[k] /\ HasRows(jobs[k])
                          => gar'[jobs[k].at] = gar[jobs[k].at]
       /\ \A k \in Jobs : jobs'[k] = jobs[k] /\ HasShip(jobs[k])
                          => bays'[jobs[k].ship] = bays[jobs[k].ship]
  BY <1>1, <1>2, <1>3, Alone DEF Inv, TypeOK, x
<1>. QED
  BY <1>1, <1>9, <1>10, <1>11, Alone, Writes

\* A statement of its own that leaves rows of a sector that nobody has locked
\* as rows, not more of them, and writes no row where there was none.
LEMMA Rewrites ==
  ASSUME Inv, NEW x \in Sectors, NEW rows \in SUBSET GarrisonRow,
         ~GarrisonLocked(x), gar' = [gar EXCEPT ![x] = rows],
         \A a, b \in rows : a = b, gar[x] = {} => rows = {},
         UNCHANGED place,
         bays' \in [Ships -> Nat],
         \A s \in Ships : bays'[s] # bays[s] => ~ShipLocked(s),
         jobs' \in [Jobs -> JobStates],
         \A k \in Jobs : jobs'[k] = jobs[k] \/ jobs'[k] = Resting,
         fight' = [y \in Sectors |-> fight'[y]],
         \A y \in Sectors : /\ DOMAIN fight'[y].crew \subseteq Ships
                            /\ fight'[y] \in FightStates(DOMAIN fight'[y].crew)
  PROVE  Inv'
<1>1. gar' \in [Sectors -> SUBSET GarrisonRow]
  BY DEF Inv, TypeOK
<1>2. TypeOK'
  BY <1>1 DEF Inv, TypeOK, FightStates
<1>3. OneGarrison'
  BY DEF Inv, TypeOK, Safe, OneGarrison
<1>4. ASSUME NEW k \in Jobs, HasRows(jobs[k])
      PROVE  gar'[jobs[k].at] = gar[jobs[k].at]
  BY <1>4, UnlockedRows DEF Inv, TypeOK, JobStates
<1>5. ASSUME NEW k \in Jobs, HasShip(jobs[k])
      PROVE  /\ bays'[jobs[k].ship] = bays[jobs[k].ship]
             /\ place'[jobs[k].ship] = place[jobs[k].ship]
  BY <1>5, LockedShips DEF Inv, TypeOK, JobStates
<1>. QED
  BY <1>2, <1>3, <1>4, <1>5, Writes

LEMMA KeepsDelete ==
  ASSUME NEW j \in Jobs, Inv, Delete(j)
  PROVE  Inv'
<1>. DEFINE x == jobs[j]
<1>1. x \in JobStates /\ ~GarrisonLocked(x.at) /\ RollBack(j) /\ UNCHANGED <<bays, place, fight>>
  BY DEF Delete, Inv, TypeOK
<1>2. PICK r \in x.read : gar' = [gar EXCEPT ![x.at] = @ \ {d \in gar[x.at] : d.owner = r.owner}]
  BY DEF Delete
<1>. DEFINE rows == gar[x.at] \ {d \in gar[x.at] : d.owner = r.owner}
<1>3. x.at \in Sectors
  BY <1>1 DEF JobStates
<1>. HIDE DEF x
<1>4. rows \in SUBSET GarrisonRow /\ (\A a, b \in rows : a = b) /\ (gar[x.at] = {} => rows = {})
  BY <1>3 DEF Inv, TypeOK, Safe, OneGarrison
<1>5. gar' = [gar EXCEPT ![x.at] = rows]
  BY <1>2
<1>. HIDE DEF rows
<1>. QED
  BY <1>1, <1>3, <1>4, <1>5, Alone, Rewrites DEF Inv, TypeOK

LEMMA KeepsSetMode ==
  ASSUME NEW j \in Jobs, Inv, SetMode(j)
  PROVE  Inv'
<1>. DEFINE x == jobs[j]
<1>1. x \in JobStates /\ ~GarrisonLocked(x.at) /\ RollBack(j) /\ UNCHANGED <<bays, place, fight>>
  BY DEF SetMode, Inv, TypeOK
<1>2. PICK r \in x.read :
        gar' = [gar EXCEPT ![x.at] =
                  {IF d.owner = r.owner THEN [d EXCEPT !.mode = x.mode] ELSE d : d \in gar[x.at]}]
  BY DEF SetMode
<1>. DEFINE new(d) == IF d.owner = r.owner THEN [d EXCEPT !.mode = x.mode] ELSE d
            rows == {new(d) : d \in gar[x.at]}
<1>3. x.at \in Sectors /\ x.mode \in Modes
  BY <1>1 DEF JobStates
<1>. HIDE DEF x
<1>4. gar[x.at] \in SUBSET GarrisonRow /\ \A a, b \in gar[x.at] : a = b
  BY <1>3 DEF Inv, TypeOK, Safe, OneGarrison
<1>5. ASSUME NEW d \in gar[x.at] PROVE new(d) \in GarrisonRow
  BY <1>3, <1>4 DEF GarrisonRow
<1>6. rows \in SUBSET GarrisonRow /\ (\A a, b \in rows : a = b) /\ (gar[x.at] = {} => rows = {})
  BY <1>4, <1>5
<1>7. gar' = [gar EXCEPT ![x.at] = rows]
  BY <1>2
<1>. HIDE DEF rows
<1>. QED
  BY <1>1, <1>3, <1>6, <1>7, Alone, Rewrites DEF Inv, TypeOK

-----------------------------------------------------------------------------
(* Fights and moves. *)

\* Changing one fight leaves the others as they are.
LEMMA FightChanged ==
  ASSUME Inv, NEW x \in Sectors, NEW crew \in SUBSET Ships, NEW f \in FightStates(crew),
         fight' = [fight EXCEPT ![x] = f]
  PROVE  /\ fight' = [y \in Sectors |-> fight'[y]]
         /\ \A y \in Sectors : /\ DOMAIN fight'[y].crew \subseteq Ships
                               /\ fight'[y] \in FightStates(DOMAIN fight'[y].crew)
<1>1. DOMAIN f.crew = crew
  BY DEF FightStates
<1>2. \A y \in Sectors : fight'[y] = IF y = x THEN f ELSE fight[y]
  BY DEF Inv, TypeOK
<1>. QED
  BY <1>1, <1>2 DEF Inv, TypeOK

\* A step that changes one fight and no table.
LEMMA OnlyFights ==
  ASSUME Inv, NEW x \in Sectors, NEW crew \in SUBSET Ships, NEW f \in FightStates(crew),
         fight' = [fight EXCEPT ![x] = f], UNCHANGED <<gar, bays, jobs>>,
         place' \in [Ships -> Sectors],
         \A s \in Ships : place'[s] # place[s] => ~ShipLocked(s)
  PROVE  Inv'
<1>1. TypeOK'
  BY FightChanged DEF Inv, TypeOK, FightStates
<1>2. OneGarrison'
  BY DEF Inv, Safe, OneGarrison
<1>3. ASSUME NEW k \in Jobs, HasShip(jobs[k])
      PROVE  place'[jobs[k].ship] = place[jobs[k].ship]
  BY <1>3, LockedShips DEF Inv, TypeOK, JobStates
<1>. QED
  BY <1>1, <1>2, <1>3, Writes

LEMMA KeepsStartFight ==
  ASSUME Inv, NEW x \in Sectors, StartFight(x)
  PROVE  Inv'
<1>. DEFINE crew == {s \in Ships : place[s] = x}
            f == [guard |-> gar[x], crew |-> [s \in crew |-> bays[s]], paid |-> {}, on |-> TRUE]
<1>1. f \in FightStates(crew)
  BY DEF FightStates, Inv, TypeOK
<1>2. /\ fight' = [fight EXCEPT ![x] = f]
      /\ UNCHANGED <<gar, bays, place, jobs>>
  BY DEF StartFight
<1>3. crew \in SUBSET Ships
  OBVIOUS
<1>. HIDE DEF f, crew
<1>. QED
  BY <1>1, <1>2, <1>3, OnlyFights DEF Inv, TypeOK

LEMMA KeepsEndFight ==
  ASSUME Inv, NEW x \in Sectors, EndFight(x)
  PROVE  Inv'
<1>1. NoFight \in FightStates({})
  BY DEF NoFight, FightStates
<1>. QED
  BY <1>1, OnlyFights DEF EndFight, Inv, TypeOK

LEMMA KeepsMove ==
  ASSUME Inv, NEW x \in Sectors, NEW s \in Ships, Move(s, x)
  PROVE  Inv'
<1>. DEFINE old == fight[x].crew
            new == IF fight[x].on THEN {s} ELSE {}
            crew == [t \in DOMAIN old \cup new |-> IF t \in new THEN bays[t] ELSE old[t]]
<1>1. fight' = [fight EXCEPT ![x].crew = crew]
  BY DEF Move
<1>2. DOMAIN old \subseteq Ships /\ old \in [DOMAIN old -> Nat]
  BY DEF Inv, TypeOK, FightStates
<1>3. DOMAIN crew \subseteq Ships /\ crew \in [DOMAIN crew -> Nat]
  BY <1>2 DEF Inv, TypeOK
<1>. HIDE DEF crew
<1>4. [fight[x] EXCEPT !.crew = crew] \in FightStates(DOMAIN crew)
  BY <1>3 DEF Inv, TypeOK, FightStates
<1>5. fight' = [fight EXCEPT ![x] = [fight[x] EXCEPT !.crew = crew]]
  BY <1>1
<1>6. /\ UNCHANGED <<gar, bays, jobs>>
      /\ place' \in [Ships -> Sectors]
      /\ \A t \in Ships : place'[t] # place[t] => ~ShipLocked(t)
  BY DEF Move, Inv, TypeOK
<1>. QED
  BY <1>3, <1>4, <1>5, <1>6, OnlyFights

LEMMA KeepsPayToll ==
  ASSUME Inv, NEW x \in Sectors, NEW s \in Ships, PayToll(x, s)
  PROVE  Inv'
<1>1. PICK g \in fight[x].guard :
        LET due == [g EXCEPT !.toll = @ + 1] IN
        /\ gar' = [gar EXCEPT ![x] =
             {IF r.owner = g.owner THEN [r EXCEPT !.toll = due.toll] ELSE r : r \in @}]
        /\ fight' = [fight EXCEPT ![x].guard = {due}, ![x].paid = @ \cup {s}]
  BY DEF PayToll
<1>. DEFINE due == [g EXCEPT !.toll = g.toll + 1]
            new(r) == IF r.owner = g.owner THEN [r EXCEPT !.toll = g.toll + 1] ELSE r
            rows == {new(r) : r \in gar[x]}
            f == [fight[x] EXCEPT !.guard = {due}, !.paid = fight[x].paid \cup {s}]
            crew == DOMAIN fight[x].crew
<1>2. fight[x] \in FightStates(crew) /\ crew \in SUBSET Ships
  BY DEF Inv, TypeOK
<1>3. g \in GarrisonRow /\ due \in GarrisonRow /\ g.toll + 1 \in Nat
  BY <1>2 DEF FightStates, GarrisonRow
<1>4. f \in FightStates(crew)
  BY <1>2, <1>3 DEF FightStates
<1>5. gar[x] \in SUBSET GarrisonRow /\ \A a, b \in gar[x] : a = b
  BY DEF Inv, TypeOK, Safe, OneGarrison
<1>6. ASSUME NEW r \in gar[x] PROVE new(r) \in GarrisonRow
  BY <1>3, <1>5 DEF GarrisonRow
<1>7. rows \in SUBSET GarrisonRow /\ (\A a, b \in rows : a = b) /\ (gar[x] = {} => rows = {})
  BY <1>5, <1>6
<1>8. gar' = [gar EXCEPT ![x] = rows]
  BY <1>1, <1>3 DEF GarrisonRow
<1>9. fight' = [fight EXCEPT ![x] = f]
  BY <1>1, <1>2 DEF Inv, TypeOK, FightStates
<1>10. ~GarrisonLocked(x) /\ UNCHANGED <<bays, place, jobs>>
  BY DEF PayToll
<1>. HIDE DEF rows, f, crew
<1>. QED
  BY <1>2, <1>4, <1>7, <1>8, <1>9, <1>10, FightChanged, Rewrites DEF Inv, TypeOK

\* A round of a fight that writes its garrison and its crew.
LEMMA KeepsRound ==
  ASSUME Inv, NEW x \in Sectors, NEW guard, NEW crew, NEW g \in guard,
         crew \in [DOMAIN fight[x].crew -> Nat],
         \A h \in guard : h.fighters > 0 => h \in GarrisonRow,
         g.fighters > 0 \/ g.fighters = 0,
         ~GarrisonLocked(x),
         \A s \in DOMAIN crew : ~ShipLocked(s),
         gar' = [gar EXCEPT ![x] = Persisted(@, g)],
         bays' = [s \in Ships |-> IF s \in DOMAIN crew THEN crew[s] ELSE bays[s]],
         fight' = [fight EXCEPT ![x].guard = {h \in guard : h.fighters > 0}, ![x].crew = crew],
         UNCHANGED <<place, jobs>>
  PROVE  Inv'
<1>. DEFINE D == DOMAIN fight[x].crew
            f == [fight[x] EXCEPT !.guard = {h \in guard : h.fighters > 0}, !.crew = crew]
            rows == Persisted(gar[x], g)
<1>1. fight[x] \in FightStates(D) /\ D \in SUBSET Ships
  BY DEF Inv, TypeOK
<1>2. f \in FightStates(D)
  BY <1>1 DEF FightStates
<1>3. gar[x] \in SUBSET GarrisonRow /\ \A a, b \in gar[x] : a = b
  BY DEF Inv, TypeOK, Safe, OneGarrison
<1>4. rows \in SUBSET GarrisonRow /\ (\A a, b \in rows : a = b) /\ (gar[x] = {} => rows = {})
  <2>1. CASE g.fighters > 0
    <3>1. ASSUME NEW r \in gar[x]
          PROVE  (IF r.owner = g.owner THEN [r EXCEPT !.fighters = g.fighters] ELSE r) \in GarrisonRow
      BY <1>3, <2>1 DEF GarrisonRow
    <3>. QED
      BY <1>3, <2>1, <3>1 DEF Persisted
  <2>2. CASE ~(g.fighters > 0)
    BY <1>3, <2>2 DEF Persisted
  <2>. QED
    BY <2>1, <2>2
<1>5. gar' = [gar EXCEPT ![x] = rows]
  OBVIOUS
<1>6. fight' = [fight EXCEPT ![x] = f]
  BY <1>1 DEF Inv, TypeOK, FightStates
<1>7. /\ bays' \in [Ships -> Nat]
      /\ \A s \in Ships : bays'[s] # bays[s] => ~ShipLocked(s)
  BY DEF Inv, TypeOK
<1>. HIDE DEF rows, f, D
<1>. QED
  BY <1>1, <1>2, <1>4, <1>5, <1>6, <1>7, FightChanged, Rewrites DEF Inv, TypeOK

LEMMA KeepsShootGarrison ==
  ASSUME Inv, NEW x \in Sectors, ShootGarrison(x)
  PROVE  Inv'
<1>1. PICK g \in fight[x].guard :
        Round(x, {[g EXCEPT !.fighters = @ - 1]}, fight[x].crew)
  BY DEF ShootGarrison
<1>. DEFINE hit == [g EXCEPT !.fighters = @ - 1]
<1>2. /\ g \in GarrisonRow /\ fight[x].crew \in [DOMAIN fight[x].crew -> Nat]
  BY DEF Inv, TypeOK, FightStates
<1>3. (hit.fighters > 0 => hit \in GarrisonRow) /\ (hit.fighters > 0 \/ hit.fighters = 0)
  BY <1>2, NumbersAssumption DEF GarrisonRow
<1>4. UNCHANGED <<place, jobs>>
  BY DEF ShootGarrison
<1>. HIDE DEF hit
<1>5. Round(x, {hit}, fight[x].crew)
  BY <1>1 DEF hit
<1>6. /\ ~GarrisonLocked(x)
      /\ \A s \in DOMAIN fight[x].crew : ~ShipLocked(s)
      /\ gar' = [gar EXCEPT ![x] = Persisted(@, hit)]
      /\ bays' = [s \in Ships |-> IF s \in DOMAIN fight[x].crew THEN fight[x].crew[s] ELSE bays[s]]
      /\ fight' = [fight EXCEPT ![x].guard = {h \in {hit} : h.fighters > 0},
                                ![x].crew = fight[x].crew]
  BY <1>5 DEF Round
<1>. DEFINE guard == {hit}
            crew == fight[x].crew
<1>7. hit \in guard /\ \A h \in guard : h.fighters > 0 => h \in GarrisonRow
  BY <1>3
<1>8. crew \in [DOMAIN fight[x].crew -> Nat] /\ \A s \in DOMAIN crew : ~ShipLocked(s)
  BY <1>2, <1>6
<1>9. /\ bays' = [s \in Ships |-> IF s \in DOMAIN crew THEN crew[s] ELSE bays[s]]
      /\ fight' = [fight EXCEPT ![x].guard = {h \in guard : h.fighters > 0}, ![x].crew = crew]
  BY <1>6
<1>. HIDE DEF guard, crew
<1>. QED
  BY <1>3, <1>4, <1>6, <1>7, <1>8, <1>9, KeepsRound

LEMMA KeepsShootShip ==
  ASSUME Inv, NEW x \in Sectors, ShootShip(x)
  PROVE  Inv'
<1>. DEFINE D == DOMAIN fight[x].crew
<1>1. PICK s \in D :
        LET crew == [fight[x].crew EXCEPT ![s] = @ - 1] IN
        /\ crew[s] >= 0
        /\ IF fight[x].guard # {} THEN Round(x, fight[x].guard, crew)
           ELSE /\ \A t \in DOMAIN crew : ~ShipLocked(t)
                /\ bays' = [t \in Ships |-> IF t \in DOMAIN crew THEN crew[t] ELSE bays[t]]
                /\ fight' = [fight EXCEPT ![x].crew = crew]
                /\ lost' = lost + 1 /\ UNCHANGED gar
  BY DEF ShootShip
<1>. DEFINE crew == [fight[x].crew EXCEPT ![s] = @ - 1]
<1>2. fight[x] \in FightStates(D) /\ D \in SUBSET Ships
  BY DEF Inv, TypeOK
<1>3. crew \in [D -> Nat] /\ DOMAIN crew = D
  BY <1>1, <1>2 DEF FightStates
<1>4. UNCHANGED <<place, jobs>>
  BY DEF ShootShip
<1>5. CASE fight[x].guard # {}
  <2>1. Round(x, fight[x].guard, crew)
    BY <1>1, <1>5
  <2>2. \A g \in fight[x].guard : g \in GarrisonRow /\ g.fighters > 0
    BY <1>2, NumbersAssumption DEF FightStates, GarrisonRow
  <2>. HIDE DEF crew
  <2>. QED
    BY <1>3, <1>4, <2>1, <2>2, KeepsRound DEF Round
<1>6. CASE fight[x].guard = {}
  <2>1. /\ \A t \in D : ~ShipLocked(t)
        /\ bays' = [t \in Ships |-> IF t \in D THEN crew[t] ELSE bays[t]]
        /\ fight' = [fight EXCEPT ![x].crew = crew] /\ UNCHANGED gar
    BY <1>1, <1>3, <1>6
  <2>. DEFINE f == [fight[x] EXCEPT !.crew = crew]
  <2>. HIDE DEF crew
  <2>2. f \in FightStates(D)
    BY <1>2, <1>3 DEF FightStates
  <2>3. fight' = [fight EXCEPT ![x] = f]
    BY <2>1
  <2>4. bays' \in [Ships -> Nat]
    BY <1>3, <2>1 DEF Inv, TypeOK
  <2>. HIDE DEF f, D
  <2>5. /\ fight' = [y \in Sectors |-> fight'[y]]
        /\ \A y \in Sectors : /\ DOMAIN fight'[y].crew \subseteq Ships
                              /\ fight'[y] \in FightStates(DOMAIN fight'[y].crew)
    BY <1>2, <2>2, <2>3, FightChanged
  <2>6. TypeOK'
    BY <1>4, <2>1, <2>4, <2>5 DEF Inv, TypeOK, FightStates
  <2>7. OneGarrison'
    BY <2>1 DEF Inv, Safe, OneGarrison
  <2>8. ASSUME NEW k \in Jobs, HasShip(jobs[k])
        PROVE  bays'[jobs[k].ship] = bays[jobs[k].ship]
    BY <2>1, <2>8, LockedShips DEF Inv, TypeOK, JobStates
  <2>. QED
    BY <1>4, <2>1, <2>6, <2>7, <2>8, Writes
<1>. QED
  BY <1>5, <1>6

-----------------------------------------------------------------------------
LEMMA Keeps ==
  ASSUME Inv, [Next]_vars
  PROVE  Inv'
<1>1. ASSUME NEW j \in Jobs, Requests(j) \/ JobStep(j) \/ Kill(j)
      PROVE  Inv'
  BY <1>1, KeepsRequests, KeepsBegin, KeepsLeaveRows, KeepsLeaveShip, KeepsCommitLeave,
     KeepsCollectShip, KeepsCollectRows, KeepsCommitCollect, KeepsReadGarrison, KeepsPayOut,
     KeepsDelete, KeepsSetMode, KeepsKill
  DEF JobStep
<1>2. ASSUME NEW x \in Sectors,
             \/ StartFight(x) \/ ShootGarrison(x) \/ ShootShip(x) \/ EndFight(x)
             \/ \E s \in Ships : PayToll(x, s) \/ Move(s, x)
      PROVE  Inv'
  BY <1>2, KeepsStartFight, KeepsShootGarrison, KeepsShootShip, KeepsEndFight, KeepsPayToll,
     KeepsMove
<1>3. CASE UNCHANGED vars
  BY <1>3 DEF vars, Inv, TypeOK, FightStates, Locks, SectorsApart, ShipsApart, Safe,
     ReadsCurrent, Grants, Granted, OneGarrison
<1>. QED
  BY <1>1, <1>2, <1>3 DEF Next

LEMMA Invariant == Spec => []Inv
  BY StartsWell, Keeps, PTL DEF Spec

\* However leaving, collecting, disbanding, fights and moves overlap, garrisons
\* stay between one fighter and MAX_GARRISON_FIGHTERS, and no ship is left with
\* fewer fighters than none (runLeaveFightersTransaction,
\* runCollectFightersTransaction, persistRoundOutcomeToCanonicalTables).
THEOREM TypeSafety == Spec => []TypeOK
<1>1. Inv => TypeOK
  BY DEF Inv
<1>. QED
  BY <1>1, Invariant, PTL

\* A sector has one garrison at most, though the tables would take a row for
\* each owner (the advisory lock of the two transactions).
THEOREM SectorsHoldOne == Spec => []OneGarrison
<1>1. Inv => OneGarrison
  BY DEF Inv, Safe
<1>. QED
  BY <1>1, Invariant, PTL

\* Leaving and collecting lock the ship and the garrison in opposite orders,
\* and no two of them ever wait for one another: whoever is in a sector's
\* garrison holds the advisory lock of that sector, and so does who waits.
THEOREM NoDeadlock == Spec => []NoLockCycle
<1>1. Inv => NoLockCycle
  <2>. SUFFICES ASSUME Inv, NEW j \in Jobs, NEW k \in Jobs, HeldUp(j, k), HeldUp(k, j)
                PROVE  FALSE
    BY DEF NoLockCycle
  <2>1. InTx(jobs[j]) /\ InTx(jobs[k]) /\ jobs[j].at = jobs[k].at /\ jobs[j].kind # jobs[k].kind
    BY DEF HeldUp, InTx
  <2>. QED
    BY <2>1 DEF Inv, Locks, SectorsApart
<1>. QED
  BY <1>1, Invariant, PTL

-----------------------------------------------------------------------------
(* The accounts. What is inductive is Ledger: the counts balance, a fight's *)
(* copies agree with the tables as long as nobody wrote behind its back,    *)
(* and what a disband has paid is still in a balance.                       *)

Fighters(rows) == Total([r \in rows |-> r.fighters], rows)
Purse(rows) == Total([r \in rows |-> r.toll], rows)

\* What the rows of one request's reading were paid for, before they are gone.
Due(job) == IF job.step = "delete" THEN Total([r \in job.read |-> Payout(r)], job.read) ELSE 0

AllBays == Total(bays, Ships)
AllFighters == Total([x \in Sectors |-> Stationed(x)], Sectors)
AllPurse == Total([x \in Sectors |-> Balance(x)], Sectors)
AllDue == Total([j \in Jobs |-> Due(jobs[j])], Jobs)

\* Whoever is in a fight is in its sector; a fight that is over has nobody in it.
Crews ==
  \A x \in Sectors :
    /\ ~fight[x].on => fight[x].guard = {} /\ DOMAIN fight[x].crew = {}
    /\ \A s \in DOMAIN fight[x].crew : place[s] = x

\* A fight's copies of what the tables hold.
SameRow(r, g) == r.owner = g.owner /\ r.fighters = g.fighters /\ r.toll = g.toll
Copied(x) ==
  /\ \A s \in DOMAIN fight[x].crew : fight[x].crew[s] = bays[s]
  /\ \A g \in fight[x].guard : \E r \in gar[x] : SameRow(r, g)
Copies == "fight" \notin crossed => \A x \in Sectors : Copied(x)

\* A disband and a change of mode have read one row.
Readings ==
  \A j \in Jobs : jobs[j].step \in {"pay", "delete", "write"}
                  => \E r \in GarrisonRow : jobs[j].read = {r}

Counts ==
  /\ lost \in Int /\ fielded \in Int
  /\ tolls \in [paid : Int, out : Int, gone : Int]
  /\ crossed \subseteq {"fight", "disband"}

FighterBooks == "fight" \notin crossed => AllBays + AllFighters + lost = fielded
TollBooks == crossed = {} => tolls.paid = tolls.out + tolls.gone + AllPurse - AllDue

Ledger == Crews /\ Copies /\ Readings /\ Counts /\ FighterBooks /\ TollBooks

LEMMA NoRow == Fighters({}) = 0 /\ Purse({}) = 0
  BY SumOfNone DEF Fighters, Purse, Total

\* The sums over one row.
LEMMA OneRow ==
  ASSUME NEW r \in GarrisonRow
  PROVE  /\ Fighters({r}) = r.fighters
         /\ Purse({r}) = r.toll
         /\ Total([q \in {r} |-> Payout(q)], {r}) = Payout(r)
<1>1. r.fighters \in Int /\ r.toll \in Int /\ Payout(r) \in Int
  BY NumbersAssumption DEF GarrisonRow, Payout
<1>2. ASSUME NEW f, f[r] \in Int PROVE Total(f, {r}) = f[r]
  <2>1. IsFiniteSet({r}) /\ {r} \ {r} = {}
    BY FS_Singleton
  <2>2. SumFunctionOnSet(f, {r}) = f[r] + SumFunctionOnSet(f, {r} \ {r})
    BY <1>2, <2>1, SumTakesOut
  <2>. QED
    BY <1>2, <2>1, <2>2, SumOfNone DEF Total
<1>. QED
  BY <1>1, <1>2 DEF Fighters, Purse

\* A sector's garrison has some fighters and some balance.
LEMMA RowsCount ==
  ASSUME NEW rows, rows \subseteq GarrisonRow, \A a, b \in rows : a = b
  PROVE  Fighters(rows) \in Int /\ Purse(rows) \in Int
<1>1. CASE rows = {}
  BY <1>1, NoRow
<1>2. CASE rows # {}
  <2>1. PICK r \in rows : rows = {r}
    BY <1>2
  <2>2. r \in GarrisonRow /\ r.fighters \in Int /\ r.toll \in Int
    BY NumbersAssumption DEF GarrisonRow
  <2>3. Fighters(rows) = r.fighters /\ Purse(rows) = r.toll
    BY <2>1, <2>2, OneRow
  <2>. QED
    BY <2>2, <2>3
<1>. QED
  BY <1>1, <1>2

LEMMA SectorCounts ==
  ASSUME Inv, NEW x \in Sectors
  PROVE  /\ Stationed(x) = Fighters(gar[x]) /\ Balance(x) = Purse(gar[x])
         /\ Stationed(x) \in Int /\ Balance(x) \in Int
<1>1. Stationed(x) = Fighters(gar[x]) /\ Balance(x) = Purse(gar[x])
  BY DEF Stationed, Balance, Fighters, Purse
<1>2. gar[x] \subseteq GarrisonRow /\ \A a, b \in gar[x] : a = b
  BY DEF Inv, TypeOK, Safe, OneGarrison
<1>. QED
  BY <1>1, <1>2, RowsCount

LEMMA DueCounts ==
  ASSUME NEW job, job.step = "delete" => \E r \in GarrisonRow : job.read = {r}
  PROVE  Due(job) \in Int
<1>1. CASE job.step = "delete"
  <2>1. PICK r \in GarrisonRow : job.read = {r}
    BY <1>1
  <2>. QED
    BY <1>1, <2>1, OneRow DEF Due, Payout, GarrisonRow
<1>2. CASE job.step # "delete"
  BY <1>2 DEF Due
<1>. QED
  BY <1>1, <1>2

\* The figures of the books are numbers.
LEMMA Figures ==
  ASSUME Inv, Readings
  PROVE  AllBays \in Int /\ AllFighters \in Int /\ AllPurse \in Int /\ AllDue \in Int
<1>1. AllBays \in Int
  BY StartAssumption, SumIsInt DEF AllBays, Total, Inv, TypeOK
<1>2. AllFighters \in Int
  <2>. DEFINE f == [x \in Sectors |-> Stationed(x)]
  <2>1. \A x \in Sectors : f[x] \in Int
    BY SectorCounts
  <2>. HIDE DEF f
  <2>. QED
    BY <2>1, StartAssumption, SumIsInt DEF AllFighters, Total, f
<1>3. AllPurse \in Int
  <2>. DEFINE f == [x \in Sectors |-> Balance(x)]
  <2>1. \A x \in Sectors : f[x] \in Int
    BY SectorCounts
  <2>. HIDE DEF f
  <2>. QED
    BY <2>1, StartAssumption, SumIsInt DEF AllPurse, Total, f
<1>4. AllDue \in Int
  <2>. DEFINE f == [j \in Jobs |-> Due(jobs[j])]
  <2>1. \A j \in Jobs : f[j] \in Int
    BY DueCounts DEF Readings
  <2>. HIDE DEF f
  <2>. QED
    BY <2>1, StartAssumption, SumIsInt DEF AllDue, Total, f
<1>. QED
  BY <1>1, <1>2, <1>3, <1>4

\* One sector's rows are written.
LEMMA RowsWritten ==
  ASSUME Inv, Inv', NEW x \in Sectors, NEW rows, gar' = [gar EXCEPT ![x] = rows]
  PROVE  /\ AllFighters' = AllFighters - Fighters(gar[x]) + Fighters(rows)
         /\ AllPurse' = AllPurse - Purse(gar[x]) + Purse(rows)
         /\ Fighters(gar[x]) \in Int /\ Fighters(rows) \in Int
         /\ Purse(gar[x]) \in Int /\ Purse(rows) \in Int
<1>1. gar'[x] = rows /\ \A y \in Sectors \ {x} : gar'[y] = gar[y]
  BY DEF Inv, TypeOK
<1>2. ASSUME NEW y \in Sectors
      PROVE  /\ Stationed(y) = Fighters(gar[y]) /\ Balance(y) = Purse(gar[y])
             /\ Stationed(y) \in Int /\ Balance(y) \in Int
  BY SectorCounts
<1>3. ASSUME NEW y \in Sectors
      PROVE  /\ Stationed(y)' = Fighters(gar'[y]) /\ Balance(y)' = Purse(gar'[y])
             /\ Stationed(y)' \in Int /\ Balance(y)' \in Int
  <2>1. Stationed(y)' = Fighters(gar'[y]) /\ Balance(y)' = Purse(gar'[y])
    BY DEF Stationed, Balance, Fighters, Purse
  <2>2. gar'[y] \subseteq GarrisonRow /\ \A a, b \in gar'[y] : a = b
    BY DEF Inv, TypeOK, Safe, OneGarrison
  <2>. QED
    BY <2>1, <2>2, RowsCount
<1>4. AllFighters' = AllFighters - Fighters(gar[x]) + Fighters(rows)
  <2>. DEFINE f == [y \in Sectors |-> Stationed(y)]
              g == [y \in Sectors |-> Stationed(y)']
  <2>1. /\ \A y \in Sectors : f[y] \in Int /\ g[y] \in Int
        /\ \A y \in Sectors \ {x} : g[y] = f[y]
        /\ f[x] = Fighters(gar[x]) /\ g[x] = Fighters(rows)
    BY <1>1, <1>2, <1>3
  <2>2. AllFighters = SumFunctionOnSet(f, Sectors) /\ AllFighters' = SumFunctionOnSet(g, Sectors)
    BY DEF AllFighters, Total
  <2>. HIDE DEF f, g
  <2>3. SumFunctionOnSet(g, Sectors) = SumFunctionOnSet(f, Sectors) - f[x] + g[x]
    BY <2>1, StartAssumption, SumChanges
  <2>. QED
    BY <2>1, <2>2, <2>3
<1>5. AllPurse' = AllPurse - Purse(gar[x]) + Purse(rows)
  <2>. DEFINE f == [y \in Sectors |-> Balance(y)]
              g == [y \in Sectors |-> Balance(y)']
  <2>1. /\ \A y \in Sectors : f[y] \in Int /\ g[y] \in Int
        /\ \A y \in Sectors \ {x} : g[y] = f[y]
        /\ f[x] = Purse(gar[x]) /\ g[x] = Purse(rows)
    BY <1>1, <1>2, <1>3
  <2>2. AllPurse = SumFunctionOnSet(f, Sectors) /\ AllPurse' = SumFunctionOnSet(g, Sectors)
    BY DEF AllPurse, Total
  <2>. HIDE DEF f, g
  <2>3. SumFunctionOnSet(g, Sectors) = SumFunctionOnSet(f, Sectors) - f[x] + g[x]
    BY <2>1, StartAssumption, SumChanges
  <2>. QED
    BY <2>1, <2>2, <2>3
<1>. QED
  BY <1>1, <1>2, <1>3, <1>4, <1>5

LEMMA NextPurse ==
  ASSUME Inv'
  PROVE  AllPurse' \in Int
<1>1. ASSUME NEW y \in Sectors
      PROVE  Balance(y)' \in Int
  <2>1. Balance(y)' = Purse(gar'[y])
    BY DEF Balance, Purse
  <2>2. gar'[y] \subseteq GarrisonRow /\ \A a, b \in gar'[y] : a = b
    BY DEF Inv, TypeOK, Safe, OneGarrison
  <2>. QED
    BY <2>1, <2>2, RowsCount
<1>. DEFINE g == [y \in Sectors |-> Balance(y)']
<1>2. AllPurse' = SumFunctionOnSet(g, Sectors) /\ \A y \in Sectors : g[y] \in Int
  BY <1>1 DEF AllPurse, Total
<1>. HIDE DEF g
<1>. QED
  BY <1>2, StartAssumption, SumIsInt

LEMMA NoRowsWritten ==
  ASSUME gar' = gar
  PROVE  AllFighters' = AllFighters /\ AllPurse' = AllPurse
  BY DEF AllFighters, AllPurse, Stationed, Balance

\* One ship's fighters are written.
LEMMA BayWritten ==
  ASSUME Inv, NEW s \in Ships, NEW n \in Int, bays' = [bays EXCEPT ![s] = n]
  PROVE  AllBays' = AllBays - bays[s] + n /\ bays[s] \in Int
<1>1. /\ bays'[s] = n
      /\ \A t \in Ships : bays[t] \in Int /\ bays'[t] \in Int
      /\ \A t \in Ships \ {s} : bays'[t] = bays[t]
  BY DEF Inv, TypeOK
<1>. DEFINE f == bays
            g == bays'
<1>2. /\ \A t \in Ships : f[t] \in Int /\ g[t] \in Int
      /\ \A t \in Ships \ {s} : g[t] = f[t]
  BY <1>1
<1>3. AllBays = SumFunctionOnSet(f, Ships) /\ AllBays' = SumFunctionOnSet(g, Ships)
  BY DEF AllBays, Total
<1>4. f[s] = bays[s] /\ g[s] = n
  BY <1>1
<1>. HIDE DEF f, g
<1>5. SumFunctionOnSet(g, Ships) = SumFunctionOnSet(f, Ships) - f[s] + g[s]
  BY <1>2, StartAssumption, SumChanges
<1>. QED
  BY <1>1, <1>3, <1>4, <1>5

\* One request's copy is written.
LEMMA JobWritten ==
  ASSUME Inv, Readings, NEW j \in Jobs, NEW job, Become(j, job),
         job.step = "delete" => \E r \in GarrisonRow : job.read = {r}
  PROVE  /\ AllDue' = AllDue - Due(jobs[j]) + Due(job)
         /\ Due(jobs[j]) \in Int /\ Due(job) \in Int
<1>1. jobs'[j] = job /\ \A k \in Jobs \ {j} : jobs'[k] = jobs[k]
  BY DEF Become, Inv, TypeOK
<1>2. Due(job) \in Int /\ \A k \in Jobs : Due(jobs[k]) \in Int
  BY DueCounts DEF Readings
<1>. DEFINE f == [k \in Jobs |-> Due(jobs[k])]
            g == [k \in Jobs |-> Due(jobs'[k])]
<1>3. /\ \A k \in Jobs : f[k] \in Int /\ g[k] \in Int
      /\ \A k \in Jobs \ {j} : g[k] = f[k]
      /\ f[j] = Due(jobs[j]) /\ g[j] = Due(job)
  BY <1>1, <1>2
<1>4. AllDue = SumFunctionOnSet(f, Jobs) /\ AllDue' = SumFunctionOnSet(g, Jobs)
  BY DEF AllDue, Total, Due
<1>. HIDE DEF f, g
<1>5. SumFunctionOnSet(g, Jobs) = SumFunctionOnSet(f, Jobs) - f[j] + g[j]
  BY <1>3, StartAssumption, SumChanges
<1>. QED
  BY <1>2, <1>3, <1>4, <1>5

-----------------------------------------------------------------------------
(* The accounts: requests.                                                 *)

\* What is paid, out, gone, in the purses and due goes on balancing.
LEMMA StillBalanced ==
  ASSUME NEW p \in Int, NEW o \in Int, NEW g \in Int, NEW b \in Int, NEW d \in Int,
         NEW q \in Int, NEW u \in Int, NEW h \in Int, NEW c \in Int,
         NEW old \in Int, NEW new \in Int,
         p = o + g + b - d, q - u - h - c + new = p - o - g - b + old
  PROVE  q = u + h + c - (d - old + new)
  OBVIOUS

\* A request that keeps the counts keeps the books.
LEMMA JobKeepsBooks ==
  ASSUME Inv, Inv', Ledger, NEW j \in Jobs, NEW job, Become(j, job),
         job.step \in {"pay", "delete", "write"} => \E r \in GarrisonRow : job.read = {r},
         UNCHANGED <<place, fight, fielded>>,
         Copies', Counts', crossed \subseteq crossed',
         AllBays' + AllFighters' + lost' = AllBays + AllFighters + lost,
         crossed' = {} =>
           tolls'.paid - tolls'.out - tolls'.gone - AllPurse' + Due(job)
             = tolls.paid - tolls.out - tolls.gone - AllPurse + Due(jobs[j])
  PROVE  Ledger'
<1>1. Crews'
  BY DEF Ledger, Crews
<1>2. Readings'
  BY DEF Ledger, Readings, Become, Inv, TypeOK
<1>3. FighterBooks'
  BY DEF Ledger, FighterBooks
<1>4. /\ AllDue' = AllDue - Due(jobs[j]) + Due(job)
      /\ Due(jobs[j]) \in Int /\ Due(job) \in Int
  BY JobWritten DEF Ledger
<1>5. /\ AllPurse \in Int /\ AllDue \in Int /\ AllPurse' \in Int /\ AllDue' \in Int
  <2>1. AllPurse \in Int /\ AllDue \in Int
    BY Figures DEF Ledger
  <2>2. AllPurse' \in Int /\ AllDue' \in Int
    BY <1>4, <2>1, NextPurse
  <2>. QED
    BY <2>1, <2>2
<1>6. TollBooks'
  <2>. SUFFICES ASSUME crossed' = {}
                PROVE  tolls'.paid = tolls'.out + tolls'.gone + AllPurse' - AllDue'
    BY DEF TollBooks
  <2>1. tolls.paid = tolls.out + tolls.gone + AllPurse - AllDue
    BY DEF Ledger, TollBooks
  <2>2. /\ tolls.paid \in Int /\ tolls.out \in Int /\ tolls.gone \in Int
        /\ tolls'.paid \in Int /\ tolls'.out \in Int /\ tolls'.gone \in Int
    BY DEF Ledger, Counts
  <2>3. tolls'.paid - tolls'.out - tolls'.gone - AllPurse' + Due(job)
          = tolls.paid - tolls.out - tolls.gone - AllPurse + Due(jobs[j])
    BY Zenon
  <2>. DEFINE p == tolls.paid  o == tolls.out  g == tolls.gone
              q == tolls'.paid  u == tolls'.out  h == tolls'.gone
              b == AllPurse  c == AllPurse'  d == AllDue  e == AllDue'
              old == Due(jobs[j])  new == Due(job)
  <2>4. /\ p \in Int /\ o \in Int /\ g \in Int /\ q \in Int /\ u \in Int /\ h \in Int
        /\ b \in Int /\ c \in Int /\ d \in Int /\ old \in Int /\ new \in Int
    BY <1>4, <1>5, <2>2
  <2>5. p = o + g + b - d /\ q - u - h - c + new = p - o - g - b + old
    BY <2>1, <2>3
  <2>6. e = d - old + new
    BY <1>4
  <2>7. q = u + h + c - e
    <3>. HIDE DEF p, o, g, q, u, h, b, c, d, e, old, new
    <3>. QED
      BY <2>4, <2>5, <2>6, StillBalanced
  <2>. QED
    BY <2>7
<1>. QED
  BY <1>1, <1>2, <1>3, <1>6 DEF Ledger

\* A request that writes no table and owes what it owed.
LEMMA QuietJob ==
  ASSUME Inv, Inv', Ledger, NEW j \in Jobs, NEW job, Become(j, job),
         job.step \in {"pay", "delete", "write"} => \E r \in GarrisonRow : job.read = {r},
         UNCHANGED <<gar, bays, place, fight, fielded, lost, tolls>>,
         crossed \subseteq crossed', crossed' \subseteq {"fight", "disband"},
         crossed' = {} => Due(job) = Due(jobs[j])
  PROVE  Ledger'
<1>1. AllBays' = AllBays /\ AllFighters' = AllFighters /\ AllPurse' = AllPurse
  BY NoRowsWritten DEF AllBays
<1>2. Copies' /\ Counts'
  BY DEF Ledger, Copies, Copied, Counts
<1>. QED
  BY <1>1, <1>2, JobKeepsBooks

LEMMA NotDue ==
  ASSUME NEW job, job.step # "delete"
  PROVE  Due(job) = 0
  BY DEF Due

LEMMA RestingOwesNothing == Resting.step = "idle" /\ Due(Resting) = 0
  BY NotDue DEF Resting

\* The steps that only go on or roll back.
LEMMA BooksQuiet ==
  ASSUME Inv, Inv', Ledger, NEW j \in Jobs,
         \/ Requests(j) \/ Begin(j) \/ LeaveRows(j) \/ LeaveShip(j)
         \/ CollectShip(j) \/ CollectRows(j) \/ ReadGarrison(j) \/ Kill(j)
  PROVE  Ledger'
<1>1. crossed \subseteq {"fight", "disband"}
  BY DEF Ledger, Counts
<1>2. ASSUME NEW job, Become(j, job), jobs[j].step # "delete",
             job.step \notin {"pay", "delete", "write"},
             UNCHANGED <<gar, bays, place, fight, fielded, lost, tolls, crossed>>
      PROVE  Ledger'
  BY <1>1, <1>2, NotDue, QuietJob
<1>3. CASE Requests(j)
  <2>1. ASSUME NEW kind, NEW s, NEW x, NEW n, NEW m, Call(j, kind, s, x, n, m)
        PROVE  Ledger'
    <3>. DEFINE job == [kind |-> kind, step |-> "begin", ship |-> s, at |-> x,
                        asked |-> n, mode |-> m, read |-> {}]
    <3>1. /\ Become(j, job) /\ job.step = "begin" /\ jobs[j].step # "delete"
          /\ UNCHANGED <<gar, bays, place, fight, fielded, lost, tolls, crossed>>
      BY <2>1 DEF Call
    <3>. HIDE DEF job
    <3>. QED
      BY <3>1, <1>2
  <2>. QED
    BY <1>3, <2>1 DEF Requests
<1>4. ASSUME NEW job, NEW ok, Proceed(j, ok, job), jobs[j].step # "delete",
             job.step \notin {"pay", "delete", "write"},
             UNCHANGED <<gar, bays, place, fight, fielded, lost, tolls, crossed>>
      PROVE  Ledger'
  BY <1>2, <1>4, RestingOwesNothing DEF Proceed, RollBack
<1>5. jobs[j] \in JobStates
  BY DEF Inv, TypeOK
<1>6. CASE Begin(j)
  <2>. DEFINE job == [jobs[j] EXCEPT !.step = "first"]
  <2>1. /\ Become(j, job) /\ job.step = "first" /\ jobs[j].step # "delete"
        /\ UNCHANGED <<gar, bays, place, fight, fielded, lost, tolls, crossed>>
    BY <1>5, <1>6 DEF Begin, JobStates
  <2>. HIDE DEF job
  <2>. QED
    BY <1>2, <2>1
<1>7. CASE LeaveRows(j)
  <2>. DEFINE job == [jobs[j] EXCEPT !.step = "second", !.read = gar[jobs[j].at]]
              ok == MayReinforce(jobs[j], gar[jobs[j].at])
  <2>1. /\ Proceed(j, ok, job) /\ job.step = "second" /\ jobs[j].step # "delete"
        /\ UNCHANGED <<gar, bays, place, fight, fielded, lost, tolls, crossed>>
    BY <1>5, <1>7 DEF LeaveRows, JobStates
  <2>. HIDE DEF job, ok
  <2>. QED
    BY <1>4, <2>1
<1>8. CASE LeaveShip(j)
  <2>. DEFINE job == [jobs[j] EXCEPT !.step = "commit"]
              ok == place[jobs[j].ship] = jobs[j].at /\ jobs[j].asked <= bays[jobs[j].ship]
  <2>1. /\ Proceed(j, ok, job) /\ job.step = "commit" /\ jobs[j].step # "delete"
        /\ UNCHANGED <<gar, bays, place, fight, fielded, lost, tolls, crossed>>
    BY <1>5, <1>8 DEF LeaveShip, JobStates
  <2>. HIDE DEF job, ok
  <2>. QED
    BY <1>4, <2>1
<1>9. CASE CollectShip(j)
  <2>. DEFINE job == [jobs[j] EXCEPT !.step = "second"]
              ok == bays[jobs[j].ship] < Bay
  <2>1. /\ Proceed(j, ok, job) /\ job.step = "second" /\ jobs[j].step # "delete"
        /\ UNCHANGED <<gar, bays, place, fight, fielded, lost, tolls, crossed>>
    BY <1>5, <1>9 DEF CollectShip, JobStates
  <2>. HIDE DEF job, ok
  <2>. QED
    BY <1>4, <2>1
<1>10. CASE CollectRows(j)
  <2>. DEFINE job == [jobs[j] EXCEPT !.step = "commit", !.read = gar[jobs[j].at]]
              ok == MayCollect(jobs[j], gar[jobs[j].at])
  <2>1. /\ Proceed(j, ok, job) /\ job.step = "commit" /\ jobs[j].step # "delete"
        /\ UNCHANGED <<gar, bays, place, fight, fielded, lost, tolls, crossed>>
    BY <1>5, <1>10, ZenonT(30) DEF CollectRows, JobStates
  <2>. HIDE DEF job, ok
  <2>. QED
    BY <1>4, <2>1
<1>11. CASE ReadGarrison(j)
  <2>1. /\ UNCHANGED <<gar, bays, place, fight, fielded, lost, tolls, crossed>>
        /\ jobs[j].step # "delete"
    BY <1>11 DEF ReadGarrison
  <2>2. ASSUME NEW r \in gar[jobs[j].at], NEW step \in {"write", "pay", "delete"},
               step = "delete" => ~(Payout(r) > 0),
               Become(j, [jobs[j] EXCEPT !.read = {r}, !.step = step])
        PROVE  Ledger'
    <3>. DEFINE job == [jobs[j] EXCEPT !.read = {r}, !.step = step]
    <3>1. job.read = {r} /\ job.step = step /\ r \in GarrisonRow
      BY <1>5 DEF JobStates, Inv, TypeOK
    <3>. HIDE DEF job
    <3>2. Due(job) = 0
      <4>1. CASE step = "delete"
        <5>1. Due(job) = Payout(r)
          BY <3>1, <4>1, OneRow DEF Due
        <5>2. Payout(r) \in Nat /\ ~(Payout(r) > 0)
          BY <2>2, <3>1, <4>1 DEF Payout, GarrisonRow
        <5>. QED
          BY <5>1, <5>2
      <4>2. CASE step # "delete"
        BY <3>1, <4>2, NotDue
      <4>. QED
        BY <4>1, <4>2
    <3>3. Due(jobs[j]) = 0
      BY <2>1, NotDue
    <3>4. Become(j, job)
      BY <2>2 DEF job
    <3>. QED
      BY <1>1, <2>1, <3>1, <3>2, <3>3, <3>4, QuietJob
  <2>3. CASE RollBack(j)
    BY <1>2, <2>1, <2>3, RestingOwesNothing DEF RollBack
  <2>. QED
    BY <1>11, <2>2, <2>3, ZenonT(30) DEF ReadGarrison
<1>12. CASE Kill(j)
  <2>1. /\ UNCHANGED <<gar, bays, place, fight, fielded, lost, tolls>>
        /\ crossed' = crossed \cup IF jobs[j].step = "delete" THEN {"disband"} ELSE {}
        /\ Become(j, Resting)
    BY <1>12 DEF Kill, RollBack
  <2>2. crossed' = {} => Due(Resting) = Due(jobs[j])
    BY <2>1, NotDue, RestingOwesNothing
  <2>. QED
    BY <1>1, <2>1, <2>2, QuietJob, RestingOwesNothing
<1>. QED
  BY <1>3, <1>6, <1>7, <1>8, <1>9, <1>10, <1>11, <1>12

\* What a disband pays out, it owes until the row is gone.
LEMMA BooksPayOut ==
  ASSUME Inv, Inv', Ledger, NEW j \in Jobs, PayOut(j)
  PROVE  Ledger'
<1>. DEFINE job == [jobs[j] EXCEPT !.step = "delete"]
<1>1. jobs[j] \in JobStates /\ jobs[j].step = "pay"
  BY DEF Inv, TypeOK, PayOut
<1>2. /\ UNCHANGED <<gar, bays, place, fight, fielded, lost>>
      /\ crossed' = crossed \cup Outdated(jobs[j]) /\ Become(j, job)
  BY DEF PayOut
<1>3. PICK r \in GarrisonRow : jobs[j].read = {r}
  BY <1>1 DEF Ledger, Readings
<1>4. tolls' = [tolls EXCEPT !.out = @ + Payout(r)]
  BY <1>3 DEF PayOut
<1>5. job.step = "delete" /\ job.read = {r}
  BY <1>1, <1>3 DEF JobStates
<1>. HIDE DEF job
<1>6. Due(job) = Payout(r) /\ Due(jobs[j]) = 0 /\ Payout(r) \in Int
  <2>1. Payout(r) \in Int
    BY DEF Payout, GarrisonRow
  <2>. QED
    BY <1>1, <1>5, <2>1, OneRow, NotDue DEF Due
<1>7. AllBays' = AllBays /\ AllFighters' = AllFighters /\ AllPurse' = AllPurse
  BY <1>2, NoRowsWritten DEF AllBays
<1>8. tolls \in [paid : Int, out : Int, gone : Int] /\ AllPurse \in Int
  BY Figures DEF Ledger, Counts
<1>9. /\ tolls' \in [paid : Int, out : Int, gone : Int]
      /\ tolls'.paid = tolls.paid /\ tolls'.gone = tolls.gone
      /\ tolls'.out = tolls.out + Payout(r)
  BY <1>4, <1>6, <1>8
<1>10. tolls'.paid - tolls'.out - tolls'.gone - AllPurse' + Due(job)
         = tolls.paid - tolls.out - tolls.gone - AllPurse + Due(jobs[j])
  BY <1>6, <1>7, <1>8, <1>9
<1>11. Copies'
  BY <1>2 DEF Ledger, Copies, Copied, Outdated
<1>12. Counts'
  BY <1>2, <1>9 DEF Ledger, Counts, Outdated
<1>. QED
  BY <1>2, <1>3, <1>5, <1>7, <1>10, <1>11, <1>12, JobKeepsBooks

\* Nobody who writes in front of all the fights writes what one has copied.
LEMMA InFront ==
  ASSUME Inv, Crews, NEW j \in Jobs, Behind(jobs[j]) = {}
  PROVE  /\ fight[jobs[j].at].guard = {} /\ DOMAIN fight[jobs[j].at].crew = {}
         /\ \A y \in Sectors : jobs[j].ship \notin DOMAIN fight[y].crew
<1>1. jobs[j].at \in Sectors
  BY DEF Inv, TypeOK, JobStates
<1>2. \A y \in Sectors : ~(fight[y].on /\ (y = jobs[j].at \/ jobs[j].ship \in DOMAIN fight[y].crew))
  BY DEF Behind
<1>. QED
  BY <1>1, <1>2 DEF Crews

\* A request that writes the rows of its sector and the fighters of its ship,
\* and marks it when a fight has copied them.
LEMMA CopiesKept ==
  ASSUME Inv, Ledger, NEW j \in Jobs, UNCHANGED fight,
         crossed \cup Behind(jobs[j]) \subseteq crossed',
         \A y \in Sectors \ {jobs[j].at} : gar'[y] = gar[y],
         \A s \in Ships \ {jobs[j].ship} : bays'[s] = bays[s]
  PROVE  Copies'
<1>. SUFFICES ASSUME "fight" \notin crossed', NEW y \in Sectors
              PROVE  Copied(y)'
  BY DEF Copies
<1>1. Behind(jobs[j]) = {} /\ "fight" \notin crossed
  BY DEF Behind
<1>2. /\ fight[jobs[j].at].guard = {} /\ DOMAIN fight[jobs[j].at].crew = {}
      /\ jobs[j].ship \notin DOMAIN fight[y].crew
  BY <1>1, InFront DEF Ledger
<1>3. Copied(y) /\ DOMAIN fight[y].crew \subseteq Ships
  BY <1>1 DEF Ledger, Copies, Inv, TypeOK
<1>4. \A s \in DOMAIN fight[y].crew : fight[y].crew[s] = bays'[s]
  BY <1>2, <1>3 DEF Copied
<1>5. \A g \in fight[y].guard : \E r \in gar'[y] : SameRow(r, g)
  BY <1>2, <1>3 DEF Copied
<1>. QED
  BY <1>4, <1>5 DEF Copied

\* What leaves the bay reinforces the garrison, and its balance stays.
LEMMA BooksCommitLeave ==
  ASSUME Inv, Inv', Ledger, NEW j \in Jobs, CommitLeave(j)
  PROVE  Ledger'
<1>. DEFINE x == jobs[j]
            rows == Reinforced(x, gar[x.at])
<1>1. /\ x \in JobStates /\ x.kind = "leave" /\ x.step = "commit" /\ Become(j, Resting)
      /\ bays' = [bays EXCEPT ![x.ship] = bays[x.ship] - x.asked]
      /\ gar' = [gar EXCEPT ![x.at] = rows]
      /\ crossed' = crossed \cup Behind(x)
      /\ UNCHANGED <<fielded, place, fight, tolls, lost>>
  BY DEF CommitLeave, RollBack, Inv, TypeOK
<1>2. /\ x.asked \in 1..MaxGarrison /\ MayReinforce(x, x.read) /\ gar[x.at] = x.read
  BY <1>1 DEF Inv, Safe, Grants, Granted, ReadsCurrent, HasRows
<1>3. x.at \in Sectors /\ x.ship \in Ships /\ x.mode \in Modes /\ x.asked \in Int
  BY <1>1 DEF JobStates
<1>4. Due(x) = 0
  BY <1>1, NotDue
<1>5. Copies'
  BY <1>1, CopiesKept DEF Inv, TypeOK
<1>6. Counts'
  BY <1>1 DEF Ledger, Counts, Behind
<1>7. bays[x.ship] \in Int /\ AllBays \in Int /\ AllFighters \in Int /\ AllPurse \in Int
  BY <1>3, Figures DEF Ledger, Inv, TypeOK
<1>. HIDE DEF x, rows
<1>8. Fighters(rows) = Fighters(gar[x.at]) + x.asked /\ Purse(rows) = Purse(gar[x.at])
  <2>1. CASE gar[x.at] = {}
    <3>. DEFINE new == [owner |-> x.ship, fighters |-> x.asked, mode |-> x.mode, toll |-> 0]
    <3>1. rows = {new} /\ new \in GarrisonRow /\ new.fighters = x.asked /\ new.toll = 0
      BY <1>2, <1>3, <2>1 DEF rows, Reinforced, GarrisonRow
    <3>. HIDE DEF new
    <3>2. Fighters(rows) = x.asked /\ Purse(rows) = 0
      BY <3>1, OneRow
    <3>. QED
      BY <1>3, <2>1, <3>2, NoRow
  <2>2. CASE gar[x.at] # {}
    <3>1. PICK r \in gar[x.at] : gar[x.at] = {r}
      BY <1>2, <2>2 DEF MayReinforce
    <3>2. r \in GarrisonRow /\ r.fighters + x.asked <= MaxGarrison
      BY <1>2, <1>3, <3>1 DEF MayReinforce, Inv, TypeOK
    <3>. DEFINE new == [r EXCEPT !.fighters = @ + x.asked,
                                 !.mode = IF r.owner = x.ship THEN x.mode ELSE @]
    <3>3. rows = {new}
      BY <1>2, <2>2, <3>1 DEF rows, Reinforced
    <3>4. /\ r.fighters + x.asked \in 1..MaxGarrison
          /\ new.fighters = r.fighters + x.asked /\ new.toll = r.toll
      BY <1>2, <1>3, <3>2, NumbersAssumption DEF GarrisonRow
    <3>5. new \in GarrisonRow
      BY <1>3, <3>2, <3>4, RowChanged
    <3>. HIDE DEF new
    <3>. QED
      BY <3>1, <3>2, <3>3, <3>4, <3>5, OneRow
  <2>. QED
    BY <2>1, <2>2
<1>9. /\ AllFighters' = AllFighters - Fighters(gar[x.at]) + Fighters(rows)
      /\ AllPurse' = AllPurse - Purse(gar[x.at]) + Purse(rows)
      /\ Fighters(gar[x.at]) \in Int /\ Purse(gar[x.at]) \in Int
  BY <1>1, <1>3, RowsWritten
<1>10. AllBays' = AllBays - bays[x.ship] + (bays[x.ship] - x.asked)
  <2>1. bays[x.ship] - x.asked \in Int
    BY <1>3, <1>7
  <2>. QED
    BY <1>1, <1>3, <2>1, BayWritten
<1>11. AllBays' + AllFighters' = AllBays + AllFighters /\ AllPurse' = AllPurse
  BY <1>3, <1>7, <1>8, <1>9, <1>10
<1>. QED
  BY <1>1, <1>4, <1>5, <1>6, <1>11, RestingOwesNothing, JobKeepsBooks DEF x

\* What is taken from the garrison goes into the bay, and its balance to the
\* pilot or with it.
LEMMA BooksCommitCollect ==
  ASSUME Inv, Inv', Ledger, NEW j \in Jobs, CommitCollect(j)
  PROVE  Ledger'
<1>. DEFINE x == jobs[j]
<1>1. /\ x \in JobStates /\ x.kind = "collect" /\ x.step = "commit" /\ Become(j, Resting)
      /\ crossed' = crossed \cup Behind(x)
      /\ UNCHANGED <<fielded, place, fight, lost>>
  BY DEF CommitCollect, RollBack, Inv, TypeOK
<1>2. PICK r \in x.read :
        /\ bays' = [bays EXCEPT ![x.ship] = @ + Taken(x, r)]
        /\ gar' = [gar EXCEPT ![x.at] = Remainder(r, Taken(x, r))]
        /\ tolls' = [tolls EXCEPT !.out = @ + Payout(r), !.gone = @ + r.toll - Payout(r)]
  BY DEF CommitCollect
<1>3. gar[x.at] = x.read /\ MayCollect(x, x.read) /\ bays[x.ship] < Bay
  BY <1>1 DEF Inv, Safe, Grants, Granted, ReadsCurrent, HasRows
<1>4. x.at \in Sectors /\ x.ship \in Ships /\ x.asked \in Nat /\ r \in GarrisonRow
  BY <1>1, <1>2 DEF JobStates
<1>5. gar[x.at] = {r}
  BY <1>2, <1>3 DEF MayCollect
<1>6. Due(x) = 0
  BY <1>1, NotDue
<1>7. Copies'
  BY <1>1, <1>2, CopiesKept DEF Inv, TypeOK
<1>8. bays[x.ship] \in Nat /\ AllBays \in Int /\ AllFighters \in Int /\ AllPurse \in Int
  BY <1>4, Figures DEF Ledger, Inv, TypeOK
<1>9. tolls \in [paid : Int, out : Int, gone : Int] /\ r.toll \in Int /\ Payout(r) \in Int
  BY <1>4 DEF Ledger, Counts, Payout, GarrisonRow
<1>10. /\ tolls' \in [paid : Int, out : Int, gone : Int] /\ tolls'.paid = tolls.paid
       /\ tolls'.out = tolls.out + Payout(r)
       /\ tolls'.gone = tolls.gone + r.toll - Payout(r)
  <2>1. tolls.out + Payout(r) \in Int /\ tolls.gone + r.toll - Payout(r) \in Int
    BY <1>9
  <2>2. tolls' = [tolls EXCEPT !.out = tolls.out + Payout(r),
                               !.gone = tolls.gone + r.toll - Payout(r)]
    BY <1>2
  <2>. QED
    BY <1>9, <2>1, <2>2
<1>11. Counts'
  BY <1>1, <1>10 DEF Ledger, Counts, Behind
<1>. DEFINE n == Taken(x, r)
            rows == Remainder(r, n)
<1>. HIDE DEF x
<1>12. n \in Nat /\ n <= r.fighters /\ r.fighters \in 1..MaxGarrison
  BY <1>3, <1>4, <1>8, NumbersAssumption DEF Taken, Smaller, GarrisonRow
<1>. HIDE DEF n
<1>13. Fighters(rows) = r.fighters - n /\ Purse(rows) = 0
  <2>1. CASE r.fighters > n
    <3>. DEFINE new == [r EXCEPT !.fighters = r.fighters - n, !.toll = 0]
    <3>1. r.fighters - n \in 1..MaxGarrison
      BY <1>12, <2>1, NumbersAssumption
    <3>2. new \in GarrisonRow /\ new.fighters = r.fighters - n /\ new.toll = 0
      BY <1>4, <3>1 DEF GarrisonRow
    <3>3. rows = {new}
      BY <2>1 DEF Remainder
    <3>. HIDE DEF new, rows
    <3>. QED
      BY <3>2, <3>3, OneRow
  <2>2. CASE ~(r.fighters > n)
    <3>1. rows = {} /\ r.fighters - n = 0
      BY <1>12, <2>2, NumbersAssumption DEF Remainder
    <3>. QED
      BY <3>1, NoRow
  <2>. QED
    BY <2>1, <2>2
<1>. HIDE DEF rows
<1>14. Fighters(gar[x.at]) = r.fighters /\ Purse(gar[x.at]) = r.toll
  BY <1>4, <1>5, OneRow
<1>15. /\ AllFighters' = AllFighters - r.fighters + (r.fighters - n)
       /\ AllPurse' = AllPurse - r.toll
  <2>1. /\ AllFighters' = AllFighters - Fighters(gar[x.at]) + Fighters(rows)
        /\ AllPurse' = AllPurse - Purse(gar[x.at]) + Purse(rows)
    BY <1>2, <1>4, RowsWritten DEF rows, n
  <2>2. r.fighters \in Int /\ n \in Int
    BY <1>12, NumbersAssumption
  <2>. QED
    BY <1>8, <1>9, <1>13, <1>14, <2>1, <2>2
<1>16. AllBays' = AllBays - bays[x.ship] + (bays[x.ship] + n)
  <2>1. bays[x.ship] + n \in Int /\ bays' = [bays EXCEPT ![x.ship] = bays[x.ship] + n]
    BY <1>2, <1>8, <1>12 DEF n
  <2>. QED
    BY <1>4, <2>1, BayWritten
<1>17. AllBays' + AllFighters' = AllBays + AllFighters
  <2>1. r.fighters \in Int /\ n \in Int /\ bays[x.ship] \in Int
    BY <1>8, <1>12
  <2>. QED
    BY <1>8, <1>15, <1>16, <2>1
<1>18. tolls'.paid - tolls'.out - tolls'.gone - AllPurse' + Due(Resting)
         = tolls.paid - tolls.out - tolls.gone - AllPurse + Due(x)
  BY <1>6, <1>8, <1>9, <1>10, <1>15, RestingOwesNothing
<1>. QED
  BY <1>1, <1>7, <1>11, <1>17, <1>18, RestingOwesNothing, JobKeepsBooks DEF x

\* What is deleted is lost, and what it held and was not paid out is gone.
LEMMA BooksDelete ==
  ASSUME Inv, Inv', Ledger, NEW j \in Jobs, Delete(j)
  PROVE  Ledger'
<1>. DEFINE x == jobs[j]
<1>1. /\ x \in JobStates /\ x.step = "delete" /\ Become(j, Resting)
      /\ crossed' = crossed \cup Outdated(x) \cup Behind(x)
      /\ UNCHANGED <<fielded, bays, place, fight>>
  BY DEF Delete, RollBack, Inv, TypeOK
<1>2. PICK r \in GarrisonRow : x.read = {r}
  BY <1>1 DEF Ledger, Readings
<1>. DEFINE doomed == {d \in gar[x.at] : d.owner = r.owner}
            rows == gar[x.at] \ doomed
<1>3. /\ gar' = [gar EXCEPT ![x.at] = rows]
      /\ lost' = lost + Fighters(doomed)
      /\ tolls' = [tolls EXCEPT !.gone = @ + Purse(doomed) - Payout(r)]
  BY <1>2 DEF Delete, Fighters, Purse
<1>4. x.at \in Sectors /\ x.ship \in Ships
  BY <1>1 DEF JobStates
<1>5. Due(x) = Payout(r) /\ Payout(r) \in Int
  <2>1. Payout(r) \in Int
    BY DEF Payout, GarrisonRow
  <2>. QED
    BY <1>1, <1>2, <2>1, OneRow DEF Due
<1>6. Copies'
  <2>1. /\ crossed \cup Behind(jobs[j]) \subseteq crossed'
        /\ \A y \in Sectors \ {jobs[j].at} : gar'[y] = gar[y]
    BY <1>1, <1>3, <1>4 DEF Inv, TypeOK
  <2>. QED
    BY <1>1, <2>1, CopiesKept
<1>7. /\ AllBays \in Int /\ AllFighters \in Int /\ AllPurse \in Int /\ lost \in Int
      /\ tolls \in [paid : Int, out : Int, gone : Int]
  BY Figures DEF Ledger, Counts
<1>8. gar[x.at] \subseteq GarrisonRow /\ \A a, b \in gar[x.at] : a = b
  BY <1>4 DEF Inv, TypeOK, Safe, OneGarrison
<1>. HIDE DEF x
<1>9. /\ Fighters(doomed) \in Int /\ Purse(doomed) \in Int
      /\ Fighters(rows) = Fighters(gar[x.at]) - Fighters(doomed)
      /\ Purse(rows) = Purse(gar[x.at]) - Purse(doomed)
  <2>1. Fighters(gar[x.at]) \in Int /\ Purse(gar[x.at]) \in Int
    BY <1>8, RowsCount
  <2>2. CASE doomed = {}
    <3>1. rows = gar[x.at]
      BY <2>2
    <3>. HIDE DEF doomed, rows
    <3>. QED
      BY <2>1, <2>2, <3>1, NoRow
  <2>3. CASE doomed # {}
    <3>1. doomed = gar[x.at] /\ rows = {}
      BY <1>8, <2>3
    <3>. HIDE DEF doomed, rows
    <3>. QED
      BY <2>1, <3>1, NoRow
  <2>. QED
    BY <2>2, <2>3
<1>. HIDE DEF doomed, rows
<1>10. /\ AllFighters' = AllFighters - Fighters(gar[x.at]) + Fighters(rows)
       /\ AllPurse' = AllPurse - Purse(gar[x.at]) + Purse(rows)
       /\ Fighters(gar[x.at]) \in Int /\ Purse(gar[x.at]) \in Int
  BY <1>3, <1>4, RowsWritten
<1>11. /\ AllFighters' = AllFighters - Fighters(doomed)
       /\ AllPurse' = AllPurse - Purse(doomed)
  BY <1>7, <1>9, <1>10
<1>12. AllBays' + AllFighters' + lost' = AllBays + AllFighters + lost
  <2>1. AllBays' = AllBays
    BY <1>1 DEF AllBays
  <2>. QED
    BY <1>3, <1>7, <1>9, <1>11, <2>1
<1>13. /\ tolls' \in [paid : Int, out : Int, gone : Int] /\ tolls'.paid = tolls.paid
       /\ tolls'.out = tolls.out
       /\ tolls'.gone = tolls.gone + Purse(doomed) - Payout(r)
  BY <1>3, <1>5, <1>7, <1>9
<1>14. Counts'
  BY <1>1, <1>3, <1>7, <1>9, <1>13 DEF Ledger, Counts, Behind, Outdated
<1>15. tolls'.paid - tolls'.out - tolls'.gone - AllPurse' + Due(Resting)
         = tolls.paid - tolls.out - tolls.gone - AllPurse + Due(x)
  BY <1>5, <1>7, <1>9, <1>11, <1>13, RestingOwesNothing
<1>. QED
  BY <1>1, <1>6, <1>12, <1>14, <1>15, RestingOwesNothing, JobKeepsBooks DEF x

\* Another mode is another mode and nothing else.
LEMMA BooksSetMode ==
  ASSUME Inv, Inv', Ledger, NEW j \in Jobs, SetMode(j)
  PROVE  Ledger'
<1>. DEFINE x == jobs[j]
<1>1. /\ x \in JobStates /\ x.step = "write" /\ Become(j, Resting)
      /\ UNCHANGED <<fielded, bays, place, fight, tolls, lost, crossed>>
  BY DEF SetMode, RollBack, Inv, TypeOK
<1>2. x.at \in Sectors /\ x.mode \in Modes
  BY <1>1 DEF JobStates
<1>3. PICK r \in GarrisonRow : x.read = {r}
  BY <1>1 DEF Ledger, Readings
<1>. DEFINE new(d) == IF d.owner = r.owner THEN [d EXCEPT !.mode = x.mode] ELSE d
            rows == {new(d) : d \in gar[x.at]}
<1>4. gar' = [gar EXCEPT ![x.at] = rows]
  BY <1>3 DEF SetMode
<1>5. gar[x.at] \subseteq GarrisonRow /\ \A a, b \in gar[x.at] : a = b
  BY <1>2 DEF Inv, TypeOK, Safe, OneGarrison
<1>. HIDE DEF x
<1>6. ASSUME NEW d \in GarrisonRow
      PROVE  /\ new(d) \in GarrisonRow /\ new(d).owner = d.owner
             /\ new(d).fighters = d.fighters /\ new(d).toll = d.toll
  BY <1>2, <1>6 DEF GarrisonRow
<1>. HIDE DEF new
<1>7. Fighters(rows) = Fighters(gar[x.at]) /\ Purse(rows) = Purse(gar[x.at])
  <2>1. CASE gar[x.at] = {}
    BY <2>1
  <2>2. CASE gar[x.at] # {}
    <3>1. PICK d \in gar[x.at] : gar[x.at] = {d}
      BY <1>5, <2>2
    <3>2. rows = {new(d)}
      BY <3>1
    <3>. HIDE DEF rows
    <3>3. Fighters({d}) = d.fighters /\ Purse({d}) = d.toll
      BY <1>5, OneRow
    <3>4. Fighters({new(d)}) = new(d).fighters /\ Purse({new(d)}) = new(d).toll
      BY <1>5, <1>6, OneRow
    <3>. QED
      BY <1>5, <1>6, <3>1, <3>2, <3>3, <3>4
  <2>. QED
    BY <2>1, <2>2
<1>8. Copies'
  <2>. SUFFICES ASSUME "fight" \notin crossed', NEW y \in Sectors
                PROVE  Copied(y)'
    BY DEF Copies
  <2>1. Copied(y)
    BY <1>1 DEF Ledger, Copies
  <2>2. ASSUME NEW g \in fight[y].guard
        PROVE  \E d \in gar'[y] : SameRow(d, g)
    <3>1. PICK d \in gar[y] : SameRow(d, g)
      BY <2>1 DEF Copied
    <3>2. CASE y = x.at
      <4>1. new(d) \in gar'[y] /\ SameRow(new(d), g)
        BY <1>2, <1>4, <1>5, <1>6, <3>1, <3>2 DEF SameRow, Inv, TypeOK
      <4>. QED
        BY <4>1
    <3>3. CASE y # x.at
      BY <1>2, <1>4, <3>1, <3>3 DEF Inv, TypeOK
    <3>. QED
      BY <3>2, <3>3
  <2>. QED
    BY <1>1, <2>1, <2>2 DEF Copied
<1>. HIDE DEF rows
<1>9. AllFighters \in Int /\ AllPurse \in Int /\ lost \in Int
  BY Figures DEF Ledger, Counts
<1>10. AllFighters' = AllFighters /\ AllPurse' = AllPurse
  <2>1. /\ AllFighters' = AllFighters - Fighters(gar[x.at]) + Fighters(rows)
        /\ AllPurse' = AllPurse - Purse(gar[x.at]) + Purse(rows)
        /\ Fighters(gar[x.at]) \in Int /\ Purse(gar[x.at]) \in Int
    BY <1>2, <1>4, RowsWritten
  <2>. QED
    BY <1>7, <1>9, <2>1
<1>11. AllBays' = AllBays
  BY <1>1 DEF AllBays
<1>12. Due(x) = 0 /\ Due(Resting) = 0
  BY <1>1, NotDue, RestingOwesNothing
<1>13. Counts'
  BY <1>1 DEF Ledger, Counts
<1>. QED
  BY <1>1, <1>8, <1>10, <1>11, <1>12, <1>13, RestingOwesNothing, JobKeepsBooks DEF x

LEMMA BooksJobs ==
  ASSUME Inv, Inv', Ledger, NEW j \in Jobs, Requests(j) \/ JobStep(j) \/ Kill(j)
  PROVE  Ledger'
  BY BooksQuiet, BooksPayOut, BooksCommitLeave, BooksCommitCollect, BooksDelete, BooksSetMode
  DEF JobStep

-----------------------------------------------------------------------------
(* The accounts: fights and moves.                                         *)

\* A step of a fight that keeps the counts, when its copies are good, keeps
\* the books.
LEMMA FightKeepsBooks ==
  ASSUME Inv, Inv', Ledger, UNCHANGED <<jobs, fielded, crossed>>,
         Crews', Copies', Counts',
         "fight" \notin crossed =>
           /\ AllBays' + AllFighters' + lost' = AllBays + AllFighters + lost
           /\ tolls'.paid - tolls'.out - tolls'.gone - AllPurse'
                = tolls.paid - tolls.out - tolls.gone - AllPurse
  PROVE  Ledger'
<1>1. Readings'
  BY DEF Ledger, Readings
<1>2. FighterBooks'
  BY DEF Ledger, FighterBooks
<1>3. AllDue' = AllDue
  BY DEF AllDue, Due
<1>4. TollBooks'
  <2>. SUFFICES ASSUME crossed' = {}
                PROVE  tolls'.paid = tolls'.out + tolls'.gone + AllPurse' - AllDue'
    BY DEF TollBooks
  <2>1. tolls.paid = tolls.out + tolls.gone + AllPurse - AllDue
    BY DEF Ledger, TollBooks
  <2>2. /\ tolls.paid \in Int /\ tolls.out \in Int /\ tolls.gone \in Int
        /\ tolls'.paid \in Int /\ tolls'.out \in Int /\ tolls'.gone \in Int
    BY DEF Ledger, Counts
  <2>3. AllPurse \in Int /\ AllDue \in Int /\ AllPurse' \in Int
    BY Figures, NextPurse DEF Ledger
  <2>4. tolls'.paid - tolls'.out - tolls'.gone - AllPurse'
          = tolls.paid - tolls.out - tolls.gone - AllPurse
    OBVIOUS
  <2>. QED
    BY <1>3, <2>1, <2>2, <2>3, <2>4
<1>. QED
  BY <1>1, <1>2, <1>4 DEF Ledger

\* A step that writes no table.
LEMMA QuietFight ==
  ASSUME Inv, Inv', Ledger, Crews', Copies',
         UNCHANGED <<gar, bays, jobs, tolls, lost, fielded, crossed>>
  PROVE  Ledger'
<1>1. AllBays' = AllBays /\ AllFighters' = AllFighters /\ AllPurse' = AllPurse
  BY NoRowsWritten DEF AllBays
<1>2. Counts'
  BY DEF Ledger, Counts
<1>. QED
  BY <1>1, <1>2, FightKeepsBooks

LEMMA BooksStartFight ==
  ASSUME Inv, Inv', Ledger, NEW x \in Sectors, StartFight(x)
  PROVE  Ledger'
<1>. DEFINE crew == {s \in Ships : place[s] = x}
            f == [guard |-> gar[x], crew |-> [s \in crew |-> bays[s]], paid |-> {}, on |-> TRUE]
<1>1. /\ fight' = [fight EXCEPT ![x] = f]
      /\ UNCHANGED <<gar, bays, place, jobs, tolls, lost, fielded, crossed>>
  BY DEF StartFight
<1>2. fight'[x] = f /\ \A y \in Sectors \ {x} : fight'[y] = fight[y]
  BY <1>1 DEF Inv, TypeOK
<1>3. Crews'
  BY <1>1, <1>2 DEF Ledger, Crews
<1>4. Copies'
  <2>. SUFFICES ASSUME "fight" \notin crossed, NEW y \in Sectors PROVE Copied(y)'
    BY <1>1 DEF Copies
  <2>1. CASE y = x
    BY <1>1, <1>2, <2>1 DEF Copied, SameRow
  <2>2. CASE y # x
    BY <1>1, <1>2, <2>2 DEF Copied, Ledger, Copies
  <2>. QED
    BY <2>1, <2>2
<1>. QED
  BY <1>1, <1>3, <1>4, QuietFight

LEMMA BooksEndFight ==
  ASSUME Inv, Inv', Ledger, NEW x \in Sectors, EndFight(x)
  PROVE  Ledger'
<1>1. /\ fight' = [fight EXCEPT ![x] = NoFight]
      /\ UNCHANGED <<gar, bays, place, jobs, tolls, lost, fielded, crossed>>
  BY DEF EndFight
<1>2. /\ fight'[x].guard = {} /\ DOMAIN fight'[x].crew = {} /\ ~fight'[x].on
      /\ \A y \in Sectors \ {x} : fight'[y] = fight[y]
  BY <1>1 DEF Inv, TypeOK, NoFight
<1>3. Crews'
  BY <1>1, <1>2 DEF Ledger, Crews
<1>4. Copies'
  BY <1>1, <1>2 DEF Copied, Ledger, Copies
<1>. QED
  BY <1>1, <1>3, <1>4, QuietFight

LEMMA BooksMove ==
  ASSUME Inv, Inv', Ledger, NEW x \in Sectors, NEW s \in Ships, Move(s, x)
  PROVE  Ledger'
<1>. DEFINE new == IF fight[x].on THEN {s} ELSE {}
            crew == [t \in DOMAIN fight[x].crew \cup new |->
                       IF t \in new THEN bays[t] ELSE fight[x].crew[t]]
            f == [fight[x] EXCEPT !.crew = crew]
<1>1. /\ fight' = [fight EXCEPT ![x] = f]
      /\ place' = [place EXCEPT ![s] = x]
      /\ \A y \in Sectors : s \notin DOMAIN fight[y].crew
      /\ UNCHANGED <<gar, bays, jobs, tolls, lost, fielded, crossed>>
  BY DEF Move, Inv, TypeOK
<1>2. /\ fight'[x].guard = fight[x].guard /\ fight'[x].on = fight[x].on
      /\ fight'[x].crew = crew
      /\ \A y \in Sectors \ {x} : fight'[y] = fight[y]
  <2>1. fight'[x] = f /\ \A y \in Sectors \ {x} : fight'[y] = fight[y]
    BY <1>1 DEF Inv, TypeOK
  <2>2. fight[x] \in FightStates(DOMAIN fight[x].crew)
    BY DEF Inv, TypeOK
  <2>. QED
    BY <2>1, <2>2 DEF FightStates
<1>3. place'[s] = x /\ \A t \in Ships \ {s} : place'[t] = place[t]
  BY <1>1 DEF Inv, TypeOK
<1>4. \A y \in Sectors : DOMAIN fight[y].crew \subseteq Ships
  BY DEF Inv, TypeOK
<1>5. ASSUME NEW y \in Sectors
      PROVE  /\ ~fight'[y].on => fight'[y].guard = {} /\ DOMAIN fight'[y].crew = {}
             /\ \A t \in DOMAIN fight'[y].crew : place'[t] = y
  <2>1. CASE y = x
    <3>1. DOMAIN crew = DOMAIN fight[x].crew \cup new
      OBVIOUS
    <3>. HIDE DEF crew
    <3>. QED
      BY <1>1, <1>2, <1>3, <1>4, <2>1, <3>1 DEF Ledger, Crews
  <2>2. CASE y # x
    BY <1>1, <1>2, <1>3, <1>4, <2>2 DEF Ledger, Crews
  <2>. QED
    BY <2>1, <2>2
<1>6. Crews'
  BY <1>5 DEF Crews
<1>7. Copies'
  <2>. SUFFICES ASSUME "fight" \notin crossed, NEW y \in Sectors PROVE Copied(y)'
    BY <1>1 DEF Copies
  <2>1. Copied(y)
    BY DEF Ledger, Copies
  <2>2. CASE y = x
    <3>1. \A t \in DOMAIN crew : crew[t] = bays[t]
      BY <2>1, <2>2 DEF Copied
    <3>. HIDE DEF crew
    <3>. QED
      BY <1>1, <1>2, <2>1, <2>2, <3>1 DEF Copied
  <2>3. CASE y # x
    BY <1>1, <1>2, <2>1, <2>3 DEF Copied
  <2>. QED
    BY <2>2, <2>3
<1>. QED
  BY <1>1, <1>6, <1>7, QuietFight

\* A running fight that goes on with the same ships.
LEMMA CrewsKept ==
  ASSUME Ledger, NEW x \in Sectors, fight[x].on, fight'[x].on = fight[x].on,
         DOMAIN fight'[x].crew = DOMAIN fight[x].crew,
         \A y \in Sectors \ {x} : fight'[y] = fight[y], place' = place
  PROVE  Crews'
<1>. SUFFICES ASSUME NEW y \in Sectors
              PROVE  /\ ~fight'[y].on => fight'[y].guard = {} /\ DOMAIN fight'[y].crew = {}
                     /\ \A s \in DOMAIN fight'[y].crew : place'[s] = y
  BY DEF Crews
<1>1. \A s \in DOMAIN fight[y].crew : place[s] = y
  BY DEF Ledger, Crews
<1>2. CASE y = x
  BY <1>1, <1>2
<1>3. CASE y # x
  BY <1>3 DEF Ledger, Crews
<1>. QED
  BY <1>2, <1>3

\* A fight whose copies are good has the one garrison of its sector.
LEMMA GuardIsThere ==
  ASSUME Inv, Ledger, NEW x \in Sectors, NEW g \in fight[x].guard, "fight" \notin crossed
  PROVE  \E r \in GarrisonRow : gar[x] = {r} /\ SameRow(r, g)
  BY DEF Inv, TypeOK, Safe, OneGarrison, Ledger, Copies, Copied

\* Two fights have no ship in common.
LEMMA CrewsApart ==
  ASSUME Ledger, NEW x \in Sectors, NEW y \in Sectors \ {x}, NEW s \in DOMAIN fight[x].crew
  PROVE  s \notin DOMAIN fight[y].crew
  BY DEF Ledger, Crews

\* The balance in some of a sector's rows.
LEMMA SomePurse ==
  ASSUME Inv, NEW x \in Sectors, NEW rows \in SUBSET gar[x]
  PROVE  /\ Total([r \in gar[x] |-> r.toll], rows) = Purse(rows)
         /\ Purse(rows) \in Int
<1>1. gar[x] \subseteq GarrisonRow /\ \A a, b \in gar[x] : a = b
  BY DEF Inv, TypeOK, Safe, OneGarrison
<1>2. IsFiniteSet(rows)
  <2>1. CASE rows = {}
    BY <2>1, FS_EmptySet
  <2>2. CASE rows # {}
    <3>1. PICK r \in rows : rows = {r}
      BY <1>1, <2>2
    <3>. QED
      BY <3>1, FS_Singleton
  <2>. QED
    BY <2>1, <2>2
<1>. DEFINE f == [r \in gar[x] |-> r.toll]
            g == [r \in rows |-> r.toll]
<1>3. \A r \in rows : f[r] = g[r]
  OBVIOUS
<1>. HIDE DEF f, g
<1>4. SumFunctionOnSet(f, rows) = SumFunctionOnSet(g, rows)
  BY <1>2, <1>3, SumOfSame
<1>5. Total(f, rows) = Purse(rows)
  BY <1>4 DEF Purse, Total, g
<1>. QED
  BY <1>1, <1>5, RowsCount DEF f

\* One fighter of a garrison is shot.
LEMMA BooksShootGarrison ==
  ASSUME Inv, Inv', Ledger, NEW x \in Sectors, ShootGarrison(x)
  PROVE  Ledger'
<1>1. PICK g \in fight[x].guard :
        LET hit == [g EXCEPT !.fighters = @ - 1] IN
        /\ Round(x, {hit}, fight[x].crew)
        /\ tolls' = [tolls EXCEPT !.gone =
             @ + IF hit.fighters = 0
                 THEN Total([r \in gar[x] |-> r.toll], {r \in gar[x] : r.owner = g.owner})
                 ELSE 0]
  BY DEF ShootGarrison
<1>. DEFINE hit == [g EXCEPT !.fighters = @ - 1]
            crew == fight[x].crew
            doomed == {r \in gar[x] : r.owner = g.owner}
            due == IF hit.fighters = 0 THEN Purse(doomed) ELSE 0
            rows == Persisted(gar[x], hit)
<1>2. fight[x].on /\ UNCHANGED <<fielded, place, jobs, crossed>>
  BY DEF ShootGarrison
<1>3. /\ gar' = [gar EXCEPT ![x] = rows]
      /\ bays' = [s \in Ships |-> IF s \in DOMAIN crew THEN crew[s] ELSE bays[s]]
      /\ fight' = [fight EXCEPT ![x].guard = {h \in {hit} : h.fighters > 0}, ![x].crew = crew]
      /\ lost' = lost + 1
  BY <1>1 DEF Round
<1>4. /\ g \in GarrisonRow /\ fight[x] \in FightStates(DOMAIN crew) /\ DOMAIN crew \subseteq Ships
  BY DEF Inv, TypeOK, FightStates
<1>5. /\ hit.fighters = g.fighters - 1 /\ hit.owner = g.owner /\ hit.toll = g.toll
      /\ g.fighters \in Int /\ g.fighters > 0
  BY <1>4, NumbersAssumption DEF GarrisonRow
<1>6. Purse(doomed) \in Int /\ tolls' = [tolls EXCEPT !.gone = @ + due]
  BY <1>1, SomePurse
<1>7. /\ fight'[x].guard = {h \in {hit} : h.fighters > 0} /\ fight'[x].crew = crew
      /\ fight'[x].on = fight[x].on
      /\ \A y \in Sectors \ {x} : fight'[y] = fight[y]
  <2>. DEFINE guard == {h \in {hit} : h.fighters > 0}
              f == [fight[x] EXCEPT !.guard = guard, !.crew = crew]
  <2>1. fight' = [fight EXCEPT ![x] = f]
    <3>1. fight' = [fight EXCEPT ![x].guard = guard, ![x].crew = crew]
      BY <1>3
    <3>. HIDE DEF guard, crew
    <3>. QED
      BY <3>1, <1>4 DEF Inv, TypeOK, FightStates
  <2>2. f.guard = guard /\ f.crew = crew /\ f.on = fight[x].on
    BY <1>4 DEF FightStates
  <2>. HIDE DEF f
  <2>. QED
    BY <2>1, <2>2 DEF Inv, TypeOK
<1>. HIDE DEF hit
<1>8. Crews'
  BY <1>2, <1>7, CrewsKept
<1>9. due \in Int /\ lost \in Int /\ tolls \in [paid : Int, out : Int, gone : Int]
  BY <1>6 DEF Ledger, Counts
<1>. HIDE DEF due, doomed
<1>10. /\ tolls' \in [paid : Int, out : Int, gone : Int]
       /\ tolls'.paid = tolls.paid /\ tolls'.out = tolls.out /\ tolls'.gone = tolls.gone + due
  BY <1>6, <1>9
<1>11. Counts'
  BY <1>2, <1>3, <1>9, <1>10 DEF Ledger, Counts
<1>12. ASSUME "fight" \notin crossed
       PROVE  /\ \A s \in Ships : bays'[s] = bays[s]
              /\ bays' = bays
  BY <1>3, <1>12 DEF Ledger, Copies, Copied, Inv, TypeOK
<1>13. Copies'
  <2>. SUFFICES ASSUME "fight" \notin crossed, NEW y \in Sectors PROVE Copied(y)'
    BY <1>2 DEF Copies
  <2>1. Copied(y) /\ bays' = bays
    BY <1>12 DEF Ledger, Copies
  <2>2. CASE y = x
    <3>1. PICK r \in GarrisonRow : gar[x] = {r} /\ SameRow(r, g)
      BY GuardIsThere
    <3>2. ASSUME hit.fighters > 0
          PROVE  \E d \in gar'[x] : SameRow(d, hit)
      <4>. DEFINE d == [r EXCEPT !.fighters = hit.fighters]
      <4>1. gar'[x] = {d}
        <5>1. rows = {d}
          BY <1>5, <3>1, <3>2 DEF Persisted, SameRow
        <5>. HIDE DEF rows, d
        <5>. QED
          BY <1>3, <5>1 DEF Inv, TypeOK
      <4>2. SameRow(d, hit)
        BY <1>5, <3>1 DEF SameRow, GarrisonRow
      <4>. QED
        BY <4>1, <4>2
    <3>. QED
      BY <1>7, <2>1, <2>2, <3>2 DEF Copied
  <2>3. CASE y # x
    BY <1>3, <1>7, <2>1, <2>3 DEF Copied, Inv, TypeOK
  <2>. QED
    BY <2>2, <2>3
<1>14. ASSUME "fight" \notin crossed
       PROVE  /\ AllBays' + AllFighters' + lost' = AllBays + AllFighters + lost
              /\ tolls'.paid - tolls'.out - tolls'.gone - AllPurse'
                   = tolls.paid - tolls.out - tolls.gone - AllPurse
  <2>1. PICK r \in GarrisonRow : gar[x] = {r} /\ SameRow(r, g)
    BY <1>14, GuardIsThere
  <2>2. Fighters(gar[x]) = r.fighters /\ Purse(gar[x]) = r.toll /\ doomed = {r}
    BY <2>1, OneRow DEF SameRow, doomed
  <2>3. Fighters(rows) = r.fighters - 1 /\ Purse(rows) + due = r.toll
    <3>1. r.toll \in Int /\ r.fighters = g.fighters /\ r.owner = g.owner
      BY <2>1 DEF SameRow, GarrisonRow
    <3>2. CASE hit.fighters > 0
      <4>. DEFINE d == [r EXCEPT !.fighters = hit.fighters]
      <4>1. rows = {d}
        BY <1>5, <2>1, <3>1, <3>2 DEF Persisted
      <4>2. hit.fighters \in 1..MaxGarrison
        BY <1>4, <1>5, <3>2, NumbersAssumption DEF GarrisonRow
      <4>3. d \in GarrisonRow /\ d.fighters = hit.fighters /\ d.toll = r.toll
        BY <4>2, <2>1 DEF GarrisonRow
      <4>4. due = 0
        BY <3>2, <4>2 DEF due
      <4>. HIDE DEF d, rows
      <4>5. Fighters(rows) = hit.fighters /\ Purse(rows) = r.toll
        BY <4>1, <4>3, OneRow
      <4>. QED
        BY <1>5, <3>1, <4>4, <4>5
    <3>3. CASE hit.fighters = 0
      <4>1. rows = {}
        BY <1>5, <2>1, <3>1, <3>3 DEF Persisted
      <4>2. due = r.toll
        BY <2>1, <2>2, <3>3, OneRow DEF due
      <4>. HIDE DEF rows
      <4>. QED
        BY <1>5, <3>1, <3>3, <4>1, <4>2, NoRow
    <3>. QED
      BY <1>5, <3>2, <3>3
  <2>. HIDE DEF rows
  <2>4. /\ AllFighters' = AllFighters - Fighters(gar[x]) + Fighters(rows)
        /\ AllPurse' = AllPurse - Purse(gar[x]) + Purse(rows)
        /\ Fighters(gar[x]) \in Int /\ Fighters(rows) \in Int
        /\ Purse(gar[x]) \in Int /\ Purse(rows) \in Int
    BY <1>3, RowsWritten
  <2>5. AllBays' = AllBays
    BY <1>12, <1>14 DEF AllBays
  <2>6. AllBays \in Int /\ AllFighters \in Int /\ AllPurse \in Int
    BY Figures DEF Ledger
  <2>7. AllBays' + AllFighters' + lost' = AllBays + AllFighters + lost
    BY <1>3, <1>9, <2>2, <2>3, <2>4, <2>5, <2>6
  <2>8. tolls'.paid - tolls'.out - tolls'.gone - AllPurse'
          = tolls.paid - tolls.out - tolls.gone - AllPurse
    BY <1>9, <1>10, <2>2, <2>3, <2>4, <2>6
  <2>. QED
    BY <2>7, <2>8
<1>. QED
  BY <1>2, <1>8, <1>11, <1>13, <1>14, FightKeepsBooks

\* One fighter of a ship is shot.
LEMMA BooksShootShip ==
  ASSUME Inv, Inv', Ledger, NEW x \in Sectors, ShootShip(x)
  PROVE  Ledger'
<1>. DEFINE D == DOMAIN fight[x].crew
<1>1. PICK s \in D :
        LET crew == [fight[x].crew EXCEPT ![s] = @ - 1] IN
        /\ crew[s] >= 0
        /\ IF fight[x].guard # {} THEN Round(x, fight[x].guard, crew)
           ELSE /\ \A t \in DOMAIN crew : ~ShipLocked(t)
                /\ bays' = [t \in Ships |-> IF t \in DOMAIN crew THEN crew[t] ELSE bays[t]]
                /\ fight' = [fight EXCEPT ![x].crew = crew]
                /\ lost' = lost + 1 /\ UNCHANGED gar
  BY DEF ShootShip
<1>. DEFINE crew == [fight[x].crew EXCEPT ![s] = @ - 1]
<1>2. fight[x].on /\ UNCHANGED <<fielded, place, jobs, tolls, crossed>>
  BY DEF ShootShip
<1>3. fight[x] \in FightStates(D) /\ D \subseteq Ships /\ x \in DOMAIN fight
  BY DEF Inv, TypeOK
<1>4. /\ DOMAIN crew = D /\ crew[s] = fight[x].crew[s] - 1
      /\ \A t \in D \ {s} : crew[t] = fight[x].crew[t]
  BY <1>3 DEF FightStates
<1>5. \A g \in fight[x].guard : g \in GarrisonRow /\ g.fighters > 0
  BY <1>3, NumbersAssumption DEF FightStates, GarrisonRow
<1>6. /\ bays' = [t \in Ships |-> IF t \in D THEN crew[t] ELSE bays[t]]
      /\ fight'[x].guard = fight[x].guard /\ fight'[x].crew = crew
      /\ fight'[x].on = fight[x].on
      /\ \A y \in Sectors \ {x} : fight'[y] = fight[y]
      /\ lost' = lost + 1
      /\ gar' = gar \/ \E g \in fight[x].guard : gar' = [gar EXCEPT ![x] = Persisted(gar[x], g)]
  <2>1. CASE fight[x].guard # {}
    <3>1. Round(x, fight[x].guard, crew)
      BY <1>1, <2>1
    <3>. HIDE DEF crew
    <3>2. fight' = [fight EXCEPT ![x].guard = {g \in fight[x].guard : g.fighters > 0},
                                 ![x].crew = crew]
      BY <3>1 DEF Round
    <3>3. {g \in fight[x].guard : g.fighters > 0} = fight[x].guard
      BY <1>5
    <3>4. /\ fight'[x].guard = fight[x].guard /\ fight'[x].crew = crew
          /\ fight'[x].on = fight[x].on
          /\ \A y \in Sectors \ {x} : fight'[y] = fight[y]
      <4>. DEFINE f == [fight[x] EXCEPT !.guard = {g \in fight[x].guard : g.fighters > 0},
                                        !.crew = crew]
      <4>1. fight' = [fight EXCEPT ![x] = f]
        BY <1>3, <3>2 DEF Inv, TypeOK, FightStates
      <4>2. f.guard = fight[x].guard /\ f.crew = crew /\ f.on = fight[x].on
        BY <1>3, <3>3 DEF FightStates
      <4>. HIDE DEF f
      <4>. QED
        BY <1>3, <4>1, <4>2
    <3>5. /\ bays' = [t \in Ships |-> IF t \in DOMAIN crew THEN crew[t] ELSE bays[t]]
          /\ lost' = lost + 1
          /\ \E g \in fight[x].guard : gar' = [gar EXCEPT ![x] = Persisted(gar[x], g)]
      BY <3>1 DEF Round
    <3>. QED
      BY <1>4, <3>4, <3>5
  <2>2. CASE fight[x].guard = {}
    <3>1. /\ bays' = [t \in Ships |-> IF t \in DOMAIN crew THEN crew[t] ELSE bays[t]]
          /\ fight' = [fight EXCEPT ![x].crew = crew]
          /\ lost' = lost + 1 /\ gar' = gar
      BY <1>1, <2>2
    <3>. HIDE DEF crew
    <3>. QED
      BY <1>3, <1>4, <3>1 DEF FightStates
  <2>. QED
    BY <2>1, <2>2
<1>. HIDE DEF crew
<1>7. Crews'
  BY <1>2, <1>4, <1>6, CrewsKept
<1>8. Counts'
  BY <1>2, <1>6 DEF Ledger, Counts
<1>9. ASSUME "fight" \notin crossed
      PROVE  gar' = gar
  <2>1. SUFFICES ASSUME NEW g \in fight[x].guard, gar' = [gar EXCEPT ![x] = Persisted(gar[x], g)]
                 PROVE  gar' = gar
    BY <1>6
  <2>2. PICK r \in GarrisonRow : gar[x] = {r} /\ SameRow(r, g)
    BY <1>9, GuardIsThere
  <2>3. [r EXCEPT !.fighters = g.fighters] = r
    BY <2>2 DEF SameRow, GarrisonRow
  <2>4. Persisted(gar[x], g) = {r}
    BY <1>5, <2>2, <2>3 DEF Persisted, SameRow
  <2>. QED
    BY <2>1, <2>2, <2>4 DEF Inv, TypeOK
<1>10. ASSUME "fight" \notin crossed
       PROVE  bays' = [bays EXCEPT ![s] = bays[s] - 1]
  <2>1. \A t \in D : fight[x].crew[t] = bays[t]
    BY <1>10 DEF Ledger, Copies, Copied
  <2>2. /\ bays \in [Ships -> Nat] /\ s \in Ships
    BY <1>3 DEF Inv, TypeOK
  <2>3. /\ bays' = [t \in Ships |-> IF t \in D THEN crew[t] ELSE bays[t]]
        /\ \A t \in D \ {s} : crew[t] = bays[t]
        /\ crew[s] = bays[s] - 1
    BY <1>4, <1>6, <2>1
  <2>. HIDE DEF D
  <2>4. \A t \in Ships : bays'[t] = [bays EXCEPT ![s] = bays[s] - 1][t]
    BY <2>2, <2>3
  <2>. QED
    BY <2>2, <2>3, <2>4
<1>11. Copies'
  <2>. SUFFICES ASSUME "fight" \notin crossed, NEW y \in Sectors PROVE Copied(y)'
    BY <1>2 DEF Copies
  <2>1. Copied(y) /\ gar' = gar
    BY <1>9 DEF Ledger, Copies
  <2>2. CASE y = x
    BY <1>3, <1>4, <1>6, <2>1, <2>2 DEF Copied
  <2>3. CASE y # x
    <3>1. /\ s \notin DOMAIN fight[y].crew /\ DOMAIN fight[y].crew \subseteq Ships
          /\ fight'[y] = fight[y]
      BY <1>6, <2>3, CrewsApart DEF Inv, TypeOK
    <3>2. \A t \in DOMAIN fight[y].crew : bays'[t] = bays[t]
      BY <1>10, <3>1 DEF Inv, TypeOK
    <3>. QED
      BY <2>1, <3>1, <3>2 DEF Copied
  <2>. QED
    BY <2>2, <2>3
<1>12. ASSUME "fight" \notin crossed
       PROVE  /\ AllBays' + AllFighters' + lost' = AllBays + AllFighters + lost
              /\ AllPurse' = AllPurse
  <2>1. AllFighters' = AllFighters /\ AllPurse' = AllPurse
    BY <1>9, <1>12, NoRowsWritten
  <2>2. s \in Ships /\ bays[s] \in Int /\ bays[s] - 1 \in Int
    BY <1>3 DEF Inv, TypeOK
  <2>3. AllBays' = AllBays - bays[s] + (bays[s] - 1)
    BY <1>10, <1>12, <2>2, BayWritten
  <2>4. AllBays \in Int /\ AllFighters \in Int /\ lost \in Int
    BY Figures DEF Ledger, Counts
  <2>. QED
    BY <1>6, <2>1, <2>2, <2>3, <2>4
<1>. QED
  BY <1>2, <1>7, <1>8, <1>11, <1>12, FightKeepsBooks

\* A toll is paid into the balance.
LEMMA BooksPayToll ==
  ASSUME Inv, Inv', Ledger, NEW x \in Sectors, NEW s \in Ships, PayToll(x, s)
  PROVE  Ledger'
<1>1. PICK g \in fight[x].guard :
        LET due == [g EXCEPT !.toll = @ + 1] IN
        /\ gar' = [gar EXCEPT ![x] =
             {IF r.owner = g.owner THEN [r EXCEPT !.toll = due.toll] ELSE r : r \in @}]
        /\ fight' = [fight EXCEPT ![x].guard = {due}, ![x].paid = @ \cup {s}]
  BY DEF PayToll
<1>. DEFINE due == [g EXCEPT !.toll = @ + 1]
            rows == {IF r.owner = g.owner THEN [r EXCEPT !.toll = due.toll] ELSE r : r \in gar[x]}
<1>2. /\ tolls' = [tolls EXCEPT !.paid = @ + 1]
      /\ fight[x].on /\ UNCHANGED <<fielded, bays, place, jobs, lost, crossed>>
  BY DEF PayToll
<1>3. g \in GarrisonRow /\ fight[x] \in FightStates(DOMAIN fight[x].crew)
  BY DEF Inv, TypeOK, FightStates
<1>4. /\ due.owner = g.owner /\ due.fighters = g.fighters /\ due.toll = g.toll + 1
      /\ g.toll \in Nat
  BY <1>3 DEF GarrisonRow
<1>5. gar' = [gar EXCEPT ![x] = rows]
  BY <1>1
<1>6. /\ fight'[x].guard = {due} /\ fight'[x].crew = fight[x].crew
      /\ fight'[x].on = fight[x].on
      /\ \A y \in Sectors \ {x} : fight'[y] = fight[y]
  <2>. DEFINE f == [fight[x] EXCEPT !.guard = {due}, !.paid = fight[x].paid \cup {s}]
  <2>1. fight' = [fight EXCEPT ![x].guard = {due}, ![x].paid = fight[x].paid \cup {s}]
    BY <1>1
  <2>. HIDE DEF due
  <2>2. fight' = [fight EXCEPT ![x] = f]
    BY <2>1, <1>3 DEF Inv, TypeOK, FightStates
  <2>3. f.guard = {due} /\ f.crew = fight[x].crew /\ f.on = fight[x].on
    BY <1>3 DEF FightStates
  <2>. HIDE DEF f
  <2>. QED
    BY <2>2, <2>3 DEF Inv, TypeOK
<1>. HIDE DEF due
<1>7. Crews'
  BY <1>2, <1>6, CrewsKept
<1>8. tolls \in [paid : Int, out : Int, gone : Int] /\ lost \in Int
  BY DEF Ledger, Counts
<1>9. /\ tolls' \in [paid : Int, out : Int, gone : Int]
      /\ tolls'.paid = tolls.paid + 1 /\ tolls'.out = tolls.out /\ tolls'.gone = tolls.gone
  BY <1>2, <1>8
<1>10. Counts'
  BY <1>2, <1>9 DEF Ledger, Counts
<1>11. ASSUME "fight" \notin crossed
       PROVE  \E r, d \in GarrisonRow :
                /\ gar[x] = {r} /\ rows = {d} /\ SameRow(d, due)
                /\ d.fighters = r.fighters /\ d.toll = r.toll + 1
  <2>1. PICK r \in GarrisonRow : gar[x] = {r} /\ SameRow(r, g)
    BY <1>11, GuardIsThere
  <2>. DEFINE d == [r EXCEPT !.toll = due.toll]
  <2>2. rows = {d}
    BY <2>1 DEF SameRow
  <2>3. /\ d \in GarrisonRow /\ SameRow(d, due)
        /\ d.fighters = r.fighters /\ d.toll = r.toll + 1
    BY <1>4, <2>1 DEF SameRow, GarrisonRow
  <2>. HIDE DEF d, rows
  <2>. QED
    BY <2>1, <2>2, <2>3
<1>. HIDE DEF rows
<1>12. Copies'
  <2>. SUFFICES ASSUME "fight" \notin crossed, NEW y \in Sectors PROVE Copied(y)'
    BY <1>2 DEF Copies
  <2>1. Copied(y)
    BY DEF Ledger, Copies
  <2>2. CASE y = x
    <3>1. \E d \in gar'[x] : SameRow(d, due)
      BY <1>5, <1>11 DEF Inv, TypeOK
    <3>. QED
      BY <1>2, <1>6, <2>1, <2>2, <3>1 DEF Copied
  <2>3. CASE y # x
    BY <1>2, <1>5, <1>6, <2>1, <2>3 DEF Copied, Inv, TypeOK
  <2>. QED
    BY <2>2, <2>3
<1>13. ASSUME "fight" \notin crossed
       PROVE  /\ AllBays' + AllFighters' + lost' = AllBays + AllFighters + lost
              /\ AllPurse' = AllPurse + 1
  <2>1. PICK r \in GarrisonRow, d \in GarrisonRow :
          /\ gar[x] = {r} /\ rows = {d}
          /\ d.fighters = r.fighters /\ d.toll = r.toll + 1
    BY <1>11, <1>13
  <2>2. /\ Fighters(gar[x]) = r.fighters /\ Fighters(rows) = r.fighters
        /\ Purse(gar[x]) = r.toll /\ Purse(rows) = r.toll + 1
    BY <2>1, OneRow
  <2>3. /\ AllFighters' = AllFighters - Fighters(gar[x]) + Fighters(rows)
        /\ AllPurse' = AllPurse - Purse(gar[x]) + Purse(rows)
        /\ Fighters(gar[x]) \in Int /\ Purse(gar[x]) \in Int
    BY <1>5, RowsWritten
  <2>4. AllBays' = AllBays
    BY <1>2 DEF AllBays
  <2>5. AllBays \in Int /\ AllFighters \in Int /\ AllPurse \in Int
    BY Figures DEF Ledger
  <2>. QED
    BY <1>2, <1>8, <2>2, <2>3, <2>4, <2>5
<1>14. ASSUME "fight" \notin crossed
       PROVE  tolls'.paid - tolls'.out - tolls'.gone - AllPurse'
                = tolls.paid - tolls.out - tolls.gone - AllPurse
  <2>1. AllPurse \in Int
    BY Figures DEF Ledger
  <2>. QED
    BY <1>8, <1>9, <1>13, <1>14, <2>1
<1>. QED
  BY <1>2, <1>7, <1>10, <1>12, <1>13, <1>14, FightKeepsBooks

-----------------------------------------------------------------------------
LEMMA LedgerStarts ==
  ASSUME Init
  PROVE  Ledger
<1>. USE DEF Init
<1>1. Inv
  BY StartsWell
<1>2. /\ \A x \in Sectors : ~fight[x].on /\ fight[x].guard = {} /\ DOMAIN fight[x].crew = {}
      /\ \A j \in Jobs : jobs[j] = Resting
      /\ \A x \in Sectors : gar[x] = Standing[x]
  BY DEF NoFight
<1>3. Crews /\ Copies /\ Readings
  BY <1>2, RestingOwesNothing DEF Crews, Copies, Copied, Readings
<1>4. AllBays \in Int /\ AllFighters \in Int /\ AllPurse \in Int
  BY <1>1, <1>3, Figures
<1>5. AllBays = Cardinality(Ships) * Opening
  <2>. DEFINE f == bays
  <2>1. (\A s \in Ships : f[s] = Opening) /\ Opening \in Int
    BY NumbersAssumption
  <2>2. AllBays = SumFunctionOnSet(f, Ships)
    BY DEF AllBays, Total
  <2>. HIDE DEF f
  <2>3. SumFunctionOnSet(f, Ships) = Cardinality(Ships) * Opening
    BY <2>1, StartAssumption, SumOfConstant
  <2>. QED
    BY <2>2, <2>3
<1>6. AllDue = 0
  <2>. DEFINE f == [j \in Jobs |-> Due(jobs[j])]
  <2>1. \A j \in Jobs : f[j] = 0
    BY <1>2, RestingOwesNothing
  <2>2. AllDue = SumFunctionOnSet(f, Jobs)
    BY DEF AllDue, Total
  <2>. HIDE DEF f
  <2>3. SumFunctionOnSet(f, Jobs) = Cardinality(Jobs) * 0 /\ Cardinality(Jobs) \in Nat
    BY <2>1, StartAssumption, SumOfConstant, FS_CardinalityType
  <2>. QED
    BY <2>2, <2>3
<1>7. fielded = Cardinality(Ships) * Opening + AllFighters /\ tolls.paid = AllPurse
  BY DEF AllFighters, AllPurse
<1>8. Counts
  <2>1. tolls = [paid |-> AllPurse, out |-> 0, gone |-> 0]
    BY DEF AllPurse
  <2>. QED
    BY <1>4, <1>5, <1>7, <2>1 DEF Counts
<1>9. FighterBooks /\ TollBooks
  BY <1>4, <1>5, <1>6, <1>7 DEF FighterBooks, TollBooks
<1>. QED
  BY <1>3, <1>8, <1>9 DEF Ledger

LEMMA LedgerKeeps ==
  ASSUME Inv, Inv', Ledger, [Next]_vars
  PROVE  Ledger'
<1>1. CASE \E j \in Jobs : Requests(j) \/ JobStep(j) \/ Kill(j)
  BY <1>1, BooksJobs
<1>2. CASE \E x \in Sectors :
             \/ StartFight(x) \/ ShootGarrison(x) \/ ShootShip(x) \/ EndFight(x)
             \/ \E s \in Ships : PayToll(x, s) \/ Move(s, x)
  BY <1>2, BooksStartFight, BooksShootGarrison, BooksShootShip, BooksEndFight, BooksPayToll,
     BooksMove
<1>3. CASE UNCHANGED vars
  <2>1. Crews' /\ Copies'
    BY <1>3 DEF vars, Ledger, Crews, Copies, Copied
  <2>. QED
    BY <1>3, <2>1, QuietFight DEF vars
<1>. QED
  BY <1>1, <1>2, <1>3 DEF Next

LEMMA LedgerInvariant == Spec => [](Inv /\ Ledger)
<1>1. Init => Inv /\ Ledger
  BY StartsWell, LedgerStarts
<1>2. Inv /\ Ledger /\ [Next]_vars => Inv' /\ Ledger'
  BY Keeps, LedgerKeeps
<1>. QED
  BY <1>1, <1>2, PTL DEF Spec

\* Fighters move between ships and garrisons and are neither made nor lost but
\* by shots and disbanding, whatever requests overlap and whichever of them
\* are killed, as long as nobody moves fighters that a running fight has its
\* own count of (runLeaveFightersTransaction, runCollectFightersTransaction,
\* persistRoundOutcomeToCanonicalTables).
THEOREM FightersAreAccounted == Spec => []FightersAccounted
<1>1. Ledger => FightersAccounted
  BY DEF Ledger, FighterBooks, FightersAccounted, AllBays, AllFighters
<1>. QED
  BY <1>1, LedgerInvariant, PTL

\* A toll that was paid is in a balance, paid out once, or gone with its
\* garrison, unless a disband was overtaken or a fight had its own copy: while
\* a disband has paid out and not yet deleted, the balance it read is due.
THEOREM TollsAreAccounted == Spec => []TollsAccounted
<1>1. Inv /\ Ledger => TollsAccounted
  <2>. SUFFICES ASSUME Inv, Ledger, crossed = {}, \A j \in Jobs : jobs[j].step # "delete"
                PROVE  tolls.paid = tolls.out + tolls.gone
                                    + Total([x \in Sectors |-> Balance(x)], Sectors)
    BY DEF TollsAccounted
  <2>. DEFINE f == [j \in Jobs |-> Due(jobs[j])]
  <2>1. (\A j \in Jobs : f[j] = 0) /\ AllDue = SumFunctionOnSet(f, Jobs)
    BY NotDue DEF AllDue, Total
  <2>. HIDE DEF f
  <2>2. SumFunctionOnSet(f, Jobs) = Cardinality(Jobs) * 0 /\ Cardinality(Jobs) \in Nat
    BY <2>1, StartAssumption, SumOfConstant, FS_CardinalityType
  <2>3. AllDue = 0
    BY <2>1, <2>2
  <2>4. tolls.paid = tolls.out + tolls.gone + AllPurse - AllDue
    BY DEF Ledger, TollBooks
  <2>5. AllPurse \in Int /\ tolls.out \in Int /\ tolls.gone \in Int
    BY Figures DEF Ledger, Counts
  <2>6. tolls.paid = tolls.out + tolls.gone + AllPurse
    BY <2>3, <2>4, <2>5
  <2>. QED
    BY <2>6 DEF AllPurse
<1>. QED
  BY <1>1, LedgerInvariant, PTL

-----------------------------------------------------------------------------
(* How a garrison grows.                                                   *)

\* A garrison whose every row is in place of one with as many fighters.
LEMMA NoGrowth ==
  ASSUME Inv, Inv', NEW x \in Sectors,
         \A q \in gar'[x] : \E r \in gar[x] : q.fighters <= r.fighters
  PROVE  ~(Stationed(x)' > Stationed(x))
<1>1. Stationed(x) = Fighters(gar[x]) /\ Stationed(x)' = Fighters(gar'[x])
  BY DEF Stationed, Fighters
<1>2. /\ gar[x] \subseteq GarrisonRow /\ \A a, b \in gar[x] : a = b
      /\ gar'[x] \subseteq GarrisonRow /\ \A a, b \in gar'[x] : a = b
  BY DEF Inv, TypeOK, Safe, OneGarrison
<1>3. CASE gar'[x] = {} /\ gar[x] = {}
  BY <1>1, <1>3, NoRow
<1>4. CASE gar'[x] = {} /\ gar[x] # {}
  <2>1. PICK r \in gar[x] : gar[x] = {r}
    BY <1>2, <1>4
  <2>2. r.fighters \in Nat
    BY <1>2, NumbersAssumption DEF GarrisonRow
  <2>3. Fighters(gar[x]) = r.fighters /\ Fighters(gar'[x]) = 0
    BY <1>2, <1>4, <2>1, OneRow, NoRow
  <2>. QED
    BY <1>1, <2>2, <2>3
<1>5. CASE gar'[x] # {}
  <2>1. PICK q \in gar'[x] : gar'[x] = {q}
    BY <1>2, <1>5
  <2>2. PICK r \in gar[x] : q.fighters <= r.fighters
    OBVIOUS
  <2>3. gar[x] = {r}
    BY <1>2
  <2>4. r.fighters \in Nat /\ q.fighters \in Nat
    BY <1>2, NumbersAssumption DEF GarrisonRow
  <2>5. Fighters(gar[x]) = r.fighters /\ Fighters(gar'[x]) = q.fighters
    BY <1>2, <2>1, <2>3, OneRow
  <2>. QED
    BY <1>1, <2>2, <2>4, <2>5
<1>. QED
  BY <1>3, <1>4, <1>5

LEMMA SameRowsNoGrowth ==
  ASSUME Inv, Inv', NEW x \in Sectors, gar'[x] = gar[x]
  PROVE  ~(Stationed(x)' > Stationed(x))
<1>1. \A q \in gar[x] : q.fighters <= q.fighters
  BY NumbersAssumption DEF Inv, TypeOK, GarrisonRow
<1>. QED
  BY <1>1, NoGrowth

\* Leaving takes the fighters from the ship, which is there.
LEMMA LeavesFromHere ==
  ASSUME Inv, Inv', NEW j \in Jobs, CommitLeave(j), NEW x \in Sectors,
         Stationed(x)' > Stationed(x)
  PROVE  \E s \in Ships : place[s] = x /\ bays'[s] < bays[s]
<1>1. /\ jobs[j] \in JobStates /\ jobs[j].kind = "leave" /\ jobs[j].step = "commit"
      /\ bays' = [bays EXCEPT ![jobs[j].ship] = bays[jobs[j].ship] - jobs[j].asked]
      /\ \A y \in Sectors \ {jobs[j].at} : gar'[y] = gar[y]
  BY DEF CommitLeave, Inv, TypeOK
<1>2. x = jobs[j].at
  BY <1>1, SameRowsNoGrowth
<1>3. jobs[j].asked \in 1..MaxGarrison /\ place[jobs[j].ship] = jobs[j].at
  BY <1>1 DEF Inv, Safe, Grants, Granted
<1>4. jobs[j].ship \in Ships /\ bays[jobs[j].ship] \in Nat
  BY <1>1 DEF JobStates, Inv, TypeOK
<1>5. bays'[jobs[j].ship] < bays[jobs[j].ship]
  <2>1. bays'[jobs[j].ship] = bays[jobs[j].ship] - jobs[j].asked
    BY <1>1, <1>4 DEF Inv, TypeOK
  <2>. QED
    BY <1>3, <1>4, <2>1, NumbersAssumption
<1>. QED
  BY <1>2, <1>3, <1>4, <1>5

\* Collecting, disbanding and another mode never add fighters.
LEMMA OthersNoGrowth ==
  ASSUME Inv, Inv', Ledger, NEW j \in Jobs, CommitCollect(j) \/ Delete(j) \/ SetMode(j),
         NEW x \in Sectors
  PROVE  ~(Stationed(x)' > Stationed(x))
<1>1. jobs[j] \in JobStates /\ jobs[j].at \in Sectors
  BY SMTT(30) DEF Inv, TypeOK, JobStates
<1>2. CASE x # jobs[j].at
  BY <1>1, <1>2, SameRowsNoGrowth DEF CommitCollect, Delete, SetMode, Inv, TypeOK
<1>3. CASE x = jobs[j].at
  <2>1. \A d \in gar[x] : d \in GarrisonRow /\ d.fighters <= d.fighters
    BY NumbersAssumption DEF Inv, TypeOK, GarrisonRow
  <2>2. CASE CommitCollect(j)
    <3>1. PICK r \in jobs[j].read : gar' = [gar EXCEPT ![x] = Remainder(r, Taken(jobs[j], r))]
      BY <1>3, <2>2 DEF CommitCollect
    <3>2. gar[x] = jobs[j].read /\ bays[jobs[j].ship] < Bay
      BY <1>3, <2>2 DEF CommitCollect, Inv, Safe, Grants, Granted, ReadsCurrent, HasRows
    <3>3. bays[jobs[j].ship] \in Nat /\ jobs[j].asked \in Nat
      BY <1>1 DEF Inv, TypeOK, JobStates
    <3>4. r \in gar[x] /\ r.fighters \in Nat /\ Taken(jobs[j], r) \in Nat
      BY <2>1, <3>1, <3>2, <3>3, NumbersAssumption DEF Taken, Smaller, GarrisonRow
    <3>. DEFINE n == Taken(jobs[j], r)
    <3>5. gar'[x] = Remainder(r, n)
      BY <3>1 DEF Inv, TypeOK
    <3>. HIDE DEF n
    <3>6. ASSUME NEW q \in Remainder(r, n) PROVE q.fighters <= r.fighters
      <4>1. q = [r EXCEPT !.fighters = @ - n, !.toll = 0] /\ r \in GarrisonRow
        BY <2>1, <3>4 DEF Remainder
      <4>2. q.fighters = r.fighters - n
        BY <4>1 DEF GarrisonRow
      <4>. QED
        BY <3>4, <4>2 DEF n
    <3>. QED
      BY <3>4, <3>5, <3>6, NoGrowth
  <2>3. CASE Delete(j)
    <3>1. gar'[x] \subseteq gar[x]
      BY <1>3, <2>3 DEF Delete, Inv, TypeOK
    <3>. QED
      BY <2>1, <3>1, NoGrowth
  <2>4. CASE SetMode(j)
    <3>1. PICK r \in jobs[j].read :
            gar' = [gar EXCEPT ![x] =
              {IF d.owner = r.owner THEN [d EXCEPT !.mode = jobs[j].mode] ELSE d : d \in gar[x]}]
      BY <1>3, <2>4 DEF SetMode
    <3>2. ASSUME NEW q \in gar'[x] PROVE \E d \in gar[x] : q.fighters <= d.fighters
      <4>1. PICK d \in gar[x] :
              q = IF d.owner = r.owner THEN [d EXCEPT !.mode = jobs[j].mode] ELSE d
        BY <3>1 DEF Inv, TypeOK
      <4>2. q.fighters = d.fighters
        BY <2>1, <4>1 DEF GarrisonRow
      <4>. QED
        BY <2>1, <4>2
    <3>. QED
      BY <3>2, NoGrowth
  <2>. QED
    BY <2>2, <2>3, <2>4
<1>. QED
  BY <1>2, <1>3

\* A round, and a toll, change the fight as well.
LEMMA RoundsShow ==
  ASSUME Inv, NEW x \in Sectors, NEW s \in Ships,
         ShootGarrison(x) \/ ShootShip(x) \/ PayToll(x, s)
  PROVE  gar' = gar \/ fight' # fight
<1>1. fight[x] \in FightStates(DOMAIN fight[x].crew) /\ x \in DOMAIN fight
  BY DEF Inv, TypeOK
<1>2. CASE ShootGarrison(x)
  <2>1. PICK g \in fight[x].guard :
          fight' = [fight EXCEPT ![x].guard = {h \in {[g EXCEPT !.fighters = @ - 1]} : h.fighters > 0},
                                 ![x].crew = fight[x].crew]
    BY <1>2 DEF ShootGarrison, Round
  <2>2. g \in GarrisonRow /\ g.fighters \in Int
    BY <1>1, NumbersAssumption DEF FightStates, GarrisonRow
  <2>3. [g EXCEPT !.fighters = @ - 1] # g
    BY <2>2 DEF GarrisonRow
  <2>4. g \notin fight'[x].guard
    BY <1>1, <2>1, <2>3 DEF FightStates
  <2>. QED
    BY <2>4
<1>3. CASE ShootShip(x)
  <2>1. PICK t \in DOMAIN fight[x].crew :
          LET crew == [fight[x].crew EXCEPT ![t] = @ - 1] IN
          IF fight[x].guard # {} THEN Round(x, fight[x].guard, crew)
          ELSE fight' = [fight EXCEPT ![x].crew = crew]
    BY <1>3 DEF ShootShip
  <2>. DEFINE crew == [fight[x].crew EXCEPT ![t] = @ - 1]
  <2>2. crew[t] # fight[x].crew[t]
    BY <1>1 DEF FightStates
  <2>3. CASE fight[x].guard # {}
    <3>1. Round(x, fight[x].guard, crew)
      BY <2>1, <2>3
    <3>. HIDE DEF crew
    <3>2. fight'[x].crew = crew
      BY <1>1, <3>1 DEF Round, FightStates
    <3>. QED
      BY <2>2, <3>2
  <2>4. CASE fight[x].guard = {}
    <3>1. fight' = [fight EXCEPT ![x].crew = crew]
      BY <2>1, <2>4
    <3>. HIDE DEF crew
    <3>2. fight'[x].crew = crew
      BY <1>1, <3>1 DEF FightStates
    <3>. QED
      BY <2>2, <3>2
  <2>. QED
    BY <2>3, <2>4
<1>4. CASE PayToll(x, s)
  <2>1. PICK g \in fight[x].guard :
          fight' = [fight EXCEPT ![x].guard = {[g EXCEPT !.toll = @ + 1]}, ![x].paid = @ \cup {s}]
    BY <1>4 DEF PayToll
  <2>2. g \in GarrisonRow /\ [g EXCEPT !.toll = @ + 1] # g
    BY <1>1 DEF FightStates, GarrisonRow
  <2>3. g \notin fight'[x].guard
    BY <1>1, <2>1, <2>2 DEF FightStates
  <2>. QED
    BY <2>3
<1>. QED
  BY <1>2, <1>3, <1>4

LEMMA GrowsOnTheSpot ==
  ASSUME Inv, Inv', Ledger, [Next]_vars, NEW x \in Sectors, fight' = fight,
         Stationed(x)' > Stationed(x)
  PROVE  \E s \in Ships : place[s] = x /\ bays'[s] < bays[s]
<1>1. gar' # gar
  BY SameRowsNoGrowth
<1>2. ASSUME NEW j \in Jobs, Requests(j) \/ JobStep(j) \/ Kill(j)
      PROVE  CommitLeave(j)
  <2>1. CommitLeave(j) \/ CommitCollect(j) \/ Delete(j) \/ SetMode(j)
    <3>1. CASE Requests(j)
      BY <1>1, <3>1, ZenonT(30) DEF Requests, Call
    <3>2. CASE Kill(j)
      BY <1>1, <3>2 DEF Kill
    <3>3. CASE JobStep(j)
      BY <1>1, <3>3 DEF JobStep, Begin, LeaveRows, LeaveShip, CollectShip, CollectRows,
         ReadGarrison, PayOut
    <3>. QED
      BY <1>2, <3>1, <3>2, <3>3
  <2>. QED
    BY <2>1, OthersNoGrowth
<1>3. ASSUME NEW y \in Sectors,
             \/ StartFight(y) \/ ShootGarrison(y) \/ ShootShip(y) \/ EndFight(y)
             \/ \E s \in Ships : PayToll(y, s) \/ Move(s, y)
      PROVE  FALSE
  <2>1. \/ ShootGarrison(y) \/ ShootShip(y) \/ \E s \in Ships : PayToll(y, s)
    BY <1>1, <1>3 DEF StartFight, EndFight, Move
  <2>. QED
    BY <1>1, <2>1, RoundsShow, StartAssumption
<1>4. ~UNCHANGED vars
  BY <1>1 DEF vars
<1>5. \E j \in Jobs : Requests(j) \/ JobStep(j) \/ Kill(j)
  BY <1>3, <1>4 DEF Next
<1>. QED
  BY <1>2, <1>5, LeavesFromHere

\* A garrison grows from a ship that is in its sector at that very moment,
\* though the ship may have left since the request was checked
\* (runLeaveFightersTransaction checks the sector again under its lock).
THEOREM DeploysOnTheSpot == Spec => DeployedOnTheSpot
<1>. DEFINE Spot == \A x \in Sectors :
                      fight' = fight /\ Stationed(x)' > Stationed(x)
                      => \E s \in Ships : place[s] = x /\ bays'[s] < bays[s]
<1>1. Inv /\ Inv' /\ Ledger /\ [Next]_vars => Spot
  BY GrowsOnTheSpot
<1>2. Inv /\ Ledger /\ (Inv /\ Ledger)' /\ [Next]_vars => [Spot]_vars
  BY <1>1
<1>. HIDE DEF Spot
<1>3. Spec => [][Spot]_vars
  BY <1>2, LedgerInvariant, PTL DEF Spec
<1>. QED
  BY <1>3 DEF Spot, DeployedOnTheSpot

-----------------------------------------------------------------------------
(***************************************************************************)
(* The sector's salvage.                                                   *)
(*                                                                         *)
(* What is inductive is FieldInv. However calls overlap, a ship is as its  *)
(* own call has read it (ShipsInHand). While one call at a time goes on,   *)
(* it has the list as it is, it alone has claimed a container (Single,     *)
(* ListsInHand), and what it has taken and not yet given makes up the      *)
(* balance of ships and list at each of its steps (Books).                 *)
(***************************************************************************)
\* Types: a container, the list by salvage_id, a ship's row, the steps of a
\* collection that has claimed its container.
Item == [units : Nat, credits : Nat, claimed : BOOLEAN]
Lists == UNION {[D -> Item] : D \in {E \in SUBSET Ids : IsFiniteSet(E)}}
Row == [cargo : Nat, credits : Nat]
Amount == [units : Nat, credits : Nat]
Taking == {"credits", "cargo", "reload", "settle"}
CallState == [step : {"idle", "unload", "append", "push", "claim"} \cup Taking,
              id : Ids \cup {NoId}, what : Item, ship : Row, list : Lists, left : Nat]

FieldTypeOK ==
  /\ salvage \in Lists /\ ships \in [Pilots -> Row] /\ calls \in [Callers -> CallState]
  /\ added \subseteq Ids /\ born \in Amount /\ lapsed \in Amount /\ kills \in Nat

\* Only its pilot's call writes a ship: however calls overlap, what the call has
\* read of it is still so when it is used, and what was room is room.
ShipInHand(p) ==
  LET x == calls[p] IN
  /\ ships[p].cargo <= Holds
  /\ x.step \in {"unload", "claim", "credits"} => x.ship = ships[p]
  /\ x.step = "cargo" => x.ship.cargo = ships[p].cargo
ShipsInHand == \A p \in Pilots : ShipInHand(p)

\* One call at a time, which has the list in hand, and the claim it made.
Single == \A c, d \in Callers : calls[c].step # "idle" /\ calls[d].step # "idle" => c = d

ListInHand(c) ==
  LET x == calls[c] IN
  /\ x.step \notin {"idle", "append", "push"} => c \in Pilots
  /\ x.step = "unload" => x.what.credits = 0 /\ x.what.units <= x.ship.cargo
  /\ x.step \in {"unload", "append", "push"} => ~x.what.claimed
  /\ x.step \in {"push", "claim", "settle"} => x.list = salvage
  /\ x.step = "claim" => x.id \in Unclaimed(salvage) /\ x.what = salvage[x.id]
  /\ x.step \in Taking => x.id \in DOMAIN salvage \ Unclaimed(salvage)
ListsInHand == DOMAIN salvage \subseteq added /\ \A c \in Callers : ListInHand(c)

\* What a call has taken and not yet given, or is to put back.
InHand(x) ==
  [units |-> IF x.step \in {"append", "push", "credits", "cargo"} THEN x.what.units
             ELSE IF x.step \in {"reload", "settle"} THEN x.left ELSE 0,
   credits |-> IF x.step \in {"append", "push", "credits"} THEN x.what.credits ELSE 0]

\* What may be collected, what ships carry, and the balance of both with what
\* is in hand: never more than came in, and as much if nobody was killed.
Stock(list) == Held(list, Unclaimed(list))
Carried ==
  [units |-> SumFunctionOnSet([p \in Pilots |-> ships[p].cargo], Pilots),
   credits |-> SumFunctionOnSet([p \in Pilots |-> ships[p].credits], Pilots)]
Balanced(h) ==
  LET units == Carried.units + Stock(salvage).units + h.units
      credits == Carried.credits + Stock(salvage).credits + h.credits
  IN
  /\ units <= Supply.units /\ credits <= Supply.credits
  /\ kills = 0 => units = Supply.units /\ credits = Supply.credits
\* The balance with the call that is under way, if there is one.
Books ==
  /\ AllIdle => Balanced([units |-> 0, credits |-> 0])
  /\ \A c \in Callers : calls[c].step # "idle" => Balanced(InHand(calls[c]))

FieldInv == FieldTypeOK /\ ShipsInHand /\ (OneAtATime => Single /\ ListsInHand /\ Books)

-----------------------------------------------------------------------------
(* The list.                                                               *)

LEMMA ListMade ==
  ASSUME NEW D \in SUBSET Ids, IsFiniteSet(D), NEW f \in [D -> Item]
  PROVE  f \in Lists
BY DEF Lists

LEMMA ListFacts ==
  ASSUME NEW L \in Lists
  PROVE  /\ DOMAIN L \subseteq Ids /\ IsFiniteSet(DOMAIN L) /\ L \in [DOMAIN L -> Item]
         /\ \A i \in DOMAIN L : L[i].units \in Nat /\ L[i].credits \in Nat /\ L[i].claimed \in BOOLEAN
         /\ Unclaimed(L) \subseteq DOMAIN L /\ IsFiniteSet(Unclaimed(L))
<1>1. PICK D \in SUBSET Ids : IsFiniteSet(D) /\ L \in [D -> Item]
  BY DEF Lists
<1>2. Unclaimed(L) \subseteq DOMAIN L
  BY DEF Unclaimed
<1>3. IsFiniteSet(Unclaimed(L))
  BY <1>1, <1>2, FS_Subset
<1>. QED
  BY <1>1, <1>2, <1>3 DEF Item

LEMMA WithoutFacts ==
  ASSUME NEW L \in Lists, NEW S
  PROVE  /\ Without(L, S) \in Lists /\ DOMAIN Without(L, S) = DOMAIN L \ S
         /\ \A i \in DOMAIN L \ S : Without(L, S)[i] = L[i]
<1>1. Without(L, S) = [i \in DOMAIN L \ S |-> L[i]]
  BY DEF Without, Restrict
<1>2. IsFiniteSet(DOMAIN L \ S) /\ DOMAIN L \ S \in SUBSET Ids
  BY ListFacts, FS_Subset
<1>3. Without(L, S) \in [DOMAIN L \ S -> Item]
  BY <1>1, ListFacts
<1>. QED
  BY <1>1, <1>2, <1>3, ListMade

LEMMA WithFacts ==
  ASSUME NEW L \in Lists, NEW i \in Ids, NEW c \in Item
  PROVE  /\ With(L, i, c) \in Lists /\ DOMAIN With(L, i, c) = DOMAIN L \cup {i}
         /\ With(L, i, c)[i] = c
         /\ \A j \in DOMAIN L \ {i} : With(L, i, c)[j] = L[j]
<1>1. IsFiniteSet(DOMAIN L \cup {i}) /\ DOMAIN L \cup {i} \in SUBSET Ids
  BY ListFacts, FS_AddElement
<1>2. With(L, i, c) \in [DOMAIN L \cup {i} -> Item]
  BY ListFacts DEF With
<1>. QED
  BY <1>1, <1>2, ListMade DEF With

LEMMA SetFacts ==
  ASSUME NEW L \in Lists, NEW i \in DOMAIN L, NEW c \in Item
  PROVE  [L EXCEPT ![i] = c] \in Lists
<1>1. [L EXCEPT ![i] = c] \in [DOMAIN L -> Item]
  BY ListFacts
<1>. QED
  BY <1>1, ListFacts, ListMade

LEMMA HeldFacts ==
  ASSUME NEW L \in Lists, NEW S \in SUBSET DOMAIN L
  PROVE  /\ Held(L, S) \in Amount
         /\ Held(L, S).units = SumFunctionOnSet([i \in DOMAIN L |-> L[i].units], S)
         /\ Held(L, S).credits = SumFunctionOnSet([i \in DOMAIN L |-> L[i].credits], S)
<1>1. IsFiniteSet(S) /\ \A i \in S : L[i].units \in Nat /\ L[i].credits \in Nat
  BY ListFacts, FS_Subset
<1>. DEFINE u == [i \in DOMAIN L |-> L[i].units]
            k == [i \in DOMAIN L |-> L[i].credits]
<1>2. \A i \in S : u[i] \in Nat /\ k[i] \in Nat
  BY <1>1
<1>. HIDE DEF u, k
<1>3. SumFunctionOnSet(u, S) \in Nat /\ SumFunctionOnSet(k, S) \in Nat
  BY <1>1, <1>2, SumIsNat
<1>. QED
  BY <1>3 DEF Held, Amount, u, k

LEMMA HeldOfSame ==
  ASSUME NEW L \in Lists, NEW M \in Lists, NEW S \in SUBSET (DOMAIN L \cap DOMAIN M),
         \A i \in S : L[i].units = M[i].units /\ L[i].credits = M[i].credits
  PROVE  Held(L, S) = Held(M, S)
<1>. DEFINE u == [i \in DOMAIN L |-> L[i].units]
            k == [i \in DOMAIN L |-> L[i].credits]
            v == [i \in DOMAIN M |-> M[i].units]
            m == [i \in DOMAIN M |-> M[i].credits]
<1>1. \A i \in S : u[i] = v[i] /\ k[i] = m[i]
  OBVIOUS
<1>2. IsFiniteSet(S)
  BY ListFacts, FS_Subset
<1>. HIDE DEF u, k, v, m
<1>3. SumFunctionOnSet(u, S) = SumFunctionOnSet(v, S) /\ SumFunctionOnSet(k, S) = SumFunctionOnSet(m, S)
  BY <1>1, <1>2, SumOfSame
<1>. QED
  BY <1>3 DEF Held, u, k, v, m

LEMMA HeldSplits ==
  ASSUME NEW L \in Lists, NEW S \in SUBSET DOMAIN L, NEW T \in SUBSET S
  PROVE  /\ Held(L, S).units = Held(L, T).units + Held(L, S \ T).units
         /\ Held(L, S).credits = Held(L, T).credits + Held(L, S \ T).credits
<1>. DEFINE u == [i \in DOMAIN L |-> L[i].units]
            k == [i \in DOMAIN L |-> L[i].credits]
<1>1. \A i \in S : u[i] \in Int /\ k[i] \in Int
  BY ListFacts
<1>2. IsFiniteSet(S)
  BY ListFacts, FS_Subset
<1>3. /\ Held(L, S).units = SumFunctionOnSet(u, S) /\ Held(L, S).credits = SumFunctionOnSet(k, S)
      /\ Held(L, T).units = SumFunctionOnSet(u, T) /\ Held(L, T).credits = SumFunctionOnSet(k, T)
      /\ Held(L, S \ T).units = SumFunctionOnSet(u, S \ T)
      /\ Held(L, S \ T).credits = SumFunctionOnSet(k, S \ T)
  BY DEF Held
<1>. HIDE DEF u, k
<1>. QED
  BY <1>1, <1>2, <1>3, SumSplits

LEMMA HeldOne ==
  ASSUME NEW L \in Lists, NEW i \in DOMAIN L
  PROVE  Held(L, {i}).units = L[i].units /\ Held(L, {i}).credits = L[i].credits
<1>. DEFINE u == [j \in DOMAIN L |-> L[j].units]
            k == [j \in DOMAIN L |-> L[j].credits]
<1>1. /\ Held(L, {i}).units = SumFunctionOnSet(u, {i})
      /\ Held(L, {i}).credits = SumFunctionOnSet(k, {i})
  BY DEF Held
<1>2. u[i] = L[i].units /\ k[i] = L[i].credits /\ u[i] \in Int /\ k[i] \in Int
  BY ListFacts
<1>. HIDE DEF u, k
<1>3. IsFiniteSet({i}) /\ {i} \ {i} = {}
  BY FS_Singleton
<1>4. /\ SumFunctionOnSet(u, {i}) = u[i] + SumFunctionOnSet(u, {i} \ {i})
      /\ SumFunctionOnSet(k, {i}) = k[i] + SumFunctionOnSet(k, {i} \ {i})
  BY <1>2, <1>3, SumTakesOut
<1>5. SumFunctionOnSet(u, {}) = 0 /\ SumFunctionOnSet(k, {}) = 0
  BY SumOfNone
<1>6. /\ SumFunctionOnSet(u, {i}) = u[i] + SumFunctionOnSet(u, {})
      /\ SumFunctionOnSet(k, {i}) = k[i] + SumFunctionOnSet(k, {})
  BY <1>3, <1>4, Zenon
<1>. QED
  BY <1>1, <1>2, <1>5, <1>6

LEMMA HeldNone ==
  ASSUME NEW L
  PROVE  Held(L, {}).units = 0 /\ Held(L, {}).credits = 0
<1>. DEFINE u == [j \in DOMAIN L |-> L[j].units]
            k == [j \in DOMAIN L |-> L[j].credits]
<1>1. Held(L, {}).units = SumFunctionOnSet(u, {}) /\ Held(L, {}).credits = SumFunctionOnSet(k, {})
  BY DEF Held
<1>. HIDE DEF u, k
<1>. QED
  BY <1>1, SumOfNone

\* What may be collected after entries were left out, one was added or given
\* back, and one was claimed.
LEMMA StockWithout ==
  ASSUME NEW L \in Lists, NEW S
  PROVE  /\ Stock(L) \in Amount /\ Stock(Without(L, S)) \in Amount
         /\ Held(L, S \cap Unclaimed(L)) \in Amount
         /\ Stock(L).units = Stock(Without(L, S)).units + Held(L, S \cap Unclaimed(L)).units
         /\ Stock(L).credits = Stock(Without(L, S)).credits + Held(L, S \cap Unclaimed(L)).credits
<1>. DEFINE M == Without(L, S)
            T == S \cap Unclaimed(L)
<1>1. M \in Lists /\ DOMAIN M = DOMAIN L \ S /\ \A i \in DOMAIN L \ S : M[i] = L[i]
  BY WithoutFacts
<1>2. Unclaimed(M) = Unclaimed(L) \ T /\ T \in SUBSET Unclaimed(L)
  BY <1>1 DEF Unclaimed
<1>3. Unclaimed(L) \in SUBSET DOMAIN L /\ Unclaimed(M) \in SUBSET DOMAIN M
  BY DEF Unclaimed
<1>. HIDE DEF M, T
<1>4. Held(L, Unclaimed(M)) = Stock(M)
  BY <1>1, <1>2, <1>3, HeldOfSame DEF Stock
<1>5. /\ Stock(L).units = Held(L, T).units + Held(L, Unclaimed(M)).units
      /\ Stock(L).credits = Held(L, T).credits + Held(L, Unclaimed(M)).credits
  BY <1>2, <1>3, HeldSplits DEF Stock
<1>6. Stock(L) \in Amount /\ Stock(M) \in Amount /\ Held(L, T) \in Amount
  BY <1>1, <1>2, <1>3, HeldFacts DEF Stock
<1>. QED
  BY <1>4, <1>5, <1>6 DEF Amount, M, T

LEMMA StockFacts ==
  ASSUME NEW L \in Lists
  PROVE  Stock(L) \in Amount /\ Stock(L).units \in Nat /\ Stock(L).credits \in Nat
<1>1. Stock(L) \in Amount
  BY ListFacts, HeldFacts DEF Stock
<1>. QED
  BY <1>1 DEF Amount

LEMMA StockPut ==
  ASSUME NEW L \in Lists, NEW M \in Lists, NEW i \in DOMAIN M, ~M[i].claimed,
         i \notin Unclaimed(L), DOMAIN M = DOMAIN L \cup {i},
         \A j \in DOMAIN L \ {i} : M[j] = L[j]
  PROVE  /\ Stock(L) \in Amount /\ Stock(M) \in Amount
         /\ Stock(M).units = Stock(L).units + M[i].units
         /\ Stock(M).credits = Stock(L).credits + M[i].credits
<1>1. /\ Unclaimed(L) \in SUBSET DOMAIN L /\ Unclaimed(M) \in SUBSET DOMAIN M
      /\ Unclaimed(M) \ {i} = Unclaimed(L) /\ {i} \in SUBSET Unclaimed(M)
      /\ \A j \in Unclaimed(L) : L[j] = M[j]
  BY DEF Unclaimed
<1>2. Held(L, Unclaimed(L)) = Held(M, Unclaimed(L))
  BY <1>1, HeldOfSame
<1>3. /\ Stock(M).units = Held(M, {i}).units + Held(M, Unclaimed(M) \ {i}).units
      /\ Stock(M).credits = Held(M, {i}).credits + Held(M, Unclaimed(M) \ {i}).credits
  BY <1>1, HeldSplits DEF Stock
<1>4. Held(M, {i}).units = M[i].units /\ Held(M, {i}).credits = M[i].credits
  BY HeldOne
<1>5. Stock(L) \in Amount /\ Stock(M) \in Amount
  BY <1>1, HeldFacts DEF Stock
<1>6. M[i].units \in Nat /\ M[i].credits \in Nat
  BY ListFacts
<1>. QED
  BY <1>1, <1>2, <1>3, <1>4, <1>5, <1>6 DEF Amount, Stock

-----------------------------------------------------------------------------
(* The books.                                                              *)

LEMMA HandFacts ==
  ASSUME NEW x \in CallState
  PROVE  /\ InHand(x) \in Amount
         /\ x.step = "idle" => InHand(x) = [units |-> 0, credits |-> 0]
         /\ x.what.units \in Nat /\ x.what.credits \in Nat /\ x.what.claimed \in BOOLEAN
         /\ x.ship.cargo \in Nat /\ x.ship.credits \in Nat /\ x.left \in Nat
<1>1. x.what \in Item /\ x.ship \in Row /\ x.left \in Nat
  BY DEF CallState
<1>. QED
  BY <1>1 DEF InHand, Amount, Item, Row

LEMMA CarriedFacts ==
  ASSUME FieldTypeOK
  PROVE  Carried \in Amount /\ \A p \in Pilots : ships[p].cargo \in Nat /\ ships[p].credits \in Nat
<1>. DEFINE u == [p \in Pilots |-> ships[p].cargo]
            k == [p \in Pilots |-> ships[p].credits]
<1>1. \A p \in Pilots : ships[p].cargo \in Nat /\ ships[p].credits \in Nat
  BY DEF FieldTypeOK, Row
<1>2. \A p \in Pilots : u[p] \in Nat /\ k[p] \in Nat
  BY <1>1
<1>. HIDE DEF u, k
<1>3. SumFunctionOnSet(u, Pilots) \in Nat /\ SumFunctionOnSet(k, Pilots) \in Nat
  BY <1>2, FieldAssumption, SumIsNat
<1>. QED
  BY <1>1, <1>3 DEF Carried, Amount, u, k

\* One ship is loaded or unloaded, and paid or not.
LEMMA CarriedMoves ==
  ASSUME FieldTypeOK, FieldTypeOK', NEW p \in Pilots, \A q \in Pilots \ {p} : ships'[q] = ships[q]
  PROVE  /\ Carried'.units = Carried.units - ships[p].cargo + ships'[p].cargo
         /\ Carried'.credits = Carried.credits - ships[p].credits + ships'[p].credits
<1>. DEFINE u == [q \in Pilots |-> ships[q].cargo]
            k == [q \in Pilots |-> ships[q].credits]
            v == [q \in Pilots |-> ships'[q].cargo]
            m == [q \in Pilots |-> ships'[q].credits]
<1>1. \A q \in Pilots : u[q] \in Int /\ k[q] \in Int
  BY CarriedFacts
<1>2. \A q \in Pilots : v[q] \in Int /\ m[q] \in Int
  BY DEF FieldTypeOK, Row
<1>3. \A q \in Pilots \ {p} : v[q] = u[q] /\ m[q] = k[q]
  OBVIOUS
<1>4. /\ u[p] = ships[p].cargo /\ k[p] = ships[p].credits
      /\ v[p] = ships'[p].cargo /\ m[p] = ships'[p].credits
  OBVIOUS
<1>5. /\ Carried.units = SumFunctionOnSet(u, Pilots) /\ Carried.credits = SumFunctionOnSet(k, Pilots)
      /\ Carried'.units = SumFunctionOnSet(v, Pilots) /\ Carried'.credits = SumFunctionOnSet(m, Pilots)
  BY DEF Carried
<1>. HIDE DEF u, k, v, m
<1>6. SumFunctionOnSet(v, Pilots) = SumFunctionOnSet(u, Pilots) - u[p] + v[p]
  BY <1>1, <1>2, <1>3, FieldAssumption, SumChanges
<1>7. SumFunctionOnSet(m, Pilots) = SumFunctionOnSet(k, Pilots) - k[p] + m[p]
  BY <1>1, <1>2, <1>3, FieldAssumption, SumChanges
<1>. QED
  BY <1>4, <1>5, <1>6, <1>7

LEMMA SupplyMoves ==
  ASSUME FieldTypeOK, FieldTypeOK'
  PROVE  /\ Supply.units \in Int /\ Supply.credits \in Int
         /\ Supply'.units = Supply.units + (born'.units - born.units) - (lapsed'.units - lapsed.units)
         /\ Supply'.credits = Supply.credits + (born'.credits - born.credits)
                              - (lapsed'.credits - lapsed.credits)
<1>1. Cardinality(Pilots) * OpeningCargo \in Nat /\ Cardinality(Pilots) * OpeningCredits \in Nat
  BY FieldAssumption, FS_CardinalityType
<1>2. PICK m \in Nat : m = Cardinality(Pilots) * OpeningCargo
  BY <1>1
<1>3. PICK n \in Nat : n = Cardinality(Pilots) * OpeningCredits
  BY <1>1
<1>4. Supply.units = m + born.units - lapsed.units /\ Supply.credits = n + born.credits - lapsed.credits
  BY <1>2, <1>3 DEF Supply
<1>5. Supply'.units = m + born'.units - lapsed'.units /\ Supply'.credits = n + born'.credits - lapsed'.credits
  BY <1>2, <1>3 DEF Supply
<1>. QED
  BY <1>4, <1>5 DEF FieldTypeOK, Amount

LEMMA SupplyIsInt ==
  ASSUME FieldTypeOK
  PROVE  Supply.units \in Int /\ Supply.credits \in Int
<1>1. Cardinality(Pilots) * OpeningCargo \in Nat /\ Cardinality(Pilots) * OpeningCredits \in Nat
  BY FieldAssumption, FS_CardinalityType
<1>. QED
  BY <1>1 DEF Supply, FieldTypeOK, Amount

\* What has to be shown of a step of one call.
LEMMA StepKeeps ==
  ASSUME FieldInv, FieldTypeOK', NEW c \in Callers, \A d \in Callers \ {c} : calls'[d] = calls[d],
         \A p \in Pilots \ {c} : ships'[p] = ships[p],
         c \in Pilots => ShipInHand(c)',
         OneAtATime => AllIdle \/ calls[c].step # "idle",
         OneAtATime => DOMAIN salvage' \subseteq added' /\ ListInHand(c)'
                  /\ (Balanced(InHand(calls[c])) => Balanced(InHand(calls[c]))')
  PROVE  FieldInv'
<1>1. ShipsInHand'
  <2>1. ASSUME NEW p \in Pilots \ {c} PROVE ShipInHand(p)'
    BY DEF FieldInv, ShipsInHand, ShipInHand, Callers
  <2>. QED
    BY <2>1 DEF ShipsInHand
<1>2. ASSUME OneAtATime PROVE Single' /\ ListsInHand' /\ Books'
  <2>1. \A d \in Callers \ {c} : calls[d].step = "idle" /\ calls'[d].step = "idle"
    BY <1>2 DEF FieldInv, Single, AllIdle
  <2>2. Single'
    BY <2>1 DEF Single
  <2>3. ListsInHand'
    BY <1>2, <2>1 DEF ListsInHand, ListInHand, Taking
  <2>4. Balanced(InHand(calls[c]))
    <3>1. CASE calls[c].step # "idle"
      BY <1>2, <3>1 DEF FieldInv, Books
    <3>2. CASE calls[c].step = "idle"
      <4>1. InHand(calls[c]) = [units |-> 0, credits |-> 0] /\ AllIdle
        BY <1>2, <3>2, HandFacts DEF FieldInv, FieldTypeOK
      <4>. QED
        BY <1>2, <4>1 DEF FieldInv, Books
    <3>. QED
      BY <3>1, <3>2
  <2>5. Balanced(InHand(calls[c]))'
    BY <1>2, <2>4
  <2>6. AllIdle' => InHand(calls[c])' = [units |-> 0, credits |-> 0]
    <3>1. calls'[c] \in CallState
      BY DEF FieldTypeOK
    <3>2. calls'[c].step = "idle" => InHand(calls'[c]) = [units |-> 0, credits |-> 0]
      BY <3>1, HandFacts
    <3>. QED
      BY <3>2 DEF AllIdle, InHand
  <2>7. AllIdle' => Balanced([units |-> 0, credits |-> 0])'
    BY <2>5, <2>6 DEF Balanced
  <2>8. \A d \in Callers : calls'[d].step # "idle" => Balanced(InHand(calls[d]))'
    BY <2>1, <2>5
  <2>. QED
    BY <2>2, <2>3, <2>7, <2>8 DEF Books
<1>. QED
  BY <1>1, <1>2 DEF FieldInv

\* A call's memory as it is written.
LEMMA Written ==
  ASSUME FieldTypeOK, NEW c \in Callers, NEW x \in CallState, Recall(c, x)
  PROVE  calls' \in [Callers -> CallState] /\ calls'[c] = x /\ \A d \in Callers \ {c} : calls'[d] = calls[d]
BY DEF FieldTypeOK, Recall

-----------------------------------------------------------------------------
(* The steps.                                                              *)

LEMMA RestFacts ==
  AtRest \in CallState /\ Unlisted \in Lists /\ DOMAIN Unlisted = {} /\ AtRest.step = "idle"
<1>1. Unlisted \in Lists /\ DOMAIN Unlisted = {} /\ Container(0, 0) \in Item
  <2>1. IsFiniteSet({}) /\ {} \in SUBSET Ids /\ Unlisted \in [{} -> Item] /\ DOMAIN Unlisted = {}
    BY FS_EmptySet DEF Unlisted
  <2>. QED
    BY <2>1, ListMade DEF Container, Item
<1>. QED
  BY <1>1 DEF AtRest, CallState, Row

LEMMA FieldStarts == FieldInit => FieldInv
<1>. SUFFICES ASSUME FieldInit PROVE FieldInv
  OBVIOUS
<1>1. Unlisted \in Lists /\ DOMAIN Unlisted = {}
  BY RestFacts
<1>2. AtRest \in CallState
  BY RestFacts
<1>3. FieldTypeOK
  BY <1>1, <1>2, FieldAssumption DEF FieldInit, FieldTypeOK, Row, Amount
<1>4. ShipsInHand
  BY FieldAssumption DEF FieldInit, ShipsInHand, ShipInHand, AtRest, Callers
<1>5. \A c \in Callers : calls[c] = AtRest
  BY DEF FieldInit
<1>6. Single
  BY <1>5 DEF Single, AtRest
<1>7. ListsInHand
  BY <1>1, <1>5 DEF FieldInit, ListsInHand, ListInHand, AtRest, Taking
<1>8. Balanced([units |-> 0, credits |-> 0])
  <2>. DEFINE u == [p \in Pilots |-> ships[p].cargo]
              k == [p \in Pilots |-> ships[p].credits]
  <2>1. \A p \in Pilots : u[p] = OpeningCargo /\ k[p] = OpeningCredits
    BY DEF FieldInit
  <2>2. Carried.units = SumFunctionOnSet(u, Pilots) /\ Carried.credits = SumFunctionOnSet(k, Pilots)
    BY DEF Carried
  <2>. HIDE DEF u, k
  <2>3. /\ Carried.units = Cardinality(Pilots) * OpeningCargo
        /\ Carried.credits = Cardinality(Pilots) * OpeningCredits
    BY <2>1, <2>2, FieldAssumption, SumOfConstant
  <2>4. Unclaimed(salvage) = {}
    BY <1>1 DEF FieldInit, Unclaimed
  <2>5. Stock(salvage).units = 0 /\ Stock(salvage).credits = 0
    BY <2>4, HeldNone DEF Stock
  <2>6. PICK m \in Nat : m = Cardinality(Pilots) * OpeningCargo
    BY FieldAssumption, FS_CardinalityType
  <2>7. PICK n \in Nat : n = Cardinality(Pilots) * OpeningCredits
    BY FieldAssumption, FS_CardinalityType
  <2>8. Supply.units = m /\ Supply.credits = n
    BY <2>6, <2>7 DEF Supply, FieldInit
  <2>. QED
    BY <2>3, <2>5, <2>6, <2>7, <2>8 DEF Balanced
<1>9. Books
  BY <1>5, <1>8 DEF Books, AtRest
<1>. QED
  BY <1>3, <1>4, <1>6, <1>7, <1>9 DEF FieldInv

\* A step that moves nothing between ships, list and wrecks.
LEMMA NothingMoves ==
  ASSUME FieldInv, FieldTypeOK', NEW c \in Callers, UNCHANGED <<salvage, ships, born, lapsed, kills>>,
         InHand(calls[c])' = InHand(calls[c]), Balanced(InHand(calls[c]))
  PROVE  Balanced(InHand(calls[c]))'
BY DEF Balanced, Carried, Supply

\* A step after which ships, list and call have so much more in all, and the
\* wrecks and what expired account for it.
LEMMA Moves ==
  ASSUME FieldInv, FieldTypeOK', NEW c \in Callers, Balanced(InHand(calls[c])), kills' = kills,
         NEW m \in Int, NEW n \in Int,
         Supply'.units = Supply.units + m, Supply'.credits = Supply.credits + n,
         Carried'.units + Stock(salvage').units + InHand(calls'[c]).units
           = Carried.units + Stock(salvage).units + InHand(calls[c]).units + m,
         Carried'.credits + Stock(salvage').credits + InHand(calls'[c]).credits
           = Carried.credits + Stock(salvage).credits + InHand(calls[c]).credits + n
  PROVE  Balanced(InHand(calls[c]))'
<1>1. /\ Carried \in Amount /\ Stock(salvage) \in Amount /\ InHand(calls[c]) \in Amount
      /\ Supply.units \in Int /\ Supply.credits \in Int
  BY CarriedFacts, StockFacts, HandFacts, SupplyMoves DEF FieldInv, FieldTypeOK
<1>2. (Stock(salvage))' = Stock(salvage') /\ InHand(calls[c])' = InHand(calls'[c])
  OBVIOUS
<1>. DEFINE u == Carried'.units + Stock(salvage').units + InHand(calls'[c]).units
            k == Carried'.credits + Stock(salvage').credits + InHand(calls'[c]).credits
<1>3. /\ u <= Supply'.units /\ k <= Supply'.credits
      /\ kills = 0 => u = Supply'.units /\ k = Supply'.credits
  BY <1>1 DEF Balanced, Amount
<1>. HIDE DEF u, k
<1>. QED
  BY <1>2, <1>3 DEF Balanced, u, k

LEMMA DumpKeeps ==
  ASSUME FieldInv, NEW p \in Pilots, Dump(p)
  PROVE  FieldInv'
<1>1. PICK n \in Lots :
        /\ MayCall(p) /\ ships[p].cargo > 0
        /\ Recall(p, [AtRest EXCEPT !.step = "unload", !.ship = ships[p],
                                    !.what = Container(Lesser(n, ships[p].cargo), 0)])
        /\ UNCHANGED <<salvage, ships, expired, ledger, kills>>
  BY DEF Dump
<1>. DEFINE c == Container(Lesser(n, ships[p].cargo), 0)
            x == [AtRest EXCEPT !.step = "unload", !.ship = ships[p], !.what = c]
<1>2. /\ ships[p] \in Row /\ ships[p].cargo \in Nat /\ ships[p].cargo <= Holds
      /\ calls[p] \in CallState /\ calls[p].step = "idle" /\ p \in Callers
  BY <1>1 DEF FieldInv, FieldTypeOK, Row, ShipsInHand, ShipInHand, MayCall, Callers
<1>3. /\ c \in Item /\ c.units \in Nat /\ c.units <= ships[p].cargo
      /\ c.credits = 0 /\ c.claimed = FALSE
  BY <1>2, FieldAssumption DEF Container, Item, Lesser
<1>4. AtRest \in CallState
  BY RestFacts
<1>. HIDE DEF c
<1>5. /\ x \in CallState /\ x.step = "unload" /\ x.ship = ships[p] /\ x.what = c
  BY <1>2, <1>3, <1>4 DEF CallState
<1>6. Recall(p, x)
  BY <1>1 DEF c
<1>. HIDE DEF x
<1>7. calls' \in [Callers -> CallState] /\ calls'[p] = x /\ \A d \in Callers \ {p} : calls'[d] = calls[d]
  BY <1>2, <1>5, <1>6, Written DEF FieldInv
<1>8. FieldTypeOK'
  BY <1>1, <1>7 DEF FieldInv, FieldTypeOK, ledger
<1>9. ShipInHand(p)'
  BY <1>1, <1>2, <1>5, <1>7 DEF ShipInHand
<1>10. ListInHand(p)'
  BY <1>3, <1>5, <1>7 DEF ListInHand, Taking
<1>11. OneAtATime => AllIdle
  BY <1>1 DEF MayCall
<1>12. InHand(calls[p])' = InHand(calls[p])
  BY <1>2, <1>5, <1>7 DEF InHand
<1>13. Balanced(InHand(calls[p])) => Balanced(InHand(calls[p]))'
  BY <1>1, <1>2, <1>8, <1>12, NothingMoves DEF ledger
<1>. QED
  BY <1>1, <1>2, <1>7, <1>8, <1>9, <1>10, <1>11, <1>13, StepKeeps DEF FieldInv, ListsInHand, ledger

LEMMA UnloadKeeps ==
  ASSUME FieldInv, NEW p \in Pilots, Unload(p)
  PROVE  FieldInv'
<1>. DEFINE w == calls[p]
            x == [w EXCEPT !.step = "append"]
<1>1. /\ w \in CallState /\ w.step = "unload" /\ p \in Callers /\ Recall(p, x)
      /\ ships' = [ships EXCEPT ![p].cargo = NotBelowZero(w.ship.cargo - w.what.units)]
      /\ UNCHANGED <<salvage, expired, ledger, opened, kills>>
  BY DEF Unload, FieldInv, FieldTypeOK, Callers
<1>2. x \in CallState /\ x.step = "append" /\ x.what = w.what
  BY <1>1 DEF CallState
<1>3. calls' \in [Callers -> CallState] /\ calls'[p] = x /\ \A d \in Callers \ {p} : calls'[d] = calls[d]
  BY <1>1, <1>2, Written DEF FieldInv
<1>4. /\ ships[p] \in Row /\ w.ship = ships[p] /\ ships[p].cargo <= Holds
      /\ w.what.units \in Nat /\ w.what.credits \in Nat
      /\ ships[p].cargo \in Nat /\ Holds \in Nat
  BY <1>1, HandFacts, FieldAssumption DEF FieldInv, FieldTypeOK, Row, ShipsInHand, ShipInHand
<1>5. /\ ships' \in [Pilots -> Row] /\ ships'[p].credits = ships[p].credits
      /\ ships'[p].cargo = NotBelowZero(ships[p].cargo - w.what.units)
      /\ \A q \in Pilots \ {p} : ships'[q] = ships[q]
  BY <1>1, <1>4 DEF FieldInv, FieldTypeOK, Row, NotBelowZero
<1>6. ships'[p].cargo \in Nat /\ ships'[p].cargo <= Holds
  BY <1>4, <1>5 DEF NotBelowZero
<1>7. FieldTypeOK'
  BY <1>1, <1>3, <1>5 DEF FieldInv, FieldTypeOK, ledger
<1>8. ShipInHand(p)'
  BY <1>2, <1>3, <1>6 DEF ShipInHand
<1>. HIDE DEF x
<1>9. ASSUME OneAtATime
      PROVE  /\ DOMAIN salvage' \subseteq added' /\ ListInHand(p)'
             /\ Balanced(InHand(calls[p])) => Balanced(InHand(calls[p]))'
  <2>1. ListInHand(p) /\ DOMAIN salvage \subseteq added
    BY <1>1, <1>9 DEF FieldInv, ListsInHand
  <2>2. w.what.credits = 0 /\ w.what.units <= ships[p].cargo /\ ~w.what.claimed
    BY <1>1, <1>4, <2>1 DEF ListInHand
  <2>3. ListInHand(p)'
    BY <1>1, <1>2, <1>3, <2>2 DEF ListInHand, Taking
  <2>4. InHand(w).units = 0 /\ InHand(w).credits = 0
    BY <1>1 DEF InHand
  <2>5. InHand(x).units = w.what.units /\ InHand(x).credits = 0
    BY <1>2, <2>2 DEF InHand
  <2>6. ships'[p].cargo = ships[p].cargo - w.what.units
    BY <1>4, <1>5, <2>2 DEF NotBelowZero
  <2>7. /\ Carried'.units = Carried.units - w.what.units
        /\ Carried'.credits = Carried.credits
    BY <1>4, <1>5, <1>7, <2>6, CarriedMoves, CarriedFacts DEF FieldInv, Amount
  <2>8. Supply' = Supply /\ Stock(salvage)' = Stock(salvage)
    BY <1>1 DEF Supply, ledger
  <2>9. Balanced(InHand(w)) => Balanced(InHand(w))'
    <3>1. /\ Carried.units \in Nat /\ Carried.credits \in Nat
          /\ Stock(salvage).units \in Nat /\ Stock(salvage).credits \in Nat
      BY CarriedFacts, StockFacts DEF FieldInv, FieldTypeOK, Amount
    <3>2. Supply'.units = Supply.units + 0 /\ Supply'.credits = Supply.credits + 0
      BY <1>7, <2>8, SupplyMoves DEF FieldInv
    <3>3. /\ Carried'.units + Stock(salvage').units + InHand(calls'[p]).units
               = Carried.units + Stock(salvage).units + InHand(calls[p]).units + 0
          /\ Carried'.credits + Stock(salvage').credits + InHand(calls'[p]).credits
               = Carried.credits + Stock(salvage).credits + InHand(calls[p]).credits + 0
      BY <1>1, <1>3, <1>4, <2>4, <2>5, <2>7, <3>1
    <3>. QED
      BY <1>1, <1>7, <3>2, <3>3, Moves
  <2>. QED
    BY <1>1, <2>1, <2>3, <2>9 DEF ledger
<1>. QED
  BY <1>1, <1>3, <1>5, <1>7, <1>8, <1>9, StepKeeps

LEMMA DropWreckKeeps ==
  ASSUME FieldInv, NEW f \in Fights, DropWreck(f)
  PROVE  FieldInv'
<1>. DEFINE c == Container(WreckUnits, WreckCredits)
            x == [AtRest EXCEPT !.step = "append", !.what = c]
<1>1. /\ MayCall(f) /\ Recall(f, x) /\ f \in Callers /\ calls[f] \in CallState /\ calls[f].step = "idle"
      /\ born' = [units |-> born.units + WreckUnits, credits |-> born.credits + WreckCredits]
      /\ UNCHANGED <<salvage, ships, expired, taken, added, lapsed, kills>>
  BY DEF DropWreck, MayCall, FieldInv, FieldTypeOK, Callers
<1>2. /\ c \in Item /\ c.units = WreckUnits /\ c.credits = WreckCredits /\ c.claimed = FALSE
      /\ WreckUnits \in Nat /\ WreckCredits \in Nat
  BY FieldAssumption DEF Container, Item
<1>3. AtRest \in CallState
  BY RestFacts
<1>. HIDE DEF c
<1>4. x \in CallState /\ x.step = "append" /\ x.what = c
  BY <1>2, <1>3 DEF CallState
<1>. HIDE DEF x
<1>5. calls' \in [Callers -> CallState] /\ calls'[f] = x /\ \A d \in Callers \ {f} : calls'[d] = calls[d]
  BY <1>1, <1>4, Written DEF FieldInv
<1>6. FieldTypeOK'
  BY <1>1, <1>2, <1>5 DEF FieldInv, FieldTypeOK, Amount
<1>7. f \in Pilots => ShipInHand(f)'
  BY <1>1, <1>4, <1>5 DEF FieldInv, ShipsInHand, ShipInHand
<1>8. ListInHand(f)'
  BY <1>2, <1>4, <1>5 DEF ListInHand, Taking
<1>9. Balanced(InHand(calls[f])) => Balanced(InHand(calls[f]))'
  <2>. SUFFICES ASSUME Balanced(InHand(calls[f])) PROVE Balanced(InHand(calls[f]))'
    OBVIOUS
  <2>1. /\ Carried.units \in Nat /\ Carried.credits \in Nat
        /\ Stock(salvage).units \in Nat /\ Stock(salvage).credits \in Nat
    BY CarriedFacts, StockFacts DEF FieldInv, FieldTypeOK, Amount
  <2>2. /\ InHand(calls[f]).units = 0 /\ InHand(calls[f]).credits = 0
        /\ InHand(calls'[f]).units = WreckUnits /\ InHand(calls'[f]).credits = WreckCredits
    BY <1>1, <1>2, <1>4, <1>5 DEF InHand
  <2>3. Carried' = Carried
    BY <1>1 DEF Carried
  <2>4. Supply'.units = Supply.units + WreckUnits /\ Supply'.credits = Supply.credits + WreckCredits
    BY <1>1, <1>2, <1>6, SupplyMoves DEF FieldInv, FieldTypeOK, Amount
  <2>. QED
    BY <1>1, <1>2, <1>6, <2>1, <2>2, <2>3, <2>4, Moves
<1>10. OneAtATime => AllIdle
  BY <1>1 DEF MayCall
<1>. QED
  BY <1>1, <1>5, <1>6, <1>7, <1>8, <1>9, <1>10, StepKeeps DEF FieldInv, ListsInHand

LEMMA ReadListKeeps ==
  ASSUME FieldInv, NEW c \in Callers, ReadList(c)
  PROVE  FieldInv'
<1>. DEFINE w == calls[c]
            x == [w EXCEPT !.step = "push", !.list = salvage]
<1>1. /\ w \in CallState /\ w.step = "append" /\ Recall(c, x) /\ salvage \in Lists
      /\ UNCHANGED <<salvage, ships, expired, ledger, opened, kills>>
  BY DEF ReadList, FieldInv, FieldTypeOK
<1>2. x \in CallState /\ x.step = "push" /\ x.what = w.what /\ x.list = salvage
  BY <1>1 DEF CallState
<1>. HIDE DEF x
<1>3. calls' \in [Callers -> CallState] /\ calls'[c] = x /\ \A d \in Callers \ {c} : calls'[d] = calls[d]
  BY <1>1, <1>2, Written DEF FieldInv
<1>4. FieldTypeOK'
  BY <1>1, <1>3 DEF FieldInv, FieldTypeOK, ledger
<1>5. c \in Pilots => ShipInHand(c)'
  BY <1>1, <1>2, <1>3 DEF FieldInv, ShipsInHand, ShipInHand
<1>6. ASSUME OneAtATime PROVE ListInHand(c)'
  <2>1. ListInHand(c)
    BY <1>6 DEF FieldInv, ListsInHand
  <2>. QED
    BY <1>1, <1>2, <1>3, <2>1 DEF ListInHand, Taking
<1>7. InHand(calls[c])' = InHand(calls[c])
  BY <1>1, <1>2, <1>3 DEF InHand
<1>8. Balanced(InHand(calls[c])) => Balanced(InHand(calls[c]))'
  BY <1>1, <1>4, <1>7, NothingMoves DEF ledger
<1>. QED
  BY <1>1, <1>3, <1>4, <1>5, <1>6, <1>8, StepKeeps DEF FieldInv, ListsInHand, ledger

LEMMA LookKeeps ==
  ASSUME FieldInv, NEW p \in Pilots, Look(p)
  PROVE  FieldInv'
<1>1. PICK id \in Unclaimed(salvage) :
        /\ MayCall(p)
        /\ Recall(p, [AtRest EXCEPT !.step = "claim", !.id = id, !.what = salvage[id],
                                    !.ship = ships[p], !.list = salvage])
        /\ UNCHANGED <<salvage, ships, expired, ledger, kills>>
  BY DEF Look
<1>. DEFINE x == [AtRest EXCEPT !.step = "claim", !.id = id, !.what = salvage[id],
                                !.ship = ships[p], !.list = salvage]
<1>2. /\ ships[p] \in Row /\ ships[p].cargo <= Holds /\ calls[p] \in CallState
      /\ calls[p].step = "idle" /\ p \in Callers /\ salvage \in Lists
  BY <1>1 DEF FieldInv, FieldTypeOK, ShipsInHand, ShipInHand, MayCall, Callers
<1>3. salvage[id] \in Item /\ id \in Ids
  BY <1>1, <1>2, ListFacts
<1>4. AtRest \in CallState
  BY RestFacts
<1>5. /\ x \in CallState /\ x.step = "claim" /\ x.ship = ships[p] /\ x.what = salvage[id]
      /\ x.id = id /\ x.list = salvage
  BY <1>2, <1>3, <1>4 DEF CallState
<1>6. Recall(p, x)
  BY <1>1
<1>. HIDE DEF x
<1>7. calls' \in [Callers -> CallState] /\ calls'[p] = x /\ \A d \in Callers \ {p} : calls'[d] = calls[d]
  BY <1>2, <1>5, <1>6, Written DEF FieldInv
<1>8. FieldTypeOK'
  BY <1>1, <1>7 DEF FieldInv, FieldTypeOK, ledger
<1>9. ShipInHand(p)'
  BY <1>1, <1>2, <1>5, <1>7 DEF ShipInHand
<1>10. ListInHand(p)'
  <2>1. id \in Unclaimed(salvage)' /\ x.what = salvage'[id] /\ x.list = salvage'
    BY <1>1, <1>5
  <2>. QED
    BY <1>5, <1>7, <2>1 DEF ListInHand, Taking
<1>11. OneAtATime => AllIdle
  BY <1>1 DEF MayCall
<1>12. InHand(calls[p])' = InHand(calls[p])
  BY <1>2, <1>5, <1>7 DEF InHand
<1>13. Balanced(InHand(calls[p])) => Balanced(InHand(calls[p]))'
  BY <1>1, <1>2, <1>8, <1>12, NothingMoves DEF ledger
<1>. QED
  BY <1>1, <1>2, <1>7, <1>8, <1>9, <1>10, <1>11, <1>13, StepKeeps DEF FieldInv, ListsInHand, ledger

LEMMA ReloadKeeps ==
  ASSUME FieldInv, NEW p \in Pilots, Reload(p)
  PROVE  FieldInv'
<1>. DEFINE w == calls[p]
            x == [w EXCEPT !.step = "settle", !.list = salvage]
<1>1. /\ w \in CallState /\ w.step = "reload" /\ Recall(p, x) /\ salvage \in Lists /\ p \in Callers
      /\ UNCHANGED <<salvage, ships, expired, ledger, opened, kills>>
  BY DEF Reload, FieldInv, FieldTypeOK, Callers
<1>2. /\ x \in CallState /\ x.step = "settle" /\ x.what = w.what /\ x.list = salvage
      /\ x.id = w.id /\ x.left = w.left
  BY <1>1 DEF CallState, Taking
<1>. HIDE DEF x
<1>3. calls' \in [Callers -> CallState] /\ calls'[p] = x /\ \A d \in Callers \ {p} : calls'[d] = calls[d]
  BY <1>1, <1>2, Written DEF FieldInv
<1>4. FieldTypeOK'
  BY <1>1, <1>3 DEF FieldInv, FieldTypeOK, ledger
<1>5. ShipInHand(p)'
  BY <1>1, <1>2, <1>3 DEF FieldInv, ShipsInHand, ShipInHand
<1>6. ASSUME OneAtATime PROVE ListInHand(p)'
  <2>1. ListInHand(p)
    BY <1>1, <1>6 DEF FieldInv, ListsInHand
  <2>2. w.id \in DOMAIN salvage' \ Unclaimed(salvage')
    BY <1>1, <2>1 DEF ListInHand, Taking
  <2>. QED
    BY <1>1, <1>2, <1>3, <2>2 DEF ListInHand, Taking
<1>7. InHand(calls[p])' = InHand(calls[p])
  BY <1>1, <1>2, <1>3 DEF InHand
<1>8. Balanced(InHand(calls[p])) => Balanced(InHand(calls[p]))'
  BY <1>1, <1>4, <1>7, NothingMoves DEF ledger
<1>. QED
  BY <1>1, <1>3, <1>4, <1>5, <1>6, <1>8, StepKeeps DEF FieldInv, ListsInHand, ledger

LEMMA TakeCreditsKeeps ==
  ASSUME FieldInv, NEW p \in Pilots, TakeCredits(p)
  PROVE  FieldInv'
<1>. DEFINE w == calls[p]
            x == [w EXCEPT !.step = "cargo"]
<1>1. /\ w \in CallState /\ w.step = "credits" /\ Recall(p, x) /\ p \in Callers
      /\ ships' = [ships EXCEPT ![p].credits = w.ship.credits + w.what.credits]
      /\ UNCHANGED <<salvage, expired, added, born, lapsed, opened, kills>>
  BY DEF TakeCredits, FieldInv, FieldTypeOK, Callers
<1>2. /\ x \in CallState /\ x.step = "cargo" /\ x.what = w.what /\ x.ship = w.ship /\ x.id = w.id
  BY <1>1 DEF CallState, Taking
<1>. HIDE DEF x
<1>3. calls' \in [Callers -> CallState] /\ calls'[p] = x /\ \A d \in Callers \ {p} : calls'[d] = calls[d]
  BY <1>1, <1>2, Written DEF FieldInv
<1>4. /\ ships[p] \in Row /\ w.ship = ships[p] /\ ships[p].cargo <= Holds
      /\ w.what.units \in Nat /\ w.what.credits \in Nat
      /\ ships[p].cargo \in Nat /\ ships[p].credits \in Nat
  BY <1>1, HandFacts DEF FieldInv, FieldTypeOK, Row, ShipsInHand, ShipInHand
<1>5. /\ ships' \in [Pilots -> Row] /\ ships'[p].credits = ships[p].credits + w.what.credits
      /\ ships'[p].cargo = ships[p].cargo
      /\ \A q \in Pilots \ {p} : ships'[q] = ships[q]
  BY <1>1, <1>4 DEF FieldInv, FieldTypeOK, Row
<1>6. FieldTypeOK'
  BY <1>1, <1>3, <1>5 DEF FieldInv, FieldTypeOK
<1>7. ShipInHand(p)'
  BY <1>2, <1>3, <1>4, <1>5 DEF ShipInHand
<1>8. ASSUME OneAtATime PROVE ListInHand(p)'
  <2>1. ListInHand(p)
    BY <1>1, <1>8 DEF FieldInv, ListsInHand
  <2>2. w.id \in DOMAIN salvage' \ Unclaimed(salvage')
    BY <1>1, <2>1 DEF ListInHand, Taking
  <2>. QED
    BY <1>1, <1>2, <1>3, <2>2 DEF ListInHand, Taking
<1>9. Balanced(InHand(calls[p])) => Balanced(InHand(calls[p]))'
  <2>. SUFFICES ASSUME Balanced(InHand(calls[p])) PROVE Balanced(InHand(calls[p]))'
    OBVIOUS
  <2>1. /\ InHand(w).units = w.what.units /\ InHand(w).credits = w.what.credits
        /\ InHand(x).units = w.what.units /\ InHand(x).credits = 0
    BY <1>1, <1>2 DEF InHand
  <2>2. /\ Carried'.units = Carried.units /\ Carried'.credits = Carried.credits + w.what.credits
    BY <1>4, <1>5, <1>6, CarriedMoves, CarriedFacts DEF FieldInv, Amount
  <2>. QED
    <3>1. /\ Carried.units \in Nat /\ Carried.credits \in Nat
          /\ Stock(salvage).units \in Nat /\ Stock(salvage).credits \in Nat
      BY CarriedFacts, StockFacts DEF FieldInv, FieldTypeOK, Amount
    <3>2. Supply'.units = Supply.units + 0 /\ Supply'.credits = Supply.credits + 0
      BY <1>1, <1>6, SupplyMoves DEF FieldInv, FieldTypeOK, Amount
    <3>3. /\ Carried'.units + Stock(salvage').units + InHand(calls'[p]).units
               = Carried.units + Stock(salvage).units + InHand(calls[p]).units + 0
          /\ Carried'.credits + Stock(salvage').credits + InHand(calls'[p]).credits
               = Carried.credits + Stock(salvage).credits + InHand(calls[p]).credits + 0
      BY <1>1, <1>3, <1>4, <2>1, <2>2, <3>1
    <3>. QED
      BY <1>1, <1>6, <3>2, <3>3, Moves
<1>. QED
  BY <1>1, <1>3, <1>5, <1>6, <1>7, <1>8, <1>9, StepKeeps DEF FieldInv, ListsInHand

LEMMA TakeCargoKeeps ==
  ASSUME FieldInv, NEW p \in Pilots, TakeCargo(p)
  PROVE  FieldInv'
<1>. DEFINE w == calls[p]
            fits == Lesser(w.what.units, Room(w.ship))
            x == [w EXCEPT !.step = "reload", !.left = w.what.units - fits]
<1>1. /\ w \in CallState /\ w.step = "cargo" /\ Recall(p, x) /\ p \in Callers
      /\ ships' = [ships EXCEPT ![p].cargo = w.ship.cargo + fits]
      /\ UNCHANGED <<salvage, expired, ledger, opened, kills>>
  BY DEF TakeCargo, FieldInv, FieldTypeOK, Callers
<1>2. /\ ships[p] \in Row /\ w.ship.cargo = ships[p].cargo /\ ships[p].cargo <= Holds
      /\ w.what.units \in Nat /\ w.what.credits \in Nat /\ Holds \in Nat
      /\ ships[p].cargo \in Nat /\ ships[p].credits \in Nat
  BY <1>1, HandFacts, FieldAssumption DEF FieldInv, FieldTypeOK, Row, ShipsInHand, ShipInHand
<1>3. fits \in Nat /\ fits <= w.what.units /\ ships[p].cargo + fits <= Holds
  BY <1>2 DEF Lesser, Room
<1>. HIDE DEF fits
<1>4. w.what.units - fits \in Nat
  BY <1>2, <1>3
<1>5. /\ x \in CallState /\ x.step = "reload" /\ x.what = w.what /\ x.id = w.id
      /\ x.left = w.what.units - fits
  BY <1>1, <1>4 DEF CallState, Taking
<1>. HIDE DEF x
<1>6. calls' \in [Callers -> CallState] /\ calls'[p] = x /\ \A d \in Callers \ {p} : calls'[d] = calls[d]
  BY <1>1, <1>5, Written DEF FieldInv
<1>7. /\ ships' \in [Pilots -> Row] /\ ships'[p].credits = ships[p].credits
      /\ ships'[p].cargo = ships[p].cargo + fits
      /\ \A q \in Pilots \ {p} : ships'[q] = ships[q]
  BY <1>1, <1>2, <1>3 DEF FieldInv, FieldTypeOK, Row
<1>8. FieldTypeOK'
  BY <1>1, <1>6, <1>7 DEF FieldInv, FieldTypeOK, ledger
<1>9. ShipInHand(p)'
  BY <1>3, <1>5, <1>6, <1>7 DEF ShipInHand
<1>10. ASSUME OneAtATime PROVE ListInHand(p)'
  <2>1. ListInHand(p)
    BY <1>1, <1>10 DEF FieldInv, ListsInHand
  <2>2. w.id \in DOMAIN salvage' \ Unclaimed(salvage')
    BY <1>1, <2>1 DEF ListInHand, Taking
  <2>. QED
    BY <1>1, <1>5, <1>6, <2>2 DEF ListInHand, Taking
<1>11. Balanced(InHand(calls[p])) => Balanced(InHand(calls[p]))'
  <2>. SUFFICES ASSUME Balanced(InHand(calls[p])) PROVE Balanced(InHand(calls[p]))'
    OBVIOUS
  <2>1. /\ InHand(w).units = w.what.units /\ InHand(w).credits = 0
        /\ InHand(x).units = w.what.units - fits /\ InHand(x).credits = 0
    BY <1>1, <1>5 DEF InHand
  <2>2. /\ Carried'.units = Carried.units + fits /\ Carried'.credits = Carried.credits
    BY <1>2, <1>3, <1>7, <1>8, CarriedMoves, CarriedFacts DEF FieldInv, Amount
  <2>. QED
    <3>1. /\ Carried.units \in Nat /\ Carried.credits \in Nat
          /\ Stock(salvage).units \in Nat /\ Stock(salvage).credits \in Nat
      BY CarriedFacts, StockFacts DEF FieldInv, FieldTypeOK, Amount
    <3>2. Supply'.units = Supply.units + 0 /\ Supply'.credits = Supply.credits + 0
      BY <1>1, <1>8, SupplyMoves DEF FieldInv, FieldTypeOK, Amount, ledger
    <3>3. /\ Carried'.units + Stock(salvage').units + InHand(calls'[p]).units
               = Carried.units + Stock(salvage).units + InHand(calls[p]).units + 0
          /\ Carried'.credits + Stock(salvage').credits + InHand(calls'[p]).credits
               = Carried.credits + Stock(salvage).credits + InHand(calls[p]).credits + 0
      BY <1>1, <1>2, <1>3, <1>6, <2>1, <2>2, <3>1
    <3>. QED
      BY <1>1, <1>8, <3>2, <3>3, Moves
<1>. QED
  BY <1>1, <1>6, <1>7, <1>8, <1>9, <1>10, <1>11, StepKeeps DEF FieldInv, ListsInHand, ledger

LEMMA PushKeeps ==
  ASSUME FieldInv, NEW c \in Callers, Push(c)
  PROVE  FieldInv'
<1>. DEFINE w == calls[c]
            L == w.list
            old == DOMAIN L \cap expired
            loss == Held(L, old \cap Unclaimed(L))
            M == Without(L, old)
<1>1. /\ w \in CallState /\ w.step = "push" /\ Recall(c, AtRest) /\ AtRest \in CallState
      /\ lapsed' = [units |-> lapsed.units + loss.units, credits |-> lapsed.credits + loss.credits]
      /\ UNCHANGED <<ships, expired, taken, born, opened, kills>>
  BY RestFacts DEF Push, FieldInv, FieldTypeOK
<1>2. PICK id \in Ids \ added : salvage' = With(M, id, w.what) /\ added' = added \cup {id}
  BY DEF Push
<1>3. L \in Lists /\ w.what \in Item
  BY <1>1 DEF CallState
<1>. HIDE DEF L
<1>4. /\ loss \in Amount /\ loss.units \in Nat /\ loss.credits \in Nat
      /\ Stock(L).units = Stock(M).units + loss.units
      /\ Stock(L).credits = Stock(M).credits + loss.credits
      /\ Stock(M) \in Amount /\ M \in Lists /\ DOMAIN M = DOMAIN L \ old
  <2>1. /\ Stock(M) \in Amount /\ Held(L, old \cap Unclaimed(L)) \in Amount
        /\ Stock(L).units = Stock(M).units + Held(L, old \cap Unclaimed(L)).units
        /\ Stock(L).credits = Stock(M).credits + Held(L, old \cap Unclaimed(L)).credits
    <3>. HIDE DEF old
    <3>. QED
      BY <1>3, StockWithout
  <2>2. M \in Lists /\ DOMAIN M = DOMAIN L \ old
    BY <1>3, WithoutFacts
  <2>. QED
    BY <2>1, <2>2 DEF Amount
<1>. HIDE DEF loss, M, old
<1>5. /\ salvage' \in Lists /\ DOMAIN salvage' = DOMAIN M \cup {id} /\ salvage'[id] = w.what
      /\ \A i \in DOMAIN M \ {id} : salvage'[i] = M[i]
  <2>. DEFINE v == w.what
  <2>2. v \in Item /\ M \in Lists /\ id \in Ids
    BY <1>3, <1>4
  <2>. HIDE DEF v
  <2>3. /\ With(M, id, v) \in Lists /\ DOMAIN With(M, id, v) = DOMAIN M \cup {id}
        /\ With(M, id, v)[id] = v
        /\ \A i \in DOMAIN M \ {id} : With(M, id, v)[i] = M[i]
    BY <2>2, WithFacts
  <2>1. /\ With(M, id, w.what) \in Lists /\ DOMAIN With(M, id, w.what) = DOMAIN M \cup {id}
        /\ With(M, id, w.what)[id] = w.what
        /\ \A i \in DOMAIN M \ {id} : With(M, id, w.what)[i] = M[i]
    BY <2>3 DEF v
  <2>. QED
    BY <1>2, <2>1
<1>6. calls' \in [Callers -> CallState] /\ calls'[c] = AtRest /\ \A d \in Callers \ {c} : calls'[d] = calls[d]
  BY <1>1, Written DEF FieldInv
<1>7. FieldTypeOK'
  BY <1>1, <1>2, <1>4, <1>5, <1>6 DEF FieldInv, FieldTypeOK, Amount
<1>8. c \in Pilots => ShipInHand(c)'
  BY <1>1, <1>6 DEF FieldInv, ShipsInHand, ShipInHand, AtRest
<1>9. ASSUME OneAtATime
      PROVE  /\ DOMAIN salvage' \subseteq added' /\ ListInHand(c)'
             /\ Balanced(InHand(calls[c])) => Balanced(InHand(calls[c]))'
  <2>1. ListInHand(c) /\ DOMAIN salvage \subseteq added
    BY <1>9 DEF FieldInv, ListsInHand
  <2>2. L = salvage /\ ~w.what.claimed
    BY <1>1, <2>1 DEF ListInHand, L
  <2>3. DOMAIN salvage' \subseteq added'
    BY <1>2, <1>4, <1>5, <2>1, <2>2
  <2>4. ListInHand(c)'
    BY <1>6 DEF ListInHand, AtRest, Taking
  <2>5. id \notin DOMAIN M /\ id \notin Unclaimed(M)
    BY <1>2, <1>4, <2>1, <2>2 DEF Unclaimed
  <2>6. /\ Stock(salvage').units = Stock(M).units + w.what.units
        /\ Stock(salvage').credits = Stock(M).credits + w.what.credits
    BY <1>4, <1>5, <2>2, <2>5, StockPut
  <2>. SUFFICES ASSUME Balanced(InHand(calls[c])) PROVE Balanced(InHand(calls[c]))'
    BY <2>3, <2>4
  <2>7. /\ InHand(w).units = w.what.units /\ InHand(w).credits = w.what.credits
        /\ InHand(calls'[c]).units = 0 /\ InHand(calls'[c]).credits = 0
    BY <1>1, <1>6 DEF InHand, AtRest
  <2>8. Carried' = Carried
    BY <1>1 DEF Carried
  <2>9. /\ Supply'.units = Supply.units + (0 - loss.units)
        /\ Supply'.credits = Supply.credits + (0 - loss.credits)
    BY <1>1, <1>4, <1>7, SupplyMoves DEF FieldInv, FieldTypeOK, Amount
  <2>10. /\ Carried.units \in Nat /\ Carried.credits \in Nat
         /\ Stock(M).units \in Nat /\ Stock(M).credits \in Nat
         /\ w.what.units \in Nat /\ w.what.credits \in Nat
    BY <1>1, <1>4, CarriedFacts, HandFacts DEF FieldInv, Amount
  <2>11. /\ Carried'.units + Stock(salvage').units + InHand(calls'[c]).units
               = Carried.units + Stock(salvage).units + InHand(calls[c]).units + (0 - loss.units)
         /\ Carried'.credits + Stock(salvage').credits + InHand(calls'[c]).credits
               = Carried.credits + Stock(salvage).credits + InHand(calls[c]).credits + (0 - loss.credits)
    BY <1>4, <2>2, <2>6, <2>7, <2>8, <2>10
  <2>12. 0 - loss.units \in Int /\ 0 - loss.credits \in Int
    BY <1>4
  <2>. QED
    BY <1>1, <1>7, <2>9, <2>11, <2>12, Moves
<1>. QED
  BY <1>1, <1>6, <1>7, <1>8, <1>9, StepKeeps

LEMMA ClaimKeeps ==
  ASSUME FieldInv, NEW p \in Pilots, Claim(p)
  PROVE  FieldInv'
<1>. DEFINE w == calls[p]
            x == [w EXCEPT !.step = "credits"]
<1>1. /\ w \in CallState /\ w.step = "claim" /\ Recall(p, x) /\ p \in Callers
      /\ salvage' = [w.list EXCEPT ![w.id].claimed = TRUE]
      /\ UNCHANGED <<ships, expired, ledger, opened, kills>>
  BY DEF Claim, FieldInv, FieldTypeOK, Callers
<1>2. /\ x \in CallState /\ x.step = "credits" /\ x.what = w.what /\ x.ship = w.ship /\ x.id = w.id
      /\ w.list \in Lists
  BY <1>1 DEF CallState, Taking
<1>. HIDE DEF x
<1>3. calls' \in [Callers -> CallState] /\ calls'[p] = x /\ \A d \in Callers \ {p} : calls'[d] = calls[d]
  BY <1>1, <1>2, Written DEF FieldInv
<1>4. salvage' \in Lists /\ DOMAIN salvage' = DOMAIN w.list
  <2>1. CASE w.id \in DOMAIN w.list
    <3>1. w.list[w.id] \in Item
      BY <1>2, <2>1, ListFacts
    <3>2. [w.list[w.id] EXCEPT !.claimed = TRUE] \in Item
      BY <3>1 DEF Item
    <3>3. salvage' = [w.list EXCEPT ![w.id] = [w.list[w.id] EXCEPT !.claimed = TRUE]]
      BY <1>1
    <3>. QED
      BY <1>2, <2>1, <3>2, <3>3, SetFacts
  <2>2. CASE w.id \notin DOMAIN w.list
    <3>1. w.list = [i \in DOMAIN w.list |-> w.list[i]]
      BY <1>2, ListFacts
    <3>2. salvage' = w.list
      BY <1>1, <2>2, <3>1
    <3>. QED
      BY <1>2, <3>2
  <2>. QED
    BY <2>1, <2>2
<1>5. FieldTypeOK'
  BY <1>1, <1>3, <1>4 DEF FieldInv, FieldTypeOK, ledger
<1>6. ShipInHand(p)'
  BY <1>1, <1>2, <1>3 DEF FieldInv, ShipsInHand, ShipInHand
<1>7. ASSUME OneAtATime
      PROVE  /\ DOMAIN salvage' \subseteq added' /\ ListInHand(p)'
             /\ Balanced(InHand(calls[p])) => Balanced(InHand(calls[p]))'
  <2>1. ListInHand(p) /\ DOMAIN salvage \subseteq added
    BY <1>1, <1>7 DEF FieldInv, ListsInHand
  <2>2. w.list = salvage /\ w.id \in Unclaimed(salvage) /\ w.what = salvage[w.id]
    BY <1>1, <2>1 DEF ListInHand
  <2>3. DOMAIN salvage' \subseteq added'
    BY <1>1, <1>4, <2>1, <2>2 DEF ledger
  <2>4. salvage \in Lists /\ w.id \in DOMAIN salvage /\ ~salvage[w.id].claimed
    BY <2>2 DEF FieldInv, FieldTypeOK, Unclaimed
  <2>5. salvage'[w.id].claimed /\ \A i \in DOMAIN salvage \ {w.id} : salvage'[i] = salvage[i]
    <3>1. salvage[w.id] \in Item
      BY <2>4, ListFacts
    <3>. QED
      BY <1>1, <2>2, <2>4, <3>1 DEF Item
  <2>6. w.id \in DOMAIN salvage' \ Unclaimed(salvage')
    BY <1>4, <2>2, <2>4, <2>5 DEF Unclaimed
  <2>7. ListInHand(p)'
    BY <1>1, <1>2, <1>3, <2>6 DEF ListInHand, Taking
  <2>8. /\ Stock(salvage).units = Stock(salvage').units + w.what.units
        /\ Stock(salvage).credits = Stock(salvage').credits + w.what.credits
    BY <1>4, <2>2, <2>4, <2>5, <2>6, StockPut
  <2>. SUFFICES ASSUME Balanced(InHand(calls[p])) PROVE Balanced(InHand(calls[p]))'
    BY <2>3, <2>7
  <2>9. /\ InHand(w).units = 0 /\ InHand(w).credits = 0
        /\ InHand(x).units = w.what.units /\ InHand(x).credits = w.what.credits
    BY <1>1, <1>2 DEF InHand
  <2>10. Carried' = Carried
    BY <1>1 DEF Carried
  <2>11. /\ Stock(salvage').units \in Nat /\ Stock(salvage').credits \in Nat
         /\ w.what.units \in Nat /\ w.what.credits \in Nat
    BY <1>1, <1>4, StockFacts, HandFacts
  <2>. QED
    <3>1. /\ Carried.units \in Nat /\ Carried.credits \in Nat
          /\ Stock(salvage).units \in Nat /\ Stock(salvage).credits \in Nat
      BY CarriedFacts, StockFacts DEF FieldInv, FieldTypeOK, Amount
    <3>2. Supply'.units = Supply.units + 0 /\ Supply'.credits = Supply.credits + 0
      BY <1>1, <1>5, SupplyMoves DEF FieldInv, FieldTypeOK, Amount, ledger
    <3>3. /\ Carried'.units + Stock(salvage').units + InHand(calls'[p]).units
               = Carried.units + Stock(salvage).units + InHand(calls[p]).units + 0
          /\ Carried'.credits + Stock(salvage').credits + InHand(calls'[p]).credits
               = Carried.credits + Stock(salvage).credits + InHand(calls[p]).credits + 0
      BY <1>1, <1>3, <2>8, <2>9, <2>10, <2>11, <3>1
    <3>. QED
      BY <1>1, <1>5, <3>2, <3>3, Moves
<1>. QED
  BY <1>1, <1>3, <1>5, <1>6, <1>7, StepKeeps

LEMMA SettleKeeps ==
  ASSUME FieldInv, NEW p \in Pilots, Settle(p)
  PROVE  FieldInv'
<1>. DEFINE w == calls[p]
            L == w.list
            rest == Container(w.left, 0)
<1>1. /\ w \in CallState /\ w.step = "settle" /\ Recall(p, AtRest) /\ p \in Callers /\ AtRest \in CallState
      /\ salvage' = IF w.id \notin DOMAIN L THEN L
                    ELSE IF w.left = 0 THEN Without(L, {w.id})
                    ELSE [L EXCEPT ![w.id] = rest]
      /\ UNCHANGED <<ships, expired, ledger, opened, kills>>
  BY RestFacts DEF Settle, FieldInv, FieldTypeOK, Callers
<1>2. L \in Lists /\ w.left \in Nat
  BY <1>1 DEF CallState
<1>3. rest \in Item /\ rest.units = w.left /\ rest.credits = 0 /\ rest.claimed = FALSE
  BY <1>2 DEF Container, Item
<1>. HIDE DEF rest
<1>4. calls' \in [Callers -> CallState] /\ calls'[p] = AtRest /\ \A d \in Callers \ {p} : calls'[d] = calls[d]
  BY <1>1, Written DEF FieldInv
<1>5. salvage' \in Lists
  BY <1>1, <1>2, <1>3, WithoutFacts, SetFacts
<1>6. FieldTypeOK'
  BY <1>1, <1>4, <1>5 DEF FieldInv, FieldTypeOK, ledger
<1>7. ShipInHand(p)'
  BY <1>1, <1>4 DEF FieldInv, ShipsInHand, ShipInHand, AtRest
<1>8. ASSUME OneAtATime
      PROVE  /\ DOMAIN salvage' \subseteq added' /\ ListInHand(p)'
             /\ Balanced(InHand(calls[p])) => Balanced(InHand(calls[p]))'
  <2>1. ListInHand(p) /\ DOMAIN salvage \subseteq added
    BY <1>1, <1>8 DEF FieldInv, ListsInHand
  <2>2. L = salvage /\ w.id \in DOMAIN salvage /\ w.id \notin Unclaimed(salvage)
    BY <1>1, <2>1 DEF ListInHand, Taking
  <2>3. ListInHand(p)'
    BY <1>4 DEF ListInHand, AtRest, Taking
  <2>4. /\ DOMAIN salvage' \subseteq DOMAIN salvage
        /\ Stock(salvage').units = Stock(salvage).units + w.left
        /\ Stock(salvage').credits = Stock(salvage).credits
    <3>1. CASE w.left = 0
      <4>1. salvage' = Without(salvage, {w.id})
        BY <1>1, <2>2, <3>1
      <4>2. {w.id} \cap Unclaimed(salvage) = {}
        BY <2>2
      <4>3. /\ Held(salvage, {w.id} \cap Unclaimed(salvage)).units = 0
            /\ Held(salvage, {w.id} \cap Unclaimed(salvage)).credits = 0
        BY <4>2, HeldNone
      <4>4. /\ Stock(salvage).units = Stock(Without(salvage, {w.id})).units + 0
            /\ Stock(salvage).credits = Stock(Without(salvage, {w.id})).credits + 0
        BY <1>2, <2>2, <4>3, StockWithout
      <4>. QED
        <5>. DEFINE D == {w.id}
        <5>4. salvage \in Lists
          BY <1>2, <2>2
        <5>5. DOMAIN Without(salvage, D) = DOMAIN salvage \ D
          <6>. HIDE DEF D
          <6>. QED
            BY <5>4, WithoutFacts
        <5>1. DOMAIN salvage' \subseteq DOMAIN salvage
          BY <4>1, <5>5
        <5>2. Stock(salvage').units \in Nat /\ Stock(salvage').credits \in Nat
          BY <1>5, StockFacts
        <5>3. Stock(salvage').units = Stock(salvage).units /\ Stock(salvage').credits = Stock(salvage).credits
          BY <4>1, <4>4, <5>2
        <5>. QED
          BY <1>2, <2>2, <3>1, <5>1, <5>2, <5>3, StockFacts
    <3>2. CASE w.left # 0
      <4>1. salvage' = [salvage EXCEPT ![w.id] = rest]
        BY <1>1, <2>2, <3>2
      <4>2. /\ DOMAIN salvage' = DOMAIN salvage \cup {w.id} /\ salvage'[w.id] = rest
            /\ \A i \in DOMAIN salvage \ {w.id} : salvage'[i] = salvage[i]
        BY <2>2, <4>1
      <4>3. /\ Stock(salvage').units = Stock(salvage).units + rest.units
            /\ Stock(salvage').credits = Stock(salvage).credits + rest.credits
        BY <1>2, <1>3, <1>5, <2>2, <4>2, StockPut
      <4>. QED
        BY <1>2, <1>3, <2>2, <4>2, <4>3, StockFacts
    <3>. QED
      BY <3>1, <3>2
  <2>5. DOMAIN salvage' \subseteq added'
    BY <1>1, <2>1, <2>4 DEF ledger
  <2>. SUFFICES ASSUME Balanced(InHand(calls[p])) PROVE Balanced(InHand(calls[p]))'
    BY <2>3, <2>5
  <2>6. /\ InHand(w).units = w.left /\ InHand(w).credits = 0
        /\ InHand(calls'[p]).units = 0 /\ InHand(calls'[p]).credits = 0
    BY <1>1, <1>4 DEF InHand, AtRest
  <2>7. Carried' = Carried
    BY <1>1 DEF Carried
  <2>8. kills' = kills /\ p \in Callers
    BY <1>1
  <2>. QED
    <3>1. /\ Carried.units \in Nat /\ Carried.credits \in Nat
          /\ Stock(salvage).units \in Nat /\ Stock(salvage).credits \in Nat
      BY CarriedFacts, StockFacts DEF FieldInv, FieldTypeOK, Amount
    <3>2. Supply'.units = Supply.units + 0 /\ Supply'.credits = Supply.credits + 0
      BY <1>1, <1>6, SupplyMoves DEF FieldInv, FieldTypeOK, Amount, ledger
    <3>3. /\ Carried'.units + Stock(salvage').units + InHand(calls'[p]).units
               = Carried.units + Stock(salvage).units + InHand(calls[p]).units + 0
          /\ Carried'.credits + Stock(salvage').credits + InHand(calls'[p]).credits
               = Carried.credits + Stock(salvage).credits + InHand(calls[p]).credits + 0
      BY <1>2, <2>4, <2>6, <2>7, <3>1
    <3>. QED
      BY <1>6, <2>8, <3>2, <3>3, Moves
<1>. QED
  BY <1>1, <1>4, <1>6, <1>7, <1>8, StepKeeps

LEMMA KillCallKeeps ==
  ASSUME FieldInv, NEW c \in Callers, KillCall(c)
  PROVE  FieldInv'
<1>1. /\ calls[c] \in CallState /\ calls[c].step # "idle" /\ Recall(c, AtRest) /\ AtRest \in CallState
      /\ kills \in Nat /\ kills' = kills + 1
      /\ UNCHANGED <<salvage, ships, expired, ledger, opened>>
  BY RestFacts DEF KillCall, FieldInv, FieldTypeOK
<1>2. calls' \in [Callers -> CallState] /\ calls'[c] = AtRest /\ \A d \in Callers \ {c} : calls'[d] = calls[d]
  BY <1>1, Written DEF FieldInv
<1>3. FieldTypeOK'
  BY <1>1, <1>2 DEF FieldInv, FieldTypeOK, ledger
<1>4. c \in Pilots => ShipInHand(c)'
  BY <1>1, <1>2 DEF FieldInv, ShipsInHand, ShipInHand, AtRest
<1>5. ListInHand(c)'
  BY <1>2 DEF ListInHand, AtRest, Taking
<1>6. Balanced(InHand(calls[c])) => Balanced(InHand(calls[c]))'
  <2>. SUFFICES ASSUME Balanced(InHand(calls[c])) PROVE Balanced(InHand(calls[c]))'
    OBVIOUS
  <2>1. /\ Carried.units \in Nat /\ Carried.credits \in Nat
        /\ Stock(salvage).units \in Nat /\ Stock(salvage).credits \in Nat
        /\ InHand(calls[c]).units \in Nat /\ InHand(calls[c]).credits \in Nat
        /\ Supply.units \in Int /\ Supply.credits \in Int
    BY <1>1, <1>3, CarriedFacts, StockFacts, HandFacts, SupplyMoves DEF FieldInv, FieldTypeOK, Amount
  <2>2. /\ Carried' = Carried /\ Supply' = Supply /\ Stock(salvage)' = Stock(salvage)
        /\ InHand(calls[c])'.units = 0 /\ InHand(calls[c])'.credits = 0 /\ kills' # 0
    BY <1>1, <1>2 DEF Carried, Supply, ledger, InHand, AtRest
  <2>. QED
    BY <2>1, <2>2 DEF Balanced
<1>. QED
  BY <1>1, <1>2, <1>3, <1>4, <1>5, <1>6, StepKeeps DEF FieldInv, ListsInHand, ledger

LEMMA IdleKeeps ==
  ASSUME FieldInv, UNCHANGED <<salvage, ships, calls, added, born, lapsed, kills>>
  PROVE  FieldInv'
BY DEF FieldInv, FieldTypeOK, ShipsInHand, ShipInHand, Single, ListsInHand, ListInHand, Books, AllIdle,
       Balanced, Carried, Supply

LEMMA FieldStepKeeps == FieldInv /\ [FieldNext]_fieldVars => FieldInv'
<1>. SUFFICES ASSUME FieldInv, [FieldNext]_fieldVars PROVE FieldInv'
  OBVIOUS
<1>1. ASSUME NEW p \in Pilots, Dump(p) \/ Look(p) PROVE FieldInv'
  BY <1>1, DumpKeeps, LookKeeps
<1>2. ASSUME NEW f \in Fights, DropWreck(f) PROVE FieldInv'
  BY <1>2, DropWreckKeeps
<1>3. ASSUME NEW c \in Callers, GoOn(c) \/ KillCall(c) PROVE FieldInv'
  BY <1>3, ReadListKeeps, PushKeeps, UnloadKeeps, ClaimKeeps, TakeCreditsKeeps, TakeCargoKeeps,
     ReloadKeeps, SettleKeeps, KillCallKeeps DEF GoOn
<1>4. ASSUME NEW id \in Ids, Expire(id) PROVE FieldInv'
  BY <1>4, IdleKeeps DEF Expire, ledger
<1>5. ASSUME UNCHANGED fieldVars PROVE FieldInv'
  BY <1>5, IdleKeeps DEF fieldVars, ledger
<1>. QED
  BY <1>1, <1>2, <1>3, <1>4, <1>5 DEF FieldNext

LEMMA FieldConserves == FieldInv => (OneAtATime => Conserved)
<1>. SUFFICES ASSUME FieldInv, OneAtATime PROVE Conserved
  OBVIOUS
<1>. DEFINE u == [c \in Callers |-> calls[c].what.units]
            k == [c \in Callers |-> calls[c].what.credits]
<1>1. /\ Carried.units \in Nat /\ Carried.credits \in Nat
      /\ Stock(salvage).units \in Nat /\ Stock(salvage).credits \in Nat
  BY CarriedFacts, StockFacts DEF FieldInv, FieldTypeOK, Amount
<1>2. /\ Holdings.units = Carried.units + Stock(salvage).units + SumFunctionOnSet(u, InFlight)
      /\ Holdings.credits = Carried.credits + Stock(salvage).credits + SumFunctionOnSet(k, InFlight)
      /\ Holdings = [units |-> Holdings.units, credits |-> Holdings.credits]
      /\ Supply = [units |-> Supply.units, credits |-> Supply.credits]
  BY DEF Holdings, Carried, Stock, Supply
<1>3. \A c \in Callers : /\ u[c] = calls[c].what.units /\ k[c] = calls[c].what.credits
                         /\ calls[c].what.units \in Nat /\ calls[c].what.credits \in Nat
  BY HandFacts DEF FieldInv, FieldTypeOK
<1>. HIDE DEF u, k
<1>4. \A p \in Pilots : ships[p].cargo <= Holds
  BY DEF FieldInv, ShipsInHand, ShipInHand
<1>5. CASE AllIdle
  <2>1. InFlight = {}
    BY <1>5 DEF AllIdle, InFlight
  <2>2. SumFunctionOnSet(u, InFlight) = 0 /\ SumFunctionOnSet(k, InFlight) = 0
    BY <2>1, SumOfNone
  <2>3. Balanced([units |-> 0, credits |-> 0])
    BY <1>5 DEF FieldInv, Books
  <2>4. /\ Holdings.units <= Supply.units /\ Holdings.credits <= Supply.credits
        /\ kills = 0 => Holdings.units = Supply.units /\ Holdings.credits = Supply.credits
    BY <1>1, <1>2, <2>2, <2>3 DEF Balanced
  <2>. QED
    BY <1>2, <1>4, <2>4 DEF Conserved
<1>6. CASE ~AllIdle
  <2>1. PICK c \in Callers : calls[c].step # "idle"
    BY <1>6 DEF AllIdle
  <2>2. Balanced(InHand(calls[c])) /\ \A d \in Callers \ {c} : calls[d].step = "idle"
    BY <2>1 DEF FieldInv, Books, Single
  <2>3. InHand(calls[c]).units \in Nat /\ InHand(calls[c]).credits \in Nat
    BY HandFacts DEF FieldInv, FieldTypeOK, Amount
  <2>4. CASE calls[c].step \in {"append", "push"}
    <3>1. InFlight = {c}
      BY <2>2, <2>4 DEF InFlight
    <3>2. IsFiniteSet({c}) /\ {c} \ {c} = {}
      BY FS_Singleton
    <3>3. /\ SumFunctionOnSet(u, {c}) = u[c] + SumFunctionOnSet(u, {c} \ {c})
          /\ SumFunctionOnSet(k, {c}) = k[c] + SumFunctionOnSet(k, {c} \ {c})
      BY <1>3, <3>2, SumTakesOut
    <3>4. /\ SumFunctionOnSet(u, InFlight) = u[c] + SumFunctionOnSet(u, {})
          /\ SumFunctionOnSet(k, InFlight) = k[c] + SumFunctionOnSet(k, {})
      BY <3>1, <3>2, <3>3, Zenon
    <3>5. SumFunctionOnSet(u, {}) = 0 /\ SumFunctionOnSet(k, {}) = 0
      BY SumOfNone
    <3>6. /\ SumFunctionOnSet(u, InFlight) = InHand(calls[c]).units
          /\ SumFunctionOnSet(k, InFlight) = InHand(calls[c]).credits
      BY <1>3, <2>4, <3>4, <3>5 DEF InHand
    <3>. QED
      BY <1>2, <1>4, <1>6, <2>2, <3>6 DEF Balanced, Conserved
  <2>5. CASE calls[c].step \notin {"append", "push"}
    <3>1. InFlight = {}
      BY <2>2, <2>5 DEF InFlight
    <3>2. SumFunctionOnSet(u, InFlight) = 0 /\ SumFunctionOnSet(k, InFlight) = 0
      BY <3>1, SumOfNone
    <3>3. Supply.units \in Int /\ Supply.credits \in Int
      BY SupplyIsInt DEF FieldInv
    <3>4. /\ Carried.units + Stock(salvage).units <= Supply.units
          /\ Carried.credits + Stock(salvage).credits <= Supply.credits
      BY <1>1, <2>2, <2>3, <3>3 DEF Balanced
    <3>5. Holdings.units <= Supply.units /\ Holdings.credits <= Supply.credits
      BY <1>1, <1>2, <3>2, <3>4
    <3>. QED
      BY <1>4, <1>6, <3>5 DEF Conserved
  <2>. QED
    BY <2>4, <2>5
<1>. QED
  BY <1>5, <1>6

-----------------------------------------------------------------------------
(* Claims.                                                                 *)

\* A container that is marked as claimed is being collected.
Claimed(id) == id \in DOMAIN salvage /\ salvage[id].claimed
Collects(p, id) == calls[p].step \in Taking /\ calls[p].id = id
Attended == \A id \in Ids : Claimed(id) => \E p \in Pilots : Collects(p, id)

\* A claim stays with its collector, and any other call finds none.
LEMMA AttendedNext ==
  ASSUME FieldInv, OneAtATime, Attended, FieldNext, kills' = 0
  PROVE  Attended'
<1>1. ASSUME NEW c \in Callers, \A d \in Callers \ {c} : calls[d].step = "idle",
             calls[c].step \notin Taking, NEW id \in Ids
      PROVE  ~Claimed(id)
  BY <1>1 DEF Attended, Collects, Taking, Callers
<1>2. \A c \in Callers : calls[c].step # "idle" =>
        /\ calls[c] \in CallState /\ ListInHand(c)
        /\ \A d \in Callers \ {c} : calls[d].step = "idle"
  BY DEF FieldInv, Single, ListsInHand, FieldTypeOK
<1>3. ASSUME AllIdle, salvage' = salvage PROVE Attended'
  BY <1>3 DEF AllIdle, Attended, Collects, Claimed, Taking, Callers
<1>4. ASSUME NEW c \in Callers, ReadList(c) \/ (c \in Pilots /\ Unload(c)) PROVE Attended'
  <2>1. calls[c].step # "idle" /\ calls[c].step \notin Taking /\ salvage' = salvage
    BY <1>4 DEF ReadList, Unload, Taking
  <2>. QED
    BY <1>1, <1>2, <2>1 DEF Attended, Claimed
<1>5. ASSUME NEW p \in Pilots, TakeCredits(p) \/ TakeCargo(p) \/ Reload(p) PROVE Attended'
  <2>1. salvage' = salvage /\ calls[p] \in CallState /\ calls[p].step \in Taking
    BY <1>5 DEF TakeCredits, TakeCargo, Reload, FieldInv, FieldTypeOK, Callers, Taking
  <2>2. calls'[p].step \in Taking /\ calls'[p].id = calls[p].id
    <3>. DEFINE x == calls[p]
    <3>1. /\ x \in CallState /\ calls \in [Callers -> CallState] /\ p \in Callers
      BY <2>1 DEF FieldInv, FieldTypeOK, Callers
    <3>2. \/ calls' = [calls EXCEPT ![p] = [x EXCEPT !.step = "cargo"]]
          \/ \E n : calls' = [calls EXCEPT ![p] = [x EXCEPT !.step = "reload", !.left = n]]
          \/ calls' = [calls EXCEPT ![p] = [x EXCEPT !.step = "settle", !.list = salvage]]
      BY <1>5 DEF TakeCredits, TakeCargo, Reload, Recall
    <3>. HIDE DEF x
    <3>3. \A y : calls' = [calls EXCEPT ![p] = y] => calls'[p] = y
      BY <3>1
    <3>4. /\ [x EXCEPT !.step = "cargo"].id = x.id
          /\ [x EXCEPT !.step = "cargo"].step = "cargo"
          /\ [x EXCEPT !.step = "settle", !.list = salvage].id = x.id
          /\ [x EXCEPT !.step = "settle", !.list = salvage].step = "settle"
          /\ \A n : /\ [x EXCEPT !.step = "reload", !.left = n].id = x.id
                   /\ [x EXCEPT !.step = "reload", !.left = n].step = "reload"
      BY <3>1 DEF CallState
    <3>5. ASSUME NEW y, y.id = x.id, y.step \in Taking, calls' = [calls EXCEPT ![p] = y]
          PROVE  calls'[p].step \in Taking /\ calls'[p].id = x.id
      <4>1. calls'[p] = y
        BY <3>3, <3>5
      <4>. QED
        BY <3>5, <4>1
    <3>6. CASE calls' = [calls EXCEPT ![p] = [x EXCEPT !.step = "cargo"]]
      <4>. DEFINE y == [x EXCEPT !.step = "cargo"]
      <4>1. y.id = x.id /\ y.step \in Taking
        BY <3>4 DEF Taking
      <4>. HIDE DEF y
      <4>2. calls' = [calls EXCEPT ![p] = y]
        BY <3>6 DEF y
      <4>3. calls'[p].step \in Taking /\ calls'[p].id = x.id
        BY <3>5, <4>1, <4>2
      <4>. QED
        BY <4>3 DEF x
    <3>7. CASE \E n : calls' = [calls EXCEPT ![p] = [x EXCEPT !.step = "reload", !.left = n]]
      <4>. PICK n : calls' = [calls EXCEPT ![p] = [x EXCEPT !.step = "reload", !.left = n]]
        BY <3>7
      <4>. DEFINE y == [x EXCEPT !.step = "reload", !.left = n]
      <4>1. y.id = x.id /\ y.step \in Taking
        BY <3>4 DEF Taking
      <4>2. calls' = [calls EXCEPT ![p] = y]
        OBVIOUS
      <4>. HIDE DEF y
      <4>3. calls'[p].step \in Taking /\ calls'[p].id = x.id
        BY <3>5, <4>1, <4>2
      <4>. QED
        BY <4>3 DEF x
    <3>8. CASE calls' = [calls EXCEPT ![p] = [x EXCEPT !.step = "settle", !.list = salvage]]
      <4>. DEFINE y == [x EXCEPT !.step = "settle", !.list = salvage]
      <4>1. y.id = x.id /\ y.step \in Taking
        BY <3>4 DEF Taking
      <4>2. calls' = [calls EXCEPT ![p] = y]
        BY <3>8
      <4>. HIDE DEF y
      <4>3. calls'[p].step \in Taking /\ calls'[p].id = x.id
        BY <3>5, <4>1, <4>2
      <4>. QED
        BY <4>3 DEF x
    <3>. QED
      BY <3>2, <3>6, <3>7, <3>8
  <2>3. \A q \in Pilots \ {p} : calls'[q] = calls[q]
    BY <1>5 DEF TakeCredits, TakeCargo, Reload, Recall, FieldInv, FieldTypeOK, Callers
  <2>. QED
    BY <2>1, <2>2, <2>3 DEF Attended, Claimed, Collects
<1>6. ASSUME NEW c \in Callers, Push(c) PROVE Attended'
  <2>1. calls[c].step = "push"
    BY <1>6 DEF Push
  <2>2. \A id \in Ids : ~Claimed(id)
    BY <1>1, <1>2, <2>1 DEF Taking
  <2>3. calls[c].list = salvage /\ ~calls[c].what.claimed /\ salvage \in Lists /\ calls[c].what \in Item
    BY <1>2, <2>1 DEF ListInHand, FieldInv, FieldTypeOK, CallState
  <2>. DEFINE old == DOMAIN salvage \cap expired
              M == Without(salvage, old)
  <2>4. PICK id \in Ids : salvage' = With(M, id, calls[c].what)
    BY <1>6, <2>3 DEF Push
  <2>5. M \in Lists /\ \A i \in DOMAIN M : i \in DOMAIN salvage /\ M[i] = salvage[i]
    <3>. HIDE DEF old
    <3>1. /\ M \in Lists /\ DOMAIN M = DOMAIN salvage \ old
          /\ \A i \in DOMAIN salvage \ old : M[i] = salvage[i]
      BY <2>3, WithoutFacts
    <3>. QED
      BY <3>1
  <2>. HIDE DEF M, old
  <2>6. /\ DOMAIN salvage' = DOMAIN M \cup {id} /\ salvage'[id] = calls[c].what
        /\ \A j \in DOMAIN M \ {id} : salvage'[j] = M[j]
    <3>1. /\ DOMAIN With(M, id, calls[c].what) = DOMAIN M \cup {id}
          /\ With(M, id, calls[c].what)[id] = calls[c].what
          /\ \A j \in DOMAIN M \ {id} : With(M, id, calls[c].what)[j] = M[j]
      <4>. DEFINE v == calls[c].what
      <4>1. v \in Item
        BY <2>3
      <4>. HIDE DEF v
      <4>2. /\ DOMAIN With(M, id, v) = DOMAIN M \cup {id} /\ With(M, id, v)[id] = v
            /\ \A j \in DOMAIN M \ {id} : With(M, id, v)[j] = M[j]
        BY <2>5, <4>1, WithFacts
      <4>. QED
        BY <4>2 DEF v
    <3>. QED
      BY <2>4, <3>1
  <2>7. \A i \in Ids : ~Claimed(i)'
    BY <2>2, <2>3, <2>5, <2>6 DEF Claimed
  <2>. QED
    BY <2>7 DEF Attended
<1>7. ASSUME NEW p \in Pilots, Claim(p) PROVE Attended'
  <2>1. calls[p].step = "claim" /\ p \in Callers
    BY <1>7 DEF Claim, Callers
  <2>2. \A id \in Ids : ~Claimed(id)
    BY <1>1, <1>2, <2>1 DEF Taking
  <2>3. calls[p].list = salvage
    BY <1>2, <2>1 DEF ListInHand
  <2>4. calls'[p].step \in Taking /\ calls'[p].id = calls[p].id
    BY <1>2, <1>7, <2>1 DEF Claim, Recall, FieldInv, FieldTypeOK, CallState, Taking
  <2>5. /\ DOMAIN salvage' = DOMAIN salvage
        /\ \A i \in DOMAIN salvage \ {calls[p].id} : salvage'[i] = salvage[i]
    BY <1>7, <2>3 DEF Claim
  <2>. QED
    BY <2>2, <2>4, <2>5 DEF Attended, Claimed, Collects
<1>8. ASSUME NEW p \in Pilots, Settle(p) PROVE Attended'
  <2>. DEFINE x == calls[p]
  <2>1. x.step = "settle" /\ p \in Callers
    BY <1>8 DEF Settle, Callers
  <2>2. x.list = salvage /\ salvage \in Lists /\ x.id \in DOMAIN salvage
    BY <1>2, <2>1 DEF ListInHand, FieldInv, FieldTypeOK, Taking
  <2>3. \A q \in Pilots \ {p} : calls[q].step = "idle"
    BY <1>2, <2>1 DEF Callers
  <2>4. \A id \in Ids : Claimed(id) => id = x.id
    BY <2>3 DEF Attended, Collects, Taking
  <2>. HIDE DEF x
  <2>5. CASE x.left = 0
    <3>1. salvage' = Without(salvage, {x.id})
      BY <1>8, <2>2, <2>5 DEF Settle, x
    <3>2. \A i \in DOMAIN salvage' : i \in DOMAIN salvage \ {x.id} /\ salvage'[i] = salvage[i]
      <4>1. /\ DOMAIN Without(salvage, {x.id}) = DOMAIN salvage \ {x.id}
            /\ \A i \in DOMAIN salvage \ {x.id} : Without(salvage, {x.id})[i] = salvage[i]
        BY <2>2, WithoutFacts
      <4>. QED
        BY <3>1, <4>1
    <3>. QED
      BY <2>4, <3>2 DEF Attended, Claimed
  <2>6. CASE x.left # 0
    <3>1. salvage' = [salvage EXCEPT ![x.id] = Container(x.left, 0)]
      BY <1>8, <2>2, <2>6 DEF Settle, x
    <3>2. ~salvage'[x.id].claimed /\ DOMAIN salvage' = DOMAIN salvage
      BY <2>2, <3>1 DEF Container
    <3>3. \A i \in DOMAIN salvage \ {x.id} : salvage'[i] = salvage[i]
      BY <3>1
    <3>. QED
      BY <2>4, <3>2, <3>3 DEF Attended, Claimed
  <2>. QED
    BY <2>5, <2>6
<1>9. ASSUME NEW c \in Callers, KillCall(c) PROVE FALSE
  BY <1>9 DEF KillCall, FieldInv, FieldTypeOK
<1>10. ASSUME NEW p \in Pilots, Dump(p) \/ Look(p) PROVE Attended'
  BY <1>3, <1>10 DEF Dump, Look, MayCall
<1>11. ASSUME NEW f \in Fights, DropWreck(f) PROVE Attended'
  BY <1>3, <1>11 DEF DropWreck, MayCall
<1>12. ASSUME NEW id \in Ids, Expire(id) PROVE Attended'
  BY <1>12 DEF Expire, Attended, Claimed, Collects
<1>13. ASSUME NEW c \in Callers, GoOn(c) PROVE Attended'
  BY <1>4, <1>5, <1>6, <1>7, <1>8, <1>13 DEF GoOn
<1>. QED
  BY <1>9, <1>10, <1>11, <1>12, <1>13 DEF FieldNext

LEMMA AttendedKeeps ==
  FieldInv /\ (OneAtATime /\ kills = 0 => Attended) /\ [FieldNext]_fieldVars
    => (OneAtATime /\ kills = 0 => Attended)'
<1>1. ASSUME FieldInv, FieldNext PROVE kills' = 0 => kills = 0
  <2>1. ASSUME NEW c \in Callers, KillCall(c) PROVE kills' # 0
    BY <1>1, <2>1 DEF KillCall, FieldInv, FieldTypeOK
  <2>2. ASSUME NEW c \in Callers, GoOn(c) PROVE kills' = kills
    BY <2>2 DEF GoOn, Unload, ReadList, Push, Claim, TakeCredits, TakeCargo, Reload, Settle
  <2>3. ASSUME NEW p \in Pilots, Dump(p) \/ Look(p) PROVE kills' = kills
    BY <2>3 DEF Dump, Look
  <2>4. ASSUME NEW f \in Fights, DropWreck(f) PROVE kills' = kills
    BY <2>4 DEF DropWreck
  <2>5. ASSUME NEW id \in Ids, Expire(id) PROVE kills' = kills
    BY <2>5 DEF Expire
  <2>. QED
    BY <1>1, <2>1, <2>2, <2>3, <2>4, <2>5 DEF FieldNext
<1>2. UNCHANGED fieldVars => ((OneAtATime /\ kills = 0 => Attended) <=> (OneAtATime /\ kills = 0 => Attended)')
  BY DEF fieldVars, Attended, Claimed, Collects
<1>. QED
  BY <1>1, <1>2, AttendedNext

-----------------------------------------------------------------------------
(* Theorems.                                                               *)

\* However the calls of different pilots and the drops of fights overlap and
\* wherever they are killed, a ship is as its own call has read it (a pilot has
\* one call at a time, dump_cargo or salvage_collect); and while calls do not
\* overlap at all, units and credits balance at each of their steps.
THEOREM FieldInvariance == FieldSpec => []FieldInv
<1>. QED
  BY FieldStarts, FieldStepKeeps, PTL DEF FieldSpec

\* While calls do not overlap, nothing is had twice, wherever a function is
\* killed, since salvage_collect marks a container before it takes from it; and
\* nothing is lost if none is killed, since it puts back what does not fit.
THEOREM SalvageIsConserved == FieldSpec => [](OneAtATime => Conserved)
<1>. QED
  BY FieldInvariance, FieldConserves, PTL

\* While calls do not overlap and none is killed, a container is marked as
\* claimed only while somebody is collecting it: salvage_collect takes the mark
\* off with its last write, whether it removes the container or puts it back.
THEOREM ClaimsAreAttended == FieldSpec => [](OneAtATime /\ kills = 0 => Attended)
<1>1. FieldInit => (OneAtATime /\ kills = 0 => Attended)
  BY RestFacts DEF FieldInit, Attended, Claimed
<1>. QED
  BY <1>1, AttendedKeeps, FieldInvariance, PTL DEF FieldSpec
=============================================================================
