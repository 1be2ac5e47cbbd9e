------------------------ MODULE CombatEncounterProofs ------------------------
(***************************************************************************)
(* Proofs about the combat column, in five parts.                          *)
(*                                                                         *)
(* First, what holds for any number of characters, ticks, requests, fights *)
(* and crashes, and however resolutions overlap: types, the fence, what    *)
(* becomes of salvage and tolls.                                           *)
(*                                                                         *)
(* The others suppose that no resolution outlives its mark.  Resolutions   *)
(* may overlap, the next tick overtaking one that is running or was        *)
(* killed, and any function may be killed.                                 *)
(*                                                                         *)
(* Second, at most one resolution can still write the column: the one that *)
(* entered last.                                                           *)
(*                                                                         *)
(* Third, the log has one entry for each round, in order, and a second one *)
(* only for a round that was cut short with a part of it in the column.    *)
(*                                                                         *)
(* Fourth, in a sector's first fight, as long as no resolution was cut     *)
(* short that left the tables and the column apart: wrecks are made once,  *)
(* and the tables agree with the column.                                   *)
(*                                                                         *)
(* Fifth, the column implements one atomic encounter.                      *)
(***************************************************************************)
EXTENDS EncounterRefinement, TLAPS

-----------------------------------------------------------------------------
(* The operators on encounters.                                            *)

\* An empty column is a column.
LEMMA EmptyType == Empty \in Column
  BY DEF Empty, Column, NoEncounter, Encounter, Seats, Acts, Lucks

\* A new fight is a well-formed encounter.
LEMMA FreshType ==
  ASSUME NEW seen \in Rosters, NEW a \in BOOLEAN, NEW luck \in Lucks
  PROVE  Fresh(seen, a, luck) \in Encounter
  BY DEF Fresh, Rosters, Encounter, Seats, Acts, Lucks

LEMMA EnrolledType ==
  ASSUME NEW e \in Encounter, NEW p \in Players, NEW seat \in Seats
  PROVE  Enrolled(e, p, seat) \in Encounter
  BY DEF Enrolled, Encounter

LEMMA SubmittedType ==
  ASSUME NEW e \in Encounter, NEW p \in Players, NEW a \in Acts \cup {"none"}
  PROVE  Submitted(e, p, a) \in Encounter
  BY DEF Submitted, Encounter

\* What settling a round keeps and what it changes.
LEMMA SettledFields ==
  ASSUME NEW e \in Encounter, NEW w
  PROVE  LET s == Settled(e, w) IN
         /\ s.round = e.round
         /\ s.paid = e.paid
         /\ s.luck = e.luck
         /\ s.log = Append(e.log, e.round)
         /\ s.ended = Over(e)
         /\ \A p \in Players : s.seat[p] = "out" =>
                                 p \in Fled(e) \/ e.seat[p] = "out"
         /\ \A p \in Fled(e) : s.seat[p] = "out"
         /\ \A p \in Players : e.seat[p] = "out" /\ p \notin Dead(e) => s.seat[p] = "out"
  BY DEF Settled, Encounter, Fled, Seats

LEMMA SettledType ==
  ASSUME NEW e \in Encounter, NEW w
  PROVE  Settled(e, w) \in Encounter
<1>1. Over(e) \in BOOLEAN
  BY DEF Over
<1>2. TollRegistry(e) \in BOOLEAN
  BY DEF TollRegistry
<1>3. (e.guard /\ Garrison \notin Dead(e)) \in BOOLEAN
  OBVIOUS
<1>4. Append(e.log, e.round) \in Seq(Nat)
  BY DEF Encounter
<1>5. [p \in Players |-> IF p \in Fled(e) THEN "out"
                         ELSE IF p \in Dead(e) \/ e.seat[p] = "down"
                         THEN IF p \in w THEN "gone" ELSE "down"
                         ELSE e.seat[p]] \in [Players -> Seats]
  BY DEF Encounter, Seats
<1>6. [p \in Players |-> "none"] \in [Players -> Acts \cup {"none"}]
  OBVIOUS
<1> QED
  BY <1>1, <1>2, <1>3, <1>4, <1>5, <1>6 DEF Settled, Encounter

LEMMA NextRoundType ==
  ASSUME NEW e \in Encounter, NEW luck \in Lucks
  PROVE  NextRound(e, luck) \in Encounter
<1>1. CASE e.ended
  BY <1>1 DEF NextRound
<1>2. CASE ~e.ended
  <2>1. e.round + 1 \in Nat
    BY DEF Encounter
  <2>2. NextRound(e, luck) = [e EXCEPT !.round = e.round + 1, !.luck = luck]
    BY <1>2 DEF NextRound
  <2> QED
    BY <2>1, <2>2 DEF Encounter
<1> QED
  BY <1>1, <1>2

LEMMA WrecksType ==
  ASSUME NEW e PROVE Wrecks(e) \subseteq Players
  BY DEF Wrecks

-----------------------------------------------------------------------------
(* Type correctness.                                                       *)

LEMMA ProcsSplit ==
  /\ Players \subseteq Procs /\ Ticks \subseteq Procs
  BY DEF Procs

\* What a request has read of the ships and the garrison.
LEMMA NobodyType == Nobody \in Rosters
  BY DEF Nobody, Rosters, Seats

LEMMA RosterType == Roster \in Rosters
  BY DEF Roster, Rosters, SeatOf, Seats

LEMMA SeenType ==
  ASSUME TypeOK, NEW p \in Players
  PROVE  /\ crew[p] \in Rosters /\ crew[p][p] \in Seats
         /\ [crew EXCEPT ![p][p] = SeatOf(p)] \in [Procs -> Rosters]
<1>1. crew[p] \in Rosters /\ p \in Players \cup {Garrison}
  BY ProcsSplit DEF TypeOK
<1>2. SeatOf(p) \in Seats
  BY DEF SeatOf, Seats
<1>3. [crew[p] EXCEPT ![p] = SeatOf(p)] \in Rosters
  BY <1>1, <1>2 DEF Rosters
<1> QED
  BY <1>1, <1>3 DEF TypeOK, Rosters

LEMMA InitType == Init => TypeOK
<1> SUFFICES ASSUME Init PROVE TypeOK
  OBVIOUS
<1>1. row \in Column /\ mem \in [Procs -> Column]
  BY EmptyType DEF Init
<1>2. armed \subseteq Players \cup {Garrison}
  BY DEF Init
<1>3. /\ drops \in [Players -> 0..2] /\ charged \in [Players -> Nat]
      /\ tries \in [Procs -> 0..3]
  BY DEF Init
<1>4. /\ pc \in [Procs -> Pcs] /\ choice \in [Procs -> Acts \cup {"none"}]
      /\ crew \in [Procs -> Rosters]
      /\ auto \in [Procs -> BOOLEAN]
      /\ todo \in [Procs -> SUBSET Players] /\ done \in [Procs -> SUBSET Players]
  BY NobodyType DEF Init, Pcs
<1> QED
  BY <1>1, <1>2, <1>3, <1>4 DEF Init, TypeOK

\* The memory of a process is a column whatever of these it does.
LEMMA ColumnType ==
  ASSUME NEW c \in Column
  PROVE  /\ c.enc \in Encounter /\ c.marker \in BOOLEAN
         /\ c.captured \subseteq Players /\ c.salvage \subseteq Players
         /\ \A e \in Encounter : [c EXCEPT !.enc = e] \in Column
         /\ \A b \in BOOLEAN : [c EXCEPT !.marker = b] \in Column
         /\ \A t \in SUBSET Players : [c EXCEPT !.captured = t] \in Column
         /\ \A t \in SUBSET Players : [c EXCEPT !.salvage = t] \in Column
  BY DEF Column

LEMMA JoinedType ==
  ASSUME TypeOK, NEW p \in Players
  PROVE  Joined(p) \in Column
<1>1. mem[p] \in Column
  BY ProcsSplit DEF TypeOK
<1>2. Enrolled(mem[p].enc, p, crew[p][p]) \in Encounter
  BY <1>1, ColumnType, SeenType, EnrolledType
<1> QED
  BY <1>1, <1>2, ColumnType DEF Joined, Column

LEMMA ActedType ==
  ASSUME TypeOK, NEW p \in Players
  PROVE  Acted(p) \in Column
<1>1. mem[p] \in Column /\ choice[p] \in Acts \cup {"none"}
  BY ProcsSplit DEF TypeOK
<1>2. Submitted(mem[p].enc, p, choice[p]) \in Encounter
  BY <1>1, ColumnType, SubmittedType
<1> QED
  BY <1>1, <1>2, ColumnType DEF Acted

LEMMA ImageType ==
  ASSUME TypeOK, NEW q \in Procs
  PROVE  Image(q) \in Column
<1>1. mem[q] \in Column
  BY DEF TypeOK
<1>2. Settled(mem[q].enc, done[q]) \in Encounter
  BY <1>1, ColumnType, SettledType
<1> QED
  BY <1>1, <1>2, ColumnType DEF Image, Column

\* A process that ends its request leaves a well-typed memory.
LEMMA FinishType ==
  ASSUME TypeOK, NEW q \in Procs, Finish(q)
  PROVE  /\ pc' \in [Procs -> Pcs] /\ mem' \in [Procs -> Column]
         /\ choice' \in [Procs -> Acts \cup {"none"}] /\ tries' \in [Procs -> 0..3]
         /\ crew' \in [Procs -> Rosters]
         /\ auto' \in [Procs -> BOOLEAN]
         /\ todo' \in [Procs -> SUBSET Players] /\ done' \in [Procs -> SUBSET Players]
<1>1. pc' \in [Procs -> Pcs]
  BY DEF TypeOK, Finish, Goto, Pcs
<1>2. mem' \in [Procs -> Column]
  BY EmptyType DEF TypeOK, Finish
<1>3. choice' \in [Procs -> Acts \cup {"none"}] /\ tries' \in [Procs -> 0..3]
  BY DEF TypeOK, Finish
<1>4. /\ crew' \in [Procs -> Rosters]
      /\ auto' \in [Procs -> BOOLEAN]
  BY NobodyType DEF TypeOK, Finish
<1>5. todo' \in [Procs -> SUBSET Players] /\ done' \in [Procs -> SUBSET Players]
  BY DEF TypeOK, Finish
<1> QED
  BY <1>1, <1>2, <1>3, <1>4, <1>5

\* Every step of a player's request keeps the types.
LEMMA RequestType ==
  ASSUME TypeOK, NEW p \in Players, Request(p)
  PROVE  TypeOK'
<1> USE ProcsSplit DEF column, world, budget, local, Load, Goto, Call
<1>0. p \in Procs
  OBVIOUS
<1>1. CASE Arrive(p)
  <2>1. crew' \in [Procs -> Rosters]
    BY <1>1, SeenType DEF Arrive
  <2> QED
    BY <1>1, <2>1 DEF TypeOK, Arrive, Pcs
<1>2. CASE Look(p)
  BY <1>2 DEF TypeOK, Look, Pcs
<1>3. CASE GiveUpJoin(p)
  BY <1>3 DEF TypeOK, GiveUpJoin, Pcs
<1>4. CASE WaitOut(p)
  BY <1>4 DEF TypeOK, WaitOut
<1>5. CASE Join(p)
  BY <1>5, JoinedType, FinishType DEF TypeOK, Join, WriteOut
<1>6. CASE RetryJoin(p)
  BY <1>6 DEF TypeOK, RetryJoin, CanJoin
<1>7. CASE AutoEngage(p)
  <2>1. CASE ~Active /\ Garrison \in armed /\ Ships # {}
    <3>1. Roster \in Rosters
      BY RosterType
    <3>2. /\ crew' = [crew EXCEPT ![p] = Roster] /\ auto' = [auto EXCEPT ![p] = TRUE]
          /\ pc' = [pc EXCEPT ![p] = "engage"]
          /\ mem' = [mem EXCEPT ![p] = row] /\ current' = current \cup {p}
          /\ UNCHANGED <<choice, tries, todo, done, row, due, stale, world, budget>>
      BY <1>7, <2>1 DEF AutoEngage
    <3>3. /\ crew' \in [Procs -> Rosters]
          /\ auto' \in [Procs -> BOOLEAN] /\ pc' \in [Procs -> Pcs]
          /\ mem' \in [Procs -> Column] /\ current' \subseteq Procs
      BY <3>1, <3>2 DEF TypeOK, Pcs
    <3> QED
      BY <3>2, <3>3 DEF TypeOK
  <2>2. CASE ~(~Active /\ Garrison \in armed /\ Ships # {})
    BY <1>7, <2>2, FinishType DEF TypeOK, AutoEngage
  <2> QED
    BY <2>1, <2>2
<1>8. CASE Initiate(p)
  BY <1>8, RosterType DEF TypeOK, Initiate, Pcs
<1>9. CASE StartFight(p)
  <2>1. PICK luck \in Outcomes :
          row' = [enc |-> Fresh(crew[p], auto[p], luck), marker |-> FALSE,
                  captured |-> {}, salvage |-> {}]
    BY <1>9 DEF StartFight, WriteOut
  <2>2. Fresh(crew[p], auto[p], luck) \in Encounter
    BY FreshType, SeenType, EncounterAssumption DEF TypeOK
  <2> DEFINE fresh == Fresh(crew[p], auto[p], luck)
  <2> HIDE DEF fresh
  <2>3. fresh \in Encounter
    BY <2>2 DEF fresh
  <2>4. [enc |-> fresh, marker |-> FALSE, captured |-> {}, salvage |-> {}] \in Column
    BY <2>3 DEF Column
  <2>5. row' \in Column
    BY <2>1, <2>4 DEF fresh
  <2>6. current' = {} /\ Finish(p) /\ fights' = fights + 1
    BY <1>9 DEF StartFight, WriteOut
  <2>7. /\ due' = FALSE /\ stale' = FALSE /\ torn' = {}
        /\ UNCHANGED <<world, calls, crashes, astray>>
    BY <1>9 DEF StartFight
  <2>8. /\ fights' \in Nat /\ calls' \in Nat /\ crashes' \in Nat
        /\ present' \subseteq Players /\ armed' \subseteq Players \cup {Garrison}
        /\ pod' \subseteq Players /\ drops' \in [Players -> 0..2]
        /\ charged' \in [Players -> Nat]
        /\ astray' \in BOOLEAN /\ torn' \subseteq Nat
    BY <2>6, <2>7 DEF TypeOK
  <2> QED
    BY <2>5, <2>6, <2>7, <2>8, FinishType DEF TypeOK
<1>10. CASE Reinforce(p)
  <2>1. row' \in Column /\ current' = {}
    BY <1>10, JoinedType DEF TypeOK, Reinforce, WriteOut
  <2> QED
    BY <1>10, <2>1, FinishType DEF TypeOK, Reinforce
<1>11. CASE EngageConflict(p)
  BY <1>11, FinishType DEF TypeOK, EngageConflict
<1>12. ASSUME NEW a \in Acts, Act(p, a) PROVE TypeOK'
  BY <1>12 DEF TypeOK, Act, Pcs
<1>13. CASE PayToll(p)
  BY <1>13 DEF TypeOK, PayToll, Pcs
<1>14. CASE TooPoor(p)
  BY <1>14, FinishType DEF TypeOK, TooPoor
<1>15. CASE StoreAction(p)
  BY <1>15, ActedType, FinishType DEF TypeOK, StoreAction, WriteOut
<1>16. CASE ActAndResolve(p)
  <2> DEFINE col == [Acted(p) EXCEPT !.marker = TRUE]
  <2>1. col \in Column
    BY ActedType, ColumnType
  <2>2. row' = col /\ current' = {p} /\ mem' = [mem EXCEPT ![p] = col]
    BY <1>16 DEF ActAndResolve, Write
  <2>3. mem' \in [Procs -> Column] /\ row' \in Column
    BY <2>1, <2>2 DEF TypeOK
  <2>4. pc' \in [Procs -> Pcs] /\ choice' \in [Procs -> Acts \cup {"none"}]
    BY <1>16 DEF TypeOK, ActAndResolve, Pcs, Stages
  <2>5. stale' = FALSE /\ UNCHANGED <<due, world, budget, tries, crew, auto, todo, done>>
    BY <1>16 DEF ActAndResolve
  <2> QED
    BY <2>2, <2>3, <2>4, <2>5 DEF TypeOK
<1>17. CASE ActConflict(p)
  BY <1>17, FinishType DEF TypeOK, ActConflict
<1> QED
  BY <1>1, <1>2, <1>3, <1>4, <1>5, <1>6, <1>7, <1>8, <1>9, <1>10, <1>11, <1>12,
     <1>13, <1>14, <1>15, <1>16, <1>17 DEF Request

\* The histories of what was cut short keep their types.
LEMMA AbandonType ==
  ASSUME TypeOK, NEW S, Abandon(S)
  PROVE  astray' \in BOOLEAN /\ torn' \subseteq Nat
<1>1. row.enc.round \in Nat
  BY DEF TypeOK, Column, Encounter
<1>2. astray' \in BOOLEAN
  <2> DEFINE hit == \E q \in S : Resolving(q) /\ ~AtPeace(q)
  <2>1. astray' = (astray \/ hit)
    BY DEF Abandon
  <2> HIDE DEF hit
  <2> QED
    BY <2>1 DEF TypeOK
<1>3. torn' = torn \cup {row.enc.round} \/ torn' = torn
  <2> DEFINE hit == \E q \in S \cap current : /\ Resolving(q) /\ ~Over(mem[q].enc)
                                              /\ row.enc # mem[q].enc
  <2>1. torn' = IF hit THEN torn \cup {row.enc.round} ELSE torn
    BY DEF Abandon
  <2> HIDE DEF hit
  <2> QED
    BY <2>1
<1> QED
  BY <1>1, <1>2, <1>3 DEF TypeOK

\* So does every step of a tick.
LEMMA TickType ==
  ASSUME TypeOK, NEW t \in Ticks, Tick(t)
  PROVE  TypeOK'
<1> USE ProcsSplit DEF column, world, budget, local, Load, Goto
<1>1. CASE ListDue(t)
  BY <1>1 DEF TypeOK, ListDue, Pcs
<1>2. CASE TickEnters(t)
  <2> DEFINE col == [mem[t] EXCEPT !.marker = TRUE]
  <2>1. col \in Column
    BY ColumnType DEF TypeOK
  <2>2. row' = col /\ current' = {t} /\ mem' = [mem EXCEPT ![t] = col]
    BY <1>2 DEF TickEnters, Write
  <2>3. mem' \in [Procs -> Column] /\ row' \in Column
    BY <2>1, <2>2 DEF TypeOK
  <2>4. pc' \in [Procs -> Pcs]
    BY <1>2 DEF TypeOK, TickEnters, Pcs, Stages
  <2>5. /\ stale' = FALSE
        /\ UNCHANGED <<due, world, fights, calls, crashes, choice, tries, crew, auto,
                       todo, done>>
    BY <1>2 DEF TickEnters
  <2>6. astray' \in BOOLEAN /\ torn' \subseteq Nat
    BY <1>2, AbandonType DEF TickEnters
  <2> QED
    BY <2>2, <2>3, <2>4, <2>5, <2>6 DEF TypeOK
<1>3. CASE TickConflict(t)
  BY <1>3, FinishType DEF TypeOK, TickConflict
<1> QED
  BY <1>1, <1>2, <1>3 DEF Tick

\* What a resolution writes when it has captured a wreck's salvage.
LEMMA BankedType ==
  ASSUME TypeOK, NEW q \in Procs, NEW p \in Players
  PROVE  /\ Banked(q, p) \in Column
         /\ [mem EXCEPT ![q].captured = @ \cup {p},
                        ![q].salvage  = @ \cup ({p} \ pod)] \in [Procs -> Column]
<1>1. mem[q] \in Column /\ Image(q) \in Column
  BY ImageType DEF TypeOK
<1>2. mem[q].captured \cup {p} \in SUBSET Players
      /\ mem[q].salvage \cup ({p} \ pod) \in SUBSET Players
  BY <1>1, ColumnType
<1>3. Image(q).captured \cup {p} \in SUBSET Players
      /\ Image(q).salvage \cup ({p} \ pod) \in SUBSET Players
  BY <1>1, ColumnType
<1>4. [[mem[q] EXCEPT !.captured = @ \cup {p}]
         EXCEPT !.salvage = @ \cup ({p} \ pod)] \in Column
  BY <1>1, <1>2 DEF Column
<1>5. Banked(q, p) \in Column
  BY <1>1, <1>3 DEF Banked, Column
<1> QED
  BY <1>4, <1>5 DEF TypeOK

\* So does every step of a resolution.
LEMMA ResolveType ==
  ASSUME TypeOK, NEW q \in Procs, Resolve(q)
  PROVE  TypeOK'
<1> USE DEF column, world, budget, local, Goto
<1>1. CASE Flush(q)
  <2>1. Living(mem[q].enc) \subseteq Players
    BY DEF Living
  <2>2. armed' \subseteq Players \cup {Garrison} /\ pc' \in [Procs -> Pcs]
    BY <1>1, <2>1 DEF TypeOK, Flush, Pcs, Stages
  <2> QED
    BY <1>1, <2>2 DEF TypeOK, Flush
<1>2. CASE Depart(q)
  <2>1. Wrecks(mem[q].enc) \subseteq Players
    BY WrecksType
  <2>2. pc' \in [Procs -> Pcs] /\ todo' \in [Procs -> SUBSET Players]
    BY <1>2, <2>1 DEF TypeOK, Depart, Pcs, Stages
  <2> QED
    BY <1>2, <2>2 DEF TypeOK, Depart
<1>3. CASE Drop(q)
  <2>1. drops' \in [Players -> 0..2] /\ mem' \in [Procs -> Column]
    <3>1. CASE Over(mem[q].enc)
      <4>1. [mem[q] EXCEPT !.salvage = {}] \in Column
        BY ColumnType DEF TypeOK
      <4>2. mem' = [mem EXCEPT ![q].salvage = {}]
        BY <1>3, <3>1 DEF Drop
      <4>3. \A p \in Players : drops[p] < 2 => drops[p] + 1 \in 0..2
        BY DEF TypeOK
      <4>4. drops' = [p \in Players |-> IF p \in mem[q].salvage /\ drops[p] < 2
                                        THEN drops[p] + 1 ELSE drops[p]]
        BY <1>3, <3>1 DEF Drop
      <4>5. drops' \in [Players -> 0..2]
        BY <4>3, <4>4 DEF TypeOK
      <4> QED
        BY <4>1, <4>2, <4>5 DEF TypeOK
    <3>2. CASE ~Over(mem[q].enc)
      BY <1>3, <3>2 DEF Drop, TypeOK
    <3> QED
      BY <3>1, <3>2
  <2>2. pc' \in [Procs -> Pcs]
    BY <1>3 DEF TypeOK, Drop, Pcs, Stages
  <2> QED
    BY <1>3, <2>1, <2>2 DEF TypeOK, Drop
<1>4. CASE Leave(q)
  <2>1. PICK luck \in Outcomes :
          row' = [Image(q) EXCEPT !.enc = NextRound(@, luck), !.marker = FALSE]
    BY <1>4 DEF Leave, WriteOut
  <2>2. NextRound(Image(q).enc, luck) \in Encounter
    BY ImageType, ColumnType, NextRoundType, EncounterAssumption
  <2>3. row' \in Column
    BY <2>1, <2>2, ImageType DEF Column
  <2>4. current' = {} /\ due' = FALSE /\ stale' = FALSE /\ Finish(q)
    BY <1>4 DEF Leave, WriteOut
  <2>5. UNCHANGED <<world, budget>>
    BY <1>4 DEF Leave
  <2> QED
    BY <2>3, <2>4, <2>5, FinishType DEF TypeOK
<1>5. CASE LeaveConflict(q)
  BY <1>5, FinishType DEF TypeOK, LeaveConflict
<1>6. ASSUME NEW p \in Players, Capture(q, p) PROVE TypeOK'
  <2>1. row' = Banked(q, p) /\ current' = {q} /\ due' \in BOOLEAN
    BY <1>6 DEF Capture, Write
  <2>2. row' \in Column /\ mem' \in [Procs -> Column]
    BY <1>6, <2>1, BankedType DEF Capture
  <2>3. UNCHANGED <<stale, world, budget, pc, choice, tries, crew, auto, todo, done>>
    BY <1>6 DEF Capture
  <2> QED
    BY <2>1, <2>2, <2>3 DEF TypeOK
<1>7. ASSUME NEW p \in Players, EjectConflict(q, p) PROVE TypeOK'
  BY <1>7 DEF TypeOK, EjectConflict
<1>8. ASSUME NEW p \in Players, FinalizeConflict(q, p) PROVE TypeOK'
  BY <1>8, FinishType DEF TypeOK, FinalizeConflict
<1>9. ASSUME NEW p \in Players, Convert(q, p) PROVE TypeOK'
  BY <1>9 DEF TypeOK, Convert
<1> QED
  BY <1>1, <1>2, <1>3, <1>4, <1>5, <1>6, <1>7, <1>8, <1>9 DEF Resolve

\* Whatever the interleaving, every variable keeps its type.
THEOREM TypeCorrect == Spec => []TypeOK
<1>1. Init => TypeOK
  BY InitType
<1>2. TypeOK /\ [Next]_vars => TypeOK'
  <2> SUFFICES ASSUME TypeOK, [Next]_vars PROVE TypeOK'
    OBVIOUS
  <2> USE DEF column, world, budget, local
  <2>1. ASSUME NEW p \in Players, Request(p) PROVE TypeOK'
    BY <2>1, RequestType
  <2>2. ASSUME NEW t \in Ticks, Tick(t) PROVE TypeOK'
    BY <2>2, TickType
  <2>3. ASSUME NEW q \in Procs, Resolve(q) PROVE TypeOK'
    BY <2>3, ResolveType
  <2>4. ASSUME NEW q \in Procs, Crash(q) PROVE TypeOK'
    <3>1. astray' \in BOOLEAN /\ torn' \subseteq Nat
      BY <2>4, AbandonType DEF Crash
    <3>2. /\ crashes' = crashes + 1 /\ current' = current \ {q} /\ Finish(q)
          /\ UNCHANGED <<row, due, stale, world, fights, calls>>
      BY <2>4 DEF Crash
    <3> QED
      BY <3>1, <3>2, FinishType DEF TypeOK
  <2>5. CASE DeadlinePasses
    BY <2>5 DEF TypeOK, DeadlinePasses
  <2>6. CASE MarkerExpires
    BY <2>6 DEF TypeOK, MarkerExpires
  <2>7. CASE UNCHANGED vars
    BY <2>7 DEF TypeOK, vars
  <2> QED
    BY <2>1, <2>2, <2>3, <2>4, <2>5, <2>6, <2>7 DEF Next
<1> QED
  BY <1>1, <1>2, PTL DEF Spec

-----------------------------------------------------------------------------
(* Whoever may still write has the column in memory.                       *)

\* Only process r moved, and nobody but r may write on top of what r wrote.
OnlyMoves(r) ==
  /\ \A q \in Procs \ {r} : pc'[q] = pc[q] /\ mem'[q] = mem[q]
  /\ \/ row' = row /\ current' \subseteq current \cup {r}
     \/ current' \subseteq {r}

\* The fence is kept by a step of r that keeps it for r.
LEMMA FenceFrame ==
  ASSUME TypeOK, TypeOK', Fenced, NEW r \in Procs, OnlyMoves(r),
         r \in current' => Holds(r)', Unfinished(r)'
  PROVE  Fenced'
<1>1. ASSUME NEW q \in current' PROVE Holds(q)'
  <2>1. CASE q = r
    BY <1>1, <2>1
  <2>2. CASE q # r
    <3>1. q \in Procs /\ q \in current /\ row' = row
      BY <1>1, <2>2 DEF OnlyMoves, TypeOK
    <3>2. pc'[q] = pc[q] /\ mem'[q] = mem[q] /\ Holds(q)
      BY <2>2, <3>1 DEF OnlyMoves, Fenced
    <3> QED
      BY <3>1, <3>2 DEF Holds
  <2> QED
    BY <2>1, <2>2
<1>2. ASSUME NEW q \in Procs PROVE Unfinished(q)'
  <2>1. CASE q = r
    BY <2>1
  <2>2. CASE q # r
    BY <2>2 DEF OnlyMoves, Fenced, Unfinished
  <2> QED
    BY <2>1, <2>2
<1> QED
  BY <1>1, <1>2 DEF Fenced

\* A process that is done holds nothing.
LEMMA FinishFence ==
  ASSUME TypeOK, TypeOK', Fenced, NEW r \in Procs, Finish(r),
         \/ row' = row /\ current' \subseteq current
         \/ current' = {}
  PROVE  Fenced'
<1>1. pc' = [pc EXCEPT ![r] = "idle"] /\ mem' = [mem EXCEPT ![r] = Empty]
  BY DEF Finish, Goto
<1>2. OnlyMoves(r)
  BY <1>1 DEF OnlyMoves, TypeOK
<1>3. pc'[r] = "idle"
  BY <1>1 DEF TypeOK
<1>4. Holds(r)' /\ Unfinished(r)'
  BY <1>3 DEF Holds, Unfinished, Stages
<1> QED
  BY <1>2, <1>4, FenceFrame

\* A process that loads the column holds it.
LEMMA LoadFence ==
  ASSUME TypeOK, TypeOK', Fenced, NEW r \in Procs, NEW l, pc' = [pc EXCEPT ![r] = l],
         Load(r), row' = row,
         \/ l \in {"join", "auto", "engage"}
         \/ l \in {"pay", "act", "listed"} /\ ~row.enc.ended
  PROVE  Fenced'
<1>1. mem' = [mem EXCEPT ![r] = row] /\ current' = current \cup {r}
  BY DEF Load
<1>2. OnlyMoves(r) /\ pc'[r] = l /\ mem'[r] = row
  BY <1>1 DEF OnlyMoves, TypeOK
<1>3. Holds(r)' /\ Unfinished(r)'
  BY <1>2 DEF Holds, Unfinished, Stages
<1> QED
  BY <1>2, <1>3, FenceFrame

\* A resolution that begins has written what it has in memory.
LEMMA EnterFence ==
  ASSUME TypeOK, TypeOK', Fenced, NEW r \in Procs, NEW col,
         pc' = [pc EXCEPT ![r] = "entered"], mem' = [mem EXCEPT ![r] = col],
         Write(r, col), ~col.enc.ended
  PROVE  Fenced'
<1>1. row' = col /\ current' = {r}
  BY DEF Write
<1>2. OnlyMoves(r) /\ pc'[r] = "entered" /\ mem'[r] = col
  BY <1>1 DEF OnlyMoves, TypeOK
<1>3. Holds(r)' /\ Unfinished(r)'
  BY <1>1, <1>2 DEF Holds, Unfinished
<1> QED
  BY <1>2, <1>3, FenceFrame

\* A process that goes from one place to another without touching the column or
\* its encounter keeps what it holds.
LEMMA StayFence ==
  ASSUME TypeOK, TypeOK', Fenced, NEW r \in Procs, NEW l, pc' = [pc EXCEPT ![r] = l],
         UNCHANGED <<row, current, mem>>,
         \/ l \in {"idle", "arrived", "auto"}
         \/ l = "act" /\ pc[r] = "pay"
         \/ l = "flushed" /\ pc[r] = "entered"
         \/ l = "clearing" /\ pc[r] = "flushed"
  PROVE  Fenced'
<1>1. OnlyMoves(r) /\ pc'[r] = l
  BY DEF OnlyMoves, TypeOK
<1>2. Unfinished(r)'
  BY <1>1 DEF Fenced, Unfinished, Stages
<1>3. r \in current' => Holds(r)'
  BY <1>1 DEF Fenced, Holds
<1> QED
  BY <1>1, <1>2, <1>3, FenceFrame

\* The encounter of an action that is submitted goes on as it was.
LEMMA ActedEnded ==
  ASSUME TypeOK, NEW p \in Players
  PROVE  Acted(p).enc.ended = mem[p].enc.ended
<1>1. mem[p] \in Column
  BY ProcsSplit DEF TypeOK
<1>2. mem[p].enc \in Encounter
  BY <1>1, ColumnType
<1> QED
  BY <1>1, <1>2 DEF Acted, Submitted, Column, Encounter

LEMMA RequestFence ==
  ASSUME TypeOK, TypeOK', Fenced, NEW p \in Players, Request(p)
  PROVE  Fenced'
<1> USE ProcsSplit DEF column, world, budget, local
<1>1. CASE Arrive(p)
  BY <1>1, StayFence DEF Arrive, Goto
<1>2. CASE Look(p)
  BY <1>2, LoadFence DEF Look, Goto
<1>3. CASE GiveUpJoin(p)
  BY <1>3, StayFence DEF GiveUpJoin, Goto
<1>4. ASSUME WaitOut(p) \/ RetryJoin(p) PROVE Fenced'
  <2>1. pc[p] = "join" /\ pc' = pc /\ Load(p) /\ row' = row
    BY <1>4 DEF WaitOut, RetryJoin, CanJoin
  <2>2. pc' = [pc EXCEPT ![p] = "join"]
    BY <2>1 DEF TypeOK
  <2> QED
    BY <2>1, <2>2, LoadFence
<1>5. CASE Join(p)
  BY <1>5, FinishFence DEF Join, WriteOut
<1>6. CASE AutoEngage(p)
  <2>1. CASE ~Active /\ Garrison \in armed /\ Ships # {}
    BY <1>6, <2>1, LoadFence DEF AutoEngage, Goto
  <2>2. CASE ~(~Active /\ Garrison \in armed /\ Ships # {})
    BY <1>6, <2>2, FinishFence DEF AutoEngage
  <2> QED
    BY <2>1, <2>2
<1>7. CASE Initiate(p)
  BY <1>7, LoadFence DEF Initiate, Goto
<1>8. CASE StartFight(p)
  BY <1>8, FinishFence DEF StartFight, WriteOut
<1>9. CASE Reinforce(p)
  BY <1>9, FinishFence DEF Reinforce, WriteOut
<1>10. CASE EngageConflict(p)
  BY <1>10, FinishFence DEF EngageConflict
<1>11. ASSUME NEW a \in Acts, Act(p, a) PROVE Fenced'
  <2>1. ~row.enc.ended /\ Load(p) /\ row' = row
    BY <1>11 DEF Act, MaySubmit
  <2>2. pc' = [pc EXCEPT ![p] = IF a = "pay" THEN "pay" ELSE "act"]
    BY <1>11 DEF Act, Goto
  <2> QED
    BY <2>1, <2>2, LoadFence
<1>12. CASE PayToll(p)
  BY <1>12, StayFence DEF PayToll, Goto
<1>13. CASE TooPoor(p)
  BY <1>13, FinishFence DEF TooPoor
<1>14. CASE StoreAction(p)
  BY <1>14, FinishFence DEF StoreAction, WriteOut
<1>15. CASE ActAndResolve(p)
  <2> DEFINE col == [Acted(p) EXCEPT !.marker = TRUE]
  <2>1. /\ Write(p, col) /\ mem' = [mem EXCEPT ![p] = col]
        /\ pc' = [pc EXCEPT ![p] = "entered"]
    BY <1>15 DEF ActAndResolve, Goto
  <2>2. ~mem[p].enc.ended
    BY <1>15 DEF ActAndResolve, Fenced, Unfinished
  <2>3. ~col.enc.ended
    BY <2>2, ActedEnded, ActedType DEF Column
  <2> QED
    BY <2>1, <2>3, EnterFence
<1>16. CASE ActConflict(p)
  BY <1>16, FinishFence DEF ActConflict
<1> QED
  BY <1>1, <1>2, <1>3, <1>4, <1>5, <1>6, <1>7, <1>8, <1>9, <1>10, <1>11, <1>12,
     <1>13, <1>14, <1>15, <1>16 DEF Request

LEMMA TickFence ==
  ASSUME TypeOK, TypeOK', Fenced, NEW t \in Ticks, Tick(t)
  PROVE  Fenced'
<1> USE ProcsSplit DEF column, world, budget, local
<1>1. CASE ListDue(t)
  BY <1>1, LoadFence DEF ListDue, Goto, Active
<1>2. CASE TickEnters(t)
  <2> DEFINE col == [mem[t] EXCEPT !.marker = TRUE]
  <2>1. /\ Write(t, col) /\ mem' = [mem EXCEPT ![t] = col]
        /\ pc' = [pc EXCEPT ![t] = "entered"]
    BY <1>2 DEF TickEnters, Goto
  <2>2. ~mem[t].enc.ended
    BY <1>2 DEF TickEnters, Fenced, Unfinished
  <2>3. ~col.enc.ended
    BY <2>2 DEF TypeOK, Column
  <2> QED
    BY <2>1, <2>3, EnterFence
<1>3. CASE TickConflict(t)
  BY <1>3, FinishFence DEF TickConflict
<1> QED
  BY <1>1, <1>2, <1>3 DEF Tick

LEMMA ResolveFence ==
  ASSUME TypeOK, TypeOK', Fenced, NEW q \in Procs, Resolve(q)
  PROVE  Fenced'
<1> USE DEF column, world, budget, local
<1>1. CASE Flush(q)
  BY <1>1, StayFence DEF Flush, Goto
<1>2. CASE Depart(q)
  BY <1>2, StayFence DEF Depart, Goto
<1>3. CASE Drop(q)
  <2>1. pc' = [pc EXCEPT ![q] = "leaving"] /\ row' = row /\ current' = current
    BY <1>3 DEF Drop, Goto
  <2>2. mem' = mem \/ mem' = [mem EXCEPT ![q].salvage = {}]
    BY <1>3 DEF Drop
  <2>3. mem'[q].enc = mem[q].enc /\ \A r \in Procs \ {q} : mem'[r] = mem[r]
    BY <2>2 DEF TypeOK, Column
  <2>4. pc[q] = "clearing" /\ pc'[q] = "leaving"
    BY <1>3, <2>1 DEF Drop, TypeOK
  <2>5. OnlyMoves(q)
    BY <2>1, <2>3 DEF OnlyMoves, TypeOK
  <2>6. Unfinished(q)'
    BY <2>3, <2>4 DEF Fenced, Unfinished, Stages
  <2>7. q \in current' => Holds(q)'
    BY <2>1, <2>3, <2>4 DEF Fenced, Holds
  <2> QED
    BY <2>5, <2>6, <2>7, FenceFrame
<1>4. CASE Leave(q)
  BY <1>4, FinishFence DEF Leave, WriteOut
<1>5. CASE LeaveConflict(q)
  BY <1>5, FinishFence DEF LeaveConflict
<1>6. ASSUME NEW p \in Players, Capture(q, p) PROVE Fenced'
  <2>1. row' = Banked(q, p) /\ current' = {q} /\ pc' = pc /\ pc[q] = "clearing"
    BY <1>6 DEF Capture, Write, NextWreck
  <2>2. mem' = [mem EXCEPT ![q].captured = @ \cup {p},
                           ![q].salvage  = @ \cup ({p} \ pod)]
    BY <1>6 DEF Capture
  <2>3. mem'[q].enc = mem[q].enc /\ \A r \in Procs \ {q} : mem'[r] = mem[r]
    BY <2>2 DEF TypeOK, Column
  <2>4. row'.enc = Settled(mem[q].enc, done[q])
    BY <2>1 DEF Banked, Image
  <2>5. done[q] \in SUBSET Players
    BY DEF TypeOK
  <2>6. Holds(q)' /\ Unfinished(q)'
    BY <2>1, <2>3, <2>4, <2>5 DEF Holds, Unfinished, Fenced, Stages
  <2>7. OnlyMoves(q)
    BY <2>1, <2>3 DEF OnlyMoves
  <2> QED
    BY <2>6, <2>7, FenceFrame
<1>7. ASSUME NEW p \in Players, EjectConflict(q, p) \/ Convert(q, p) PROVE Fenced'
  BY <1>7 DEF EjectConflict, Convert, Fenced, Holds, Unfinished
<1>8. ASSUME NEW p \in Players, FinalizeConflict(q, p) PROVE Fenced'
  BY <1>8, FinishFence DEF FinalizeConflict
<1> QED
  BY <1>1, <1>2, <1>3, <1>4, <1>5, <1>6, <1>7, <1>8 DEF Resolve

LEMMA InitFence == Init => Fenced
  BY DEF Init, Fenced, Unfinished, Stages

LEMMA NextFence == TypeOK /\ TypeOK' /\ Fenced /\ [Next]_vars => Fenced'
<1> SUFFICES ASSUME TypeOK, TypeOK', Fenced, [Next]_vars PROVE Fenced'
  OBVIOUS
<1> USE DEF column, world, budget, local
<1>1. ASSUME NEW p \in Players, Request(p) PROVE Fenced'
  BY <1>1, RequestFence
<1>2. ASSUME NEW t \in Ticks, Tick(t) PROVE Fenced'
  BY <1>2, TickFence
<1>3. ASSUME NEW q \in Procs, Resolve(q) PROVE Fenced'
  BY <1>3, ResolveFence
<1>4. ASSUME NEW q \in Procs, Crash(q) PROVE Fenced'
  BY <1>4, FinishFence DEF Crash
<1>5. CASE DeadlinePasses \/ MarkerExpires \/ UNCHANGED vars
  BY <1>5 DEF DeadlinePasses, MarkerExpires, vars, Fenced, Holds, Unfinished
<1> QED
  BY <1>1, <1>2, <1>3, <1>4, <1>5 DEF Next

\* Whoever the fence lets write has missed nobody's write.
THEOREM FenceHolds == Spec => []Fenced
<1>1. TypeOK /\ TypeOK' /\ Fenced /\ [Next]_vars => Fenced'
  BY NextFence
<1>2. Init => Fenced
  BY InitFence
<1> QED
  BY <1>1, <1>2, TypeCorrect, PTL DEF Spec

-----------------------------------------------------------------------------
(* Nothing that was written is rolled back.                                *)

LEMMA KeepsItself ==
  ASSUME NEW e \in Encounter
  PROVE  Keeps(e, e)
  BY DEF Keeps, IsExtension, Encounter

\* Joining and submitting only add.
LEMMA KeepsEnrolled ==
  ASSUME NEW e \in Encounter, NEW p \in Players, NEW seat \in Seats, e.seat[p] = "out"
  PROVE  Keeps(e, Enrolled(e, p, seat))
  BY DEF Keeps, IsExtension, Encounter, Enrolled

LEMMA KeepsSubmitted ==
  ASSUME NEW e \in Encounter, NEW p, NEW a
  PROVE  Keeps(e, Submitted(e, p, a))
  BY DEF Keeps, IsExtension, Encounter, Submitted

\* Who is out of the fight after a round does not depend on which wrecks have
\* been handled.
LEMMA SettledOut ==
  ASSUME NEW e \in Encounter, NEW v, NEW w, NEW p \in Players,
         Settled(e, v).seat[p] = "out"
  PROVE  Settled(e, w).seat[p] = "out"
  BY DEF Settled, Encounter

\* Settling a fight that goes on keeps what was written, also for the second time.
LEMMA KeepsSettled ==
  ASSUME NEW e \in Encounter, ~e.ended, NEW w
  PROVE  /\ Keeps(e, Settled(e, w))
         /\ \A v : Keeps(Settled(e, v), Settled(e, w))
<1>1. Keeps(e, Settled(e, w))
  <2>1. /\ Settled(e, w).round = e.round /\ Settled(e, w).paid = e.paid
        /\ Settled(e, w).log = Append(e.log, e.round)
        /\ \A p \in Players : Settled(e, w).seat[p] = "out" =>
                                p \in Fled(e) \/ e.seat[p] = "out"
    BY SettledFields
  <2>2. e.log \in Seq(Nat) /\ e.round \in Nat
    BY DEF Encounter
  <2>3. IsExtension(e.log, Append(e.log, e.round))
    BY <2>2 DEF IsExtension
  <2> QED
    BY <2>1, <2>2, <2>3 DEF Keeps
<1>2. ASSUME NEW v PROVE Keeps(Settled(e, v), Settled(e, w))
  <2>1. /\ Settled(e, w).round = e.round /\ Settled(e, v).round = e.round
        /\ Settled(e, w).paid = Settled(e, v).paid
        /\ Settled(e, w).log = Settled(e, v).log
        /\ Settled(e, w).ended = Settled(e, v).ended
    BY SettledFields
  <2>2. e.round \in Nat /\ Settled(e, v).log \in Seq(Nat)
    BY SettledType DEF Encounter
  <2>3. IsExtension(Settled(e, v).log, Settled(e, v).log)
    BY <2>2 DEF IsExtension
  <2>4. \A p \in Players : Settled(e, w).seat[p] = "out" => Settled(e, v).seat[p] = "out"
    BY SettledOut
  <2> QED
    BY <2>1, <2>2, <2>3, <2>4 DEF Keeps
<1> QED
  BY <1>1, <1>2

LEMMA KeepsNextRound ==
  ASSUME NEW e \in Encounter, NEW f \in Encounter, Keeps(e, f), NEW luck
  PROVE  Keeps(e, NextRound(f, luck))
<1>1. CASE f.ended
  BY <1>1 DEF NextRound
<1>2. CASE ~f.ended
  <2> DEFINE n == NextRound(f, luck)
  <2>1. /\ n.round = f.round + 1 /\ n.paid = f.paid /\ n.log = f.log
        /\ n.ended = f.ended /\ n.seat = f.seat
    BY <1>2 DEF NextRound, Encounter
  <2>2. e.round \in Nat /\ f.round \in Nat
    BY DEF Encounter
  <2> HIDE DEF n
  <2>3. Keeps(e, n)
    BY <2>1, <2>2 DEF Keeps
  <2> QED
    BY <2>3 DEF n
<1> QED
  BY <1>1, <1>2

\* What a resolution writes keeps what is in the column it may write to.
LEMMA KeepsImage ==
  ASSUME TypeOK, Fenced, NEW q \in current, pc[q] \in {"clearing", "leaving"}
  PROVE  Keeps(row.enc, Settled(mem[q].enc, done[q]))
<1>1. q \in Procs /\ mem[q].enc \in Encounter
  BY ColumnType DEF TypeOK
<1>2. ~mem[q].enc.ended
  BY <1>1 DEF Fenced, Unfinished, Stages
<1>3. \/ row.enc = mem[q].enc
      \/ \E w \in SUBSET Players : row.enc = Settled(mem[q].enc, w)
  BY DEF Fenced, Holds
<1> QED
  BY <1>1, <1>2, <1>3, KeepsSettled

LEMMA KeepsStep ==
  ASSUME TypeOK, Fenced, [Next]_vars, fights' = fights
  PROVE  Keeps(row.enc, row'.enc)
<1> USE ProcsSplit DEF column, world, budget, local
<1> SUFFICES ASSUME row' # row PROVE Keeps(row.enc, row'.enc)
  BY KeepsItself, ColumnType DEF TypeOK
<1>1. ASSUME NEW p \in Players, Request(p) PROVE Keeps(row.enc, row'.enc)
  <2>1. ASSUME Join(p) \/ Reinforce(p) PROVE Keeps(row.enc, row'.enc)
    <3>1. p \in current /\ pc[p] \in {"join", "engage"}
      BY <2>1 DEF Join, Reinforce, CanJoin, Matches
    <3>2. row = mem[p]
      BY <3>1 DEF Fenced, Holds
    <3>3. row' = Joined(p) /\ row.enc.seat[p] = "out"
      BY <2>1, <3>2 DEF Join, CanJoin, Reinforce, WriteOut
    <3>4. row'.enc = Enrolled(row.enc, p, crew[p][p])
      BY <3>2, <3>3 DEF Joined, TypeOK, Column
    <3>5. row.enc \in Encounter /\ crew[p][p] \in Seats
      BY SeenType, ColumnType DEF TypeOK
    <3> QED
      BY <3>3, <3>4, <3>5, KeepsEnrolled
  <2>2. ASSUME StoreAction(p) \/ ActAndResolve(p) PROVE Keeps(row.enc, row'.enc)
    <3>1. row = mem[p]
      BY <2>2 DEF StoreAction, ActAndResolve, Matches, Fenced, Holds
    <3>2. row' = Acted(p) \/ row' = [Acted(p) EXCEPT !.marker = TRUE]
      BY <2>2 DEF StoreAction, ActAndResolve, WriteOut, Write
    <3>3. row'.enc = Acted(p).enc
      BY <3>2, ActedType DEF Column
    <3>4. Acted(p).enc = Submitted(row.enc, p, choice[p])
      BY <3>1 DEF Acted, TypeOK, Column
    <3> QED
      BY <3>3, <3>4, KeepsSubmitted, ColumnType DEF TypeOK
  <2>3. CASE StartFight(p)
    BY <2>3 DEF StartFight, TypeOK
  <2> QED
    BY <1>1, <2>1, <2>2, <2>3 DEF Request, Arrive, Look, GiveUpJoin, WaitOut, RetryJoin,
         AutoEngage, Initiate, EngageConflict, Act, PayToll, TooPoor, ActConflict
<1>2. ASSUME NEW t \in Ticks, Tick(t) PROVE Keeps(row.enc, row'.enc)
  <2>1. CASE TickEnters(t)
    <3>1. row = mem[t] /\ row' = [mem[t] EXCEPT !.marker = TRUE]
      BY <2>1 DEF TickEnters, Matches, Write, Fenced, Holds
    <3>2. row'.enc = row.enc
      BY <3>1 DEF TypeOK, Column
    <3> QED
      BY <3>2, KeepsItself, ColumnType DEF TypeOK
  <2> QED
    BY <1>2, <2>1 DEF Tick, ListDue, TickConflict
<1>3. ASSUME NEW q \in Procs, Resolve(q) PROVE Keeps(row.enc, row'.enc)
  <2>1. ASSUME NEW p \in Players, Capture(q, p) PROVE Keeps(row.enc, row'.enc)
    <3>1. q \in current /\ pc[q] = "clearing" /\ row' = Banked(q, p)
      BY <2>1 DEF Capture, NextWreck, Matches, Write
    <3>2. row'.enc = Settled(mem[q].enc, done[q])
      BY <3>1 DEF Banked, Image
    <3> QED
      BY <3>1, <3>2, KeepsImage
  <2>2. CASE Leave(q)
    <3>1. PICK luck \in Outcomes :
            row' = [Image(q) EXCEPT !.enc = NextRound(@, luck), !.marker = FALSE]
      BY <2>2 DEF Leave, WriteOut
    <3>2. row'.enc = NextRound(Settled(mem[q].enc, done[q]), luck)
      BY <3>1 DEF Image
    <3>3. Keeps(row.enc, Settled(mem[q].enc, done[q]))
      BY <2>2, KeepsImage DEF Leave, Matches
    <3>4. row.enc \in Encounter /\ Settled(mem[q].enc, done[q]) \in Encounter
      BY ColumnType, SettledType DEF TypeOK
    <3> QED
      BY <3>2, <3>3, <3>4, KeepsNextRound
  <2> QED
    BY <1>3, <2>1, <2>2 DEF Resolve, Flush, Depart, Drop, LeaveConflict,
         EjectConflict, FinalizeConflict, Convert
<1> QED
  BY <1>1, <1>2, <1>3 DEF Next, Crash, DeadlinePasses, MarkerExpires, vars

\* No write to a fight's column undoes an earlier one, however stale the
\* writer's copy was (persistCombatState's fence).
THEOREM RollbackFree == Spec => NothingRolledBack
<1>1. TypeOK /\ Fenced /\ [Next]_vars =>
        [fights' = fights => Keeps(row.enc, row'.enc)]_vars
  BY KeepsStep
<1> QED
  BY <1>1, TypeCorrect, FenceHolds, PTL DEF Spec, NothingRolledBack

-----------------------------------------------------------------------------
(* Cargo.                                                                  *)

\* Process r moved without touching the column, a hold or the sector's salvage;
\* it forgot its copy of the column, loaded a new one or kept what it had.
Quiet(r) ==
  /\ OnlyMoves(r) /\ UNCHANGED <<row, pod, drops, fights>>
  /\ current' \subseteq current \cup {r}
  /\ mem'[r] \in {mem[r], row, Empty}
  /\ \/ pc'[r] \notin Stages
     \/ pc[r] \in Stages /\ mem'[r] = mem[r] /\ current' \subseteq current

LEMMA QuietCargo ==
  ASSUME TypeOK, TypeOK', CargoAccounted, NEW r \in Procs, Quiet(r)
  PROVE  CargoAccounted'
<1> USE DEF Quiet, OnlyMoves
<1>1. Dropped' = Dropped /\ Saved' = Saved
  BY DEF Dropped, Saved
<1>2. Empty.captured = {} /\ Empty.enc.ended
  BY DEF Empty, NoEncounter
<1>3. ASSUME fights' <= 1 PROVE Accounted'
  <2>1. Accounted
    BY <1>3 DEF CargoAccounted
  <2>2. ASSUME NEW q \in Procs PROVE mem'[q].captured \subseteq Saved'
    <3>1. mem'[q] \in {mem[q], row, Empty}
      OBVIOUS
    <3> QED
      BY <3>1, <2>1, <1>1, <1>2 DEF Accounted
  <2>3. ASSUME NEW q \in current', Resolving(q)'
        PROVE  row'.salvage \subseteq mem'[q].salvage \cup Dropped'
    <3>1. q \in current /\ q \in Procs /\ pc[q] \in Stages /\ mem'[q] = mem[q]
      BY <2>3 DEF Resolving, TypeOK
    <3> QED
      BY <3>1, <2>1, <1>1 DEF Accounted, Resolving
  <2> QED
    BY <2>1, <2>2, <2>3, <1>1 DEF Accounted
<1>4. ASSUME fights' = 0 PROVE Untouched'
  <2>1. Untouched
    BY <1>4 DEF CargoAccounted
  <2>2. ASSUME NEW q \in Procs PROVE mem'[q].enc.ended /\ mem'[q].captured = {}
    <3>1. mem'[q] \in {mem[q], row, Empty}
      OBVIOUS
    <3> QED
      BY <3>1, <2>1, <1>2 DEF Untouched
  <2> QED
    BY <2>1, <2>2 DEF Untouched
<1> QED
  BY <1>3, <1>4 DEF CargoAccounted

\* Process r moved in a fight that has begun, and saved what it took over.
LEMMA FightCargo ==
  ASSUME TypeOK, TypeOK', CargoAccounted, NEW r \in Procs, OnlyMoves(r),
         fights' = fights, fights # 0,
         Accounted =>
           /\ Saved \subseteq Saved' /\ Dropped \subseteq Dropped'
           /\ pod' \cup row'.captured \cup mem'[r].captured \subseteq Saved'
           /\ r \in current' /\ Resolving(r)' =>
                row'.salvage \subseteq mem'[r].salvage \cup Dropped'
  PROVE  CargoAccounted'
<1> SUFFICES ASSUME fights' <= 1 PROVE Accounted'
  BY DEF CargoAccounted
<1>1. Accounted
  BY DEF CargoAccounted
<1>2. ASSUME NEW q \in Procs PROVE mem'[q].captured \subseteq Saved'
  BY <1>1 DEF OnlyMoves, Accounted
<1>3. ASSUME NEW q \in current', Resolving(q)'
      PROVE  row'.salvage \subseteq mem'[q].salvage \cup Dropped'
  <2>1. CASE q = r
    BY <1>1, <1>3, <2>1
  <2>2. CASE q # r
    <3>1. q \in current /\ row' = row /\ mem'[q] = mem[q] /\ Resolving(q)
      BY <1>3, <2>2 DEF OnlyMoves, TypeOK, Resolving
    <3> QED
      BY <1>1, <3>1 DEF Accounted
  <2> QED
    BY <2>1, <2>2
<1> QED
  BY <1>1, <1>2, <1>3 DEF Accounted

\* Ending a request is quiet.
LEMMA FinishQuiet ==
  ASSUME TypeOK, NEW r \in Procs, Finish(r), UNCHANGED <<row, pod, drops, fights>>,
         current' \subseteq current
  PROVE  Quiet(r)
<1>1. pc' = [pc EXCEPT ![r] = "idle"] /\ mem' = [mem EXCEPT ![r] = Empty]
  BY DEF Finish, Goto
<1> QED
  BY <1>1 DEF Quiet, OnlyMoves, TypeOK, Stages

\* Loading the column is quiet.
LEMMA LoadQuiet ==
  ASSUME TypeOK, NEW r \in Procs, NEW l, l \notin Stages, pc' = [pc EXCEPT ![r] = l],
         Load(r), UNCHANGED <<row, pod, drops, fights>>
  PROVE  Quiet(r)
  BY DEF Load, Quiet, OnlyMoves, TypeOK

\* Moving on without touching the column is quiet.
LEMMA StayQuiet ==
  ASSUME TypeOK, NEW r \in Procs, NEW l, pc' = [pc EXCEPT ![r] = l],
         l \notin Stages \/ pc[r] \in Stages,
         UNCHANGED <<row, current, mem, pod, drops, fights>>
  PROVE  Quiet(r)
  BY DEF Quiet, OnlyMoves, TypeOK

\* Before the first fight nobody works on one.
LEMMA FightBegun ==
  ASSUME CargoAccounted, Fenced, NEW r \in Procs,
         \/ pc[r] \in Stages \cup {"pay", "act", "listed"}
         \/ ~mem[r].enc.ended
  PROVE  fights # 0
  BY DEF CargoAccounted, Untouched, Fenced, Unfinished

\* A request or tick that writes the column it holds keeps its salvage.
LEMMA WriterCargo ==
  ASSUME TypeOK, TypeOK', CargoAccounted, NEW r \in Procs, NEW col,
         fights # 0, UNCHANGED <<pod, drops, fights>>, row = mem[r],
         row' = col, col.salvage = row.salvage, col.captured \subseteq row.captured,
         \/ current' = {} /\ Finish(r)
         \/ /\ current' = {r} /\ mem' = [mem EXCEPT ![r] = col]
            /\ pc' = [pc EXCEPT ![r] = "entered"]
  PROVE  CargoAccounted'
<1>1. OnlyMoves(r)
  BY DEF OnlyMoves, Finish, Goto, TypeOK
<1>2. Dropped' = Dropped /\ Saved' = Saved
  BY DEF Dropped, Saved
<1>3. (mem'[r] = Empty /\ current' = {}) \/ mem'[r] = col
  BY DEF Finish, TypeOK
<1>4. Empty.captured = {}
  BY DEF Empty
<1>5. ASSUME Accounted
      PROVE  /\ pod' \cup row'.captured \cup mem'[r].captured \subseteq Saved'
             /\ r \in current' => row'.salvage \subseteq mem'[r].salvage \cup Dropped'
  BY <1>2, <1>3, <1>4, <1>5 DEF Accounted
<1> QED
  BY <1>1, <1>2, <1>5, FightCargo

LEMMA RequestCargo ==
  ASSUME TypeOK, TypeOK', Fenced, CargoAccounted, NEW p \in Players, Request(p)
  PROVE  CargoAccounted'
<1> USE ProcsSplit DEF column, world, budget, local
<1>1. ASSUME Arrive(p) \/ GiveUpJoin(p) \/ PayToll(p) PROVE CargoAccounted'
  <2>1. PICK l \in {"arrived", "auto", "act"} : pc' = [pc EXCEPT ![p] = l]
    BY <1>1 DEF Arrive, GiveUpJoin, PayToll, Goto
  <2>2. UNCHANGED <<row, current, mem, pod, drops, fights>>
    BY <1>1 DEF Arrive, GiveUpJoin, PayToll, Call
  <2>3. l \notin Stages
    BY DEF Stages
  <2> QED
    BY <2>1, <2>2, <2>3, StayQuiet, QuietCargo
<1>2. ASSUME Look(p) \/ Initiate(p) \/ (\E a \in Acts : Act(p, a)) PROVE CargoAccounted'
  <2>1. PICK l \in {"join", "auto", "engage", "pay", "act"} : pc' = [pc EXCEPT ![p] = l]
    BY <1>2 DEF Look, Initiate, Act, Goto
  <2>2. Load(p) /\ UNCHANGED <<row, pod, drops, fights>>
    BY <1>2 DEF Look, Initiate, Act
  <2>3. l \notin Stages
    BY DEF Stages
  <2> QED
    BY <2>1, <2>2, <2>3, LoadQuiet, QuietCargo
<1>3. ASSUME WaitOut(p) \/ RetryJoin(p) PROVE CargoAccounted'
  <2>1. /\ pc[p] = "join" /\ pc' = pc /\ Load(p)
        /\ UNCHANGED <<row, pod, drops, fights>>
    BY <1>3 DEF WaitOut, RetryJoin, CanJoin
  <2>2. pc' = [pc EXCEPT ![p] = "join"] /\ "join" \notin Stages
    BY <2>1 DEF TypeOK, Stages
  <2> QED
    BY <2>1, <2>2, LoadQuiet, QuietCargo
<1>4. CASE AutoEngage(p)
  <2>1. CASE ~Active /\ Garrison \in armed /\ Ships # {}
    <3>1. Load(p) /\ pc' = [pc EXCEPT ![p] = "engage"] /\ "engage" \notin Stages
      BY <1>4, <2>1 DEF AutoEngage, Goto, Stages
    <3> QED
      BY <1>4, <3>1, LoadQuiet, QuietCargo DEF AutoEngage
  <2>2. CASE ~(~Active /\ Garrison \in armed /\ Ships # {})
    BY <1>4, <2>2, FinishQuiet, QuietCargo DEF AutoEngage
  <2> QED
    BY <2>1, <2>2
<1>5. ASSUME EngageConflict(p) \/ TooPoor(p) \/ ActConflict(p) PROVE CargoAccounted'
  BY <1>5, FinishQuiet, QuietCargo DEF EngageConflict, TooPoor, ActConflict
<1>6. ASSUME Join(p) \/ Reinforce(p) PROVE CargoAccounted'
  <2>1. /\ p \in current /\ pc[p] \in {"join", "engage"} /\ ~mem[p].enc.ended
        /\ Finish(p) /\ current' = {} /\ UNCHANGED <<pod, drops, fights>>
        /\ row' \in {mem[p], Joined(p)}
    BY <1>6 DEF Join, Reinforce, CanJoin, Matches, WriteOut
  <2>2. row = mem[p] /\ fights # 0
    BY <2>1, FightBegun DEF Fenced, Holds
  <2>3. /\ Joined(p).salvage = mem[p].salvage
        /\ Joined(p).captured = mem[p].captured \ {p}
    BY DEF Joined, TypeOK, Column
  <2>4. row'.salvage = row.salvage /\ row'.captured \subseteq row.captured
    BY <2>1, <2>2, <2>3
  <2> QED
    BY <2>1, <2>2, <2>4, WriterCargo
<1>7. ASSUME StoreAction(p) \/ ActAndResolve(p) PROVE CargoAccounted'
  <2>1. row = mem[p] /\ fights # 0 /\ UNCHANGED <<pod, drops, fights>>
    BY <1>7, FightBegun DEF StoreAction, ActAndResolve, Matches, Fenced, Holds
  <2>2. Acted(p).salvage = mem[p].salvage /\ Acted(p).captured = mem[p].captured
    BY DEF Acted, TypeOK, Column
  <2>3. CASE StoreAction(p)
    BY <2>1, <2>2, <2>3, WriterCargo DEF StoreAction, WriteOut
  <2>4. CASE ActAndResolve(p)
    <3> DEFINE col == [Acted(p) EXCEPT !.marker = TRUE]
    <3>1. col.salvage = row.salvage /\ col.captured = row.captured
      BY <2>1, <2>2, ActedType DEF Column
    <3>2. /\ row' = col /\ current' = {p} /\ mem' = [mem EXCEPT ![p] = col]
          /\ pc' = [pc EXCEPT ![p] = "entered"]
      BY <2>4 DEF ActAndResolve, Write, Goto
    <3> QED
      BY <2>1, <3>1, <3>2, WriterCargo
  <2> QED
    BY <1>7, <2>3, <2>4
<1>8. CASE StartFight(p)
  <2>1. /\ current' = {} /\ fights' = fights + 1 /\ Finish(p) /\ pod' = pod
        /\ row'.captured = {}
    BY <1>8 DEF StartFight, WriteOut
  <2>2. ASSUME fights' <= 1 PROVE Accounted'
    <3>1. Untouched
      BY <2>1, <2>2 DEF CargoAccounted, TypeOK
    <3>2. mem' = [mem EXCEPT ![p] = Empty] /\ Empty.captured = {}
      BY <2>1 DEF Finish, Empty
    <3>3. \A q \in Procs : mem'[q].captured = {}
      BY <3>1, <3>2 DEF Untouched, TypeOK
    <3> QED
      BY <2>1, <3>1, <3>3 DEF Accounted, Untouched
  <2>3. fights' # 0
    BY <2>1 DEF TypeOK
  <2> QED
    BY <2>2, <2>3 DEF CargoAccounted
<1> QED
  BY <1>1, <1>2, <1>3, <1>4, <1>5, <1>6, <1>7, <1>8 DEF Request

LEMMA TickCargo ==
  ASSUME TypeOK, TypeOK', Fenced, CargoAccounted, NEW t \in Ticks, Tick(t)
  PROVE  CargoAccounted'
<1> USE ProcsSplit DEF column, world, budget, local
<1>1. CASE ListDue(t)
  <2>1. Load(t) /\ pc' = [pc EXCEPT ![t] = "listed"] /\ "listed" \notin Stages
    BY <1>1 DEF ListDue, Goto, Stages
  <2> QED
    BY <1>1, <2>1, LoadQuiet, QuietCargo DEF ListDue
<1>2. CASE TickEnters(t)
  <2> DEFINE col == [mem[t] EXCEPT !.marker = TRUE]
  <2>1. row = mem[t] /\ fights # 0 /\ UNCHANGED <<pod, drops, fights>>
    BY <1>2, FightBegun DEF TickEnters, Matches, Fenced, Holds
  <2>2. col.salvage = row.salvage /\ col.captured = row.captured
    BY <2>1 DEF TypeOK, Column
  <2>3. /\ row' = col /\ current' = {t} /\ mem' = [mem EXCEPT ![t] = col]
        /\ pc' = [pc EXCEPT ![t] = "entered"]
    BY <1>2 DEF TickEnters, Write, Goto
  <2> QED
    BY <2>1, <2>2, <2>3, WriterCargo
<1>3. CASE TickConflict(t)
  BY <1>3, FinishQuiet, QuietCargo DEF TickConflict
<1> QED
  BY <1>1, <1>2, <1>3 DEF Tick

LEMMA ResolveCargo ==
  ASSUME TypeOK, TypeOK', Fenced, CargoAccounted, NEW q \in Procs, Resolve(q)
  PROVE  CargoAccounted'
<1> USE DEF column, world, budget, local
<1>1. ASSUME Flush(q) \/ Depart(q) PROVE CargoAccounted'
  <2>1. PICK l \in {"flushed", "clearing"} : pc' = [pc EXCEPT ![q] = l]
    BY <1>1 DEF Flush, Depart, Goto
  <2>2. pc[q] \in Stages /\ UNCHANGED <<row, current, mem, pod, drops, fights>>
    BY <1>1 DEF Flush, Depart, Stages
  <2> QED
    BY <2>1, <2>2, StayQuiet, QuietCargo
<1>2. ASSUME LeaveConflict(q) \/ \E p \in Players : FinalizeConflict(q, p)
      PROVE  CargoAccounted'
  BY <1>2, FinishQuiet, QuietCargo DEF LeaveConflict, FinalizeConflict
<1>3. ASSUME NEW p \in Players, EjectConflict(q, p) PROVE CargoAccounted'
  <2>1. pc[q] = "clearing" /\ pc' = pc
    BY <1>3 DEF EjectConflict, NextWreck
  <2>2. pc' = [pc EXCEPT ![q] = "clearing"] /\ pc[q] \in Stages
    BY <2>1 DEF TypeOK, Stages
  <2> QED
    BY <1>3, <2>2, StayQuiet, QuietCargo DEF EjectConflict
<1>4. CASE Drop(q)
  <2>1. /\ pc[q] = "clearing" /\ pc' = [pc EXCEPT ![q] = "leaving"]
        /\ UNCHANGED <<row, current, pod, fights>>
    BY <1>4 DEF Drop, Goto
  <2>2. pc[q] \in Stages /\ pc'[q] \in Stages /\ fights # 0
    BY <2>1, FightBegun DEF Stages, TypeOK
  <2>3. CASE ~Over(mem[q].enc)
    BY <1>4, <2>1, <2>2, <2>3, StayQuiet, QuietCargo DEF Drop
  <2>4. CASE Over(mem[q].enc)
    <3>1. /\ drops' = [p \in Players |-> IF p \in mem[q].salvage /\ drops[p] < 2
                                         THEN drops[p] + 1 ELSE drops[p]]
          /\ mem' = [mem EXCEPT ![q].salvage = {}]
      BY <1>4, <2>4 DEF Drop
    <3>2. /\ mem'[q].captured = mem[q].captured
          /\ \A r \in Procs \ {q} : mem'[r] = mem[r]
      BY <3>1 DEF TypeOK, Column
    <3>3. mem[q].salvage \subseteq Players
      BY DEF TypeOK, Column
    <3>4. ASSUME NEW p \in Players
          PROVE  drops[p] > 0 \/ p \in mem[q].salvage => drops'[p] > 0
      <4>1. drops[p] \in 0..2
        BY DEF TypeOK
      <4>2. drops'[p] = IF p \in mem[q].salvage /\ drops[p] < 2
                        THEN drops[p] + 1 ELSE drops[p]
        BY <3>1
      <4> QED
        BY <4>1, <4>2
    <3>5. Dropped \cup mem[q].salvage \subseteq Dropped' /\ Saved \subseteq Saved'
      <4>1. Dropped \cup mem[q].salvage \subseteq Dropped'
        BY <3>3, <3>4 DEF Dropped
      <4>2. row' = row
        BY <2>1
      <4> QED
        BY <4>1, <4>2 DEF Saved
    <3>6. OnlyMoves(q)
      BY <2>1, <3>2 DEF OnlyMoves, TypeOK
    <3>7. ASSUME Accounted
          PROVE  /\ pod' \cup row'.captured \cup mem'[q].captured \subseteq Saved'
                 /\ q \in current' =>
                      row'.salvage \subseteq mem'[q].salvage \cup Dropped'
      <4>1. pod \cup row.captured \cup mem[q].captured \subseteq Saved
        BY <3>7 DEF Accounted
      <4>2. q \in current' => row.salvage \subseteq Dropped'
        BY <3>7, <2>1, <2>2, <3>5 DEF Accounted, Resolving
      <4> QED
        BY <4>1, <4>2, <2>1, <3>2, <3>5
    <3> QED
      BY <2>1, <2>2, <3>5, <3>6, <3>7, FightCargo
  <2> QED
    BY <2>3, <2>4
<1>5. CASE Leave(q)
  <2>1. /\ q \in current /\ pc[q] \in Stages /\ current' = {} /\ Finish(q)
        /\ UNCHANGED <<pod, drops, fights>>
    BY <1>5 DEF Leave, Matches, WriteOut, Stages
  <2>2. row'.captured = Image(q).captured /\ row'.salvage = Image(q).salvage
    BY <1>5, ImageType DEF Leave, WriteOut, Column
  <2>3. row'.captured \subseteq mem[q].captured /\ row'.salvage = mem[q].salvage
    BY <2>2 DEF Image
  <2>4. fights # 0 /\ Dropped' = Dropped
    BY <2>1, FightBegun DEF Dropped, TypeOK
  <2>5. /\ OnlyMoves(q) /\ mem'[q].captured = {}
    BY <2>1 DEF OnlyMoves, Finish, Goto, TypeOK, Empty
  <2>6. ASSUME Accounted PROVE Saved \subseteq Saved'
    BY <2>1, <2>3, <2>4, <2>6 DEF Accounted, Saved, Resolving
  <2>7. ASSUME Accounted
        PROVE  pod' \cup row'.captured \cup mem'[q].captured \subseteq Saved'
    BY <2>1, <2>3, <2>5, <2>6, <2>7 DEF Accounted, TypeOK
  <2> QED
    BY <2>1, <2>4, <2>5, <2>6, <2>7, FightCargo
<1>6. ASSUME NEW p \in Players, Capture(q, p) PROVE CargoAccounted'
  <2>1. /\ q \in current /\ pc[q] \in Stages /\ row' = Banked(q, p) /\ current' = {q}
        /\ UNCHANGED <<pod, drops, fights, pc>>
        /\ mem' = [mem EXCEPT ![q].captured = @ \cup {p},
                              ![q].salvage  = @ \cup ({p} \ pod)]
    BY <1>6 DEF Capture, NextWreck, Matches, Write, Stages
  <2>2. /\ mem'[q].captured = mem[q].captured \cup {p}
        /\ mem'[q].salvage = mem[q].salvage \cup ({p} \ pod)
        /\ \A r \in Procs \ {q} : mem'[r] = mem[r]
    BY <2>1 DEF TypeOK, Column
  <2>3. /\ row'.captured \subseteq mem[q].captured \cup {p}
        /\ row'.salvage = mem[q].salvage \cup ({p} \ pod)
    BY <2>1 DEF Banked, Image
  <2>4. fights # 0 /\ Dropped' = Dropped
    BY <2>1, FightBegun DEF Dropped, TypeOK
  <2>5. OnlyMoves(q)
    BY <2>1, <2>2 DEF OnlyMoves
  <2>6. ASSUME Accounted PROVE Saved \subseteq Saved'
    BY <2>1, <2>3, <2>4, <2>6 DEF Accounted, Saved, Resolving
  <2>7. ASSUME Accounted PROVE p \in Saved'
    BY <2>1, <2>3, <2>6, <2>7 DEF Accounted, Saved
  <2>8. ASSUME Accounted
        PROVE  pod' \cup row'.captured \cup mem'[q].captured \subseteq Saved'
    BY <2>1, <2>2, <2>3, <2>6, <2>7, <2>8 DEF Accounted, TypeOK
  <2> QED
    BY <2>1, <2>2, <2>3, <2>4, <2>5, <2>6, <2>8, FightCargo
<1>7. ASSUME NEW p \in Players, Convert(q, p) PROVE CargoAccounted'
  <2>1. /\ pc[q] \in Stages /\ p \in mem[q].captured /\ pod' = pod \cup {p}
        /\ UNCHANGED <<row, current, mem, pc, drops, fights>>
    BY <1>7 DEF Convert, Stages
  <2>2. fights # 0 /\ Dropped' = Dropped /\ Saved' = Saved /\ OnlyMoves(q)
    BY <2>1, FightBegun DEF Dropped, Saved, OnlyMoves, TypeOK
  <2>3. ASSUME Accounted
        PROVE  /\ pod' \cup row'.captured \cup mem'[q].captured \subseteq Saved'
               /\ q \in current' /\ Resolving(q)' =>
                    row'.salvage \subseteq mem'[q].salvage \cup Dropped'
    BY <2>1, <2>2, <2>3 DEF Accounted, Resolving
  <2> QED
    BY <2>1, <2>2, <2>3, FightCargo
<1> QED
  BY <1>1, <1>2, <1>3, <1>4, <1>5, <1>6, <1>7 DEF Resolve

LEMMA InitCargo == Init => CargoAccounted
  BY DEF Init, CargoAccounted, Accounted, Untouched, Empty, NoEncounter, Saved

LEMMA NextCargo ==
  TypeOK /\ TypeOK' /\ Fenced /\ CargoAccounted /\ [Next]_vars => CargoAccounted'
<1> SUFFICES ASSUME TypeOK, TypeOK', Fenced, CargoAccounted, [Next]_vars
             PROVE  CargoAccounted'
  OBVIOUS
<1> USE DEF column, world, budget, local
<1>1. ASSUME NEW p \in Players, Request(p) PROVE CargoAccounted'
  BY <1>1, RequestCargo
<1>2. ASSUME NEW t \in Ticks, Tick(t) PROVE CargoAccounted'
  BY <1>2, TickCargo
<1>3. ASSUME NEW q \in Procs, Resolve(q) PROVE CargoAccounted'
  BY <1>3, ResolveCargo
<1>4. ASSUME NEW q \in Procs, Crash(q) PROVE CargoAccounted'
  BY <1>4, FinishQuiet, QuietCargo DEF Crash
<1>5. CASE DeadlinePasses \/ MarkerExpires \/ UNCHANGED vars
  <2>1. UNCHANGED <<row, current, world, fights, pc, mem>>
    BY <1>5 DEF DeadlinePasses, MarkerExpires, vars
  <2> QED
    BY <2>1 DEF CargoAccounted, Accounted, Untouched, Saved, Dropped, Resolving
<1> QED
  BY <1>1, <1>2, <1>3, <1>4, <1>5 DEF Next

\* No hold is wiped before its salvage is in the column or in the sector, even
\* if resolutions overtake each other or are killed (captureSalvageForDefeatedShip).
THEOREM CargoIsSafe == Spec => []CargoSafe
<1>1. CargoAccounted => CargoSafe
  BY DEF CargoAccounted, Accounted, CargoSafe, Saved, Dropped
<1> QED
  BY <1>1, InitCargo, NextCargo, TypeCorrect, FenceHolds, PTL DEF Spec

-----------------------------------------------------------------------------
(* Tolls.                                                                  *)

Charged == {p \in Players : charged[p] > 0}

\* Process r moved, left every payment on record or in memory backed by a debit,
\* and is not on its way to record another that is not.
LEMMA TollFrame ==
  ASSUME TypeOK, TypeOK', TollsCharged, NEW r \in Procs,
         Charged \subseteq Charged',
         row'.enc.paid \cup mem'[r].enc.paid \subseteq Charged',
         \A q \in Procs \ {r} :
           pc'[q] = pc[q] /\ mem'[q] = mem[q] /\ choice'[q] = choice[q],
         r \in Players /\ pc'[r] = "act" /\ choice'[r] = "pay" => r \in Charged'
  PROVE  TollsCharged'
<1>1. PaidForPeace'
  BY DEF PaidForPeace, Charged
<1>2. ASSUME NEW q \in Procs, NEW p \in mem'[q].enc.paid PROVE charged'[p] > 0
  <2>1. mem'[q] \in Column
    BY DEF TypeOK
  <2>2. p \in Players
    BY <2>1, <1>2 DEF Column, Encounter
  <2>3. CASE q = r
    BY <1>2, <2>3 DEF Charged
  <2>4. CASE q # r
    BY <1>2, <2>2, <2>4 DEF TollsCharged, Charged
  <2> QED
    BY <2>3, <2>4
<1>3. ASSUME NEW p \in Players, pc'[p] = "act", choice'[p] = "pay"
      PROVE  charged'[p] > 0
  BY <1>3, ProcsSplit DEF TollsCharged, Charged
<1> QED
  BY <1>1, <1>2, <1>3 DEF TollsCharged

\* What is on record or in memory is backed.
LEMMA PaidCharged ==
  ASSUME TypeOK, TollsCharged
  PROVE  /\ row.enc.paid \subseteq Charged
         /\ \A q \in Procs : mem[q].enc.paid \subseteq Charged
         /\ Empty.enc.paid = {}
<1>1. row.enc.paid \subseteq Players
  BY DEF TypeOK, Column, Encounter
<1>2. \A q \in Procs : mem[q].enc.paid \subseteq Players
  BY DEF TypeOK, Column, Encounter
<1> QED
  BY <1>1, <1>2 DEF TollsCharged, PaidForPeace, Charged, Empty, NoEncounter

\* The end of a request.
LEMMA FinishToll ==
  ASSUME TypeOK, TypeOK', TollsCharged, NEW r \in Procs, Finish(r), charged' = charged,
         row'.enc.paid \subseteq Charged
  PROVE  TollsCharged'
<1>1. /\ pc' = [pc EXCEPT ![r] = "idle"] /\ mem' = [mem EXCEPT ![r] = Empty]
      /\ choice' = [choice EXCEPT ![r] = "none"]
  BY DEF Finish, Goto
<1>2. pc'[r] = "idle" /\ mem'[r] = Empty
  BY <1>1 DEF TypeOK
<1>3. \A q \in Procs \ {r} :
        pc'[q] = pc[q] /\ mem'[q] = mem[q] /\ choice'[q] = choice[q]
  BY <1>1 DEF TypeOK
<1>4. Charged' = Charged
  BY DEF Charged
<1> QED
  BY <1>2, <1>3, <1>4, PaidCharged, TollFrame

\* A step that neither submits nor ends anything: the process may load the
\* column, or write what it has in memory.
LEMMA MoveToll ==
  ASSUME TypeOK, TypeOK', TollsCharged, NEW r \in Procs, charged' = charged,
         choice' = choice \/ choice' = [choice EXCEPT ![r] = "none"],
         NEW l, l # "act", pc' = [pc EXCEPT ![r] = l],
         \A q \in Procs \ {r} : mem'[q] = mem[q],
         row'.enc.paid \subseteq Charged, mem'[r].enc.paid \subseteq Charged
  PROVE  TollsCharged'
<1>1. Charged' = Charged
  BY DEF Charged
<1>2. \A q \in Procs \ {r} : pc'[q] = pc[q] /\ choice'[q] = choice[q]
  BY DEF TypeOK
<1>3. ASSUME r \in Players, pc'[r] = "act", choice'[r] = "pay" PROVE r \in Charged
  BY <1>3 DEF TypeOK
<1> QED
  BY <1>1, <1>2, <1>3, TollFrame

\* Only an action that pays adds a payer.
LEMMA SubmittedPaid ==
  ASSUME TypeOK, TollsCharged, NEW p \in Players, pc[p] = "act"
  PROVE  Acted(p).enc.paid \subseteq Charged
<1>1. mem[p] \in Column /\ mem[p].enc \in Encounter
  BY ProcsSplit, ColumnType DEF TypeOK
<1>2. Acted(p).enc.paid = IF choice[p] = "pay" THEN mem[p].enc.paid \cup {p}
                          ELSE mem[p].enc.paid
  BY <1>1 DEF Acted, Submitted, Column, Encounter
<1>3. choice[p] = "pay" => p \in Charged
  BY DEF TollsCharged, Charged
<1> QED
  BY <1>2, <1>3, PaidCharged, ProcsSplit

\* A resolution neither adds nor drops payments.
LEMMA ImagePaid ==
  ASSUME TypeOK, NEW q \in Procs
  PROVE  /\ Image(q).enc.paid = mem[q].enc.paid
         /\ \A luck : NextRound(Image(q).enc, luck).paid = mem[q].enc.paid
<1>1. mem[q].enc \in Encounter
  BY ColumnType DEF TypeOK
<1>2. Image(q).enc = Settled(mem[q].enc, done[q])
  BY DEF Image
<1>3. Settled(mem[q].enc, done[q]).paid = mem[q].enc.paid
  BY <1>1, SettledFields
<1>4. Settled(mem[q].enc, done[q]) \in Encounter
  BY <1>1, SettledType
<1> QED
  BY <1>2, <1>3, <1>4 DEF NextRound, Encounter

LEMMA RequestToll ==
  ASSUME TypeOK, TypeOK', TollsCharged, NEW p \in Players, Request(p)
  PROVE  TollsCharged'
<1> USE ProcsSplit DEF column, world, budget, local
<1>0. p \in Procs
  OBVIOUS
<1>1. ASSUME Arrive(p) \/ Look(p) \/ GiveUpJoin(p) \/ WaitOut(p) \/ RetryJoin(p)
               \/ Initiate(p)
      PROVE  TollsCharged'
  <2>1. choice' = choice /\ charged' = charged /\ row' = row
    BY <1>1 DEF Arrive, Look, GiveUpJoin, WaitOut, RetryJoin, Initiate
  <2>2. mem' = mem \/ mem' = [mem EXCEPT ![p] = row]
    BY <1>1 DEF Arrive, Look, GiveUpJoin, WaitOut, RetryJoin, Initiate, Load
  <2>3. PICK l \in {"arrived", "join", "auto", "engage"} : pc' = [pc EXCEPT ![p] = l]
    <3>1. ASSUME WaitOut(p) \/ RetryJoin(p) PROVE pc' = [pc EXCEPT ![p] = "join"]
      BY <3>1 DEF WaitOut, RetryJoin, CanJoin, TypeOK
    <3> QED
      BY <1>1, <3>1 DEF Arrive, Look, GiveUpJoin, Initiate, Goto
  <2>4. mem'[p].enc.paid \subseteq Charged /\ \A q \in Procs \ {p} : mem'[q] = mem[q]
    BY <2>2, PaidCharged DEF TypeOK
  <2> QED
    BY <2>1, <2>3, <2>4, PaidCharged, MoveToll
<1>2. CASE AutoEngage(p)
  <2>1. CASE ~Active /\ Garrison \in armed /\ Ships # {}
    <3>1. /\ mem' = [mem EXCEPT ![p] = row] /\ pc' = [pc EXCEPT ![p] = "engage"]
          /\ choice' = choice /\ charged' = charged /\ row' = row
      BY <1>2, <2>1 DEF AutoEngage, Load, Goto
    <3>2. mem'[p] = row /\ \A q \in Procs \ {p} : mem'[q] = mem[q]
      BY <3>1 DEF TypeOK
    <3> QED
      BY <3>1, <3>2, PaidCharged, MoveToll
  <2>2. CASE ~(~Active /\ Garrison \in armed /\ Ships # {})
    BY <1>2, <2>2, FinishToll, PaidCharged DEF AutoEngage
  <2> QED
    BY <2>1, <2>2
<1>3. ASSUME EngageConflict(p) \/ TooPoor(p) \/ ActConflict(p) PROVE TollsCharged'
  BY <1>3, FinishToll, PaidCharged DEF EngageConflict, TooPoor, ActConflict
<1>4. ASSUME Join(p) \/ Reinforce(p) PROVE TollsCharged'
  <2>1. Finish(p) /\ charged' = charged /\ row' \in {mem[p], Joined(p)}
    BY <1>4 DEF Join, Reinforce, WriteOut
  <2>2. Joined(p).enc.paid = mem[p].enc.paid
    <3>1. mem[p] \in Column /\ mem[p].enc \in Encounter
      BY DEF TypeOK, Column
    <3>2. Joined(p).enc = Enrolled(mem[p].enc, p, crew[p][p])
      BY <3>1 DEF Joined, Column
    <3>3. Enrolled(mem[p].enc, p, crew[p][p]).paid = mem[p].enc.paid
      BY <3>1 DEF Enrolled, Encounter
    <3> QED
      BY <3>2, <3>3
  <2>3. row'.enc.paid = mem[p].enc.paid
    BY <2>1, <2>2
  <2>4. row'.enc.paid \subseteq Charged
    BY <2>3, PaidCharged
  <2> QED
    BY <2>1, <2>4, FinishToll
<1>5. CASE StartFight(p)
  <2>1. Finish(p) /\ charged' = charged /\ row'.enc.paid = {}
    BY <1>5 DEF StartFight, WriteOut, Fresh
  <2> QED
    BY <2>1, FinishToll
<1>6. ASSUME NEW a \in Acts, Act(p, a) PROVE TollsCharged'
  <2>1. /\ mem' = [mem EXCEPT ![p] = row] /\ choice' = [choice EXCEPT ![p] = a]
        /\ pc' = [pc EXCEPT ![p] = IF a = "pay" THEN "pay" ELSE "act"]
        /\ charged' = charged /\ row' = row
    BY <1>6 DEF Act, Load, Goto
  <2>2. mem'[p] = row /\ choice'[p] = a /\ (pc'[p] = "act" => a # "pay")
    BY <2>1 DEF TypeOK
  <2>3. \A q \in Procs \ {p} :
          pc'[q] = pc[q] /\ mem'[q] = mem[q] /\ choice'[q] = choice[q]
    BY <2>1 DEF TypeOK
  <2>4. Charged' = Charged
    BY <2>1 DEF Charged
  <2> QED
    BY <2>1, <2>2, <2>3, <2>4, PaidCharged, TollFrame
<1>7. CASE PayToll(p)
  <2>1. /\ charged' = [charged EXCEPT ![p] = @ + 1] /\ pc' = [pc EXCEPT ![p] = "act"]
        /\ UNCHANGED <<row, mem, choice>>
    BY <1>7 DEF PayToll, Goto
  <2>2. \A q \in Players : charged[q] \in Nat
    BY DEF TypeOK
  <2>3. charged'[p] = charged[p] + 1 /\ \A q \in Players \ {p} : charged'[q] = charged[q]
    BY <2>1 DEF TypeOK
  <2>4. Charged \cup {p} \subseteq Charged'
    BY <2>2, <2>3 DEF Charged
  <2>5. \A q \in Procs \ {p} : pc'[q] = pc[q]
    BY <2>1 DEF TypeOK
  <2> QED
    BY <2>1, <2>4, <2>5, PaidCharged, TollFrame
<1>8. CASE StoreAction(p)
  BY <1>8, SubmittedPaid, FinishToll DEF StoreAction, WriteOut
<1>9. CASE ActAndResolve(p)
  <2> DEFINE col == [Acted(p) EXCEPT !.marker = TRUE]
  <2>1. /\ row' = col /\ mem' = [mem EXCEPT ![p] = col] /\ charged' = charged
        /\ pc' = [pc EXCEPT ![p] = "entered"] /\ choice' = [choice EXCEPT ![p] = "none"]
    BY <1>9 DEF ActAndResolve, Write, Goto
  <2>2. col.enc.paid \subseteq Charged
    BY <1>9, SubmittedPaid, ActedType DEF ActAndResolve, Column
  <2>3. mem'[p] = col /\ \A q \in Procs \ {p} : mem'[q] = mem[q]
    BY <2>1 DEF TypeOK
  <2> QED
    BY <2>1, <2>2, <2>3, MoveToll
<1> QED
  BY <1>1, <1>2, <1>3, <1>4, <1>5, <1>6, <1>7, <1>8, <1>9 DEF Request

LEMMA TickToll ==
  ASSUME TypeOK, TypeOK', TollsCharged, NEW t \in Ticks, Tick(t)
  PROVE  TollsCharged'
<1> USE ProcsSplit DEF column, world, budget, local
<1>1. CASE ListDue(t)
  <2>1. /\ mem' = [mem EXCEPT ![t] = row] /\ pc' = [pc EXCEPT ![t] = "listed"]
        /\ choice' = choice /\ charged' = charged /\ row' = row
    BY <1>1 DEF ListDue, Load, Goto
  <2>2. mem'[t] = row /\ \A q \in Procs \ {t} : mem'[q] = mem[q]
    BY <2>1 DEF TypeOK
  <2> QED
    BY <2>1, <2>2, PaidCharged, MoveToll
<1>2. CASE TickEnters(t)
  <2> DEFINE col == [mem[t] EXCEPT !.marker = TRUE]
  <2>1. /\ row' = col /\ mem' = [mem EXCEPT ![t] = col] /\ charged' = charged
        /\ pc' = [pc EXCEPT ![t] = "entered"] /\ choice' = choice
    BY <1>2 DEF TickEnters, Write, Goto
  <2>2. col.enc.paid \subseteq Charged
    BY PaidCharged DEF TypeOK, Column
  <2>3. mem'[t] = col /\ \A q \in Procs \ {t} : mem'[q] = mem[q]
    BY <2>1 DEF TypeOK
  <2> QED
    BY <2>1, <2>2, <2>3, MoveToll
<1>3. CASE TickConflict(t)
  BY <1>3, FinishToll, PaidCharged DEF TickConflict
<1> QED
  BY <1>1, <1>2, <1>3 DEF Tick

LEMMA ResolveToll ==
  ASSUME TypeOK, TypeOK', TollsCharged, NEW q \in Procs, Resolve(q)
  PROVE  TollsCharged'
<1> USE DEF column, world, budget, local
<1>1. ASSUME Flush(q) \/ Depart(q) \/ \E p \in Players : EjectConflict(q, p) \/ Convert(q, p)
      PROVE  TollsCharged'
  <2>1. choice' = choice /\ charged' = charged /\ row' = row /\ mem' = mem
    BY <1>1 DEF Flush, Depart, EjectConflict, Convert
  <2>2. PICK l \in {"flushed", "clearing"} : pc' = [pc EXCEPT ![q] = l]
    <3>1. ASSUME NEW p \in Players, EjectConflict(q, p) \/ Convert(q, p)
          PROVE  pc' = [pc EXCEPT ![q] = "clearing"]
      BY <3>1 DEF EjectConflict, Convert, NextWreck, TypeOK
    <3> QED
      BY <1>1, <3>1 DEF Flush, Depart, Goto
  <2> QED
    BY <2>1, <2>2, PaidCharged, MoveToll
<1>2. CASE Drop(q)
  <2>1. /\ choice' = choice /\ charged' = charged /\ row' = row
        /\ pc' = [pc EXCEPT ![q] = "leaving"]
        /\ mem' = mem \/ mem' = [mem EXCEPT ![q].salvage = {}]
    BY <1>2 DEF Drop, Goto
  <2>2. mem'[q].enc = mem[q].enc /\ \A r \in Procs \ {q} : mem'[r] = mem[r]
    BY <2>1 DEF TypeOK, Column
  <2> QED
    BY <2>1, <2>2, PaidCharged, MoveToll
<1>3. CASE Leave(q)
  <2>1. PICK luck \in Outcomes :
          row' = [Image(q) EXCEPT !.enc = NextRound(@, luck), !.marker = FALSE]
    BY <1>3 DEF Leave, WriteOut
  <2>2. row'.enc.paid = mem[q].enc.paid
    BY <2>1, ImagePaid, ImageType DEF Column
  <2> QED
    BY <1>3, <2>2, FinishToll, PaidCharged DEF Leave
<1>4. ASSUME LeaveConflict(q) \/ \E p \in Players : FinalizeConflict(q, p)
      PROVE  TollsCharged'
  BY <1>4, FinishToll, PaidCharged DEF LeaveConflict, FinalizeConflict
<1>5. ASSUME NEW p \in Players, Capture(q, p) PROVE TollsCharged'
  <2>1. /\ row' = Banked(q, p) /\ charged' = charged /\ choice' = choice
        /\ pc' = [pc EXCEPT ![q] = "clearing"]
        /\ mem' = [mem EXCEPT ![q].captured = @ \cup {p},
                              ![q].salvage  = @ \cup ({p} \ pod)]
    BY <1>5 DEF Capture, NextWreck, Write, TypeOK
  <2>2. mem'[q].enc = mem[q].enc /\ \A r \in Procs \ {q} : mem'[r] = mem[r]
    BY <2>1 DEF TypeOK, Column
  <2>3. row'.enc.paid = mem[q].enc.paid
    BY <2>1, ImagePaid, ImageType DEF Banked, Column
  <2> QED
    BY <2>1, <2>2, <2>3, PaidCharged, MoveToll
<1> QED
  BY <1>1, <1>2, <1>3, <1>4, <1>5 DEF Resolve

LEMMA InitToll == Init => TollsCharged
  BY ProcsSplit DEF Init, TollsCharged, PaidForPeace, Empty, NoEncounter

LEMMA NextToll == TypeOK /\ TypeOK' /\ TollsCharged /\ [Next]_vars => TollsCharged'
<1> SUFFICES ASSUME TypeOK, TypeOK', TollsCharged, [Next]_vars PROVE TollsCharged'
  OBVIOUS
<1> USE DEF column, world, budget, local
<1>1. ASSUME NEW p \in Players, Request(p) PROVE TollsCharged'
  BY <1>1, RequestToll
<1>2. ASSUME NEW t \in Ticks, Tick(t) PROVE TollsCharged'
  BY <1>2, TickToll
<1>3. ASSUME NEW q \in Procs, Resolve(q) PROVE TollsCharged'
  BY <1>3, ResolveToll
<1>4. ASSUME NEW q \in Procs, Crash(q) PROVE TollsCharged'
  BY <1>4, FinishToll, PaidCharged DEF Crash
<1>5. CASE DeadlinePasses \/ MarkerExpires \/ UNCHANGED vars
  <2>1. UNCHANGED <<row, mem, pc, choice, charged>>
    BY <1>5 DEF DeadlinePasses, MarkerExpires, vars
  <2> QED
    BY <2>1 DEF TollsCharged, PaidForPeace
<1> QED
  BY <1>1, <1>2, <1>3, <1>4, <1>5 DEF Next

\* Nobody is on record as having paid who was not charged (processTollPayment).
THEOREM PeaceIsPaidFor == Spec => []PaidForPeace
<1>1. TollsCharged => PaidForPeace
  BY DEF TollsCharged
<1> QED
  BY <1>1, InitToll, NextToll, TypeCorrect, PTL DEF Spec

-----------------------------------------------------------------------------
(* One pair of hands.  However resolutions overlap, and whatever is        *)
(* killed: at most one of them may still write, and it is the one that     *)
(* entered last (RoundOwned), its round was due (Called), and it will not  *)
(* leave a wreck behind (Cleaning).  A resolution that was overtaken needs *)
(* no invariant: the fence stops it.                                       *)

\* Who has the column's last_updated while another resolves: joins and new fights
\* that cannot write, and ticks that will overtake the resolution.
Yields(r) ==
  pc[r] \in {"join", "auto", "listed"} \/ (pc[r] = "engage" /\ row.enc.ended)

Vacant == \A q \in current : ~Resolving(q)

RoundOwned ==
  /\ stale => Vacant
  /\ \A q \in current : Resolving(q) =>
       row.marker /\ \A r \in current \ {q} : Yields(r)

Called ==
  /\ row.enc.ended => ~due
  /\ \A q \in current :
       /\ pc[q] = "listed" => due
       /\ Resolving(q) /\ ~row.enc.ended => RoundReady(mem[q].enc) \/ due

CleansUp(q) ==
  /\ pc[q] = "clearing" => Wrecks(mem[q].enc) \subseteq todo[q] \cup done[q]
  /\ pc[q] = "leaving" => Wrecks(mem[q].enc) \subseteq done[q]

Cleaning == \A q \in current : CleansUp(q)

Owned == RoundOwned /\ Called /\ Cleaning

Others(r) ==
  \A q \in Procs \ {r} :
    /\ pc'[q] = pc[q] /\ mem'[q] = mem[q] /\ crew'[q] = crew[q]
    /\ todo'[q] = todo[q] /\ done'[q] = done[q]

LEMMA FinishOthers ==
  ASSUME TypeOK, NEW r \in Procs, Finish(r)
  PROVE  Others(r) /\ pc'[r] = "idle"
  BY DEF Finish, Goto, TypeOK, Others

LEMMA StagesAreNot ==
  \A l \in {"idle", "arrived", "join", "auto", "engage", "pay", "act", "listed"} :
    l \notin Stages
  BY DEF Stages

\* Whoever is about to write the column, and not to yield, has it in memory.
LEMMA HeldRow ==
  ASSUME TypeOK, Fenced, NEW r \in Procs, Matches(r),
         pc[r] \in {"join", "engage", "pay", "act", "listed"}
  PROVE  mem[r] = row /\ row \in Column /\ row.enc \in Encounter
  BY DEF TypeOK, Fenced, Holds, Matches, Column

-----------------------------------------------------------------------------
(* Who owns the round, and why it is resolved.                             *)

\* A step of r that leaves the column and every resolution alone.
Aside(r) ==
  /\ row' = row /\ stale' = stale /\ due' = due
  /\ Others(r)
  /\ ~Resolving(r) /\ ~Resolving(r)'
  /\ current \ {r} \subseteq current' /\ current' \subseteq current \cup {r}
  /\ r \in current' => /\ Yields(r)' \/ Vacant
                       /\ pc'[r] = "listed" => due

\* Whoever else could write, and does not yield, has no resolution beside it.
LEMMA WriterVacant ==
  ASSUME RoundOwned, NEW r \in current, ~Resolving(r), ~Yields(r)
  PROVE  Vacant
  BY DEF RoundOwned, Vacant

LEMMA AsideSame ==
  ASSUME TypeOK, NEW r \in Procs, Aside(r), NEW q \in Procs, q # r
  PROVE  /\ pc'[q] = pc[q] /\ mem'[q] = mem[q] /\ todo'[q] = todo[q] /\ done'[q] = done[q]
         /\ q \in current' <=> q \in current
         /\ Resolving(q)' <=> Resolving(q)
         /\ Yields(q)' <=> Yields(q)
<1>1. /\ pc'[q] = pc[q] /\ mem'[q] = mem[q] /\ todo'[q] = todo[q] /\ done'[q] = done[q]
      /\ row' = row
  BY DEF Aside, Others
<1>2. q \in current' <=> q \in current
  BY DEF Aside
<1> QED
  BY <1>1, <1>2 DEF Resolving, Yields

LEMMA AsideOwned ==
  ASSUME TypeOK, TypeOK', Owned, NEW r \in Procs, Aside(r)
  PROVE  Owned'
<1>0. /\ row' = row /\ stale' = stale /\ due' = due /\ ~Resolving(r) /\ ~Resolving(r)'
      /\ r \in current' => /\ Yields(r)' \/ Vacant
                           /\ pc'[r] = "listed" => due
      /\ current' \subseteq Procs
  BY DEF Aside, TypeOK
<1>1. Vacant => Vacant'
  BY <1>0, AsideSame DEF Vacant
<1>2. ASSUME NEW q \in current', Resolving(q)'
      PROVE  row'.marker /\ \A s \in current' \ {q} : Yields(s)'
  <2>1. q # r /\ q \in Procs
    BY <1>0, <1>2
  <2>2. q \in current /\ Resolving(q)
    BY <1>2, <2>1, AsideSame
  <2>3. row.marker /\ ~Vacant /\ \A s \in current \ {q} : Yields(s)
    BY <2>2 DEF Owned, RoundOwned, Vacant
  <2>4. ASSUME NEW s \in current' \ {q} PROVE Yields(s)'
    <3>1. CASE s = r
      BY <1>0, <2>3, <2>4, <3>1
    <3>2. CASE s # r
      BY <1>0, <2>3, <2>4, <3>2, AsideSame
    <3> QED
      BY <3>1, <3>2
  <2> QED
    BY <1>0, <2>3, <2>4
<1>3. RoundOwned'
  BY <1>0, <1>1, <1>2 DEF Owned, RoundOwned
<1>4. ASSUME NEW q \in current'
      PROVE  /\ pc'[q] = "listed" => due'
             /\ Resolving(q)' /\ ~row'.enc.ended => RoundReady(mem'[q].enc) \/ due'
             /\ CleansUp(q)'
  <2>1. CASE q = r
    BY <1>0, <1>4, <2>1 DEF CleansUp, Resolving, Stages
  <2>2. CASE q # r
    <3>1. q \in Procs /\ q \in current
      BY <1>0, <1>4, <2>2, AsideSame
    <3>2. /\ pc'[q] = pc[q] /\ mem'[q] = mem[q] /\ todo'[q] = todo[q] /\ done'[q] = done[q]
          /\ Resolving(q)' <=> Resolving(q)
      BY <2>2, <3>1, AsideSame
    <3>3. /\ pc[q] = "listed" => due
          /\ Resolving(q) /\ ~row.enc.ended => RoundReady(mem[q].enc) \/ due
          /\ CleansUp(q)
      BY <3>1 DEF Owned, Called, Cleaning
    <3>4. CleansUp(q)'
      BY <3>2, <3>3 DEF CleansUp
    <3> QED
      BY <1>0, <3>2, <3>3, <3>4
  <2> QED
    BY <2>1, <2>2
<1>5. row'.enc.ended => ~due'
  BY <1>0 DEF Owned, Called
<1>6. Called'
  BY <1>4, <1>5 DEF Called
<1>7. Cleaning'
  BY <1>4 DEF Cleaning
<1> QED
  BY <1>3, <1>6, <1>7 DEF Owned

\* The last write of a request or a round.
LEMMA WrittenOwned ==
  ASSUME current' = {}, row'.enc.ended => ~due'
  PROVE  Owned'
  BY DEF Owned, RoundOwned, Called, Cleaning, Vacant

\* A resolution begins.
LEMMA EnterOwned ==
  ASSUME NEW r \in Procs, current' = {r}, row'.marker, ~row'.enc.ended, ~stale',
         pc'[r] = "entered", RoundReady(mem'[r].enc) \/ due'
  PROVE  Owned'
  BY DEF Owned, RoundOwned, Called, Cleaning, CleansUp, Vacant

\* A resolution goes on, and writes nothing; if it has lost the column it may
\* also give up.
LEMMA RoundGoesOn ==
  ASSUME TypeOK, TypeOK', Owned, NEW q \in Procs, Others(q), Resolving(q),
         row' = row, current' = current, stale' = stale, due' = due,
         q \in current => Resolving(q)' /\ mem'[q].enc = mem[q].enc /\ CleansUp(q)'
  PROVE  Owned'
<1>1. ASSUME NEW s \in Procs, s # q
      PROVE  /\ pc'[s] = pc[s] /\ mem'[s] = mem[s] /\ todo'[s] = todo[s] /\ done'[s] = done[s]
             /\ Resolving(s)' <=> Resolving(s)
             /\ Yields(s)' <=> Yields(s)
  BY <1>1 DEF Others, Resolving, Yields
<1>2. current \subseteq Procs
  BY DEF TypeOK
<1>3. \A s \in current : (Resolving(s)' <=> Resolving(s)) /\ mem'[s].enc = mem[s].enc
  BY <1>1, <1>2
<1>4. ~Yields(q)
  BY DEF Resolving, Stages, Yields
<1>5. Vacant => Vacant'
  BY <1>3 DEF Vacant
<1>6. ASSUME NEW s \in current', Resolving(s)'
      PROVE  row'.marker /\ \A r \in current' \ {s} : Yields(r)'
  <2>1. row.marker /\ \A r \in current \ {s} : Yields(r)
    BY <1>3, <1>6 DEF Owned, RoundOwned
  <2> QED
    BY <1>1, <1>2, <1>4, <2>1
<1>7. RoundOwned'
  BY <1>5, <1>6 DEF Owned, RoundOwned
<1>8. \A s \in current : pc'[s] = "listed" => pc[s] = "listed"
  BY <1>1, <1>2 DEF Resolving, Stages
<1>9. Called'
  BY <1>3, <1>8 DEF Owned, Called
<1>10. ASSUME NEW s \in current PROVE CleansUp(s)'
  <2>1. CASE s = q
    BY <2>1
  <2>2. CASE s # q
    BY <1>1, <1>2, <2>2 DEF Owned, Cleaning, CleansUp
  <2> QED
    BY <2>1, <2>2
<1> QED
  BY <1>7, <1>9, <1>10 DEF Owned, Cleaning

-----------------------------------------------------------------------------
(* The steps that leave the column alone.                                  *)

LEMMA QuitAside ==
  ASSUME TypeOK, NEW r \in Procs, ~Resolving(r), Finish(r), UNCHANGED <<row, stale, due>>,
         current' = current \ {r}
  PROVE  Aside(r)
<1>1. Others(r) /\ pc'[r] = "idle"
  BY FinishOthers
<1> QED
  BY <1>1, StagesAreNot DEF Aside, Resolving

LEMMA LoadAside ==
  ASSUME TypeOK, NEW r \in Procs, ~Resolving(r), Load(r),
         UNCHANGED <<row, stale, due, todo, done>>,
         \A q \in Procs \ {r} : pc'[q] = pc[q] /\ crew'[q] = crew[q],
         pc'[r] \notin Stages, Yields(r)' \/ Vacant, pc'[r] = "listed" => due
  PROVE  Aside(r)
<1>1. Others(r)
  BY DEF Load, Others, TypeOK
<1> QED
  BY <1>1 DEF Aside, Load, Resolving

\* Requests that have not come to their write.
Looking(p) ==
  \/ Arrive(p) \/ Look(p) \/ GiveUpJoin(p) \/ WaitOut(p) \/ RetryJoin(p)
  \/ AutoEngage(p) \/ Initiate(p) \/ EngageConflict(p)
  \/ \E a \in Acts : Act(p, a)
  \/ PayToll(p) \/ TooPoor(p) \/ ActConflict(p)

LEMMA NoLockVacant ==
  ASSUME RoundOwned, ~LockHeld
  PROVE  Vacant
  BY DEF RoundOwned, LockHeld, Vacant

LEMMA LookingAside ==
  ASSUME TypeOK, RoundOwned, NEW p \in Players, Looking(p)
  PROVE  Aside(p)
<1> USE ProcsSplit, StagesAreNot
<1>1. CASE Arrive(p) \/ PayToll(p)
  <2>1. /\ row' = row /\ stale' = stale /\ due' = due /\ current' = current
        /\ mem' = mem /\ todo' = todo /\ done' = done
        /\ pc[p] \in {"idle", "pay"}
        /\ \E l \in {"arrived", "act"} : pc' = [pc EXCEPT ![p] = l]
        /\ \A q \in Procs \ {p} : crew'[q] = crew[q]
    BY <1>1 DEF Arrive, PayToll, Goto, column, TypeOK
  <2>2. Others(p) /\ pc'[p] \in {"arrived", "act"}
    BY <2>1 DEF Others, TypeOK
  <2>3. p \in current => Vacant
    BY <2>1, WriterVacant DEF Resolving, Yields
  <2> QED
    BY <2>1, <2>2, <2>3 DEF Aside, Resolving
<1>2. CASE Look(p) \/ WaitOut(p) \/ RetryJoin(p)
  <2>1. /\ Load(p) /\ UNCHANGED <<row, stale, due, todo, done, crew>>
        /\ pc[p] \in {"arrived", "join"}
        /\ \E l \in {"join", "auto"} : pc' = [pc EXCEPT ![p] = l]
    <3>1. CASE Look(p)
      BY <3>1 DEF Look, Goto
    <3>2. CASE WaitOut(p) \/ RetryJoin(p)
      <4>1. /\ Load(p) /\ UNCHANGED <<row, stale, due, todo, done, crew>>
            /\ pc[p] = "join" /\ pc' = pc
        BY <3>2 DEF WaitOut, RetryJoin, CanJoin
      <4>2. pc' = [pc EXCEPT ![p] = "join"]
        BY <4>1 DEF TypeOK
      <4> QED
        BY <4>1, <4>2
    <3> QED
      BY <1>2, <3>1, <3>2
  <2>2. pc'[p] \in {"join", "auto"} /\ \A q \in Procs \ {p} : pc'[q] = pc[q]
    BY <2>1 DEF TypeOK
  <2> QED
    BY <2>1, <2>2, LoadAside DEF Resolving, Yields
<1>3. CASE GiveUpJoin(p)
  <2>1. /\ row' = row /\ stale' = stale /\ due' = due /\ current' = current
        /\ mem' = mem /\ todo' = todo /\ done' = done /\ crew' = crew
        /\ pc[p] = "join" /\ pc' = [pc EXCEPT ![p] = "auto"]
    BY <1>3 DEF GiveUpJoin, Goto, column
  <2>2. Others(p) /\ pc'[p] = "auto"
    BY <2>1 DEF Others, TypeOK
  <2> QED
    BY <2>1, <2>2 DEF Aside, Resolving, Yields
<1>4. CASE AutoEngage(p)
  <2>1. CASE ~Active /\ Garrison \in armed /\ Ships # {}
    <3>1. /\ Load(p) /\ UNCHANGED <<row, stale, due, todo, done>>
          /\ pc[p] = "auto" /\ pc' = [pc EXCEPT ![p] = "engage"]
          /\ crew' = [crew EXCEPT ![p] = Roster]
      BY <1>4, <2>1 DEF AutoEngage, Goto
    <3>2. /\ pc'[p] = "engage" /\ row'.enc.ended
          /\ \A q \in Procs \ {p} : pc'[q] = pc[q] /\ crew'[q] = crew[q]
      BY <2>1, <3>1 DEF TypeOK, Active
    <3> QED
      BY <3>1, <3>2, LoadAside DEF Resolving, Yields
  <2>2. CASE ~(~Active /\ Garrison \in armed /\ Ships # {})
    BY <1>4, <2>2, QuitAside DEF AutoEngage, Resolving
  <2> QED
    BY <2>1, <2>2
<1>5. CASE Initiate(p)
  <2>1. /\ Load(p) /\ UNCHANGED <<row, stale, due, todo, done>>
        /\ pc[p] = "idle" /\ pc' = [pc EXCEPT ![p] = "engage"]
        /\ crew' = [crew EXCEPT ![p] = Roster]
        /\ Active => ~LockHeld
    BY <1>5 DEF Initiate, Goto
  <2>2. /\ pc'[p] = "engage"
        /\ \A q \in Procs \ {p} : pc'[q] = pc[q] /\ crew'[q] = crew[q]
    BY <2>1 DEF TypeOK
  <2>3. Yields(p)' \/ Vacant
    BY <2>1, <2>2, NoLockVacant DEF Yields, Active
  <2> QED
    BY <2>1, <2>2, <2>3, LoadAside DEF Resolving
<1>6. ASSUME NEW a \in Acts, Act(p, a) PROVE Aside(p)
  <2>1. /\ Load(p) /\ UNCHANGED <<row, stale, due, todo, done, crew>>
        /\ pc[p] = "idle" /\ ~LockHeld
        /\ \E l \in {"pay", "act"} : pc' = [pc EXCEPT ![p] = l]
    BY <1>6 DEF Act, Goto
  <2>2. pc'[p] \in {"pay", "act"} /\ \A q \in Procs \ {p} : pc'[q] = pc[q]
    BY <2>1 DEF TypeOK
  <2> QED
    BY <2>1, <2>2, LoadAside, NoLockVacant DEF Resolving
<1>7. CASE TooPoor(p)
  BY <1>7, QuitAside DEF TooPoor, Resolving
<1>8. CASE EngageConflict(p) \/ ActConflict(p)
  <2>1. /\ UNCHANGED <<row, stale, due>> /\ current' = current /\ p \notin current
        /\ Finish(p) /\ ~Resolving(p)
    BY <1>8 DEF EngageConflict, ActConflict, Matches, column, Resolving
  <2> QED
    BY <2>1, QuitAside
<1> QED
  BY <1>1, <1>2, <1>3, <1>4, <1>5, <1>6, <1>7, <1>8 DEF Looking

LEMMA TickAside ==
  ASSUME TypeOK, NEW t \in Ticks, ListDue(t) \/ TickConflict(t)
  PROVE  Aside(t)
<1> USE ProcsSplit, StagesAreNot
<1>1. CASE ListDue(t)
  <2>1. /\ Load(t) /\ UNCHANGED <<row, stale, due, todo, done, crew>>
        /\ pc[t] = "idle" /\ due /\ pc' = [pc EXCEPT ![t] = "listed"]
    BY <1>1 DEF ListDue, Goto
  <2>2. pc'[t] = "listed" /\ \A q \in Procs \ {t} : pc'[q] = pc[q]
    BY <2>1 DEF TypeOK
  <2> QED
    BY <2>1, <2>2, LoadAside DEF Resolving, Yields
<1>2. CASE TickConflict(t)
  <2>1. /\ UNCHANGED <<row, stale, due>> /\ current' = current /\ t \notin current
        /\ Finish(t) /\ ~Resolving(t)
    BY <1>2 DEF TickConflict, Matches, column, Resolving
  <2> QED
    BY <2>1, QuitAside
<1> QED
  BY <1>1, <1>2

-----------------------------------------------------------------------------
(* What the writers write.                                                 *)

LEMMA HeldEncounter ==
  ASSUME TypeOK, Fenced, NEW p \in Procs, Matches(p), pc[p] \in {"join", "engage", "pay", "act", "listed"}
  PROVE  mem[p] = row /\ mem[p].enc = row.enc /\ row.enc \in Encounter /\ row \in Column
  BY HeldRow

LEMMA JoinWrites ==
  ASSUME TypeOK, Fenced, RoundOwned, NEW p \in Players, Join(p)
  PROVE  /\ Vacant /\ ~row.enc.ended /\ row.enc.seat[p] = "out" /\ row.enc \in Encounter
         /\ current' = {} /\ due' = due
         /\ row'.enc = Enrolled(row.enc, p, crew[p][p]) /\ ~row'.enc.ended
<1>1. /\ pc[p] = "join" /\ Matches(p) /\ ~mem[p].enc.ended /\ mem[p].enc.seat[p] = "out"
      /\ ~Waits(p) /\ current' = {} /\ due' = due /\ row' = Joined(p)
  BY DEF Join, CanJoin, WriteOut
<1>2. mem[p] = row /\ row.enc \in Encounter /\ row \in Column
  BY <1>1, HeldEncounter, ProcsSplit
<1>3. Vacant
  BY <1>1, <1>2 DEF Waits, RoundOwned, Vacant
<1>4. row'.enc = Enrolled(row.enc, p, crew[p][p])
  BY <1>1, <1>2 DEF Joined, Column
<1>5. ~row'.enc.ended
  BY <1>1, <1>2, <1>4 DEF Enrolled, Encounter
<1> QED
  BY <1>1, <1>2, <1>3, <1>4, <1>5

LEMMA ReinforceWrites ==
  ASSUME TypeOK, Fenced, RoundOwned, NEW p \in Players, Reinforce(p)
  PROVE  /\ Vacant /\ ~row.enc.ended /\ row.enc \in Encounter
         /\ ~mem[p].enc.ended /\ pc[p] = "engage"
         /\ current' = {} /\ due' = due /\ ~row'.enc.ended
         /\ \/ row.enc.seat[p] = "out" /\ row'.enc = Enrolled(row.enc, p, crew[p][p])
            \/ row'.enc = row.enc
<1>1. /\ pc[p] = "engage" /\ Matches(p) /\ ~mem[p].enc.ended
      /\ current' = {} /\ due' = due
      /\ row' = IF mem[p].enc.seat[p] = "out" THEN Joined(p) ELSE mem[p]
  BY DEF Reinforce, WriteOut
<1>2. mem[p] = row /\ row.enc \in Encounter /\ row \in Column
  BY <1>1, HeldEncounter, ProcsSplit
<1>3. Vacant
  BY <1>1, <1>2, WriterVacant DEF Matches, Resolving, Stages, Yields
<1>4. Joined(p).enc = Enrolled(row.enc, p, crew[p][p])
  BY <1>2 DEF Joined, Column
<1>5. ~Joined(p).enc.ended
  BY <1>1, <1>2, <1>4 DEF Enrolled, Encounter
<1> QED
  BY <1>1, <1>2, <1>3, <1>4, <1>5

LEMMA ActsAlone ==
  ASSUME TypeOK, Fenced, RoundOwned, NEW p \in Players, pc[p] = "act", Matches(p)
  PROVE  /\ Vacant /\ mem[p] = row /\ ~row.enc.ended /\ row.enc \in Encounter
         /\ Acted(p) \in Column
         /\ Acted(p).enc = Submitted(row.enc, p, choice[p]) /\ ~Acted(p).enc.ended
<1>1. mem[p] = row /\ row.enc \in Encounter /\ row \in Column
  BY HeldEncounter, ProcsSplit
<1>2. ~row.enc.ended
  BY <1>1, ProcsSplit DEF Fenced, Unfinished
<1>3. Vacant
  BY WriterVacant DEF Matches, Resolving, Stages, Yields
<1>4. Acted(p).enc = Submitted(row.enc, p, choice[p])
  BY <1>1 DEF Acted, Column
<1> QED
  BY <1>1, <1>2, <1>3, <1>4, ActedEnded, ActedType, ProcsSplit

LEMMA StoreWrites ==
  ASSUME TypeOK, Fenced, RoundOwned, NEW p \in Players, StoreAction(p)
  PROVE  /\ Vacant /\ mem[p] = row /\ ~row.enc.ended /\ pc[p] = "act"
         /\ current' = {} /\ due' = due /\ ~row'.enc.ended
         /\ row'.enc = Submitted(row.enc, p, choice[p])
<1>1. /\ pc[p] = "act" /\ Matches(p) /\ current' = {} /\ due' = due /\ row' = Acted(p)
  BY DEF StoreAction, WriteOut
<1> QED
  BY <1>1, ActsAlone

LEMMA LastActionWrites ==
  ASSUME TypeOK, Fenced, RoundOwned, NEW p \in Players, ActAndResolve(p)
  PROVE  /\ Vacant /\ mem[p] = row /\ ~row.enc.ended /\ pc[p] = "act"
         /\ current' = {p} /\ due' = due /\ ~stale' /\ row'.marker /\ ~row'.enc.ended
         /\ pc'[p] = "entered" /\ mem'[p].enc = row'.enc
         /\ row'.enc = Submitted(row.enc, p, choice[p])
         /\ RoundReady(row'.enc) \/ due
<1>1. PICK col : col = [Acted(p) EXCEPT !.marker = TRUE]
  OBVIOUS
<1>2. /\ pc[p] = "act" /\ Matches(p) /\ current' = {p} /\ due' = due /\ stale' = FALSE
      /\ row' = col /\ mem' = [mem EXCEPT ![p] = col] /\ pc' = [pc EXCEPT ![p] = "entered"]
      /\ RoundReady(Acted(p).enc) \/ due
  BY <1>1 DEF ActAndResolve, Write, Goto
<1>3. col.enc = Acted(p).enc /\ col.marker
  BY <1>1, <1>2, ActsAlone DEF Column
<1>4. mem'[p] = col /\ pc'[p] = "entered"
  BY <1>2, ProcsSplit DEF TypeOK
<1> QED
  BY <1>2, <1>3, <1>4, ActsAlone

LEMMA TickWrites ==
  ASSUME TypeOK, Fenced, Owned, NEW t \in Ticks, TickEnters(t)
  PROVE  /\ ~row.enc.ended /\ due
         /\ current' = {t} /\ due' = due /\ ~stale' /\ row'.marker
         /\ pc'[t] = "entered" /\ mem'[t].enc = row.enc /\ row'.enc = row.enc
<1>0. t \in Procs
  BY ProcsSplit
<1>1. PICK col : col = [mem[t] EXCEPT !.marker = TRUE]
  OBVIOUS
<1>2. /\ pc[t] = "listed" /\ Matches(t) /\ current' = {t} /\ due' = due /\ stale' = FALSE
      /\ row' = col /\ mem' = [mem EXCEPT ![t] = col] /\ pc' = [pc EXCEPT ![t] = "entered"]
  BY <1>1 DEF TickEnters, Write, Goto
<1>3. mem[t] = row /\ row.enc \in Encounter /\ row \in Column
  BY <1>0, <1>2, HeldEncounter
<1>4. ~row.enc.ended
  BY <1>0, <1>2, <1>3 DEF Fenced, Unfinished
<1>5. due
  BY <1>2 DEF Matches, Owned, Called
<1>6. col.enc = row.enc /\ col.marker
  BY <1>1, <1>3 DEF Column
<1>7. mem'[t] = col /\ pc'[t] = "entered"
  BY <1>0, <1>2 DEF TypeOK
<1> QED
  BY <1>2, <1>4, <1>5, <1>6, <1>7

LEMMA StartWrites ==
  ASSUME TypeOK, Fenced, NEW p \in Players, StartFight(p)
  PROVE  /\ pc[p] = "engage" /\ row.enc.ended /\ row.enc \in Encounter
         /\ current' = {} /\ due' = FALSE
         /\ \E luck \in Outcomes : row'.enc = Fresh(crew[p], auto[p], luck)
<1>1. /\ pc[p] = "engage" /\ Matches(p) /\ mem[p].enc.ended /\ current' = {} /\ due' = FALSE
  BY DEF StartFight, WriteOut
<1>2. \E luck \in Outcomes : row'.enc = Fresh(crew[p], auto[p], luck)
  BY DEF StartFight, WriteOut
<1> QED
  BY <1>1, <1>2, HeldEncounter, ProcsSplit

LEMMA CaptureWrites ==
  ASSUME TypeOK, NEW q \in Procs, NEW p \in Players, Capture(q, p)
  PROVE  /\ q \in current /\ pc[q] = "clearing" /\ pc' = pc /\ Resolving(q) /\ Resolving(q)'
         /\ current' = {q} /\ row'.marker /\ stale' = stale
         /\ row'.enc = Settled(mem[q].enc, done[q]) /\ mem[q].enc \in Encounter
         /\ mem'[q].enc = mem[q].enc /\ todo' = todo /\ done' = done
         /\ due' <=> due /\ ~Over(mem[q].enc)
         /\ CleansUp(q)' <=> CleansUp(q)
<1>1. /\ q \in current /\ pc[q] = "clearing" /\ pc' = pc /\ current' = {q} /\ stale' = stale
      /\ row' = Banked(q, p) /\ todo' = todo /\ done' = done
      /\ due' = (due /\ ~Over(mem[q].enc))
      /\ mem' = [mem EXCEPT ![q].captured = @ \cup {p}, ![q].salvage = @ \cup ({p} \ pod)]
  BY DEF Capture, NextWreck, Matches, Write
<1>2. mem[q] \in Column /\ mem[q].enc \in Encounter
  BY DEF TypeOK, Column
<1>3. mem'[q].enc = mem[q].enc
  BY <1>1, <1>2 DEF TypeOK, Column
<1>4. row'.enc = Settled(mem[q].enc, done[q]) /\ row'.marker
  BY <1>1 DEF Banked, Image
<1> QED
  BY <1>1, <1>2, <1>3, <1>4 DEF Resolving, Stages, CleansUp

LEMMA LeaveWrites ==
  ASSUME NEW q \in Procs, TypeOK, Leave(q)
  PROVE  /\ q \in current /\ pc[q] = "leaving" /\ Resolving(q)
         /\ current' = {} /\ due' = FALSE /\ mem[q].enc \in Encounter
         /\ \E luck \in Outcomes :
              row'.enc = NextRound(Settled(mem[q].enc, done[q]), luck)
<1>1. q \in current /\ pc[q] = "leaving" /\ current' = {} /\ due' = FALSE
  BY DEF Leave, WriteOut, Matches
<1>2. PICK luck \in Outcomes :
        row' = [Image(q) EXCEPT !.enc = NextRound(@, luck), !.marker = FALSE]
  BY DEF Leave, WriteOut
<1>3. row'.enc = NextRound(Settled(mem[q].enc, done[q]), luck)
  BY <1>2 DEF Image
<1>4. mem[q].enc \in Encounter
  BY DEF TypeOK, Column
<1> QED
  BY <1>1, <1>3, <1>4 DEF Resolving, Stages

\* The steps of a round that write nothing, and those that find it overtaken.
Working(q) ==
  \/ Flush(q) \/ Depart(q) \/ Drop(q) \/ LeaveConflict(q)
  \/ \E p \in Players : EjectConflict(q, p) \/ FinalizeConflict(q, p) \/ Convert(q, p)

LEMMA WorkingSteps ==
  ASSUME TypeOK, Owned, NEW q \in Procs, Working(q)
  PROVE  /\ Others(q) /\ Resolving(q)
         /\ row' = row /\ current' = current /\ stale' = stale /\ due' = due
         /\ q \in current => Resolving(q)' /\ mem'[q].enc = mem[q].enc /\ CleansUp(q)'
<1> USE DEF column
<1>1. CASE Flush(q) \/ Depart(q)
  <2>1. /\ row' = row /\ current' = current /\ stale' = stale /\ due' = due
        /\ mem' = mem /\ crew' = crew /\ done' = done
        /\ \/ pc[q] = "entered" /\ pc' = [pc EXCEPT ![q] = "flushed"] /\ todo' = todo
           \/ /\ pc[q] = "flushed" /\ pc' = [pc EXCEPT ![q] = "clearing"]
              /\ todo' = [todo EXCEPT ![q] = Wrecks(mem[q].enc)]
    BY <1>1 DEF Flush, Depart, Goto
  <2>2. Others(q)
    BY <2>1 DEF Others, TypeOK
  <2>3. \/ pc'[q] = "flushed"
        \/ pc'[q] = "clearing" /\ todo'[q] = Wrecks(mem[q].enc)
    BY <2>1 DEF TypeOK
  <2> QED
    BY <2>1, <2>2, <2>3 DEF Resolving, Stages, CleansUp
<1>2. CASE Drop(q)
  <2>1. /\ row' = row /\ current' = current /\ stale' = stale /\ due' = due
        /\ crew' = crew /\ done' = done /\ todo' = todo /\ todo[q] = {}
        /\ pc[q] = "clearing" /\ pc' = [pc EXCEPT ![q] = "leaving"]
        /\ mem' = mem \/ mem' = [mem EXCEPT ![q].salvage = {}]
    BY <1>2 DEF Drop, Goto
  <2>2. Others(q) /\ mem'[q].enc = mem[q].enc /\ pc'[q] = "leaving"
    BY <2>1 DEF Others, TypeOK, Column
  <2>3. q \in current => Wrecks(mem[q].enc) \subseteq done[q]
    BY <2>1 DEF Owned, Cleaning, CleansUp
  <2> QED
    BY <2>1, <2>2, <2>3 DEF Resolving, Stages, CleansUp
<1>3. ASSUME NEW p \in Players, Convert(q, p)
      PROVE  /\ Others(q) /\ Resolving(q)
             /\ row' = row /\ current' = current /\ stale' = stale /\ due' = due
             /\ q \in current => Resolving(q)' /\ mem'[q].enc = mem[q].enc /\ CleansUp(q)'
  <2>1. /\ row' = row /\ current' = current /\ stale' = stale /\ due' = due
        /\ crew' = crew /\ mem' = mem /\ pc' = pc /\ pc[q] = "clearing"
        /\ todo' = [todo EXCEPT ![q] = @ \ {p}] /\ done' = [done EXCEPT ![q] = @ \cup {p}]
    BY <1>3 DEF Convert
  <2>2. /\ Others(q)
        /\ todo'[q] = todo[q] \ {p} /\ done'[q] = done[q] \cup {p}
    BY <2>1 DEF Others, TypeOK
  <2>3. q \in current => CleansUp(q)'
    BY <2>1, <2>2 DEF Owned, Cleaning, CleansUp
  <2> QED
    BY <2>1, <2>2, <2>3 DEF Resolving, Stages
<1>4. ASSUME NEW p \in Players, EjectConflict(q, p)
      PROVE  /\ Others(q) /\ Resolving(q) /\ q \notin current
             /\ row' = row /\ current' = current /\ stale' = stale /\ due' = due
  <2>1. /\ row' = row /\ current' = current /\ stale' = stale /\ due' = due
        /\ crew' = crew /\ mem' = mem /\ pc' = pc /\ pc[q] = "clearing" /\ done' = done
        /\ todo' = [todo EXCEPT ![q] = @ \ {p}] /\ q \notin current
    BY <1>4 DEF EjectConflict, NextWreck, Matches
  <2> QED
    BY <2>1 DEF Others, Resolving, Stages, TypeOK
<1>5. ASSUME LeaveConflict(q) \/ \E p \in Players : FinalizeConflict(q, p)
      PROVE  /\ Others(q) /\ Resolving(q) /\ q \notin current
             /\ row' = row /\ current' = current /\ stale' = stale /\ due' = due
  <2>1. /\ row' = row /\ current' = current /\ stale' = stale /\ due' = due
        /\ pc[q] \in {"clearing", "leaving"} /\ Finish(q) /\ q \notin current
    BY <1>5 DEF LeaveConflict, FinalizeConflict, NextWreck, Matches
  <2> QED
    BY <2>1, FinishOthers DEF Resolving, Stages
<1> QED
  BY <1>1, <1>2, <1>3, <1>4, <1>5 DEF Working

\* Whose function is killed owns nothing any more.
LEMMA CrashOwned ==
  ASSUME TypeOK, Owned, NEW q \in Procs, Crash(q)
  PROVE  Owned'
<1>1. /\ row' = row /\ stale' = stale /\ due' = due
      /\ current' = current \ {q} /\ Others(q)
  BY FinishOthers DEF Crash
<1>2. ASSUME NEW s \in current'
      PROVE  /\ s \in current /\ s \in Procs /\ s # q
             /\ pc'[s] = pc[s] /\ mem'[s] = mem[s] /\ todo'[s] = todo[s] /\ done'[s] = done[s]
             /\ Resolving(s)' <=> Resolving(s)
             /\ Yields(s)' <=> Yields(s)
  BY <1>1 DEF Others, TypeOK, Resolving, Yields
<1>3. RoundOwned'
  BY <1>1, <1>2 DEF Owned, RoundOwned, Vacant
<1>4. Called'
  BY <1>1, <1>2 DEF Owned, Called
<1>5. Cleaning'
  BY <1>2 DEF Owned, Cleaning, CleansUp
<1> QED
  BY <1>3, <1>4, <1>5 DEF Owned

\* Every step keeps the round in one pair of hands.
LEMMA StepOwned ==
  ASSUME TypeOK, TypeOK', Fenced, Owned, ~LockOutlived, [Next]_vars
  PROVE  Owned'
<1> USE ProcsSplit
<1>1. ASSUME NEW p \in Players, Request(p) PROVE Owned'
  <2>1. CASE Looking(p)
    BY <2>1, LookingAside, AsideOwned DEF Owned
  <2>2. CASE Join(p) \/ Reinforce(p) \/ StoreAction(p)
    BY <2>2, JoinWrites, ReinforceWrites, StoreWrites, WrittenOwned DEF Owned
  <2>3. CASE ActAndResolve(p)
    BY <2>3, LastActionWrites, EnterOwned DEF Owned
  <2>4. CASE StartFight(p)
    BY <2>4, StartWrites, WrittenOwned
  <2> QED
    BY <1>1, <2>1, <2>2, <2>3, <2>4 DEF Request, Looking
<1>2. ASSUME NEW t \in Ticks, Tick(t) PROVE Owned'
  <2>1. CASE ListDue(t) \/ TickConflict(t)
    BY <2>1, TickAside, AsideOwned
  <2>2. CASE TickEnters(t)
    BY <2>2, TickWrites, EnterOwned
  <2> QED
    BY <1>2, <2>1, <2>2 DEF Tick
<1>3. ASSUME NEW q \in Procs, Resolve(q) PROVE Owned'
  <2>1. CASE Working(q)
    BY <2>1, WorkingSteps, RoundGoesOn
  <2>2. CASE Leave(q)
    BY <2>2, LeaveWrites, WrittenOwned
  <2>3. ASSUME NEW p \in Players, Capture(q, p) PROVE Owned'
    <3>1. /\ q \in current /\ pc' = pc /\ Resolving(q) /\ Resolving(q)' /\ current' = {q}
          /\ row'.marker /\ stale' = stale
          /\ row'.enc = Settled(mem[q].enc, done[q]) /\ mem[q].enc \in Encounter
          /\ mem'[q].enc = mem[q].enc /\ (due' <=> due /\ ~Over(mem[q].enc))
          /\ CleansUp(q)' <=> CleansUp(q)
      BY <2>3, CaptureWrites
    <3>2. row'.enc.ended <=> Over(mem[q].enc)
      BY <3>1, SettledFields
    <3>3. ~row.enc.ended \/ Over(mem[q].enc)
      <4>1. row.enc = mem[q].enc \/ \E w \in SUBSET Players : row.enc = Settled(mem[q].enc, w)
        BY <2>3, <3>1, CaptureWrites DEF Fenced, Holds
      <4>2. ~mem[q].enc.ended
        BY <3>1 DEF Fenced, Unfinished, Resolving
      <4> QED
        BY <3>1, <4>1, <4>2, SettledFields
    <3>4. RoundOwned'
      BY <3>1 DEF Owned, RoundOwned, Vacant
    <3>5. Called'
      BY <2>3, <3>1, <3>2, <3>3, CaptureWrites DEF Owned, Called
    <3>6. Cleaning'
      BY <3>1 DEF Owned, Cleaning
    <3> QED
      BY <3>4, <3>5, <3>6 DEF Owned
  <2> QED
    BY <1>3, <2>1, <2>2, <2>3 DEF Resolve, Working
<1>4. ASSUME NEW q \in Procs, Crash(q) PROVE Owned'
  BY <1>4, CrashOwned
<1>5. CASE DeadlinePasses
  <2>1. row' = row /\ current' = current /\ stale' = stale /\ pc' = pc /\ mem' = mem
        /\ todo' = todo /\ done' = done /\ ~row.enc.ended /\ due' = TRUE
    BY <1>5 DEF DeadlinePasses, Active, local
  <2> QED
    BY <2>1 DEF Owned, RoundOwned, Called, Cleaning, CleansUp, Vacant, Resolving, Yields
<1>6. CASE MarkerExpires
  <2>1. row' = row /\ current' = current /\ due' = due /\ pc' = pc /\ mem' = mem
        /\ todo' = todo /\ done' = done /\ Vacant
    BY <1>6 DEF MarkerExpires, local, Vacant
  <2> QED
    BY <2>1 DEF Owned, RoundOwned, Called, Cleaning, CleansUp, Vacant, Resolving, Yields
<1>7. CASE UNCHANGED vars
  <2>1. row' = row /\ current' = current /\ due' = due /\ pc' = pc /\ mem' = mem
        /\ todo' = todo /\ done' = done /\ stale' = stale
    BY <1>7 DEF vars, column, local
  <2> QED
    BY <2>1 DEF Owned, RoundOwned, Called, Cleaning, CleansUp, Vacant, Resolving, Yields
<1> QED
  BY <1>1, <1>2, <1>3, <1>4, <1>5, <1>6, <1>7 DEF Next

\* No owner to begin with.
LEMMA InitOwned ==
  ASSUME Init
  PROVE  Owned
  BY DEF Init, Owned, RoundOwned, Called, Cleaning, Vacant

LEMMA OwnedHolds ==
  ASSUME ~LockOutlived
  PROVE  Spec => []Owned
<1> DEFINE Known == TypeOK /\ Fenced
<1>1. Spec => []Known
  BY TypeCorrect, FenceHolds, PTL
<1>2. Init => Owned
  BY InitOwned
<1>3. Known /\ Known' /\ Owned /\ [Next]_vars => Owned'
  BY StepOwned
<1> HIDE DEF Known
<1> QED
  BY <1>1, <1>2, <1>3, PTL DEF Spec

-----------------------------------------------------------------------------
(* The log.  The owner's round, or with no owner the column's, may follow  *)
(* the last entry: it is the next one, or the same one if it was torn.     *)

Chain(s, T) ==
  \A i \in 1..Len(s) :
    IF i = 1 THEN s[i] = 1
    ELSE s[i] = s[i - 1] + 1 \/ (s[i] = s[i - 1] /\ s[i] \in T)

Numbered(e) == ~e.ended => Chain(Append(e.log, e.round), torn)

Numbers ==
  /\ Chain(row.enc.log, torn)
  /\ Vacant => Numbered(row.enc)
  /\ \A q \in current : Resolving(q) => Numbered(mem[q].enc)

LEMMA ChainGrows ==
  ASSUME NEW s, NEW T, NEW U, Chain(s, T), T \subseteq U
  PROVE  Chain(s, U)
  BY DEF Chain

\* A chain goes on with the next number, or with the last one if that was torn.
LEMMA ChainNext ==
  ASSUME NEW s \in Seq(Nat), NEW m \in Nat, NEW n \in Nat, NEW T,
         Chain(Append(s, m), T), n = m + 1 \/ (n = m /\ n \in T)
  PROVE  Chain(Append(Append(s, m), n), T)
<1> DEFINE u == Append(s, m)  v == Append(u, n)
<1>1. u \in Seq(Nat) /\ Len(u) = Len(s) + 1 /\ u[Len(u)] = m
  OBVIOUS
<1>2. v \in Seq(Nat) /\ Len(v) = Len(u) + 1 /\ v[Len(v)] = n
      /\ \A i \in 1..Len(u) : v[i] = u[i]
  BY <1>1
<1>3. Len(u) \in Nat /\ Len(u) >= 1
  BY <1>1
<1>4. Chain(u, T)
  OBVIOUS
<1> HIDE DEF u, v
<1>5. ASSUME NEW i \in 1..Len(v)
      PROVE  IF i = 1 THEN v[i] = 1
             ELSE v[i] = v[i - 1] + 1 \/ (v[i] = v[i - 1] /\ v[i] \in T)
  <2>1. CASE i = Len(v)
    <3>1. i # 1 /\ i - 1 = Len(u) /\ i - 1 \in 1..Len(u)
      BY <1>2, <1>3, <2>1
    <3>2. v[i] = n /\ v[i - 1] = m
      BY <1>1, <1>2, <2>1, <3>1
    <3> QED
      BY <3>1, <3>2
  <2>2. CASE i # Len(v)
    <3>1. i \in 1..Len(u)
      BY <1>2, <1>3, <2>2
    <3>2. IF i = 1 THEN u[i] = 1
          ELSE u[i] = u[i - 1] + 1 \/ (u[i] = u[i - 1] /\ u[i] \in T)
      BY <1>4, <3>1 DEF Chain
    <3>3. i # 1 => i - 1 \in 1..Len(u)
      BY <3>1
    <3> QED
      BY <1>2, <3>1, <3>2, <3>3
  <2> QED
    BY <2>1, <2>2
<1>6. Chain(v, T)
  BY <1>5 DEF Chain
<1> QED
  BY <1>6 DEF u, v

\* What the column may be beside an owner.
LEMMA HeldEither ==
  ASSUME TypeOK, Fenced, NEW q \in current, Resolving(q)
  PROVE  /\ mem[q].enc \in Encounter /\ ~mem[q].enc.ended
         /\ row.enc = mem[q].enc \/ \E w \in SUBSET Players : row.enc = Settled(mem[q].enc, w)
<1>1. q \in Procs /\ pc[q] \in Stages
  BY DEF TypeOK, Resolving
<1>2. mem[q].enc \in Encounter /\ ~mem[q].enc.ended
  BY <1>1 DEF TypeOK, Column, Fenced, Unfinished
<1>3. Holds(q)
  BY DEF Fenced
<1> QED
  BY <1>1, <1>2, <1>3 DEF Holds, Stages

\* A resolution is overtaken or killed: what it leaves in the column may be gone on
\* with.
LEMMA TornNumbered ==
  ASSUME TypeOK, Fenced, Numbers, NEW q \in current, Resolving(q),
         NEW S, q \in S, Abandon(S), ~row.enc.ended
  PROVE  Chain(Append(row.enc.log, row.enc.round), torn')
<1>1. PICK e : e = mem[q].enc
  OBVIOUS
<1>2. /\ e \in Encounter /\ ~e.ended
      /\ row.enc = e \/ \E w \in SUBSET Players : row.enc = Settled(e, w)
  BY <1>1, HeldEither
<1>3. e.log \in Seq(Nat) /\ e.round \in Nat
  BY <1>2 DEF Encounter
<1>4. Chain(Append(e.log, e.round), torn)
  BY <1>1, <1>2 DEF Numbers, Numbered
<1>5. torn \subseteq torn'
  BY DEF Abandon
<1>6. Chain(Append(e.log, e.round), torn')
  BY <1>4, <1>5, ChainGrows
<1>7. CASE row.enc = e
  BY <1>6, <1>7
<1>8. ASSUME NEW w \in SUBSET Players, row.enc = Settled(e, w), row.enc # e
      PROVE  Chain(Append(row.enc.log, row.enc.round), torn')
  <2>1. /\ row.enc.log = Append(e.log, e.round) /\ row.enc.round = e.round
        /\ row.enc.ended = Over(e)
    BY <1>2, <1>8, SettledFields
  <2>2. ~Over(e)
    BY <2>1
  <2>3. row.enc.round \in torn'
    BY <1>1, <1>8, <2>2 DEF Abandon
  <2> QED
    BY <1>3, <1>6, <2>1, <2>3, ChainNext
<1> QED
  BY <1>2, <1>7, <1>8

\* A step that changes neither the column's log nor what an owner has in memory,
\* and makes no owner.
LEMMA NumbersFrame ==
  ASSUME Numbers, torn \subseteq torn', row'.enc = row.enc,
         \A q \in current' : Resolving(q)' =>
           q \in current /\ Resolving(q) /\ mem'[q].enc = mem[q].enc,
         Vacant' => Vacant
  PROVE  Numbers'
<1>1. Chain(row.enc.log, torn')
  BY ChainGrows DEF Numbers
<1>2. Vacant' => Numbered(row.enc)'
  BY ChainGrows DEF Numbers, Numbered
<1>3. ASSUME NEW q \in current', Resolving(q)' PROVE Numbered(mem[q].enc)'
  BY <1>3, ChainGrows DEF Numbers, Numbered
<1> QED
  BY <1>1, <1>2, <1>3 DEF Numbers

\* The log and the round of the column stay as they are with no owner beside, and
\* whoever owns it then has it in memory.
LEMMA NumbersWritten ==
  ASSUME Numbers, Vacant, torn \subseteq torn',
         row'.enc.log = row.enc.log, row'.enc.round = row.enc.round,
         ~row.enc.ended,
         \A q \in current' : Resolving(q)' => mem'[q].enc = row'.enc
  PROVE  Numbers'
<1>1. Chain(row'.enc.log, torn')
  BY ChainGrows DEF Numbers
<1>2. Chain(Append(row'.enc.log, row'.enc.round), torn')
  BY ChainGrows DEF Numbers, Numbered
<1> QED
  BY <1>1, <1>2 DEF Numbers, Numbered

LEMMA AsideNumbers ==
  ASSUME TypeOK, TypeOK', Numbers, torn \subseteq torn', NEW r \in Procs, Aside(r)
  PROVE  Numbers'
<1>1. row' = row /\ ~Resolving(r) /\ ~Resolving(r)' /\ current' \subseteq Procs
      /\ current \subseteq Procs /\ current \ {r} \subseteq current'
  BY DEF Aside, TypeOK
<1>2. \A q \in current' : Resolving(q)' =>
        q \in current /\ Resolving(q) /\ mem'[q].enc = mem[q].enc
  BY <1>1, AsideSame
<1>3. Vacant' => Vacant
  BY <1>1, AsideSame DEF Vacant
<1> QED
  BY <1>1, <1>2, <1>3, NumbersFrame

LEMMA CrashNumbers ==
  ASSUME TypeOK, Fenced, Owned, Numbers, NEW q \in Procs, Crash(q)
  PROVE  Numbers'
<1>1. /\ row' = row /\ current' = current \ {q} /\ Others(q) /\ Abandon({q})
      /\ torn \subseteq torn'
  BY FinishOthers DEF Crash, Abandon
<1>2. \A s \in current' : /\ s \in current /\ (Resolving(s)' <=> Resolving(s))
                          /\ mem'[s] = mem[s]
  BY <1>1 DEF Others, TypeOK, Resolving
<1>3. Chain(row.enc.log, torn')
  BY <1>1, ChainGrows DEF Numbers
<1>4. ASSUME NEW s \in current', Resolving(s)' PROVE Numbered(mem[s].enc)'
  BY <1>1, <1>2, <1>4, ChainGrows DEF Numbers, Numbered
<1>5. ASSUME Vacant', ~row.enc.ended PROVE Chain(Append(row.enc.log, row.enc.round), torn')
  <2>1. \A s \in current \ {q} : ~Resolving(s)
    BY <1>1, <1>2, <1>5 DEF Vacant
  <2>2. CASE q \in current /\ Resolving(q)
    BY <1>1, <1>5, <2>2, TornNumbered
  <2>3. CASE ~(q \in current /\ Resolving(q))
    <3>1. Vacant
      BY <2>1, <2>3 DEF Vacant
    <3> QED
      BY <1>1, <1>5, <3>1, ChainGrows DEF Numbers, Numbered
  <2> QED
    BY <2>2, <2>3
<1> QED
  BY <1>1, <1>2, <1>3, <1>4, <1>5 DEF Numbers, Numbered

LEMMA TickNumbers ==
  ASSUME TypeOK, Fenced, Owned, Numbers, NEW t \in Ticks, TickEnters(t)
  PROVE  Numbers'
<1>1. /\ ~row.enc.ended /\ current' = {t} /\ pc'[t] = "entered"
      /\ mem'[t].enc = row.enc /\ row'.enc = row.enc
  BY TickWrites
<1>2. Abandon(Procs \ {t}) /\ torn \subseteq torn'
  BY DEF TickEnters, Abandon
<1>3. Chain(row.enc.log, torn')
  BY <1>2, ChainGrows DEF Numbers
<1>4. Chain(Append(row.enc.log, row.enc.round), torn')
  <2>1. CASE Vacant
    BY <1>1, <1>2, <2>1, ChainGrows DEF Numbers, Numbered
  <2>2. ASSUME NEW q \in current, Resolving(q)
        PROVE  Chain(Append(row.enc.log, row.enc.round), torn')
    <3>1. pc[t] = "listed"
      BY DEF TickEnters
    <3>2. q \in Procs \ {t}
      BY <2>2, <3>1, StagesAreNot DEF Resolving, TypeOK
    <3> QED
      BY <1>1, <1>2, <2>2, <3>2, TornNumbered
  <2> QED
    BY <2>1, <2>2 DEF Vacant
<1>5. ~Vacant'
  BY <1>1 DEF Vacant, Resolving, Stages
<1> QED
  BY <1>1, <1>3, <1>4, <1>5 DEF Numbers, Numbered

\* A round is written into the log, and the next one begins.
LEMMA RoundNumbers ==
  ASSUME TypeOK, Fenced, Owned, Numbers, torn \subseteq torn', NEW q \in Procs,
         Leave(q) \/ \E p \in Players : Capture(q, p)
  PROVE  Numbers'
<1>1. PICK e : e = mem[q].enc
  OBVIOUS
<1>2. q \in current /\ Resolving(q)
  BY LeaveWrites, CaptureWrites
<1>3. e \in Encounter /\ ~e.ended
  BY <1>1, <1>2, HeldEither
<1>4. e.log \in Seq(Nat) /\ e.round \in Nat
  BY <1>3 DEF Encounter
<1>5. Chain(Append(e.log, e.round), torn')
  BY <1>1, <1>2, <1>3, ChainGrows DEF Numbers, Numbered
<1>6. CASE Leave(q)
  <2>1. current' = {}
    BY <1>6, LeaveWrites
  <2>2. PICK luck \in Outcomes : row'.enc = NextRound(Settled(e, done[q]), luck)
    BY <1>1, <1>6, LeaveWrites
  <2>3. PICK s : s = Settled(e, done[q])
    OBVIOUS
  <2>4. /\ s \in Encounter /\ s.log = Append(e.log, e.round) /\ s.round = e.round
    BY <1>3, <2>3, SettledFields, SettledType
  <2>5. CASE s.ended
    <3>1. row'.enc = s
      BY <2>2, <2>3, <2>5 DEF NextRound
    <3> QED
      BY <1>5, <2>1, <2>4, <2>5, <3>1 DEF Numbers, Numbered
  <2>6. CASE ~s.ended
    <3>1. row'.enc.log = Append(e.log, e.round) /\ row'.enc.round = e.round + 1
      BY <2>2, <2>3, <2>4, <2>6 DEF NextRound, Encounter
    <3>2. Chain(Append(Append(e.log, e.round), e.round + 1), torn')
      BY <1>4, <1>5, ChainNext
    <3> QED
      BY <1>5, <2>1, <3>1, <3>2 DEF Numbers, Numbered
  <2> QED
    BY <2>5, <2>6
<1>7. ASSUME NEW p \in Players, Capture(q, p) PROVE Numbers'
  <2>1. /\ current' = {q} /\ Resolving(q)' /\ row'.enc = Settled(e, done[q])
        /\ mem'[q].enc = e
    BY <1>1, <1>7, CaptureWrites
  <2>2. row'.enc.log = Append(e.log, e.round)
    BY <1>3, <2>1, SettledFields
  <2>3. ~Vacant'
    BY <2>1 DEF Vacant
  <2> QED
    BY <1>5, <2>1, <2>2, <2>3 DEF Numbers, Numbered
<1> QED
  BY <1>6, <1>7

LEMMA WorkingNumbers ==
  ASSUME TypeOK, Owned, Numbers, torn \subseteq torn', NEW q \in Procs, Working(q)
  PROVE  Numbers'
<1>1. /\ Others(q) /\ Resolving(q) /\ row' = row /\ current' = current
      /\ q \in current => Resolving(q)' /\ mem'[q].enc = mem[q].enc
  BY WorkingSteps
<1>2. \A s \in current : (Resolving(s)' <=> Resolving(s)) /\ mem'[s].enc = mem[s].enc
  BY <1>1 DEF Others, Resolving, TypeOK
<1>3. Vacant' => Vacant
  BY <1>1, <1>2 DEF Vacant
<1> QED
  BY <1>1, <1>2, <1>3, NumbersFrame

LEMMA RequestNumbers ==
  ASSUME TypeOK, TypeOK', Fenced, Owned, Numbers, NEW p \in Players, Request(p),
         torn \subseteq torn' \/ StartFight(p)
  PROVE  Numbers'
<1> USE ProcsSplit
<1>1. CASE Looking(p) /\ torn \subseteq torn'
  BY <1>1, LookingAside, AsideNumbers DEF Owned
<1>2. CASE (Join(p) \/ Reinforce(p)) /\ torn \subseteq torn'
  <2>1. /\ Vacant /\ ~row.enc.ended /\ row.enc \in Encounter /\ current' = {}
        /\ row'.enc = Enrolled(row.enc, p, crew[p][p]) \/ row'.enc = row.enc
    BY <1>2, JoinWrites, ReinforceWrites DEF Owned
  <2>2. row'.enc.log = row.enc.log /\ row'.enc.round = row.enc.round
    BY <2>1 DEF Enrolled, Encounter
  <2> QED
    BY <1>2, <2>1, <2>2, NumbersWritten
<1>3. CASE (StoreAction(p) \/ ActAndResolve(p)) /\ torn \subseteq torn'
  <2>1. /\ Vacant /\ ~row.enc.ended
        /\ current' = {} \/ (current' = {p} /\ mem'[p].enc = row'.enc)
        /\ row'.enc = Submitted(row.enc, p, choice[p])
    BY <1>3, StoreWrites, LastActionWrites DEF Owned
  <2>2. row.enc \in Encounter
    BY DEF TypeOK, Column
  <2>3. row'.enc.log = row.enc.log /\ row'.enc.round = row.enc.round
    BY <2>1, <2>2 DEF Submitted, Encounter
  <2> QED
    BY <1>3, <2>1, <2>3, NumbersWritten
<1>4. CASE StartFight(p)
  <2>1. current' = {}
    BY <1>4, StartWrites
  <2>2. PICK luck \in Outcomes : row'.enc = Fresh(crew[p], auto[p], luck)
    BY <1>4, StartWrites
  <2>3. row'.enc.log = << >> /\ row'.enc.round = 1
    BY <2>2 DEF Fresh
  <2>4. Chain(<< >>, torn') /\ Chain(Append(<< >>, 1), torn')
    BY DEF Chain
  <2> QED
    BY <2>1, <2>3, <2>4 DEF Numbers, Numbered
<1> QED
  BY <1>1, <1>2, <1>3, <1>4 DEF Request, Looking

LEMMA StepNumbers ==
  ASSUME TypeOK, TypeOK', Fenced, Owned, Numbers, [Next]_vars
  PROVE  Numbers'
<1>1. ASSUME NEW p \in Players, Request(p) PROVE Numbers'
  <2>1. torn \subseteq torn' \/ StartFight(p)
    BY <1>1 DEF Request, Arrive, Look, GiveUpJoin, WaitOut, Join, RetryJoin, AutoEngage,
       Initiate, Reinforce, EngageConflict, Act, PayToll, TooPoor, StoreAction,
       ActAndResolve, ActConflict, budget
  <2> QED
    BY <1>1, <2>1, RequestNumbers
<1>2. ASSUME NEW t \in Ticks, Tick(t) PROVE Numbers'
  <2>1. CASE ListDue(t) \/ TickConflict(t)
    <3>1. torn' = torn
      BY <2>1 DEF ListDue, TickConflict, budget
    <3> QED
      BY <2>1, <3>1, TickAside, AsideNumbers, ProcsSplit
  <2> QED
    BY <1>2, <2>1, TickNumbers DEF Tick
<1>3. ASSUME NEW q \in Procs, Resolve(q) PROVE Numbers'
  <2>1. torn' = torn
    BY <1>3 DEF Resolve, Flush, Depart, Drop, Leave, LeaveConflict, Capture,
       EjectConflict, FinalizeConflict, Convert, budget
  <2> QED
    BY <1>3, <2>1, RoundNumbers, WorkingNumbers, SMTT(40) DEF Resolve, Working
<1>4. ASSUME NEW q \in Procs, Crash(q) PROVE Numbers'
  BY <1>4, CrashNumbers
<1>5. CASE DeadlinePasses \/ MarkerExpires \/ UNCHANGED vars
  <2>1. row' = row /\ current' = current /\ pc' = pc /\ mem' = mem /\ torn' = torn
    BY <1>5 DEF DeadlinePasses, MarkerExpires, vars, column, budget, local
  <2> QED
    BY <2>1, NumbersFrame DEF Vacant, Resolving
<1> QED
  BY <1>1, <1>2, <1>3, <1>4, <1>5 DEF Next

LEMMA InitNumbers ==
  ASSUME Init
  PROVE  Numbers
<1>1. row.enc = NoEncounter /\ current = {}
  BY DEF Init, Empty
<1>2. row.enc.ended /\ row.enc.log = << >>
  BY <1>1 DEF NoEncounter
<1> QED
  BY <1>1, <1>2 DEF Numbers, Numbered, Chain

\* Every round of a fight is logged once and in order (resolveEncounterRound), for
\* any number of fights, whichever resolutions are overtaken or killed; only a
\* round that was cut short with a part of its outcome in the column is logged
\* again.  Assumed: the mark outlives the resolution that set it.
THEOREM RoundsAreOnce ==
  ASSUME ~LockOutlived
  PROVE  Spec => []RoundsOnce
<1> DEFINE Known == TypeOK /\ Fenced /\ Owned
<1>1. Spec => []Known
  BY TypeCorrect, FenceHolds, OwnedHolds, PTL
<1>2. Init => Numbers
  BY InitNumbers
<1>3. Known /\ Known' /\ Numbers /\ [Next]_vars => Numbers'
  BY StepNumbers
<1>4. Known /\ Numbers => RoundsOnce
  <2>1. TypeOK => row.enc.log \in Seq(Nat)
    BY DEF TypeOK, Column, Encounter
  <2>2. TypeOK => DOMAIN row.enc.log = 1..Len(row.enc.log)
    BY <2>1
  <2> QED
    BY <2>2 DEF Numbers, Chain, RoundsOnce
<1> HIDE DEF Known
<1> QED
  BY <1>1, <1>2, <1>3, <1>4, PTL DEF Spec

-----------------------------------------------------------------------------
(* The first fight.  As long as no resolution was overtaken or killed with *)
(* the tables and the column apart (~astray), this is inductive: the       *)
(* tables fit the encounter that counts, which is the column's while it    *)
(* has no owner, the one the round began with until the owner has written  *)
(* the losses, and its outcome from then on (Ground); and a resolution     *)
(* that was overtaken has nothing more to write in the tables (Ghosts).    *)

Calm == fights <= 1 /\ ~astray

Coming(p) == pc[p] \in {"arrived", "join"}

Seated(e) == \A p \in Players : e.seat[p] # "out" => p \in present

Equipped(e) ==
  /\ \A p \in Players : e.seat[p] # "out" => (p \in armed <=> e.seat[p] = "live")
  /\ e.guard <=> Garrison \in armed

\* A ship that is about to join has the fighters it was read with.
Awaited(e) ==
  \A p \in Players : Coming(p) /\ e.seat[p] = "out" => crew[p][p] = SeatOf(p)

\* Nobody flees who is not in the fight or is just coming.
Orders(e) ==
  \A p \in Players : e.seat[p] = "out" \/ Coming(p) => e.pending[p] = "none"

Fits(e) == Seated(e) /\ Equipped(e) /\ Awaited(e)

After(q) == Settled(mem[q].enc, done[q])

Ground ==
  fights # 0 =>
    /\ Vacant => /\ Fits(row.enc) /\ Orders(row.enc)
                 /\ Dropped # {} => row.enc.ended
    /\ \A q \in current :
         /\ pc[q] = "entered" => Fits(mem[q].enc)
         /\ pc[q] \in {"entered", "flushed"} => Seated(mem[q].enc) /\ Orders(mem[q].enc)
         /\ pc[q] \in {"flushed", "clearing", "leaving"} => Fits(After(q))
         /\ pc[q] = "clearing" => todo[q] \subseteq Wrecks(mem[q].enc)
         /\ Resolving(q) /\ Dropped # {} => pc[q] = "leaving" /\ Over(mem[q].enc)

Ghosts == \A q \in Procs \ current : Resolving(q) => AtPeace(q)

\* What a new fight is built from is what the tables hold.
Recruits(p) ==
  /\ \A x \in Players : crew[p][x] # "out" => x \in present /\ crew[p][x] = SeatOf(x)
  /\ crew[p][Garrison] # "out" <=> Garrison \in armed

Eve ==
  fights = 0 =>
    /\ Dropped = {}
    /\ \A p \in Players : /\ Coming(p) => crew[p][p] = SeatOf(p)
                          /\ pc[p] = "engage" => Recruits(p)

Guests ==
  \A p \in Players :
    /\ Coming(p) => p \in present
    /\ p \in current /\ pc[p] = "engage" /\ ~row.enc.ended =>
         p \in present /\ crew[p][p] = SeatOf(p)
    /\ pc[p] \in {"pay", "act"} => mem[p].enc.seat[p] # "out"

Once == (\A p \in Players : drops[p] <= 1) /\ armed \cap pod = {}

FirstFight == Ground /\ Ghosts /\ Eve /\ Guests /\ Once

Orderly == Calm => FirstFight

-----------------------------------------------------------------------------
(* The first fight, through a step that leaves it alone.                   *)

Bystands(r) ==
  /\ Aside(r)
  /\ armed' = armed /\ pod' = pod /\ drops' = drops /\ fights' = fights
  /\ present \subseteq present'

\* What it may be doing afterwards.
Welcome(r) ==
  /\ Coming(r)' => \/ Coming(r) /\ crew'[r] = crew[r]
                   \/ r \notin present /\ r \in present' /\ crew'[r][r] = SeatOf(r)
  /\ pc'[r] = "engage" => crew'[r] = Roster /\ (row.enc.ended \/ r \in Ships)
  /\ pc'[r] \in {"pay", "act"} => mem'[r].enc.seat[r] # "out"

\* What fits goes on to fit.
LEMMA BystandFits ==
  ASSUME TypeOK, NEW r \in Procs, Bystands(r), r \in Players => Welcome(r), NEW e
  PROVE  /\ Seated(e) => Seated(e)'
         /\ Fits(e) => Fits(e)'
         /\ Seated(e) /\ Orders(e) => Orders(e)'
<1>1. Seated(e) => Seated(e)'
  BY DEF Seated, Bystands
<1>2. Equipped(e) => Equipped(e)'
  BY DEF Equipped, Bystands
<1>3. ASSUME Awaited(e), NEW p \in Players, Coming(p)', e.seat[p] = "out"
      PROVE  crew'[p][p] = SeatOf(p)'
  <2>1. SeatOf(p)' = SeatOf(p)
    BY DEF SeatOf, Bystands
  <2>2. CASE p = r
    BY <1>3, <2>1, <2>2 DEF Awaited, Welcome
  <2>3. CASE p # r
    BY <1>3, <2>1, <2>3, ProcsSplit DEF Awaited, Bystands, Aside, Others, Coming
  <2> QED
    BY <2>2, <2>3
<1>4. ASSUME Seated(e), Orders(e), NEW p \in Players, e.seat[p] = "out" \/ Coming(p)'
      PROVE  e.pending[p] = "none"
  <2>1. CASE p = r
    BY <1>4, <2>1 DEF Orders, Welcome, Seated
  <2>2. CASE p # r
    BY <1>4, <2>2, ProcsSplit DEF Orders, Bystands, Aside, Others, Coming
  <2> QED
    BY <2>1, <2>2
<1>5. Awaited(e) => Awaited(e)'
  BY <1>3 DEF Awaited
<1>6. Seated(e) /\ Orders(e) => Orders(e)'
  BY <1>4 DEF Orders
<1> QED
  BY <1>1, <1>2, <1>5, <1>6 DEF Fits

LEMMA BystandGround ==
  ASSUME TypeOK, TypeOK', Ground, NEW r \in Procs, Bystands(r), r \in Players => Welcome(r)
  PROVE  Ground'
<1> SUFFICES ASSUME fights' # 0 PROVE Ground'
  BY DEF Ground
<1>1. fights # 0 /\ row' = row /\ drops' = drops /\ Dropped' = Dropped
  BY DEF Bystands, Aside, Dropped
<1>2. ASSUME Vacant'
      PROVE  Fits(row.enc)' /\ Orders(row.enc)' /\ (Dropped' # {} => row'.enc.ended)
  <2>1. Vacant
    BY <1>2, AsideSame DEF Vacant, Bystands, Aside, TypeOK
  <2>2. Fits(row.enc) /\ Orders(row.enc) /\ (Dropped # {} => row.enc.ended)
    BY <1>1, <2>1 DEF Ground
  <2>3. PICK e : e = row.enc
    OBVIOUS
  <2>4. Fits(e)' /\ Orders(e)'
    BY <2>2, <2>3, BystandFits DEF Fits
  <2>5. row'.enc = e
    BY <1>1, <2>3
  <2> QED
    BY <1>1, <2>2, <2>4, <2>5 DEF Fits, Seated, Equipped, Awaited, Orders
<1>3. ASSUME NEW q \in current', Resolving(q)'
      PROVE  /\ pc'[q] = "entered" => Fits(mem[q].enc)'
             /\ pc'[q] \in {"entered", "flushed"} =>
                  Seated(mem[q].enc)' /\ Orders(mem[q].enc)'
             /\ pc'[q] \in {"flushed", "clearing", "leaving"} => Fits(After(q))'
             /\ pc'[q] = "clearing" => todo'[q] \subseteq Wrecks(mem'[q].enc)
             /\ Dropped' # {} => pc'[q] = "leaving" /\ Over(mem'[q].enc)
  <2>0. q \in Procs /\ q # r
    BY <1>3 DEF Bystands, Aside, TypeOK
  <2>1. /\ Resolving(q) /\ q \in current /\ pc'[q] = pc[q] /\ mem'[q] = mem[q]
        /\ todo'[q] = todo[q] /\ done'[q] = done[q]
    BY <1>3, <2>0, AsideSame DEF Bystands
  <2>2. PICK e : e = mem[q].enc
    OBVIOUS
  <2>3. PICK s : s = Settled(e, done[q])
    OBVIOUS
  <2>4. /\ pc[q] = "entered" => Fits(e)
        /\ pc[q] \in {"entered", "flushed"} => Seated(e) /\ Orders(e)
        /\ pc[q] \in {"flushed", "clearing", "leaving"} => Fits(s)
        /\ pc[q] = "clearing" => todo[q] \subseteq Wrecks(e)
        /\ Dropped # {} => pc[q] = "leaving" /\ Over(e)
    BY <1>1, <2>1, <2>2, <2>3 DEF Ground, After
  <2>5. /\ pc[q] = "entered" => Fits(e)'
        /\ pc[q] \in {"entered", "flushed"} => Seated(e)' /\ Orders(e)'
        /\ pc[q] \in {"flushed", "clearing", "leaving"} => Fits(s)'
    BY <2>4, BystandFits
  <2>6. mem'[q].enc = e /\ After(q)' = s
    BY <2>1, <2>2, <2>3 DEF After
  <2> QED
    BY <1>1, <2>1, <2>4, <2>5, <2>6 DEF Fits, Seated, Equipped, Awaited, Orders
<1>4. \A q \in current' : pc'[q] \in Stages <=> Resolving(q)'
  BY DEF Resolving
<1> QED
  BY <1>2, <1>3, <1>4 DEF Ground, Stages

LEMMA BystandGuests ==
  ASSUME TypeOK, TypeOK', CargoAccounted, Eve, Guests, NEW r \in Procs, Bystands(r),
         r \in Players => Welcome(r)
  PROVE  Eve' /\ Guests'
<1>1. /\ row' = row /\ drops' = drops /\ fights' = fights /\ present \subseteq present'
      /\ \A x : SeatOf(x)' = SeatOf(x)
      /\ armed' = armed
  BY DEF Bystands, Aside, SeatOf
<1>2. ASSUME fights = 0, NEW p \in Players
      PROVE  /\ Coming(p)' => crew'[p][p] = SeatOf(p)
             /\ pc'[p] = "engage" => Recruits(p)'
  <2>1. CASE p # r
    <3>1. pc'[p] = pc[p] /\ crew'[p] = crew[p]
      BY <2>1, ProcsSplit DEF Bystands, Aside, Others
    <3> QED
      BY <1>1, <1>2, <3>1 DEF Eve, Coming, Recruits
  <2>2. CASE p = r
    <3>1. Coming(p)' => crew'[p][p] = SeatOf(p)
      BY <1>2, <2>2 DEF Welcome, Eve
    <3>2. ASSUME pc'[p] = "engage" PROVE Recruits(p)'
      <4>1. crew'[p] = Roster
        BY <2>2, <3>2 DEF Welcome
      <4>2. pod = {}
        BY <1>2 DEF CargoAccounted, Untouched
      <4>3. \A x \in Players : Roster[x] # "out" => x \in present /\ Roster[x] = SeatOf(x)
        BY <4>2, RulesAssumption DEF Roster, Ships, Garrison
      <4>4. Roster[Garrison] # "out" <=> Garrison \in armed
        BY RulesAssumption DEF Roster, Ships, Garrison, SeatOf, TypeOK
      <4> QED
        BY <1>1, <4>1, <4>3, <4>4 DEF Recruits
    <3> QED
      BY <3>1, <3>2
  <2> QED
    BY <2>1, <2>2
<1>3. ASSUME NEW p \in Players
      PROVE  /\ Coming(p)' => p \in present'
             /\ p \in current' /\ pc'[p] = "engage" /\ ~row'.enc.ended =>
                  p \in present' /\ crew'[p][p] = SeatOf(p)
             /\ pc'[p] \in {"pay", "act"} => mem'[p].enc.seat[p] # "out"
  <2>1. CASE p # r
    <3>1. /\ pc'[p] = pc[p] /\ crew'[p] = crew[p] /\ mem'[p] = mem[p]
          /\ p \in current' => p \in current
      BY <2>1, ProcsSplit DEF Bystands, Aside, Others
    <3> QED
      BY <1>1, <3>1 DEF Guests, Coming
  <2>2. CASE p = r
    <3>1. Coming(p)' => p \in present'
      BY <1>1, <2>2 DEF Welcome, Guests
    <3>2. ASSUME pc'[p] = "engage", ~row'.enc.ended
          PROVE  p \in present' /\ crew'[p][p] = SeatOf(p)
      <4>1. crew'[p] = Roster /\ p \in Ships
        BY <1>1, <2>2, <3>2 DEF Welcome
      <4> QED
        BY <1>1, <4>1 DEF Roster, Ships
    <3> QED
      BY <2>2, <3>1, <3>2 DEF Welcome
  <2> QED
    BY <2>1, <2>2
<1>4. Eve'
  BY <1>1, <1>2 DEF Eve, Dropped
<1> QED
  BY <1>1, <1>3, <1>4 DEF Guests

LEMMA BystandFirst ==
  ASSUME TypeOK, TypeOK', CargoAccounted, FirstFight, NEW r \in Procs, Bystands(r),
         r \in Players => Welcome(r)
  PROVE  FirstFight'
<1>1. Once'
  BY DEF FirstFight, Once, Bystands
<1>2. ASSUME NEW q \in Procs \ current', Resolving(q)' PROVE AtPeace(q)'
  <2>1. q # r
    BY <1>2 DEF Bystands, Aside
  <2>2. /\ pc'[q] = pc[q] /\ mem'[q] = mem[q] /\ todo'[q] = todo[q]
        /\ Resolving(q) /\ q \notin current
    BY <1>2, <2>1, AsideSame DEF Bystands
  <2> QED
    BY <1>2, <2>2 DEF FirstFight, Ghosts, AtPeace
<1>3. Ghosts'
  BY <1>2 DEF Ghosts
<1> QED
  BY <1>1, <1>3, BystandGround, BystandGuests DEF FirstFight

-----------------------------------------------------------------------------
(* The first fight, through the writes of requests and ticks.              *)

\* e may be the encounter that counts, once r is no longer on its way in.
Continues(r, e) ==
  /\ Seated(e) /\ Equipped(e)
  /\ \A p \in Players \ {r} : Coming(p) /\ e.seat[p] = "out" => crew[p][p] = SeatOf(p)
  /\ \A p \in Players : e.seat[p] = "out" \/ (p # r /\ Coming(p)) => e.pending[p] = "none"

LEMMA RowContinues ==
  ASSUME Fits(row.enc), Orders(row.enc), NEW r
  PROVE  Continues(r, row.enc)
  BY DEF Fits, Awaited, Orders, Continues

LEMMA EnrolledContinues ==
  ASSUME TypeOK, NEW e \in Encounter, NEW p \in Players, NEW seat \in Seats, Continues(p, e),
         e.seat[p] = "out", p \in present, seat = SeatOf(p)
  PROVE  Continues(p, Enrolled(e, p, seat))
<1> DEFINE f == Enrolled(e, p, seat)
<1>1. /\ f.ended = e.ended /\ f.guard = e.guard
      /\ f.pending = e.pending /\ f.seat = [e.seat EXCEPT ![p] = seat]
      /\ f.seat[p] = seat /\ \A x \in Players \ {p} : f.seat[x] = e.seat[x]
  BY DEF Enrolled, Encounter
<1>2. seat # "out" /\ (seat = "live" <=> p \in armed)
  BY DEF SeatOf
<1>4. Seated(f) /\ Equipped(f)
  BY <1>1, <1>2 DEF Continues, Seated, Equipped
<1> QED
  BY <1>1, <1>2, <1>4 DEF Continues

LEMMA SubmittedContinues ==
  ASSUME TypeOK, NEW e \in Encounter, NEW p \in Players, NEW a, Continues(p, e),
         e.seat[p] # "out"
  PROVE  Continues(p, Submitted(e, p, a))
<1> DEFINE f == Submitted(e, p, a)
<1>1. /\ f.ended = e.ended /\ f.guard = e.guard
      /\ f.seat = e.seat /\ \A x \in Players \ {p} : f.pending[x] = e.pending[x]
  BY DEF Submitted, Encounter
<1>2. Seated(f) /\ Equipped(f)
  BY <1>1 DEF Continues, Seated, Equipped
<1> QED
  BY <1>1, <1>2 DEF Continues

LEMMA FreshContinues ==
  ASSUME TypeOK, Eve, fights = 0, NEW p \in Players, pc[p] = "engage", NEW a, NEW luck
  PROVE  Continues(p, Fresh(crew[p], a, luck))
<1> DEFINE f == Fresh(crew[p], a, luck)
<1>1. /\ (f.guard <=> crew[p][Garrison] # "out")
      /\ \A x \in Players : f.seat[x] = crew[p][x] /\ f.pending[x] = "none"
  BY DEF Fresh
<1>2. Recruits(p)
  BY DEF Eve
<1>4. Seated(f) /\ Equipped(f)
  BY <1>1, <1>2 DEF Recruits, Seated, Equipped, SeatOf
<1>5. \A x \in Players : Coming(x) => crew[x][x] = SeatOf(x)
  BY DEF Eve
<1> QED
  BY <1>1, <1>4, <1>5 DEF Continues

\* The encounter that counts after a step of r that moves nothing but the column.
LEMMA ContinuesFits ==
  ASSUME TypeOK, NEW r \in Procs, NEW e, Continues(r, e), Others(r), ~Coming(r)',
         present' = present, armed' = armed
  PROVE  Fits(e)' /\ Orders(e)'
<1>1. Seated(e)' /\ Equipped(e)'
  BY DEF Continues, Seated, Equipped
<1>2. \A p \in Players : Coming(p)' => p # r /\ Coming(p) /\ crew'[p] = crew[p]
  BY ProcsSplit DEF Others, Coming
<1>3. \A p : SeatOf(p)' = SeatOf(p)
  BY DEF SeatOf
<1>4. Awaited(e)' /\ Orders(e)'
  BY <1>2, <1>3 DEF Continues, Awaited, Orders
<1> QED
  BY <1>1, <1>4 DEF Fits

LEMMA MovesGuests ==
  ASSUME TypeOK, Guests, NEW r \in Procs, Others(r), pc'[r] \in {"idle"} \cup Stages,
         present' = present, current' \subseteq {r}
  PROVE  Guests'
<1>1. \A p \in Players \ {r} : pc'[p] = pc[p] /\ mem'[p] = mem[p]
  BY ProcsSplit DEF Others
<1>2. pc'[r] \notin {"arrived", "join", "engage", "pay", "act"}
  BY DEF Stages
<1> QED
  BY <1>1, <1>2 DEF Guests, Coming

\* Whoever had lost the column, or is losing it now, has nothing more to write.
LEMMA GhostsStay ==
  ASSUME TypeOK, NEW r \in Procs, Others(r), Resolving(r)' => r \in current',
         \A s \in Procs \ {r} : s \notin current' /\ Resolving(s) => AtPeace(s)
  PROVE  Ghosts'
<1> SUFFICES ASSUME NEW s \in Procs \ current', Resolving(s)' PROVE AtPeace(s)'
  BY DEF Ghosts
<1>1. /\ s # r /\ pc'[s] = pc[s] /\ mem'[s] = mem[s] /\ todo'[s] = todo[s]
  BY DEF Others
<1>2. AtPeace(s)
  BY <1>1 DEF Resolving
<1> QED
  BY <1>1, <1>2 DEF AtPeace

LEMMA WriterFirst ==
  ASSUME TypeOK, FirstFight, Vacant, NEW r \in Procs, Finish(r), current' = {},
         present' = present, armed' = armed, pod' = pod,
         drops' = drops, fights' # 0, Dropped = {}, Continues(r, row'.enc)
  PROVE  FirstFight'
<1>1. Others(r) /\ pc'[r] = "idle"
  BY FinishOthers
<1>2. PICK e : e = row'.enc
  OBVIOUS
<1>3. Fits(e)' /\ Orders(e)' /\ Dropped' = {}
  BY <1>1, <1>2, ContinuesFits DEF Coming, Dropped
<1>4. Fits(row.enc)' /\ Orders(row.enc)'
  BY <1>2, <1>3 DEF Fits, Seated, Equipped, Awaited, Orders
<1>5. Ground'
  BY <1>3, <1>4 DEF Ground
<1>6. \A s \in Procs \ {r} : Resolving(s) => AtPeace(s)
  BY DEF FirstFight, Ghosts, Vacant
<1>7. Ghosts'
  BY <1>1, <1>6, GhostsStay, StagesAreNot DEF Resolving
<1>8. Guests' /\ Once' /\ Eve'
  BY <1>1, MovesGuests DEF FirstFight, Once, Eve
<1> QED
  BY <1>5, <1>7, <1>8 DEF FirstFight

LEMMA EnterFirst ==
  ASSUME TypeOK, FirstFight, NEW r \in Procs, Others(r), pc'[r] = "entered",
         \A s \in Procs \ {r} : Resolving(s) => AtPeace(s),
         mem'[r].enc = row'.enc, current' = {r}, present' = present,
         armed' = armed, pod' = pod, drops' = drops, fights' # 0, Dropped = {},
         Continues(r, row'.enc)
  PROVE  FirstFight'
<1>1. Resolving(r)' /\ ~Vacant'
  BY DEF Resolving, Stages, Vacant
<1>2. PICK e : e = row'.enc
  OBVIOUS
<1>3. Fits(e)' /\ Orders(e)' /\ Dropped' = {}
  BY <1>2, ContinuesFits DEF Coming, Dropped
<1>4. Fits(mem[r].enc)' /\ Orders(mem[r].enc)'
  BY <1>2, <1>3 DEF Fits, Seated, Equipped, Awaited, Orders
<1>5. Ground'
  BY <1>1, <1>3, <1>4 DEF Ground, Fits
<1>6. Ghosts'
  BY GhostsStay
<1>7. Guests' /\ Once' /\ Eve'
  BY MovesGuests DEF FirstFight, Once, Eve, Stages
<1> QED
  BY <1>5, <1>6, <1>7 DEF FirstFight

-----------------------------------------------------------------------------
(* The first fight, through a round.                                       *)

LEMMA SettledSeats ==
  ASSUME NEW e \in Encounter, NEW w
  PROVE  LET s == Settled(e, w) IN
         /\ \A p \in Players :
              /\ s.seat[p] = IF p \in Fled(e) THEN "out"
                             ELSE IF p \in Dead(e) \/ e.seat[p] = "down"
                             THEN IF p \in w THEN "gone" ELSE "down"
                             ELSE e.seat[p]
              /\ s.pending[p] = "none"
         /\ s.guard <=> e.guard /\ Garrison \notin Dead(e)
  BY DEF Settled, Encounter

LEMMA DeadLived ==
  ASSUME NEW e, NEW p \in Players, p \in Dead(e)
  PROVE  e.seat[p] = "live"
  BY RulesAssumption DEF Dead, Armed, Living, Garrison

\* The losses, as persistRoundOutcomeToCanonicalTables writes them.
LEMMA LossesFit ==
  ASSUME TypeOK, NEW e \in Encounter, NEW w, Seated(e), Equipped(e),
         armed' = (armed \ (Dead(e) \cup Wrecks(e))) \cup (Living(e) \ Dead(e)),
         present' = present
  PROVE  /\ armed' \subseteq armed
         /\ Seated(Settled(e, w))' /\ Equipped(Settled(e, w))'
         /\ \A p \in Players : e.seat[p] = "out" => (p \in armed' <=> p \in armed)
<1> DEFINE s == Settled(e, w)
<1>1. Living(e) \subseteq armed /\ Living(e) \subseteq Players /\ Wrecks(e) \subseteq Players
  BY DEF Living, Equipped, Wrecks
<1>2. armed' \subseteq armed
  BY <1>1
<1>3. Garrison \in armed' <=> Garrison \in armed /\ Garrison \notin Dead(e)
  BY <1>1, RulesAssumption DEF Garrison
<1>4. ASSUME NEW p \in Players, s.seat[p] # "out"
      PROVE  p \in present /\ (p \in armed' <=> s.seat[p] = "live")
  <2>1. p \notin Fled(e) /\ e.seat[p] # "out"
    <3>1. p \notin Fled(e)
      BY <1>4, SettledSeats
    <3>2. CASE e.seat[p] = "out"
      BY <1>4, <3>1, <3>2, SettledSeats, DeadLived
    <3> QED
      BY <3>1, <3>2
  <2>2. p \in present /\ (p \in armed <=> e.seat[p] = "live")
    BY <2>1 DEF Seated, Equipped
  <2>3. CASE p \in Dead(e) \/ e.seat[p] = "down"
    <3>1. p \in Wrecks(e)
      BY <2>1, <2>3 DEF Wrecks
    <3>2. p \notin armed'
      BY <2>3, <3>1 DEF Living
    <3>3. s.seat[p] # "live"
      BY <2>1, <2>3, SettledSeats
    <3> QED
      BY <2>2, <3>2, <3>3
  <2>4. CASE ~(p \in Dead(e) \/ e.seat[p] = "down")
    <3>1. p \notin Wrecks(e) /\ s.seat[p] = e.seat[p]
      BY <2>1, <2>4, SettledSeats DEF Wrecks
    <3>2. p \in armed' <=> p \in armed
      BY <1>1, <2>4, <3>1
    <3> QED
      BY <2>2, <3>1, <3>2
  <2> QED
    BY <2>3, <2>4
<1>5. ASSUME NEW p \in Players, e.seat[p] = "out" PROVE p \in armed' <=> p \in armed
  BY <1>1, <1>5, DeadLived DEF Wrecks
<1>6. s.guard <=> Garrison \in armed'
  BY <1>3, SettledSeats DEF Equipped
<1>7. Seated(s)' /\ Equipped(s)'
  BY <1>4, <1>6 DEF Seated, Equipped
<1> QED
  BY <1>2, <1>5, <1>7

LEMMA FledSat ==
  ASSUME NEW e, NEW p \in Fled(e)
  PROVE  p \in Players /\ e.seat[p] # "out" /\ e.pending[p] # "none"
  BY DEF Fled

\* What the invariant says of the owner of the round, and of the others.
LEMMA RoundState ==
  ASSUME TypeOK, Fenced, CargoAccounted, Owned, FirstFight, NEW q \in current, Resolving(q)
  PROVE  /\ fights # 0 /\ q \in Procs /\ ~mem[q].enc.ended /\ mem[q].enc \in Encounter
         /\ \A r \in current \ {q} : Yields(r) /\ ~Resolving(r)
         /\ pc[q] = "entered" => Fits(mem[q].enc)
         /\ pc[q] \in {"entered", "flushed"} => Seated(mem[q].enc) /\ Orders(mem[q].enc)
         /\ pc[q] \in {"flushed", "clearing", "leaving"} => Fits(After(q))
         /\ pc[q] = "clearing" => todo[q] \subseteq Wrecks(mem[q].enc)
         /\ Dropped # {} => pc[q] = "leaving" /\ Over(mem[q].enc)
<1>0. q \in Procs
  BY DEF TypeOK
<1>1. fights # 0
  BY <1>0, FightBegun DEF Resolving
<1>2. mem[q].enc \in Encounter /\ ~mem[q].enc.ended
  BY <1>0 DEF TypeOK, Column, Fenced, Unfinished, Resolving
<1>3. \A r \in current \ {q} : Yields(r) /\ ~Resolving(r)
  BY DEF Owned, RoundOwned, Yields, Resolving, Stages
<1> QED
  BY <1>0, <1>1, <1>2, <1>3 DEF FirstFight, Ground

LEMMA RoundFirst ==
  ASSUME TypeOK, Fenced, CargoAccounted, Owned, FirstFight, NEW q \in current, Resolving(q),
         Resolving(q)', Others(q), fights' = fights, mem'[q].enc = mem[q].enc,
         \/ row' = row /\ current' = current
         \/ current' = {q},
         Once',
         \A p \in Players : Coming(p) => p \in present',
         pc'[q] # "entered",
         pc'[q] = "flushed" => Seated(mem[q].enc)' /\ Orders(mem[q].enc)',
         Fits(After(q))',
         pc'[q] = "clearing" => todo'[q] \subseteq Wrecks(mem[q].enc),
         Dropped' # {} => pc'[q] = "leaving" /\ Over(mem[q].enc)
  PROVE  FirstFight'
<1>1. /\ fights # 0 /\ q \in Procs /\ q \in current'
      /\ \A r \in current \ {q} : Yields(r) /\ ~Resolving(r)
  BY RoundState
<1>2. \A r \in current' \ {q} : r \in Procs /\ r \in current /\ pc'[r] = pc[r] /\ ~Resolving(r)'
  BY <1>1 DEF Others, Resolving, TypeOK
<1>3. Ground'
  <2>1. ~Vacant' /\ \A r \in current' : pc'[r] \in Stages => r = q
    BY <1>1, <1>2 DEF Vacant, Resolving
  <2>2. pc'[q] \in {"flushed", "clearing", "leaving"}
    BY DEF Resolving, Stages
  <2> QED
    BY <2>1, <2>2 DEF Ground, Stages, Resolving
<1>4. \A s \in Procs \ {q} : s \notin current' /\ Resolving(s) => AtPeace(s)
  BY <1>1 DEF FirstFight, Ghosts
<1>5. Ghosts'
  BY <1>1, <1>4, GhostsStay
<1>6. Guests'
  <2>1. ASSUME NEW p \in Players, p # q
        PROVE  /\ Coming(p)' => p \in present'
               /\ p \in current' /\ pc'[p] = "engage" => row'.enc.ended
               /\ pc'[p] \in {"pay", "act"} => mem'[p].enc.seat[p] # "out"
    <3>1. pc'[p] = pc[p] /\ mem'[p] = mem[p]
      BY <2>1, ProcsSplit DEF Others
    <3>2. Coming(p)' => p \in present'
      BY <3>1 DEF Coming
    <3>3. p \in current' /\ pc'[p] = "engage" => row'.enc.ended
      BY <1>1, <2>1, <3>1 DEF Yields
    <3>4. pc'[p] \in {"pay", "act"} => mem'[p].enc.seat[p] # "out"
      BY <3>1 DEF FirstFight, Guests
    <3> QED
      BY <3>2, <3>3, <3>4
  <2>2. pc'[q] \notin {"arrived", "join", "engage", "pay", "act"}
    BY DEF Resolving, Stages
  <2> QED
    BY <2>1, <2>2 DEF Guests, Coming
<1>7. Eve'
  BY <1>1 DEF Eve
<1> QED
  BY <1>3, <1>5, <1>6, <1>7 DEF FirstFight

LEMMA FlushFirst ==
  ASSUME TypeOK, Fenced, CargoAccounted, Owned, FirstFight, NEW q \in current, Flush(q)
  PROVE  FirstFight'
<1>0. q \in Procs
  BY DEF TypeOK
<1>1. Resolving(q) /\ pc[q] = "entered"
  BY DEF Flush, Resolving, Stages
<1>2. /\ row' = row /\ current' = current /\ fights' = fights
      /\ mem' = mem /\ todo' = todo /\ done' = done /\ crew' = crew
      /\ present' = present /\ pod' = pod /\ drops' = drops
      /\ pc' = [pc EXCEPT ![q] = "flushed"]
  BY DEF Flush, column, budget, Goto
<1>3. Others(q) /\ pc'[q] = "flushed"
  BY <1>0, <1>2 DEF Others, TypeOK
<1>4. PICK e : e = mem[q].enc
  OBVIOUS
<1>5. /\ e \in Encounter /\ Seated(e) /\ Equipped(e) /\ Awaited(e) /\ Orders(e) /\ Dropped = {}
  BY <1>1, <1>4, RoundState DEF Fits
<1>6. armed' = (armed \ (Dead(e) \cup Wrecks(e))) \cup (Living(e) \ Dead(e))
  BY <1>4 DEF Flush
<1>7. /\ armed' \subseteq armed
      /\ Seated(Settled(e, done[q]))' /\ Equipped(Settled(e, done[q]))'
      /\ \A p \in Players : e.seat[p] = "out" => (p \in armed' <=> p \in armed)
  BY <1>2, <1>5, <1>6, LossesFit
<1>8. PICK s : s = Settled(e, done[q])
  OBVIOUS
<1>9. ASSUME NEW p \in Players, Coming(p)', s.seat[p] = "out"
      PROVE  crew'[p][p] = SeatOf(p)'
  <2>1. Coming(p) /\ p # q
    BY <1>2, <1>3, <1>9, ProcsSplit DEF Coming, Others
  <2>2. p \notin Fled(e)
    BY <1>5, <2>1, FledSat DEF Orders
  <2>3. e.seat[p] = "out"
    BY <1>5, <1>8, <1>9, <2>2, SettledSeats
  <2> QED
    BY <1>2, <1>5, <1>7, <2>1, <2>3 DEF Awaited, SeatOf
<1>10. Fits(s)'
  <2>1. Seated(Settled(e, done[q]))' /\ Equipped(Settled(e, done[q]))'
    BY <1>7
  <2>2. Seated(s)' /\ Equipped(s)'
    BY <1>2, <1>8, <2>1 DEF Seated, Equipped
  <2> QED
    BY <1>9, <2>2 DEF Fits, Awaited
<1>11. After(q)' = s /\ mem'[q].enc = e
  BY <1>2, <1>4, <1>8 DEF After
<1>12. Fits(After(q))'
  BY <1>10, <1>11 DEF Fits, Seated, Equipped, Awaited
<1>13. \A p \in Players : Coming(p)' => Coming(p)
  BY <1>3, ProcsSplit DEF Coming, Others
<1>14. Seated(mem[q].enc)' /\ Orders(mem[q].enc)'
  BY <1>2, <1>5, <1>11, <1>13 DEF Seated, Orders
<1>15. Once'
  BY <1>2, <1>7 DEF FirstFight, Once
<1>16. \A p \in Players : Coming(p) => p \in present'
  BY <1>2 DEF FirstFight, Guests
<1> QED
  BY <1>0, <1>1, <1>2, <1>3, <1>5, <1>12, <1>14, <1>15, <1>16, RoundFirst
     DEF Resolving, Stages, Dropped

LEMMA DepartFirst ==
  ASSUME TypeOK, Fenced, CargoAccounted, Owned, FirstFight, NEW q \in current, Depart(q)
  PROVE  FirstFight'
<1>0. q \in Procs
  BY DEF TypeOK
<1>1. Resolving(q) /\ pc[q] = "flushed"
  BY DEF Depart, Resolving, Stages
<1>2. /\ row' = row /\ current' = current /\ fights' = fights
      /\ mem' = mem /\ done' = done /\ crew' = crew
      /\ armed' = armed /\ pod' = pod /\ drops' = drops
      /\ pc' = [pc EXCEPT ![q] = "clearing"]
      /\ present' = present \ Fled(mem[q].enc)
      /\ todo' = [todo EXCEPT ![q] = Wrecks(mem[q].enc)]
  BY DEF Depart, column, budget, Goto
<1>3. Others(q) /\ pc'[q] = "clearing" /\ todo'[q] = Wrecks(mem[q].enc)
  BY <1>0, <1>2 DEF Others, TypeOK
<1>4. PICK e : e = mem[q].enc
  OBVIOUS
<1>5. PICK s : s = After(q)
  OBVIOUS
<1>6. e \in Encounter /\ Orders(e) /\ Fits(s) /\ Dropped = {}
  BY <1>1, <1>4, <1>5, RoundState
<1>7. \A p \in Players : Coming(p)' => Coming(p)
  BY <1>3, ProcsSplit DEF Coming, Others
<1>8. Seated(s)'
  BY <1>2, <1>4, <1>5, <1>6, SettledFields DEF After, Fits, Seated
<1>9. Equipped(s)' /\ Awaited(s)'
  BY <1>2, <1>6, <1>7 DEF Fits, Equipped, Awaited, SeatOf
<1>10. After(q)' = s
  BY <1>2, <1>5 DEF After
<1>11. Fits(After(q))'
  BY <1>8, <1>9, <1>10 DEF Fits, Seated, Equipped, Awaited
<1>12. ASSUME NEW p \in Players, Coming(p) PROVE p \in present'
  <2>1. p \notin Fled(e)
    BY <1>6, <1>12, FledSat DEF Orders
  <2>2. p \in present
    BY <1>12 DEF FirstFight, Guests
  <2> QED
    BY <1>2, <1>4, <2>1, <2>2
<1>13. Once'
  BY <1>2 DEF FirstFight, Once
<1> QED
  BY <1>0, <1>1, <1>2, <1>3, <1>6, <1>11, <1>12, <1>13, RoundFirst
     DEF Resolving, Stages, Dropped

LEMMA CaptureFirst ==
  ASSUME TypeOK, Fenced, CargoAccounted, Owned, FirstFight, NEW q \in current, NEW p \in Players,
         Capture(q, p)
  PROVE  FirstFight'
<1>0. q \in Procs
  BY DEF TypeOK
<1>1. Resolving(q) /\ pc[q] = "clearing"
  BY DEF Capture, NextWreck, Resolving, Stages
<1>2. /\ row' = Banked(q, p) /\ current' = {q} /\ fights' = fights
      /\ pc' = pc /\ todo' = todo /\ done' = done /\ crew' = crew
      /\ present' = present /\ armed' = armed /\ pod' = pod /\ drops' = drops
      /\ mem' = [mem EXCEPT ![q].captured = @ \cup {p}, ![q].salvage  = @ \cup ({p} \ pod)]
  BY DEF Capture, Write, world, budget
<1>3. Others(q) /\ mem'[q].enc = mem[q].enc
  BY <1>0, <1>2 DEF Others, TypeOK, Column
<1>5. PICK s : s = After(q)
  OBVIOUS
<1>6. Fits(s) /\ Dropped = {} /\ todo[q] \subseteq Wrecks(mem[q].enc)
  BY <1>1, <1>5, RoundState
<1>7. Fits(s)'
  BY <1>2, <1>6 DEF Fits, Seated, Equipped, Awaited, Coming, SeatOf
<1>8. After(q)' = s
  BY <1>2, <1>3, <1>5 DEF After
<1>9. Fits(After(q))'
  BY <1>7, <1>8 DEF Fits, Seated, Equipped, Awaited
<1>10. Once' /\ \A x \in Players : Coming(x) => x \in present'
  BY <1>2 DEF FirstFight, Once, Guests
<1> QED
  BY <1>0, <1>1, <1>2, <1>3, <1>6, <1>9, <1>10, RoundFirst DEF Resolving, Dropped

LEMMA ConvertFirst ==
  ASSUME TypeOK, Fenced, CargoAccounted, Owned, FirstFight, NEW q \in current, NEW p \in Players,
         Convert(q, p)
  PROVE  FirstFight'
<1>0. q \in Procs
  BY DEF TypeOK
<1>1. Resolving(q) /\ pc[q] = "clearing" /\ p \in todo[q]
  BY DEF Convert, Resolving, Stages
<1>2. /\ row' = row /\ current' = current /\ fights' = fights
      /\ pc' = pc /\ mem' = mem /\ crew' = crew
      /\ present' = present /\ drops' = drops
      /\ pod' = pod \cup {p} /\ armed' = armed \ {p}
      /\ todo' = [todo EXCEPT ![q] = @ \ {p}] /\ done' = [done EXCEPT ![q] = @ \cup {p}]
  BY DEF Convert, column, budget
<1>3. Others(q) /\ todo'[q] = todo[q] \ {p} /\ done'[q] = done[q] \cup {p}
  BY <1>0, <1>2 DEF Others, TypeOK
<1>4. PICK e : e = mem[q].enc
  OBVIOUS
<1>5. PICK s : s = Settled(e, done[q])
  OBVIOUS
<1>6. PICK t : t = Settled(e, done[q] \cup {p})
  OBVIOUS
<1>7. e \in Encounter /\ Fits(s) /\ Dropped = {} /\ todo[q] \subseteq Wrecks(e)
  BY <1>1, <1>4, <1>5, RoundState DEF After
<1>8. p \in Wrecks(e)
  BY <1>1, <1>7
<1>9. s.seat[p] \in {"down", "gone"} /\ t.seat[p] = "gone"
  BY <1>5, <1>6, <1>7, <1>8, SettledSeats DEF Wrecks
<1>10. (\A x \in Players \ {p} : t.seat[x] = s.seat[x]) /\ (t.guard <=> s.guard)
  BY <1>5, <1>6, <1>7, SettledSeats
<1>11. p \notin armed /\ armed' = armed
  BY <1>2, <1>7, <1>9 DEF Fits, Equipped
<1>12. Fits(t)
  <2>1. Seated(t)
    BY <1>7, <1>9, <1>10 DEF Fits, Seated
  <2>2. Equipped(t)
    BY <1>7, <1>9, <1>10, <1>11 DEF Fits, Equipped
  <2>3. Awaited(t)
    BY <1>7, <1>9, <1>10 DEF Fits, Awaited
  <2> QED
    BY <2>1, <2>2, <2>3 DEF Fits
<1>13. Fits(t)'
  BY <1>2, <1>11, <1>12 DEF Fits, Seated, Equipped, Awaited, Coming, SeatOf
<1>14. After(q)' = t
  BY <1>2, <1>3, <1>4, <1>6 DEF After
<1>15. Fits(After(q))'
  BY <1>13, <1>14 DEF Fits, Seated, Equipped, Awaited
<1>16. Once' /\ \A x \in Players : Coming(x) => x \in present'
  BY <1>2, <1>11 DEF FirstFight, Once, Guests
<1> QED
  BY <1>0, <1>1, <1>2, <1>3, <1>4, <1>7, <1>15, <1>16, RoundFirst DEF Resolving, Dropped

LEMMA DropFirst ==
  ASSUME TypeOK, Fenced, CargoAccounted, Owned, FirstFight, NEW q \in current, Drop(q)
  PROVE  FirstFight'
<1>0. q \in Procs
  BY DEF TypeOK
<1>1. Resolving(q) /\ pc[q] = "clearing"
  BY DEF Drop, Resolving, Stages
<1>2. /\ row' = row /\ current' = current /\ fights' = fights
      /\ done' = done /\ todo' = todo /\ crew' = crew
      /\ present' = present /\ armed' = armed /\ pod' = pod
      /\ pc' = [pc EXCEPT ![q] = "leaving"]
      /\ mem' = mem \/ mem' = [mem EXCEPT ![q].salvage = {}]
  BY DEF Drop, column, budget, Goto
<1>3. Others(q) /\ mem'[q].enc = mem[q].enc /\ pc'[q] = "leaving"
  BY <1>0, <1>2 DEF Others, TypeOK, Column
<1>4. PICK s : s = After(q)
  OBVIOUS
<1>5. Fits(s) /\ Dropped = {}
  BY <1>1, <1>4, RoundState
<1>6. \A p \in Players : Coming(p)' => Coming(p)
  BY <1>3, ProcsSplit DEF Coming, Others
<1>7. Fits(s)'
  BY <1>2, <1>5, <1>6 DEF Fits, Seated, Equipped, Awaited, SeatOf
<1>8. After(q)' = s
  BY <1>2, <1>3, <1>4 DEF After
<1>9. Fits(After(q))'
  BY <1>7, <1>8 DEF Fits, Seated, Equipped, Awaited
<1>10. /\ Dropped' # {} => Over(mem[q].enc)
       /\ \A p \in Players : drops'[p] <= 1
  <2>1. \A p \in Players : drops[p] = 0
    BY <1>5 DEF Dropped, TypeOK
  <2>2. CASE Over(mem[q].enc)
    <3>1. drops' = [p \in Players |-> IF p \in mem[q].salvage /\ drops[p] < 2
                                      THEN drops[p] + 1 ELSE drops[p]]
      BY <2>2 DEF Drop
    <3> QED
      BY <2>1, <2>2, <3>1
  <2>3. CASE ~Over(mem[q].enc)
    <3>1. drops' = drops
      BY <2>3 DEF Drop
    <3> QED
      BY <1>5, <2>1, <3>1 DEF Dropped
  <2> QED
    BY <2>2, <2>3
<1>11. Once' /\ \A x \in Players : Coming(x) => x \in present'
  BY <1>2, <1>10 DEF FirstFight, Once, Guests
<1> QED
  BY <1>0, <1>1, <1>2, <1>3, <1>9, <1>10, <1>11, RoundFirst DEF Resolving, Stages

\* The next round has the rows of the last one's outcome.
LEMMA NextRoundFields ==
  ASSUME NEW e \in Encounter, NEW luck
  PROVE  LET n == NextRound(e, luck) IN
         /\ n.seat = e.seat /\ n.guard = e.guard /\ n.pending = e.pending
         /\ n.log = e.log /\ n.ended = e.ended
         /\ ~e.ended => n.round = e.round + 1
  BY DEF NextRound, Encounter

LEMMA LeaveFirst ==
  ASSUME TypeOK, Fenced, CargoAccounted, Owned, FirstFight, NEW q \in current, Leave(q)
  PROVE  FirstFight'
<1>0. q \in Procs
  BY DEF TypeOK
<1>1. Resolving(q) /\ pc[q] = "leaving"
  BY DEF Leave, Resolving, Stages
<1>2. /\ current' = {} /\ fights' = fights
      /\ present' = present /\ armed' = armed /\ pod' = pod /\ drops' = drops
      /\ Finish(q)
  BY DEF Leave, WriteOut, world, budget
<1>3. PICK luck \in Outcomes :
        row' = [Image(q) EXCEPT !.enc = NextRound(@, luck), !.marker = FALSE]
  BY DEF Leave, WriteOut
<1>4. PICK e : e = mem[q].enc
  OBVIOUS
<1>5. PICK s : s = Settled(e, done[q])
  OBVIOUS
<1>6. PICK n : n = NextRound(s, luck)
  OBVIOUS
<1>7. row'.enc = n
  BY <1>3, <1>4, <1>5, <1>6 DEF Image
<1>8. /\ e \in Encounter /\ Fits(s) /\ ~e.ended /\ fights # 0
      /\ Dropped # {} => Over(e)
  BY <1>1, <1>4, <1>5, RoundState DEF After
<1>9. s \in Encounter /\ s.ended = Over(e) /\ \A p \in Players : s.pending[p] = "none"
  BY <1>5, <1>8, SettledType, SettledFields, SettledSeats
<1>10. /\ n.seat = s.seat /\ n.guard = s.guard /\ n.pending = s.pending
       /\ n.ended = s.ended
  BY <1>6, <1>9, NextRoundFields
<1>12. Fits(n) /\ Orders(n)
  BY <1>8, <1>9, <1>10 DEF Fits, Seated, Equipped, Awaited, Orders
<1>13. Others(q) /\ pc'[q] = "idle"
  BY <1>0, <1>2, FinishOthers
<1>14. \A r \in Procs \ {q} : Resolving(r) => AtPeace(r)
  BY <1>1, RoundState DEF FirstFight, Ghosts
<1>15. Continues(q, n)
  BY <1>12 DEF Continues, Fits, Awaited, Orders
<1>16. Fits(n)' /\ Orders(n)'
  BY <1>0, <1>2, <1>13, <1>15, ContinuesFits DEF Coming
<1>17. Fits(row.enc)' /\ Orders(row.enc)'
  BY <1>7, <1>16 DEF Fits, Seated, Equipped, Awaited, Orders
<1>18. Ghosts'
  BY <1>0, <1>13, <1>14, GhostsStay, StagesAreNot DEF Resolving
<1>19. Dropped' # {} => row'.enc.ended
  BY <1>2, <1>7, <1>8, <1>9, <1>10 DEF Dropped
<1>20. Ground'
  BY <1>2, <1>17, <1>19 DEF Ground
<1>21. Guests' /\ Once' /\ Eve'
  BY <1>0, <1>2, <1>8, <1>13, MovesGuests DEF FirstFight, Once, Eve
<1> QED
  BY <1>18, <1>20, <1>21 DEF FirstFight

\* A resolution that was overtaken passes over its wrecks and gives up.
LEMMA GhostFirst ==
  ASSUME TypeOK, Fenced, CargoAccounted, FirstFight, NEW q \in Procs \ current, Resolve(q)
  PROVE  FirstFight'
<1>1. Resolving(q) /\ AtPeace(q) /\ fights # 0
  <2>1. Resolving(q)
    BY DEF Resolve, Flush, Depart, Drop, Leave, LeaveConflict, Capture, EjectConflict,
           FinalizeConflict, Convert, NextWreck, Resolving, Stages
  <2> QED
    BY <2>1, FightBegun, SMTT(40) DEF FirstFight, Ghosts, Resolving
<1>2. pc[q] \in {"clearing", "leaving"} /\ ~Over(mem[q].enc) /\ todo[q] \cap mem[q].captured = {}
  BY <1>1 DEF AtPeace
<1>3. /\ UNCHANGED <<row, current, world, fights>> /\ Others(q)
      /\ \/ pc'[q] = "idle"
         \/ /\ pc'[q] \in {"clearing", "leaving"} /\ mem'[q] = mem[q]
            /\ todo'[q] \subseteq todo[q]
  <2>1. CASE LeaveConflict(q)
    BY <2>1, FinishOthers DEF LeaveConflict, column, budget
  <2>2. CASE Drop(q)
    <3>1. /\ UNCHANGED <<column, world, budget, mem, crew, todo, done>>
          /\ pc' = [pc EXCEPT ![q] = "leaving"]
      BY <1>2, <2>2 DEF Drop, Goto, world
    <3> QED
      BY <3>1 DEF column, budget, Others, TypeOK
  <2>3. ASSUME NEW p \in Players, EjectConflict(q, p)
        PROVE  /\ UNCHANGED <<row, current, world, fights>> /\ Others(q)
               /\ pc'[q] = pc[q] /\ mem'[q] = mem[q] /\ todo'[q] \subseteq todo[q]
    BY <2>3 DEF EjectConflict, column, budget, Others, TypeOK
  <2>4. ~Flush(q) /\ ~Depart(q) /\ ~Leave(q)
    BY <1>2 DEF Flush, Depart, Leave, Matches
  <2>5. ASSUME NEW p \in Players
        PROVE  ~Capture(q, p) /\ ~FinalizeConflict(q, p) /\ ~Convert(q, p)
    BY <1>2 DEF Capture, FinalizeConflict, Convert, NextWreck, Matches
  <2> QED
    BY <1>2, <2>1, <2>2, <2>3, <2>4, <2>5 DEF Resolve
<1>4. /\ present' = present /\ armed' = armed /\ pod' = pod /\ drops' = drops
      /\ \A x : SeatOf(x)' = SeatOf(x)
  BY <1>3 DEF world, SeatOf
<1>5. ASSUME NEW s \in Procs, s # q
      PROVE  /\ pc'[s] = pc[s] /\ mem'[s] = mem[s] /\ crew'[s] = crew[s]
             /\ todo'[s] = todo[s] /\ done'[s] = done[s] /\ After(s)' = After(s)
  BY <1>3, <1>5 DEF Others, After
<1>6. /\ \A p \in Players : Coming(p)' <=> Coming(p)
      /\ \A p \in Players : Coming(p) => crew'[p] = crew[p]
  <2>1. pc[q] \notin {"arrived", "join"} /\ pc'[q] \notin {"arrived", "join"}
    BY <1>2, <1>3
  <2> QED
    BY <1>5, <2>1, ProcsSplit DEF Coming
<1>7. ASSUME NEW e
      PROVE  (Fits(e)' <=> Fits(e)) /\ (Seated(e)' <=> Seated(e)) /\ (Orders(e)' <=> Orders(e))
  BY <1>4, <1>6 DEF Fits, Seated, Equipped, Awaited, Orders
<1>8. Ground'
  <2>1. current' = current /\ row' = row /\ fights' = fights /\ Dropped' = Dropped
    BY <1>3, <1>4 DEF Dropped
  <2>2. \A s \in current : s \in Procs /\ s # q
    BY DEF TypeOK
  <2>3. Vacant' <=> Vacant
    BY <1>5, <2>1, <2>2 DEF Vacant, Resolving
  <2>4. PICK e : e = row.enc
    OBVIOUS
  <2>5. (Fits(row.enc)' <=> Fits(e)') /\ (Orders(row.enc)' <=> Orders(e)')
    BY <2>1, <2>4 DEF Fits, Seated, Equipped, Awaited, Orders
  <2>6. Vacant' => Fits(row.enc)' /\ Orders(row.enc)' /\ (Dropped' # {} => row'.enc.ended)
    BY <1>1, <1>7, <2>1, <2>3, <2>4, <2>5 DEF FirstFight, Ground
  <2>7. ASSUME NEW s \in current'
        PROVE  /\ pc'[s] = "entered" => Fits(mem[s].enc)'
               /\ pc'[s] \in {"entered", "flushed"} =>
                    Seated(mem[s].enc)' /\ Orders(mem[s].enc)'
               /\ pc'[s] \in {"flushed", "clearing", "leaving"} => Fits(After(s))'
               /\ pc'[s] = "clearing" => todo'[s] \subseteq Wrecks(mem'[s].enc)
               /\ Resolving(s)' /\ Dropped' # {} => pc'[s] = "leaving" /\ Over(mem'[s].enc)
    <3>1. s \in current /\ s \in Procs /\ s # q
      BY <2>1, <2>2
    <3>2. PICK e2, f : e2 = mem[s].enc /\ f = After(s)
      OBVIOUS
    <3>3. mem'[s].enc = e2 /\ After(s)' = f
      BY <1>5, <3>1, <3>2
    <3>4. /\ Fits(mem[s].enc)' <=> Fits(e2)'
          /\ Seated(mem[s].enc)' <=> Seated(e2)'
          /\ Orders(mem[s].enc)' <=> Orders(e2)'
          /\ Fits(After(s))' <=> Fits(f)'
      BY <3>3 DEF Fits, Seated, Equipped, Awaited, Orders
    <3>5. /\ pc[s] = "entered" => Fits(e2)
          /\ pc[s] \in {"entered", "flushed"} => Seated(e2) /\ Orders(e2)
          /\ pc[s] \in {"flushed", "clearing", "leaving"} => Fits(f)
          /\ pc[s] = "clearing" => todo[s] \subseteq Wrecks(e2)
          /\ Resolving(s) /\ Dropped # {} => pc[s] = "leaving" /\ Over(e2)
      BY <1>1, <3>1, <3>2 DEF FirstFight, Ground
    <3> QED
      BY <1>5, <1>7, <2>1, <3>1, <3>3, <3>4, <3>5 DEF Resolving
  <2> QED
    BY <2>6, <2>7 DEF Ground
<1>9. Ghosts'
  <2>1. ASSUME NEW s \in Procs \ current', Resolving(s)' PROVE AtPeace(s)'
    <3>1. CASE s = q
      BY <1>2, <1>3, <2>1, <3>1 DEF AtPeace, Resolving, Stages
    <3>2. CASE s # q
      BY <1>3, <1>5, <2>1, <3>2 DEF FirstFight, Ghosts, AtPeace, Resolving
    <3> QED
      BY <3>1, <3>2
  <2> QED
    BY <2>1 DEF Ghosts
<1>10. Guests'
  <2>1. pc[q] \notin {"engage", "pay", "act"} /\ pc'[q] \notin {"engage", "pay", "act"}
    BY <1>2, <1>3
  <2> QED
    BY <1>3, <1>4, <1>5, <1>6, <2>1, ProcsSplit DEF FirstFight, Guests
<1>11. Eve' /\ Once'
  BY <1>1, <1>3, <1>4 DEF FirstFight, Eve, Once
<1> QED
  BY <1>8, <1>9, <1>10, <1>11 DEF FirstFight

LEMMA ResolveFirst ==
  ASSUME TypeOK, Fenced, CargoAccounted, Owned, FirstFight, NEW q \in Procs, Resolve(q)
  PROVE  FirstFight'
<1>1. CASE q \in current
  <2>1. ~LeaveConflict(q)
    BY <1>1 DEF LeaveConflict, Matches
  <2>2. ASSUME NEW p \in Players PROVE ~EjectConflict(q, p) /\ ~FinalizeConflict(q, p)
    BY <1>1 DEF EjectConflict, FinalizeConflict, Matches
  <2> QED
    BY <1>1, <2>1, <2>2, FlushFirst, DepartFirst, CaptureFirst, ConvertFirst, DropFirst,
       LeaveFirst DEF Resolve
<1>2. CASE q \notin current
  BY <1>2, GhostFirst
<1> QED
  BY <1>1, <1>2

\* The owner of a round has left it with the tables and the column agreeing.
LEMMA BreakState ==
  ASSUME TypeOK, Fenced, CargoAccounted, Owned, FirstFight, NEW q \in current, Resolving(q),
         AtPeace(q)
  PROVE  Fits(row.enc) /\ Orders(row.enc) /\ Dropped = {} /\ fights # 0
<1>1. PICK e : e = mem[q].enc
  OBVIOUS
<1>2. /\ e \in Encounter /\ q \in Procs /\ fights # 0 /\ Fits(After(q))
      /\ pc[q] \in {"clearing", "leaving"} /\ ~Over(e) /\ row.enc # e
      /\ Dropped = {}
  BY <1>1, RoundState DEF AtPeace
<1>3. PICK w \in SUBSET Players : row.enc = Settled(e, w)
  BY <1>1, <1>2 DEF Fenced, Holds
<1>4. PICK s : s = After(q)
  OBVIOUS
<1>5. PICK r : r = row.enc
  OBVIOUS
<1>6. /\ \A p \in Players : /\ r.seat[p] = "out" <=> s.seat[p] = "out"
                            /\ r.seat[p] = "live" <=> s.seat[p] = "live"
                            /\ r.pending[p] = "none"
      /\ r.guard <=> s.guard
  BY <1>1, <1>2, <1>3, <1>4, <1>5, SettledSeats DEF After
<1>7. Fits(s)
  BY <1>2, <1>4
<1>8. Fits(r) /\ Orders(r)
  BY <1>6, <1>7 DEF Fits, Seated, Equipped, Awaited, Orders
<1> QED
  BY <1>2, <1>5, <1>8

-----------------------------------------------------------------------------
(* The first fight, through requests and ticks.                            *)

\* A fight in progress has begun, and has dropped nothing.
LEMMA ActiveGround ==
  ASSUME CargoAccounted, FirstFight, Vacant, ~row.enc.ended
  PROVE  fights # 0 /\ Dropped = {} /\ Fits(row.enc) /\ Orders(row.enc)
  BY DEF CargoAccounted, Untouched, FirstFight, Ground

\* The fields a bystander leaves alone.
LEMMA SameWorld ==
  ASSUME UNCHANGED world
  PROVE  armed' = armed /\ pod' = pod /\ drops' = drops /\ present' = present
  BY DEF world

LEMMA LookingWelcome ==
  ASSUME TypeOK, RoundOwned, Guests, NEW p \in Players, Looking(p)
  PROVE  Bystands(p) /\ Welcome(p)
<1> USE ProcsSplit
<1>0. Aside(p)
  BY LookingAside
<1>1. CASE Arrive(p)
  <2>1. /\ fights' = fights /\ armed' = armed /\ pod' = pod /\ drops' = drops
        /\ present' = present \cup {p} /\ p \notin present
        /\ crew' = [crew EXCEPT ![p][p] = SeatOf(p)]
        /\ pc' = [pc EXCEPT ![p] = "arrived"]
    BY <1>1 DEF Arrive, Goto
  <2>2. pc'[p] = "arrived" /\ crew'[p][p] = SeatOf(p)
    BY <2>1 DEF TypeOK, Rosters
  <2> QED
    BY <1>0, <2>1, <2>2 DEF Bystands, Welcome
<1>2. CASE Look(p) \/ GiveUpJoin(p) \/ WaitOut(p) \/ RetryJoin(p)
  <2>1. /\ fights' = fights /\ UNCHANGED world /\ crew' = crew
        /\ Coming(p)
        /\ pc' = pc \/ \E l \in {"join", "auto"} : pc' = [pc EXCEPT ![p] = l]
    BY <1>2 DEF Look, GiveUpJoin, WaitOut, RetryJoin, CanJoin, Goto, budget, Coming
  <2>2. pc'[p] \in {"arrived", "join", "auto"}
    BY <2>1 DEF Coming, TypeOK
  <2> QED
    BY <1>0, <2>1, <2>2, SameWorld DEF Bystands, Welcome
<1>3. CASE AutoEngage(p)
  <2>1. fights' = fights /\ UNCHANGED world
    BY <1>3 DEF AutoEngage, budget
  <2>2. \/ pc'[p] = "idle"
        \/ pc'[p] = "engage" /\ crew'[p] = Roster /\ row.enc.ended
    <3>1. CASE ~Active /\ Garrison \in armed /\ Ships # {}
      BY <1>3, <3>1 DEF AutoEngage, Goto, Active, TypeOK
    <3>2. CASE ~(~Active /\ Garrison \in armed /\ Ships # {})
      BY <1>3, <3>2, FinishOthers DEF AutoEngage
    <3> QED
      BY <3>1, <3>2
  <2> QED
    BY <1>0, <2>1, <2>2, SameWorld DEF Bystands, Welcome, Coming
<1>4. CASE Initiate(p)
  <2>1. /\ fights' = fights /\ UNCHANGED world /\ p \in Ships
        /\ crew' = [crew EXCEPT ![p] = Roster] /\ pc' = [pc EXCEPT ![p] = "engage"]
    BY <1>4 DEF Initiate, Goto
  <2>2. pc'[p] = "engage" /\ crew'[p] = Roster
    BY <2>1 DEF TypeOK
  <2> QED
    BY <1>0, <2>1, <2>2, SameWorld DEF Bystands, Welcome, Coming
<1>5. ASSUME NEW a \in Acts, Act(p, a) PROVE Bystands(p) /\ Welcome(p)
  <2>1. /\ Load(p) /\ fights' = fights /\ UNCHANGED world
        /\ pc' = [pc EXCEPT ![p] = IF a = "pay" THEN "pay" ELSE "act"]
        /\ row.enc.seat[p] \in {"live", "down"}
    BY <1>5 DEF Act, Goto, MaySubmit
  <2>2. pc'[p] \in {"pay", "act"} /\ mem'[p].enc.seat[p] # "out"
    BY <2>1 DEF Load, TypeOK
  <2> QED
    BY <1>0, <2>1, <2>2, SameWorld DEF Bystands, Welcome, Coming
<1>6. CASE PayToll(p)
  <2>1. /\ fights' = fights /\ mem' = mem /\ armed' = armed /\ pod' = pod /\ drops' = drops
        /\ present' = present /\ pc[p] = "pay" /\ pc' = [pc EXCEPT ![p] = "act"]
    BY <1>6 DEF PayToll, Goto, budget
  <2>2. pc'[p] = "act" /\ mem'[p].enc.seat[p] # "out"
    BY <2>1 DEF Guests, TypeOK
  <2> QED
    BY <1>0, <2>1, <2>2 DEF Bystands, Welcome, Coming
<1>7. CASE EngageConflict(p) \/ TooPoor(p) \/ ActConflict(p)
  <2>1. fights' = fights /\ UNCHANGED world /\ Finish(p)
    BY <1>7 DEF EngageConflict, TooPoor, ActConflict, budget
  <2> QED
    BY <1>0, <2>1, SameWorld, FinishOthers DEF Bystands, Welcome, Coming
<1> QED
  BY <1>1, <1>2, <1>3, <1>4, <1>5, <1>6, <1>7 DEF Looking

LEMMA JoinFirst ==
  ASSUME TypeOK, Fenced, CargoAccounted, Owned, FirstFight, NEW p \in Players, Join(p)
  PROVE  FirstFight'
<1> USE ProcsSplit
<1>1. /\ Finish(p) /\ fights' = fights /\ pc[p] = "join" /\ UNCHANGED world
  BY DEF Join, CanJoin, budget
<1>2. /\ Vacant /\ ~row.enc.ended /\ row.enc.seat[p] = "out" /\ row.enc \in Encounter
      /\ current' = {}
      /\ row'.enc = Enrolled(row.enc, p, crew[p][p])
  BY JoinWrites DEF Owned
<1>3. fights # 0 /\ Dropped = {} /\ Fits(row.enc) /\ Orders(row.enc)
  BY <1>2, ActiveGround
<1>4. crew[p][p] = SeatOf(p) /\ p \in present /\ crew[p][p] \in Seats
  BY <1>1, <1>2, <1>3, SeenType DEF FirstFight, Guests, Fits, Awaited, Coming
<1>5. Continues(p, Enrolled(row.enc, p, crew[p][p]))
  BY <1>2, <1>3, <1>4, RowContinues, EnrolledContinues
<1> QED
  BY <1>1, <1>2, <1>3, <1>5, SameWorld, WriterFirst

LEMMA ReinforceFirst ==
  ASSUME TypeOK, Fenced, CargoAccounted, Owned, FirstFight, NEW p \in Players, Reinforce(p)
  PROVE  FirstFight'
<1> USE ProcsSplit
<1>1. Finish(p) /\ fights' = fights /\ UNCHANGED world /\ p \in current
  BY DEF Reinforce, Matches, budget
<1>2. /\ Vacant /\ ~row.enc.ended /\ row.enc \in Encounter /\ pc[p] = "engage"
      /\ current' = {}
      /\ \/ row.enc.seat[p] = "out" /\ row'.enc = Enrolled(row.enc, p, crew[p][p])
         \/ row'.enc = row.enc
  BY ReinforceWrites DEF Owned
<1>3. fights # 0 /\ Dropped = {} /\ Fits(row.enc) /\ Orders(row.enc)
  BY <1>2, ActiveGround
<1>4. crew[p][p] = SeatOf(p) /\ p \in present /\ crew[p][p] \in Seats
  BY <1>1, <1>2, SeenType DEF FirstFight, Guests
<1>5. Continues(p, row'.enc)
  BY <1>2, <1>3, <1>4, RowContinues, EnrolledContinues
<1> QED
  BY <1>1, <1>2, <1>3, <1>5, SameWorld, WriterFirst

LEMMA ActFirst ==
  ASSUME TypeOK, Fenced, CargoAccounted, Owned, FirstFight, NEW p \in Players,
         StoreAction(p) \/ ActAndResolve(p)
  PROVE  FirstFight'
<1> USE ProcsSplit
<1>1. /\ Vacant /\ mem[p] = row /\ ~row.enc.ended /\ pc[p] = "act" /\ row.enc \in Encounter
      /\ row'.enc = Submitted(row.enc, p, choice[p])
  BY StoreWrites, LastActionWrites DEF Owned, TypeOK, Column
<1>2. fights # 0 /\ Dropped = {} /\ Fits(row.enc) /\ Orders(row.enc)
  BY <1>1, ActiveGround
<1>3. row.enc.seat[p] # "out"
  BY <1>1 DEF FirstFight, Guests
<1>4. Continues(p, row'.enc)
  BY <1>1, <1>2, <1>3, RowContinues, SubmittedContinues
<1>5. CASE StoreAction(p)
  <2>1. Finish(p) /\ fights' = fights /\ UNCHANGED world /\ current' = {}
    BY <1>5 DEF StoreAction, WriteOut, budget
  <2> QED
    BY <1>1, <1>2, <1>4, <2>1, SameWorld, WriterFirst
<1>6. CASE ActAndResolve(p)
  <2>1. /\ fights' = fights /\ UNCHANGED world /\ crew' = crew /\ todo' = todo /\ done' = done
        /\ pc' = [pc EXCEPT ![p] = "entered"]
        /\ \E col : mem' = [mem EXCEPT ![p] = col]
    BY <1>6 DEF ActAndResolve, Goto, budget
  <2>2. Others(p)
    BY <2>1 DEF Others, TypeOK
  <2>3. current' = {p} /\ pc'[p] = "entered" /\ mem'[p].enc = row'.enc
    BY <1>6, LastActionWrites DEF Owned
  <2>4. \A s \in Procs \ {p} : Resolving(s) => AtPeace(s)
    BY <1>1 DEF FirstFight, Ghosts, Vacant
  <2> QED
    BY <1>2, <1>4, <2>1, <2>2, <2>3, <2>4, SameWorld, EnterFirst
<1> QED
  BY <1>5, <1>6

LEMMA StartFirst ==
  ASSUME TypeOK, Fenced, CargoAccounted, FirstFight, NEW p \in Players, StartFight(p), Calm'
  PROVE  FirstFight'
<1> USE ProcsSplit
<1>1. Finish(p) /\ fights' = fights + 1 /\ UNCHANGED world /\ pc[p] = "engage"
  BY DEF StartFight
<1>2. fights = 0 /\ fights' # 0
  BY <1>1 DEF Calm, TypeOK
<1>3. current' = {} /\ \E luck \in Outcomes : row'.enc = Fresh(crew[p], auto[p], luck)
  BY StartWrites
<1>4. Continues(p, row'.enc)
  BY <1>1, <1>2, <1>3, FreshContinues DEF FirstFight
<1>5. Vacant
  BY <1>2, FightBegun DEF Vacant, Resolving, TypeOK
<1>6. Dropped = {}
  BY <1>2 DEF FirstFight, Eve
<1> QED
  BY <1>1, <1>2, <1>3, <1>4, <1>5, <1>6, SameWorld, WriterFirst

LEMMA TickFirst ==
  ASSUME TypeOK, TypeOK', Fenced, CargoAccounted, Owned, FirstFight, Calm',
         NEW t \in Ticks, Tick(t)
  PROVE  FirstFight'
<1>. t \in Procs /\ t \notin Players
  BY ProcsSplit, EncounterAssumption
<1>1. CASE ListDue(t) \/ TickConflict(t)
  <2>1. fights' = fights /\ UNCHANGED world
    BY <1>1 DEF ListDue, TickConflict, budget
  <2>2. Bystands(t)
    BY <1>1, <2>1, TickAside, SameWorld DEF Bystands
  <2> QED
    BY <2>2, BystandFirst
<1>2. CASE TickEnters(t)
  <2>1. /\ fights' = fights /\ UNCHANGED world /\ crew' = crew /\ todo' = todo /\ done' = done
        /\ pc' = [pc EXCEPT ![t] = "entered"] /\ pc[t] = "listed"
        /\ \E col : mem' = [mem EXCEPT ![t] = col]
        /\ Abandon(Procs \ {t})
    BY <1>2 DEF TickEnters, Goto
  <2>2. Others(t)
    BY <2>1 DEF Others, TypeOK
  <2>3. /\ ~row.enc.ended /\ current' = {t} /\ pc'[t] = "entered"
        /\ mem'[t].enc = row.enc /\ row'.enc = row.enc
    BY <1>2, TickWrites
  <2>4. \A s \in Procs \ {t} : Resolving(s) => AtPeace(s)
    BY <2>1 DEF Abandon, Calm
  <2>5. fights # 0 /\ Dropped = {} /\ Fits(row.enc) /\ Orders(row.enc)
    <3>1. CASE Vacant
      BY <2>3, <3>1, ActiveGround
    <3>2. CASE ~Vacant
      <4>1. PICK q \in current : Resolving(q)
        BY <3>2 DEF Vacant
      <4>2. q \in Procs /\ q # t
        BY <2>1, <4>1, StagesAreNot DEF TypeOK, Resolving
      <4> QED
        BY <2>4, <4>1, <4>2, BreakState
    <3> QED
      BY <3>1, <3>2
  <2>6. Continues(t, row'.enc)
    BY <2>3, <2>5, RowContinues
  <2> QED
    BY <2>1, <2>2, <2>3, <2>4, <2>5, <2>6, SameWorld, EnterFirst
<1> QED
  BY <1>1, <1>2 DEF Tick

LEMMA RequestFirst ==
  ASSUME TypeOK, TypeOK', Fenced, CargoAccounted, Owned, FirstFight, Calm', NEW p \in Players,
         Request(p)
  PROVE  FirstFight'
<1>1. CASE Looking(p)
  BY <1>1, LookingWelcome, BystandFirst, ProcsSplit DEF Owned, FirstFight
<1> QED
  BY <1>1, JoinFirst, ReinforceFirst, ActFirst, StartFirst DEF Request, Looking

\* A function that is killed, and had not left tables and column apart.
LEMMA CrashFirst ==
  ASSUME TypeOK, Fenced, CargoAccounted, Owned, FirstFight, Calm', NEW q \in Procs, Crash(q)
  PROVE  FirstFight'
<1>1. /\ row' = row /\ fights' = fights /\ UNCHANGED world /\ current' = current \ {q}
      /\ Finish(q) /\ Abandon({q}) /\ pc[q] \in Stages \cup {"act"}
  BY DEF Crash, Resolving
<1>2. Others(q) /\ pc'[q] = "idle" /\ fights # 0
  BY <1>1, FinishOthers, FightBegun
<1>3. present' = present /\ armed' = armed /\ pod' = pod /\ drops' = drops /\ Dropped' = Dropped
  BY <1>1, SameWorld DEF Dropped
<1>4. Resolving(q) => AtPeace(q)
  BY <1>1 DEF Abandon, Calm
<1>5. ASSUME Vacant' PROVE Fits(row.enc) /\ Orders(row.enc) /\ (Dropped # {} => row.enc.ended)
  <2>1. CASE Vacant
    BY <1>2, <2>1 DEF FirstFight, Ground
  <2>2. CASE ~Vacant
    <3>1. PICK r \in current : Resolving(r)
      BY <2>2 DEF Vacant
    <3>2. r = q
      BY <1>1, <1>2, <1>5, <3>1 DEF Vacant, Others, Resolving, TypeOK
    <3> QED
      BY <1>4, <3>1, <3>2, BreakState
  <2> QED
    BY <2>1, <2>2
<1>6. ASSUME NEW s \in current'
      PROVE  /\ s \in current /\ s \in Procs /\ s # q
             /\ pc'[s] = pc[s] /\ mem'[s] = mem[s] /\ todo'[s] = todo[s]
             /\ After(s)' = After(s) /\ (Resolving(s)' <=> Resolving(s))
  BY <1>1, <1>2, <1>6 DEF Others, After, Resolving, TypeOK
<1>7. /\ \A p \in Players : Coming(p)' => Coming(p) /\ crew'[p] = crew[p]
      /\ \A x : SeatOf(x)' = SeatOf(x)
  BY <1>2, <1>3, ProcsSplit DEF Coming, Others, SeatOf
<1>8. ASSUME NEW e
      PROVE  (Fits(e) => Fits(e)') /\ (Seated(e) => Seated(e)') /\ (Orders(e) => Orders(e)')
  BY <1>3, <1>7 DEF Fits, Seated, Equipped, Awaited, Orders
<1>9. Ground'
  <2>1. PICK e : e = row.enc
    OBVIOUS
  <2>2. Vacant' => Fits(row.enc)' /\ Orders(row.enc)' /\ (Dropped' # {} => row'.enc.ended)
    <3>1. row'.enc = e
      BY <1>1, <2>1
    <3>2. (Fits(e)' => Fits(row.enc)') /\ (Orders(e)' => Orders(row.enc)')
      BY <3>1 DEF Fits, Seated, Equipped, Awaited, Orders
    <3> QED
      BY <1>1, <1>3, <1>5, <1>8, <2>1, <3>2
  <2>3. ASSUME NEW s \in current'
        PROVE  /\ pc'[s] = "entered" => Fits(mem[s].enc)'
               /\ pc'[s] \in {"entered", "flushed"} =>
                    Seated(mem[s].enc)' /\ Orders(mem[s].enc)'
               /\ pc'[s] \in {"flushed", "clearing", "leaving"} => Fits(After(s))'
               /\ pc'[s] = "clearing" => todo'[s] \subseteq Wrecks(mem'[s].enc)
               /\ Resolving(s)' /\ Dropped' # {} => pc'[s] = "leaving" /\ Over(mem'[s].enc)
    <3>1. PICK e2, f : e2 = mem[s].enc /\ f = After(s)
      OBVIOUS
    <3>2. mem'[s].enc = e2 /\ After(s)' = f /\ s \in current /\ s \in Procs
      BY <1>6, <3>1
    <3>3. /\ Fits(e2)' => Fits(mem[s].enc)'
          /\ Seated(e2)' => Seated(mem[s].enc)'
          /\ Orders(e2)' => Orders(mem[s].enc)'
          /\ Fits(f)' => Fits(After(s))'
      BY <3>2 DEF Fits, Seated, Equipped, Awaited, Orders
    <3>4. /\ pc[s] = "entered" => Fits(e2)
          /\ pc[s] \in {"entered", "flushed"} => Seated(e2) /\ Orders(e2)
          /\ pc[s] \in {"flushed", "clearing", "leaving"} => Fits(f)
          /\ pc[s] = "clearing" => todo[s] \subseteq Wrecks(e2)
          /\ Resolving(s) /\ Dropped # {} => pc[s] = "leaving" /\ Over(e2)
      BY <1>2, <3>1, <3>2 DEF FirstFight, Ground
    <3> QED
      BY <1>3, <1>6, <1>8, <3>2, <3>3, <3>4
  <2> QED
    BY <2>2, <2>3 DEF Ground
<1>10. Ghosts'
  <2>1. \A s \in Procs \ {q} : s \notin current' /\ Resolving(s) => AtPeace(s)
    BY <1>1 DEF FirstFight, Ghosts
  <2> QED
    BY <1>2, <2>1, GhostsStay, StagesAreNot DEF Resolving
<1>11. Guests'
  <2>1. \A p \in Players : p # q => pc'[p] = pc[p] /\ mem'[p] = mem[p] /\ crew'[p] = crew[p]
    BY <1>2, ProcsSplit DEF Others
  <2> QED
    BY <1>1, <1>2, <1>3, <1>7, <2>1 DEF FirstFight, Guests
<1>12. Eve' /\ Once'
  BY <1>1, <1>2, <1>3 DEF FirstFight, Eve, Once
<1> QED
  BY <1>9, <1>10, <1>11, <1>12 DEF FirstFight

-----------------------------------------------------------------------------
(* The theorems.                                                           *)

LEMMA SameFirst ==
  ASSUME FirstFight, UNCHANGED <<row, current, world, fights, local>>
  PROVE  FirstFight'
<1> USE DEF world, local
<1>1. Ground'
  BY DEF FirstFight, Ground, Fits, Seated, Equipped, Awaited, Orders, Coming, After,
         SeatOf, Dropped, Resolving, Vacant
<1>2. Ghosts'
  BY DEF FirstFight, Ghosts, Resolving, AtPeace
<1>3. Eve' /\ Guests' /\ Once'
  BY DEF FirstFight, Eve, Guests, Once, Coming, Recruits, SeatOf, Dropped
<1> QED
  BY <1>1, <1>2, <1>3 DEF FirstFight

LEMMA CalmBefore ==
  ASSUME TypeOK, [Next]_vars, Calm'
  PROVE  Calm
<1> USE DEF TypeOK, Calm, budget, vars
<1>1. ASSUME NEW p \in Players, Request(p) PROVE Calm
  <2>1. CASE Arrive(p) \/ Look(p) \/ GiveUpJoin(p) \/ WaitOut(p) \/ Join(p) \/ RetryJoin(p)
    BY <2>1 DEF Arrive, Look, GiveUpJoin, WaitOut, Join, RetryJoin
  <2>2. CASE AutoEngage(p) \/ Initiate(p) \/ Reinforce(p) \/ EngageConflict(p)
    BY <2>2 DEF AutoEngage, Initiate, Reinforce, EngageConflict
  <2>3. CASE StartFight(p)
    BY <2>3 DEF StartFight
  <2>4. CASE (\E a \in Acts : Act(p, a)) \/ PayToll(p) \/ TooPoor(p)
    BY <2>4 DEF Act, PayToll, TooPoor
  <2>5. CASE StoreAction(p) \/ ActAndResolve(p) \/ ActConflict(p)
    BY <2>5 DEF StoreAction, ActAndResolve, ActConflict
  <2> QED
    BY <1>1, <2>1, <2>2, <2>3, <2>4, <2>5 DEF Request
<1>2. ASSUME NEW t \in Ticks, Tick(t) PROVE Calm
  BY <1>2 DEF Tick, ListDue, TickEnters, TickConflict, Abandon
<1>3. ASSUME NEW q \in Procs, Resolve(q) PROVE Calm
  BY <1>3 DEF Resolve, Flush, Depart, Drop, Leave, LeaveConflict, Capture, EjectConflict,
              FinalizeConflict, Convert
<1>4. ASSUME NEW q \in Procs, Crash(q) PROVE Calm
  BY <1>4 DEF Crash, Abandon
<1>5. CASE DeadlinePasses \/ MarkerExpires \/ UNCHANGED vars
  BY <1>5 DEF DeadlinePasses, MarkerExpires
<1> QED
  BY <1>1, <1>2, <1>3, <1>4, <1>5 DEF Next

LEMMA InitOrderly == Init => Orderly
<1> SUFFICES ASSUME Init PROVE FirstFight
  BY DEF Orderly
<1>1. \A q \in Procs : pc[q] = "idle" /\ ~Resolving(q)
  BY DEF Init, Resolving, Stages
<1>2. Guests /\ Ground /\ Ghosts
  BY <1>1, ProcsSplit DEF Init, Guests, Ground, Ghosts, Coming
<1>3. Eve /\ Once
  BY <1>1, ProcsSplit DEF Init, Eve, Once, Coming, Dropped
<1> QED
  BY <1>2, <1>3 DEF FirstFight

LEMMA NextOrderly ==
  TypeOK /\ TypeOK' /\ Fenced /\ CargoAccounted /\ Owned /\ Orderly /\ [Next]_vars => Orderly'
<1> SUFFICES ASSUME TypeOK, TypeOK', Fenced, CargoAccounted, Owned, Orderly, [Next]_vars, Calm'
             PROVE  FirstFight'
  BY DEF Orderly
<1>1. FirstFight
  BY CalmBefore DEF Orderly
<1>2. CASE DeadlinePasses \/ MarkerExpires \/ UNCHANGED vars
  BY <1>1, <1>2, SameFirst DEF DeadlinePasses, MarkerExpires, vars, column, budget
<1> QED
  BY <1>1, <1>2, RequestFirst, TickFirst, ResolveFirst, CrashFirst DEF Next

LEMMA OrderlyHolds ==
  ASSUME ~LockOutlived
  PROVE  Spec => []Orderly
  BY InitOrderly, NextOrderly, TypeCorrect, FenceHolds, OwnedHolds, InitCargo, NextCargo, PTL
     DEF Spec

(* In a sector's first fight a wreck is made once, its salvage is put in   *)
(* the sector once, and no escape pod is given fighters, however its       *)
(* resolutions overlap and whatever is killed, until one is overtaken or   *)
(* killed that leaves the tables and the column apart.                     *)
THEOREM WrecksAreOnce ==
  ASSUME ~LockOutlived
  PROVE  Spec => [](fights <= 1 => WreckedOnce)
<1>1. Orderly => (fights <= 1 => WreckedOnce)
  BY DEF Orderly, Calm, FirstFight, Once, WreckedOnce
<1> QED
  BY <1>1, OrderlyHolds, PTL

(* Under the same conditions, while nobody owns the round, the canonical   *)
(* tables agree with the column: those who fight are in the sector, and    *)
(* ships and garrison have fighters exactly if their entries have.         *)
THEOREM TablesDoAgree ==
  ASSUME ~LockOutlived
  PROVE  Spec => [](fights <= 1 => TablesAgree)
<1>1. CargoAccounted /\ Orderly => (fights <= 1 => TablesAgree)
  BY DEF Orderly, Calm, FirstFight, Ground, Vacant, Fits, Seated, Equipped, Living, TablesAgree,
         CargoAccounted, Untouched, Active
<1>2. Spec => []CargoAccounted
  BY InitCargo, NextCargo, TypeCorrect, FenceHolds, PTL DEF Spec
<1> QED
  BY <1>1, <1>2, OrderlyHolds, PTL

-----------------------------------------------------------------------------
(* The refinement.  Beside the owner of the round (Owned), the invariant   *)
(* behind it says of a request that what it is about to write it may write *)
(* (Entitled).                                                             *)

Entitled(p) ==
  /\ pc[p] \in {"pay", "act"} =>
       /\ choice[p] \in Acts
       /\ MaySubmit(mem[p].enc, p) /\ MayChoose(mem[p].enc, p, choice[p])
  /\ Coming(p) => crew[p][p] \in {"live", "down"}
  /\ pc[p] = "engage" =>
       /\ \A x \in Players \cup {Garrison} : crew[p][x] # "gone"
       /\ ~mem[p].enc.ended => crew[p][p] \in {"live", "down"}

AllEntitled == \A p \in Players : Entitled(p)

-----------------------------------------------------------------------------
(* A request may write what it is about to write.                          *)

LEMMA EntitledFrame ==
  ASSUME TypeOK, AllEntitled, NEW r \in Procs,
         \A q \in Procs \ {r} : /\ pc'[q] = pc[q] /\ mem'[q] = mem[q] /\ crew'[q] = crew[q]
                                /\ choice'[q] = choice[q],
         r \in Players => Entitled(r)'
  PROVE  AllEntitled'
<1>1. ASSUME NEW p \in Players, p # r PROVE Entitled(p)'
  BY <1>1, ProcsSplit DEF AllEntitled, Entitled, Coming
<1> QED
  BY <1>1 DEF AllEntitled

LEMMA FinishEntitled ==
  ASSUME TypeOK, AllEntitled, NEW r \in Procs, Finish(r)
  PROVE  AllEntitled'
<1>1. /\ pc' = [pc EXCEPT ![r] = "idle"] /\ mem' = [mem EXCEPT ![r] = Empty]
      /\ choice' = [choice EXCEPT ![r] = "none"] /\ crew' = [crew EXCEPT ![r] = Nobody]
  BY DEF Finish, Goto
<1>2. \A q \in Procs \ {r} : /\ pc'[q] = pc[q] /\ mem'[q] = mem[q] /\ crew'[q] = crew[q]
                             /\ choice'[q] = choice[q]
  BY <1>1 DEF TypeOK
<1>3. pc'[r] = "idle"
  BY <1>1 DEF TypeOK
<1>4. Entitled(r)'
  BY <1>3 DEF Entitled, Coming
<1> QED
  BY <1>2, <1>4, EntitledFrame

LEMMA RosterSeats ==
  ASSUME TypeOK
  PROVE  /\ \A x \in Players \cup {Garrison} : Roster[x] # "gone"
         /\ \A p \in Ships : Roster[p] \in {"live", "down"}
<1>1. \A x \in Players \cup {Garrison} : Roster[x] \in {"out", "live", "down"}
  BY DEF Roster, SeatOf
<1>2. \A p \in Ships \cap Players : Roster[p] \in {"live", "down"}
  BY DEF Roster, SeatOf
<1> QED
  BY <1>1, <1>2 DEF Ships, TypeOK

LEMMA RequestEntitled ==
  ASSUME TypeOK, AllEntitled, NEW p \in Players, Request(p)
  PROVE  AllEntitled'
<1> USE ProcsSplit
<1>0. p \in Procs /\ Entitled(p)
  BY DEF AllEntitled
<1>1. CASE Join(p) \/ StartFight(p) \/ Reinforce(p) \/ EngageConflict(p) \/ TooPoor(p)
             \/ StoreAction(p) \/ ActConflict(p)
  BY <1>0, <1>1, FinishEntitled
     DEF Join, StartFight, Reinforce, EngageConflict, TooPoor, StoreAction, ActConflict
<1>2. CASE Arrive(p)
  <2>1. /\ pc' = [pc EXCEPT ![p] = "arrived"] /\ mem' = mem /\ choice' = choice
        /\ crew' = [crew EXCEPT ![p][p] = SeatOf(p)]
    BY <1>2 DEF Arrive, Goto
  <2>2. pc'[p] = "arrived" /\ crew'[p][p] = SeatOf(p)
    BY <1>0, <2>1 DEF TypeOK, Rosters
  <2>3. Entitled(p)'
    BY <2>2 DEF Entitled, SeatOf
  <2> QED
    BY <1>0, <2>1, <2>3, EntitledFrame DEF TypeOK
<1>3. CASE Look(p) \/ WaitOut(p) \/ RetryJoin(p) \/ GiveUpJoin(p)
  <2>1. /\ Coming(p) /\ crew' = crew /\ choice' = choice
        /\ \E l \in {"join", "auto"} : pc' = [pc EXCEPT ![p] = l]
        /\ mem' = mem \/ mem' = [mem EXCEPT ![p] = row]
    <3>1. CASE Look(p) \/ GiveUpJoin(p)
      BY <3>1 DEF Look, GiveUpJoin, Goto, Load, Coming
    <3>2. CASE WaitOut(p) \/ RetryJoin(p)
      <4>1. /\ pc[p] = "join" /\ pc' = pc /\ crew' = crew /\ choice' = choice
            /\ mem' = [mem EXCEPT ![p] = row]
        BY <3>2 DEF WaitOut, RetryJoin, CanJoin, Load
      <4>2. pc' = [pc EXCEPT ![p] = "join"]
        BY <4>1 DEF TypeOK
      <4> QED
        BY <4>1, <4>2 DEF Coming
    <3> QED
      BY <1>3, <3>1, <3>2
  <2>2. pc'[p] \in {"join", "auto"} /\ crew'[p][p] \in {"live", "down"}
    BY <1>0, <2>1 DEF Entitled, TypeOK
  <2>3. Entitled(p)'
    BY <2>2 DEF Entitled
  <2> QED
    BY <1>0, <2>1, <2>3, EntitledFrame DEF TypeOK
<1>4. CASE AutoEngage(p) \/ Initiate(p)
  <2>1. CASE Finish(p)
    BY <1>0, <2>1, FinishEntitled
  <2>2. CASE ~Finish(p)
    <3>1. /\ pc' = [pc EXCEPT ![p] = "engage"] /\ mem' = [mem EXCEPT ![p] = row]
          /\ choice' = choice /\ crew' = [crew EXCEPT ![p] = Roster]
          /\ row.enc.ended \/ p \in Ships
      BY <1>4, <2>2 DEF AutoEngage, Initiate, Goto, Load, Active
    <3>2. pc'[p] = "engage" /\ mem'[p] = row /\ crew'[p] = Roster
      BY <1>0, <3>1 DEF TypeOK
    <3>3. Entitled(p)'
      BY <3>1, <3>2, RosterSeats DEF Entitled, Coming
    <3> QED
      BY <1>0, <3>1, <3>3, EntitledFrame DEF TypeOK
  <2> QED
    BY <2>1, <2>2
<1>5. ASSUME NEW a \in Acts, Act(p, a) PROVE AllEntitled'
  <2>1. /\ MaySubmit(row.enc, p) /\ MayChoose(row.enc, p, a)
        /\ \E l \in {"pay", "act"} : pc' = [pc EXCEPT ![p] = l]
        /\ mem' = [mem EXCEPT ![p] = row] /\ choice' = [choice EXCEPT ![p] = a]
        /\ crew' = crew
    BY <1>5 DEF Act, Goto, Load
  <2>2. pc'[p] \in {"pay", "act"} /\ mem'[p] = row /\ choice'[p] = a
    BY <1>0, <2>1 DEF TypeOK
  <2>3. MaySubmit(mem'[p].enc, p) /\ MayChoose(mem'[p].enc, p, choice'[p])
    BY <2>1, <2>2
  <2>4. Entitled(p)'
    BY <2>2, <2>3 DEF Entitled, Coming, MaySubmit, MayChoose, HasTarget
  <2> QED
    BY <1>0, <2>1, <2>4, EntitledFrame DEF TypeOK
<1>6. CASE PayToll(p)
  <2>1. /\ pc[p] = "pay" /\ pc' = [pc EXCEPT ![p] = "act"] /\ mem' = mem
        /\ choice' = choice /\ crew' = crew
    BY <1>6 DEF PayToll, Goto
  <2>2. pc'[p] = "act"
    BY <1>0, <2>1 DEF TypeOK
  <2>3. Entitled(p)'
    BY <1>0, <2>1, <2>2 DEF Entitled, Coming
  <2> QED
    BY <1>0, <2>1, <2>3, EntitledFrame DEF TypeOK
<1>7. CASE ActAndResolve(p)
  <2>1. PICK col : mem' = [mem EXCEPT ![p] = col]
    BY <1>7 DEF ActAndResolve
  <2>2. /\ pc' = [pc EXCEPT ![p] = "entered"] /\ choice' = [choice EXCEPT ![p] = "none"]
        /\ crew' = crew
    BY <1>7 DEF ActAndResolve, Goto
  <2>3. pc'[p] = "entered"
    BY <1>0, <2>2 DEF TypeOK
  <2>4. Entitled(p)'
    BY <2>3 DEF Entitled, Coming
  <2> QED
    BY <1>0, <2>1, <2>2, <2>4, EntitledFrame DEF TypeOK
<1> QED
  BY <1>1, <1>2, <1>3, <1>4, <1>5, <1>6, <1>7 DEF Request

LEMMA StepEntitled ==
  ASSUME TypeOK, AllEntitled, [Next]_vars
  PROVE  AllEntitled'
<1>1. ASSUME NEW t \in Ticks, Tick(t) PROVE AllEntitled'
  <2>1. t \in Procs /\ (t \in Players => FALSE)
    BY ProcsSplit, EncounterAssumption
  <2>2. CASE ListDue(t)
    <3>1. /\ pc' = [pc EXCEPT ![t] = "listed"] /\ mem' = [mem EXCEPT ![t] = row]
          /\ choice' = choice /\ crew' = crew
      BY <2>2 DEF ListDue, Goto, Load
    <3> QED
      BY <2>1, <3>1, EntitledFrame DEF TypeOK
  <2>3. CASE TickEnters(t)
    <3>1. PICK col : mem' = [mem EXCEPT ![t] = col]
      BY <2>3 DEF TickEnters
    <3>2. pc' = [pc EXCEPT ![t] = "entered"] /\ choice' = choice /\ crew' = crew
      BY <2>3 DEF TickEnters, Goto
    <3> QED
      BY <2>1, <3>1, <3>2, EntitledFrame DEF TypeOK
  <2>4. CASE TickConflict(t)
    BY <2>1, <2>4, FinishEntitled DEF TickConflict
  <2> QED
    BY <1>1, <2>2, <2>3, <2>4 DEF Tick
<1>2. ASSUME NEW q \in Procs, Resolve(q) PROVE AllEntitled'
  <2>1. CASE Finish(q)
    BY <2>1, FinishEntitled
  <2>2. CASE ~Finish(q)
    <3>1. /\ choice' = choice /\ crew' = crew /\ Resolving(q)
          /\ pc' = pc \/ \E l \in Stages : pc' = [pc EXCEPT ![q] = l]
      BY <1>2, <2>2 DEF Resolve, Flush, Depart, Drop, Leave, LeaveConflict, Capture,
         EjectConflict, FinalizeConflict, Convert, NextWreck, Goto, Resolving, Stages
    <3>2. \A r \in Procs \ {q} : mem'[r] = mem[r]
      BY <1>2, <2>2 DEF Resolve, Flush, Depart, Drop, Leave, LeaveConflict, Capture,
         EjectConflict, FinalizeConflict, Convert, TypeOK
    <3>3. pc'[q] \in Stages /\ \A r \in Procs \ {q} : pc'[r] = pc[r]
      BY <3>1 DEF TypeOK, Resolving
    <3>4. Entitled(q)'
      BY <3>3 DEF Entitled, Coming, Stages
    <3>5. \A r \in Procs \ {q} : crew'[r] = crew[r] /\ choice'[r] = choice[r]
      BY <3>1
    <3> QED
      BY <3>2, <3>3, <3>4, <3>5, EntitledFrame, SMTT(30)
  <2> QED
    BY <2>1, <2>2
<1>3. ASSUME NEW q \in Procs, Crash(q) PROVE AllEntitled'
  BY <1>3, FinishEntitled DEF Crash
<1>4. CASE DeadlinePasses \/ MarkerExpires \/ UNCHANGED vars
  <2>1. pc' = pc /\ mem' = mem /\ choice' = choice /\ crew' = crew
    BY <1>4 DEF DeadlinePasses, MarkerExpires, vars, local
  <2> QED
    BY <2>1 DEF AllEntitled, Entitled, Coming
<1> QED
  BY <1>1, <1>2, <1>3, <1>4, RequestEntitled DEF Next

-----------------------------------------------------------------------------
(* The two specifications share the rules of a round.                      *)

LEMMA SameCard == \A S : Abs!Cardinality(S) = Cardinality(S)
  BY DEF Abs!Cardinality, Cardinality

LEMMA SameRound == 
 ASSUME NEW e PROVE /\ Abs!Fled(e) = Fled(e) /\ Abs!Dead(e) = Dead(e) /\ (Abs!Over(e) <=> Over(e)) /\ Abs!TollRegistry(e) = TollRegistry(e)
<1>1. Abs!Garrison = Garrison
  BY DEF Abs!Garrison, Garrison
<1>2. Abs!Living(e) = Living(e)
  BY DEF Abs!Living, Living
<1>3. Abs!Fled(e) = Fled(e)
  BY <1>2 DEF Abs!Fled, Fled, Abs!HasHostile, HasHostile
<1>4. Abs!Debtors(e) = Debtors(e)
  BY <1>2 DEF Abs!Debtors, Debtors
<1>5. Abs!Attackers(e) = Attackers(e)
  BY <1>1, <1>2, <1>3, <1>4 DEF Abs!Attackers, Attackers, Abs!GarrisonAttacks, GarrisonAttacks
<1>6. Abs!Dead(e) = Dead(e) /\ Abs!Survivors(e) = Survivors(e)
  BY <1>1, <1>2, <1>3, <1>5 DEF Abs!Dead, Dead, Abs!Survivors, Survivors, Abs!Armed, Armed
<1>7. Abs!Losers(e) = Losers(e)
  BY <1>1, <1>3, <1>6 DEF Abs!Losers, Losers
<1>8. Abs!TollRegistry(e) = TollRegistry(e)
  BY DEF Abs!TollRegistry, TollRegistry
<1>9. Abs!Stalemate(e) <=> Stalemate(e)
  BY <1>2, <1>3, <1>5, <1>6, <1>7, SameCard DEF Abs!Stalemate, Stalemate
<1>10. Abs!Decided(e) <=> Decided(e)
  BY <1>3, <1>5, <1>6, <1>9, SameCard DEF Abs!Decided, Decided
<1>11. Abs!Standdown(e) <=> Standdown(e)
  BY <1>4, <1>8 DEF Abs!Standdown, Standdown, Abs!ActOf, ActOf
<1>12. Abs!Over(e) <=> Over(e)
  BY <1>4, <1>8, <1>9, <1>10, <1>11 DEF Abs!Over, Over, Abs!TollOutstanding, TollOutstanding
<1> QED
  BY <1>3, <1>6, <1>8, <1>12

LEMMA SameSettled ==
  ASSUME NEW e, NEW w
  PROVE  Abs!Settled(e, w) = Settled(e, w) /\ Abs!Wrecks(e) = Wrecks(e)
<1>1. Abs!Garrison = Garrison
  BY DEF Abs!Garrison, Garrison
<1>2. Abs!Over(e) = Over(e)
  BY SameRound DEF Over, Abs!Over
<1>3. [p \in Players |->
         IF p \in Abs!Fled(e) THEN "out"
         ELSE IF p \in Abs!Dead(e) \/ e.seat[p] = "down"
              THEN IF p \in w THEN "gone" ELSE "down"
              ELSE e.seat[p]]
      = [p \in Players |->
         IF p \in Fled(e) THEN "out"
         ELSE IF p \in Dead(e) \/ e.seat[p] = "down"
              THEN IF p \in w THEN "gone" ELSE "down"
              ELSE e.seat[p]]
  BY SameRound
<1>4. (e.guard /\ Abs!Garrison \notin Abs!Dead(e)) = (e.guard /\ Garrison \notin Dead(e))
  BY <1>1, SameRound
<1>5. Abs!Wrecks(e) = Wrecks(e)
  BY SameRound DEF Abs!Wrecks, Wrecks
<1> QED
  BY <1>2, <1>3, <1>4, <1>5, SameRound DEF Abs!Settled, Settled

LEMMA SameResolved ==
  ASSUME NEW e, NEW luck
  PROVE  Abs!Resolved(e, luck) = Resolved(e, luck)
<1>1. PICK s : s = Settled(e, Wrecks(e))
  OBVIOUS
<1>2. Abs!NextRound(s, luck) = NextRound(s, luck)
  BY DEF Abs!NextRound, NextRound
<1> QED
  BY <1>1, <1>2, SameSettled DEF Abs!Resolved, Resolved

\* What it takes to be a step of the atomic encounter.
LEMMA EnrolStep ==
  ASSUME NEW p \in Players, NEW seat \in {"live", "down"},
         ~AbstractEnc.ended, AbstractEnc.seat[p] = "out",
         AbstractEnc' = Enrolled(AbstractEnc, p, seat), due' = due
  PROVE  Abs!Next
<1>1. Abs!Enrol(p)
  BY DEF Abs!Enrol, Abs!Enrolled, Enrolled
<1> QED
  BY <1>1 DEF Abs!Next

LEMMA StartStep ==
  ASSUME NEW luck \in Outcomes, NEW roster \in Rosters, NEW a \in BOOLEAN,
         \A x \in Players \cup {Garrison} : roster[x] # "gone",
         AbstractEnc.ended, AbstractEnc' = Fresh(roster, a, luck), due' = FALSE
  PROVE  Abs!Next
<1>1. roster \in [Players \cup {Abs!Garrison} -> {"out", "live", "down"}]
  BY DEF Rosters, Seats, Garrison, Abs!Garrison
<1>2. AbstractEnc' = Abs!Fresh(roster, a, luck)
  BY DEF Fresh, Abs!Fresh, Garrison, Abs!Garrison
<1>3. Abs!Start
  BY <1>1, <1>2 DEF Abs!Start
<1> QED
  BY <1>3 DEF Abs!Next

LEMMA ChooseStep ==
  ASSUME NEW p \in Players, NEW a \in Acts,
         MaySubmit(AbstractEnc, p), MayChoose(AbstractEnc, p, a),
         AbstractEnc' = Submitted(AbstractEnc, p, a), due' = due
  PROVE  Abs!Next
<1>1. Abs!Choose(p, a)
  BY DEF Abs!Choose, Abs!MaySubmit, Abs!MayChoose, Abs!Submitted, MaySubmit, MayChoose,
     Submitted, Abs!HasTarget, HasTarget
<1>2. a \in Abs!Acts
  BY DEF Acts, Abs!Acts
<1> QED
  BY <1>1, <1>2 DEF Abs!Next

LEMMA ResolveStep ==
  ASSUME ~AbstractEnc.ended, RoundReady(AbstractEnc) \/ due, NEW luck \in Outcomes,
         AbstractEnc' = Resolved(AbstractEnc, luck), due' = FALSE
  PROVE  Abs!Next
<1>1. Abs!RoundReady(AbstractEnc) \/ due
  BY DEF Abs!RoundReady, RoundReady, Abs!Living, Living
<1>2. AbstractEnc' = Abs!Resolved(AbstractEnc, luck)
  BY SameResolved
<1>3. Abs!Resolve
  BY <1>1, <1>2 DEF Abs!Resolve
<1> QED
  BY <1>3 DEF Abs!Next

LEMMA TearStep ==
  ASSUME ~AbstractEnc.ended, ~Over(AbstractEnc), RoundReady(AbstractEnc) \/ due,
         NEW w \in SUBSET Wrecks(AbstractEnc),
         AbstractEnc' = Settled(AbstractEnc, w), due' = due
  PROVE  Abs!Next
<1>1. Abs!RoundReady(AbstractEnc) \/ due
  BY DEF Abs!RoundReady, RoundReady, Abs!Living, Living
<1>2. /\ AbstractEnc' = Abs!Settled(AbstractEnc, w) /\ ~Abs!Over(AbstractEnc)
      /\ w \in SUBSET Abs!Wrecks(AbstractEnc)
  BY SameRound, SameSettled
<1>3. Abs!Tear
  BY <1>1, <1>2 DEF Abs!Tear
<1> QED
  BY <1>3 DEF Abs!Next

LEMMA LapseStep ==
  ASSUME ~AbstractEnc.ended, AbstractEnc' = AbstractEnc, due' = TRUE
  PROVE  Abs!Next
<1>1. Abs!Lapse
  BY DEF Abs!Lapse
<1> QED
  BY <1>1 DEF Abs!Next

-----------------------------------------------------------------------------
(* The encounter that the column and the owner of the round stand for.     *)

\* A round settled whole is the same whichever wrecks beside its own it counts;
\* and seen from outside, whichever of its own it has handled.
LEMMA SettledWhole ==
  ASSUME NEW e \in Encounter, NEW w, Wrecks(e) \subseteq w
  PROVE  Settled(e, w) = Settled(e, Wrecks(e))
<1>1. \A p \in Players \ Fled(e) : p \in Dead(e) \/ e.seat[p] = "down" => p \in Wrecks(e)
  BY DEF Wrecks
<1>2. [p \in Players |->
         IF p \in Fled(e) THEN "out"
         ELSE IF p \in Dead(e) \/ e.seat[p] = "down"
              THEN IF p \in w THEN "gone" ELSE "down"
              ELSE e.seat[p]]
      = [p \in Players |->
         IF p \in Fled(e) THEN "out"
         ELSE IF p \in Dead(e) \/ e.seat[p] = "down"
              THEN IF p \in Wrecks(e) THEN "gone" ELSE "down"
              ELSE e.seat[p]]
  BY <1>1
<1> QED
  BY <1>2 DEF Settled

\* And settled in part, whichever others it counts.
LEMMA SettledPart ==
  ASSUME NEW e \in Encounter, NEW w
  PROVE  Settled(e, w) = Settled(e, w \cap Wrecks(e))
<1>1. \A p \in Players \ Fled(e) : p \in Dead(e) \/ e.seat[p] = "down" => p \in Wrecks(e)
  BY DEF Wrecks
<1>2. [p \in Players |->
         IF p \in Fled(e) THEN "out"
         ELSE IF p \in Dead(e) \/ e.seat[p] = "down"
              THEN IF p \in w THEN "gone" ELSE "down"
              ELSE e.seat[p]]
      = [p \in Players |->
         IF p \in Fled(e) THEN "out"
         ELSE IF p \in Dead(e) \/ e.seat[p] = "down"
              THEN IF p \in w \cap Wrecks(e) THEN "gone" ELSE "down"
              ELSE e.seat[p]]
  BY <1>1
<1> QED
  BY <1>2 DEF Settled

LEMMA SettledCleared ==
  ASSUME NEW e \in Encounter, NEW w
  PROVE  Cleared(Settled(e, w)) = Settled(e, Wrecks(e))
<1>1. PICK s : s = Settled(e, w)
  OBVIOUS
<1>2. PICK c : c = Settled(e, Wrecks(e))
  OBVIOUS
<1>3. \A p \in Players :
        c.seat[p] = IF s.seat[p] = "down" THEN "gone" ELSE s.seat[p]
  BY <1>1, <1>2 DEF Settled, Wrecks, Encounter
<1>4. s \in Encounter /\ c \in Encounter
  BY <1>1, <1>2, SettledType
<1>5. c.seat = [p \in Players |-> IF s.seat[p] = "down" THEN "gone" ELSE s.seat[p]]
  BY <1>3, <1>4 DEF Encounter
<1>6. /\ c.round = s.round /\ c.ended = s.ended /\ c.joined = s.joined
      /\ c.pending = s.pending /\ c.guard = s.guard /\ c.tolls = s.tolls
      /\ c.paid = s.paid /\ c.luck = s.luck /\ c.log = s.log
  BY <1>1, <1>2 DEF Settled, Encounter
<1>7. Cleared(s) = c
  BY <1>4, <1>5, <1>6 DEF Cleared, Encounter
<1> QED
  BY <1>1, <1>2, <1>7

LEMMA ClearedEnded ==
  ASSUME NEW e \in Encounter
  PROVE  Cleared(e).ended = e.ended
  BY DEF Cleared, Encounter

\* AbstractEnc of a holder, the memories and the column's encounter.
View(holder, m, e) ==
  IF \E q \in holder : ~Over(m[q].enc) THEN m[CHOOSE q \in holder : TRUE].enc
  ELSE IF e.ended THEN Cleared(e)
  ELSE e

LEMMA ViewNone ==
  ASSUME NEW m, NEW e
  PROVE  View({}, m, e) = IF e.ended THEN Cleared(e) ELSE e
  BY DEF View

LEMMA ViewOne ==
  ASSUME NEW m, NEW e, NEW q
  PROVE  View({q}, m, e) = IF ~Over(m[q].enc) THEN m[q].enc
                           ELSE IF e.ended THEN Cleared(e) ELSE e
<1>1. (CHOOSE r \in {q} : TRUE) = q
  OBVIOUS
<1> QED
  BY <1>1 DEF View

LEMMA Views ==
  /\ AbstractEnc = View(Holder, mem, row.enc)
  /\ AbstractEnc' = View(Holder', mem', row'.enc)
  BY DEF AbstractEnc, View

\* Nobody owns the round.
LEMMA FreeEnc ==
  /\ Vacant => AbstractEnc = IF row.enc.ended THEN Cleared(row.enc) ELSE row.enc
  /\ current' = {} =>
       AbstractEnc' = IF row'.enc.ended THEN Cleared(row'.enc) ELSE row'.enc
<1>1. Vacant => Holder = {}
  BY DEF Vacant, Holder
<1>2. current' = {} => Holder' = {}
  BY DEF Holder
<1> QED
  BY <1>1, <1>2, Views, ViewNone

\* Process q owns it.
LEMMA OwnedEnc ==
  ASSUME TypeOK, Fenced, RoundOwned, NEW q \in current, Resolving(q)
  PROVE  /\ Holder = {q}
         /\ AbstractEnc = IF row.enc.ended THEN Settled(mem[q].enc, Wrecks(mem[q].enc))
                          ELSE mem[q].enc
         /\ row.enc.ended => Over(mem[q].enc)
         /\ ~mem[q].enc.ended
<1>1. Holder = {q}
  BY DEF RoundOwned, Holder, Yields, Resolving, Stages
<1>2. q \in Procs /\ mem[q].enc \in Encounter
  BY DEF TypeOK, Column
<1>3. ~mem[q].enc.ended
  BY <1>2 DEF Fenced, Unfinished, Resolving
<1>4. row.enc = mem[q].enc \/ \E w \in SUBSET Players : row.enc = Settled(mem[q].enc, w)
  BY DEF Fenced, Holds, Resolving, Stages
<1>5. AbstractEnc = IF ~Over(mem[q].enc) THEN mem[q].enc
                    ELSE IF row.enc.ended THEN Cleared(row.enc) ELSE row.enc
  BY <1>1, Views, ViewOne
<1>6. CASE row.enc = mem[q].enc
  BY <1>1, <1>3, <1>5, <1>6
<1>7. ASSUME NEW w \in SUBSET Players, row.enc = Settled(mem[q].enc, w)
      PROVE  /\ AbstractEnc = IF row.enc.ended THEN Settled(mem[q].enc, Wrecks(mem[q].enc))
                              ELSE mem[q].enc
             /\ row.enc.ended => Over(mem[q].enc)
  <2>1. row.enc.ended <=> Over(mem[q].enc)
    BY <1>2, <1>7, SettledFields
  <2>2. Cleared(row.enc) = Settled(mem[q].enc, Wrecks(mem[q].enc))
    BY <1>2, <1>7, SettledCleared
  <2> QED
    BY <1>5, <2>1, <2>2
<1> QED
  BY <1>1, <1>3, <1>4, <1>6, <1>7

\* A fight that is over is over, whoever still owns its last round.
LEMMA EndedEnc ==
  ASSUME TypeOK, Fenced, RoundOwned
  PROVE  AbstractEnc.ended <=> row.enc.ended
<1>1. row.enc \in Encounter
  BY DEF TypeOK, Column
<1>2. CASE Vacant
  BY <1>1, <1>2, FreeEnc, ClearedEnded
<1>3. ASSUME NEW q \in current, Resolving(q) PROVE AbstractEnc.ended <=> row.enc.ended
  <2>1. mem[q].enc \in Encounter
    BY DEF TypeOK, Column
  <2> QED
    BY <1>3, <2>1, OwnedEnc, SettledFields
<1> QED
  BY <1>2, <1>3 DEF Vacant

\* A step that does not touch the column, nor the owner's encounter.
LEMMA SameEnc ==
  ASSUME row'.enc = row.enc, Holder' = Holder, RoundOwned,
         \A q \in Holder : mem'[q].enc = mem[q].enc
  PROVE  AbstractEnc' = AbstractEnc
<1>1. CASE Holder = {}
  BY <1>1, Views, ViewNone
<1>2. ASSUME NEW q \in Holder PROVE AbstractEnc' = AbstractEnc
  <2>1. Holder = {q}
    BY DEF RoundOwned, Holder, Yields, Resolving, Stages
  <2> QED
    BY <2>1, Views, ViewOne
<1> QED
  BY <1>1, <1>2

-----------------------------------------------------------------------------
(* Every step is a step of the atomic encounter, or none.                  *)

Simulates == UNCHANGED Abs!avars \/ Abs!Next

\* Steps that only look, or only work on the world outside the column.
LEMMA LookingStutters ==
  ASSUME TypeOK, RoundOwned, NEW r \in Procs, Aside(r)
  PROVE  UNCHANGED Abs!avars
<1>1. \A q \in Procs : q \in Holder' <=> q \in Holder
  BY AsideSame DEF Holder, Aside
<1>2. Holder \subseteq Procs /\ Holder' \subseteq Procs
  BY DEF Holder, Aside, TypeOK
<1>3. \A q \in Holder : mem'[q] = mem[q]
  BY <1>2, AsideSame DEF Holder, Aside
<1>4. row' = row /\ due' = due
  BY DEF Aside
<1>5. Holder' = Holder
  BY <1>1, <1>2
<1> QED
  BY <1>3, <1>4, <1>5, SameEnc DEF Abs!avars

LEMMA WorkingStutters ==
  ASSUME TypeOK, Owned, NEW q \in Procs, Working(q)
  PROVE  UNCHANGED Abs!avars
<1>1. /\ Others(q) /\ Resolving(q) /\ row' = row /\ current' = current /\ due' = due
      /\ q \in current => Resolving(q)' /\ mem'[q].enc = mem[q].enc
  BY WorkingSteps
<1>2. \A r \in current : (Resolving(r)' <=> Resolving(r)) /\ mem'[r].enc = mem[r].enc
  BY <1>1 DEF Others, Resolving, TypeOK
<1>3. Holder' = Holder
  BY <1>1, <1>2 DEF Holder
<1>4. \A r \in Holder : mem'[r].enc = mem[r].enc
  BY <1>2 DEF Holder
<1> QED
  BY <1>1, <1>3, <1>4, SameEnc DEF Abs!avars, Owned

LEMMA JoinSimulates ==
  ASSUME TypeOK, Fenced, RoundOwned, AllEntitled, NEW p \in Players, Join(p) \/ Reinforce(p)
  PROVE  Simulates
<1>1. CASE Join(p)
  <2>1. /\ Vacant /\ ~row.enc.ended /\ row.enc.seat[p] = "out"
        /\ current' = {} /\ due' = due
        /\ row'.enc = Enrolled(row.enc, p, crew[p][p]) /\ ~row'.enc.ended
    BY <1>1, JoinWrites
  <2>2. crew[p][p] \in {"live", "down"}
    BY <1>1 DEF AllEntitled, Entitled, Coming, Join, CanJoin
  <2>3. AbstractEnc = row.enc /\ AbstractEnc' = row'.enc
    BY <2>1, FreeEnc
  <2> QED
    BY <2>1, <2>2, <2>3, EnrolStep DEF Simulates
<1>2. CASE Reinforce(p)
  <2>1. /\ Vacant /\ ~row.enc.ended /\ ~mem[p].enc.ended /\ pc[p] = "engage"
        /\ current' = {} /\ due' = due /\ ~row'.enc.ended
        /\ \/ row.enc.seat[p] = "out" /\ row'.enc = Enrolled(row.enc, p, crew[p][p])
           \/ row'.enc = row.enc
    BY <1>2, ReinforceWrites
  <2>2. crew[p][p] \in {"live", "down"}
    BY <2>1 DEF AllEntitled, Entitled
  <2>3. AbstractEnc = row.enc /\ AbstractEnc' = row'.enc
    BY <2>1, FreeEnc
  <2>4. CASE row.enc.seat[p] = "out" /\ row'.enc = Enrolled(row.enc, p, crew[p][p])
    BY <2>1, <2>2, <2>3, <2>4, EnrolStep DEF Simulates
  <2>5. CASE row'.enc = row.enc
    BY <2>1, <2>3, <2>5 DEF Simulates, Abs!avars
  <2> QED
    BY <2>1, <2>4, <2>5
<1> QED
  BY <1>1, <1>2

LEMMA StartSimulates ==
  ASSUME TypeOK, Fenced, RoundOwned, AllEntitled, NEW p \in Players, StartFight(p)
  PROVE  Simulates
<1>1. /\ pc[p] = "engage" /\ row.enc.ended /\ current' = {} /\ due' = FALSE
  BY StartWrites
<1>2. PICK luck \in Outcomes : row'.enc = Fresh(crew[p], auto[p], luck)
  BY StartWrites
<1>3. AbstractEnc.ended
  BY <1>1, EndedEnc
<1>4. crew[p] \in Rosters /\ auto[p] \in BOOLEAN
  BY ProcsSplit DEF TypeOK
<1>5. \A x \in Players \cup {Garrison} : crew[p][x] # "gone"
  BY <1>1 DEF AllEntitled, Entitled
<1>6. ~row'.enc.ended
  BY <1>2 DEF Fresh
<1>7. AbstractEnc' = row'.enc
  BY <1>1, <1>6, FreeEnc
<1> QED
  BY <1>1, <1>2, <1>3, <1>4, <1>5, <1>7, StartStep DEF Simulates

LEMMA SubmitSimulates ==
  ASSUME TypeOK, TypeOK', Fenced, Fenced', RoundOwned, RoundOwned', AllEntitled,
         NEW p \in Players, StoreAction(p) \/ ActAndResolve(p)
  PROVE  Simulates
<1>1. /\ Vacant /\ mem[p] = row /\ ~row.enc.ended /\ pc[p] = "act"
      /\ due' = due /\ ~row'.enc.ended
      /\ row'.enc = Submitted(row.enc, p, choice[p])
  BY StoreWrites, LastActionWrites
<1>2. choice[p] \in Acts /\ MaySubmit(row.enc, p) /\ MayChoose(row.enc, p, choice[p])
  BY <1>1 DEF AllEntitled, Entitled
<1>3. AbstractEnc = row.enc
  BY <1>1, FreeEnc
<1>4. AbstractEnc' = row'.enc
  <2>1. CASE StoreAction(p)
    BY <1>1, <2>1, StoreWrites, FreeEnc
  <2>2. CASE ActAndResolve(p)
    <3>1. current' = {p} /\ pc'[p] = "entered" /\ mem'[p].enc = row'.enc
      BY <2>2, LastActionWrites
    <3>2. Holder' = {p}
      BY <3>1 DEF Holder, Resolving, Stages
    <3>3. AbstractEnc' = View({p}, mem', row'.enc)
      BY <3>2, Views
    <3>4. View({p}, mem', row'.enc) = IF ~Over(row'.enc) THEN row'.enc
                                      ELSE IF row'.enc.ended THEN Cleared(row'.enc)
                                      ELSE row'.enc
      BY <3>1, ViewOne, Zenon
    <3> QED
      BY <1>1, <3>3, <3>4
  <2> QED
    BY <2>1, <2>2
<1> QED
  BY <1>1, <1>2, <1>3, <1>4, ChooseStep DEF Simulates

\* An owner is gone, and the column is what it was: the round was torn, or not
\* begun, or its outcome shown already.
LEMMA TearSimulates ==
  ASSUME TypeOK, Fenced, Owned, NEW q \in current, Resolving(q), due' = due,
         AbstractEnc' = IF row.enc.ended THEN Cleared(row.enc) ELSE row.enc
  PROVE  Simulates
<1>1. PICK e : e = mem[q].enc
  OBVIOUS
<1>2. /\ AbstractEnc = IF row.enc.ended THEN Settled(e, Wrecks(e)) ELSE e
      /\ row.enc.ended => Over(e)
      /\ ~e.ended
  BY <1>1, OwnedEnc DEF Owned
<1>3. e \in Encounter /\ (row.enc = e \/ \E w \in SUBSET Players : row.enc = Settled(e, w))
  BY <1>1, HeldEither
<1>4. CASE row.enc = e
  <2>1. AbstractEnc' = AbstractEnc
    BY <1>2, <1>4
  <2> QED
    BY <2>1 DEF Simulates, Abs!avars
<1>5. ASSUME NEW w \in SUBSET Players, row.enc = Settled(e, w) PROVE Simulates
  <2>1. row.enc.ended = Over(e) /\ Cleared(row.enc) = Settled(e, Wrecks(e))
    BY <1>3, <1>5, SettledFields, SettledCleared
  <2>2. CASE Over(e)
    <3>1. AbstractEnc' = AbstractEnc
      BY <1>2, <2>1, <2>2
    <3> QED
      BY <3>1 DEF Simulates, Abs!avars
  <2>3. CASE ~Over(e)
    <3>1. AbstractEnc = e /\ AbstractEnc' = Settled(e, w \cap Wrecks(e))
      BY <1>2, <1>3, <1>5, <2>1, <2>3, SettledPart
    <3>2. RoundReady(e) \/ due
      BY <1>1, <2>1, <2>3 DEF Owned, Called
    <3>3. w \cap Wrecks(e) \in SUBSET Wrecks(e)
      OBVIOUS
    <3> QED
      BY <1>2, <2>3, <3>1, <3>2, <3>3, TearStep DEF Simulates
  <2> QED
    BY <2>2, <2>3
<1> QED
  BY <1>3, <1>4, <1>5

\* A tick enters, and overtakes the owner if there is one.
LEMMA TickSimulates ==
  ASSUME TypeOK, Fenced, Owned, NEW t \in Ticks, TickEnters(t)
  PROVE  Simulates
<1>1. /\ ~row.enc.ended /\ current' = {t} /\ due' = due
      /\ pc'[t] = "entered" /\ mem'[t].enc = row.enc /\ row'.enc = row.enc
  BY TickWrites
<1>2. Holder' = {t}
  BY <1>1 DEF Holder, Resolving, Stages
<1>3. AbstractEnc' = row.enc
  BY <1>1, <1>2, Views, ViewOne
<1>4. CASE Vacant
  <2>1. AbstractEnc = row.enc
    BY <1>1, <1>4, FreeEnc
  <2> QED
    BY <1>1, <1>3, <2>1 DEF Simulates, Abs!avars
<1>5. ASSUME NEW q \in current, Resolving(q) PROVE Simulates
  BY <1>1, <1>3, <1>5, TearSimulates
<1> QED
  BY <1>4, <1>5 DEF Vacant

\* The owner, or another, is killed.
LEMMA CrashSimulates ==
  ASSUME TypeOK, Fenced, Owned, NEW q \in Procs, Crash(q)
  PROVE  Simulates
<1>1. /\ row' = row /\ due' = due /\ current' = current \ {q} /\ Others(q)
      /\ pc'[q] = "idle"
  BY FinishOthers DEF Crash
<1>2. \A s \in current' : /\ s \in current /\ s # q /\ (Resolving(s)' <=> Resolving(s))
                          /\ mem'[s] = mem[s]
  BY <1>1 DEF Others, TypeOK, Resolving
<1>3. Holder' = Holder \ {q}
  BY <1>1, <1>2 DEF Holder
<1>4. CASE q \in current /\ Resolving(q)
  <2>1. Holder' = {}
    BY <1>3, <1>4, OwnedEnc DEF Owned
  <2>2. AbstractEnc' = IF row.enc.ended THEN Cleared(row.enc) ELSE row.enc
    BY <1>1, <2>1, Views, ViewNone
  <2> QED
    BY <1>1, <1>4, <2>2, TearSimulates
<1>5. CASE ~(q \in current /\ Resolving(q))
  <2>1. Holder' = Holder /\ \A s \in Holder : mem'[s].enc = mem[s].enc
    BY <1>1, <1>2, <1>3, <1>5 DEF Holder
  <2> QED
    BY <1>1, <2>1, SameEnc DEF Simulates, Abs!avars, Owned
<1> QED
  BY <1>4, <1>5

\* The round takes effect with the first write that ends the fight.
LEMMA CaptureSimulates ==
  ASSUME TypeOK, Fenced, Owned, NEW q \in Procs, NEW p \in Players, Capture(q, p)
  PROVE  Simulates
<1>1. /\ q \in current /\ Resolving(q) /\ Resolving(q)' /\ current' = {q}
      /\ row'.enc = Settled(mem[q].enc, done[q]) /\ mem[q].enc \in Encounter
      /\ mem'[q].enc = mem[q].enc /\ (due' <=> due /\ ~Over(mem[q].enc))
  BY CaptureWrites
<1>2. PICK e : e = mem[q].enc
  OBVIOUS
<1>3. /\ AbstractEnc = IF row.enc.ended THEN Settled(e, Wrecks(e)) ELSE e
      /\ row.enc.ended => Over(e)
      /\ ~e.ended
  BY <1>1, <1>2, OwnedEnc DEF Owned
<1>4. row'.enc.ended <=> Over(e)
  BY <1>1, <1>2, SettledFields
<1>5. Holder' = {q}
  BY <1>1 DEF Holder
<1>6. AbstractEnc' = IF ~Over(e) THEN e ELSE Cleared(row'.enc)
  BY <1>1, <1>2, <1>4, <1>5, Views, ViewOne
<1>7. Cleared(row'.enc) = Settled(e, Wrecks(e))
  BY <1>1, <1>2, SettledCleared
<1>8. due \in BOOLEAN /\ due' \in BOOLEAN
  BY DEF TypeOK, Capture
<1>9. CASE ~Over(e)
  <2>1. AbstractEnc' = AbstractEnc /\ due' = due
    BY <1>1, <1>2, <1>3, <1>6, <1>8, <1>9
  <2> QED
    BY <2>1 DEF Simulates, Abs!avars
<1>10. CASE Over(e) /\ row.enc.ended
  <2>1. ~due
    BY <1>10 DEF Owned, Called
  <2>2. AbstractEnc' = AbstractEnc /\ due' = due
    BY <1>1, <1>2, <1>3, <1>6, <1>7, <1>8, <1>10, <2>1
  <2> QED
    BY <2>2 DEF Simulates, Abs!avars
<1>11. CASE Over(e) /\ ~row.enc.ended
  <2>1. AbstractEnc = e /\ AbstractEnc' = Settled(e, Wrecks(e)) /\ due' = FALSE
    BY <1>1, <1>2, <1>3, <1>6, <1>7, <1>8, <1>11
  <2>2. RoundReady(e) \/ due
    BY <1>1, <1>2, <1>11 DEF Owned, Called
  <2>3. PICK luck \in Outcomes : TRUE
    BY EncounterAssumption
  <2>4. Resolved(e, luck) = Settled(e, Wrecks(e))
    BY <1>1, <1>2, <1>11, SettledFields DEF Resolved, NextRound
  <2> QED
    BY <1>3, <2>1, <2>2, <2>4, ResolveStep DEF Simulates
<1> QED
  BY <1>9, <1>10, <1>11

\* Or, at the latest, with the last one.
LEMMA LeaveSimulates ==
  ASSUME TypeOK, Fenced, Owned, NEW q \in Procs, Leave(q)
  PROVE  Simulates
<1>1. /\ q \in current /\ pc[q] = "leaving" /\ Resolving(q)
      /\ current' = {} /\ due' = FALSE /\ mem[q].enc \in Encounter
  BY LeaveWrites
<1>2. PICK luck \in Outcomes : row'.enc = NextRound(Settled(mem[q].enc, done[q]), luck)
  BY LeaveWrites
<1>3. PICK e : e = mem[q].enc
  OBVIOUS
<1>4. /\ AbstractEnc = IF row.enc.ended THEN Settled(e, Wrecks(e)) ELSE e
      /\ row.enc.ended => Over(e)
      /\ ~e.ended
  BY <1>1, <1>3, OwnedEnc DEF Owned
<1>5. PICK s : s = Settled(e, done[q])
  OBVIOUS
<1>6. /\ s.ended <=> Over(e)
      /\ s \in Encounter
  BY <1>1, <1>3, <1>5, SettledFields, SettledType
<1>7. AbstractEnc' = IF row'.enc.ended THEN Cleared(row'.enc) ELSE row'.enc
  BY <1>1, FreeEnc
<1>8. CASE ~Over(e)
  <2>1. s = Settled(e, Wrecks(e))
    BY <1>1, <1>3, <1>5, SettledWhole DEF Owned, Cleaning, CleansUp
  <2>2. row'.enc = Resolved(e, luck) /\ ~row'.enc.ended
    BY <1>2, <1>3, <1>5, <1>6, <1>8, <2>1 DEF Resolved, NextRound, Encounter
  <2>3. AbstractEnc = e /\ AbstractEnc' = Resolved(e, luck)
    BY <1>4, <1>7, <1>8, <2>2
  <2>4. RoundReady(e) \/ due
    BY <1>1, <1>3, <1>4, <1>8 DEF Owned, Called
  <2> QED
    BY <1>1, <1>4, <2>3, <2>4, ResolveStep DEF Simulates
<1>9. CASE Over(e)
  <2>1. row'.enc = s /\ row'.enc.ended
    BY <1>2, <1>3, <1>5, <1>6, <1>9 DEF NextRound
  <2>2. AbstractEnc' = Settled(e, Wrecks(e))
    BY <1>1, <1>3, <1>5, <1>7, <2>1, SettledCleared
  <2>3. CASE row.enc.ended
    <3>1. ~due
      BY <2>3 DEF Owned, Called
    <3>2. AbstractEnc' = AbstractEnc /\ due' = due
      BY <1>1, <1>4, <2>2, <2>3, <3>1 DEF TypeOK
    <3> QED
      BY <3>2 DEF Simulates, Abs!avars
  <2>4. CASE ~row.enc.ended
    <3>1. RoundReady(e) \/ due
      BY <1>1, <1>3, <2>4 DEF Owned, Called
    <3>2. Resolved(e, luck) = Settled(e, Wrecks(e))
      BY <1>1, <1>3, <1>9, SettledFields DEF Resolved, NextRound
    <3> QED
      BY <1>1, <1>4, <2>2, <2>4, <3>1, <3>2, ResolveStep DEF Simulates
  <2> QED
    BY <2>3, <2>4
<1> QED
  BY <1>8, <1>9

LEMMA StepSimulates ==
  ASSUME TypeOK, TypeOK', Fenced, Fenced', Owned, Owned', AllEntitled,
         ~LockOutlived, [Next]_vars
  PROVE  Simulates
<1> USE ProcsSplit
<1>1. ASSUME NEW p \in Players, Request(p) PROVE Simulates
  <2>1. CASE Looking(p)
    BY <2>1, LookingAside, LookingStutters DEF Owned, Simulates
  <2>2. CASE Join(p) \/ Reinforce(p)
    BY <2>2, JoinSimulates DEF Owned
  <2>3. CASE StartFight(p)
    BY <2>3, StartSimulates DEF Owned
  <2>4. CASE StoreAction(p) \/ ActAndResolve(p)
    BY <2>4, SubmitSimulates DEF Owned
  <2> QED
    BY <1>1, <2>1, <2>2, <2>3, <2>4 DEF Request, Looking
<1>2. ASSUME NEW t \in Ticks, Tick(t) PROVE Simulates
  <2>1. CASE ListDue(t) \/ TickConflict(t)
    BY <2>1, TickAside, LookingStutters DEF Owned, Simulates
  <2>2. CASE TickEnters(t)
    BY <2>2, TickSimulates
  <2> QED
    BY <1>2, <2>1, <2>2 DEF Tick
<1>3. ASSUME NEW q \in Procs, Resolve(q) PROVE Simulates
  <2>1. CASE Working(q)
    BY <2>1, WorkingStutters DEF Simulates
  <2>2. CASE Leave(q)
    BY <2>2, LeaveSimulates
  <2>3. ASSUME NEW p \in Players, Capture(q, p) PROVE Simulates
    BY <2>3, CaptureSimulates
  <2> QED
    BY <1>3, <2>1, <2>2, <2>3 DEF Resolve, Working
<1>4. ASSUME NEW q \in Procs, Crash(q) PROVE Simulates
  BY <1>4, CrashSimulates
<1>5. ASSUME row' = row, current' = current, pc' = pc, mem' = mem
      PROVE  AbstractEnc' = AbstractEnc
  BY <1>5, SameEnc DEF Holder, Resolving, Owned
<1>6. CASE DeadlinePasses
  <2>1. row' = row /\ current' = current /\ pc' = pc /\ mem' = mem /\ due' = TRUE
        /\ ~row.enc.ended
    BY <1>6 DEF DeadlinePasses, local, Active
  <2> QED
    BY <1>5, <2>1, EndedEnc, LapseStep DEF Simulates, Owned
<1>7. CASE MarkerExpires \/ UNCHANGED vars
  <2>1. row' = row /\ current' = current /\ pc' = pc /\ mem' = mem /\ due' = due
    BY <1>7 DEF MarkerExpires, vars, column, local
  <2> QED
    BY <1>5, <2>1 DEF Simulates, Abs!avars
<1> QED
  BY <1>1, <1>2, <1>3, <1>4, <1>6, <1>7 DEF Next

LEMMA InitSimulates ==
  ASSUME Init
  PROVE  Abs!Init /\ AllEntitled
<1>1. /\ row = Empty /\ current = {} /\ due = FALSE /\ stale = FALSE
      /\ \A q \in Procs : pc[q] = "idle"
  BY DEF Init
<1>2. AllEntitled
  BY <1>1, ProcsSplit DEF AllEntitled, Entitled, Coming
<1>3. Vacant /\ row.enc = NoEncounter /\ row.enc.ended
  BY <1>1 DEF Vacant, Empty, NoEncounter
<1>4. Cleared(NoEncounter) = NoEncounter
  <2>1. PICK e : e = NoEncounter
    OBVIOUS
  <2>2. e \in Encounter /\ \A p \in Players : e.seat[p] = "out"
    BY <2>1, EmptyType DEF Empty, Column, NoEncounter
  <2>3. e.seat = [p \in Players |-> IF e.seat[p] = "down" THEN "gone" ELSE e.seat[p]]
    BY <2>2 DEF Encounter
  <2>4. Cleared(e) = e
    BY <2>2, <2>3 DEF Cleared, Encounter
  <2> QED
    BY <2>1, <2>4
<1>5. AbstractEnc = NoEncounter
  BY <1>3, <1>4, FreeEnc
<1>6. Abs!Init
  BY <1>1, <1>5 DEF Abs!Init, Abs!NoEncounter, NoEncounter
<1> QED
  BY <1>2, <1>6

\* The handlers and ticks that race on the column (persistCombatState's fence,
\* resolving_started_at, joined_round) look like operations on one encounter that
\* happen at one instant each: no join, action or round is lost, or resolved from
\* anything but the actions accepted for it, for any number of fights.  A resolution
\* that is overtaken by a tick, or killed, shows nothing, all of its outcome, or,
\* where its ejections were written, a torn round.  Assumed: the mark outlives the
\* resolution that set it.
THEOREM HandlersAreAtomic ==
  ASSUME ~LockOutlived
  PROVE  Spec => ImplementsAtomic
<1> DEFINE Known == TypeOK /\ Fenced /\ Owned
<1>1. Spec => []Known
  BY TypeCorrect, FenceHolds, OwnedHolds, PTL
<1>2. Init => AllEntitled /\ Abs!Init
  BY InitSimulates
<1>3. Known /\ Known' /\ AllEntitled /\ [Next]_vars => AllEntitled' /\ Simulates
  BY StepEntitled, StepSimulates
<1> HIDE DEF Known
<1>4. Known /\ Known' /\ AllEntitled /\ [Next]_vars
        => AllEntitled' /\ [UNCHANGED Abs!avars \/ Abs!Next]_(Abs!avars)
  BY <1>3 DEF Simulates
<1>5. Spec => Abs!Init /\ [][UNCHANGED Abs!avars \/ Abs!Next]_(Abs!avars)
  BY <1>1, <1>2, <1>4, PTL DEF Spec
<1> QED
  BY <1>5 DEF ImplementsAtomic
=============================================================================
