------------------------- MODULE CorporationProofs -------------------------
(***************************************************************************)
(* Proofs about Corporation, for any number of players, corporations,      *)
(* ships and calls: nobody gets more ships than the cap allows, nobody     *)
(* takes over another's claim, the two records of a membership agree once  *)
(* every call has ended, and a disbanded corporation is left with no ship. *)
(*                                                                         *)
(* The cap is not inductive. What is, says of each plan how far it is: a   *)
(* call that has counted and not yet written holds the lock of its buyer,  *)
(* alone, and there is room for one more ship; the ship it has built is    *)
(* its own, and the ship it gives back was bought by the one it counted.   *)
(*                                                                         *)
(* Nor do the rolls agree while a call is under way. What is inductive     *)
(* (Rolls) says for each player what the plans have still to do to make    *)
(* the two tables agree on him: who is stamped into a corporation has been *)
(* or will be enrolled there by the same call, who is stamped out of one   *)
(* has been or will be taken off its list, and no two calls enrol and move *)
(* the same player. The ships are dealt with likewise (Docked): a ship     *)
(* that flies for a corporation is registered, or some call is about to    *)
(* register it or to scrap it; and once the ships of a corporation have    *)
(* been listed to be released, all that are registered there are among     *)
(* them, or have been released.                                            *)
(***************************************************************************)
EXTENDS Corporation, FiniteSetTheorems, SequenceTheorems, TLAPS

-----------------------------------------------------------------------------
(* Plans.                                                                  *)

\* The statements that need no lock.
RollOps == {"found", "enrol", "stamp", "left", "list", "release", "close"}
HullOps == {"unlink", "scrap", "destroy", "claim"}
Statement == [op : RollOps \cup HullOps, who : SUBSET Players,
              corp : Corps \cup {None}, ship : Hulls \cup {None}]
Free == {s \in Statement : /\ s.op /= "stamp" => s.corp \in Corps
                           /\ s.op \in HullOps => s.ship \in Hulls}

\* A purchase: still without the lock, to be counted, to build, to link, done.
Final(p, c, x) == <<Do("unlock", {p}, c, x)>>
ToLink(p, c, h) == <<Do("link", {p}, c, h), Do("unlock", {p}, c, None)>>
ToBuild(p, c) == <<Do("build", {p}, c, None), Do("link", {p}, c, None),
                   Do("unlock", {p}, c, None)>>
ToCount(p, c) == <<Do("count", {p}, c, None), Do("build", {p}, c, None),
                   Do("link", {p}, c, None), Do("unlock", {p}, c, None)>>

\* A release of ship h by q, who has claimed it, for p, who bought it.
ToYield(p, c, h, q) == <<Do("unclaim", {q}, c, h), Do("unlock", {p}, c, h)>>
ToCountYield(p, c, h, q) == <<Do("count", {p}, c, h), Do("unclaim", {q}, c, h),
                              Do("unlock", {p}, c, h)>>
ToLockYield(p, c, h, q) == <<Do("lock", {p}, c, h), Do("count", {p}, c, h),
                             Do("unclaim", {q}, c, h), Do("unlock", {p}, c, h)>>

Yields(plan, p, c, h) ==
  \E q \in Players : \/ plan = ToYield(p, c, h, q) \/ plan = ToCountYield(p, c, h, q)
                     \/ plan = ToLockYield(p, c, h, q)

\* The plan has counted and has still to write.
Slot(plan, p, c) ==
  \/ plan = ToBuild(p, c)
  \/ \E h \in Hulls : plan = ToLink(p, c, h)
  \/ \E h \in Hulls, q \in Players : plan = ToYield(p, c, h, q)

\* The plan holds the lock of p in c.
Locking(plan, p, c) ==
  \/ Slot(plan, p, c)
  \/ plan = ToCount(p, c)
  \/ \E h \in Hulls, q \in Players : plan = ToCountYield(p, c, h, q)
  \/ \E x \in Hulls \cup {None} : plan = Final(p, c, x)

Waiting(plan, p, c) ==
  \/ plan = BuyPlan(p, c)
  \/ \E h \in Hulls, q \in Players : plan = ToLockYield(p, c, h, q)

Shaped(plan) ==
  \/ plan \in Seq(Free)
  \/ \E p \in Players, c \in Corps : Waiting(plan, p, c) \/ Locking(plan, p, c)

-----------------------------------------------------------------------------
(* The invariant.                                                          *)

HullRow == [corp : Corps \cup {None}, link : Corps \cup {None}, by : Players \cup {None},
            byoa : Players \cup {None}, live : BOOLEAN]

TypeOK ==
  /\ corps \in [Corps -> [founder : Players \cup {None}, gone : BOOLEAN]]
  /\ member \in [Corps -> SUBSET Players]
  /\ affil \in [Players -> Corps \cup {None}]
  /\ ships \in [Hulls -> HullRow]
  /\ plans = [j \in Jobs |-> plans[j]]
  /\ \A j \in Jobs : Shaped(plans[j])

\* A ship that is listed was bought by someone, and so was one a call works on.
Bought == \A h \in Hulls : ships[h].link /= None => ships[h].by /= None
Named(plan) == \A s \in Statements(plan) : s.op \in HullOps => ships[s.ship].by /= None
AllNamed == \A j \in Jobs : Named(plans[j])

\* A ship that is being given back was bought by the player who was counted.
Buyers ==
  \A j \in Jobs, p \in Players, c \in Corps, h \in Hulls :
    Yields(plans[j], p, c, h) => ships[h].by = p

\* A ship that is built and not yet linked is one call's alone.
Links(plan, h) == \E p \in Players, c \in Corps : plan = ToLink(p, c, h)
NewHulls ==
  /\ \A j \in Jobs, h \in Hulls :
       Links(plans[j], h) => ships[h].by = None /\ ships[h].corp /= None
  /\ \A j, k \in Jobs, h \in Hulls : Links(plans[j], h) /\ Links(plans[k], h) => j = k

Exclusive ==
  \A j, k \in Jobs, p \in Players, c \in Corps :
    Locking(plans[j], p, c) /\ Locking(plans[k], p, c) => j = k

Room ==
  \A j \in Jobs, p \in Players, c \in Corps :
    Slot(plans[j], p, c) => Cardinality(Counted(c, p)) < Cap

\* A ship that a disbanding call has listed was bought by someone.
Noted ==
  /\ listed \in [Jobs -> SUBSET Hulls]
  /\ \A j \in Jobs : \A h \in listed[j] : ships[h].by /= None

Inv == TypeOK /\ Bought /\ AllNamed /\ Buyers /\ NewHulls /\ Exclusive /\ Room /\ ShipCap

-----------------------------------------------------------------------------
(* Sequences.                                                              *)

\* How a plan begins and ends.
Opens(plan, op) == plan /= << >> /\ plan[1].op = op
Unlocks(plan, p, c) ==
  /\ Len(plan) \in Nat \ {0}
  /\ plan[Len(plan)].op = "unlock" /\ plan[Len(plan)].who = {p} /\ plan[Len(plan)].corp = c
  /\ \A i \in 1..Len(plan) : plan[i].op /= "lock"

LEMMA Openings ==
  ASSUME NEW p, NEW c
  PROVE  /\ \A h : Opens(Final(p, c, h), "unlock")
         /\ \A h : Opens(ToLink(p, c, h), "link")
         /\ Opens(ToBuild(p, c), "build")
         /\ Opens(ToCount(p, c), "count")
         /\ Opens(BuyPlan(p, c), "lock")
         /\ \A h, q : Opens(ToYield(p, c, h, q), "unclaim")
         /\ \A h, q : Opens(ToCountYield(p, c, h, q), "count")
         /\ \A h, q : Opens(ToLockYield(p, c, h, q), "lock")
<1>1. ASSUME NEW h PROVE Opens(Final(p, c, h), "unlock")
  BY DEF Opens, Final, Do
<1>2. ASSUME NEW h PROVE Opens(ToLink(p, c, h), "link")
  BY DEF Opens, ToLink, Do
<1>3. Opens(ToBuild(p, c), "build") /\ Opens(ToCount(p, c), "count") /\ Opens(BuyPlan(p, c), "lock")
  BY DEF Opens, ToBuild, ToCount, BuyPlan, Do
<1>4. ASSUME NEW h, NEW q
      PROVE  /\ Opens(ToYield(p, c, h, q), "unclaim")
             /\ Opens(ToCountYield(p, c, h, q), "count")
             /\ Opens(ToLockYield(p, c, h, q), "lock")
  BY DEF Opens, ToYield, ToCountYield, ToLockYield, Do
<1>. QED
  BY <1>1, <1>2, <1>3, <1>4, Zenon

LEMMA Endings ==
  ASSUME NEW p, NEW c
  PROVE  /\ \A h : Unlocks(Final(p, c, h), p, c)
         /\ \A h : Unlocks(ToLink(p, c, h), p, c)
         /\ Unlocks(ToBuild(p, c), p, c)
         /\ Unlocks(ToCount(p, c), p, c)
         /\ \A h, q : Unlocks(ToYield(p, c, h, q), p, c)
         /\ \A h, q : Unlocks(ToCountYield(p, c, h, q), p, c)
<1>1. ASSUME NEW h PROVE Unlocks(Final(p, c, h), p, c)
  BY DEF Unlocks, Final, Do
<1>2. ASSUME NEW h PROVE Unlocks(ToLink(p, c, h), p, c)
  BY DEF Unlocks, ToLink, Do
<1>3. Unlocks(ToBuild(p, c), p, c)
  BY DEF Unlocks, ToBuild, Do
<1>4. Unlocks(ToCount(p, c), p, c)
  BY DEF Unlocks, ToCount, Do
<1>5. ASSUME NEW h, NEW q PROVE Unlocks(ToYield(p, c, h, q), p, c)
  BY DEF Unlocks, ToYield, Do
<1>6. ASSUME NEW h, NEW q PROVE Unlocks(ToCountYield(p, c, h, q), p, c)
  BY DEF Unlocks, ToCountYield, Do
<1>. QED
  BY <1>1, <1>2, <1>3, <1>4, <1>5, <1>6, Zenon

\* By the first statement one knows where a plan is.
LEMMA Kinds ==
  ASSUME NEW plan, NEW p, NEW c
  PROVE  /\ Slot(plan, p, c) =>
              Opens(plan, "build") \/ Opens(plan, "link") \/ Opens(plan, "unclaim")
         /\ Locking(plan, p, c) => Slot(plan, p, c) \/ Opens(plan, "count") \/ Opens(plan, "unlock")
         /\ Waiting(plan, p, c) => Opens(plan, "lock")
         /\ \A h : Yields(plan, p, c, h) =>
              Opens(plan, "unclaim") \/ Opens(plan, "count") \/ Opens(plan, "lock")
         /\ Locking(plan, p, c) => Unlocks(plan, p, c)
<1>1. Slot(plan, p, c) => Opens(plan, "build") \/ Opens(plan, "link") \/ Opens(plan, "unclaim")
  BY Openings, Zenon DEF Slot
<1>2. Locking(plan, p, c) => Slot(plan, p, c) \/ Opens(plan, "count") \/ Opens(plan, "unlock")
  BY Openings, Zenon DEF Locking
<1>3. Waiting(plan, p, c) => Opens(plan, "lock")
  BY Openings, Zenon DEF Waiting
<1>4. ASSUME NEW h, Yields(plan, p, c, h)
      PROVE  Opens(plan, "unclaim") \/ Opens(plan, "count") \/ Opens(plan, "lock")
  BY <1>4, Openings, Zenon DEF Yields
<1>5. Locking(plan, p, c) => Unlocks(plan, p, c)
  BY Endings, Zenon DEF Locking, Slot
<1>. QED
  BY <1>1, <1>2, <1>3, <1>4, <1>5, Zenon

LEMMA LinksOpen ==
  ASSUME NEW plan, NEW h, Links(plan, h)
  PROVE  Opens(plan, "link")
  BY Openings, Zenon DEF Links

\* A plan whose first statement needs no lock is of no other shape.
LEMMA FreeIsFree ==
  ASSUME NEW plan \in Seq(Free)
  PROVE  /\ \A p, c : ~Locking(plan, p, c) /\ ~Slot(plan, p, c) /\ ~Waiting(plan, p, c)
         /\ \A p, c, h : ~Yields(plan, p, c, h)
         /\ \A h : ~Links(plan, h)
<1>1. \A op : Opens(plan, op) => op \in RollOps \cup HullOps
  BY DEF Opens, Free, Statement
<1>2. \A op \in {"build", "link", "unclaim", "count", "unlock", "lock"} : ~Opens(plan, op)
  BY <1>1 DEF RollOps, HullOps
<1>. QED
  BY <1>2, Kinds, LinksOpen

LEMMA HeadAndTail ==
  ASSUME NEW plan \in Seq(Free), plan /= << >>
  PROVE  /\ Head(plan) \in Free
         /\ Head(plan) \in Statements(plan)
         /\ Tail(plan) \in Seq(Free)
         /\ Statements(Tail(plan)) \subseteq Statements(plan)
<1>1. Head(plan) \in Free /\ Tail(plan) \in Seq(Free) /\ Len(plan) \in Nat \ {0}
  OBVIOUS
<1>2. Head(plan) \in Statements(plan)
  BY <1>1 DEF Statements
<1>3. Statements(Tail(plan)) \subseteq Statements(plan)
  <2>. SUFFICES ASSUME NEW i \in 1..Len(Tail(plan)) PROVE Tail(plan)[i] \in Statements(plan)
    BY DEF Statements
  <2>1. Tail(plan)[i] = plan[i + 1] /\ i + 1 \in 1..Len(plan)
    BY <1>1
  <2>. QED
    BY <2>1 DEF Statements
<1>. QED
  BY <1>1, <1>2, <1>3

\* What the lock looks at.
LEMMA LockingHolds ==
  ASSUME NEW k \in Jobs, NEW p \in Players, NEW c \in Corps, Locking(plans[k], p, c)
  PROVE  Holds(k, {p}, c)
<1>1. Unlocks(plans[k], p, c)
  BY Kinds
<1>. QED
  BY <1>1 DEF Unlocks, Holds, Statements

\* A plan with a lock names no ship in the way of the others, and nothing
\* that is on the rolls.
Abstains(plan) ==
  Len(plan) \in Nat /\ \A i \in 1..Len(plan) : plan[i].op \notin RollOps \cup HullOps

LEMMA Abstinence ==
  ASSUME NEW p, NEW c
  PROVE  /\ \A h : Abstains(Final(p, c, h))
         /\ \A h : Abstains(ToLink(p, c, h))
         /\ Abstains(ToBuild(p, c)) /\ Abstains(ToCount(p, c)) /\ Abstains(BuyPlan(p, c))
         /\ \A h, q : /\ Abstains(ToYield(p, c, h, q)) /\ Abstains(ToCountYield(p, c, h, q))
                      /\ Abstains(ToLockYield(p, c, h, q))
<1>1. ASSUME NEW h PROVE Abstains(Final(p, c, h))
  BY DEF Abstains, Final, Do, RollOps, HullOps
<1>2. ASSUME NEW h PROVE Abstains(ToLink(p, c, h))
  BY DEF Abstains, ToLink, Do, RollOps, HullOps
<1>3. Abstains(ToBuild(p, c))
  BY DEF Abstains, ToBuild, Do, RollOps, HullOps
<1>4. Abstains(ToCount(p, c))
  BY DEF Abstains, ToCount, Do, RollOps, HullOps
<1>5. Abstains(BuyPlan(p, c))
  BY DEF Abstains, BuyPlan, Do, RollOps, HullOps
<1>6. ASSUME NEW h, NEW q PROVE Abstains(ToYield(p, c, h, q))
  BY DEF Abstains, ToYield, Do, RollOps, HullOps
<1>7. ASSUME NEW h, NEW q PROVE Abstains(ToCountYield(p, c, h, q))
  BY DEF Abstains, ToCountYield, Do, RollOps, HullOps
<1>8. ASSUME NEW h, NEW q PROVE Abstains(ToLockYield(p, c, h, q))
  BY DEF Abstains, ToLockYield, Do, RollOps, HullOps
<1>. QED
  BY <1>1, <1>2, <1>3, <1>4, <1>5, <1>6, <1>7, <1>8, Zenon

LEMMA Unnamed ==
  ASSUME NEW plan, NEW p, NEW c, Waiting(plan, p, c) \/ Locking(plan, p, c),
         NEW s \in Statements(plan)
  PROVE  s.op \notin RollOps \cup HullOps
<1>1. Abstains(plan)
  BY Abstinence, Zenon DEF Waiting, Locking, Slot
<1>. QED
  BY <1>1 DEF Abstains, Statements

\* A statement that names a ship is in a plan that needs no lock.
LEMMA NamedHulls ==
  ASSUME NEW plan, Shaped(plan), NEW s \in Statements(plan), s.op \in HullOps
  PROVE  plan \in Seq(Free) /\ s.ship \in Hulls
<1>1. ASSUME NEW p \in Players, NEW c \in Corps, Waiting(plan, p, c) \/ Locking(plan, p, c)
      PROVE  FALSE
  BY <1>1, Unnamed
<1>2. plan \in Seq(Free)
  BY <1>1 DEF Shaped
<1>3. s \in Free
  BY <1>2 DEF Statements
<1>. QED
  BY <1>2, <1>3 DEF Free

-----------------------------------------------------------------------------
(* Steps.                                                                  *)

RowsTyped ==
  /\ corps \in [Corps -> [founder : Players \cup {None}, gone : BOOLEAN]]
  /\ member \in [Corps -> SUBSET Players]
  /\ affil \in [Players -> Corps \cup {None}]
  /\ ships \in [Hulls -> HullRow]

\* A step that buys no ship and gives none back.
Quiet ==
  /\ \A h \in Hulls : ships'[h].by = ships[h].by
  /\ \A h \in Hulls : ships[h].by = None => ships'[h].corp = ships[h].corp
  /\ \A h \in Hulls : ships'[h].link /= None => ships[h].link /= None
  /\ \A c \in Corps, p \in Players : Counted(c, p)' \subseteq Counted(c, p)

LEMMA CountedFinite ==
  ASSUME NEW c, NEW p
  PROVE  IsFiniteSet(Counted(c, p)) /\ Cardinality(Counted(c, p)) \in Nat
<1>1. Counted(c, p) \subseteq Hulls
  BY DEF Counted
<1>. QED
  BY <1>1, HullsAssumption, FS_Subset, FS_CardinalityType

LEMMA Fewer ==
  ASSUME NEW c, NEW p, Counted(c, p)' \subseteq Counted(c, p)
  PROVE  /\ Cardinality(Counted(c, p)') <= Cardinality(Counted(c, p))
         /\ Cardinality(Counted(c, p)') \in Nat /\ Cardinality(Counted(c, p)) \in Nat
  BY CountedFinite, FS_Subset, FS_CardinalityType

\* One call goes on with plan q, and adds at most the ship it has room for.
LEMMA Onward ==
  ASSUME Inv, NEW j \in Jobs, NEW q,
         plans' = [plans EXCEPT ![j] = q], RowsTyped', Bought', Shaped(q),
         \A h \in Hulls : ships[h].by /= None => ships'[h].by = ships[h].by,
         \A s \in Statements(q) : s.op \in HullOps => ships'[s.ship].by /= None,
         \A h \in Hulls : Links(q, h) =>
           /\ ships'[h].by = None /\ ships'[h].corp /= None
           /\ \A k \in Jobs \ {j} : ~Links(plans[k], h),
         \A k \in Jobs \ {j}, h \in Hulls : Links(plans[k], h) =>
           ships'[h].by = None /\ ships'[h].corp /= None,
         \A p \in Players, c \in Corps, h \in Hulls : Yields(q, p, c, h) => ships'[h].by = p,
         \A p \in Players, c \in Corps : Locking(q, p, c) =>
           Locking(plans[j], p, c) \/ \A k \in Jobs : ~Locking(plans[k], p, c),
         \A p \in Players, c \in Corps : Slot(q, p, c) =>
           Slot(plans[j], p, c) \/ Cardinality(Counted(c, p)) < Cap,
         \A p \in Players, c \in Corps :
           \/ Counted(c, p)' \subseteq Counted(c, p)
           \/ /\ Slot(plans[j], p, c) /\ ~Slot(q, p, c)
              /\ \E h \in Hulls : Counted(c, p)' \subseteq Counted(c, p) \cup {h}
  PROVE  Inv'
<1>1. plans'[j] = q /\ \A k \in Jobs \ {j} : plans'[k] = plans[k]
  BY DEF Inv, TypeOK
<1>2. TypeOK'
  <2>1. plans' = [k \in Jobs |-> plans'[k]]
    BY DEF Inv, TypeOK
  <2>2. \A k \in Jobs : Shaped(plans'[k])
    BY <1>1 DEF Inv, TypeOK
  <2>. QED
    BY <2>1, <2>2 DEF TypeOK, RowsTyped
<1>3. ASSUME NEW k \in Jobs PROVE Named(plans[k])'
  <2>1. CASE k = j
    BY <1>1, <2>1 DEF Named
  <2>2. CASE k # j
    <3>1. plans'[k] = plans[k] /\ Shaped(plans[k]) /\ Named(plans[k])
      BY <1>1, <2>2 DEF Inv, TypeOK, AllNamed
    <3>2. ASSUME NEW s \in Statements(plans[k]), s.op \in HullOps
          PROVE  ships'[s.ship].by /= None
      BY <3>1, <3>2, NamedHulls DEF Named
    <3>. QED
      BY <3>1, <3>2 DEF Named
  <2>. QED
    BY <2>1, <2>2
<1>4. Buyers'
  BY <1>1, NoneAssumption DEF Inv, Buyers
<1>5. NewHulls'
  BY <1>1 DEF Inv, NewHulls
<1>6. Exclusive'
  BY <1>1 DEF Inv, Exclusive
<1>7. ASSUME NEW p \in Players, NEW c \in Corps
      PROVE  /\ Cardinality(Counted(c, p)) \in Nat /\ Cardinality(Counted(c, p)') \in Nat
             /\ \/ Cardinality(Counted(c, p)') <= Cardinality(Counted(c, p))
                \/ /\ Slot(plans[j], p, c) /\ ~Slot(q, p, c)
                   /\ Cardinality(Counted(c, p)') <= Cardinality(Counted(c, p)) + 1
  <2>1. CASE Counted(c, p)' \subseteq Counted(c, p)
    BY <2>1, Fewer
  <2>2. ASSUME NEW h \in Hulls, Slot(plans[j], p, c) /\ ~Slot(q, p, c),
               Counted(c, p)' \subseteq Counted(c, p) \cup {h}
        PROVE  /\ Cardinality(Counted(c, p)) \in Nat /\ Cardinality(Counted(c, p)') \in Nat
               /\ Cardinality(Counted(c, p)') <= Cardinality(Counted(c, p)) + 1
    <3>1. IsFiniteSet(Counted(c, p)) /\ Cardinality(Counted(c, p)) \in Nat
      BY CountedFinite
    <3>2. /\ IsFiniteSet(Counted(c, p) \cup {h})
          /\ Cardinality(Counted(c, p) \cup {h}) \in Nat
          /\ Cardinality(Counted(c, p) \cup {h}) <= Cardinality(Counted(c, p)) + 1
      <4>1. /\ IsFiniteSet(Counted(c, p) \cup {h})
            /\ Cardinality(Counted(c, p) \cup {h}) =
                 IF h \in Counted(c, p) THEN Cardinality(Counted(c, p))
                 ELSE Cardinality(Counted(c, p)) + 1
        BY <3>1, FS_AddElement
      <4>. QED
        BY <3>1, <4>1
    <3>3. /\ Cardinality(Counted(c, p)') <= Cardinality(Counted(c, p) \cup {h})
          /\ Cardinality(Counted(c, p)') \in Nat
      BY <2>2, <3>2, FS_Subset, FS_CardinalityType
    <3>. QED
      BY <3>1, <3>2, <3>3
  <2>. QED
    BY <2>1, <2>2
<1>8. Room'
  <2>. SUFFICES ASSUME NEW k \in Jobs, NEW p \in Players, NEW c \in Corps, Slot(plans'[k], p, c)
                PROVE  Cardinality(Counted(c, p)') < Cap
    BY DEF Room
  <2>1. Cardinality(Counted(c, p)) < Cap
    BY <1>1 DEF Inv, Room
  <2>2. ~(Slot(plans[j], p, c) /\ ~Slot(q, p, c))
    BY <1>1 DEF Inv, Exclusive, Locking
  <2>. QED
    BY <2>1, <2>2, <1>7, NumberAssumption
<1>9. ShipCap'
  <2>. SUFFICES ASSUME NEW p \in Players, NEW c \in Corps
                PROVE  Cardinality(Counted(c, p)') <= Cap
    BY DEF ShipCap
  <2>1. /\ Cardinality(Counted(c, p)) <= Cap
        /\ Slot(plans[j], p, c) => Cardinality(Counted(c, p)) < Cap
    BY DEF Inv, ShipCap, Room
  <2>. QED
    BY <2>1, <1>7, NumberAssumption
<1>. QED
  BY <1>2, <1>3, <1>4, <1>5, <1>6, <1>8, <1>9 DEF Inv, AllNamed

\* One call goes on, and neither buys nor gives back a ship.
LEMMA Advances ==
  ASSUME Inv, NEW j \in Jobs, NEW q,
         plans' = [plans EXCEPT ![j] = q], RowsTyped', Quiet,
         Shaped(q),
         \A s \in Statements(q) : s.op \in HullOps => ships'[s.ship].by /= None,
         \A h \in Hulls : ~Links(q, h),
         \A p \in Players, c \in Corps, h \in Hulls : Yields(q, p, c, h) => ships[h].by = p,
         \A p \in Players, c \in Corps : Locking(q, p, c) =>
           Locking(plans[j], p, c) \/ \A k \in Jobs : ~Locking(plans[k], p, c),
         \A p \in Players, c \in Corps : Slot(q, p, c) =>
           Slot(plans[j], p, c) \/ Cardinality(Counted(c, p)) < Cap
  PROVE  Inv'
<1>1. Bought' /\ \A h \in Hulls : ships[h].by /= None => ships'[h].by = ships[h].by
  BY DEF Inv, Bought, Quiet
<1>2. \A k \in Jobs, h \in Hulls : Links(plans[k], h) =>
        ships'[h].by = None /\ ships'[h].corp /= None
  BY DEF Inv, NewHulls, Quiet
<1>3. \A p \in Players, c \in Corps, h \in Hulls : Yields(q, p, c, h) => ships'[h].by = p
  BY DEF Quiet
<1>4. \A p \in Players, c \in Corps : Counted(c, p)' \subseteq Counted(c, p)
  BY DEF Quiet
<1>. QED
  BY <1>1, <1>2, <1>3, <1>4, Onward

-----------------------------------------------------------------------------
(* The plans that need no lock.                                            *)

LEMMA Still ==
  ASSUME Inv, UNCHANGED rows
  PROVE  RowsTyped' /\ Quiet
<1>1. RowsTyped'
  BY DEF Inv, TypeOK, RowsTyped, rows
<1>2. Quiet
  BY DEF Quiet, Counted, rows
<1>. QED
  BY <1>1, <1>2

\* A call goes on, or begins, with a plan that needs no lock.
LEMMA GoesFree ==
  ASSUME Inv, NEW j \in Jobs, NEW q \in Seq(Free), plans' = [plans EXCEPT ![j] = q],
         RowsTyped', Quiet,
         \A s \in Statements(q) : s.op \in HullOps => ships[s.ship].by /= None
  PROVE  Inv'
<1>1. Shaped(q)
  BY DEF Shaped
<1>2. ASSUME NEW s \in Statements(q), s.op \in HullOps
      PROVE  ships'[s.ship].by /= None
  BY <1>1, <1>2, NamedHulls DEF Quiet
<1>. QED
  BY <1>1, <1>2, FreeIsFree, Advances

LEMMA EmptyPlan == << >> \in Seq(Free) /\ Statements(<< >>) = {}
  BY DEF Statements

LEMMA KeepsQuit ==
  ASSUME Inv, NEW j \in Jobs, Quit(j), UNCHANGED rows
  PROVE  Inv'
  BY EmptyPlan, Still, GoesFree DEF Quit

LEMMA KeepsEndEarly ==
  ASSUME Inv, NEW j \in Jobs, EndEarly(j)
  PROVE  Inv'
  BY KeepsQuit DEF EndEarly

RollFree == {s \in Free : s.op \in RollOps}

LEMMA Regroup ==
  ASSUME NEW a \in Seq(RollFree), NEW b \in Seq(RollFree), NEW c \in Seq(RollFree)
  PROVE  (a \o b) \o c = a \o (b \o c)
  BY ConcatAssociative

LEMMA AsksRoll ==
  ASSUME Inv, NEW j \in Jobs, NEW q \in Seq(RollFree), Ask(j, q)
  PROVE  Inv'
<1>1. q \in Seq(Free) /\ \A s \in Statements(q) : s.op \notin HullOps
  BY DEF RollFree, RollOps, HullOps, Statements
<1>. QED
  BY <1>1, Still, GoesFree DEF Ask

LEMMA RollStatements ==
  ASSUME NEW who \in SUBSET Players, NEW c \in Corps
  PROVE  /\ \A op \in RollOps : Do(op, who, c, None) \in RollFree
         /\ Do("stamp", who, None, None) \in RollFree
  BY DEF RollFree, Free, Statement, RollOps, HullOps, Do

LEMMA RollPlans ==
  ASSUME NEW p \in Players, NEW c \in Corps
  PROVE  /\ Enrolment(p, c) \in Seq(RollFree)
         /\ \A who \in SUBSET Players : Eviction(who, c) \in Seq(RollFree)
         /\ Disbanding(c) \in Seq(RollFree)
         /\ <<Do("found", {p}, c, None)>> \in Seq(RollFree)
         /\ <<Do("left", {p}, c, None)>> \in Seq(RollFree)
         /\ <<Do("left", {p}, c, None), Do("stamp", {p}, None, None)>> \in Seq(RollFree)
<1>1. {p} \in SUBSET Players /\ {} \in SUBSET Players
  OBVIOUS
<1>2. Enrolment(p, c) \in Seq(RollFree)
  BY <1>1, RollStatements DEF Enrolment, RollOps
<1>3. ASSUME NEW who \in SUBSET Players PROVE Eviction(who, c) \in Seq(RollFree)
  BY RollStatements DEF Eviction, RollOps
<1>4. Disbanding(c) \in Seq(RollFree)
  <2>1. /\ Do("list", {}, c, None) \in RollFree /\ Do("release", {}, c, None) \in RollFree
        /\ Do("close", {}, c, None) \in RollFree
    BY <1>1, RollStatements DEF RollOps
  <2>. QED
    BY <2>1 DEF Disbanding
<1>5. /\ <<Do("found", {p}, c, None)>> \in Seq(RollFree)
      /\ <<Do("left", {p}, c, None)>> \in Seq(RollFree)
      /\ <<Do("left", {p}, c, None), Do("stamp", {p}, None, None)>> \in Seq(RollFree)
  BY <1>1, RollStatements DEF RollOps
<1>. QED
  BY <1>2, <1>3, <1>4, <1>5

LEMMA EmptyRoll == << >> \in Seq(RollFree)
  OBVIOUS

LEMMA Joined ==
  ASSUME NEW S, NEW f \in Seq(S), NEW g \in Seq(S)
  PROVE  f \o g \in Seq(S)
  OBVIOUS

LEMMA KeepsAskCreate ==
  ASSUME Inv, NEW j \in Jobs, NEW p \in Players, NEW c \in Corps, AskCreate(j, p, c)
  PROVE  Inv'
<1>. DEFINE q == <<Do("found", {p}, c, None)>> \o Enrolment(p, c)
<1>1. q \in Seq(RollFree)
  BY RollPlans, Joined
<1>2. Ask(j, q)
  BY DEF AskCreate
<1>. HIDE DEF q
<1>. QED
  BY <1>1, <1>2, AsksRoll

LEMMA KeepsAskJoin ==
  ASSUME Inv, NEW j \in Jobs, NEW p \in Players, NEW c \in Corps, AskJoin(j, p, c)
  PROVE  Inv'
<1>. DEFINE old == affil[p]
            last == member[old] = {p}
            who == Evicted(p, old, last)
            end == IF Disbands(p, old, last) THEN Disbanding(old) ELSE << >>
            q == Eviction(who, old) \o <<Do("left", {p}, old, None)>> \o end \o Enrolment(p, c)
<1>1. CASE old = None
  <2>1. Ask(j, Enrolment(p, c))
    BY <1>1 DEF AskJoin
  <2>. QED
    BY <2>1, RollPlans, AsksRoll
<1>2. CASE old /= None
  <2>1. old \in Corps
    BY <1>2 DEF Inv, TypeOK
  <2>2. who \in SUBSET Players
    BY <2>1 DEF Inv, TypeOK, Evicted
  <2>3. Eviction(who, old) \in Seq(RollFree) /\ Enrolment(p, c) \in Seq(RollFree)
    BY <2>1, <2>2, RollPlans
  <2>4. <<Do("left", {p}, old, None)>> \in Seq(RollFree) /\ end \in Seq(RollFree)
    BY <2>1, RollPlans, EmptyRoll
  <2>5. Ask(j, q)
    BY <1>2 DEF AskJoin
  <2>. HIDE DEF who, end
  <2>6. q \in Seq(RollFree)
    BY <2>3, <2>4, Joined
  <2>. HIDE DEF q
  <2>. QED
    BY <2>5, <2>6, AsksRoll
<1>. QED
  BY <1>1, <1>2

LEMMA KeepsAskLeave ==
  ASSUME Inv, NEW j \in Jobs, NEW p \in Players, AskLeave(j, p)
  PROVE  Inv'
<1>. DEFINE c == affil[p]
            who == Evicted(p, c, Cardinality(member[c]) <= 1)
            end == IF Departing(p, c) THEN Disbanding(c) ELSE << >>
<1>1. c \in Corps
  BY DEF AskLeave, Inv, TypeOK
<1>2. who \in SUBSET Players
  BY <1>1 DEF Inv, TypeOK, Evicted
<1>3. /\ Eviction(who, c) \in Seq(RollFree) /\ end \in Seq(RollFree)
      /\ <<Do("left", {p}, c, None), Do("stamp", {p}, None, None)>> \in Seq(RollFree)
  BY <1>1, <1>2, RollPlans, EmptyRoll
<1>4. LeavePlan(p, c) = Eviction(who, c)
        \o <<Do("left", {p}, c, None), Do("stamp", {p}, None, None)>> \o end
  BY DEF LeavePlan
<1>5. Ask(j, LeavePlan(p, c))
  BY DEF AskLeave
<1>. HIDE DEF who, end, c
<1>6. LeavePlan(p, c) \in Seq(RollFree)
  BY <1>3, <1>4
<1>. QED
  BY <1>5, <1>6, AsksRoll

LEMMA KeepsAskKick ==
  ASSUME Inv, NEW j \in Jobs, NEW p \in Players, NEW t \in Players, AskKick(j, p, t)
  PROVE  Inv'
<1>. DEFINE c == affil[p]
<1>1. c \in Corps
  BY DEF AskKick, Inv, TypeOK
<1>2. <<Do("left", {t}, c, None), Do("stamp", {t}, None, None)>> \in Seq(RollFree)
  BY <1>1, RollPlans
<1>3. Ask(j, <<Do("left", {t}, c, None), Do("stamp", {t}, None, None)>>)
  BY DEF AskKick
<1>. QED
  BY <1>2, <1>3, AsksRoll

\* A call that works on a ship that is listed.
LEMMA AsksHull ==
  ASSUME Inv, NEW j \in Jobs, NEW h \in Hulls, ships[h].link /= None,
         NEW q \in Seq(Free), Ask(j, q), \A i \in 1..Len(q) : q[i].ship = h
  PROVE  Inv'
<1>1. \A s \in Statements(q) : ships[s.ship].by /= None
  BY DEF Statements, Inv, Bought
<1>. QED
  BY <1>1, Still, GoesFree DEF Ask

LEMMA HullStatements ==
  ASSUME NEW who \in SUBSET Players, NEW c \in Corps, NEW h \in Hulls, NEW op \in HullOps
  PROVE  Do(op, who, c, h) \in Free /\ Do(op, who, c, h).ship = h
  BY DEF Free, Statement, RollOps, HullOps, Do

LEMMA KeepsAskSell ==
  ASSUME Inv, NEW j \in Jobs, NEW p \in Players, NEW h \in Hulls, AskSell(j, p, h)
  PROVE  Inv'
<1>. DEFINE c == ships[h].corp
            q == <<Do("unlink", {}, c, h), Do("scrap", {}, c, h)>>
<1>1. c \in Corps /\ ships[h].link /= None /\ Ask(j, q)
  BY DEF AskSell, Inv, TypeOK, HullRow
<1>2. /\ Do("unlink", {}, c, h) \in Free /\ Do("unlink", {}, c, h).ship = h
      /\ Do("scrap", {}, c, h) \in Free /\ Do("scrap", {}, c, h).ship = h
  BY <1>1, HullStatements DEF HullOps
<1>3. q \in Seq(Free) /\ \A i \in 1..Len(q) : q[i].ship = h
  BY <1>2
<1>. HIDE DEF q
<1>. QED
  BY <1>1, <1>3, AsksHull

LEMMA KeepsAskClaim ==
  ASSUME Inv, NEW j \in Jobs, NEW p \in Players, NEW h \in Hulls, AskClaim(j, p, h)
  PROVE  Inv'
<1>. DEFINE c == ships[h].corp
            q == <<Do("claim", {p}, c, h)>>
<1>1. c \in Corps /\ ships[h].link /= None /\ Ask(j, q)
  BY DEF AskClaim, Inv, TypeOK, HullRow
<1>2. Do("claim", {p}, c, h) \in Free /\ Do("claim", {p}, c, h).ship = h
  BY <1>1, HullStatements DEF HullOps
<1>3. q \in Seq(Free) /\ \A i \in 1..Len(q) : q[i].ship = h
  BY <1>2
<1>. HIDE DEF q
<1>. QED
  BY <1>1, <1>3, AsksHull

LEMMA KeepsAskWreck ==
  ASSUME Inv, NEW j \in Jobs, NEW h \in Hulls, AskWreck(j, h)
  PROVE  Inv'
<1>. DEFINE c == ships[h].link
            q == <<Do("destroy", {}, c, h), Do("unlink", {}, c, h)>>
<1>1. c \in Corps /\ ships[h].link /= None /\ Ask(j, q)
  BY DEF AskWreck, Inv, TypeOK, HullRow
<1>2. /\ Do("destroy", {}, c, h) \in Free /\ Do("destroy", {}, c, h).ship = h
      /\ Do("unlink", {}, c, h) \in Free /\ Do("unlink", {}, c, h).ship = h
  BY <1>1, HullStatements DEF HullOps
<1>3. q \in Seq(Free) /\ \A i \in 1..Len(q) : q[i].ship = h
  BY <1>2
<1>. HIDE DEF q
<1>. QED
  BY <1>1, <1>3, AsksHull

-----------------------------------------------------------------------------
(* The statements of those plans.                                          *)

LEMMA DueOpens ==
  ASSUME Inv, NEW j \in Jobs, NEW op, Due(j, op)
  PROVE  Opens(plans[j], op) /\ Head(plans[j]) = plans[j][1]
  BY DEF Due, Opens

\* A statement that needs no lock is the first of a plan that needs none.
LEMMA DueFree ==
  ASSUME Inv, NEW j \in Jobs, NEW op \in RollOps \cup HullOps, Due(j, op)
  PROVE  /\ plans[j] \in Seq(Free) /\ plans[j] /= << >>
         /\ Head(plans[j]) \in Free /\ Head(plans[j]).op = op
         /\ Head(plans[j]) \in Statements(plans[j])
         /\ op \in HullOps => ships[Head(plans[j]).ship].by /= None
         /\ Tail(plans[j]) \in Seq(Free)
         /\ Statements(Tail(plans[j])) \subseteq Statements(plans[j])
<1>1. Opens(plans[j], op) /\ Shaped(plans[j]) /\ Named(plans[j])
  BY DueOpens DEF Inv, TypeOK, AllNamed
<1>2. \A other \in {"build", "link", "unclaim", "count", "unlock", "lock"} : op /= other
  BY DEF RollOps, HullOps
<1>3. \A other \in {"build", "link", "unclaim", "count", "unlock", "lock"} : ~Opens(plans[j], other)
  BY <1>1, <1>2 DEF Opens
<1>4. plans[j] \in Seq(Free)
  BY <1>1, <1>3, Kinds DEF Shaped
<1>5. plans[j] /= << >> /\ Head(plans[j]).op = op
  BY DEF Due
<1>. QED
  BY <1>1, <1>4, <1>5, HeadAndTail DEF Named

\* Such a call goes on when the tables keep their shape and no ship is
\* bought or given back.
LEMMA GoesOn ==
  ASSUME Inv, NEW j \in Jobs, NEW op \in RollOps \cup HullOps, Due(j, op), Done(j),
         RowsTyped', Quiet
  PROVE  Inv'
<1>1. /\ Tail(plans[j]) \in Seq(Free)
      /\ Statements(Tail(plans[j])) \subseteq Statements(plans[j])
  BY DueFree
<1>2. \A s \in Statements(plans[j]) : s.op \in HullOps => ships[s.ship].by /= None
  BY DEF Inv, AllNamed, Named
<1>3. plans' = [plans EXCEPT ![j] = Tail(plans[j])]
  BY DEF Done
<1>. QED
  BY <1>1, <1>2, <1>3, GoesFree

LEMMA SameShips ==
  ASSUME UNCHANGED ships
  PROVE  Quiet
  BY DEF Quiet, Counted

\* What stands in the first statement.
LEMMA FreeFields ==
  ASSUME NEW s \in Free
  PROVE  /\ s.who \in SUBSET Players /\ s.corp \in Corps \cup {None}
         /\ s.op /= "stamp" => s.corp \in Corps
         /\ s.op \in HullOps => s.ship \in Hulls
  BY DEF Free, Statement

LEMMA KeepsFound ==
  ASSUME Inv, NEW j \in Jobs, Found(j)
  PROVE  Inv'
<1>. DEFINE s == Head(plans[j])
<1>1. s \in Free /\ s.op = "found" /\ Due(j, "found")
  BY DueFree DEF Found, RollOps
<1>2. PICK p \in s.who : corps' = [corps EXCEPT ![s.corp].founder = p]
  BY DEF Found
<1>3. p \in Players /\ s.corp \in Corps
  BY <1>1, <1>2, FreeFields
<1>. HIDE DEF s
<1>4. corps' \in [Corps -> [founder : Players \cup {None}, gone : BOOLEAN]]
  BY <1>2, <1>3 DEF Inv, TypeOK
<1>5. RowsTyped' /\ Quiet /\ Done(j)
  BY <1>4, SameShips DEF Found, RowsTyped, Inv, TypeOK
<1>. QED
  BY <1>1, <1>5, GoesOn DEF RollOps

LEMMA KeepsEnrol ==
  ASSUME Inv, NEW j \in Jobs, Enrol(j)
  PROVE  Inv'
<1>. DEFINE s == Head(plans[j])
<1>1. s \in Free /\ s.op = "enrol" /\ Due(j, "enrol")
  BY DueFree DEF Enrol, RollOps
<1>2. s.who \in SUBSET Players /\ s.corp \in Corps
  BY <1>1, FreeFields
<1>3. member' = [member EXCEPT ![s.corp] = @ \cup s.who]
  BY DEF Enrol
<1>. HIDE DEF s
<1>4. member' \in [Corps -> SUBSET Players]
  BY <1>2, <1>3 DEF Inv, TypeOK
<1>5. RowsTyped' /\ Quiet /\ Done(j)
  BY <1>4, SameShips DEF Enrol, RowsTyped, Inv, TypeOK
<1>. QED
  BY <1>1, <1>5, GoesOn DEF RollOps

LEMMA KeepsStamp ==
  ASSUME Inv, NEW j \in Jobs, Stamp(j)
  PROVE  Inv'
<1>. DEFINE s == Head(plans[j])
<1>1. s \in Free /\ s.op = "stamp" /\ Due(j, "stamp")
  BY DueFree DEF Stamp, RollOps
<1>2. s.corp \in Corps \cup {None}
  BY <1>1, FreeFields
<1>3. affil' = [q \in Players |-> IF q \in s.who THEN s.corp ELSE affil[q]]
  BY DEF Stamp
<1>. HIDE DEF s
<1>4. affil' \in [Players -> Corps \cup {None}]
  BY <1>2, <1>3 DEF Inv, TypeOK
<1>5. RowsTyped' /\ Quiet /\ Done(j)
  BY <1>4, SameShips DEF Stamp, RowsTyped, Inv, TypeOK
<1>. QED
  BY <1>1, <1>5, GoesOn DEF RollOps

LEMMA KeepsClose ==
  ASSUME Inv, NEW j \in Jobs, Close(j)
  PROVE  Inv'
<1>1. Due(j, "close") /\ Done(j) /\ UNCHANGED <<member, affil, ships>>
      /\ corps' = [corps EXCEPT ![Head(plans[j]).corp].gone = TRUE]
  BY DEF Close
<1>2. corps' \in [Corps -> [founder : Players \cup {None}, gone : BOOLEAN]]
  BY <1>1 DEF Inv, TypeOK
<1>3. RowsTyped' /\ Quiet
  BY <1>1, <1>2, SameShips DEF RowsTyped, Inv, TypeOK
<1>. QED
  BY <1>1, <1>3, GoesOn DEF RollOps

LEMMA KeepsLeft ==
  ASSUME Inv, NEW j \in Jobs, Left(j)
  PROVE  Inv'
<1>. DEFINE s == Head(plans[j])
<1>1. /\ plans[j] \in Seq(Free) /\ plans[j] /= << >> /\ s \in Free /\ s.op = "left"
      /\ s = plans[j][1] /\ Due(j, "left")
  BY DueFree, DueOpens DEF Left, RollOps
<1>2. PICK q \in s.who :
        /\ member' = [member EXCEPT ![s.corp] = @ \ {q}]
        /\ IF s.who = {q} THEN Done(j) ELSE plans' = [plans EXCEPT ![j][1].who = @ \ {q}]
  BY DEF Left
<1>3. member' \in [Corps -> SUBSET Players]
  BY <1>2 DEF Inv, TypeOK
<1>4. RowsTyped' /\ Quiet
  BY <1>3, SameShips DEF Left, RowsTyped, Inv, TypeOK
<1>5. CASE s.who = {q}
  BY <1>1, <1>2, <1>4, <1>5, GoesOn DEF RollOps
<1>6. CASE s.who /= {q}
  <2>. DEFINE t == [s EXCEPT !.who = @ \ {q}]
              plan == [plans[j] EXCEPT ![1] = t]
  <2>1. plans' = [plans EXCEPT ![j] = plan]
    BY <1>1, <1>2, <1>6
  <2>2. t \in Free /\ t.op = "left"
    BY <1>1 DEF Free, Statement, RollOps, HullOps
  <2>. HIDE DEF t, s
  <2>3. plan \in Seq(Free) /\ Len(plan) = Len(plans[j])
    BY <1>1, <2>2
  <2>4. \A i \in 1..Len(plan) : plan[i] = t \/ plan[i] = plans[j][i]
    BY <1>1, <2>3
  <2>. HIDE DEF plan
  <2>5. ASSUME NEW u \in Statements(plan), u.op \in HullOps
        PROVE  ships[u.ship].by /= None
    <3>1. u /= t
      BY <2>2, <2>5 DEF HullOps
    <3>2. u \in Statements(plans[j])
      BY <2>3, <2>4, <3>1 DEF Statements
    <3>. QED
      BY <3>2, <2>5 DEF Inv, AllNamed, Named
  <2>. QED
    BY <1>4, <2>1, <2>3, <2>5, GoesFree
<1>. QED
  BY <1>5, <1>6

\* One ship that was bought goes away, is unlisted or claimed.
LEMMA HullChanged ==
  ASSUME Inv, NEW h \in Hulls, NEW r \in HullRow, ships' = [ships EXCEPT ![h] = r],
         UNCHANGED <<corps, member, affil>>,
         ships[h].by /= None, r.by = ships[h].by,
         r.link \in {None, ships[h].link}, r.corp \in {None, ships[h].corp},
         r.live => ships[h].live,
         r.byoa = None => ships[h].byoa = None
  PROVE  RowsTyped' /\ Quiet
<1>1. ships' \in [Hulls -> HullRow] /\ \A g \in Hulls : ships'[g] = IF g = h THEN r ELSE ships[g]
  BY DEF Inv, TypeOK
<1>2. RowsTyped'
  BY <1>1 DEF RowsTyped, Inv, TypeOK
<1>3. ASSUME NEW c \in Corps, NEW p \in Players
      PROVE  Counted(c, p)' \subseteq Counted(c, p)
  BY <1>1, NoneAssumption DEF Counted
<1>4. Quiet
  BY <1>1, <1>3 DEF Quiet
<1>. QED
  BY <1>2, <1>4

\* The row of a ship has a type, and so has the table.
LEMMA HullRows ==
  ASSUME Inv, NEW h \in Hulls
  PROVE  ships[h] \in HullRow /\ ships = [g \in Hulls |-> ships[g]]
  BY DEF Inv, TypeOK

LEMMA KeepsList ==
  ASSUME Inv, NEW j \in Jobs, List(j)
  PROVE  Inv'
<1>1. Due(j, "list") /\ Done(j) /\ RowsTyped' /\ Quiet
  BY Still DEF List
<1>. QED
  BY <1>1, GoesOn DEF RollOps

LEMMA KeepsRelease ==
  ASSUME Inv, Noted, NEW j \in Jobs, Release(j)
  PROVE  Inv'
<1>1. Due(j, "release") /\ Done(j) /\ UNCHANGED <<corps, member, affil>>
  BY DEF Release
<1>2. ships' = [h \in Hulls |-> IF h \in listed[j] THEN [ships[h] EXCEPT !.corp = None] ELSE ships[h]]
  BY DEF Release
<1>3. ships' \in [Hulls -> HullRow]
  <2>1. \A h \in Hulls : ships[h] \in HullRow /\ [ships[h] EXCEPT !.corp = None] \in HullRow
    BY HullRows DEF HullRow
  <2>. QED
    BY <1>2, <2>1
<1>4. \A h \in listed[j] : ships[h].by /= None
  BY DEF Noted
<1>5. ASSUME NEW d \in Corps, NEW p \in Players
      PROVE  Counted(d, p)' \subseteq Counted(d, p)
  <2>1. ASSUME NEW h \in Hulls
        PROVE  /\ ships'[h].corp \in {None, ships[h].corp}
               /\ ships'[h].by = ships[h].by /\ ships'[h].link = ships[h].link
               /\ ships'[h].live = ships[h].live /\ ships'[h].byoa = ships[h].byoa
    BY <1>2 DEF Inv, TypeOK, HullRow
  <2>2. d /= None
    BY NoneAssumption
  <2>. QED
    BY <2>1, <2>2 DEF Counted
<1>6. \A h \in Hulls : ships'[h].by = ships[h].by /\ ships'[h].link = ships[h].link
  BY <1>2 DEF Inv, TypeOK, HullRow
<1>7. \A h \in Hulls : ships[h].by = None => ships'[h].corp = ships[h].corp
  BY <1>2, <1>4
<1>8. RowsTyped' /\ Quiet
  BY <1>1, <1>3, <1>5, <1>6, <1>7 DEF RowsTyped, Quiet, Inv, TypeOK
<1>. QED
  BY <1>1, <1>8, GoesOn DEF RollOps

LEMMA KeepsClaim ==
  ASSUME Inv, NEW j \in Jobs, Claim(j)
  PROVE  Inv'
<1>. DEFINE s == Head(plans[j])
<1>1. s \in Free /\ s.op = "claim" /\ Due(j, "claim") /\ ships[s.ship].by /= None
  BY DueFree DEF Claim, HullOps
<1>2. s.who \in SUBSET Players /\ s.ship \in Hulls
  BY <1>1, FreeFields DEF HullOps
<1>3. PICK p \in s.who :
        ships' = IF Unmoved(s.ship, s.corp, None) THEN [ships EXCEPT ![s.ship].byoa = p] ELSE ships
  BY DEF Claim
<1>4. Done(j) /\ UNCHANGED <<corps, member, affil>>
  BY DEF Claim
<1>. HIDE DEF s
<1>5. CASE Unmoved(s.ship, s.corp, None)
  <2>. DEFINE r == [ships[s.ship] EXCEPT !.byoa = p]
  <2>1. r \in HullRow /\ r.byoa /= None /\ ships' = [ships EXCEPT ![s.ship] = r]
    <3>1. ships[s.ship] \in HullRow /\ ships = [g \in Hulls |-> ships[g]]
      BY <1>2, HullRows
    <3>2. p \in Players /\ p /= None
      BY <1>2, <1>3, NoneAssumption
    <3>3. r \in HullRow /\ r.byoa /= None
      BY <3>1, <3>2 DEF HullRow
    <3>4. ships' = [ships EXCEPT ![s.ship] = r]
      BY <1>2, <1>3, <1>5, <3>1
    <3>. QED
      BY <3>3, <3>4
  <2>2. r.by = ships[s.ship].by /\ r.link = ships[s.ship].link /\ r.corp = ships[s.ship].corp
        /\ r.live = ships[s.ship].live
    BY <1>2 DEF Inv, TypeOK, HullRow
  <2>. HIDE DEF r
  <2>3. RowsTyped' /\ Quiet
    BY <1>1, <1>2, <1>4, <2>1, <2>2, HullChanged
  <2>. QED
    BY <1>1, <1>4, <2>3, GoesOn DEF HullOps
<1>6. CASE ~Unmoved(s.ship, s.corp, None)
  <2>1. RowsTyped' /\ Quiet
    BY <1>3, <1>4, <1>6, Still DEF rows
  <2>. QED
    BY <1>1, <1>4, <2>1, GoesOn DEF HullOps
<1>. QED
  BY <1>5, <1>6

LEMMA KeepsUnlink ==
  ASSUME Inv, NEW j \in Jobs, Unlink(j)
  PROVE  Inv'
<1>. DEFINE s == Head(plans[j])
<1>1. s \in Free /\ s.op = "unlink" /\ Due(j, "unlink") /\ ships[s.ship].by /= None
  BY DueFree DEF Unlink, HullOps
<1>2. s.ship \in Hulls
  BY <1>1, FreeFields DEF HullOps
<1>3. /\ ships' = [ships EXCEPT ![s.ship].link = IF @ = s.corp THEN None ELSE @]
      /\ Done(j) /\ UNCHANGED <<corps, member, affil>>
  BY DEF Unlink
<1>. HIDE DEF s
<1>. DEFINE r == [ships[s.ship] EXCEPT !.link = IF @ = s.corp THEN None ELSE @]
<1>4. r \in HullRow /\ ships' = [ships EXCEPT ![s.ship] = r]
  <2>1. ships[s.ship] \in HullRow /\ ships = [g \in Hulls |-> ships[g]]
    BY <1>2, HullRows
  <2>2. r \in HullRow
    BY <2>1 DEF HullRow
  <2>3. ships' = [ships EXCEPT ![s.ship] = r]
    BY <1>2, <1>3, <2>1
  <2>. QED
    BY <2>2, <2>3
<1>5. /\ r.by = ships[s.ship].by /\ r.link \in {None, ships[s.ship].link}
      /\ r.corp \in {None, ships[s.ship].corp}
      /\ r.live => ships[s.ship].live
      /\ r.byoa = None => ships[s.ship].byoa = None
  BY <1>2 DEF Inv, TypeOK, HullRow
<1>. HIDE DEF r
<1>6. RowsTyped' /\ Quiet
  BY <1>1, <1>2, <1>3, <1>4, <1>5, HullChanged
<1>. QED
  BY <1>1, <1>3, <1>6, GoesOn DEF HullOps

LEMMA KeepsScrap ==
  ASSUME Inv, NEW j \in Jobs, Scrap(j)
  PROVE  Inv'
<1>. DEFINE s == Head(plans[j])
<1>1. s \in Free /\ s.op = "scrap" /\ Due(j, "scrap") /\ ships[s.ship].by /= None
  BY DueFree DEF Scrap, HullOps
<1>2. s.ship \in Hulls
  BY <1>1, FreeFields DEF HullOps
<1>3. /\ ships' = [ships EXCEPT ![s.ship].corp = None, ![s.ship].live = FALSE]
      /\ Done(j) /\ UNCHANGED <<corps, member, affil>>
  BY DEF Scrap
<1>. HIDE DEF s
<1>. DEFINE r == [ships[s.ship] EXCEPT !.corp = None, !.live = FALSE]
<1>4. r \in HullRow /\ ships' = [ships EXCEPT ![s.ship] = r]
  <2>1. ships[s.ship] \in HullRow /\ ships = [g \in Hulls |-> ships[g]]
    BY <1>2, HullRows
  <2>2. r \in HullRow
    BY <2>1 DEF HullRow
  <2>3. ships' = [ships EXCEPT ![s.ship] = r]
    BY <1>2, <1>3, <2>1
  <2>. QED
    BY <2>2, <2>3
<1>5. /\ r.by = ships[s.ship].by /\ r.link \in {None, ships[s.ship].link}
      /\ r.corp \in {None, ships[s.ship].corp} /\ (r.live => ships[s.ship].live)
      /\ (r.byoa = None => ships[s.ship].byoa = None)
  BY <1>2 DEF Inv, TypeOK, HullRow
<1>. HIDE DEF r
<1>6. RowsTyped' /\ Quiet
  BY <1>1, <1>2, <1>3, <1>4, <1>5, HullChanged
<1>. QED
  BY <1>1, <1>3, <1>6, GoesOn DEF HullOps

LEMMA KeepsDestroy ==
  ASSUME Inv, NEW j \in Jobs, Destroy(j)
  PROVE  Inv'
<1>. DEFINE s == Head(plans[j])
<1>1. s \in Free /\ s.op = "destroy" /\ Due(j, "destroy") /\ ships[s.ship].by /= None
  BY DueFree DEF Destroy, HullOps
<1>2. s.ship \in Hulls
  BY <1>1, FreeFields DEF HullOps
<1>3. /\ ships' = [ships EXCEPT ![s.ship].live = FALSE]
      /\ Done(j) /\ UNCHANGED <<corps, member, affil>>
  BY DEF Destroy
<1>. HIDE DEF s
<1>. DEFINE r == [ships[s.ship] EXCEPT !.live = FALSE]
<1>4. r \in HullRow /\ ships' = [ships EXCEPT ![s.ship] = r]
  <2>1. ships[s.ship] \in HullRow /\ ships = [g \in Hulls |-> ships[g]]
    BY <1>2, HullRows
  <2>2. r \in HullRow
    BY <2>1 DEF HullRow
  <2>3. ships' = [ships EXCEPT ![s.ship] = r]
    BY <1>2, <1>3, <2>1
  <2>. QED
    BY <2>2, <2>3
<1>5. /\ r.by = ships[s.ship].by /\ r.link \in {None, ships[s.ship].link}
      /\ r.corp \in {None, ships[s.ship].corp} /\ (r.live => ships[s.ship].live)
      /\ (r.byoa = None => ships[s.ship].byoa = None)
  BY <1>2 DEF Inv, TypeOK, HullRow
<1>. HIDE DEF r
<1>6. RowsTyped' /\ Quiet
  BY <1>1, <1>2, <1>3, <1>4, <1>5, HullChanged
<1>. QED
  BY <1>1, <1>3, <1>6, GoesOn DEF HullOps

-----------------------------------------------------------------------------
(* The plans under a lock.                                                 *)

\* Whom such a plan is for, and what ship it gives back, stands at its end.
EndsWith(plan, p, c, x) == plan[Len(plan)] = Do("unlock", {p}, c, x)

LEMMA Ends ==
  ASSUME NEW p, NEW c
  PROVE  /\ \A x : EndsWith(Final(p, c, x), p, c, x)
         /\ \A h : EndsWith(ToLink(p, c, h), p, c, None)
         /\ EndsWith(ToBuild(p, c), p, c, None)
         /\ EndsWith(ToCount(p, c), p, c, None)
         /\ EndsWith(BuyPlan(p, c), p, c, None)
         /\ \A h, q : /\ EndsWith(ToYield(p, c, h, q), p, c, h)
                      /\ EndsWith(ToCountYield(p, c, h, q), p, c, h)
                      /\ EndsWith(ToLockYield(p, c, h, q), p, c, h)
<1>. USE DEF EndsWith
<1>1. ASSUME NEW x PROVE EndsWith(Final(p, c, x), p, c, x)
  BY DEF Final
<1>2. ASSUME NEW h PROVE EndsWith(ToLink(p, c, h), p, c, None)
  BY DEF ToLink
<1>3. EndsWith(ToBuild(p, c), p, c, None) /\ EndsWith(ToCount(p, c), p, c, None)
      /\ EndsWith(BuyPlan(p, c), p, c, None)
  BY DEF ToBuild, ToCount, BuyPlan
<1>4. ASSUME NEW h, NEW q
      PROVE  /\ EndsWith(ToYield(p, c, h, q), p, c, h)
             /\ EndsWith(ToCountYield(p, c, h, q), p, c, h)
             /\ EndsWith(ToLockYield(p, c, h, q), p, c, h)
  BY DEF ToYield, ToCountYield, ToLockYield
<1>. HIDE DEF EndsWith
<1>. QED
  BY <1>1, <1>2, <1>3, <1>4, Zenon

LEMMA OneEnd ==
  ASSUME NEW plan, NEW p, NEW c, NEW x, NEW p2, NEW c2, NEW x2,
         EndsWith(plan, p, c, x), EndsWith(plan, p2, c2, x2)
  PROVE  p = p2 /\ c = c2 /\ x = x2
<1>1. Do("unlock", {p}, c, x) = Do("unlock", {p2}, c2, x2)
  BY DEF EndsWith
<1>2. {p} = {p2} /\ c = c2 /\ x = x2
  BY <1>1 DEF Do
<1>. QED
  BY <1>2

LEMMA WhereItEnds ==
  ASSUME NEW plan, NEW p, NEW c
  PROVE  /\ \A h : Yields(plan, p, c, h) => EndsWith(plan, p, c, h)
         /\ Locking(plan, p, c) => \E x : EndsWith(plan, p, c, x)
         /\ Slot(plan, p, c) => Locking(plan, p, c)
<1>1. ASSUME NEW h, Yields(plan, p, c, h) PROVE EndsWith(plan, p, c, h)
  BY <1>1, Ends, Zenon DEF Yields
<1>2. Locking(plan, p, c) => \E x : EndsWith(plan, p, c, x)
  BY Ends, Zenon DEF Locking, Slot
<1>3. Slot(plan, p, c) => Locking(plan, p, c)
  BY DEF Locking
<1>. QED
  BY <1>1, <1>2, <1>3

\* The tails of the plans.
LEMMA Tails ==
  ASSUME NEW p, NEW c
  PROVE  /\ \A x : Tail(Final(p, c, x)) = << >>
         /\ \A h : Tail(ToLink(p, c, h)) = Final(p, c, None)
         /\ Tail(ToCount(p, c)) = ToBuild(p, c)
         /\ Tail(BuyPlan(p, c)) = ToCount(p, c)
         /\ \A h, q : /\ Tail(ToYield(p, c, h, q)) = Final(p, c, h)
                      /\ Tail(ToCountYield(p, c, h, q)) = ToYield(p, c, h, q)
                      /\ Tail(ToLockYield(p, c, h, q)) = ToCountYield(p, c, h, q)
         /\ \A h : [Tail(ToBuild(p, c)) EXCEPT ![1].ship = h] = ToLink(p, c, h)
<1>1. ASSUME NEW x PROVE Tail(Final(p, c, x)) = << >>
  BY DEF Final
<1>2. ASSUME NEW h PROVE Tail(ToLink(p, c, h)) = Final(p, c, None)
  BY DEF ToLink, Final
<1>3. Tail(ToCount(p, c)) = ToBuild(p, c)
  BY DEF ToCount, ToBuild
<1>4. Tail(BuyPlan(p, c)) = ToCount(p, c)
  BY DEF BuyPlan, ToCount
<1>5. ASSUME NEW h, NEW q
      PROVE  /\ Tail(ToYield(p, c, h, q)) = Final(p, c, h)
             /\ Tail(ToCountYield(p, c, h, q)) = ToYield(p, c, h, q)
             /\ Tail(ToLockYield(p, c, h, q)) = ToCountYield(p, c, h, q)
  BY DEF ToYield, Final, ToCountYield, ToLockYield
<1>6. ASSUME NEW h PROVE [Tail(ToBuild(p, c)) EXCEPT ![1].ship = h] = ToLink(p, c, h)
  <2>1. Tail(ToBuild(p, c)) = <<Do("link", {p}, c, None), Do("unlock", {p}, c, None)>>
    BY DEF ToBuild
  <2>2. [Do("link", {p}, c, None) EXCEPT !.ship = h] = Do("link", {p}, c, h)
    BY DEF Do
  <2>3. ASSUME NEW a, NEW b, NEW d PROVE [<<a, b>> EXCEPT ![1] = d] = <<d, b>>
    OBVIOUS
  <2>4. ASSUME NEW a, NEW b
        PROVE  [<<a, b>> EXCEPT ![1].ship = h] = <<[a EXCEPT !.ship = h], b>>
    BY <2>3
  <2>5. [Tail(ToBuild(p, c)) EXCEPT ![1].ship = h]
          = <<[Do("link", {p}, c, None) EXCEPT !.ship = h], Do("unlock", {p}, c, None)>>
    BY <2>1, <2>4
  <2>. QED
    BY <2>2, <2>5 DEF ToLink
<1>. QED
  BY <1>1, <1>2, <1>3, <1>4, <1>5, <1>6

LEMMA OpensOnce ==
  ASSUME NEW plan, NEW a, NEW b, Opens(plan, a), Opens(plan, b)
  PROVE  a = b
  BY DEF Opens

\* Where a call is when its next statement is one of these.
LEMMA DueUnderLock ==
  ASSUME Inv, NEW j \in Jobs, NEW op \in {"lock", "count", "build", "link", "unclaim", "unlock"},
         Due(j, op)
  PROVE  \E p \in Players, c \in Corps :
           \/ op = "lock" /\ Waiting(plans[j], p, c)
           \/ op = "count" /\ \/ plans[j] = ToCount(p, c)
                              \/ \E h \in Hulls, q \in Players : plans[j] = ToCountYield(p, c, h, q)
           \/ op = "build" /\ plans[j] = ToBuild(p, c)
           \/ op = "link" /\ \E h \in Hulls : plans[j] = ToLink(p, c, h)
           \/ op = "unclaim" /\ \E h \in Hulls, q \in Players : plans[j] = ToYield(p, c, h, q)
           \/ op = "unlock" /\ \E x \in Hulls \cup {None} : plans[j] = Final(p, c, x)
<1>. DEFINE plan == plans[j]
<1>1. Opens(plan, op) /\ Shaped(plan) /\ Head(plan) = plan[1]
  BY DueOpens DEF Inv, TypeOK
<1>2. plan \notin Seq(Free)
  <2>. SUFFICES ASSUME plan \in Seq(Free), plan /= << >> PROVE FALSE
    BY <1>1 DEF Opens
  <2>1. plan[1].op \in RollOps \cup HullOps
    BY DEF Free, Statement
  <2>. QED
    BY <1>1, <2>1 DEF Opens, RollOps, HullOps
<1>3. PICK p \in Players, c \in Corps : Waiting(plan, p, c) \/ Locking(plan, p, c)
  BY <1>1, <1>2 DEF Shaped
<1>. HIDE DEF plan
<1>4. CASE Waiting(plan, p, c)
  BY <1>1, <1>3, <1>4, Kinds, OpensOnce DEF plan
<1>5. ASSUME NEW h \in Hulls, plan = ToLink(p, c, h) PROVE op = "link"
  BY <1>1, <1>5, Openings, OpensOnce
<1>6. ASSUME NEW h \in Hulls, NEW q \in Players, plan = ToYield(p, c, h, q) PROVE op = "unclaim"
  BY <1>1, <1>6, Openings, OpensOnce
<1>7. ASSUME NEW h \in Hulls, NEW q \in Players, plan = ToCountYield(p, c, h, q) PROVE op = "count"
  BY <1>1, <1>7, Openings, OpensOnce
<1>8. ASSUME NEW x \in Hulls \cup {None}, plan = Final(p, c, x) PROVE op = "unlock"
  BY <1>1, <1>8, Openings, OpensOnce
<1>9. (plan = ToBuild(p, c) => op = "build") /\ (plan = ToCount(p, c) => op = "count")
  BY <1>1, Openings, OpensOnce
<1>10. CASE Locking(plan, p, c)
  BY <1>10, <1>5, <1>6, <1>7, <1>8, <1>9 DEF Locking, Slot, plan
<1>. QED
  BY <1>3, <1>4, <1>10

\* The first statements.
LEMMA Firsts ==
  ASSUME NEW p, NEW c
  PROVE  /\ Head(ToCount(p, c)) = Do("count", {p}, c, None)
         /\ Head(ToBuild(p, c)) = Do("build", {p}, c, None)
         /\ \A h : Head(ToLink(p, c, h)) = Do("link", {p}, c, h)
         /\ Head(BuyPlan(p, c)) = Do("lock", {p}, c, None)
         /\ \A h, q : /\ Head(ToYield(p, c, h, q)) = Do("unclaim", {q}, c, h)
                      /\ Head(ToCountYield(p, c, h, q)) = Do("count", {p}, c, h)
                      /\ Head(ToLockYield(p, c, h, q)) = Do("lock", {p}, c, h)
<1>1. /\ Head(ToCount(p, c)) = Do("count", {p}, c, None)
      /\ Head(ToBuild(p, c)) = Do("build", {p}, c, None)
      /\ Head(BuyPlan(p, c)) = Do("lock", {p}, c, None)
  BY DEF ToCount, ToBuild, BuyPlan
<1>2. ASSUME NEW h PROVE Head(ToLink(p, c, h)) = Do("link", {p}, c, h)
  BY DEF ToLink
<1>3. ASSUME NEW h, NEW q
      PROVE  /\ Head(ToYield(p, c, h, q)) = Do("unclaim", {q}, c, h)
             /\ Head(ToCountYield(p, c, h, q)) = Do("count", {p}, c, h)
             /\ Head(ToLockYield(p, c, h, q)) = Do("lock", {p}, c, h)
  BY DEF ToYield, ToCountYield, ToLockYield
<1>. QED
  BY <1>1, <1>2, <1>3

LEMMA DoFields ==
  ASSUME NEW op, NEW who, NEW c, NEW h
  PROVE  /\ Do(op, who, c, h).op = op /\ Do(op, who, c, h).who = who
         /\ Do(op, who, c, h).corp = c /\ Do(op, who, c, h).ship = h
  BY DEF Do

\* A call under a lock goes on, without writing: it keeps its lock or takes
\* one that was free, and counts before it takes the slot.
LEMMA GoesOnLocked ==
  ASSUME Inv, NEW j \in Jobs, NEW p \in Players, NEW c \in Corps, NEW q,
         plans' = [plans EXCEPT ![j] = q], UNCHANGED rows,
         Waiting(q, p, c) \/ Locking(q, p, c),
         \A h : ~Links(q, h),
         \A h \in Hulls : Yields(q, p, c, h) => ships[h].by = p,
         Locking(q, p, c) => Locking(plans[j], p, c) \/ \A k \in Jobs : ~Locking(plans[k], p, c),
         Slot(q, p, c) => Slot(plans[j], p, c) \/ Cardinality(Counted(c, p)) < Cap
  PROVE  Inv'
<1>1. \E x : EndsWith(q, p, c, x)
  BY WhereItEnds, Ends DEF Waiting
<1>2. \A p2 \in Players, c2 \in Corps : Locking(q, p2, c2) \/ Slot(q, p2, c2) => p2 = p /\ c2 = c
  BY <1>1, WhereItEnds, OneEnd
<1>3. \A p2 \in Players, c2 \in Corps, h \in Hulls : Yields(q, p2, c2, h) => p2 = p /\ c2 = c
  BY <1>1, WhereItEnds, OneEnd
<1>4. \A s \in Statements(q) : s.op \notin HullOps
  BY Unnamed
<1>5. Shaped(q)
  BY DEF Shaped
<1>6. RowsTyped' /\ Quiet
  BY Still
<1>. QED
  BY <1>2, <1>3, <1>4, <1>5, <1>6, Advances

\* What a plan that begins with one of these is not.
LEMMA Apart ==
  ASSUME NEW plan, NEW op, Opens(plan, op)
  PROVE  /\ op \in {"lock", "count", "unlock"} => \A p, c : ~Slot(plan, p, c)
         /\ op = "lock" => \A p, c : ~Locking(plan, p, c)
         /\ op # "link" => \A h : ~Links(plan, h)
         /\ op \notin {"unclaim", "count", "lock"} => \A p, c, h : ~Yields(plan, p, c, h)
<1>1. \A other : Opens(plan, other) => other = op
  BY OpensOnce
<1>. QED
  BY <1>1, Kinds, LinksOpen

LEMMA YieldsAt ==
  ASSUME NEW plan, NEW p, NEW c, NEW x, EndsWith(plan, p, c, x),
         NEW p2, NEW c2, NEW h, Yields(plan, p2, c2, h)
  PROVE  p2 = p /\ c2 = c /\ h = x
<1>1. EndsWith(plan, p2, c2, h)
  BY WhereItEnds
<1>. QED
  BY <1>1, OneEnd

\* The same, told from the beginning and the end of the plan.
LEMMA StepsLocked ==
  ASSUME Inv, NEW j \in Jobs, NEW p \in Players, NEW c \in Corps,
         NEW op \in {"lock", "count", "build", "unclaim"}, NEW x \in Hulls \cup {None}, NEW q,
         plans' = [plans EXCEPT ![j] = q], UNCHANGED rows,
         Opens(q, op), EndsWith(q, p, c, x), x # None => ships[x].by = p,
         Waiting(q, p, c) \/ Locking(q, p, c),
         op = "lock" \/ Locking(plans[j], p, c) \/ \A k \in Jobs : ~Locking(plans[k], p, c),
         op \in {"lock", "count"} \/ Cardinality(Counted(c, p)) < Cap
  PROVE  Inv'
<1>1. \A h \in Hulls : Yields(q, p, c, h) => ships[h].by = p
  <2>. SUFFICES ASSUME NEW h \in Hulls, Yields(q, p, c, h) PROVE ships[h].by = p
    OBVIOUS
  <2>1. h = x
    BY YieldsAt
  <2>. QED
    BY <2>1, NoneAssumption
<1>2. \A h : ~Links(q, h)
  BY Apart
<1>3. Locking(q, p, c) => Locking(plans[j], p, c) \/ \A k \in Jobs : ~Locking(plans[k], p, c)
  BY Apart
<1>4. Slot(q, p, c) => Slot(plans[j], p, c) \/ Cardinality(Counted(c, p)) < Cap
  BY Apart
<1>. QED
  BY <1>1, <1>2, <1>3, <1>4, GoesOnLocked

LEMMA KeepsAskBuy ==
  ASSUME Inv, NEW j \in Jobs, NEW p \in Players, NEW c \in Corps, AskBuy(j, p, c)
  PROVE  Inv'
<1>. DEFINE q == BuyPlan(p, c)
<1>1. /\ Opens(q, "lock") /\ EndsWith(q, p, c, None) /\ Waiting(q, p, c)
      /\ plans' = [plans EXCEPT ![j] = q] /\ UNCHANGED rows
  BY Openings, Ends DEF AskBuy, Ask, Waiting
<1>. HIDE DEF q
<1>. QED
  BY <1>1, StepsLocked

LEMMA KeepsAskUnclaim ==
  ASSUME Inv, NEW j \in Jobs, NEW q \in Players, NEW h \in Hulls, AskUnclaim(j, q, h)
  PROVE  Inv'
<1>. DEFINE c == ships[h].corp
            p == ships[h].by
            plan == ToLockYield(p, c, h, q)
<1>1. c \in Corps /\ p \in Players
  BY DEF AskUnclaim, Inv, TypeOK, Bought, HullRow
<1>2. plans' = [plans EXCEPT ![j] = plan] /\ UNCHANGED rows
  BY DEF AskUnclaim, Ask, ToLockYield
<1>3. Opens(plan, "lock") /\ EndsWith(plan, p, c, h) /\ Waiting(plan, p, c)
  BY Openings, Ends DEF Waiting
<1>. HIDE DEF plan
<1>. QED
  BY <1>1, <1>2, <1>3, StepsLocked

LEMMA KeepsLock ==
  ASSUME Inv, NEW j \in Jobs, Lock(j)
  PROVE  Inv'
<1>1. PICK p \in Players, c \in Corps : Waiting(plans[j], p, c)
  BY DueUnderLock DEF Lock
<1>2. plans' = [plans EXCEPT ![j] = Tail(plans[j])] /\ UNCHANGED rows
  BY DEF Lock, Done
<1>3. ASSUME Head(plans[j]).who = {p}, Head(plans[j]).corp = c
      PROVE  \A k \in Jobs : ~Locking(plans[k], p, c)
  BY <1>3, LockingHolds DEF Lock
<1>4. CASE plans[j] = BuyPlan(p, c)
  <2>. DEFINE q == ToCount(p, c)
  <2>1. Tail(plans[j]) = q
    BY <1>4, Tails
  <2>2. Opens(q, "count") /\ EndsWith(q, p, c, None) /\ Locking(q, p, c)
    BY Openings, Ends DEF Locking
  <2>3. Head(plans[j]) = Do("lock", {p}, c, None)
    BY <1>4, Firsts
  <2>4. \A k \in Jobs : ~Locking(plans[k], p, c)
    BY <1>3, <2>3, DoFields
  <2>. HIDE DEF q
  <2>. QED
    BY <1>2, <2>1, <2>2, <2>4, StepsLocked
<1>5. ASSUME NEW h \in Hulls, NEW r \in Players, plans[j] = ToLockYield(p, c, h, r)
      PROVE  Inv'
  <2>. DEFINE q == ToCountYield(p, c, h, r)
  <2>1. Tail(plans[j]) = q
    BY <1>5 DEF ToLockYield, ToCountYield
  <2>2. Opens(q, "count") /\ EndsWith(q, p, c, h) /\ Locking(q, p, c)
    BY Openings, Ends DEF Locking
  <2>3. Head(plans[j]) = Do("lock", {p}, c, h)
    BY <1>5 DEF ToLockYield
  <2>4. \A k \in Jobs : ~Locking(plans[k], p, c)
    BY <1>3, <2>3, DoFields
  <2>5. ships[h].by = p
    BY <1>5 DEF Yields, Inv, Buyers
  <2>. HIDE DEF q
  <2>. QED
    BY <1>2, <2>1, <2>2, <2>4, <2>5, StepsLocked
<1>. QED
  BY <1>1, <1>4, <1>5 DEF Waiting

LEMMA KeepsCount ==
  ASSUME Inv, NEW j \in Jobs, Count(j)
  PROVE  Inv'
<1>1. PICK p \in Players, c \in Corps :
        \/ plans[j] = ToCount(p, c)
        \/ \E h \in Hulls, q \in Players : plans[j] = ToCountYield(p, c, h, q)
  BY DueUnderLock DEF Count
<1>2. PICK x : Head(plans[j]) = Do("count", {p}, c, x)
  <2>1. CASE plans[j] = ToCount(p, c)
    BY <2>1 DEF ToCount
  <2>2. ASSUME NEW h \in Hulls, NEW q \in Players, plans[j] = ToCountYield(p, c, h, q)
        PROVE  Head(plans[j]) = Do("count", {p}, c, h)
    BY <2>2 DEF ToCountYield
  <2>. QED
    BY <1>1, <2>1, <2>2
<1>3. Head(plans[j]).who = {p} /\ Head(plans[j]).corp = c
  BY <1>2, DoFields
<1>4. UNCHANGED rows /\ IF Cardinality(Counted(c, p)) >= Cap THEN Quit(j) ELSE Done(j)
  BY <1>3 DEF Count
<1>5. CASE Cardinality(Counted(c, p)) >= Cap
  BY <1>4, <1>5, KeepsQuit
<1>6. CASE ~(Cardinality(Counted(c, p)) >= Cap)
  <2>1. Cardinality(Counted(c, p)) < Cap
    BY <1>6, CountedFinite, NumberAssumption
  <2>2. plans' = [plans EXCEPT ![j] = Tail(plans[j])] /\ Locking(plans[j], p, c)
    BY <1>1, <1>4, <1>6 DEF Done, Locking
  <2>3. CASE plans[j] = ToCount(p, c)
    <3>. DEFINE q == ToBuild(p, c)
    <3>1. Tail(plans[j]) = q
      BY <2>3, Tails
    <3>2. Opens(q, "build") /\ EndsWith(q, p, c, None) /\ Locking(q, p, c)
      BY Openings, Ends DEF Locking, Slot
    <3>. HIDE DEF q
    <3>. QED
      BY <1>4, <2>1, <2>2, <3>1, <3>2, StepsLocked
  <2>4. ASSUME NEW h \in Hulls, NEW r \in Players, plans[j] = ToCountYield(p, c, h, r)
        PROVE  Inv'
    <3>. DEFINE q == ToYield(p, c, h, r)
    <3>1. Tail(plans[j]) = q
      BY <2>4 DEF ToCountYield, ToYield
    <3>2. Opens(q, "unclaim") /\ EndsWith(q, p, c, h) /\ Locking(q, p, c)
      BY Openings, Ends DEF Locking, Slot
    <3>3. ships[h].by = p
      BY <2>4 DEF Yields, Inv, Buyers
    <3>. HIDE DEF q
    <3>. QED
      BY <1>4, <2>1, <2>2, <3>1, <3>2, <3>3, StepsLocked
  <2>. QED
    BY <1>1, <2>3, <2>4
<1>. QED
  BY <1>5, <1>6

LEMMA KeepsUnlock ==
  ASSUME Inv, NEW j \in Jobs, Unlock(j)
  PROVE  Inv'
<1>1. PICK p \in Players, c \in Corps : \E x \in Hulls \cup {None} : plans[j] = Final(p, c, x)
  BY DueUnderLock DEF Unlock
<1>2. PICK x : plans[j] = Final(p, c, x)
  BY <1>1
<1>3. Tail(plans[j]) = << >>
  BY <1>2 DEF Final
<1>. QED
  BY <1>3, KeepsQuit DEF Unlock, Done, Quit

\* The lock, once taken, is kept: what is left to say of a step that writes.
LEMMA KeepsPlace ==
  ASSUME NEW j \in Jobs, NEW p \in Players, NEW c \in Corps, NEW x, NEW q,
         EndsWith(q, p, c, x), Locking(plans[j], p, c)
  PROVE  /\ \A p2 \in Players, c2 \in Corps : Locking(q, p2, c2) =>
              Locking(plans[j], p2, c2) \/ \A k \in Jobs : ~Locking(plans[k], p2, c2)
         /\ \A p2 \in Players, c2 \in Corps : Slot(q, p2, c2) => p2 = p /\ c2 = c
  BY WhereItEnds, OneEnd

LEMMA BuildsOne ==
  ASSUME NEW j \in Jobs, NEW p, NEW c, plans[j] = ToBuild(p, c), Build(j)
  PROVE  \E h \in Hulls :
           /\ ships[h] = Unbuilt
           /\ ships' = [ships EXCEPT ![h] = [Unbuilt EXCEPT !.corp = c, !.live = TRUE]]
           /\ plans' = [plans EXCEPT ![j] = ToLink(p, c, h)]
           /\ UNCHANGED <<corps, member, affil>>
<1>1. Head(plans[j]).corp = c
  BY DEF ToBuild, Do
<1>2. PICK h \in Hulls :
        /\ ships[h] = Unbuilt
        /\ ships' = [ships EXCEPT ![h] = [Unbuilt EXCEPT !.corp = c, !.live = TRUE]]
        /\ plans' = [plans EXCEPT ![j] = [Tail(@) EXCEPT ![1].ship = h]]
  BY <1>1 DEF Build
<1>3. [Tail(plans[j]) EXCEPT ![1].ship = h] = ToLink(p, c, h)
  BY Tails
<1>4. plans' = [plans EXCEPT ![j] = ToLink(p, c, h)]
  BY <1>2, <1>3
<1>. QED
  BY <1>2, <1>4 DEF Build

LEMMA ToLinkNames ==
  ASSUME NEW p, NEW c, NEW h, NEW p2, NEW c2, NEW h2, ToLink(p, c, h) = ToLink(p2, c2, h2)
  PROVE  h = h2
<1>1. ToLink(p, c, h)[1].ship = h /\ ToLink(p2, c2, h2)[1].ship = h2
  BY DEF ToLink, Do
<1>. QED
  BY <1>1, Zenon

LEMMA KeepsBuild ==
  ASSUME Inv, NEW j \in Jobs, Build(j)
  PROVE  Inv'
<1>1. PICK p \in Players, c \in Corps : plans[j] = ToBuild(p, c)
  BY DueUnderLock DEF Build
<1>2. PICK h \in Hulls :
        /\ ships[h] = Unbuilt
        /\ ships' = [ships EXCEPT ![h] = [Unbuilt EXCEPT !.corp = c, !.live = TRUE]]
        /\ plans' = [plans EXCEPT ![j] = ToLink(p, c, h)]
        /\ UNCHANGED <<corps, member, affil>>
  BY <1>1, BuildsOne
<1>. DEFINE q == ToLink(p, c, h)
            r == [Unbuilt EXCEPT !.corp = c, !.live = TRUE]
<1>3. /\ r \in HullRow /\ r.by = None /\ r.link = None /\ r.corp = c
      /\ Unbuilt.by = None /\ Unbuilt.corp = None
  BY DEF Unbuilt, HullRow
<1>4. /\ Opens(q, "link") /\ EndsWith(q, p, c, None)
      /\ Slot(q, p, c) /\ Locking(q, p, c) /\ Shaped(q)
  BY Openings, Ends DEF Slot, Locking, Shaped
<1>5. Slot(plans[j], p, c) /\ Locking(plans[j], p, c)
  BY <1>1 DEF Slot, Locking
<1>6. \A h2 \in Hulls : Links(q, h2) => h2 = h
  BY ToLinkNames DEF Links
<1>7. \A s \in Statements(q) : s.op \notin HullOps
  BY <1>4, Unnamed
<1>8. \A p2 \in Players, c2 \in Corps, h2 \in Hulls : ~Yields(q, p2, c2, h2)
  BY <1>4, Apart
<1>. HIDE DEF q, r
<1>9. ships' = [ships EXCEPT ![h] = r] /\ plans' = [plans EXCEPT ![j] = q]
  BY <1>2 DEF q, r
<1>10. \A g \in Hulls : ships'[g] = IF g = h THEN r ELSE ships[g]
  BY <1>9 DEF Inv, TypeOK
<1>11. RowsTyped'
  BY <1>2, <1>3, <1>9 DEF RowsTyped, Inv, TypeOK
<1>12. Bought' /\ \A g \in Hulls : ships[g].by /= None => ships'[g].by = ships[g].by
  BY <1>2, <1>3, <1>10 DEF Bought, Inv
<1>13. \A k \in Jobs : ~Links(plans[k], h)
  BY <1>2, <1>3 DEF Inv, NewHulls
<1>14. \A k \in Jobs \ {j}, g \in Hulls : Links(plans[k], g) =>
         ships'[g].by = None /\ ships'[g].corp /= None
  BY <1>10, <1>13 DEF Inv, NewHulls
<1>15. ships'[h].by = None /\ ships'[h].corp /= None
  BY <1>3, <1>10, NoneAssumption
<1>16. ASSUME NEW p2 \in Players, NEW c2 \in Corps
       PROVE  Counted(c2, p2)' \subseteq Counted(c2, p2)
  BY <1>3, <1>10, NoneAssumption DEF Counted
<1>17. /\ \A p2 \in Players, c2 \in Corps : Locking(q, p2, c2) =>
            Locking(plans[j], p2, c2) \/ \A k \in Jobs : ~Locking(plans[k], p2, c2)
       /\ \A p2 \in Players, c2 \in Corps : Slot(q, p2, c2) => Slot(plans[j], p2, c2)
  BY <1>4, <1>5, KeepsPlace
<1>. QED
  BY <1>4, <1>6, <1>7, <1>8, <1>9, <1>11, <1>12, <1>13, <1>14, <1>15, <1>16, <1>17, Onward

\* Where the plans under a lock end.
LEMMA FinalEnd ==
  ASSUME NEW p \in Players, NEW c \in Corps, NEW x \in Hulls \cup {None}
  PROVE  /\ Opens(Final(p, c, x), "unlock") /\ EndsWith(Final(p, c, x), p, c, x)
         /\ Locking(Final(p, c, x), p, c) /\ Shaped(Final(p, c, x))
  BY Openings, Ends DEF Locking, Shaped

\* A call writes what it has counted for: one ship of its buyer is changed.
LEMMA Writes ==
  ASSUME Inv, NEW j \in Jobs, NEW p \in Players, NEW c \in Corps, NEW h \in Hulls,
         NEW x \in Hulls \cup {None}, NEW r \in HullRow,
         Slot(plans[j], p, c),
         plans' = [plans EXCEPT ![j] = Final(p, c, x)],
         ships' = [ships EXCEPT ![h] = r], UNCHANGED <<corps, member, affil>>,
         r.by = p, ships[h].by /= None => r.by = ships[h].by,
         \A k \in Jobs \ {j} : ~Links(plans[k], h),
         r.corp = ships[h].corp, r.corp = c \/ r.link = c
  PROVE  Inv'
<1>. DEFINE q == Final(p, c, x)
<1>1. Opens(q, "unlock") /\ EndsWith(q, p, c, x) /\ Locking(q, p, c) /\ Shaped(q)
  BY FinalEnd
<1>. HIDE DEF q
<1>2. plans' = [plans EXCEPT ![j] = q] /\ \A g \in Hulls : ships'[g] = IF g = h THEN r ELSE ships[g]
  BY DEF q, Inv, TypeOK
<1>3. RowsTyped'
  BY DEF RowsTyped, Inv, TypeOK
<1>4. Bought' /\ \A g \in Hulls : ships[g].by /= None => ships'[g].by = ships[g].by
  BY <1>2, NoneAssumption DEF Inv, Bought
<1>5. \A s \in Statements(q) : s.op \notin HullOps
  BY <1>1, Unnamed
<1>6. /\ \A g : ~Links(q, g)
      /\ \A p2 \in Players, c2 \in Corps : ~Slot(q, p2, c2)
      /\ \A p2 \in Players, c2 \in Corps, g \in Hulls : ~Yields(q, p2, c2, g)
  BY <1>1, Apart
<1>7. \A k \in Jobs \ {j}, g \in Hulls : Links(plans[k], g) =>
        ships'[g].by = None /\ ships'[g].corp /= None
  BY <1>2 DEF Inv, NewHulls
<1>8. \A p2 \in Players, c2 \in Corps : Locking(q, p2, c2) =>
        Locking(plans[j], p2, c2) \/ \A k \in Jobs : ~Locking(plans[k], p2, c2)
  BY <1>1, WhereItEnds, KeepsPlace
<1>9. ASSUME NEW p2 \in Players, NEW c2 \in Corps
      PROVE  \/ Counted(c2, p2)' \subseteq Counted(c2, p2)
             \/ /\ Slot(plans[j], p2, c2) /\ ~Slot(q, p2, c2)
                /\ \E g \in Hulls : Counted(c2, p2)' \subseteq Counted(c2, p2) \cup {g}
  <2>1. CASE p2 = p /\ c2 = c
    <3>1. Counted(c2, p2)' \subseteq Counted(c2, p2) \cup {h}
      BY <1>2 DEF Counted
    <3>. QED
      BY <1>6, <2>1, <3>1
  <2>2. CASE ~(p2 = p /\ c2 = c)
    <3>1. h \notin Counted(c2, p2)'
      BY <1>2, <2>2 DEF Counted
    <3>. QED
      BY <1>2, <3>1 DEF Counted
  <2>. QED
    BY <2>1, <2>2
<1>. QED
  BY <1>1, <1>2, <1>3, <1>4, <1>5, <1>6, <1>7, <1>8, <1>9, Onward

LEMMA KeepsLink ==
  ASSUME Inv, NEW j \in Jobs, Link(j)
  PROVE  Inv'
<1>1. PICK p \in Players, c \in Corps, h \in Hulls : plans[j] = ToLink(p, c, h)
  BY DueUnderLock DEF Link
<1>2. Head(plans[j]).who = {p} /\ Head(plans[j]).corp = c /\ Head(plans[j]).ship = h
  BY <1>1 DEF ToLink, Do
<1>3. /\ ships' = [ships EXCEPT ![h].link = c, ![h].by = p]
      /\ plans' = [plans EXCEPT ![j] = Tail(plans[j])]
      /\ UNCHANGED <<corps, member, affil>>
  BY <1>2 DEF Link, Done
<1>4. Tail(plans[j]) = Final(p, c, None)
  BY <1>1 DEF ToLink, Final
<1>5. plans' = [plans EXCEPT ![j] = Final(p, c, None)]
  BY <1>3, <1>4
<1>6. Links(plans[j], h) /\ Slot(plans[j], p, c)
  BY <1>1 DEF Links, Slot
<1>7. ships[h].by = None /\ \A k \in Jobs \ {j} : ~Links(plans[k], h)
  BY <1>6 DEF Inv, NewHulls
<1>. DEFINE r == [ships[h] EXCEPT !.link = c, !.by = p]
<1>8. r \in HullRow /\ r.by = p /\ r.link = c /\ r.corp = ships[h].corp /\ c /= None
  BY NoneAssumption DEF Inv, TypeOK, HullRow
<1>9. ships' = [ships EXCEPT ![h] = r]
  BY <1>3 DEF Inv, TypeOK, HullRow
<1>. HIDE DEF r
<1>. QED
  BY <1>3, <1>5, <1>6, <1>7, <1>8, <1>9, Writes

LEMMA KeepsUnclaim ==
  ASSUME Inv, NEW j \in Jobs, Unclaim(j)
  PROVE  Inv'
<1>1. PICK p \in Players, c \in Corps, h \in Hulls, q \in Players : plans[j] = ToYield(p, c, h, q)
  BY DueUnderLock DEF Unclaim
<1>2. Head(plans[j]).who = {q} /\ Head(plans[j]).corp = c /\ Head(plans[j]).ship = h
  BY <1>1 DEF ToYield, Do
<1>3. /\ ships' = IF Unmoved(h, c, q) THEN [ships EXCEPT ![h].byoa = None] ELSE ships
      /\ plans' = [plans EXCEPT ![j] = Tail(plans[j])]
      /\ UNCHANGED <<corps, member, affil>>
  BY <1>2 DEF Unclaim, Done
<1>4. Tail(plans[j]) = Final(p, c, h)
  BY <1>1 DEF ToYield, Final
<1>5. plans' = [plans EXCEPT ![j] = Final(p, c, h)]
  BY <1>3, <1>4
<1>6. Yields(plans[j], p, c, h) /\ Slot(plans[j], p, c)
  BY <1>1 DEF Yields, Slot
<1>7. ships[h].by = p
  BY <1>6 DEF Inv, Buyers
<1>8. \A k \in Jobs \ {j} : ~Links(plans[k], h)
  BY <1>7, NoneAssumption DEF Inv, NewHulls
<1>9. CASE Unmoved(h, c, q)
  <2>. DEFINE r == [ships[h] EXCEPT !.byoa = None]
  <2>1. ships[h] \in HullRow /\ ships = [g \in Hulls |-> ships[g]]
    BY HullRows
  <2>2. /\ r \in HullRow /\ r.by = p /\ r.corp = ships[h].corp /\ r.corp = c
        /\ r.link = ships[h].link
    BY <1>7, <1>9, <2>1 DEF HullRow, Unmoved
  <2>3. ships' = [ships EXCEPT ![h] = r]
    BY <1>3, <1>9, <2>1
  <2>. HIDE DEF r
  <2>. QED
    BY <1>3, <1>5, <1>6, <1>7, <1>8, <2>2, <2>3, Writes
<1>10. CASE ~Unmoved(h, c, q)
  <2>1. UNCHANGED rows
    BY <1>3, <1>10 DEF rows
  <2>2. /\ Opens(Final(p, c, h), "unlock") /\ EndsWith(Final(p, c, h), p, c, h)
        /\ Locking(Final(p, c, h), p, c)
    BY FinalEnd
  <2>. DEFINE plan == Final(p, c, h)
  <2>. HIDE DEF plan
  <2>3. /\ plans' = [plans EXCEPT ![j] = plan] /\ Opens(plan, "unlock") /\ Locking(plan, p, c)
    BY <1>5, <2>2 DEF plan
  <2>4. ~Slot(plan, p, c) /\ (\A g : ~Links(plan, g)) /\ (\A g : ~Yields(plan, p, c, g))
    BY <2>3, Apart
  <2>5. Locking(plans[j], p, c)
    BY <1>6, WhereItEnds
  <2>. QED
    BY <2>1, <2>3, <2>4, <2>5, GoesOnLocked
<1>. QED
  BY <1>9, <1>10

-----------------------------------------------------------------------------
(* The whole.                                                              *)

LEMMA Starts ==
  ASSUME Init
  PROVE  Inv
<1>1. plans = [j \in Jobs |-> << >>] /\ \A j \in Jobs : plans[j] = << >>
  BY DEF Init
<1>2. \A j \in Jobs : plans[j] \in Seq(Free) /\ Statements(plans[j]) = {}
  BY <1>1, EmptyPlan
<1>3. /\ \A j \in Jobs : \A p, c : ~Locking(plans[j], p, c) /\ ~Slot(plans[j], p, c)
      /\ \A j \in Jobs : \A p, c, h : ~Yields(plans[j], p, c, h)
      /\ \A j \in Jobs : \A h : ~Links(plans[j], h)
  BY <1>2, FreeIsFree
<1>4. ASSUME NEW h \in Hulls
      PROVE  ships[h] \in HullRow /\ (ships[h].link /= None => ships[h].by /= None)
  <2>1. CASE ships[h] = Unbuilt
    BY <2>1 DEF Unbuilt, HullRow
  <2>2. ASSUME NEW c \in Corps, NEW p \in Players, NEW q \in Players \cup {None},
               ships[h] = [corp |-> c, link |-> c, by |-> p, byoa |-> q, live |-> TRUE]
        PROVE  ships[h] \in HullRow /\ ships[h].by /= None
    BY <2>2, NoneAssumption DEF HullRow
  <2>. DEFINE Owned == {[corp |-> c, link |-> c, by |-> p, byoa |-> q, live |-> TRUE] :
                          c \in {d \in Corps : corps[d].founder /= None}, p \in Players,
                          q \in Players \cup {None}}
  <2>. HIDE DEF Owned
  <2>3. ships \in [Hulls -> {Unbuilt} \cup Owned]
    BY DEF Init, Owned
  <2>4. ASSUME NEW r \in Owned
        PROVE  \E c \in Corps, p \in Players, q \in Players \cup {None} :
                 r = [corp |-> c, link |-> c, by |-> p, byoa |-> q, live |-> TRUE]
    BY <2>4 DEF Owned
  <2>5. CASE ships[h] \in Owned
    BY <2>2, <2>4, <2>5
  <2>6. ships[h] \in {Unbuilt} \cup Owned
    BY <2>3
  <2>. QED
    BY <2>1, <2>5, <2>6
<1>5. TypeOK
  <2>1. corps \in [Corps -> [founder : Players \cup {None}, gone : BOOLEAN]]
    \* a conjunct of Init as it stands
    <3>1. corps \in [Corps -> [founder : Players \cup {None}, gone : {FALSE}]]
      BY PTL DEF Init
    <3>. QED
      BY <3>1
  <2>2. member \in [Corps -> SUBSET Players]
    BY DEF Init
  <2>3. affil \in [Players -> Corps \cup {None}]
    BY DEF Init
  <2>4. ships \in [Hulls -> HullRow]
    BY <1>4 DEF Init
  <2>5. \A j \in Jobs : Shaped(plans[j])
    BY <1>2 DEF Shaped
  <2>6. plans = [j \in Jobs |-> plans[j]]
    BY <1>1
  <2>. QED
    BY <2>1, <2>2, <2>3, <2>4, <2>5, <2>6 DEF TypeOK
<1>6. Bought
  BY <1>4 DEF Bought
<1>7. AllNamed
  BY <1>2 DEF AllNamed, Named
<1>8. Buyers /\ NewHulls /\ Exclusive /\ Room
  BY <1>3 DEF Buyers, NewHulls, Exclusive, Room
<1>9. ShipCap
  BY DEF Init, ShipCap
<1>. QED
  BY <1>5, <1>6, <1>7, <1>8, <1>9 DEF Inv

LEMMA StartsListed ==
  ASSUME Init
  PROVE  listed = [j \in Jobs |-> {}]
  BY PTL DEF Init

LEMMA KeepsAsk ==
  ASSUME Inv, NEW j \in Jobs, AskStep(j)
  PROVE  Inv'
  BY KeepsAskCreate, KeepsAskJoin, KeepsAskBuy, KeepsAskLeave, KeepsAskKick, KeepsAskSell,
     KeepsAskClaim, KeepsAskUnclaim, KeepsAskWreck DEF AskStep

LEMMA KeepsRolls ==
  ASSUME Inv, Noted, NEW j \in Jobs, RollStep(j)
  PROVE  Inv'
  BY KeepsFound, KeepsEnrol, KeepsStamp, KeepsLeft, KeepsList, KeepsRelease, KeepsClose DEF RollStep

LEMMA KeepsShips ==
  ASSUME Inv, NEW j \in Jobs, ShipStep(j)
  PROVE  Inv'
  BY KeepsLock, KeepsCount, KeepsBuild, KeepsLink, KeepsUnlock, KeepsClaim, KeepsUnclaim,
     KeepsUnlink, KeepsScrap, KeepsDestroy DEF ShipStep

LEMMA OthersKeepShips ==
  ASSUME NEW j \in Jobs,
         \/ AskStep(j) \/ Found(j) \/ Enrol(j) \/ Stamp(j) \/ Left(j) \/ List(j) \/ Close(j)
         \/ EndEarly(j)
  PROVE  UNCHANGED ships
<1>1. CASE AskStep(j)
  <2>1. ASSUME NEW p, NEW c, AskCreate(j, p, c) \/ AskJoin(j, p, c) \/ AskBuy(j, p, c)
        PROVE  UNCHANGED ships
    BY <2>1 DEF AskCreate, AskJoin, AskBuy, Ask, rows
  <2>2. ASSUME NEW p, AskLeave(j, p) \/ \E q : AskKick(j, p, q)
        PROVE  UNCHANGED ships
    BY <2>2 DEF AskLeave, AskKick, Ask, rows
  <2>3. ASSUME NEW p, NEW h, AskSell(j, p, h) \/ AskClaim(j, p, h) \/ AskUnclaim(j, p, h)
        PROVE  UNCHANGED ships
    BY <2>3 DEF AskSell, AskClaim, AskUnclaim, Ask, rows
  <2>4. ASSUME NEW h, AskWreck(j, h) PROVE UNCHANGED ships
    BY <2>4, Zenon DEF AskWreck, Ask, rows
  <2>. QED
    BY <1>1, <2>1, <2>2, <2>3, <2>4, SMTT(30) DEF AskStep
<1>2. CASE \/ Found(j) \/ Enrol(j) \/ Stamp(j) \/ Left(j) \/ List(j) \/ Close(j)
           \/ EndEarly(j)
  BY <1>2, Zenon DEF Found, Enrol, Stamp, Left, List, Close, EndEarly, rows
<1>. QED
  BY <1>1, <1>2

\* A ship that was bought stays so.
LEMMA StaysBought ==
  ASSUME Inv, NEW j \in Jobs, ShipStep(j) \/ Release(j)
  PROVE  \A h \in Hulls : ships[h].by /= None => ships'[h].by /= None
<1>. USE DEF Inv, TypeOK, HullRow
<1>1. CASE Lock(j) \/ Count(j) \/ Unlock(j)
  BY <1>1 DEF Lock, Count, Unlock, rows
<1>2. CASE Build(j)
  <2>1. PICK h \in Hulls : ships[h] = Unbuilt /\ \E r : ships' = [ships EXCEPT ![h] = r]
    BY <1>2 DEF Build
  <2>2. ships[h].by = None
    BY <2>1 DEF Unbuilt
  <2>. QED
    BY <2>1, <2>2
<1>3. CASE Link(j)
  <2>1. PICK p \in Players, c \in Corps, h \in Hulls : plans[j] = ToLink(p, c, h)
    BY <1>3, DueUnderLock DEF Link
  <2>2. Head(plans[j]).who = {p}
    BY <2>1 DEF ToLink, Do
  <2>3. PICK g, c2 : ships' = [ships EXCEPT ![g].link = c2, ![g].by = p]
    BY <1>3, <2>2 DEF Link
  <2>. QED
    BY <2>3, NoneAssumption
<1>4. CASE Claim(j)
  <2>1. PICK p, h : ships' = [ships EXCEPT ![h].byoa = p] \/ ships' = ships
    BY <1>4 DEF Claim
  <2>. QED
    BY <2>1
<1>5. CASE Unclaim(j)
  <2>1. PICK h : ships' = [ships EXCEPT ![h].byoa = None] \/ ships' = ships
    BY <1>5 DEF Unclaim
  <2>. QED
    BY <2>1
<1>6. CASE Unlink(j)
  <2>1. PICK h, c : ships' = [ships EXCEPT ![h].link = IF @ = c THEN None ELSE @]
    BY <1>6 DEF Unlink
  <2>. QED
    BY <2>1
<1>7. CASE Scrap(j)
  <2>1. PICK h : ships' = [ships EXCEPT ![h].corp = None, ![h].live = FALSE]
    BY <1>7 DEF Scrap
  <2>. QED
    BY <2>1
<1>8. CASE Destroy(j)
  <2>1. PICK h : ships' = [ships EXCEPT ![h].live = FALSE]
    BY <1>8 DEF Destroy
  <2>. QED
    BY <2>1
<1>9. CASE Release(j)
  BY <1>9 DEF Release
<1>. QED
  BY <1>1, <1>2, <1>3, <1>4, <1>5, <1>6, <1>7, <1>8, <1>9 DEF ShipStep

\* Only two statements, and the end of a call, change what is listed.
LEMMA SameList ==
  ASSUME NEW j \in Jobs,
         \/ AskStep(j) \/ Found(j) \/ Enrol(j) \/ Stamp(j) \/ Left(j) \/ Close(j) \/ ShipStep(j)
  PROVE  listed' = listed
<1>1. CASE AskStep(j)
  <2>1. ASSUME NEW p, NEW c, AskCreate(j, p, c) \/ AskJoin(j, p, c) \/ AskBuy(j, p, c)
        PROVE  listed' = listed
    BY <2>1 DEF AskCreate, AskJoin, AskBuy, Ask
  <2>2. ASSUME NEW p, AskLeave(j, p) \/ \E q : AskKick(j, p, q)
        PROVE  listed' = listed
    BY <2>2 DEF AskLeave, AskKick, Ask
  <2>3. ASSUME NEW p, NEW h, AskSell(j, p, h) \/ AskClaim(j, p, h) \/ AskUnclaim(j, p, h)
        PROVE  listed' = listed
    BY <2>3 DEF AskSell, AskClaim, AskUnclaim, Ask
  <2>4. ASSUME NEW h, AskWreck(j, h) PROVE listed' = listed
    BY <2>4, Zenon DEF AskWreck, Ask
  <2>. QED
    BY <1>1, <2>1, <2>2, <2>3, <2>4, SMTT(30) DEF AskStep
<1>2. CASE Found(j) \/ Enrol(j) \/ Stamp(j) \/ Left(j) \/ Close(j)
  BY <1>2, Zenon DEF Found, Enrol, Stamp, Left, Close, Settled
<1>3. CASE ShipStep(j)
  BY <1>3, Zenon DEF ShipStep, Lock, Count, Build, Link, Unlock, Claim, Unclaim, Unlink, Scrap,
     Destroy, Settled
<1>. QED
  BY <1>1, <1>2, <1>3

LEMMA NotedStep ==
  ASSUME Inv, Noted, [Next]_vars
  PROVE  Noted'
<1>1. ASSUME listed' \in [Jobs -> SUBSET Hulls],
             \A h \in Hulls : ships[h].by /= None => ships'[h].by /= None,
             \A k \in Jobs : \A h \in listed'[k] : ships[h].by /= None
      PROVE  Noted'
  BY <1>1 DEF Noted
<1>2. ASSUME NEW j \in Jobs,
             \/ AskStep(j) \/ Found(j) \/ Enrol(j) \/ Stamp(j) \/ Left(j) \/ Close(j) \/ ShipStep(j)
      PROVE  Noted'
  <2>1. listed' = listed
    BY <1>2, SameList
  <2>2. \A h \in Hulls : ships[h].by /= None => ships'[h].by /= None
    BY <1>2, OthersKeepShips, StaysBought
  <2>. QED
    BY <1>1, <2>1, <2>2 DEF Noted
<1>3. ASSUME NEW j \in Jobs, List(j) PROVE Noted'
  <2>1. PICK c : c = Head(plans[j]).corp /\ c \in Corps
    BY <1>3, DueFree, FreeFields DEF List, RollOps
  <2>2. listed' = [listed EXCEPT ![j] = Fleet(c)] /\ ships' = ships
    BY <1>3, <2>1 DEF List, rows
  <2>3. Fleet(c) \in SUBSET Hulls /\ \A h \in Fleet(c) : ships[h].by /= None
    BY <2>1, NoneAssumption DEF Fleet, Inv, Bought
  <2>. QED
    BY <1>1, <2>2, <2>3 DEF Noted
<1>4. ASSUME NEW j \in Jobs, Release(j) PROVE Noted'
  <2>1. listed' = [listed EXCEPT ![j] = {}]
    BY <1>4 DEF Release
  <2>2. \A h \in Hulls : ships[h].by /= None => ships'[h].by /= None
    BY <1>4, StaysBought
  <2>. QED
    BY <1>1, <2>1, <2>2 DEF Noted
<1>5. ASSUME NEW j \in Jobs, EndEarly(j) PROVE Noted'
  <2>1. listed' = [listed EXCEPT ![j] = {}] /\ ships' = ships
    BY <1>5 DEF EndEarly, rows
  <2>. QED
    BY <1>1, <2>1 DEF Noted
<1>6. CASE UNCHANGED vars
  BY <1>1, <1>6 DEF vars, rows, Noted
<1>. QED
  BY <1>2, <1>3, <1>4, <1>5, <1>6 DEF Next, RollStep

(* Everything the invariant says, in every state of every behaviour.       *)
THEOREM Invariant == Spec => []Inv /\ []Noted
<1>1. Init => Inv /\ Noted
  <2>. SUFFICES ASSUME Init PROVE Noted
    BY Starts
  <2>1. \A j \in Jobs : listed[j] = {}
    BY StartsListed
  <2>. QED
    BY <2>1, StartsListed DEF Noted
<1>2. Inv /\ Noted /\ [Next]_vars => Inv' /\ Noted'
  <2>. SUFFICES ASSUME Inv, Noted, [Next]_vars PROVE Inv'
    BY NotedStep
  <2>1. CASE Next
    BY <2>1, KeepsAsk, KeepsRolls, KeepsShips, KeepsEndEarly DEF Next
  <2>2. CASE UNCHANGED vars
    BY <2>2 DEF vars, rows, Inv, TypeOK, Bought, AllNamed, Named, Buyers, NewHulls,
                Exclusive, Room, ShipCap, Counted
  <2>. QED
    BY <2>1, <2>2
<1>. QED
  BY <1>1, <1>2, PTL DEF Spec

(* No player ever has more ships in a corporation than the cap allows, for *)
(* any cap and any number of purchases and releases under way, and of      *)
(* calls that end between two of their statements. ship_purchase counts,   *)
(* builds and registers under the same lock as the release of a claimed    *)
(* ship, which raises the count too.                                       *)
THEOREM CapHolds == Spec => []ShipCap
<1>1. Inv => ShipCap
  BY DEF Inv
<1>. QED
  BY <1>1, Invariant, PTL

\* What a step may do to the claims.
ClaimsKept == \A h \in Hulls : ships[h].byoa /= None => ships'[h].byoa \in {None, ships[h].byoa}

LEMMA ClaimsStand ==
  ASSUME TypeOK, NEW j \in Jobs, ShipStep(j) \/ Release(j)
  PROVE  ClaimsKept
<1>. USE DEF TypeOK, HullRow, ClaimsKept
<1>1. CASE Lock(j) \/ Count(j) \/ Unlock(j)
  BY <1>1 DEF Lock, Count, Unlock, rows
<1>2. CASE Build(j)
  <2>1. PICK h \in Hulls : ships[h] = Unbuilt /\ \E r : ships' = [ships EXCEPT ![h] = r]
    BY <1>2 DEF Build
  <2>2. ships[h].byoa = None
    BY <2>1 DEF Unbuilt
  <2>. QED
    BY <2>1, <2>2
<1>3. CASE Link(j)
  <2>1. PICK p, c, h : ships' = [ships EXCEPT ![h].link = c, ![h].by = p]
    BY <1>3 DEF Link
  <2>. QED
    BY <2>1
<1>4. CASE Claim(j)
  <2>1. PICK p, h, c :
          ships' = IF Unmoved(h, c, None) THEN [ships EXCEPT ![h].byoa = p] ELSE ships
    BY <1>4 DEF Claim
  <2>. QED
    BY <2>1 DEF Unmoved
<1>5. CASE Unclaim(j)
  <2>1. PICK p, h, c :
          ships' = IF Unmoved(h, c, p) THEN [ships EXCEPT ![h].byoa = None] ELSE ships
    BY <1>5 DEF Unclaim
  <2>. QED
    BY <2>1
<1>6. CASE Unlink(j)
  <2>1. PICK h, c : ships' = [ships EXCEPT ![h].link = IF @ = c THEN None ELSE @]
    BY <1>6 DEF Unlink
  <2>. QED
    BY <2>1
<1>7. CASE Scrap(j)
  <2>1. PICK h : ships' = [ships EXCEPT ![h].corp = None, ![h].live = FALSE]
    BY <1>7 DEF Scrap
  <2>. QED
    BY <2>1
<1>8. CASE Destroy(j)
  <2>1. PICK h : ships' = [ships EXCEPT ![h].live = FALSE]
    BY <1>8 DEF Destroy
  <2>. QED
    BY <2>1
<1>9. CASE Release(j)
  <2>1. ships' = [h \in Hulls |-> IF h \in listed[j] THEN [ships[h] EXCEPT !.corp = None]
                                  ELSE ships[h]]
    BY <1>9 DEF Release
  <2>. QED
    BY <2>1
<1>. QED
  BY <1>1, <1>2, <1>3, <1>4, <1>5, <1>6, <1>7, <1>8, <1>9 DEF ShipStep

(* No step takes a claimed ship from the player who claimed it to give it  *)
(* to another, for any number of claims and releases under way: the update *)
(* of updateByoaState asks again who has claimed the ship.                 *)
THEOREM ClaimsAreHeld == Spec => ClaimsHeld
<1>1. Inv /\ [Next]_vars => [ClaimsKept]_vars
  <2>. SUFFICES ASSUME Inv, Next PROVE ClaimsKept
    OBVIOUS
  <2>1. PICK j \in Jobs : AskStep(j) \/ RollStep(j) \/ ShipStep(j) \/ EndEarly(j)
    BY DEF Next
  <2>2. CASE ShipStep(j) \/ Release(j)
    BY <2>2, ClaimsStand DEF Inv
  <2>3. CASE ~(ShipStep(j) \/ Release(j))
    BY <2>1, <2>3, OthersKeepShips DEF RollStep, ClaimsKept
  <2>. QED
    BY <2>2, <2>3
<1>2. Spec => [][ClaimsKept]_vars
  BY <1>1, Invariant, PTL DEF Spec
<1>. QED
  BY <1>2 DEF ClaimsHeld, ClaimsKept

-----------------------------------------------------------------------------
(* The rolls. What follows in a plan undoes or completes what a statement  *)
(* began: this is said of the statements themselves, and what the plans    *)
(* have still to do is then related to the two tables.                     *)

\* A statement of this kind, about player p in corporation c, is among these.
Has(L, op, p, c) == \E s \in L : s.op = op /\ p \in s.who /\ s.corp = c
Owes(plan, op, p, c) == Has(Statements(plan), op, p, c)
Founds(plan, c) == \E s \in Statements(plan) : s.op = "found" /\ s.corp = c

\* What is left of a plan after one of its statements.
FollowsLeft(s, L) ==
  s.op = "left" => \A p \in s.who :
    /\ \E v \in Corps \cup {None} : Has(L, "stamp", p, v)
    /\ \A c \in Corps : Has(L, "stamp", p, c) => Has(L, "enrol", p, c)
FollowsEnrol(s, L) ==
  s.op = "enrol" => \A p \in s.who :
    /\ Has(L, "stamp", p, s.corp)
    /\ \A v : /\ Has(L, "stamp", p, v) => v = s.corp
              /\ ~Has(L, "left", p, v) /\ ~Has(L, "enrol", p, v)
FollowsStamp(s, L) ==
  s.op = "stamp" => \A p \in s.who : \A v : ~Has(L, "stamp", p, v) /\ ~Has(L, "left", p, v)
                                        /\ ~Has(L, "enrol", p, v)
FollowsFound(s, L) ==
  /\ s.op = "found" => \E p \in Players : s.who = {p} /\ Has(L, "enrol", p, s.corp)
  /\ \A t \in L : t.op /= "found"
FollowsOther(s, L) ==
  /\ s.op = "list" => (\E t \in L : t.op = "release") /\ \A t \in L : t.op /= "list"
  /\ s.op = "close" => \A t \in L : ~(t.op = "list" /\ t.corp = s.corp)
  /\ s.op = "unlink" => \A t \in L : t.op /= "destroy"
Follows(s, L) == /\ FollowsLeft(s, L) /\ FollowsEnrol(s, L) /\ FollowsStamp(s, L)
                 /\ FollowsFound(s, L) /\ FollowsOther(s, L)

Later(plan, i) == {plan[k] : k \in (i + 1)..Len(plan)}
Orderly(plan) == \A i \in 1..Len(plan) : Follows(plan[i], Later(plan, i))
AllOrderly == \A j \in Jobs : plans[j] \in Seq(Free) => Orderly(plans[j])

\* Only a row that is not there yet is founded, by one call, and only a
\* corporation that is there is joined, left or disbanded.
Founders ==
  /\ \A j \in Jobs, c \in Corps : Founds(plans[j], c) => corps[c].founder = None
  /\ \A j, k \in Jobs, c \in Corps : Founds(plans[j], c) /\ Founds(plans[k], c) => j = k
  /\ \A c \in Corps :
       member[c] /= {} \/ corps[c].gone \/ (\E j \in Jobs : Closes(plans[j], c)) =>
         corps[c].founder /= None
  /\ \A j \in Jobs, c \in Corps :
       Fills(plans[j], c) /\ ~Founds(plans[j], c) => corps[c].founder /= None

Pending(op, p, c) == \E j \in Jobs : Owes(plans[j], op, p, c)
Closing(c) == \E j \in Jobs : Closes(plans[j], c)
Filling(c) == \E j \in Jobs : Fills(plans[j], c)

Unmet == \A j, k \in Jobs : j /= k => ~Meet(plans[j], plans[k])

\* The tables agree on a player to whom nothing is going to happen; one who
\* is being stamped is leaving whatever he is in, or has been enrolled.
Settles(p) ==
  (\A v \in Corps \cup {None} : ~Pending("stamp", p, v)) =>
    \A c \in Corps : p \in member[c] <=> affil[p] = c
Leaves(p) ==
  \/ Pending("stamp", p, None)
  \/ \E c \in Corps : Pending("stamp", p, c) /\ Pending("enrol", p, c)
Departs(p) == Leaves(p) => \A c \in Corps : p \in member[c] => Pending("left", p, c)
Arrives(p) ==
  \A c \in Corps : Pending("stamp", p, c) /\ ~Pending("enrol", p, c) =>
    \A d \in Corps : p \in member[d] <=> d = c

Led(c) ==
  Active(c) /\ ~Closing(c) =>
    \/ Pending("enrol", corps[c].founder, c)
    \/ corps[c].founder \in member[c] /\ ~Pending("left", corps[c].founder, c)
Emptied(c) ==
  corps[c].gone \/ Closing(c) => (\A p \in member[c] : Pending("left", p, c)) /\ ~Filling(c)

Agreeing == /\ Unmet
            /\ \A p \in Players : Settles(p) /\ Departs(p) /\ Arrives(p)
            /\ \A c \in Corps : Led(c) /\ Emptied(c)
Rolls == AllOrderly /\ Founders /\ (~crossed => Agreeing)

-----------------------------------------------------------------------------
(* Plans, a statement at a time.                                           *)

\* A plan is its first statement and the rest.
LEMMA FirstAndRest ==
  ASSUME NEW S, NEW plan \in Seq(S), NEW q \in Seq(S), Len(plan) = Len(q) + 1,
         \A i \in 1..Len(q) : plan[i + 1] = q[i]
  PROVE  /\ Statements(plan) = {plan[1]} \cup Statements(q)
         /\ Orderly(plan) <=> Follows(plan[1], Statements(q)) /\ Orderly(q)
<1>1. Len(q) \in Nat /\ Len(plan) \in Nat /\ Len(plan) = Len(q) + 1
  OBVIOUS
<1>2. \A a \in Nat \ {0} :
        /\ \A k \in (a + 1)..Len(plan) : \E i \in a..Len(q) : plan[k] = q[i]
        /\ \A i \in a..Len(q) : \E k \in (a + 1)..Len(plan) : q[i] = plan[k]
  <2>. SUFFICES ASSUME NEW a \in Nat \ {0}
                PROVE  /\ \A k \in (a + 1)..Len(plan) : \E i \in a..Len(q) : plan[k] = q[i]
                       /\ \A i \in a..Len(q) : \E k \in (a + 1)..Len(plan) : q[i] = plan[k]
    OBVIOUS
  <2>1. ASSUME NEW k \in (a + 1)..Len(plan) PROVE \E i \in a..Len(q) : plan[k] = q[i]
    <3>. DEFINE i == k - 1
    <3>1. i \in a..Len(q) /\ i \in 1..Len(q) /\ k = i + 1
      BY <1>1
    <3>. HIDE DEF i
    <3>2. plan[k] = q[i]
      BY <3>1
    <3>. QED
      BY <3>1, <3>2
  <2>2. ASSUME NEW i \in a..Len(q) PROVE \E k \in (a + 1)..Len(plan) : q[i] = plan[k]
    <3>. DEFINE k == i + 1
    <3>1. k \in (a + 1)..Len(plan) /\ i \in 1..Len(q) /\ plan[k] = q[i]
      BY <1>1
    <3>. HIDE DEF k
    <3>. QED
      BY <3>1
  <2>. QED
    BY <2>1, <2>2
<1>3. \A a \in Nat \ {0} : {plan[k] : k \in (a + 1)..Len(plan)} = {q[k] : k \in a..Len(q)}
  <2>. SUFFICES ASSUME NEW a \in Nat \ {0}
                PROVE  {plan[k] : k \in (a + 1)..Len(plan)} = {q[k] : k \in a..Len(q)}
    OBVIOUS
  <2>. DEFINE I == a..Len(q)
              K == (a + 1)..Len(plan)
  <2>1. /\ \A k \in K : \E i \in I : plan[k] = q[i]
        /\ \A i \in I : \E k \in K : q[i] = plan[k]
    BY <1>2
  <2>. HIDE DEF I, K
  <2>2. {plan[k] : k \in K} = {q[k] : k \in I}
    BY <2>1
  <2>. QED
    BY <2>2 DEF I, K
<1>4. Later(plan, 1) = Statements(q)
  <2>1. 1 \in Nat \ {0}
    OBVIOUS
  <2>. QED
    BY <1>3, <2>1, Zenon DEF Later, Statements
<1>5. ASSUME NEW i \in 1..Len(q)
      PROVE  Later(plan, i + 1) = Later(q, i)
  <2>1. i + 1 \in Nat \ {0}
    BY <1>1
  <2>. QED
    BY <1>3, <2>1, Zenon DEF Later
<1>6. Statements(plan) = {plan[1]} \cup Statements(q)
  <2>1. \A k \in 1..Len(plan) : k = 1 \/ k \in (1 + 1)..Len(plan)
    BY <1>1
  <2>2. /\ \A k \in (1 + 1)..Len(plan) : k \in 1..Len(plan)
        /\ 1 \in 1..Len(plan)
    BY <1>1
  <2>3. Statements(plan) = {plan[1]} \cup Later(plan, 1)
    BY <2>1, <2>2 DEF Statements, Later
  <2>. QED
    BY <1>4, <2>3
<1>7. Orderly(plan) => Follows(plan[1], Statements(q)) /\ Orderly(q)
  <2>. SUFFICES ASSUME Orderly(plan) PROVE Follows(plan[1], Statements(q)) /\ Orderly(q)
    OBVIOUS
  <2>1. Follows(plan[1], Statements(q))
    BY <1>1, <1>4 DEF Orderly
  <2>2. ASSUME NEW i \in 1..Len(q) PROVE Follows(q[i], Later(q, i))
    <3>1. i + 1 \in 1..Len(plan) /\ plan[i + 1] = q[i] /\ Later(plan, i + 1) = Later(q, i)
      BY <1>1, <1>5
    <3>. QED
      BY <3>1 DEF Orderly
  <2>. QED
    BY <2>1, <2>2 DEF Orderly
<1>8. ASSUME Follows(plan[1], Statements(q)), Orderly(q), NEW i \in 1..Len(plan)
      PROVE  Follows(plan[i], Later(plan, i))
  <2>1. CASE i = 1
    BY <1>4, <1>8, <2>1
  <2>2. CASE i /= 1
    <3>. DEFINE k == i - 1
    <3>1. k \in 1..Len(q) /\ i = k + 1
      BY <1>1, <2>2
    <3>. HIDE DEF k
    <3>2. plan[i] = q[k]
      BY <1>1, <3>1
    <3>3. Later(plan, i) = Later(q, k) /\ Follows(q[k], Later(q, k))
      BY <1>5, <1>8, <3>1 DEF Orderly
    <3>. QED
      BY <3>2, <3>3
  <2>. QED
    BY <2>1, <2>2
<1>. QED
  BY <1>6, <1>7, <1>8 DEF Orderly

LEMMA Prefixed ==
  ASSUME NEW S, NEW s \in S, NEW q \in Seq(S)
  PROVE  /\ <<s>> \o q \in Seq(S)
         /\ Statements(<<s>> \o q) = {s} \cup Statements(q)
         /\ Orderly(<<s>> \o q) <=> Follows(s, Statements(q)) /\ Orderly(q)
<1>. DEFINE one == <<s>>
            plan == one \o q
<1>1. one \in Seq(S) /\ Len(one) = 1 /\ one[1] = s /\ Len(q) \in Nat
  OBVIOUS
<1>. HIDE DEF one
<1>2. /\ plan \in Seq(S) /\ Len(plan) = Len(one) + Len(q)
      /\ \A i \in 1 .. Len(one) + Len(q) :
           plan[i] = IF i <= Len(one) THEN one[i] ELSE q[i - Len(one)]
  BY <1>1, ConcatProperties, Zenon
<1>. HIDE DEF plan
<1>3. Len(plan) = Len(q) + 1 /\ plan[1] = s
  BY <1>1, <1>2
<1>4. \A i \in 1..Len(q) : plan[i + 1] = q[i]
  BY <1>1, <1>2
<1>5. /\ Statements(plan) = {plan[1]} \cup Statements(q)
      /\ Orderly(plan) <=> Follows(plan[1], Statements(q)) /\ Orderly(q)
  BY <1>2, <1>3, <1>4, FirstAndRest
<1>. QED
  BY <1>2, <1>3, <1>5 DEF plan, one

LEMMA HeadFirst ==
  ASSUME NEW S, NEW plan \in Seq(S), plan /= << >>
  PROVE  /\ Statements(plan) = {Head(plan)} \cup Statements(Tail(plan))
         /\ Orderly(plan) <=> Follows(Head(plan), Statements(Tail(plan))) /\ Orderly(Tail(plan))
<1>. DEFINE q == Tail(plan)
<1>1. /\ q \in Seq(S) /\ Len(plan) = Len(q) + 1 /\ Head(plan) = plan[1]
      /\ \A i \in 1..Len(q) : plan[i + 1] = q[i]
  OBVIOUS
<1>. HIDE DEF q
<1>2. /\ Statements(plan) = {plan[1]} \cup Statements(q)
      /\ Orderly(plan) <=> Follows(plan[1], Statements(q)) /\ Orderly(q)
  BY <1>1, FirstAndRest
<1>. QED
  BY <1>1, <1>2 DEF q

LEMMA EmptyOrder == Orderly(<< >>) /\ Statements(<< >>) = {}
  BY EmptyPlan DEF Orderly

\* What a plan says as a whole is what its first statement says or the rest.
Told(plan, s, q) ==
  /\ \A op, p, c : Owes(plan, op, p, c) <=>
                     Owes(q, op, p, c) \/ (s.op = op /\ p \in s.who /\ s.corp = c)
  /\ \A c : Closes(plan, c) <=> Closes(q, c) \/ (s.op = "close" /\ s.corp = c)
  /\ \A c : Founds(plan, c) <=> Founds(q, c) \/ (s.op = "found" /\ s.corp = c)
  /\ \A c : Fills(plan, c) <=> Fills(q, c) \/ (s.op \in {"enrol", "stamp"} /\ s.corp = c)

LEMMA Telling ==
  ASSUME NEW plan, NEW s, NEW q, Statements(plan) = {s} \cup Statements(q)
  PROVE  Told(plan, s, q)
<1>1. \A op, p, c : Owes(plan, op, p, c) <=>
                     Owes(q, op, p, c) \/ (s.op = op /\ p \in s.who /\ s.corp = c)
  BY DEF Owes, Has
<1>2. \A c : Closes(plan, c) <=> Closes(q, c) \/ (s.op = "close" /\ s.corp = c)
  BY DEF Closes
<1>3. \A c : Founds(plan, c) <=> Founds(q, c) \/ (s.op = "found" /\ s.corp = c)
  BY DEF Founds
<1>4. \A c : Fills(plan, c) <=> Fills(q, c) \/ (s.op \in {"enrol", "stamp"} /\ s.corp = c)
  BY DEF Fills
<1>. QED
  BY <1>1, <1>2, <1>3, <1>4 DEF Told

\* What two plans meet over.
Typed(plan) ==
  /\ \A p \in Players :
       Enrols(plan, p) <=> \E c \in Corps : Owes(plan, "enrol", p, c) \/ Owes(plan, "stamp", p, c)
  /\ \A p \in Players :
       Moves(plan, p) <=> \E v \in Corps \cup {None} :
                            \/ Owes(plan, "enrol", p, v) \/ Owes(plan, "stamp", p, v)
                            \/ Owes(plan, "left", p, v)
  /\ \A p, v : Owes(plan, "enrol", p, v) \/ Owes(plan, "left", p, v) => v \in Corps
  /\ \A p, v : Owes(plan, "stamp", p, v) => v \in Corps \cup {None}
  /\ \A p, c : Owes(plan, "enrol", p, c) \/ Owes(plan, "stamp", p, c) => Fills(plan, c)

LEMMA Typing ==
  ASSUME NEW plan, \A s \in Statements(plan) : s.op \in RollOps => s \in Free
  PROVE  Typed(plan)
<1>1. \A s \in Statements(plan) : s.op \in {"enrol", "stamp", "left"} =>
         /\ s.corp \in Corps \cup {None} /\ (s.op /= "stamp" => s.corp \in Corps)
  BY FreeFields DEF RollOps
<1>2. None \notin Corps
  BY NoneAssumption
<1>3. ASSUME NEW p \in Players
      PROVE  Enrols(plan, p) <=>
               \E c \in Corps : Owes(plan, "enrol", p, c) \/ Owes(plan, "stamp", p, c)
  BY <1>1, <1>2 DEF Enrols, Owes, Has
<1>4. ASSUME NEW p \in Players
      PROVE  Moves(plan, p) <=> \E v \in Corps \cup {None} :
                            \/ Owes(plan, "enrol", p, v) \/ Owes(plan, "stamp", p, v)
                            \/ Owes(plan, "left", p, v)
  BY <1>1 DEF Moves, Owes, Has
<1>5. /\ \A p, v : Owes(plan, "enrol", p, v) \/ Owes(plan, "left", p, v) => v \in Corps
      /\ \A p, v : Owes(plan, "stamp", p, v) => v \in Corps \cup {None}
  BY <1>1 DEF Owes, Has
<1>6. \A p, c : Owes(plan, "enrol", p, c) \/ Owes(plan, "stamp", p, c) => Fills(plan, c)
  BY DEF Owes, Has, Fills
<1>. QED
  BY <1>3, <1>4, <1>5, <1>6 DEF Typed

\* No plan that needs a lock is on the rolls.
LEMMA OnTheRolls ==
  ASSUME NEW plan, Shaped(plan), NEW s \in Statements(plan), s.op \in RollOps
  PROVE  plan \in Seq(Free) /\ s \in Free
<1>1. ASSUME NEW p \in Players, NEW c \in Corps, Waiting(plan, p, c) \/ Locking(plan, p, c)
      PROVE  FALSE
  BY <1>1, Unnamed
<1>2. plan \in Seq(Free)
  BY <1>1 DEF Shaped
<1>. QED
  BY <1>2 DEF Statements

LEMMA PlansTyped ==
  ASSUME NEW plan, Shaped(plan)
  PROVE  Typed(plan)
  BY OnTheRolls, Typing

-----------------------------------------------------------------------------
(* One plan moves on.                                                      *)

LEMMA OneMoves ==
  ASSUME Inv, NEW j \in Jobs, NEW q, plans' = [plans EXCEPT ![j] = q]
  PROVE  plans'[j] = q /\ \A k \in Jobs \ {j} : plans'[k] = plans[k]
  BY DEF Inv, TypeOK

LEMMA AllTyped ==
  ASSUME Inv, NEW j \in Jobs
  PROVE  Typed(plans[j])
  BY PlansTyped DEF Inv, TypeOK

LEMMA AllTypedNext ==
  ASSUME Inv', NEW j \in Jobs
  PROVE  Typed(plans'[j])
  BY PlansTyped DEF Inv, TypeOK

LEMMA Pops ==
  ASSUME Inv, AllOrderly, NEW j \in Jobs, NEW op \in RollOps \cup HullOps, Due(j, op)
  PROVE  /\ Head(plans[j]) \in Free /\ Head(plans[j]).op = op
         /\ Tail(plans[j]) \in Seq(Free)
         /\ Statements(plans[j]) = {Head(plans[j])} \cup Statements(Tail(plans[j]))
         /\ Follows(Head(plans[j]), Statements(Tail(plans[j]))) /\ Orderly(Tail(plans[j]))
         /\ Told(plans[j], Head(plans[j]), Tail(plans[j]))
<1>1. /\ plans[j] \in Seq(Free) /\ plans[j] /= << >>
      /\ Head(plans[j]) \in Free /\ Head(plans[j]).op = op
      /\ Tail(plans[j]) \in Seq(Free)
  BY DueFree
<1>2. Orderly(plans[j])
  BY <1>1 DEF AllOrderly
<1>. QED
  BY <1>1, <1>2, HeadFirst, Telling

LEMMA Reordered ==
  ASSUME AllOrderly, NEW j \in Jobs, \A k \in Jobs \ {j} : plans'[k] = plans[k],
         plans'[j] \in Seq(Free) => Orderly(plans'[j])
  PROVE  AllOrderly'
<1>1. ASSUME NEW k \in Jobs, plans'[k] \in Seq(Free)
      PROVE  Orderly(plans'[k])
  BY <1>1 DEF AllOrderly
<1>. QED
  BY <1>1 DEF AllOrderly

\* The rest of the plans, seen from a plan that changes.
Elsewhere(j, op, p, c) == \E k \in Jobs \ {j} : Owes(plans[k], op, p, c)

LEMMA PendingParts ==
  ASSUME Inv, NEW j \in Jobs, NEW q, plans' = [plans EXCEPT ![j] = q]
  PROVE  /\ \A op, p, c : Pending(op, p, c) <=> Owes(plans[j], op, p, c) \/ Elsewhere(j, op, p, c)
         /\ \A op, p, c : Pending(op, p, c)' <=> Owes(q, op, p, c) \/ Elsewhere(j, op, p, c)
<1>1. plans'[j] = q /\ \A k \in Jobs \ {j} : plans'[k] = plans[k]
  BY OneMoves
<1>2. ASSUME NEW op, NEW p, NEW c
      PROVE  Pending(op, p, c) <=> Owes(plans[j], op, p, c) \/ Elsewhere(j, op, p, c)
  BY DEF Pending, Elsewhere
<1>3. ASSUME NEW op, NEW p, NEW c
      PROVE  Pending(op, p, c)' <=> Owes(q, op, p, c) \/ Elsewhere(j, op, p, c)
  BY <1>1 DEF Pending, Elsewhere, Owes
<1>. QED
  BY <1>2, <1>3

\* A plan that has less to do than before.
Less(q, plan) ==
  /\ \A op, p, c : Owes(q, op, p, c) => Owes(plan, op, p, c)
  /\ \A c : Closes(q, c) => Closes(plan, c)
  /\ \A c : Fills(q, c) => Fills(plan, c)

LEMMA LessMeets ==
  ASSUME Inv, Inv', NEW j \in Jobs, NEW q, plans' = [plans EXCEPT ![j] = q],
         Less(q, plans[j]), Unmet
  PROVE  Unmet'
<1>1. plans'[j] = q /\ \A k \in Jobs \ {j} : plans'[k] = plans[k]
  BY OneMoves
<1>2. Typed(q) /\ Typed(plans[j])
  BY <1>1, AllTyped, AllTypedNext
<1>3. /\ \A p \in Players : Enrols(q, p) => Enrols(plans[j], p)
      /\ \A p \in Players : Moves(q, p) => Moves(plans[j], p)
      /\ \A c \in Corps : Closes(q, c) => Closes(plans[j], c)
      /\ \A c \in Corps : Fills(q, c) => Fills(plans[j], c)
  BY <1>2 DEF Typed, Less
<1>4. ASSUME NEW k \in Jobs \ {j}
      PROVE  ~Meet(q, plans[k]) /\ ~Meet(plans[k], q)
  <2>1. ~Meet(plans[j], plans[k]) /\ ~Meet(plans[k], plans[j])
    BY DEF Unmet
  <2>. QED
    BY <1>3, <2>1 DEF Meet
<1>5. \A i, k \in Jobs : i /= k => ~Meet(plans'[i], plans'[k])
  BY <1>1, <1>4 DEF Unmet
<1>. QED
  BY <1>5 DEF Unmet, Meet, Enrols, Moves, Closes, Fills

\* A call that enrols a player is alone with him.
LEMMA Alone ==
  ASSUME Inv, Unmet, NEW j \in Jobs, NEW p \in Players, NEW c \in Corps,
         Owes(plans[j], "enrol", p, c) \/ Owes(plans[j], "stamp", p, c)
  PROVE  \A v : ~Elsewhere(j, "enrol", p, v) /\ ~Elsewhere(j, "stamp", p, v)
                /\ ~Elsewhere(j, "left", p, v)
<1>1. Enrols(plans[j], p)
  BY AllTyped DEF Typed
<1>2. ASSUME NEW k \in Jobs \ {j}
      PROVE  ~Moves(plans[k], p) /\ Typed(plans[k])
  BY <1>1, <1>2, AllTyped DEF Unmet, Meet
<1>. QED
  BY <1>2 DEF Typed, Elsewhere

\* What the first statement of a plan leaves to be done.
LEMMA Shrinks ==
  ASSUME Inv, Inv', AllOrderly, NEW j \in Jobs, NEW op \in RollOps \cup HullOps,
         Due(j, op), Done(j)
  PROVE  LET s == Head(plans[j])
         IN /\ \A o, p, c : Pending(o, p, c) <=>
                 Pending(o, p, c)' \/ (s.op = o /\ p \in s.who /\ s.corp = c)
            /\ \A c : Closing(c) <=> Closing(c)' \/ (s.op = "close" /\ s.corp = c)
            /\ \A c : Filling(c) <=> Filling(c)' \/ (s.op \in {"enrol", "stamp"} /\ s.corp = c)
            /\ Unmet => Unmet'
            /\ AllOrderly'
<1>. DEFINE s == Head(plans[j])
            q == Tail(plans[j])
<1>1. q \in Seq(Free) /\ Orderly(q) /\ Told(plans[j], s, q) /\ plans' = [plans EXCEPT ![j] = q]
  BY Pops DEF Done
<1>. HIDE DEF s, q
<1>2. plans'[j] = q /\ \A k \in Jobs \ {j} : plans'[k] = plans[k]
  BY <1>1, OneMoves
<1>3. \A o, p, c : Pending(o, p, c) <=>
                 Pending(o, p, c)' \/ (s.op = o /\ p \in s.who /\ s.corp = c)
  BY <1>1, PendingParts DEF Told
<1>4. ASSUME NEW c
      PROVE  Closing(c) <=> Closing(c)' \/ (s.op = "close" /\ s.corp = c)
  <2>1. Closing(c)' <=> \E k \in Jobs : Closes(plans'[k], c)
    BY DEF Closing, Closes
  <2>2. Closes(plans[j], c) <=> Closes(q, c) \/ (s.op = "close" /\ s.corp = c)
    BY <1>1 DEF Told
  <2>. QED
    BY <1>2, <2>1, <2>2 DEF Closing
<1>5. ASSUME NEW c
      PROVE  Filling(c) <=> Filling(c)' \/ (s.op \in {"enrol", "stamp"} /\ s.corp = c)
  <2>1. Filling(c)' <=> \E k \in Jobs : Fills(plans'[k], c)
    BY DEF Filling, Fills
  <2>2. Fills(plans[j], c) <=> Fills(q, c) \/ (s.op \in {"enrol", "stamp"} /\ s.corp = c)
    BY <1>1 DEF Told
  <2>. QED
    BY <1>2, <2>1, <2>2 DEF Filling
<1>6. Less(q, plans[j])
  BY <1>1 DEF Told, Less
<1>7. Unmet => Unmet'
  BY <1>1, <1>6, LessMeets
<1>8. AllOrderly'
  BY <1>1, <1>2, Reordered
<1>. QED
  BY <1>3, <1>4, <1>5, <1>7, <1>8 DEF s

-----------------------------------------------------------------------------
(* The statements about the rolls keep them in agreement.                  *)

Agrees(p) == Settles(p) /\ Departs(p) /\ Arrives(p)

\* A player of whom a step says nothing.
LEMMA Untouched ==
  ASSUME NEW p, Agrees(p),
         \A o \in {"enrol", "stamp", "left"} : \A v : Pending(o, p, v)' <=> Pending(o, p, v),
         affil'[p] = affil[p], \A c \in Corps : p \in member'[c] <=> p \in member[c]
  PROVE  Agrees(p)'
<1>1. Settles(p)'
  BY DEF Agrees, Settles
<1>2. Departs(p)'
  BY DEF Agrees, Departs, Leaves
<1>3. Arrives(p)'
  BY DEF Agrees, Arrives
<1>. QED
  BY <1>1, <1>2, <1>3 DEF Agrees

LEMMA Agreement ==
  ASSUME Unmet', \A p \in Players : Agrees(p)', \A c \in Corps : Led(c)' /\ Emptied(c)'
  PROVE  Agreeing'
  BY DEF Agreeing, Agrees

LEMMA LedBy ==
  ASSUME NEW c \in Corps, NEW f, corps'[c].founder = f,
         Pending("enrol", f, c)' \/ (f \in member'[c] /\ ~Pending("left", f, c)')
  PROVE  Led(c)'
<1>1. \A g : g = f => (Pending("enrol", g, c)' <=> Pending("enrol", f, c)')
                      /\ (Pending("left", g, c)' <=> Pending("left", f, c)')
  BY DEF Pending
<1>. QED
  BY <1>1 DEF Led

\* A corporation of which a step says nothing.
LEMMA RollStands ==
  ASSUME Agreeing, NEW c \in Corps, corps' = corps, member' = member,
         \A p : /\ Pending("enrol", p, c) <=> Pending("enrol", p, c)'
                /\ Pending("left", p, c) <=> Pending("left", p, c)',
         Closing(c) <=> Closing(c)', Filling(c)' => Filling(c)
  PROVE  Led(c)' /\ Emptied(c)'
<1>1. Led(c)'
  <2>1. PICK f : f = corps[c].founder
    OBVIOUS
  <2>2. CASE Active(c) /\ ~Closing(c)
    <3>1. Pending("enrol", f, c) \/ (f \in member[c] /\ ~Pending("left", f, c))
      BY <2>1, <2>2 DEF Agreeing, Led
    <3>. QED
      BY <2>1, <3>1, LedBy
  <2>3. CASE ~(Active(c) /\ ~Closing(c))
    BY <2>3 DEF Led, Active
  <2>. QED
    BY <2>2, <2>3
<1>2. Emptied(c)'
  BY DEF Agreeing, Emptied
<1>. QED
  BY <1>1, <1>2

LEMMA EnrolAgrees ==
  ASSUME Inv, Inv', AllOrderly, Agreeing, NEW j \in Jobs, Enrol(j)
  PROVE  Agreeing'
<1>0. PICK s, q : s = Head(plans[j]) /\ q = Tail(plans[j])
  OBVIOUS
<1>1. Due(j, "enrol") /\ Done(j) /\ UNCHANGED <<corps, affil, ships>>
      /\ member' = [member EXCEPT ![s.corp] = @ \cup s.who]
  BY <1>0 DEF Enrol
<1>2. /\ s \in Free /\ s.op = "enrol" /\ Follows(s, Statements(q)) /\ Told(plans[j], s, q)
      /\ plans' = [plans EXCEPT ![j] = q]
  BY <1>0, <1>1, Pops DEF RollOps, Done
<1>3. /\ \A o, p, c : Pending(o, p, c) <=>
           Pending(o, p, c)' \/ (s.op = o /\ p \in s.who /\ s.corp = c)
      /\ \A c : Closing(c) <=> Closing(c)' \/ (s.op = "close" /\ s.corp = c)
      /\ \A c : Filling(c) <=> Filling(c)' \/ (s.op \in {"enrol", "stamp"} /\ s.corp = c)
      /\ Unmet'
  BY <1>0, <1>1, Shrinks DEF RollOps, Agreeing
<1>4. s.who \in SUBSET Players /\ s.corp \in Corps /\ s.corp /= None
  BY <1>2, FreeFields, NoneAssumption
<1>5. \A c \in Corps : member'[c] = IF c = s.corp THEN member[c] \cup s.who ELSE member[c]
  BY <1>1, <1>4 DEF Inv, TypeOK
<1>6. ASSUME NEW p \in s.who
      PROVE  /\ Pending("enrol", p, s.corp) /\ Pending("stamp", p, s.corp)'
             /\ \A v : /\ Pending("stamp", p, v)' => v = s.corp
                       /\ ~Pending("left", p, v)' /\ ~Pending("enrol", p, v)'
  <2>1. p \in Players /\ Owes(plans[j], "enrol", p, s.corp)
    BY <1>2, <1>4 DEF Told
  <2>2. /\ Owes(q, "stamp", p, s.corp)
        /\ \A v : /\ Owes(q, "stamp", p, v) => v = s.corp
                  /\ ~Owes(q, "left", p, v) /\ ~Owes(q, "enrol", p, v)
    BY <1>2 DEF Follows, FollowsEnrol, Owes
  <2>3. \A v : ~Elsewhere(j, "enrol", p, v) /\ ~Elsewhere(j, "stamp", p, v)
                /\ ~Elsewhere(j, "left", p, v)
    BY <1>4, <2>1, Alone DEF Agreeing
  <2>4. \A o, v : Pending(o, p, v)' <=> Owes(q, o, p, v) \/ Elsewhere(j, o, p, v)
    BY <1>2, PendingParts
  <2>5. \A o, v : Pending(o, p, v) <=> Owes(plans[j], o, p, v) \/ Elsewhere(j, o, p, v)
    BY <1>2, PendingParts
  <2>6. Pending("enrol", p, s.corp) /\ Pending("stamp", p, s.corp)'
    BY <2>1, <2>2, <2>4, <2>5
  <2>. QED
    BY <2>2, <2>3, <2>4, <2>6
<1>7. ASSUME NEW p \in s.who
      PROVE  \A d \in Corps : p \notin member[d]
  <2>1. Departs(p) /\ Pending("enrol", p, s.corp) /\ Pending("stamp", p, s.corp)
    BY <1>3, <1>4, <1>6 DEF Agreeing
  <2>2. \A d \in Corps : ~Pending("left", p, d)
    BY <1>2, <1>3, <1>6
  <2>. QED
    BY <1>4, <2>1, <2>2 DEF Departs, Leaves
<1>8. ASSUME NEW p \in Players
      PROVE  Agrees(p)'
  <2>1. CASE p \in s.who
    <3>1. \A d \in Corps : p \in member'[d] <=> d = s.corp
      BY <1>5, <1>7, <2>1
    <3>2. Settles(p)'
      BY <1>4, <1>6, <2>1 DEF Settles
    <3>3. Departs(p)'
      BY <1>4, <1>6, <2>1 DEF Departs, Leaves
    <3>4. Arrives(p)'
      BY <1>6, <2>1, <3>1 DEF Arrives
    <3>. QED
      BY <3>2, <3>3, <3>4 DEF Agrees
  <2>2. CASE p \notin s.who
    <3>1. Agrees(p)
      BY DEF Agreeing, Agrees
    <3>2. \A o, v : Pending(o, p, v)' <=> Pending(o, p, v)
      BY <1>3, <2>2
    <3>. QED
      BY <1>1, <1>5, <2>2, <3>1, <3>2, Untouched
  <2>. QED
    BY <2>1, <2>2
<1>9. ASSUME NEW c \in Corps
      PROVE  Led(c)'
  <2>1. PICK f : f = corps[c].founder
    OBVIOUS
  <2>2. corps' = corps
    BY <1>1
  <2>3. CASE Active(c) /\ ~Closing(c)
    <3>1. Pending("enrol", f, c) \/ (f \in member[c] /\ ~Pending("left", f, c))
      BY <2>1, <2>3 DEF Agreeing, Led
    <3>2. CASE f \in s.who /\ s.corp = c
      <4>1. f \in member'[c] /\ ~Pending("left", f, c)'
        BY <1>5, <1>6, <3>2
      <4>. QED
        BY <2>1, <2>2, <4>1, LedBy
    <3>3. CASE ~(f \in s.who /\ s.corp = c)
      <4>1. Pending("enrol", f, c)' \/ (f \in member'[c] /\ ~Pending("left", f, c)')
        BY <1>3, <1>5, <3>1, <3>3
      <4>. QED
        BY <2>1, <2>2, <4>1, LedBy
    <3>. QED
      BY <3>2, <3>3
  <2>4. CASE ~(Active(c) /\ ~Closing(c))
    BY <1>2, <1>3, <2>2, <2>4 DEF Led, Active
  <2>. QED
    BY <2>3, <2>4
<1>10. ASSUME NEW c \in Corps
       PROVE  Emptied(c)'
  <2>. SUFFICES ASSUME corps'[c].gone \/ Closing(c)'
                PROVE  (\A p \in member'[c] : Pending("left", p, c)') /\ ~Filling(c)'
    BY DEF Emptied
  <2>1. (\A p \in member[c] : Pending("left", p, c)) /\ ~Filling(c)
    BY <1>1, <1>3 DEF Agreeing, Emptied
  <2>2. c /= s.corp
    BY <1>2, <1>3, <2>1
  <2>. QED
    BY <1>2, <1>3, <1>5, <2>1, <2>2
<1>. QED
  BY <1>3, <1>8, <1>9, <1>10, Agreement

\* No other call enrols a player whom this one moves.
LEMMA NotAgainst ==
  ASSUME Inv, Unmet, NEW j \in Jobs, NEW p \in Players, NEW v,
         Owes(plans[j], "left", p, v) \/ Owes(plans[j], "stamp", p, v)
  PROVE  \A c \in Corps : ~Elsewhere(j, "enrol", p, c) /\ ~Elsewhere(j, "stamp", p, c)
<1>1. Moves(plans[j], p)
  BY AllTyped DEF Typed
<1>2. ASSUME NEW k \in Jobs \ {j}
      PROVE  ~Enrols(plans[k], p) /\ Typed(plans[k])
  BY <1>1, <1>2, AllTyped DEF Unmet, Meet
<1>. QED
  BY <1>2 DEF Typed, Elsewhere

\* Whoever leaves is stamped later by the same call.
LEMMA LeftIsStamped ==
  ASSUME Inv, AllOrderly, NEW j \in Jobs, NEW p, NEW c, Owes(plans[j], "left", p, c)
  PROVE  \E v \in Corps \cup {None} : Owes(plans[j], "stamp", p, v)
<1>1. PICK t \in Statements(plans[j]) : t.op = "left" /\ p \in t.who /\ t.corp = c
  BY DEF Owes, Has
<1>2. plans[j] \in Seq(Free)
  BY <1>1, OnTheRolls DEF Inv, TypeOK, RollOps
<1>3. PICK i \in 1..Len(plans[j]) : plans[j][i] = t
  BY <1>1 DEF Statements
<1>4. Follows(t, Later(plans[j], i))
  BY <1>2, <1>3 DEF AllOrderly, Orderly
<1>5. PICK v \in Corps \cup {None} : Has(Later(plans[j], i), "stamp", p, v)
  BY <1>1, <1>4 DEF Follows, FollowsLeft
<1>6. Later(plans[j], i) \subseteq Statements(plans[j])
  <2>1. Len(plans[j]) \in Nat
    BY <1>2
  <2>2. \A k \in (i + 1)..Len(plans[j]) : k \in 1..Len(plans[j])
    BY <1>3, <2>1
  <2>. QED
    BY <2>2 DEF Later, Statements
<1>. QED
  BY <1>5, <1>6 DEF Has, Owes

LEMMA StampAgrees ==
  ASSUME Inv, Inv', AllOrderly, Agreeing, NEW j \in Jobs, Stamp(j)
  PROVE  Agreeing'
<1>0. PICK s, q : s = Head(plans[j]) /\ q = Tail(plans[j])
  OBVIOUS
<1>1. Due(j, "stamp") /\ Done(j) /\ UNCHANGED <<corps, member, ships>>
      /\ affil' = [p \in Players |-> IF p \in s.who THEN s.corp ELSE affil[p]]
  BY <1>0 DEF Stamp
<1>2. /\ s \in Free /\ s.op = "stamp" /\ Follows(s, Statements(q)) /\ Told(plans[j], s, q)
      /\ plans' = [plans EXCEPT ![j] = q]
  BY <1>0, <1>1, Pops DEF RollOps, Done
<1>3. /\ \A o, p, c : Pending(o, p, c) <=>
           Pending(o, p, c)' \/ (s.op = o /\ p \in s.who /\ s.corp = c)
      /\ \A c : Closing(c) <=> Closing(c)' \/ (s.op = "close" /\ s.corp = c)
      /\ \A c : Filling(c) <=> Filling(c)' \/ (s.op \in {"enrol", "stamp"} /\ s.corp = c)
      /\ Unmet'
  BY <1>0, <1>1, Shrinks DEF RollOps, Agreeing
<1>4. s.who \in SUBSET Players /\ s.corp \in Corps \cup {None}
  BY <1>2, FreeFields
<1>5. ASSUME NEW p \in s.who
      PROVE  Agrees(p)'
  <2>1. p \in Players /\ Owes(plans[j], "stamp", p, s.corp) /\ Pending("stamp", p, s.corp)
    BY <1>2, <1>3, <1>4 DEF Told
  <2>2. \A v : ~Owes(q, "stamp", p, v) /\ ~Owes(q, "left", p, v) /\ ~Owes(q, "enrol", p, v)
    BY <1>2 DEF Follows, FollowsStamp, Owes
  <2>3. \A o, v : Pending(o, p, v)' <=> Owes(q, o, p, v) \/ Elsewhere(j, o, p, v)
    BY <1>2, PendingParts
  <2>4. affil'[p] = s.corp /\ member' = member
    BY <1>1, <2>1
  <2>5. Settles(p) /\ Departs(p) /\ Arrives(p)
    BY <2>1 DEF Agreeing
  <2>6. CASE s.corp \in Corps
    <3>1. \A v : ~Pending("enrol", p, v)' /\ ~Pending("stamp", p, v)' /\ ~Pending("left", p, v)'
      BY <2>1, <2>2, <2>3, <2>6, Alone DEF Agreeing
    <3>2. ~Pending("enrol", p, s.corp)
      BY <1>2, <1>3, <3>1
    <3>3. \A d \in Corps : p \in member[d] <=> d = s.corp
      BY <2>1, <2>5, <2>6, <3>2 DEF Arrives
    <3>4. Settles(p)'
      BY <2>4, <3>3 DEF Settles
    <3>. QED
      BY <3>1, <3>4 DEF Agrees, Departs, Leaves, Arrives
  <2>7. CASE s.corp = None
    <3>1. \A c \in Corps : ~Pending("enrol", p, c)' /\ ~Pending("stamp", p, c)'
      BY <2>1, <2>2, <2>3, NotAgainst DEF Agreeing
    <3>2. \A d \in Corps : p \in member[d] => Pending("left", p, d)
      BY <2>1, <2>5, <2>7 DEF Departs, Leaves
    <3>3. \A d : Pending("left", p, d) <=> Pending("left", p, d)'
      BY <1>2, <1>3
    <3>4. Departs(p)'
      BY <2>4, <3>2, <3>3 DEF Departs
    <3>5. ASSUME NEW d \in Corps, p \in member[d]
          PROVE  \E v \in Corps \cup {None} : Pending("stamp", p, v)'
      <4>1. Elsewhere(j, "left", p, d)
        BY <2>2, <2>3, <3>2, <3>3, <3>5
      <4>2. PICK k \in Jobs \ {j} : Owes(plans[k], "left", p, d)
        BY <4>1 DEF Elsewhere
      <4>3. PICK v \in Corps \cup {None} : Owes(plans[k], "stamp", p, v)
        BY <4>2, LeftIsStamped
      <4>4. Elsewhere(j, "stamp", p, v)
        BY <4>3 DEF Elsewhere
      <4>. QED
        BY <2>3, <4>4
    <3>6. Settles(p)'
      BY <2>4, <2>7, <3>5, NoneAssumption DEF Settles
    <3>7. Arrives(p)'
      BY <3>1 DEF Arrives
    <3>. QED
      BY <3>4, <3>6, <3>7 DEF Agrees
  <2>. QED
    BY <1>4, <2>6, <2>7
<1>6. ASSUME NEW p \in Players
      PROVE  Agrees(p)'
  <2>1. CASE p \notin s.who
    <3>1. Agrees(p)
      BY DEF Agreeing, Agrees
    <3>2. \A o, v : Pending(o, p, v)' <=> Pending(o, p, v)
      BY <1>3, <2>1
    <3>3. affil'[p] = affil[p] /\ member' = member
      BY <1>1, <2>1
    <3>. QED
      BY <3>1, <3>2, <3>3, Untouched
  <2>. QED
    BY <1>5, <2>1
<1>7. ASSUME NEW c \in Corps
      PROVE  Led(c)' /\ Emptied(c)'
  <2>1. /\ \A p : /\ Pending("enrol", p, c) <=> Pending("enrol", p, c)'
                  /\ Pending("left", p, c) <=> Pending("left", p, c)'
        /\ Closing(c) <=> Closing(c)'
        /\ Filling(c)' => Filling(c)
    BY <1>2, <1>3
  <2>. QED
    BY <1>1, <2>1, RollStands
<1>. QED
  BY <1>3, <1>6, <1>7, Agreement

\* What is left of a plan when one more has left.
LEMMA LeftShrinks ==
  ASSUME Inv, Inv', AllOrderly, NEW j \in Jobs, Left(j), NEW s, s = Head(plans[j]),
         NEW x \in s.who,
         IF s.who = {x} THEN Done(j) ELSE plans' = [plans EXCEPT ![j][1].who = @ \ {x}]
  PROVE  /\ \A o, p, c : Pending(o, p, c) <=>
              Pending(o, p, c)' \/ (o = "left" /\ p = x /\ c = s.corp)
         /\ \A c : Closing(c) <=> Closing(c)'
         /\ \A c : Filling(c) <=> Filling(c)'
         /\ \A c : \A k \in Jobs : /\ Founds(plans'[k], c) <=> Founds(plans[k], c)
                                   /\ Fills(plans'[k], c) <=> Fills(plans[k], c)
         /\ Unmet => Unmet'
         /\ AllOrderly'
         /\ plans' = [plans EXCEPT ![j] = plans'[j]]
         /\ \E v \in Corps \cup {None} : Owes(plans'[j], "stamp", x, v)
         /\ \A c \in Corps : Owes(plans'[j], "stamp", x, c) => Owes(plans'[j], "enrol", x, c)
<1>1. PICK q, rest : q = plans'[j] /\ rest = Tail(plans[j])
  OBVIOUS
<1>2. /\ Due(j, "left") /\ s \in Free /\ s.op = "left" /\ Told(plans[j], s, rest)
      /\ rest \in Seq(Free) /\ Orderly(rest) /\ Follows(s, Statements(rest))
      /\ plans[j] \in Seq(Free) /\ plans[j] /= << >>
  BY <1>1, Pops, DueFree DEF Left, RollOps
<1>3. /\ plans' = [plans EXCEPT ![j] = q]
      /\ q \in Seq(Free) => Orderly(q)
      /\ \A o, p, c : Owes(q, o, p, c) <=>
           Owes(rest, o, p, c) \/ (o = "left" /\ p \in s.who \ {x} /\ c = s.corp)
      /\ \A c : (Closes(q, c) <=> Closes(rest, c)) /\ (Fills(q, c) <=> Fills(rest, c))
                /\ (Founds(q, c) <=> Founds(rest, c))
  <2>1. CASE s.who = {x}
    <3>1. plans' = [plans EXCEPT ![j] = rest]
      BY <1>1, <2>1 DEF Done
    <3>2. q = rest
      BY <1>1, <3>1, OneMoves
    <3>. QED
      BY <1>2, <2>1, <3>1, <3>2
  <2>2. CASE s.who /= {x}
    <3>1. PICK t : t = [s EXCEPT !.who = @ \ {x}]
      OBVIOUS
    <3>2. t \in Free /\ t.op = "left" /\ t.corp = s.corp /\ t.who = s.who \ {x}
      BY <1>2, <3>1 DEF Free, Statement, RollOps, HullOps
    <3>3. plans' = [plans EXCEPT ![j] = [plans[j] EXCEPT ![1] = t]]
      BY <1>2, <2>2, <3>1
    <3>4. q = [plans[j] EXCEPT ![1] = t]
      BY <1>1, <3>3, OneMoves
    <3>5. q \in Seq(Free) /\ q /= << >> /\ Head(q) = t /\ Tail(q) = rest
      BY <1>1, <1>2, <3>2, <3>4
    <3>6. Statements(q) = {t} \cup Statements(rest)
          /\ (Orderly(q) <=> Follows(t, Statements(rest)) /\ Orderly(rest))
      BY <3>5, HeadFirst
    <3>7. Follows(t, Statements(rest))
      BY <1>2, <3>2 DEF Follows, FollowsLeft, FollowsEnrol, FollowsStamp, FollowsFound, FollowsOther
    <3>8. Told(q, t, rest)
      BY <3>6, Telling
    <3>. QED
      BY <1>2, <3>2, <3>3, <3>4, <3>6, <3>7, <3>8 DEF Told
  <2>. QED
    BY <2>1, <2>2
<1>4. q = plans'[j] /\ \A k \in Jobs \ {j} : plans'[k] = plans[k]
  BY <1>3, OneMoves
<1>5. \A c : /\ Closes(q, c) <=> Closes(plans[j], c)
             /\ Fills(q, c) <=> Fills(plans[j], c)
             /\ Founds(q, c) <=> Founds(plans[j], c)
  BY <1>2, <1>3 DEF Told
<1>6. \A c : \A k \in Jobs : /\ Closes(plans'[k], c) <=> Closes(plans[k], c)
                             /\ Founds(plans'[k], c) <=> Founds(plans[k], c)
                             /\ Fills(plans'[k], c) <=> Fills(plans[k], c)
  BY <1>4, <1>5
<1>7. /\ \A c : Closing(c) <=> Closing(c)'
      /\ \A c : Filling(c) <=> Filling(c)'
  <2>1. /\ \A c : Closing(c)' <=> \E k \in Jobs : Closes(plans'[k], c)
        /\ \A c : Filling(c)' <=> \E k \in Jobs : Fills(plans'[k], c)
    BY DEF Closing, Filling, Closes, Fills
  <2>. QED
    BY <1>6, <2>1 DEF Closing, Filling
<1>8. \A o, p, c : Owes(plans[j], o, p, c) <=>
                     Owes(q, o, p, c) \/ (o = "left" /\ p = x /\ c = s.corp)
  BY <1>2, <1>3 DEF Told
<1>9. \A o, p, c : Pending(o, p, c) <=>
              Pending(o, p, c)' \/ (o = "left" /\ p = x /\ c = s.corp)
  BY <1>3, <1>8, PendingParts
<1>10. Unmet => Unmet'
  BY <1>3, <1>5, <1>8, LessMeets DEF Less
<1>11. AllOrderly'
  BY <1>3, <1>4, Reordered
<1>12. /\ \E v \in Corps \cup {None} : Owes(q, "stamp", x, v)
       /\ \A c \in Corps : Owes(q, "stamp", x, c) => Owes(q, "enrol", x, c)
  <2>1. /\ \E v \in Corps \cup {None} : Owes(rest, "stamp", x, v)
        /\ \A c \in Corps : Owes(rest, "stamp", x, c) => Owes(rest, "enrol", x, c)
    BY <1>2 DEF Follows, FollowsLeft, Owes
  <2>. QED
    BY <1>3, <2>1
<1>. QED
  BY <1>3, <1>4, <1>6, <1>7, <1>9, <1>10, <1>11, <1>12

LEMMA LeftAgrees ==
  ASSUME Inv, Inv', AllOrderly, Agreeing, NEW j \in Jobs, Left(j)
  PROVE  Agreeing'
<1>0. PICK s : s = Head(plans[j])
  OBVIOUS
<1>1. Due(j, "left") /\ UNCHANGED <<corps, affil, ships>>
  BY DEF Left
<1>2. /\ s \in Free /\ s.op = "left" /\ Told(plans[j], s, Tail(plans[j]))
  BY <1>0, <1>1, Pops DEF RollOps
<1>3. s.who \in SUBSET Players /\ s.corp \in Corps /\ s.corp /= None
  BY <1>2, FreeFields, NoneAssumption
<1>4. PICK x \in s.who :
        /\ member' = [member EXCEPT ![s.corp] = @ \ {x}]
        /\ IF s.who = {x} THEN Done(j) ELSE plans' = [plans EXCEPT ![j][1].who = @ \ {x}]
  BY <1>0 DEF Left
<1>5. /\ \A o, p, c : Pending(o, p, c) <=>
              Pending(o, p, c)' \/ (o = "left" /\ p = x /\ c = s.corp)
      /\ \A c : Closing(c) <=> Closing(c)'
      /\ \A c : Filling(c) <=> Filling(c)'
      /\ Unmet'
      /\ plans' = [plans EXCEPT ![j] = plans'[j]]
      /\ \E v \in Corps \cup {None} : Owes(plans'[j], "stamp", x, v)
      /\ \A c \in Corps : Owes(plans'[j], "stamp", x, c) => Owes(plans'[j], "enrol", x, c)
  BY <1>0, <1>4, LeftShrinks, SMTT(40) DEF Agreeing
<1>6. \A c \in Corps : member'[c] = IF c = s.corp THEN member[c] \ {x} ELSE member[c]
  BY <1>3, <1>4 DEF Inv, TypeOK
<1>7. x \in Players /\ Pending("left", x, s.corp) /\ Owes(plans[j], "left", x, s.corp)
  <2>1. Owes(plans[j], "left", x, s.corp)
    BY <1>2 DEF Told
  <2>. QED
    BY <1>3, <2>1 DEF Pending
<1>8. Agrees(x)'
  <2>1. \A o, v : Pending(o, x, v)' <=> Owes(plans'[j], o, x, v) \/ Elsewhere(j, o, x, v)
    BY <1>5, PendingParts
  <2>2. Settles(x) /\ Departs(x) /\ Arrives(x)
    BY <1>7 DEF Agreeing
  <2>3. Settles(x)'
    BY <1>5, <2>1 DEF Settles
  <2>4. Departs(x)'
    <3>1. ASSUME Leaves(x)', NEW c \in Corps, x \in member'[c]
          PROVE  Pending("left", x, c)'
      <4>1. Leaves(x)
        BY <1>5, <3>1 DEF Leaves
      <4>2. c /= s.corp /\ x \in member[c]
        BY <1>6, <3>1
      <4>3. Pending("left", x, c)
        BY <2>2, <4>1, <4>2 DEF Departs
      <4>. QED
        BY <1>5, <4>2, <4>3
    <3>. QED
      BY <3>1 DEF Departs
  <2>5. \A c \in Corps : Pending("stamp", x, c)' => Pending("enrol", x, c)'
    <3>1. \A c \in Corps : ~Elsewhere(j, "stamp", x, c)
      BY <1>7, NotAgainst DEF Agreeing
    <3>. QED
      BY <1>5, <2>1, <3>1
  <2>6. Arrives(x)'
    BY <2>5 DEF Arrives
  <2>. QED
    BY <2>3, <2>4, <2>6 DEF Agrees
<1>9. ASSUME NEW p \in Players
      PROVE  Agrees(p)'
  <2>1. CASE p /= x
    <3>1. Agrees(p)
      BY DEF Agreeing, Agrees
    <3>2. \A o, v : Pending(o, p, v)' <=> Pending(o, p, v)
      BY <1>5, <2>1
    <3>3. affil'[p] = affil[p] /\ \A c \in Corps : p \in member'[c] <=> p \in member[c]
      BY <1>1, <1>6, <2>1
    <3>. QED
      BY <3>1, <3>2, <3>3, Untouched
  <2>. QED
    BY <1>8, <2>1
<1>10. ASSUME NEW c \in Corps
       PROVE  Led(c)'
  <2>1. PICK f : f = corps[c].founder
    OBVIOUS
  <2>2. CASE Active(c) /\ ~Closing(c)
    <3>1. Pending("enrol", f, c) \/ (f \in member[c] /\ ~Pending("left", f, c))
      BY <2>1, <2>2 DEF Agreeing, Led
    <3>2. Pending("enrol", f, c)' \/ (f \in member'[c] /\ ~Pending("left", f, c)')
      <4>1. CASE f = x /\ c = s.corp
        BY <1>5, <1>7, <3>1, <4>1
      <4>2. CASE ~(f = x /\ c = s.corp)
        BY <1>5, <1>6, <3>1, <4>2
      <4>. QED
        BY <4>1, <4>2
    <3>. QED
      BY <1>1, <2>1, <3>2, LedBy
  <2>3. CASE ~(Active(c) /\ ~Closing(c))
    BY <1>1, <1>5, <2>3 DEF Led, Active
  <2>. QED
    BY <2>2, <2>3
<1>11. ASSUME NEW c \in Corps
       PROVE  Emptied(c)'
  <2>1. corps' = corps
    BY <1>1
  <2>2. Emptied(c)
    BY DEF Agreeing
  <2>. QED
    BY <1>5, <1>6, <2>1, <2>2 DEF Emptied
<1>. QED
  BY <1>5, <1>9, <1>10, <1>11, Agreement

RollWords == {"enrol", "stamp", "left"}

\* A step that changes none of the tables and nothing that is asked of them.
LEMMA StandAgrees ==
  ASSUME Agreeing, Unmet', UNCHANGED <<corps, member, affil>>,
         \A o \in RollWords : \A p, v : Pending(o, p, v)' <=> Pending(o, p, v),
         \A c : Closing(c)' <=> Closing(c), \A c : Filling(c)' => Filling(c)
  PROVE  Agreeing'
<1>1. ASSUME NEW p \in Players
      PROVE  Agrees(p)'
  <2>1. Agrees(p)
    BY DEF Agreeing, Agrees
  <2>2. \A o \in {"enrol", "stamp", "left"} : \A v : Pending(o, p, v)' <=> Pending(o, p, v)
    BY DEF RollWords
  <2>. QED
    BY <2>1, <2>2, Untouched
<1>2. ASSUME NEW c \in Corps
      PROVE  Led(c)' /\ Emptied(c)'
  <2>1. \A p : /\ Pending("enrol", p, c) <=> Pending("enrol", p, c)'
               /\ Pending("left", p, c) <=> Pending("left", p, c)'
    BY DEF RollWords
  <2>. QED
    BY <2>1, RollStands
<1>. QED
  BY <1>1, <1>2, Agreement

LEMMA ListAgrees ==
  ASSUME Inv, Inv', AllOrderly, Agreeing, NEW j \in Jobs, List(j) \/ Release(j)
  PROVE  Agreeing'
<1>0. PICK s : s = Head(plans[j])
  OBVIOUS
<1>1. PICK op \in {"list", "release"} :
        Due(j, op) /\ Done(j) /\ UNCHANGED <<corps, member, affil>>
  BY DEF List, Release, rows
<1>2. s.op = op /\ op \in RollOps
  BY <1>0, <1>1, Pops DEF RollOps
<1>3. /\ \A o, p, c : Pending(o, p, c) <=>
           Pending(o, p, c)' \/ (s.op = o /\ p \in s.who /\ s.corp = c)
      /\ \A c : Closing(c) <=> Closing(c)' \/ (s.op = "close" /\ s.corp = c)
      /\ \A c : Filling(c) <=> Filling(c)' \/ (s.op \in {"enrol", "stamp"} /\ s.corp = c)
      /\ Unmet'
  BY <1>0, <1>1, <1>2, Shrinks DEF Agreeing
<1>4. /\ \A o \in RollWords : \A p, v : Pending(o, p, v)' <=> Pending(o, p, v)
      /\ \A c : Closing(c)' <=> Closing(c)
      /\ \A c : Filling(c)' => Filling(c)
  BY <1>2, <1>3 DEF RollWords
<1>. QED
  BY <1>1, <1>3, <1>4, StandAgrees

LEMMA CloseAgrees ==
  ASSUME Inv, Inv', AllOrderly, Agreeing, NEW j \in Jobs, Close(j)
  PROVE  Agreeing'
<1>0. PICK s : s = Head(plans[j])
  OBVIOUS
<1>1. /\ Due(j, "close") /\ Done(j) /\ member' = member /\ affil' = affil
      /\ corps' = [corps EXCEPT ![s.corp].gone = TRUE]
  BY <1>0 DEF Close
<1>2. s.op = "close" /\ s \in Free
  BY <1>0, <1>1, Pops DEF RollOps
<1>3. /\ \A o, p, c : Pending(o, p, c) <=>
           Pending(o, p, c)' \/ (s.op = o /\ p \in s.who /\ s.corp = c)
      /\ \A c : Closing(c) <=> Closing(c)' \/ (s.op = "close" /\ s.corp = c)
      /\ \A c : Filling(c) <=> Filling(c)' \/ (s.op \in {"enrol", "stamp"} /\ s.corp = c)
      /\ Unmet'
  BY <1>0, <1>1, Shrinks DEF RollOps, Agreeing
<1>4. /\ \A o \in RollWords : \A p, v : Pending(o, p, v)' <=> Pending(o, p, v)
      /\ \A c : Filling(c)' => Filling(c)
  BY <1>2, <1>3 DEF RollWords
<1>5. \A c \in Corps : /\ corps'[c].founder = corps[c].founder
                       /\ corps'[c].gone <=> corps[c].gone \/ c = s.corp
  BY <1>1 DEF Inv, TypeOK
<1>6. ASSUME NEW p \in Players
      PROVE  Agrees(p)'
  <2>1. Agrees(p)
    BY DEF Agreeing, Agrees
  <2>2. \A o \in {"enrol", "stamp", "left"} : \A v : Pending(o, p, v)' <=> Pending(o, p, v)
    BY <1>4 DEF RollWords
  <2>. QED
    BY <1>1, <2>1, <2>2, Untouched
<1>7. ASSUME NEW c \in Corps
      PROVE  Led(c)'
  <2>1. PICK f : f = corps[c].founder
    OBVIOUS
  <2>2. CASE Active(c) /\ ~Closing(c)
    <3>1. Pending("enrol", f, c) \/ (f \in member[c] /\ ~Pending("left", f, c))
      BY <2>1, <2>2 DEF Agreeing, Led
    <3>2. Pending("enrol", f, c)' \/ (f \in member'[c] /\ ~Pending("left", f, c)')
      BY <1>1, <1>4, <3>1 DEF RollWords
    <3>. QED
      BY <1>5, <2>1, <3>2, LedBy
  <2>3. CASE ~(Active(c) /\ ~Closing(c))
    BY <1>2, <1>3, <1>5, <2>3 DEF Led, Active
  <2>. QED
    BY <2>2, <2>3
<1>8. ASSUME NEW c \in Corps
      PROVE  Emptied(c)'
  <2>1. Emptied(c)
    BY DEF Agreeing
  <2>2. corps'[c].gone \/ Closing(c)' => corps[c].gone \/ Closing(c)
    BY <1>2, <1>3, <1>5
  <2>. QED
    BY <1>1, <1>4, <2>1, <2>2 DEF Emptied, RollWords
<1>. QED
  BY <1>3, <1>6, <1>7, <1>8, Agreement

LEMMA FoundAgrees ==
  ASSUME Inv, Inv', AllOrderly, Agreeing, NEW j \in Jobs, Found(j)
  PROVE  Agreeing'
<1>0. PICK s, q : s = Head(plans[j]) /\ q = Tail(plans[j])
  OBVIOUS
<1>1. PICK x \in s.who :
        /\ Due(j, "found") /\ Done(j) /\ member' = member /\ affil' = affil
        /\ corps' = [corps EXCEPT ![s.corp].founder = x]
  BY <1>0 DEF Found
<1>2. /\ s.op = "found" /\ s \in Free /\ Follows(s, Statements(q))
      /\ plans' = [plans EXCEPT ![j] = q]
  BY <1>0, <1>1, Pops DEF RollOps, Done
<1>3. /\ \A o, p, c : Pending(o, p, c) <=>
           Pending(o, p, c)' \/ (s.op = o /\ p \in s.who /\ s.corp = c)
      /\ \A c : Closing(c) <=> Closing(c)' \/ (s.op = "close" /\ s.corp = c)
      /\ \A c : Filling(c) <=> Filling(c)' \/ (s.op \in {"enrol", "stamp"} /\ s.corp = c)
      /\ Unmet'
  BY <1>0, <1>1, Shrinks DEF RollOps, Agreeing
<1>4. /\ \A o \in RollWords : \A p, v : Pending(o, p, v)' <=> Pending(o, p, v)
      /\ \A c : Closing(c) <=> Closing(c)'
      /\ \A c : Filling(c)' => Filling(c)
  BY <1>2, <1>3 DEF RollWords
<1>5. \A c \in Corps : /\ corps'[c].founder = IF c = s.corp THEN x ELSE corps[c].founder
                       /\ corps'[c].gone = corps[c].gone
  BY <1>1 DEF Inv, TypeOK
<1>6. ASSUME NEW p \in Players
      PROVE  Agrees(p)'
  <2>1. Agrees(p)
    BY DEF Agreeing, Agrees
  <2>2. \A o \in {"enrol", "stamp", "left"} : \A v : Pending(o, p, v)' <=> Pending(o, p, v)
    BY <1>4 DEF RollWords
  <2>. QED
    BY <1>1, <2>1, <2>2, Untouched
<1>7. Owes(q, "enrol", x, s.corp)
  BY <1>1, <1>2 DEF Follows, FollowsFound, Owes
<1>8. ASSUME NEW c \in Corps
      PROVE  Led(c)'
  <2>1. PICK f : f = corps'[c].founder
    OBVIOUS
  <2>2. CASE c = s.corp
    <3>1. Pending("enrol", x, c)'
      BY <1>2, <1>7, <2>2, PendingParts
    <3>. QED
      BY <1>5, <2>1, <2>2, <3>1, LedBy
  <2>3. CASE c /= s.corp /\ Active(c) /\ ~Closing(c)
    <3>1. Pending("enrol", f, c) \/ (f \in member[c] /\ ~Pending("left", f, c))
      BY <1>5, <2>1, <2>3 DEF Agreeing, Led
    <3>2. Pending("enrol", f, c)' \/ (f \in member'[c] /\ ~Pending("left", f, c)')
      BY <1>1, <1>4, <3>1 DEF RollWords
    <3>. QED
      BY <1>5, <2>1, <3>2, LedBy
  <2>4. CASE c /= s.corp /\ ~(Active(c) /\ ~Closing(c))
    BY <1>4, <1>5, <2>4 DEF Led, Active
  <2>. QED
    BY <2>2, <2>3, <2>4
<1>9. ASSUME NEW c \in Corps
      PROVE  Emptied(c)'
  <2>1. Emptied(c)
    BY DEF Agreeing
  <2>. QED
    BY <1>1, <1>4, <1>5, <2>1 DEF Emptied, RollWords
<1>. QED
  BY <1>3, <1>6, <1>8, <1>9, Agreement

-----------------------------------------------------------------------------
(* The statements about ships leave the rolls alone.                       *)

\* A plan that says of the rolls what another says.
SameTold(q, plan) ==
  /\ \A o \in RollWords : \A p, c : Owes(q, o, p, c) <=> Owes(plan, o, p, c)
  /\ \A c : /\ Closes(q, c) <=> Closes(plan, c)
            /\ Founds(q, c) <=> Founds(plan, c)
            /\ Fills(q, c) <=> Fills(plan, c)

Silent(plan) == \A s \in Statements(plan) : s.op \notin RollOps

LEMMA SilentSame ==
  ASSUME NEW q, NEW plan, Silent(q), Silent(plan)
  PROVE  SameTold(q, plan)
<1>1. ASSUME NEW r, Silent(r)
      PROVE  /\ \A o \in RollWords : \A p, c : ~Owes(r, o, p, c)
             /\ \A c : ~Closes(r, c) /\ ~Founds(r, c) /\ ~Fills(r, c)
  BY <1>1 DEF Silent, RollOps, RollWords, Owes, Has, Closes, Founds, Fills
<1>. QED
  BY <1>1 DEF SameTold

LEMMA LockedSilent ==
  ASSUME NEW plan, NEW p \in Players, NEW c \in Corps, Waiting(plan, p, c) \/ Locking(plan, p, c)
  PROVE  Silent(plan) /\ plan \notin Seq(Free)
  BY Unnamed, FreeIsFree DEF Silent

LEMMA EmptySilent == Silent(<< >>) /\ Orderly(<< >>)
  BY EmptyOrder DEF Silent

\* A step about ships changes the rolls in nothing.
ShipView(j) ==
  /\ plans' = [plans EXCEPT ![j] = plans'[j]]
  /\ SameTold(plans'[j], plans[j])
  /\ plans'[j] \in Seq(Free) => Orderly(plans'[j])

LEMMA LockedView ==
  ASSUME Inv, NEW j \in Jobs, NEW p \in Players, NEW c \in Corps, NEW q,
         Waiting(plans[j], p, c) \/ Locking(plans[j], p, c),
         q = << >> \/ Waiting(q, p, c) \/ Locking(q, p, c),
         plans' = [plans EXCEPT ![j] = q]
  PROVE  ShipView(j)
<1>1. plans'[j] = q
  BY OneMoves
<1>2. Silent(plans[j]) /\ Silent(q) /\ (q \in Seq(Free) => Orderly(q))
  BY LockedSilent, EmptySilent
<1>3. SameTold(q, plans[j])
  BY <1>2, SilentSame
<1>. QED
  BY <1>1, <1>2, <1>3 DEF ShipView

LEMMA HullView ==
  ASSUME Inv, AllOrderly, NEW j \in Jobs, NEW op \in HullOps, Due(j, op), Done(j)
  PROVE  ShipView(j)
<1>1. PICK s, q : s = Head(plans[j]) /\ q = Tail(plans[j])
  OBVIOUS
<1>2. /\ s.op = op /\ Orderly(q) /\ Told(plans[j], s, q) /\ plans' = [plans EXCEPT ![j] = q]
  BY <1>1, Pops DEF Done
<1>3. plans'[j] = q
  BY <1>2, OneMoves
<1>4. SameTold(q, plans[j])
  BY <1>2 DEF SameTold, Told, RollWords, HullOps
<1>. QED
  BY <1>2, <1>3, <1>4 DEF ShipView

LEMMA ShipViews ==
  ASSUME Inv, AllOrderly, NEW j \in Jobs, ShipStep(j)
  PROVE  ShipView(j)
<1>1. CASE Claim(j) \/ Unlink(j) \/ Scrap(j) \/ Destroy(j)
  <2>1. PICK op \in HullOps : Due(j, op) /\ Done(j)
    BY <1>1 DEF Claim, Unlink, Scrap, Destroy, HullOps
  <2>. QED
    BY <2>1, HullView, SMTT(40)
<1>2. CASE Lock(j)
  <2>1. PICK p \in Players, c \in Corps : Waiting(plans[j], p, c)
    BY <1>2, DueUnderLock DEF Lock
  <2>2. \/ Tail(plans[j]) = ToCount(p, c)
        \/ \E h \in Hulls, q \in Players : Tail(plans[j]) = ToCountYield(p, c, h, q)
    BY <2>1, Tails DEF Waiting
  <2>3. Locking(Tail(plans[j]), p, c)
    BY <2>2 DEF Locking
  <2>. QED
    BY <1>2, <2>1, <2>3, LockedView DEF Lock, Done
<1>3. CASE Count(j)
  <2>1. PICK p \in Players, c \in Corps :
          \/ plans[j] = ToCount(p, c)
          \/ \E h \in Hulls, q \in Players : plans[j] = ToCountYield(p, c, h, q)
    BY <1>3, DueUnderLock DEF Count
  <2>2. \/ Tail(plans[j]) = ToBuild(p, c)
        \/ \E h \in Hulls, q \in Players : Tail(plans[j]) = ToYield(p, c, h, q)
    BY <2>1, Tails
  <2>3. Locking(plans[j], p, c) /\ Locking(Tail(plans[j]), p, c)
    BY <2>1, <2>2 DEF Locking, Slot
  <2>4. Quit(j) \/ Done(j)
    BY <1>3 DEF Count
  <2>5. CASE Quit(j)
    BY <2>3, <2>5, LockedView DEF Quit
  <2>6. CASE Done(j)
    BY <2>3, <2>6, LockedView DEF Done
  <2>. QED
    BY <2>4, <2>5, <2>6
<1>4. CASE Build(j)
  <2>1. PICK p \in Players, c \in Corps : plans[j] = ToBuild(p, c)
    BY <1>4, DueUnderLock DEF Build
  <2>2. PICK h \in Hulls :
          /\ ships[h] = Unbuilt
          /\ ships' = [ships EXCEPT ![h] = [Unbuilt EXCEPT !.corp = c, !.live = TRUE]]
          /\ plans' = [plans EXCEPT ![j] = ToLink(p, c, h)]
          /\ UNCHANGED <<corps, member, affil>>
    BY <1>4, <2>1, BuildsOne
  <2>3. Locking(plans[j], p, c)
    BY <2>1 DEF Locking, Slot
  <2>4. Locking(ToLink(p, c, h), p, c)
    BY DEF Locking, Slot
  <2>. QED
    BY <2>2, <2>3, <2>4, LockedView
<1>5. CASE Link(j)
  <2>1. PICK p \in Players, c \in Corps, h \in Hulls : plans[j] = ToLink(p, c, h)
    BY <1>5, DueUnderLock DEF Link
  <2>2. Tail(plans[j]) = Final(p, c, None)
    BY <2>1, Tails
  <2>3. Locking(plans[j], p, c) /\ Locking(Final(p, c, None), p, c)
    BY <2>1 DEF Locking, Slot
  <2>4. plans' = [plans EXCEPT ![j] = Final(p, c, None)]
    <3>1. plans' = [plans EXCEPT ![j] = Tail(plans[j])]
      BY <1>5 DEF Link, Done
    <3>. QED
      BY <2>2, <3>1
  <2>. QED
    BY <2>3, <2>4, LockedView
<1>6. CASE Unclaim(j)
  <2>1. PICK p \in Players, c \in Corps, h \in Hulls, q \in Players : plans[j] = ToYield(p, c, h, q)
    BY <1>6, DueUnderLock DEF Unclaim
  <2>2. Tail(plans[j]) = Final(p, c, h)
    BY <2>1 DEF ToYield, Final
  <2>3. Locking(plans[j], p, c) /\ Locking(Final(p, c, h), p, c)
    BY <2>1, WhereItEnds DEF Locking, Slot
  <2>4. plans' = [plans EXCEPT ![j] = Final(p, c, h)]
    <3>1. plans' = [plans EXCEPT ![j] = Tail(plans[j])]
      BY <1>6 DEF Unclaim, Done
    <3>. QED
      BY <2>2, <3>1
  <2>. QED
    BY <2>3, <2>4, LockedView
<1>7. CASE Unlock(j)
  <2>1. PICK p \in Players, c \in Corps, x \in Hulls \cup {None} : plans[j] = Final(p, c, x)
    BY <1>7, DueUnderLock DEF Unlock
  <2>2. Tail(plans[j]) = << >>
    BY <2>1 DEF Final
  <2>3. Locking(plans[j], p, c)
    BY <2>1 DEF Locking
  <2>. QED
    BY <1>7, <2>2, <2>3, LockedView DEF Unlock, Done
<1>. QED
  BY <1>1, <1>2, <1>3, <1>4, <1>5, <1>6, <1>7 DEF ShipStep

\* The same of all plans together.
LEMMA ViewKept ==
  ASSUME Inv, Inv', AllOrderly, NEW j \in Jobs, ShipView(j)
  PROVE  /\ \A o \in RollWords : \A p, v : Pending(o, p, v)' <=> Pending(o, p, v)
         /\ \A c : Closing(c)' <=> Closing(c)
         /\ \A c : Filling(c)' => Filling(c)
         /\ \A k \in Jobs : SameTold(plans'[k], plans[k])
         /\ Unmet => Unmet'
         /\ AllOrderly'
<1>1. \A k \in Jobs \ {j} : plans'[k] = plans[k]
  BY OneMoves DEF ShipView
<1>2. \A k \in Jobs : SameTold(plans'[k], plans[k])
  BY <1>1 DEF ShipView, SameTold
<1>3. ASSUME NEW o \in RollWords, NEW p, NEW v
      PROVE  Pending(o, p, v)' <=> Pending(o, p, v)
  <2>1. Pending(o, p, v)' <=> \E k \in Jobs : Owes(plans'[k], o, p, v)
    BY DEF Pending, Owes
  <2>. QED
    BY <1>2, <2>1 DEF Pending, SameTold
<1>4. ASSUME NEW c
      PROVE  (Closing(c)' <=> Closing(c)) /\ (Filling(c)' <=> Filling(c))
  <2>1. /\ Closing(c)' <=> \E k \in Jobs : Closes(plans'[k], c)
        /\ Filling(c)' <=> \E k \in Jobs : Fills(plans'[k], c)
    BY DEF Closing, Filling, Closes, Fills
  <2>. QED
    BY <1>2, <2>1 DEF Closing, Filling, SameTold
<1>5. ASSUME Unmet, NEW i \in Jobs, NEW k \in Jobs, i /= k
      PROVE  ~Meet(plans'[i], plans'[k])
  <2>1. ASSUME NEW m \in Jobs
        PROVE  /\ \A p \in Players : (Enrols(plans'[m], p) <=> Enrols(plans[m], p))
                                     /\ (Moves(plans'[m], p) <=> Moves(plans[m], p))
               /\ \A c \in Corps : (Closes(plans'[m], c) <=> Closes(plans[m], c))
                                   /\ (Fills(plans'[m], c) <=> Fills(plans[m], c))
    <3>1. SameTold(plans'[m], plans[m]) /\ Typed(plans[m]) /\ Typed(plans'[m])
      BY <1>2, AllTyped, AllTypedNext
    <3>. QED
      BY <3>1 DEF SameTold, Typed, RollWords
  <2>2. ~Meet(plans[i], plans[k])
    BY <1>5 DEF Unmet
  <2>. QED
    BY <2>1, <2>2 DEF Meet
<1>6. Unmet => Unmet'
  BY <1>5 DEF Unmet, Meet, Enrols, Moves, Closes, Fills
<1>7. AllOrderly'
  BY <1>1, Reordered DEF ShipView
<1>. QED
  BY <1>2, <1>3, <1>4, <1>6, <1>7

LEMMA ShipAgrees ==
  ASSUME Inv, Inv', AllOrderly, Agreeing, NEW j \in Jobs, ShipStep(j)
  PROVE  Agreeing'
<1>1. UNCHANGED <<corps, member, affil>>
  BY Zenon DEF ShipStep, Lock, Count, Build, Link, Unlock, Claim, Unclaim, Unlink, Scrap, Destroy, rows
<1>. QED
  BY <1>1, ShipViews, ViewKept, StandAgrees, Zenon DEF Agreeing

-----------------------------------------------------------------------------
(* A call may ask for this, as far as the rolls go.                        *)

AskedMoves(q) ==
  \A p \in Players :
    /\ Moves(q, p) => \E v \in Corps \cup {None} : Owes(q, "stamp", p, v)
    /\ \A c \in Corps : Owes(q, "stamp", p, c) => Owes(q, "enrol", p, c)
    /\ Moves(q, p) /\ (\A c \in Corps : p \in member[c] <=> affil[p] = c) =>
         \A d \in Corps : p \in member[d] => Owes(q, "left", p, d)
AskedOf(q, c) ==
  /\ Owes(q, "left", corps[c].founder, c) => Closes(q, c)
  /\ Closes(q, c) => /\ \A p \in member[c] : Owes(q, "left", p, c)
                     /\ ~Fills(q, c) /\ corps[c].founder /= None
  /\ Fills(q, c) => ~corps[c].gone
  /\ Fills(q, c) /\ ~Founds(q, c) => corps[c].founder /= None
  /\ Founds(q, c) => corps[c].founder = None /\ \A k \in Jobs : ~Fills(plans[k], c)
Asked(q) == Orderly(q) /\ AskedMoves(q) /\ \A c \in Corps : AskedOf(q, c)

LEMMA FoundFills ==
  ASSUME Inv, AllOrderly, NEW j \in Jobs, NEW c, Founds(plans[j], c)
  PROVE  Fills(plans[j], c)
<1>1. PICK t \in Statements(plans[j]) : t.op = "found" /\ t.corp = c
  BY DEF Founds
<1>2. plans[j] \in Seq(Free)
  BY <1>1, OnTheRolls DEF Inv, TypeOK, RollOps
<1>3. PICK i \in 1..Len(plans[j]) : plans[j][i] = t
  BY <1>1 DEF Statements
<1>4. Follows(t, Later(plans[j], i))
  BY <1>2, <1>3 DEF AllOrderly, Orderly
<1>5. PICK p \in Players : Has(Later(plans[j], i), "enrol", p, c)
  BY <1>1, <1>4 DEF Follows, FollowsFound
<1>6. Later(plans[j], i) \subseteq Statements(plans[j])
  <2>1. Len(plans[j]) \in Nat
    BY <1>2
  <2>2. \A k \in (i + 1)..Len(plans[j]) : k \in 1..Len(plans[j])
    BY <1>3, <2>1
  <2>. QED
    BY <2>2 DEF Later, Statements
<1>. QED
  BY <1>5, <1>6 DEF Has, Fills

LEMMA Asks ==
  ASSUME Inv, NEW j \in Jobs, NEW q, Ask(j, q)
  PROVE  /\ plans' = [plans EXCEPT ![j] = q] /\ plans'[j] = q
         /\ \A k \in Jobs \ {j} : plans'[k] = plans[k]
         /\ UNCHANGED <<corps, member, affil, ships>>
         /\ \A o, p, c : ~Owes(plans[j], o, p, c)
         /\ \A c : ~Closes(plans[j], c) /\ ~Fills(plans[j], c) /\ ~Founds(plans[j], c)
         /\ \A o, p, c : Pending(o, p, c)' <=> Pending(o, p, c) \/ Owes(q, o, p, c)
         /\ \A c : Closing(c)' <=> Closing(c) \/ Closes(q, c)
         /\ \A c : Filling(c)' <=> Filling(c) \/ Fills(q, c)
<1>1. /\ plans' = [plans EXCEPT ![j] = q] /\ plans[j] = << >>
      /\ UNCHANGED <<corps, member, affil, ships>>
  BY DEF Ask, rows
<1>2. plans'[j] = q /\ \A k \in Jobs \ {j} : plans'[k] = plans[k]
  BY <1>1, OneMoves
<1>3. /\ \A o, p, c : ~Owes(plans[j], o, p, c)
      /\ \A c : ~Closes(plans[j], c) /\ ~Fills(plans[j], c) /\ ~Founds(plans[j], c)
  BY <1>1, EmptyOrder DEF Owes, Has, Closes, Fills, Founds
<1>4. \A o, p, c : Pending(o, p, c)' <=> Pending(o, p, c) \/ Owes(q, o, p, c)
  BY <1>1, <1>3, PendingParts
<1>5. /\ \A c : Closing(c)' <=> \E k \in Jobs : Closes(plans'[k], c)
      /\ \A c : Filling(c)' <=> \E k \in Jobs : Fills(plans'[k], c)
  BY DEF Closing, Filling, Closes, Fills
<1>6. \A c : Closing(c)' <=> Closing(c) \/ Closes(q, c)
  BY <1>2, <1>3, <1>5 DEF Closing
<1>7. \A c : Filling(c)' <=> Filling(c) \/ Fills(q, c)
  BY <1>2, <1>3, <1>5 DEF Filling
<1>. QED
  BY <1>1, <1>2, <1>3, <1>4, <1>6, <1>7

LEMMA AskAgrees ==
  ASSUME Inv, Inv', Agreeing, NEW j \in Jobs, NEW q, Ask(j, q), Asked(q), ~crossed'
  PROVE  Agreeing'
<1>1. /\ \A k \in Jobs \ {j} : plans'[k] = plans[k]
      /\ plans'[j] = q
      /\ UNCHANGED <<corps, member, affil, ships>>
      /\ \A o, p, c : Pending(o, p, c)' <=> Pending(o, p, c) \/ Owes(q, o, p, c)
      /\ \A c : Closing(c)' <=> Closing(c) \/ Closes(q, c)
      /\ \A c : Filling(c)' <=> Filling(c) \/ Fills(q, c)
  BY Asks
<1>2. \A k \in Jobs : ~Meet(q, plans[k]) /\ ~Meet(plans[k], q)
  BY DEF Ask
<1>3. Typed(q)
  BY <1>1, AllTypedNext
<1>4. ASSUME NEW i \in Jobs, NEW k \in Jobs, i /= k
      PROVE  ~Meet(plans'[i], plans'[k])
  <2>1. ~Meet(plans[i], plans[k])
    BY <1>4 DEF Agreeing, Unmet
  <2>. QED
    BY <1>1, <1>2, <1>4, <2>1
<1>5. Unmet'
  BY <1>4 DEF Unmet, Meet, Enrols, Moves, Closes, Fills
<1>6. ASSUME NEW p \in Players, Moves(q, p), NEW c \in Corps
      PROVE  ~Pending("stamp", p, c)
  <2>1. ASSUME NEW k \in Jobs PROVE ~Enrols(plans[k], p) /\ Typed(plans[k])
    BY <1>2, <1>6, AllTyped DEF Meet
  <2>. QED
    BY <2>1 DEF Pending, Typed
<1>7. ASSUME NEW p \in Players
      PROVE  Agrees(p)'
  <2>1. CASE Moves(q, p)
    <3>1. PICK v \in Corps \cup {None} : Owes(q, "stamp", p, v)
      BY <2>1 DEF Asked, AskedMoves
    <3>2. Settles(p)'
      BY <1>1, <3>1 DEF Settles
    <3>3. \A c \in Corps : Pending("stamp", p, c)' => Pending("enrol", p, c)'
      BY <1>1, <1>6, <2>1 DEF Asked, AskedMoves
    <3>4. Arrives(p)'
      BY <3>3 DEF Arrives
    <3>5. \A d \in Corps : p \in member[d] => Pending("left", p, d)'
      <4>1. CASE Pending("stamp", p, None)
        <5>1. Departs(p)
          BY DEF Agreeing
        <5>. QED
          BY <1>1, <4>1, <5>1 DEF Departs, Leaves
      <4>2. CASE ~Pending("stamp", p, None)
        <5>1. \A w \in Corps \cup {None} : ~Pending("stamp", p, w)
          BY <1>6, <2>1, <4>2
        <5>2. Settles(p)
          BY DEF Agreeing
        <5>3. \A d \in Corps : p \in member[d] => Owes(q, "left", p, d)
          BY <2>1, <5>1, <5>2 DEF Settles, Asked, AskedMoves
        <5>. QED
          BY <1>1, <5>3
      <4>. QED
        BY <4>1, <4>2
    <3>6. Departs(p)'
      BY <1>1, <3>5 DEF Departs
    <3>. QED
      BY <3>2, <3>4, <3>6 DEF Agrees
  <2>2. CASE ~Moves(q, p)
    <3>1. \A o \in {"enrol", "stamp", "left"} : \A v : ~Owes(q, o, p, v)
      BY <1>3, <2>2 DEF Typed
    <3>2. \A o \in {"enrol", "stamp", "left"} : \A v : Pending(o, p, v)' <=> Pending(o, p, v)
      BY <1>1, <3>1
    <3>3. Agrees(p)
      BY DEF Agreeing, Agrees
    <3>. QED
      BY <1>1, <3>2, <3>3, Untouched
  <2>. QED
    BY <2>1, <2>2
<1>8. ASSUME NEW c \in Corps
      PROVE  Led(c)'
  <2>1. PICK f : f = corps[c].founder
    OBVIOUS
  <2>2. corps' = corps /\ member' = member
    BY <1>1
  <2>3. CASE Active(c) /\ ~Closing(c) /\ ~Closes(q, c)
    <3>1. Pending("enrol", f, c) \/ (f \in member[c] /\ ~Pending("left", f, c))
      BY <2>1, <2>3 DEF Agreeing, Led
    <3>2. ~Owes(q, "left", f, c)
      BY <2>1, <2>3 DEF Asked, AskedOf
    <3>3. Pending("enrol", f, c)' \/ (f \in member'[c] /\ ~Pending("left", f, c)')
      BY <1>1, <2>2, <3>1, <3>2
    <3>. QED
      BY <2>1, <2>2, <3>3, LedBy
  <2>4. CASE ~(Active(c) /\ ~Closing(c) /\ ~Closes(q, c))
    BY <1>1, <2>2, <2>4 DEF Led, Active
  <2>. QED
    BY <2>3, <2>4
<1>9. ASSUME NEW c \in Corps
      PROVE  Emptied(c)'
  <2>1. corps' = corps /\ member' = member
    BY <1>1
  <2>2. Emptied(c) /\ AskedOf(q, c)
    BY DEF Agreeing, Asked
  <2>3. ASSUME NEW k \in Jobs
        PROVE  ~(Closes(q, c) /\ Fills(plans[k], c)) /\ ~(Closes(plans[k], c) /\ Fills(q, c))
    BY <1>2 DEF Meet
  <2>4. /\ ~(Closing(c) /\ Fills(q, c)) /\ ~(Closes(q, c) /\ Filling(c))
    BY <2>3 DEF Closing, Filling
  <2>5. CASE corps[c].gone \/ Closing(c)
    BY <1>1, <2>1, <2>2, <2>4, <2>5 DEF Emptied, AskedOf
  <2>6. CASE Closes(q, c)
    BY <1>1, <2>1, <2>2, <2>4, <2>6 DEF Emptied, AskedOf
  <2>7. CASE ~(corps[c].gone \/ Closing(c) \/ Closes(q, c))
    BY <1>1, <2>1, <2>7 DEF Emptied
  <2>. QED
    BY <2>5, <2>6, <2>7
<1>. QED
  BY <1>5, <1>7, <1>8, <1>9, Agreement

LEMMA AskFounders ==
  ASSUME Inv, Inv', AllOrderly, Founders, NEW j \in Jobs, NEW q, Ask(j, q), Asked(q)
  PROVE  Founders' /\ AllOrderly'
<1>1. /\ \A k \in Jobs \ {j} : plans'[k] = plans[k]
      /\ plans'[j] = q
      /\ corps' = corps /\ member' = member
      /\ \A c : Closing(c)' <=> Closing(c) \/ Closes(q, c)
  BY Asks
<1>2. \A c \in Corps : AskedOf(q, c)
  BY DEF Asked
<1>3. \A k \in Jobs, c \in Corps : Founds(plans'[k], c) => corps[c].founder = None
  BY <1>1, <1>2 DEF Founders, AskedOf
<1>4. \A i, k \in Jobs, c \in Corps : Founds(plans'[i], c) /\ Founds(plans'[k], c) => i = k
  BY <1>1, <1>2, FoundFills DEF Founders, AskedOf
<1>5. \A c \in Corps : (\E k \in Jobs : Closes(plans'[k], c)) => corps[c].founder /= None
  BY <1>1, <1>2 DEF Founders, AskedOf
<1>6. \A k \in Jobs, c \in Corps :
        Fills(plans'[k], c) /\ ~Founds(plans'[k], c) => corps[c].founder /= None
  BY <1>1, <1>2 DEF Founders, AskedOf
<1>7. \A c \in Corps : member[c] /= {} \/ corps[c].gone => corps[c].founder /= None
  BY DEF Founders
<1>8. Founders'
  BY <1>1, <1>3, <1>4, <1>5, <1>6, <1>7 DEF Founders, Founds, Fills, Closes
<1>9. AllOrderly'
  BY <1>1, Reordered DEF Asked
<1>. QED
  BY <1>8, <1>9

\* A call that asks nothing of the rolls.
LEMMA SilentAsks ==
  ASSUME NEW q, Silent(q), Orderly(q)
  PROVE  Asked(q)
<1>1. /\ \A o \in RollWords : \A p, c : ~Owes(q, o, p, c)
      /\ \A c : ~Closes(q, c) /\ ~Founds(q, c) /\ ~Fills(q, c)
      /\ \A p : ~Moves(q, p)
  BY DEF Silent, RollOps, RollWords, Owes, Has, Closes, Founds, Fills, Moves
<1>2. AskedMoves(q)
  BY <1>1 DEF AskedMoves, RollWords
<1>3. \A c \in Corps : AskedOf(q, c)
  BY <1>1 DEF AskedOf, RollWords
<1>. QED
  BY <1>2, <1>3 DEF Asked

-----------------------------------------------------------------------------
(* The plans of the calls, put together from the end.                      *)

Lists(plan, c) == \E s \in Statements(plan) : s.op = "list" /\ s.corp = c
Plain(q) == q \in Seq(RollFree) /\ Orderly(q)
Unfounded(q) == \A c : ~Founds(q, c)

LEMMA Put ==
  ASSUME NEW s \in RollFree, NEW q, Plain(q), Follows(s, Statements(q))
  PROVE  /\ Plain(<<s>> \o q)
         /\ Told(<<s>> \o q, s, q)
         /\ \A c : Lists(<<s>> \o q, c) <=> Lists(q, c) \/ (s.op = "list" /\ s.corp = c)
<1>1. /\ <<s>> \o q \in Seq(RollFree)
      /\ Statements(<<s>> \o q) = {s} \cup Statements(q)
      /\ Orderly(<<s>> \o q)
  BY Prefixed DEF Plain
<1>2. Told(<<s>> \o q, s, q)
  BY <1>1, Telling
<1>3. \A c : Lists(<<s>> \o q, c) <=> Lists(q, c) \/ (s.op = "list" /\ s.corp = c)
  BY <1>1 DEF Lists
<1>. QED
  BY <1>1, <1>2, <1>3 DEF Plain

LEMMA Nothing ==
  /\ Plain(<< >>) /\ Unfounded(<< >>)
  /\ \A op, p, c : ~Owes(<< >>, op, p, c)
  /\ \A c : ~Closes(<< >>, c) /\ ~Fills(<< >>, c) /\ ~Lists(<< >>, c)
  BY EmptyOrder DEF Plain, Unfounded, Owes, Has, Closes, Fills, Lists, Founds

LEMMA NoneFounded ==
  ASSUME NEW q, Unfounded(q), NEW s \in Statements(q)
  PROVE  s.op /= "found"
  BY DEF Unfounded, Founds

\* The pieces of the plans.
LEMMA EnrolmentTold ==
  ASSUME NEW p \in Players, NEW c \in Corps
  PROVE  LET q == Enrolment(p, c)
         IN /\ Plain(q) /\ Unfounded(q)
            /\ \A o, x, d : Owes(q, o, x, d) <=> o \in {"enrol", "stamp"} /\ x = p /\ d = c
            /\ \A d : ~Closes(q, d) /\ ~Lists(q, d)
            /\ \A d : Fills(q, d) <=> d = c
<1>. DEFINE e == Do("enrol", {p}, c, None)
            t == Do("stamp", {p}, c, None)
            r == <<t>> \o << >>
            q == <<e>> \o r
<1>1. e \in RollFree /\ t \in RollFree
  BY RollStatements DEF RollOps
<1>2. /\ e.op = "enrol" /\ e.who = {p} /\ e.corp = c
      /\ t.op = "stamp" /\ t.who = {p} /\ t.corp = c
  BY DEF Do
<1>3. Enrolment(p, c) = q
  BY DEF Enrolment
<1>. HIDE DEF e, t
<1>4. Follows(t, Statements(<< >>))
  BY <1>2, EmptyOrder DEF Follows, FollowsLeft, FollowsEnrol, FollowsStamp, FollowsFound,
     FollowsOther, Has
<1>5. /\ Plain(r) /\ Told(r, t, << >>)
      /\ \A d : Lists(r, d) <=> Lists(<< >>, d) \/ (t.op = "list" /\ t.corp = d)
  BY <1>1, <1>4, Nothing, Put
<1>. HIDE DEF r
<1>6. /\ \A o, x, d : Owes(r, o, x, d) <=> o = "stamp" /\ x = p /\ d = c
      /\ \A d : ~Closes(r, d) /\ ~Lists(r, d) /\ ~Founds(r, d)
      /\ \A d : Fills(r, d) <=> d = c
  BY <1>2, <1>5, Nothing DEF Told, Unfounded
<1>7. Follows(e, Statements(r))
  <2>1. FollowsEnrol(e, Statements(r))
    BY <1>2, <1>6 DEF FollowsEnrol, Owes
  <2>2. \A s \in Statements(r) : s.op /= "found"
    BY <1>6 DEF Founds
  <2>. QED
    BY <1>2, <2>1, <2>2 DEF Follows, FollowsLeft, FollowsStamp, FollowsFound, FollowsOther
<1>8. /\ Plain(q) /\ Told(q, e, r)
      /\ \A d : Lists(q, d) <=> Lists(r, d) \/ (e.op = "list" /\ e.corp = d)
  BY <1>1, <1>5, <1>7, Put
<1>. HIDE DEF q
<1>9. /\ \A o, x, d : Owes(q, o, x, d) <=> o \in {"enrol", "stamp"} /\ x = p /\ d = c
      /\ \A d : ~Closes(q, d) /\ ~Lists(q, d) /\ ~Founds(q, d)
      /\ \A d : Fills(q, d) <=> d = c
  BY <1>2, <1>6, <1>8 DEF Told
<1>. QED
  BY <1>3, <1>8, <1>9 DEF Unfounded

\* A corporation that may be disbanded on the way.
Ending(D, c) == IF D THEN Disbanding(c) ELSE << >>
LEMMA EndingTold ==
  ASSUME NEW D \in BOOLEAN, NEW c \in Corps, NEW q, Plain(q), Unfounded(q), \A d : ~Lists(q, d)
  PROVE  LET plan == Ending(D, c) \o q
         IN /\ Ending(D, c) \in Seq(RollFree)
            /\ Plain(plan) /\ Unfounded(plan)
            /\ \A o \in RollWords : \A x, d : Owes(plan, o, x, d) <=> Owes(q, o, x, d)
            /\ \A d : Closes(plan, d) <=> Closes(q, d) \/ (D /\ d = c)
            /\ \A d : Lists(plan, d) <=> D /\ d = c
            /\ \A d : Fills(plan, d) <=> Fills(q, d)
<1>. DEFINE a == Do("list", {}, c, None)
            g == Do("release", {}, c, None)
            b == Do("close", {}, c, None)
            r == <<b>> \o q
            rr == <<g>> \o r
            plan == <<a>> \o rr
<1>1. a \in RollFree /\ g \in RollFree /\ b \in RollFree /\ q \in Seq(RollFree)
  BY RollStatements DEF RollOps, Plain
<1>2. /\ a.op = "list" /\ a.who = {} /\ a.corp = c
      /\ g.op = "release" /\ g.who = {} /\ g.corp = c
      /\ b.op = "close" /\ b.who = {} /\ b.corp = c
  BY DEF Do
<1>3. CASE ~D
  <2>1. Ending(D, c) = << >> /\ << >> \o q = q /\ << >> \in Seq(RollFree)
    BY <1>1, <1>3 DEF Ending
  <2>. QED
    BY <1>3, <2>1
<1>4. CASE D
  <2>1. Ending(D, c) = <<a, g, b>> /\ <<a, g, b>> = <<a>> \o (<<g>> \o <<b>>)
    BY <1>4 DEF Ending, Disbanding
  <2>2. <<a>> \in Seq(RollFree) /\ <<g>> \in Seq(RollFree) /\ <<b>> \in Seq(RollFree)
        /\ <<g>> \o <<b>> \in Seq(RollFree)
    BY <1>1
  <2>. HIDE DEF a, g, b
  <2>3. Ending(D, c) \in Seq(RollFree)
    BY <2>1, <1>1
  <2>4. Ending(D, c) \o q = plan
    <3>1. (<<a>> \o (<<g>> \o <<b>>)) \o q = <<a>> \o ((<<g>> \o <<b>>) \o q)
      BY <2>2, <1>1, Regroup
    <3>2. (<<g>> \o <<b>>) \o q = <<g>> \o (<<b>> \o q)
      BY <2>2, <1>1, Regroup
    <3>. QED
      BY <2>1, <3>1, <3>2
  <2>5. Follows(b, Statements(q))
    <3>1. \A s \in Statements(q) : s.op /= "found" /\ s.op /= "list"
      BY NoneFounded DEF Lists
    <3>. QED
      BY <1>2, <3>1 DEF Follows, FollowsLeft, FollowsEnrol, FollowsStamp, FollowsFound, FollowsOther
  <2>6. /\ Plain(r) /\ Told(r, b, q)
        /\ \A d : Lists(r, d) <=> Lists(q, d) \/ (b.op = "list" /\ b.corp = d)
    BY <1>1, <2>5, Put
  <2>. HIDE DEF r
  <2>7. /\ \A o \in RollWords : \A x, d : Owes(r, o, x, d) <=> Owes(q, o, x, d)
        /\ \A d : Closes(r, d) <=> Closes(q, d) \/ d = c
        /\ \A d : ~Lists(r, d) /\ ~Founds(r, d)
        /\ \A d : Fills(r, d) <=> Fills(q, d)
    BY <1>2, <2>6 DEF Told, Unfounded
  <2>8. Follows(g, Statements(r))
    <3>1. \A s \in Statements(r) : s.op /= "found"
      BY <2>7 DEF Founds
    <3>. QED
      BY <1>2, <3>1 DEF Follows, FollowsLeft, FollowsEnrol, FollowsStamp, FollowsFound, FollowsOther
  <2>9. /\ Plain(rr) /\ Told(rr, g, r)
        /\ \A d : Lists(rr, d) <=> Lists(r, d) \/ (g.op = "list" /\ g.corp = d)
    BY <1>1, <2>6, <2>8, Put
  <2>10. g \in Statements(rr)
    BY <1>1, <2>6, Prefixed DEF Plain
  <2>. HIDE DEF rr
  <2>11. /\ \A o \in RollWords : \A x, d : Owes(rr, o, x, d) <=> Owes(q, o, x, d)
         /\ \A d : Closes(rr, d) <=> Closes(q, d) \/ d = c
         /\ \A d : ~Lists(rr, d) /\ ~Founds(rr, d)
         /\ \A d : Fills(rr, d) <=> Fills(q, d)
    BY <1>2, <2>7, <2>9 DEF Told
  <2>12. Follows(a, Statements(rr))
    <3>1. \A s \in Statements(rr) : s.op /= "found" /\ s.op /= "list"
      BY <2>11 DEF Founds, Lists
    <3>2. \E s \in Statements(rr) : s.op = "release"
      BY <1>2, <2>10
    <3>. QED
      BY <1>2, <3>1, <3>2 DEF Follows, FollowsLeft, FollowsEnrol, FollowsStamp, FollowsFound,
         FollowsOther
  <2>13. /\ Plain(plan) /\ Told(plan, a, rr)
         /\ \A d : Lists(plan, d) <=> Lists(rr, d) \/ (a.op = "list" /\ a.corp = d)
    BY <1>1, <2>9, <2>12, Put
  <2>. HIDE DEF plan
  <2>14. /\ \A o \in RollWords : \A x, d : Owes(plan, o, x, d) <=> Owes(q, o, x, d)
         /\ \A d : Closes(plan, d) <=> Closes(q, d) \/ d = c
         /\ \A d : Lists(plan, d) <=> d = c
         /\ \A d : ~Founds(plan, d)
         /\ \A d : Fills(plan, d) <=> Fills(q, d)
    BY <1>2, <2>11, <2>13 DEF Told
  <2>. QED
    BY <1>4, <2>3, <2>4, <2>13, <2>14 DEF Unfounded
<1>. QED
  BY <1>3, <1>4

LEMMA LeftTold ==
  ASSUME NEW who \in SUBSET Players, NEW c \in Corps, NEW q, Plain(q), Unfounded(q),
         \A x \in who : \E v \in Corps \cup {None} : Owes(q, "stamp", x, v),
         \A x \in who : \A d \in Corps : Owes(q, "stamp", x, d) => Owes(q, "enrol", x, d)
  PROVE  LET plan == <<Do("left", who, c, None)>> \o q
         IN /\ Plain(plan) /\ Unfounded(plan)
            /\ \A o, x, d : Owes(plan, o, x, d) <=>
                 Owes(q, o, x, d) \/ (o = "left" /\ x \in who /\ d = c)
            /\ \A d : /\ Closes(plan, d) <=> Closes(q, d)
                      /\ Lists(plan, d) <=> Lists(q, d)
                      /\ Fills(plan, d) <=> Fills(q, d)
<1>. DEFINE s == Do("left", who, c, None)
            plan == <<s>> \o q
<1>1. s \in RollFree /\ s.op = "left" /\ s.who = who /\ s.corp = c
  <2>1. s \in RollFree
    BY RollStatements DEF RollOps
  <2>. QED
    BY <2>1 DEF Do
<1>. HIDE DEF s
<1>2. Follows(s, Statements(q))
  <2>1. FollowsLeft(s, Statements(q))
    BY <1>1 DEF FollowsLeft, Owes
  <2>2. \A t \in Statements(q) : t.op /= "found"
    BY NoneFounded
  <2>. QED
    BY <1>1, <2>1, <2>2 DEF Follows, FollowsEnrol, FollowsStamp, FollowsFound, FollowsOther
<1>3. /\ Plain(plan) /\ Told(plan, s, q)
      /\ \A d : Lists(plan, d) <=> Lists(q, d) \/ (s.op = "list" /\ s.corp = d)
  BY <1>1, <1>2, Put
<1>. HIDE DEF plan
<1>4. /\ \A o, x, d : Owes(plan, o, x, d) <=>
           Owes(q, o, x, d) \/ (o = "left" /\ x \in who /\ d = c)
      /\ \A d : /\ Closes(plan, d) <=> Closes(q, d)
                /\ Lists(plan, d) <=> Lists(q, d)
                /\ Fills(plan, d) <=> Fills(q, d)
      /\ \A d : ~Founds(plan, d)
  BY <1>1, <1>3 DEF Told, Unfounded
<1>. QED
  BY <1>3, <1>4 DEF Unfounded, plan, s

LEMMA ClearTold ==
  ASSUME NEW who \in SUBSET Players, NEW q, Plain(q), Unfounded(q),
         \A o \in RollWords : \A x \in who : \A d : ~Owes(q, o, x, d)
  PROVE  LET plan == <<Do("stamp", who, None, None)>> \o q
         IN /\ Plain(plan) /\ Unfounded(plan)
            /\ \A o, x, d : Owes(plan, o, x, d) <=>
                 Owes(q, o, x, d) \/ (o = "stamp" /\ x \in who /\ d = None)
            /\ \A d : /\ Closes(plan, d) <=> Closes(q, d)
                      /\ Lists(plan, d) <=> Lists(q, d)
                      /\ Fills(plan, d) <=> Fills(q, d) \/ d = None
<1>. DEFINE s == Do("stamp", who, None, None)
            plan == <<s>> \o q
<1>1. s \in RollFree /\ s.op = "stamp" /\ s.who = who /\ s.corp = None
  BY DEF Do, RollFree, Free, Statement, RollOps, HullOps
<1>. HIDE DEF s
<1>2. Follows(s, Statements(q))
  <2>1. FollowsStamp(s, Statements(q))
    BY <1>1 DEF FollowsStamp, Owes, RollWords
  <2>2. \A t \in Statements(q) : t.op /= "found"
    BY NoneFounded
  <2>. QED
    BY <1>1, <2>1, <2>2 DEF Follows, FollowsEnrol, FollowsLeft, FollowsFound, FollowsOther
<1>3. /\ Plain(plan) /\ Told(plan, s, q)
      /\ \A d : Lists(plan, d) <=> Lists(q, d) \/ (s.op = "list" /\ s.corp = d)
  BY <1>1, <1>2, Put
<1>. HIDE DEF plan
<1>4. /\ \A o, x, d : Owes(plan, o, x, d) <=>
           Owes(q, o, x, d) \/ (o = "stamp" /\ x \in who /\ d = None)
      /\ \A d : /\ Closes(plan, d) <=> Closes(q, d)
                /\ Lists(plan, d) <=> Lists(q, d)
                /\ Fills(plan, d) <=> Fills(q, d) \/ d = None
      /\ \A d : ~Founds(plan, d)
  BY <1>1, <1>3 DEF Told, Unfounded
<1>. QED
  BY <1>3, <1>4 DEF Unfounded, plan, s

LEMMA EvictionTold ==
  ASSUME NEW who \in SUBSET Players, NEW c \in Corps, NEW q, Plain(q), Unfounded(q),
         \A o \in RollWords : \A x \in who : \A d : ~Owes(q, o, x, d)
  PROVE  LET plan == Eviction(who, c) \o q
         IN /\ Plain(plan) /\ Unfounded(plan)
            /\ \A o, x, d : Owes(plan, o, x, d) <=>
                 \/ Owes(q, o, x, d)
                 \/ x \in who /\ ((o = "left" /\ d = c) \/ (o = "stamp" /\ d = None))
            /\ \A d : /\ Closes(plan, d) <=> Closes(q, d)
                      /\ Lists(plan, d) <=> Lists(q, d)
                      /\ Fills(plan, d) <=> Fills(q, d) \/ (who /= {} /\ d = None)
<1>1. CASE who = {}
  <2>1. Eviction(who, c) \o q = q
    BY <1>1 DEF Eviction, Plain
  <2>. QED
    BY <1>1, <2>1
<1>2. CASE who /= {}
  <2>. DEFINE a == Do("left", who, c, None)
              b == Do("stamp", who, None, None)
              r == <<b>> \o q
              plan == <<a>> \o r
  <2>1. a \in RollFree /\ b \in RollFree /\ q \in Seq(RollFree)
    BY RollStatements DEF RollOps, Plain
  <2>2. Eviction(who, c) = <<a, b>> /\ <<a, b>> = <<a>> \o <<b>>
    BY <1>2 DEF Eviction
  <2>3. /\ Plain(r) /\ Unfounded(r)
        /\ \A o, x, d : Owes(r, o, x, d) <=>
             Owes(q, o, x, d) \/ (o = "stamp" /\ x \in who /\ d = None)
        /\ \A d : /\ Closes(r, d) <=> Closes(q, d)
                  /\ Lists(r, d) <=> Lists(q, d)
                  /\ Fills(r, d) <=> Fills(q, d) \/ d = None
    BY ClearTold
  <2>4. Eviction(who, c) \o q = plan
    <3>. HIDE DEF a, b
    <3>1. <<a>> \in Seq(RollFree) /\ <<b>> \in Seq(RollFree)
      BY <2>1
    <3>. QED
      BY <2>1, <2>2, <3>1, Regroup
  <2>. HIDE DEF r
  <2>5. /\ \A x \in who : \E v \in Corps \cup {None} : Owes(r, "stamp", x, v)
        /\ \A x \in who : \A d \in Corps : ~Owes(r, "stamp", x, d)
    BY <2>3, NoneAssumption DEF RollWords
  <2>6. /\ Plain(plan) /\ Unfounded(plan)
        /\ \A o, x, d : Owes(plan, o, x, d) <=>
             Owes(r, o, x, d) \/ (o = "left" /\ x \in who /\ d = c)
        /\ \A d : /\ Closes(plan, d) <=> Closes(r, d)
                  /\ Lists(plan, d) <=> Lists(r, d)
                  /\ Fills(plan, d) <=> Fills(r, d)
    BY <2>3, <2>5, LeftTold
  <2>. HIDE DEF plan
  <2>7. /\ \A o, x, d : Owes(plan, o, x, d) <=>
             \/ Owes(q, o, x, d)
             \/ x \in who /\ ((o = "left" /\ d = c) \/ (o = "stamp" /\ d = None))
        /\ \A d : /\ Closes(plan, d) <=> Closes(q, d)
                  /\ Lists(plan, d) <=> Lists(q, d)
                  /\ Fills(plan, d) <=> Fills(q, d) \/ (who /= {} /\ d = None)
    BY <1>2, <2>3, <2>6
  <2>. QED
    BY <2>4, <2>6, <2>7
<1>. QED
  BY <1>1, <1>2

LEMMA PlainTyped ==
  ASSUME NEW q, Plain(q)
  PROVE  Typed(q)
<1>1. \A s \in Statements(q) : s \in Free
  BY DEF Plain, RollFree, Statements
<1>. QED
  BY <1>1, Typing

\* One who is alone in a corporation is the last of its members.
LEMMA LastMember ==
  ASSUME Inv, NEW c \in Corps, NEW p \in member[c], Cardinality(member[c]) <= 1
  PROVE  member[c] = {p}
<1>1. IsFiniteSet(member[c])
  BY PlayersAssumption, FS_Subset DEF Inv, TypeOK
<1>2. Cardinality(member[c]) \in Nat
  BY <1>1, FS_CardinalityType
<1>3. /\ IsFiniteSet(member[c] \ {p})
      /\ Cardinality(member[c] \ {p}) = Cardinality(member[c]) - 1
  BY <1>1, FS_RemoveElement
<1>4. Cardinality(member[c] \ {p}) \in Nat
  BY <1>3, FS_CardinalityType
<1>5. Cardinality(member[c] \ {p}) = 0
  BY <1>2, <1>3, <1>4
<1>6. member[c] \ {p} = {}
  BY <1>3, <1>5, FS_EmptySet
<1>. QED
  BY <1>6

\* What a plan says of a ship: that it goes off the list, or is no more.
Unlisting(plan, h) == \E s \in Statements(plan) : s.op = "unlink" /\ s.ship = h
Scrapping(plan, h) == \E s \in Statements(plan) : s.op = "scrap" /\ s.ship = h
Wrecking(plan, h) == \E s \in Statements(plan) : s.op \in {"scrap", "destroy"} /\ s.ship = h

\* What belongs together is in one plan: a corporation is closed and its
\* ships are listed, and a ship goes off the list and is no more. No call begins
\* with a ship that it has built already.
Together(q) == /\ \A c : Closes(q, c) => Lists(q, c)
               /\ \A h : Unlisting(q, h) => Wrecking(q, h)
               /\ \A h : ~Links(q, h)

LEMMA PlainTogether ==
  ASSUME NEW q, Plain(q), \A c : Closes(q, c) => Lists(q, c)
  PROVE  Together(q)
<1>1. q \in Seq(Free) /\ \A s \in Statements(q) : s.op \in RollOps
  BY DEF Plain, RollFree, Statements
<1>2. \A h : ~Unlisting(q, h)
  BY <1>1 DEF Unlisting, RollOps
<1>3. \A h : ~Links(q, h)
  BY <1>1, FreeIsFree
<1>. QED
  BY <1>2, <1>3 DEF Together

-----------------------------------------------------------------------------
(* Every call asks for no more than it may.                                *)

LEMMA CreateAsks ==
  ASSUME Inv, AllOrderly, Founders, NEW j \in Jobs, NEW p \in Players, NEW c \in Corps,
         AskCreate(j, p, c)
  PROVE  \E q : Ask(j, q) /\ Asked(q) /\ Together(q)
<1>. DEFINE s == Do("found", {p}, c, None)
            e == Enrolment(p, c)
            q == <<s>> \o e
<1>1. Ask(j, q) /\ affil[p] = None /\ corps[c].founder = None
      /\ \A k \in Jobs : ~Fills(plans[k], c)
  BY DEF AskCreate
<1>2. s \in RollFree /\ s.op = "found" /\ s.who = {p} /\ s.corp = c
  <2>1. s \in RollFree
    BY RollStatements DEF RollOps
  <2>. QED
    BY <2>1 DEF Do
<1>3. /\ Plain(e) /\ Unfounded(e)
      /\ \A o, x, d : Owes(e, o, x, d) <=> o \in {"enrol", "stamp"} /\ x = p /\ d = c
      /\ \A d : ~Closes(e, d) /\ ~Lists(e, d)
      /\ \A d : Fills(e, d) <=> d = c
  BY EnrolmentTold
<1>. HIDE DEF s, e
<1>4. Follows(s, Statements(e))
  <2>1. \A t \in Statements(e) : t.op /= "found"
    BY <1>3, NoneFounded
  <2>2. Has(Statements(e), "enrol", p, s.corp)
    BY <1>2, <1>3 DEF Owes
  <2>. QED
    BY <1>2, <2>1, <2>2 DEF Follows, FollowsEnrol, FollowsLeft, FollowsStamp, FollowsFound,
       FollowsOther
<1>5. Plain(q) /\ Told(q, s, e)
  BY <1>2, <1>3, <1>4, Put
<1>. HIDE DEF q
<1>6. Typed(q)
  BY <1>5, PlainTyped
<1>7. /\ \A o \in RollWords : \A x, d :
           Owes(q, o, x, d) <=> o \in {"enrol", "stamp"} /\ x = p /\ d = c
      /\ \A d : ~Closes(q, d)
      /\ \A d : Founds(q, d) <=> d = c
      /\ \A d : Fills(q, d) <=> d = c
  BY <1>2, <1>3, <1>5 DEF Told, Unfounded, RollWords
<1>8. \A x \in Players : Moves(q, x) => x = p
  BY <1>6, <1>7 DEF Typed, RollWords
<1>9. \A d \in Corps : affil[p] /= d
  BY <1>1, NoneAssumption
<1>10. AskedMoves(q)
  BY <1>7, <1>8, <1>9 DEF AskedMoves, RollWords
<1>11. ~corps[c].gone
  BY <1>1 DEF Founders
<1>12. \A d \in Corps : AskedOf(q, d)
  BY <1>1, <1>7, <1>11 DEF AskedOf, RollWords
<1>. QED
  BY <1>1, <1>5, <1>7, <1>10, <1>12, PlainTogether DEF Asked, Plain

\* Someone leaves a corporation, with those he evicts, and may disband it.
LEMMA DepartureAsks ==
  ASSUME Inv, Founders, NEW p \in Players, NEW old \in Corps, NEW who \in SUBSET member[old],
         affil[p] = old, NEW D \in BOOLEAN,
         D => (\A x \in member[old] : x \in who \/ x = p) /\ corps[old].founder /= None,
         corps[old].founder = p => D, corps[old].founder \notin who,
         NEW c \in Corps \cup {None}, c /= old,
         c /= None => Active(c),
         NEW q, Plain(q), Unfounded(q),
         \A o \in RollWords : \A x, d :
           Owes(q, o, x, d) <=>
             \/ x \in who /\ ((o = "left" /\ d = old) \/ (o = "stamp" /\ d = None))
             \/ x = p /\ ((o = "left" /\ d = old) \/ (o = "stamp" /\ d = c))
             \/ x = p /\ o = "enrol" /\ d = c /\ c /= None,
         \A d : Closes(q, d) <=> D /\ d = old,
         \A d \in Corps : Fills(q, d) <=> d = c
  PROVE  Asked(q)
<1>1. who \subseteq Players /\ \A x \in who : x \in member[old]
  BY DEF Inv, TypeOK
<1>2. Typed(q)
  BY PlainTyped
<1>3. \A x \in Players : Moves(q, x) => x \in who \/ x = p
  BY <1>2 DEF Typed, RollWords
<1>4. ASSUME NEW x \in Players
      PROVE  /\ Moves(q, x) => \E v \in Corps \cup {None} : Owes(q, "stamp", x, v)
             /\ \A d \in Corps : Owes(q, "stamp", x, d) => Owes(q, "enrol", x, d)
             /\ Moves(q, x) /\ (\A d \in Corps : x \in member[d] <=> affil[x] = d) =>
                  \A d \in Corps : x \in member[d] => Owes(q, "left", x, d)
  <2>1. \A d : Owes(q, "stamp", x, d) <=> (x \in who /\ d = None) \/ (x = p /\ d = c)
    BY DEF RollWords
  <2>2. \A d : Owes(q, "left", x, d) <=> (x \in who \/ x = p) /\ d = old
    BY DEF RollWords
  <2>3. \A d : Owes(q, "enrol", x, d) <=> x = p /\ d = c /\ c /= None
    BY DEF RollWords
  <2>4. Moves(q, x) => \E v \in Corps \cup {None} : Owes(q, "stamp", x, v)
    BY <1>3, <2>1
  <2>5. \A d \in Corps : Owes(q, "stamp", x, d) => Owes(q, "enrol", x, d)
    BY <2>1, <2>3, NoneAssumption
  <2>6. ASSUME Moves(q, x), \A d \in Corps : x \in member[d] <=> affil[x] = d,
               NEW d \in Corps, x \in member[d]
        PROVE  Owes(q, "left", x, d)
    <3>1. x \in who \/ x = p
      BY <1>3, <2>6
    <3>2. affil[x] = old
      BY <1>1, <2>6, <3>1
    <3>3. affil[x] = d
      BY <2>6
    <3>. QED
      BY <2>2, <3>1, <3>2, <3>3
  <2>. QED
    BY <2>4, <2>5, <2>6
<1>5. AskedMoves(q)
  BY <1>4 DEF AskedMoves
<1>6. ASSUME NEW d \in Corps
      PROVE  AskedOf(q, d)
  <2>1. Owes(q, "left", corps[d].founder, d) => Closes(q, d)
    <3>1. \A x : Owes(q, "left", x, d) <=> (x \in who \/ x = p) /\ d = old
      BY DEF RollWords
    <3>. QED
      BY <3>1
  <2>2. \A x : Owes(q, "left", x, d) <=> (x \in who \/ x = p) /\ d = old
    BY DEF RollWords
  <2>3. Closes(q, d) => /\ \A x \in member[d] : Owes(q, "left", x, d)
                        /\ ~Fills(q, d) /\ corps[d].founder /= None
    BY <2>2
  <2>4. d = c => ~corps[d].gone /\ corps[d].founder /= None
    BY NoneAssumption DEF Active
  <2>. QED
    BY <2>1, <2>3, <2>4 DEF AskedOf, Unfounded
<1>. QED
  BY <1>5, <1>6 DEF Asked, Plain

LEMMA JoinFresh ==
  ASSUME Inv, NEW p \in Players, NEW c \in Corps, affil[p] = None, Active(c)
  PROVE  Asked(Enrolment(p, c)) /\ Together(Enrolment(p, c))
<1>. DEFINE q == Enrolment(p, c)
<1>1. /\ Plain(q) /\ Unfounded(q)
      /\ \A o, x, d : Owes(q, o, x, d) <=> o \in {"enrol", "stamp"} /\ x = p /\ d = c
      /\ \A d : ~Closes(q, d) /\ ~Lists(q, d)
      /\ \A d : Fills(q, d) <=> d = c
  BY EnrolmentTold
<1>. HIDE DEF q
<1>2. Typed(q)
  BY <1>1, PlainTyped
<1>3. \A x \in Players : Moves(q, x) => x = p
  BY <1>1, <1>2 DEF Typed
<1>4. \A d \in Corps : affil[p] /= d
  BY NoneAssumption
<1>5. AskedMoves(q)
  BY <1>1, <1>3, <1>4 DEF AskedMoves
<1>6. \A d \in Corps : AskedOf(q, d)
  BY <1>1 DEF AskedOf, Unfounded, Active
<1>. QED
  BY <1>1, <1>5, <1>6, PlainTogether DEF Asked, Plain, q

LEMMA JoinAsks ==
  ASSUME Inv, Founders, NEW j \in Jobs, NEW p \in Players, NEW c \in Corps, AskJoin(j, p, c)
  PROVE  \E q : Ask(j, q) /\ Asked(q) /\ Together(q)
<1>1. PICK old : old = affil[p]
  OBVIOUS
<1>2. Active(c) /\ old /= c
  BY <1>1 DEF AskJoin
<1>3. CASE old = None
  <2>1. Ask(j, Enrolment(p, c))
    BY <1>1, <1>3 DEF AskJoin
  <2>. QED
    BY <1>1, <1>2, <1>3, <2>1, JoinFresh
<1>4. CASE old /= None
  <2>1. old \in Corps
    BY <1>1, <1>4 DEF Inv, TypeOK
  <2>. DEFINE last == member[old] = {p}
              who == Evicted(p, old, last)
              D == Disbands(p, old, last)
              e == Enrolment(p, c)
              l == <<Do("left", {p}, old, None)>>
              v == Eviction(who, old)
              q == v \o l \o Ending(D, old) \o e
  <2>2. Ask(j, q)
    BY <1>1, <1>4 DEF AskJoin, Ending
  <2>3. /\ D <=> last \/ corps[old].founder = p
        /\ who = IF corps[old].founder = p /\ ~last THEN member[old] \ {p} ELSE {}
        /\ D \in BOOLEAN
    BY DEF Disbands, Evicted
  <2>4. who \in SUBSET member[old] /\ who \in SUBSET Players /\ p \notin who
    BY <2>1, <2>3 DEF Inv, TypeOK
  <2>5. /\ D => (\A x \in member[old] : x \in who \/ x = p)
        /\ corps[old].founder = p => D
        /\ corps[old].founder \notin who
    BY <2>3
  <2>6. D => corps[old].founder /= None
    <3>1. last => corps[old].founder /= None
      BY <2>1 DEF Founders
    <3>. QED
      BY <2>3, <3>1, NoneAssumption
  <2>. HIDE DEF last, who, D
  <2>7. /\ Plain(e) /\ Unfounded(e)
        /\ \A o, x, d : Owes(e, o, x, d) <=> o \in {"enrol", "stamp"} /\ x = p /\ d = c
        /\ \A d : ~Closes(e, d) /\ ~Lists(e, d)
        /\ \A d : Fills(e, d) <=> d = c
    BY EnrolmentTold
  <2>. HIDE DEF e
  <2>. DEFINE e2 == Ending(D, old) \o e
              e3 == l \o e2
              e4 == v \o e3
  <2>8. /\ Ending(D, old) \in Seq(RollFree)
        /\ Plain(e2) /\ Unfounded(e2)
        /\ \A o \in RollWords : \A x, d : Owes(e2, o, x, d) <=> Owes(e, o, x, d)
        /\ \A d : Closes(e2, d) <=> Closes(e, d) \/ (D /\ d = old)
        /\ \A d : Lists(e2, d) <=> D /\ d = old
        /\ \A d : Fills(e2, d) <=> Fills(e, d)
    BY <2>1, <2>3, <2>7, EndingTold
  <2>. HIDE DEF e2
  <2>9. /\ \A o \in RollWords : \A x, d :
             Owes(e2, o, x, d) <=> o \in {"enrol", "stamp"} /\ x = p /\ d = c
        /\ \A d : Closes(e2, d) <=> D /\ d = old
        /\ \A d : Fills(e2, d) <=> d = c
    BY <2>7, <2>8
  <2>10. /\ \A x \in {p} : \E w \in Corps \cup {None} : Owes(e2, "stamp", x, w)
         /\ \A x \in {p} : \A d \in Corps : Owes(e2, "stamp", x, d) => Owes(e2, "enrol", x, d)
    BY <2>9 DEF RollWords
  <2>11. /\ Plain(e3) /\ Unfounded(e3)
         /\ \A o, x, d : Owes(e3, o, x, d) <=>
              Owes(e2, o, x, d) \/ (o = "left" /\ x \in {p} /\ d = old)
         /\ \A d : /\ Closes(e3, d) <=> Closes(e2, d)
                   /\ Lists(e3, d) <=> Lists(e2, d)
                   /\ Fills(e3, d) <=> Fills(e2, d)
    <3>1. {p} \in SUBSET Players
      OBVIOUS
    <3>. QED
      BY <2>1, <2>8, <2>10, <3>1, LeftTold
  <2>12. l \in Seq(RollFree) /\ v \in Seq(RollFree)
    BY <2>1, <2>4, RollPlans
  <2>. HIDE DEF l, v, e3
  <2>13. \A o \in RollWords : \A x, d :
           Owes(e3, o, x, d) <=> x = p /\ \/ o \in {"enrol", "stamp"} /\ d = c
                                          \/ o = "left" /\ d = old
    BY <2>9, <2>11 DEF RollWords
  <2>14. \A o \in RollWords : \A x \in who : \A d : ~Owes(e3, o, x, d)
    BY <2>4, <2>13
  <2>15. /\ Plain(e4) /\ Unfounded(e4)
         /\ \A o, x, d : Owes(e4, o, x, d) <=>
              \/ Owes(e3, o, x, d)
              \/ x \in who /\ ((o = "left" /\ d = old) \/ (o = "stamp" /\ d = None))
         /\ \A d : /\ Closes(e4, d) <=> Closes(e3, d)
                   /\ Lists(e4, d) <=> Lists(e3, d)
                   /\ Fills(e4, d) <=> Fills(e3, d) \/ (who /= {} /\ d = None)
    BY <2>1, <2>4, <2>11, <2>14, EvictionTold DEF v
  <2>16. q = e4
    <3>1. e \in Seq(RollFree)
      BY <2>7 DEF Plain
    <3>2. v \o l \in Seq(RollFree)
      BY <2>12
    <3>3. q = (v \o l) \o (Ending(D, old) \o e)
      <4>. DEFINE a == v \o l
                  b == Ending(D, old)
      <4>1. a \in Seq(RollFree) /\ b \in Seq(RollFree)
        BY <2>8, <3>2
      <4>. HIDE DEF a, b
      <4>2. (a \o b) \o e = a \o (b \o e)
        BY <3>1, <4>1, Regroup
      <4>. QED
        BY <4>2 DEF a, b
    <3>4. e2 \in Seq(RollFree)
      BY <2>8 DEF Plain
    <3>5. (v \o l) \o e2 = v \o (l \o e2)
      BY <2>12, <3>4, Regroup
    <3>. QED
      BY <3>3, <3>5 DEF e2, e3
  <2>. HIDE DEF e4, q
  <2>17. /\ \A o \in RollWords : \A x, d :
              Owes(e4, o, x, d) <=>
                \/ x \in who /\ ((o = "left" /\ d = old) \/ (o = "stamp" /\ d = None))
                \/ x = p /\ ((o = "left" /\ d = old) \/ (o = "stamp" /\ d = c))
                \/ x = p /\ o = "enrol" /\ d = c /\ c /= None
         /\ \A d : Closes(e4, d) <=> D /\ d = old
         /\ \A d \in Corps : Fills(e4, d) <=> d = c
    BY <2>9, <2>11, <2>13, <2>15, NoneAssumption DEF RollWords
  <2>18. Asked(e4)
    BY <1>1, <1>2, <2>1, <2>3, <2>4, <2>5, <2>6, <2>15, <2>17, DepartureAsks
  <2>19. Together(e4)
    BY <2>8, <2>11, <2>15, <2>17, PlainTogether
  <2>. QED
    BY <2>2, <2>16, <2>18, <2>19
<1>. QED
  BY <1>3, <1>4

LEMMA LeaveAsks ==
  ASSUME Inv, Founders, NEW j \in Jobs, NEW p \in Players, AskLeave(j, p)
  PROVE  \E q : Ask(j, q) /\ Asked(q) /\ Together(q)
<1>1. PICK old : old = affil[p]
  OBVIOUS
<1>2. old \in Corps /\ p \in member[old] /\ Ask(j, LeavePlan(p, old))
  BY <1>1 DEF AskLeave, Inv, TypeOK
<1>. DEFINE last == Cardinality(member[old]) <= 1
            who == Evicted(p, old, last)
            D == Departing(p, old)
            l == <<Do("left", {p}, old, None)>>
            s == <<Do("stamp", {p}, None, None)>>
            v == Eviction(who, old)
            q == v \o <<Do("left", {p}, old, None), Do("stamp", {p}, None, None)>> \o Ending(D, old)
<1>3. Ask(j, q)
  BY <1>2 DEF LeavePlan, Ending
<1>4. /\ D <=> last \/ corps[old].founder = p
      /\ who = IF corps[old].founder = p /\ ~last THEN member[old] \ {p} ELSE {}
      /\ D \in BOOLEAN
  BY DEF Departing, Disbands, Evicted
<1>5. who \in SUBSET member[old] /\ who \in SUBSET Players /\ p \notin who
  BY <1>2, <1>4 DEF Inv, TypeOK
<1>6. last => member[old] = {p}
  BY <1>2, LastMember
<1>. HIDE DEF last, who, D
<1>7. /\ D => (\A x \in member[old] : x \in who \/ x = p)
      /\ corps[old].founder = p => D
      /\ corps[old].founder \notin who
  BY <1>4, <1>6
<1>8. corps[old].founder /= None
  BY <1>2 DEF Founders
<1>z. PICK z : z = << >>
  OBVIOUS
<1>. DEFINE e2 == Ending(D, old) \o z
            e3 == s \o e2
            e4 == l \o e3
            e5 == v \o e4
<1>9. /\ Ending(D, old) \in Seq(RollFree)
      /\ Plain(e2) /\ Unfounded(e2)
      /\ \A o \in RollWords : \A x, d : ~Owes(e2, o, x, d)
      /\ \A d : Closes(e2, d) <=> D /\ d = old
      /\ \A d : Lists(e2, d) <=> D /\ d = old
      /\ \A d : ~Fills(e2, d)
  <2>1. Plain(z) /\ Unfounded(z) /\ (\A d : ~Lists(z, d) /\ ~Closes(z, d) /\ ~Fills(z, d))
        /\ \A o, x, d : ~Owes(z, o, x, d)
    BY <1>z, Nothing
  <2>. QED
    BY <1>2, <1>4, <2>1, EndingTold
<1>10. e2 = Ending(D, old)
  BY <1>9, <1>z
<1>. HIDE DEF e2
<1>11. /\ Plain(e3) /\ Unfounded(e3)
       /\ \A o, x, d : Owes(e3, o, x, d) <=>
            Owes(e2, o, x, d) \/ (o = "stamp" /\ x \in {p} /\ d = None)
       /\ \A d : /\ Closes(e3, d) <=> Closes(e2, d)
                 /\ Lists(e3, d) <=> Lists(e2, d)
                 /\ Fills(e3, d) <=> Fills(e2, d) \/ d = None
  <2>1. {p} \in SUBSET Players
    OBVIOUS
  <2>. QED
    BY <1>9, <2>1, ClearTold
<1>12. s \in Seq(RollFree) /\ l \in Seq(RollFree) /\ v \in Seq(RollFree)
  <2>1. {p} \in SUBSET Players
    OBVIOUS
  <2>2. Do("stamp", {p}, None, None) \in RollFree
    BY <1>2, <2>1, RollStatements
  <2>. QED
    BY <1>2, <1>5, <2>2, RollPlans
<1>13. <<Do("left", {p}, old, None), Do("stamp", {p}, None, None)>> = l \o s
  OBVIOUS
<1>. HIDE DEF s, e3
<1>14. /\ \A x \in {p} : \E w \in Corps \cup {None} : Owes(e3, "stamp", x, w)
       /\ \A x \in {p} : \A d \in Corps : Owes(e3, "stamp", x, d) => Owes(e3, "enrol", x, d)
  BY <1>9, <1>11, NoneAssumption DEF RollWords
<1>15. /\ Plain(e4) /\ Unfounded(e4)
       /\ \A o, x, d : Owes(e4, o, x, d) <=>
            Owes(e3, o, x, d) \/ (o = "left" /\ x \in {p} /\ d = old)
       /\ \A d : /\ Closes(e4, d) <=> Closes(e3, d)
                 /\ Lists(e4, d) <=> Lists(e3, d)
                 /\ Fills(e4, d) <=> Fills(e3, d)
  <2>1. {p} \in SUBSET Players
    OBVIOUS
  <2>. QED
    BY <1>2, <1>11, <1>14, <2>1, LeftTold
<1>. HIDE DEF l, v, e4
<1>16. \A o \in RollWords : \A x, d :
         Owes(e4, o, x, d) <=> x = p /\ \/ o = "stamp" /\ d = None
                                        \/ o = "left" /\ d = old
  BY <1>9, <1>11, <1>15 DEF RollWords
<1>17. \A o \in RollWords : \A x \in who : \A d : ~Owes(e4, o, x, d)
  BY <1>5, <1>16
<1>18. /\ Plain(e5) /\ Unfounded(e5)
       /\ \A o, x, d : Owes(e5, o, x, d) <=>
            \/ Owes(e4, o, x, d)
            \/ x \in who /\ ((o = "left" /\ d = old) \/ (o = "stamp" /\ d = None))
       /\ \A d : /\ Closes(e5, d) <=> Closes(e4, d)
                 /\ Lists(e5, d) <=> Lists(e4, d)
                 /\ Fills(e5, d) <=> Fills(e4, d) \/ (who /= {} /\ d = None)
  BY <1>2, <1>5, <1>15, <1>17, EvictionTold DEF v
<1>19. q = e5
  <2>1. l \o s \in Seq(RollFree) /\ e2 \in Seq(RollFree)
    BY <1>9, <1>12 DEF Plain
  <2>2. \A x, y \in Seq(RollFree) : (v \o x) \o y = v \o (x \o y)
    BY <1>12, Regroup, Zenon
  <2>3. (v \o (l \o s)) \o e2 = v \o ((l \o s) \o e2)
    BY <2>1, <2>2, Zenon
  <2>4. \A x, y \in Seq(RollFree) : (l \o x) \o y = l \o (x \o y)
    BY <1>12, Regroup, Zenon
  <2>5. (l \o s) \o e2 = l \o (s \o e2)
    BY <1>12, <2>1, <2>4, Zenon
  <2>. QED
    BY <1>10, <1>13, <2>3, <2>5, Zenon DEF e3, e4
<1>. HIDE DEF e5, q
<1>20. /\ \A o \in RollWords : \A x, d :
            Owes(e5, o, x, d) <=>
              \/ x \in who /\ ((o = "left" /\ d = old) \/ (o = "stamp" /\ d = None))
              \/ x = p /\ ((o = "left" /\ d = old) \/ (o = "stamp" /\ d = None))
              \/ x = p /\ o = "enrol" /\ d = None /\ None /= None
       /\ \A d : Closes(e5, d) <=> D /\ d = old
       /\ \A d \in Corps : ~Fills(e5, d)
  BY <1>9, <1>11, <1>15, <1>16, <1>18, NoneAssumption DEF RollWords
<1>21. None \in Corps \cup {None} /\ None /= old /\ \A d \in Corps : d /= None
  BY <1>2, NoneAssumption
<1>22. Asked(e5)
  BY <1>1, <1>2, <1>4, <1>5, <1>7, <1>8, <1>18, <1>20, <1>21, DepartureAsks
<1>23. Together(e5)
  BY <1>9, <1>11, <1>15, <1>18, <1>20, PlainTogether
<1>. QED
  BY <1>3, <1>19, <1>22, <1>23

LEMMA KickAsks ==
  ASSUME Inv, Founders, NEW j \in Jobs, NEW p \in Players, NEW t \in Players, AskKick(j, p, t)
  PROVE  \E q : Ask(j, q) /\ Asked(q) /\ Together(q)
<1>1. PICK c : c = affil[p]
  OBVIOUS
<1>. DEFINE l == <<Do("left", {t}, c, None)>>
            s == <<Do("stamp", {t}, None, None)>>
            q == <<Do("left", {t}, c, None), Do("stamp", {t}, None, None)>>
<1>z. PICK z : z = << >>
  OBVIOUS
<1>. DEFINE e2 == s \o z
            e3 == l \o e2
<1>2. /\ c \in Corps /\ p /= t /\ affil[t] = c /\ corps[c].founder = p
      /\ Ask(j, q)
  BY <1>1 DEF AskKick, Inv, TypeOK
<1>3. {t} \in SUBSET Players
  OBVIOUS
<1>4. /\ Plain(e2) /\ Unfounded(e2)
      /\ \A o, x, d : Owes(e2, o, x, d) <=> (o = "stamp" /\ x = t /\ d = None)
      /\ \A d : /\ ~Closes(e2, d) /\ ~Lists(e2, d)
                /\ Fills(e2, d) <=> d = None
  <2>1. Plain(z) /\ Unfounded(z) /\ (\A d : ~Lists(z, d) /\ ~Closes(z, d) /\ ~Fills(z, d))
        /\ \A o, x, d : ~Owes(z, o, x, d)
    BY <1>z, Nothing
  <2>2. /\ Plain(e2) /\ Unfounded(e2)
        /\ \A o, x, d : Owes(e2, o, x, d) <=>
             Owes(z, o, x, d) \/ (o = "stamp" /\ x \in {t} /\ d = None)
        /\ \A d : /\ Closes(e2, d) <=> Closes(z, d)
                  /\ Lists(e2, d) <=> Lists(z, d)
                  /\ Fills(e2, d) <=> Fills(z, d) \/ d = None
    BY <1>3, <2>1, ClearTold
  <2>. HIDE DEF e2
  <2>. QED
    BY <2>1, <2>2
<1>5. q = e3
  BY <1>z
<1>. HIDE DEF e2
<1>6. /\ \A x \in {t} : \E w \in Corps \cup {None} : Owes(e2, "stamp", x, w)
      /\ \A x \in {t} : \A d \in Corps : Owes(e2, "stamp", x, d) => Owes(e2, "enrol", x, d)
  BY <1>4, NoneAssumption
<1>7. /\ Plain(e3) /\ Unfounded(e3)
      /\ \A o, x, d : Owes(e3, o, x, d) <=>
           Owes(e2, o, x, d) \/ (o = "left" /\ x \in {t} /\ d = c)
      /\ \A d : /\ Closes(e3, d) <=> Closes(e2, d)
                /\ Lists(e3, d) <=> Lists(e2, d)
                /\ Fills(e3, d) <=> Fills(e2, d)
  <2>1. c \in Corps /\ {t} \in SUBSET Players
    BY <1>2
  <2>. QED
    BY <1>4, <1>6, <2>1, LeftTold
<1>. HIDE DEF e3, q
<1>y. PICK D, who : D = FALSE /\ who = {}
  OBVIOUS
<1>8. /\ \A o \in RollWords : \A x, d :
           Owes(e3, o, x, d) <=>
             \/ x \in who /\ ((o = "left" /\ d = c) \/ (o = "stamp" /\ d = None))
             \/ x = t /\ ((o = "left" /\ d = c) \/ (o = "stamp" /\ d = None))
             \/ x = t /\ o = "enrol" /\ d = None /\ None /= None
      /\ \A d : Closes(e3, d) <=> D /\ d = c
      /\ \A d \in Corps : Fills(e3, d) <=> d = None
  BY <1>4, <1>7, <1>y, NoneAssumption DEF RollWords
<1>9. /\ None \in Corps \cup {None} /\ None /= c /\ who \in SUBSET member[c]
      /\ D \in BOOLEAN /\ ~D /\ corps[c].founder /= t /\ corps[c].founder \notin who
  BY <1>2, <1>y, NoneAssumption
<1>10. Asked(e3)
  <2>1. c \in Corps /\ affil[t] = c
    BY <1>2
  <2>2. /\ D => (\A x \in member[c] : x \in who \/ x = t) /\ corps[c].founder /= None
        /\ corps[c].founder = t => D
        /\ None /= None => Active(None)
    BY <1>9
  <2>. QED
    BY <1>7, <1>8, <1>9, <2>1, <2>2, DepartureAsks
<1>11. Together(e3)
  BY <1>7, <1>8, <1>9, PlainTogether
<1>. QED
  BY <1>2, <1>5, <1>10, <1>11

LEMMA SilentOrderly ==
  ASSUME NEW q, Silent(q),
         \A i \in 1..Len(q) : q[i].op = "unlink" => \A t \in Later(q, i) : t.op /= "destroy",
         \A i \in 1..Len(q) : Later(q, i) \subseteq Statements(q),
         \A h : Unlisting(q, h) => Wrecking(q, h), q /= << >> => q[1].op /= "link"
  PROVE  Asked(q) /\ Together(q)
<1>1. ASSUME NEW i \in 1..Len(q) PROVE Follows(q[i], Later(q, i))
  <2>1. q[i].op \notin RollOps /\ \A t \in Later(q, i) : t.op \notin RollOps
    BY <1>1 DEF Silent, Statements
  <2>2. FollowsOther(q[i], Later(q, i))
    BY <2>1 DEF FollowsOther, RollOps
  <2>. QED
    BY <2>1, <2>2 DEF Follows, FollowsEnrol, FollowsLeft, FollowsStamp, FollowsFound, RollOps
<1>2. Orderly(q)
  BY <1>1 DEF Orderly
<1>3. \A h : ~Links(q, h)
  BY LinksOpen DEF Opens
<1>4. Together(q)
  BY <1>3 DEF Together, Closes, Silent, RollOps
<1>. QED
  BY <1>2, <1>4, SilentAsks

LEMMA BuyAsks ==
  ASSUME Inv, NEW j \in Jobs, NEW p \in Players, NEW c \in Corps, AskBuy(j, p, c)
  PROVE  \E q : Ask(j, q) /\ Asked(q) /\ Together(q)
<1>. DEFINE q == BuyPlan(p, c)
<1>1. Ask(j, q)
  BY DEF AskBuy
<1>2. Len(q) = 5
  BY DEF BuyPlan
<1>3. \A i \in 1..5 : q[i].op \in {"lock", "count", "build", "link", "unlock"}
  BY DEF BuyPlan, Do
<1>8. q[1].op = "lock"
  BY DEF BuyPlan, Do
<1>. HIDE DEF q
<1>4. Silent(q)
  BY <1>2, <1>3 DEF Silent, Statements, RollOps
<1>5. \A i \in 1..Len(q) : Later(q, i) \subseteq Statements(q)
  BY <1>2 DEF Later, Statements
<1>6. \A i \in 1..Len(q) : q[i].op /= "unlink"
  BY <1>2, <1>3
<1>7. (\A h : ~Unlisting(q, h)) /\ q[1].op /= "link"
  BY <1>2, <1>3, <1>6, <1>8 DEF Unlisting, Statements
<1>. QED
  BY <1>1, <1>4, <1>5, <1>6, <1>7, SilentOrderly

LEMMA UnclaimAsks ==
  ASSUME Inv, NEW j \in Jobs, NEW p \in Players, NEW h \in Hulls, AskUnclaim(j, p, h)
  PROVE  \E q : Ask(j, q) /\ Asked(q) /\ Together(q)
<1>. DEFINE c == ships[h].corp
            key == {ships[h].by}
            q == <<Do("lock", key, c, h), Do("count", key, c, h), Do("unclaim", {p}, c, h),
                   Do("unlock", key, c, h)>>
<1>1. Ask(j, q)
  BY DEF AskUnclaim
<1>2. Len(q) = 4
  OBVIOUS
<1>. HIDE DEF c, key
<1>3. \A i \in 1..4 : q[i].op \in {"lock", "count", "unclaim", "unlock"}
  BY DEF Do
<1>8. q[1].op = "lock"
  BY DEF Do
<1>. HIDE DEF q
<1>4. Silent(q)
  BY <1>2, <1>3 DEF Silent, Statements, RollOps
<1>5. \A i \in 1..Len(q) : Later(q, i) \subseteq Statements(q)
  BY <1>2 DEF Later, Statements
<1>6. \A i \in 1..Len(q) : q[i].op /= "unlink"
  BY <1>2, <1>3
<1>7. (\A g : ~Unlisting(q, g)) /\ q[1].op /= "link"
  BY <1>2, <1>3, <1>6, <1>8 DEF Unlisting, Statements
<1>. QED
  BY <1>1, <1>4, <1>5, <1>6, <1>7, SilentOrderly

LEMMA SellAsks ==
  ASSUME Inv, NEW j \in Jobs, NEW p \in Players, NEW h \in Hulls, AskSell(j, p, h)
  PROVE  \E q : Ask(j, q) /\ Asked(q) /\ Together(q)
<1>. DEFINE c == ships[h].corp
            q == <<Do("unlink", {}, c, h), Do("scrap", {}, c, h)>>
<1>1. Ask(j, q)
  BY DEF AskSell
<1>2. Len(q) = 2
  OBVIOUS
<1>. HIDE DEF c
<1>3. q[1].op = "unlink" /\ q[2].op = "scrap" /\ q[1].ship = h /\ q[2].ship = h
  BY DEF Do
<1>. HIDE DEF q
<1>4. Silent(q)
  BY <1>2, <1>3 DEF Silent, Statements, RollOps
<1>5. \A i \in 1..Len(q) : Later(q, i) \subseteq Statements(q)
  BY <1>2 DEF Later, Statements
<1>6. \A s \in Statements(q) : s.op /= "destroy"
  BY <1>2, <1>3 DEF Statements
<1>7. (\A g : Unlisting(q, g) => Wrecking(q, g)) /\ q[1].op /= "link"
  BY <1>2, <1>3 DEF Unlisting, Wrecking, Statements
<1>. QED
  BY <1>1, <1>4, <1>5, <1>6, <1>7, SilentOrderly

LEMMA ClaimAsks ==
  ASSUME Inv, NEW j \in Jobs, NEW p \in Players, NEW h \in Hulls, AskClaim(j, p, h)
  PROVE  \E q : Ask(j, q) /\ Asked(q) /\ Together(q)
<1>. DEFINE c == ships[h].corp
            q == <<Do("claim", {p}, c, h)>>
<1>1. Ask(j, q)
  BY DEF AskClaim
<1>2. Len(q) = 1
  OBVIOUS
<1>. HIDE DEF c
<1>3. q[1].op = "claim"
  BY DEF Do
<1>. HIDE DEF q
<1>4. Silent(q)
  BY <1>2, <1>3 DEF Silent, Statements, RollOps
<1>5. \A i \in 1..Len(q) : Later(q, i) \subseteq Statements(q)
  BY <1>2 DEF Later, Statements
<1>6. \A i \in 1..Len(q) : q[i].op /= "unlink"
  BY <1>2, <1>3
<1>7. (\A g : ~Unlisting(q, g)) /\ q[1].op /= "link"
  BY <1>2, <1>3, <1>6 DEF Unlisting, Statements
<1>. QED
  BY <1>1, <1>4, <1>5, <1>6, <1>7, SilentOrderly

LEMMA WreckAsks ==
  ASSUME Inv, NEW j \in Jobs, NEW h \in Hulls, AskWreck(j, h)
  PROVE  \E q : Ask(j, q) /\ Asked(q) /\ Together(q)
<1>. DEFINE c == ships[h].link
            q == <<Do("destroy", {}, c, h), Do("unlink", {}, c, h)>>
<1>1. Ask(j, q)
  BY DEF AskWreck
<1>2. Len(q) = 2
  OBVIOUS
<1>. HIDE DEF c
<1>3. q[1].op = "destroy" /\ q[2].op = "unlink" /\ q[1].ship = h /\ q[2].ship = h
  BY DEF Do
<1>. HIDE DEF q
<1>4. Silent(q)
  BY <1>2, <1>3 DEF Silent, Statements, RollOps
<1>5. \A i \in 1..Len(q) : Later(q, i) \subseteq Statements(q)
  BY <1>2 DEF Later, Statements
<1>6. Later(q, 2) = {}
  BY <1>2 DEF Later
<1>7. ASSUME NEW i \in 1..Len(q), q[i].op = "unlink" PROVE \A t \in Later(q, i) : t.op /= "destroy"
  <2>1. i = 2
    BY <1>2, <1>3, <1>7
  <2>. QED
    BY <1>6, <2>1
<1>8. (\A g : Unlisting(q, g) => Wrecking(q, g)) /\ q[1].op /= "link"
  BY <1>2, <1>3 DEF Unlisting, Wrecking, Statements
<1>. QED
  BY <1>1, <1>4, <1>5, <1>7, <1>8, SilentOrderly

LEMMA AllAsk ==
  ASSUME Inv, AllOrderly, Founders, NEW j \in Jobs, AskStep(j)
  PROVE  \E q : Ask(j, q) /\ Asked(q) /\ Together(q)
<1>1. ASSUME NEW p \in Players, NEW c \in Corps,
             AskCreate(j, p, c) \/ AskJoin(j, p, c) \/ AskBuy(j, p, c)
      PROVE  \E q : Ask(j, q) /\ Asked(q) /\ Together(q)
  BY <1>1, CreateAsks, JoinAsks, BuyAsks
<1>2. ASSUME NEW p \in Players, AskLeave(j, p)
      PROVE  \E q : Ask(j, q) /\ Asked(q) /\ Together(q)
  BY <1>2, LeaveAsks
<1>3. ASSUME NEW p \in Players, NEW t \in Players, AskKick(j, p, t)
      PROVE  \E q : Ask(j, q) /\ Asked(q) /\ Together(q)
  BY <1>3, KickAsks
<1>4. ASSUME NEW p \in Players, NEW h \in Hulls,
             AskSell(j, p, h) \/ AskClaim(j, p, h) \/ AskUnclaim(j, p, h)
      PROVE  \E q : Ask(j, q) /\ Asked(q) /\ Together(q)
  BY <1>4, SellAsks, ClaimAsks, UnclaimAsks
<1>5. ASSUME NEW h \in Hulls, AskWreck(j, h)
      PROVE  \E q : Ask(j, q) /\ Asked(q) /\ Together(q)
  BY <1>5, WreckAsks
<1>. QED
  BY <1>1, <1>2, <1>3, <1>4, <1>5 DEF AskStep

-----------------------------------------------------------------------------
(* Founders.                                                               *)

LEMMA FoundersKept ==
  ASSUME Founders,
         \A k \in Jobs : \A c \in Corps :
           /\ Founds(plans'[k], c) => Founds(plans[k], c)
           /\ Closes(plans'[k], c) => Closes(plans[k], c)
           /\ Fills(plans'[k], c) /\ ~Founds(plans'[k], c) => Fills(plans[k], c) /\ ~Founds(plans[k], c),
         \A c \in Corps : corps'[c].founder = corps[c].founder,
         \A c \in Corps : member'[c] /= {} \/ corps'[c].gone => corps[c].founder /= None
  PROVE  Founders'
<1>1. \A k \in Jobs, c \in Corps : Founds(plans'[k], c) => corps'[c].founder = None
  BY DEF Founders
<1>2. \A i, k \in Jobs, c \in Corps : Founds(plans'[i], c) /\ Founds(plans'[k], c) => i = k
  BY DEF Founders
<1>3. \A c \in Corps :
        member'[c] /= {} \/ corps'[c].gone \/ (\E k \in Jobs : Closes(plans'[k], c)) =>
          corps'[c].founder /= None
  BY DEF Founders
<1>4. \A k \in Jobs, c \in Corps :
        Fills(plans'[k], c) /\ ~Founds(plans'[k], c) => corps'[c].founder /= None
  BY DEF Founders
<1>. QED
  BY <1>1, <1>2, <1>3, <1>4 DEF Founders, Founds, Fills, Closes

\* What every statement of a plan about the rolls leaves.
LEMMA RestFounds ==
  ASSUME Inv, AllOrderly, NEW j \in Jobs, NEW op \in RollOps \cup HullOps, Due(j, op), Done(j)
  PROVE  /\ \A k \in Jobs \ {j} : plans'[k] = plans[k]
         /\ \A c : ~Founds(plans'[j], c)
         /\ \A c : Founds(plans[j], c) => op = "found"
         /\ \A k \in Jobs : \A c : /\ Founds(plans'[k], c) => Founds(plans[k], c)
                                   /\ Closes(plans'[k], c) => Closes(plans[k], c)
                                   /\ Fills(plans'[k], c) => Fills(plans[k], c)
<1>1. PICK s, q : s = Head(plans[j]) /\ q = Tail(plans[j])
  OBVIOUS
<1>2. /\ s.op = op /\ Told(plans[j], s, q) /\ plans' = [plans EXCEPT ![j] = q]
      /\ Follows(s, Statements(q))
  BY <1>1, Pops DEF Done
<1>3. plans'[j] = q /\ \A k \in Jobs \ {j} : plans'[k] = plans[k]
  BY <1>2, OneMoves
<1>4. \A c : ~Founds(q, c)
  BY <1>2 DEF Follows, FollowsFound, Founds
<1>5. \A c : Founds(plans[j], c) => op = "found"
  BY <1>2, <1>4 DEF Told
<1>6. \A c : /\ Founds(q, c) => Founds(plans[j], c)
             /\ Closes(q, c) => Closes(plans[j], c)
             /\ Fills(q, c) => Fills(plans[j], c)
  BY <1>2 DEF Told
<1>. QED
  BY <1>3, <1>4, <1>5, <1>6

LEMMA PopFounders ==
  ASSUME Inv, AllOrderly, Founders, NEW j \in Jobs, NEW op \in (RollOps \cup HullOps) \ {"found"},
         Due(j, op), Done(j),
         \A c \in Corps : corps'[c].founder = corps[c].founder,
         \A c \in Corps : member'[c] /= {} \/ corps'[c].gone => corps[c].founder /= None
  PROVE  Founders'
<1>1. /\ \A k \in Jobs \ {j} : plans'[k] = plans[k]
      /\ \A c : ~Founds(plans'[j], c) /\ ~Founds(plans[j], c)
      /\ \A k \in Jobs : \A c : /\ Founds(plans'[k], c) => Founds(plans[k], c)
                                /\ Closes(plans'[k], c) => Closes(plans[k], c)
                                /\ Fills(plans'[k], c) => Fills(plans[k], c)
  BY RestFounds
<1>. QED
  BY <1>1, FoundersKept

LEMMA RollFounders ==
  ASSUME Inv, Inv', AllOrderly, Founders, NEW j \in Jobs, RollStep(j)
  PROVE  Founders' /\ AllOrderly'
<1>1. CASE Found(j)
  <2>1. PICK s : s = Head(plans[j])
    OBVIOUS
  <2>2. PICK x \in s.who : /\ Due(j, "found") /\ Done(j) /\ member' = member
                           /\ corps' = [corps EXCEPT ![s.corp].founder = x]
    BY <1>1, <2>1 DEF Found
  <2>3. s.op = "found" /\ s \in Free /\ s \in Statements(plans[j]) /\ AllOrderly'
    BY <2>1, <2>2, Pops, Shrinks DEF RollOps
  <2>4. s.corp \in Corps /\ x \in Players /\ x /= None
    BY <2>2, <2>3, FreeFields, NoneAssumption
  <2>5. Founds(plans[j], s.corp)
    BY <2>3 DEF Founds
  <2>6. /\ \A k \in Jobs \ {j} : plans'[k] = plans[k]
        /\ \A c : ~Founds(plans'[j], c)
        /\ \A k \in Jobs : \A c : /\ Founds(plans'[k], c) => Founds(plans[k], c)
                                  /\ Closes(plans'[k], c) => Closes(plans[k], c)
                                  /\ Fills(plans'[k], c) => Fills(plans[k], c)
    BY <2>2, RestFounds DEF RollOps
  <2>7. \A c \in Corps : /\ corps'[c].founder = IF c = s.corp THEN x ELSE corps[c].founder
                         /\ corps'[c].gone = corps[c].gone
    BY <2>2 DEF Inv, TypeOK
  <2>8. \A k \in Jobs, c \in Corps : Founds(plans'[k], c) => corps'[c].founder = None
    <3>1. ASSUME NEW k \in Jobs, NEW c \in Corps, Founds(plans'[k], c)
          PROVE  corps'[c].founder = None
      <4>1. k /= j /\ Founds(plans[k], c)
        BY <2>6, <3>1
      <4>2. c /= s.corp /\ corps[c].founder = None
        BY <2>5, <4>1 DEF Founders
      <4>. QED
        BY <2>7, <4>2
    <3>. QED
      BY <3>1
  <2>9. \A i, k \in Jobs, c \in Corps : Founds(plans'[i], c) /\ Founds(plans'[k], c) => i = k
    BY <2>6 DEF Founders
  <2>10. \A c \in Corps :
          member'[c] /= {} \/ corps'[c].gone \/ (\E k \in Jobs : Closes(plans'[k], c)) =>
            corps'[c].founder /= None
    BY <2>2, <2>4, <2>6, <2>7 DEF Founders
  <2>11. \A k \in Jobs, c \in Corps :
           Fills(plans'[k], c) /\ ~Founds(plans'[k], c) => corps'[c].founder /= None
    <3>1. ASSUME NEW k \in Jobs, NEW c \in Corps, Fills(plans'[k], c), ~Founds(plans'[k], c),
                 c /= s.corp
          PROVE  corps'[c].founder /= None
      <4>1. Fills(plans[k], c)
        BY <2>6, <3>1
      <4>2. ~Founds(plans[k], c)
        <5>1. CASE k = j
          <6>1. ASSUME Founds(plans[j], c) PROVE FALSE
            <7>1. PICK t \in Statements(plans[j]) : t.op = "found" /\ t.corp = c
              BY <6>1 DEF Founds
            <7>2. /\ Statements(plans[j]) = {s} \cup Statements(Tail(plans[j]))
                  /\ Follows(s, Statements(Tail(plans[j])))
              BY <2>1, <2>2, Pops DEF RollOps
            <7>3. t = s
              BY <7>1, <7>2 DEF Follows, FollowsFound
            <7>. QED
              BY <3>1, <7>1, <7>3
          <6>. QED
            BY <5>1, <6>1
        <5>2. CASE k /= j
          BY <2>6, <3>1, <5>2
        <5>. QED
          BY <5>1, <5>2
      <4>. QED
        BY <2>7, <3>1, <4>1, <4>2 DEF Founders
    <3>. QED
      BY <2>4, <2>7, <3>1
  <2>12. Founders'
    BY <2>8, <2>9, <2>10, <2>11 DEF Founders, Founds, Fills, Closes
  <2>. QED
    BY <2>3, <2>12
<1>2. CASE Enrol(j)
  <2>1. PICK s : s = Head(plans[j])
    OBVIOUS
  <2>2. /\ Due(j, "enrol") /\ Done(j) /\ corps' = corps
        /\ member' = [member EXCEPT ![s.corp] = @ \cup s.who]
    BY <1>2, <2>1 DEF Enrol
  <2>3. s.op = "enrol" /\ s \in Free /\ s \in Statements(plans[j]) /\ AllOrderly'
    BY <2>1, <2>2, Pops, Shrinks DEF RollOps
  <2>4. s.corp \in Corps
    BY <2>3, FreeFields
  <2>5. Fills(plans[j], s.corp)
    BY <2>3 DEF Fills
  <2>6. ~Founds(plans[j], s.corp)
    BY <2>2, RestFounds DEF RollOps
  <2>7. corps[s.corp].founder /= None
    BY <2>4, <2>5, <2>6 DEF Founders
  <2>8. \A c \in Corps : c /= s.corp => member'[c] = member[c]
    BY <2>2 DEF Inv, TypeOK
  <2>9. \A c \in Corps : member'[c] /= {} \/ corps'[c].gone => corps[c].founder /= None
    BY <2>2, <2>7, <2>8 DEF Founders
  <2>. QED
    BY <2>2, <2>3, <2>9, PopFounders DEF RollOps
<1>3. CASE Stamp(j)
  <2>1. Due(j, "stamp") /\ Done(j) /\ corps' = corps /\ member' = member
    BY <1>3 DEF Stamp
  <2>2. AllOrderly'
    BY <2>1, Shrinks DEF RollOps
  <2>3. \A c \in Corps : member'[c] /= {} \/ corps'[c].gone => corps[c].founder /= None
    BY <2>1 DEF Founders
  <2>. QED
    BY <2>1, <2>2, <2>3, PopFounders DEF RollOps
<1>4. CASE List(j) \/ Release(j)
  <2>1. PICK op \in {"list", "release"} :
          Due(j, op) /\ Done(j) /\ corps' = corps /\ member' = member
    BY <1>4 DEF List, Release, rows
  <2>2. AllOrderly'
    BY <2>1, Shrinks DEF RollOps
  <2>3. \A c \in Corps : member'[c] /= {} \/ corps'[c].gone => corps[c].founder /= None
    BY <2>1 DEF Founders
  <2>. QED
    BY <2>1, <2>2, <2>3, PopFounders DEF RollOps
<1>5. CASE Close(j)
  <2>1. PICK s : s = Head(plans[j])
    OBVIOUS
  <2>2. /\ Due(j, "close") /\ Done(j) /\ member' = member
        /\ corps' = [corps EXCEPT ![s.corp].gone = TRUE]
    BY <1>5, <2>1 DEF Close
  <2>3. s.op = "close" /\ s \in Statements(plans[j]) /\ AllOrderly'
    BY <2>1, <2>2, Pops, Shrinks DEF RollOps
  <2>4. Closes(plans[j], s.corp)
    BY <2>3 DEF Closes
  <2>5. \A c \in Corps : /\ corps'[c].founder = corps[c].founder
                         /\ corps'[c].gone => corps[c].gone \/ c = s.corp
    BY <2>2 DEF Inv, TypeOK
  <2>6. \A c \in Corps : member'[c] /= {} \/ corps'[c].gone => corps[c].founder /= None
    BY <2>2, <2>4, <2>5 DEF Founders
  <2>. QED
    BY <2>2, <2>3, <2>5, <2>6, PopFounders DEF RollOps
<1>6. CASE Left(j)
  <2>1. PICK s : s = Head(plans[j])
    OBVIOUS
  <2>2. PICK x \in s.who :
          /\ Due(j, "left") /\ corps' = corps
          /\ member' = [member EXCEPT ![s.corp] = @ \ {x}]
          /\ IF s.who = {x} THEN Done(j) ELSE plans' = [plans EXCEPT ![j][1].who = @ \ {x}]
    BY <1>6, <2>1 DEF Left
  <2>3. /\ \A c : Closing(c) <=> Closing(c)'
        /\ \A c : \A k \in Jobs : /\ Founds(plans'[k], c) <=> Founds(plans[k], c)
                                  /\ Fills(plans'[k], c) <=> Fills(plans[k], c)
        /\ AllOrderly'
        /\ plans' = [plans EXCEPT ![j] = plans'[j]]
    BY <1>6, <2>1, <2>2, LeftShrinks
  <2>4. \A c \in Corps : member'[c] \subseteq member[c]
    BY <2>2 DEF Inv, TypeOK
  <2>5. \A k \in Jobs, c \in Corps : Founds(plans'[k], c) => corps'[c].founder = None
    BY <2>2, <2>3 DEF Founders
  <2>6. \A i, k \in Jobs, c \in Corps : Founds(plans'[i], c) /\ Founds(plans'[k], c) => i = k
    BY <2>3 DEF Founders
  <2>7. \A k \in Jobs, c \in Corps :
          Fills(plans'[k], c) /\ ~Founds(plans'[k], c) => corps'[c].founder /= None
    BY <2>2, <2>3 DEF Founders
  <2>8. \A c \in Corps :
          member'[c] /= {} \/ corps'[c].gone \/ Closing(c)' => corps'[c].founder /= None
    BY <2>2, <2>3, <2>4 DEF Founders, Closing
  <2>9. Founders'
    BY <2>5, <2>6, <2>7, <2>8 DEF Founders, Founds, Fills, Closing
  <2>. QED
    BY <2>3, <2>9
<1>. QED
  BY <1>1, <1>2, <1>3, <1>4, <1>5, <1>6 DEF RollStep

LEMMA ShipFounders ==
  ASSUME Inv, Inv', AllOrderly, Founders, NEW j \in Jobs, ShipStep(j)
  PROVE  Founders' /\ AllOrderly'
<1>1. corps' = corps /\ member' = member
  BY Zenon DEF ShipStep, Lock, Count, Build, Link, Unlock, Claim, Unclaim, Unlink, Scrap, Destroy, rows
<1>2. AllOrderly' /\ \A k \in Jobs : SameTold(plans'[k], plans[k])
  BY ShipViews, ViewKept
<1>3. \A c \in Corps : member'[c] /= {} \/ corps'[c].gone => corps[c].founder /= None
  BY <1>1 DEF Founders
<1>4. \A k \in Jobs : \A c \in Corps :
           /\ Founds(plans'[k], c) => Founds(plans[k], c)
           /\ Closes(plans'[k], c) => Closes(plans[k], c)
           /\ Fills(plans'[k], c) /\ ~Founds(plans'[k], c) => Fills(plans[k], c) /\ ~Founds(plans[k], c)
  BY <1>2 DEF SameTold
<1>. QED
  BY <1>1, <1>2, <1>3, <1>4, FoundersKept

LEMMA EndFounders ==
  ASSUME Inv, AllOrderly, Founders, NEW j \in Jobs, EndEarly(j)
  PROVE  Founders' /\ AllOrderly'
<1>1. plans' = [plans EXCEPT ![j] = << >>] /\ corps' = corps /\ member' = member
  BY DEF EndEarly, Quit, rows
<1>2. plans'[j] = << >> /\ \A k \in Jobs \ {j} : plans'[k] = plans[k]
  BY <1>1, OneMoves
<1>3. AllOrderly'
  BY <1>2, EmptySilent, Reordered
<1>4. \A c : ~Founds(plans'[j], c) /\ ~Closes(plans'[j], c) /\ ~Fills(plans'[j], c)
  BY <1>2, EmptyOrder DEF Founds, Closes, Fills
<1>5. \A c \in Corps : member'[c] /= {} \/ corps'[c].gone => corps[c].founder /= None
  BY <1>1 DEF Founders
<1>6. \A k \in Jobs : \A c \in Corps :
           /\ Founds(plans'[k], c) => Founds(plans[k], c)
           /\ Closes(plans'[k], c) => Closes(plans[k], c)
           /\ Fills(plans'[k], c) /\ ~Founds(plans'[k], c) => Fills(plans[k], c) /\ ~Founds(plans[k], c)
  BY <1>2, <1>4
<1>. QED
  BY <1>1, <1>3, <1>5, <1>6, FoundersKept

-----------------------------------------------------------------------------
(* The rolls agree at rest.                                                *)

LEMMA StartsRolls ==
  ASSUME Init
  PROVE  Rolls
<1>1. /\ \A j \in Jobs : plans[j] = << >>
      /\ \A c \in Corps : member[c] = {p \in Players : affil[p] = c}
      /\ \A c \in Corps : /\ corps[c].founder \in Players \cup {None} /\ corps[c].gone = FALSE
                          /\ IF corps[c].founder = None THEN member[c] = {}
                             ELSE corps[c].founder \in member[c]
  <2>1. \A j \in Jobs : plans[j] = << >>
    BY DEF Init
  <2>2. \A c \in Corps : member[c] = {p \in Players : affil[p] = c}
    BY DEF Init
    \* a conjunct of Init as it stands
  <2>3. corps \in [Corps -> [founder : Players \cup {None}, gone : {FALSE}]]
    BY PTL DEF Init
  <2>4. \A c \in Corps : corps[c].founder \in Players \cup {None} /\ corps[c].gone = FALSE
    BY <2>3
  <2>5. \A c \in Corps : IF corps[c].founder = None THEN member[c] = {}
                         ELSE corps[c].founder \in member[c]
    BY DEF Init
  <2>. QED
    BY <2>1, <2>2, <2>4, <2>5
<1>2. \A j \in Jobs : /\ \A o, p, c : ~Owes(plans[j], o, p, c)
                      /\ \A c : /\ ~Closes(plans[j], c) /\ ~Fills(plans[j], c)
                                /\ ~Founds(plans[j], c)
                      /\ \A p : ~Enrols(plans[j], p) /\ ~Moves(plans[j], p)
                      /\ Orderly(plans[j])
  BY <1>1, EmptyOrder DEF Owes, Has, Closes, Fills, Founds, Enrols, Moves
<1>3. AllOrderly
  BY <1>2 DEF AllOrderly
<1>4. Founders
  BY <1>1, <1>2 DEF Founders
<1>5. /\ \A o, p, c : ~Pending(o, p, c)
      /\ \A c : ~Closing(c) /\ ~Filling(c)
  BY <1>2 DEF Pending, Closing, Filling
<1>6. Unmet
  BY <1>2 DEF Unmet, Meet
<1>7. \A p \in Players : Settles(p) /\ Departs(p) /\ Arrives(p)
  BY <1>1, <1>5 DEF Settles, Departs, Arrives, Leaves
<1>8. \A c \in Corps : Led(c) /\ Emptied(c)
  BY <1>1, <1>5 DEF Led, Emptied, Active
<1>. QED
  BY <1>3, <1>4, <1>6, <1>7, <1>8 DEF Rolls, Agreeing

LEMMA RollsStep ==
  ASSUME Inv, Inv', Rolls, [Next]_vars
  PROVE  Rolls'
<1>1. ASSUME NEW j \in Jobs, AskStep(j) PROVE Rolls'
  <2>1. PICK q : Ask(j, q) /\ Asked(q)
    BY <1>1, AllAsk DEF Rolls
  <2>2. Founders' /\ AllOrderly'
    BY <2>1, AskFounders DEF Rolls
  <2>3. ~crossed' => ~crossed
    BY <2>1 DEF Ask
  <2>4. ~crossed' => Agreeing'
    BY <2>1, <2>3, AskAgrees DEF Rolls
  <2>. QED
    BY <2>2, <2>4 DEF Rolls
<1>2. ASSUME NEW j \in Jobs, RollStep(j) PROVE Rolls'
  <2>1. Founders' /\ AllOrderly'
    BY <1>2, RollFounders, SMTT(40) DEF Rolls
  <2>2. crossed' = crossed
    BY <1>2 DEF RollStep, Found, Enrol, Stamp, Left, List, Release, Close, Settled
  <2>3. ~crossed => Agreeing'
    BY <1>2, FoundAgrees, EnrolAgrees, StampAgrees, LeftAgrees, ListAgrees, CloseAgrees
       DEF RollStep, Rolls
  <2>. QED
    BY <2>1, <2>2, <2>3 DEF Rolls
<1>3. ASSUME NEW j \in Jobs, ShipStep(j) PROVE Rolls'
  <2>1. Founders' /\ AllOrderly'
    BY <1>3, ShipFounders DEF Rolls
  <2>2. ~crossed' => ~crossed
    BY <1>3, Zenon DEF ShipStep, Lock, Count, Build, Link, Unlock, Claim, Unclaim, Unlink, Scrap,
                Destroy, Settled
  <2>3. ~crossed => Agreeing'
    BY <1>3, ShipAgrees DEF Rolls
  <2>. QED
    BY <2>1, <2>2, <2>3, Zenon DEF Rolls
<1>4. ASSUME NEW j \in Jobs, EndEarly(j) PROVE Rolls'
  <2>1. Founders' /\ AllOrderly' /\ crossed'
    BY <1>4, EndFounders DEF Rolls, EndEarly
  <2>. QED
    BY <2>1 DEF Rolls
<1>5. CASE UNCHANGED vars
  <2>1. UNCHANGED <<corps, member, affil, ships, plans, crossed>>
    BY <1>5 DEF vars, rows
  <2>2. AllOrderly' /\ Founders'
    BY <2>1 DEF Rolls, AllOrderly, Founders, Founds, Fills, Closes
  <2>3. \A o, p, c : Pending(o, p, c)' <=> Pending(o, p, c)
    BY <2>1 DEF Pending
  <2>4. \A c : (Closing(c)' <=> Closing(c)) /\ (Filling(c)' <=> Filling(c))
    BY <2>1 DEF Closing, Filling
  <2>5. Unmet' <=> Unmet
    BY <2>1 DEF Unmet
  <2>6. ASSUME Agreeing PROVE Agreeing'
    BY <2>1, <2>3, <2>4, <2>5, <2>6, StandAgrees DEF Agreeing
  <2>. QED
    BY <2>1, <2>2, <2>6 DEF Rolls
<1>. QED
  BY <1>1, <1>2, <1>3, <1>4, <1>5 DEF Next

LEMMA RollsAtRest ==
  ASSUME Rolls
  PROVE  RollsAgree
<1>. SUFFICES ASSUME Resting, ~crossed, NEW c \in Corps
              PROVE  /\ \A p \in Players : p \in member[c] <=> affil[p] = c
                     /\ Active(c) => corps[c].founder \in member[c]
                     /\ corps[c].gone => member[c] = {}
  BY DEF RollsAgree
<1>1. \A j \in Jobs : plans[j] = << >>
  BY DEF Resting
<1>2. /\ \A o, p, d : ~Pending(o, p, d)
      /\ \A d : ~Closing(d)
  BY <1>1, EmptyOrder DEF Pending, Closing, Owes, Has, Closes
<1>3. \A p \in Players : p \in member[c] <=> affil[p] = c
  BY <1>2 DEF Rolls, Agreeing, Settles
<1>4. Active(c) => corps[c].founder \in member[c]
  <2>1. PICK f : f = corps[c].founder
    OBVIOUS
  <2>2. Active(c) => Pending("enrol", f, c) \/ f \in member[c]
    BY <1>2, <2>1 DEF Rolls, Agreeing, Led
  <2>. QED
    BY <1>2, <2>1, <2>2
<1>5. corps[c].gone => member[c] = {}
  BY <1>2 DEF Rolls, Agreeing, Emptied
<1>. QED
  BY <1>3, <1>4, <1>5

(* When no call is under way the two records of a membership agree, no     *)
(* active corporation is without its founder, and none that is gone has a  *)
(* member: for any number of players, corporations and calls that leave,   *)
(* join, kick, create and disband at once, with the exceptions named at    *)
(* RollsAgree.                                                             *)
THEOREM RollsDoAgree == Spec => []RollsAgree
<1>1. Init => Rolls
  BY StartsRolls
<1>2. Inv /\ Inv' /\ Rolls /\ [Next]_vars => Rolls'
  BY RollsStep
<1>3. Rolls => RollsAgree
  BY RollsAtRest
<1>4. Spec => []Inv
  BY Invariant
<1>. QED
  BY <1>1, <1>2, <1>3, <1>4, PTL DEF Spec

-----------------------------------------------------------------------------
(* The ships of a corporation that goes.                                   *)

\* A ship goes off the list only when it is no more, or when the same call
\* is about to scrap it.
Wrecks == \A j \in Jobs, h \in Hulls :
            Unlisting(plans[j], h) => ~ships[h].live \/ Wrecking(plans[j], h)
\* A ship that waits for its link belongs to the corporation that ordered it.
NewCorps == \A j \in Jobs, p \in Players, c \in Corps, h \in Hulls :
              plans[j] = ToLink(p, c, h) => ships[h].corp = c
\* A ship that flies for a corporation is registered there, or about to be,
\* or about to be scrapped.
Registered ==
  \A h \in Hulls : ships[h].live /\ ships[h].corp /= None =>
    \/ ships[h].link = ships[h].corp
    \/ \E j \in Jobs : Links(plans[j], h) \/ Scrapping(plans[j], h)
\* A corporation whose ships have been listed has none on its own list but
\* those which a call is going to release.
Given ==
  \A c \in Corps : Late(c) =>
    \A h \in Hulls : ships[h].live /\ ships[h].corp = c /\ ships[h].link = c =>
      \E k \in Jobs : h \in listed[k]
\* A call that has listed ships has still to release them, and lists no others.
Frees(plan) == /\ \E s \in Statements(plan) : s.op = "release"
               /\ \A s \in Statements(plan) : s.op /= "list"
Handed == \A j \in Jobs : listed[j] /= {} => Frees(plans[j])
Docked == Wrecks /\ NewCorps /\ (~crossed => Registered /\ Given)

\* The same ships, as far as this goes.
Calm == \A h \in Hulls : /\ ships'[h].corp = ships[h].corp /\ ships'[h].link = ships[h].link
                         /\ ships'[h].live = ships[h].live
\* What call j has to say of the ships stays.
Stays(j) ==
  /\ \A k \in Jobs \ {j} : plans'[k] = plans[k]
  /\ \A h : /\ Unlisting(plans'[j], h) => Unlisting(plans[j], h)
            /\ Wrecking(plans[j], h) => Wrecking(plans'[j], h)
            /\ Scrapping(plans[j], h) => Scrapping(plans'[j], h)
            /\ ~Links(plans[j], h) /\ ~Links(plans'[j], h)
\* The ships of no corporation are listed by this step.
NotLater ==
  /\ \A c \in Corps : corps'[c].gone => corps[c].gone
  /\ \A k \in Jobs : \A c \in Corps : Closes(plans'[k], c) /\ ~Lists(plans'[k], c) =>
                                      Closes(plans[k], c) /\ ~Lists(plans[k], c)

LEMMA LateIs ==
  ASSUME NEW c
  PROVE  /\ Late(c) <=> corps[c].gone \/ \E k \in Jobs : Closes(plans[k], c) /\ ~Lists(plans[k], c)
         /\ Late(c)' <=> corps'[c].gone \/ \E k \in Jobs : Closes(plans'[k], c) /\ ~Lists(plans'[k], c)
<1>1. \A k \in Jobs : (\A s \in Statements(plans[k]) : s.op = "list" => s.corp /= c)
                      <=> ~Lists(plans[k], c)
  BY DEF Lists
<1>2. \A k \in Jobs : (\A s \in Statements(plans'[k]) : s.op = "list" => s.corp /= c)
                      <=> ~Lists(plans'[k], c)
  BY DEF Lists
<1>3. Late(c) <=> corps[c].gone \/ \E k \in Jobs : Closes(plans[k], c) /\ ~Lists(plans[k], c)
  BY <1>1 DEF Late
<1>4. Late(c)' <=> corps'[c].gone \/ \E k \in Jobs : Closes(plans'[k], c) /\ ~Lists(plans'[k], c)
  BY <1>2 DEF Late, Closes, Statements
<1>. QED
  BY <1>3, <1>4

LEMMA LateKept ==
  ASSUME NotLater
  PROVE  \A c \in Corps : Late(c)' => Late(c)
  BY LateIs DEF NotLater

LEMMA GivenKept ==
  ASSUME Given, listed' = listed, \A c \in Corps : Late(c)' => Late(c),
         \A h \in Hulls : \A c \in Corps :
           ships'[h].live /\ ships'[h].corp = c /\ ships'[h].link = c =>
             ships[h].live /\ ships[h].corp = c /\ ships[h].link = c
  PROVE  Given'
<1>1. \A c \in Corps : Late(c)' =>
        \A h \in Hulls : ships'[h].live /\ ships'[h].corp = c /\ ships'[h].link = c =>
          \E k \in Jobs : h \in listed'[k]
  BY DEF Given
<1>. QED
  BY <1>1 DEF Given

\* The parts in the next state.
LEMMA NextParts ==
  /\ Wrecks' <=> \A j \in Jobs, h \in Hulls :
       Unlisting(plans'[j], h) => ~ships'[h].live \/ Wrecking(plans'[j], h)
  /\ NewCorps' <=> \A j \in Jobs, p \in Players, c \in Corps, h \in Hulls :
       plans'[j] = ToLink(p, c, h) => ships'[h].corp = c
  /\ Registered' <=> \A h \in Hulls : ships'[h].live /\ ships'[h].corp /= None =>
       \/ ships'[h].link = ships'[h].corp
       \/ \E j \in Jobs : Links(plans'[j], h) \/ Scrapping(plans'[j], h)
<1>1. Wrecks' <=> \A j \in Jobs, h \in Hulls :
       Unlisting(plans'[j], h) => ~ships'[h].live \/ Wrecking(plans'[j], h)
  BY DEF Wrecks, Unlisting, Wrecking
<1>2. NewCorps' <=> \A j \in Jobs, p \in Players, c \in Corps, h \in Hulls :
       plans'[j] = ToLink(p, c, h) => ships'[h].corp = c
  BY DEF NewCorps, ToLink
<1>3. Registered' <=> \A h \in Hulls : ships'[h].live /\ ships'[h].corp /= None =>
       \/ ships'[h].link = ships'[h].corp
       \/ \E j \in Jobs : Links(plans'[j], h) \/ Scrapping(plans'[j], h)
  BY DEF Registered, Links, Scrapping
<1>. QED
  BY <1>1, <1>2, <1>3

LEMMA LinksIs ==
  ASSUME NEW plan, NEW p \in Players, NEW c \in Corps, NEW h, plan = ToLink(p, c, h)
  PROVE  Links(plan, h)
  BY DEF Links

LEMMA CalmDocked ==
  ASSUME Docked, NEW j \in Jobs, Calm, Stays(j), NotLater, UNCHANGED <<listed, crossed>>
  PROVE  Docked'
<1>1. ASSUME NEW k \in Jobs, NEW h \in Hulls, Unlisting(plans'[k], h)
      PROVE  ~ships'[h].live \/ Wrecking(plans'[k], h)
  <2>1. Unlisting(plans[k], h)
    BY <1>1 DEF Stays
  <2>2. ~ships[h].live \/ Wrecking(plans[k], h)
    BY <2>1 DEF Docked, Wrecks
  <2>. QED
    BY <2>2 DEF Stays, Calm
<1>2. ASSUME NEW k \in Jobs, NEW p \in Players, NEW c \in Corps, NEW h \in Hulls,
             plans'[k] = ToLink(p, c, h)
      PROVE  ships'[h].corp = c
  <2>1. Links(plans'[k], h)
    BY <1>2, LinksIs
  <2>2. k /= j
    BY <2>1 DEF Stays
  <2>3. plans[k] = ToLink(p, c, h)
    BY <1>2, <2>2 DEF Stays
  <2>. QED
    BY <2>3 DEF Docked, NewCorps, Calm
<1>3. ASSUME Registered, NEW h \in Hulls, ships'[h].live, ships'[h].corp /= None,
             ships'[h].link /= ships'[h].corp
      PROVE  \E k \in Jobs : Links(plans'[k], h) \/ Scrapping(plans'[k], h)
  <2>1. PICK k \in Jobs : Links(plans[k], h) \/ Scrapping(plans[k], h)
    BY <1>3 DEF Registered, Calm
  <2>. QED
    BY <2>1 DEF Stays
<1>4. ASSUME Given PROVE Given'
  BY <1>4, LateKept, GivenKept DEF Calm
<1>5. Wrecks' /\ NewCorps' /\ (Registered => Registered')
  BY <1>1, <1>2, <1>3, NextParts
<1>. QED
  BY <1>4, <1>5 DEF Docked

\* What a call leaves when its first statement needs no lock.
LEMMA PopHulls ==
  ASSUME Inv, AllOrderly, NEW j \in Jobs, NEW op \in RollOps \cup HullOps, Due(j, op), Done(j),
         NEW s, s = Head(plans[j])
  PROVE  /\ \A k \in Jobs \ {j} : plans'[k] = plans[k]
         /\ s \in Free /\ s.op = op /\ Follows(s, Statements(plans'[j]))
         /\ \A h : /\ Unlisting(plans[j], h) <=> Unlisting(plans'[j], h) \/ (op = "unlink" /\ s.ship = h)
                   /\ Scrapping(plans[j], h) <=> Scrapping(plans'[j], h) \/ (op = "scrap" /\ s.ship = h)
                   /\ Wrecking(plans[j], h) <=>
                        Wrecking(plans'[j], h) \/ (op \in {"scrap", "destroy"} /\ s.ship = h)
                   /\ ~Links(plans[j], h) /\ ~Links(plans'[j], h)
         /\ \A c : /\ Closes(plans[j], c) <=> Closes(plans'[j], c) \/ (op = "close" /\ s.corp = c)
                   /\ Lists(plans[j], c) <=> Lists(plans'[j], c) \/ (op = "list" /\ s.corp = c)
<1>1. PICK q : q = Tail(plans[j])
  OBVIOUS
<1>2. /\ s \in Free /\ s.op = op /\ Statements(plans[j]) = {s} \cup Statements(q)
      /\ Follows(s, Statements(q)) /\ q \in Seq(Free) /\ plans' = [plans EXCEPT ![j] = q]
  BY <1>1, Pops DEF Done
<1>3. plans'[j] = q /\ \A k \in Jobs \ {j} : plans'[k] = plans[k]
  BY <1>2, OneMoves
<1>4. plans[j] \in Seq(Free)
  BY DueFree
<1>5. \A h : ~Links(plans[j], h) /\ ~Links(q, h)
  BY <1>2, <1>4, FreeIsFree
<1>6. \A h : /\ Unlisting(plans[j], h) <=> Unlisting(q, h) \/ (op = "unlink" /\ s.ship = h)
             /\ Scrapping(plans[j], h) <=> Scrapping(q, h) \/ (op = "scrap" /\ s.ship = h)
             /\ Wrecking(plans[j], h) <=>
                  Wrecking(q, h) \/ (op \in {"scrap", "destroy"} /\ s.ship = h)
  BY <1>2 DEF Unlisting, Scrapping, Wrecking
<1>7. \A c : /\ Closes(plans[j], c) <=> Closes(q, c) \/ (op = "close" /\ s.corp = c)
             /\ Lists(plans[j], c) <=> Lists(q, c) \/ (op = "list" /\ s.corp = c)
  BY <1>2 DEF Closes, Lists
<1>. QED
  BY <1>2, <1>3, <1>5, <1>6, <1>7

-----------------------------------------------------------------------------
(* The statements about the rolls, and the ships.                          *)

LEMMA PopCalm ==
  ASSUME Inv, AllOrderly, Docked, NEW j \in Jobs,
         NEW op \in {"found", "enrol", "stamp", "left", "claim"}, Due(j, op), Done(j),
         Calm, UNCHANGED <<listed, crossed>>, \A c \in Corps : corps'[c].gone => corps[c].gone
  PROVE  Docked'
<1>1. PICK s : s = Head(plans[j])
  OBVIOUS
<1>2. op \in RollOps \cup HullOps
  BY DEF RollOps, HullOps
<1>3. /\ \A k \in Jobs \ {j} : plans'[k] = plans[k]
      /\ \A h : /\ Unlisting(plans[j], h) <=> Unlisting(plans'[j], h)
                /\ Scrapping(plans[j], h) <=> Scrapping(plans'[j], h)
                /\ Wrecking(plans[j], h) <=> Wrecking(plans'[j], h)
                /\ ~Links(plans[j], h) /\ ~Links(plans'[j], h)
      /\ \A c : /\ Closes(plans[j], c) <=> Closes(plans'[j], c)
                /\ Lists(plans[j], c) <=> Lists(plans'[j], c)
  BY <1>1, <1>2, PopHulls, SMTT(30)
<1>4. Stays(j) /\ NotLater
  BY <1>3 DEF Stays, NotLater
<1>. QED
  BY <1>4, CalmDocked

LEMMA LeftDocked ==
  ASSUME Inv, AllOrderly, Docked, NEW j \in Jobs, Left(j)
  PROVE  Docked'
<1>1. PICK s : s = Head(plans[j])
  OBVIOUS
<1>2. PICK x \in s.who :
        /\ Due(j, "left") /\ corps' = corps /\ ships' = ships /\ UNCHANGED <<listed, crossed>>
        /\ IF s.who = {x} THEN Done(j) ELSE plans' = [plans EXCEPT ![j][1].who = @ \ {x}]
  BY <1>1 DEF Left, Settled
<1>3. Calm /\ \A c \in Corps : corps'[c].gone => corps[c].gone
  BY <1>2 DEF Calm
<1>4. CASE s.who = {x}
  BY <1>2, <1>3, <1>4, PopCalm
<1>5. CASE s.who /= {x}
  <2>1. /\ plans[j] \in Seq(Free) /\ plans[j] /= << >> /\ s \in Free /\ s.op = "left"
        /\ Tail(plans[j]) \in Seq(Free)
        /\ Statements(plans[j]) = {s} \cup Statements(Tail(plans[j]))
    BY <1>1, <1>2, Pops, DueFree DEF RollOps
  <2>2. PICK t, rest : t = [s EXCEPT !.who = @ \ {x}] /\ rest = Tail(plans[j])
    OBVIOUS
  <2>3. t \in Free /\ t.op = "left"
    BY <2>1, <2>2 DEF Free, Statement, RollOps, HullOps
  <2>4. PICK q : q = [plans[j] EXCEPT ![1] = t]
    OBVIOUS
  <2>5. plans' = [plans EXCEPT ![j] = q]
    BY <1>1, <1>2, <1>5, <2>1, <2>2, <2>4
  <2>6. q \in Seq(Free) /\ q /= << >> /\ Head(q) = t /\ Tail(q) = rest
    BY <2>1, <2>2, <2>3, <2>4
  <2>7. Statements(q) = {t} \cup Statements(rest)
    BY <2>6, HeadFirst
  <2>8. plans'[j] = q /\ \A k \in Jobs \ {j} : plans'[k] = plans[k]
    BY <2>5, OneMoves
  <2>9. \A h : ~Links(q, h) /\ ~Links(plans[j], h)
    BY <2>1, <2>6, FreeIsFree
  <2>10. \A h : /\ Unlisting(q, h) <=> Unlisting(plans[j], h)
                /\ Wrecking(q, h) <=> Wrecking(plans[j], h)
                /\ Scrapping(q, h) <=> Scrapping(plans[j], h)
    BY <2>1, <2>2, <2>3, <2>7 DEF Unlisting, Wrecking, Scrapping
  <2>11. \A c : /\ Closes(q, c) <=> Closes(plans[j], c)
                /\ Lists(q, c) <=> Lists(plans[j], c)
    BY <2>1, <2>2, <2>3, <2>7 DEF Closes, Lists
  <2>12. Stays(j) /\ NotLater
    BY <1>3, <2>8, <2>9, <2>10, <2>11 DEF Stays, NotLater
  <2>. QED
    BY <1>2, <1>3, <2>12, CalmDocked
<1>. QED
  BY <1>4, <1>5

LEMMA ListDocked ==
  ASSUME Inv, Noted, AllOrderly, Handed, Docked, NEW j \in Jobs, List(j)
  PROVE  Docked'
<1>1. PICK s, c : s = Head(plans[j]) /\ c = s.corp
  OBVIOUS
<1>2. /\ Due(j, "list") /\ Done(j) /\ corps' = corps /\ ships' = ships /\ crossed' = crossed
      /\ listed' = [listed EXCEPT ![j] = Fleet(c)]
  BY <1>1 DEF List, rows
<1>3. /\ \A k \in Jobs \ {j} : plans'[k] = plans[k]
      /\ s \in Free /\ s.op = "list"
      /\ \A h : /\ Unlisting(plans[j], h) <=> Unlisting(plans'[j], h)
                /\ Scrapping(plans[j], h) <=> Scrapping(plans'[j], h)
                /\ Wrecking(plans[j], h) <=> Wrecking(plans'[j], h)
                /\ ~Links(plans[j], h) /\ ~Links(plans'[j], h)
      /\ \A d : /\ Closes(plans[j], d) <=> Closes(plans'[j], d)
                /\ Lists(plans[j], d) <=> Lists(plans'[j], d) \/ c = d
  BY <1>1, <1>2, PopHulls DEF RollOps
<1>4. c \in Corps /\ c /= None
  BY <1>1, <1>3, FreeFields, NoneAssumption
<1>5. listed[j] = {}
  <2>1. s \in Statements(plans[j])
    BY <1>1, <1>2, DueFree DEF RollOps
  <2>2. ~Frees(plans[j])
    BY <1>3, <2>1 DEF Frees
  <2>. QED
    BY <2>2 DEF Handed
<1>6. \A k \in Jobs : listed'[k] = IF k = j THEN Fleet(c) ELSE listed[k]
  BY <1>2 DEF Noted
<1>7. Wrecks'
  BY <1>2, <1>3, NextParts DEF Docked, Wrecks
<1>8. NewCorps'
  <2>1. ASSUME NEW k \in Jobs, NEW p \in Players, NEW d \in Corps, NEW h \in Hulls,
               plans'[k] = ToLink(p, d, h)
        PROVE  ships'[h].corp = d
    <3>1. Links(plans'[k], h)
      BY <2>1, LinksIs
    <3>. QED
      BY <1>2, <1>3, <2>1, <3>1 DEF Docked, NewCorps
  <2>. QED
    BY <2>1, NextParts
<1>9. Registered => Registered'
  BY <1>2, <1>3, NextParts DEF Registered
<1>10. ASSUME Given PROVE Given'
  <2>1. ASSUME NEW d \in Corps, Late(d)', NEW h \in Hulls,
               ships'[h].live, ships'[h].corp = d, ships'[h].link = d
        PROVE  \E k \in Jobs : h \in listed'[k]
    <3>1. CASE d = c
      <4>1. h \in Fleet(c)
        BY <1>2, <1>4, <2>1, <3>1 DEF Fleet
      <4>. QED
        BY <1>6, <4>1
    <3>2. CASE d /= c
      <4>1. Late(d)
        BY <1>2, <1>3, <2>1, <3>2, LateIs
      <4>2. PICK k \in Jobs : h \in listed[k]
        BY <1>2, <1>10, <2>1, <4>1 DEF Given
      <4>3. k /= j
        BY <1>5, <4>2
      <4>. QED
        BY <1>6, <4>2, <4>3
    <3>. QED
      BY <3>1, <3>2
  <2>2. \A d \in Corps : Late(d)' =>
          \A h \in Hulls : ships'[h].live /\ ships'[h].corp = d /\ ships'[h].link = d =>
            \E k \in Jobs : h \in listed'[k]
    BY <2>1
  <2>. QED
    BY <2>2 DEF Given
<1>. QED
  BY <1>2, <1>7, <1>8, <1>9, <1>10 DEF Docked

LEMMA ReleaseDocked ==
  ASSUME Inv, Noted, AllOrderly, Docked, NEW j \in Jobs, Release(j)
  PROVE  Docked'
<1>1. PICK s : s = Head(plans[j])
  OBVIOUS
<1>2. /\ Due(j, "release") /\ Done(j) /\ corps' = corps /\ crossed' = crossed
      /\ ships' = [h \in Hulls |-> IF h \in listed[j] THEN [ships[h] EXCEPT !.corp = None]
                                   ELSE ships[h]]
      /\ listed' = [listed EXCEPT ![j] = {}]
  BY DEF Release
<1>3. /\ \A k \in Jobs \ {j} : plans'[k] = plans[k]
      /\ \A h : /\ Unlisting(plans[j], h) <=> Unlisting(plans'[j], h)
                /\ Scrapping(plans[j], h) <=> Scrapping(plans'[j], h)
                /\ Wrecking(plans[j], h) <=> Wrecking(plans'[j], h)
                /\ ~Links(plans[j], h) /\ ~Links(plans'[j], h)
      /\ \A d : /\ Closes(plans[j], d) <=> Closes(plans'[j], d)
                /\ Lists(plans[j], d) <=> Lists(plans'[j], d)
  BY <1>1, <1>2, PopHulls DEF RollOps
<1>4. \A k \in Jobs : listed'[k] = IF k = j THEN {} ELSE listed[k]
  BY <1>2 DEF Noted
<1>5. ASSUME NEW h \in Hulls
      PROVE  /\ ships'[h].link = ships[h].link /\ ships'[h].live = ships[h].live
             /\ ships'[h].corp = IF h \in listed[j] THEN None ELSE ships[h].corp
  <2>1. ships[h] \in HullRow
    BY HullRows
  <2>. QED
    BY <1>2, <2>1 DEF HullRow
<1>6. ASSUME NEW k \in Jobs, NEW h \in Hulls, Unlisting(plans'[k], h)
      PROVE  ~ships'[h].live \/ Wrecking(plans'[k], h)
  <2>1. Unlisting(plans[k], h)
    BY <1>3, <1>6
  <2>2. ~ships[h].live \/ Wrecking(plans[k], h)
    BY <2>1 DEF Docked, Wrecks
  <2>. QED
    BY <1>3, <1>5, <2>2
<1>7. ASSUME NEW k \in Jobs, NEW p \in Players, NEW d \in Corps, NEW h \in Hulls,
             plans'[k] = ToLink(p, d, h)
      PROVE  ships'[h].corp = d
  <2>1. Links(plans'[k], h)
    BY <1>7, LinksIs
  <2>2. k /= j /\ plans[k] = ToLink(p, d, h)
    BY <1>3, <1>7, <2>1
  <2>3. ships[h].corp = d /\ Links(plans[k], h)
    BY <2>2, LinksIs DEF Docked, NewCorps
  <2>4. ships[h].by = None
    BY <2>3 DEF Inv, NewHulls
  <2>5. h \notin listed[j]
    BY <2>4 DEF Noted
  <2>. QED
    BY <1>5, <2>3, <2>5
<1>8. ASSUME Registered, NEW h \in Hulls, ships'[h].live, ships'[h].corp /= None,
             ships'[h].link /= ships'[h].corp
      PROVE  \E k \in Jobs : Links(plans'[k], h) \/ Scrapping(plans'[k], h)
  <2>1. PICK k \in Jobs : Links(plans[k], h) \/ Scrapping(plans[k], h)
    BY <1>5, <1>8 DEF Registered
  <2>. QED
    BY <1>3, <2>1
<1>9. ASSUME Given PROVE Given'
  <2>1. ASSUME NEW d \in Corps, Late(d)', NEW h \in Hulls,
               ships'[h].live, ships'[h].corp = d, ships'[h].link = d
        PROVE  \E k \in Jobs : h \in listed'[k]
    <3>1. Late(d)
      BY <1>2, <1>3, <2>1, LateIs
    <3>2. h \notin listed[j] /\ ships[h].live /\ ships[h].corp = d /\ ships[h].link = d
      BY <1>5, <2>1, NoneAssumption
    <3>3. PICK k \in Jobs : h \in listed[k]
      BY <1>9, <3>1, <3>2 DEF Given
    <3>. QED
      BY <1>4, <3>2, <3>3
  <2>2. \A d \in Corps : Late(d)' =>
          \A h \in Hulls : ships'[h].live /\ ships'[h].corp = d /\ ships'[h].link = d =>
            \E k \in Jobs : h \in listed'[k]
    BY <2>1
  <2>. QED
    BY <2>2 DEF Given
<1>10. Wrecks' /\ NewCorps' /\ (Registered => Registered')
  BY <1>6, <1>7, <1>8, NextParts
<1>. QED
  BY <1>2, <1>9, <1>10 DEF Docked

LEMMA CloseDocked ==
  ASSUME Inv, AllOrderly, Docked, NEW j \in Jobs, Close(j)
  PROVE  Docked'
<1>1. PICK s, c : s = Head(plans[j]) /\ c = s.corp
  OBVIOUS
<1>2. /\ Due(j, "close") /\ Done(j) /\ ships' = ships /\ UNCHANGED <<listed, crossed>>
      /\ corps' = [corps EXCEPT ![c].gone = TRUE]
  BY <1>1 DEF Close, Settled
<1>3. /\ \A k \in Jobs \ {j} : plans'[k] = plans[k]
      /\ s \in Free /\ s.op = "close" /\ Follows(s, Statements(plans'[j]))
      /\ \A h : /\ Unlisting(plans[j], h) <=> Unlisting(plans'[j], h)
                /\ Scrapping(plans[j], h) <=> Scrapping(plans'[j], h)
                /\ Wrecking(plans[j], h) <=> Wrecking(plans'[j], h)
                /\ ~Links(plans[j], h) /\ ~Links(plans'[j], h)
      /\ \A d : /\ Closes(plans[j], d) <=> Closes(plans'[j], d) \/ c = d
                /\ Lists(plans[j], d) <=> Lists(plans'[j], d)
  BY <1>1, <1>2, PopHulls DEF RollOps
<1>4. c \in Corps
  BY <1>1, <1>3, FreeFields
<1>5. ~Lists(plans[j], c) /\ Closes(plans[j], c)
  <2>1. \A t \in Statements(plans'[j]) : ~(t.op = "list" /\ t.corp = c)
    BY <1>1, <1>3 DEF Follows, FollowsOther
  <2>. QED
    BY <1>3, <2>1 DEF Lists
<1>6. Late(c)
  BY <1>5, LateIs
<1>7. \A d \in Corps : corps'[d].gone => corps[d].gone \/ d = c
  BY <1>2 DEF Inv, TypeOK
<1>8. ASSUME NEW d \in Corps, Late(d)' PROVE Late(d)
  <2>1. CASE d = c
    BY <1>6, <2>1
  <2>2. CASE d /= c
    BY <1>3, <1>7, <1>8, <2>2, LateIs
  <2>. QED
    BY <2>1, <2>2
<1>9. Given => Given'
  BY <1>2, <1>8, GivenKept
<1>10. Wrecks'
  BY <1>2, <1>3, NextParts DEF Docked, Wrecks
<1>11. ASSUME NEW k \in Jobs, NEW p \in Players, NEW d \in Corps, NEW h \in Hulls,
             plans'[k] = ToLink(p, d, h)
      PROVE  ships'[h].corp = d
  <2>1. Links(plans'[k], h)
    BY <1>11, LinksIs
  <2>. QED
    BY <1>2, <1>3, <1>11, <2>1 DEF Docked, NewCorps
<1>12. Registered => Registered'
  BY <1>2, <1>3, NextParts DEF Registered
<1>13. NewCorps'
  BY <1>11, NextParts
<1>. QED
  BY <1>2, <1>9, <1>10, <1>12, <1>13 DEF Docked

LEMMA RollDocked ==
  ASSUME Inv, Noted, AllOrderly, Handed, Docked, NEW j \in Jobs, RollStep(j)
  PROVE  Docked'
<1>1. CASE Found(j)
  <2>1. Due(j, "found") /\ Done(j) /\ ships' = ships /\ UNCHANGED <<listed, crossed>>
    BY <1>1 DEF Found, Settled
  <2>2. \A c \in Corps : corps'[c].gone = corps[c].gone
    <3>1. PICK c, p : corps' = [corps EXCEPT ![c].founder = p]
      BY <1>1 DEF Found
    <3>. QED
      BY <3>1 DEF Inv, TypeOK
  <2>. QED
    BY <2>1, <2>2, PopCalm DEF Calm
<1>2. CASE Enrol(j)
  <2>1. Due(j, "enrol") /\ Done(j) /\ ships' = ships /\ UNCHANGED <<listed, crossed>> /\ corps' = corps
    BY <1>2 DEF Enrol, Settled
  <2>. QED
    BY <2>1, PopCalm DEF Calm
<1>3. CASE Stamp(j)
  <2>1. Due(j, "stamp") /\ Done(j) /\ ships' = ships /\ UNCHANGED <<listed, crossed>> /\ corps' = corps
    BY <1>3 DEF Stamp, Settled
  <2>. QED
    BY <2>1, PopCalm DEF Calm
<1>. QED
  BY <1>1, <1>2, <1>3, LeftDocked, ListDocked, ReleaseDocked, CloseDocked DEF RollStep

-----------------------------------------------------------------------------
(* The statements about ships, and the ships.                              *)

\* A plan that says nothing of ships or of the end of a corporation.
Mute(plan) == /\ \A h : ~Unlisting(plan, h) /\ ~Scrapping(plan, h) /\ ~Wrecking(plan, h)
              /\ \A c : ~Closes(plan, c) /\ ~Lists(plan, c)

Idle(plan) == Mute(plan) /\ \A h : ~Links(plan, h)

LEMMA SilentMute ==
  ASSUME NEW plan, \A s \in Statements(plan) : s.op \notin RollOps \cup HullOps
  PROVE  Mute(plan)
  BY DEF Mute, Unlisting, Scrapping, Wrecking, Closes, Lists, RollOps, HullOps

LEMMA LockedMute ==
  ASSUME NEW plan, NEW p, NEW c, Waiting(plan, p, c) \/ Locking(plan, p, c)
  PROVE  Mute(plan)
<1>1. \A s \in Statements(plan) : s.op \notin RollOps \cup HullOps
  BY Unnamed
<1>. QED
  BY <1>1, SilentMute

LEMMA IdleLock ==
  ASSUME NEW plan, NEW p, NEW c, Waiting(plan, p, c) \/ Locking(plan, p, c),
         NEW op, Opens(plan, op), op /= "link"
  PROVE  Idle(plan)
<1>1. Mute(plan)
  BY LockedMute
<1>2. \A h : ~Links(plan, h)
  BY Apart
<1>. QED
  BY <1>1, <1>2 DEF Idle

LEMMA IdleEnd == Idle(<< >>)
<1>1. \A s \in Statements(<< >>) : s.op \notin RollOps \cup HullOps
  BY EmptyOrder
<1>2. Mute(<< >>)
  BY <1>1, SilentMute
<1>3. \A h : ~Links(<< >>, h)
  <2>1. ASSUME NEW h, Links(<< >>, h) PROVE FALSE
    <3>1. Opens(<< >>, "link")
      BY <2>1, LinksOpen
    <3>. QED
      BY <3>1 DEF Opens
  <2>. QED
    BY <2>1
<1>. QED
  BY <1>2, <1>3 DEF Idle

LEMMA MuteStep ==
  ASSUME Inv, NEW j \in Jobs, NEW q, plans' = [plans EXCEPT ![j] = q], Mute(q),
         \A c \in Corps : corps'[c].gone => corps[c].gone
  PROVE  plans'[j] = q /\ (\A k \in Jobs \ {j} : plans'[k] = plans[k]) /\ NotLater
<1>1. plans'[j] = q /\ \A k \in Jobs \ {j} : plans'[k] = plans[k]
  BY OneMoves
<1>2. NotLater
  BY <1>1 DEF NotLater, Mute
<1>. QED
  BY <1>1, <1>2

LEMMA IdleDocked ==
  ASSUME Inv, Docked, NEW j \in Jobs, NEW q, plans' = [plans EXCEPT ![j] = q],
         Idle(plans[j]), Idle(q), Calm, corps' = corps, UNCHANGED <<listed, crossed>>
  PROVE  Docked'
<1>1. plans'[j] = q /\ (\A k \in Jobs \ {j} : plans'[k] = plans[k]) /\ NotLater
  BY MuteStep DEF Idle
<1>2. Stays(j)
  BY <1>1 DEF Stays, Idle, Mute
<1>. QED
  BY <1>1, <1>2, CalmDocked

LEMMA WaitsDocked ==
  ASSUME Inv, Docked, NEW j \in Jobs, Lock(j) \/ Count(j) \/ Unlock(j)
  PROVE  Docked'
<1>1. Calm /\ corps' = corps /\ UNCHANGED <<listed, crossed>>
  BY DEF Lock, Count, Unlock, Settled, rows, Calm
<1>2. CASE Lock(j)
  <2>1. PICK p \in Players, c \in Corps : Waiting(plans[j], p, c)
    BY <1>2, DueUnderLock DEF Lock
  <2>2. PICK q : q = Tail(plans[j])
    OBVIOUS
  <2>3. \/ q = ToCount(p, c)
        \/ \E h \in Hulls, x \in Players : q = ToCountYield(p, c, h, x)
    BY <2>1, <2>2, Tails DEF Waiting
  <2>4. Locking(q, p, c) /\ Opens(q, "count")
    BY <2>3, Openings DEF Locking
  <2>5. Opens(plans[j], "lock")
    BY <2>1, Kinds
  <2>6. plans' = [plans EXCEPT ![j] = q]
    BY <1>2, <2>2 DEF Lock, Done
  <2>7. Idle(plans[j]) /\ Idle(q)
    BY <2>1, <2>4, <2>5, IdleLock
  <2>. QED
    BY <1>1, <2>6, <2>7, IdleDocked
<1>3. CASE Count(j)
  <2>1. PICK p \in Players, c \in Corps :
          \/ plans[j] = ToCount(p, c)
          \/ \E h \in Hulls, q \in Players : plans[j] = ToCountYield(p, c, h, q)
    BY <1>3, DueUnderLock DEF Count
  <2>2. PICK q : q = Tail(plans[j])
    OBVIOUS
  <2>3. \/ q = ToBuild(p, c)
        \/ \E h \in Hulls, x \in Players : q = ToYield(p, c, h, x)
    BY <2>1, <2>2, Tails
  <2>4. Locking(plans[j], p, c) /\ Locking(q, p, c)
    BY <2>1, <2>3 DEF Locking, Slot
  <2>5. Opens(plans[j], "count") /\ (Opens(q, "build") \/ Opens(q, "unclaim"))
    BY <2>1, <2>3, Openings
  <2>6. Quit(j) \/ Done(j)
    BY <1>3 DEF Count
  <2>9. Idle(plans[j]) /\ Idle(q)
    BY <2>4, <2>5, IdleLock
  <2>7. CASE Quit(j)
    <3>1. PICK e : e = << >>
      OBVIOUS
    <3>2. plans' = [plans EXCEPT ![j] = e] /\ Idle(e)
      BY <2>7, <3>1, IdleEnd DEF Quit
    <3>. QED
      BY <1>1, <2>9, <3>2, IdleDocked
  <2>8. CASE Done(j)
    <3>1. plans' = [plans EXCEPT ![j] = q]
      BY <2>2, <2>8 DEF Done
    <3>. QED
      BY <1>1, <2>9, <3>1, IdleDocked
  <2>. QED
    BY <2>6, <2>7, <2>8
<1>4. CASE Unlock(j)
  <2>1. PICK p \in Players, c \in Corps, x \in Hulls \cup {None} : plans[j] = Final(p, c, x)
    BY <1>4, DueUnderLock DEF Unlock
  <2>2. PICK e : e = << >>
    OBVIOUS
  <2>5. Tail(plans[j]) = e
    BY <2>1, <2>2 DEF Final
  <2>3. Locking(plans[j], p, c) /\ Opens(plans[j], "unlock")
    BY <2>1, Openings DEF Locking
  <2>4. plans' = [plans EXCEPT ![j] = e]
    BY <1>4, <2>5 DEF Unlock, Done
  <2>6. Idle(plans[j])
    BY <2>3, IdleLock
  <2>7. Idle(e)
    BY <2>2, IdleEnd
  <2>. QED
    BY <1>1, <2>4, <2>6, <2>7, IdleDocked
<1>. QED
  BY <1>2, <1>3, <1>4

LEMMA UnclaimDocked ==
  ASSUME Inv, Docked, NEW j \in Jobs, Unclaim(j)
  PROVE  Docked'
<1>1. PICK p \in Players, c \in Corps, h \in Hulls, q \in Players : plans[j] = ToYield(p, c, h, q)
  BY DueUnderLock DEF Unclaim
<1>0. PICK f : f = Final(p, c, h)
  OBVIOUS
<1>2. Tail(plans[j]) = f
  BY <1>0, <1>1 DEF ToYield, Final
<1>3. Locking(plans[j], p, c) /\ Locking(f, p, c)
  BY <1>0, <1>1 DEF Locking, Slot
<1>4. Opens(plans[j], "unclaim") /\ Opens(f, "unlock")
  BY <1>0, <1>1, Openings
<1>5. plans' = [plans EXCEPT ![j] = f]
  <2>1. plans' = [plans EXCEPT ![j] = Tail(plans[j])]
    BY DEF Unclaim, Done
  <2>. QED
    BY <1>2, <2>1
<1>6. PICK s : s = Head(plans[j])
  OBVIOUS
<1>7. ships' = [ships EXCEPT ![s.ship].byoa = None] \/ ships' = ships
  BY <1>6 DEF Unclaim
<1>8. Calm
  BY <1>7, HullRows DEF Calm, HullRow
<1>9. corps' = corps /\ UNCHANGED <<listed, crossed>>
  BY DEF Unclaim, Settled
<1>10. Idle(plans[j]) /\ Idle(f)
  BY <1>3, <1>4, IdleLock
<1>. QED
  BY <1>5, <1>8, <1>9, <1>10, IdleDocked

LEMMA ClaimDocked ==
  ASSUME Inv, AllOrderly, Docked, NEW j \in Jobs, Claim(j)
  PROVE  Docked'
<1>1. PICK s : s = Head(plans[j])
  OBVIOUS
<1>2. PICK p : ships' = [ships EXCEPT ![s.ship].byoa = p] \/ ships' = ships
  BY <1>1 DEF Claim
<1>3. Calm
  BY <1>2, HullRows DEF Calm, HullRow
<1>4. Due(j, "claim") /\ Done(j) /\ corps' = corps /\ UNCHANGED <<listed, crossed>>
  BY DEF Claim, Settled
<1>. QED
  BY <1>3, <1>4, PopCalm

LEMMA BuildDocked ==
  ASSUME Inv, Docked, NEW j \in Jobs, Build(j)
  PROVE  Docked'
<1>1. PICK p \in Players, c \in Corps : plans[j] = ToBuild(p, c)
  BY DueUnderLock DEF Build
<1>2. PICK h \in Hulls :
        /\ ships[h] = Unbuilt
        /\ ships' = [ships EXCEPT ![h] = [Unbuilt EXCEPT !.corp = c, !.live = TRUE]]
        /\ plans' = [plans EXCEPT ![j] = ToLink(p, c, h)]
        /\ UNCHANGED <<corps, member, affil>>
  BY <1>1, BuildsOne
<1>3. PICK q : q = ToLink(p, c, h)
  OBVIOUS
<1>4. Locking(plans[j], p, c) /\ Locking(q, p, c)
  BY <1>1, <1>3 DEF Locking, Slot
<1>5. /\ plans'[j] = q /\ \A k \in Jobs \ {j} : plans'[k] = plans[k]
      /\ Mute(plans[j]) /\ Mute(q) /\ NotLater
  <2>1. Mute(plans[j]) /\ Mute(q)
    BY <1>4, LockedMute
  <2>2. plans' = [plans EXCEPT ![j] = q] /\ \A d \in Corps : corps'[d].gone => corps[d].gone
    BY <1>2, <1>3
  <2>. QED
    BY <2>1, <2>2, MuteStep
<1>6. /\ ships[h].by = None /\ ships[h].corp = None
      /\ ships'[h].corp = c /\ ships'[h].link = None
      /\ \A g \in Hulls : g /= h => ships'[g] = ships[g]
  BY <1>2 DEF Unbuilt, Inv, TypeOK
<1>7. ASSUME NEW k \in Jobs, NEW g \in Hulls, Unlisting(plans'[k], g)
      PROVE  ~ships'[g].live \/ Wrecking(plans'[k], g)
  <2>1. k /= j /\ Unlisting(plans[k], g)
    BY <1>5, <1>7 DEF Mute
  <2>2. ships[g].by /= None
    BY <2>1 DEF Unlisting, Inv, AllNamed, Named, HullOps
  <2>3. g /= h
    BY <1>6, <2>2
  <2>4. ~ships[g].live \/ Wrecking(plans[k], g)
    BY <2>1 DEF Docked, Wrecks
  <2>. QED
    BY <1>5, <1>6, <2>1, <2>3, <2>4
<1>8. ASSUME NEW k \in Jobs, NEW p2 \in Players, NEW c2 \in Corps, NEW g \in Hulls,
             plans'[k] = ToLink(p2, c2, g)
      PROVE  ships'[g].corp = c2
  <2>1. CASE k = j
    <3>1. q = ToLink(p2, c2, g)
      BY <1>5, <1>8, <2>1
    <3>2. EndsWith(q, p, c, None) /\ EndsWith(q, p2, c2, None)
      BY <1>3, <3>1, Ends
    <3>3. c2 = c /\ g = h
      BY <1>3, <3>1, <3>2, OneEnd, ToLinkNames
    <3>. QED
      BY <1>6, <3>3
  <2>2. CASE k /= j
    <3>1. plans[k] = ToLink(p2, c2, g)
      BY <1>5, <1>8, <2>2
    <3>2. ships[g].corp = c2
      BY <3>1 DEF Docked, NewCorps
    <3>3. g /= h
      BY <1>6, <3>2, NoneAssumption
    <3>. QED
      BY <1>6, <3>2, <3>3
  <2>. QED
    BY <2>1, <2>2
<1>9. ASSUME Registered, NEW g \in Hulls, ships'[g].live, ships'[g].corp /= None,
             ships'[g].link /= ships'[g].corp
      PROVE  \E k \in Jobs : Links(plans'[k], g) \/ Scrapping(plans'[k], g)
  <2>1. CASE g = h
    BY <1>3, <1>5, <2>1, LinksIs
  <2>2. CASE g /= h
    <3>1. PICK k \in Jobs : Links(plans[k], g) \/ Scrapping(plans[k], g)
      BY <1>6, <1>9, <2>2 DEF Registered
    <3>2. ~Links(plans[j], g)
      BY <1>1, Openings, Apart
    <3>3. k /= j
      BY <1>5, <3>1, <3>2 DEF Mute
    <3>. QED
      BY <1>5, <3>1, <3>3
  <2>. QED
    BY <2>1, <2>2
<1>10. ASSUME Given PROVE Given'
  <2>1. listed' = listed
    BY SameList DEF ShipStep
  <2>2. \A d \in Corps : Late(d)' => Late(d)
    BY <1>5, LateKept
  <2>. QED
    BY <1>6, <1>10, <2>1, <2>2, GivenKept, NoneAssumption
<1>11. Wrecks' /\ NewCorps' /\ (Registered => Registered')
  BY <1>7, <1>8, <1>9, NextParts
<1>12. UNCHANGED <<listed, crossed>>
  BY DEF Build, Settled
<1>. QED
  BY <1>10, <1>11, <1>12 DEF Docked

LEMMA LinkDocked ==
  ASSUME Inv, Docked, NEW j \in Jobs, Link(j)
  PROVE  Docked'
<1>1. PICK p \in Players, c \in Corps, h \in Hulls : plans[j] = ToLink(p, c, h)
  BY DueUnderLock DEF Link
<1>2. Head(plans[j]).who = {p} /\ Head(plans[j]).corp = c /\ Head(plans[j]).ship = h
  BY <1>1 DEF ToLink, Do
<1>3. /\ ships' = [ships EXCEPT ![h].link = c, ![h].by = p]
      /\ plans' = [plans EXCEPT ![j] = Tail(plans[j])]
      /\ corps' = corps /\ listed' = listed
      /\ crossed' = (crossed \/ Late(c))
  BY <1>2 DEF Link, Done
<1>4. PICK q : q = Final(p, c, None)
  OBVIOUS
<1>5. plans' = [plans EXCEPT ![j] = q]
  <2>1. Tail(plans[j]) = Final(p, c, None)
    BY <1>1 DEF ToLink, Final
  <2>. QED
    BY <1>3, <1>4, <2>1
<1>6. Locking(plans[j], p, c) /\ Locking(q, p, c) /\ Opens(q, "unlock")
  BY <1>1, <1>4, Openings DEF Locking, Slot
<1>7. /\ plans'[j] = q /\ \A k \in Jobs \ {j} : plans'[k] = plans[k]
      /\ Mute(plans[j]) /\ Mute(q) /\ NotLater
  <2>1. Mute(plans[j]) /\ Mute(q)
    BY <1>6, LockedMute
  <2>2. \A d \in Corps : corps'[d].gone => corps[d].gone
    BY <1>3
  <2>. QED
    BY <1>5, <2>1, <2>2, MuteStep
<1>8. \A g : ~Links(q, g)
  BY <1>6, Apart
<1>9. \A g \in Hulls : /\ ships'[g].corp = ships[g].corp /\ ships'[g].live = ships[g].live
                       /\ ships'[g].link = IF g = h THEN c ELSE ships[g].link
  BY <1>3, HullRows DEF HullRow
<1>10. ships[h].corp = c
  BY <1>1 DEF Docked, NewCorps
<1>11. \A g : Links(plans[j], g) => g = h
  BY <1>1, ToLinkNames DEF Links
<1>12. Wrecks'
  <2>1. ASSUME NEW k \in Jobs, NEW g \in Hulls, Unlisting(plans'[k], g)
        PROVE  ~ships'[g].live \/ Wrecking(plans'[k], g)
    <3>1. k /= j /\ Unlisting(plans[k], g) /\ plans'[k] = plans[k]
      BY <1>7, <2>1 DEF Mute
    <3>. QED
      BY <1>9, <3>1 DEF Docked, Wrecks
  <2>. QED
    BY <2>1, NextParts
<1>13. NewCorps'
  <2>1. ASSUME NEW k \in Jobs, NEW p2 \in Players, NEW c2 \in Corps, NEW g \in Hulls,
               plans'[k] = ToLink(p2, c2, g)
        PROVE  ships'[g].corp = c2
    <3>1. Links(plans'[k], g)
      BY <2>1, LinksIs
    <3>2. plans[k] = ToLink(p2, c2, g)
      BY <1>7, <1>8, <2>1, <3>1
    <3>. QED
      BY <1>9, <3>2 DEF Docked, NewCorps
  <2>. QED
    BY <2>1, NextParts
<1>14. ASSUME Registered PROVE Registered'
  <2>1. ASSUME NEW g \in Hulls, ships'[g].live, ships'[g].corp /= None,
               ships'[g].link /= ships'[g].corp
        PROVE  \E k \in Jobs : Links(plans'[k], g) \/ Scrapping(plans'[k], g)
    <3>1. g /= h
      BY <1>9, <1>10, <2>1
    <3>2. PICK k \in Jobs : Links(plans[k], g) \/ Scrapping(plans[k], g)
      BY <1>9, <1>14, <2>1, <3>1 DEF Registered
    <3>3. k /= j
      BY <1>7, <1>11, <3>1, <3>2 DEF Mute
    <3>. QED
      BY <1>7, <3>2, <3>3
  <2>. QED
    BY <2>1, NextParts
<1>15. ASSUME Given, ~crossed' PROVE Given'
  <2>1. ~Late(c)
    BY <1>3, <1>15
  <2>2. \A d \in Corps : Late(d)' => Late(d)
    BY <1>7, LateKept
  <2>3. ASSUME NEW d \in Corps, Late(d)', NEW g \in Hulls,
               ships'[g].live, ships'[g].corp = d, ships'[g].link = d
        PROVE  \E k \in Jobs : g \in listed'[k]
    <3>1. Late(d) /\ d /= c
      BY <2>1, <2>2, <2>3
    <3>2. g /= h
      BY <1>9, <1>10, <2>3, <3>1
    <3>. QED
      BY <1>3, <1>9, <1>15, <2>3, <3>1, <3>2 DEF Given
  <2>4. \A d \in Corps : Late(d)' =>
          \A g \in Hulls : ships'[g].live /\ ships'[g].corp = d /\ ships'[g].link = d =>
            \E k \in Jobs : g \in listed'[k]
    BY <2>3
  <2>. QED
    BY <2>4 DEF Given
<1>. QED
  BY <1>3, <1>12, <1>13, <1>14, <1>15 DEF Docked

LEMMA UnlinkDocked ==
  ASSUME Inv, AllOrderly, Docked, NEW j \in Jobs, Unlink(j)
  PROVE  Docked'
<1>1. PICK s, h : s = Head(plans[j]) /\ h = s.ship
  OBVIOUS
<1>2. /\ Due(j, "unlink") /\ Done(j) /\ corps' = corps /\ UNCHANGED <<listed, crossed>>
      /\ ships' = [ships EXCEPT ![h].link = IF @ = s.corp THEN None ELSE @]
  BY <1>1 DEF Unlink, Settled
<1>3. /\ \A k \in Jobs \ {j} : plans'[k] = plans[k]
      /\ s \in Free /\ s.op = "unlink" /\ Follows(s, Statements(plans'[j]))
      /\ \A g : /\ Unlisting(plans[j], g) <=> Unlisting(plans'[j], g) \/ h = g
                /\ Scrapping(plans[j], g) <=> Scrapping(plans'[j], g)
                /\ Wrecking(plans[j], g) <=> Wrecking(plans'[j], g)
                /\ ~Links(plans[j], g) /\ ~Links(plans'[j], g)
      /\ \A d : /\ Closes(plans[j], d) <=> Closes(plans'[j], d)
                /\ Lists(plans[j], d) <=> Lists(plans'[j], d)
  BY <1>1, <1>2, PopHulls DEF HullOps
<1>4. ASSUME NEW g \in Hulls
      PROVE  /\ ships'[g].corp = ships[g].corp /\ ships'[g].live = ships[g].live
             /\ ships'[g].link = ships[g].link \/ (g = h /\ ships'[g].link = None)
  <2>1. ships[g] \in HullRow
    BY HullRows
  <2>2. ships = [x \in Hulls |-> ships[x]]
    BY HullRows
  <2>. QED
    BY <1>2, <2>1, <2>2 DEF HullRow
<1>5. Wrecks'
  BY <1>3, <1>4, NextParts DEF Docked, Wrecks
<1>6. NewCorps'
  <2>1. ASSUME NEW k \in Jobs, NEW p \in Players, NEW d \in Corps, NEW g \in Hulls,
               plans'[k] = ToLink(p, d, g)
        PROVE  ships'[g].corp = d
    <3>1. Links(plans'[k], g)
      BY <2>1, LinksIs
    <3>2. plans[k] = ToLink(p, d, g)
      BY <1>3, <2>1, <3>1
    <3>. QED
      BY <1>4, <3>2 DEF Docked, NewCorps
  <2>. QED
    BY <2>1, NextParts
<1>7. ASSUME ships[h].live, h \in Hulls PROVE Scrapping(plans'[j], h)
  <2>1. Unlisting(plans[j], h)
    BY <1>3
  <2>2. Wrecking(plans'[j], h)
    BY <1>3, <1>7, <2>1 DEF Docked, Wrecks
  <2>3. \A t \in Statements(plans'[j]) : t.op /= "destroy"
    BY <1>3 DEF Follows, FollowsOther
  <2>. QED
    BY <2>2, <2>3 DEF Wrecking, Scrapping
<1>8. ASSUME Registered PROVE Registered'
  <2>1. ASSUME NEW g \in Hulls, ships'[g].live, ships'[g].corp /= None,
               ships'[g].link /= ships'[g].corp
        PROVE  \E k \in Jobs : Links(plans'[k], g) \/ Scrapping(plans'[k], g)
    <3>1. CASE g = h
      BY <1>4, <1>7, <2>1, <3>1
    <3>2. CASE g /= h
      <4>1. PICK k \in Jobs : Links(plans[k], g) \/ Scrapping(plans[k], g)
        BY <1>4, <1>8, <2>1, <3>2 DEF Registered
      <4>. QED
        BY <1>3, <4>1
    <3>. QED
      BY <3>1, <3>2
  <2>. QED
    BY <2>1, NextParts
<1>9. ASSUME Given PROVE Given'
  <2>1. NotLater
    BY <1>2, <1>3 DEF NotLater
  <2>2. \A d \in Corps : Late(d)' => Late(d)
    BY <2>1, LateKept
  <2>. QED
    BY <1>2, <1>4, <1>9, <2>2, GivenKept, NoneAssumption
<1>. QED
  BY <1>2, <1>5, <1>6, <1>8, <1>9 DEF Docked

\* A ship that is no more.
LEMMA SunkDocked ==
  ASSUME Inv, AllOrderly, Docked, NEW j \in Jobs, NEW op \in {"scrap", "destroy"},
         Due(j, op), Done(j), NEW h, h = Head(plans[j]).ship,
         \A g \in Hulls : IF g = h THEN ~ships'[g].live ELSE ships'[g] = ships[g],
         corps' = corps, UNCHANGED <<listed, crossed>>
  PROVE  Docked'
<1>1. PICK s : s = Head(plans[j])
  OBVIOUS
<1>2. op \in RollOps \cup HullOps /\ op \in HullOps
  BY DEF HullOps
<1>3. /\ \A k \in Jobs \ {j} : plans'[k] = plans[k]
      /\ s \in Free /\ s.op = op
      /\ \A g : /\ Unlisting(plans[j], g) <=> Unlisting(plans'[j], g)
                /\ Scrapping(plans[j], g) => Scrapping(plans'[j], g) \/ h = g
                /\ Wrecking(plans[j], g) => Wrecking(plans'[j], g) \/ h = g
                /\ ~Links(plans[j], g) /\ ~Links(plans'[j], g)
      /\ \A d : /\ Closes(plans[j], d) <=> Closes(plans'[j], d)
                /\ Lists(plans[j], d) <=> Lists(plans'[j], d)
  BY <1>1, <1>2, PopHulls
<1>4. ships[h].by /= None
  BY <1>2, DueFree
<1>5. ASSUME NEW k \in Jobs, NEW g \in Hulls, Unlisting(plans'[k], g)
      PROVE  ~ships'[g].live \/ Wrecking(plans'[k], g)
  <2>1. Unlisting(plans[k], g)
    BY <1>3, <1>5
  <2>2. ~ships[g].live \/ Wrecking(plans[k], g)
    BY <2>1 DEF Docked, Wrecks
  <2>. QED
    BY <1>3, <2>2
<1>6. ASSUME NEW k \in Jobs, NEW p \in Players, NEW d \in Corps, NEW g \in Hulls,
             plans'[k] = ToLink(p, d, g)
      PROVE  ships'[g].corp = d
  <2>1. Links(plans'[k], g)
    BY <1>6, LinksIs
  <2>2. plans[k] = ToLink(p, d, g)
    BY <1>3, <1>6, <2>1
  <2>3. ships[g].corp = d /\ Links(plans[k], g)
    BY <2>2, LinksIs DEF Docked, NewCorps
  <2>4. g /= h
    BY <1>4, <2>3 DEF Inv, NewHulls
  <2>. QED
    BY <2>3, <2>4
<1>7. ASSUME Registered, NEW g \in Hulls, ships'[g].live, ships'[g].corp /= None,
             ships'[g].link /= ships'[g].corp
      PROVE  \E k \in Jobs : Links(plans'[k], g) \/ Scrapping(plans'[k], g)
  <2>1. g /= h /\ ships'[g] = ships[g]
    BY <1>7
  <2>2. PICK k \in Jobs : Links(plans[k], g) \/ Scrapping(plans[k], g)
    BY <1>7, <2>1 DEF Registered
  <2>. QED
    BY <1>3, <2>1, <2>2
<1>8. ASSUME Given PROVE Given'
  <2>1. NotLater
    BY <1>3 DEF NotLater
  <2>2. \A g \in Hulls : ships'[g].live => ships'[g] = ships[g]
    OBVIOUS
  <2>. QED
    BY <1>8, <2>1, <2>2, LateKept, GivenKept
<1>9. Wrecks' /\ NewCorps' /\ (Registered => Registered')
  BY <1>5, <1>6, <1>7, NextParts
<1>. QED
  BY <1>8, <1>9 DEF Docked

LEMMA ScrapDocked ==
  ASSUME Inv, AllOrderly, Docked, NEW j \in Jobs, Scrap(j) \/ Destroy(j)
  PROVE  Docked'
<1>1. PICK h : h = Head(plans[j]).ship
  OBVIOUS
<1>2. corps' = corps /\ UNCHANGED <<listed, crossed>> /\ Done(j) /\ (Due(j, "scrap") \/ Due(j, "destroy"))
  BY DEF Scrap, Destroy, Settled
<1>3. \/ ships' = [ships EXCEPT ![h].corp = None, ![h].live = FALSE]
      \/ ships' = [ships EXCEPT ![h].live = FALSE]
  BY <1>1 DEF Scrap, Destroy
<1>4. ASSUME NEW g \in Hulls
      PROVE  IF g = h THEN ~ships'[g].live ELSE ships'[g] = ships[g]
  <2>1. ships[g] \in HullRow /\ ships = [x \in Hulls |-> ships[x]]
    BY HullRows
  <2>. QED
    BY <1>3, <2>1 DEF HullRow
<1>5. PICK op \in {"scrap", "destroy"} : Due(j, op)
  BY <1>2
<1>. QED
  BY <1>1, <1>2, <1>4, <1>5, SunkDocked

LEMMA ShipDocked ==
  ASSUME Inv, AllOrderly, Docked, NEW j \in Jobs, ShipStep(j)
  PROVE  Docked'
  BY WaitsDocked, BuildDocked, LinkDocked, ClaimDocked, UnclaimDocked, UnlinkDocked, ScrapDocked
     DEF ShipStep

-----------------------------------------------------------------------------
(* The calls, and the ships; the end.                                      *)

LEMMA AskDocked ==
  ASSUME Inv, Docked, NEW j \in Jobs, NEW q, Ask(j, q), Together(q)
  PROVE  Docked'
<1>1. /\ plans[j] = << >> /\ plans' = [plans EXCEPT ![j] = q]
      /\ ships' = ships /\ corps' = corps /\ listed' = listed
      /\ ~crossed' => ~crossed
  BY DEF Ask, rows
<1>2. plans'[j] = q /\ \A k \in Jobs \ {j} : plans'[k] = plans[k]
  BY <1>1, OneMoves
<1>3. PICK e : e = << >>
  OBVIOUS
<1>4. Idle(e) /\ plans[j] = e
  BY <1>1, <1>3, IdleEnd
<1>5. \A h : /\ Unlisting(q, h) => Wrecking(q, h)
             /\ ~Links(q, h)
  BY DEF Together
<1>6. \A c : ~(Closes(q, c) /\ ~Lists(q, c))
  BY DEF Together
<1>7. Wrecks'
  BY <1>1, <1>2, <1>5, NextParts DEF Docked, Wrecks
<1>8. NewCorps'
  <2>1. ASSUME NEW k \in Jobs, NEW p \in Players, NEW d \in Corps, NEW g \in Hulls,
               plans'[k] = ToLink(p, d, g)
        PROVE  ships'[g].corp = d
    <3>1. Links(plans'[k], g)
      BY <2>1, LinksIs
    <3>2. plans[k] = ToLink(p, d, g)
      BY <1>2, <1>5, <2>1, <3>1
    <3>. QED
      BY <1>1, <3>2 DEF Docked, NewCorps
  <2>. QED
    BY <2>1, NextParts
<1>9. ASSUME Registered PROVE Registered'
  <2>1. ASSUME NEW g \in Hulls, ships[g].live, ships[g].corp /= None,
               ships[g].link /= ships[g].corp
        PROVE  \E k \in Jobs : Links(plans'[k], g) \/ Scrapping(plans'[k], g)
    <3>1. PICK k \in Jobs : Links(plans[k], g) \/ Scrapping(plans[k], g)
      BY <1>9, <2>1 DEF Registered
    <3>2. k /= j
      BY <1>4, <3>1 DEF Idle, Mute
    <3>. QED
      BY <1>2, <3>1, <3>2
  <2>. QED
    BY <1>1, <2>1, NextParts
<1>10. ASSUME Given PROVE Given'
  <2>1. NotLater
    BY <1>1, <1>2, <1>6 DEF NotLater
  <2>. QED
    BY <1>1, <1>10, <2>1, LateKept, GivenKept
<1>. QED
  BY <1>1, <1>7, <1>8, <1>9, <1>10 DEF Docked

LEMMA EndDocked ==
  ASSUME Inv, Docked, NEW j \in Jobs, EndEarly(j)
  PROVE  Docked'
<1>1. PICK e : e = << >>
  OBVIOUS
<1>2. plans' = [plans EXCEPT ![j] = e] /\ ships' = ships /\ crossed'
  BY <1>1 DEF EndEarly, Quit, rows
<1>3. plans'[j] = e /\ \A k \in Jobs \ {j} : plans'[k] = plans[k]
  BY <1>2, OneMoves
<1>4. Idle(e)
  BY <1>1, IdleEnd
<1>5. Wrecks'
  BY <1>2, <1>3, <1>4, NextParts DEF Docked, Wrecks, Idle, Mute
<1>6. NewCorps'
  <2>1. ASSUME NEW k \in Jobs, NEW p \in Players, NEW d \in Corps, NEW g \in Hulls,
               plans'[k] = ToLink(p, d, g)
        PROVE  ships'[g].corp = d
    <3>1. Links(plans'[k], g)
      BY <2>1, LinksIs
    <3>2. plans[k] = ToLink(p, d, g)
      BY <1>3, <1>4, <2>1, <3>1 DEF Idle
    <3>. QED
      BY <1>2, <3>2 DEF Docked, NewCorps
  <2>. QED
    BY <2>1, NextParts
<1>. QED
  BY <1>2, <1>5, <1>6 DEF Docked

LEMMA StartsDocked ==
  ASSUME Init
  PROVE  Docked
<1>1. \A j \in Jobs : plans[j] = << >>
  BY DEF Init
<1>2. corps \in [Corps -> [founder : Players \cup {None}, gone : {FALSE}]]
  BY PTL DEF Init
<1>3. \A c \in Corps : corps[c].gone = FALSE
  BY <1>2
<1>5. ships \in [Hulls -> {Unbuilt} \cup
       {[corp |-> c, link |-> c, by |-> p, byoa |-> q, live |-> TRUE] :
          c \in {d \in Corps : corps[d].founder /= None}, p \in Players,
          q \in Players \cup {None}}]
  BY PTL DEF Init
<1>6. \A h \in Hulls : ships[h].live => ships[h].link = ships[h].corp
  BY <1>5 DEF Unbuilt
<1>7. \A j \in Jobs : Idle(plans[j])
  BY <1>1, IdleEnd
<1>8. Wrecks
  BY <1>7 DEF Wrecks, Idle, Mute
<1>9. NewCorps
  <2>1. ASSUME NEW j \in Jobs, NEW p \in Players, NEW c \in Corps, NEW h \in Hulls,
               plans[j] = ToLink(p, c, h)
        PROVE  FALSE
    <3>1. Links(plans[j], h)
      BY <2>1, LinksIs
    <3>. QED
      BY <1>7, <3>1 DEF Idle
  <2>. QED
    BY <2>1 DEF NewCorps
<1>10. Registered
  BY <1>6 DEF Registered
<1>11. Given
  <2>1. \A c \in Corps : ~Late(c)
    BY <1>3, <1>7, LateIs DEF Idle, Mute
  <2>. QED
    BY <2>1 DEF Given
<1>. QED
  BY <1>8, <1>9, <1>10, <1>11 DEF Docked

\* What a call has listed it is still to release.
LEMMA HandedStep ==
  ASSUME Inv, Noted, AllOrderly, Handed, [Next]_vars
  PROVE  Handed'
<1>1. ASSUME NEW j \in Jobs, \A k \in Jobs \ {j} : plans'[k] = plans[k] /\ listed'[k] = listed[k],
             listed'[j] /= {} => Frees(plans'[j])
      PROVE  Handed'
  BY <1>1 DEF Handed, Frees, Statements
<1>2. ASSUME NEW j \in Jobs, ~Frees(plans[j]) PROVE listed[j] = {}
  BY <1>2 DEF Handed
<1>3. ASSUME NEW j \in Jobs, AskStep(j) PROVE Handed'
  <2>1. PICK q : Ask(j, q)
    BY <1>3, Zenon DEF AskStep, AskCreate, AskJoin, AskBuy, AskLeave, AskKick, AskSell, AskClaim,
       AskUnclaim, AskWreck
  <2>2. plans[j] = << >> /\ plans' = [plans EXCEPT ![j] = q] /\ listed' = listed
    BY <2>1 DEF Ask
  <2>3. ~Frees(plans[j])
    BY <2>2, EmptyPlan DEF Frees
  <2>. QED
    BY <1>1, <1>2, <2>2, <2>3, OneMoves
<1>4. ASSUME NEW j \in Jobs, NEW op \in {"found", "enrol", "stamp", "left", "close"} \cup HullOps,
             Due(j, op), Done(j), listed' = listed
      PROVE  Handed'
  <2>1. op \in RollOps \cup HullOps /\ op \notin {"list", "release"}
    BY DEF RollOps, HullOps
  <2>2. PICK s, q : s = Head(plans[j]) /\ q = Tail(plans[j])
    OBVIOUS
  <2>3. s.op = op /\ Statements(plans[j]) = {s} \cup Statements(q)
    BY <1>4, <2>1, <2>2, Pops
  <2>4. Frees(plans[j]) => Frees(q)
    BY <2>1, <2>3 DEF Frees
  <2>5. plans' = [plans EXCEPT ![j] = q]
    BY <1>4, <2>2 DEF Done
  <2>. QED
    BY <1>1, <1>4, <2>4, <2>5, OneMoves DEF Handed
<1>5. ASSUME NEW j \in Jobs, Left(j) PROVE Handed'
  <2>1. PICK s : s = Head(plans[j])
    OBVIOUS
  <2>2. PICK x \in s.who :
          /\ Due(j, "left") /\ listed' = listed
          /\ IF s.who = {x} THEN Done(j) ELSE plans' = [plans EXCEPT ![j][1].who = @ \ {x}]
    BY <1>5, <2>1 DEF Left, Settled
  <2>3. CASE s.who = {x}
    BY <1>4, <2>2, <2>3
  <2>4. CASE s.who /= {x}
    <3>1. /\ plans[j] \in Seq(Free) /\ plans[j] /= << >> /\ s \in Free /\ s.op = "left"
          /\ Tail(plans[j]) \in Seq(Free)
          /\ Statements(plans[j]) = {s} \cup Statements(Tail(plans[j]))
      BY <2>1, <2>2, Pops, DueFree DEF RollOps
    <3>2. PICK t, rest : t = [s EXCEPT !.who = @ \ {x}] /\ rest = Tail(plans[j])
      OBVIOUS
    <3>3. t \in Free /\ t.op = "left"
      BY <3>1, <3>2 DEF Free, Statement, RollOps, HullOps
    <3>4. PICK q : q = [plans[j] EXCEPT ![1] = t]
      OBVIOUS
    <3>5. plans' = [plans EXCEPT ![j] = q]
      BY <2>1, <2>2, <2>4, <3>1, <3>2, <3>4
    <3>6. q \in Seq(Free) /\ q /= << >> /\ Head(q) = t /\ Tail(q) = rest
      BY <3>1, <3>2, <3>3, <3>4
    <3>7. Statements(q) = {t} \cup Statements(rest)
      BY <3>6, HeadFirst
    <3>8. Frees(plans[j]) => Frees(q)
      BY <3>1, <3>2, <3>3, <3>7 DEF Frees
    <3>. QED
      BY <1>1, <2>2, <3>5, <3>8, OneMoves DEF Handed
  <2>. QED
    BY <2>3, <2>4
<1>6. ASSUME NEW j \in Jobs, List(j) PROVE Handed'
  <2>1. PICK s, q : s = Head(plans[j]) /\ q = Tail(plans[j])
    OBVIOUS
  <2>2. Due(j, "list") /\ plans' = [plans EXCEPT ![j] = q]
        /\ \E X : listed' = [listed EXCEPT ![j] = X]
    BY <1>6, <2>1 DEF List, Done
  <2>3. s.op = "list" /\ Follows(s, Statements(q))
    BY <2>1, <2>2, Pops DEF RollOps
  <2>4. Frees(q)
    BY <2>3 DEF Follows, FollowsOther, Frees
  <2>5. \A k \in Jobs \ {j} : listed'[k] = listed[k]
    BY <2>2 DEF Noted
  <2>. QED
    BY <1>1, <2>2, <2>4, <2>5, OneMoves, ZenonT(60)
<1>7. ASSUME NEW j \in Jobs, Release(j) \/ EndEarly(j) PROVE Handed'
  <2>1. PICK q : plans' = [plans EXCEPT ![j] = q]
    BY <1>7 DEF Release, EndEarly, Done, Quit
  <2>2. listed' = [listed EXCEPT ![j] = {}]
    BY <1>7 DEF Release, EndEarly
  <2>3. \A k \in Jobs : listed'[k] = IF k = j THEN {} ELSE listed[k]
    BY <2>2 DEF Noted
  <2>. QED
    BY <1>1, <2>1, <2>3, OneMoves
<1>8. ASSUME NEW j \in Jobs, Found(j) \/ Enrol(j) \/ Stamp(j) \/ Close(j) PROVE Handed'
  <2>1. PICK op \in {"found", "enrol", "stamp", "left", "close"} :
          Due(j, op) /\ Done(j) /\ listed' = listed
    BY <1>8 DEF Found, Enrol, Stamp, Close, Settled
  <2>. QED
    BY <1>4, <2>1
<1>9. ASSUME NEW j \in Jobs, Claim(j) \/ Unlink(j) \/ Scrap(j) \/ Destroy(j) PROVE Handed'
  <2>1. PICK op \in HullOps : Due(j, op) /\ Done(j) /\ listed' = listed
    BY <1>9 DEF Claim, Unlink, Scrap, Destroy, Settled, HullOps
  <2>. QED
    BY <1>4, <2>1
<1>10. ASSUME NEW j \in Jobs,
              Lock(j) \/ Count(j) \/ Build(j) \/ Link(j) \/ Unlock(j) \/ Unclaim(j)
       PROVE  Handed'
  <2>1. listed' = listed
    BY <1>10, SameList DEF ShipStep
  <2>2. PICK p \in Players, c \in Corps : Waiting(plans[j], p, c) \/ Locking(plans[j], p, c)
    <3>1. PICK op \in {"lock", "count", "build", "link", "unlock", "unclaim"} : Due(j, op)
      BY <1>10 DEF Lock, Count, Build, Link, Unlock, Unclaim
    <3>2. Shaped(plans[j]) /\ Opens(plans[j], op)
      BY <3>1, DueOpens DEF Inv, TypeOK
    <3>3. plans[j] \notin Seq(Free)
      <4>1. ASSUME plans[j] \in Seq(Free) PROVE FALSE
        <5>1. plans[j][1] \in Free
          BY <3>2, <4>1 DEF Opens
        <5>. QED
          BY <3>2, <5>1 DEF Opens, Free, Statement, RollOps, HullOps
      <4>. QED
        BY <4>1
    <3>. QED
      BY <3>2, <3>3, SMTT(40) DEF Shaped
  <2>3. Silent(plans[j])
    BY <2>2, LockedSilent
  <2>4. listed[j] = {}
    BY <1>2, <2>3 DEF Silent, Frees, RollOps
  <2>5. \A k \in Jobs \ {j} : plans'[k] = plans[k]
    <3>1. PICK q : plans' = [plans EXCEPT ![j] = q]
      BY <1>10 DEF Lock, Count, Build, Link, Unlock, Unclaim, Done, Quit
    <3>. QED
      BY <3>1, OneMoves, SMTT(40)
  <2>. QED
    BY <1>1, <2>1, <2>4, <2>5
<1>11. CASE UNCHANGED vars
  <2>1. listed' = listed /\ plans' = plans
    BY <1>11 DEF vars
  <2>. QED
    BY <2>1 DEF Handed, Frees, Statements
<1>. QED
  BY <1>3, <1>5, <1>6, <1>7, <1>8, <1>9, <1>10, <1>11 DEF Next, RollStep, ShipStep

LEMMA DockedStep ==
  ASSUME Inv, Inv', Noted, Rolls, Handed, Docked, [Next]_vars
  PROVE  Docked'
<1>0. AllOrderly /\ Founders
  BY DEF Rolls
<1>1. ASSUME NEW j \in Jobs, AskStep(j) PROVE Docked'
  <2>1. PICK q : Ask(j, q) /\ Together(q)
    BY <1>0, <1>1, AllAsk
  <2>. QED
    BY <2>1, AskDocked
<1>2. ASSUME NEW j \in Jobs, RollStep(j) PROVE Docked'
  BY <1>0, <1>2, RollDocked
<1>3. ASSUME NEW j \in Jobs, ShipStep(j) PROVE Docked'
  BY <1>0, <1>3, ShipDocked
<1>4. ASSUME NEW j \in Jobs, EndEarly(j) PROVE Docked'
  BY <1>4, EndDocked
<1>5. CASE UNCHANGED vars
  <2>1. ships' = ships /\ plans' = plans /\ corps' = corps /\ UNCHANGED <<listed, crossed>>
    BY <1>5 DEF vars, rows
  <2>2. Wrecks' /\ NewCorps' /\ (Registered => Registered')
    BY <2>1, NextParts DEF Docked, Wrecks, NewCorps, Registered
  <2>3. NotLater
    BY <2>1 DEF NotLater
  <2>4. Given => Given'
    BY <2>1, <2>3, LateKept, GivenKept
  <2>. QED
    BY <2>1, <2>2, <2>4 DEF Docked
<1>. QED
  BY <1>1, <1>2, <1>3, <1>4, <1>5 DEF Next

LEMMA DockedAtRest ==
  ASSUME Handed, Docked
  PROVE  NothingOrphaned
<1>. SUFFICES ASSUME Resting, ~crossed, NEW c \in Corps, corps[c].gone,
                     NEW h \in Hulls, ships[h].live, ships[h].corp = c
              PROVE  FALSE
  BY DEF NothingOrphaned
<1>1. \A j \in Jobs : Idle(plans[j])
  BY IdleEnd DEF Resting
<1>2. Late(c)
  BY LateIs
<1>3. ships[h].link /= c
  <2>1. \A k \in Jobs : listed[k] = {}
    <3>1. \A k \in Jobs : ~Frees(plans[k])
      BY EmptyPlan DEF Resting, Frees
    <3>. QED
      BY <3>1 DEF Handed
  <2>. QED
    BY <1>2, <2>1 DEF Docked, Given
<1>4. ships[h].link = c
  BY <1>1, NoneAssumption DEF Docked, Registered, Idle, Mute
<1>. QED
  BY <1>3, <1>4

(* A corporation that is disbanded owns no ship that flies: every ship is  *)
(* registered by the time the disbanding lists those it will release, or   *)
(* is about to be scrapped, and none that is listed is missed by the       *)
(* release, however many calls come between the two. Excepted is a ship    *)
(* that is registered after the listing, and a call that ended early.      *)
THEOREM NoneIsOrphaned == Spec => []NothingOrphaned
<1>1. Init => Rolls /\ Handed /\ Docked
  BY StartsRolls, StartsDocked, StartsListed DEF Handed
<1>2. Inv /\ Inv' /\ Noted /\ Rolls /\ Handed /\ Docked /\ [Next]_vars =>
        Rolls' /\ Handed' /\ Docked'
  BY RollsStep, HandedStep, DockedStep DEF Rolls
<1>3. Handed /\ Docked => NothingOrphaned
  BY DockedAtRest
<1>4. Spec => []Inv /\ []Noted
  BY Invariant
<1>. QED
  BY <1>1, <1>2, <1>3, <1>4, PTL DEF Spec
=============================================================================
