---------------------------- MODULE QuestsProofs ----------------------------
(***************************************************************************)
(* Proofs about quests, for any number of sessions, events, steps and      *)
(* claims, any types and filters, targets and limit of a catch-up: counts  *)
(* are the events entered, nothing is missed, a quest does not go back and *)
(* a reward is paid once.                                                  *)
(*                                                                         *)
(* None of it is inductive: what a commit does is decided by what its      *)
(* session has read and drafted. Sound says what a draft and the locks on  *)
(* its rows have to do with the tables; Tallied that what is drafted for a *)
(* step is what its row and its events will be; InStep and Noted do the    *)
(* same for the quest's step and for the events still to be evaluated.     *)
(***************************************************************************)
EXTENDS Quests, Sums, SequenceTheorems, TLAPS

Row == [step : Steps, val : Nat, done : BOOLEAN, claimed : BOOLEAN]
Tables == UNION {[D -> Row] : D \in SUBSET Nat}
Quest == {Unassigned} \cup [status : {"active", "completed"}, step : Steps]
Pairs == Nat \X Steps
Draft == [quest : Quest, rows : Tables, applied : SUBSET Pairs]
Txn == [pc : {"idle", "look", "count", "advance", "grant"}, event : Nat, todo : Seq(Pairs),
        read : [id : Nat, step : Nat, val : Nat], draft : Draft]

TypeOK ==
  /\ events \in Seq(Kinds) /\ committed \in SUBSET Nat /\ quest \in Quest
  /\ rows \in Seq(Row) /\ applied \in SUBSET Pairs /\ txns \in [Txns -> Txn]
  /\ paid \in [Steps -> Nat] /\ stale \in SUBSET Steps /\ skipped \in SUBSET Nat
  /\ before \in [Steps -> [log : SUBSET Nat, flying : SUBSET Nat]]

-----------------------------------------------------------------------------
(* The invariants. *)

Mine(t) == txns[t].draft.rows
Holds(t) == txns[t].draft.quest # Unassigned
ToGo(t) == ToSet(txns[t].todo)

\* A row is locked by one session, and the quest's; only who has the quest's
\* adds rows, and their ids follow those in the table.
Locks ==
  /\ \A t, u \in Txns : t # u => DOMAIN Mine(t) \cap DOMAIN Mine(u) = {}
  /\ \A t, u \in Txns : Holds(t) /\ Holds(u) => t = u
  /\ \A t \in Txns : ~Holds(t) => DOMAIN Mine(t) \subseteq DOMAIN rows
  /\ \A t \in Txns : RowsOf(t) \in Seq(Row)
  /\ quest = Unassigned => rows = << >>

\* A draft of a row keeps what another session may rely on.
KeptBy(t) ==
  \A r \in DOMAIN Mine(t) :
    IF r \in DOMAIN rows
    THEN /\ Mine(t)[r].step = rows[r].step /\ Mine(t)[r].claimed = rows[r].claimed
         /\ rows[r].done => Mine(t)[r].done
    ELSE ~Mine(t)[r].claimed
Kept == \A t \in Txns : KeptBy(t)

\* What a session has in hand.
HeldBy(t) ==
  LET x == txns[t] IN
  /\ x.pc = "idle" => x = Resting
  /\ x.pc \in {"count", "advance"} =>
       /\ x.read.id \in DOMAIN RowsOf(t) /\ RowsOf(t)[x.read.id].step = x.read.step
       /\ x.todo # << >> /\ Head(x.todo)[2] = x.read.step /\ Head(x.todo) \in x.draft.applied
  /\ x.pc = "advance" => x.read.id \in DOMAIN Mine(t) /\ Mine(t)[x.read.id].done
  /\ x.pc = "grant" =>
       /\ x = [Resting EXCEPT !.pc = "grant", !.read = x.read,
                              !.draft = [NoDraft EXCEPT !.rows = Put(<< >>, x.read.id, rows[x.read.id])]]
       /\ x.read.id \in DOMAIN rows /\ rows[x.read.id].step = x.read.step
       /\ rows[x.read.id].done /\ ~rows[x.read.id].claimed
Held == \A t \in Txns : HeldBy(t)

\* Whose event is whose.
LoggedBy(t) ==
  /\ txns[t].event # 0 => txns[t].event \in DOMAIN events \ committed
  /\ \A p \in ToGo(t) \cup txns[t].draft.applied : p[1] \in LogOf(t)
  /\ \A p \in ToGo(t) : Holds(t) \/ p[1] = txns[t].event
Logged ==
  /\ committed \subseteq DOMAIN events
  /\ \A s \in Steps : before[s].log \subseteq DOMAIN events
  /\ \A p \in applied : p[1] \in committed
  /\ \A t \in Txns : LoggedBy(t)
  /\ \A t, u \in Txns : txns[u].event = txns[t].event /\ txns[t].event # 0 => u = t

\* A claim that was paid is marked, and was due.
Paid ==
  \A s \in Steps :
    /\ paid[s] = Cardinality({r \in RowsFor(s) : rows[r].claimed})
    /\ \A r \in RowsFor(s) : rows[r].claimed => rows[r].done

Sound == Locks /\ Kept /\ Held /\ Logged /\ Paid

\* The rows of a step, in the tables and in what a session sees.
Views == {RowsOf(t) : t \in Txns} \cup {rows}
In(V, s) == {r \in DOMAIN V : V[r].step = s}
Entered(s) == {e \in Nat : <<e, s>> \in applied}
Drafted(t, s) == {e \in Nat : <<e, s>> \in txns[t].draft.applied}
Fills(row, s) == row.val <= Target[s] /\ (row.done <=> row.val = Target[s])
Counting(t, s) == txns[t].pc = "count" /\ txns[t].read.step = s

\* A step has one row, and is reached through the one before.
OneRow(s) == \A V, W \in Views : \A r \in In(V, s), q \in In(W, s) : r = q
Reached(s) ==
  s \in Steps /\ s + 1 \in Steps =>
    \A V \in Views : In(V, s + 1) # {} => \E r \in In(V, s) : V[r].done

\* The row says how many events are entered.
Told(s) ==
  /\ In(rows, s) = {} => Entered(s) = {}
  /\ \A r \in In(rows, s) : rows[r].val = Cardinality(Entered(s)) /\ Fills(rows[r], s)

\* So does its draft, but for an event that is entered and not yet counted.
TellingBy(t, s) ==
  LET both == Entered(s) \cup Drafted(t, s) IN
  /\ \A r \in In(Mine(t), s) :
       /\ Fills(Mine(t)[r], s)
       /\ Counting(t, s) => /\ Mine(t)[r].val + 1 = Cardinality(both)
                            /\ ~Mine(t)[r].done /\ txns[t].read.val = Mine(t)[r].val
       /\ ~Counting(t, s) => Mine(t)[r].val = Cardinality(both)
  /\ In(Mine(t), s) = {} =>
       /\ Counting(t, s) => /\ Drafted(t, s) = {txns[t].event} /\ txns[t].event # 0
                            /\ txns[t].read.val <= rows[txns[t].read.id].val
       /\ ~Counting(t, s) => Drafted(t, s) = {}

\* Who has moved the quest to a step has made its row; who is about to move it
\* from a step is the first.
MovingBy(t, s) ==
  /\ txns[t].draft.quest = [status |-> "active", step |-> s] =>
       \E r \in In(Mine(t), s) : r \notin DOMAIN rows
  /\ txns[t].pc = "advance" /\ txns[t].read.step = s =>
       /\ txns[t].read.id \in DOMAIN rows => ~rows[txns[t].read.id].done
       /\ \A V \in Views : In(V, s + 1) = {}

Tally(s) ==
  /\ OneRow(s) /\ Reached(s) /\ Told(s)
  /\ \A t \in Txns : TellingBy(t, s) /\ MovingBy(t, s)
Tallied == \A s \in Steps : Undisturbed(s) => Tally(s)

\* The rows before the quest's step are complete, and those of its step are not,
\* unless the quest is about to move.
Fits(Q, V, full) ==
  /\ Q.status = "active" =>
       /\ In(V, Q.step) # {}
       /\ \A r \in DOMAIN V : V[r].step <= Q.step /\ (V[r].done <=> full \/ V[r].step < Q.step)
  /\ Q.status = "completed" => \A r \in DOMAIN V : V[r].done

LeadsBy(t) ==
  LET x == txns[t] IN
  /\ Holds(t) =>
       /\ Fits(x.draft.quest, RowsOf(t), x.pc = "advance")
       /\ x.pc = "advance" => x.draft.quest = [status |-> "active", step |-> x.read.step]
       /\ quest.status # "completed" /\ quest.step <= x.draft.quest.step
  /\ ~Holds(t) /\ x.pc \in {"look", "count"} => \A r \in DOMAIN Mine(t) : ~Mine(t)[r].done
InStep == stale = {} => Fits(quest, rows, FALSE) /\ \A t \in Txns : LeadsBy(t)

Beyond(e, s) ==
  /\ e \in before[s].log
  /\ Cardinality({d \in before[s].log : d <= e /\ events[d] \in Heard[s]}) > Limit

\* An event that the current step asks for has been entered, is still to be
\* evaluated, or is excepted: those in the log, the one a session records, and
\* those that a step somebody is moving to has to catch up with.
LogNoted(s) ==
  \A e \in committed :
    \/ events[e] \notin Passing[s] \/ <<e, s>> \in applied
    \/ e \in before[s].flying \/ Beyond(e, s) \/ e \in skipped
EventNoted(t, s) ==
  ~Holds(t) /\ txns[t].event # 0 =>
    LET e == txns[t].event IN
    \/ events[e] \notin Passing[s] \/ <<e, s>> \in txns[t].draft.applied \cup ToGo(t)
    \/ e \in before[s].flying \/ e \in skipped
CatchesUp(t, s) ==
  /\ before[s].log \subseteq LogOf(t)
  /\ \A e \in before[s].log :
       \/ events[e] \notin Passing[s] \/ Beyond(e, s)
       \/ <<e, s>> \in applied \cup txns[t].draft.applied \cup ToGo(t)
Noted ==
  stale = {} =>
    /\ quest.status = "active" =>
         LogNoted(quest.step) /\ \A t \in Txns : EventNoted(t, quest.step)
    /\ \A t \in Txns :
         txns[t].draft.quest.status = "active" => CatchesUp(t, txns[t].draft.quest.step)

-----------------------------------------------------------------------------
(* Tables, drafts and lists.                                               *)

LEMMA OverRow ==
  ASSUME NEW f, NEW g
  PROVE  /\ DOMAIN Over(f, g) = DOMAIN f \cup DOMAIN g
         /\ \A x \in DOMAIN f : Over(f, g)[x] = f[x]
         /\ \A x \in DOMAIN g \ DOMAIN f : Over(f, g)[x] = g[x]
BY DEF Over

LEMMA PutRow ==
  ASSUME NEW f, NEW r, NEW row
  PROVE  /\ DOMAIN Put(f, r, row) = DOMAIN f \cup {r}
         /\ Put(f, r, row)[r] = row
         /\ \A x \in DOMAIN f \ {r} : Put(f, r, row)[x] = f[x]
BY DEF Put

\* A row that is written is seen; the others are as they were.
LEMMA PutOver ==
  ASSUME NEW f, NEW g, NEW r, NEW row
  PROVE  /\ DOMAIN Over(Put(f, r, row), g) = DOMAIN Over(f, g) \cup {r}
         /\ Over(Put(f, r, row), g)[r] = row
         /\ \A x \in DOMAIN Over(f, g) \ {r} : Over(Put(f, r, row), g)[x] = Over(f, g)[x]
BY DEF Put, Over

\* A table is a list of rows when its ids are the first ones.
LEMMA Listing ==
  ASSUME NEW S, NEW f, NEW n \in Nat, f = [x \in 1..n |-> f[x]], \A x \in 1..n : f[x] \in S
  PROVE  f \in Seq(S) /\ Len(f) = n
<1>1. f \in [1..n -> S]
  BY f \in [DOMAIN f -> S]
<1>. QED
  BY <1>1

LEMMA NothingOver ==
  ASSUME NEW S, NEW g \in Seq(S)
  PROVE  Over(<< >>, g) = g
BY DEF Over

LEMMA TypedTable ==
  ASSUME NEW f \in Tables, NEW r \in Nat, NEW row \in Row
  PROVE  Put(f, r, row) \in Tables
<1>1. PICK D \in SUBSET Nat : f \in [D -> Row]
  BY DEF Tables
<1>2. D \cup {r} \in SUBSET Nat /\ Put(f, r, row) \in [D \cup {r} -> Row]
  BY <1>1 DEF Put
<1>. QED
  BY <1>2 DEF Tables

LEMMA TableFacts ==
  ASSUME NEW f \in Tables
  PROVE  DOMAIN f \subseteq Nat /\ \A r \in DOMAIN f : f[r] \in Row
BY DEF Tables

\* A row added to a list of rows after the last.
LEMMA AddedRow ==
  ASSUME NEW S, NEW f, NEW g, Over(f, g) \in Seq(S), NEW row \in S,
         NEW r, r = Len(Over(f, g)) + 1
  PROVE  /\ Over(Put(f, r, row), g) \in Seq(S)
         /\ r \in Nat /\ r \notin DOMAIN Over(f, g)
<1>. DEFINE v == Over(f, g)
            w == Over(Put(f, r, row), g)
<1>1. v \in Seq(S) /\ DOMAIN v = 1..Len(v) /\ Len(v) \in Nat /\ \A x \in DOMAIN v : v[x] \in S
  OBVIOUS
<1>2. DOMAIN w = DOMAIN v \cup {r} /\ w[r] = row /\ \A x \in DOMAIN v \ {r} : w[x] = v[x]
  BY DEF Put, Over
<1>3. w = [x \in DOMAIN w |-> w[x]]
  BY DEF Over
<1>. HIDE DEF v, w
<1>4. DOMAIN w = 1..r /\ r \in Nat /\ \A x \in DOMAIN w : w[x] \in S
  BY <1>1, <1>2 DEF v
<1>5. w \in Seq(S)
  BY <1>3, <1>4, Listing
<1>. QED
  BY <1>1, <1>4, <1>5 DEF v, w

\* A row of a list of rows that is written again.
LEMMA WrittenRow ==
  ASSUME NEW S, NEW f, NEW g, Over(f, g) \in Seq(S), NEW row \in S, NEW r \in DOMAIN Over(f, g)
  PROVE  Over(Put(f, r, row), g) \in Seq(S)
<1>. DEFINE v == Over(f, g)
            w == Over(Put(f, r, row), g)
<1>1. v \in Seq(S) /\ DOMAIN v = 1..Len(v) /\ Len(v) \in Nat /\ \A x \in DOMAIN v : v[x] \in S
  OBVIOUS
<1>2. DOMAIN w = DOMAIN v \cup {r} /\ w[r] = row /\ \A x \in DOMAIN v \ {r} : w[x] = v[x]
  BY DEF Put, Over
<1>3. w = [x \in DOMAIN w |-> w[x]]
  BY DEF Over
<1>. HIDE DEF v, w
<1>4. DOMAIN w = 1..Len(v) /\ \A x \in DOMAIN w : w[x] \in S
  BY <1>1, <1>2 DEF v
<1>5. w \in Seq(S)
  BY <1>1, <1>3, <1>4, Listing
<1>. QED
  BY <1>5 DEF w

LEMMA NoItems == ToSet(<< >>) = {}
BY DEF ToSet

\* Items of a list that is appended to, or loses its head.
LEMMA ListItems ==
  ASSUME NEW S, NEW s \in Seq(S)
  PROVE  /\ ToSet(s) \subseteq S
         /\ ToSet(<< >>) = {}
         /\ s # << >> => /\ Head(s) \in ToSet(s) /\ Head(s) \in S /\ Tail(s) \in Seq(S)
                         /\ ToSet(Tail(s)) \subseteq ToSet(s)
                         /\ ToSet(s) \subseteq ToSet(Tail(s)) \cup {Head(s)}
         /\ \A u \in Seq(S) : s \o u \in Seq(S) /\ ToSet(s \o u) = ToSet(s) \cup ToSet(u)
<1>1. ToSet(s) \subseteq S /\ ToSet(<< >>) = {}
  BY DEF ToSet
<1>2. ASSUME s # << >>
      PROVE  /\ Head(s) \in ToSet(s) /\ Head(s) \in S /\ Tail(s) \in Seq(S)
             /\ ToSet(Tail(s)) \subseteq ToSet(s)
             /\ ToSet(s) \subseteq ToSet(Tail(s)) \cup {Head(s)}
  <2>1. /\ Head(s) = s[1] /\ 1 \in DOMAIN s /\ Tail(s) \in Seq(S) /\ Len(Tail(s)) = Len(s) - 1
        /\ \A i \in 1..(Len(s) - 1) : Tail(s)[i] = s[i + 1]
        /\ DOMAIN Tail(s) = 1..(Len(s) - 1) /\ DOMAIN s = 1..Len(s) /\ Len(s) \in Nat
    BY <1>2, HeadTailProperties
  <2>2. ASSUME NEW i \in DOMAIN Tail(s) PROVE Tail(s)[i] \in ToSet(s)
    <3>1. i + 1 \in DOMAIN s /\ Tail(s)[i] = s[i + 1]
      BY <2>1
    <3>. QED
      BY <3>1 DEF ToSet
  <2>3. ASSUME NEW i \in DOMAIN s, i # 1 PROVE s[i] \in ToSet(Tail(s))
    <3>1. i - 1 \in DOMAIN Tail(s) /\ Tail(s)[i - 1] = s[i]
      BY <2>1, <2>3
    <3>. QED
      BY <3>1 DEF ToSet
  <2>. QED
    BY <2>1, <2>2, <2>3, SMTT(40) DEF ToSet
<1>3. ASSUME NEW u \in Seq(S)
      PROVE  s \o u \in Seq(S) /\ ToSet(s \o u) = ToSet(s) \cup ToSet(u)
  <2>1. /\ s \o u \in Seq(S) /\ DOMAIN (s \o u) = 1..(Len(s) + Len(u))
        /\ DOMAIN s = 1..Len(s) /\ DOMAIN u = 1..Len(u) /\ Len(s) \in Nat /\ Len(u) \in Nat
        /\ \A i \in 1..(Len(s) + Len(u)) :
             (s \o u)[i] = IF i <= Len(s) THEN s[i] ELSE u[i - Len(s)]
    OBVIOUS
  <2>2. ASSUME NEW i \in DOMAIN s PROVE s[i] \in ToSet(s \o u)
    <3>1. i \in DOMAIN (s \o u) /\ (s \o u)[i] = s[i]
      BY <2>1
    <3>. QED
      BY <3>1 DEF ToSet
  <2>3. ASSUME NEW i \in DOMAIN u PROVE u[i] \in ToSet(s \o u)
    <3>1. Len(s) + i \in DOMAIN (s \o u) /\ (s \o u)[Len(s) + i] = u[i]
      BY <2>1
    <3>. QED
      BY <3>1 DEF ToSet
  <2>4. ASSUME NEW i \in DOMAIN (s \o u) PROVE (s \o u)[i] \in ToSet(s) \cup ToSet(u)
    BY <2>1 DEF ToSet
  <2>. QED
    BY <2>1, <2>2, <2>3, <2>4 DEF ToSet
<1>. QED
  BY <1>1, <1>2, <1>3

-----------------------------------------------------------------------------
(* Evaluations in their order, and what a catch-up covers.                 *)

LEMMA Wider ==
  ASSUME NEW a \in Nat, NEW b \in Nat, a < b, NEW n \in Nat
  PROVE  a * n + n <= b * n
<1>1. PICK c \in Nat : b = a + 1 + c
  <2>1. b - a - 1 \in Nat /\ b = a + 1 + (b - a - 1)
    OBVIOUS
  <2>. QED
    BY <2>1
<1>2. b * n = a * n + n + c * n /\ a * n \in Nat /\ c * n \in Nat
  BY <1>1
<1>. QED
  BY <1>2

\* The pairs can be arranged, and no pair is left out.
LEMMA ArrangedItems ==
  ASSUME NEW S \in SUBSET Pairs, IsFiniteSet(S)
  PROVE  Arranged(S) \in Seq(S) /\ Arranged(S) \in Seq(Pairs) /\ ToSet(Arranged(S)) = S
<1>. DEFINE n == Final + 1
            f == [p \in S |-> p[1] * n + p[2]]
            c == Cardinality(S)
<1>1. n \in Nat /\ c \in Nat /\ \A p \in S : p = <<p[1], p[2]>> /\ p[1] \in Nat /\ p[2] \in Nat /\ p[2] < n
  BY FS_CardinalityType, QuestAssumption DEF Pairs, Steps, Final
<1>. HIDE DEF n, c
<1>2. ASSUME NEW p \in S PROVE f[p] = p[1] * n + p[2] /\ p[1] * n \in Nat
  BY <1>1
<1>. HIDE DEF f
<1>3. ASSUME NEW p \in S, NEW q \in S, p[1] < q[1] PROVE f[p] < f[q]
  <2>1. p[1] * n + n <= q[1] * n
    BY <1>1, <1>3, Wider
  <2>. QED
    BY <1>1, <1>2, <2>1
<1>4. \A p, q \in S : f[p] < f[q] => Earlier(p, q)
  <2>1. SUFFICES ASSUME NEW p \in S, NEW q \in S, f[p] < f[q] PROVE Earlier(p, q)
    OBVIOUS
  <2>2. ~(q[1] < p[1])
    BY <1>1, <1>2, <1>3, <2>1
  <2>3. CASE p[1] < q[1]
    BY <2>3 DEF Earlier
  <2>4. CASE p[1] = q[1]
    BY <1>1, <1>2, <2>1, <2>4 DEF Earlier
  <2>. QED
    BY <1>1, <2>2, <2>3, <2>4
<1>5. \A p, q \in S : f[p] = f[q] => p = q
  <2>1. SUFFICES ASSUME NEW p \in S, NEW q \in S, f[p] = f[q] PROVE p = q
    OBVIOUS
  <2>2. f[p] \in Nat /\ p[1] = q[1]
    BY <1>1, <1>2, <1>3, <2>1
  <2>3. p[2] = q[2]
    BY <1>1, <1>2, <2>1, <2>2
  <2>. QED
    BY <1>1, <2>2, <2>3
<1>6. \A p \in S : f[p] \in Int
  BY <1>1, <1>2
<1>7. PICK q \in [1..c -> S] : Rises(q, f)
  BY <1>5, <1>6, Ranked DEF c
<1>8. \A i, j \in DOMAIN q : i < j => Earlier(q[i], q[j])
  BY <1>4, <1>7 DEF Rises
<1>. DEFINE a == Arranged(S)
<1>9. a \in [1..c -> S] /\ \A i, j \in DOMAIN a : i < j => Earlier(a[i], a[j])
  BY <1>7, <1>8 DEF Arranged, c
<1>. HIDE DEF a
<1>10. \A i, j \in DOMAIN a : a[i] = a[j] => i = j
  <2>1. SUFFICES ASSUME NEW i \in DOMAIN a, NEW j \in DOMAIN a, a[i] = a[j], i < j PROVE FALSE
    BY <1>1, <1>9
  <2>. QED
    BY <1>1, <1>9, <2>1, SMTT(40) DEF Earlier
<1>11. a \in Seq(S) /\ {a[i] : i \in DOMAIN a} = S
  BY <1>9, <1>10, ListsAll DEF c
<1>. QED
  BY <1>11 DEF a, ToSet

LEMMA StepsAreFinite ==
  /\ Final \in Nat /\ Steps \subseteq Nat /\ IsFiniteSet(Steps) /\ 1 \in Steps
  /\ \A s \in Steps : s < Final => s + 1 \in Steps
  /\ \A s \in Steps : s \in Nat /\ s > 0 /\ Target[s] \in Nat /\ Target[s] > 0
  /\ \A s \in Steps : Passing[s] \subseteq Heard[s]
<1>1. Final \in Nat /\ Final > 0
  BY QuestAssumption DEF Final
<1>2. IsFiniteSet(Steps)
  BY <1>1, FS_Interval DEF Steps
<1>. QED
  BY <1>1, <1>2, QuestAssumption DEF Steps

\* What a new event has to be evaluated for.
LEMMA SubscribedItems ==
  ASSUME NEW e \in Nat, NEW kind \in Kinds
  PROVE  /\ Subscribed(e, kind) \in Seq(Pairs)
         /\ \A p \in ToSet(Subscribed(e, kind)) : p[1] = e
         /\ \A s \in Steps : kind \in Heard[s] => <<e, s>> \in ToSet(Subscribed(e, kind))
<1>. DEFINE S == {p \in {e} \X Steps : kind \in Heard[p[2]]}
<1>1. IsFiniteSet({e} \X Steps)
  BY FS_Singleton, FS_Product, StepsAreFinite
<1>2. IsFiniteSet(S) /\ S \in SUBSET Pairs
  BY <1>1, FS_Subset DEF Pairs
<1>3. Arranged(S) \in Seq(Pairs) /\ ToSet(Arranged(S)) = S
  BY <1>2, ArrangedItems
<1>. QED
  BY <1>3 DEF Subscribed

\* What a catch-up evaluates: all that the step asks for, up to the limit.
LEMMA CatchUpItems ==
  ASSUME NEW s \in Steps, NEW log \in SUBSET Nat, IsFiniteSet(log)
  PROVE  /\ CatchUp(s, log) \in Seq(Pairs)
         /\ \A p \in ToSet(CatchUp(s, log)) : p[1] \in log
         /\ \A e \in log : events[e] \in Heard[s] =>
              \/ <<e, s>> \in ToSet(CatchUp(s, log))
              \/ Cardinality({d \in log : d <= e /\ events[d] \in Heard[s]}) > Limit
<1>. DEFINE asked == {e \in log : events[e] \in Heard[s]}
            oldest == {e \in asked : Cardinality({d \in asked : d <= e}) <= Limit}
            S == {p \in oldest \X Steps : events[p[1]] \in Heard[p[2]]}
<1>1. IsFiniteSet(oldest) /\ IsFiniteSet(oldest \X Steps)
  <2>1. IsFiniteSet(oldest)
    BY FS_Subset
  <2>. QED
    BY <2>1, FS_Product, StepsAreFinite
<1>2. IsFiniteSet(S) /\ S \in SUBSET Pairs
  BY <1>1, FS_Subset DEF Pairs
<1>3. Arranged(S) \in Seq(Pairs) /\ ToSet(Arranged(S)) = S
  BY <1>2, ArrangedItems
<1>4. CatchUp(s, log) = Arranged(S)
  BY DEF CatchUp
<1>5. ASSUME NEW e \in log, events[e] \in Heard[s], <<e, s>> \notin S
      PROVE  Cardinality({d \in log : d <= e /\ events[d] \in Heard[s]}) > Limit
  <2>1. e \in asked /\ e \notin oldest
    BY <1>5
  <2>2. {d \in asked : d <= e} = {d \in log : d <= e /\ events[d] \in Heard[s]}
    OBVIOUS
  <2>3. IsFiniteSet({d \in asked : d <= e})
    BY FS_Subset
  <2>4. Cardinality({d \in asked : d <= e}) \in Nat
    BY <2>3, FS_CardinalityType
  <2>5. ~(Cardinality({d \in asked : d <= e}) <= Limit) /\ Limit \in Nat
    BY <2>1, QuestAssumption
  <2>. HIDE DEF asked
  <2>6. Cardinality({d \in asked : d <= e}) > Limit
    BY <2>4, <2>5
  <2>. QED
    BY <2>2, <2>6
<1>6. \A p \in S : p[1] \in log
  OBVIOUS
<1>. HIDE DEF S
<1>7. ASSUME NEW e \in log, events[e] \in Heard[s]
      PROVE  \/ <<e, s>> \in ToSet(CatchUp(s, log))
             \/ Cardinality({d \in log : d <= e /\ events[d] \in Heard[s]}) > Limit
  BY <1>3, <1>4, <1>5, <1>7
<1>. QED
  BY <1>3, <1>4, <1>6, <1>7

-----------------------------------------------------------------------------
(* What a session sees, and what its steps leave alone.                    *)

LEMMA TxnFacts ==
  ASSUME TypeOK, NEW t \in Txns
  PROVE  /\ txns[t] \in Txn /\ txns[t].pc \in {"idle", "look", "count", "advance", "grant"}
         /\ txns[t].event \in Nat /\ txns[t].todo \in Seq(Pairs) /\ txns[t].draft \in Draft
         /\ txns[t].read.id \in Nat /\ txns[t].read.step \in Nat /\ txns[t].read.val \in Nat
         /\ Mine(t) \in Tables /\ txns[t].draft.quest \in Quest
         /\ txns[t].draft.applied \subseteq Pairs /\ ToGo(t) \subseteq Pairs
<1>1. txns[t] \in Txn
  BY DEF TypeOK
<1>2. txns[t].todo \in Seq(Pairs) /\ txns[t].draft \in Draft
  BY <1>1 DEF Txn
<1>. QED
  BY <1>1, <1>2, ListItems DEF Txn, Draft, Mine, ToGo

LEMMA ViewFacts ==
  ASSUME NEW t \in Txns
  PROVE  /\ DOMAIN RowsOf(t) = DOMAIN Mine(t) \cup DOMAIN rows
         /\ \A r \in DOMAIN Mine(t) : RowsOf(t)[r] = Mine(t)[r]
         /\ \A r \in DOMAIN rows \ DOMAIN Mine(t) : RowsOf(t)[r] = rows[r]
BY DEF Over, RowsOf, Mine

LEMMA RowFacts ==
  ASSUME TypeOK
  PROVE  /\ rows \in Seq(Row) /\ DOMAIN rows = 1..Len(rows) /\ Len(rows) \in Nat
         /\ DOMAIN events = 1..Len(events) /\ Len(events) \in Nat
         /\ \A r \in DOMAIN rows : /\ rows[r] \in Row /\ rows[r].step \in Steps /\ rows[r].val \in Nat
                                   /\ rows[r].done \in BOOLEAN /\ rows[r].claimed \in BOOLEAN
<1>1. rows \in Seq(Row) /\ events \in Seq(Kinds)
  BY DEF TypeOK
<1>2. \A r \in DOMAIN rows : rows[r] \in Row
  BY <1>1
<1>. QED
  BY <1>1, <1>2 DEF Row

\* Who may add a row adds the next one.
LEMMA NewIdIsNext ==
  ASSUME TypeOK, Locks, NEW t \in Txns, QuestFree(t)
  PROVE  NewId = Len(RowsOf(t)) + 1 /\ NewId \in Nat /\ NewId \notin DOMAIN RowsOf(t)
<1>1. \A u \in Txns \ {t} : DOMAIN txns[u].draft.rows \subseteq DOMAIN rows
  BY DEF QuestFree, Others, Locks, Mine, Holds
<1>2. DOMAIN rows \cup UNION {DOMAIN txns[u].draft.rows : u \in Txns} = DOMAIN RowsOf(t)
  BY <1>1, ViewFacts, ZenonT(60) DEF Mine
<1>3. RowsOf(t) \in Seq(Row) /\ DOMAIN RowsOf(t) = 1..Len(RowsOf(t)) /\ Len(RowsOf(t)) \in Nat
  BY DEF Locks
<1>. DEFINE n == Len(RowsOf(t))
<1>. HIDE DEF n
<1>4. Cardinality(1..n) = n
  BY <1>3, FS_Interval, SMTT(40) DEF n
<1>5. NewId = 1 + Cardinality(1..n)
  BY <1>2, <1>3 DEF NewId, n
<1>. QED
  BY <1>3, <1>4, <1>5 DEF n

\* A step of one session leaves what the others have and see.
LEMMA Frame ==
  ASSUME NEW t \in Txns, \A u \in Txns \ {t} : txns'[u] = txns[u], rows' = rows, quest' = quest
  PROVE  \A u \in Txns \ {t} :
           /\ RowsOf(u)' = RowsOf(u) /\ QuestOf(u)' = QuestOf(u) /\ Mine(u)' = Mine(u)
           /\ (Holds(u)' <=> Holds(u)) /\ ToGo(u)' = ToGo(u)
BY DEF RowsOf, QuestOf, Mine, Holds, ToGo

\* What a step of one session that writes no table has to keep.
LEMMA SoundLocal ==
  ASSUME TypeOK, Sound, NEW t \in Txns, \A u \in Txns \ {t} : txns'[u] = txns[u],
         UNCHANGED <<committed, quest, rows, applied, paid>>,
         \A u \in Txns \ {t} : DOMAIN Mine(t)' \cap DOMAIN Mine(u) = {},
         Holds(t)' => \A u \in Txns \ {t} : ~Holds(u),
         ~Holds(t)' => DOMAIN Mine(t)' \subseteq DOMAIN rows,
         RowsOf(t)' \in Seq(Row),
         KeptBy(t)', HeldBy(t)', LoggedBy(t)',
         DOMAIN events \subseteq DOMAIN events',
         \A s \in Steps : before'[s].log \subseteq DOMAIN events',
         \A u \in Txns \ {t} : txns'[t].event = txns[u].event => txns[u].event = 0
  PROVE  Sound'
<1>1. \A u \in Txns \ {t} :
        /\ RowsOf(u)' = RowsOf(u) /\ Mine(u)' = Mine(u) /\ (Holds(u)' <=> Holds(u)) /\ ToGo(u)' = ToGo(u)
  BY Frame
<1>2. Locks'
  <2>1. ASSUME NEW u \in Txns, NEW w \in Txns, u # w
        PROVE  DOMAIN Mine(u)' \cap DOMAIN Mine(w)' = {}
    BY <1>1, <2>1 DEF Sound, Locks
  <2>2. ASSUME NEW u \in Txns, NEW w \in Txns, Holds(u)', Holds(w)' PROVE u = w
    BY <1>1, <2>2 DEF Sound, Locks
  <2>3. ASSUME NEW u \in Txns
        PROVE  (~Holds(u)' => DOMAIN Mine(u)' \subseteq DOMAIN rows') /\ RowsOf(u)' \in Seq(Row)
    BY <1>1, <2>3 DEF Sound, Locks
  <2>4. quest' = Unassigned => rows' = << >>
    BY DEF Sound, Locks
  <2>. QED
    BY <2>1, <2>2, <2>3, <2>4 DEF Locks
<1>3. Kept'
  <2>1. ASSUME NEW u \in Txns \ {t} PROVE KeptBy(u)'
    <3>1. KeptBy(u)
      BY DEF Sound, Kept
    <3>. QED
      BY <1>1, <3>1 DEF KeptBy
  <2>. QED
    BY <2>1 DEF Kept
<1>4. Held'
  <2>1. ASSUME NEW u \in Txns \ {t} PROVE HeldBy(u)'
    <3>1. HeldBy(u)
      BY DEF Sound, Held
    <3>. QED
      BY <1>1, <3>1 DEF HeldBy
  <2>. QED
    BY <2>1 DEF Held
<1>5. Logged'
  <2>1. ASSUME NEW u \in Txns \ {t} PROVE LoggedBy(u)'
    <3>1. LoggedBy(u)
      BY DEF Sound, Logged
    <3>. QED
      BY <1>1, <3>1 DEF LoggedBy, LogOf
  <2>2. ASSUME NEW u \in Txns, NEW w \in Txns, txns'[u].event = txns'[w].event, txns'[w].event # 0
        PROVE  u = w
    BY <2>2 DEF Sound, Logged
  <2>. QED
    BY <2>1, <2>2 DEF Sound, Logged
<1>6. Paid'
  BY DEF Sound, Paid, RowsFor
<1>. QED
  BY <1>2, <1>3, <1>4, <1>5, <1>6 DEF Sound

LEMMA Written ==
  ASSUME TypeOK, NEW t \in Txns, NEW y \in Txn, txns' = [txns EXCEPT ![t] = y]
  PROVE  /\ txns' \in [Txns -> Txn] /\ txns'[t] = y
         /\ \A u \in Txns \ {t} : txns'[u] = txns[u]
BY DEF TypeOK

\* A session that has nothing in hand.
LEMMA RestingFacts ==
  /\ Resting \in Txn /\ Resting.pc = "idle" /\ Resting.event = 0 /\ Resting.todo = << >>
  /\ Resting.read = NoRow /\ Resting.draft = NoDraft
  /\ NoDraft \in Draft /\ NoDraft.rows = << >> /\ NoDraft.quest = Unassigned /\ NoDraft.applied = {}
  /\ DOMAIN << >> = {} /\ Unassigned \in Quest /\ << >> \in Tables
<1>1. << >> \in Tables
  <2>1. << >> \in [{} -> Row]
    OBVIOUS
  <2>. QED
    BY <2>1 DEF Tables
<1>2. NoDraft \in Draft
  BY <1>1 DEF NoDraft, Draft, Quest
<1>3. NoRow \in [id : Nat, step : Nat, val : Nat] /\ << >> \in Seq(Pairs)
  BY DEF NoRow
<1>4. Resting \in Txn
  BY <1>2, <1>3 DEF Resting, Txn
<1>. QED
  BY <1>1, <1>2, <1>4 DEF Resting, NoDraft, Quest

LEMMA InitSound == Init => TypeOK /\ Sound
<1>. SUFFICES ASSUME Init PROVE TypeOK /\ Sound
  OBVIOUS
<1>1. /\ events = << >> /\ committed = {} /\ quest = Unassigned /\ rows = << >> /\ applied = {}
      /\ \A t \in Txns : txns[t] = Resting
      /\ \A s \in Steps : paid[s] = 0 /\ before[s].log = {}
  BY DEF Init
<1>2. TypeOK
  <2>1. txns \in [Txns -> Txn]
    BY RestingFacts DEF Init
  <2>2. before \in [Steps -> [log : SUBSET Nat, flying : SUBSET Nat]]
    BY DEF Init
  <2>3. events \in Seq(Kinds) /\ rows \in Seq(Row)
    BY <1>1
  <2>. QED
    BY <2>1, <2>2, <2>3, RestingFacts DEF Init, TypeOK
<1>3. \A t \in Txns : Mine(t) = << >> /\ ~Holds(t) /\ ToGo(t) = {} /\ RowsOf(t) = << >>
  <2>. SUFFICES ASSUME NEW t \in Txns PROVE Mine(t) = << >> /\ ~Holds(t) /\ ToGo(t) = {} /\ RowsOf(t) = << >>
    OBVIOUS
  <2>1. Mine(t) = << >> /\ ~Holds(t)
    BY <1>1, RestingFacts DEF Mine, Holds
  <2>2. ToGo(t) = {}
    BY <1>1, RestingFacts, NoItems DEF ToGo
  <2>3. << >> \in Seq(Row)
    OBVIOUS
  <2>4. RowsOf(t) = << >>
    BY <1>1, <2>1, <2>3, NothingOver DEF RowsOf, Mine
  <2>. QED
    BY <2>1, <2>2, <2>4
<1>4. Locks
  <2>1. << >> \in Seq(Row) /\ DOMAIN << >> = {}
    OBVIOUS
  <2>. QED
    BY <1>1, <1>3, <2>1 DEF Locks
<1>5. Kept
  BY <1>3 DEF Kept, KeptBy
<1>6. Held
  BY <1>1, RestingFacts DEF Held, HeldBy
<1>7. Logged
  BY <1>1, <1>3, RestingFacts DEF Logged, LoggedBy
<1>8. Paid
  <2>1. \A s \in Steps : {r \in RowsFor(s) : rows[r].claimed} = {}
    BY <1>1 DEF RowsFor
  <2>. QED
    BY <1>1, <2>1, FS_EmptySet DEF Paid, RowsFor
<1>. QED
  BY <1>2, <1>4, <1>5, <1>6, <1>7, <1>8 DEF Sound

LEMMA IdleFacts ==
  ASSUME TypeOK, Sound, NEW t \in Txns, txns[t].pc = "idle"
  PROVE  /\ txns[t] = Resting /\ Mine(t) = << >> /\ ~Holds(t) /\ ToGo(t) = {}
         /\ RowsOf(t) = rows /\ QuestOf(t) = quest /\ LogOf(t) = committed
<1>1. txns[t] = Resting
  BY DEF Sound, Held, HeldBy
<1>2. Mine(t) = << >> /\ ~Holds(t) /\ QuestOf(t) = quest /\ LogOf(t) = committed
  BY <1>1, RestingFacts DEF Mine, Holds, QuestOf, LogOf
<1>3. RowsOf(t) = rows
  BY <1>2, RowFacts, NothingOver DEF RowsOf, Mine
<1>4. ToGo(t) = {}
  BY <1>1, RestingFacts, NoItems DEF ToGo
<1>. QED
  BY <1>1, <1>2, <1>3, <1>4, SMTT(40)

LEMMA RecordSound ==
  ASSUME TypeOK, Sound, NEW t \in Txns, NEW kind \in Kinds, Record(t, kind)
  PROVE  TypeOK' /\ Sound'
<1>. DEFINE e == Len(events) + 1
            y == [Resting EXCEPT !.pc = "look", !.event = e, !.todo = Subscribed(e, kind)]
<1>1. /\ txns' = [txns EXCEPT ![t] = y] /\ events' = Append(events, kind) /\ txns[t].pc = "idle"
      /\ UNCHANGED <<committed, quest, rows, applied, paid, stale, before, skipped>>
  BY DEF Record, history
<1>2. /\ events \in Seq(Kinds) /\ e \in Nat /\ e # 0 /\ e \notin DOMAIN events
      /\ events' \in Seq(Kinds) /\ DOMAIN events' = DOMAIN events \cup {e}
      /\ DOMAIN events \subseteq Nat \ {0}
  <2>1. events \in Seq(Kinds)
    BY DEF TypeOK
  <2>. QED
    BY <1>1, <2>1
<1>. HIDE DEF e
<1>3. /\ Subscribed(e, kind) \in Seq(Pairs)
      /\ \A p \in ToSet(Subscribed(e, kind)) : p[1] = e
  BY <1>2, SubscribedItems
<1>4. /\ y \in Txn /\ y.pc = "look" /\ y.event = e /\ y.todo = Subscribed(e, kind)
      /\ y.draft = NoDraft
  BY <1>2, <1>3, RestingFacts DEF Resting, Txn
<1>. HIDE DEF y
<1>5. txns' \in [Txns -> Txn] /\ txns'[t] = y /\ \A u \in Txns \ {t} : txns'[u] = txns[u]
  BY <1>1, <1>4, Written
<1>6. TypeOK'
  BY <1>1, <1>2, <1>5 DEF TypeOK
<1>7. Mine(t)' = << >> /\ ~Holds(t)' /\ ToGo(t)' = ToSet(Subscribed(e, kind)) /\ RowsOf(t)' = rows
  <2>1. Mine(t)' = << >> /\ ~Holds(t)' /\ ToGo(t)' = ToSet(Subscribed(e, kind))
    BY <1>4, <1>5, RestingFacts DEF Mine, Holds, ToGo
  <2>2. Over(<< >>, rows) = rows
    BY RowFacts, NothingOver
  <2>. QED
    BY <1>1, <2>1, <2>2 DEF RowsOf, Mine
<1>8. KeptBy(t)' /\ HeldBy(t)'
  BY <1>4, <1>5, <1>7 DEF KeptBy, HeldBy
<1>9. LoggedBy(t)'
  BY <1>1, <1>2, <1>3, <1>4, <1>5, <1>7, RestingFacts DEF LoggedBy, LogOf, Sound, Logged
<1>10. \A u \in Txns \ {t} : txns'[t].event = txns[u].event => txns[u].event = 0
  BY <1>2, <1>4, <1>5 DEF Sound, Logged, LoggedBy
<1>11. \A s \in Steps : before'[s].log \subseteq DOMAIN events'
  BY <1>1, <1>2 DEF Sound, Logged
<1>12. Sound'
  BY <1>1, <1>2, <1>5, <1>7, <1>8, <1>9, <1>10, <1>11, RowFacts, RestingFacts, SoundLocal
<1>. QED
  BY <1>6, <1>12

LEMMA LogFacts ==
  ASSUME TypeOK, Sound, NEW t \in Txns
  PROVE  /\ LogOf(t) \in SUBSET Nat /\ IsFiniteSet(LogOf(t)) /\ LogOf(t) \subseteq DOMAIN events
         /\ IsFiniteSet(committed) /\ committed \in SUBSET Nat /\ committed \subseteq LogOf(t)
         /\ 0 \notin LogOf(t) /\ (txns[t].event = 0 => LogOf(t) = committed)
         /\ (txns[t].event # 0 => LogOf(t) = committed \cup {txns[t].event})
<1>1. DOMAIN events = 1..Len(events) /\ Len(events) \in Nat
  BY RowFacts
<1>2. IsFiniteSet(DOMAIN events)
  BY <1>1, FS_Interval
<1>3. LogOf(t) \subseteq DOMAIN events /\ committed \subseteq DOMAIN events
  BY DEF LogOf, Sound, Logged, LoggedBy
<1>4. IsFiniteSet(LogOf(t)) /\ IsFiniteSet(committed)
  BY <1>2, <1>3, FS_Subset
<1>. QED
  BY <1>1, <1>3, <1>4 DEF LogOf

LEMMA FreshFacts ==
  ASSUME NEW s \in Steps
  PROVE  /\ Fresh(s) \in Row /\ Fresh(s).step = s /\ Fresh(s).val = 0
         /\ Fresh(s).done = FALSE /\ Fresh(s).claimed = FALSE
BY DEF Fresh, Row

\* The new log of a step.
LEMMA BeginsFacts ==
  ASSUME TypeOK, Sound, NEW t \in Txns, NEW s \in Steps, before' = Begins(s, t)
  PROVE  /\ before' \in [Steps -> [log : SUBSET Nat, flying : SUBSET Nat]]
         /\ before'[s].log = LogOf(t) /\ \A q \in Steps \ {s} : before'[q] = before[q]
         /\ \A q \in Steps : before'[q].log \subseteq DOMAIN events
<1>1. before \in [Steps -> [log : SUBSET Nat, flying : SUBSET Nat]]
  BY DEF TypeOK
<1>2. [log |-> LogOf(t), flying |-> {}] \in [log : SUBSET Nat, flying : SUBSET Nat]
  BY LogFacts
<1>3. /\ before' \in [Steps -> [log : SUBSET Nat, flying : SUBSET Nat]]
      /\ before'[s].log = LogOf(t) /\ \A q \in Steps \ {s} : before'[q] = before[q]
  BY <1>1, <1>2 DEF Begins
<1>. QED
  BY <1>3, LogFacts DEF Sound, Logged

\* What Assign does, in the words of the invariants.
LEMMA AssignFacts ==
  ASSUME TypeOK, Sound, NEW t \in Txns, Assign(t)
  PROVE  LET id == NewId IN
         /\ UNCHANGED <<events, committed, quest, rows, applied, paid, stale, skipped>>
         /\ txns' \in [Txns -> Txn] /\ \A u \in Txns \ {t} : txns'[u] = txns[u]
         /\ quest = Unassigned /\ rows = << >> /\ txns[t] = Resting /\ LogOf(t) = committed
         /\ Mine(t) = << >> /\ \A u \in Txns : ~Holds(u) /\ DOMAIN Mine(u) = {}
         /\ id = Len(RowsOf(t)) + 1 /\ id \in Nat /\ id \notin DOMAIN RowsOf(t)
         /\ txns'[t].pc = "look" /\ txns'[t].event = 0 /\ txns'[t].draft.applied = {}
         /\ txns'[t].draft.quest = [status |-> "active", step |-> 1]
         /\ CatchUp(1, committed) \in Seq(Pairs) /\ ToGo(t)' = ToSet(CatchUp(1, committed))
         /\ \A p \in ToGo(t)' : p[1] \in committed
         /\ Mine(t)' = Put(Mine(t), id, Fresh(1)) /\ Holds(t)'
         /\ DOMAIN Mine(t)' = {id} /\ Mine(t)'[id] = Fresh(1)
         /\ RowsOf(t)' = Over(Put(Mine(t), id, Fresh(1)), rows)
         /\ before' = Begins(1, t)
<1>. DEFINE id == NewId
            todo == CatchUp(1, committed)
            d == [NoDraft EXCEPT !.quest = [status |-> "active", step |-> 1],
                                 !.rows = Put(@, id, Fresh(1))]
            y == [Resting EXCEPT !.pc = "look", !.todo = todo, !.draft = d]
<1>1. /\ txns' = [txns EXCEPT ![t] = y] /\ before' = Begins(1, t) /\ txns[t].pc = "idle"
      /\ quest = Unassigned /\ QuestFree(t)
      /\ UNCHANGED <<events, committed, quest, rows, applied, paid, stale, skipped>>
  BY DEF Assign, Assigned
<1>2. id = Len(RowsOf(t)) + 1 /\ id \in Nat /\ id \notin DOMAIN RowsOf(t)
  BY <1>1, NewIdIsNext DEF Sound
<1>. HIDE DEF id
<1>3. txns[t] = Resting /\ LogOf(t) = committed /\ Mine(t) = << >> /\ rows = << >> /\ RowsOf(t) = << >>
  BY <1>1, IdleFacts DEF Sound, Locks
<1>4. todo \in Seq(Pairs) /\ \A p \in ToSet(todo) : p[1] \in committed
  BY StepsAreFinite, LogFacts, CatchUpItems
<1>. HIDE DEF todo
<1>5. /\ d \in Draft /\ d.rows = Put(Mine(t), id, Fresh(1)) /\ d.applied = {}
      /\ d.quest = [status |-> "active", step |-> 1]
  <2>1. Put(Mine(t), id, Fresh(1)) \in Tables
    BY <1>2, TxnFacts, StepsAreFinite, FreshFacts, TypedTable
  <2>2. [status |-> "active", step |-> 1] \in Quest
    BY StepsAreFinite DEF Quest
  <2>. QED
    BY <1>3, <2>1, <2>2, RestingFacts DEF NoDraft, Draft
<1>. HIDE DEF d
<1>6. y \in Txn /\ y.pc = "look" /\ y.event = 0 /\ y.todo = todo /\ y.draft = d
  BY <1>4, <1>5, RestingFacts DEF Resting, Txn
<1>. HIDE DEF y
<1>7. txns' \in [Txns -> Txn] /\ txns'[t] = y /\ \A u \in Txns \ {t} : txns'[u] = txns[u]
  BY <1>1, <1>6, Written
<1>8. /\ Mine(t)' = Put(Mine(t), id, Fresh(1)) /\ Holds(t)' /\ ToGo(t)' = ToSet(todo)
      /\ RowsOf(t)' = Over(Put(Mine(t), id, Fresh(1)), rows)
  BY <1>1, <1>5, <1>6, <1>7 DEF Mine, Holds, ToGo, RowsOf, Unassigned
<1>9. DOMAIN Mine(t)' = {id} /\ Mine(t)'[id] = Fresh(1)
  <2>1. /\ DOMAIN Put(Mine(t), id, Fresh(1)) = DOMAIN Mine(t) \cup {id}
        /\ Put(Mine(t), id, Fresh(1))[id] = Fresh(1)
    BY DEF Put
  <2>2. DOMAIN Mine(t) = {}
    BY <1>3
  <2>. QED
    BY <1>8, <2>1, <2>2
<1>10. ASSUME NEW u \in Txns PROVE ~Holds(u) /\ DOMAIN Mine(u) = {}
  <2>1. ~Holds(u)
    <3>1. ~Holds(t)
      BY <1>1, IdleFacts
    <3>. QED
      BY <1>1, <3>1 DEF QuestFree, Others, Holds
  <2>2. DOMAIN rows = {}
    BY <1>3
  <2>. QED
    BY <2>1, <2>2 DEF Sound, Locks
<1>. QED
  BY <1>1, <1>2, <1>3, <1>4, <1>5, <1>6, <1>7, <1>8, <1>9, <1>10 DEF id, todo

LEMMA AssignSound ==
  ASSUME TypeOK, Sound, NEW t \in Txns, Assign(t)
  PROVE  TypeOK' /\ Sound'
<1>. DEFINE id == NewId
<1>1. /\ UNCHANGED <<events, committed, quest, rows, applied, paid, stale, skipped>>
      /\ txns' \in [Txns -> Txn] /\ \A u \in Txns \ {t} : txns'[u] = txns[u]
      /\ rows = << >> /\ \A u \in Txns : ~Holds(u) /\ DOMAIN Mine(u) = {}
      /\ id = Len(RowsOf(t)) + 1
      /\ txns'[t].pc = "look" /\ txns'[t].event = 0 /\ txns'[t].draft.applied = {}
      /\ \A p \in ToGo(t)' : p[1] \in committed
      /\ Holds(t)' /\ DOMAIN Mine(t)' = {id} /\ Mine(t)'[id] = Fresh(1)
      /\ RowsOf(t)' = Over(Put(Mine(t), id, Fresh(1)), rows)
      /\ before' = Begins(1, t)
  BY AssignFacts
<1>. HIDE DEF id
<1>2. /\ before' \in [Steps -> [log : SUBSET Nat, flying : SUBSET Nat]]
      /\ \A s \in Steps : before'[s].log \subseteq DOMAIN events
  BY <1>1, StepsAreFinite, BeginsFacts
<1>3. TypeOK'
  BY <1>1, <1>2 DEF TypeOK
<1>4. RowsOf(t)' \in Seq(Row)
  <2>1. Over(Mine(t), rows) \in Seq(Row) /\ id = Len(Over(Mine(t), rows)) + 1
    BY <1>1 DEF Mine, RowsOf, Sound, Locks
  <2>2. Fresh(1) \in Row
    BY StepsAreFinite, FreshFacts
  <2>3. Over(Put(Mine(t), id, Fresh(1)), rows) \in Seq(Row)
    BY <2>1, <2>2, AddedRow
  <2>. QED
    BY <1>1, <2>3
<1>5. KeptBy(t)' /\ HeldBy(t)'
  <2>1. DOMAIN rows' = {}
    BY <1>1
  <2>2. KeptBy(t)'
    BY <1>1, <2>1 DEF KeptBy, Fresh
  <2>3. HeldBy(t)'
    BY <1>1 DEF HeldBy
  <2>. QED
    BY <2>2, <2>3
<1>6. LoggedBy(t)'
  BY <1>1 DEF LoggedBy, LogOf
<1>7. Sound'
  BY <1>1, <1>2, <1>4, <1>5, <1>6, SoundLocal
<1>. QED
  BY <1>3, <1>7

LEMMA PassSound ==
  ASSUME TypeOK, Sound, NEW t \in Txns, Pass(t)
  PROVE  TypeOK' /\ Sound'
<1>. DEFINE x == txns[t]
            y == [x EXCEPT !.todo = Tail(@)]
<1>1. /\ txns' = [txns EXCEPT ![t] = y] /\ x.pc = "look" /\ x.todo # << >>
      /\ UNCHANGED <<events, committed, quest, rows, applied, paid, stale, before, skipped>>
  BY DEF Pass, history
<1>2. x \in Txn /\ x.todo \in Seq(Pairs)
  BY TxnFacts
<1>3. Tail(x.todo) \in Seq(Pairs) /\ ToSet(Tail(x.todo)) \subseteq ToSet(x.todo)
  BY <1>1, <1>2, ListItems
<1>4. /\ y \in Txn /\ y.pc = "look" /\ y.event = x.event /\ y.todo = Tail(x.todo)
      /\ y.read = x.read /\ y.draft = x.draft
  BY <1>1, <1>2, <1>3 DEF Txn
<1>. HIDE DEF y
<1>5. txns' \in [Txns -> Txn] /\ txns'[t] = y /\ \A u \in Txns \ {t} : txns'[u] = txns[u]
  BY <1>1, <1>4, Written
<1>6. TypeOK'
  BY <1>1, <1>5 DEF TypeOK
<1>7. /\ Mine(t)' = Mine(t) /\ (Holds(t)' <=> Holds(t)) /\ RowsOf(t)' = RowsOf(t)
      /\ ToGo(t)' \subseteq ToGo(t) /\ LogOf(t)' = LogOf(t)
  BY <1>1, <1>3, <1>4, <1>5 DEF Mine, Holds, ToGo, RowsOf, LogOf
<1>8. KeptBy(t)' /\ HeldBy(t)'
  BY <1>1, <1>4, <1>5, <1>7 DEF KeptBy, HeldBy, Sound, Kept
<1>9. LoggedBy(t)'
  BY <1>1, <1>4, <1>5, <1>7 DEF LoggedBy, Sound, Logged
<1>10. Sound'
  <2>1. /\ \A u \in Txns \ {t} : DOMAIN Mine(t)' \cap DOMAIN Mine(u) = {}
        /\ Holds(t)' => \A u \in Txns \ {t} : ~Holds(u)
        /\ ~Holds(t)' => DOMAIN Mine(t)' \subseteq DOMAIN rows
        /\ RowsOf(t)' \in Seq(Row)
    BY <1>7 DEF Sound, Locks
  <2>2. \A s \in Steps : before'[s].log \subseteq DOMAIN events'
    BY <1>1 DEF Sound, Logged
  <2>3. \A u \in Txns \ {t} : txns'[t].event = txns[u].event => txns[u].event = 0
    BY <1>4, <1>5 DEF Sound, Logged
  <2>. QED
    BY <1>1, <1>5, <1>8, <1>9, <2>1, <2>2, <2>3, SoundLocal
<1>. QED
  BY <1>6, <1>10

LEMMA ViewTypes ==
  ASSUME TypeOK, Sound, NEW t \in Txns
  PROVE  /\ RowsOf(t) \in Seq(Row) /\ DOMAIN RowsOf(t) \subseteq Nat
         /\ \A r \in DOMAIN RowsOf(t) :
              /\ RowsOf(t)[r] \in Row /\ RowsOf(t)[r].step \in Steps /\ RowsOf(t)[r].val \in Nat
              /\ RowsOf(t)[r].done \in BOOLEAN /\ RowsOf(t)[r].claimed \in BOOLEAN
<1>1. RowsOf(t) \in Seq(Row)
  BY DEF Sound, Locks
<1>2. \A r \in DOMAIN RowsOf(t) : RowsOf(t)[r] \in Row
  BY <1>1
<1>. QED
  BY <1>1, <1>2 DEF Row

\* The row that is written over is one that the session sees.
LEMMA LookSound ==
  ASSUME TypeOK, Sound, NEW t \in Txns, Look(t)
  PROVE  TypeOK' /\ Sound'
<1>. DEFINE x == txns[t]
            e == Head(x.todo)[1]
            s == Head(x.todo)[2]
<1>1. PICK r \in Candidates(t, s) :
        txns' = [txns EXCEPT
            ![t].pc = "count",
            ![t].read = [id |-> r, step |-> s, val |-> RowsOf(t)[r].val],
            ![t].draft.applied = @ \cup {<<e, s>>}]
  BY DEF Look
<1>2. /\ x.pc = "look" /\ x.todo # << >>
      /\ UNCHANGED <<events, committed, quest, rows, applied, paid, stale, before, skipped>>
  BY DEF Look, history
<1>3. x \in Txn /\ x.todo \in Seq(Pairs) /\ x.draft \in Draft
  BY TxnFacts
<1>4. Head(x.todo) \in ToGo(t) /\ Head(x.todo) \in Pairs /\ Head(x.todo) = <<e, s>> /\ s \in Steps
  BY <1>2, <1>3, ListItems DEF Pairs, ToGo
<1>5. r \in DOMAIN RowsOf(t) /\ RowsOf(t)[r].step = s
  BY <1>1 DEF Candidates
<1>6. r \in Nat /\ s \in Nat /\ RowsOf(t)[r].val \in Nat
  BY <1>4, <1>5, ViewTypes, StepsAreFinite
<1>. DEFINE rd == [id |-> r, step |-> s, val |-> RowsOf(t)[r].val]
            d == [x.draft EXCEPT !.applied = @ \cup {<<e, s>>}]
            y == [x EXCEPT !.pc = "count", !.read = rd, !.draft = d]
<1>7. /\ d \in Draft /\ d.quest = x.draft.quest /\ d.rows = x.draft.rows
      /\ d.applied = x.draft.applied \cup {Head(x.todo)}
  BY <1>3, <1>4 DEF Draft
<1>8. /\ y \in Txn /\ y.pc = "count" /\ y.event = x.event /\ y.todo = x.todo
      /\ y.read = rd /\ y.draft = d
  <2>. HIDE DEF d
  <2>. QED
    BY <1>3, <1>6, <1>7 DEF Txn
<1>9. txns' = [txns EXCEPT ![t] = y]
  <2>1. txns \in [Txns -> Txn]
    BY DEF TypeOK
  <2>. HIDE DEF rd, e, s
  <2>2. txns' = [txns EXCEPT ![t].pc = "count", ![t].read = rd,
                             ![t].draft.applied = @ \cup {<<e, s>>}]
    BY <1>1 DEF rd, e, s
  <2>. QED
    BY <2>1, <2>2
<1>. HIDE DEF y, d
<1>10. txns' \in [Txns -> Txn] /\ txns'[t] = y /\ \A u \in Txns \ {t} : txns'[u] = txns[u]
  BY <1>8, <1>9, Written
<1>11. TypeOK'
  BY <1>2, <1>10 DEF TypeOK
<1>12. /\ Mine(t)' = Mine(t) /\ (Holds(t)' <=> Holds(t)) /\ RowsOf(t)' = RowsOf(t)
       /\ ToGo(t)' = ToGo(t) /\ LogOf(t)' = LogOf(t)
  BY <1>2, <1>7, <1>8, <1>10 DEF Mine, Holds, ToGo, RowsOf, LogOf
<1>13. KeptBy(t)'
  BY <1>2, <1>12 DEF KeptBy, Sound, Kept
<1>14. HeldBy(t)'
  BY <1>2, <1>4, <1>5, <1>7, <1>8, <1>10, <1>12 DEF HeldBy
<1>15. LoggedBy(t)'
  BY <1>2, <1>4, <1>7, <1>8, <1>10, <1>12 DEF LoggedBy, Sound, Logged
<1>16. Sound'
  <2>1. /\ \A u \in Txns \ {t} : DOMAIN Mine(t)' \cap DOMAIN Mine(u) = {}
        /\ Holds(t)' => \A u \in Txns \ {t} : ~Holds(u)
        /\ ~Holds(t)' => DOMAIN Mine(t)' \subseteq DOMAIN rows
        /\ RowsOf(t)' \in Seq(Row)
    BY <1>12 DEF Sound, Locks
  <2>2. \A q \in Steps : before'[q].log \subseteq DOMAIN events'
    BY <1>2 DEF Sound, Logged
  <2>3. \A u \in Txns \ {t} : txns'[t].event = txns[u].event => txns[u].event = 0
    BY <1>8, <1>10 DEF Sound, Logged
  <2>. QED
    BY <1>2, <1>10, <1>13, <1>14, <1>15, <2>1, <2>2, <2>3, SoundLocal
<1>. QED
  BY <1>11, <1>16, SMTT(40)

\* What Count does, in the words of the invariants.
LEMMA CountFacts ==
  ASSUME TypeOK, Sound, NEW t \in Txns, Count(t)
  PROVE  LET x == txns[t]
             r == x.read.id
             s == x.read.step
             full == x.read.val + 1 >= Target[s]
             row == [RowsOf(t)[r] EXCEPT !.val = x.read.val + 1, !.done = @ \/ full]
         IN
         /\ x.pc = "count" /\ s \in Steps /\ r \in DOMAIN RowsOf(t) /\ r \in Nat
         /\ RowsOf(t)[r].step = s /\ row \in Row /\ row.step = s /\ row.val = x.read.val + 1
         /\ (row.done <=> RowsOf(t)[r].done \/ full) /\ row.claimed = RowsOf(t)[r].claimed
         /\ RowFree(t, r)
         /\ stale' = IF RowsOf(t)[r].val = x.read.val /\ ~RowsOf(t)[r].done THEN stale
                     ELSE stale \cup {s}
         /\ UNCHANGED <<events, committed, quest, rows, applied, paid, before, skipped>>
         /\ txns' \in [Txns -> Txn] /\ \A u \in Txns \ {t} : txns'[u] = txns[u]
         /\ txns'[t].pc = (IF full THEN "advance" ELSE "look")
         /\ txns'[t].todo = (IF full THEN x.todo ELSE Tail(x.todo))
         /\ txns'[t].event = x.event /\ txns'[t].read = x.read
         /\ txns'[t].draft.quest = x.draft.quest /\ txns'[t].draft.applied = x.draft.applied
         /\ Mine(t)' = Put(Mine(t), r, row) /\ RowsOf(t)' = Over(Put(Mine(t), r, row), rows)
         /\ (Holds(t)' <=> Holds(t)) /\ ToGo(t)' \subseteq ToGo(t) /\ LogOf(t)' = LogOf(t)
         /\ \A p \in ToGo(t) : p \in ToGo(t)' \/ p \in x.draft.applied
<1>. DEFINE x == txns[t]
            r == x.read.id
            s == x.read.step
            full == x.read.val + 1 >= Target[s]
            w == RowsOf(t)[r]
            v == x.read.val + 1
            b == w.done \/ full
            row == [w EXCEPT !.val = v, !.done = b]
            d == [x.draft EXCEPT !.rows = Put(@, r, row)]
            y == [x EXCEPT !.pc = IF full THEN "advance" ELSE "look",
                           !.todo = IF full THEN @ ELSE Tail(@), !.draft = d]
<1>1. /\ x.pc = "count" /\ RowFree(t, r)
      /\ stale' = IF RowsOf(t)[r].val = x.read.val /\ ~RowsOf(t)[r].done THEN stale
                  ELSE stale \cup {s}
      /\ UNCHANGED <<events, committed, quest, rows, applied, paid, before, skipped>>
  BY DEF Count
<1>2. x \in Txn /\ x.todo \in Seq(Pairs) /\ x.draft \in Draft /\ r \in Nat /\ x.read.val \in Nat
  BY TxnFacts, SMTT(40)
<1>3. /\ r \in DOMAIN RowsOf(t) /\ RowsOf(t)[r].step = s /\ x.todo # << >>
      /\ Head(x.todo) \in x.draft.applied
  BY <1>1 DEF Sound, Held, HeldBy
<1>4. RowsOf(t)[r] \in Row /\ s \in Steps /\ full \in BOOLEAN
  BY <1>3, ViewTypes
<1>5. /\ row \in Row /\ row.step = s /\ row.val = x.read.val + 1
      /\ (row.done <=> RowsOf(t)[r].done \/ full) /\ row.claimed = RowsOf(t)[r].claimed
  <2>. HIDE DEF full
  <2>1. v \in Nat /\ w \in Row /\ b \in BOOLEAN
    BY <1>2, <1>4
  <2>2. row \in Row /\ row.step = w.step /\ row.val = v /\ row.done = b /\ row.claimed = w.claimed
    <3>. HIDE DEF v, w, b
    <3>. QED
      BY <2>1 DEF Row
  <2>. HIDE DEF row
  <2>. QED
    BY <1>3, <2>2
<1>6. txns' = [txns EXCEPT ![t] = y]
  BY ZenonT(60) DEF Count, TypeOK, Txn, Draft
<1>. HIDE DEF row, full, b, v, w
<1>7. /\ d \in Draft /\ d.quest = x.draft.quest /\ d.rows = Put(Mine(t), r, row)
      /\ d.applied = x.draft.applied
  <2>1. Put(Mine(t), r, row) \in Tables
    BY <1>2, <1>5, TxnFacts, TypedTable
  <2>. QED
    BY <1>2, <2>1 DEF Draft, Mine
<1>. HIDE DEF d
<1>8. /\ Tail(x.todo) \in Seq(Pairs) /\ ToSet(Tail(x.todo)) \subseteq ToSet(x.todo)
      /\ ToSet(x.todo) \subseteq ToSet(Tail(x.todo)) \cup {Head(x.todo)}
  BY <1>2, <1>3, ListItems
<1>9. /\ y \in Txn /\ y.pc = (IF full THEN "advance" ELSE "look")
      /\ y.todo = (IF full THEN x.todo ELSE Tail(x.todo))
      /\ y.event = x.event /\ y.read = x.read /\ y.draft = d
  BY <1>2, <1>7, <1>8 DEF Txn
<1>. HIDE DEF y
<1>10. txns' \in [Txns -> Txn] /\ txns'[t] = y /\ \A u \in Txns \ {t} : txns'[u] = txns[u]
  BY <1>6, <1>9, Written
<1>11. /\ Mine(t)' = Put(Mine(t), r, row) /\ RowsOf(t)' = Over(Put(Mine(t), r, row), rows)
       /\ (Holds(t)' <=> Holds(t)) /\ LogOf(t)' = LogOf(t)
  BY <1>1, <1>7, <1>9, <1>10 DEF Mine, Holds, RowsOf, LogOf
<1>12. ToGo(t)' \subseteq ToGo(t) /\ \A p \in ToGo(t) : p \in ToGo(t)' \/ p \in x.draft.applied
  BY <1>3, <1>8, <1>9, <1>10 DEF ToGo
<1>. QED
  BY <1>1, <1>2, <1>3, <1>4, <1>5, <1>7, <1>9, <1>10, <1>11, <1>12 DEF row, full, b, v, w

LEMMA CountSound ==
  ASSUME TypeOK, Sound, NEW t \in Txns, Count(t)
  PROVE  TypeOK' /\ Sound'
<1>. DEFINE x == txns[t]
            r == x.read.id
            s == x.read.step
            full == x.read.val + 1 >= Target[s]
            row == [RowsOf(t)[r] EXCEPT !.val = x.read.val + 1, !.done = @ \/ full]
<1>1. /\ x.pc = "count" /\ s \in Steps /\ r \in DOMAIN RowsOf(t) /\ r \in Nat
      /\ RowsOf(t)[r].step = s /\ row \in Row /\ row.step = s
      /\ (row.done <=> RowsOf(t)[r].done \/ full) /\ row.claimed = RowsOf(t)[r].claimed
      /\ RowFree(t, r)
      /\ (stale' = stale \/ stale' = stale \cup {s})
      /\ UNCHANGED <<events, committed, quest, rows, applied, paid, before, skipped>>
      /\ txns' \in [Txns -> Txn] /\ \A u \in Txns \ {t} : txns'[u] = txns[u]
      /\ txns'[t].pc = (IF full THEN "advance" ELSE "look")
      /\ txns'[t].todo = (IF full THEN x.todo ELSE Tail(x.todo))
      /\ txns'[t].event = x.event /\ txns'[t].read = x.read
      /\ txns'[t].draft.applied = x.draft.applied
      /\ Mine(t)' = Put(Mine(t), r, row) /\ RowsOf(t)' = Over(Put(Mine(t), r, row), rows)
      /\ (Holds(t)' <=> Holds(t)) /\ ToGo(t)' \subseteq ToGo(t) /\ LogOf(t)' = LogOf(t)
  BY CountFacts
<1>. HIDE DEF row, full
<1>2. TypeOK'
  BY <1>1 DEF TypeOK
<1>3. /\ DOMAIN Mine(t)' = DOMAIN Mine(t) \cup {r} /\ Mine(t)'[r] = row
      /\ \A q \in DOMAIN Mine(t) \ {r} : Mine(t)'[q] = Mine(t)[q]
  BY <1>1 DEF Put
<1>4. RowsOf(t)' \in Seq(Row)
  <2>1. Over(Mine(t), rows) \in Seq(Row) /\ r \in DOMAIN Over(Mine(t), rows)
    BY <1>1, ViewTypes DEF Mine, RowsOf
  <2>2. Over(Put(Mine(t), r, row), rows) \in Seq(Row)
    BY <1>1, <2>1, WrittenRow
  <2>. QED
    BY <1>1, <2>2, SMTT(40)
<1>5. KeptBy(t)'
  <2>1. KeptBy(t)
    BY DEF Sound, Kept
  <2>2. r \in DOMAIN rows =>
          /\ RowsOf(t)[r].step = rows[r].step /\ RowsOf(t)[r].claimed = rows[r].claimed
          /\ rows[r].done => RowsOf(t)[r].done
    BY <2>1, ViewFacts, ZenonT(60) DEF KeptBy
  <2>3. r \notin DOMAIN rows => ~RowsOf(t)[r].claimed
    BY <1>1, <2>1, ViewFacts DEF KeptBy
  <2>4. ASSUME NEW q \in DOMAIN Mine(t)'
        PROVE  IF q \in DOMAIN rows
               THEN /\ Mine(t)'[q].step = rows[q].step /\ Mine(t)'[q].claimed = rows[q].claimed
                    /\ rows[q].done => Mine(t)'[q].done
               ELSE ~Mine(t)'[q].claimed
    <3>1. CASE q = r
      BY <1>1, <1>3, <2>2, <2>3, <3>1
    <3>2. CASE q # r
      BY <1>3, <2>1, <3>2 DEF KeptBy
    <3>. QED
      BY <3>1, <3>2
  <2>. QED
    BY <1>1, <2>4 DEF KeptBy
<1>6. HeldBy(t)'
  <2>1. RowsOf(t)'[r] = row /\ r \in DOMAIN RowsOf(t)'
    BY <1>1 DEF Put, Over
  <2>2. CASE ~full
    BY <1>1, <2>2 DEF HeldBy
  <2>3. CASE full
    <3>1. x.todo # << >> /\ Head(x.todo)[2] = s /\ Head(x.todo) \in x.draft.applied
      BY <1>1 DEF Sound, Held, HeldBy
    <3>. QED
      BY <1>1, <1>3, <2>1, <2>3, <3>1 DEF HeldBy
  <2>. QED
    BY <2>2, <2>3
<1>7. LoggedBy(t)'
  BY <1>1 DEF LoggedBy, Sound, Logged
<1>8. /\ \A u \in Txns \ {t} : DOMAIN Mine(t)' \cap DOMAIN Mine(u) = {}
      /\ Holds(t)' => \A u \in Txns \ {t} : ~Holds(u)
      /\ ~Holds(t)' => DOMAIN Mine(t)' \subseteq DOMAIN rows
  <2>1. \A u \in Txns \ {t} : r \notin DOMAIN Mine(u)
    BY <1>1 DEF RowFree, Others, Mine
  <2>. QED
    BY <1>1, <1>3, <2>1, ViewFacts, ZenonT(60) DEF Sound, Locks
<1>9. Sound'
  <2>2. \A q \in Steps : before'[q].log \subseteq DOMAIN events'
    BY <1>1 DEF Sound, Logged
  <2>3. \A u \in Txns \ {t} : txns'[t].event = txns[u].event => txns[u].event = 0
    BY <1>1 DEF Sound, Logged
  <2>. QED
    BY <1>1, <1>4, <1>5, <1>6, <1>7, <1>8, <2>2, <2>3, SoundLocal
<1>. QED
  BY <1>2, <1>9

\* A session that has something to move from has a quest to move.
LEMMA QuestSeen ==
  ASSUME TypeOK, Sound, NEW t \in Txns, DOMAIN RowsOf(t) # {}
  PROVE  QuestOf(t) \in [status : {"active", "completed"}, step : Steps] /\ QuestOf(t) # Unassigned
<1>1. txns[t].draft.quest \in Quest /\ quest \in Quest
  BY TxnFacts DEF TypeOK
<1>2. QuestOf(t) \in Quest
  BY <1>1 DEF QuestOf
<1>3. QuestOf(t) # Unassigned
  <2>1. CASE Holds(t)
    BY <2>1 DEF Holds, QuestOf
  <2>2. CASE ~Holds(t)
    <3>1. DOMAIN RowsOf(t) = DOMAIN rows
      BY <2>2, ViewFacts DEF Sound, Locks
    <3>2. rows # << >>
      <4>1. DOMAIN << >> = {}
        OBVIOUS
      <4>. QED
        BY <3>1, <4>1
    <3>. QED
      BY <2>2, <3>2 DEF Holds, QuestOf, Sound, Locks
  <2>. QED
    BY <2>1, <2>2
<1>. QED
  BY <1>2, <1>3 DEF Quest

\* What Advance does, in the words of the invariants.
LEMMA AdvanceFacts ==
  ASSUME TypeOK, Sound, NEW t \in Txns, Advance(t)
  PROVE  LET x == txns[t]
             s == x.read.step
             Q == QuestOf(t)
             id == Len(RowsOf(t)) + 1
         IN
         /\ x.pc = "advance" /\ s \in Steps /\ QuestFree(t)
         /\ Q \in [status : {"active", "completed"}, step : Steps]
         /\ UNCHANGED <<events, committed, quest, rows, applied, paid, stale, skipped>>
         /\ txns' \in [Txns -> Txn] /\ \A u \in Txns \ {t} : txns'[u] = txns[u]
         /\ txns'[t].pc = "look" /\ txns'[t].event = x.event /\ txns'[t].read = x.read
         /\ txns'[t].draft.applied = x.draft.applied
         /\ x.todo \in Seq(Pairs) /\ x.todo # << >>
         /\ Holds(t)' /\ LogOf(t)' = LogOf(t)
         /\ s < Final =>
              /\ s + 1 \in Steps /\ id \in Nat /\ id \notin DOMAIN RowsOf(t)
              /\ txns'[t].draft.quest = [status |-> Q.status, step |-> s + 1]
              /\ Mine(t)' = Put(Mine(t), id, Fresh(s + 1))
              /\ RowsOf(t)' = Over(Put(Mine(t), id, Fresh(s + 1)), rows)
              /\ ToGo(t)' = ToSet(CatchUp(s + 1, LogOf(t))) \cup ToSet(Tail(x.todo))
              /\ before' = Begins(s + 1, t)
         /\ ~(s < Final) =>
              /\ txns'[t].draft.quest = [status |-> "completed", step |-> Q.step]
              /\ Mine(t)' = Mine(t) /\ RowsOf(t)' = RowsOf(t)
              /\ ToGo(t)' = ToSet(Tail(x.todo)) /\ before' = before
<1>. DEFINE x == txns[t]
            s == x.read.step
            Q == QuestOf(t)
            id == NewId
<1>1. /\ x.pc = "advance" /\ QuestFree(t)
      /\ UNCHANGED <<events, committed, quest, rows, applied, paid, stale, skipped>>
  BY DEF Advance
<1>2. x \in Txn /\ x.todo \in Seq(Pairs) /\ x.draft \in Draft
  BY TxnFacts, SMTT(40)
<1>3. x.todo # << >> /\ x.read.id \in DOMAIN RowsOf(t) /\ RowsOf(t)[x.read.id].step = s
  BY <1>1 DEF Sound, Held, HeldBy
<1>4. s \in Steps /\ Q \in [status : {"active", "completed"}, step : Steps]
  BY <1>3, ViewTypes, QuestSeen
<1>5. id = Len(RowsOf(t)) + 1 /\ id \in Nat /\ id \notin DOMAIN RowsOf(t)
  BY <1>1, NewIdIsNext DEF Sound
<1>. HIDE DEF id
<1>6. Tail(x.todo) \in Seq(Pairs)
  BY <1>2, <1>3, ListItems
<1>7. CASE s < Final
  <2>. DEFINE todo == CatchUp(s + 1, LogOf(t)) \o Tail(x.todo)
              q == [Q EXCEPT !.step = s + 1]
              d == [x.draft EXCEPT !.quest = q, !.rows = Put(@, id, Fresh(s + 1))]
              y == [x EXCEPT !.pc = "look", !.todo = todo, !.draft = d]
  <2>1. txns' = [txns EXCEPT ![t] = y] /\ before' = Begins(s + 1, t)
    <3>1. /\ txns' = [txns EXCEPT
               ![t].pc = "look",
               ![t].todo = CatchUp(s + 1, LogOf(t)) \o Tail(@),
               ![t].draft.quest = [Q EXCEPT !.step = s + 1],
               ![t].draft.rows = Put(@, id, Fresh(s + 1))]
          /\ before' = Begins(s + 1, t)
      BY <1>7 DEF Advance, id
    <3>2. txns \in [Txns -> Txn]
      BY DEF TypeOK
    <3>. QED
      BY <3>1, <3>2, ZenonT(60)
  <2>2. s + 1 \in Steps /\ Fresh(s + 1) \in Row
    BY <1>4, <1>7, StepsAreFinite, FreshFacts
  <2>3. q = [status |-> Q.status, step |-> s + 1] /\ q \in Quest /\ q # Unassigned
    BY <1>4, <2>2 DEF Quest, Unassigned
  <2>4. /\ CatchUp(s + 1, LogOf(t)) \in Seq(Pairs) /\ todo \in Seq(Pairs)
        /\ ToSet(todo) = ToSet(CatchUp(s + 1, LogOf(t))) \cup ToSet(Tail(x.todo))
    <3>1. CatchUp(s + 1, LogOf(t)) \in Seq(Pairs)
      BY <2>2, LogFacts, CatchUpItems
    <3>. DEFINE c == CatchUp(s + 1, LogOf(t))
                l == Tail(x.todo)
    <3>2. c \in Seq(Pairs) /\ l \in Seq(Pairs)
      BY <1>6, <3>1
    <3>3. c \o l \in Seq(Pairs) /\ ToSet(c \o l) = ToSet(c) \cup ToSet(l)
      <4>. HIDE DEF c, l
      <4>. QED
        BY <3>2, ListItems
    <3>. QED
      BY <3>1, <3>3
  <2>. HIDE DEF todo, q
  <2>5. /\ d \in Draft /\ d.quest = q /\ d.rows = Put(Mine(t), id, Fresh(s + 1))
        /\ d.applied = x.draft.applied
    <3>1. Put(Mine(t), id, Fresh(s + 1)) \in Tables
      BY <1>5, <2>2, TxnFacts, TypedTable
    <3>. QED
      BY <1>2, <2>3, <3>1 DEF Draft, Mine
  <2>. HIDE DEF d
  <2>6. y \in Txn /\ y.pc = "look" /\ y.todo = todo /\ y.event = x.event /\ y.read = x.read /\ y.draft = d
    BY <1>2, <2>4, <2>5 DEF Txn
  <2>. HIDE DEF y
  <2>7. txns' \in [Txns -> Txn] /\ txns'[t] = y /\ \A u \in Txns \ {t} : txns'[u] = txns[u]
    BY <2>1, <2>6, Written
  <2>8. /\ Mine(t)' = Put(Mine(t), id, Fresh(s + 1))
        /\ RowsOf(t)' = Over(Put(Mine(t), id, Fresh(s + 1)), rows)
        /\ Holds(t)' /\ LogOf(t)' = LogOf(t) /\ ToGo(t)' = ToSet(todo)
    BY <1>1, <2>3, <2>5, <2>6, <2>7 DEF Mine, Holds, RowsOf, LogOf, ToGo
  <2>. QED
    BY <1>1, <1>2, <1>3, <1>4, <1>5, <1>7, <2>1, <2>2, <2>3, <2>4, <2>5, <2>6, <2>7, <2>8
<1>8. CASE ~(s < Final)
  <2>. DEFINE q == [Q EXCEPT !.status = "completed"]
              d == [x.draft EXCEPT !.quest = q]
              y == [x EXCEPT !.pc = "look", !.todo = Tail(@), !.draft = d]
  <2>1. txns' = [txns EXCEPT ![t] = y] /\ before' = before
    <3>1. /\ txns' = [txns EXCEPT
               ![t].pc = "look",
               ![t].todo = Tail(@),
               ![t].draft.quest = [Q EXCEPT !.status = "completed"]]
          /\ before' = before
      BY <1>8 DEF Advance
    <3>2. txns \in [Txns -> Txn]
      BY DEF TypeOK
    <3>. QED
      BY <3>1, <3>2
  <2>2. q = [status |-> "completed", step |-> Q.step] /\ q \in Quest /\ q # Unassigned
    BY <1>4 DEF Quest, Unassigned
  <2>. HIDE DEF q
  <2>3. d \in Draft /\ d.quest = q /\ d.rows = Mine(t) /\ d.applied = x.draft.applied
    BY <1>2, <2>2 DEF Draft, Mine
  <2>. HIDE DEF d
  <2>4. y \in Txn /\ y.pc = "look" /\ y.todo = Tail(x.todo) /\ y.event = x.event /\ y.read = x.read /\ y.draft = d
    BY <1>2, <1>6, <2>3 DEF Txn
  <2>. HIDE DEF y
  <2>5. txns' \in [Txns -> Txn] /\ txns'[t] = y /\ \A u \in Txns \ {t} : txns'[u] = txns[u]
    BY <2>1, <2>4, Written
  <2>6. /\ Mine(t)' = Mine(t) /\ RowsOf(t)' = RowsOf(t)
        /\ Holds(t)' /\ LogOf(t)' = LogOf(t) /\ ToGo(t)' = ToSet(Tail(x.todo))
    BY <1>1, <2>2, <2>3, <2>4, <2>5 DEF Mine, Holds, RowsOf, LogOf, ToGo
  <2>. QED
    BY <1>1, <1>2, <1>3, <1>4, <1>8, <2>1, <2>2, <2>3, <2>4, <2>5, <2>6
<1>. QED
  BY <1>7, <1>8

LEMMA AdvanceSound ==
  ASSUME TypeOK, Sound, NEW t \in Txns, Advance(t)
  PROVE  TypeOK' /\ Sound'
<1>. DEFINE x == txns[t]
            s == x.read.step
            id == Len(RowsOf(t)) + 1
<1>1. /\ s \in Steps /\ QuestFree(t)
      /\ UNCHANGED <<events, committed, quest, rows, applied, paid, stale, skipped>>
      /\ txns' \in [Txns -> Txn] /\ \A u \in Txns \ {t} : txns'[u] = txns[u]
      /\ txns'[t].pc = "look" /\ txns'[t].event = x.event
      /\ txns'[t].draft.applied = x.draft.applied
      /\ x.todo \in Seq(Pairs) /\ x.todo # << >>
      /\ Holds(t)' /\ LogOf(t)' = LogOf(t)
  BY AdvanceFacts
<1>2. s < Final =>
        /\ s + 1 \in Steps /\ id \in Nat /\ id \notin DOMAIN RowsOf(t)
        /\ Mine(t)' = Put(Mine(t), id, Fresh(s + 1))
        /\ RowsOf(t)' = Over(Put(Mine(t), id, Fresh(s + 1)), rows)
        /\ ToGo(t)' = ToSet(CatchUp(s + 1, LogOf(t))) \cup ToSet(Tail(x.todo))
        /\ before' = Begins(s + 1, t)
  BY AdvanceFacts
<1>3. ~(s < Final) =>
        /\ Mine(t)' = Mine(t) /\ RowsOf(t)' = RowsOf(t)
        /\ ToGo(t)' = ToSet(Tail(x.todo)) /\ before' = before
  BY AdvanceFacts
<1>4. ToSet(Tail(x.todo)) \subseteq ToGo(t)
  BY <1>1, ListItems DEF ToGo
<1>5. /\ before' \in [Steps -> [log : SUBSET Nat, flying : SUBSET Nat]]
      /\ \A q \in Steps : before'[q].log \subseteq DOMAIN events
  <2>1. CASE s < Final
    BY <1>2, <2>1, BeginsFacts
  <2>2. CASE ~(s < Final)
    BY <1>3, <2>2 DEF TypeOK, Sound, Logged
  <2>. QED
    BY <2>1, <2>2
<1>6. TypeOK'
  BY <1>1, <1>5 DEF TypeOK
<1>7. \A p \in ToGo(t)' : p[1] \in LogOf(t)
  <2>1. \A p \in ToGo(t) : p[1] \in LogOf(t)
    BY DEF Sound, Logged, LoggedBy
  <2>2. CASE s < Final
    <3>1. \A p \in ToSet(CatchUp(s + 1, LogOf(t))) : p[1] \in LogOf(t)
      BY <1>2, <2>2, LogFacts, CatchUpItems
    <3>. QED
      BY <1>2, <1>4, <2>1, <2>2, <3>1
  <2>3. CASE ~(s < Final)
    BY <1>3, <1>4, <2>1, <2>3
  <2>. QED
    BY <2>2, <2>3
<1>. HIDE DEF id
<1>8. RowsOf(t)' \in Seq(Row)
  <2>1. CASE s < Final
    <3>1. Over(Mine(t), rows) \in Seq(Row) /\ id = Len(Over(Mine(t), rows)) + 1
      BY ViewTypes DEF Mine, RowsOf, id
    <3>2. Fresh(s + 1) \in Row
      BY <1>2, <2>1, FreshFacts
    <3>3. Over(Put(Mine(t), id, Fresh(s + 1)), rows) \in Seq(Row)
      BY <3>1, <3>2, AddedRow
    <3>. QED
      BY <1>2, <2>1, <3>3
  <2>2. CASE ~(s < Final)
    BY <1>3, <2>2, ViewTypes
  <2>. QED
    BY <2>1, <2>2
<1>9. KeptBy(t)' /\ \A u \in Txns \ {t} : DOMAIN Mine(t)' \cap DOMAIN Mine(u) = {}
  <2>1. KeptBy(t) /\ \A u \in Txns \ {t} : DOMAIN Mine(t) \cap DOMAIN Mine(u) = {}
    BY DEF Sound, Kept, Locks
  <2>2. CASE s < Final
    <3>1. /\ DOMAIN Mine(t)' = DOMAIN Mine(t) \cup {id} /\ Mine(t)'[id] = Fresh(s + 1)
          /\ \A q \in DOMAIN Mine(t) \ {id} : Mine(t)'[q] = Mine(t)[q]
      BY <1>2, <2>2 DEF Put
    <3>2. id \notin DOMAIN rows /\ id \notin DOMAIN Mine(t) /\ ~Fresh(s + 1).claimed
      BY <1>2, <2>2, ViewFacts DEF Fresh
    <3>3. KeptBy(t)'
      BY <1>1, <2>1, <3>1, <3>2 DEF KeptBy
    <3>4. \A u \in Txns \ {t} : DOMAIN Mine(u) \subseteq DOMAIN rows
      BY <1>1 DEF QuestFree, Others, Sound, Locks, Holds
    <3>. QED
      BY <2>1, <3>1, <3>2, <3>3, <3>4
  <2>3. CASE ~(s < Final)
    <3>1. KeptBy(t)'
      BY <1>1, <1>3, <2>1, <2>3 DEF KeptBy
    <3>. QED
      BY <1>3, <2>1, <2>3, <3>1
  <2>. QED
    BY <2>2, <2>3
<1>10. HeldBy(t)'
  BY <1>1 DEF HeldBy
<1>11. LoggedBy(t)'
  BY <1>1, <1>7 DEF LoggedBy, Sound, Logged
<1>12. Sound'
  <2>1. \A u \in Txns \ {t} : ~Holds(u)
    BY <1>1 DEF QuestFree, Others, Holds
  <2>2. \A q \in Steps : before'[q].log \subseteq DOMAIN events'
    BY <1>1, <1>5
  <2>3. \A u \in Txns \ {t} : txns'[t].event = txns[u].event => txns[u].event = 0
    BY <1>1 DEF Sound, Logged
  <2>. QED
    BY <1>1, <1>8, <1>9, <1>10, <1>11, <2>1, <2>2, <2>3, SoundLocal
<1>. QED
  BY <1>6, <1>12

\* What a session is left with when its evaluation, or itself, fails.
LEMMA GivenUp ==
  ASSUME TypeOK, Sound, NEW t \in Txns, Swallow(t) \/ Abort(t)
  PROVE  /\ txns' \in [Txns -> Txn] /\ \A u \in Txns \ {t} : txns'[u] = txns[u]
         /\ UNCHANGED <<events, committed, quest, rows, applied, paid, stale, before>>
         /\ txns'[t].draft = NoDraft /\ txns'[t].todo = << >>
         /\ \/ txns'[t] = Resting /\ skipped' = skipped
            \/ /\ txns'[t].pc = "look" /\ txns'[t].event = txns[t].event
               /\ skipped' = skipped \cup {txns[t].event}
         /\ Mine(t)' = << >> /\ ~Holds(t)' /\ ToGo(t)' = {} /\ RowsOf(t)' = rows
<1>1. txns[t].event \in Nat
  BY TxnFacts
<1>2. CASE Swallow(t)
  <2>. DEFINE y == [Resting EXCEPT !.pc = "look", !.event = txns[t].event]
  <2>1. /\ txns' = [txns EXCEPT ![t] = y] /\ skipped' = skipped \cup {txns[t].event}
        /\ UNCHANGED <<events, committed, quest, rows, applied, paid, stale, before>>
    BY <1>2 DEF Swallow
  <2>2. /\ y \in Txn /\ y.pc = "look" /\ y.event = txns[t].event /\ y.todo = << >> /\ y.draft = NoDraft
    BY <1>1, RestingFacts DEF Resting, Txn
  <2>. HIDE DEF y
  <2>3. txns' \in [Txns -> Txn] /\ txns'[t] = y /\ \A u \in Txns \ {t} : txns'[u] = txns[u]
    BY <2>1, <2>2, Written
  <2>4. Mine(t)' = << >> /\ ~Holds(t)' /\ ToGo(t)' = {}
    BY <2>2, <2>3, RestingFacts, NoItems DEF Mine, Holds, ToGo
  <2>5. RowsOf(t)' = rows
    BY <2>1, <2>4, RowFacts, NothingOver DEF RowsOf, Mine
  <2>. QED
    BY <2>1, <2>2, <2>3, <2>4, <2>5
<1>3. CASE Abort(t)
  <2>1. /\ txns' = [txns EXCEPT ![t] = Resting]
        /\ UNCHANGED <<events, committed, quest, rows, applied, paid, stale, before, skipped>>
    BY <1>3 DEF Abort, history
  <2>2. txns' \in [Txns -> Txn] /\ txns'[t] = Resting /\ \A u \in Txns \ {t} : txns'[u] = txns[u]
    BY <2>1, RestingFacts, Written
  <2>3. Mine(t)' = << >> /\ ~Holds(t)' /\ ToGo(t)' = {}
    BY <2>2, RestingFacts, NoItems DEF Mine, Holds, ToGo
  <2>4. RowsOf(t)' = rows
    BY <2>1, <2>3, RowFacts, NothingOver DEF RowsOf, Mine
  <2>. QED
    BY <2>1, <2>2, <2>3, <2>4, RestingFacts
<1>. QED
  BY <1>2, <1>3

LEMMA GiveUpSound ==
  ASSUME TypeOK, Sound, NEW t \in Txns, Swallow(t) \/ Abort(t)
  PROVE  TypeOK' /\ Sound'
<1>1. /\ txns' \in [Txns -> Txn] /\ \A u \in Txns \ {t} : txns'[u] = txns[u]
      /\ UNCHANGED <<events, committed, quest, rows, applied, paid, stale, before>>
      /\ txns'[t].draft = NoDraft
      /\ \/ txns'[t] = Resting /\ skipped' = skipped
         \/ /\ txns'[t].pc = "look" /\ txns'[t].event = txns[t].event
            /\ skipped' = skipped \cup {txns[t].event}
      /\ Mine(t)' = << >> /\ ~Holds(t)' /\ ToGo(t)' = {} /\ RowsOf(t)' = rows
  BY GivenUp
<1>2. txns'[t].event \in {0, txns[t].event} /\ txns[t].event \in Nat
  BY <1>1, RestingFacts, TxnFacts
<1>3. TypeOK'
  BY <1>1, <1>2 DEF TypeOK
<1>4. DOMAIN Mine(t)' = {}
  BY <1>1
<1>5. KeptBy(t)'
  BY <1>4 DEF KeptBy
<1>6. HeldBy(t)'
  BY <1>1, RestingFacts DEF HeldBy
<1>7. LoggedBy(t)'
  BY <1>1, <1>2, RestingFacts DEF LoggedBy, Sound, Logged
<1>8. \A u \in Txns \ {t} : txns'[t].event = txns[u].event => txns[u].event = 0
  BY <1>2 DEF Sound, Logged
<1>9. \A s \in Steps : before'[s].log \subseteq DOMAIN events'
  BY <1>1 DEF Sound, Logged
<1>10. Sound'
  BY <1>1, <1>4, <1>5, <1>6, <1>7, <1>8, <1>9, RowFacts, SoundLocal
<1>. QED
  BY <1>3, <1>10

\* What a claim begins with.
LEMMA LockFacts ==
  ASSUME TypeOK, Sound, NEW t \in Txns, NEW r \in DOMAIN rows, LockStep(t, r)
  PROVE  /\ txns' \in [Txns -> Txn] /\ \A u \in Txns \ {t} : txns'[u] = txns[u]
         /\ UNCHANGED <<events, committed, quest, rows, applied, paid, stale, before, skipped>>
         /\ txns[t] = Resting /\ RowFree(t, r) /\ rows[r].done /\ ~rows[r].claimed
         /\ txns'[t] = [Resting EXCEPT !.pc = "grant", !.read = txns'[t].read,
                          !.draft = [NoDraft EXCEPT !.rows = Put(<< >>, r, rows[r])]]
         /\ txns'[t].pc = "grant" /\ txns'[t].event = 0 /\ txns'[t].draft.applied = {}
         /\ txns'[t].draft.quest = Unassigned
         /\ txns'[t].read = [id |-> r, step |-> rows[r].step, val |-> rows[r].val]
         /\ Mine(t)' = Put(<< >>, r, rows[r]) /\ DOMAIN Mine(t)' = {r} /\ Mine(t)'[r] = rows[r]
         /\ ~Holds(t)' /\ ToGo(t)' = {} /\ RowsOf(t)' = rows
<1>. DEFINE rd == [id |-> r, step |-> rows[r].step, val |-> rows[r].val]
            d == [NoDraft EXCEPT !.rows = Put(@, r, rows[r])]
            y == [Resting EXCEPT !.pc = "grant", !.read = rd, !.draft = d]
<1>1. /\ txns' = [txns EXCEPT ![t] = y] /\ RowFree(t, r) /\ txns[t].pc = "idle"
      /\ rows[r].done /\ ~rows[r].claimed
      /\ UNCHANGED <<events, committed, quest, rows, applied, paid, stale, before, skipped>>
  BY DEF LockStep, history
<1>2. rows[r] \in Row /\ rows[r].step \in Nat /\ rows[r].val \in Nat /\ r \in Nat
  BY RowFacts, StepsAreFinite
<1>3. /\ d \in Draft /\ d.rows = Put(<< >>, r, rows[r]) /\ d.applied = {} /\ d.quest = Unassigned
      /\ d = [NoDraft EXCEPT !.rows = Put(<< >>, r, rows[r])]
  <2>1. Put(NoDraft.rows, r, rows[r]) \in Tables
    BY <1>2, RestingFacts, TypedTable
  <2>. QED
    BY <2>1, RestingFacts DEF NoDraft, Draft
<1>. HIDE DEF d
<1>4. rd \in [id : Nat, step : Nat, val : Nat]
  BY <1>2
<1>. HIDE DEF rd
<1>5. y \in Txn /\ y.pc = "grant" /\ y.event = 0 /\ y.todo = << >> /\ y.read = rd /\ y.draft = d
  BY <1>3, <1>4, RestingFacts DEF Resting, Txn
<1>6. y = [Resting EXCEPT !.pc = "grant", !.read = y.read, !.draft = d]
  BY <1>5
<1>. HIDE DEF y
<1>7. txns' \in [Txns -> Txn] /\ txns'[t] = y /\ \A u \in Txns \ {t} : txns'[u] = txns[u]
  BY <1>1, <1>5, Written
<1>8. Mine(t)' = Put(<< >>, r, rows[r]) /\ ~Holds(t)' /\ ToGo(t)' = {}
  BY <1>3, <1>5, <1>7, NoItems DEF Mine, Holds, ToGo
<1>9. DOMAIN Mine(t)' = {r} /\ Mine(t)'[r] = rows[r]
  BY <1>8 DEF Put
<1>10. RowsOf(t)' = rows
  <2>1. DOMAIN RowsOf(t)' = DOMAIN rows /\ \A q \in DOMAIN rows : RowsOf(t)'[q] = rows[q]
    BY <1>1, <1>9 DEF RowsOf, Over, Mine
  <2>2. RowsOf(t)' = [q \in DOMAIN RowsOf(t)' |-> RowsOf(t)'[q]]
    BY DEF RowsOf, Over
  <2>3. rows = [q \in DOMAIN rows |-> rows[q]]
    BY RowFacts
  <2>. QED
    BY <2>1, <2>2, <2>3
<1>11. txns[t] = Resting
  BY <1>1, IdleFacts
<1>. QED
  BY <1>1, <1>3, <1>5, <1>6, <1>7, <1>8, <1>9, <1>10, <1>11 DEF rd

LEMMA LockStepSound ==
  ASSUME TypeOK, Sound, NEW t \in Txns, NEW r \in DOMAIN rows, LockStep(t, r)
  PROVE  TypeOK' /\ Sound'
<1>1. /\ txns' \in [Txns -> Txn] /\ \A u \in Txns \ {t} : txns'[u] = txns[u]
      /\ UNCHANGED <<events, committed, quest, rows, applied, paid, stale, before, skipped>>
      /\ RowFree(t, r) /\ rows[r].done /\ ~rows[r].claimed
      /\ txns'[t] = [Resting EXCEPT !.pc = "grant", !.read = txns'[t].read,
                       !.draft = [NoDraft EXCEPT !.rows = Put(<< >>, r, rows[r])]]
      /\ txns'[t].pc = "grant" /\ txns'[t].event = 0 /\ txns'[t].draft.applied = {}
      /\ txns'[t].read = [id |-> r, step |-> rows[r].step, val |-> rows[r].val]
      /\ DOMAIN Mine(t)' = {r} /\ Mine(t)'[r] = rows[r]
      /\ ~Holds(t)' /\ ToGo(t)' = {} /\ RowsOf(t)' = rows
  BY LockFacts
<1>2. TypeOK'
  BY <1>1 DEF TypeOK
<1>3. KeptBy(t)'
  BY <1>1, RowFacts DEF KeptBy
<1>4. HeldBy(t)'
  <2>1. /\ txns'[t].read.id = r /\ txns'[t].read.step = rows[r].step
    BY <1>1
  <2>. QED
    BY <1>1, <2>1 DEF HeldBy
<1>5. LoggedBy(t)'
  BY <1>1 DEF LoggedBy
<1>6. \A u \in Txns \ {t} : DOMAIN Mine(t)' \cap DOMAIN Mine(u) = {}
  BY <1>1 DEF RowFree, Others, Mine
<1>7. \A s \in Steps : before'[s].log \subseteq DOMAIN events'
  BY <1>1 DEF Sound, Logged
<1>8. Sound'
  BY <1>1, <1>3, <1>4, <1>5, <1>6, <1>7, RowFacts, SoundLocal
<1>. QED
  BY <1>2, <1>8

\* What a commit does, in the words of the invariants.
LEMMA CommitFacts ==
  ASSUME TypeOK, Sound, NEW t \in Txns, Commit(t)
  PROVE  /\ txns' \in [Txns -> Txn] /\ \A u \in Txns \ {t} : txns'[u] = txns[u]
         /\ txns'[t] = Resting /\ txns[t].pc = "look" /\ ToGo(t) = {}
         /\ UNCHANGED <<events, paid, stale, skipped>>
         /\ committed' = LogOf(t) /\ quest' = QuestOf(t) /\ rows' = RowsOf(t) /\ before' = Begun(t)
         /\ applied' = applied \cup txns[t].draft.applied
         /\ Mine(t)' = << >> /\ ~Holds(t)' /\ ToGo(t)' = {} /\ RowsOf(t)' = RowsOf(t)
         /\ \A u \in Txns \ {t} :
              /\ Mine(u)' = Mine(u) /\ (Holds(u)' <=> Holds(u)) /\ ToGo(u)' = ToGo(u)
              /\ DOMAIN Mine(u) \cap DOMAIN Mine(t) = {}
              /\ DOMAIN RowsOf(u)' = DOMAIN Mine(u) \cup DOMAIN RowsOf(t)
              /\ \A r \in DOMAIN Mine(u) : RowsOf(u)'[r] = Mine(u)[r]
              /\ \A r \in DOMAIN RowsOf(t) \ DOMAIN Mine(u) : RowsOf(u)'[r] = RowsOf(t)[r]
<1>1. /\ txns' = [txns EXCEPT ![t] = Resting] /\ txns[t].pc = "look" /\ txns[t].todo = << >>
      /\ UNCHANGED <<events, paid, stale, skipped>>
      /\ committed' = LogOf(t) /\ quest' = QuestOf(t) /\ rows' = RowsOf(t) /\ before' = Begun(t)
      /\ applied' = applied \cup txns[t].draft.applied
  BY DEF Commit
<1>2. txns' \in [Txns -> Txn] /\ txns'[t] = Resting /\ \A u \in Txns \ {t} : txns'[u] = txns[u]
  BY <1>1, RestingFacts, Written
<1>3. Mine(t)' = << >> /\ ~Holds(t)' /\ ToGo(t)' = {} /\ ToGo(t) = {}
  BY <1>1, <1>2, RestingFacts, NoItems DEF Mine, Holds, ToGo
<1>4. RowsOf(t)' = RowsOf(t)
  BY <1>1, <1>3, ViewTypes, NothingOver DEF RowsOf, Mine
<1>5. ASSUME NEW u \in Txns \ {t}
      PROVE  /\ Mine(u)' = Mine(u) /\ (Holds(u)' <=> Holds(u)) /\ ToGo(u)' = ToGo(u)
             /\ DOMAIN Mine(u) \cap DOMAIN Mine(t) = {}
             /\ DOMAIN RowsOf(u)' = DOMAIN Mine(u) \cup DOMAIN RowsOf(t)
             /\ \A r \in DOMAIN Mine(u) : RowsOf(u)'[r] = Mine(u)[r]
             /\ \A r \in DOMAIN RowsOf(t) \ DOMAIN Mine(u) : RowsOf(u)'[r] = RowsOf(t)[r]
  <2>1. Mine(u)' = Mine(u) /\ (Holds(u)' <=> Holds(u)) /\ ToGo(u)' = ToGo(u)
    BY <1>2 DEF Mine, Holds, ToGo
  <2>2. RowsOf(u)' = Over(Mine(u), RowsOf(t))
    BY <1>1, <2>1 DEF RowsOf, Mine
  <2>3. DOMAIN Mine(u) \cap DOMAIN Mine(t) = {}
    BY DEF Sound, Locks
  <2>. QED
    BY <2>1, <2>2, <2>3 DEF Over
<1>. QED
  BY <1>1, <1>2, <1>3, <1>4, <1>5

LEMMA CommitType ==
  ASSUME TypeOK, Sound, NEW t \in Txns, Commit(t)
  PROVE  TypeOK' /\ \A s \in Steps : before'[s].log = before[s].log
<1>1. /\ txns' \in [Txns -> Txn] /\ UNCHANGED <<events, paid, stale, skipped>>
      /\ committed' = LogOf(t) /\ quest' = QuestOf(t) /\ rows' = RowsOf(t) /\ before' = Begun(t)
      /\ applied' = applied \cup txns[t].draft.applied
  BY CommitFacts
<1>2. quest' \in Quest
  BY <1>1, TxnFacts DEF QuestOf, TypeOK
<1>3. /\ before' \in [Steps -> [log : SUBSET Nat, flying : SUBSET Nat]]
      /\ \A s \in Steps : before'[s].log = before[s].log
  <2>1. before \in [Steps -> [log : SUBSET Nat, flying : SUBSET Nat]]
    BY DEF TypeOK
  <2>2. DOMAIN events \subseteq Nat
    BY RowFacts
  <2>3. \A s \in Steps :
          /\ before'[s] = before[s] \/ before'[s] = [before[s] EXCEPT !.flying = DOMAIN events \ before[s].log]
          /\ before[s] \in [log : SUBSET Nat, flying : SUBSET Nat]
    BY <1>1, <2>1 DEF Begun
  <2>4. ASSUME NEW s \in Steps
        PROVE  before'[s] \in [log : SUBSET Nat, flying : SUBSET Nat] /\ before'[s].log = before[s].log
    <3>. DEFINE f == DOMAIN events \ before[s].log
    <3>1. f \in SUBSET Nat
      BY <2>2
    <3>. HIDE DEF f
    <3>2. before'[s] = before[s] \/ before'[s] = [before[s] EXCEPT !.flying = f]
      BY <2>3 DEF f
    <3>. QED
      BY <2>3, <3>1, <3>2
  <2>5. before' = [s \in Steps |-> before'[s]]
    BY <1>1 DEF Begun
  <2>. QED
    BY <2>4, <2>5
<1>4. TypeOK'
  BY <1>1, <1>2, <1>3, ViewTypes, LogFacts, TxnFacts DEF TypeOK
<1>. QED
  BY <1>3, <1>4

LEMMA CommitSound ==
  ASSUME TypeOK, Sound, NEW t \in Txns, Commit(t)
  PROVE  Sound'
<1>1. /\ \A u \in Txns \ {t} : txns'[u] = txns[u]
      /\ txns'[t] = Resting /\ txns[t].pc = "look"
      /\ UNCHANGED <<events, paid, stale, skipped>>
      /\ committed' = LogOf(t) /\ quest' = QuestOf(t) /\ rows' = RowsOf(t)
      /\ applied' = applied \cup txns[t].draft.applied
      /\ Mine(t)' = << >> /\ ~Holds(t)' /\ ToGo(t)' = {} /\ RowsOf(t)' = RowsOf(t)
  BY CommitFacts
<1>2. \A u \in Txns \ {t} :
        /\ Mine(u)' = Mine(u) /\ (Holds(u)' <=> Holds(u)) /\ ToGo(u)' = ToGo(u)
        /\ DOMAIN Mine(u) \cap DOMAIN Mine(t) = {}
        /\ DOMAIN RowsOf(u)' = DOMAIN Mine(u) \cup DOMAIN RowsOf(t)
        /\ \A r \in DOMAIN Mine(u) : RowsOf(u)'[r] = Mine(u)[r]
        /\ \A r \in DOMAIN RowsOf(t) \ DOMAIN Mine(u) : RowsOf(u)'[r] = RowsOf(t)[r]
  BY CommitFacts
<1>3. DOMAIN Mine(t)' = {} /\ DOMAIN RowsOf(t) = DOMAIN Mine(t) \cup DOMAIN rows
  <2>1. DOMAIN Mine(t)' = {}
    BY <1>1
  <2>. QED
    BY <2>1, ViewFacts
<1>4. /\ KeptBy(t)
      /\ \A r \in DOMAIN rows :
           /\ r \in DOMAIN RowsOf(t) /\ RowsOf(t)[r].step = rows[r].step
           /\ RowsOf(t)[r].claimed = rows[r].claimed /\ (rows[r].done => RowsOf(t)[r].done)
      /\ \A r \in DOMAIN RowsOf(t) \ DOMAIN rows : ~RowsOf(t)[r].claimed
  <2>1. KeptBy(t)
    BY DEF Sound, Kept
  <2>. QED
    BY <2>1, ViewFacts DEF KeptBy
<1>5. Locks'
  <2>1. ASSUME NEW u \in Txns, NEW w \in Txns, u # w
        PROVE  DOMAIN Mine(u)' \cap DOMAIN Mine(w)' = {}
    <3>1. /\ u # t => Mine(u)' = Mine(u)
          /\ w # t => Mine(w)' = Mine(w)
      BY <1>2
    <3>2. DOMAIN Mine(u) \cap DOMAIN Mine(w) = {}
      BY <2>1 DEF Sound, Locks
    <3>. QED
      BY <1>3, <3>1, <3>2
  <2>2. ASSUME NEW u \in Txns, NEW w \in Txns, Holds(u)', Holds(w)' PROVE u = w
    BY <1>1, <1>2, <2>2 DEF Sound, Locks
  <2>3. ASSUME NEW u \in Txns, ~Holds(u)' PROVE DOMAIN Mine(u)' \subseteq DOMAIN rows'
    BY <1>1, <1>2, <1>3, <2>3 DEF Sound, Locks
  <2>4. ASSUME NEW u \in Txns PROVE RowsOf(u)' \in Seq(Row)
    <3>1. CASE u = t
      BY <1>1, <3>1, ViewTypes
    <3>2. CASE u # t
      <4>1. DOMAIN RowsOf(u)' = DOMAIN RowsOf(t) \/ DOMAIN RowsOf(u)' = DOMAIN RowsOf(u)
        <5>1. CASE Holds(t)
          BY <1>2, <1>3, <3>2, <5>1 DEF Sound, Locks
        <5>2. CASE ~Holds(t)
          <6>1. DOMAIN RowsOf(t) = DOMAIN rows
            BY <1>3, <5>2 DEF Sound, Locks
          <6>. QED
            BY <1>2, <3>2, <6>1, ViewFacts
        <5>. QED
          BY <5>1, <5>2
      <4>2. PICK n \in Nat : DOMAIN RowsOf(u)' = 1..n
        <5>1. RowsOf(u) \in Seq(Row) /\ RowsOf(t) \in Seq(Row)
          BY ViewTypes
        <5>2. /\ DOMAIN RowsOf(u) = 1..Len(RowsOf(u)) /\ Len(RowsOf(u)) \in Nat
              /\ DOMAIN RowsOf(t) = 1..Len(RowsOf(t)) /\ Len(RowsOf(t)) \in Nat
          BY <5>1
        <5>. QED
          BY <4>1, <5>2
      <4>3. \A r \in DOMAIN RowsOf(u)' : RowsOf(u)'[r] \in Row
        <5>1. \A r \in DOMAIN Mine(u) : Mine(u)[r] \in Row
          BY TxnFacts, TableFacts
        <5>. QED
          BY <1>2, <3>2, <5>1, ViewTypes
      <4>4. RowsOf(u)' = [r \in DOMAIN RowsOf(u)' |-> RowsOf(u)'[r]]
        BY DEF RowsOf, Over
      <4>. QED
        BY <4>2, <4>3, <4>4, Listing
    <3>. QED
      BY <3>1, <3>2
  <2>5. quest' = Unassigned => rows' = << >>
    <3>1. SUFFICES ASSUME QuestOf(t) = Unassigned PROVE RowsOf(t) = << >>
      BY <1>1
    <3>2. DOMAIN RowsOf(t) = {}
      BY <3>1, QuestSeen
    <3>. QED
      BY <3>2, ViewTypes
  <2>. QED
    BY <2>1, <2>2, <2>3, <2>4, <2>5 DEF Locks
<1>6. Kept'
  <2>1. ASSUME NEW u \in Txns \ {t} PROVE KeptBy(u)'
    <3>1. KeptBy(u)
      BY DEF Sound, Kept
    <3>2. ASSUME NEW r \in DOMAIN Mine(u)
          PROVE  /\ r \in DOMAIN rows' <=> r \in DOMAIN rows
                 /\ r \in DOMAIN rows => rows'[r] = rows[r]
      BY <1>1, <1>2, <1>3, ViewFacts
    <3>. QED
      BY <1>2, <3>1, <3>2 DEF KeptBy
  <2>2. KeptBy(t)'
    BY <1>3 DEF KeptBy
  <2>. QED
    BY <2>1, <2>2 DEF Kept
<1>7. Held'
  <2>1. HeldBy(t)'
    BY <1>1, RestingFacts DEF HeldBy
  <2>2. ASSUME NEW u \in Txns \ {t} PROVE HeldBy(u)'
    <3>. DEFINE x == txns[u]
    <3>1. HeldBy(u) /\ txns'[u] = x
      BY <1>1 DEF Sound, Held
    <3>2. ASSUME x.read.id \in DOMAIN RowsOf(u), RowsOf(u)[x.read.id].step = x.read.step
          PROVE  x.read.id \in DOMAIN RowsOf(u)' /\ RowsOf(u)'[x.read.id].step = x.read.step
      <4>1. CASE x.read.id \in DOMAIN Mine(u)
        <5>1. RowsOf(u)[x.read.id] = Mine(u)[x.read.id]
          BY <4>1, ViewFacts
        <5>2. x.read.id \in DOMAIN RowsOf(u)' /\ RowsOf(u)'[x.read.id] = Mine(u)[x.read.id]
          BY <1>2, <4>1
        <5>. QED
          BY <3>2, <5>1, <5>2
      <4>2. CASE x.read.id \notin DOMAIN Mine(u)
        <5>1. x.read.id \in DOMAIN rows /\ rows[x.read.id].step = x.read.step
          BY <3>2, <4>2, ViewFacts
        <5>2. RowsOf(t)[x.read.id].step = x.read.step /\ x.read.id \in DOMAIN RowsOf(t)
          BY <1>4, <5>1
        <5>. QED
          BY <1>2, <4>2, <5>2
      <4>. QED
        BY <4>1, <4>2
    <3>3. ASSUME x.pc = "grant"
          PROVE  x.read.id \in DOMAIN rows' /\ rows'[x.read.id] = rows[x.read.id]
      <4>1. x = [Resting EXCEPT !.pc = "grant", !.read = x.read,
                   !.draft = [NoDraft EXCEPT !.rows = Put(<< >>, x.read.id, rows[x.read.id])]]
            /\ x.read.id \in DOMAIN rows
        BY <3>1, <3>3 DEF HeldBy
      <4>2. x.draft.rows = Put(<< >>, x.read.id, rows[x.read.id])
        BY <4>1 DEF Resting, NoDraft
      <4>3. x.read.id \in DOMAIN Mine(u)
        BY <4>2 DEF Mine, Put
      <4>. QED
        BY <1>1, <1>2, <1>3, <4>1, <4>3, ViewFacts, ZenonT(60)
    <3>4. Mine(u)' = Mine(u)
      BY <1>2
    <3>. QED
      BY <3>1, <3>2, <3>3, <3>4 DEF HeldBy
  <2>. QED
    BY <2>1, <2>2 DEF Held
<1>8. Logged'
  <2>1. committed' \subseteq DOMAIN events' /\ committed \subseteq committed'
    BY <1>1, LogFacts
  <2>2. \A s \in Steps : before'[s].log \subseteq DOMAIN events'
    BY <1>1, CommitType DEF Sound, Logged
  <2>3. \A p \in applied' : p[1] \in committed'
    BY <1>1, <2>1 DEF Sound, Logged, LoggedBy
  <2>4. LoggedBy(t)'
    BY <1>1, RestingFacts DEF LoggedBy
  <2>5. ASSUME NEW u \in Txns \ {t} PROVE LoggedBy(u)'
    <3>1. LoggedBy(u) /\ txns'[u] = txns[u] /\ ToGo(u)' = ToGo(u) /\ (Holds(u)' <=> Holds(u))
      BY <1>1, <1>2 DEF Sound, Logged
    <3>2. txns[u].event # 0 => txns[u].event \notin committed'
      BY <1>1, <3>1, LogFacts DEF Sound, Logged, LoggedBy
    <3>3. LogOf(u) \subseteq LogOf(u)'
      BY <2>1, <3>1 DEF LogOf
    <3>. QED
      BY <1>1, <3>1, <3>2, <3>3 DEF LoggedBy
  <2>6. ASSUME NEW u \in Txns, NEW w \in Txns, txns'[u].event = txns'[w].event, txns'[w].event # 0
        PROVE  u = w
    BY <1>1, <2>6, RestingFacts DEF Sound, Logged
  <2>. QED
    BY <2>1, <2>2, <2>3, <2>4, <2>5, <2>6 DEF Logged
<1>9. Paid'
  <2>1. ASSUME NEW s \in Steps
        PROVE  {r \in RowsFor(s)' : rows'[r].claimed} = {r \in RowsFor(s) : rows[r].claimed}
    <3>1. ASSUME NEW r \in RowsFor(s)', rows'[r].claimed
          PROVE  r \in RowsFor(s) /\ rows[r].claimed
      BY <1>1, <1>4, <3>1 DEF RowsFor
    <3>2. ASSUME NEW r \in RowsFor(s), rows[r].claimed
          PROVE  r \in RowsFor(s)' /\ rows'[r].claimed
      BY <1>1, <1>4, <3>2 DEF RowsFor
    <3>. QED
      BY <3>1, <3>2
  <2>2. ASSUME NEW s \in Steps, NEW r \in RowsFor(s)', rows'[r].claimed
        PROVE  rows'[r].done
    <3>1. r \in RowsFor(s) /\ rows[r].claimed /\ r \in DOMAIN rows
      BY <2>1, <2>2 DEF RowsFor
    <3>2. rows[r].done
      BY <3>1 DEF Sound, Paid
    <3>. QED
      BY <1>1, <1>4, <3>1, <3>2
  <2>. QED
    BY <1>1, <2>1, <2>2 DEF Sound, Paid
<1>. QED
  BY <1>5, <1>6, <1>7, <1>8, <1>9 DEF Sound

\* What the payment of a claim does, in the words of the invariants.
LEMMA GrantFacts ==
  ASSUME TypeOK, Sound, NEW t \in Txns, Grant(t)
  PROVE  LET r == txns[t].read.id
             s == txns[t].read.step
         IN
         /\ txns' \in [Txns -> Txn] /\ \A u \in Txns \ {t} : txns'[u] = txns[u]
         /\ txns'[t] = Resting /\ ~Holds(t) /\ txns[t].event = 0
         /\ UNCHANGED <<events, committed, quest, applied, stale, before, skipped>>
         /\ r \in DOMAIN rows /\ s \in Steps /\ rows[r].step = s /\ rows[r].done /\ ~rows[r].claimed
         /\ paid' = [paid EXCEPT ![s] = @ + 1]
         /\ rows' \in Seq(Row) /\ DOMAIN rows' = DOMAIN rows
         /\ \A q \in DOMAIN rows \ {r} : rows'[q] = rows[q]
         /\ rows'[r].step = rows[r].step /\ rows'[r].val = rows[r].val
         /\ rows'[r].done = rows[r].done /\ rows'[r].claimed = TRUE
         /\ Mine(t)' = << >> /\ ~Holds(t)' /\ ToGo(t)' = {} /\ RowsOf(t)' = rows'
         /\ \A u \in Txns \ {t} :
              /\ Mine(u)' = Mine(u) /\ (Holds(u)' <=> Holds(u)) /\ ToGo(u)' = ToGo(u)
              /\ r \notin DOMAIN Mine(u) /\ DOMAIN RowsOf(u)' = DOMAIN RowsOf(u)
              /\ \A q \in DOMAIN RowsOf(u) \ {r} : RowsOf(u)'[q] = RowsOf(u)[q]
              /\ RowsOf(u)'[r] = rows'[r] /\ RowsOf(u)[r] = rows[r]
<1>. DEFINE r == txns[t].read.id
            s == txns[t].read.step
<1>1. /\ txns' = [txns EXCEPT ![t] = Resting] /\ txns[t].pc = "grant"
      /\ UNCHANGED <<events, committed, quest, applied, stale, before, skipped>>
      /\ paid' = [paid EXCEPT ![s] = @ + 1] /\ rows' = [rows EXCEPT ![r].claimed = TRUE]
  BY DEF Grant, history
<1>2. /\ txns[t] = [Resting EXCEPT !.pc = "grant", !.read = txns[t].read,
                      !.draft = [NoDraft EXCEPT !.rows = Put(<< >>, r, rows[r])]]
      /\ r \in DOMAIN rows /\ rows[r].step = s /\ rows[r].done /\ ~rows[r].claimed
  BY <1>1 DEF Sound, Held, HeldBy
<1>3. txns[t].draft.rows = Put(<< >>, r, rows[r]) /\ txns[t].draft.quest = Unassigned /\ txns[t].event = 0
  <2>. DEFINE rd == txns[t].read
              v == Put(<< >>, r, rows[r])
  <2>1. txns[t] = [Resting EXCEPT !.pc = "grant", !.read = rd, !.draft = [NoDraft EXCEPT !.rows = v]]
    BY <1>2
  <2>. HIDE DEF rd, v
  <2>2. txns[t].draft.rows = v /\ txns[t].draft.quest = Unassigned /\ txns[t].event = 0
    BY <2>1 DEF Resting, NoDraft
  <2>. QED
    BY <2>2 DEF v
<1>4. r \in DOMAIN Mine(t) /\ ~Holds(t)
  BY <1>3 DEF Mine, Put, Holds
<1>5. txns' \in [Txns -> Txn] /\ txns'[t] = Resting /\ \A u \in Txns \ {t} : txns'[u] = txns[u]
  BY <1>1, RestingFacts, Written
<1>6. rows \in Seq(Row) /\ rows[r] \in Row /\ s \in Steps
  BY <1>2, RowFacts
<1>7. /\ rows' \in Seq(Row) /\ DOMAIN rows' = DOMAIN rows
      /\ \A q \in DOMAIN rows \ {r} : rows'[q] = rows[q]
      /\ rows'[r].step = rows[r].step /\ rows'[r].val = rows[r].val
      /\ rows'[r].done = rows[r].done /\ rows'[r].claimed = TRUE
  <2>. DEFINE row == [rows[r] EXCEPT !.claimed = TRUE]
  <2>1. /\ row \in Row /\ row.step = rows[r].step /\ row.val = rows[r].val
        /\ row.done = rows[r].done /\ row.claimed = TRUE
    BY <1>6 DEF Row
  <2>2. rows' = [rows EXCEPT ![r] = row]
    BY <1>1
  <2>. HIDE DEF row
  <2>3. rows' \in Seq(Row) /\ DOMAIN rows' = DOMAIN rows
    BY <1>2, <1>6, <2>1, <2>2
  <2>4. rows'[r] = row /\ \A q \in DOMAIN rows \ {r} : rows'[q] = rows[q]
    BY <1>2, <2>2
  <2>. QED
    BY <2>1, <2>3, <2>4
<1>8. Mine(t)' = << >> /\ ~Holds(t)' /\ ToGo(t)' = {}
  BY <1>5, RestingFacts, NoItems DEF Mine, Holds, ToGo
<1>9. RowsOf(t)' = rows'
  BY <1>7, <1>8, NothingOver DEF RowsOf, Mine
<1>10. ASSUME NEW u \in Txns \ {t}
       PROVE  /\ Mine(u)' = Mine(u) /\ (Holds(u)' <=> Holds(u)) /\ ToGo(u)' = ToGo(u)
              /\ r \notin DOMAIN Mine(u) /\ DOMAIN RowsOf(u)' = DOMAIN RowsOf(u)
              /\ \A q \in DOMAIN RowsOf(u) \ {r} : RowsOf(u)'[q] = RowsOf(u)[q]
              /\ RowsOf(u)'[r] = rows'[r] /\ RowsOf(u)[r] = rows[r]
  <2>1. Mine(u)' = Mine(u) /\ (Holds(u)' <=> Holds(u)) /\ ToGo(u)' = ToGo(u)
    BY <1>5 DEF Mine, Holds, ToGo
  <2>2. r \notin DOMAIN Mine(u)
    BY <1>4 DEF Sound, Locks
  <2>3. RowsOf(u)' = Over(Mine(u), rows') /\ RowsOf(u) = Over(Mine(u), rows)
    BY <2>1 DEF RowsOf, Mine
  <2>. QED
    BY <1>2, <1>7, <2>1, <2>2, <2>3 DEF Over
<1>. QED
  BY <1>1, <1>2, <1>3, <1>4, <1>5, <1>6, <1>7, <1>8, <1>9, <1>10

LEMMA GrantSound ==
  ASSUME TypeOK, Sound, NEW t \in Txns, Grant(t)
  PROVE  TypeOK' /\ Sound'
<1>0. PICK r, s : r = txns[t].read.id /\ s = txns[t].read.step
  OBVIOUS
<1>1. /\ txns' \in [Txns -> Txn] /\ \A u \in Txns \ {t} : txns'[u] = txns[u]
      /\ txns'[t] = Resting
      /\ UNCHANGED <<events, committed, quest, applied, stale, before, skipped>>
      /\ r \in DOMAIN rows /\ s \in Steps /\ rows[r].step = s /\ rows[r].done /\ ~rows[r].claimed
      /\ paid' = [paid EXCEPT ![s] = @ + 1]
  BY <1>0, GrantFacts
<1>2. /\ rows' \in Seq(Row) /\ DOMAIN rows' = DOMAIN rows
      /\ \A q \in DOMAIN rows \ {r} : rows'[q] = rows[q]
      /\ rows'[r].step = rows[r].step /\ rows'[r].val = rows[r].val
      /\ rows'[r].done = rows[r].done /\ rows'[r].claimed = TRUE
  BY <1>0, GrantFacts
<1>3. Mine(t)' = << >> /\ ~Holds(t)' /\ ToGo(t)' = {} /\ RowsOf(t)' = rows'
  BY <1>0, GrantFacts
<1>4. \A u \in Txns \ {t} :
        /\ Mine(u)' = Mine(u) /\ (Holds(u)' <=> Holds(u)) /\ ToGo(u)' = ToGo(u)
        /\ r \notin DOMAIN Mine(u) /\ DOMAIN RowsOf(u)' = DOMAIN RowsOf(u)
        /\ \A q \in DOMAIN RowsOf(u) \ {r} : RowsOf(u)'[q] = RowsOf(u)[q]
        /\ RowsOf(u)'[r] = rows'[r] /\ RowsOf(u)[r] = rows[r]
  <2>. DEFINE id == txns[t].read.id
  <2>1. \A u \in Txns \ {t} :
          /\ Mine(u)' = Mine(u) /\ (Holds(u)' <=> Holds(u)) /\ ToGo(u)' = ToGo(u)
          /\ id \notin DOMAIN Mine(u) /\ DOMAIN RowsOf(u)' = DOMAIN RowsOf(u)
          /\ \A q \in DOMAIN RowsOf(u) \ {id} : RowsOf(u)'[q] = RowsOf(u)[q]
          /\ RowsOf(u)'[id] = rows'[id] /\ RowsOf(u)[id] = rows[id]
    BY GrantFacts
  <2>2. id = r
    BY <1>0
  <2>. HIDE DEF id
  <2>. QED
    BY <2>1, <2>2
<1>5. paid \in [Steps -> Nat] /\ paid'[s] = paid[s] + 1 /\ \A q \in Steps \ {s} : paid'[q] = paid[q]
  BY <1>1 DEF TypeOK
<1>6. TypeOK'
  <2>1. paid' \in [Steps -> Nat]
    BY <1>1, <1>5
  <2>. QED
    BY <1>1, <1>2, <2>1 DEF TypeOK
<1>7. DOMAIN Mine(t)' = {}
  BY <1>3
<1>8. Locks'
  <2>1. ASSUME NEW u \in Txns, NEW w \in Txns, u # w
        PROVE  DOMAIN Mine(u)' \cap DOMAIN Mine(w)' = {}
    <3>1. /\ u # t => Mine(u)' = Mine(u)
          /\ w # t => Mine(w)' = Mine(w)
      BY <1>4
    <3>2. DOMAIN Mine(u) \cap DOMAIN Mine(w) = {}
      BY <2>1 DEF Sound, Locks
    <3>. QED
      BY <1>7, <3>1, <3>2
  <2>2. ASSUME NEW u \in Txns, NEW w \in Txns, Holds(u)', Holds(w)' PROVE u = w
    BY <1>3, <1>4, <2>2 DEF Sound, Locks
  <2>3. ASSUME NEW u \in Txns, ~Holds(u)' PROVE DOMAIN Mine(u)' \subseteq DOMAIN rows'
    BY <1>2, <1>4, <1>7, <2>3 DEF Sound, Locks
  <2>4. ASSUME NEW u \in Txns PROVE RowsOf(u)' \in Seq(Row)
    <3>1. CASE u = t
      BY <1>2, <1>3, <3>1
    <3>2. CASE u # t
      <4>1. RowsOf(u) \in Seq(Row) /\ r \in Nat
        BY <1>1, ViewTypes, RowFacts
      <4>2. PICK n \in Nat : DOMAIN RowsOf(u)' = 1..n
        BY <1>4, <3>2, <4>1
      <4>3. rows'[r] \in Row
        BY <1>1, <1>2
      <4>4. \A q \in DOMAIN RowsOf(u)' : RowsOf(u)'[q] \in Row
        BY <1>4, <3>2, <4>1, <4>3
      <4>5. RowsOf(u)' = [q \in DOMAIN RowsOf(u)' |-> RowsOf(u)'[q]]
        BY DEF RowsOf, Over
      <4>. QED
        BY <4>2, <4>4, <4>5, Listing
    <3>. QED
      BY <3>1, <3>2
  <2>5. quest' = Unassigned => rows' = << >>
    <3>1. quest # Unassigned
      <4>1. SUFFICES ASSUME quest = Unassigned PROVE FALSE
        OBVIOUS
      <4>2. rows = << >>
        BY <4>1 DEF Sound, Locks
      <4>. QED
        BY <1>1, <4>2
    <3>. QED
      BY <1>1, <3>1
  <2>. QED
    BY <2>1, <2>2, <2>3, <2>4, <2>5 DEF Locks
<1>9. Kept'
  <2>1. ASSUME NEW u \in Txns \ {t} PROVE KeptBy(u)'
    <3>1. KeptBy(u) /\ Mine(u)' = Mine(u) /\ r \notin DOMAIN Mine(u)
      BY <1>4 DEF Sound, Kept
    <3>. QED
      BY <1>2, <3>1 DEF KeptBy
  <2>2. KeptBy(t)'
    BY <1>7 DEF KeptBy
  <2>. QED
    BY <2>1, <2>2 DEF Kept
<1>10. Held'
  <2>1. HeldBy(t)'
    BY <1>1, RestingFacts DEF HeldBy
  <2>2. ASSUME NEW u \in Txns \ {t} PROVE HeldBy(u)'
    <3>. DEFINE x == txns[u]
    <3>1. HeldBy(u) /\ txns'[u] = x /\ Mine(u)' = Mine(u)
      BY <1>1, <1>4 DEF Sound, Held
    <3>2. ASSUME NEW q \in DOMAIN RowsOf(u)
          PROVE  q \in DOMAIN RowsOf(u)' /\ RowsOf(u)'[q].step = RowsOf(u)[q].step
      BY <1>2, <1>4, <3>2
    <3>3. ASSUME x.pc = "grant"
          PROVE  x.read.id \in DOMAIN rows' /\ rows'[x.read.id] = rows[x.read.id]
      <4>1. x = [Resting EXCEPT !.pc = "grant", !.read = x.read,
                   !.draft = [NoDraft EXCEPT !.rows = Put(<< >>, x.read.id, rows[x.read.id])]]
            /\ x.read.id \in DOMAIN rows
        BY <3>1, <3>3 DEF HeldBy
      <4>2. x.draft.rows = Put(<< >>, x.read.id, rows[x.read.id])
        BY <4>1 DEF Resting, NoDraft
      <4>3. x.read.id \in DOMAIN Mine(u)
        BY <4>2 DEF Mine, Put
      <4>4. x.read.id # r
        BY <1>4, <4>3
      <4>. QED
        BY <1>2, <4>1, <4>4
    <3>. QED
      BY <3>1, <3>2, <3>3 DEF HeldBy
  <2>. QED
    BY <2>1, <2>2 DEF Held
<1>11. Logged'
  <2>1. LoggedBy(t)'
    BY <1>1, <1>3, RestingFacts DEF LoggedBy
  <2>2. ASSUME NEW u \in Txns \ {t} PROVE LoggedBy(u)'
    BY <1>1, <1>4 DEF LoggedBy, LogOf, Sound, Logged
  <2>3. ASSUME NEW u \in Txns, NEW w \in Txns, txns'[u].event = txns'[w].event, txns'[w].event # 0
        PROVE  u = w
    BY <1>1, <2>3, RestingFacts DEF Sound, Logged
  <2>. QED
    BY <1>1, <2>1, <2>2, <2>3 DEF Sound, Logged
<1>12. Paid'
  <2>. DEFINE C(q) == {p \in RowsFor(q) : rows[p].claimed}
  <2>1. ASSUME NEW q \in Steps, q # s PROVE C(q)' = C(q)
    BY <1>1, <1>2, <2>1 DEF RowsFor
  <2>2. C(s)' = C(s) \cup {r} /\ r \notin C(s)
    <3>1. r \notin C(s)
      BY <1>1
    <3>2. r \in C(s)'
      BY <1>1, <1>2 DEF RowsFor
    <3>3. ASSUME NEW p, p # r PROVE p \in C(s)' <=> p \in C(s)
      BY <1>2, <3>3 DEF RowsFor
    <3>. HIDE DEF C
    <3>. QED
      BY <3>1, <3>2, <3>3
  <2>3. IsFiniteSet(C(s))
    <3>1. IsFiniteSet(DOMAIN rows)
      BY RowFacts, FS_Interval
    <3>2. C(s) \subseteq DOMAIN rows
      BY DEF RowsFor
    <3>. QED
      BY <3>1, <3>2, FS_Subset
  <2>4. \A q \in Steps : paid[q] = Cardinality(C(q))
    BY DEF Sound, Paid
  <2>5. ASSUME NEW q \in Steps, NEW p \in RowsFor(q)', rows'[p].claimed PROVE rows'[p].done
    <3>1. CASE p = r
      BY <1>1, <1>2, <3>1
    <3>2. CASE p # r
      <4>1. p \in RowsFor(q) /\ rows[p].claimed /\ rows'[p] = rows[p]
        BY <1>2, <2>5, <3>2 DEF RowsFor
      <4>. QED
        BY <4>1 DEF Sound, Paid
    <3>. QED
      BY <3>1, <3>2
  <2>. HIDE DEF C
  <2>6. Cardinality(C(s)') = Cardinality(C(s)) + 1
    BY <2>2, <2>3, FS_AddElement
  <2>7. \A q \in Steps : paid'[q] = Cardinality(C(q)')
    BY <1>1, <1>5, <2>1, <2>4, <2>6
  <2>. QED
    BY <2>5, <2>7 DEF Paid, C
<1>. QED
  BY <1>6, <1>8, <1>9, <1>10, <1>11, <1>12 DEF Sound

\* Every step keeps what is sound.
LEMMA NextSound ==
  ASSUME TypeOK, Sound, [Next]_vars
  PROVE  TypeOK' /\ Sound'
<1>1. CASE UNCHANGED vars
  <2>1. UNCHANGED <<events, committed, quest, rows, applied, txns, paid, stale, before, skipped>>
    BY <1>1 DEF vars, history
  <2>2. TypeOK'
    BY <2>1 DEF TypeOK
  <2>3. Locks' /\ Kept'
    BY <2>1, SMTT(40) DEF Sound, Locks, Kept, KeptBy, Mine, Holds, RowsOf
  <2>4. Held'
    BY <2>1 DEF Sound, Held, HeldBy, Mine, RowsOf
  <2>5. Logged'
    BY <2>1 DEF Sound, Logged, LoggedBy, ToGo, Holds, LogOf
  <2>6. Paid'
    BY <2>1 DEF Sound, Paid, RowsFor
  <2>. QED
    BY <2>2, <2>3, <2>4, <2>5, <2>6 DEF Sound
<1>2. CASE Next
  <2>1. PICK t \in Txns : TxnStep(t)
    BY <1>2 DEF Next
  <2>2. CASE \E kind \in Kinds : Record(t, kind)
    BY <2>2, RecordSound
  <2>3. CASE Assign(t)
    BY <2>3, AssignSound
  <2>4. CASE Pass(t)
    BY <2>4, PassSound
  <2>5. CASE Look(t)
    BY <2>5, LookSound
  <2>6. CASE Count(t)
    BY <2>6, CountSound
  <2>7. CASE Advance(t)
    BY <2>7, AdvanceSound
  <2>8. CASE Commit(t)
    BY <2>8, CommitType, CommitSound
  <2>9. CASE Swallow(t) \/ Abort(t)
    BY <2>9, GiveUpSound
  <2>10. CASE \E r \in DOMAIN rows : LockStep(t, r)
    BY <2>10, LockStepSound
  <2>11. CASE Grant(t)
    BY <2>11, GrantSound
  <2>. QED
    BY <2>1, <2>2, <2>3, <2>4, <2>5, <2>6, <2>7, <2>8, <2>9, <2>10, <2>11 DEF TxnStep
<1>. QED
  BY <1>1, <1>2

-----------------------------------------------------------------------------
(* Counts.                                                                 *)

LEMMA ViewsAre ==
  /\ rows \in Views /\ \A u \in Txns : RowsOf(u) \in Views
  /\ \A V \in Views : V = rows \/ \E u \in Txns : V = RowsOf(u)
BY DEF Views

LEMMA EventSets ==
  ASSUME TypeOK, Sound, NEW t \in Txns, NEW s \in Steps
  PROVE  /\ IsFiniteSet(Entered(s)) /\ IsFiniteSet(Drafted(t, s)) /\ IsFiniteSet(Entered(s) \cup Drafted(t, s))
         /\ Entered(s) \subseteq committed /\ Drafted(t, s) \subseteq LogOf(t)
         /\ Cardinality(Entered(s)) \in Nat /\ Cardinality(Entered(s) \cup Drafted(t, s)) \in Nat
         /\ Cardinality(Entered(s)) <= Cardinality(Entered(s) \cup Drafted(t, s))
<1>1. Entered(s) \subseteq committed
  BY DEF Entered, Sound, Logged
<1>2. Drafted(t, s) \subseteq LogOf(t)
  BY DEF Drafted, Sound, Logged, LoggedBy
<1>3. IsFiniteSet(committed) /\ IsFiniteSet(LogOf(t))
  BY LogFacts
<1>4. IsFiniteSet(Entered(s)) /\ IsFiniteSet(Drafted(t, s))
  BY <1>1, <1>2, <1>3, FS_Subset
<1>5. IsFiniteSet(Entered(s) \cup Drafted(t, s))
  BY <1>4, FS_Union
<1>6. Cardinality(Entered(s)) <= Cardinality(Entered(s) \cup Drafted(t, s))
  BY <1>5, FS_Subset
<1>. QED
  BY <1>1, <1>2, <1>4, <1>5, <1>6, FS_CardinalityType

\* A step of one session leaves the counts of the others.
LEMMA TallyLocal ==
  ASSUME NEW t \in Txns, NEW s \in Steps, Tally(s),
         \A u \in Txns \ {t} : txns'[u] = txns[u],
         UNCHANGED <<quest, rows, applied>>,
         OneRow(s)', Reached(s)', TellingBy(t, s)', MovingBy(t, s)',
         \A u \in Txns \ {t} :
           txns[u].pc = "advance" /\ txns[u].read.step = s => \A V \in Views' : In(V, s + 1) = {}
  PROVE  Tally(s)'
<1>1. \A u \in Txns \ {t} : Mine(u)' = Mine(u)
  BY Frame
<1>2. Told(s)'
  BY DEF Tally, Told, In, Entered, Fills
<1>3. ASSUME NEW u \in Txns \ {t} PROVE TellingBy(u, s)'
  <2>1. TellingBy(u, s) /\ Mine(u)' = Mine(u) /\ txns'[u] = txns[u]
    BY <1>1 DEF Tally
  <2>2. /\ Entered(s)' = Entered(s) /\ Drafted(u, s)' = Drafted(u, s)
        /\ (Counting(u, s)' <=> Counting(u, s)) /\ In(Mine(u), s)' = In(Mine(u), s)
    BY <2>1 DEF Entered, Drafted, Counting, In
  <2>. QED
    BY <2>1, <2>2 DEF TellingBy, Fills
<1>4. ASSUME NEW u \in Txns \ {t} PROVE MovingBy(u, s)'
  <2>1. MovingBy(u, s) /\ Mine(u)' = Mine(u) /\ txns'[u] = txns[u]
    BY <1>1 DEF Tally
  <2>2. In(Mine(u), s)' = In(Mine(u), s)
    BY <2>1 DEF In
  <2>. QED
    BY <2>1, <2>2 DEF MovingBy
<1>. QED
  BY <1>2, <1>3, <1>4 DEF Tally

LEMMA FewerViews ==
  ASSUME NEW s \in Steps, OneRow(s), Reached(s), Views' \subseteq Views
  PROVE  OneRow(s)' /\ Reached(s)'
BY DEF OneRow, Reached, In

LEMMA FewerSeen ==
  ASSUME NEW t \in Txns, NEW s \in Steps, Tally(s),
         \A u \in Txns \ {t} : txns'[u] = txns[u], UNCHANGED <<quest, rows, applied>>,
         RowsOf(t)' \in Views, TellingBy(t, s)', MovingBy(t, s)'
  PROVE  Tally(s)'
<1>1. \A u \in Txns \ {t} : RowsOf(u)' = RowsOf(u)
  BY Frame
<1>2. Views' \subseteq Views
  BY <1>1 DEF Views
<1>3. OneRow(s)' /\ Reached(s)'
  BY <1>2, FewerViews DEF Tally
<1>4. \A u \in Txns \ {t} :
        txns[u].pc = "advance" /\ txns[u].read.step = s => \A V \in Views' : In(V, s + 1) = {}
  BY <1>2 DEF Tally, MovingBy
<1>. QED
  BY <1>3, <1>4, TallyLocal

\* A session with nothing drafted.
LEMMA QuietTally ==
  ASSUME NEW t \in Txns, NEW s \in Steps, DOMAIN Mine(t)' = {}, txns'[t].draft.applied = {},
         ~Holds(t)', txns'[t].pc \notin {"count", "advance"}
  PROVE  TellingBy(t, s)' /\ MovingBy(t, s)'
<1>1. In(Mine(t), s)' = {} /\ Drafted(t, s)' = {} /\ ~Counting(t, s)'
  BY DEF In, Drafted, Counting
<1>2. txns'[t].draft.quest # [status |-> "active", step |-> s]
  BY DEF Holds, Unassigned
<1>. QED
  BY <1>1, <1>2 DEF TellingBy, MovingBy

LEMMA RecordTally ==
  ASSUME TypeOK, Sound, NEW t \in Txns, NEW kind \in Kinds, Record(t, kind),
         NEW s \in Steps, Tally(s)
  PROVE  Tally(s)'
<1>1. /\ UNCHANGED <<quest, rows, applied>> /\ txns[t].pc = "idle"
      /\ txns' = [txns EXCEPT ![t] =
           [Resting EXCEPT !.pc = "look", !.event = Len(events) + 1, !.todo = Subscribed(Len(events) + 1, kind)]]
  BY DEF Record
<1>2. txns'[t].pc = "look" /\ txns'[t].draft = NoDraft /\ \A u \in Txns \ {t} : txns'[u] = txns[u]
  BY <1>1 DEF TypeOK, Resting
<1>3. DOMAIN Mine(t)' = {} /\ ~Holds(t)' /\ txns'[t].draft.applied = {} /\ Mine(t)' = << >>
  BY <1>2, RestingFacts DEF Mine, Holds
<1>4. RowsOf(t)' = rows
  BY <1>1, <1>3, RowFacts, NothingOver DEF RowsOf, Mine
<1>5. TellingBy(t, s)' /\ MovingBy(t, s)'
  BY <1>2, <1>3, QuietTally
<1>. QED
  BY <1>1, <1>2, <1>4, <1>5, ViewsAre, FewerSeen

LEMMA GiveUpTally ==
  ASSUME TypeOK, Sound, NEW t \in Txns, Swallow(t) \/ Abort(t), NEW s \in Steps, Tally(s)
  PROVE  Tally(s)'
<1>1. /\ \A u \in Txns \ {t} : txns'[u] = txns[u]
      /\ UNCHANGED <<quest, rows, applied>> /\ txns'[t].draft = NoDraft
      /\ (txns'[t] = Resting \/ txns'[t].pc = "look")
      /\ Mine(t)' = << >> /\ ~Holds(t)' /\ RowsOf(t)' = rows
  BY GivenUp
<1>2. txns'[t].draft.applied = {} /\ txns'[t].pc \notin {"count", "advance"}
  BY <1>1, RestingFacts
<1>3. DOMAIN Mine(t)' = {}
  BY <1>1
<1>4. TellingBy(t, s)' /\ MovingBy(t, s)'
  BY <1>1, <1>2, <1>3, QuietTally
<1>. QED
  BY <1>1, <1>4, ViewsAre, FewerSeen

LEMMA PassTally ==
  ASSUME TypeOK, Sound, NEW t \in Txns, Pass(t), NEW s \in Steps, Tally(s)
  PROVE  Tally(s)'
<1>1. /\ UNCHANGED <<quest, rows, applied>> /\ txns[t].pc = "look"
      /\ txns' = [txns EXCEPT ![t].todo = Tail(@)]
  BY DEF Pass
<1>2. txns \in [Txns -> Txn]
  BY DEF TypeOK
<1>3. /\ txns'[t].pc = "look" /\ txns'[t].draft = txns[t].draft
      /\ txns'[t].read = txns[t].read /\ txns'[t].event = txns[t].event
      /\ \A u \in Txns \ {t} : txns'[u] = txns[u]
  BY <1>1, <1>2 DEF Txn
<1>4. Mine(t)' = Mine(t) /\ RowsOf(t)' = RowsOf(t)
  BY <1>1, <1>3 DEF Mine, RowsOf
<1>5. /\ Entered(s)' = Entered(s) /\ Drafted(t, s)' = Drafted(t, s)
      /\ (Counting(t, s)' <=> Counting(t, s)) /\ In(Mine(t), s)' = In(Mine(t), s)
  BY <1>1, <1>3, <1>4 DEF Entered, Drafted, Counting, In
<1>6. TellingBy(t, s)'
  <2>1. TellingBy(t, s)
    BY DEF Tally
  <2>. QED
    BY <1>1, <1>3, <1>4, <1>5, <2>1 DEF TellingBy, Fills
<1>7. MovingBy(t, s)'
  BY <1>1, <1>3, <1>4, <1>5 DEF MovingBy, Tally
<1>. QED
  BY <1>1, <1>3, <1>4, <1>6, <1>7, ViewsAre, FewerSeen

LEMMA LockStepTally ==
  ASSUME TypeOK, Sound, NEW t \in Txns, NEW r \in DOMAIN rows, LockStep(t, r),
         NEW s \in Steps, Tally(s)
  PROVE  Tally(s)'
<1>1. /\ \A u \in Txns \ {t} : txns'[u] = txns[u]
      /\ UNCHANGED <<quest, rows, applied>>
      /\ txns'[t].pc = "grant" /\ txns'[t].draft.applied = {} /\ txns'[t].draft.quest = Unassigned
      /\ DOMAIN Mine(t)' = {r} /\ Mine(t)'[r] = rows[r] /\ RowsOf(t)' = rows
  BY LockFacts
<1>2. TellingBy(t, s)'
  <2>1. ~Counting(t, s)' /\ Drafted(t, s)' = {} /\ Entered(s)' = Entered(s)
    BY <1>1 DEF Counting, Drafted, Entered
  <2>2. ASSUME NEW q \in In(Mine(t), s)'
        PROVE  Fills(Mine(t)[q], s)' /\ Mine(t)'[q].val = Cardinality(Entered(s))
    <3>1. q = r /\ r \in In(rows, s) /\ Mine(t)'[q] = rows[r]
      BY <1>1, <2>2 DEF In
    <3>. QED
      BY <3>1 DEF Tally, Told, Fills
  <2>. QED
    BY <2>1, <2>2 DEF TellingBy
<1>3. MovingBy(t, s)'
  BY <1>1 DEF MovingBy, Unassigned
<1>. QED
  BY <1>1, <1>2, <1>3, ViewsAre, FewerSeen

\* The row a session reads is the one it has drafted, or nobody's draft of the
\* step is its own: what it evaluates then is its own event.
LEMMA LookTally ==
  ASSUME TypeOK, Sound, NEW t \in Txns, Look(t), NEW s \in Steps, Tally(s)
  PROVE  Tally(s)'
<1>. DEFINE x == txns[t]
<1>1. PICK e, q, r :
        /\ e = Head(x.todo)[1] /\ q = Head(x.todo)[2] /\ r \in Candidates(t, q)
        /\ txns' = [txns EXCEPT
             ![t].pc = "count",
             ![t].read = [id |-> r, step |-> q, val |-> RowsOf(t)[r].val],
             ![t].draft.applied = @ \cup {<<e, q>>}]
        /\ ~Seen(t, e, q)
  BY DEF Look
<1>2. /\ x.pc = "look" /\ x.todo # << >> /\ UNCHANGED <<events, committed, quest, rows, applied>>
  BY DEF Look
<1>3. txns \in [Txns -> Txn]
  BY DEF TypeOK
<1>4. /\ txns'[t].pc = "count" /\ txns'[t].event = x.event
      /\ txns'[t].read = [id |-> r, step |-> q, val |-> RowsOf(t)[r].val]
      /\ txns'[t].draft.quest = x.draft.quest /\ txns'[t].draft.rows = x.draft.rows
      /\ txns'[t].draft.applied = x.draft.applied \cup {<<e, q>>}
      /\ \A u \in Txns \ {t} : txns'[u] = txns[u]
  BY <1>1, <1>3 DEF Txn, Draft
<1>5. Mine(t)' = Mine(t) /\ RowsOf(t)' = RowsOf(t)
  BY <1>2, <1>4 DEF Mine, RowsOf
<1>6. /\ Head(x.todo) \in ToGo(t) /\ Head(x.todo) \in Pairs /\ Head(x.todo) = <<e, q>>
      /\ e \in Nat /\ q \in Steps
  <2>1. Head(x.todo) \in ToGo(t) /\ Head(x.todo) \in Pairs
    BY <1>2, TxnFacts, ListItems DEF ToGo
  <2>. QED
    BY <1>1, <2>1 DEF Pairs
<1>7. /\ QuestOf(t) = [status |-> "active", step |-> q]
      /\ r \in DOMAIN RowsOf(t) /\ RowsOf(t)[r].step = q /\ ~RowsOf(t)[r].done
  BY <1>1 DEF Candidates
<1>8. MovingBy(t, s)'
  <2>1. MovingBy(t, s) /\ In(Mine(t), s)' = In(Mine(t), s)
    BY <1>5 DEF Tally, In
  <2>. QED
    BY <1>2, <1>4, <1>5, <2>1 DEF MovingBy
<1>9. TellingBy(t, s) /\ ~Counting(t, s) /\ Entered(s)' = Entered(s) /\ In(Mine(t), s)' = In(Mine(t), s)
  BY <1>2, <1>5 DEF Tally, Counting, Entered, In
<1>10. CASE q # s
  <2>1. Drafted(t, s)' = Drafted(t, s) /\ ~Counting(t, s)'
    BY <1>4, <1>10 DEF Drafted, Counting
  <2>2. TellingBy(t, s)'
    <3>1. \A p \in In(Mine(t), s) :
            Fills(Mine(t)[p], s) /\ Mine(t)[p].val = Cardinality(Entered(s) \cup Drafted(t, s))
      BY <1>9 DEF TellingBy
    <3>2. In(Mine(t), s) = {} => Drafted(t, s) = {}
      BY <1>9 DEF TellingBy
    <3>3. \A p \in In(Mine(t), s)' :
            /\ Fills(Mine(t)[p], s)'
            /\ Mine(t)'[p].val = Cardinality((Entered(s) \cup Drafted(t, s))')
      BY <1>5, <1>9, <2>1, <3>1 DEF Fills
    <3>. QED
      BY <1>9, <2>1, <3>2, <3>3 DEF TellingBy
  <2>. QED
    BY <1>2, <1>4, <1>5, <1>8, <2>2, ViewsAre, FewerSeen
<1>11. CASE q = s
  <2>1. Drafted(t, s)' = Drafted(t, s) \cup {e} /\ Counting(t, s)'
    BY <1>4, <1>6, <1>11 DEF Drafted, Counting
  <2>2. txns'[t].read.id = r /\ txns'[t].read.val = RowsOf(t)[r].val
    BY <1>4
  <2>. DEFINE both == Entered(s) \cup Drafted(t, s)
  <2>3. e \notin both
    BY <1>1, <1>6, <1>11 DEF Seen, Entered, Drafted
  <2>4. both' = both \cup {e}
    BY <1>9, <2>1
  <2>5. IsFiniteSet(both)
    BY EventSets
  <2>6. Cardinality(both') = Cardinality(both) + 1
    BY <2>3, <2>4, <2>5, FS_AddElement
  <2>7. r \in In(RowsOf(t), s) /\ OneRow(s)
    BY <1>7, <1>11 DEF In, Tally
  <2>8. ASSUME NEW p \in In(Mine(t), s)
        PROVE  p = r /\ RowsOf(t)[r] = Mine(t)[r]
    <3>1. p \in In(RowsOf(t), s) /\ p \in DOMAIN Mine(t)
      BY <2>8, ViewFacts DEF In
    <3>2. p = r
      BY <2>7, <3>1, ViewsAre DEF OneRow
    <3>. QED
      BY <3>1, <3>2, ViewFacts
  <2>9. ASSUME NEW p \in In(Mine(t), s)
        PROVE  /\ Fills(Mine(t)[p], s) /\ Mine(t)[p].val + 1 = Cardinality(both')
               /\ ~Mine(t)[p].done /\ RowsOf(t)[r].val = Mine(t)[p].val
    <3>1. Fills(Mine(t)[p], s) /\ Mine(t)[p].val = Cardinality(both)
      BY <1>9, <2>9 DEF TellingBy
    <3>. QED
      BY <1>7, <2>6, <2>8, <3>1
  <2>10. ASSUME In(Mine(t), s) = {}
         PROVE  /\ Drafted(t, s)' = {x.event} /\ x.event # 0
                /\ RowsOf(t)[r].val <= rows[r].val
    <3>1. Drafted(t, s) = {}
      BY <1>9, <2>10 DEF TellingBy
    <3>2. ~Holds(t)
      <4>1. SUFFICES ASSUME Holds(t) PROVE FALSE
        OBVIOUS
      <4>2. x.draft.quest = [status |-> "active", step |-> s]
        BY <1>7, <1>11, <4>1 DEF Holds, QuestOf
      <4>. QED
        BY <2>10, <4>2 DEF Tally, MovingBy
    <3>3. e = x.event
      BY <1>6, <3>2 DEF Sound, Logged, LoggedBy
    <3>4. e # 0
      <4>1. e \in LogOf(t)
        BY <1>6 DEF Sound, Logged, LoggedBy
      <4>. QED
        BY <4>1, LogFacts
    <3>5. r \notin DOMAIN Mine(t)
      BY <1>7, <1>11, <2>10, ViewFacts DEF In
    <3>6. RowsOf(t)[r] = rows[r] /\ RowsOf(t)[r].val \in Nat
      BY <1>7, <3>5, ViewFacts, ViewTypes
    <3>. QED
      BY <2>1, <3>1, <3>3, <3>4, <3>6
  <2>11. TellingBy(t, s)'
    <3>1. \A p \in In(Mine(t), s)' : 
            /\ Fills(Mine(t)[p], s)'
            /\ Mine(t)'[p].val + 1 = Cardinality(both')
            /\ ~Mine(t)'[p].done /\ txns'[t].read.val = Mine(t)'[p].val
      BY <1>5, <1>9, <2>2, <2>9 DEF Fills
    <3>2. In(Mine(t), s)' = {} =>
            /\ Drafted(t, s)' = {txns'[t].event} /\ txns'[t].event # 0
            /\ txns'[t].read.val <= rows'[txns'[t].read.id].val
      BY <1>2, <1>4, <1>9, <2>2, <2>10
    <3>. QED
      BY <2>1, <3>1, <3>2 DEF TellingBy
  <2>. QED
    BY <1>2, <1>4, <1>5, <1>8, <2>11, ViewsAre, FewerSeen
<1>. QED
  BY <1>10, <1>11, SMTT(40)

LEMMA CountTally ==
  ASSUME TypeOK, Sound, NEW t \in Txns, Count(t), NEW s \in Steps, Tally(s), Undisturbed(s)'
  PROVE  Tally(s)'
<1>. DEFINE x == txns[t]
<1>1. PICK r, q, full, row :
        /\ r = x.read.id /\ q = x.read.step /\ (full <=> x.read.val + 1 >= Target[q])
        /\ x.pc = "count" /\ q \in Steps /\ r \in DOMAIN RowsOf(t) /\ RowsOf(t)[r].step = q
        /\ row \in Row /\ row.step = q /\ row.val = x.read.val + 1
        /\ (row.done <=> RowsOf(t)[r].done \/ full) /\ RowFree(t, r)
        /\ stale' = (IF RowsOf(t)[r].val = x.read.val /\ ~RowsOf(t)[r].done THEN stale
                     ELSE stale \cup {q})
        /\ txns'[t].pc = (IF full THEN "advance" ELSE "look")
        /\ Mine(t)' = Put(Mine(t), r, row) /\ RowsOf(t)' = Over(Put(Mine(t), r, row), rows)
  <2>. DEFINE r0 == x.read.id
              q0 == x.read.step
              full0 == x.read.val + 1 >= Target[q0]
              row0 == [RowsOf(t)[r0] EXCEPT !.val = x.read.val + 1, !.done = @ \/ full0]
  <2>1. /\ r0 = x.read.id /\ q0 = x.read.step /\ (full0 <=> x.read.val + 1 >= Target[q0])
        /\ x.pc = "count" /\ q0 \in Steps /\ r0 \in DOMAIN RowsOf(t) /\ RowsOf(t)[r0].step = q0
        /\ row0 \in Row /\ row0.step = q0 /\ row0.val = x.read.val + 1
        /\ (row0.done <=> RowsOf(t)[r0].done \/ full0) /\ RowFree(t, r0)
        /\ stale' = (IF RowsOf(t)[r0].val = x.read.val /\ ~RowsOf(t)[r0].done THEN stale
                     ELSE stale \cup {q0})
        /\ txns'[t].pc = (IF full0 THEN "advance" ELSE "look")
        /\ Mine(t)' = Put(Mine(t), r0, row0) /\ RowsOf(t)' = Over(Put(Mine(t), r0, row0), rows)
    BY CountFacts
  <2>. HIDE DEF r0, q0, full0, row0
  <2>. QED
    BY <2>1
<1>2. /\ x.pc = "count" /\ q \in Steps /\ r \in DOMAIN RowsOf(t) /\ RowsOf(t)[r].step = q
      /\ row \in Row /\ row.step = q /\ row.val = x.read.val + 1
      /\ (row.done <=> RowsOf(t)[r].done \/ full) /\ RowFree(t, r)
      /\ stale' = (IF RowsOf(t)[r].val = x.read.val /\ ~RowsOf(t)[r].done THEN stale
                   ELSE stale \cup {q})
  BY <1>1, SMTT(40)
<1>3. /\ UNCHANGED <<events, committed, quest, rows, applied>>
      /\ \A u \in Txns \ {t} : txns'[u] = txns[u]
      /\ txns'[t].pc = (IF full THEN "advance" ELSE "look")
      /\ txns'[t].event = x.event /\ txns'[t].read = x.read
      /\ txns'[t].draft.quest = x.draft.quest /\ txns'[t].draft.applied = x.draft.applied
      /\ Mine(t)' = Put(Mine(t), r, row) /\ RowsOf(t)' = Over(Put(Mine(t), r, row), rows)
  BY <1>1, CountFacts
<1>4. x.read.val \in Nat /\ r \in Nat
  BY <1>1, TxnFacts
<1>5. /\ DOMAIN Mine(t)' = DOMAIN Mine(t) \cup {r} /\ Mine(t)'[r] = row
      /\ \A p \in DOMAIN Mine(t) \ {r} : Mine(t)'[p] = Mine(t)[p]
  BY <1>3, SMTT(40) DEF Put
<1>6. /\ DOMAIN RowsOf(t)' = DOMAIN RowsOf(t) /\ RowsOf(t)'[r] = row
      /\ \A p \in DOMAIN RowsOf(t) \ {r} : RowsOf(t)'[p] = RowsOf(t)[p]
  BY <1>2, <1>3 DEF Put, Over, RowsOf, Mine
<1>7. \A p \in DOMAIN RowsOf(t) :
        /\ RowsOf(t)'[p].step = RowsOf(t)[p].step
        /\ RowsOf(t)[p].done => RowsOf(t)'[p].done
  BY <1>2, <1>6
<1>8. \A u \in Txns \ {t} : RowsOf(u)' = RowsOf(u) /\ Mine(u)' = Mine(u)
  BY <1>3, Frame
<1>9. \A V \in Views' : \E W \in Views :
        /\ DOMAIN V = DOMAIN W
        /\ \A p \in DOMAIN V : V[p].step = W[p].step /\ (W[p].done => V[p].done)
  <2>1. SUFFICES ASSUME NEW V \in Views'
                 PROVE  \E W \in Views :
                          /\ DOMAIN V = DOMAIN W
                          /\ \A p \in DOMAIN V : V[p].step = W[p].step /\ (W[p].done => V[p].done)
    OBVIOUS
  <2>2. CASE V \in Views
    BY <2>2
  <2>3. CASE V \notin Views
    <3>1. V = RowsOf(t)'
      BY <1>3, <1>8, <2>1, <2>3 DEF Views
    <3>2. RowsOf(t) \in Views
      BY ViewsAre
    <3>. QED
      BY <1>6, <1>7, <3>1, <3>2
  <2>. QED
    BY <2>2, <2>3
<1>10. \A V \in Views' : \E W \in Views :
         /\ \A p : In(V, p) = In(W, p)
         /\ \A p \in DOMAIN W : W[p].done => V[p].done
  BY <1>9 DEF In
<1>11. OneRow(s)'
  BY <1>10 DEF Tally, OneRow
<1>12. Reached(s)'
  <2>1. SUFFICES ASSUME s + 1 \in Steps, NEW V \in Views', In(V, s + 1) # {}
                 PROVE  \E p \in In(V, s) : V[p].done
    BY DEF Reached
  <2>2. PICK W \in Views : /\ \A p : In(V, p) = In(W, p)
                           /\ \A p \in DOMAIN W : W[p].done => V[p].done
    BY <1>10
  <2>3. PICK p \in In(W, s) : W[p].done
    BY <2>1, <2>2 DEF Tally, Reached
  <2>. QED
    BY <2>2, <2>3 DEF In
<1>14. (\A V \in Views : In(V, s + 1) = {}) => \A V \in Views' : In(V, s + 1) = {}
  BY <1>10
<1>15. \A u \in Txns \ {t} :
         txns[u].pc = "advance" /\ txns[u].read.step = s => \A V \in Views' : In(V, s + 1) = {}
  BY <1>14 DEF Tally, MovingBy
<1>16. /\ Entered(s)' = Entered(s) /\ Drafted(t, s)' = Drafted(t, s) /\ ~Counting(t, s)'
       /\ (Counting(t, s) <=> q = s) /\ TellingBy(t, s) /\ OneRow(s) /\ Told(s)
  BY <1>1, <1>2, <1>3 DEF Entered, Drafted, Counting, Tally
<1>17. r \in DOMAIN Mine(t) => Mine(t)[r] = RowsOf(t)[r]
  BY ViewFacts
<1>18. CASE q # s
  <2>1. In(Mine(t), s)' = In(Mine(t), s) /\ \A p \in In(Mine(t), s) : Mine(t)'[p] = Mine(t)[p]
    BY <1>2, <1>5, <1>17, <1>18 DEF In
  <2>2. \A p \in In(Mine(t), s) :
          Fills(Mine(t)[p], s) /\ Mine(t)[p].val = Cardinality(Entered(s) \cup Drafted(t, s))
    BY <1>16, <1>18 DEF TellingBy
  <2>3. In(Mine(t), s) = {} => Drafted(t, s) = {}
    BY <1>16, <1>18 DEF TellingBy
  <2>4. TellingBy(t, s)'
    <3>1. \A p \in In(Mine(t), s)' :
            /\ Fills(Mine(t)[p], s)'
            /\ Mine(t)'[p].val = Cardinality((Entered(s) \cup Drafted(t, s))')
      BY <1>16, <2>1, <2>2 DEF Fills
    <3>. QED
      BY <1>16, <2>1, <2>3, <3>1 DEF TellingBy
  <2>5. MovingBy(t, s)'
    <3>1. MovingBy(t, s)
      BY DEF Tally
    <3>. QED
      BY <1>1, <1>3, <1>18, <2>1, <3>1 DEF MovingBy
  <2>. QED
    BY <1>3, <1>11, <1>12, <1>15, <2>4, <2>5, TallyLocal
<1>19. CASE q = s
  <2>. DEFINE both == Entered(s) \cup Drafted(t, s)
  <2>1. RowsOf(t)[r].val = x.read.val /\ ~RowsOf(t)[r].done
    <3>1. SUFFICES ASSUME stale' = stale \cup {q} PROVE FALSE
      BY <1>2
    <3>2. s > s
      BY <1>19, <3>1 DEF Undisturbed
    <3>. QED
      BY <3>2, StepsAreFinite
  <2>2. r \in In(RowsOf(t), s)
    BY <1>2, <1>19 DEF In
  <2>3. ASSUME NEW p \in In(Mine(t), s) PROVE p = r
    <3>1. p \in In(RowsOf(t), s)
      BY <2>3, ViewFacts DEF In
    <3>. QED
      BY <1>16, <2>2, <3>1, ViewsAre DEF OneRow
  <2>4. Fills(RowsOf(t)[r], s) /\ Cardinality(both) = x.read.val + 1
    <3>1. CASE r \in DOMAIN Mine(t)
      <4>1. r \in In(Mine(t), s)
        BY <1>2, <1>17, <1>19, <3>1 DEF In
      <4>. QED
        BY <1>16, <1>17, <1>19, <2>1, <3>1, <4>1 DEF TellingBy
    <3>2. CASE r \notin DOMAIN Mine(t)
      <4>1. In(Mine(t), s) = {}
        BY <2>3, <3>2 DEF In
      <4>2. Drafted(t, s) = {x.event} /\ x.event # 0
        BY <1>16, <1>19, <4>1 DEF TellingBy
      <4>3. r \in In(rows, s) /\ RowsOf(t)[r] = rows[r]
        BY <1>2, <1>19, <3>2, ViewFacts DEF In
      <4>4. rows[r].val = Cardinality(Entered(s)) /\ Fills(rows[r], s)
        BY <1>16, <4>3 DEF Told
      <4>5. x.event \notin Entered(s) /\ IsFiniteSet(Entered(s))
        BY <4>2, EventSets DEF Sound, Logged, LoggedBy
      <4>6. Cardinality(Entered(s) \cup {x.event}) = Cardinality(Entered(s)) + 1
        BY <4>5, FS_AddElement
      <4>. QED
        BY <2>1, <4>2, <4>3, <4>4, <4>6
    <3>. QED
      BY <3>1, <3>2
  <2>5. Fills(row, s) /\ row.val = Cardinality(both)
    <3>1. /\ x.read.val <= Target[s] /\ x.read.val # Target[s] /\ Target[s] \in Nat
          /\ (full <=> x.read.val + 1 >= Target[s])
      BY <1>1, <1>19, <2>1, <2>4, StepsAreFinite DEF Fills
    <3>2. row.done <=> full
      BY <1>2, <2>1
    <3>. QED
      BY <1>2, <1>4, <2>4, <3>1, <3>2 DEF Fills
  <2>6. In(Mine(t), s)' = {r}
    <3>1. r \in In(Mine(t), s)'
      BY <1>2, <1>5, <1>19 DEF In
    <3>2. ASSUME NEW p \in In(Mine(t), s)', p # r PROVE FALSE
      <4>1. p \in In(Mine(t), s)
        BY <1>5, <3>2 DEF In
      <4>. QED
        BY <2>3, <3>2, <4>1
    <3>. QED
      BY <3>1, <3>2
  <2>7. TellingBy(t, s)'
    <3>1. \A p \in In(Mine(t), s)' :
            /\ Fills(Mine(t)[p], s)'
            /\ Mine(t)'[p].val = Cardinality(both')
      BY <1>5, <1>16, <2>5, <2>6 DEF Fills
    <3>. QED
      BY <1>16, <2>6, <3>1 DEF TellingBy
  <2>8. MovingBy(t, s)'
    <3>1. x.draft.quest = [status |-> "active", step |-> s] => \E p \in In(Mine(t), s)' : p \notin DOMAIN rows
      <4>1. In(Mine(t), s) \subseteq In(Mine(t), s)'
        BY <2>3, <2>6
      <4>. QED
        BY <4>1 DEF Tally, MovingBy
    <3>2. r \in DOMAIN rows => ~rows[r].done
      <4>1. SUFFICES ASSUME r \in DOMAIN rows, rows[r].done PROVE RowsOf(t)[r].done
        BY <2>1
      <4>2. KeptBy(t)
        BY DEF Sound, Kept
      <4>. QED
        BY <4>1, <4>2, ViewFacts DEF KeptBy
    <3>3. \A V \in Views : In(V, s + 1) = {}
      <4>1. SUFFICES ASSUME NEW V \in Views, In(V, s + 1) # {} PROVE FALSE
        OBVIOUS
      <4>2. s + 1 \in Steps
        <5>1. PICK p \in DOMAIN V : V[p].step = s + 1
          BY <4>1 DEF In
        <5>. QED
          BY <4>1, <5>1, ViewsAre, ViewTypes, RowFacts
      <4>3. PICK p \in In(V, s) : V[p].done
        BY <4>1, <4>2 DEF Tally, Reached
      <4>4. p = r /\ r \in DOMAIN V
        BY <1>16, <2>2, <4>1, <4>3, ViewsAre DEF OneRow, In
      <4>5. CASE V = rows
        BY <3>2, <4>3, <4>4, <4>5
      <4>6. CASE V = RowsOf(t)
        BY <2>1, <4>3, <4>4, <4>6
      <4>7. ASSUME NEW u \in Txns \ {t}, V = RowsOf(u) PROVE FALSE
        <5>1. r \notin DOMAIN Mine(u)
          BY <1>2 DEF RowFree, Others, Mine
        <5>2. r \in DOMAIN rows /\ rows[r].done
          BY <4>3, <4>4, <4>7, <5>1, ViewFacts
        <5>. QED
          BY <3>2, <5>2
      <4>. QED
        BY <4>5, <4>6, <4>7, ViewsAre
    <3>. QED
      BY <1>1, <1>3, <1>14, <3>1, <3>2, <3>3 DEF MovingBy
  <2>. QED
    BY <1>3, <1>11, <1>12, <1>15, <2>7, <2>8, TallyLocal
<1>. QED
  BY <1>18, <1>19

LEMMA AssignTally ==
  ASSUME TypeOK, Sound, NEW t \in Txns, Assign(t), NEW s \in Steps, Tally(s)
  PROVE  Tally(s)'
<1>1. PICK id :
        /\ id \notin DOMAIN RowsOf(t) /\ DOMAIN Mine(t)' = {id} /\ Mine(t)'[id] = Fresh(1)
        /\ RowsOf(t)' = Over(Put(Mine(t), id, Fresh(1)), rows)
  BY AssignFacts
<1>2. /\ UNCHANGED <<quest, rows, applied>> /\ \A u \in Txns \ {t} : txns'[u] = txns[u]
      /\ rows = << >> /\ \A u \in Txns : DOMAIN Mine(u) = {}
      /\ txns'[t].pc = "look" /\ txns'[t].draft.applied = {}
      /\ txns'[t].draft.quest = [status |-> "active", step |-> 1]
  BY AssignFacts
<1>3. DOMAIN rows = {} /\ \A u \in Txns : DOMAIN RowsOf(u) = {}
  <2>1. DOMAIN rows = {}
    BY <1>2
  <2>. QED
    BY <1>2, <2>1, ViewFacts
<1>4. DOMAIN RowsOf(t)' = {id} /\ RowsOf(t)'[id] = Fresh(1)
  BY <1>1, <1>2, <1>3 DEF Put, Over
<1>5. \A V \in Views' : DOMAIN V = {} \/ (DOMAIN V = {id} /\ V[id] = Fresh(1))
  <2>1. \A u \in Txns \ {t} : RowsOf(u)' = RowsOf(u)
    BY <1>2, Frame
  <2>. QED
    BY <1>2, <1>3, <1>4, <2>1 DEF Views
<1>6. /\ Fresh(1).step = 1 /\ Fresh(1).val = 0 /\ Fresh(1).done = FALSE
      /\ s \in Nat /\ s > 0 /\ Target[1] \in Nat /\ Target[1] > 0
  BY StepsAreFinite, FreshFacts
<1>7. \A V \in Views' : In(V, s + 1) = {} /\ \A r \in In(V, s) : r = id
  BY <1>5, <1>6 DEF In
<1>8. OneRow(s)' /\ Reached(s)'
  BY <1>7 DEF OneRow, Reached
<1>9. Entered(s) = {} /\ Entered(s)' = Entered(s) /\ Drafted(t, s)' = {} /\ ~Counting(t, s)'
  BY <1>2, <1>3 DEF Tally, Told, In, Entered, Drafted, Counting
<1>10. TellingBy(t, s)'
  <2>1. Cardinality((Entered(s) \cup Drafted(t, s))') = 0
    BY <1>9, FS_EmptySet
  <2>2. ASSUME NEW r \in In(Mine(t), s)'
        PROVE  Fills(Mine(t)[r], s)' /\ Mine(t)'[r].val = 0
    <3>1. r = id /\ s = 1
      BY <1>1, <1>6, <2>2 DEF In
    <3>. QED
      BY <1>1, <1>6, <3>1 DEF Fills
  <2>. QED
    BY <1>9, <2>1, <2>2 DEF TellingBy
<1>11. MovingBy(t, s)'
  <2>1. s = 1 => id \in In(Mine(t), s)' /\ id \notin DOMAIN rows'
    BY <1>1, <1>2, <1>3, <1>6 DEF In
  <2>2. txns'[t].draft.quest.step = 1
    BY <1>2
  <2>. QED
    BY <1>2, <2>1, <2>2 DEF MovingBy
<1>. QED
  BY <1>2, <1>7, <1>8, <1>10, <1>11, TallyLocal

LEMMA AdvanceTally ==
  ASSUME TypeOK, Sound, Tallied, NEW t \in Txns, Advance(t), NEW s \in Steps, Undisturbed(s)
  PROVE  Tally(s)'
<1>. DEFINE x == txns[t]
<1>1. PICK q, id :
        /\ q = x.read.step /\ x.pc = "advance" /\ q \in Steps
        /\ UNCHANGED <<quest, rows, applied>>
        /\ \A u \in Txns \ {t} : txns'[u] = txns[u]
        /\ txns'[t].pc = "look" /\ txns'[t].draft.applied = x.draft.applied
        /\ q < Final =>
             /\ q + 1 \in Steps /\ id \notin DOMAIN RowsOf(t)
             /\ txns'[t].draft.quest.step = q + 1
             /\ Mine(t)' = Put(Mine(t), id, Fresh(q + 1))
             /\ RowsOf(t)' = Over(Put(Mine(t), id, Fresh(q + 1)), rows)
        /\ ~(q < Final) =>
             /\ txns'[t].draft.quest.status = "completed"
             /\ Mine(t)' = Mine(t) /\ RowsOf(t)' = RowsOf(t)
  <2>. DEFINE q0 == x.read.step
              id0 == Len(RowsOf(t)) + 1
  <2>1. /\ q0 = x.read.step /\ x.pc = "advance" /\ q0 \in Steps
        /\ UNCHANGED <<quest, rows, applied>>
        /\ \A u \in Txns \ {t} : txns'[u] = txns[u]
        /\ txns'[t].pc = "look" /\ txns'[t].draft.applied = x.draft.applied
    BY AdvanceFacts
  <2>2. q0 < Final =>
          /\ q0 + 1 \in Steps /\ id0 \notin DOMAIN RowsOf(t)
          /\ txns'[t].draft.quest = [status |-> QuestOf(t).status, step |-> q0 + 1]
          /\ Mine(t)' = Put(Mine(t), id0, Fresh(q0 + 1))
          /\ RowsOf(t)' = Over(Put(Mine(t), id0, Fresh(q0 + 1)), rows)
    BY AdvanceFacts
  <2>3. ~(q0 < Final) =>
          /\ txns'[t].draft.quest = [status |-> "completed", step |-> QuestOf(t).step]
          /\ Mine(t)' = Mine(t) /\ RowsOf(t)' = RowsOf(t)
    BY AdvanceFacts
  <2>. HIDE DEF q0, id0
  <2>. QED
    BY <2>1, <2>2, <2>3
<1>2. Tally(s) /\ TellingBy(t, s) /\ ~Counting(t, s)
  BY <1>1 DEF Tallied, Tally, Counting
<1>3. /\ Entered(s)' = Entered(s) /\ Drafted(t, s)' = Drafted(t, s) /\ ~Counting(t, s)'
  BY <1>1 DEF Entered, Drafted, Counting
<1>4. /\ \A r \in In(Mine(t), s) :
           Fills(Mine(t)[r], s) /\ Mine(t)[r].val = Cardinality(Entered(s) \cup Drafted(t, s))
      /\ In(Mine(t), s) = {} => Drafted(t, s) = {}
  BY <1>2 DEF TellingBy
<1>5. x.read.id \in DOMAIN Mine(t) /\ x.read.id \in In(RowsOf(t), q) /\ RowsOf(t)[x.read.id].done
  <2>1. x.read.id \in DOMAIN Mine(t) /\ Mine(t)[x.read.id].done
        /\ x.read.id \in DOMAIN RowsOf(t) /\ RowsOf(t)[x.read.id].step = q
    BY <1>1 DEF Sound, Held, HeldBy
  <2>. QED
    BY <2>1, ViewFacts DEF In
<1>6. CASE ~(q < Final)
  <2>1. In(Mine(t), s)' = In(Mine(t), s) /\ Mine(t)' = Mine(t) /\ RowsOf(t)' = RowsOf(t)
    BY <1>1, <1>6 DEF In
  <2>2. TellingBy(t, s)'
    <3>1. \A r \in In(Mine(t), s)' :
            Fills(Mine(t)[r], s)' /\ Mine(t)'[r].val = Cardinality((Entered(s) \cup Drafted(t, s))')
      BY <1>3, <1>4, <2>1 DEF Fills
    <3>. QED
      BY <1>3, <1>4, <2>1, <3>1 DEF TellingBy
  <2>3. MovingBy(t, s)'
    <3>1. txns'[t].draft.quest # [status |-> "active", step |-> s]
      BY <1>1, <1>6
    <3>. QED
      BY <1>1, <3>1 DEF MovingBy
  <2>. QED
    BY <1>1, <1>2, <2>1, <2>2, <2>3, ViewsAre, FewerSeen
<1>7. CASE q < Final
  <2>. DEFINE row == Fresh(q + 1)
  <2>1. /\ DOMAIN Mine(t)' = DOMAIN Mine(t) \cup {id} /\ Mine(t)'[id] = row
        /\ \A r \in DOMAIN Mine(t) \ {id} : Mine(t)'[r] = Mine(t)[r]
    BY <1>1, <1>7 DEF Put
  <2>2. /\ DOMAIN RowsOf(t)' = DOMAIN RowsOf(t) \cup {id} /\ RowsOf(t)'[id] = row
        /\ \A r \in DOMAIN RowsOf(t) \ {id} : RowsOf(t)'[r] = RowsOf(t)[r]
    BY <1>1, <1>7 DEF Put, Over, RowsOf, Mine
  <2>3. /\ row.step = q + 1 /\ row.val = 0 /\ row.done = FALSE
        /\ Target[q + 1] \in Nat /\ Target[q + 1] > 0
    BY <1>1, <1>7, StepsAreFinite, FreshFacts
  <2>. HIDE DEF row
  <2>4. id \notin DOMAIN RowsOf(t) /\ id \notin DOMAIN rows /\ id \notin DOMAIN Mine(t)
    BY <1>1, <1>7, ViewFacts
  <2>5. \A u \in Txns \ {t} : RowsOf(u)' = RowsOf(u)
    BY <1>1, Frame
  <2>6. \A V \in Views' : V \in Views \/ V = RowsOf(t)'
    BY <1>1, <2>5 DEF Views
  <2>7. \A p : p # q + 1 => In(RowsOf(t)', p) = In(RowsOf(t), p) /\ In(Mine(t)', p) = In(Mine(t), p)
    BY <2>1, <2>2, <2>3, <2>4 DEF In
  <2>8. CASE s # q + 1
    <3>1. OneRow(s)'
      <4>1. \A V \in Views' : \E W \in Views : In(V, s) = In(W, s)
        BY <2>6, <2>7, <2>8, ViewsAre
      <4>. QED
        BY <1>2, <4>1 DEF Tally, OneRow
    <3>2. Reached(s)'
      <4>1. SUFFICES ASSUME s + 1 \in Steps, NEW V \in Views', In(V, s + 1) # {}
                     PROVE  \E r \in In(V, s) : V[r].done
        BY DEF Reached
      <4>2. CASE V \in Views
        BY <1>2, <4>1, <4>2 DEF Tally, Reached
      <4>3. CASE V = RowsOf(t)' /\ s = q
        <5>1. x.read.id \in In(V, s) /\ V[x.read.id] = RowsOf(t)[x.read.id]
          BY <1>5, <2>2, <2>4, <2>7, <2>8, <4>3 DEF In
        <5>. QED
          BY <1>5, <5>1
      <4>4. CASE V = RowsOf(t)' /\ s # q
        <5>1. s + 1 # q + 1
          BY <1>1, <4>4, StepsAreFinite
        <5>2. In(RowsOf(t), s + 1) # {}
          BY <2>7, <4>1, <4>4, <5>1
        <5>3. PICK r \in In(RowsOf(t), s) : RowsOf(t)[r].done
          BY <1>2, <4>1, <5>2, ViewsAre DEF Tally, Reached
        <5>4. r \in In(V, s) /\ V[r] = RowsOf(t)[r]
          BY <2>2, <2>4, <2>7, <2>8, <4>4, <5>3 DEF In
        <5>. QED
          BY <5>3, <5>4
      <4>. QED
        BY <2>6, <4>2, <4>3, <4>4
    <3>3. TellingBy(t, s)'
      <4>1. In(Mine(t), s)' = In(Mine(t), s)
        BY <2>7, <2>8
      <4>2. \A r \in In(Mine(t), s) : Mine(t)'[r] = Mine(t)[r]
        BY <2>1, <2>4 DEF In
      <4>3. \A r \in In(Mine(t), s)' :
              Fills(Mine(t)[r], s)' /\ Mine(t)'[r].val = Cardinality((Entered(s) \cup Drafted(t, s))')
        BY <1>3, <1>4, <4>1, <4>2 DEF Fills
      <4>. QED
        BY <1>3, <1>4, <4>1, <4>3 DEF TellingBy
    <3>4. MovingBy(t, s)'
      <4>1. txns'[t].draft.quest # [status |-> "active", step |-> s]
        BY <1>1, <1>7, <2>8
      <4>. QED
        BY <1>1, <4>1 DEF MovingBy
    <3>5. ASSUME NEW u \in Txns \ {t}, txns[u].pc = "advance", txns[u].read.step = s,
                 NEW V \in Views'
          PROVE  In(V, s + 1) = {}
      <4>1. \A W \in Views : In(W, s + 1) = {}
        BY <1>2, <3>5 DEF Tally, MovingBy
      <4>2. s # q
        <5>1. SUFFICES ASSUME s = q PROVE FALSE
          BY SMTT(40)
        <5>2. txns[u].read.id \in DOMAIN Mine(u) /\ txns[u].read.id \in In(RowsOf(u), s)
          BY <3>5 DEF Sound, Held, HeldBy, In
        <5>3. txns[u].read.id = x.read.id
          BY <1>2, <1>5, <5>1, <5>2, ViewsAre DEF Tally, OneRow
        <5>. QED
          BY <1>5, <5>2, <5>3 DEF Sound, Locks
      <4>3. s + 1 # q + 1
        BY <1>1, <4>2, StepsAreFinite
      <4>. QED
        BY <2>6, <2>7, <4>1, <4>3, ViewsAre
    <3>. QED
      BY <1>1, <1>2, <3>1, <3>2, <3>3, <3>4, <3>5, TallyLocal
  <2>9. CASE s = q + 1
    <3>1. Undisturbed(q)
      <4>1. \A p \in stale : p \in Nat
        BY StepsAreFinite DEF TypeOK
      <4>. QED
        BY <1>1, <2>9, <4>1, StepsAreFinite DEF Undisturbed
    <3>2. \A V \in Views : In(V, s) = {}
      BY <1>1, <2>9, <3>1 DEF Tallied, Tally, MovingBy
    <3>3. s + 1 \in Steps => \A V \in Views : In(V, s + 1) = {}
      BY <1>2, <3>2 DEF Tally, Reached
    <3>4. \A V \in Views' : \A r \in In(V, s) : r = id
      <4>1. \A r \in In(RowsOf(t)', s) : r = id
        <5>1. In(RowsOf(t), s) = {}
          BY <3>2, ViewsAre
        <5>. QED
          BY <2>2, <5>1 DEF In
      <4>. QED
        BY <2>6, <3>2, <4>1
    <3>5. s + 1 # q + 1
      BY <2>9, StepsAreFinite
    <3>6. OneRow(s)' /\ Reached(s)'
      <4>1. s + 1 \in Steps => \A V \in Views' : In(V, s + 1) = {}
        BY <2>6, <2>7, <3>3, <3>5, ViewsAre
      <4>. QED
        BY <3>4, <4>1 DEF OneRow, Reached
    <3>7. In(Mine(t), s)' = {id}
      <4>1. In(Mine(t), s) = {}
        <5>1. In(RowsOf(t), s) = {}
          BY <3>2, ViewsAre
        <5>. QED
          BY <5>1, ViewFacts DEF In
      <4>. QED
        BY <2>1, <2>3, <2>9, <4>1 DEF In
    <3>8. Entered(s) = {} /\ Drafted(t, s) = {}
      <4>1. In(rows, s) = {} /\ In(Mine(t), s) = {}
        <5>1. In(RowsOf(t), s) = {} /\ In(rows, s) = {}
          BY <3>2, ViewsAre
        <5>. QED
          BY <5>1, ViewFacts DEF In
      <4>. QED
        BY <1>2, <1>4, <4>1 DEF Tally, Told
    <3>9. TellingBy(t, s)'
      <4>1. Cardinality((Entered(s) \cup Drafted(t, s))') = 0
        BY <1>3, <3>8, FS_EmptySet
      <4>2. \A r \in In(Mine(t), s)' : Fills(Mine(t)[r], s)' /\ Mine(t)'[r].val = 0
        BY <2>1, <2>3, <2>9, <3>7 DEF Fills
      <4>. QED
        BY <1>3, <3>7, <4>1, <4>2 DEF TellingBy
    <3>10. MovingBy(t, s)'
      BY <1>1, <2>4, <3>7 DEF MovingBy
    <3>11. ASSUME NEW u \in Txns \ {t}, txns[u].pc = "advance", txns[u].read.step = s
           PROVE  FALSE
      <4>1. txns[u].read.id \in In(RowsOf(u), s)
        BY <3>11 DEF Sound, Held, HeldBy, In
      <4>. QED
        BY <3>2, <4>1, ViewsAre, SMTT(40)
    <3>. QED
      BY <1>1, <1>2, <3>6, <3>9, <3>10, <3>11, TallyLocal
  <2>. QED
    BY <2>8, <2>9
<1>. QED
  BY <1>6, <1>7

LEMMA CommitTally ==
  ASSUME TypeOK, Sound, Tallied, NEW t \in Txns, Commit(t), NEW s \in Steps, Undisturbed(s)
  PROVE  Tally(s)'
<1>0. PICK V : V = RowsOf(t)
  OBVIOUS
<1>1. /\ \A u \in Txns \ {t} : txns'[u] = txns[u]
      /\ txns'[t] = Resting /\ txns[t].pc = "look" /\ rows' = V
      /\ applied' = applied \cup txns[t].draft.applied
      /\ Mine(t)' = << >> /\ ~Holds(t)' /\ RowsOf(t)' = V
  BY <1>0, CommitFacts
<1>2. \A u \in Txns \ {t} :
        /\ Mine(u)' = Mine(u)
        /\ DOMAIN Mine(u) \cap DOMAIN Mine(t) = {}
        /\ DOMAIN RowsOf(u)' = DOMAIN Mine(u) \cup DOMAIN V
        /\ \A r \in DOMAIN Mine(u) : RowsOf(u)'[r] = Mine(u)[r]
        /\ \A r \in DOMAIN V \ DOMAIN Mine(u) : RowsOf(u)'[r] = V[r]
  <2>1. \A u \in Txns \ {t} :
          /\ Mine(u)' = Mine(u) /\ (Holds(u)' <=> Holds(u)) /\ ToGo(u)' = ToGo(u)
          /\ DOMAIN Mine(u) \cap DOMAIN Mine(t) = {}
          /\ DOMAIN RowsOf(u)' = DOMAIN Mine(u) \cup DOMAIN RowsOf(t)
          /\ \A r \in DOMAIN Mine(u) : RowsOf(u)'[r] = Mine(u)[r]
          /\ \A r \in DOMAIN RowsOf(t) \ DOMAIN Mine(u) : RowsOf(u)'[r] = RowsOf(t)[r]
    BY CommitFacts
  <2>. QED
    BY <1>0, <2>1
<1>3. Tally(s) /\ TellingBy(t, s) /\ ~Counting(t, s) /\ V \in Views /\ rows \in Views
  BY <1>0, <1>1, ViewsAre DEF Tallied, Tally, Counting
<1>4. /\ \A r \in In(Mine(t), s) :
           Fills(Mine(t)[r], s) /\ Mine(t)[r].val = Cardinality(Entered(s) \cup Drafted(t, s))
      /\ In(Mine(t), s) = {} => Drafted(t, s) = {}
  BY <1>3 DEF TellingBy
<1>5. /\ DOMAIN V = DOMAIN Mine(t) \cup DOMAIN rows
      /\ \A r \in DOMAIN Mine(t) : V[r] = Mine(t)[r]
      /\ \A r \in DOMAIN rows \ DOMAIN Mine(t) : V[r] = rows[r]
      /\ \A r \in DOMAIN rows : V[r].step = rows[r].step /\ (rows[r].done => V[r].done)
  <2>1. KeptBy(t)
    BY DEF Sound, Kept
  <2>. QED
    BY <1>0, <2>1, ViewFacts DEF KeptBy
<1>6. ASSUME NEW u \in Txns \ {t}
      PROVE  /\ DOMAIN RowsOf(u) = DOMAIN Mine(u) \cup DOMAIN rows
             /\ \A r \in DOMAIN Mine(u) : RowsOf(u)[r] = Mine(u)[r]
             /\ \A r \in DOMAIN rows \ DOMAIN Mine(u) : RowsOf(u)[r] = rows[r]
             /\ \A r \in DOMAIN rows \cap DOMAIN Mine(u) :
                  Mine(u)[r].step = rows[r].step /\ (rows[r].done => Mine(u)[r].done)
  <2>1. KeptBy(u)
    BY DEF Sound, Kept
  <2>. QED
    BY <2>1, ViewFacts DEF KeptBy
<1>7. Entered(s)' = Entered(s) \cup Drafted(t, s)
  BY <1>1 DEF Entered, Drafted
\* What is seen after the commit was seen by somebody before it.
<1>8. \A W \in Views' : W = V \/ \E u \in Txns \ {t} : W = RowsOf(u)'
  BY <1>1 DEF Views
<1>9. ASSUME NEW W \in Views', NEW p, NEW r \in In(W, p)
      PROVE  \E X \in Views : r \in In(X, p)
  <2>1. CASE W = V
    BY <1>3, <1>9, <2>1
  <2>2. ASSUME NEW u \in Txns \ {t}, W = RowsOf(u)' PROVE \E X \in Views : r \in In(X, p)
    <3>1. r \in DOMAIN Mine(u) \cup DOMAIN V /\ W[r].step = p
      BY <1>2, <1>9, <2>2 DEF In
    <3>2. CASE r \in DOMAIN Mine(u)
      <4>1. W[r] = RowsOf(u)[r] /\ r \in DOMAIN RowsOf(u)
        BY <1>2, <1>6, <2>2, <3>2
      <4>. QED
        BY <3>1, <4>1, ViewsAre DEF In
    <3>3. CASE r \notin DOMAIN Mine(u)
      <4>1. W[r] = V[r] /\ r \in DOMAIN V
        BY <1>2, <2>2, <3>1, <3>3
      <4>. QED
        BY <1>3, <3>1, <4>1 DEF In
    <3>. QED
      BY <3>2, <3>3
  <2>. QED
    BY <1>8, <2>1, <2>2
<1>10. OneRow(s)'
  <2>1. OneRow(s)
    BY <1>3 DEF Tally
  <2>2. ASSUME NEW W \in Views', NEW X \in Views', NEW r \in In(W, s), NEW q \in In(X, s)
        PROVE  r = q
    <3>1. (\E Y \in Views : r \in In(Y, s)) /\ \E Z \in Views : q \in In(Z, s)
      BY <1>9
    <3>. QED
      BY <2>1, <3>1 DEF OneRow
  <2>. QED
    BY <2>2 DEF OneRow
<1>11. Reached(s)'
  <2>1. SUFFICES ASSUME s + 1 \in Steps, NEW W \in Views', In(W, s + 1) # {}
                 PROVE  \E r \in In(W, s) : W[r].done
    BY DEF Reached
  <2>2. Reached(s)
    BY <1>3 DEF Tally
  <2>3. CASE W = V
    BY <1>3, <2>1, <2>2, <2>3 DEF Reached
  <2>4. ASSUME NEW u \in Txns \ {t}, W = RowsOf(u)' PROVE \E r \in In(W, s) : W[r].done
    <3>1. /\ W = RowsOf(u)' /\ DOMAIN W = DOMAIN Mine(u) \cup DOMAIN V
          /\ \A r \in DOMAIN Mine(u) : W[r] = Mine(u)[r]
          /\ \A r \in DOMAIN V \ DOMAIN Mine(u) : W[r] = V[r]
          /\ DOMAIN Mine(u) \cap DOMAIN Mine(t) = {}
      BY <1>2, <2>4
    <3>2. PICK X \in Views : In(X, s + 1) # {} /\ (X = V \/ X = RowsOf(u))
      <4>1. PICK r : r \in DOMAIN W /\ W[r].step = s + 1
        BY <2>1 DEF In
      <4>2. CASE r \in DOMAIN Mine(u)
        <5>1. r \in DOMAIN RowsOf(u) /\ RowsOf(u)[r].step = s + 1
          BY <1>6, <3>1, <4>1, <4>2
        <5>. QED
          BY <5>1, ViewsAre DEF In
      <4>3. CASE r \notin DOMAIN Mine(u)
        BY <1>3, <3>1, <4>1, <4>3 DEF In
      <4>. QED
        BY <4>2, <4>3
    <3>3. PICK r : r \in DOMAIN X /\ X[r].step = s /\ X[r].done
      BY <2>1, <2>2, <3>2 DEF Reached, In
    <3>4. r \in DOMAIN W /\ W[r].step = s /\ W[r].done
      <4>1. CASE r \in DOMAIN Mine(u)
        <5>1. CASE X = RowsOf(u)
          BY <1>6, <3>1, <3>3, <4>1, <5>1, ZenonT(60)
        <5>2. CASE X = V
          <6>1. r \in DOMAIN rows /\ V[r] = rows[r]
            BY <1>5, <3>1, <3>3, <4>1, <5>2
          <6>. QED
            BY <1>6, <3>1, <3>3, <4>1, <5>2, <6>1, ZenonT(60)
        <5>. QED
          BY <3>2, <5>1, <5>2
      <4>2. CASE r \notin DOMAIN Mine(u)
        <5>1. CASE X = RowsOf(u)
          <6>1. r \in DOMAIN rows /\ RowsOf(u)[r] = rows[r]
            BY <1>6, <3>3, <4>2, <5>1
          <6>. QED
            BY <1>5, <3>1, <3>3, <4>2, <5>1, <6>1
        <5>2. CASE X = V
          BY <3>1, <3>3, <4>2, <5>2
        <5>. QED
          BY <3>2, <5>1, <5>2
      <4>. QED
        BY <4>1, <4>2
    <3>. QED
      BY <3>4 DEF In
  <2>. QED
    BY <1>8, <2>3, <2>4
<1>12. Told(s)'
  <2>1. Told(s) /\ OneRow(s)
    BY <1>3 DEF Tally
  <2>2. ASSUME In(V, s) = {} PROVE Entered(s)' = {}
    <3>1. In(rows, s) = {} /\ In(Mine(t), s) = {}
      BY <1>5, <2>2 DEF In
    <3>. QED
      BY <1>4, <1>7, <2>1, <3>1 DEF Told
  <2>3. ASSUME NEW r \in In(V, s) PROVE V[r].val = Cardinality(Entered(s)') /\ Fills(V[r], s)
    <3>1. CASE r \in DOMAIN Mine(t)
      BY <1>4, <1>5, <1>7, <2>3, <3>1 DEF In
    <3>2. CASE r \notin DOMAIN Mine(t)
      <4>1. r \in In(rows, s) /\ V[r] = rows[r]
        BY <1>5, <2>3, <3>2 DEF In
      <4>2. In(Mine(t), s) = {}
        BY <1>3, <1>5, <2>1, <2>3, <3>2 DEF In, OneRow
      <4>3. Entered(s)' = Entered(s)
        BY <1>4, <1>7, <4>2
      <4>. QED
        BY <2>1, <4>1, <4>3 DEF Told
    <3>. QED
      BY <3>1, <3>2
  <2>4. In(rows, s)' = In(V, s)
    BY <1>1 DEF In
  <2>. QED
    BY <1>1, <2>2, <2>3, <2>4 DEF Told, Fills
<1>13. ASSUME NEW u \in Txns \ {t} PROVE TellingBy(u, s)'
  <2>1. TellingBy(u, s) /\ OneRow(s) /\ Told(s)
    BY <1>3 DEF Tally
  <2>2. /\ Drafted(u, s)' = Drafted(u, s) /\ (Counting(u, s)' <=> Counting(u, s))
        /\ In(Mine(u), s)' = In(Mine(u), s) /\ Mine(u)' = Mine(u) /\ txns'[u] = txns[u]
    BY <1>1, <1>2 DEF Drafted, Counting, In
  <2>3. ASSUME NEW r \in In(Mine(u), s) PROVE Entered(s)' = Entered(s)
    <3>1. r \in In(RowsOf(u), s) /\ r \notin DOMAIN Mine(t)
      BY <1>2, <1>6, <2>3 DEF In
    <3>2. In(Mine(t), s) = {}
      BY <1>3, <1>5, <2>1, <3>1, ViewsAre DEF In, OneRow
    <3>. QED
      BY <1>4, <1>7, <3>2
  <2>4. ASSUME In(Mine(u), s) = {}, Counting(u, s)
        PROVE  txns[u].read.val <= rows'[txns[u].read.id].val
    <3>1. PICK i : i = txns[u].read.id
      OBVIOUS
    <3>2. txns[u].read.val <= rows[i].val /\ txns[u].read.val \in Nat
      BY <2>1, <2>4, <3>1, TxnFacts, SMTT(40) DEF TellingBy
    <3>3. i \in DOMAIN RowsOf(u) /\ RowsOf(u)[i].step = s
      BY <2>4, <3>1 DEF Sound, Held, HeldBy, Counting
    <3>4. i \in In(rows, s)
      BY <1>6, <2>4, <3>3 DEF In
    <3>5. rows[i].val = Cardinality(Entered(s)) /\ rows[i].val \in Nat
      BY <2>1, <3>4, RowFacts DEF Told, In
    <3>6. V[i].val \in Nat /\ rows[i].val <= V[i].val
      <4>1. CASE i \in DOMAIN Mine(t)
        <5>1. V[i].val = Cardinality(Entered(s) \cup Drafted(t, s))
          BY <1>4, <1>5, <3>4, <4>1 DEF In
        <5>. QED
          BY <3>5, <5>1, EventSets
      <4>2. CASE i \notin DOMAIN Mine(t)
        BY <1>5, <3>4, <3>5, <4>2 DEF In
      <4>. QED
        BY <4>1, <4>2
    <3>. QED
      BY <1>1, <3>1, <3>2, <3>5, <3>6
  <2>5. /\ \A r \in In(Mine(u), s) :
             /\ Fills(Mine(u)[r], s)
             /\ Counting(u, s) => /\ Mine(u)[r].val + 1 = Cardinality(Entered(s) \cup Drafted(u, s))
                                  /\ ~Mine(u)[r].done /\ txns[u].read.val = Mine(u)[r].val
             /\ ~Counting(u, s) => Mine(u)[r].val = Cardinality(Entered(s) \cup Drafted(u, s))
        /\ In(Mine(u), s) = {} =>
             /\ Counting(u, s) => Drafted(u, s) = {txns[u].event} /\ txns[u].event # 0
             /\ ~Counting(u, s) => Drafted(u, s) = {}
    BY <2>1 DEF TellingBy
  <2>6. CASE In(Mine(u), s) = {}
    BY <2>2, <2>4, <2>5, <2>6 DEF TellingBy
  <2>7. CASE In(Mine(u), s) # {}
    <3>1. Entered(s)' = Entered(s)
      BY <2>3, <2>7
    <3>2. \A r \in In(Mine(u), s)' :
             /\ Fills(Mine(u)[r], s)'
             /\ Counting(u, s)' => /\ Mine(u)'[r].val + 1 = Cardinality((Entered(s) \cup Drafted(u, s))')
                                   /\ ~Mine(u)'[r].done /\ txns'[u].read.val = Mine(u)'[r].val
             /\ ~Counting(u, s)' => Mine(u)'[r].val = Cardinality((Entered(s) \cup Drafted(u, s))')
      BY <2>2, <2>5, <3>1 DEF Fills
    <3>. QED
      BY <2>2, <2>7, <3>2 DEF TellingBy
  <2>. QED
    BY <2>6, <2>7
<1>14. ASSUME NEW u \in Txns \ {t} PROVE MovingBy(u, s)'
  <2>1. MovingBy(u, s)
    BY <1>3 DEF Tally
  <2>2. In(Mine(u), s)' = In(Mine(u), s) /\ txns'[u] = txns[u]
    BY <1>1, <1>2 DEF In
  <2>3. ASSUME NEW r \in In(Mine(u), s), r \notin DOMAIN rows PROVE r \notin DOMAIN rows'
    BY <1>1, <1>2, <1>5, <2>3 DEF In
  <2>4. ASSUME txns[u].pc = "advance", txns[u].read.step = s
        PROVE  /\ txns[u].read.id \in DOMAIN rows' => ~rows'[txns[u].read.id].done
               /\ \A W \in Views' : In(W, s + 1) = {}
    <3>1. /\ txns[u].read.id \in DOMAIN rows => ~rows[txns[u].read.id].done
          /\ \A W \in Views : In(W, s + 1) = {}
      BY <2>1, <2>4, SMTT(40) DEF MovingBy
    <3>2. txns[u].read.id \in DOMAIN Mine(u)
      BY <2>4 DEF Sound, Held, HeldBy
    <3>3. txns[u].read.id \in DOMAIN rows' => ~rows'[txns[u].read.id].done
      BY <1>1, <1>2, <1>5, <3>1, <3>2
    <3>4. \A W \in Views' : In(W, s + 1) = {}
      BY <1>9, <3>1
    <3>. QED
      BY <3>3, <3>4
  <2>5. txns[u].draft.quest = [status |-> "active", step |-> s] =>
          \E r \in In(Mine(u), s) : r \notin DOMAIN rows'
    BY <2>1, <2>3 DEF MovingBy
  <2>. QED
    BY <2>2, <2>4, <2>5 DEF MovingBy
<1>15. TellingBy(t, s)' /\ MovingBy(t, s)'
  <2>1. DOMAIN Mine(t)' = {}
    BY <1>1
  <2>. QED
    BY <1>1, <2>1, RestingFacts, QuietTally
<1>. QED
  BY <1>10, <1>11, <1>12, <1>13, <1>14, <1>15 DEF Tally


LEMMA GrantTally ==
  ASSUME TypeOK, Sound, Tallied, NEW t \in Txns, Grant(t), NEW s \in Steps, Undisturbed(s)
  PROVE  Tally(s)'
<1>1. PICK r :
        /\ r \in DOMAIN rows /\ DOMAIN rows' = DOMAIN rows
        /\ \A q \in DOMAIN rows : /\ rows'[q].step = rows[q].step /\ rows'[q].val = rows[q].val
                                  /\ rows'[q].done = rows[q].done
        /\ RowsOf(t)' = rows'
        /\ \A u \in Txns \ {t} :
             /\ Mine(u)' = Mine(u) /\ DOMAIN RowsOf(u)' = DOMAIN RowsOf(u)
             /\ \A q \in DOMAIN RowsOf(u) : /\ RowsOf(u)'[q].step = RowsOf(u)[q].step
                                            /\ RowsOf(u)'[q].done = RowsOf(u)[q].done
  <2>1. PICK r :
          /\ r \in DOMAIN rows /\ DOMAIN rows' = DOMAIN rows
          /\ \A q \in DOMAIN rows \ {r} : rows'[q] = rows[q]
          /\ rows'[r].step = rows[r].step /\ rows'[r].val = rows[r].val /\ rows'[r].done = rows[r].done
          /\ RowsOf(t)' = rows'
          /\ \A u \in Txns \ {t} :
               /\ Mine(u)' = Mine(u) /\ DOMAIN RowsOf(u)' = DOMAIN RowsOf(u)
               /\ \A q \in DOMAIN RowsOf(u) \ {r} : RowsOf(u)'[q] = RowsOf(u)[q]
               /\ RowsOf(u)'[r] = rows'[r] /\ RowsOf(u)[r] = rows[r]
    <3>. DEFINE r0 == txns[t].read.id
    <3>1. /\ r0 \in DOMAIN rows /\ DOMAIN rows' = DOMAIN rows
          /\ \A q \in DOMAIN rows \ {r0} : rows'[q] = rows[q]
          /\ rows'[r0].step = rows[r0].step /\ rows'[r0].val = rows[r0].val
          /\ rows'[r0].done = rows[r0].done /\ RowsOf(t)' = rows'
          /\ \A u \in Txns \ {t} :
               /\ Mine(u)' = Mine(u) /\ (Holds(u)' <=> Holds(u)) /\ ToGo(u)' = ToGo(u)
               /\ r0 \notin DOMAIN Mine(u) /\ DOMAIN RowsOf(u)' = DOMAIN RowsOf(u)
               /\ \A q \in DOMAIN RowsOf(u) \ {r0} : RowsOf(u)'[q] = RowsOf(u)[q]
               /\ RowsOf(u)'[r0] = rows'[r0] /\ RowsOf(u)[r0] = rows[r0]
      BY GrantFacts
    <3>. HIDE DEF r0
    <3>. QED
      BY <3>1
  <2>. QED
    BY <2>1
<1>2. /\ \A u \in Txns \ {t} : txns'[u] = txns[u]
      /\ txns'[t] = Resting /\ applied' = applied /\ Mine(t)' = << >> /\ ~Holds(t)'
  BY GrantFacts
<1>3. Tally(s)
  BY DEF Tallied
\* Every view is a view from before, but for the claim.
<1>4. ASSUME NEW W \in Views'
      PROVE  \E X \in Views : /\ \A p : In(W, p) = In(X, p)
                              /\ \A q \in DOMAIN X : W[q].done = X[q].done
  <2>1. CASE W = rows'
    <3>1. \A p : In(W, p) = In(rows, p)
      BY <1>1, <2>1 DEF In
    <3>. QED
      BY <1>1, <2>1, <3>1, ViewsAre
  <2>2. ASSUME NEW u \in Txns \ {t}, W = RowsOf(u)'
        PROVE  \E X \in Views : /\ \A p : In(W, p) = In(X, p)
                                /\ \A q \in DOMAIN X : W[q].done = X[q].done
    <3>1. \A p : In(W, p) = In(RowsOf(u), p)
      BY <1>1, <2>2 DEF In
    <3>. QED
      BY <1>1, <2>2, <3>1, ViewsAre
  <2>3. W = rows' \/ \E u \in Txns \ {t} : W = RowsOf(u)'
    BY <1>1 DEF Views
  <2>. QED
    BY <2>1, <2>2, <2>3
<1>5. OneRow(s)'
  <2>1. \A W \in Views' : \E X \in Views : In(W, s) = In(X, s)
    BY <1>4
  <2>. QED
    BY <1>3, <2>1 DEF Tally, OneRow
<1>6. Reached(s)'
  <2>1. SUFFICES ASSUME s + 1 \in Steps, NEW W \in Views', In(W, s + 1) # {}
                 PROVE  \E q \in In(W, s) : W[q].done
    BY DEF Reached
  <2>2. PICK X \in Views : /\ \A p : In(W, p) = In(X, p)
                           /\ \A q \in DOMAIN X : W[q].done = X[q].done
    BY <1>4
  <2>3. PICK q \in In(X, s) : X[q].done
    BY <1>3, <2>1, <2>2 DEF Tally, Reached
  <2>. QED
    BY <2>2, <2>3 DEF In
<1>7. Told(s)'
  <2>1. Told(s) /\ In(rows, s)' = In(rows, s) /\ Entered(s)' = Entered(s)
    BY <1>1, <1>2, <1>3 DEF Tally, In, Entered
  <2>2. \A q \in In(rows, s) : rows'[q].val = rows[q].val /\ rows'[q].done = rows[q].done
    BY <1>1 DEF In
  <2>. QED
    BY <2>1, <2>2 DEF Told, Fills
<1>8. ASSUME NEW u \in Txns \ {t} PROVE TellingBy(u, s)'
  <2>1. TellingBy(u, s)
    BY <1>3 DEF Tally
  <2>2. /\ Entered(s)' = Entered(s) /\ Drafted(u, s)' = Drafted(u, s)
        /\ (Counting(u, s)' <=> Counting(u, s)) /\ In(Mine(u), s)' = In(Mine(u), s)
        /\ Mine(u)' = Mine(u) /\ txns'[u] = txns[u]
    BY <1>1, <1>2 DEF Entered, Drafted, Counting, In
  <2>3. ASSUME In(Mine(u), s) = {}, Counting(u, s)
        PROVE  rows'[txns[u].read.id].val = rows[txns[u].read.id].val
    <3>1. txns[u].read.id \in DOMAIN RowsOf(u) /\ RowsOf(u)[txns[u].read.id].step = s
      BY <2>3 DEF Sound, Held, HeldBy, Counting
    <3>2. txns[u].read.id \in DOMAIN rows
      BY <2>3, <3>1, ViewFacts DEF In
    <3>. QED
      BY <1>1, <3>2, SMTT(40)
  <2>. QED
    BY <2>1, <2>2, <2>3 DEF TellingBy, Fills
<1>9. ASSUME NEW u \in Txns \ {t} PROVE MovingBy(u, s)'
  <2>1. MovingBy(u, s)
    BY <1>3 DEF Tally
  <2>2. In(Mine(u), s)' = In(Mine(u), s) /\ txns'[u] = txns[u]
    BY <1>1, <1>2 DEF In
  <2>3. (\A V \in Views : In(V, s + 1) = {}) => \A V \in Views' : In(V, s + 1) = {}
    <3>1. \A V \in Views' : \E X \in Views : In(V, s + 1) = In(X, s + 1)
      BY <1>4
    <3>. QED
      BY <3>1
  <2>. QED
    BY <1>1, <2>1, <2>2, <2>3 DEF MovingBy
<1>10. TellingBy(t, s)' /\ MovingBy(t, s)'
  <2>1. DOMAIN Mine(t)' = {}
    BY <1>2
  <2>. QED
    BY <1>2, <2>1, RestingFacts, QuietTally
<1>. QED
  BY <1>5, <1>6, <1>7, <1>8, <1>9, <1>10 DEF Tally

LEMMA InitTally == Init => Tallied
<1>. SUFFICES ASSUME Init, NEW s \in Steps PROVE Tally(s)
  BY DEF Tallied
<1>1. /\ rows = << >> /\ applied = {} /\ DOMAIN rows = {}
      /\ \A t \in Txns : txns[t] = Resting
  BY RestingFacts DEF Init
<1>2. \A t \in Txns : DOMAIN Mine(t) = {} /\ Drafted(t, s) = {} /\ ~Counting(t, s)
  BY <1>1, RestingFacts DEF Mine, Drafted, Counting
<1>3. \A V \in Views : DOMAIN V = {}
  BY <1>1, <1>2, ViewFacts DEF Views
<1>4. OneRow(s) /\ Reached(s) /\ Told(s)
  BY <1>1, <1>3 DEF OneRow, Reached, Told, In, Entered
<1>5. \A t \in Txns : In(Mine(t), s) = {}
  BY <1>2 DEF In
<1>6. \A t \in Txns : TellingBy(t, s)
  BY <1>2, <1>5 DEF TellingBy
<1>7. \A t \in Txns : MovingBy(t, s)
  BY <1>1, RestingFacts, SMTT(40) DEF MovingBy, Unassigned
<1>. QED
  BY <1>4, <1>6, <1>7 DEF Tally

\* A count that was written over a newer one stays so.
LEMMA StaleGrows ==
  ASSUME TypeOK, Sound, [Next]_vars
  PROVE  stale \subseteq stale'
<1>1. ASSUME NEW t \in Txns, Count(t) PROVE stale \subseteq stale'
  BY <1>1, CountFacts
<1>. QED
  BY <1>1, ZenonT(60) DEF Next, TxnStep, vars, history, Record, Assign, Assigned, Pass, Look, Advance, Commit,
                Swallow, Abort, LockStep, Grant

LEMMA NextTally ==
  ASSUME TypeOK, Sound, Tallied, [Next]_vars
  PROVE  Tallied'
<1>. SUFFICES ASSUME NEW s \in Steps, Undisturbed(s)' PROVE Tally(s)'
  BY DEF Tallied
<1>1. Undisturbed(s)
  BY StaleGrows DEF Undisturbed
<1>2. CASE UNCHANGED vars
  <2>1. Tally(s)
    BY <1>1 DEF Tallied
  <2>2. UNCHANGED <<quest, rows, applied, txns>>
    BY <1>2 DEF vars
  <2>3. Views' = Views /\ Entered(s)' = Entered(s)
    BY <2>2 DEF Views, RowsOf, Entered
  <2>4. OneRow(s)' /\ Reached(s)' /\ Told(s)'
    BY <2>1, <2>2, <2>3 DEF Tally, OneRow, Reached, Told, In, Fills
  <2>5. ASSUME NEW t \in Txns PROVE TellingBy(t, s)' /\ MovingBy(t, s)'
    <3>1. TellingBy(t, s) /\ MovingBy(t, s)
      BY <2>1 DEF Tally
    <3>2. Mine(t)' = Mine(t) /\ Drafted(t, s)' = Drafted(t, s) /\ (Counting(t, s)' <=> Counting(t, s))
      BY <2>2 DEF Mine, Drafted, Counting
    <3>3. TellingBy(t, s)'
      <4>1. /\ In(Mine(t), s)' = In(Mine(t), s) /\ Mine(t)' = Mine(t) /\ txns'[t] = txns[t]
            /\ rows' = rows /\ TellingBy(t, s)
        BY <2>2, <3>1, <3>2 DEF In
      <4>2. /\ Entered(s)' = Entered(s) /\ Drafted(t, s)' = Drafted(t, s)
            /\ (Counting(t, s)' <=> Counting(t, s))
        BY <2>3, <3>2
      <4>. QED
        BY <4>1, <4>2 DEF TellingBy, Fills
    <3>4. MovingBy(t, s)'
      BY <2>2, <2>3, <3>1, <3>2 DEF MovingBy, In
    <3>. QED
      BY <3>3, <3>4
  <2>. QED
    BY <2>4, <2>5 DEF Tally
<1>3. ASSUME NEW t \in Txns, TxnStep(t) PROVE Tally(s)'
  <2>1. ASSUME NEW kind \in Kinds, Record(t, kind) PROVE Tally(s)'
    BY <1>1, <2>1, RecordTally DEF Tallied
  <2>2. CASE Assign(t)
    BY <1>1, <2>2, AssignTally DEF Tallied
  <2>3. CASE Pass(t)
    BY <1>1, <2>3, PassTally DEF Tallied
  <2>4. CASE Look(t)
    BY <1>1, <2>4, LookTally DEF Tallied
  <2>5. CASE Count(t)
    BY <1>1, <2>5, CountTally DEF Tallied
  <2>6. CASE Advance(t)
    BY <1>1, <2>6, AdvanceTally
  <2>7. CASE Commit(t)
    BY <1>1, <2>7, CommitTally
  <2>8. CASE Swallow(t) \/ Abort(t)
    BY <1>1, <2>8, GiveUpTally DEF Tallied
  <2>9. ASSUME NEW r \in DOMAIN rows, LockStep(t, r) PROVE Tally(s)'
    BY <1>1, <2>9, LockStepTally DEF Tallied
  <2>10. CASE Grant(t)
    BY <1>1, <2>10, GrantTally
  <2>. QED
    BY <1>3, <2>1, <2>2, <2>3, <2>4, <2>5, <2>6, <2>7, <2>8, <2>9, <2>10 DEF TxnStep
<1>. QED
  BY <1>2, <1>3 DEF Next


-----------------------------------------------------------------------------
(* The quest's step.                                                       *)

LEMMA FitsSame ==
  ASSUME NEW Q, NEW V, NEW W, NEW full, Fits(Q, V, full), DOMAIN W = DOMAIN V,
         \A r \in DOMAIN V : W[r].step = V[r].step /\ W[r].done = V[r].done
  PROVE  Fits(Q, W, full)
BY DEF Fits, In

\* A step of one session that writes no table leaves the quest with the others.
LEMMA LeadLocal ==
  ASSUME NEW t \in Txns, \A u \in Txns \ {t} : txns'[u] = txns[u], UNCHANGED <<quest, rows>>,
         stale = {}, InStep, LeadsBy(t)'
  PROVE  InStep'
<1>1. Fits(quest, rows, FALSE)'
  BY DEF InStep, Fits, In
<1>2. ASSUME NEW u \in Txns \ {t} PROVE LeadsBy(u)'
  <2>1. /\ RowsOf(u)' = RowsOf(u) /\ Mine(u)' = Mine(u) /\ (Holds(u)' <=> Holds(u))
        /\ txns'[u] = txns[u] /\ quest' = quest
    BY Frame
  <2>2. LeadsBy(u)
    BY DEF InStep
  <2>. QED
    BY <2>1, <2>2 DEF LeadsBy, Fits, In
<1>. QED
  BY <1>1, <1>2 DEF InStep

\* A session that has not touched a row, or that has just touched its first.
LEMMA QuietLead ==
  ASSUME NEW t \in Txns, ~Holds(t)', \/ DOMAIN Mine(t)' = {} \/ txns'[t].pc \notin {"look", "count"}
  PROVE  LeadsBy(t)'
BY DEF LeadsBy

LEMMA InStepThen ==
  ASSUME InStep, stale = {}, NEW t \in Txns
  PROVE  Fits(quest, rows, FALSE) /\ LeadsBy(t)
BY DEF InStep


LEMMA InitLead == Init => InStep
<1>. SUFFICES ASSUME Init PROVE InStep
  OBVIOUS
<1>1. quest = Unassigned /\ \A t \in Txns : txns[t] = Resting
  BY DEF Init
<1>2. Fits(quest, rows, FALSE)
  BY <1>1 DEF Fits, Unassigned
<1>3. \A t \in Txns : LeadsBy(t)
  BY <1>1, RestingFacts DEF LeadsBy, Holds
<1>. QED
  BY <1>2, <1>3 DEF InStep

\* What a session that records an event, and one that evaluates it, changes.
LEMMA RecordFacts ==
  ASSUME TypeOK, Sound, NEW t \in Txns, NEW kind \in Kinds, Record(t, kind)
  PROVE  LET e == Len(events) + 1 IN
         /\ \A u \in Txns \ {t} : txns'[u] = txns[u]
         /\ UNCHANGED <<committed, quest, rows, applied, paid, stale, before, skipped>>
         /\ e \in Nat /\ e # 0 /\ e \notin DOMAIN events /\ events'[e] = kind
         /\ \A d \in DOMAIN events : events'[d] = events[d]
         /\ txns'[t].event = e /\ ToGo(t)' = ToSet(Subscribed(e, kind))
         /\ Mine(t)' = << >> /\ ~Holds(t)' /\ txns'[t].draft = NoDraft
<1>. DEFINE e == Len(events) + 1
            y == [Resting EXCEPT !.pc = "look", !.event = e, !.todo = Subscribed(e, kind)]
<1>1. /\ txns' = [txns EXCEPT ![t] = y] /\ events' = Append(events, kind)
      /\ UNCHANGED <<committed, quest, rows, applied, paid, stale, before, skipped>>
      /\ txns \in [Txns -> Txn] /\ events \in Seq(Kinds)
  BY DEF Record, history, TypeOK
<1>2. /\ e \in Nat /\ e # 0 /\ e \notin DOMAIN events /\ events'[e] = kind
      /\ \A d \in DOMAIN events : events'[d] = events[d]
  BY <1>1
<1>. HIDE DEF e
<1>3. y.event = e /\ y.todo = Subscribed(e, kind) /\ y.draft = NoDraft
  BY DEF Resting
<1>. HIDE DEF y
<1>4. txns'[t] = y /\ \A u \in Txns \ {t} : txns'[u] = txns[u]
  BY <1>1
<1>5. Mine(t)' = << >> /\ ~Holds(t)' /\ ToGo(t)' = ToSet(Subscribed(e, kind))
  BY <1>3, <1>4, RestingFacts DEF Mine, Holds, ToGo
<1>. QED
  BY <1>1, <1>2, <1>3, <1>4, <1>5 DEF e

LEMMA PassFacts ==
  ASSUME TypeOK, Sound, NEW t \in Txns, Pass(t)
  PROVE  \E e \in Nat, s \in Steps :
         /\ \A u \in Txns \ {t} : txns'[u] = txns[u]
         /\ UNCHANGED <<events, committed, quest, rows, applied, paid, stale, before, skipped>>
         /\ txns[t].pc = "look" /\ txns'[t].pc = "look"
         /\ txns'[t].event = txns[t].event /\ txns'[t].draft = txns[t].draft
         /\ ToGo(t) \subseteq ToGo(t)' \cup {<<e, s>>}
         /\ Candidates(t, s) = {} \/ events[e] \notin Passing[s] \/ Seen(t, e, s)
<1>1. PICK e, s : e = Head(txns[t].todo)[1] /\ s = Head(txns[t].todo)[2]
  OBVIOUS
<1>2. /\ UNCHANGED <<events, committed, quest, rows, applied, paid, stale, before, skipped>>
      /\ txns[t].pc = "look" /\ txns[t].todo # << >>
      /\ txns' = [txns EXCEPT ![t].todo = Tail(@)]
      /\ Candidates(t, s) = {} \/ events[e] \notin Passing[s] \/ Seen(t, e, s)
  BY <1>1 DEF Pass, history
<1>3. txns[t] \in Txn /\ txns[t].todo \in Seq(Pairs) /\ txns \in [Txns -> Txn]
  BY TxnFacts DEF TypeOK
<1>4. /\ Head(txns[t].todo) \in Pairs
      /\ ToSet(txns[t].todo) \subseteq ToSet(Tail(txns[t].todo)) \cup {Head(txns[t].todo)}
  BY <1>2, <1>3, ListItems
<1>5. e \in Nat /\ s \in Steps /\ Head(txns[t].todo) = <<e, s>>
  BY <1>1, <1>4 DEF Pairs
<1>6. /\ \A u \in Txns \ {t} : txns'[u] = txns[u]
      /\ txns'[t] = [txns[t] EXCEPT !.todo = Tail(@)]
  BY <1>2, <1>3
<1>7. /\ txns'[t].pc = "look" /\ txns'[t].todo = Tail(txns[t].todo)
      /\ txns'[t].event = txns[t].event /\ txns'[t].draft = txns[t].draft
  BY <1>2, <1>3, <1>6 DEF Txn
<1>8. ToGo(t) \subseteq ToGo(t)' \cup {<<e, s>>}
  BY <1>4, <1>5, <1>7 DEF ToGo
<1>. QED
  BY <1>2, <1>5, <1>6, <1>7, <1>8

LEMMA LookFacts ==
  ASSUME TypeOK, Sound, NEW t \in Txns, Look(t)
  PROVE  /\ \A u \in Txns \ {t} : txns'[u] = txns[u]
         /\ UNCHANGED <<events, committed, quest, rows, applied, paid, stale, before, skipped>>
         /\ txns[t].pc = "look" /\ txns'[t].pc = "count" /\ txns'[t].event = txns[t].event
         /\ Mine(t)' = Mine(t) /\ txns'[t].draft.quest = txns[t].draft.quest
         /\ txns[t].draft.applied \subseteq txns'[t].draft.applied /\ ToGo(t)' = ToGo(t)
<1>1. PICK rd, p :
        txns' = [txns EXCEPT ![t].pc = "count", ![t].read = rd, ![t].draft.applied = @ \cup {p}]
  <2>. DEFINE e0 == Head(txns[t].todo)[1]
              s0 == Head(txns[t].todo)[2]
  <2>1. PICK r \in Candidates(t, s0) :
          txns' = [txns EXCEPT
            ![t].pc = "count",
            ![t].read = [id |-> r, step |-> s0, val |-> RowsOf(t)[r].val],
            ![t].draft.applied = @ \cup {<<e0, s0>>}]
    BY DEF Look
  <2>. DEFINE p0 == <<e0, s0>>
              rd0 == [id |-> r, step |-> s0, val |-> RowsOf(t)[r].val]
  <2>2. txns' = [txns EXCEPT ![t].pc = "count", ![t].read = rd0, ![t].draft.applied = @ \cup {p0}]
    BY <2>1
  <2>. HIDE DEF p0, rd0
  <2>. QED
    BY <2>2, ZenonT(60)
<1>2. /\ UNCHANGED <<events, committed, quest, rows, applied, paid, stale, before, skipped>>
      /\ txns[t].pc = "look"
  BY DEF Look, history
<1>3. txns[t] \in Txn /\ txns[t].draft \in Draft /\ txns \in [Txns -> Txn]
  BY TxnFacts DEF TypeOK
<1>. DEFINE d == [txns[t].draft EXCEPT !.applied = @ \cup {p}]
<1>4. d.quest = txns[t].draft.quest /\ d.rows = txns[t].draft.rows /\ d.applied = txns[t].draft.applied \cup {p}
  BY <1>3 DEF Draft
<1>5. /\ \A u \in Txns \ {t} : txns'[u] = txns[u]
      /\ txns'[t] = [txns[t] EXCEPT !.pc = "count", !.read = rd, !.draft = d]
  BY <1>1, <1>3
<1>. HIDE DEF d
<1>6. /\ txns'[t].pc = "count" /\ txns'[t].draft = d /\ txns'[t].event = txns[t].event
      /\ txns'[t].todo = txns[t].todo
  BY <1>3, <1>5 DEF Txn
<1>. QED
  BY <1>2, <1>4, <1>5, <1>6 DEF Mine, ToGo


\* Steps that leave a session without rows of a quest.
LEMMA QuietStepsLead ==
  ASSUME TypeOK, Sound, InStep, stale = {}, NEW t \in Txns,
         \/ \E kind \in Kinds : Record(t, kind)
         \/ Swallow(t) \/ Abort(t)
         \/ \E r \in DOMAIN rows : LockStep(t, r)
  PROVE  InStep'
<1>1. ASSUME NEW kind \in Kinds, Record(t, kind)
      PROVE  /\ UNCHANGED <<quest, rows>> /\ \A u \in Txns \ {t} : txns'[u] = txns[u]
             /\ ~Holds(t)' /\ Mine(t)' = << >>
  BY <1>1, RecordFacts
<1>2. ASSUME Swallow(t) \/ Abort(t)
      PROVE  /\ UNCHANGED <<quest, rows>> /\ \A u \in Txns \ {t} : txns'[u] = txns[u]
             /\ ~Holds(t)' /\ Mine(t)' = << >>
  BY <1>2, GivenUp
<1>3. ASSUME NEW r \in DOMAIN rows, LockStep(t, r)
      PROVE  /\ UNCHANGED <<quest, rows>> /\ \A u \in Txns \ {t} : txns'[u] = txns[u]
             /\ ~Holds(t)' /\ txns'[t].pc = "grant"
  BY <1>3, LockFacts
<1>4. /\ UNCHANGED <<quest, rows>> /\ \A u \in Txns \ {t} : txns'[u] = txns[u]
      /\ ~Holds(t)' /\ (Mine(t)' = << >> \/ txns'[t].pc = "grant")
  BY <1>1, <1>2, <1>3
<1>5. LeadsBy(t)'
  <2>1. DOMAIN << >> = {}
    OBVIOUS
  <2>. QED
    BY <1>4, <2>1, QuietLead
<1>. QED
  BY <1>4, <1>5, LeadLocal

LEMMA AssignLead ==
  ASSUME TypeOK, Sound, InStep, stale = {}, NEW t \in Txns, Assign(t)
  PROVE  InStep'
<1>1. PICK id :
        /\ UNCHANGED <<quest, rows>> /\ \A u \in Txns \ {t} : txns'[u] = txns[u]
        /\ quest = Unassigned /\ rows = << >> /\ txns'[t].pc = "look"
        /\ txns'[t].draft.quest = [status |-> "active", step |-> 1] /\ Holds(t)'
        /\ DOMAIN Mine(t)' = {id} /\ Mine(t)'[id] = Fresh(1)
  <2>. DEFINE id0 == NewId
  <2>1. /\ UNCHANGED <<quest, rows>> /\ \A u \in Txns \ {t} : txns'[u] = txns[u]
        /\ quest = Unassigned /\ rows = << >> /\ txns'[t].pc = "look"
        /\ txns'[t].draft.quest = [status |-> "active", step |-> 1] /\ Holds(t)'
        /\ DOMAIN Mine(t)' = {id0} /\ Mine(t)'[id0] = Fresh(1)
    BY AssignFacts
  <2>. HIDE DEF id0
  <2>. QED
    BY <2>1
<1>2. DOMAIN RowsOf(t)' = {id} /\ RowsOf(t)'[id] = Fresh(1)
  <2>1. DOMAIN << >> = {}
    OBVIOUS
  <2>. QED
    BY <1>1, <2>1 DEF RowsOf, Over, Mine
<1>3. Fits([status |-> "active", step |-> 1], RowsOf(t)', FALSE)
  <2>1. In(RowsOf(t)', 1) # {}
    BY <1>2 DEF In, Fresh
  <2>2. \A r \in DOMAIN RowsOf(t)' : RowsOf(t)'[r].step = 1 /\ RowsOf(t)'[r].done = FALSE
    BY <1>2 DEF Fresh
  <2>. QED
    BY <2>1, <2>2 DEF Fits
<1>4. LeadsBy(t)'
  <2>1. quest'.status = "none" /\ quest'.step = 0
    BY <1>1 DEF Unassigned
  <2>2. Fits(txns[t].draft.quest, RowsOf(t), txns[t].pc = "advance")'
    BY <1>1, <1>3 DEF Fits, In
  <2>. QED
    BY <1>1, <2>1, <2>2 DEF LeadsBy
<1>. QED
  BY <1>1, <1>4, LeadLocal

\* A step of an evaluation that leaves the rows and the quest it has drafted.
LEMMA SameLead ==
  ASSUME NEW t \in Txns, LeadsBy(t), Mine(t)' = Mine(t), RowsOf(t)' = RowsOf(t), quest' = quest,
         txns'[t].draft.quest = txns[t].draft.quest,
         txns[t].pc = "look", txns'[t].pc \in {"look", "count"}
  PROVE  LeadsBy(t)'
<1>1. Holds(t)' <=> Holds(t)
  BY DEF Holds
<1>2. CASE Holds(t)
  <2>1. Fits(txns[t].draft.quest, RowsOf(t), FALSE)
    BY <1>2 DEF LeadsBy
  <2>2. Fits(txns[t].draft.quest, RowsOf(t), txns[t].pc = "advance")'
    BY <2>1 DEF Fits, In
  <2>. QED
    BY <1>1, <1>2, <2>2 DEF LeadsBy
<1>3. CASE ~Holds(t)
  BY <1>1, <1>3 DEF LeadsBy
<1>. QED
  BY <1>2, <1>3

LEMMA PassLookLead ==
  ASSUME TypeOK, Sound, InStep, stale = {}, NEW t \in Txns, Pass(t) \/ Look(t)
  PROVE  InStep'
<1>1. /\ \A u \in Txns \ {t} : txns'[u] = txns[u]
      /\ UNCHANGED <<quest, rows>> /\ txns[t].pc = "look" /\ txns'[t].pc \in {"look", "count"}
      /\ Mine(t)' = Mine(t) /\ txns'[t].draft.quest = txns[t].draft.quest
  <2>1. CASE Pass(t)
    <3>1. /\ \A u \in Txns \ {t} : txns'[u] = txns[u]
          /\ UNCHANGED <<quest, rows>> /\ txns[t].pc = "look" /\ txns'[t].pc = "look"
          /\ txns'[t].draft = txns[t].draft
      BY <2>1, PassFacts
    <3>. QED
      BY <3>1 DEF Mine
  <2>2. CASE Look(t)
    BY <2>2, LookFacts
  <2>. QED
    BY <2>1, <2>2
<1>2. RowsOf(t)' = RowsOf(t)
  BY <1>1 DEF RowsOf, Mine
<1>3. LeadsBy(t)'
  BY <1>1, <1>2, InStepThen, SameLead
<1>. QED
  BY <1>1, <1>3, LeadLocal


LEMMA CountLead ==
  ASSUME TypeOK, Sound, Tallied, InStep, stale = {}, stale' = {}, NEW t \in Txns, Count(t)
  PROVE  InStep'
<1>. DEFINE x == txns[t]
<1>1. PICK r, s, row, full :
        /\ r = x.read.id /\ s = x.read.step /\ x.pc = "count" /\ s \in Steps
        /\ r \in DOMAIN RowsOf(t) /\ RowsOf(t)[r].step = s /\ ~RowsOf(t)[r].done
        /\ row.step = s /\ full \in BOOLEAN /\ row.done \in BOOLEAN /\ (row.done <=> full)
        /\ UNCHANGED <<quest, rows>> /\ \A u \in Txns \ {t} : txns'[u] = txns[u]
        /\ txns'[t].pc = (IF full THEN "advance" ELSE "look") /\ txns'[t].read = x.read
        /\ txns'[t].draft.quest = x.draft.quest /\ (Holds(t)' <=> Holds(t))
        /\ Mine(t)' = Put(Mine(t), r, row) /\ RowsOf(t)' = Over(Put(Mine(t), r, row), rows)
  <2>. DEFINE r0 == x.read.id
              s0 == x.read.step
              full0 == x.read.val + 1 >= Target[s0]
              row0 == [RowsOf(t)[r0] EXCEPT !.val = x.read.val + 1, !.done = @ \/ full0]
  <2>1. /\ x.pc = "count" /\ s0 \in Steps /\ r0 \in DOMAIN RowsOf(t)
        /\ RowsOf(t)[r0].step = s0 /\ row0 \in Row /\ row0.step = s0
        /\ (row0.done <=> RowsOf(t)[r0].done \/ full0)
        /\ stale' = (IF RowsOf(t)[r0].val = x.read.val /\ ~RowsOf(t)[r0].done THEN stale
                     ELSE stale \cup {s0})
        /\ UNCHANGED <<quest, rows>> /\ \A u \in Txns \ {t} : txns'[u] = txns[u]
        /\ txns'[t].pc = (IF full0 THEN "advance" ELSE "look") /\ txns'[t].read = x.read
        /\ txns'[t].draft.quest = x.draft.quest /\ (Holds(t)' <=> Holds(t))
        /\ Mine(t)' = Put(Mine(t), r0, row0) /\ RowsOf(t)' = Over(Put(Mine(t), r0, row0), rows)
    BY CountFacts
  <2>2. full0 \in BOOLEAN /\ row0.done \in BOOLEAN /\ r0 = x.read.id /\ s0 = x.read.step
    BY <2>1 DEF Row
  <2>. HIDE DEF r0, s0, full0, row0
  <2>3. ~RowsOf(t)[r0].done
    BY <2>1
  <2>. QED
    BY <2>1, <2>2, <2>3, SMTT(40)
<1>2. /\ DOMAIN Mine(t)' = DOMAIN Mine(t) \cup {r} /\ Mine(t)'[r] = row
      /\ \A q \in DOMAIN Mine(t) \ {r} : Mine(t)'[q] = Mine(t)[q]
  BY <1>1 DEF Put
<1>3. /\ DOMAIN RowsOf(t)' = DOMAIN RowsOf(t) /\ RowsOf(t)'[r] = row
      /\ \A q \in DOMAIN RowsOf(t) \ {r} : RowsOf(t)'[q] = RowsOf(t)[q]
  <2>1. r \in DOMAIN RowsOf(t) /\ RowsOf(t)' = Over(Put(Mine(t), r, row), rows)
    BY <1>1
  <2>. QED
    BY <2>1 DEF Put, Over, RowsOf, Mine
<1>4. LeadsBy(t)
  BY InStepThen
<1>5. CASE Holds(t)
  <2>. DEFINE Q == x.draft.quest
  <2>1. /\ Fits(Q, RowsOf(t), FALSE) /\ quest.status # "completed" /\ quest.step <= Q.step
        /\ x.read.step = s
    BY <1>1, <1>4, <1>5 DEF LeadsBy
  <2>2. Q = [status |-> "active", step |-> s]
    <3>1. Q \in [status : {"active", "completed"}, step : Steps]
      BY <1>5, TxnFacts DEF Holds, Quest
    <3>2. Q.status # "completed"
      BY <1>1, <2>1 DEF Fits
    <3>3. Q.status = "active" /\ Q.step \in Nat /\ s \in Nat
      BY <1>1, <3>1, <3>2, StepsAreFinite
    <3>4. s <= Q.step /\ ~(s < Q.step)
      BY <1>1, <2>1, <3>3 DEF Fits
    <3>. QED
      BY <3>1, <3>3, <3>4
  <2>. HIDE DEF Q
  <2>3. /\ In(RowsOf(t), s) # {} /\ s \in Nat
        /\ \A q \in DOMAIN RowsOf(t) : /\ RowsOf(t)[q].step <= s
                                       /\ RowsOf(t)[q].done <=> RowsOf(t)[q].step < s
    BY <1>1, <2>1, <2>2, StepsAreFinite DEF Fits
  <2>4. \A q \in DOMAIN RowsOf(t)' : RowsOf(t)'[q].step = RowsOf(t)[q].step
    BY <1>1, <1>3
  <2>5. In(RowsOf(t), s)' # {}
    BY <1>1, <1>3 DEF In
  <2>6. ASSUME NEW q \in DOMAIN RowsOf(t)'
        PROVE  /\ RowsOf(t)'[q].step <= s
               /\ RowsOf(t)'[q].done <=> full \/ RowsOf(t)'[q].step < s
    <3>1. CASE q = r
      BY <1>1, <1>3, <2>3, <3>1
    <3>2. CASE q # r
      <4>1. RowsOf(t)[q].step # s
        <5>1. OneRow(s)
          BY <1>1 DEF Tallied, Tally, Undisturbed
        <5>. QED
          BY <1>1, <1>3, <3>2, <5>1, ViewsAre DEF OneRow, In
      <4>2. RowsOf(t)'[q] = RowsOf(t)[q] /\ RowsOf(t)[q].step \in Nat
        BY <1>3, <3>2, ViewTypes, StepsAreFinite
      <4>. QED
        BY <1>3, <2>3, <4>1, <4>2
    <3>. QED
      BY <3>1, <3>2
  <2>7. Fits([status |-> "active", step |-> s], RowsOf(t)', full)
    BY <2>5, <2>6 DEF Fits, In
  <2>8. /\ txns'[t].draft.quest = [status |-> "active", step |-> s]
        /\ (full <=> txns'[t].pc = "advance") /\ txns'[t].read.step = s
    BY <1>1, <2>1, <2>2 DEF Q
  <2>9. Fits(txns[t].draft.quest, RowsOf(t), txns[t].pc = "advance")'
    BY <2>7, <2>8 DEF Fits, In
  <2>10. quest'.status # "completed" /\ quest'.step <= s
    BY <1>1, <2>1, <2>2
  <2>11. LeadsBy(t)'
    BY <1>1, <1>5, <2>8, <2>9, <2>10 DEF LeadsBy
  <2>. QED
    BY <1>1, <2>11, LeadLocal
<1>6. CASE ~Holds(t)
  <2>1. \A q \in DOMAIN Mine(t) : ~Mine(t)[q].done
    BY <1>1, <1>4, <1>6 DEF LeadsBy
  <2>2. ~full => \A q \in DOMAIN Mine(t)' : ~Mine(t)'[q].done
    BY <1>1, <1>2, <2>1
  <2>3. full => txns'[t].pc = "advance"
    BY <1>1
  <2>4. LeadsBy(t)'
    BY <1>1, <1>6, <2>2, <2>3 DEF LeadsBy
  <2>. QED
    BY <1>1, <2>4, LeadLocal
<1>. QED
  BY <1>5, <1>6

\* Who is about to move the quest moves it from its step, which is complete.
LEMMA AdvanceReady ==
  ASSUME TypeOK, Sound, Tallied, InStep, stale = {}, NEW t \in Txns, txns[t].pc = "advance"
  PROVE  /\ QuestOf(t) = [status |-> "active", step |-> txns[t].read.step]
         /\ txns[t].read.step \in Steps
         /\ \A r \in DOMAIN RowsOf(t) : RowsOf(t)[r].done /\ RowsOf(t)[r].step <= txns[t].read.step
         /\ quest.status # "completed" /\ quest.step <= txns[t].read.step
<1>1. PICK i, s : i = txns[t].read.id /\ s = txns[t].read.step
  BY SMTT(40)
<1>2. i \in DOMAIN Mine(t) /\ Mine(t)[i].done /\ i \in DOMAIN RowsOf(t) /\ RowsOf(t)[i].step = s
  BY <1>1 DEF Sound, Held, HeldBy
<1>3. s \in Steps /\ s \in Nat /\ \A r \in DOMAIN RowsOf(t) : RowsOf(t)[r].step \in Nat
  BY <1>2, ViewTypes, StepsAreFinite
<1>4. Fits(quest, rows, FALSE) /\ LeadsBy(t)
  BY InStepThen
<1>5. CASE Holds(t)
  <2>1. /\ txns[t].draft.quest = [status |-> "active", step |-> s]
        /\ Fits([status |-> "active", step |-> s], RowsOf(t), TRUE)
        /\ quest.status # "completed" /\ quest.step <= s
    BY <1>1, <1>4, <1>5 DEF LeadsBy, Fits
  <2>2. QuestOf(t) = [status |-> "active", step |-> s]
    BY <1>5, <2>1 DEF QuestOf, Holds
  <2>3. \A r \in DOMAIN RowsOf(t) : RowsOf(t)[r].done /\ RowsOf(t)[r].step <= s
    BY <2>1 DEF Fits
  <2>. QED
    BY <1>1, <1>3, <2>1, <2>2, <2>3
<1>6. CASE ~Holds(t)
  <2>1. Tally(s) /\ OneRow(s) /\ MovingBy(t, s)
    BY <1>3 DEF Tallied, Tally, Undisturbed
  <2>2. KeptBy(t)
    BY DEF Sound, Kept
  <2>3. i \in DOMAIN rows /\ rows[i].step = s /\ ~rows[i].done
    <3>1. i \in DOMAIN rows
      BY <1>2, <1>6 DEF Sound, Locks
    <3>2. rows[i].step = s
      BY <1>2, <2>2, <3>1, ViewFacts DEF KeptBy
    <3>. QED
      BY <1>1, <2>1, <3>1, <3>2 DEF MovingBy
  <2>4. quest = [status |-> "active", step |-> s]
    <3>1. quest # Unassigned
      <4>1. DOMAIN << >> = {}
        OBVIOUS
      <4>. QED
        BY <2>3, <4>1 DEF Sound, Locks
    <3>2. quest \in [status : {"active", "completed"}, step : Steps]
      BY <3>1 DEF TypeOK, Quest
    <3>3. quest.status # "completed"
      BY <1>4, <2>3 DEF Fits
    <3>4. quest.status = "active" /\ quest.step \in Nat
      BY <3>2, <3>3, StepsAreFinite
    <3>5. s <= quest.step /\ ~(s < quest.step)
      BY <1>4, <2>3, <3>4 DEF Fits
    <3>. QED
      BY <1>3, <3>2, <3>4, <3>5
  <2>5. QuestOf(t) = [status |-> "active", step |-> s]
    BY <1>6, <2>4 DEF QuestOf, Holds
  <2>6. \A r \in DOMAIN rows : rows[r].step <= s /\ (rows[r].done <=> rows[r].step < s)
    BY <1>4, <2>4 DEF Fits
  <2>7. ASSUME NEW r \in DOMAIN RowsOf(t) PROVE RowsOf(t)[r].done /\ RowsOf(t)[r].step <= s
    <3>1. r \in DOMAIN rows
      BY <1>6, <2>7, ViewFacts DEF Sound, Locks
    <3>2. RowsOf(t)[r].step = rows[r].step /\ (rows[r].done => RowsOf(t)[r].done)
      BY <2>2, <3>1, ViewFacts DEF KeptBy
    <3>3. CASE rows[r].step < s
      BY <2>6, <3>1, <3>2, <3>3
    <3>4. CASE ~(rows[r].step < s)
      <4>1. rows[r].step = s
        BY <1>3, <2>6, <3>1, <3>2, <3>4
      <4>2. r = i
        BY <1>2, <2>1, <2>3, <3>1, <4>1, ViewsAre DEF OneRow, In
      <4>3. RowsOf(t)[r] = Mine(t)[i] /\ RowsOf(t)[r].step = s
        BY <1>2, <4>2, ViewFacts
      <4>. QED
        BY <1>2, <1>3, <4>3
    <3>. QED
      BY <3>3, <3>4
  <2>8. quest.status # "completed" /\ quest.step <= s
    BY <1>3, <2>4
  <2>. QED
    BY <1>1, <1>3, <2>5, <2>7, <2>8
<1>. QED
  BY <1>5, <1>6


LEMMA AdvanceLead ==
  ASSUME TypeOK, Sound, Tallied, InStep, stale = {}, NEW t \in Txns, Advance(t)
  PROVE  InStep'
<1>1. PICK s, id :
        /\ s = txns[t].read.step /\ txns[t].pc = "advance" /\ s \in Steps /\ s \in Nat
        /\ UNCHANGED <<quest, rows>> /\ \A u \in Txns \ {t} : txns'[u] = txns[u]
        /\ txns'[t].pc = "look" /\ Holds(t)'
        /\ s < Final =>
             /\ id \notin DOMAIN RowsOf(t)
             /\ txns'[t].draft.quest = [status |-> QuestOf(t).status, step |-> s + 1]
             /\ RowsOf(t)' = Over(Put(Mine(t), id, Fresh(s + 1)), rows)
        /\ ~(s < Final) =>
             /\ txns'[t].draft.quest = [status |-> "completed", step |-> QuestOf(t).step]
             /\ RowsOf(t)' = RowsOf(t)
  <2>. DEFINE s0 == txns[t].read.step
              id0 == Len(RowsOf(t)) + 1
  <2>1. /\ s0 = txns[t].read.step /\ txns[t].pc = "advance" /\ s0 \in Steps
        /\ UNCHANGED <<quest, rows>> /\ \A u \in Txns \ {t} : txns'[u] = txns[u]
        /\ txns'[t].pc = "look" /\ Holds(t)'
    BY AdvanceFacts
  <2>2. s0 < Final =>
          /\ id0 \notin DOMAIN RowsOf(t)
          /\ txns'[t].draft.quest = [status |-> QuestOf(t).status, step |-> s0 + 1]
          /\ RowsOf(t)' = Over(Put(Mine(t), id0, Fresh(s0 + 1)), rows)
    BY AdvanceFacts
  <2>3. ~(s0 < Final) =>
          /\ txns'[t].draft.quest = [status |-> "completed", step |-> QuestOf(t).step]
          /\ RowsOf(t)' = RowsOf(t)
    BY AdvanceFacts
  <2>4. s0 \in Nat
    BY <2>1, StepsAreFinite
  <2>. HIDE DEF s0, id0
  <2>. QED
    BY <2>1, <2>2, <2>3, <2>4
<1>2. /\ QuestOf(t) = [status |-> "active", step |-> s]
      /\ \A r \in DOMAIN RowsOf(t) : RowsOf(t)[r].done /\ RowsOf(t)[r].step <= s
      /\ quest.status # "completed" /\ quest.step <= s
  BY <1>1, AdvanceReady
<1>3. quest.step \in Nat
  BY StepsAreFinite DEF TypeOK, Quest, Unassigned
<1>4. Fits(txns[t].draft.quest, RowsOf(t), FALSE)' /\ quest.step <= txns'[t].draft.quest.step
  <2>1. CASE s < Final
    <3>1. txns'[t].draft.quest = [status |-> "active", step |-> s + 1]
      BY <1>1, <1>2, <2>1
    <3>2. /\ DOMAIN RowsOf(t)' = DOMAIN RowsOf(t) \cup {id} /\ RowsOf(t)'[id] = Fresh(s + 1)
          /\ \A r \in DOMAIN RowsOf(t) : RowsOf(t)'[r] = RowsOf(t)[r]
      <4>1. RowsOf(t)' = Over(Put(Mine(t), id, Fresh(s + 1)), rows) /\ id \notin DOMAIN RowsOf(t)
        BY <1>1, <2>1
      <4>. QED
        BY <4>1 DEF Put, Over, RowsOf, Mine
    <3>3. Fresh(s + 1).step = s + 1 /\ Fresh(s + 1).done = FALSE
      BY DEF Fresh
    <3>4. In(RowsOf(t), s + 1)' # {}
      BY <3>2, <3>3 DEF In
    <3>5. ASSUME NEW r \in DOMAIN RowsOf(t)'
          PROVE  /\ RowsOf(t)'[r].step <= s + 1
                 /\ RowsOf(t)'[r].done <=> RowsOf(t)'[r].step < s + 1
      <4>1. CASE r = id
        BY <1>1, <3>2, <3>3, <4>1
      <4>2. CASE r # id
        <5>1. /\ RowsOf(t)'[r] = RowsOf(t)[r] /\ RowsOf(t)[r].done
              /\ RowsOf(t)[r].step <= s /\ RowsOf(t)[r].step \in Nat
          BY <1>2, <3>2, <4>2, ViewTypes, StepsAreFinite
        <5>. QED
          BY <1>1, <5>1
      <4>. QED
        BY <4>1, <4>2
    <3>6. Fits([status |-> "active", step |-> s + 1], RowsOf(t)', FALSE)
      BY <3>4, <3>5 DEF Fits, In
    <3>. QED
      BY <1>1, <1>2, <1>3, <3>1, <3>6 DEF Fits, In
  <2>2. CASE ~(s < Final)
    <3>1. txns'[t].draft.quest = [status |-> "completed", step |-> s] /\ RowsOf(t)' = RowsOf(t)
      BY <1>1, <1>2, <2>2
    <3>. QED
      BY <1>2, <3>1 DEF Fits, In
  <2>. QED
    BY <2>1, <2>2
<1>5. LeadsBy(t)'
  <2>1. Fits(txns[t].draft.quest, RowsOf(t), txns[t].pc = "advance")'
    BY <1>1, <1>4 DEF Fits, In
  <2>. QED
    BY <1>1, <1>2, <1>4, <2>1 DEF LeadsBy
<1>. QED
  BY <1>1, <1>5, LeadLocal

\* Who does not move the quest commits no complete row, and no step.
LEMMA CommitKeeps ==
  ASSUME TypeOK, Sound, InStep, stale = {}, NEW t \in Txns, Commit(t), ~Holds(t)
  PROVE  /\ quest' = quest /\ DOMAIN RowsOf(t) = DOMAIN rows
         /\ \A r \in DOMAIN rows : RowsOf(t)[r].step = rows[r].step /\ RowsOf(t)[r].done = rows[r].done
<1>1. quest' = quest
  BY CommitFacts DEF QuestOf, Holds
<1>2. DOMAIN RowsOf(t) = DOMAIN rows
  BY ViewFacts DEF Sound, Locks
<1>3. LeadsBy(t) /\ KeptBy(t) /\ txns[t].pc = "look"
  BY InStepThen, CommitFacts DEF Sound, Kept
<1>4. ASSUME NEW r \in DOMAIN rows
      PROVE  RowsOf(t)[r].step = rows[r].step /\ RowsOf(t)[r].done = rows[r].done
  <2>1. CASE r \in DOMAIN Mine(t)
    <3>1. RowsOf(t)[r] = Mine(t)[r] /\ ~Mine(t)[r].done
      BY <1>3, <2>1, ViewFacts DEF LeadsBy
    <3>2. Mine(t)[r].step = rows[r].step /\ ~rows[r].done
      BY <1>3, <2>1, <3>1 DEF KeptBy
    <3>3. rows[r].done \in BOOLEAN /\ RowsOf(t)[r].done \in BOOLEAN
      BY <1>2, RowFacts, ViewTypes
    <3>. QED
      BY <3>1, <3>2, <3>3
  <2>2. CASE r \notin DOMAIN Mine(t)
    BY <2>2, ViewFacts
  <2>. QED
    BY <2>1, <2>2
<1>. QED
  BY <1>1, <1>2, <1>4

LEMMA CommitLead ==
  ASSUME TypeOK, Sound, InStep, stale = {}, NEW t \in Txns, Commit(t)
  PROVE  InStep'
<1>0. PICK V : V = RowsOf(t)
  OBVIOUS
<1>1. /\ \A u \in Txns \ {t} : txns'[u] = txns[u]
      /\ txns[t].pc = "look" /\ quest' = QuestOf(t) /\ rows' = V
      /\ Mine(t)' = << >> /\ ~Holds(t)'
  BY <1>0, CommitFacts
<1>2. \A u \in Txns \ {t} :
        /\ Mine(u)' = Mine(u) /\ (Holds(u)' <=> Holds(u)) /\ ToGo(u)' = ToGo(u)
        /\ DOMAIN Mine(u) \cap DOMAIN Mine(t) = {}
        /\ DOMAIN RowsOf(u)' = DOMAIN Mine(u) \cup DOMAIN RowsOf(t)
        /\ \A r \in DOMAIN Mine(u) : RowsOf(u)'[r] = Mine(u)[r]
        /\ \A r \in DOMAIN RowsOf(t) \ DOMAIN Mine(u) : RowsOf(u)'[r] = RowsOf(t)[r]
  BY CommitFacts
<1>3. Fits(quest, rows, FALSE) /\ LeadsBy(t)
  BY InStepThen
<1>4. LeadsBy(t)'
  <2>1. DOMAIN Mine(t)' = {}
    BY <1>1
  <2>. QED
    BY <1>1, <2>1, QuietLead
<1>5. CASE Holds(t)
  <2>1. quest' = txns[t].draft.quest
    BY <1>1, <1>5 DEF QuestOf, Holds
  <2>2. Fits(txns[t].draft.quest, V, FALSE)
    BY <1>0, <1>1, <1>3, <1>5 DEF LeadsBy, Fits
  <2>3. Fits(quest, rows, FALSE)'
    BY <1>1, <2>1, <2>2 DEF Fits, In
  <2>4. ASSUME NEW u \in Txns \ {t} PROVE LeadsBy(u)'
    <3>1. LeadsBy(u) /\ ~Holds(u)
      BY <1>5, InStepThen DEF Sound, Locks
    <3>2. Mine(u)' = Mine(u) /\ txns'[u] = txns[u] /\ ~Holds(u)'
      BY <1>1, <1>2, <3>1
    <3>. QED
      BY <3>1, <3>2 DEF LeadsBy
  <2>. QED
    BY <1>4, <2>3, <2>4 DEF InStep
<1>6. CASE ~Holds(t)
  <2>1. /\ quest' = quest /\ DOMAIN V = DOMAIN rows
        /\ \A r \in DOMAIN rows : V[r].step = rows[r].step /\ V[r].done = rows[r].done
    BY <1>0, <1>6, CommitKeeps
  <2>2. Fits(quest, V, FALSE)
    BY <1>3, <2>1, FitsSame
  <2>3. Fits(quest, rows, FALSE)'
    BY <1>1, <2>1, <2>2 DEF Fits, In
  <2>4. ASSUME NEW u \in Txns \ {t} PROVE LeadsBy(u)'
    <3>1. LeadsBy(u)
      BY InStepThen
    <3>2. Mine(u)' = Mine(u) /\ txns'[u] = txns[u] /\ (Holds(u)' <=> Holds(u)) /\ quest' = quest
      BY <1>1, <1>2, <2>1
    <3>3. CASE ~Holds(u)
      BY <3>1, <3>2, <3>3 DEF LeadsBy
    <3>4. CASE Holds(u)
      <4>1. /\ DOMAIN RowsOf(u)' = DOMAIN Mine(u) \cup DOMAIN V
            /\ \A r \in DOMAIN Mine(u) : RowsOf(u)'[r] = Mine(u)[r]
            /\ \A r \in DOMAIN V \ DOMAIN Mine(u) : RowsOf(u)'[r] = V[r]
        BY <1>0, <1>2
      <4>2. /\ DOMAIN RowsOf(u)' = DOMAIN RowsOf(u)
            /\ \A r \in DOMAIN RowsOf(u) : /\ RowsOf(u)'[r].step = RowsOf(u)[r].step
                                           /\ RowsOf(u)'[r].done = RowsOf(u)[r].done
        BY <2>1, <4>1, ViewFacts, ZenonT(60)
      <4>3. Fits(txns[u].draft.quest, RowsOf(u), txns[u].pc = "advance")
        BY <3>1, <3>4 DEF LeadsBy
      <4>4. Fits(txns[u].draft.quest, RowsOf(u)', txns[u].pc = "advance")
        BY <4>2, <4>3, FitsSame
      <4>5. Fits(txns[u].draft.quest, RowsOf(u), txns[u].pc = "advance")'
        BY <3>2, <4>4 DEF Fits, In
      <4>. QED
        BY <3>1, <3>2, <3>4, <4>5 DEF LeadsBy
    <3>. QED
      BY <3>3, <3>4
  <2>. QED
    BY <1>4, <2>3, <2>4 DEF InStep
<1>. QED
  BY <1>5, <1>6

LEMMA GrantLead ==
  ASSUME TypeOK, Sound, InStep, stale = {}, NEW t \in Txns, Grant(t)
  PROVE  InStep'
<1>1. PICK r :
        /\ r \in DOMAIN rows /\ DOMAIN rows' = DOMAIN rows
        /\ \A q \in DOMAIN rows \ {r} : rows'[q] = rows[q]
        /\ rows'[r].step = rows[r].step /\ rows'[r].done = rows[r].done
        /\ \A u \in Txns \ {t} :
             /\ Mine(u)' = Mine(u) /\ (Holds(u)' <=> Holds(u)) /\ ToGo(u)' = ToGo(u)
             /\ r \notin DOMAIN Mine(u) /\ DOMAIN RowsOf(u)' = DOMAIN RowsOf(u)
             /\ \A q \in DOMAIN RowsOf(u) \ {r} : RowsOf(u)'[q] = RowsOf(u)[q]
             /\ RowsOf(u)'[r] = rows'[r] /\ RowsOf(u)[r] = rows[r]
  <2>. DEFINE r0 == txns[t].read.id
  <2>1. /\ r0 \in DOMAIN rows /\ DOMAIN rows' = DOMAIN rows
        /\ \A q \in DOMAIN rows \ {r0} : rows'[q] = rows[q]
        /\ rows'[r0].step = rows[r0].step /\ rows'[r0].done = rows[r0].done
        /\ \A u \in Txns \ {t} :
             /\ Mine(u)' = Mine(u) /\ (Holds(u)' <=> Holds(u)) /\ ToGo(u)' = ToGo(u)
             /\ r0 \notin DOMAIN Mine(u) /\ DOMAIN RowsOf(u)' = DOMAIN RowsOf(u)
             /\ \A q \in DOMAIN RowsOf(u) \ {r0} : RowsOf(u)'[q] = RowsOf(u)[q]
             /\ RowsOf(u)'[r0] = rows'[r0] /\ RowsOf(u)[r0] = rows[r0]
    BY GrantFacts
  <2>. HIDE DEF r0
  <2>. QED
    BY <2>1
<1>2. /\ \A u \in Txns \ {t} : txns'[u] = txns[u]
      /\ quest' = quest /\ Mine(t)' = << >> /\ ~Holds(t)'
  BY GrantFacts
<1>3. Fits(quest, rows, FALSE)'
  <2>1. \A q \in DOMAIN rows : rows'[q].step = rows[q].step /\ rows'[q].done = rows[q].done
    BY <1>1
  <2>2. Fits(quest, rows, FALSE)
    BY DEF InStep
  <2>3. Fits(quest, rows', FALSE)
    BY <1>1, <2>1, <2>2, FitsSame
  <2>. QED
    BY <1>2, <2>3 DEF Fits, In
<1>4. ASSUME NEW u \in Txns \ {t} PROVE LeadsBy(u)'
  <2>1. LeadsBy(u)
    BY InStepThen
  <2>2. Mine(u)' = Mine(u) /\ txns'[u] = txns[u] /\ (Holds(u)' <=> Holds(u)) /\ quest' = quest
    BY <1>1, <1>2
  <2>3. CASE ~Holds(u)
    BY <2>1, <2>2, <2>3 DEF LeadsBy
  <2>4. CASE Holds(u)
    <3>1. /\ DOMAIN RowsOf(u)' = DOMAIN RowsOf(u)
          /\ \A q \in DOMAIN RowsOf(u) : /\ RowsOf(u)'[q].step = RowsOf(u)[q].step
                                         /\ RowsOf(u)'[q].done = RowsOf(u)[q].done
      BY <1>1
    <3>2. Fits(txns[u].draft.quest, RowsOf(u), txns[u].pc = "advance")
      BY <2>1, <2>4 DEF LeadsBy
    <3>3. Fits(txns[u].draft.quest, RowsOf(u)', txns[u].pc = "advance")
      BY <3>1, <3>2, FitsSame
    <3>4. Fits(txns[u].draft.quest, RowsOf(u), txns[u].pc = "advance")'
      BY <2>2, <3>3 DEF Fits, In
    <3>. QED
      BY <2>1, <2>2, <2>4, <3>4 DEF LeadsBy
  <2>. QED
    BY <2>3, <2>4
<1>5. LeadsBy(t)'
  <2>1. DOMAIN Mine(t)' = {}
    BY <1>2
  <2>. QED
    BY <1>2, <2>1, QuietLead
<1>. QED
  BY <1>3, <1>4, <1>5 DEF InStep

LEMMA NextLead ==
  ASSUME TypeOK, Sound, Tallied, InStep, [Next]_vars
  PROVE  InStep'
<1>. SUFFICES ASSUME stale' = {} PROVE InStep'
  BY DEF InStep
<1>1. stale = {}
  BY StaleGrows
<1>2. CASE UNCHANGED vars
  <2>1. UNCHANGED <<quest, rows, txns, stale>>
    BY <1>2 DEF vars, history
  <2>2. ASSUME NEW t \in Txns PROVE LeadsBy(t)'
    <3>1. LeadsBy(t) /\ Mine(t)' = Mine(t) /\ RowsOf(t)' = RowsOf(t) /\ (Holds(t)' <=> Holds(t))
      BY <1>1, <2>1, InStepThen DEF Mine, RowsOf, Holds
    <3>2. txns'[t] = txns[t] /\ quest' = quest
      BY <2>1
    <3>. QED
      BY <3>1, <3>2 DEF LeadsBy, Fits, In
  <2>3. Fits(quest, rows, FALSE)'
    BY <1>1, <2>1 DEF InStep, Fits, In
  <2>. QED
    BY <2>2, <2>3 DEF InStep
<1>3. ASSUME NEW t \in Txns, TxnStep(t) PROVE InStep'
  <2>1. CASE \/ \E kind \in Kinds : Record(t, kind)
             \/ Swallow(t) \/ Abort(t)
             \/ \E r \in DOMAIN rows : LockStep(t, r)
    BY <1>1, <2>1, QuietStepsLead
  <2>2. CASE Assign(t)
    BY <1>1, <2>2, AssignLead
  <2>3. CASE Pass(t) \/ Look(t)
    BY <1>1, <2>3, PassLookLead
  <2>4. CASE Count(t)
    BY <1>1, <2>4, CountLead
  <2>5. CASE Advance(t)
    BY <1>1, <2>5, AdvanceLead
  <2>6. CASE Commit(t)
    BY <1>1, <2>6, CommitLead
  <2>7. CASE Grant(t)
    BY <1>1, <2>7, GrantLead
  <2>. QED
    BY <1>3, <2>1, <2>2, <2>3, <2>4, <2>5, <2>6, <2>7 DEF TxnStep
<1>. QED
  BY <1>2, <1>3 DEF Next


-----------------------------------------------------------------------------
(* The events that are noted.                                              *)

LEMMA BeyondSame ==
  ASSUME TypeOK, Sound, NEW s \in Steps, before'[s].log = before[s].log,
         \A d \in DOMAIN events : events'[d] = events[d]
  PROVE  \A e : Beyond(e, s)' <=> Beyond(e, s)
<1>1. before[s].log \subseteq DOMAIN events
  BY DEF Sound, Logged
<1>2. ASSUME NEW e
      PROVE  {d \in before'[s].log : d <= e /\ events'[d] \in Heard[s]}
               = {d \in before[s].log : d <= e /\ events[d] \in Heard[s]}
  BY <1>1
<1>. QED
  BY <1>2 DEF Beyond

LEMMA QuestSteps ==
  ASSUME TypeOK
  PROVE  /\ quest.status = "active" =>
              quest.step \in Steps /\ quest = [status |-> "active", step |-> quest.step]
         /\ \A t \in Txns : txns[t].draft.quest.status = "active" =>
              /\ txns[t].draft.quest.step \in Steps /\ Holds(t)
              /\ txns[t].draft.quest = [status |-> "active", step |-> txns[t].draft.quest.step]
<1>1. ASSUME NEW Q \in Quest, Q.status = "active"
      PROVE  Q.step \in Steps /\ Q = [status |-> "active", step |-> Q.step] /\ Q # Unassigned
  BY <1>1 DEF Quest, Unassigned
<1>2. quest \in Quest /\ \A t \in Txns : txns[t].draft.quest \in Quest
  BY TxnFacts DEF TypeOK
<1>. QED
  BY <1>1, <1>2 DEF Holds

\* A step of one session leaves what is noted by the others and in the log.
LEMMA NoteLocal ==
  ASSUME TypeOK, Sound, Noted, stale = {}, NEW t \in Txns, \A u \in Txns \ {t} : txns'[u] = txns[u],
         UNCHANGED <<committed, quest, applied, before>>, skipped \subseteq skipped',
         \A d \in DOMAIN events : events'[d] = events[d],
         \A s \in Steps : quest = [status |-> "active", step |-> s] => EventNoted(t, s)',
         \A s \in Steps : txns'[t].draft.quest = [status |-> "active", step |-> s] => CatchesUp(t, s)',
         txns'[t].draft.quest \in Quest
  PROVE  Noted'
<1>1. \A s \in Steps : \A e : Beyond(e, s)' <=> Beyond(e, s)
  BY BeyondSame
<1>2. committed \subseteq DOMAIN events /\ \A s \in Steps : before[s].log \subseteq DOMAIN events
  BY DEF Sound, Logged
<1>3. ASSUME NEW s \in Steps, LogNoted(s) PROVE LogNoted(s)'
  <2>1. \A e \in committed : events'[e] = events[e] /\ (Beyond(e, s)' <=> Beyond(e, s))
    BY <1>1, <1>2
  <2>2. ASSUME NEW e \in committed
        PROVE  \/ events'[e] \notin Passing[s] \/ <<e, s>> \in applied'
               \/ e \in before'[s].flying \/ Beyond(e, s)' \/ e \in skipped'
    BY <1>3, <2>1 DEF LogNoted
  <2>. QED
    BY <2>2 DEF LogNoted
<1>4. ASSUME NEW u \in Txns \ {t}, NEW s \in Steps, EventNoted(u, s) PROVE EventNoted(u, s)'
  <2>1. (Holds(u)' <=> Holds(u)) /\ ToGo(u)' = ToGo(u) /\ txns'[u] = txns[u]
    BY DEF Holds, ToGo
  <2>2. txns[u].event # 0 => events'[txns[u].event] = events[txns[u].event]
    BY DEF Sound, Logged, LoggedBy
  <2>. QED
    BY <1>4, <2>1, <2>2 DEF EventNoted
<1>5. ASSUME NEW u \in Txns \ {t}, NEW s \in Steps, CatchesUp(u, s) PROVE CatchesUp(u, s)'
  <2>1. LogOf(u)' = LogOf(u) /\ ToGo(u)' = ToGo(u) /\ txns'[u] = txns[u]
    BY DEF LogOf, ToGo
  <2>2. ASSUME NEW e \in before[s].log
        PROVE  \/ events'[e] \notin Passing[s] \/ Beyond(e, s)'
               \/ <<e, s>> \in applied \cup txns[u].draft.applied \cup ToGo(u)
    BY <1>1, <1>2, <1>5, <2>2 DEF CatchesUp
  <2>. QED
    BY <1>5, <2>1, <2>2 DEF CatchesUp
<1>6. ASSUME quest.status = "active"
      PROVE  LogNoted(quest.step)' /\ \A u \in Txns : EventNoted(u, quest.step)'
  <2>1. PICK s \in Steps : s = quest.step /\ quest = [status |-> "active", step |-> s] /\ quest' = quest
    BY <1>6, QuestSteps
  <2>2. LogNoted(s) /\ \A u \in Txns : EventNoted(u, s)
    BY <1>6, <2>1 DEF Noted
  <2>3. LogNoted(s)' /\ EventNoted(t, s)' /\ \A u \in Txns \ {t} : EventNoted(u, s)'
    BY <1>3, <1>4, <2>1, <2>2
  <2>4. quest'.step = s
    BY <2>1
  <2>. QED
    BY <2>3, <2>4 DEF LogNoted, EventNoted, Beyond
<1>7. ASSUME NEW u \in Txns, txns'[u].draft.quest.status = "active"
      PROVE  CatchesUp(u, txns[u].draft.quest.step)'
  <2>1. txns'[u].draft.quest \in Quest
    BY TxnFacts
  <2>2. PICK s \in Steps : txns'[u].draft.quest = [status |-> "active", step |-> s]
                           /\ txns'[u].draft.quest.step = s
    BY <1>7, <2>1 DEF Quest, Unassigned
  <2>3. CatchesUp(u, s)'
    <3>1. CASE u = t
      BY <2>2, <3>1
    <3>2. CASE u # t
      <4>1. txns[u].draft.quest.status = "active" /\ txns[u].draft.quest.step = s
        BY <1>7, <2>2, <3>2
      <4>2. CatchesUp(u, s)
        BY <4>1 DEF Noted
      <4>. QED
        BY <1>5, <3>2, <4>2
    <3>. QED
      BY <3>1, <3>2
  <2>. QED
    BY <2>2, <2>3 DEF CatchesUp, Beyond
<1>. QED
  BY <1>6, <1>7 DEF Noted


LEMMA InitNoted == Init => Noted
<1>. SUFFICES ASSUME Init PROVE Noted
  OBVIOUS
<1>1. quest.status = "none" /\ \A t \in Txns : txns[t].draft.quest.status = "none"
  BY RestingFacts DEF Init, Unassigned
<1>. QED
  BY <1>1 DEF Noted

\* An event that is recorded is to be evaluated for every step that wants it.
LEMMA RecordNoted ==
  ASSUME TypeOK, Sound, Noted, stale = {}, NEW t \in Txns, NEW kind \in Kinds, Record(t, kind)
  PROVE  Noted'
<1>1. PICK e \in Nat :
        /\ \A u \in Txns \ {t} : txns'[u] = txns[u]
        /\ UNCHANGED <<committed, quest, applied, before, skipped>>
        /\ events'[e] = kind /\ \A d \in DOMAIN events : events'[d] = events[d]
        /\ txns'[t].event = e /\ ToGo(t)' = ToSet(Subscribed(e, kind))
        /\ txns'[t].draft = NoDraft
  <2>. DEFINE e0 == Len(events) + 1
  <2>1. /\ \A u \in Txns \ {t} : txns'[u] = txns[u]
        /\ UNCHANGED <<committed, quest, applied, before, skipped>>
        /\ e0 \in Nat /\ events'[e0] = kind /\ \A d \in DOMAIN events : events'[d] = events[d]
        /\ txns'[t].event = e0 /\ ToGo(t)' = ToSet(Subscribed(e0, kind))
        /\ txns'[t].draft = NoDraft
    BY RecordFacts
  <2>. HIDE DEF e0
  <2>. QED
    BY <2>1
<1>2. ASSUME NEW s \in Steps PROVE EventNoted(t, s)'
  <2>1. events'[e] \in Passing[s] => <<e, s>> \in ToGo(t)'
    BY <1>1, SubscribedItems, StepsAreFinite
  <2>. QED
    BY <1>1, <2>1 DEF EventNoted
<1>3. txns'[t].draft.quest = Unassigned /\ Unassigned \in Quest
  BY <1>1, RestingFacts
<1>4. \A s \in Steps : txns'[t].draft.quest # [status |-> "active", step |-> s]
  BY <1>3 DEF Unassigned
<1>. QED
  BY <1>1, <1>2, <1>3, <1>4, NoteLocal

\* An evaluation that fails, a claim and its payment.
LEMMA QuietNoted ==
  ASSUME TypeOK, Sound, Noted, stale = {}, NEW t \in Txns,
         \/ Swallow(t) \/ Abort(t) \/ Grant(t)
         \/ \E r \in DOMAIN rows : LockStep(t, r)
  PROVE  Noted'
<1>1. /\ \A u \in Txns \ {t} : txns'[u] = txns[u]
      /\ UNCHANGED <<events, committed, quest, applied, before>> /\ skipped \subseteq skipped'
      /\ txns'[t].draft.quest = Unassigned
      /\ txns'[t].event = 0 \/ txns'[t].event \in skipped'
  <2>1. CASE Swallow(t) \/ Abort(t)
    <3>1. /\ \A u \in Txns \ {t} : txns'[u] = txns[u]
          /\ UNCHANGED <<events, committed, quest, applied, before>>
          /\ txns'[t].draft = NoDraft
          /\ \/ txns'[t] = Resting /\ skipped' = skipped
             \/ /\ txns'[t].pc = "look" /\ txns'[t].event = txns[t].event
                /\ skipped' = skipped \cup {txns[t].event}
      BY <2>1, GivenUp
    <3>. QED
      BY <3>1, RestingFacts
  <2>2. CASE Grant(t)
    <3>1. /\ \A u \in Txns \ {t} : txns'[u] = txns[u]
          /\ UNCHANGED <<events, committed, quest, applied, before, skipped>>
          /\ txns'[t] = Resting
      BY <2>2, GrantFacts
    <3>. QED
      BY <3>1, RestingFacts
  <2>3. ASSUME NEW r \in DOMAIN rows, LockStep(t, r)
        PROVE  /\ \A u \in Txns \ {t} : txns'[u] = txns[u]
               /\ UNCHANGED <<events, committed, quest, applied, before, skipped>>
               /\ txns'[t].event = 0 /\ txns'[t].draft.quest = Unassigned
    BY <2>3, LockFacts
  <2>. QED
    BY <2>1, <2>2, <2>3
<1>2. ASSUME NEW s \in Steps PROVE EventNoted(t, s)'
  BY <1>1 DEF EventNoted
<1>3. \A s \in Steps : txns'[t].draft.quest # [status |-> "active", step |-> s]
  BY <1>1 DEF Unassigned
<1>. QED
  BY <1>1, <1>2, <1>3, RestingFacts, NoteLocal

\* The current step has an open row, in whoever's sight.
LEMMA CandidateIsThere ==
  ASSUME TypeOK, Sound, InStep, stale = {}, NEW t \in Txns, txns[t].pc = "look",
         NEW s \in Steps, QuestOf(t) = [status |-> "active", step |-> s]
  PROVE  Candidates(t, s) # {}
<1>1. Fits(quest, rows, FALSE) /\ LeadsBy(t)
  BY InStepThen
<1>2. \E r \in DOMAIN RowsOf(t) : RowsOf(t)[r].step = s /\ ~RowsOf(t)[r].done
  <2>1. CASE Holds(t)
    <3>1. Fits([status |-> "active", step |-> s], RowsOf(t), FALSE)
      BY <1>1, <2>1 DEF LeadsBy, QuestOf, Holds
    <3>2. PICK r \in In(RowsOf(t), s) : RowsOf(t)[r].done <=> RowsOf(t)[r].step < s
      BY <3>1 DEF Fits, In
    <3>3. r \in DOMAIN RowsOf(t) /\ RowsOf(t)[r].step = s /\ s \in Nat
      BY StepsAreFinite DEF In
    <3>. QED
      BY <3>2, <3>3
  <2>2. CASE ~Holds(t)
    <3>1. Fits([status |-> "active", step |-> s], rows, FALSE)
      BY <1>1, <2>2 DEF QuestOf, Holds
    <3>2. PICK r \in In(rows, s) : rows[r].done <=> rows[r].step < s
      BY <3>1 DEF Fits, In
    <3>3. r \in DOMAIN rows /\ rows[r].step = s /\ s \in Nat
      BY StepsAreFinite DEF In
    <3>4. ~rows[r].done
      BY <3>2, <3>3
    <3>5. CASE r \in DOMAIN Mine(t)
      <4>1. KeptBy(t)
        BY DEF Sound, Kept
      <4>2. Mine(t)[r].step = s /\ ~Mine(t)[r].done
        BY <1>1, <2>2, <3>3, <3>5, <4>1 DEF KeptBy, LeadsBy
      <4>. QED
        BY <3>5, <4>2, ViewFacts
    <3>6. CASE r \notin DOMAIN Mine(t)
      BY <3>3, <3>4, <3>6, ViewFacts
    <3>. QED
      BY <3>5, <3>6
  <2>. QED
    BY <2>1, <2>2
<1>. QED
  BY <1>2 DEF Candidates

\* What an evaluation has done with is entered, or was not for the quest's step.
LEMMA EvaluatesNoted ==
  ASSUME TypeOK, Sound, Noted, stale = {}, NEW t \in Txns, \A u \in Txns \ {t} : txns'[u] = txns[u],
         UNCHANGED <<events, committed, quest, applied, before, skipped>>,
         txns'[t].event = txns[t].event, txns'[t].draft.quest = txns[t].draft.quest,
         txns[t].draft.applied \subseteq txns'[t].draft.applied,
         \A s \in Steps : QuestOf(t) = [status |-> "active", step |-> s] =>
           \A e : <<e, s>> \in ToGo(t) =>
             \/ events[e] \notin Passing[s]
             \/ <<e, s>> \in ToGo(t)' \cup applied \cup txns'[t].draft.applied
  PROVE  Noted'
<1>1. (Holds(t)' <=> Holds(t)) /\ LogOf(t)' = LogOf(t)
  BY DEF Holds, LogOf
<1>2. ASSUME NEW s \in Steps, quest = [status |-> "active", step |-> s] PROVE EventNoted(t, s)'
  <2>1. SUFFICES ASSUME ~Holds(t), txns[t].event # 0, events[txns[t].event] \in Passing[s],
                        txns[t].event \notin before[s].flying, txns[t].event \notin skipped
                 PROVE  <<txns[t].event, s>> \in txns'[t].draft.applied \cup ToGo(t)'
    BY <1>1 DEF EventNoted
  <2>2. quest.status = "active" /\ quest.step = s
    BY <1>2
  <2>3. EventNoted(t, s)
    BY <2>2 DEF Noted
  <2>4. <<txns[t].event, s>> \in txns[t].draft.applied \cup ToGo(t)
    BY <2>1, <2>3 DEF EventNoted
  <2>5. QuestOf(t) = [status |-> "active", step |-> s]
    BY <1>2, <2>1 DEF QuestOf, Holds
  <2>6. <<txns[t].event, s>> \notin applied
    <3>1. \A p \in applied : p[1] \in committed
      BY DEF Sound, Logged
    <3>2. txns[t].event \notin committed
      BY <2>1 DEF Sound, Logged, LoggedBy
    <3>. QED
      BY <3>1, <3>2
  <2>. QED
    BY <2>1, <2>4, <2>5, <2>6
<1>3. ASSUME NEW s \in Steps, txns'[t].draft.quest = [status |-> "active", step |-> s]
      PROVE  CatchesUp(t, s)'
  <2>1. txns[t].draft.quest.status = "active" /\ txns[t].draft.quest.step = s
        /\ QuestOf(t) = [status |-> "active", step |-> s]
    BY <1>3 DEF QuestOf, Unassigned
  <2>2. CatchesUp(t, s)
    BY <2>1 DEF Noted
  <2>3. \A e : Beyond(e, s)' <=> Beyond(e, s)
    BY BeyondSame
  <2>4. ASSUME NEW e \in before[s].log
        PROVE  \/ events[e] \notin Passing[s] \/ Beyond(e, s)'
               \/ <<e, s>> \in applied \cup txns'[t].draft.applied \cup ToGo(t)'
    BY <2>1, <2>2, <2>3 DEF CatchesUp
  <2>. QED
    BY <1>1, <2>2, <2>4 DEF CatchesUp
<1>. QED
  BY <1>2, <1>3, TxnFacts, NoteLocal

LEMMA PassNoted ==
  ASSUME TypeOK, Sound, InStep, Noted, stale = {}, NEW t \in Txns, Pass(t)
  PROVE  Noted'
<1>1. PICK e \in Nat, s \in Steps :
         /\ \A u \in Txns \ {t} : txns'[u] = txns[u]
         /\ UNCHANGED <<events, committed, quest, rows, applied, paid, stale, before, skipped>>
         /\ txns[t].pc = "look" /\ txns'[t].pc = "look"
         /\ txns'[t].event = txns[t].event /\ txns'[t].draft = txns[t].draft
         /\ ToGo(t) \subseteq ToGo(t)' \cup {<<e, s>>}
         /\ Candidates(t, s) = {} \/ events[e] \notin Passing[s] \/ Seen(t, e, s)
  BY PassFacts
<1>2. ASSUME NEW p \in Steps, QuestOf(t) = [status |-> "active", step |-> p],
             NEW d, <<d, p>> \in ToGo(t)
      PROVE  \/ events[d] \notin Passing[p]
             \/ <<d, p>> \in ToGo(t)' \cup applied \cup txns'[t].draft.applied
  <2>1. CASE <<d, p>> = <<e, s>>
    <3>1. d = e /\ p = s
      BY <2>1
    <3>2. Candidates(t, s) # {}
      BY <1>1, <1>2, <3>1, CandidateIsThere
    <3>. QED
      BY <1>1, <3>1, <3>2 DEF Seen
  <2>2. CASE <<d, p>> # <<e, s>>
    BY <1>1, <1>2, <2>2
  <2>. QED
    BY <2>1, <2>2
<1>. QED
  BY <1>1, <1>2, EvaluatesNoted

LEMMA LookNoted ==
  ASSUME TypeOK, Sound, Noted, stale = {}, NEW t \in Txns, Look(t)
  PROVE  Noted'
BY LookFacts, EvaluatesNoted

LEMMA CountNoted ==
  ASSUME TypeOK, Sound, Noted, stale = {}, NEW t \in Txns, Count(t)
  PROVE  Noted'
<1>1. /\ UNCHANGED <<events, committed, quest, rows, applied, paid, before, skipped>>
      /\ \A u \in Txns \ {t} : txns'[u] = txns[u]
      /\ txns'[t].event = txns[t].event /\ txns'[t].draft.quest = txns[t].draft.quest
      /\ txns'[t].draft.applied = txns[t].draft.applied
      /\ \A p \in ToGo(t) : p \in ToGo(t)' \/ p \in txns[t].draft.applied
  BY CountFacts
<1>. QED
  BY <1>1, EvaluatesNoted, SMTT(40)


\* A step that begins catches up with what its session sees of the log.
LEMMA BeginsNoted ==
  ASSUME TypeOK, Sound, NEW t \in Txns, NEW s \in Steps, UNCHANGED <<events, committed>>,
         before' = Begins(s, t), LogOf(t)' = LogOf(t),
         ToSet(CatchUp(s, LogOf(t))) \subseteq ToGo(t)'
  PROVE  CatchesUp(t, s)'
<1>1. before'[s].log = LogOf(t)
  BY BeginsFacts
<1>2. LogOf(t) \in SUBSET Nat /\ IsFiniteSet(LogOf(t))
  BY LogFacts
<1>3. ASSUME NEW e \in LogOf(t)
      PROVE  events[e] \notin Passing[s] \/ Beyond(e, s)' \/ <<e, s>> \in ToGo(t)'
  <2>1. SUFFICES ASSUME events[e] \in Heard[s], <<e, s>> \notin ToGo(t)' PROVE Beyond(e, s)'
    BY StepsAreFinite
  <2>2. <<e, s>> \notin ToSet(CatchUp(s, LogOf(t)))
    BY <2>1
  <2>3. Cardinality({d \in LogOf(t) : d <= e /\ events[d] \in Heard[s]}) > Limit
    BY <1>2, <2>1, <2>2, CatchUpItems
  <2>. QED
    BY <1>1, <2>3 DEF Beyond
<1>. QED
  BY <1>1, <1>3 DEF CatchesUp

LEMMA AssignNoted ==
  ASSUME TypeOK, Sound, Noted, stale = {}, NEW t \in Txns, Assign(t)
  PROVE  Noted'
<1>1. /\ UNCHANGED <<events, committed, quest>> /\ quest = Unassigned
      /\ \A u \in Txns \ {t} : txns'[u] = txns[u]
      /\ txns'[t].draft.quest = [status |-> "active", step |-> 1] /\ LogOf(t) = committed
      /\ txns'[t].event = 0 /\ ToGo(t)' = ToSet(CatchUp(1, committed)) /\ before' = Begins(1, t)
      /\ \A u \in Txns : ~Holds(u)
  <2>1. /\ UNCHANGED <<events, committed, quest>> /\ quest = Unassigned
        /\ \A u \in Txns \ {t} : txns'[u] = txns[u]
        /\ txns'[t].draft.quest = [status |-> "active", step |-> 1] /\ LogOf(t) = committed
        /\ txns'[t].event = 0 /\ ToGo(t)' = ToSet(CatchUp(1, committed)) /\ before' = Begins(1, t)
    BY AssignFacts
  <2>2. \A u \in Txns : ~Holds(u) /\ DOMAIN Mine(u) = {}
    BY AssignFacts
  <2>. QED
    BY <2>1, <2>2
<1>2. quest'.status = "none"
  BY <1>1 DEF Unassigned
<1>3. CatchesUp(t, 1)'
  <2>1. LogOf(t)' = LogOf(t)
    BY <1>1 DEF LogOf
  <2>. QED
    BY <1>1, <2>1, StepsAreFinite, BeginsNoted
<1>4. ASSUME NEW u \in Txns, txns'[u].draft.quest.status = "active"
      PROVE  CatchesUp(u, txns[u].draft.quest.step)'
  <2>1. CASE u = t
    BY <1>1, <1>3, <2>1 DEF CatchesUp, Beyond
  <2>2. CASE u # t
    <3>1. txns'[u].draft.quest = Unassigned
      BY <1>1, <2>2 DEF Holds
    <3>. QED
      BY <1>4, <3>1 DEF Unassigned
  <2>. QED
    BY <2>1, <2>2
<1>. QED
  BY <1>2, <1>4 DEF Noted

LEMMA AdvanceNoted ==
  ASSUME TypeOK, Sound, Tallied, InStep, Noted, stale = {}, NEW t \in Txns, Advance(t)
  PROVE  Noted'
<1>1. PICK s :
        /\ s = txns[t].read.step /\ s \in Steps /\ s \in Nat /\ txns[t].pc = "advance" /\ QuestFree(t)
        /\ UNCHANGED <<events, committed, quest, applied, skipped>>
        /\ \A u \in Txns \ {t} : txns'[u] = txns[u]
        /\ txns'[t].event = txns[t].event /\ Holds(t)' /\ LogOf(t)' = LogOf(t)
        /\ s < Final =>
             /\ s + 1 \in Steps /\ before' = Begins(s + 1, t)
             /\ txns'[t].draft.quest = [status |-> QuestOf(t).status, step |-> s + 1]
             /\ ToGo(t)' = ToSet(CatchUp(s + 1, LogOf(t))) \cup ToSet(Tail(txns[t].todo))
        /\ ~(s < Final) =>
             /\ txns'[t].draft.quest = [status |-> "completed", step |-> QuestOf(t).step]
             /\ before' = before
  <2>. DEFINE s0 == txns[t].read.step
  <2>1. /\ s0 = txns[t].read.step /\ s0 \in Steps /\ txns[t].pc = "advance" /\ QuestFree(t)
        /\ UNCHANGED <<events, committed, quest, applied, skipped>>
        /\ \A u \in Txns \ {t} : txns'[u] = txns[u]
        /\ txns'[t].event = txns[t].event /\ Holds(t)' /\ LogOf(t)' = LogOf(t)
    BY AdvanceFacts
  <2>2. s0 < Final =>
          /\ s0 + 1 \in Steps /\ before' = Begins(s0 + 1, t)
          /\ txns'[t].draft.quest = [status |-> QuestOf(t).status, step |-> s0 + 1]
          /\ ToGo(t)' = ToSet(CatchUp(s0 + 1, LogOf(t))) \cup ToSet(Tail(txns[t].todo))
    BY AdvanceFacts
  <2>3. ~(s0 < Final) =>
          /\ txns'[t].draft.quest = [status |-> "completed", step |-> QuestOf(t).step]
          /\ before' = before
    BY AdvanceFacts
  <2>4. s0 \in Nat
    BY <2>1, StepsAreFinite
  <2>. HIDE DEF s0
  <2>. QED
    BY <2>1, <2>2, <2>3, <2>4
<1>2. QuestOf(t) = [status |-> "active", step |-> s] /\ quest.step <= s
  BY <1>1, AdvanceReady
\* The quest in the table is at an earlier step, whose log stays.
<1>3. ASSUME quest.status = "active"
      PROVE  LogNoted(quest.step)' /\ \A u \in Txns : EventNoted(u, quest.step)'
  <2>1. PICK q \in Steps : q = quest.step /\ quest'.step = q
    BY <1>1, <1>3, QuestSteps
  <2>2. LogNoted(q) /\ \A u \in Txns : EventNoted(u, q)
    BY <1>3, <2>1 DEF Noted
  <2>3. before'[q] = before[q]
    <3>1. CASE s < Final
      <4>1. q # s + 1
        BY <1>1, <1>2, <2>1, StepsAreFinite
      <4>. QED
        BY <1>1, <2>1, <3>1, <4>1, BeginsFacts
    <3>2. CASE ~(s < Final)
      BY <1>1, <3>2
    <3>. QED
      BY <3>1, <3>2
  <2>4. LogNoted(q)'
    BY <1>1, <2>2, <2>3 DEF LogNoted, Beyond
  <2>5. ASSUME NEW u \in Txns PROVE EventNoted(u, q)'
    <3>1. CASE u = t
      BY <1>1, <3>1 DEF EventNoted
    <3>2. CASE u # t
      <4>1. (Holds(u)' <=> Holds(u)) /\ ToGo(u)' = ToGo(u) /\ txns'[u] = txns[u]
        BY <1>1, <3>2 DEF Holds, ToGo
      <4>. QED
        BY <1>1, <2>2, <2>3, <4>1 DEF EventNoted
    <3>. QED
      BY <3>1, <3>2
  <2>. QED
    BY <2>1, <2>4, <2>5 DEF LogNoted, EventNoted, Beyond
<1>4. ASSUME NEW u \in Txns, txns'[u].draft.quest.status = "active"
      PROVE  CatchesUp(u, txns[u].draft.quest.step)'
  <2>1. CASE u = t
    <3>1. CASE s < Final
      <4>1. CatchesUp(t, s + 1)'
        BY <1>1, <3>1, BeginsNoted
      <4>2. txns'[t].draft.quest.step = s + 1
        BY <1>1, <3>1
      <4>. QED
        BY <2>1, <4>1, <4>2 DEF CatchesUp, Beyond
    <3>2. CASE ~(s < Final)
      BY <1>1, <1>4, <2>1, <3>2
    <3>. QED
      BY <3>1, <3>2
  <2>2. CASE u # t
    <3>1. txns'[u].draft.quest = Unassigned
      BY <1>1, <2>2 DEF QuestFree, Others
    <3>. QED
      BY <1>4, <3>1 DEF Unassigned
  <2>. QED
    BY <2>1, <2>2
<1>5. quest'.status = "active" => quest.status = "active"
  BY <1>1
<1>. QED
  BY <1>3, <1>4, <1>5 DEF Noted

\* A step that is committed has caught up with the log of its beginning; what
\* else is recorded by then was under way.
LEMMA CommitNoted ==
  ASSUME TypeOK, Sound, Tallied, InStep, Noted, stale = {}, NEW t \in Txns, Commit(t)
  PROVE  Noted'
<1>1. /\ \A u \in Txns \ {t} : txns'[u] = txns[u]
      /\ txns'[t] = Resting /\ txns[t].pc = "look" /\ ToGo(t) = {}
      /\ UNCHANGED <<events, stale, skipped>>
      /\ committed' = LogOf(t) /\ quest' = QuestOf(t) /\ before' = Begun(t)
      /\ applied' = applied \cup txns[t].draft.applied
  BY CommitFacts
<1>2. /\ \A s \in Steps : before'[s].log = before[s].log
      /\ \A s \in Steps : \A e : Beyond(e, s)' <=> Beyond(e, s)
  BY <1>1, CommitType, BeyondSame
<1>3. committed \subseteq LogOf(t) /\ LogOf(t) \subseteq DOMAIN events
  BY LogFacts
<1>4. ASSUME NEW u \in Txns \ {t}, NEW s \in Steps, CatchesUp(u, s) PROVE CatchesUp(u, s)'
  <2>1. LogOf(u) \subseteq LogOf(u)' /\ ToGo(u)' = ToGo(u) /\ txns'[u] = txns[u]
    BY <1>1, <1>3 DEF LogOf, ToGo
  <2>2. ASSUME NEW e \in before[s].log
        PROVE  \/ events[e] \notin Passing[s] \/ Beyond(e, s)'
               \/ <<e, s>> \in applied' \cup txns[u].draft.applied \cup ToGo(u)
    BY <1>1, <1>2, <1>4, <2>2, SMTT(40) DEF CatchesUp
  <2>. QED
    BY <1>1, <1>2, <1>4, <2>1, <2>2 DEF CatchesUp
<1>5. ASSUME NEW u \in Txns, txns'[u].draft.quest.status = "active"
      PROVE  CatchesUp(u, txns[u].draft.quest.step)'
  <2>1. u # t
    BY <1>1, <1>5, RestingFacts DEF Unassigned
  <2>2. PICK s \in Steps : s = txns[u].draft.quest.step /\ txns'[u].draft.quest.step = s
                           /\ txns[u].draft.quest.status = "active"
    BY <1>1, <1>5, <2>1, QuestSteps
  <2>3. CatchesUp(u, s)'
    BY <1>4, <2>1, <2>2 DEF Noted
  <2>. QED
    BY <2>2, <2>3 DEF CatchesUp, Beyond
<1>6. ASSUME quest'.status = "active"
      PROVE  LogNoted(quest.step)' /\ \A u \in Txns : EventNoted(u, quest.step)'
  <2>1. PICK s \in Steps : quest' = [status |-> "active", step |-> s] /\ quest'.step = s
    <3>1. quest' \in Quest
      BY CommitType DEF TypeOK
    <3>. QED
      BY <1>6, <3>1 DEF Quest, Unassigned
  <2>2. EventNoted(t, s)'
    BY <1>1, RestingFacts DEF EventNoted
  <2>3. CASE Holds(t)
    <3>1. txns[t].draft.quest = [status |-> "active", step |-> s]
      BY <1>1, <2>1, <2>3 DEF QuestOf, Holds
    <3>2. CatchesUp(t, s)
      <4>1. txns[t].draft.quest.status = "active" /\ txns[t].draft.quest.step = s
        BY <3>1
      <4>. QED
        BY <4>1 DEF Noted
    <3>3. before'[s].flying = DOMAIN events \ before[s].log
      <4>1. PICK r \in In(Mine(t), s) : r \notin DOMAIN rows
        <5>1. MovingBy(t, s)
          BY DEF Tallied, Tally, Undisturbed
        <5>. QED
          BY <3>1, <5>1 DEF MovingBy
      <4>2. s \in {Mine(t)[q].step : q \in DOMAIN Mine(t) \ DOMAIN rows}
        BY <4>1 DEF In
      <4>3. before[s] \in [log : SUBSET Nat, flying : SUBSET Nat]
        BY DEF TypeOK
      <4>. DEFINE f == DOMAIN events \ before[s].log
      <4>4. before'[s] = [before[s] EXCEPT !.flying = f]
        BY <1>1, <4>2 DEF Begun, Mine
      <4>. HIDE DEF f
      <4>5. before'[s].flying = f
        BY <4>3, <4>4
      <4>. QED
        BY <4>5 DEF f
    <3>4. LogNoted(s)'
      <4>1. ASSUME NEW e \in committed'
            PROVE  \/ events'[e] \notin Passing[s] \/ <<e, s>> \in applied'
                   \/ e \in before'[s].flying \/ Beyond(e, s)' \/ e \in skipped'
        <5>1. CASE e \in before[s].log
          BY <1>1, <1>2, <3>2, <5>1 DEF CatchesUp
        <5>2. CASE e \notin before[s].log
          BY <1>1, <1>3, <3>3, <4>1, <5>2
        <5>. QED
          BY <5>1, <5>2
      <4>. QED
        BY <4>1 DEF LogNoted
    <3>5. ASSUME NEW u \in Txns \ {t} PROVE EventNoted(u, s)'
      <4>1. txns[u].event # 0 => txns[u].event \in before'[s].flying
        <5>1. SUFFICES ASSUME txns[u].event # 0 PROVE txns[u].event \in DOMAIN events \ LogOf(t)
          BY <3>2, <3>3 DEF CatchesUp
        <5>2. txns[u].event \in DOMAIN events \ committed /\ txns[u].event # txns[t].event
          BY <5>1 DEF Sound, Logged, LoggedBy
        <5>. QED
          BY <5>2, <5>1 DEF LogOf
      <4>. QED
        BY <1>1, <4>1 DEF EventNoted
    <3>. QED
      BY <2>1, <2>2, <3>4, <3>5 DEF LogNoted, EventNoted, Beyond
  <2>4. CASE ~Holds(t)
    <3>1. quest' = quest /\ quest.status = "active" /\ quest.step = s
      BY <1>1, <2>1, <2>4 DEF QuestOf, Holds
    <3>2. LogNoted(s) /\ \A u \in Txns : EventNoted(u, s)
      BY <3>1 DEF Noted
    <3>3. before'[s] = before[s]
      <4>1. DOMAIN Mine(t) \ DOMAIN rows = {}
        BY <2>4 DEF Sound, Locks
      <4>. QED
        BY <1>1, <4>1 DEF Begun, Mine
    <3>4. LogNoted(s)'
      <4>1. ASSUME NEW e \in committed'
            PROVE  \/ events'[e] \notin Passing[s] \/ <<e, s>> \in applied'
                   \/ e \in before'[s].flying \/ Beyond(e, s)' \/ e \in skipped'
        <5>1. CASE e \in committed
          BY <1>1, <1>2, <3>2, <3>3, <5>1 DEF LogNoted
        <5>2. CASE e \notin committed
          <6>1. e = txns[t].event /\ e # 0
            BY <1>1, <4>1, <5>2 DEF LogOf
          <6>. QED
            BY <1>1, <2>4, <3>2, <3>3, <6>1 DEF EventNoted
        <5>. QED
          BY <5>1, <5>2
      <4>. QED
        BY <4>1 DEF LogNoted
    <3>5. ASSUME NEW u \in Txns \ {t} PROVE EventNoted(u, s)'
      <4>1. (Holds(u)' <=> Holds(u)) /\ ToGo(u)' = ToGo(u) /\ txns'[u] = txns[u]
        BY <1>1 DEF Holds, ToGo
      <4>. QED
        BY <1>1, <3>2, <3>3, <4>1 DEF EventNoted
    <3>. QED
      BY <2>1, <2>2, <3>4, <3>5 DEF LogNoted, EventNoted, Beyond
  <2>. QED
    BY <2>3, <2>4
<1>. QED
  BY <1>5, <1>6 DEF Noted

LEMMA NextNoted ==
  ASSUME TypeOK, Sound, Tallied, InStep, Noted, [Next]_vars
  PROVE  Noted'
<1>. SUFFICES ASSUME stale' = {} PROVE Noted'
  BY DEF Noted
<1>1. stale = {}
  BY StaleGrows, SMTT(40)
<1>2. CASE UNCHANGED vars
  <2>1. UNCHANGED <<events, committed, quest, applied, txns, stale, before, skipped>>
    BY <1>2 DEF vars, history
  <2>. QED
    BY <2>1, SMTT(40) DEF Noted, LogNoted, EventNoted, CatchesUp, Beyond, Holds, ToGo, LogOf
<1>3. ASSUME NEW t \in Txns, TxnStep(t) PROVE Noted'
  <2>1. ASSUME NEW kind \in Kinds, Record(t, kind) PROVE Noted'
    BY <1>1, <2>1, RecordNoted
  <2>2. CASE \/ Swallow(t) \/ Abort(t) \/ Grant(t)
             \/ \E r \in DOMAIN rows : LockStep(t, r)
    BY <1>1, <2>2, QuietNoted
  <2>3. CASE Assign(t)
    BY <1>1, <2>3, AssignNoted
  <2>4. CASE Pass(t)
    BY <1>1, <2>4, PassNoted
  <2>5. CASE Look(t)
    BY <1>1, <2>5, LookNoted
  <2>6. CASE Count(t)
    BY <1>1, <2>6, CountNoted
  <2>7. CASE Advance(t)
    BY <1>1, <2>7, AdvanceNoted
  <2>8. CASE Commit(t)
    BY <1>1, <2>8, CommitNoted
  <2>. QED
    BY <1>3, <2>1, <2>2, <2>3, <2>4, <2>5, <2>6, <2>7, <2>8 DEF TxnStep
<1>. QED
  BY <1>2, <1>3 DEF Next


-----------------------------------------------------------------------------
(* What follows.                                                           *)

Inv == TypeOK /\ Sound /\ Tallied /\ InStep /\ Noted

LEMMA AtMostOne ==
  ASSUME NEW S, \A a, b \in S : a = b
  PROVE  IsFiniteSet(S) /\ Cardinality(S) <= 1
<1>1. CASE S = {}
  BY <1>1, FS_EmptySet
<1>2. CASE S # {}
  <2>1. PICK a : S = {a}
    BY <1>2
  <2>2. IsFiniteSet(S) /\ Cardinality(S) = 1
    BY <2>1, FS_Singleton
  <2>. QED
    BY <2>2
<1>. QED
  BY <1>1, <1>2

LEMMA OneRowEach ==
  ASSUME Inv, NEW s \in Steps, Undisturbed(s)
  PROVE  \A a, b \in RowsFor(s) : a = b
<1>1. OneRow(s)
  BY DEF Inv, Tallied, Tally
<1>. QED
  BY <1>1, ViewsAre DEF OneRow, In, RowsFor

LEMMA InvCounts == Inv => CountsAgree
<1>. SUFFICES ASSUME Inv, NEW s \in Steps, Undisturbed(s)
              PROVE  /\ Cardinality(RowsFor(s)) <= 1
                     /\ \A r \in RowsFor(s) :
                          /\ rows[r].val = Cardinality(AppliedTo(s))
                          /\ rows[r].val <= Target[s]
                          /\ rows[r].done <=> rows[r].val = Target[s]
  BY DEF CountsAgree
<1>1. Cardinality(RowsFor(s)) <= 1
  BY OneRowEach, AtMostOne
<1>2. Told(s) /\ RowsFor(s) = In(rows, s)
  BY DEF Inv, Tallied, Tally, RowsFor, In
<1>3. AppliedTo(s) = Entered(s)
  BY DEF Inv, TypeOK, Sound, Logged, AppliedTo, Entered
<1>. QED
  BY <1>1, <1>2, <1>3 DEF Told, Fills

LEMMA InvRewards == Inv => RewardsOnce
<1>. SUFFICES ASSUME Inv, NEW s \in Steps
              PROVE  /\ paid[s] = Cardinality({r \in RowsFor(s) : rows[r].claimed})
                     /\ \A r \in RowsFor(s) : rows[r].claimed => rows[r].done
                     /\ Undisturbed(s) => paid[s] <= 1
  BY DEF RewardsOnce
<1>1. /\ paid[s] = Cardinality({r \in RowsFor(s) : rows[r].claimed})
      /\ \A r \in RowsFor(s) : rows[r].claimed => rows[r].done
  BY DEF Inv, Sound, Paid
<1>2. Undisturbed(s) => Cardinality({r \in RowsFor(s) : rows[r].claimed}) <= 1
  BY OneRowEach, AtMostOne
<1>. QED
  BY <1>1, <1>2

LEMMA InvNoted == Inv => NothingMissed
<1>. SUFFICES ASSUME Inv, quest.status = "active", stale = {}, NEW e \in committed
              PROVE  LET s == quest.step
                         past == {d \in before[s].log : d <= e /\ events[d] \in Heard[s]}
                     IN
                     \/ events[e] \notin Passing[s]
                     \/ <<e, s>> \in applied
                     \/ e \in before[s].flying
                     \/ e \in before[s].log /\ Cardinality(past) > Limit
                     \/ e \in skipped
  BY DEF NothingMissed
<1>1. LogNoted(quest.step)
  BY DEF Inv, Noted
<1>. QED
  BY <1>1 DEF LogNoted, Beyond

LEMMA InvForward ==
  ASSUME Inv, [Next]_vars, stale' = {}
  PROVE  /\ quest'.step >= quest.step
         /\ quest.status = "completed" => quest' = quest
         /\ quest.status = "active" => quest'.status # "none"
<1>1. TypeOK /\ Sound /\ InStep /\ stale = {}
  BY StaleGrows DEF Inv
<1>2. quest.step \in Nat
  <2>1. quest = [status |-> "none", step |-> 0] \/ quest \in [status : {"active", "completed"}, step : Steps]
    BY <1>1 DEF TypeOK, Quest, Unassigned
  <2>2. quest.step = 0 \/ quest.step \in Steps
    BY <2>1
  <2>3. Steps \subseteq Nat
    BY StepsAreFinite
  <2>4. CASE quest.step = 0
    BY <2>4
  <2>5. CASE quest.step \in Steps
    BY <2>3, <2>5
  <2>. QED
    BY <2>2, <2>4, <2>5
<1>3. CASE quest' = quest
  BY <1>2, <1>3 DEF TypeOK, Quest, Unassigned
<1>4. ASSUME NEW t \in Txns, Commit(t), Holds(t)
      PROVE  /\ quest'.step >= quest.step /\ quest.status # "completed" /\ quest'.status # "none"
  <2>1. quest' = txns[t].draft.quest
    BY <1>1, <1>4, CommitFacts DEF QuestOf, Holds
  <2>2. LeadsBy(t)
    BY <1>1, InStepThen
  <2>3. txns[t].draft.quest \in [status : {"active", "completed"}, step : Steps]
    BY <1>1, <1>4, TxnFacts DEF Holds, Quest
  <2>4. quest'.step \in Nat /\ quest'.status # "none"
    BY <2>1, <2>3, StepsAreFinite
  <2>. QED
    BY <1>2, <1>4, <2>1, <2>2, <2>4 DEF LeadsBy
<1>5. ASSUME NEW t \in Txns, Commit(t), ~Holds(t) PROVE quest' = quest
  BY <1>5 DEF Commit, QuestOf, Holds
<1>6. quest' = quest \/ \E t \in Txns : Commit(t)
  BY ZenonT(60) DEF Next, TxnStep, vars, Record, Assign, Assigned, Pass, Look, Count, Advance,
         Swallow, Abort, LockStep, Grant
<1>. QED
  BY <1>3, <1>4, <1>5, <1>6

\* What a session has drafted fits the tables, whatever the others do
\* (20260408000000_quest_evaluate_resync.sql): the inductive invariant that the
\* theorems below follow from.
THEOREM Invariance == Spec => []Inv
<1>1. Init => Inv
  BY InitSound, InitTally, InitLead, InitNoted DEF Inv
<1>2. Inv /\ [Next]_vars => Inv'
  BY NextSound, NextTally, NextLead, NextNoted DEF Inv
<1>. QED
  BY <1>1, <1>2, PTL DEF Spec

\* A step has one row, whose count is the number of events entered for it, up to
\* the target that completes it, for any number of sessions that evaluate at
\* once; except where a count was written over a newer one.
THEOREM CountsDoAgree == Spec => []CountsAgree
BY Invariance, InvCounts, PTL

\* An event that the quest's current step asks for counts, whenever it came, but
\* for those under way when the step was made, beyond the limit, or failed.
THEOREM NothingIsMissed == Spec => []NothingMissed
BY Invariance, InvNoted, PTL

\* A step's reward is paid when it is complete, once for a row, for any number
\* of claims at once.
THEOREM RewardsAreOnce == Spec => []RewardsOnce
BY Invariance, InvRewards, PTL

\* A quest goes through its steps in order, and stays completed, as long as no
\* count is written over a newer one.
THEOREM GoesForward == Spec => NeverBack
<1>1. Inv /\ [Next]_vars =>
        [stale' = {} =>
           /\ quest'.step >= quest.step
           /\ quest.status = "completed" => quest' = quest
           /\ quest.status = "active" => quest'.status # "none"]_vars
  BY InvForward
<1>. QED
  BY <1>1, Invariance, PTL DEF Spec, NeverBack


=============================================================================
