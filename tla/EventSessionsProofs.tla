------------------------ MODULE EventSessionsProofs ------------------------
(***************************************************************************)
(* Proofs about the way of an event to a bot, for any number of events,    *)
(* ships, tasks, reads and faults, and any size of a read: nothing is      *)
(* archived unheard, nothing is heard twice or out of order, and the row   *)
(* listens to what was set.                                                *)
(*                                                                         *)
(* None of it is inductive. What is: a copy the poll loop has read stays   *)
(* in its hands or is as it was (Handled), what was heard is not to be     *)
(* read again (Once), and with whatever the bot has got it has got what    *)
(* committed before (Ordered).                                             *)
(***************************************************************************)
EXTENDS EventSessions, Sums, TLAPS

Event == [to : Ships \cup {Me}, echo : BOOLEAN, at : {"inserted", "sent", "out"},
          after : SUBSET Ids]
Sync == [at : {"idle", "asked", "sent", "applied"}, scope : SUBSET Ships]
Joins == {"new", "registered", "draining", "drained", "replayed"}

Row == [life : {"none", "live", "lapsed", "gone"}, hard : BOOLEAN,
        scope : SUBSET Ships, allowed : SUBSET Ships]
Places == {"none", "unseen", "held", "archived", "dropped"}
Phases == Joins \cup {"live", "deaf", "failed", "stopped"}
Hand == [at : {"off", "loop", "sync", "read", "batch"}, batch : Seq(Ids), acks : SUBSET Ids]
Stages == {"idle", "starting", "launched", "child", "running"}
Reasons == {"outage", "deadline", "replay", "dispatch", "archive"}
Bounds == [events : Nat, tasks : Nat, faults : Nat]

TypeOK ==
  /\ row \in Row /\ evs \in Seq(Event) /\ queue \in Seq(Ids)
  /\ mail \in [Ids -> Places] /\ tries \in [Ids -> Nat]
  /\ phase \in Phases /\ poll \in Hand /\ buffer \in SUBSET Ids /\ seen \in Seq(Ids)
  /\ desired \in SUBSET Ships /\ pending \in BOOLEAN /\ missed \in BOOLEAN
  /\ syncs \in [Callers -> Sync] /\ task \in [Ships -> Stages]
  /\ lapses \in SUBSET Reasons /\ budget \in Bounds
  /\ Len(evs) + budget.events <= Most

-----------------------------------------------------------------------------
(* The invariants. *)

\* A copy is in the queue once, from when its event is sent.
Mailed ==
  /\ IsInjective(queue)
  /\ \A i \in Ids : mail[i] # "none" <=> i \in ToSet(queue)
  /\ \A i \in Ids : mail[i] # "none" => i \in DOMAIN evs /\ evs[i].at # "inserted"

\* What had committed before an event has a smaller id, and its copy, if it has
\* one, is before the event's own.
Dated ==
  /\ \A j \in DOMAIN evs : \A i \in evs[j].after : i < j /\ evs[i].at = "out"
  /\ \A m, n \in DOMAIN queue : queue[m] \in evs[queue[n]].after => m < n

\* The poll loop runs after the replay; what it has read is in its hands, and
\* what the drain has kept is archived.
Handled ==
  /\ phase \in Joins \cup {"failed", "stopped"} => poll = Resting
  /\ poll.at # "batch" => poll.batch = << >> /\ poll.acks = {}
  /\ syncs["poll"].at # "idle" => poll.at = "sync"
  /\ phase \in Joins => \A i \in Ids : mail[i] # "held"
  /\ phase \in {"new", "registered", "draining", "drained"} => seen = << >>
  /\ phase = "replayed" \/ poll.at # "off" => buffer = {}
  /\ \A i \in buffer : mail[i] = "archived"
  /\ \A i \in ToSet(poll.batch) \cup poll.acks : mail[i] \in {"held", "dropped"}
  /\ \A i \in Seen : mail[i] # "none"
  /\ \A m, n \in DOMAIN poll.batch : m < n => poll.batch[m] < poll.batch[n]
  /\ ToSet(poll.batch) \cap poll.acks = {}

\* What will be archived may be.
Answerable == \A i \in poll.acks : i \in Seen \/ tries[i] >= Attempts

\* What was heard is not to be heard again.
Once ==
  "archive" \notin lapses =>
    /\ IsInjective(seen)
    /\ \A i \in Seen : i \in poll.acks \/ mail[i] \in {"archived", "dropped"}
    /\ \A i \in ToSet(poll.batch) \cup buffer : i \notin Seen

\* The echoes are gone before the poll loop starts.
Settled(i) == evs[i].at = "out" /\ mail[i] \in {"none", "archived", "dropped"}
NoEcho ==
  /\ \A i \in buffer : ~evs[i].echo
  /\ "deadline" \notin lapses =>
       /\ phase = "draining" => \A i \in DOMAIN evs : evs[i].echo => evs[i].at = "out"
       /\ phase \in {"drained", "replayed"} \/ poll.at # "off" =>
            \A i \in DOMAIN evs : evs[i].echo => Settled(i)
       /\ \A i \in Seen \cup ToSet(poll.batch) : ~evs[i].echo

Got == Seen \cup buffer \cup ToSet(poll.batch)
Spared(i) == mail[i] \in {"none", "dropped"} \/ evs[i].echo

\* With what the bot has got it has got what came before, as long as nothing fails.
Ordered ==
  /\ row.life = "lapsed" => "outage" \in lapses
  /\ lapses \subseteq {"deadline"} =>
       /\ \A i \in Ids : mail[i] = "held" => i \in ToSet(poll.batch) \cup poll.acks
       /\ \A i \in Ids : mail[i] = "archived" => i \in Seen \cup buffer \/ evs[i].echo
       /\ \A i \in ToSet(poll.batch) \cup poll.acks : mail[i] = "held"
       /\ poll.acks \subseteq Seen
       /\ \A j \in Got : \A i \in evs[j].after : Spared(i) \/ i \in Got
       /\ InOrder

Heard ==
  /\ Mailed /\ Dated /\ Handled /\ Answerable /\ NothingLost /\ Once /\ NoEcho /\ Ordered

\* What a call carries is what was set last, and so is what the row has when
\* nothing is left to synchronize, unless the scope was set meanwhile.
Scoped ==
  ~missed =>
    /\ \A k \in Callers : syncs[k].at \in {"sent", "applied"} => syncs[k].scope = desired
    /\ \A k \in Callers : syncs[k].at = "applied" => row.scope = desired
    /\ ~pending => row.scope = desired
    /\ \A s \in Ships : task[s] = "launched" /\ s \in desired => s \in row.scope

-----------------------------------------------------------------------------
(* Sequences and reads.                                                    *)

LEMMA MostIsNat == Most \in Nat /\ IsFiniteSet(Ids) /\ \A b \in Budgets : b.events <= Most
<1>. DEFINE N == {b.events : b \in Budgets}
<1>1. \E n \in N : \A b \in Budgets : b.events <= n
  BY BudgetAssumption
<1>2. Most \in N /\ \A b \in Budgets : b.events <= Most
  BY <1>1 DEF Most
<1>3. N \subseteq Nat
  BY BudgetAssumption
<1>4. Most \in Nat
  BY <1>2, <1>3
<1>. QED
  BY <1>2, <1>4, FS_Interval DEF Ids

LEMMA AppendItems ==
  ASSUME NEW S, NEW s \in Seq(S), NEW e \in S
  PROVE  /\ ToSet(Append(s, e)) = ToSet(s) \cup {e}
         /\ IsInjective(s) /\ e \notin ToSet(s) => IsInjective(Append(s, e))
<1>1. /\ DOMAIN Append(s, e) = DOMAIN s \cup {Len(s) + 1} /\ Append(s, e)[Len(s) + 1] = e
      /\ \A n \in DOMAIN s : Append(s, e)[n] = s[n]
      /\ DOMAIN s = 1..Len(s) /\ Len(s) \in Nat
  OBVIOUS
<1>. QED
  BY <1>1 DEF ToSet, IsInjective

LEMMA HeadItems ==
  ASSUME NEW S, NEW s \in Seq(S), s # << >>
  PROVE  /\ Head(s) \in S /\ Tail(s) \in Seq(S)
         /\ ToSet(s) = {Head(s)} \cup ToSet(Tail(s))
         /\ Head(s) = s[1] /\ 1 \in DOMAIN s
         /\ \A n \in DOMAIN Tail(s) : n + 1 \in DOMAIN s /\ Tail(s)[n] = s[n + 1] /\ n \in Nat
                                      /\ 1 < n + 1
<1>1. /\ Len(s) \in Nat /\ Len(s) > 0 /\ DOMAIN s = 1..Len(s)
      /\ Head(s) = s[1] /\ Tail(s) \in Seq(S) /\ DOMAIN Tail(s) = 1..(Len(s) - 1)
      /\ \A n \in 1..(Len(s) - 1) : Tail(s)[n] = s[n + 1]
  OBVIOUS
<1>2. ToSet(s) \subseteq {Head(s)} \cup ToSet(Tail(s))
  <2>1. SUFFICES ASSUME NEW n \in 1..Len(s), n # 1 PROVE s[n] \in ToSet(Tail(s))
    BY <1>1 DEF ToSet
  <2>2. n - 1 \in 1..(Len(s) - 1) /\ s[n] = Tail(s)[n - 1]
    BY <1>1, <2>1
  <2>. QED
    BY <1>1, <2>2 DEF ToSet
<1>. QED
  BY <1>1, <1>2 DEF ToSet

\* A finite set of numbers that is not empty has a least one.
LEMMA Least ==
  ASSUME NEW T, IsFiniteSet(T), \A x \in T : x \in Int, T # {}
  PROVE  \E m \in T : \A k \in T : m <= k
<1>. DEFINE f == [x \in T |-> 0 - x]
<1>1. \A x \in T : f[x] = 0 - x /\ f[x] \in Int
  OBVIOUS
<1>. HIDE DEF f
<1>2. PICK m \in T : \A k \in T : f[k] <= f[m]
  BY <1>1, Greatest
<1>. QED
  BY <1>1, <1>2

Rising(s) == \A m, n \in DOMAIN s : m < n => s[m] < s[n]

LEMMA RisingExists ==
  ASSUME NEW S, IsFiniteSet(S), \A x \in S : x \in Int
  PROVE  \E s \in [1..Cardinality(S) -> S] : Rising(s)
<1>. DEFINE f == [x \in S |-> x]
<1>1. \A x \in S : f[x] = x /\ f[x] \in Int
  OBVIOUS
<1>. HIDE DEF f
<1>2. PICK s \in [1..Cardinality(S) -> S] : Rises(s, f)
  BY <1>1, Ranked
<1>. QED
  BY <1>1, <1>2 DEF Rises, Rising

\* The list of a set of ids has each of them once, the smaller before the greater.
LEMMA IdOrder ==
  ASSUME NEW S \in SUBSET Ids
  PROVE  LET s == InIdOrder(S) IN
         /\ s \in Seq(S) /\ s \in Seq(Ids)
         /\ Len(s) = Cardinality(S) /\ Cardinality(S) \in Nat
         /\ ToSet(s) = S
         /\ IsInjective(s)
         /\ \A m, n \in DOMAIN s : m < n => s[m] < s[n]
<1>. DEFINE s == InIdOrder(S)
            c == Cardinality(S)
<1>1. IsFiniteSet(S) /\ c \in Nat
  BY MostIsNat, FS_Subset, FS_CardinalityType
<1>2. \A n \in S : n \in Int
  BY MostIsNat DEF Ids
<1>3. s \in [1..c -> S] /\ Rising(s)
  <2>1. \E t \in [1..c -> S] : \A m, n \in DOMAIN t : m < n => t[m] < t[n]
    BY <1>1, <1>2, RisingExists DEF Rising
  <2>. QED
    BY <2>1 DEF InIdOrder, Rising
<1>. HIDE DEF s, c
<1>4. IsInjective(s)
  BY <1>1, <1>2, <1>3 DEF Rising, IsInjective
<1>5. ToSet(s) = S
  BY <1>1, <1>3, <1>4, ListsAll DEF IsInjective, ToSet, c
<1>6. s \in Seq(S) /\ Len(s) = c /\ s \in Seq(Ids)
  BY <1>1, <1>3
<1>. QED
  BY <1>1, <1>3, <1>4, <1>5, <1>6 DEF Rising, s, c

\* What a read takes from the queue: with a copy all that wait before it, and
\* nothing only when nothing waits.
LEMMA ReadIsPrefix ==
  ASSUME TypeOK, Mailed
  PROVE  /\ NextBatch \in SUBSET Ids
         /\ \A i \in NextBatch : mail[i] = "unseen" /\ evs[i].at = "out" /\ i \in DOMAIN evs
         /\ \A m, n \in DOMAIN queue :
              m < n /\ Readable(queue[m]) /\ queue[n] \in NextBatch => queue[m] \in NextBatch
         /\ NextBatch = {} => \A i \in Ids : ~Readable(i)
<1>1. /\ queue \in Seq(Ids) /\ DOMAIN queue = 1..Len(queue) /\ Len(queue) \in Nat
      /\ \A n \in DOMAIN queue : queue[n] \in Ids
  BY DEF TypeOK
<1>2. Waiting \subseteq 1..Len(queue) /\ IsFiniteSet(Waiting) /\ \A x \in Waiting : x \in Int
  <2>1. Waiting \subseteq 1..Len(queue)
    BY <1>1 DEF Waiting
  <2>2. IsFiniteSet(1..Len(queue))
    BY <1>1, FS_Interval
  <2>3. IsFiniteSet(Waiting)
    BY <2>1, <2>2, FS_Subset
  <2>. QED
    BY <1>1, <2>1, <2>3
<1>. DEFINE Before(m) == Waiting \cap 1..(m - 1)
<1>3. ASSUME NEW m \in Waiting, NEW n \in Waiting, m < n, Cardinality(Before(n)) < Qty
      PROVE  Cardinality(Before(m)) < Qty
  <2>1. Before(m) \subseteq Before(n) /\ IsFiniteSet(Before(n))
    BY <1>2, <1>3, FS_Subset
  <2>2. Cardinality(Before(m)) <= Cardinality(Before(n)) /\ IsFiniteSet(Before(m))
    BY <2>1, FS_Subset
  <2>3. Cardinality(Before(m)) \in Nat /\ Cardinality(Before(n)) \in Nat
    BY <2>1, <2>2, FS_CardinalityType
  <2>. HIDE DEF Before
  <2>. QED
    BY <1>3, <2>2, <2>3, ReadAssumption
<1>4. NextBatch = {queue[n] : n \in {m \in Waiting : Cardinality(Before(m)) < Qty}}
  BY DEF NextBatch
<1>5. NextBatch = {} => Waiting = {}
  <2>1. SUFFICES ASSUME Waiting # {} PROVE NextBatch # {}
    OBVIOUS
  <2>2. PICK m \in Waiting : \A k \in Waiting : m <= k
    BY <1>2, <2>1, Least
  <2>3. Before(m) = {}
    BY <1>2, <2>2
  <2>4. Cardinality(Before(m)) = 0
    BY <2>3, FS_EmptySet
  <2>. HIDE DEF Before
  <2>. QED
    BY <1>4, <2>4, ReadAssumption
<1>6. ASSUME NEW m \in DOMAIN queue, NEW n \in DOMAIN queue, m < n, Readable(queue[m]),
             queue[n] \in NextBatch
      PROVE  queue[m] \in NextBatch
  <2>1. PICK k \in Waiting : queue[k] = queue[n] /\ Cardinality(Before(k)) < Qty
    BY <1>4, <1>6
  <2>2. k = n
    BY <1>6, <2>1 DEF Mailed, IsInjective, Waiting
  <2>3. m \in Waiting
    BY <1>6 DEF Waiting
  <2>4. Cardinality(Before(m)) < Qty
    BY <1>3, <1>6, <2>1, <2>2, <2>3
  <2>. HIDE DEF Before
  <2>. QED
    BY <1>4, <2>3, <2>4
<1>7. ASSUME NEW i \in NextBatch
      PROVE  i \in Ids /\ mail[i] = "unseen" /\ evs[i].at = "out" /\ i \in DOMAIN evs
  <2>1. i \in Ids /\ Readable(i)
    BY <1>1, <1>4, <1>7 DEF Waiting
  <2>. QED
    BY <2>1 DEF Mailed, Readable
<1>8. ASSUME NextBatch = {}, NEW i \in Ids, Readable(i) PROVE FALSE
  <2>1. i \in ToSet(queue)
    BY <1>8 DEF Mailed, Readable
  <2>. QED
    BY <1>5, <1>8, <2>1 DEF ToSet, Waiting
<1>. QED
  BY <1>6, <1>7, <1>8

-----------------------------------------------------------------------------
(* Types.                                                                  *)

LEMMA Begins == Init => TypeOK /\ Heard /\ Scoped
<1>. SUFFICES ASSUME Init PROVE TypeOK /\ Heard /\ Scoped
  OBVIOUS
<1>1. TypeOK
  <2>1. row \in Row /\ mail \in [Ids -> Places] /\ tries \in [Ids -> Nat] /\ phase \in Phases
    BY DEF Init, Row, Places, Phases, Joins
  <2>2. poll \in Hand /\ syncs \in [Callers -> Sync] /\ task \in [Ships -> Stages]
    BY DEF Init, Resting, Hand, Quiet, Sync, Stages
  <2>3. budget \in Bounds /\ budget.events <= Most /\ Len(evs) = 0 /\ budget.events \in Nat
    BY MostIsNat, BudgetAssumption DEF Init, Bounds
  <2>4. Len(evs) + budget.events <= Most
    BY <2>3, MostIsNat
  <2>5. /\ evs \in Seq(Event) /\ queue \in Seq(Ids) /\ seen \in Seq(Ids)
        /\ buffer \in SUBSET Ids /\ desired \in SUBSET Ships /\ lapses \in SUBSET Reasons
        /\ pending \in BOOLEAN /\ missed \in BOOLEAN
    <3>1. \A S : << >> \in Seq(S)
      OBVIOUS
    <3>. QED
      BY <3>1, Zenon DEF Init
  <2>. QED
    BY <2>1, <2>2, <2>3, <2>4, <2>5 DEF TypeOK
<1>2. /\ queue = << >> /\ seen = << >> /\ evs = << >> /\ poll = Resting /\ buffer = {}
      /\ phase = "new" /\ lapses = {} /\ row.life = "none" /\ syncs["poll"].at = "idle"
      /\ \A i \in Ids : mail[i] = "none"
  BY DEF Init, Quiet, Callers
<1>3. Seen = {} /\ ToSet(queue) = {} /\ ToSet(poll.batch) = {} /\ poll.acks = {} /\ poll.at = "off"
  BY <1>2 DEF ToSet, Seen, Resting
<1>4. Heard
  BY <1>2, <1>3 DEF Heard, Mailed, Dated, Handled, Answerable, NothingLost, Once, NoEcho,
                    Ordered, InOrder, Got, IsInjective, Joins, Resting
<1>5. Scoped
  BY DEF Init, Scoped, Quiet, Callers
<1>. QED
  BY <1>1, <1>4, <1>5

LEMMA DroppedType ==
  ASSUME TypeOK
  PROVE  /\ Dropped \in [Ids -> Places]
         /\ \A i \in Ids : Dropped[i] = IF mail[i] \in {"unseen", "held"} THEN "dropped" ELSE mail[i]
  BY DEF TypeOK, Dropped, Places

LEMMA FaultType ==
  ASSUME TypeOK, Fault
  PROVE  budget' \in Bounds /\ budget'.events = budget.events
<1>1. budget.faults - 1 \in Nat
  BY DEF TypeOK, Fault, Bounds
<1>2. PICK n \in Nat : budget' = [budget EXCEPT !.faults = n]
  BY <1>1 DEF Fault
<1>. QED
  BY <1>2 DEF TypeOK, Bounds

LEMMA EventTypes ==
  ASSUME TypeOK, Events \/ Database \/ Cleanup \/ (\E s \in Ships : Lose(s)) \/ (\E i \in Ids : Reappear(i))
  PROVE  TypeOK'
<1>1. ASSUME NEW to \in Ships \cup {Me}, NEW echo \in BOOLEAN, Record(to, echo) PROVE TypeOK'
  <2>. DEFINE e == [to |-> to, echo |-> echo, at |-> "inserted",
                    after |-> {i \in DOMAIN evs : evs[i].at = "out"}]
  <2>1. budget.events \in Nat /\ budget.events > 0 /\ budget' = [budget EXCEPT !.events = @ - 1]
    BY <1>1 DEF TypeOK, Bounds, Record
  <2>2. budget' \in Bounds /\ budget'.events = budget.events - 1
    <3>1. PICK n \in Nat : budget' = [budget EXCEPT !.events = n] /\ n = budget.events - 1
      BY <2>1
    <3>. QED
      BY <3>1 DEF TypeOK, Bounds
  <2>3. Len(evs) + 1 <= Most /\ Len(evs) \in Nat /\ DOMAIN evs \subseteq Ids
    BY <2>1, MostIsNat DEF TypeOK, Ids
  <2>4. e \in Event
    BY <2>3 DEF Event
  <2>. HIDE DEF e
  <2>5. evs' \in Seq(Event) /\ Len(evs') = Len(evs) + 1
    <3>1. evs' = Append(evs, e)
      BY <1>1 DEF Record, e
    <3>. QED
      BY <2>4, <3>1 DEF TypeOK
  <2>6. Len(evs') + budget'.events <= Most
    BY <2>1, <2>2, <2>3, <2>5, MostIsNat DEF TypeOK
  <2>. QED
    BY <1>1, <2>2, <2>5, <2>6 DEF TypeOK, Record, reader, scoping
<1>2. ASSUME NEW i \in Ids, Send(i) \/ Commit(i) PROVE TypeOK'
  <2>1. PICK at \in {"sent", "out"} : evs' = [evs EXCEPT ![i].at = at] /\ i \in DOMAIN evs
    BY <1>2 DEF Send, Commit
  <2>2. evs[i] \in Event
    BY <2>1 DEF TypeOK
  <2>3. [evs[i] EXCEPT !.at = at] \in Event
    BY <2>2 DEF Event
  <2>4. evs' \in Seq(Event) /\ Len(evs') = Len(evs)
    BY <2>1, <2>3 DEF TypeOK
  <2>5. queue' \in Seq(Ids) /\ mail' \in [Ids -> Places]
    <3>1. queue' \in {queue, Append(queue, i)} /\ mail' \in {mail, [mail EXCEPT ![i] = "unseen"]}
      BY <1>2 DEF Send, Commit
    <3>2. Append(queue, i) \in Seq(Ids)
      BY DEF TypeOK
    <3>3. [mail EXCEPT ![i] = "unseen"] \in [Ids -> Places]
      BY DEF TypeOK, Places
    <3>. QED
      BY <3>1, <3>2, <3>3 DEF TypeOK
  <2>6. UNCHANGED <<row, tries, reader, scoping, lapses, budget>>
    BY <1>2 DEF Send, Commit
  <2>. QED
    BY <2>4, <2>5, <2>6 DEF TypeOK, reader, scoping
<1>3. ASSUME NEW hard \in BOOLEAN, Lapse(hard) PROVE TypeOK'
  <2>1. row' \in Row /\ lapses' \in SUBSET Reasons
    BY <1>3 DEF TypeOK, Lapse, Row, Reasons, Excused
  <2>2. budget' \in Bounds /\ budget'.events = budget.events
    BY <1>3, FaultType DEF TypeOK, Lapse
  <2>. QED
    BY <1>3, <2>1, <2>2 DEF TypeOK, Lapse, reader, scoping
<1>4. ASSUME Cleanup PROVE TypeOK'
  <2>1. row' \in Row
    BY <1>4 DEF TypeOK, Cleanup, Row
  <2>. QED
    BY <1>4, <2>1, DroppedType DEF TypeOK, Cleanup, reader, scoping
<1>5. ASSUME NEW s \in Ships, Lose(s) PROVE TypeOK'
  <2>1. row' \in Row
    BY <1>5 DEF TypeOK, Lose, Row
  <2>2. budget' \in Bounds /\ budget'.events = budget.events
    BY <1>5, FaultType DEF Lose
  <2>. QED
    BY <1>5, <2>1, <2>2 DEF TypeOK, Lose, reader, scoping
<1>6. ASSUME NEW i \in Ids, Reappear(i) PROVE TypeOK'
  <2>1. mail' \in [Ids -> Places]
    BY <1>6 DEF TypeOK, Reappear, Places
  <2>. QED
    BY <1>6, <2>1 DEF TypeOK, Reappear, reader, scoping
<1>. QED
  BY <1>1, <1>2, <1>3, <1>4, <1>5, <1>6 DEF Events, Database

LEMMA JoiningTypes ==
  ASSUME TypeOK, Mailed, Joining \/ Stop
  PROVE  TypeOK'
<1>1. ASSUME Prepare PROVE TypeOK'
  <2>1. row' \in Row /\ phase' \in Phases
    BY <1>1 DEF TypeOK, Prepare, Row, Phases, Joins
  <2>. QED
    BY <1>1, <2>1 DEF TypeOK, Prepare
<1>2. ASSUME NEW late \in BOOLEAN, Drain(late) PROVE TypeOK'
  <2>1. NextBatch \in SUBSET Ids
    BY ReadIsPrefix
  <2>2. mail' \in [Ids -> Places] /\ tries' \in [Ids -> Nat]
    BY <1>2 DEF TypeOK, Drain, Places
  <2>3. buffer' \in SUBSET Ids
    BY <1>2, <2>1 DEF TypeOK, Drain, Kept
  <2>4. phase' \in Phases /\ lapses' \in SUBSET Reasons
    BY <1>2 DEF TypeOK, Drain, Phases, Joins, Reasons
  <2>. QED
    BY <1>2, <2>2, <2>3, <2>4 DEF TypeOK, Drain, scoping
<1>3. ASSUME JoinFails \/ Start PROVE TypeOK'
  <2>1. phase' \in Phases /\ poll' \in Hand
    BY <1>3 DEF TypeOK, JoinFails, Start, Phases, Hand
  <2>2. UNCHANGED <<base, buffer, seen, scoping, lapses, budget>>
    BY <1>3 DEF JoinFails, Start
  <2>. QED
    BY <2>1, <2>2 DEF TypeOK, base, scoping
<1>4. ASSUME Replay PROVE TypeOK'
  <2>1. InIdOrder(buffer) \in Seq(Ids)
    BY IdOrder DEF TypeOK
  <2>2. seen' \in Seq(Ids) /\ phase' \in Phases
    BY <1>4, <2>1 DEF TypeOK, Replay, Phases, Joins
  <2>. QED
    BY <1>4, <2>2 DEF TypeOK, Replay, base, scoping
<1>5. ASSUME ReplayFails PROVE TypeOK'
  <2>1. PICK n \in 0..(Cardinality(buffer) - 1) :
          seen' = seen \o SubSeq(InIdOrder(buffer), 1, n)
    BY <1>5 DEF ReplayFails
  <2>2. InIdOrder(buffer) \in Seq(Ids) /\ Len(InIdOrder(buffer)) = Cardinality(buffer)
        /\ Cardinality(buffer) \in Nat
    BY IdOrder DEF TypeOK
  <2>3. SubSeq(InIdOrder(buffer), 1, n) \in Seq(Ids)
    BY <2>2
  <2>4. seen' \in Seq(Ids)
    BY <2>1, <2>3 DEF TypeOK
  <2>5. phase' \in Phases /\ lapses' \in SUBSET Reasons
    BY <1>5 DEF TypeOK, ReplayFails, Excused, Phases, Reasons
  <2>6. budget' \in Bounds /\ budget'.events = budget.events
    BY <1>5, FaultType DEF ReplayFails
  <2>. QED
    BY <1>5, <2>4, <2>5, <2>6 DEF TypeOK, ReplayFails, base, scoping
<1>6. ASSUME Stop PROVE TypeOK'
  <2>1. row' \in Row /\ phase' \in Phases
    BY <1>6 DEF TypeOK, Stop, Row, Phases
  <2>3. poll' \in Hand
    BY <1>6 DEF Stop, Hand, Resting
  <2>2. syncs' \in [Callers -> Sync] /\ task' \in [Ships -> Stages]
    BY <1>6 DEF TypeOK, Stop, Quiet, Sync, Stages
  <2>. QED
    BY <1>6, <2>1, <2>2, <2>3, DroppedType DEF TypeOK, Stop
<1>. QED
  BY <1>1, <1>2, <1>3, <1>4, <1>5, <1>6 DEF Joining

LEMMA AskedType ==
  ASSUME TypeOK, NEW k \in Callers
  PROVE  Asked(k) \in [Callers -> Sync] /\ \A c \in Callers \ {k} : Asked(k)[c] = syncs[c]
         /\ Asked(k)[k] = [at |-> "asked", scope |-> {}]
  BY DEF TypeOK, Asked, Sync

LEMMA PollingTypes ==
  ASSUME TypeOK, Mailed, Polling \/ DispatchFails \/ ArchiveFails
  PROVE  TypeOK'
<1>1. ASSUME Round PROVE TypeOK'
  <2>1. poll' \in Hand
    BY <1>1 DEF TypeOK, Round, Hand
  <2>2. syncs' \in [Callers -> Sync]
    <3>1. syncs' = Asked("poll") \/ syncs' = syncs
      BY <1>1 DEF Round
    <3>2. "poll" \in Callers
      BY DEF Callers
    <3>. QED
      BY <3>1, <3>2, AskedType DEF TypeOK
  <2>. QED
    BY <1>1, <2>1, <2>2 DEF TypeOK, Round, base
<1>2. ASSUME Read PROVE TypeOK'
  <2>. DEFINE batch == IF Online THEN NextBatch ELSE {}
  <2>1. batch \in SUBSET Ids
    BY ReadIsPrefix
  <2>2. InIdOrder(batch) \in Seq(Ids)
    BY <2>1, IdOrder
  <2>. HIDE DEF batch
  <2>3. /\ mail' = [i \in Ids |-> IF i \in batch THEN "held" ELSE mail[i]]
        /\ tries' = [i \in Ids |-> IF i \in batch THEN tries[i] + 1 ELSE tries[i]]
        /\ poll' = [at |-> IF batch = {} THEN "loop" ELSE "batch",
                    batch |-> InIdOrder(batch), acks |-> {}]
    BY <1>2 DEF Read, batch
  <2>4. mail' \in [Ids -> Places] /\ tries' \in [Ids -> Nat]
    BY <2>3 DEF TypeOK, Places
  <2>5. poll' \in Hand
    BY <2>2, <2>3 DEF Hand
  <2>. QED
    BY <1>2, <2>4, <2>5 DEF TypeOK, Read, scoping
<1>3. ASSUME Dispatch PROVE TypeOK'
  <2>1. Head(poll.batch) \in Ids /\ Tail(poll.batch) \in Seq(Ids)
    BY <1>3, HeadItems DEF TypeOK, Dispatch, Hand
  <2>2. PICK S \in SUBSET Ids : poll' = [poll EXCEPT !.batch = Tail(@), !.acks = S]
    BY <1>3, <2>1 DEF TypeOK, Dispatch, Hand
  <2>3. poll' \in Hand
    BY <2>1, <2>2 DEF TypeOK, Hand
  <2>4. seen' \in Seq(Ids)
    BY <1>3, <2>1 DEF TypeOK, Dispatch
  <2>. QED
    BY <1>3, <2>3, <2>4 DEF TypeOK, Dispatch, base, scoping
<1>4. ASSUME Archive PROVE TypeOK'
  <2>1. poll' \in Hand /\ mail' \in [Ids -> Places]
    BY <1>4 DEF TypeOK, Archive, Again, Hand, Places
  <2>. QED
    BY <1>4, <2>1 DEF TypeOK, Archive, scoping
<1>5. ASSUME DispatchFails PROVE TypeOK'
  <2>1. Head(poll.batch) \in Ids /\ Tail(poll.batch) \in Seq(Ids)
    BY <1>5, HeadItems DEF TypeOK, DispatchFails, Hand
  <2>2. PICK S \in {poll.acks, poll.acks \cup {Head(poll.batch)}} :
          poll' = [poll EXCEPT !.batch = Tail(@), !.acks = S]
    BY <1>5 DEF DispatchFails
  <2>3. poll' \in Hand
    BY <2>1, <2>2 DEF TypeOK, Hand
  <2>4. budget' \in Bounds /\ budget'.events = budget.events /\ lapses' \in SUBSET Reasons
    BY <1>5, FaultType DEF TypeOK, DispatchFails, Excused, Reasons
  <2>. QED
    BY <1>5, <2>3, <2>4 DEF TypeOK, DispatchFails, base, scoping
<1>6. ASSUME ArchiveFails PROVE TypeOK'
  <2>1. poll' \in Hand /\ lapses' \in SUBSET Reasons
    BY <1>6 DEF TypeOK, ArchiveFails, Again, Hand, Excused, Reasons
  <2>2. budget' \in Bounds /\ budget'.events = budget.events
    BY <1>6, FaultType DEF TypeOK, ArchiveFails
  <2>. QED
    BY <1>6, <2>1, <2>2 DEF TypeOK, ArchiveFails, base, scoping
<1>. QED
  BY <1>1, <1>2, <1>3, <1>4, <1>5, <1>6 DEF Polling

LEMMA ScopingTypes ==
  ASSUME TypeOK, Heartbeat \/ Syncing \/ (\E k \in Callers : SyncFails(k)) \/ Tasks
  PROVE  TypeOK'
<1>1. ASSUME Heartbeat PROVE TypeOK'
  <2>1. row' \in Row
    BY <1>1 DEF TypeOK, Heartbeat, Row
  <2>2. syncs' \in [Callers -> Sync]
    BY <1>1, AskedType DEF TypeOK, Heartbeat, Callers
  <2>. QED
    BY <1>1, <2>1, <2>2 DEF TypeOK, Heartbeat, reader
<1>2. ASSUME NEW k \in Callers, Capture(k) \/ Apply(k) \/ Answered(k) PROVE TypeOK'
  <2>1. syncs[k] \in Sync /\ syncs[k].scope \in SUBSET Ships
    BY DEF TypeOK, Sync
  <2>2. CASE Capture(k)
    <3>1. syncs' \in [Callers -> Sync]
      BY <2>2 DEF TypeOK, Capture, Sync
    <3>. QED
      BY <2>2, <3>1 DEF TypeOK, Capture, base, reader
  <2>3. CASE Apply(k)
    <3>1. row' \in Row
      BY <2>1, <2>3 DEF TypeOK, Apply, Row
    <3>2. syncs' \in [Callers -> Sync]
      BY <2>1, <2>3 DEF TypeOK, Apply, Sync
    <3>. QED
      BY <2>3, <3>1, <3>2 DEF TypeOK, Apply, reader
  <2>4. CASE Answered(k)
    <3>1. poll' \in Hand
      BY <2>4 DEF TypeOK, Answered, Hand
    <3>2. syncs' \in [Callers -> Sync] /\ task' \in [Ships -> Stages]
      BY <2>4 DEF TypeOK, Answered, Quiet, Sync, Stages
    <3>. QED
      BY <2>4, <3>1, <3>2 DEF TypeOK, Answered, base
  <2>. QED
    BY <1>2, <2>2, <2>3, <2>4
<1>3. ASSUME NEW k \in Callers, Refused(k) \/ SyncFails(k) PROVE TypeOK'
  <2>1. GivesUp(k) /\ lapses' = lapses
    BY <1>3 DEF Refused, SyncFails
  <2>2. poll' \in Hand
    BY <2>1 DEF TypeOK, GivesUp, Again, Hand
  <2>3. syncs' \in [Callers -> Sync] /\ task' \in [Ships -> Stages]
    BY <2>1 DEF TypeOK, GivesUp, Quiet, Sync, Stages
  <2>4. phase' \in Phases
    BY <1>3 DEF TypeOK, Refused, SyncFails, Phases
  <2>5. budget' \in Bounds /\ budget'.events = budget.events
    BY <1>3, FaultType DEF TypeOK, Refused, SyncFails
  <2>. QED
    BY <2>1, <2>2, <2>3, <2>4, <2>5 DEF TypeOK, GivesUp, base
<1>4. Children \subseteq Ships
  BY DEF Children
<1>5. ASSUME NEW s \in Ships, StartTask(s) PROVE TypeOK'
  <2>1. budget' \in Bounds /\ budget'.events = budget.events
    <3>1. budget.tasks \in Nat /\ budget.tasks > 0 /\ budget' = [budget EXCEPT !.tasks = @ - 1]
      BY <1>5 DEF TypeOK, StartTask, Bounds
    <3>2. PICK n \in Nat : budget' = [budget EXCEPT !.tasks = n]
      BY <3>1
    <3>. QED
      BY <3>2 DEF TypeOK, Bounds
  <2>2. syncs' \in [Callers -> Sync] /\ task' \in [Ships -> Stages]
    BY <1>5, AskedType DEF TypeOK, StartTask, Callers, Stages
  <2>3. desired' \in SUBSET Ships /\ pending' \in BOOLEAN /\ missed' \in BOOLEAN
    BY <1>4, <1>5 DEF StartTask, SetScope, Carried
  <2>. QED
    BY <1>5, <2>1, <2>2, <2>3 DEF TypeOK, StartTask, base, reader
<1>6. ASSUME NEW s \in Ships, Ready(s) \/ EndTask(s) PROVE TypeOK'
  <2>1. desired' \in SUBSET Ships /\ pending' \in BOOLEAN /\ missed' \in BOOLEAN
    BY <1>4, <1>6 DEF Ready, EndTask, SetScope, Carried
  <2>2. task' \in [Ships -> Stages]
    BY <1>6 DEF TypeOK, Ready, EndTask, Stages
  <2>3. UNCHANGED <<base, reader, syncs, lapses, budget>>
    BY <1>6 DEF Ready, EndTask
  <2>. QED
    BY <2>1, <2>2, <2>3 DEF TypeOK, base, reader
<1>7. ASSUME NEW s \in Ships, NEW added \in BOOLEAN, Launch(s, added) PROVE TypeOK'
  <2>1. task' \in [Ships -> Stages]
    BY <1>7 DEF TypeOK, Launch, Stages
  <2>. QED
    BY <1>7, <2>1 DEF TypeOK, Launch, base, reader
<1>. QED
  BY <1>1, <1>2, <1>3, <1>5, <1>6, <1>7 DEF Syncing, Tasks

LEMMA Types ==
  ASSUME TypeOK, Mailed, [Next]_vars
  PROVE  TypeOK'
<1>1. CASE UNCHANGED vars
  BY <1>1 DEF TypeOK, vars, base, reader, scoping
<1>. QED
  BY <1>1, EventTypes, JoiningTypes, PollingTypes, ScopingTypes DEF Next

-----------------------------------------------------------------------------
(* What the session listens to.                                            *)

LEMMA ScopeKept ==
  ASSUME Scoped, UNCHANGED <<desired, pending, syncs, task, missed>>, row'.scope = row.scope
  PROVE  Scoped'
  BY DEF Scoped

\* A call that is asked for, or is given up, carries nothing.
LEMMA ScopeAsked ==
  ASSUME TypeOK, Scoped, NEW k \in Callers, NEW v \in Sync, v.at \in {"idle", "asked"},
         syncs' = [syncs EXCEPT ![k] = v], UNCHANGED <<desired, pending, missed>>,
         row'.scope = row.scope, \A s \in Ships : task'[s] = "launched" => task[s] = "launched"
  PROVE  Scoped'
<1>1. \A c \in Callers : syncs'[c].at \in {"sent", "applied"} => syncs'[c] = syncs[c]
  BY DEF TypeOK
<1>2. \A c \in Callers : syncs'[c].at = "applied" => syncs'[c] = syncs[c]
  BY <1>1
<1>. QED
  BY <1>1, <1>2 DEF Scoped

LEMMA ScopeSet ==
  ASSUME TypeOK, Scoped, NEW S \in SUBSET Ships, SetScope(S), row' = row,
         \A c \in Callers : syncs'[c].at \in {"sent", "applied"} => syncs'[c] = syncs[c],
         \A s \in S : task'[s] # "launched"
  PROVE  Scoped'
<1>1. ~missed' => \A c \in Callers : syncs'[c].at \notin {"sent", "applied"}
  BY DEF SetScope, Carried
<1>2. desired' = S /\ pending' = TRUE
  BY DEF SetScope
<1>. QED
  BY <1>1, <1>2 DEF Scoped

LEMMA ScopeHolds ==
  ASSUME TypeOK, Scoped, [Next]_vars
  PROVE  Scoped'
<1>1. CASE UNCHANGED vars
  BY <1>1, ScopeKept DEF vars, base, scoping
<1>2. CASE Events
  BY <1>2, ScopeKept DEF Events, Record, Send, Commit, scoping
<1>3. CASE Database \/ Cleanup
  <2>1. row'.scope = row.scope
    <3>1. row \in Row
      BY DEF TypeOK
    <3>2. \/ \E h : row' = [row EXCEPT !.life = "lapsed", !.hard = h]
          \/ row' = [row EXCEPT !.life = "gone"]
      BY <1>3 DEF Database, Lapse, Cleanup
    <3>. QED
      BY <3>1, <3>2 DEF Row
  <2>. QED
    BY <1>3, <2>1, ScopeKept DEF Database, Lapse, Cleanup, scoping
<1>4. CASE (\E s \in Ships : Lose(s)) \/ (\E i \in Ids : Reappear(i))
  <2>1. row'.scope = row.scope
    BY <1>4 DEF Lose, Reappear, TypeOK, Row
  <2>. QED
    BY <1>4, <2>1, ScopeKept DEF Lose, Reappear, scoping
<1>5. CASE Joining
  <2>1. CASE Prepare
    <3>1. row'.scope = desired
      BY <2>1 DEF Prepare, TypeOK, Row
    <3>2. UNCHANGED <<desired, syncs, task, missed>>
      BY <2>1 DEF Prepare
    <3>. QED
      BY <3>1, <3>2 DEF Scoped
  <2>2. CASE ~Prepare
    BY <1>5, <2>2, ScopeKept
    DEF Joining, Drain, JoinFails, Replay, ReplayFails, Start, base, scoping
  <2>. QED
    BY <2>1, <2>2
<1>6. CASE Stop
  <2>1. \A k \in Callers : syncs'[k].at = "idle"
    BY <1>6 DEF Stop, Quiet
  <2>2. \A s \in Ships : task'[s] = "idle"
    BY <1>6 DEF Stop
  <2>3. row'.scope = row.scope
    BY <1>6 DEF Stop, TypeOK, Row
  <2>4. UNCHANGED <<desired, pending, missed>>
    BY <1>6 DEF Stop
  <2>. QED
    BY <2>1, <2>2, <2>3, <2>4 DEF Scoped
<1>7. CASE Round
  <2>1. CASE pending
    <3>. DEFINE v == [at |-> "asked", scope |-> {}]
    <3>1. v \in Sync /\ v.at = "asked"
      BY DEF Sync
    <3>. HIDE DEF v
    <3>2. "poll" \in Callers /\ syncs' = [syncs EXCEPT !["poll"] = v]
      BY <1>7, <2>1 DEF Round, Asked, Callers, v
    <3>3. UNCHANGED <<row, desired, pending, missed, task>>
      BY <1>7 DEF Round, base
    <3>. QED
      BY <3>1, <3>2, <3>3, ScopeAsked
  <2>2. CASE ~pending
    BY <1>7, <2>2, ScopeKept DEF Round, base
  <2>. QED
    BY <2>1, <2>2
<1>8. CASE Read \/ Dispatch \/ Archive \/ DispatchFails \/ ArchiveFails
  BY <1>8, ScopeKept DEF Read, Dispatch, Archive, DispatchFails, ArchiveFails, base, scoping
<1>9. CASE Heartbeat
  <2>1. row'.scope = row.scope /\ UNCHANGED <<desired, pending, task, missed>>
    BY <1>9 DEF Heartbeat, TypeOK, Row
  <2>2. CASE pending
    <3>. DEFINE v == [at |-> "asked", scope |-> {}]
    <3>1. v \in Sync /\ v.at = "asked"
      BY DEF Sync
    <3>. HIDE DEF v
    <3>2. "heart" \in Callers /\ syncs' = [syncs EXCEPT !["heart"] = v]
      BY <1>9, <2>2 DEF Heartbeat, Asked, Callers, v
    <3>. QED
      BY <2>1, <3>1, <3>2, ScopeAsked
  <2>3. CASE ~pending
    BY <1>9, <2>1, <2>3, ScopeKept DEF Heartbeat
  <2>. QED
    BY <2>2, <2>3
<1>10. ASSUME NEW k \in Callers, Capture(k) PROVE Scoped'
  <2>1. /\ \A c \in Callers \ {k} : syncs'[c] = syncs[c]
        /\ syncs'[k] = [at |-> "sent", scope |-> desired]
    BY <1>10 DEF Capture, TypeOK
  <2>2. UNCHANGED <<row, desired, pending, task, missed>>
    BY <1>10 DEF Capture, base
  <2>3. syncs'[k].at = "sent" /\ syncs'[k].scope = desired
    BY <2>1
  <2>. QED
    BY <2>1, <2>2, <2>3 DEF Scoped
<1>11. ASSUME NEW k \in Callers, Apply(k) PROVE Scoped'
  <2>1. /\ \A c \in Callers \ {k} : syncs'[c] = syncs[c]
        /\ syncs'[k].scope = syncs[k].scope /\ syncs[k].at = "sent"
    BY <1>11 DEF Apply, TypeOK, Sync
  <2>2. row'.scope = syncs[k].scope /\ UNCHANGED <<desired, pending, task, missed>>
    BY <1>11 DEF Apply, TypeOK, Row
  <2>. QED
    BY <2>1, <2>2 DEF Scoped
<1>12. ASSUME NEW k \in Callers, Answered(k) PROVE Scoped'
  <2>1. /\ \A c \in Callers \ {k} : syncs'[c] = syncs[c]
        /\ syncs'[k].at = "idle" /\ syncs[k].at = "applied"
    BY <1>12 DEF Answered, TypeOK, Quiet
  <2>2. UNCHANGED <<row, desired, missed>>
    BY <1>12 DEF Answered, base
  <2>3. ~missed => row.scope = desired
    BY <2>1 DEF Scoped
  <2>. QED
    BY <2>1, <2>2, <2>3 DEF Scoped
<1>13. ASSUME NEW k \in Callers, Refused(k) \/ SyncFails(k) PROVE Scoped'
  <2>1. GivesUp(k)
    BY <1>13 DEF Refused, SyncFails
  <2>2. Quiet \in Sync /\ Quiet.at = "idle"
    BY DEF Quiet, Sync
  <2>3. \A s \in Ships : task'[s] = "launched" => task[s] = "launched"
    BY <2>1 DEF GivesUp, TypeOK
  <2>4. UNCHANGED <<row, desired, pending, missed>> /\ syncs' = [syncs EXCEPT ![k] = Quiet]
    BY <2>1 DEF GivesUp, base
  <2>. QED
    BY <2>2, <2>3, <2>4, ScopeAsked
<1>14. Children \subseteq Ships /\ \A s \in Children : task[s] \in {"child", "running"}
  BY DEF Children
<1>15. ASSUME NEW s \in Ships, StartTask(s) PROVE Scoped'
  <2>1. \A c \in Callers : syncs'[c].at \in {"sent", "applied"} => syncs'[c] = syncs[c]
    <3>1. s \in Callers /\ syncs' = Asked(s)
      BY <1>15 DEF StartTask, Callers
    <3>2. Asked(s)[s].at = "asked" /\ \A c \in Callers \ {s} : Asked(s)[c] = syncs[c]
      <4>. DEFINE v == [at |-> "asked", scope |-> {}]
      <4>1. Asked(s)[s] = v
        BY <3>1 DEF TypeOK, Asked
      <4>2. v.at = "asked"
        OBVIOUS
      <4>. HIDE DEF v
      <4>. QED
        BY <3>1, <4>1, <4>2, AskedType
    <3>. QED
      BY <3>1, <3>2
  <2>2. \A t \in Children \cup {s} : task'[t] # "launched"
    BY <1>14, <1>15 DEF StartTask, TypeOK
  <2>3. SetScope(Children \cup {s}) /\ row' = row
    BY <1>15 DEF StartTask, base
  <2>. QED
    BY <1>14, <2>1, <2>2, <2>3, ScopeSet
<1>16. ASSUME NEW s \in Ships, Ready(s) \/ EndTask(s) PROVE Scoped'
  <2>1. \A t \in Children : task'[t] # "launched"
    BY <1>14, <1>16 DEF Ready, EndTask, TypeOK
  <2>2. PICK S \in SUBSET Children : SetScope(S)
    BY <1>16 DEF Ready, EndTask
  <2>3. row' = row /\ syncs' = syncs
    BY <1>16 DEF Ready, EndTask, base
  <2>. QED
    BY <1>14, <2>1, <2>2, <2>3, ScopeSet
<1>17. ASSUME NEW s \in Ships, NEW added \in BOOLEAN, Launch(s, added) PROVE Scoped'
  <2>1. \A t \in Ships : task'[t] = "launched" => task[t] = "launched"
    BY <1>17 DEF Launch, TypeOK
  <2>2. UNCHANGED <<row, desired, pending, syncs, missed>>
    BY <1>17 DEF Launch, base
  <2>. QED
    BY <2>1, <2>2 DEF Scoped
<1>. QED
  BY <1>1, <1>2, <1>3, <1>4, <1>5, <1>6, <1>7, <1>8, <1>9, <1>10, <1>11, <1>12, <1>13,
     <1>15, <1>16, <1>17
  DEF Next, Polling, Syncing, Tasks

-----------------------------------------------------------------------------
(* What the bot has heard, step by step.                                   *)

Calm == lapses \subseteq {"deadline"}

LEMMA Facts ==
  ASSUME TypeOK, Heard
  PROVE  /\ DOMAIN evs = 1..Len(evs) /\ Len(evs) \in Nat /\ \A i \in DOMAIN evs : i \in Ids
         /\ Got \subseteq Ids /\ poll.acks \subseteq Ids /\ ToSet(queue) \subseteq Ids
         /\ \A i \in Ids : mail[i] \in Places
         /\ \A i \in Ids : mail[i] # "none" => i \in DOMAIN evs
         /\ \A i \in Got \cup poll.acks : mail[i] # "none" /\ i \in DOMAIN evs
         /\ \A j \in DOMAIN evs : \A i \in evs[j].after :
              i \in Ids /\ i \in DOMAIN evs /\ i < j /\ evs[i].at = "out"
<1>1. /\ DOMAIN evs = 1..Len(evs) /\ Len(evs) \in Nat /\ \A i \in DOMAIN evs : i \in Ids
      /\ \A j \in DOMAIN evs : evs[j] \in Event
  <2>1. evs \in Seq(Event) /\ budget.events \in Nat /\ Len(evs) + budget.events <= Most
    BY DEF TypeOK, Bounds
  <2>2. DOMAIN evs = 1..Len(evs) /\ Len(evs) \in Nat /\ \A j \in DOMAIN evs : evs[j] \in Event
    BY <2>1
  <2>. QED
    BY <2>1, <2>2, MostIsNat DEF Ids
<1>2. /\ Seen \subseteq Ids /\ ToSet(poll.batch) \subseteq Ids /\ ToSet(queue) \subseteq Ids
      /\ poll.acks \subseteq Ids /\ buffer \subseteq Ids
  BY DEF TypeOK, Hand, ToSet, Seen
<1>3. \A i \in Ids : mail[i] \in Places /\ (mail[i] # "none" => i \in DOMAIN evs)
  BY DEF TypeOK, Heard, Mailed
<1>4. \A i \in Got \cup poll.acks : mail[i] # "none"
  BY DEF Heard, Handled, Got
<1>5. ASSUME NEW j \in DOMAIN evs, NEW i \in evs[j].after
      PROVE  i \in Ids /\ i \in DOMAIN evs /\ i < j /\ evs[i].at = "out"
  <2>1. i \in Ids /\ i < j /\ evs[i].at = "out"
    BY <1>1, <1>5 DEF Heard, Dated, Event
  <2>. QED
    BY <1>1, <2>1, MostIsNat DEF Ids
<1>6. Got \subseteq Ids
  BY <1>2 DEF Got
<1>. QED
  BY <1>1, <1>2, <1>3, <1>4, <1>5, <1>6

\* An event goes on its way: recorded, sent, committed.
LEMMA HeardGrows ==
  ASSUME TypeOK, Heard, Mailed', Dated', UNCHANGED <<row, tries, reader, scoping, lapses>>,
         \A j \in DOMAIN evs :
           /\ j \in DOMAIN evs' /\ evs'[j].echo = evs[j].echo /\ evs'[j].after = evs[j].after
           /\ evs[j].at = "out" => evs'[j].at = "out" /\ mail'[j] = mail[j],
         \A j \in Ids : mail'[j] # mail[j] => mail[j] = "none" /\ mail'[j] = "unseen",
         \A j \in DOMAIN evs' : j \notin DOMAIN evs /\ evs'[j].echo => phase = "registered"
  PROVE  Heard'
<1>1. UNCHANGED <<phase, poll, buffer, seen, Seen, Got, syncs>>
  BY DEF reader, scoping, Seen, Got
<1>2. Handled'
  BY <1>1, Facts DEF Heard, Handled, Got
<1>3. Answerable'
  BY <1>1 DEF Heard, Answerable
<1>4. NothingLost'
  BY <1>1, Facts DEF Heard, NothingLost
<1>5. Once'
  <2>1. \A i \in Seen : mail'[i] = mail[i]
    BY Facts DEF Got
  <2>. QED
    BY <1>1, <2>1 DEF Heard, Once
<1>6. NoEcho'
  <2>1. \A i \in Got : evs'[i].echo = evs[i].echo
    BY Facts
  <2>2. phase = "registered" => poll.at = "off"
    BY DEF Heard, Handled, Joins, Resting
  <2>3. \A i \in DOMAIN evs : Settled(i) => Settled(i)'
    BY DEF Settled
  <2>. QED
    BY <1>1, <2>1, <2>2, <2>3 DEF Heard, NoEcho, Got
<1>7. Ordered'
  <2>1. \A j \in Got : j \in DOMAIN evs /\ evs'[j].after = evs[j].after
    BY Facts
  <2>2. \A j \in Got : \A i \in evs[j].after : Spared(i) => Spared(i)'
    BY Facts DEF Spared
  <2>3. \A i \in poll.acks \cup Got : mail'[i] = mail[i]
    BY Facts
  <2>4. \A i \in Ids : mail'[i] \in {"held", "archived"} =>
          mail'[i] = mail[i] /\ i \in DOMAIN evs /\ evs'[i].echo = evs[i].echo
    BY Facts
  <2>5. ASSUME Calm, NEW p \in DOMAIN seen, NEW i \in evs'[seen[p]].after
        PROVE  Spared(i)' \/ \E q \in 1..(p - 1) : seen'[q] = i
    <3>1. seen[p] \in Got /\ i \in evs[seen[p]].after
      BY <2>1, <2>5 DEF Got, Seen, ToSet
    <3>2. Spared(i) \/ \E q \in 1..(p - 1) : seen[q] = i
      BY <2>5, <3>1 DEF Heard, Ordered, InOrder, Spared, Calm
    <3>. QED
      BY <1>1, <2>2, <3>1, <3>2
  <2>6. InOrder'
    BY <1>1, <2>5 DEF InOrder, Spared, Calm
  <2>. QED
    BY <1>1, <2>1, <2>2, <2>3, <2>4, <2>6 DEF Heard, Ordered, Got
<1>. QED
  BY <1>2, <1>3, <1>4, <1>5, <1>6, <1>7 DEF Heard

LEMMA EventsHeard ==
  ASSUME TypeOK, Heard, Events
  PROVE  Heard'
<1>. USE DEF Heard
<1>1. ASSUME NEW to \in Ships \cup {Me}, NEW echo \in BOOLEAN, Record(to, echo) PROVE Heard'
  <2>. DEFINE e == [to |-> to, echo |-> echo, at |-> "inserted",
                    after |-> {i \in DOMAIN evs : evs[i].at = "out"}]
              n == Len(evs) + 1
  <2>1. e \in Event
    BY Facts DEF Event
  <2>2. /\ evs' = Append(evs, e) /\ (echo => phase = "registered")
        /\ UNCHANGED <<row, queue, mail, tries, reader, scoping, lapses>>
    BY <1>1 DEF Record
  <2>3. /\ e.echo = echo /\ \A i \in e.after : i \in DOMAIN evs /\ evs[i].at = "out"
    OBVIOUS
  <2>. HIDE DEF e
  <2>4. /\ DOMAIN evs' = DOMAIN evs \cup {n} /\ evs'[n] = e /\ n \notin DOMAIN evs
        /\ \A i \in DOMAIN evs : evs'[i] = evs[i] /\ i < n
    BY <2>1, <2>2, Facts DEF TypeOK
  <2>. HIDE DEF n
  <2>5. \A i \in ToSet(queue) : i \in DOMAIN evs
    BY Facts DEF Mailed
  <2>6. Mailed'
    BY <2>2, <2>4 DEF Mailed
  <2>7. \A m \in DOMAIN queue : queue[m] \in DOMAIN evs
    BY <2>5 DEF ToSet
  <2>8. Dated'
    BY <2>2, <2>3, <2>4, <2>7, Facts DEF Dated
  <2>. QED
    BY <2>2, <2>3, <2>4, <2>6, <2>8, HeardGrows
<1>2. ASSUME NEW i \in Ids, Send(i) \/ Commit(i) PROVE Heard'
  <2>1. /\ i \in DOMAIN evs /\ evs[i].at # "out" /\ DOMAIN evs' = DOMAIN evs
        /\ \A j \in DOMAIN evs : evs'[j].echo = evs[j].echo /\ evs'[j].after = evs[j].after
        /\ \A j \in DOMAIN evs : j # i => evs'[j] = evs[j]
        /\ evs'[i].at # "inserted"
        /\ UNCHANGED <<row, tries, reader, scoping, lapses>>
    <3>1. PICK a \in {"sent", "out"} : evs' = [evs EXCEPT ![i].at = a]
      BY <1>2 DEF Send, Commit
    <3>2. i \in DOMAIN evs /\ evs[i] \in Event
      BY <1>2 DEF Send, Commit, TypeOK
    <3>3. evs'[i] = [evs[i] EXCEPT !.at = a]
      BY <3>1, <3>2
    <3>. QED
      BY <1>2, <3>1, <3>2, <3>3 DEF Send, Commit, Event
  <2>2. \A j \in DOMAIN evs : evs[j].at = "out" => j # i
    BY <2>1
  <2>3. CASE queue' = queue /\ mail' = mail
    <3>1. Mailed'
      BY <2>1, <2>3 DEF Mailed
    <3>2. Dated'
      BY <2>1, <2>2, <2>3, Facts DEF Dated, Mailed, ToSet
    <3>. QED
      BY <2>1, <2>2, <2>3, <3>1, <3>2, HeardGrows
  <2>4. CASE ~(queue' = queue /\ mail' = mail)
    <3>1. /\ evs[i].at = "inserted"
          /\ queue' = Append(queue, i) /\ mail' = [mail EXCEPT ![i] = "unseen"]
      BY <1>2, <2>4 DEF Send, Commit
    <3>2. mail[i] = "none" /\ i \notin ToSet(queue)
      BY <3>1 DEF Mailed
    <3>3. mail'[i] = "unseen" /\ \A j \in Ids \ {i} : mail'[j] = mail[j]
      BY <3>1 DEF TypeOK
    <3>4. Mailed'
      <4>1. IsInjective(queue') /\ ToSet(queue') = ToSet(queue) \cup {i}
        BY <3>1, <3>2, AppendItems DEF TypeOK, Mailed
      <4>. QED
        BY <2>1, <3>3, <4>1 DEF Mailed
    <3>5. Dated'
      <4>1. /\ DOMAIN queue' = DOMAIN queue \cup {Len(queue) + 1} /\ queue'[Len(queue) + 1] = i
            /\ \A m \in DOMAIN queue : queue'[m] = queue[m] /\ m < Len(queue) + 1
            /\ Len(queue) + 1 \notin DOMAIN queue
        BY <3>1 DEF TypeOK
      <4>2. \A j \in DOMAIN evs : i \notin evs[j].after
        BY <2>2, Facts
      <4>3. \A m \in DOMAIN queue : queue[m] \in DOMAIN evs
        BY Facts DEF Mailed, ToSet
      <4>4. \A m, n \in DOMAIN queue' : queue'[m] \in evs'[queue'[n]].after => m < n
        BY <2>1, <4>1, <4>2, <4>3 DEF Dated
      <4>5. \A j \in DOMAIN evs' : \A k \in evs'[j].after : k < j /\ evs'[k].at = "out"
        BY <2>1, <2>2, Facts DEF Dated
      <4>. QED
        BY <4>4, <4>5 DEF Dated
    <3>. QED
      BY <2>1, <2>2, <3>2, <3>3, <3>4, <3>5, Facts, HeardGrows
  <2>. QED
    BY <2>3, <2>4
<1>. QED
  BY <1>1, <1>2 DEF Events

\* The bot goes on without touching what it has.
LEMMA HeardMoves ==
  ASSUME TypeOK, Heard, UNCHANGED <<evs, queue, mail, tries, buffer, seen, lapses>>,
         poll'.batch = poll.batch, poll'.acks = poll.acks,
         row'.life = "lapsed" => row.life = "lapsed",
         syncs'["poll"].at # "idle" => poll'.at = "sync",
         poll' = poll \/ (poll.at # "batch" /\ poll'.at # "batch"),
         poll' = poll \/ poll.at # "off" \/ phase = "replayed",
         phase' = phase \/ phase' \notin Joins \cup {"failed", "stopped"}
           \/ (phase = "new" /\ phase' = "registered") \/ (phase \in Joins /\ phase' = "failed"),
         poll' = poll \/ phase' \notin Joins \cup {"failed", "stopped"}
  PROVE  Heard'
<1>. USE DEF Heard
<1>1. Mailed' /\ Dated'
  BY DEF Mailed, Dated
<1>2. UNCHANGED <<Seen, Got>>
  BY DEF Seen, Got
<1>3. Handled'
  <2>1. phase' \in Joins \cup {"failed", "stopped"} => poll' = Resting
    BY DEF Handled, Joins
  <2>2. phase' \in Joins => phase \in Joins
    BY DEF Joins
  <2>3. phase' \in {"new", "registered", "draining", "drained"} => seen' = << >>
    BY DEF Handled, Joins
  <2>4. phase' = "replayed" \/ poll'.at # "off" => buffer' = {}
    BY DEF Handled, Joins
  <2>. QED
    BY <1>2, <2>1, <2>2, <2>3, <2>4 DEF Handled
<1>4. Answerable' /\ NothingLost' /\ Once'
  BY <1>2 DEF Answerable, NothingLost, Once
<1>5. NoEcho'
  <2>1. phase' = "draining" => phase = "draining"
    BY DEF Joins
  <2>2. phase' \in {"drained", "replayed"} \/ poll'.at # "off" =>
          phase \in {"drained", "replayed"} \/ poll.at # "off"
    BY DEF Joins
  <2>3. \A i : Settled(i) => Settled(i)'
    BY DEF Settled
  <2>. QED
    BY <1>2, <2>1, <2>2, <2>3 DEF NoEcho
<1>6. Ordered'
  <2>1. InOrder => InOrder'
    BY DEF InOrder
  <2>2. \A i : Spared(i) => Spared(i)'
    BY DEF Spared
  <2>. QED
    BY <1>2, <2>1, <2>2 DEF Ordered
<1>. QED
  BY <1>1, <1>3, <1>4, <1>5, <1>6


\* What was waiting or held goes with its queue.
LEMMA HeardDrops ==
  ASSUME TypeOK, Heard, mail' = Dropped,
         UNCHANGED <<evs, queue, tries, buffer, seen, lapses>>,
         row'.life # "lapsed",
         \/ row.life = "lapsed" /\ UNCHANGED <<phase, poll, syncs>>
         \/ phase' = "stopped" /\ poll' = Resting /\ syncs'["poll"].at = "idle"
  PROVE  Heard'
<1>. USE DEF Heard
<1>1. UNCHANGED Seen
  BY DEF Seen
<1>2. \A i \in Ids : mail'[i] = IF mail[i] \in {"unseen", "held"} THEN "dropped" ELSE mail[i]
  BY DEF Dropped
<1>3. Mailed' /\ Dated'
  BY <1>2 DEF Mailed, Dated
<1>4. poll' = poll \/ (poll'.at = "off" /\ ToSet(poll'.batch) = {} /\ poll'.acks = {})
  <2>1. Resting.at = "off" /\ ToSet(Resting.batch) = {} /\ Resting.acks = {}
    BY DEF Resting, ToSet
  <2>2. poll' = poll \/ poll' = Resting
    OBVIOUS
  <2>3. CASE poll' = Resting
    <3>1. poll'.batch = Resting.batch /\ poll'.at = Resting.at /\ poll'.acks = Resting.acks
      BY <2>3
    <3>2. ToSet(poll'.batch) = {}
      BY <2>1, <3>1 DEF ToSet
    <3>. QED
      BY <2>1, <3>1, <3>2
  <2>. QED
    BY <2>2, <2>3
<1>5. Handled'
  <2>1. \A i \in Ids : mail'[i] # "held"
    BY <1>2
  <2>2. \A i \in buffer : mail'[i] = "archived"
    BY <1>2, Facts DEF Handled, Got
  <2>3. \A i \in Seen : mail'[i] # "none"
    BY <1>2, Facts DEF Handled, Got
  <2>4. CASE row.life = "lapsed" /\ UNCHANGED <<phase, poll, syncs>>
    <3>1. \A i \in ToSet(poll.batch) \cup poll.acks : mail'[i] \in {"held", "dropped"}
      BY <1>2, Facts DEF Handled, Got
    <3>. QED
      BY <1>1, <2>1, <2>2, <2>3, <2>4, <3>1 DEF Handled
  <2>5. CASE phase' = "stopped" /\ poll' = Resting /\ syncs'["poll"].at = "idle"
    <3>1. poll'.at = "off" /\ poll'.batch = << >> /\ poll'.acks = {} /\ ToSet(poll'.batch) = {}
      BY <2>5 DEF Resting, ToSet
    <3>2. DOMAIN poll'.batch = {}
      BY <3>1
    <3>. QED
      BY <1>1, <2>1, <2>2, <2>3, <2>5, <3>1, <3>2 DEF Handled, Joins
  <2>. QED
    BY <2>4, <2>5
<1>6. Answerable'
  BY <1>1, <1>4 DEF Answerable
<1>7. NothingLost'
  BY <1>1, <1>2 DEF NothingLost
<1>8. Once'
  <2>1. \A i \in Seen : mail[i] \in {"archived", "dropped"} => mail'[i] \in {"archived", "dropped"}
    BY <1>2, Facts DEF Got
  <2>2. \A i \in Seen : i \in poll.acks => mail'[i] \in {"archived", "dropped"}
    BY <1>2, Facts DEF Got, Handled
  <2>. QED
    BY <1>1, <1>4, <2>1, <2>2 DEF Once
<1>9. NoEcho'
  <2>1. \A i \in DOMAIN evs : Settled(i) => Settled(i)'
    BY <1>2, Facts DEF Settled
  <2>2. phase' = phase \/ phase' = "stopped"
    OBVIOUS
  <2>. QED
    BY <1>1, <1>4, <2>1, <2>2 DEF NoEcho
<1>10. Ordered'
  <2>1. CASE row.life = "lapsed"
    BY <2>1 DEF Ordered, InOrder
  <2>2. CASE phase' = "stopped" /\ poll' = Resting /\ syncs'["poll"].at = "idle"
    <3>1. poll'.acks = {} /\ ToSet(poll'.batch) = {} /\ Got' = Seen \cup buffer
      BY <1>1, <2>2 DEF Resting, ToSet, Got
    <3>2. \A i \in Ids : Spared(i) => Spared(i)'
      BY <1>2 DEF Spared
    <3>3. \A i \in ToSet(poll.batch) : Calm => Spared(i)'
      BY <1>2, Facts DEF Spared, Ordered, Calm, Got
    <3>4. \A j \in Got' : Calm => \A i \in evs'[j].after : Spared(i)' \/ i \in Got'
      <4>1. \A j \in Got' : j \in Got /\ evs'[j] = evs[j] /\ j \in DOMAIN evs
        BY <3>1, Facts DEF Got
      <4>. QED
        BY <3>1, <3>2, <3>3, <4>1, Facts DEF Ordered, Calm, Got
    <3>5. InOrder'
      <4>1. SUFFICES ASSUME Calm, NEW p \in DOMAIN seen, NEW i \in evs[seen[p]].after
                     PROVE  Spared(i)' \/ \E q \in 1..(p - 1) : seen[q] = i
        BY DEF InOrder, Spared, Calm
      <4>2. seen[p] \in Got
        BY DEF Got, Seen, ToSet
      <4>3. Spared(i) \/ \E q \in 1..(p - 1) : seen[q] = i
        BY <4>1 DEF Ordered, InOrder, Spared, Calm
      <4>. QED
        BY <3>2, <4>2, <4>3, Facts
    <3>6. \A i \in Ids : mail'[i] # "held" /\ (mail'[i] = "archived" => mail[i] = "archived")
      BY <1>2
    <3>. QED
      BY <1>1, <3>1, <3>4, <3>5, <3>6 DEF Ordered, Calm
  <2>. QED
    BY <2>1, <2>2
<1>. QED
  BY <1>3, <1>5, <1>6, <1>7, <1>8, <1>9, <1>10

LEMMA LapseHeard ==
  ASSUME TypeOK, Heard, Database
  PROVE  Heard'
<1>. USE DEF Heard
<1>1. UNCHANGED <<evs, queue, mail, tries, reader, syncs>> /\ lapses' = lapses \cup {"outage"}
  BY DEF Database, Lapse, Excused, scoping
<1>2. UNCHANGED <<phase, poll, buffer, seen, Seen, Got>>
  BY <1>1 DEF reader, Seen, Got
<1>3. Mailed' /\ Dated' /\ Handled' /\ Answerable' /\ NothingLost' /\ Once'
  BY <1>1, <1>2 DEF Mailed, Dated, Handled, Answerable, NothingLost, Once
<1>4. NoEcho'
  <2>1. \A i : Settled(i) => Settled(i)'
    BY <1>1 DEF Settled
  <2>. QED
    BY <1>1, <1>2, <2>1 DEF NoEcho
<1>5. Ordered'
  BY <1>1 DEF Ordered, InOrder
<1>. QED
  BY <1>3, <1>4, <1>5

LEMMA ReappearHeard ==
  ASSUME TypeOK, Heard, NEW i \in Ids, Reappear(i)
  PROVE  Heard'
<1>. USE DEF Heard
<1>1. /\ mail[i] = "held" /\ i \notin ToSet(poll.batch) \cup poll.acks
      /\ mail'[i] = "unseen" /\ \A j \in Ids \ {i} : mail'[j] = mail[j]
      /\ UNCHANGED <<row, evs, queue, tries, phase, poll, buffer, seen, syncs, lapses>>
  BY DEF Reappear, TypeOK, reader, scoping
<1>2. UNCHANGED <<Seen, Got>>
  BY <1>1 DEF Seen, Got
<1>3. Mailed' /\ Dated'
  BY <1>1 DEF Mailed, Dated
<1>4. i \notin buffer /\ phase \notin Joins
  BY <1>1 DEF Handled
<1>5. Handled'
  <2>1. \A j \in buffer : mail'[j] = "archived"
    BY <1>1, <1>4, Facts DEF Handled, Got
  <2>2. \A j \in Seen : mail'[j] # "none"
    BY <1>1, Facts DEF Handled, Got
  <2>3. \A j \in ToSet(poll.batch) \cup poll.acks : mail'[j] \in {"held", "dropped"}
    BY <1>1, Facts DEF Handled, Got
  <2>. QED
    BY <1>1, <1>2, <1>4, <2>1, <2>2, <2>3 DEF Handled
<1>6. Answerable' /\ NothingLost'
  BY <1>1, <1>2 DEF Answerable, NothingLost
<1>7. Once'
  <2>1. "archive" \notin lapses => \A j \in Seen : j = i \/ mail'[j] = mail[j]
    BY <1>1, Facts DEF Got
  <2>2. "archive" \notin lapses => i \notin Seen
    BY <1>1 DEF Once
  <2>. QED
    BY <1>1, <1>2, <2>1, <2>2 DEF Once
<1>8. NoEcho'
  <2>1. \A j \in DOMAIN evs : Settled(j) => Settled(j)'
    BY <1>1, Facts DEF Settled
  <2>. QED
    BY <1>1, <1>2, <2>1 DEF NoEcho
<1>9. Ordered'
  <2>1. ~Calm
    BY <1>1 DEF Ordered, Calm
  <2>. QED
    BY <1>1, <2>1 DEF Ordered, InOrder, Calm
<1>. QED
  BY <1>3, <1>5, <1>6, <1>7, <1>8, <1>9


\* The moves of the loops, of the calls and of the tasks.
LEMMA MovesHeard ==
  ASSUME TypeOK, Heard,
         \/ Prepare \/ JoinFails \/ Start \/ Round \/ Heartbeat \/ Syncing \/ Tasks
         \/ (\E k \in Callers : SyncFails(k)) \/ (\E s \in Ships : Lose(s))
  PROVE  Heard'
<1>1. CASE Prepare \/ JoinFails \/ Start
  <2>1. /\ UNCHANGED <<evs, queue, mail, tries, buffer, seen, lapses, syncs>>
        /\ poll'.batch = poll.batch /\ poll'.acks = poll.acks
    BY <1>1 DEF Prepare, JoinFails, Start, base, scoping, TypeOK, Hand
  <2>2. poll.at = "off"
    BY <1>1 DEF Prepare, JoinFails, Start, Heard, Handled, Joins, Resting
  <2>3. syncs["poll"].at = "idle"
    BY <2>2 DEF Heard, Handled
  <2>4. row'.life = "lapsed" => row.life = "lapsed"
    BY <1>1 DEF Prepare, JoinFails, Start, base, TypeOK, Row
  <2>5. poll' = poll \/ (phase = "replayed" /\ phase' = "live" /\ poll'.at = "loop")
    <3>1. Start => poll'.at = "loop"
      BY DEF Start, TypeOK, Hand
    <3>. QED
      BY <1>1, <3>1 DEF Prepare, JoinFails, Start
  <2>6. \/ phase = "new" /\ phase' = "registered"
        \/ phase \in Joins /\ phase' = "failed"
        \/ phase' = "live"
    BY <1>1 DEF Prepare, JoinFails, Start, Joins
  <2>. QED
    BY <2>1, <2>2, <2>3, <2>4, <2>5, <2>6, HeardMoves DEF Joins
<1>2. CASE Round
  <2>1. UNCHANGED <<row, evs, queue, mail, tries, phase, buffer, seen, lapses>> /\ phase = "live"
    BY <1>2 DEF Round, base
  <2>2. /\ poll.at = "loop" /\ poll'.at \in {"sync", "read"}
        /\ poll'.batch = poll.batch /\ poll'.acks = poll.acks
    BY <1>2 DEF Round, TypeOK, Hand
  <2>3. poll'.at = "sync" \/ syncs' = syncs
    BY <1>2 DEF Round, TypeOK, Hand
  <2>4. syncs["poll"].at = "idle"
    BY <2>2 DEF Heard, Handled
  <2>. QED
    BY <2>1, <2>2, <2>3, <2>4, HeardMoves DEF Joins
<1>3. CASE Heartbeat \/ (\E s \in Ships : Lose(s)) \/ Tasks
  <2>1. UNCHANGED <<evs, queue, mail, tries, phase, poll, buffer, seen, lapses>>
    BY <1>3 DEF Heartbeat, Lose, Tasks, StartTask, Ready, EndTask, Launch, base, reader
  <2>2. row'.life = "lapsed" => row.life = "lapsed"
    BY <1>3 DEF Heartbeat, Lose, Tasks, StartTask, Ready, EndTask, Launch, base, TypeOK, Row
  <2>3. syncs' = syncs \/ \E k \in Callers \ {"poll"} : syncs' = Asked(k)
    BY <1>3, NamesAssumption
    DEF Heartbeat, Lose, Tasks, StartTask, Ready, EndTask, Launch, scoping, Callers
  <2>4. syncs'["poll"] = syncs["poll"]
    BY <2>3, AskedType DEF Callers
  <2>5. syncs["poll"].at # "idle" => poll.at = "sync"
    BY DEF Heard, Handled
  <2>. QED
    BY <2>1, <2>2, <2>4, <2>5, HeardMoves
<1>4. ASSUME NEW k \in Callers, Capture(k) \/ Apply(k) PROVE Heard'
  <2>1. UNCHANGED <<evs, queue, mail, tries, phase, poll, buffer, seen, lapses>>
    BY <1>4 DEF Capture, Apply, base, reader
  <2>2. row'.life = row.life
    BY <1>4 DEF Capture, Apply, base, TypeOK, Row
  <2>3. syncs'["poll"].at # "idle" => syncs["poll"].at # "idle"
    <3>1. syncs[k].at # "idle"
      BY <1>4 DEF Capture, Apply
    <3>2. k # "poll" => syncs'["poll"] = syncs["poll"]
      BY <1>4 DEF Capture, Apply, TypeOK, Callers
    <3>. QED
      BY <3>1, <3>2
  <2>4. syncs["poll"].at # "idle" => poll.at = "sync"
    BY DEF Heard, Handled
  <2>. QED
    BY <2>1, <2>2, <2>3, <2>4, HeardMoves
<1>5. ASSUME NEW k \in Callers, Answered(k) \/ Refused(k) \/ SyncFails(k) PROVE Heard'
  <2>1. /\ UNCHANGED <<row, evs, queue, mail, tries, buffer, seen, lapses>>
        /\ phase' \in {phase, "deaf"} /\ syncs' = [syncs EXCEPT ![k] = Quiet]
        /\ k # "poll" => poll' = poll
        /\ syncs[k].at # "idle"
    BY <1>5 DEF Answered, Refused, SyncFails, GivesUp, base
  <2>2. k # "poll" => syncs'["poll"] = syncs["poll"]
    BY <2>1 DEF TypeOK, Callers
  <2>3. syncs'[k].at = "idle"
    BY <2>1 DEF TypeOK, Quiet
  <2>4. CASE k # "poll"
    <3>1. syncs["poll"].at # "idle" => poll.at = "sync"
      BY DEF Heard, Handled
    <3>. QED
      BY <2>1, <2>2, <2>4, <3>1, HeardMoves DEF Joins
  <2>5. CASE k = "poll"
    <3>1. poll.at = "sync" /\ poll.batch = << >> /\ poll.acks = {}
      BY <2>1, <2>5 DEF Heard, Handled
    <3>2. poll'.at \in {"loop", "read"} /\ poll'.batch = << >> /\ poll'.acks = {}
      <4>1. poll' = [poll EXCEPT !.at = "read"] \/ poll' = Again
        BY <1>5, <2>5 DEF Answered, Refused, SyncFails, GivesUp
      <4>2. poll \in Hand
        BY DEF TypeOK
      <4>3. CASE poll' = Again
        BY <4>3 DEF Again
      <4>4. CASE poll' = [poll EXCEPT !.at = "read"]
        BY <3>1, <4>2, <4>4 DEF Hand
      <4>. QED
        BY <4>1, <4>3, <4>4
    <3>3. phase \notin Joins \cup {"failed", "stopped"}
      BY <3>1 DEF Heard, Handled, Resting
    <3>. QED
      BY <2>1, <2>3, <2>5, <3>1, <3>2, <3>3, HeardMoves DEF Joins
  <2>. QED
    BY <2>4, <2>5
<1>. QED
  BY <1>1, <1>2, <1>3, <1>4, <1>5 DEF Syncing

\* What a read takes came before nothing that the bot has not got.
LEMMA TakenInOrder ==
  ASSUME TypeOK, Heard, Calm, \A i \in Ids : mail[i] # "held", poll.batch = << >>,
         NEW j \in NextBatch, NEW i \in evs[j].after
  PROVE  Spared(i) \/ i \in Seen \cup buffer \/ i \in NextBatch
<1>1. j \in DOMAIN evs /\ j \in Ids /\ mail[j] = "unseen"
  BY ReadIsPrefix DEF Heard
<1>2. i \in Ids /\ evs[i].at = "out" /\ mail[i] \in Places
  BY <1>1, Facts
<1>3. CASE mail[i] = "unseen"
  <2>1. i \in ToSet(queue) /\ j \in ToSet(queue)
    BY <1>1, <1>2, <1>3 DEF Heard, Mailed
  <2>2. PICK m \in DOMAIN queue, n \in DOMAIN queue : queue[m] = i /\ queue[n] = j
    BY <2>1 DEF ToSet
  <2>3. m < n /\ Readable(queue[m])
    BY <1>2, <1>3, <2>2 DEF Heard, Dated, Readable
  <2>. QED
    BY <2>2, <2>3, ReadIsPrefix DEF Heard
<1>4. CASE mail[i] = "archived"
  BY <1>2, <1>4 DEF Heard, Ordered, Calm, Spared
<1>. QED
  BY <1>2, <1>3, <1>4 DEF Places, Spared

LEMMA DrainHeard ==
  ASSUME TypeOK, Heard, NEW late \in BOOLEAN, Drain(late)
  PROVE  Heard'
<1>. USE DEF Heard
<1>. DEFINE batch == NextBatch
<1>1. /\ phase \in {"registered", "draining"} /\ Replied
      /\ mail' = [i \in Ids |-> IF i \in batch THEN "archived" ELSE mail[i]]
      /\ tries' = [i \in Ids |-> IF i \in batch THEN tries[i] + 1 ELSE tries[i]]
      /\ buffer' = buffer \cup Kept(batch)
      /\ phase' = IF late \/ batch = {} THEN "drained" ELSE "draining"
      /\ lapses' = IF late THEN lapses \cup {"deadline"} ELSE lapses
      /\ UNCHANGED <<row, evs, queue, poll, seen, syncs>>
  BY DEF Drain, scoping
<1>2. /\ batch \in SUBSET Ids
      /\ \A i \in batch : mail[i] = "unseen" /\ evs[i].at = "out" /\ i \in DOMAIN evs
      /\ batch = {} => \A i \in Ids : ~Readable(i)
  BY ReadIsPrefix
<1>. HIDE DEF batch
<1>3. /\ poll.at = "off" /\ poll.batch = << >> /\ poll.acks = {} /\ ToSet(poll.batch) = {}
      /\ seen = << >> /\ Seen = {} /\ phase \in Joins /\ \A i \in Ids : mail[i] # "held"
      /\ poll = Resting
  BY <1>1 DEF Handled, Joins, Resting, Seen, ToSet
<1>4. Seen' = {} /\ Got = buffer /\ Got' = buffer'
  BY <1>1, <1>3 DEF Got, Seen
<1>5. \A i \in Ids : mail'[i] = IF i \in batch THEN "archived" ELSE mail[i]
  BY <1>1
<1>6. Mailed' /\ Dated'
  BY <1>1, <1>2, <1>5 DEF Mailed, Dated
<1>7. \A i \in buffer' : i \in Ids /\ mail'[i] = "archived" /\ ~evs[i].echo
  BY <1>1, <1>2, <1>5, Facts DEF Kept, Handled, NoEcho, Got
<1>8. Handled'
  <2>1. phase' \in {"drained", "draining"}
    BY <1>1
  <2>2. \A i \in Ids : mail'[i] # "held"
    BY <1>3, <1>5
  <2>3. DOMAIN poll.batch = {}
    BY <1>3
  <2>. QED
    BY <1>1, <1>3, <1>4, <1>7, <2>1, <2>2, <2>3 DEF Handled
<1>9. Answerable'
  BY <1>1, <1>3 DEF Answerable
<1>10. NothingLost'
  <2>1. SUFFICES ASSUME NEW i \in Ids, mail'[i] = "archived"
                 PROVE  i \in buffer' \/ evs[i].echo \/ tries'[i] >= Attempts \/ "replay" \in lapses'
    BY <1>1 DEF NothingLost
  <2>2. CASE i \in batch
    BY <1>1, <2>2 DEF Kept
  <2>3. CASE i \notin batch
    BY <1>1, <1>3, <1>5, <2>1, <2>3 DEF NothingLost
  <2>. QED
    BY <2>2, <2>3
<1>11. Once'
  <2>1. IsInjective(seen)
    BY <1>3 DEF IsInjective
  <2>. QED
    BY <1>1, <1>4, <2>1 DEF Once
<1>12. NoEcho'
  <2>1. "deadline" \notin lapses' => "deadline" \notin lapses /\ ~late
    BY <1>1
  <2>2. \A i \in DOMAIN evs : evs[i].echo => evs[i].at = "out"
    BY <1>1 DEF Replied
  <2>3. ASSUME batch = {}, NEW i \in DOMAIN evs, evs[i].echo PROVE Settled(i)'
    <3>1. i \in Ids /\ mail[i] \in Places /\ evs[i].at = "out"
      BY <2>2, <2>3, Facts
    <3>2. mail[i] # "unseen" /\ mail[i] # "held"
      BY <1>2, <1>3, <2>3, <3>1 DEF Readable
    <3>. QED
      BY <1>1, <1>5, <2>3, <3>1, <3>2 DEF Settled, Places
  <2>. QED
    BY <1>1, <1>3, <1>4, <1>7, <2>1, <2>2, <2>3 DEF NoEcho
<1>13. Ordered'
  <2>1. SUFFICES ASSUME Calm'
                 PROVE  /\ \A i \in Ids : mail'[i] = "archived" => i \in buffer' \/ evs[i].echo
                        /\ \A j \in buffer' : \A i \in evs[j].after : Spared(i)' \/ i \in buffer'
    <3>1. \A i \in Ids : mail'[i] # "held"
      BY <1>3, <1>5
    <3>2. InOrder'
      BY <1>1, <1>3 DEF InOrder
    <3>3. row'.life = "lapsed" => "outage" \in lapses'
      BY <1>1 DEF Ordered
    <3>. QED
      BY <1>1, <1>3, <1>4, <2>1, <3>1, <3>2, <3>3 DEF Ordered, Calm
  <2>2. Calm
    BY <1>1, <2>1 DEF Calm
  <2>3. \A i \in Ids : Spared(i) => Spared(i)'
    BY <1>1, <1>2, <1>5 DEF Spared
  <2>4. \A i \in batch : evs[i].echo \/ i \in buffer'
    BY <1>1 DEF Kept
  <2>5. \A i \in Ids : mail'[i] = "archived" => i \in buffer' \/ evs[i].echo
    BY <1>1, <1>3, <1>5, <2>2, <2>4 DEF Ordered, Calm
  <2>6. ASSUME NEW j \in buffer', NEW i \in evs[j].after PROVE Spared(i)' \/ i \in buffer'
    <3>1. CASE j \in buffer
      BY <1>1, <1>4, <2>2, <2>3, <2>6, <3>1, Facts DEF Ordered, Calm
    <3>2. CASE j \in batch
      <4>1. Spared(i) \/ i \in buffer \/ i \in batch
        BY <1>3, <2>2, <2>6, <3>2, TakenInOrder DEF batch
      <4>2. i \in Ids
        BY <1>2, <2>6, <3>2, Facts
      <4>3. evs'[i].echo => Spared(i)'
        BY DEF Spared
      <4>. QED
        BY <1>1, <2>3, <2>4, <4>1, <4>2, <4>3
    <3>. QED
      BY <1>1, <3>1, <3>2 DEF Kept
  <2>. QED
    BY <2>5, <2>6
<1>. QED
  BY <1>6, <1>8, <1>9, <1>10, <1>11, <1>12, <1>13


LEMMA ReplayHeard ==
  ASSUME TypeOK, Heard, Replay
  PROVE  Heard'
<1>. USE DEF Heard
<1>. DEFINE s == InIdOrder(buffer)
<1>1. /\ phase = "drained" /\ phase' = "replayed" /\ buffer' = {} /\ seen' = seen \o s
      /\ UNCHANGED <<row, evs, queue, mail, tries, poll, syncs, lapses>>
  BY DEF Replay, base, scoping
<1>2. /\ s \in Seq(Ids) /\ ToSet(s) = buffer /\ IsInjective(s)
      /\ \A m, n \in DOMAIN s : m < n => s[m] < s[n]
  BY IdOrder DEF TypeOK
<1>. HIDE DEF s
<1>3. /\ poll = Resting /\ poll.at = "off" /\ poll.batch = << >> /\ poll.acks = {}
      /\ ToSet(poll.batch) = {} /\ DOMAIN poll.batch = {}
      /\ seen = << >> /\ Seen = {} /\ \A i \in Ids : mail[i] # "held"
  BY <1>1 DEF Handled, Joins, Resting, Seen, ToSet
<1>4. seen' = s /\ Seen' = buffer /\ Got = buffer /\ Got' = buffer
  <2>1. seen' = s
    BY <1>1, <1>2, <1>3
  <2>. QED
    BY <1>1, <1>2, <1>3, <2>1 DEF Seen, Got
<1>5. Mailed' /\ Dated'
  BY <1>1 DEF Mailed, Dated
<1>6. Handled'
  BY <1>1, <1>3, <1>4 DEF Handled
<1>7. Answerable' /\ NothingLost'
  BY <1>1, <1>3, <1>4 DEF Answerable, NothingLost
<1>8. Once'
  BY <1>1, <1>2, <1>3, <1>4 DEF Once, Handled
<1>9. NoEcho'
  <2>1. \A i : Settled(i) => Settled(i)'
    BY <1>1 DEF Settled
  <2>. QED
    BY <1>1, <1>3, <1>4, <2>1 DEF NoEcho
<1>10. Ordered'
  <2>1. \A i : Spared(i) <=> Spared(i)'
    BY <1>1 DEF Spared
  <2>2. ASSUME Calm, NEW p \in DOMAIN s, NEW i \in evs[s[p]].after
        PROVE  Spared(i) \/ \E q \in 1..(p - 1) : s[q] = i
    <3>1. s[p] \in Got /\ s[p] \in DOMAIN evs /\ s[p] \in Ids
      BY <1>2, <1>4, Facts DEF ToSet
    <3>2. Spared(i) \/ i \in ToSet(s)
      BY <1>2, <1>4, <2>2, <3>1 DEF Ordered, Calm
    <3>3. i < s[p] /\ i \in Ids
      BY <2>2, <3>1, Facts
    <3>4. ASSUME NEW q \in DOMAIN s, s[q] = i PROVE q \in 1..(p - 1)
      <4>1. q \in 1..Len(s) /\ p \in 1..Len(s) /\ Len(s) \in Nat
        BY <1>2, <2>2
      <4>2. i \in Int /\ s[p] \in Int
        BY <3>1, <3>3, MostIsNat DEF Ids
      <4>3. ~(p < q) /\ p # q
        BY <1>2, <2>2, <3>3, <3>4, <4>2
      <4>. QED
        BY <4>1, <4>3
    <3>. QED
      BY <3>2, <3>4 DEF ToSet
  <2>3. InOrder'
    BY <1>1, <1>4, <2>2 DEF InOrder, Spared, Calm
  <2>. QED
    BY <1>1, <1>3, <1>4, <2>1, <2>3 DEF Ordered
<1>. QED
  BY <1>5, <1>6, <1>7, <1>8, <1>9, <1>10

LEMMA ReplayFailsHeard ==
  ASSUME TypeOK, Heard, ReplayFails
  PROVE  Heard'
<1>. USE DEF Heard
<1>. DEFINE s == InIdOrder(buffer)
<1>1. PICK n \in 0..(Cardinality(buffer) - 1) : seen' = seen \o SubSeq(s, 1, n)
  BY DEF ReplayFails
<1>2. /\ phase = "drained" /\ phase' = "failed" /\ buffer' = {}
      /\ lapses' = lapses \cup {"replay"}
      /\ UNCHANGED <<row, evs, queue, mail, tries, poll, syncs>>
  BY DEF ReplayFails, Excused, base, scoping
<1>3. /\ s \in Seq(Ids) /\ ToSet(s) = buffer /\ IsInjective(s)
      /\ n \in Nat /\ n <= Len(s)
  BY <1>1, IdOrder DEF TypeOK
<1>. HIDE DEF s
<1>4. /\ poll = Resting /\ poll.at = "off" /\ poll.batch = << >> /\ poll.acks = {}
      /\ ToSet(poll.batch) = {} /\ DOMAIN poll.batch = {}
      /\ seen = << >> /\ \A i \in Ids : mail[i] # "held"
  BY <1>2 DEF Handled, Joins, Resting, ToSet
<1>5. IsInjective(seen') /\ Seen' \subseteq buffer
  <2>1. /\ seen' = SubSeq(s, 1, n) /\ SubSeq(s, 1, n) \in Seq(Ids)
        /\ DOMAIN SubSeq(s, 1, n) = 1..n /\ DOMAIN s = 1..Len(s) /\ Len(s) \in Nat
    BY <1>1, <1>3, <1>4
  <2>2. \A m \in 1..n : SubSeq(s, 1, n)[m] = s[m] /\ m \in 1..Len(s)
    BY <1>3, <2>1
  <2>. QED
    BY <1>3, <2>1, <2>2 DEF IsInjective, ToSet, Seen
<1>6. Mailed' /\ Dated'
  BY <1>2 DEF Mailed, Dated
<1>7. Handled'
  <2>1. \A i \in Seen' : mail[i] # "none"
    BY <1>5 DEF Handled
  <2>. QED
    BY <1>2, <1>4, <2>1 DEF Handled, Joins
<1>8. Answerable' /\ NothingLost'
  BY <1>2, <1>4 DEF Answerable, NothingLost
<1>9. Once'
  BY <1>2, <1>4, <1>5 DEF Once, Handled
<1>10. NoEcho'
  BY <1>2, <1>4, <1>5 DEF NoEcho
<1>11. Ordered'
  BY <1>2 DEF Ordered, InOrder
<1>. QED
  BY <1>6, <1>7, <1>8, <1>9, <1>10, <1>11

LEMMA ReadHeard ==
  ASSUME TypeOK, Heard, Read
  PROVE  Heard'
<1>. USE DEF Heard
<1>. DEFINE batch == IF Online THEN NextBatch ELSE {}
            s == InIdOrder(batch)
<1>1. /\ poll.at = "read"
      /\ mail' = [i \in Ids |-> IF i \in batch THEN "held" ELSE mail[i]]
      /\ tries' = [i \in Ids |-> IF i \in batch THEN tries[i] + 1 ELSE tries[i]]
      /\ poll' = [at |-> IF batch = {} THEN "loop" ELSE "batch", batch |-> s, acks |-> {}]
      /\ UNCHANGED <<row, evs, queue, phase, buffer, seen, syncs, lapses>>
  BY DEF Read, scoping
<1>2. /\ batch \in SUBSET Ids
      /\ \A i \in batch : mail[i] = "unseen" /\ evs[i].at = "out" /\ i \in DOMAIN evs
      /\ \A i \in batch : i \in NextBatch
  BY ReadIsPrefix
<1>3. /\ s \in Seq(Ids) /\ ToSet(s) = batch /\ \A m, n \in DOMAIN s : m < n => s[m] < s[n]
      /\ batch = {} => s = << >>
  <2>1. /\ s \in Seq(Ids) /\ ToSet(s) = batch /\ \A m, n \in DOMAIN s : m < n => s[m] < s[n]
        /\ Len(s) = Cardinality(batch)
    BY <1>2, IdOrder
  <2>2. batch = {} => Len(s) = 0
    BY <2>1, FS_EmptySet
  <2>. HIDE DEF s, batch
  <2>. QED
    BY <2>1, <2>2
<1>4. Online => batch = NextBatch
  OBVIOUS
<1>. HIDE DEF s, batch
<1>5. /\ poll'.at \in {"loop", "batch"} /\ (batch # {} => poll'.at = "batch")
      /\ poll'.batch = s /\ poll'.acks = {}
      /\ ToSet(poll'.batch) = batch /\ DOMAIN poll'.batch = DOMAIN s
  BY <1>1, <1>3
<1>6. /\ poll.batch = << >> /\ poll.acks = {} /\ ToSet(poll.batch) = {} /\ buffer = {}
      /\ phase \notin Joins \cup {"failed", "stopped"} /\ syncs["poll"].at = "idle"
  BY <1>1 DEF Handled, Resting, ToSet
<1>7. Seen' = Seen /\ Got = Seen /\ Got' = Seen \cup batch
  BY <1>1, <1>5, <1>6 DEF Seen, Got
<1>8. \A i \in Ids : mail'[i] = IF i \in batch THEN "held" ELSE mail[i]
  BY <1>1
<1>9. Mailed' /\ Dated'
  BY <1>1, <1>2, <1>8 DEF Mailed, Dated
<1>10. Handled'
  <2>1. \A i \in batch : mail'[i] = "held"
    BY <1>2, <1>8
  <2>2. \A i \in Seen : mail'[i] # "none"
    BY <1>7, <1>8, Facts
  <2>3. poll'.at # "batch" => poll'.batch = << >>
    BY <1>3, <1>5
  <2>4. phase' \notin Joins \cup {"failed", "stopped"} /\ buffer' = {} /\ syncs'["poll"].at = "idle"
    BY <1>1, <1>6
  <2>. QED
    BY <1>3, <1>5, <1>7, <2>1, <2>2, <2>3, <2>4 DEF Handled, Joins
<1>11. Answerable'
  BY <1>5 DEF Answerable
<1>12. NothingLost'
  <2>1. ASSUME NEW i \in Ids, mail'[i] = "archived"
        PROVE  mail[i] = "archived" /\ tries'[i] = tries[i]
    BY <1>1, <2>1
  <2>. QED
    BY <1>1, <1>7, <2>1 DEF NothingLost
<1>13. Once'
  <2>1. "archive" \notin lapses => \A i \in Seen : mail[i] \in {"archived", "dropped"}
    BY <1>6 DEF Once
  <2>2. "archive" \notin lapses => batch \cap Seen = {}
    BY <1>2, <2>1
  <2>3. "archive" \notin lapses => \A i \in Seen : mail'[i] \in {"archived", "dropped"}
    BY <1>7, <1>8, <2>1, <2>2, Facts
  <2>. QED
    BY <1>1, <1>5, <1>6, <1>7, <2>2, <2>3 DEF Once
<1>14. NoEcho'
  <2>1. SUFFICES ASSUME "deadline" \notin lapses
                 PROVE  /\ \A i \in DOMAIN evs : evs[i].echo => Settled(i)'
                        /\ \A i \in Seen \cup batch : ~evs[i].echo
    BY <1>1, <1>5, <1>6, <1>7 DEF NoEcho, Joins
  <2>2. \A i \in DOMAIN evs : evs[i].echo => Settled(i)
    BY <1>1, <2>1 DEF NoEcho
  <2>3. \A i \in batch : ~evs[i].echo
    BY <1>2, <2>2 DEF Settled
  <2>4. \A i \in DOMAIN evs : Settled(i) => Settled(i)'
    BY <1>1, <1>2, <1>8, Facts DEF Settled
  <2>. QED
    BY <2>1, <2>2, <2>3, <2>4 DEF NoEcho
<1>15. Ordered'
  <2>1. SUFFICES ASSUME Calm
                 PROVE  /\ \A i \in Ids : mail'[i] = "held" => i \in batch
                        /\ \A i \in Ids : mail'[i] = "archived" => i \in Seen \cup buffer \/ evs[i].echo
                        /\ \A i \in batch : mail'[i] = "held"
                        /\ \A j \in Got' : \A i \in evs[j].after : Spared(i)' \/ i \in Got'
                        /\ InOrder'
    <3>1. (row'.life = "lapsed" => "outage" \in lapses') /\ (~Calm => InOrder')
      BY <1>1 DEF Ordered, InOrder, Calm
    <3>. QED
      BY <1>1, <1>5, <1>7, <2>1, <3>1 DEF Ordered, Calm
  <2>2. \A i \in Ids : mail[i] # "held"
    BY <1>6, <2>1 DEF Ordered, Calm
  <2>3. \A i \in Ids : Spared(i) => Spared(i)'
    BY <1>1, <1>2, <1>8 DEF Spared
  <2>4. ASSUME NEW j \in Got', NEW i \in evs[j].after PROVE Spared(i)' \/ i \in Got'
    <3>1. CASE j \in batch
      <4>1. Spared(i) \/ i \in Seen \/ i \in NextBatch
        BY <1>2, <1>6, <2>1, <2>2, <2>4, <3>1, TakenInOrder
      <4>2. i \in Ids
        BY <1>2, <2>4, <3>1, Facts
      <4>3. NextBatch = batch
        BY <3>1, <1>4 DEF batch
      <4>. QED
        BY <1>7, <2>3, <4>1, <4>2, <4>3
    <3>2. CASE j \in Seen
      BY <1>7, <2>1, <2>3, <2>4, <3>2, Facts DEF Ordered, Calm
    <3>. QED
      BY <1>7, <2>4, <3>1, <3>2
  <2>5. InOrder'
    <3>1. SUFFICES ASSUME NEW p \in DOMAIN seen, NEW i \in evs[seen[p]].after
                   PROVE  Spared(i)' \/ \E q \in 1..(p - 1) : seen[q] = i
      BY <1>1 DEF InOrder, Spared
    <3>2. seen[p] \in Got
      BY <1>7 DEF Seen, ToSet
    <3>3. Spared(i) \/ \E q \in 1..(p - 1) : seen[q] = i
      BY <2>1, <3>1 DEF Ordered, InOrder, Spared, Calm
    <3>. QED
      BY <2>3, <3>2, <3>3, Facts
  <2>6. \A i \in Ids : mail'[i] = "held" => i \in batch
    BY <1>8, <2>2
  <2>7. \A i \in Ids : mail'[i] = "archived" => i \in Seen \cup buffer \/ evs[i].echo
    BY <1>8, <2>1 DEF Ordered, Calm
  <2>8. \A i \in batch : mail'[i] = "held"
    BY <1>2, <1>8
  <2>. QED
    BY <2>4, <2>5, <2>6, <2>7, <2>8
<1>. QED
  BY <1>9, <1>10, <1>11, <1>12, <1>13, <1>14, <1>15


LEMMA DispatchHeard ==
  ASSUME TypeOK, Heard, Dispatch
  PROVE  Heard'
<1>. USE DEF Heard
<1>. DEFINE h == Head(poll.batch)
            rest == Tail(poll.batch)
<1>1. /\ poll.at = "batch" /\ poll.batch # << >>
      /\ seen' = Append(seen, h) /\ poll'.at = "batch"
      /\ poll'.batch = rest /\ poll'.acks = poll.acks \cup {h}
      /\ UNCHANGED <<row, evs, queue, mail, tries, phase, buffer, syncs, lapses>>
  BY DEF Dispatch, base, scoping, TypeOK, Hand
<1>2. /\ h \in Ids /\ rest \in Seq(Ids) /\ ToSet(poll.batch) = {h} \cup ToSet(rest)
      /\ h = poll.batch[1] /\ 1 \in DOMAIN poll.batch
      /\ \A n \in DOMAIN rest : /\ n + 1 \in DOMAIN poll.batch /\ rest[n] = poll.batch[n + 1]
                                /\ n \in Nat /\ 1 < n + 1
  BY <1>1, HeadItems DEF TypeOK, Hand
<1>. HIDE DEF h, rest
<1>3. /\ Seen' = Seen \cup {h} /\ (IsInjective(seen) /\ h \notin Seen => IsInjective(seen'))
      /\ DOMAIN seen' = DOMAIN seen \cup {Len(seen) + 1} /\ seen'[Len(seen) + 1] = h
      /\ \A p \in DOMAIN seen : seen'[p] = seen[p] /\ p \in 1..Len(seen)
      /\ DOMAIN seen = 1..Len(seen) /\ Len(seen) \in Nat
  BY <1>1, <1>2, AppendItems DEF TypeOK, Seen
<1>4. buffer = {} /\ phase \notin Joins \cup {"failed", "stopped"} /\ syncs["poll"].at = "idle"
  BY <1>1 DEF Handled, Resting
<1>5. h \in Got /\ Got = Seen \cup ToSet(poll.batch) /\ Got' = Got
  BY <1>1, <1>2, <1>3, <1>4 DEF Got
<1>6. /\ \A m, n \in DOMAIN rest : m < n => rest[m] < rest[n]
      /\ \A i \in ToSet(rest) : h < i
  <2>1. \A m, n \in DOMAIN poll.batch : m < n => poll.batch[m] < poll.batch[n]
    BY DEF Handled
  <2>2. ASSUME NEW m \in DOMAIN rest, NEW n \in DOMAIN rest, m < n PROVE rest[m] < rest[n]
    <3>1. m + 1 < n + 1
      BY <1>2, <2>2
    <3>. QED
      BY <1>2, <2>1, <3>1
  <2>3. \A n \in DOMAIN rest : h < rest[n]
    BY <1>2, <2>1
  <2>. QED
    BY <2>2, <2>3 DEF ToSet
<1>7. \A i \in ToSet(rest) : i # h
  BY <1>2, <1>6, MostIsNat DEF Ids
<1>8. Mailed' /\ Dated'
  BY <1>1 DEF Mailed, Dated
<1>9. Handled'
  <2>1. ToSet(rest) \cap (poll.acks \cup {h}) = {}
    BY <1>2, <1>7 DEF Handled
  <2>2. \A i \in ToSet(rest) \cup poll.acks \cup {h} : mail[i] \in {"held", "dropped"}
    BY <1>2 DEF Handled
  <2>3. \A i \in Seen' : mail[i] # "none"
    BY <1>3, <1>5, Facts DEF Handled
  <2>. QED
    BY <1>1, <1>4, <1>6, <2>1, <2>2, <2>3 DEF Handled, Joins
<1>10. Answerable' /\ NothingLost'
  BY <1>1, <1>3 DEF Answerable, NothingLost
<1>11. Once'
  <2>1. SUFFICES ASSUME "archive" \notin lapses
                 PROVE  /\ IsInjective(seen')
                        /\ \A i \in Seen' : i \in poll'.acks \/ mail[i] \in {"archived", "dropped"}
                        /\ \A i \in ToSet(rest) : i \notin Seen'
    BY <1>1, <1>4 DEF Once
  <2>2. /\ IsInjective(seen) /\ \A i \in ToSet(poll.batch) : i \notin Seen
        /\ \A i \in Seen : i \in poll.acks \/ mail[i] \in {"archived", "dropped"}
    BY <2>1 DEF Once
  <2>. QED
    BY <1>1, <1>2, <1>3, <1>7, <2>2
<1>12. NoEcho'
  <2>1. \A i : Settled(i) => Settled(i)'
    BY <1>1 DEF Settled
  <2>. QED
    BY <1>1, <1>2, <1>3, <1>4, <2>1 DEF NoEcho
<1>13. Ordered'
  <2>1. \A i : Spared(i) <=> Spared(i)'
    BY <1>1 DEF Spared
  <2>2. ASSUME Calm, NEW p \in DOMAIN seen', NEW i \in evs[seen'[p]].after
        PROVE  Spared(i) \/ \E q \in 1..(p - 1) : seen'[q] = i
    <3>1. CASE p \in DOMAIN seen
      <4>1. Spared(i) \/ \E q \in 1..(p - 1) : seen[q] = i
        BY <1>3, <2>2, <3>1 DEF Ordered, InOrder, Spared, Calm
      <4>2. \A q \in 1..(p - 1) : q \in DOMAIN seen
        BY <1>3, <3>1
      <4>. QED
        BY <1>3, <4>1, <4>2
    <3>2. CASE p = Len(seen) + 1
      <4>1. i \in evs[h].after /\ h \in DOMAIN evs
        BY <1>3, <1>5, <2>2, <3>2, Facts
      <4>2. i < h /\ i \in Ids
        BY <4>1, Facts
      <4>3. Spared(i) \/ i \in Got
        BY <1>5, <2>2, <4>1 DEF Ordered, Calm
      <4>4. i \notin ToSet(poll.batch)
        BY <1>2, <1>6, <4>2, MostIsNat DEF Ids
      <4>5. Spared(i) \/ i \in Seen
        BY <1>5, <4>3, <4>4
      <4>6. p - 1 = Len(seen)
        BY <1>3, <3>2
      <4>7. i \in Seen => \E q \in 1..Len(seen) : seen'[q] = i
        BY <1>3 DEF Seen, ToSet
      <4>. QED
        BY <4>5, <4>6, <4>7
    <3>. QED
      BY <1>3, <2>2, <3>1, <3>2
  <2>3. InOrder'
    <3>1. SUFFICES ASSUME Calm, NEW p \in DOMAIN seen', NEW i \in evs[seen'[p]].after
                   PROVE  Spared(i) \/ \E q \in 1..(p - 1) : seen'[q] = i
      BY <1>1 DEF InOrder, Spared, Calm
    <3>. QED
      BY <2>2, <3>1
  <2>4. ToSet(rest) \cup poll.acks \cup {h} = ToSet(poll.batch) \cup poll.acks
    BY <1>2
  <2>. QED
    BY <1>1, <1>3, <1>4, <1>5, <2>1, <2>3, <2>4 DEF Ordered
<1>. QED
  BY <1>8, <1>9, <1>10, <1>11, <1>12, <1>13

LEMMA DispatchFailsHeard ==
  ASSUME TypeOK, Heard, DispatchFails
  PROVE  Heard'
<1>. USE DEF Heard
<1>. DEFINE h == Head(poll.batch)
            rest == Tail(poll.batch)
<1>1. /\ poll.at = "batch" /\ poll.batch # << >> /\ poll'.at = "batch"
      /\ poll'.batch = rest /\ poll'.acks = IF GivenUp(h) THEN poll.acks \cup {h} ELSE poll.acks
      /\ lapses' = lapses \cup {"dispatch"}
      /\ UNCHANGED <<row, evs, queue, mail, tries, phase, buffer, seen, syncs>>
  BY DEF DispatchFails, Excused, base, scoping, TypeOK, Hand
<1>2. /\ h \in Ids /\ rest \in Seq(Ids) /\ ToSet(poll.batch) = {h} \cup ToSet(rest)
      /\ h = poll.batch[1] /\ 1 \in DOMAIN poll.batch
      /\ \A n \in DOMAIN rest : /\ n + 1 \in DOMAIN poll.batch /\ rest[n] = poll.batch[n + 1]
                                /\ n \in Nat /\ 1 < n + 1
  BY <1>1, HeadItems DEF TypeOK, Hand
<1>. HIDE DEF h, rest
<1>3. buffer = {} /\ phase \notin Joins \cup {"failed", "stopped"} /\ syncs["poll"].at = "idle"
  BY <1>1 DEF Handled, Resting
<1>4. /\ \A m, n \in DOMAIN rest : m < n => rest[m] < rest[n]
      /\ \A i \in ToSet(rest) : h < i
  <2>1. \A m, n \in DOMAIN poll.batch : m < n => poll.batch[m] < poll.batch[n]
    BY DEF Handled
  <2>2. ASSUME NEW m \in DOMAIN rest, NEW n \in DOMAIN rest, m < n PROVE rest[m] < rest[n]
    <3>1. m + 1 < n + 1
      BY <1>2, <2>2
    <3>. QED
      BY <1>2, <2>1, <3>1
  <2>3. \A n \in DOMAIN rest : h < rest[n]
    BY <1>2, <2>1
  <2>. QED
    BY <2>2, <2>3 DEF ToSet
<1>5. \A i \in ToSet(rest) : i # h
  BY <1>2, <1>4, MostIsNat DEF Ids
<1>6. Mailed' /\ Dated' /\ NothingLost'
  BY <1>1 DEF Mailed, Dated, NothingLost, Seen
<1>7. Seen' = Seen
  BY <1>1 DEF Seen
<1>8. Handled'
  <2>1. ToSet(rest) \cap (poll.acks \cup {h}) = {}
    BY <1>2, <1>5 DEF Handled
  <2>2. \A i \in ToSet(rest) \cup poll.acks \cup {h} : mail[i] \in {"held", "dropped"}
    BY <1>2 DEF Handled
  <2>3. poll'.acks \subseteq poll.acks \cup {h}
    BY <1>1
  <2>. QED
    BY <1>1, <1>3, <1>4, <1>7, <2>1, <2>2, <2>3 DEF Handled, Joins
<1>9. Answerable'
  BY <1>1, <1>7 DEF Answerable, GivenUp
<1>10. Once'
  BY <1>1, <1>2, <1>3, <1>7 DEF Once
<1>11. NoEcho'
  <2>1. \A i : Settled(i) => Settled(i)'
    BY <1>1 DEF Settled
  <2>. QED
    BY <1>1, <1>2, <1>3, <1>7, <2>1 DEF NoEcho
<1>12. Ordered'
  BY <1>1 DEF Ordered, InOrder
<1>. QED
  BY <1>6, <1>8, <1>9, <1>10, <1>11, <1>12

LEMMA ArchiveHeard ==
  ASSUME TypeOK, Heard, Archive
  PROVE  Heard'
<1>. USE DEF Heard
<1>1. /\ poll.at = "batch" /\ poll.batch = << >>
      /\ poll'.at = "loop" /\ poll'.batch = << >> /\ poll'.acks = {}
      /\ \A i \in Ids : mail'[i] = IF i \in poll.acks THEN "archived" ELSE mail[i]
      /\ UNCHANGED <<row, evs, queue, tries, phase, buffer, seen, syncs, lapses>>
  BY DEF Archive, BatchDone, Again, scoping
<1>2. ToSet(poll.batch) = {} /\ ToSet(poll'.batch) = {} /\ DOMAIN poll'.batch = {}
  BY <1>1 DEF ToSet
<1>3. buffer = {} /\ phase \notin Joins \cup {"failed", "stopped"} /\ syncs["poll"].at = "idle"
  BY <1>1 DEF Handled, Resting
<1>4. Seen' = Seen /\ Got = Seen /\ Got' = Seen
  BY <1>1, <1>2, <1>3 DEF Seen, Got
<1>5. \A i \in poll.acks : mail[i] \in {"held", "dropped"} /\ i \in Ids
  BY Facts DEF Handled
<1>6. Mailed' /\ Dated'
  BY <1>1, <1>5 DEF Mailed, Dated
<1>7. Handled'
  <2>1. \A i \in Seen : mail'[i] # "none"
    BY <1>1, <1>4, Facts
  <2>. QED
    BY <1>1, <1>2, <1>3, <1>4, <2>1 DEF Handled, Joins
<1>8. Answerable'
  BY <1>1 DEF Answerable
<1>9. NothingLost'
  BY <1>1, <1>4 DEF Answerable, NothingLost
<1>10. Once'
  BY <1>1, <1>2, <1>3, <1>4, Facts DEF Once
<1>11. NoEcho'
  <2>1. \A i \in DOMAIN evs : Settled(i) => Settled(i)'
    BY <1>1, Facts DEF Settled
  <2>. QED
    BY <1>1, <1>2, <1>3, <1>4, <2>1 DEF NoEcho, Joins
<1>12. Ordered'
  <2>1. SUFFICES ASSUME Calm
                 PROVE  /\ \A i \in Ids : mail'[i] # "held"
                        /\ \A i \in Ids : mail'[i] = "archived" => i \in Seen \/ evs[i].echo
                        /\ \A j \in Seen : \A i \in evs[j].after : Spared(i)' \/ i \in Seen
                        /\ InOrder'
    <3>1. (row'.life = "lapsed" => "outage" \in lapses') /\ (~Calm => InOrder')
      BY <1>1 DEF Ordered, InOrder, Calm
    <3>. QED
      BY <1>1, <1>2, <1>3, <1>4, <2>1, <3>1 DEF Ordered, Calm
  <2>2. /\ \A i \in poll.acks : mail[i] = "held" /\ i \in Seen
        /\ \A i \in Ids : mail[i] = "held" => i \in poll.acks
    BY <1>2, <2>1 DEF Ordered, Calm
  <2>3. \A i \in Ids : Spared(i) => Spared(i)'
    BY <1>1, <2>2 DEF Spared
  <2>4. \A j \in Seen : \A i \in evs[j].after : Spared(i)' \/ i \in Seen
    BY <1>4, <2>1, <2>3, Facts DEF Ordered, Calm
  <2>5. InOrder'
    <3>1. SUFFICES ASSUME NEW p \in DOMAIN seen, NEW i \in evs[seen[p]].after
                   PROVE  Spared(i)' \/ \E q \in 1..(p - 1) : seen[q] = i
      BY <1>1 DEF InOrder, Spared
    <3>2. seen[p] \in Got
      BY <1>4 DEF Seen, ToSet
    <3>3. Spared(i) \/ \E q \in 1..(p - 1) : seen[q] = i
      BY <2>1, <3>1 DEF Ordered, InOrder, Spared, Calm
    <3>. QED
      BY <2>3, <3>2, <3>3, Facts
  <2>6. \A i \in Ids : mail'[i] = "archived" => i \in Seen \/ evs[i].echo
    BY <1>1, <1>3, <2>1, <2>2 DEF Ordered, Calm
  <2>7. \A i \in Ids : mail'[i] # "held"
    BY <1>1, <2>2
  <2>. QED
    BY <2>4, <2>5, <2>6, <2>7
<1>. QED
  BY <1>6, <1>7, <1>8, <1>9, <1>10, <1>11, <1>12

LEMMA ArchiveFailsHeard ==
  ASSUME TypeOK, Heard, ArchiveFails
  PROVE  Heard'
<1>. USE DEF Heard
<1>1. /\ poll.at = "batch" /\ poll.batch = << >>
      /\ poll'.at = "loop" /\ poll'.batch = << >> /\ poll'.acks = {}
      /\ lapses' = lapses \cup {"archive"}
      /\ UNCHANGED <<row, evs, queue, mail, tries, phase, buffer, seen, syncs>>
  BY DEF ArchiveFails, BatchDone, Again, Excused, base, scoping
<1>2. ToSet(poll'.batch) = {} /\ DOMAIN poll'.batch = {} /\ Seen' = Seen
  BY <1>1 DEF ToSet, Seen
<1>3. buffer = {} /\ phase \notin Joins \cup {"failed", "stopped"} /\ syncs["poll"].at = "idle"
  BY <1>1 DEF Handled, Resting
<1>4. Mailed' /\ Dated' /\ Answerable' /\ NothingLost' /\ Once'
  BY <1>1, <1>2 DEF Mailed, Dated, Answerable, NothingLost, Once
<1>5. Handled'
  BY <1>1, <1>2, <1>3 DEF Handled, Joins
<1>6. NoEcho'
  <2>1. \A i : Settled(i) => Settled(i)'
    BY <1>1 DEF Settled
  <2>. QED
    BY <1>1, <1>2, <1>3, <2>1 DEF NoEcho, Joins
<1>7. Ordered'
  BY <1>1 DEF Ordered, InOrder
<1>. QED
  BY <1>4, <1>5, <1>6, <1>7

LEMMA HeardHolds ==
  ASSUME TypeOK, Heard, [Next]_vars
  PROVE  Heard'
<1>1. CASE UNCHANGED vars
  <2>1. UNCHANGED <<row, evs, queue, mail, tries, phase, poll, buffer, seen, syncs, lapses>>
    BY <1>1 DEF vars, base, reader, scoping
  <2>2. syncs["poll"].at # "idle" => poll.at = "sync"
    BY DEF Heard, Handled
  <2>. QED
    BY <2>1, <2>2, HeardMoves
<1>2. CASE Cleanup
  <2>1. /\ row.life = "lapsed" /\ mail' = Dropped
        /\ UNCHANGED <<evs, queue, tries, phase, poll, buffer, seen, syncs, lapses>>
    BY <1>2 DEF Cleanup, reader, scoping
  <2>2. row'.life # "lapsed"
    BY <1>2 DEF Cleanup, TypeOK, Row
  <2>. QED
    BY <2>1, <2>2, HeardDrops
<1>3. CASE Stop
  <2>1. /\ mail' = Dropped /\ phase' = "stopped" /\ poll' = Resting
        /\ UNCHANGED <<evs, queue, tries, buffer, seen, lapses>>
    BY <1>3 DEF Stop
  <2>2. row'.life # "lapsed" /\ syncs'["poll"].at = "idle"
    BY <1>3 DEF Stop, TypeOK, Row, Callers, Quiet
  <2>. QED
    BY <2>1, <2>2, HeardDrops
<1>. QED
  BY <1>1, <1>2, <1>3, EventsHeard, LapseHeard, ReappearHeard, MovesHeard, DrainHeard, ReplayHeard,
     ReplayFailsHeard, ReadHeard, DispatchHeard, DispatchFailsHeard, ArchiveHeard, ArchiveFailsHeard
  DEF Next, Joining, Polling

-----------------------------------------------------------------------------
Invariant == TypeOK /\ Heard /\ Scoped

THEOREM Invariance == Spec => []Invariant
<1>1. Init => Invariant
  BY Begins DEF Invariant
<1>2. Invariant /\ [Next]_vars => Invariant'
  BY Types, HeardHolds, ScopeHolds DEF Invariant, Heard
<1>. QED
  BY <1>1, <1>2, PTL DEF Spec

\* A copy leaves the queue for the archive only when its event was heard, is
\* kept to be, is an echo or was given up (pubsub.py, the drain and the poll).
THEOREM NothingIsLost == Spec => []NothingLost
<1>1. Invariant => NothingLost
  BY DEF Invariant, Heard
<1>. QED
  BY <1>1, Invariance, PTL

\* The bot hears an event twice only when an archive has failed, and an echo
\* of its bootstrap calls only when the drain was cut short.
THEOREM HeardIsOnce == Spec => []HeardOnce
<1>1. Invariant => HeardOnce
  BY DEF Invariant, Heard, HeardOnce, Mailed, Once, NoEcho
<1>. QED
  BY <1>1, Invariance, PTL

\* What had committed before an event is heard before it, as long as nothing
\* fails, from the drain through the replay to the poll loop.
THEOREM OrderIsKept == Spec => []InOrder
<1>1. Invariant => InOrder
  BY DEF Invariant, Heard, Ordered, InOrder
<1>. QED
  BY <1>1, Invariance, PTL

\* The row listens to a ship when its task is announced, and to what was set
\* last when nothing is left to synchronize (_update_session_scope).
THEOREM ScopesDoAgree == Spec => []ScopeAgrees
<1>1. Invariant => ScopeAgrees
  BY DEF Invariant, Scoped, ScopeAgrees
<1>. QED
  BY <1>1, Invariance, PTL


=============================================================================
