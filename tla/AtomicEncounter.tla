--------------------------- MODULE AtomicEncounter ---------------------------
(***************************************************************************)
(* What the combat column promises: a fight seen as one object, on which   *)
(* starting, joining, choosing an action and resolving a round each happen *)
(* at one instant.  A round is resolved from the actions chosen for it,    *)
(* and only when all have chosen or its time is up, and it is resolved     *)
(* once unless it was cut short (Tear).                                    *)
(***************************************************************************)
EXTENDS CombatRules

CONSTANT Outcomes   \* whom the luck of a round may favour

VARIABLES enc, due

avars == <<enc, due>>

Init == enc = NoEncounter /\ due = FALSE

\* With any ships and garrison; auto fills the toll registry at once.
Start ==
  /\ enc.ended
  /\ \E crew \in [Players \cup {Garrison} -> {"out", "live", "down"}],
        auto \in BOOLEAN, luck \in Outcomes : enc' = Fresh(crew, auto, luck)
  /\ due' = FALSE

Enrol(p) ==
  LET old == enc IN
  /\ ~old.ended /\ old.seat[p] = "out"
  /\ \E seat \in {"live", "down"} : enc' = Enrolled(old, p, seat)
  /\ UNCHANGED due

Choose(p, a) ==
  LET old == enc IN
  /\ MaySubmit(old, p) /\ MayChoose(old, p, a)
  /\ enc' = Submitted(old, p, a)
  /\ UNCHANGED due

Lapse == ~enc.ended /\ due' = TRUE /\ UNCHANGED enc

\* The luck of the next round is drawn afresh.
Resolve ==
  LET old == enc IN
  /\ ~old.ended
  /\ RoundReady(old) \/ due
  /\ \E luck \in Outcomes : enc' = Resolved(old, luck)
  /\ due' = FALSE

\* A resolution is cut short: what it has ejected stays ejected, the round is
\* still to be resolved.
Tear ==
  LET old == enc IN
  /\ ~old.ended /\ ~Over(old)
  /\ RoundReady(old) \/ due
  /\ \E w \in SUBSET Wrecks(old) : enc' = Settled(old, w)
  /\ UNCHANGED due

Next ==
  \/ Start
  \/ \E p \in Players : Enrol(p) \/ \E a \in Acts : Choose(p, a)
  \/ Lapse
  \/ Resolve
  \/ Tear

Spec == Init /\ [][Next]_avars

=============================================================================
