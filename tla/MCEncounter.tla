----------------------------- MODULE MCEncounter -----------------------------
(***************************************************************************)
(* Small instances of the combat column for TLC.                           *)
(***************************************************************************)
EXTENDS EncounterRefinement, TLC

CONSTANTS p1, p2, p3, t1, t2

Sym == Permutations(Players) \cup Permutations(Ticks)

\* At most one side comes through a shoot-out.
FewOutcomes == {S \in Lucks : Cardinality(S) <= 1}

\* A shoot-out has one victim, or no survivor.
PairOutcomes == {S \in Lucks : Cardinality(S) \in {0, Cardinality(Players)}}

\* A toll garrison, every ship with fighters, and one in the sector at the start.
TollInit == Init /\ armed = Players \cup {Garrison} /\ Cardinality(present) = 1

TollSpec == TollInit /\ [][Next]_vars

TollFairSpec == TollSpec /\ Fairness

\* One character in the sector at the start, and somebody to fight.
LoneInit == Init /\ armed \cap Players # {} /\ Cardinality(present) = 1

LoneSpec == LoneInit /\ [][Next]_vars

=============================================================================
