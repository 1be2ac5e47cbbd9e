------------------------------ MODULE MCQuests ------------------------------
(***************************************************************************)
(* A small quest for TLC, after the first steps of the tutorial: travel    *)
(* anywhere, then reach the mega-port, here twice.                         *)
(***************************************************************************)
EXTENDS Quests

CONSTANTS t1, t2, moved, docked

Sym == Permutations(Txns)
Moves == <<{moved, docked}, {moved, docked}>>
Filters == <<{moved, docked}, {docked}>>
Targets == <<1, 2>>
=============================================================================
