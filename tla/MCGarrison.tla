----------------------------- MODULE MCGarrison -----------------------------
(***************************************************************************)
(* A small instance of the garrisons for TLC: two ships of a corporation   *)
(* and a stranger, in two sectors.                                         *)
(***************************************************************************)
EXTENDS GarrisonLedger, TLC

CONSTANTS a, b, c, x1, x2, j1, j2, corp

MCCorp == [s \in Ships |-> IF s = c THEN NoCorp ELSE corp]

\* A toll garrison of one fighter with a balance, and room for two more.
MCStanding ==
  [x \in Sectors |->
     IF x = x1 THEN {[owner |-> a, fighters |-> 1, mode |-> "toll", toll |-> 1]} ELSE {}]
MCBerth == [s \in Ships |-> IF s = a THEN x1 ELSE x2]

Sym == Permutations(Jobs)
=============================================================================
