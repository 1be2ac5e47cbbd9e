---------------------------- MODULE MCHyperspace ----------------------------
(***************************************************************************)
(* A small instance of the jumps for TLC: a depot with two sectors next to *)
(* it that are not next to each other.                                     *)
(***************************************************************************)
EXTENDS Hyperspace

CONSTANTS a, b, c, s1, s2

MCWarps == [x \in Sectors |-> IF x = a THEN {b, c} ELSE {a}]
MCBerth == [s \in Ships |-> a]
=============================================================================
