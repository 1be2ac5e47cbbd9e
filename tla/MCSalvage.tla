----------------------------- MODULE MCSalvage -----------------------------
(***************************************************************************)
(* Small instances of a sector's salvage for TLC.                          *)
(***************************************************************************)
EXTENDS SalvageField, TLC

CONSTANTS p1, p2, f1, f2, c1, c2, c3

Sym == Permutations(Pilots) \cup Permutations(Fights) \cup Permutations(Ids)
=============================================================================
