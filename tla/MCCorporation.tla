--------------------------- MODULE MCCorporation ---------------------------
(***************************************************************************)
(* A small instance of the corporations for TLC: every roll of the players *)
(* and every fleet under the cap is where the calls may begin.             *)
(***************************************************************************)
EXTENDS Corporation, TLC

Sym == Permutations(Players) \cup Permutations(Corps) \cup Permutations(Hulls)
         \cup Permutations(Jobs)
=============================================================================
