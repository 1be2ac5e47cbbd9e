----------------------------- MODULE MCAccounts -----------------------------
(***************************************************************************)
(* Small instances of the purses and the port for TLC.                     *)
(***************************************************************************)
EXTENDS ShipAccounts, TLC

CONSTANTS p1, p2, f1, t1, t2, j1, j2, qf, ro

Sym == Permutations(Trades) \cup Permutations(Jobs)

\* What calculatePriceSellToPlayer and calculatePriceBuyFromPlayer charge for
\* quantum foam and retro organics at a stock of 0 to 3 out of 3.
Prices ==
  (qf :> [n \in 0..3 |-> <<28, 26, 24, 19>>[n + 1]])
    @@ (ro :> [n \in 0..3 |-> <<13, 12, 11, 9>>[n + 1]])

HalfFull == (qf :> 2) @@ (ro :> 1)

Laden(credits) == [credits |-> credits, cargo |-> (qf :> 0) @@ (ro :> 1),
                   stores |-> 1, owned |-> TRUE]
Sixty == Laden(60)

BuyerOfOne == f1 :> p1
NoBuyer == [f \in {} |-> p1]
=============================================================================
