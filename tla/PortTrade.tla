------------------------------ MODULE PortTrade ------------------------------
(***************************************************************************)
(* Ships trading with the port of one sector (functions/trade/index.ts).   *)
(*                                                                         *)
(* The port's row carries a version: a trade reads the row, computes its   *)
(* outcome and writes the row back on condition that the version has not   *)
(* moved, together with the ship's row, in one transaction.  On a version  *)
(* mismatch it reads the port again and computes again.  The ship's row is *)
(* read once, before the port, and written back without any condition on   *)
(* its contents.                                                           *)
(*                                                                         *)
(* A good is either sold or bought by the port (port_code), so the good    *)
(* decides the direction of the trade.                                     *)
(***************************************************************************)
EXTENDS Integers, FiniteSets, Functions

CONSTANTS
  Ships,          \* ships docked in the sector
  Trades,         \* invocations of the trade function that may overlap
  Goods,          \* commodities
  Sold,           \* those this port sells; it buys the others
  MaxStock,       \* the port's capacity, for every good
  Price,          \* Price[g][n]: price of a unit of g at a stock of n
  Regrowth,       \* what one run of regenerate_ports adds or removes
  Holds,          \* cargo holds of a ship
  Lots,           \* quantities asked for
  MaxAttempts,    \* MAX_PORT_ATTEMPTS
  OpeningStock,   \* the stock regeneration started from, and a reset restores
  OpeningRow,     \* a ship's row at the start
  MaxRequests,    \* bound of the model: requests ever opened
  MaxRegrowths    \* bound of the model: regenerations and resets

ASSUME GoodsAssumption ==
  IsFiniteSet(Goods) /\ Goods # {} /\ Sold \subseteq Goods
ASSUME StockAssumption ==
  /\ MaxStock \in Nat /\ Regrowth \in Nat
  /\ OpeningStock \in [Goods -> 0..MaxStock]
  /\ Price \in [Goods -> [0..MaxStock -> Nat]]
ASSUME LotsAssumption == Lots \subseteq Nat \ {0}
ASSUME ShipsAssumption ==
  /\ Ships # {} /\ IsFiniteSet(Ships)
  /\ OpeningRow \in [credits : Nat, cargo : [Goods -> Nat], stores : Nat,
                     owned : {TRUE}]

VARIABLES
  port,      \* [stock, version]: the row of the port
  ships,     \* [credits, cargo, stores, owned]: the rows of the ships
  trades,    \* what each invocation of the trade function has in memory
  taken,     \* history: net units of each good that trades took away
  grown,     \* history: net units of each good that the port grew by
  paid,      \* history: net credits the ships have paid to the game
  opened,    \* bound: requests opened so far
  regrowths  \* bound: regenerations and resets so far

tradeVars == <<port, ships, trades, taken, grown, paid, opened, regrowths>>

OpeningPort == [stock |-> OpeningStock, version |-> 0]
AtRest == [step |-> "idle",
           ship |-> CHOOSE s \in Ships : TRUE,
           good |-> CHOOSE g \in Goods : TRUE,
           units |-> 0, tries |-> 0,
           row |-> OpeningRow, port |-> OpeningPort]

-----------------------------------------------------------------------------
(* The outcome of a trade, from the rows it has in memory. *)

CargoUsed(row) == SumFunctionOnSet(row.cargo, Goods)
Onto(x) == IF x.good \in Sold THEN x.units ELSE -x.units
Charge(x) == Price[x.good][x.port.stock[x.good]] * Onto(x)

Loaded(x) == [x.row.cargo EXCEPT ![x.good] = @ + Onto(x)]
Stocked(x) == [x.port.stock EXCEPT ![x.good] = @ - Onto(x)]

\* validateBuyTransaction and validateSellTransaction.
Acceptable(x) ==
  \/ /\ x.good \in Sold
     /\ x.port.stock[x.good] >= x.units
     /\ Holds - CargoUsed(x.row) >= x.units
     /\ x.row.credits >= Charge(x)
  \/ /\ x.good \notin Sold
     /\ x.row.cargo[x.good] >= x.units
     /\ MaxStock - x.port.stock[x.good] >= x.units

-----------------------------------------------------------------------------
TradeInit ==
  /\ port = OpeningPort
  /\ ships = [s \in Ships |-> OpeningRow]
  /\ trades = [t \in Trades |-> AtRest]
  /\ taken = [g \in Goods |-> 0]
  /\ grown = [g \in Goods |-> 0]
  /\ paid = 0 /\ opened = 0 /\ regrowths = 0

\* The handler starts by reading the ship it trades for.
OpenTrade(t, s, g, n) ==
  /\ trades[t].step = "idle"
  /\ opened < MaxRequests
  /\ ships[s].owned
  /\ trades' = [trades EXCEPT ![t] =
       [AtRest EXCEPT !.step = "port", !.ship = s, !.good = g,
                      !.units = n, !.row = ships[s]]]
  /\ opened' = opened + 1
  /\ UNCHANGED <<port, ships, taken, grown, paid, regrowths>>

\* Mutant: a retry keeps the stock it read before.
ReadPort_KeepsStock(t) ==
  /\ trades[t].step = "port"
  /\ trades' = [trades EXCEPT ![t].step = "ready",
       ![t].port = IF trades[t].tries = 0 THEN port
                   ELSE [port EXCEPT !.stock = trades[t].port.stock]]
  /\ UNCHANGED <<port, ships, taken, grown, paid, opened, regrowths>>

\* The port is read, at first or once more after a mismatch.
ReadPort(t) ==
  /\ trades[t].step = "port"
  /\ trades' = [trades EXCEPT ![t].step = "ready", ![t].port = port]
  /\ UNCHANGED <<port, ships, taken, grown, paid, opened, regrowths>>

\* A trade that the rows in memory do not allow is refused.
Refuse(t) ==
  /\ trades[t].step = "ready"
  /\ ~Acceptable(trades[t])
  /\ trades' = [trades EXCEPT ![t] = AtRest]
  /\ UNCHANGED <<port, ships, taken, grown, paid, opened, regrowths>>

SameVersion(x) == x.port.version = port.version

\* Port and ship are written in one transaction, both from what was read.
Commit(t) ==
  LET x == trades[t] IN
  /\ x.step = "ready"
  /\ Acceptable(x)
  /\ SameVersion(x)
  /\ ships[x.ship].owned
  /\ port' = [stock |-> Stocked(x),
              version |-> x.port.version + 1]
  /\ ships' = [ships EXCEPT
       ![x.ship].credits = x.row.credits - Charge(x),
       ![x.ship].cargo = Loaded(x)]
  /\ taken' = [taken EXCEPT ![x.good] = @ + Onto(x)]
  /\ paid' = paid + Charge(x)
  /\ trades' = [trades EXCEPT ![t] = AtRest]
  /\ UNCHANGED <<grown, opened, regrowths>>

\* The ship has been sold meanwhile: owner_id no longer matches, and the
\* transaction rolls the port back.
RollBack(t) ==
  LET x == trades[t] IN
  /\ x.step = "ready"
  /\ Acceptable(x)
  /\ SameVersion(x)
  /\ ~ships[x.ship].owned
  /\ trades' = [trades EXCEPT ![t] = AtRest]
  /\ UNCHANGED <<port, ships, taken, grown, paid, opened, regrowths>>

\* Mutant: each attempt works on the same copy of the cargo.
Mismatch_SharedCargo(t) ==
  LET x == trades[t] IN
  /\ x.step = "ready"
  /\ Acceptable(x)
  /\ ~SameVersion(x)
  /\ trades' = [trades EXCEPT ![t] =
       IF x.tries + 1 < MaxAttempts
       THEN [x EXCEPT !.step = "port", !.tries = @ + 1,
                      !.row.cargo[x.good] = @ + Onto(x)]
       ELSE AtRest]
  /\ UNCHANGED <<port, ships, taken, grown, paid, opened, regrowths>>

\* The version has moved: read the port again, a bounded number of times.
Mismatch(t) ==
  LET x == trades[t] IN
  /\ x.step = "ready"
  /\ Acceptable(x)
  /\ ~SameVersion(x)
  /\ trades' = [trades EXCEPT ![t] =
       IF x.tries + 1 < MaxAttempts
       THEN [x EXCEPT !.step = "port", !.tries = @ + 1]
       ELSE AtRest]
  /\ UNCHANGED <<port, ships, taken, grown, paid, opened, regrowths>>

Restock(stock, bump) ==
  /\ regrowths < MaxRegrowths
  /\ regrowths' = regrowths + 1
  /\ port' = [stock |-> stock, version |-> port.version + bump]
  /\ grown' = [g \in Goods |-> grown[g] + stock[g] - port.stock[g]]
  /\ UNCHANGED <<ships, trades, taken, paid, opened>>

\* Mutant: without LEAST and GREATEST.
Regenerate_Unclamped ==
  Restock([g \in Goods |-> port.stock[g]
                           + (IF g \in Sold THEN Regrowth ELSE -Regrowth)],
          Cardinality(Goods))

\* regenerate_ports: every good moves towards full, or towards empty if the
\* port buys it, one UPDATE and one version each.
Regenerate ==
  Restock([g \in Goods |->
             LET n == port.stock[g] IN
             IF g \in Sold
             THEN IF n + Regrowth > MaxStock THEN MaxStock ELSE n + Regrowth
             ELSE IF n < Regrowth THEN 0 ELSE n - Regrowth],
          Cardinality(Goods))

\* reset_all_ports.
Reset == Restock(OpeningStock, 1)

TradeStep(t) ==
  ReadPort(t) \/ Refuse(t) \/ Commit(t) \/ RollBack(t) \/ Mismatch(t)
=============================================================================
