------------------------- MODULE ShipAccountsProofs -------------------------
(***************************************************************************)
(* What holds of the port and the purses for any number of ships, goods,   *)
(* trades and requests, however they overlap and wherever they fail: the   *)
(* stock, the prices, that nobody owes anything, and that goods and        *)
(* credits are neither made nor lost while no two requests touch one       *)
(* balance.                                                                *)
(***************************************************************************)
EXTENDS ShipAccounts, Sums, FiniteSetTheorems, TLAPS

-----------------------------------------------------------------------------
(* The operators.                                                          *)

LEMMA OpeningTypes == OpeningRow \in Rows /\ OpeningPort \in PortRows
<1>1. OpeningRow.cargo \in [Goods -> Int]
  BY ShipsAssumption
<1>2. OpeningRow \in Rows
  <2>1. OpeningRow = [credits |-> OpeningRow.credits, cargo |-> OpeningRow.cargo,
                      stores |-> OpeningRow.stores, owned |-> OpeningRow.owned]
    <3> DEFINE D == [credits : Nat, cargo : [Goods -> Nat], stores : Nat,
                     owned : {TRUE}]
    <3>1. \A r \in D : r = [credits |-> r.credits, cargo |-> r.cargo,
                            stores |-> r.stores, owned |-> r.owned]
      BY Z3
    <3> QED
      BY <3>1, ShipsAssumption
  <2>2. OpeningRow.credits \in Int /\ OpeningRow.stores \in Int
    BY ShipsAssumption
  <2>3. OpeningRow.owned \in BOOLEAN
    <3>1. OpeningRow.owned \in {TRUE}
      BY ShipsAssumption
    <3> QED
      BY <3>1
  <2> QED
    BY <1>1, <2>1, <2>2, <2>3 DEF Rows
<1>3. OpeningPort \in PortRows
  BY StockAssumption DEF OpeningPort, PortRows
<1> QED
  BY <1>2, <1>3

LEMMA AtRestType == AtRest \in TradeStates /\ AtRest.step = "idle"
<1>1. (CHOOSE s \in Ships : TRUE) \in Ships
  BY ShipsAssumption
<1>2. (CHOOSE g \in Goods : TRUE) \in Goods
  BY GoodsAssumption
<1> QED
  BY <1>1, <1>2, OpeningTypes DEF AtRest, TradeStates

LEMMA BalanceKinds ==
  /\ \A s \in Ships : /\ Purse(s) \in Balances
                      /\ Purse(s)[1] = "purse" /\ Purse(s)[2] = s
  /\ \A s \in Pilots : /\ Account(s) \in Balances /\ s \in Ships
                       /\ Account(s)[1] = "bank" /\ Account(s)[2] = s
  /\ \A b \in Balances : \/ b[1] = "purse" /\ b[2] \in Ships
                         \/ b[1] = "bank" /\ b[2] \in Pilots
  BY DEF Balances, Purse, Account, Pilots

LEMMA RestingType == Resting \in JobStates /\ Resting.step = "idle"
<1>1. Purse(AtRest.ship) \in Balances
  BY AtRestType, BalanceKinds DEF TradeStates
<1> QED
  BY <1>1 DEF Resting, JobStates

LEMMA BalanceType ==
  ASSUME TypeOK, NEW b \in Balances
  PROVE  Balance(b) \in Int
<1>1. CASE b[1] = "purse" /\ b[2] \in Ships
  BY <1>1 DEF Balance, TypeOK, Rows
<1>2. CASE b[1] = "bank" /\ b[2] \in Pilots
  BY <1>2 DEF Balance, TypeOK
<1> QED
  BY <1>1, <1>2, BalanceKinds

LEMMA SetBalanceType ==
  ASSUME TypeOK, NEW b \in Balances, NEW n \in Int, SetBalance(b, n)
  PROVE  ships' \in [Ships -> Rows] /\ bank' \in [Pilots -> Int]
<1>1. CASE b[1] = "purse" /\ b[2] \in Ships
  BY <1>1 DEF SetBalance, TypeOK, Rows
<1>2. CASE b[1] = "bank" /\ b[2] \in Pilots
  BY <1>2 DEF SetBalance, TypeOK
<1> QED
  BY <1>1, <1>2, BalanceKinds

LEMMA DoneType ==
  ASSUME TypeOK, NEW j \in Jobs, NEW w \in {"debit", "credit"}, Done(j, w)
  PROVE  jobs' \in [Jobs -> JobStates]
<1>1. [jobs[j] EXCEPT !.left = jobs[j].left \ {w}] \in JobStates
  BY DEF TypeOK, JobStates
<1>2. jobs' = [jobs EXCEPT ![j] =
                 IF jobs[j].left \ {w} = {} THEN Resting
                 ELSE [jobs[j] EXCEPT !.left = jobs[j].left \ {w}]]
  BY DEF Done, TypeOK
<1> QED
  BY <1>1, <1>2, RestingType DEF TypeOK

\* What a trade moves and costs.
LEMMA ChargeType ==
  ASSUME NEW x \in TradeStates
  PROVE  /\ Onto(x) \in Int /\ Charge(x) \in Int
         /\ Price[x.good][x.port.stock[x.good]] \in Nat
<1>1. Onto(x) \in Int
  BY DEF Onto, TradeStates
<1>2. x.port.stock[x.good] \in 0..MaxStock /\ x.good \in Goods
  BY DEF TradeStates, PortRows
<1>3. Price[x.good][x.port.stock[x.good]] \in Nat
  BY <1>2, StockAssumption
<1> QED
  BY <1>1, <1>3 DEF Charge

\* The port has what a trade takes, and room for what it brings.
LEMMA StockFits ==
  ASSUME NEW x \in TradeStates, Acceptable(x)
  PROVE  Stocked(x) \in [Goods -> 0..MaxStock]
<1>1. /\ x.good \in Goods /\ x.units \in Nat
      /\ x.port.stock \in [Goods -> 0..MaxStock]
  BY DEF TradeStates, PortRows
<1> DEFINE n == x.port.stock[x.good]
<1>2. n \in 0..MaxStock /\ MaxStock \in Nat
  BY <1>1, StockAssumption
<1>3. n - Onto(x) \in 0..MaxStock
  <2>1. CASE x.good \in Sold
    <3>1. n >= x.units /\ Onto(x) = x.units
      BY <2>1 DEF Acceptable, Onto
    <3> HIDE DEF n
    <3> QED
      BY <1>1, <1>2, <3>1
  <2>2. CASE x.good \notin Sold
    <3>1. MaxStock - n >= x.units /\ Onto(x) = -x.units
      BY <2>2 DEF Acceptable, Onto
    <3> HIDE DEF n
    <3> QED
      BY <1>1, <1>2, <3>1
  <2> QED
    BY <2>1, <2>2
<1> QED
  BY <1>1, <1>3 DEF Stocked

-----------------------------------------------------------------------------
(* Type correctness.                                                       *)

LEMMA InitType == Init => TypeOK
  BY OpeningTypes, AtRestType, RestingType DEF Init, TradeInit, TypeOK

LEMMA OpenTradeType ==
  ASSUME TypeOK, NEW t \in Trades, NEW s \in Ships, NEW g \in Goods,
         NEW n \in Lots, OpenTrade(t, s, g, n), UNCHANGED jobVars
  PROVE  TypeOK'
<1>1. [AtRest EXCEPT !.step = "port", !.ship = s, !.good = g,
                     !.units = n, !.row = ships[s]] \in TradeStates
  BY AtRestType, LotsAssumption DEF TypeOK, TradeStates
<1> QED
  BY <1>1 DEF OpenTrade, TypeOK, jobVars

LEMMA CommitType ==
  ASSUME TypeOK, NEW t \in Trades, Commit(t), UNCHANGED jobVars
  PROVE  TypeOK'
<1> DEFINE x == trades[t]
<1>1. x \in TradeStates /\ Acceptable(x)
  BY DEF TypeOK, Commit
<1>2. Onto(x) \in Int /\ Charge(x) \in Int
  BY <1>1, ChargeType
<1>3. port' \in PortRows
  BY <1>1, StockFits DEF Commit, PortRows, TradeStates
<1>4. x.row.credits - Charge(x) \in Int
  BY <1>1, <1>2 DEF TradeStates, Rows
<1>5. Loaded(x) \in [Goods -> Int]
  BY <1>1, <1>2 DEF TradeStates, Rows, Loaded
<1>6. ships' \in [Ships -> Rows]
  BY <1>1, <1>4, <1>5 DEF Commit, TypeOK, Rows, TradeStates
<1>7. taken' \in [Goods -> Int] /\ paid' \in Int
  BY <1>1, <1>2 DEF Commit, TypeOK, TradeStates
<1>8. trades' \in [Trades -> TradeStates]
  BY AtRestType DEF Commit, TypeOK
<1> QED
  BY <1>3, <1>6, <1>7, <1>8 DEF Commit, TypeOK, jobVars

LEMMA TradeStepType ==
  ASSUME TypeOK, NEW t \in Trades, TradeStep(t), UNCHANGED jobVars
  PROVE  TypeOK'
<1>1. CASE ReadPort(t)
  <2>1. [trades[t] EXCEPT !.step = "ready", !.port = port] \in TradeStates
    <3>1. trades[t] \in TradeStates /\ port \in PortRows
      BY DEF TypeOK
    <3> QED
      BY <3>1 DEF TradeStates
  <2>2. trades' = [trades EXCEPT ![t] = [trades[t] EXCEPT !.step = "ready", !.port = port]]
    BY <1>1 DEF ReadPort, TypeOK
  <2> QED
    BY <1>1, <2>1, <2>2 DEF ReadPort, TypeOK, jobVars
<1>2. CASE Refuse(t)
  BY <1>2, AtRestType DEF Refuse, TypeOK, jobVars
<1>3. CASE Commit(t)
  BY <1>3, CommitType
<1>4. CASE RollBack(t)
  BY <1>4, AtRestType DEF RollBack, TypeOK, jobVars
<1>5. CASE Mismatch(t)
  <2>1. ASSUME NEW x \in TradeStates
        PROVE  [x EXCEPT !.step = "port", !.tries = @ + 1] \in TradeStates
    <3>1. x.tries + 1 \in Nat
      BY <2>1 DEF TradeStates
    <3> QED
      BY <2>1, <3>1 DEF TradeStates
  <2> QED
    BY <1>5, <2>1, AtRestType DEF Mismatch, TypeOK, jobVars
<1> QED
  BY <1>1, <1>2, <1>3, <1>4, <1>5 DEF TradeStep

LEMMA RestockType ==
  ASSUME TypeOK, NEW stock \in [Goods -> 0..MaxStock], NEW bump \in Nat,
         Restock(stock, bump), UNCHANGED jobVars
  PROVE  TypeOK'
<1>1. port' \in PortRows
  BY DEF Restock, TypeOK, PortRows
<1>2. grown' \in [Goods -> Int]
  BY DEF Restock, TypeOK, PortRows
<1> QED
  BY <1>1, <1>2 DEF Restock, TypeOK, jobVars

\* What regeneration makes of a stock fits, and its version is a later one.
LEMMA RegrownFits ==
  ASSUME TypeOK
  PROVE  /\ [g \in Goods |->
               LET n == port.stock[g] IN
               IF g \in Sold
               THEN IF n + Regrowth > MaxStock THEN MaxStock ELSE n + Regrowth
               ELSE IF n < Regrowth THEN 0 ELSE n - Regrowth]
              \in [Goods -> 0..MaxStock]
         /\ Cardinality(Goods) \in Nat /\ Cardinality(Goods) > 0
<1>1. \A g \in Goods : port.stock[g] \in 0..MaxStock
  BY DEF TypeOK, PortRows
<1>2. Cardinality(Goods) \in Nat /\ Cardinality(Goods) > 0
  BY GoodsAssumption, FS_CardinalityType, FS_EmptySet
<1>3. ASSUME NEW g \in Goods
      PROVE  LET n == port.stock[g] IN
             (IF g \in Sold
              THEN IF n + Regrowth > MaxStock THEN MaxStock ELSE n + Regrowth
              ELSE IF n < Regrowth THEN 0 ELSE n - Regrowth) \in 0..MaxStock
  <2> DEFINE n == port.stock[g]
  <2>1. n \in 0..MaxStock /\ MaxStock \in Nat /\ Regrowth \in Nat
    BY <1>1, <1>3, StockAssumption
  <2> HIDE DEF n
  <2>2. IF n + Regrowth > MaxStock THEN MaxStock \in 0..MaxStock
                                  ELSE n + Regrowth \in 0..MaxStock
    BY <2>1
  <2>3. IF n < Regrowth THEN 0 \in 0..MaxStock ELSE n - Regrowth \in 0..MaxStock
    BY <2>1
  <2> QED
    BY <2>2, <2>3 DEF n
<1> QED
  BY <1>2, <1>3

LEMMA GrowthType ==
  ASSUME TypeOK, Regenerate \/ Reset, UNCHANGED jobVars
  PROVE  TypeOK'
<1>1. CASE Regenerate
  BY <1>1, RegrownFits, RestockType DEF Regenerate
<1>2. CASE Reset
  BY <1>2, StockAssumption, RestockType DEF Reset
<1> QED
  BY <1>1, <1>2

LEMMA OpenType ==
  ASSUME TypeOK, NEW j \in Jobs,
         NEW kind \in {"transfer", "deposit", "withdraw", "sale"},
         NEW from \in Balances, NEW to \in Balances, NEW n \in Nat,
         Open(j, kind, from, to, n)
  PROVE  TypeOK'
<1>1. Balance(from) \in Int
  BY BalanceType
<1>2. [Resting EXCEPT !.kind = kind, !.step = "payee", !.from = from, !.to = to,
                      !.amount = n, !.payer = Balance(from)] \in JobStates
  BY <1>1, RestingType DEF JobStates
<1> QED
  BY <1>2 DEF Open, TypeOK

LEMMA CallType ==
  ASSUME TypeOK, NEW j \in Jobs,
         Transfer(j) \/ Deposit(j) \/ Withdraw(j) \/ Sell(j)
  PROVE  TypeOK'
<1>1. CASE Transfer(j)
  BY <1>1, BalanceKinds, OpenType, AmountsAssumption DEF Transfer
<1>2. CASE Deposit(j)
  BY <1>2, BalanceKinds, OpenType, AmountsAssumption DEF Deposit
<1>3. CASE Withdraw(j)
  BY <1>3, BalanceKinds, OpenType, AmountsAssumption DEF Withdraw
<1>4. CASE Sell(j)
  <2>1. PICK f \in Fleet : Open(j, "sale", Purse(Buyer[f]), Purse(f), TradeIn)
    BY <1>4 DEF Sell
  <2>2. Buyer[f] \in Ships /\ f \in Ships
    BY FleetAssumption
  <2> QED
    BY <2>1, <2>2, BalanceKinds, OpenType, AmountsAssumption
<1> QED
  BY <1>1, <1>2, <1>3, <1>4

\* What a purchase buys fits and costs a natural number.
LEMMA SupplyUnits ==
  ASSUME TypeOK, NEW a \in Ships, NEW n \in Amounts, ships[a].stores < Tank
  PROVE  (IF ships[a].stores + n > Tank THEN Tank - ships[a].stores ELSE n) \in Nat
<1>1. ships[a].stores \in Int
  BY DEF TypeOK, Rows
<1> QED
  BY <1>1, AmountsAssumption

LEMMA SupplyType ==
  ASSUME TypeOK, NEW j \in Jobs, Supply(j)
  PROVE  TypeOK'
<1>1. PICK a \in Ships, n \in Amounts :
        LET row == ships[a]
            units == IF row.stores + n > Tank THEN Tank - row.stores ELSE n
        IN  /\ row.stores < Tank
            /\ jobs' = [jobs EXCEPT ![j] =
                 [Resting EXCEPT !.kind = "supply", !.step = "write",
                                 !.from = Purse(a), !.to = Purse(a),
                                 !.amount = units, !.payer = row.credits,
                                 !.payee = row.stores]]
  BY DEF Supply
<1> DEFINE u == IF ships[a].stores + n > Tank THEN Tank - ships[a].stores ELSE n
<1>2. u \in Nat
  BY <1>1, SupplyUnits
<1>3. ships[a].credits \in Int /\ ships[a].stores \in Int /\ Purse(a) \in Balances
  BY BalanceKinds DEF TypeOK, Rows
<1>4. jobs' = [jobs EXCEPT ![j] =
        [Resting EXCEPT !.kind = "supply", !.step = "write", !.from = Purse(a),
                        !.to = Purse(a), !.amount = u, !.payer = ships[a].credits,
                        !.payee = ships[a].stores]]
  BY <1>1
<1> HIDE DEF u
<1>5. [Resting EXCEPT !.kind = "supply", !.step = "write", !.from = Purse(a),
                      !.to = Purse(a), !.amount = u, !.payer = ships[a].credits,
                      !.payee = ships[a].stores] \in JobStates
  BY <1>2, <1>3, RestingType DEF JobStates
<1> QED
  BY <1>4, <1>5 DEF Supply, TypeOK

LEMMA ReadPayeeType ==
  ASSUME TypeOK, NEW j \in Jobs, ReadPayee(j)
  PROVE  TypeOK'
<1> DEFINE x == jobs[j]
           y == [x EXCEPT !.step = "write", !.payee = Balance(x.to),
                          !.left = {"debit", "credit"}]
<1>1. x \in JobStates
  BY DEF TypeOK
<1>2. Balance(x.to) \in Int
  BY <1>1, BalanceType DEF JobStates
<1>3. y \in JobStates
  BY <1>1, <1>2 DEF JobStates
<1>4. jobs' = [jobs EXCEPT ![j] = y] \/ jobs' = [jobs EXCEPT ![j] = Resting]
  BY DEF ReadPayee
<1> HIDE DEF y
<1> QED
  BY <1>3, <1>4, RestingType DEF ReadPayee, TypeOK, tradeVars

\* A step that writes one balance and is done with it.
LEMMA WriteType ==
  ASSUME TypeOK, NEW j \in Jobs, NEW w \in {"debit", "credit"},
         NEW b \in Balances, NEW n \in Int, SetBalance(b, n), Done(j, w),
         UNCHANGED <<port, trades, taken, grown>>, paid' \in Int
  PROVE  TypeOK'
  BY SetBalanceType, DoneType DEF TypeOK

LEMMA JobStepType ==
  ASSUME TypeOK, NEW j \in Jobs, JobStep(j)
  PROVE  TypeOK'
<1> DEFINE x == jobs[j]
<1>0. /\ x \in JobStates /\ x.from \in Balances /\ x.to \in Balances
      /\ x.amount \in Nat /\ x.payer \in Int /\ x.payee \in Int /\ paid \in Int
  BY DEF TypeOK, JobStates
<1>1. CASE Transfer(j) \/ Deposit(j) \/ Withdraw(j) \/ Sell(j)
  BY <1>1, CallType
<1>2. CASE Supply(j)
  BY <1>2, SupplyType
<1>3. CASE ReadPayee(j)
  BY <1>3, ReadPayeeType
<1>4. CASE Debit(j)
  <2>1. x.payer - x.amount \in Int
    BY <1>0
  <2> QED
    BY <1>0, <1>4, <2>1, WriteType DEF Debit
<1>5. CASE Credit(j)
  <2>1. x.payee + x.amount \in Int
    BY <1>0
  <2> QED
    BY <1>0, <1>5, <2>1, WriteType DEF Credit
<1>6. CASE Supplied(j)
  <2>1. x.from[2] \in Ships
    BY <1>0, BalanceKinds DEF Pilots
  <2>2. /\ x.payer - x.amount * UnitPrice \in Int /\ x.payee + x.amount \in Int
        /\ paid + x.amount * UnitPrice \in Int
    BY <1>0, AmountsAssumption
  <2>3. ships' \in [Ships -> Rows]
    BY <1>6, <2>1, <2>2 DEF Supplied, TypeOK, Rows
  <2> QED
    BY <1>6, <2>2, <2>3, RestingType DEF Supplied, TypeOK
<1>7. CASE PaySeller(j)
  <2>1. x.payer + x.amount + x.payee \in Int /\ paid - x.amount \in Int
    BY <1>0
  <2> QED
    BY <1>0, <1>7, <2>1, WriteType DEF PaySeller
<1>8. CASE Scrap(j)
  <2>1. jobs' \in [Jobs -> JobStates]
    BY <1>8, DoneType DEF Scrap
  <2>2. ships' \in [Ships -> Rows]
    BY <1>8 DEF Scrap, TypeOK, Rows
  <2> QED
    BY <1>8, <2>1, <2>2 DEF Scrap, TypeOK
<1>9. CASE Fail(j)
  <2>1. jobs' \in [Jobs -> JobStates]
    <3>1. CASE jobs' = [jobs EXCEPT ![j] = Resting]
      BY <3>1, RestingType DEF TypeOK
    <3>2. CASE Done(j, "debit") \/ Done(j, "credit")
      BY <3>2, DoneType
    <3> QED
      BY <1>9, <3>1, <3>2 DEF Fail
  <2> QED
    BY <1>9, <2>1 DEF Fail, TypeOK, tradeVars
<1>10. CASE Kill(j)
  BY <1>10, RestingType DEF Kill, TypeOK, tradeVars
<1> QED
  BY <1>1, <1>2, <1>3, <1>4, <1>5, <1>6, <1>7, <1>8, <1>9, <1>10 DEF JobStep

LEMMA NextType == TypeOK /\ [Next]_vars => TypeOK'
<1> SUFFICES ASSUME TypeOK, [Next]_vars PROVE TypeOK'
  OBVIOUS
<1>1. ASSUME NEW t \in Trades, Trade(t) PROVE TypeOK'
  <2>1. UNCHANGED jobVars
    BY <1>1 DEF Trade
  <2> QED
    BY <1>1, <2>1, OpenTradeType, TradeStepType DEF Trade
<1>2. ASSUME NEW j \in Jobs, JobStep(j) PROVE TypeOK'
  BY <1>2, JobStepType
<1>3. CASE (Regenerate \/ Reset) /\ UNCHANGED jobVars
  BY <1>3, GrowthType
<1>4. CASE UNCHANGED vars
  BY <1>4 DEF vars, tradeVars, jobVars, TypeOK
<1> QED
  BY <1>1, <1>2, <1>3, <1>4 DEF Next

\* Rows and the functions' copies of them keep their shape, and the port's
\* stock stays within its capacity: the clamps of regenerate_ports and the
\* checks of computeTradeOutcome suffice.
THEOREM AccountsTypeCorrect == Spec => []TypeOK
<1>1. Init => TypeOK
  BY InitType
<1>2. TypeOK /\ [Next]_vars => TypeOK'
  BY NextType
<1> QED
  BY <1>1, <1>2, PTL DEF Spec

-----------------------------------------------------------------------------
(* The version test.                                                       *)

\* A copy of the port's row that a trade is about to write back is not newer
\* than the row, and is the row if it has its version.
Fresh(x) ==
  x.step = "ready" =>
    /\ x.port.version <= port.version
    /\ x.port.version = port.version => x.port.stock = port.stock
PortFenced == \A t \in Trades : Fresh(trades[t])

\* What the version test of a trade that is about to commit tells it.
LEMMA CommitsCurrent ==
  ASSUME TypeOK, PortFenced, NEW t \in Trades, Commit(t)
  PROVE  /\ trades[t] \in TradeStates
         /\ trades[t].port.version = port.version
         /\ trades[t].port.stock = port.stock
         /\ port' = [stock |-> Stocked(trades[t]), version |-> port.version + 1]
  BY DEF TypeOK, PortFenced, Fresh, Commit, SameVersion

\* A row that changes gets a later version, so that copies stay what they are.
LEMMA LaterVersion ==
  ASSUME TypeOK, PortFenced,
         port'.version \in Nat, port'.version > port.version,
         \A t \in Trades : trades'[t] = trades[t] \/ trades'[t].step = "idle"
  PROVE  PortFenced'
<1> SUFFICES ASSUME NEW t \in Trades, trades'[t].step = "ready"
             PROVE  /\ trades'[t].port.version \in Nat
                    /\ trades'[t].port.version < port'.version
  BY DEF PortFenced, Fresh
<1>1. trades'[t] = trades[t] /\ trades[t].port.version <= port.version
  BY DEF PortFenced, Fresh
<1>2. trades[t].port.version \in Nat /\ port.version \in Nat
  BY DEF TypeOK, TradeStates, PortRows
<1> QED
  BY <1>1, <1>2

\* While the row stays, a copy is made of it or stays too.
LEMMA SamePort ==
  ASSUME TypeOK, PortFenced, port' = port,
         \A t \in Trades : \/ trades'[t] = trades[t]
                           \/ trades'[t].step # "ready"
                           \/ trades'[t].port = port
  PROVE  PortFenced'
<1>1. port.version \in Nat
  BY DEF TypeOK, PortRows
<1> QED
  BY <1>1 DEF PortFenced, Fresh

LEMMA FenceInit == Init => PortFenced
  BY AtRestType DEF Init, TradeInit, PortFenced, Fresh

LEMMA FenceTrade ==
  ASSUME TypeOK, PortFenced, NEW t \in Trades, Trade(t)
  PROVE  PortFenced'
<1>0. trades \in [Trades -> TradeStates] /\ AtRest.step = "idle"
  BY AtRestType DEF TypeOK
<1>1. ASSUME NEW s \in Ships, NEW g \in Goods, NEW n \in Lots, OpenTrade(t, s, g, n)
      PROVE  PortFenced'
  <2>1. trades'[t].step = "port"
    BY <1>0, <1>1, AtRestType DEF OpenTrade, TradeStates
  <2> QED
    BY <1>0, <1>1, <2>1, SamePort DEF OpenTrade
<1>2. CASE ReadPort(t)
  <2>1. trades'[t].port = port
    BY <1>0, <1>2 DEF ReadPort, TradeStates
  <2> QED
    BY <1>0, <1>2, <2>1, SamePort DEF ReadPort
<1>3. CASE Refuse(t) \/ RollBack(t)
  BY <1>0, <1>3, SamePort DEF Refuse, RollBack
<1>4. CASE Commit(t)
  <2>1. port'.version \in Nat /\ port'.version > port.version
    BY <1>4, CommitsCurrent DEF TypeOK, PortRows
  <2>2. \A u \in Trades : trades'[u] = trades[u] \/ trades'[u].step = "idle"
    BY <1>0, <1>4 DEF Commit
  <2> QED
    BY <2>1, <2>2, LaterVersion
<1>5. CASE Mismatch(t)
  <2>1. trades'[t].step # "ready"
    BY <1>0, <1>5 DEF Mismatch, TradeStates
  <2> QED
    BY <1>0, <1>5, <2>1, SamePort DEF Mismatch
<1> QED
  BY <1>1, <1>2, <1>3, <1>4, <1>5 DEF Trade, TradeStep

LEMMA FenceGrowth ==
  ASSUME TypeOK, PortFenced, Regenerate \/ Reset
  PROVE  PortFenced'
<1>1. port'.version \in Nat /\ port'.version > port.version
  <2>1. CASE Regenerate
    BY <2>1, RegrownFits DEF Regenerate, Restock, TypeOK, PortRows
  <2>2. CASE Reset
    BY <2>2 DEF Reset, Restock, TypeOK, PortRows
  <2> QED
    BY <2>1, <2>2
<1>2. trades' = trades
  BY ZenonT(30) DEF Regenerate, Reset, Restock
<1> QED
  BY <1>1, <1>2, LaterVersion

\* The other functions never touch the port or a trade's memory.
LEMMA JobsKeepPort ==
  ASSUME NEW j \in Jobs, JobStep(j)
  PROVE  UNCHANGED <<port, trades, taken, grown>>
  BY ZenonT(30) DEF JobStep, Transfer, Deposit, Withdraw, Sell, Open, Supply, ReadPayee,
         Debit, Credit, Supplied, PaySeller, Scrap, Fail, Kill, tradeVars

LEMMA FenceNext == TypeOK /\ PortFenced /\ [Next]_vars => PortFenced'
<1> SUFFICES ASSUME TypeOK, PortFenced, [Next]_vars PROVE PortFenced'
  OBVIOUS
<1>1. ASSUME NEW t \in Trades, Trade(t) PROVE PortFenced'
  BY <1>1, FenceTrade
<1>2. ASSUME NEW j \in Jobs, JobStep(j) PROVE PortFenced'
  BY <1>2, JobsKeepPort, SamePort
<1>3. CASE Regenerate \/ Reset
  BY <1>3, FenceGrowth
<1>4. CASE UNCHANGED vars
  BY <1>4, SamePort DEF vars, tradeVars
<1> QED
  BY <1>1, <1>2, <1>3, <1>4 DEF Next

-----------------------------------------------------------------------------
(* The port's stock.                                                       *)

LEMMA StockCommit ==
  ASSUME TypeOK, PortFenced, StockKept, NEW t \in Trades, Commit(t)
  PROVE  StockKept'
<1> DEFINE x == trades[t]
<1>1. x \in TradeStates /\ x.port.stock = port.stock /\ port'.stock = Stocked(x)
  BY CommitsCurrent
<1>2. Onto(x) \in Int /\ x.good \in Goods
  BY <1>1, ChargeType DEF TradeStates
<1>3. \A g \in Goods : /\ port.stock[g] \in Int /\ taken[g] \in Int
                       /\ OpeningStock[g] \in Int /\ grown[g] \in Int
  BY StockAssumption DEF TypeOK, PortRows
<1>4. taken' = [taken EXCEPT ![x.good] = @ + Onto(x)] /\ grown' = grown
  BY DEF Commit
<1>5. port'.stock = [port.stock EXCEPT ![x.good] = @ - Onto(x)]
  BY <1>1 DEF Stocked
<1> HIDE DEF x
<1> SUFFICES ASSUME NEW g \in Goods
             PROVE  port'.stock[g] + taken'[g] = OpeningStock[g] + grown'[g]
  BY DEF StockKept
<1>6. port.stock[g] + taken[g] = OpeningStock[g] + grown[g]
  BY DEF StockKept
<1>7. CASE g = x.good
  <2>1. port'.stock[g] = port.stock[g] - Onto(x) /\ taken'[g] = taken[g] + Onto(x)
    BY <1>2, <1>4, <1>5, <1>7 DEF TypeOK, PortRows
  <2> QED
    BY <1>2, <1>3, <1>4, <1>6, <2>1
<1>8. CASE g # x.good
  <2>1. port'.stock[g] = port.stock[g] /\ taken'[g] = taken[g]
    BY <1>4, <1>5, <1>8 DEF TypeOK, PortRows
  <2> QED
    BY <1>4, <1>6, <2>1
<1> QED
  BY <1>7, <1>8

LEMMA StockGrowth ==
  ASSUME TypeOK, StockKept, NEW stock \in [Goods -> 0..MaxStock], NEW bump,
         Restock(stock, bump)
  PROVE  StockKept'
<1> SUFFICES ASSUME NEW g \in Goods
             PROVE  port'.stock[g] + taken'[g] = OpeningStock[g] + grown'[g]
  BY DEF StockKept
<1>1. /\ port.stock[g] \in Int /\ taken[g] \in Int /\ stock[g] \in Int
      /\ OpeningStock[g] \in Int /\ grown[g] \in Int
  BY StockAssumption DEF TypeOK, PortRows
<1>2. port.stock[g] + taken[g] = OpeningStock[g] + grown[g]
  BY DEF StockKept
<1>3. /\ port'.stock[g] = stock[g] /\ taken'[g] = taken[g]
      /\ grown'[g] = grown[g] + stock[g] - port.stock[g]
  BY DEF Restock
<1> QED
  BY <1>1, <1>2, <1>3

LEMMA StockNext ==
  TypeOK /\ PortFenced /\ StockKept /\ [Next]_vars => StockKept'
<1> SUFFICES ASSUME TypeOK, PortFenced, StockKept, [Next]_vars
             PROVE  StockKept'
  OBVIOUS
<1>1. ASSUME UNCHANGED <<port, taken, grown>> PROVE StockKept'
  BY <1>1 DEF StockKept
<1>2. ASSUME NEW t \in Trades, Trade(t) PROVE StockKept'
  <2>1. CASE Commit(t)
    BY <2>1, StockCommit
  <2>2. CASE ~Commit(t)
    BY <1>1, <1>2, <2>2
       DEF Trade, TradeStep, OpenTrade, ReadPort, Refuse, RollBack, Mismatch
  <2> QED
    BY <2>1, <2>2
<1>3. ASSUME NEW j \in Jobs, JobStep(j) PROVE StockKept'
  BY <1>1, <1>3, JobsKeepPort
<1>4. CASE Regenerate
  BY <1>4, RegrownFits, StockGrowth DEF Regenerate
<1>5. CASE Reset
  BY <1>5, StockAssumption, StockGrowth DEF Reset
<1>6. CASE UNCHANGED vars
  BY <1>1, <1>6 DEF vars, tradeVars
<1> QED
  BY <1>2, <1>3, <1>4, <1>5, <1>6 DEF Next

LEMMA StockInit == Init => StockKept
  BY StockAssumption DEF Init, TradeInit, OpeningPort, StockKept

\* Whatever overlaps, the port's stock is what it opened with, plus what it
\* grew by, less what trades took, and stays within its capacity: the version
\* test of pgExecuteTradeTransaction suffices.
THEOREM StockIsAccounted == Spec => []StockAccounted
<1>1. Init => TypeOK /\ PortFenced /\ StockKept
  BY InitType, FenceInit, StockInit
<1>2. TypeOK /\ PortFenced /\ StockKept /\ [Next]_vars
      => (TypeOK /\ PortFenced /\ StockKept)'
  BY NextType, FenceNext, StockNext
<1>3. TypeOK /\ StockKept => StockAccounted
  BY DEF TypeOK, PortRows, StockAccounted
<1> QED
  BY <1>1, <1>2, <1>3, PTL DEF Spec

-----------------------------------------------------------------------------
(* The price of a trade.                                                   *)

\* The part of PricedAtStock that says what a step may do.
Priced ==
  \A t \in Trades :
    LET x == trades[t] IN
    x.step = "ready" /\ trades'[t].step = "idle" /\ port' # port
    => /\ paid' - paid = Price[x.good][port.stock[x.good]] * Onto(x)
       /\ port'.stock = [port.stock EXCEPT ![x.good] = @ - Onto(x)]

LEMMA PricedCommit ==
  ASSUME TypeOK, PortFenced, NEW t \in Trades, Commit(t)
  PROVE  Priced
<1> DEFINE x == trades[t]
<1>1. x \in TradeStates /\ x.port.stock = port.stock /\ port'.stock = Stocked(x)
  BY CommitsCurrent
<1>2. Charge(x) \in Int /\ paid \in Int
  BY <1>1, ChargeType DEF TypeOK
<1>3. paid' - paid = Charge(x)
  BY <1>2 DEF Commit
<1>4. paid' - paid = Price[x.good][port.stock[x.good]] * Onto(x)
  BY <1>1, <1>3 DEF Charge
<1>5. port'.stock = [port.stock EXCEPT ![x.good] = @ - Onto(x)]
  BY <1>1 DEF Stocked
<1>6. \A u \in Trades : u # t => trades'[u] = trades[u]
  BY DEF Commit, TypeOK
<1> QED
  BY <1>4, <1>5, <1>6 DEF Priced

LEMMA PricedNext == TypeOK /\ PortFenced /\ [Next]_vars => [Priced]_vars
<1> SUFFICES ASSUME TypeOK, PortFenced, [Next]_vars PROVE Priced \/ UNCHANGED vars
  OBVIOUS
<1>1. ASSUME port' = port PROVE Priced
  BY <1>1 DEF Priced
<1>2. ASSUME NEW t \in Trades, Trade(t) PROVE Priced
  <2>1. CASE Commit(t)
    BY <2>1, PricedCommit
  <2>2. CASE ~Commit(t)
    BY <1>1, <1>2, <2>2
       DEF Trade, TradeStep, OpenTrade, ReadPort, Refuse, RollBack, Mismatch
  <2> QED
    BY <2>1, <2>2
<1>3. ASSUME NEW j \in Jobs, JobStep(j) PROVE Priced
  BY <1>1, <1>3, JobsKeepPort
<1>4. CASE Regenerate \/ Reset
  <2>1. trades' = trades
    BY <1>4 DEF Regenerate, Reset, Restock
  <2> QED
    BY <2>1 DEF Priced
<1> QED
  BY <1>2, <1>3, <1>4 DEF Next

\* A trade that goes through pays the price of the stock the port has at that
\* moment, and takes its units from that stock.
THEOREM PricesAreCurrent == Spec => PricedAtStock
<1>1. Init => TypeOK /\ PortFenced
  BY InitType, FenceInit
<1>2. TypeOK /\ PortFenced /\ [Next]_vars => (TypeOK /\ PortFenced)'
  BY NextType, FenceNext
<1>3. TypeOK /\ PortFenced /\ [Next]_vars => [Priced]_vars
  BY PricedNext
<1>4. Spec => [][Priced]_vars
  BY <1>1, <1>2, <1>3, PTL DEF Spec
<1> QED
  BY <1>4 DEF PricedAtStock, Priced

-----------------------------------------------------------------------------
(* No overdrafts.                                                          *)

\* Rows in memory are as solvent as the rows they were read from.
Solvent(row) ==
  row.credits >= 0 /\ row.stores >= 0 /\ \A g \in Goods : row.cargo[g] >= 0

\* A request holds no negative balance, and once it has passed its check it
\* can pay, from the balance it has read, what it is about to take from it.
Able(x) ==
  /\ x.payer >= 0 /\ x.payee >= 0
  /\ Moves(x) => x.payer >= x.amount
  /\ x.kind = "supply" => x.payer >= x.amount * UnitPrice

Solvency ==
  /\ NoOverdraft
  /\ \A t \in Trades : Solvent(trades[t].row)
  /\ \A j \in Jobs : Able(jobs[j])

LEMMA SolventShips ==
  NoOverdraft <=> /\ \A s \in Ships : Solvent(ships[s])
                  /\ \A p \in Pilots : bank[p] >= 0
  BY DEF NoOverdraft, Solvent

LEMMA SolventAtRest == Solvent(AtRest.row)
  BY ShipsAssumption DEF Solvent, AtRest

LEMMA AbleAtRest == Able(Resting)
  BY DEF Able, Moves, Resting

LEMMA BalanceSolvent ==
  ASSUME NoOverdraft, NEW b \in Balances
  PROVE  Balance(b) >= 0
<1>1. CASE b[1] = "purse" /\ b[2] \in Ships
  BY <1>1 DEF Balance, NoOverdraft
<1>2. CASE b[1] = "bank" /\ b[2] \in Pilots
  BY <1>2 DEF Balance, NoOverdraft
<1> QED
  BY <1>1, <1>2, BalanceKinds

LEMMA SetBalanceSolvent ==
  ASSUME TypeOK, NoOverdraft, NEW b \in Balances, NEW n \in Nat, SetBalance(b, n)
  PROVE  NoOverdraft'
<1>1. CASE b[1] = "purse" /\ b[2] \in Ships
  <2>1. ships' = [ships EXCEPT ![b[2]].credits = n] /\ bank' = bank
    BY <1>1 DEF SetBalance
  <2>2. \A s \in Ships : /\ ships'[s].stores = ships[s].stores
                         /\ ships'[s].cargo = ships[s].cargo
                         /\ ships'[s].credits = ships[s].credits \/ ships'[s].credits = n
    BY <2>1 DEF TypeOK, Rows
  <2> QED
    BY <2>1, <2>2 DEF NoOverdraft
<1>2. CASE b[1] = "bank" /\ b[2] \in Pilots
  <2>1. bank' = [bank EXCEPT ![b[2]] = n] /\ ships' = ships
    BY <1>2 DEF SetBalance
  <2> QED
    BY <2>1 DEF NoOverdraft, TypeOK
<1> QED
  BY <1>1, <1>2, BalanceKinds

\* What a trade makes of a solvent row is solvent.
LEMMA TradeSolvent ==
  ASSUME NEW x \in TradeStates, Solvent(x.row), Acceptable(x)
  PROVE  /\ x.row.credits - Charge(x) >= 0
         /\ \A g \in Goods : Loaded(x)[g] >= 0
<1> DEFINE price == Price[x.good][x.port.stock[x.good]]
<1>1. /\ price \in Nat /\ x.good \in Goods /\ x.units \in Nat
      /\ x.row.credits \in Int /\ x.row.cargo \in [Goods -> Int]
  BY ChargeType DEF TradeStates, Rows
<1>2. x.row.credits >= 0 /\ \A g \in Goods : x.row.cargo[g] >= 0
  BY DEF Solvent
<1>3. Charge(x) = price * Onto(x)
  BY DEF Charge
<1> HIDE DEF price
<1>4. CASE x.good \in Sold
  <2>1. Onto(x) = x.units /\ x.row.credits >= Charge(x)
    BY <1>4 DEF Onto, Acceptable
  <2>2. Charge(x) \in Int
    BY ChargeType
  <2>3. x.row.credits - Charge(x) >= 0
    BY <1>1, <2>1, <2>2
  <2>4. x.row.cargo[x.good] + Onto(x) >= 0
    BY <1>1, <1>2, <2>1
  <2> QED
    BY <1>1, <1>2, <2>3, <2>4 DEF Loaded
<1>5. CASE x.good \notin Sold
  <2>1. Onto(x) = -x.units /\ x.row.cargo[x.good] >= x.units
    BY <1>5 DEF Onto, Acceptable
  <2>2. price * x.units \in Nat
    BY <1>1
  <2>3. Charge(x) = -(price * x.units)
    BY <1>1, <1>3, <2>1
  <2>4. x.row.credits - Charge(x) >= 0
    BY <1>1, <1>2, <2>2, <2>3
  <2>5. x.row.cargo[x.good] + Onto(x) >= 0
    BY <1>1, <2>1
  <2> QED
    BY <1>1, <1>2, <2>4, <2>5 DEF Loaded
<1> QED
  BY <1>4, <1>5

LEMMA SolvencyInit == Init => Solvency
<1> SUFFICES ASSUME Init PROVE Solvency
  OBVIOUS
<1>1. Solvent(OpeningRow)
  BY ShipsAssumption DEF Solvent
<1>2. NoOverdraft
  BY <1>1 DEF Init, TradeInit, NoOverdraft, Solvent
<1> QED
  BY <1>2, SolventAtRest, AbleAtRest DEF Init, TradeInit, Solvency

LEMMA SolvencyTrade ==
  ASSUME TypeOK, Solvency, NEW t \in Trades, Trade(t)
  PROVE  Solvency'
<1>0. /\ trades \in [Trades -> TradeStates] /\ ships \in [Ships -> Rows]
      /\ bank' = bank /\ jobs' = jobs
      /\ \A u \in Trades : Solvent(trades[u].row)
      /\ \A s \in Ships : Solvent(ships[s])
  BY SolventShips DEF TypeOK, Trade, jobVars, Solvency
<1>1. ASSUME NoOverdraft', Solvent(trades'[t].row),
             \A u \in Trades : u # t => trades'[u] = trades[u]
      PROVE  Solvency'
  BY <1>0, <1>1 DEF Solvency, Solvent, Able, Moves
<1>2. ASSUME ships' = ships PROVE NoOverdraft'
  BY <1>0, <1>2 DEF Solvency, NoOverdraft
<1>3. ASSUME NEW s \in Ships, NEW g \in Goods, NEW n \in Lots, OpenTrade(t, s, g, n)
      PROVE  Solvency'
  <2>1. trades'[t].row = ships[s]
    BY <1>0, <1>3, AtRestType DEF OpenTrade, TradeStates
  <2> QED
    BY <1>0, <1>1, <1>2, <1>3, <2>1 DEF OpenTrade
<1>4. CASE ReadPort(t)
  <2>1. trades'[t].row = trades[t].row
    BY <1>0, <1>4 DEF ReadPort, TradeStates
  <2> QED
    BY <1>0, <1>1, <1>2, <1>4, <2>1 DEF ReadPort
<1>5. CASE Refuse(t) \/ RollBack(t)
  BY <1>0, <1>1, <1>2, <1>5, SolventAtRest DEF Refuse, RollBack
<1>6. CASE Commit(t)
  <2> DEFINE x == trades[t]
  <2>1. x \in TradeStates /\ Solvent(x.row) /\ Acceptable(x)
    BY <1>0, <1>6 DEF Commit
  <2>2. x.row.credits - Charge(x) >= 0 /\ \A g \in Goods : Loaded(x)[g] >= 0
    BY <2>1, TradeSolvent
  <2>3. ships' = [ships EXCEPT ![x.ship].credits = x.row.credits - Charge(x),
                               ![x.ship].cargo = Loaded(x)]
    BY <1>6 DEF Commit
  <2>4. \A s \in Ships : Solvent(ships'[s])
    BY <1>0, <2>1, <2>2, <2>3 DEF Solvent, Rows, TradeStates
  <2>5. NoOverdraft'
    BY <1>0, <2>4 DEF Solvency, NoOverdraft, Solvent
  <2> QED
    BY <1>0, <1>1, <1>6, <2>5, SolventAtRest DEF Commit
<1>7. CASE Mismatch(t)
  <2>1. trades'[t].row = trades[t].row \/ trades'[t] = AtRest
    BY <1>0, <1>7 DEF Mismatch, TradeStates
  <2> QED
    BY <1>0, <1>1, <1>2, <1>7, <2>1, SolventAtRest DEF Mismatch
<1> QED
  BY <1>3, <1>4, <1>5, <1>6, <1>7 DEF Trade, TradeStep

LEMMA SolvencyJob ==
  ASSUME TypeOK, Solvency, NEW j \in Jobs, JobStep(j)
  PROVE  Solvency'
<1> DEFINE x == jobs[j]
<1>0. /\ jobs \in [Jobs -> JobStates] /\ x \in JobStates
      /\ x.from \in Balances /\ x.to \in Balances /\ x.amount \in Nat
      /\ x.payer \in Int /\ x.payee \in Int
      /\ NoOverdraft /\ Able(x) /\ x.payer >= 0 /\ x.payee >= 0
      /\ \A s \in Ships : Solvent(ships[s])
      /\ \A t \in Trades : Solvent(trades[t].row)
      /\ \A k \in Jobs : Able(jobs[k])
  BY SolventShips DEF TypeOK, JobStates, Solvency, Able
<1>1. ASSUME NoOverdraft', Able(jobs'[j]),
             \A k \in Jobs : k # j => jobs'[k] = jobs[k]
      PROVE  Solvency'
  <2>1. trades' = trades
    BY JobsKeepPort
  <2>2. \A t \in Trades : Solvent(trades'[t].row)
    BY <1>0, <2>1
  <2> QED
    BY <1>0, <1>1, <2>2 DEF Solvency, Solvent, Able, Moves
<1>2. ASSUME ships' = ships, bank' = bank PROVE NoOverdraft'
  BY <1>0, <1>2 DEF NoOverdraft
<1>3. ASSUME NEW w \in {"debit", "credit"}, Done(j, w)
      PROVE  Able(jobs'[j]) /\ \A k \in Jobs : k # j => jobs'[k] = jobs[k]
  <2>1. jobs' = [jobs EXCEPT ![j] = IF x.left \ {w} = {} THEN Resting
                                    ELSE [x EXCEPT !.left = x.left \ {w}]]
    BY <1>3 DEF Done
  <2>2. Able([x EXCEPT !.left = x.left \ {w}])
    BY <1>0 DEF Able, Moves, JobStates
  <2> QED
    BY <1>0, <2>1, <2>2, AbleAtRest
<1>4. ASSUME NEW kind \in {"transfer", "deposit", "withdraw", "sale"},
             NEW from \in Balances, NEW to \in Balances, NEW n \in Nat,
             Open(j, kind, from, to, n)
      PROVE  Solvency'
  <2>1. Balance(from) >= 0
    BY <1>0, BalanceSolvent
  <2>2. Able([Resting EXCEPT !.kind = kind, !.step = "payee", !.from = from,
                             !.to = to, !.amount = n, !.payer = Balance(from)])
    BY <2>1 DEF Able, Moves, Resting
  <2> QED
    BY <1>0, <1>1, <1>2, <1>4, <2>2 DEF Open
<1>5. CASE Transfer(j) \/ Deposit(j) \/ Withdraw(j) \/ Sell(j)
  <2>1. CASE Transfer(j)
    BY <1>4, <2>1, BalanceKinds, AmountsAssumption DEF Transfer
  <2>2. CASE Deposit(j)
    BY <1>4, <2>2, BalanceKinds, AmountsAssumption DEF Deposit
  <2>3. CASE Withdraw(j)
    BY <1>4, <2>3, BalanceKinds, AmountsAssumption DEF Withdraw
  <2>4. CASE Sell(j)
    <3>1. PICK f \in Fleet : Open(j, "sale", Purse(Buyer[f]), Purse(f), TradeIn)
      BY <2>4 DEF Sell
    <3>2. Buyer[f] \in Ships /\ f \in Ships
      BY FleetAssumption
    <3> QED
      BY <1>4, <3>1, <3>2, BalanceKinds, AmountsAssumption
  <2> QED
    BY <1>5, <2>1, <2>2, <2>3, <2>4
<1>6. CASE Supply(j)
  <2>1. PICK a \in Ships, u \in Int :
          /\ ships[a].credits >= u * UnitPrice
          /\ jobs' = [jobs EXCEPT ![j] =
               [Resting EXCEPT !.kind = "supply", !.step = "write",
                               !.from = Purse(a), !.to = Purse(a), !.amount = u,
                               !.payer = ships[a].credits,
                               !.payee = ships[a].stores]]
    <3>1. PICK a \in Ships, n \in Amounts :
            LET row == ships[a]
                units == IF row.stores + n > Tank THEN Tank - row.stores ELSE n
            IN  /\ row.stores < Tank
                /\ row.credits >= units * UnitPrice
                /\ jobs' = [jobs EXCEPT ![j] =
                     [Resting EXCEPT !.kind = "supply", !.step = "write",
                                     !.from = Purse(a), !.to = Purse(a),
                                     !.amount = units, !.payer = row.credits,
                                     !.payee = row.stores]]
      BY <1>6 DEF Supply
    <3> DEFINE u == IF ships[a].stores + n > Tank THEN Tank - ships[a].stores ELSE n
    <3>2. u \in Int
      BY <3>1, SupplyUnits
    <3> QED
      BY <3>1, <3>2
  <2>2. ships[a].credits >= 0 /\ ships[a].stores >= 0
    BY <1>0 DEF Solvent
  <2>3. Able([Resting EXCEPT !.kind = "supply", !.step = "write",
                             !.from = Purse(a), !.to = Purse(a), !.amount = u,
                             !.payer = ships[a].credits,
                             !.payee = ships[a].stores])
    BY <2>1, <2>2 DEF Able, Moves, Resting
  <2> QED
    BY <1>0, <1>1, <1>2, <1>6, <2>1, <2>3 DEF Supply
<1>7. CASE ReadPayee(j)
  <2> DEFINE y == [x EXCEPT !.step = "write", !.payee = Balance(x.to),
                            !.left = {"debit", "credit"}]
  <2>1. Balance(x.to) >= 0
    BY <1>0, BalanceSolvent
  <2>2. jobs' = [jobs EXCEPT ![j] = IF /\ x.to[1] = "purse" => ships[x.to[2]].owned
                                       /\ x.kind # "sale" => x.payer >= x.amount
                                    THEN y ELSE Resting]
    BY <1>7 DEF ReadPayee
  <2>3. ASSUME x.kind # "sale" => x.payer >= x.amount PROVE Able(y)
    BY <1>0, <2>1, <2>3 DEF Able, Moves, JobStates
  <2> HIDE DEF y
  <2>4. Able(jobs'[j])
    BY <1>0, <2>2, <2>3, AbleAtRest
  <2> QED
    BY <1>0, <1>1, <1>2, <1>7, <2>2, <2>4 DEF ReadPayee, tradeVars
<1>8. CASE Debit(j)
  <2>1. x.payer - x.amount \in Nat
    BY <1>0, <1>8 DEF Debit, Able
  <2>2. NoOverdraft'
    BY <1>0, <1>8, <2>1, SetBalanceSolvent DEF Debit
  <2> QED
    BY <1>1, <1>3, <1>8, <2>2 DEF Debit
<1>9. CASE Credit(j)
  <2>1. x.payee + x.amount \in Nat
    BY <1>0
  <2>2. NoOverdraft'
    BY <1>0, <1>9, <2>1, SetBalanceSolvent DEF Credit
  <2> QED
    BY <1>1, <1>3, <1>9, <2>2 DEF Credit
<1>10. CASE Supplied(j)
  <2>1. x.payer - x.amount * UnitPrice >= 0 /\ x.payee + x.amount >= 0
    BY <1>0, <1>10, AmountsAssumption DEF Supplied, Able
  <2>2. ships' = [ships EXCEPT
          ![x.from[2]].credits = x.payer - x.amount * UnitPrice,
          ![x.from[2]].stores = x.payee + x.amount] /\ bank' = bank
    BY <1>10 DEF Supplied
  <2>3. \A s \in Ships : Solvent(ships'[s])
    BY <1>0, <2>1, <2>2, SMTT(30) DEF TypeOK, Rows, Solvent
  <2>4. NoOverdraft'
    BY <1>0, <2>2, <2>3 DEF NoOverdraft, Solvent
  <2> QED
    BY <1>0, <1>1, <1>10, <2>4, AbleAtRest DEF Supplied
<1>11. CASE PaySeller(j)
  <2>1. x.payer + x.amount + x.payee \in Nat
    BY <1>0
  <2>2. NoOverdraft'
    BY <1>0, <1>11, <2>1, SetBalanceSolvent DEF PaySeller
  <2> QED
    BY <1>1, <1>3, <1>11, <2>2 DEF PaySeller
<1>12. CASE Scrap(j)
  <2>1. ships' = [ships EXCEPT ![x.to[2]].owned = FALSE] /\ bank' = bank
    BY <1>12 DEF Scrap
  <2>2. \A s \in Ships : Solvent(ships'[s])
    BY <1>0, <2>1 DEF TypeOK, Rows, Solvent
  <2>3. NoOverdraft'
    BY <1>0, <2>1, <2>2 DEF NoOverdraft, Solvent
  <2> QED
    BY <1>1, <1>3, <1>12, <2>3 DEF Scrap
<1>13. CASE Fail(j)
  <2>1. NoOverdraft'
    BY <1>2, <1>13 DEF Fail, tradeVars
  <2>2. CASE jobs' = [jobs EXCEPT ![j] = Resting]
    BY <1>0, <1>1, <2>1, <2>2, AbleAtRest
  <2>3. CASE Done(j, "debit") \/ Done(j, "credit")
    BY <1>1, <1>3, <2>1, <2>3
  <2> QED
    BY <1>13, <2>2, <2>3 DEF Fail
<1>14. CASE Kill(j)
  BY <1>0, <1>1, <1>2, <1>14, AbleAtRest DEF Kill, tradeVars
<1> QED
  BY <1>5, <1>6, <1>7, <1>8, <1>9, <1>10, <1>11, <1>12, <1>13, <1>14 DEF JobStep

LEMMA SolvencyNext == TypeOK /\ Solvency /\ [Next]_vars => Solvency'
<1> SUFFICES ASSUME TypeOK, Solvency, [Next]_vars PROVE Solvency'
  OBVIOUS
<1>1. ASSUME UNCHANGED <<ships, bank, trades, jobs>> PROVE Solvency'
  BY <1>1 DEF Solvency, NoOverdraft, Solvent, Able, Moves
<1>2. ASSUME NEW t \in Trades, Trade(t) PROVE Solvency'
  BY <1>2, SolvencyTrade
<1>3. ASSUME NEW j \in Jobs, JobStep(j) PROVE Solvency'
  BY <1>3, SolvencyJob
<1>4. CASE (Regenerate \/ Reset) /\ UNCHANGED jobVars
  BY <1>1, <1>4 DEF Regenerate, Reset, Restock, jobVars
<1>5. CASE UNCHANGED vars
  BY <1>1, <1>5 DEF vars, tradeVars, jobVars
<1> QED
  BY <1>2, <1>3, <1>4, <1>5 DEF Next

\* No purse, bank account, hold or tank goes below zero, though every check
\* was made on rows that may have changed since: what is written is computed
\* from the row that was checked, never from the row that is there.
THEOREM NoOverdrafts == Spec => []NoOverdraft
<1>1. Init => TypeOK /\ Solvency
  BY InitType, SolvencyInit
<1>2. TypeOK /\ Solvency /\ [Next]_vars => (TypeOK /\ Solvency)'
  BY NextType, SolvencyNext
<1>3. Solvency => NoOverdraft
  BY DEF Solvency
<1> QED
  BY <1>1, <1>2, <1>3, PTL DEF Spec

-----------------------------------------------------------------------------
(* The books. As long as no two requests touch one balance, what a request  *)
(* has read is what the tables hold, and what ships, accounts and the game   *)
(* hold differs from the opening worth by what requests have in the air.     *)

\* A balance in given tables, and whether its ship still is its user's.
At(sh, bk, b) == IF b[1] = "purse" THEN sh[b[2]].credits ELSE bk[b[2]]
Held(sh, b) == b[1] = "purse" => sh[b[2]].owned

\* The copies a request can be in.
Shape(x) ==
  \/ x.step = "idle" /\ x.kind = "none" /\ x.left = {}
  \/ /\ x.step = "write" /\ x.kind = "supply" /\ x.left = {}
     /\ x.from = x.to /\ x.from[1] = "purse"
  \/ /\ x.kind \in {"transfer", "deposit", "withdraw", "sale"}
     /\ x.from # x.to
     /\ x.kind = "sale" => \E f \in Fleet : x.from = Purse(Buyer[f]) /\ x.to = Purse(f)
     /\ \/ x.step = "payee" /\ x.left = {}
        \/ /\ x.step = "write"
           /\ \/ x.left \in {{"debit", "credit"}, {"credit"}}
              \/ x.left = {"debit"} /\ x.kind = "transfer"
Shapes == \A j \in Jobs : Shape(jobs[j])

PilotsAfloat == \A p \in Pilots : ships[p].owned

Tallies == kills \in Nat /\ failures \in Nat /\ sales \in [Fleet -> Nat]

\* What a request has read and not yet written over is what is there.
JobCurrent(sh, bk, x) ==
  /\ x.step # "idle" => Held(sh, x.from)
  /\ x.step = "write" => Held(sh, x.to)
  /\ x.step = "payee" \/ x.kind = "supply" \/ "debit" \in x.left => x.payer = At(sh, bk, x.from)
  /\ "credit" \in x.left => x.payee = At(sh, bk, x.to)
TradeCurrent(sh, x) ==
  x.step # "idle" => /\ x.row.credits = sh[x.ship].credits
                     /\ x.row.cargo = sh[x.ship].cargo
                     /\ sh[x.ship].owned
Current ==
  ~contended => /\ ~Contention
                /\ \A j \in Jobs : JobCurrent(ships, bank, jobs[j])
                /\ \A t \in Trades : TradeCurrent(ships, trades[t])

\* A sale that has paid its seller.
Settled(x) == x.kind = "sale" /\ x.step = "write" /\ "debit" \notin x.left

\* What a request has paid and not yet taken, or taken and not yet paid.
Float(x) ==
  IF x.step # "write" THEN 0
  ELSE IF x.kind = "sale" THEN IF "debit" \in x.left THEN 0 ELSE x.payee
  ELSE IF x.left = {"debit"} THEN x.amount
  ELSE IF x.left = {"credit"} THEN -x.amount
  ELSE 0
AllFloat == SumFunctionOnSet([j \in Jobs |-> Float(jobs[j])], Jobs)

ShipWorth == SumFunctionOnSet([s \in Ships |-> ships[s].credits], Afloat)
BankWorth == SumFunctionOnSet(bank, Pilots)

Balanced == ~contended /\ kills = 0 /\ failures = 0 => Worth = OpeningWorth + AllFloat
Covered ==
  ~contended /\ cut \cap Lavish = {} /\ ("withdraw" \in cut => failures = 0)
  => Worth <= OpeningWorth + AllFloat
SoldOnce ==
  ~contended /\ "sale" \notin cut =>
    \A f \in Fleet :
      /\ sales[f] <= 1
      /\ sales[f] = 1 => \/ ~ships[f].owned
                         \/ \E j \in Jobs : Settled(jobs[j]) /\ jobs[j].to = Purse(f)

Books ==
  /\ Shapes /\ PilotsAfloat /\ Tallies /\ Current
  /\ Balanced /\ Covered /\ SoldOnce /\ GoodsBalance

LEMMA PurseOf ==
  ASSUME NEW b \in Balances
  PROVE  /\ b[1] = "purse" => b[2] \in Ships /\ b = Purse(b[2])
         /\ b[1] # "purse" => b[2] \in Pilots /\ b = Account(b[2])
  BY DEF Balances, Purse, Account

LEMMA RestingShape == Shape(Resting) /\ Float(Resting) = 0 /\ ~Settled(Resting)
  BY DEF Resting, Shape, Float, Settled

LEMMA FloatType ==
  ASSUME NEW x \in JobStates
  PROVE  Float(x) \in Int
  BY DEF Float, JobStates

LEMMA PilotsFinite == IsFiniteSet(Pilots) /\ IsFiniteSet(Afloat) /\ Pilots \subseteq Ships
                      /\ Afloat \subseteq Ships
  BY ShipsAssumption, FS_Subset DEF Pilots, Afloat

\* The sums are numbers.
LEMMA WorthType ==
  ASSUME TypeOK
  PROVE  /\ ShipWorth \in Int /\ BankWorth \in Int /\ AllFloat \in Int
         /\ Worth = ShipWorth + BankWorth + paid
<1>1. ShipWorth \in Int
  <2>. DEFINE f == [s \in Ships |-> ships[s].credits]
  <2>1. \A s \in Afloat : f[s] \in Int
    BY PilotsFinite DEF TypeOK, Rows
  <2>. HIDE DEF f
  <2>. QED
    BY <2>1, PilotsFinite, SumIsInt DEF ShipWorth, f
<1>2. BankWorth \in Int
  BY PilotsFinite, SumIsInt DEF BankWorth, TypeOK
<1>3. AllFloat \in Int
  <2>. DEFINE f == [j \in Jobs |-> Float(jobs[j])]
  <2>1. \A j \in Jobs : f[j] \in Int
    BY FloatType DEF TypeOK
  <2>. HIDE DEF f
  <2>. QED
    BY <2>1, JobsAssumption, SumIsInt DEF AllFloat, f
<1>. QED
  BY <1>1, <1>2, <1>3 DEF Worth, ShipWorth, BankWorth

LEMMA NextWorth == Worth' = ShipWorth' + BankWorth' + paid'
  BY DEF Worth, ShipWorth, BankWorth

\* One ship that somebody owns holds other credits.
LEMMA ShipWorthChanges ==
  ASSUME TypeOK, TypeOK', NEW s \in Ships, ships[s].owned,
         \A t \in Ships : ships'[t].owned = ships[t].owned,
         \A t \in Ships \ {s} : ships'[t].credits = ships[t].credits
  PROVE  ShipWorth' = ShipWorth - ships[s].credits + ships'[s].credits
<1>1. Afloat' = Afloat /\ s \in Afloat
  BY DEF Afloat
<1>. DEFINE f == [t \in Ships |-> ships[t].credits]
            g == [t \in Ships |-> ships'[t].credits]
<1>2. /\ \A t \in Afloat : f[t] \in Int /\ g[t] \in Int
      /\ \A t \in Afloat \ {s} : g[t] = f[t]
      /\ f[s] = ships[s].credits /\ g[s] = ships'[s].credits
  BY PilotsFinite DEF TypeOK, Rows
<1>3. ShipWorth = SumFunctionOnSet(f, Afloat) /\ ShipWorth' = SumFunctionOnSet(g, Afloat)
  BY <1>1 DEF ShipWorth
<1>. HIDE DEF f, g
<1>4. SumFunctionOnSet(g, Afloat) = SumFunctionOnSet(f, Afloat) - f[s] + g[s]
  BY <1>1, <1>2, PilotsFinite, SumChanges
<1>. QED
  BY <1>2, <1>3, <1>4

LEMMA ShipWorthStays ==
  ASSUME ships' = ships
  PROVE  ShipWorth' = ShipWorth
  BY DEF ShipWorth, Afloat

\* One account holds another balance.
LEMMA BankWorthChanges ==
  ASSUME TypeOK, NEW p \in Pilots, NEW n \in Int, bank' = [bank EXCEPT ![p] = n]
  PROVE  BankWorth' = BankWorth - bank[p] + n
<1>. DEFINE f == bank
            g == bank'
<1>1. /\ \A q \in Pilots : f[q] \in Int /\ g[q] \in Int
      /\ \A q \in Pilots \ {p} : g[q] = f[q]
      /\ f[p] = bank[p] /\ g[p] = n
  BY DEF TypeOK
<1>2. BankWorth = SumFunctionOnSet(f, Pilots) /\ BankWorth' = SumFunctionOnSet(g, Pilots)
  BY DEF BankWorth
<1>. HIDE DEF f, g
<1>3. SumFunctionOnSet(g, Pilots) = SumFunctionOnSet(f, Pilots) - f[p] + g[p]
  BY <1>1, PilotsFinite, SumChanges
<1>. QED
  BY <1>1, <1>2, <1>3

\* Writing a balance writes that balance alone, and changes the worth by as
\* much when the balance still is its user's.
LEMMA BalanceWritten ==
  ASSUME TypeOK, TypeOK', NEW b \in Balances, NEW n \in Int, SetBalance(b, n)
  PROVE  /\ At(ships', bank', b) = n
         /\ \A c \in Balances \ {b} : At(ships', bank', c) = At(ships, bank, c)
         /\ \A s \in Ships : ships'[s].owned = ships[s].owned /\ ships'[s].cargo = ships[s].cargo
         /\ Held(ships, b) =>
              ShipWorth' + BankWorth' = ShipWorth + BankWorth - At(ships, bank, b) + n
<1>1. ShipWorth \in Int /\ BankWorth \in Int
  BY WorthType
<1>2. CASE b[1] = "purse"
  <2>1. b[2] \in Ships /\ ships' = [ships EXCEPT ![b[2]].credits = n] /\ bank' = bank
    BY <1>2, PurseOf DEF SetBalance
  <2>2. /\ ships'[b[2]].credits = n
        /\ \A s \in Ships \ {b[2]} : ships'[s] = ships[s]
        /\ \A s \in Ships : ships'[s].owned = ships[s].owned /\ ships'[s].cargo = ships[s].cargo
    BY <2>1 DEF TypeOK, Rows
  <2>3. \A c \in Balances \ {b} : At(ships', bank', c) = At(ships, bank, c)
    <3>1. ASSUME NEW c \in Balances \ {b} PROVE At(ships', bank', c) = At(ships, bank, c)
      BY <1>2, <2>1, <2>2, PurseOf DEF At
    <3>. QED
      BY <3>1
  <2>4. ASSUME Held(ships, b)
        PROVE  ShipWorth' + BankWorth' = ShipWorth + BankWorth - At(ships, bank, b) + n
    <3>1. ShipWorth' = ShipWorth - ships[b[2]].credits + n
      BY <1>2, <2>1, <2>2, <2>4, ShipWorthChanges DEF Held
    <3>2. BankWorth' = BankWorth /\ At(ships, bank, b) = ships[b[2]].credits
      BY <1>2, <2>1 DEF BankWorth, At
    <3>3. ships[b[2]].credits \in Int
      BY <2>1 DEF TypeOK, Rows
    <3>. QED
      BY <1>1, <3>1, <3>2, <3>3
  <2>. QED
    BY <1>2, <2>2, <2>3, <2>4 DEF At
<1>3. CASE b[1] # "purse"
  <2>1. b[2] \in Pilots /\ bank' = [bank EXCEPT ![b[2]] = n] /\ ships' = ships
    BY <1>3, PurseOf DEF SetBalance
  <2>2. bank'[b[2]] = n /\ \A p \in Pilots \ {b[2]} : bank'[p] = bank[p]
    BY <2>1 DEF TypeOK
  <2>3. \A c \in Balances \ {b} : At(ships', bank', c) = At(ships, bank, c)
    <3>1. ASSUME NEW c \in Balances \ {b} PROVE At(ships', bank', c) = At(ships, bank, c)
      BY <1>3, <2>1, <2>2, PurseOf DEF At
    <3>. QED
      BY <3>1
  <2>4. ShipWorth' + BankWorth' = ShipWorth + BankWorth - At(ships, bank, b) + n
    <3>1. ShipWorth' = ShipWorth /\ BankWorth' = BankWorth - bank[b[2]] + n
      BY <2>1, ShipWorthStays, BankWorthChanges
    <3>2. At(ships, bank, b) = bank[b[2]] /\ bank[b[2]] \in Int
      BY <1>3, <2>1 DEF At, TypeOK
    <3>. QED
      BY <1>1, <3>1, <3>2
  <2>. QED
    BY <1>3, <2>1, <2>2, <2>3, <2>4 DEF At
<1>. QED
  BY <1>2, <1>3

\* What runs at the same time keeps to its own balances.
LEMMA Apart ==
  ASSUME ~Contention
  PROVE  /\ \A j, k \in Jobs : j # k => JobTouches(j) \cap JobTouches(k) = {}
         /\ \A t, u \in Trades : t # u => TradeTouches(t) \cap TradeTouches(u) = {}
         /\ \A j \in Jobs : \A t \in Trades : JobTouches(j) \cap TradeTouches(t) = {}
  BY DEF Contention

LEMMA BalanceIsAt == \A b : Balance(b) = At(ships, bank, b)
  BY DEF Balance, At

\* A step of one request leaves the copies of the others current.
LEMMA OtherJob ==
  ASSUME TypeOK, Shapes, Current, ~contended, NEW j \in Jobs, NEW k \in Jobs, k # j,
         NEW sh, NEW bk,
         \A b \in Balances \ JobTouches(j) : /\ At(sh, bk, b) = At(ships, bank, b)
                                             /\ Held(ships, b) => Held(sh, b)
  PROVE  JobCurrent(sh, bk, jobs[k])
<1>1. Shape(jobs[k]) /\ JobCurrent(ships, bank, jobs[k])
  BY DEF Shapes, Current
<1>2. CASE jobs[k].step = "idle"
  <2>1. jobs[k].left = {} /\ jobs[k].kind = "none"
    BY <1>1, <1>2 DEF Shape
  <2>. QED
    BY <1>2, <2>1 DEF JobCurrent
<1>3. CASE jobs[k].step # "idle"
  <2>1. JobTouches(k) = {jobs[k].from, jobs[k].to}
    BY <1>3 DEF JobTouches
  <2>2. JobTouches(j) \cap JobTouches(k) = {}
    BY Apart DEF Current
  <2>3. jobs[k].from \in Balances \ JobTouches(j) /\ jobs[k].to \in Balances \ JobTouches(j)
    BY <2>1, <2>2 DEF TypeOK, JobStates
  <2>. QED
    BY <1>1, <2>3 DEF JobCurrent
<1>. QED
  BY <1>2, <1>3

LEMMA OtherTrade ==
  ASSUME TypeOK, Current, ~contended, NEW j \in Jobs, NEW t \in Trades, NEW sh, NEW bk,
         \A b \in Balances \ JobTouches(j) : /\ At(sh, bk, b) = At(ships, bank, b)
                                             /\ Held(ships, b) => Held(sh, b),
         \A s \in Ships : sh[s].cargo = ships[s].cargo
  PROVE  TradeCurrent(sh, trades[t])
<1>1. TradeCurrent(ships, trades[t]) /\ trades[t].ship \in Ships
  BY DEF Current, TypeOK, TradeStates
<1>2. SUFFICES ASSUME trades[t].step # "idle" PROVE TradeCurrent(sh, trades[t])
  BY DEF TradeCurrent
<1>. DEFINE b == Purse(trades[t].ship)
<1>3. b \in Balances /\ b[1] = "purse" /\ b[2] = trades[t].ship
  BY <1>1, BalanceKinds
<1>4. b \notin JobTouches(j)
  <2>1. JobTouches(j) \cap TradeTouches(t) = {}
    BY Apart DEF Current
  <2>2. TradeTouches(t) = {b}
    BY <1>2 DEF TradeTouches
  <2>. QED
    BY <2>1, <2>2
<1>. HIDE DEF b
<1>5. sh[trades[t].ship].credits = ships[trades[t].ship].credits
  BY <1>3, <1>4 DEF At
<1>6. sh[trades[t].ship].owned
  BY <1>1, <1>2, <1>3, <1>4 DEF Held, TradeCurrent
<1>. QED
  BY <1>1, <1>2, <1>5, <1>6 DEF TradeCurrent

\* As long as the holds stay, so does what is in them.
LEMMA GoodsStay ==
  ASSUME GoodsBalance, taken' = taken, contended => contended',
         \A s \in Ships : ships'[s].cargo = ships[s].cargo
  PROVE  GoodsBalance'
<1>1. ASSUME NEW g \in Goods
      PROVE  [s \in Ships |-> ships'[s].cargo[g]] = [s \in Ships |-> ships[s].cargo[g]]
  OBVIOUS
<1>2. GoodsOnBoard => GoodsOnBoard'
  BY <1>1 DEF GoodsOnBoard
<1>. QED
  BY <1>2 DEF GoodsBalance

LEMMA JobKeeps ==
  ASSUME TypeOK, TypeOK', Books, NEW j \in Jobs, NEW job \in JobStates, Shape(job),
         jobs' = [jobs EXCEPT ![j] = job], trades' = trades, taken' = taken,
         contended' = (contended \/ Contention'),
         \A b \in Balances \ JobTouches(j) : /\ At(ships', bank', b) = At(ships, bank, b)
                                             /\ Held(ships, b) => Held(ships', b),
         \A s \in Ships : ships'[s].cargo = ships[s].cargo,
         ~contended' => JobCurrent(ships', bank', job)
  PROVE  Shapes' /\ Current' /\ GoodsBalance'
<1>1. \A k \in Jobs : jobs'[k] = IF k = j THEN job ELSE jobs[k]
  BY DEF TypeOK
<1>2. Shapes'
  BY <1>1 DEF Books, Shapes
<1>3. ASSUME ~contended' PROVE ~contended /\ ~Contention'
  BY <1>3
<1>4. ASSUME ~contended', NEW k \in Jobs PROVE JobCurrent(ships', bank', jobs'[k])
  BY <1>1, <1>3, <1>4, OtherJob DEF Books
<1>5. ASSUME ~contended', NEW t \in Trades PROVE TradeCurrent(ships', trades'[t])
  BY <1>3, <1>5, OtherTrade DEF Books
<1>6. Current'
  BY <1>3, <1>4, <1>5 DEF Current
<1>7. GoodsBalance'
  BY GoodsStay DEF Books
<1>. QED
  BY <1>2, <1>6, <1>7

\* One request has another amount in the air.
LEMMA JobFloat ==
  ASSUME TypeOK, NEW j \in Jobs, NEW job \in JobStates, jobs' = [jobs EXCEPT ![j] = job]
  PROVE  AllFloat' = AllFloat - Float(jobs[j]) + Float(job)
<1>. DEFINE f == [k \in Jobs |-> Float(jobs[k])]
            g == [k \in Jobs |-> Float(jobs'[k])]
<1>1. \A k \in Jobs : jobs'[k] = IF k = j THEN job ELSE jobs[k]
  BY DEF TypeOK
<1>2. \A k \in Jobs : jobs[k] \in JobStates /\ jobs'[k] \in JobStates
  BY <1>1 DEF TypeOK
<1>3. /\ \A k \in Jobs : f[k] \in Int /\ g[k] \in Int
      /\ \A k \in Jobs \ {j} : g[k] = f[k]
      /\ f[j] = Float(jobs[j]) /\ g[j] = Float(job)
  BY <1>1, <1>2, FloatType
<1>4. AllFloat = SumFunctionOnSet(f, Jobs) /\ AllFloat' = SumFunctionOnSet(g, Jobs)
  BY DEF AllFloat, Float
<1>. HIDE DEF f, g
<1>5. SumFunctionOnSet(g, Jobs) = SumFunctionOnSet(f, Jobs) - f[j] + g[j]
  BY <1>3, JobsAssumption, SumChanges
<1>. QED
  BY <1>3, <1>4, <1>5

LEMMA OpeningType == OpeningWorth \in Int
<1>1. Cardinality(Ships) \in Nat
  BY ShipsAssumption, FS_CardinalityType
<1>2. OpeningRow.credits \in Int
  BY ShipsAssumption
<1>. QED
  BY <1>1, <1>2 DEF OpeningWorth

LEMMA WorthIsInt == ASSUME TypeOK PROVE Worth \in Int
<1>1. paid \in Int
  BY DEF TypeOK
<1>. QED
  BY <1>1, WorthType

LEMMA NextWorthType ==
  ASSUME TypeOK'
  PROVE  ShipWorth' \in Int /\ BankWorth' \in Int /\ paid' \in Int /\ Worth' \in Int
<1>1. ShipWorth' \in Int
  <2>. DEFINE f == [s \in Ships |-> ships'[s].credits]
              A == {s \in Ships : ships'[s].owned}
  <2>1. /\ \A s \in A : f[s] \in Int
        /\ IsFiniteSet(A)
    BY ShipsAssumption, FS_Subset DEF TypeOK, Rows
  <2>2. ShipWorth' = SumFunctionOnSet(f, A)
    BY DEF ShipWorth, Afloat
  <2>. HIDE DEF f, A
  <2>. QED
    BY <2>1, <2>2, SumIsInt
<1>2. BankWorth' \in Int
  <2>1. \A p \in Pilots : bank'[p] \in Int
    BY DEF TypeOK
  <2>2. BankWorth' = SumFunctionOnSet(bank', Pilots)
    BY DEF BankWorth
  <2>. QED
    BY <2>1, <2>2, PilotsFinite, SumIsInt
<1>3. paid' \in Int
  BY DEF TypeOK
<1>. QED
  BY <1>1, <1>2, <1>3, NextWorth

\* What the tables lose or gain, the request has in the air.
LEMMA Evens ==
  ASSUME TypeOK, TypeOK', Books, NEW j \in Jobs, NEW job \in JobStates,
         jobs' = [jobs EXCEPT ![j] = job], UNCHANGED faults,
         contended' = (contended \/ Contention'),
         ~contended' => Worth' - Float(job) = Worth - Float(jobs[j])
  PROVE  Balanced' /\ Covered'
<1>1. AllFloat' = AllFloat - Float(jobs[j]) + Float(job)
  BY JobFloat
<1>2. /\ AllFloat \in Int /\ OpeningWorth \in Int
      /\ Worth \in Int /\ Float(job) \in Int /\ Float(jobs[j]) \in Int
  BY WorthType, OpeningType, WorthIsInt, FloatType DEF TypeOK
<1>6. AllFloat' \in Int /\ OpeningWorth' = OpeningWorth
  BY <1>1, <1>2 DEF OpeningWorth
<1>7. Worth' \in Int
  BY NextWorthType
<1>3. /\ ~contended' => ~contended
      /\ kills' = kills /\ failures' = failures /\ cut' = cut /\ Lavish' = Lavish
  BY DEF faults, Lavish
<1>4. Balanced'
  BY <1>1, <1>2, <1>6, <1>7, <1>3 DEF Books, Balanced
<1>5. Covered'
  BY <1>1, <1>2, <1>6, <1>7, <1>3 DEF Books, Covered
<1>. QED
  BY <1>4, <1>5

LEMMA SalesKept ==
  ASSUME TypeOK, Books, NEW j \in Jobs, NEW job \in JobStates,
         jobs' = [jobs EXCEPT ![j] = job], sales' = sales, cut \subseteq cut',
         contended' = (contended \/ Contention'),
         \A f \in Fleet : ships'[f].owned => ships[f].owned,
         Settled(jobs[j]) => \/ Settled(job) /\ job.to = jobs[j].to
                             \/ ~ships'[jobs[j].to[2]].owned
                             \/ "sale" \in cut'
  PROVE  SoldOnce'
<1>1. SUFFICES ASSUME ~contended', "sale" \notin cut', NEW f \in Fleet
      PROVE  /\ sales'[f] <= 1
             /\ sales'[f] = 1 => \/ ~ships'[f].owned
                                 \/ \E k \in Jobs : Settled(jobs'[k]) /\ jobs'[k].to = Purse(f)
  BY DEF SoldOnce, Settled
<1>2. /\ sales[f] <= 1
      /\ sales[f] = 1 => \/ ~ships[f].owned
                         \/ \E k \in Jobs : Settled(jobs[k]) /\ jobs[k].to = Purse(f)
  BY <1>1 DEF Books, SoldOnce
<1>3. \A k \in Jobs : jobs'[k] = IF k = j THEN job ELSE jobs[k]
  BY DEF TypeOK
<1>4. ASSUME NEW k \in Jobs, Settled(jobs[k]), jobs[k].to = Purse(f)
      PROVE  ~ships'[f].owned \/ \E i \in Jobs : Settled(jobs'[i]) /\ jobs'[i].to = Purse(f)
  <2>1. Purse(f)[2] = f
    BY BalanceKinds, FleetAssumption
  <2>. QED
    BY <1>1, <1>3, <1>4, <2>1
<1>. QED
  BY <1>1, <1>2, <1>4

\* A request after one of its two writes.
After(x, w) == IF x.left \ {w} = {} THEN Resting ELSE [x EXCEPT !.left = x.left \ {w}]

LEMMA AfterDebit ==
  ASSUME NEW x \in JobStates, Shape(x), x.step = "write", x.kind # "supply", "debit" \in x.left
  PROVE  /\ After(x, "debit") \in JobStates /\ Shape(After(x, "debit"))
         /\ x.from # x.to /\ x.kind \in {"transfer", "deposit", "withdraw", "sale"}
         /\ \/ x.left = {"debit"} /\ x.kind = "transfer" /\ After(x, "debit") = Resting
            \/ /\ x.left = {"debit", "credit"}
               /\ After(x, "debit") = [x EXCEPT !.left = {"credit"}]
<1>1. /\ x.kind \in {"transfer", "deposit", "withdraw", "sale"} /\ x.from # x.to
      /\ x.kind = "sale" => \E f \in Fleet : x.from = Purse(Buyer[f]) /\ x.to = Purse(f)
      /\ \/ x.left \in {{"debit", "credit"}, {"credit"}}
         \/ x.left = {"debit"} /\ x.kind = "transfer"
  BY DEF Shape
<1>2. CASE x.left = {"debit"} /\ x.kind = "transfer"
  <2>1. After(x, "debit") = Resting
    BY <1>2 DEF After
  <2>. QED
    BY <1>1, <1>2, <2>1, RestingShape, RestingType
<1>3. CASE x.left = {"debit", "credit"}
  <2>1. x.left \ {"debit"} = {"credit"}
    BY <1>3
  <2>2. After(x, "debit") = [x EXCEPT !.left = {"credit"}]
    BY <2>1 DEF After
  <2>3. [x EXCEPT !.left = {"credit"}] \in JobStates
    BY DEF JobStates
  <2>4. Shape([x EXCEPT !.left = {"credit"}])
    BY <1>1 DEF Shape, JobStates
  <2>. QED
    BY <1>1, <1>3, <2>2, <2>3, <2>4
<1>. QED
  BY <1>1, <1>2, <1>3

LEMMA AfterCredit ==
  ASSUME NEW x \in JobStates, Shape(x), x.step = "write", x.kind # "supply", "credit" \in x.left,
         x.kind = "transfer" \/ "debit" \notin x.left
  PROVE  /\ After(x, "credit") \in JobStates /\ Shape(After(x, "credit"))
         /\ x.from # x.to /\ x.kind \in {"transfer", "deposit", "withdraw", "sale"}
         /\ \/ x.left = {"credit"} /\ After(x, "credit") = Resting
            \/ /\ x.left = {"debit", "credit"} /\ x.kind = "transfer"
               /\ After(x, "credit") = [x EXCEPT !.left = {"debit"}]
<1>1. /\ x.kind \in {"transfer", "deposit", "withdraw", "sale"} /\ x.from # x.to
      /\ x.left \in {{"debit", "credit"}, {"credit"}}
  BY DEF Shape
<1>2. CASE x.left = {"credit"}
  <2>1. After(x, "credit") = Resting
    BY <1>2 DEF After
  <2>. QED
    BY <1>1, <1>2, <2>1, RestingShape, RestingType
<1>3. CASE x.left = {"debit", "credit"}
  <2>1. x.left \ {"credit"} = {"debit"} /\ x.kind = "transfer"
    BY <1>3
  <2>2. After(x, "credit") = [x EXCEPT !.left = {"debit"}]
    BY <2>1 DEF After
  <2>3. [x EXCEPT !.left = {"debit"}] \in JobStates
    BY DEF JobStates
  <2>4. Shape([x EXCEPT !.left = {"debit"}])
    BY <1>1, <2>1 DEF Shape, JobStates
  <2>. QED
    BY <1>1, <1>3, <2>1, <2>2, <2>3, <2>4
<1>. QED
  BY <1>1, <1>2, <1>3

\* What is left to write changes nothing else.
LEMMA LeftFields ==
  ASSUME NEW x \in JobStates, NEW L, NEW y, y = [x EXCEPT !.left = L]
  PROVE  /\ y.step = x.step /\ y.kind = x.kind /\ y.left = L /\ y.from = x.from
         /\ y.to = x.to /\ y.payer = x.payer /\ y.payee = x.payee /\ y.amount = x.amount
  BY DEF JobStates

LEMMA DoneIsAfter ==
  ASSUME NEW j \in Jobs, NEW w, Done(j, w)
  PROVE  jobs' = [jobs EXCEPT ![j] = After(jobs[j], w)]
  BY DEF Done, After

\* The tables stay: so does the worth.
LEMMA SameTables ==
  ASSUME ships' = ships, bank' = bank, paid' = paid
  PROVE  Worth' = Worth /\ \A b : At(ships', bank', b) = At(ships, bank, b)
  BY DEF Worth, Afloat

LEMMA BooksOpen ==
  ASSUME TypeOK, TypeOK', Books, contended' = (contended \/ Contention'), NEW j \in Jobs,
         NEW kind \in {"transfer", "deposit", "withdraw", "sale"},
         NEW from \in Balances, NEW to \in Balances, from # to, NEW n \in Nat,
         Open(j, kind, from, to, n), Held(ships, from),
         kind = "sale" => \E f \in Fleet : from = Purse(Buyer[f]) /\ to = Purse(f)
  PROVE  Books'
<1>. DEFINE job == [Resting EXCEPT !.kind = kind, !.step = "payee", !.from = from,
                                   !.to = to, !.amount = n, !.payer = Balance(from)]
<1>1. job \in JobStates
  BY BalanceType, RestingType DEF JobStates
<1>2. /\ job.step = "payee" /\ job.kind = kind /\ job.left = {}
      /\ job.from = from /\ job.to = to /\ job.payer = At(ships, bank, from)
  BY BalanceIsAt DEF Resting
<1>3. /\ jobs' = [jobs EXCEPT ![j] = job] /\ jobs[j].step = "idle"
      /\ UNCHANGED <<ships, trades, taken, paid, bank, sales, faults>>
  BY DEF Open
<1>. HIDE DEF job
<1>4. Shape(job) /\ Float(job) = 0 /\ Float(jobs[j]) = 0 /\ ~Settled(jobs[j])
  BY <1>2, <1>3 DEF Shape, Float, Settled
<1>5. JobCurrent(ships, bank, job)
  BY <1>2 DEF JobCurrent
<1>6. Shapes' /\ Current' /\ GoodsBalance'
  BY <1>1, <1>3, <1>4, <1>5, JobKeeps
<1>7. Worth' - Float(job) = Worth - Float(jobs[j])
  BY <1>3, <1>4, SameTables
<1>8. Balanced' /\ Covered'
  BY <1>1, <1>3, <1>7, Evens
<1>9. SoldOnce'
  BY <1>1, <1>3, <1>4, SalesKept DEF faults
<1>10. PilotsAfloat' /\ Tallies'
  BY <1>3 DEF Books, PilotsAfloat, Tallies, faults
<1>. QED
  BY <1>6, <1>8, <1>9, <1>10 DEF Books

LEMMA BooksCall ==
  ASSUME TypeOK, TypeOK', Books, contended' = (contended \/ Contention'), NEW j \in Jobs,
         Transfer(j) \/ Deposit(j) \/ Withdraw(j) \/ Sell(j)
  PROVE  Books'
<1>1. CASE Transfer(j)
  <2>1. PICK a \in Ships, b \in Ships, n \in Amounts :
          a # b /\ ships[a].owned /\ Open(j, "transfer", Purse(a), Purse(b), n)
    BY <1>1 DEF Transfer
  <2>2. Held(ships, Purse(a)) /\ Purse(a) # Purse(b) /\ n \in Nat
    BY <2>1, AmountsAssumption DEF Held, Purse
  <2>. QED
    BY <2>1, <2>2, BalanceKinds, BooksOpen
<1>2. CASE Deposit(j)
  <2>1. PICK a \in Ships, b \in Pilots, n \in Amounts :
          ships[a].owned /\ Open(j, "deposit", Purse(a), Account(b), n)
    BY <1>2 DEF Deposit
  <2>2. Held(ships, Purse(a)) /\ Purse(a) # Account(b) /\ n \in Nat
    BY <2>1, AmountsAssumption DEF Held, Purse, Account
  <2>. QED
    BY <2>1, <2>2, BalanceKinds, BooksOpen
<1>3. CASE Withdraw(j)
  <2>1. PICK a \in Pilots, n \in Amounts : Open(j, "withdraw", Account(a), Purse(a), n)
    BY <1>3 DEF Withdraw
  <2>2. Held(ships, Account(a)) /\ Purse(a) # Account(a) /\ n \in Nat
    BY <2>1, AmountsAssumption DEF Held, Purse, Account
  <2>. QED
    BY <2>1, <2>2, BalanceKinds, BooksOpen
<1>4. CASE Sell(j)
  <2>1. PICK f \in Fleet : Open(j, "sale", Purse(Buyer[f]), Purse(f), TradeIn)
    BY <1>4 DEF Sell
  <2>2. Buyer[f] \in Pilots /\ f \in Ships /\ Buyer[f] # f
    BY FleetAssumption DEF Pilots
  <2>3. Held(ships, Purse(Buyer[f])) /\ Purse(Buyer[f]) # Purse(f)
    BY <2>2 DEF Held, Purse, Books, PilotsAfloat
  <2>. QED
    BY <2>1, <2>2, <2>3, AmountsAssumption, BalanceKinds, BooksOpen
<1>. QED
  BY <1>1, <1>2, <1>3, <1>4

LEMMA BooksSupply ==
  ASSUME TypeOK, TypeOK', Books, contended' = (contended \/ Contention'), NEW j \in Jobs,
         Supply(j)
  PROVE  Books'
<1>1. PICK a \in Ships, n \in Amounts :
        LET row == ships[a]
            units == IF row.stores + n > Tank THEN Tank - row.stores ELSE n
        IN  /\ row.owned
            /\ jobs' = [jobs EXCEPT ![j] =
                 [Resting EXCEPT !.kind = "supply", !.step = "write",
                                 !.from = Purse(a), !.to = Purse(a),
                                 !.amount = units, !.payer = row.credits,
                                 !.payee = row.stores]]
  BY DEF Supply
<1>. DEFINE job == jobs'[j]
<1>2. /\ job \in JobStates /\ jobs' = [jobs EXCEPT ![j] = job]
      /\ job.step = "write" /\ job.kind = "supply" /\ job.left = {}
      /\ job.from = Purse(a) /\ job.to = Purse(a) /\ job.payer = ships[a].credits
  BY <1>1 DEF TypeOK, Resting
<1>3. /\ jobs[j].step = "idle"
      /\ UNCHANGED <<ships, trades, taken, paid, bank, sales, faults>>
  BY DEF Supply
<1>. HIDE DEF job
<1>4. Shape(job) /\ Float(job) = 0 /\ Float(jobs[j]) = 0 /\ ~Settled(jobs[j])
  BY <1>2, <1>3, BalanceKinds DEF Shape, Float, Settled
<1>5. JobCurrent(ships, bank, job)
  BY <1>1, <1>2, BalanceKinds DEF JobCurrent, Held, At
<1>6. Shapes' /\ Current' /\ GoodsBalance'
  BY <1>2, <1>3, <1>4, <1>5, JobKeeps
<1>7. Worth' - Float(job) = Worth - Float(jobs[j])
  BY <1>3, <1>4, SameTables
<1>8. Balanced' /\ Covered'
  BY <1>2, <1>3, <1>7, Evens
<1>9. SoldOnce'
  BY <1>2, <1>3, <1>4, SalesKept DEF faults
<1>10. PilotsAfloat' /\ Tallies'
  BY <1>3 DEF Books, PilotsAfloat, Tallies, faults
<1>. QED
  BY <1>6, <1>8, <1>9, <1>10 DEF Books

LEMMA BooksReadPayee ==
  ASSUME TypeOK, TypeOK', Books, contended' = (contended \/ Contention'), NEW j \in Jobs,
         ReadPayee(j)
  PROVE  Books'
<1>. DEFINE x == jobs[j]
            y == [x EXCEPT !.step = "write", !.payee = Balance(x.to),
                           !.left = {"debit", "credit"}]
<1>1. x \in JobStates /\ x.step = "payee" /\ Shape(x)
  BY DEF ReadPayee, TypeOK, Books, Shapes
<1>2. UNCHANGED <<ships, trades, taken, paid, bank, sales, faults>>
  BY DEF ReadPayee, tradeVars
<1>3. PICK job : /\ jobs' = [jobs EXCEPT ![j] = job]
                 /\ (job = y /\ Held(ships, x.to)) \/ job = Resting
  <2>1. CASE (x.to[1] = "purse" => ships[x.to[2]].owned) /\ (x.kind # "sale" => x.payer >= x.amount)
    BY <2>1 DEF ReadPayee, Held
  <2>2. CASE ~((x.to[1] = "purse" => ships[x.to[2]].owned) /\ (x.kind # "sale" => x.payer >= x.amount))
    BY <2>2 DEF ReadPayee
  <2>. QED
    BY <2>1, <2>2
<1>4. /\ y.step = "write" /\ y.kind = x.kind /\ y.left = {"debit", "credit"}
      /\ y.from = x.from /\ y.to = x.to /\ y.payer = x.payer
      /\ y.payee = At(ships, bank, x.to)
  BY <1>1, BalanceIsAt DEF JobStates
<1>5. y \in JobStates
  <2>1. Balance(x.to) \in Int
    BY <1>1, BalanceType DEF JobStates
  <2>. QED
    BY <1>1, <2>1 DEF JobStates
<1>6. Shape(y) /\ Float(y) = 0 /\ Float(x) = 0 /\ ~Settled(x)
  <2>. HIDE DEF y, x
  <2>1. "credit" # "debit"
    OBVIOUS
  <2>2. Shape(y)
    BY <1>1, <1>4 DEF Shape
  <2>3. Float(y) = 0
    BY <1>4, <2>1 DEF Float
  <2>. QED
    BY <1>1, <2>2, <2>3 DEF Float, Settled
<1>7. ~contended' => JobCurrent(ships, bank, x)
  BY DEF Books, Current
<1>. HIDE DEF y, x
<1>8. ~contended' => JobCurrent(ships, bank, job)
  <2>1. ASSUME ~contended', Held(ships, x.to) PROVE JobCurrent(ships, bank, y)
    BY <1>1, <1>4, <1>7, <2>1 DEF JobCurrent
  <2>2. JobCurrent(ships, bank, Resting)
    BY DEF JobCurrent, Resting
  <2>. QED
    BY <1>3, <2>1, <2>2
<1>9. job \in JobStates /\ Shape(job) /\ Float(job) = 0
  BY <1>3, <1>5, <1>6, RestingType, RestingShape
<1>10. Shapes' /\ Current' /\ GoodsBalance'
  BY <1>2, <1>3, <1>8, <1>9, JobKeeps
<1>11. Worth' - Float(job) = Worth - Float(jobs[j])
  BY <1>2, <1>6, <1>9, SameTables DEF x
<1>12. Balanced' /\ Covered'
  BY <1>2, <1>3, <1>9, <1>11, Evens
<1>13. SoldOnce'
  BY <1>2, <1>3, <1>6, <1>9, SalesKept DEF faults, x
<1>14. PilotsAfloat' /\ Tallies'
  BY <1>2 DEF Books, PilotsAfloat, Tallies, faults
<1>. QED
  BY <1>10, <1>12, <1>13, <1>14 DEF Books

LEMMA BooksDebit ==
  ASSUME TypeOK, TypeOK', Books, contended' = (contended \/ Contention'), NEW j \in Jobs,
         Debit(j)
  PROVE  Books'
<1>. DEFINE x == jobs[j]
            job == After(x, "debit")
            n == x.payer - x.amount
<1>1. /\ x \in JobStates /\ x.from \in Balances /\ x.to \in Balances /\ n \in Int
      /\ x.payer \in Int /\ x.amount \in Int
  BY DEF TypeOK, JobStates
<1>2. /\ Shape(x) /\ x.step = "write" /\ x.kind \in {"transfer", "deposit", "withdraw"}
      /\ "debit" \in x.left
  BY DEF Debit, Moves, Books, Shapes
<1>3. /\ UNCHANGED <<trades, taken, paid, sales, faults>>
      /\ SetBalance(x.from, n) /\ jobs' = [jobs EXCEPT ![j] = job]
  BY DoneIsAfter DEF Debit
<1>4. ~contended' => JobCurrent(ships, bank, x)
  BY DEF Books, Current
<1>5. /\ JobTouches(j) = {x.from, x.to}
  BY <1>2 DEF JobTouches
<1>6. /\ job \in JobStates /\ Shape(job) /\ x.from # x.to
      /\ \/ x.left = {"debit"} /\ x.kind = "transfer" /\ job = Resting
         \/ x.left = {"debit", "credit"} /\ job = [x EXCEPT !.left = {"credit"}]
  BY <1>1, <1>2, AfterDebit
<1>7. /\ At(ships', bank', x.from) = n
      /\ \A c \in Balances \ {x.from} : At(ships', bank', c) = At(ships, bank, c)
      /\ \A s \in Ships : ships'[s].owned = ships[s].owned /\ ships'[s].cargo = ships[s].cargo
      /\ Held(ships, x.from) =>
           ShipWorth' + BankWorth' = ShipWorth + BankWorth - At(ships, bank, x.from) + n
  BY <1>1, <1>3, BalanceWritten
<1>8. \A b \in Balances : Held(ships', b) <=> Held(ships, b)
  BY <1>7, BalanceKinds DEF Held, Pilots
<1>9. \/ x.left = {"debit"} /\ x.kind = "transfer" /\ job = Resting
      \/ /\ job.step = "write" /\ job.kind = x.kind /\ job.left = {"credit"}
         /\ job.from = x.from /\ job.to = x.to /\ job.payee = x.payee
         /\ job.amount = x.amount /\ x.left = {"debit", "credit"}
  <2>. HIDE DEF x, job
  <2>1. CASE job = [x EXCEPT !.left = {"credit"}] /\ x.left = {"debit", "credit"}
    <3>1. /\ job.step = x.step /\ job.kind = x.kind /\ job.left = {"credit"}
          /\ job.from = x.from /\ job.to = x.to /\ job.payer = x.payer
          /\ job.payee = x.payee /\ job.amount = x.amount
      BY <1>1, <2>1, LeftFields
    <3>. QED
      BY <1>2, <2>1, <3>1
  <2>. QED
    BY <1>6, <2>1
<1>10. JobCurrent(ships', bank', Resting)
  BY DEF JobCurrent, Resting
<1>. HIDE DEF x, job
<1>11. ~contended' => JobCurrent(ships', bank', job)
  BY <1>1, <1>2, <1>4, <1>6, <1>7, <1>8, <1>9, <1>10 DEF JobCurrent
<1>12. Shapes' /\ Current' /\ GoodsBalance'
  <2>1. \A b \in Balances \ JobTouches(j) : /\ At(ships', bank', b) = At(ships, bank, b)
                                            /\ Held(ships, b) => Held(ships', b)
    BY <1>5, <1>7, <1>8
  <2>. QED
    BY <1>3, <1>6, <1>7, <1>11, <2>1, JobKeeps
<1>13. Float(job) = Float(x) - x.amount
  <2>1. CASE x.left = {"debit"} /\ x.kind = "transfer" /\ job = Resting
    <3>1. Float(x) = x.amount
      BY <1>2, <2>1 DEF Float
    <3>. QED
      BY <1>1, <2>1, <3>1, RestingShape
  <2>2. CASE job.step = "write"
    <3>1. "credit" # "debit" /\ x.kind # "sale"
      BY <1>2
    <3>2. Float(x) = 0
      BY <1>2, <1>9, <2>2, <3>1, RestingType DEF Float
    <3>3. Float(job) = -x.amount
      BY <1>9, <2>2, <3>1, RestingType DEF Float
    <3>. QED
      BY <1>1, <3>2, <3>3
  <2>. QED
    BY <1>9, <2>1, <2>2
<1>14. ~contended' => Worth' - Float(job) = Worth - Float(x)
  <2>1. ASSUME ~contended'
        PROVE  ShipWorth' + BankWorth' = ShipWorth + BankWorth - x.amount
    <3>1. Held(ships, x.from) /\ At(ships, bank, x.from) = x.payer
      BY <1>2, <1>4, <2>1 DEF JobCurrent
    <3>2. ShipWorth \in Int /\ BankWorth \in Int
      BY WorthType
    <3>. QED
      BY <1>1, <1>7, <3>1, <3>2 DEF n
  <2>2. /\ ShipWorth \in Int /\ BankWorth \in Int /\ paid \in Int /\ paid' = paid
        /\ Worth = ShipWorth + BankWorth + paid /\ Worth' = ShipWorth' + BankWorth' + paid'
        /\ ShipWorth' \in Int /\ BankWorth' \in Int /\ Float(x) \in Int
    BY <1>1, <1>3, WorthType, NextWorth, NextWorthType, FloatType DEF TypeOK
  <2>. QED
    BY <1>1, <1>13, <2>1, <2>2
<1>15. Balanced' /\ Covered'
  BY <1>3, <1>6, <1>14, Evens DEF x
<1>16. ~Settled(x)
  BY <1>2 DEF Settled
<1>17. SoldOnce'
  <2>1. \A f \in Fleet : ships'[f].owned => ships[f].owned
    BY <1>7, FleetAssumption
  <2>. QED
    BY <1>3, <1>6, <1>16, <2>1, SalesKept DEF x, faults
<1>18. PilotsAfloat' /\ Tallies'
  <2>1. PilotsAfloat'
    BY <1>7, PilotsFinite DEF Books, PilotsAfloat
  <2>. QED
    BY <1>3, <2>1 DEF Books, Tallies, faults
<1>. QED
  BY <1>12, <1>15, <1>17, <1>18 DEF Books

LEMMA BooksCredit ==
  ASSUME TypeOK, TypeOK', Books, contended' = (contended \/ Contention'), NEW j \in Jobs,
         Credit(j)
  PROVE  Books'
<1>. DEFINE x == jobs[j]
            job == After(x, "credit")
            n == x.payee + x.amount
<1>1. /\ x \in JobStates /\ x.from \in Balances /\ x.to \in Balances /\ n \in Int
      /\ x.payee \in Int /\ x.amount \in Int
  BY DEF TypeOK, JobStates
<1>2. /\ Shape(x) /\ x.step = "write" /\ x.kind \in {"transfer", "deposit", "withdraw"}
      /\ "credit" \in x.left /\ (x.kind = "transfer" \/ "debit" \notin x.left)
  BY DEF Credit, Moves, Books, Shapes
<1>3. /\ UNCHANGED <<trades, taken, paid, sales, faults>>
      /\ SetBalance(x.to, n) /\ jobs' = [jobs EXCEPT ![j] = job]
  BY DoneIsAfter DEF Credit
<1>4. ~contended' => JobCurrent(ships, bank, x)
  BY DEF Books, Current
<1>5. /\ JobTouches(j) = {x.from, x.to}
  BY <1>2 DEF JobTouches
<1>6. /\ job \in JobStates /\ Shape(job) /\ x.from # x.to
      /\ \/ x.left = {"credit"} /\ job = Resting
         \/ x.left = {"debit", "credit"} /\ job = [x EXCEPT !.left = {"debit"}]
  BY <1>1, <1>2, AfterCredit
<1>7. /\ At(ships', bank', x.to) = n
      /\ \A c \in Balances \ {x.to} : At(ships', bank', c) = At(ships, bank, c)
      /\ \A s \in Ships : ships'[s].owned = ships[s].owned /\ ships'[s].cargo = ships[s].cargo
      /\ Held(ships, x.to) =>
           ShipWorth' + BankWorth' = ShipWorth + BankWorth - At(ships, bank, x.to) + n
  BY <1>1, <1>3, BalanceWritten
<1>8. \A b \in Balances : Held(ships', b) <=> Held(ships, b)
  BY <1>7, BalanceKinds DEF Held, Pilots
<1>9. \/ x.left = {"credit"} /\ job = Resting
      \/ /\ job.step = "write" /\ job.kind = x.kind /\ job.left = {"debit"}
         /\ job.from = x.from /\ job.to = x.to /\ job.payer = x.payer
         /\ job.amount = x.amount /\ x.left = {"debit", "credit"}
  <2>. HIDE DEF x, job
  <2>1. CASE job = [x EXCEPT !.left = {"debit"}] /\ x.left = {"debit", "credit"}
    <3>1. /\ job.step = x.step /\ job.kind = x.kind /\ job.left = {"debit"}
          /\ job.from = x.from /\ job.to = x.to /\ job.payer = x.payer
          /\ job.payee = x.payee /\ job.amount = x.amount
      BY <1>1, <2>1, LeftFields
    <3>. QED
      BY <1>2, <2>1, <3>1
  <2>. QED
    BY <1>6, <2>1
<1>10. JobCurrent(ships', bank', Resting)
  BY DEF JobCurrent, Resting
<1>. HIDE DEF x, job
<1>11. ~contended' => JobCurrent(ships', bank', job)
  BY <1>1, <1>2, <1>4, <1>6, <1>7, <1>8, <1>9, <1>10 DEF JobCurrent
<1>12. Shapes' /\ Current' /\ GoodsBalance'
  <2>1. \A b \in Balances \ JobTouches(j) : /\ At(ships', bank', b) = At(ships, bank, b)
                                            /\ Held(ships, b) => Held(ships', b)
    BY <1>5, <1>7, <1>8
  <2>. QED
    BY <1>3, <1>6, <1>7, <1>11, <2>1, JobKeeps
<1>13. Float(job) = Float(x) + x.amount
  <2>0. "credit" # "debit" /\ x.kind # "sale"
    BY <1>2
  <2>1. CASE x.left = {"credit"} /\ job = Resting
    <3>1. Float(x) = -x.amount
      BY <1>2, <2>0, <2>1 DEF Float
    <3>. QED
      BY <1>1, <2>1, <3>1, RestingShape
  <2>2. CASE job.step = "write"
    <3>1. Float(x) = 0
      BY <1>2, <1>9, <2>2, <2>0, RestingType DEF Float
    <3>2. Float(job) = x.amount
      BY <1>9, <2>2, <2>0, RestingType DEF Float
    <3>. QED
      BY <1>1, <3>1, <3>2
  <2>. QED
    BY <1>9, <2>1, <2>2
<1>14. ~contended' => Worth' - Float(job) = Worth - Float(x)
  <2>1. ASSUME ~contended'
        PROVE  ShipWorth' + BankWorth' = ShipWorth + BankWorth + x.amount
    <3>1. Held(ships, x.to) /\ At(ships, bank, x.to) = x.payee
      BY <1>2, <1>4, <2>1 DEF JobCurrent
    <3>2. ShipWorth \in Int /\ BankWorth \in Int
      BY WorthType
    <3>. QED
      BY <1>1, <1>7, <3>1, <3>2 DEF n
  <2>2. /\ ShipWorth \in Int /\ BankWorth \in Int /\ paid \in Int /\ paid' = paid
        /\ Worth = ShipWorth + BankWorth + paid /\ Worth' = ShipWorth' + BankWorth' + paid'
        /\ ShipWorth' \in Int /\ BankWorth' \in Int /\ Float(x) \in Int
    BY <1>1, <1>3, WorthType, NextWorth, NextWorthType, FloatType DEF TypeOK
  <2>. QED
    BY <1>1, <1>13, <2>1, <2>2
<1>15. Balanced' /\ Covered'
  BY <1>3, <1>6, <1>14, Evens DEF x
<1>16. ~Settled(x)
  BY <1>2 DEF Settled
<1>17. SoldOnce'
  <2>1. \A f \in Fleet : ships'[f].owned => ships[f].owned
    BY <1>7, FleetAssumption
  <2>. QED
    BY <1>3, <1>6, <1>16, <2>1, SalesKept DEF x, faults
<1>18. PilotsAfloat' /\ Tallies'
  <2>1. PilotsAfloat'
    BY <1>7, PilotsFinite DEF Books, PilotsAfloat
  <2>. QED
    BY <1>3, <2>1 DEF Books, Tallies, faults
<1>. QED
  BY <1>12, <1>15, <1>17, <1>18 DEF Books

\* One row, one statement: what the ship pays the game has.
LEMMA BooksSupplied ==
  ASSUME TypeOK, TypeOK', Books, contended' = (contended \/ Contention'), NEW j \in Jobs,
         Supplied(j)
  PROVE  Books'
<1>. DEFINE x == jobs[j]
            s == x.from[2]
            c == x.amount * UnitPrice
<1>1. /\ x \in JobStates /\ x.from \in Balances /\ x.payer \in Int /\ c \in Int
      /\ x.payee \in Int /\ x.amount \in Int /\ paid \in Int
  BY AmountsAssumption DEF TypeOK, JobStates
<1>2. /\ Shape(x) /\ x.kind = "supply"
  BY DEF Supplied, Books, Shapes
<1>3. x.step = "write" /\ x.left = {} /\ x.from = x.to /\ x.from[1] = "purse"
  BY <1>2 DEF Shape
<1>4. s \in Ships /\ x.from = Purse(s)
  BY <1>1, <1>3, PurseOf, ZenonT(30)
<1>5. /\ UNCHANGED <<trades, taken, bank, sales, faults>>
      /\ jobs' = [jobs EXCEPT ![j] = Resting] /\ paid' = paid + c
      /\ ships'[s].credits = x.payer - c
      /\ \A t \in Ships \ {s} : ships'[t] = ships[t]
      /\ \A t \in Ships : ships'[t].owned = ships[t].owned /\ ships'[t].cargo = ships[t].cargo
  <2>1. ships' = [ships EXCEPT ![s].credits = x.payer - c, ![s].stores = x.payee + x.amount]
    BY DEF Supplied
  <2>2. ships[s] \in Rows /\ ships \in [Ships -> Rows]
    BY <1>4 DEF TypeOK
  <2>. HIDE DEF s, x, c
  <2>3. /\ ships'[s].credits = x.payer - c
        /\ \A t \in Ships \ {s} : ships'[t] = ships[t]
        /\ \A t \in Ships : ships'[t].owned = ships[t].owned /\ ships'[t].cargo = ships[t].cargo
    BY <1>4, <2>1, <2>2 DEF Rows
  <2>. QED
    BY <2>3, ZenonT(30) DEF Supplied, x, c
<1>6. JobTouches(j) = {x.from}
  BY <1>3 DEF JobTouches
<1>7. \A b \in Balances \ JobTouches(j) : At(ships', bank', b) = At(ships, bank, b)
  <2>1. ASSUME NEW b \in Balances \ JobTouches(j)
        PROVE  At(ships', bank', b) = At(ships, bank, b)
    <3>1. b[1] = "purse" => b[2] \in Ships /\ b = Purse(b[2])
      BY PurseOf
    <3>2. b[1] = "purse" => b[2] # s
      BY <1>4, <1>6, <3>1
    <3>. QED
      BY <1>5, <3>1, <3>2 DEF At
  <2>. QED
    BY <2>1
<1>8. \A b \in Balances : Held(ships', b) <=> Held(ships, b)
  BY <1>5, BalanceKinds DEF Held
<1>9. ~contended' => x.payer = ships[s].credits /\ ships[s].owned
  <2>1. ~contended' => JobCurrent(ships, bank, x)
    BY DEF Books, Current
  <2>. QED
    BY <1>2, <1>3, <2>1 DEF JobCurrent, At, Held
<1>. HIDE DEF x, s, c
<1>10. JobCurrent(ships', bank', Resting)
  BY DEF JobCurrent, Resting
<1>11. Shapes' /\ Current' /\ GoodsBalance'
  BY <1>5, <1>7, <1>8, <1>10, RestingType, RestingShape, JobKeeps
<1>12. Float(x) = 0 /\ ~Settled(x)
  BY <1>2, <1>3 DEF Float, Settled
<1>13. ~contended' => Worth' - Float(Resting) = Worth - Float(x)
  <2>1. ASSUME ~contended' PROVE ShipWorth' = ShipWorth - c
    <3>1. ShipWorth' = ShipWorth - ships[s].credits + ships'[s].credits
      BY <1>4, <1>5, <1>9, <2>1, ShipWorthChanges
    <3>2. ShipWorth \in Int
      BY WorthType
    <3>. QED
      BY <1>1, <1>5, <1>9, <2>1, <3>1, <3>2
  <2>2. /\ ShipWorth \in Int /\ BankWorth \in Int /\ BankWorth' = BankWorth
        /\ Worth = ShipWorth + BankWorth + paid /\ Worth' = ShipWorth' + BankWorth' + paid'
    BY <1>5, WorthType, NextWorth DEF BankWorth
  <2>. QED
    BY <1>1, <1>5, <1>12, <2>1, <2>2, RestingShape
<1>14. Balanced' /\ Covered'
  BY <1>5, <1>13, RestingType, Evens DEF x
<1>15. SoldOnce'
  <2>1. \A f \in Fleet : ships'[f].owned => ships[f].owned
    BY <1>5, FleetAssumption
  <2>. QED
    BY <1>5, <1>12, <2>1, RestingType, SalesKept DEF x, faults
<1>16. PilotsAfloat' /\ Tallies'
  <2>1. PilotsAfloat'
    BY <1>5, PilotsFinite DEF Books, PilotsAfloat
  <2>. QED
    BY <1>5, <2>1 DEF Books, Tallies, faults
<1>. QED
  BY <1>11, <1>14, <1>15, <1>16 DEF Books

\* The seller is paid: the ship's credits count twice until it is scrapped.
LEMMA BooksPaySeller ==
  ASSUME TypeOK, TypeOK', Books, contended' = (contended \/ Contention'), NEW j \in Jobs,
         PaySeller(j)
  PROVE  Books'
<1>. DEFINE x == jobs[j]
            job == After(x, "debit")
            n == x.payer + x.amount + x.payee
<1>1. /\ x \in JobStates /\ x.from \in Balances /\ x.to \in Balances /\ n \in Int
      /\ x.payer \in Int /\ x.payee \in Int /\ x.amount \in Int /\ paid \in Int
  BY DEF TypeOK, JobStates
<1>2. /\ Shape(x) /\ x.step = "write" /\ x.kind = "sale" /\ "debit" \in x.left
  BY DEF PaySeller, Books, Shapes
<1>3. PICK f \in Fleet : x.from = Purse(Buyer[f]) /\ x.to = Purse(f)
  BY <1>2 DEF Shape
<1>4. f \in Ships /\ x.to[2] = f /\ x.to[1] = "purse"
  BY <1>3, FleetAssumption, BalanceKinds
<1>5. /\ UNCHANGED <<trades, taken, faults>> /\ paid' = paid - x.amount
      /\ SetBalance(x.from, n) /\ jobs' = [jobs EXCEPT ![j] = job]
      /\ sales' = [sales EXCEPT ![f] = @ + 1]
  BY <1>4, DoneIsAfter DEF PaySeller
<1>6. ~contended' => JobCurrent(ships, bank, x) /\ ~contended
  BY DEF Books, Current
<1>7. JobTouches(j) = {x.from, x.to}
  BY <1>2 DEF JobTouches
<1>8. /\ job \in JobStates /\ Shape(job) /\ x.from # x.to
      /\ x.left = {"debit", "credit"} /\ job = [x EXCEPT !.left = {"credit"}]
  BY <1>1, <1>2, AfterDebit
<1>9. /\ At(ships', bank', x.from) = n
      /\ \A c \in Balances \ {x.from} : At(ships', bank', c) = At(ships, bank, c)
      /\ \A s \in Ships : ships'[s].owned = ships[s].owned /\ ships'[s].cargo = ships[s].cargo
      /\ Held(ships, x.from) =>
           ShipWorth' + BankWorth' = ShipWorth + BankWorth - At(ships, bank, x.from) + n
  BY <1>1, <1>5, BalanceWritten
<1>10. \A b \in Balances : Held(ships', b) <=> Held(ships, b)
  BY <1>9, BalanceKinds DEF Held, Pilots
<1>. HIDE DEF x, job
<1>11. /\ job.step = "write" /\ job.kind = "sale" /\ job.left = {"credit"}
       /\ job.from = x.from /\ job.to = x.to /\ job.payee = x.payee
  BY <1>1, <1>2, <1>8, LeftFields
<1>12. ~contended' => JobCurrent(ships', bank', job)
  BY <1>1, <1>2, <1>6, <1>8, <1>9, <1>10, <1>11 DEF JobCurrent
<1>13. Shapes' /\ Current' /\ GoodsBalance'
  <2>1. \A b \in Balances \ JobTouches(j) : /\ At(ships', bank', b) = At(ships, bank, b)
                                            /\ Held(ships, b) => Held(ships', b)
    BY <1>7, <1>9, <1>10
  <2>. QED
    BY <1>5, <1>8, <1>9, <1>12, <2>1, JobKeeps
<1>14. Float(x) = 0 /\ Float(job) = x.payee /\ Settled(job)
  BY <1>2, <1>11 DEF Float, Settled
<1>15. ~contended' => Worth' - Float(job) = Worth - Float(x)
  <2>1. ASSUME ~contended'
        PROVE  ShipWorth' + BankWorth' = ShipWorth + BankWorth + x.amount + x.payee
    <3>1. Held(ships, x.from) /\ At(ships, bank, x.from) = x.payer
      BY <1>2, <1>6, <2>1 DEF JobCurrent
    <3>2. ShipWorth \in Int /\ BankWorth \in Int
      BY WorthType
    <3>. QED
      BY <1>1, <1>9, <3>1, <3>2 DEF n
  <2>2. /\ ShipWorth \in Int /\ BankWorth \in Int
        /\ Worth = ShipWorth + BankWorth + paid /\ Worth' = ShipWorth' + BankWorth' + paid'
        /\ ShipWorth' \in Int /\ BankWorth' \in Int
    BY WorthType, NextWorth, NextWorthType
  <2>. QED
    BY <1>1, <1>5, <1>14, <2>1, <2>2
<1>16. Balanced' /\ Covered'
  BY <1>5, <1>8, <1>15, Evens DEF x
<1>17. \A k \in Jobs : jobs'[k] = IF k = j THEN job ELSE jobs[k]
  BY <1>5 DEF TypeOK
<1>18. ~contended' /\ "sale" \notin cut => sales[f] = 0
  <2>1. ASSUME ~contended', "sale" \notin cut, sales[f] # 0 PROVE FALSE
    <3>1. sales[f] = 1 /\ ships[f].owned
      <4>1. sales[f] <= 1 /\ sales[f] \in Nat
        BY <1>6, <2>1 DEF Books, SoldOnce, Tallies
      <4>2. Held(ships, x.to)
        BY <1>2, <1>6, <2>1 DEF JobCurrent
      <4>. QED
        BY <1>4, <2>1, <4>1, <4>2 DEF Held
    <3>2. PICK k \in Jobs : Settled(jobs[k]) /\ jobs[k].to = Purse(f)
      BY <1>6, <2>1, <3>1 DEF Books, SoldOnce
    <3>3. k # j
      BY <1>2, <3>2 DEF Settled, x
    <3>4. jobs[k].to \in JobTouches(k) /\ x.to \in JobTouches(j)
      BY <1>7, <3>2 DEF JobTouches, Settled
    <3>5. JobTouches(j) \cap JobTouches(k) = {}
      BY <1>6, <2>1, <3>3, Apart DEF Books, Current
    <3>. QED
      BY <1>3, <3>2, <3>4, <3>5
  <2>. QED
    BY <2>1
<1>19. SoldOnce'
  <2>1. SUFFICES ASSUME ~contended', "sale" \notin cut, NEW g \in Fleet
        PROVE  /\ sales'[g] <= 1
               /\ sales'[g] = 1 => \/ ~ships'[g].owned
                                   \/ \E k \in Jobs : Settled(jobs'[k]) /\ jobs'[k].to = Purse(g)
    BY <1>5 DEF SoldOnce, Settled, faults
  <2>2. CASE g = f
    BY <1>3, <1>5, <1>11, <1>14, <1>17, <1>18, <2>1, <2>2 DEF Books, Tallies
  <2>3. CASE g # f
    <3>1. sales'[g] = sales[g] /\ ships'[g].owned = ships[g].owned
      BY <1>5, <1>9, <2>3, FleetAssumption DEF Books, Tallies
    <3>2. /\ sales[g] <= 1
          /\ sales[g] = 1 => \/ ~ships[g].owned
                             \/ \E k \in Jobs : Settled(jobs[k]) /\ jobs[k].to = Purse(g)
      BY <1>6, <2>1 DEF Books, SoldOnce
    <3>3. ASSUME NEW k \in Jobs, Settled(jobs[k])
          PROVE  k # j
      BY <1>2, <3>3 DEF Settled, x
    <3>. QED
      BY <1>17, <3>1, <3>2, <3>3
  <2>. QED
    BY <2>2, <2>3
<1>20. PilotsAfloat' /\ Tallies'
  <2>1. PilotsAfloat'
    BY <1>9, PilotsFinite DEF Books, PilotsAfloat
  <2>2. sales' \in [Fleet -> Nat]
    BY <1>5 DEF Books, Tallies
  <2>. QED
    BY <1>5, <2>1, <2>2 DEF Books, Tallies, faults
<1>. QED
  BY <1>13, <1>16, <1>19, <1>20 DEF Books

\* A ship nobody owns any more counts no more.
LEMMA ShipWorthLoses ==
  ASSUME TypeOK, TypeOK', NEW s \in Ships, ships[s].owned, ~ships'[s].owned,
         \A t \in Ships : ships'[t].credits = ships[t].credits,
         \A t \in Ships \ {s} : ships'[t].owned = ships[t].owned
  PROVE  ShipWorth' = ShipWorth - ships[s].credits
<1>1. Afloat' = Afloat \ {s} /\ s \in Afloat
  BY DEF Afloat
<1>. DEFINE f == [t \in Ships |-> ships[t].credits]
<1>2. /\ \A t \in Afloat : f[t] \in Int
      /\ f[s] = ships[s].credits
  BY PilotsFinite DEF TypeOK, Rows
<1>3. f = [t \in Ships |-> ships'[t].credits]
  OBVIOUS
<1>4. ShipWorth = SumFunctionOnSet(f, Afloat) /\ ShipWorth' = SumFunctionOnSet(f, Afloat \ {s})
  BY <1>1, <1>3 DEF ShipWorth
<1>. HIDE DEF f
<1>5. SumFunctionOnSet(f, Afloat) = f[s] + SumFunctionOnSet(f, Afloat \ {s})
  BY <1>1, <1>2, PilotsFinite, SumTakesOut
<1>6. SumFunctionOnSet(f, Afloat \ {s}) \in Int
  <2>1. IsFiniteSet(Afloat \ {s})
    BY PilotsFinite, FS_Subset
  <2>. QED
    BY <1>2, <2>1, SumIsInt
<1>7. f[s] \in Int
  BY <1>1, <1>2
<1>. QED
  BY <1>2, <1>4, <1>5, <1>6, <1>7

LEMMA BooksScrap ==
  ASSUME TypeOK, TypeOK', Books, contended' = (contended \/ Contention'), NEW j \in Jobs,
         Scrap(j)
  PROVE  Books'
<1>. DEFINE x == jobs[j]
<1>1. /\ x \in JobStates /\ x.from \in Balances /\ x.to \in Balances /\ x.payee \in Int
  BY DEF TypeOK, JobStates
<1>2. /\ Shape(x) /\ x.step = "write" /\ x.kind = "sale" /\ "debit" \notin x.left
  BY DEF Scrap, Books, Shapes
<1>3. PICK f \in Fleet : x.from = Purse(Buyer[f]) /\ x.to = Purse(f)
  BY <1>2 DEF Shape
<1>4. f \in Ships /\ x.to[2] = f /\ x.to[1] = "purse" /\ f \notin Pilots
  BY <1>3, FleetAssumption, BalanceKinds DEF Pilots
<1>5. x.left = {"credit"}
  BY <1>2 DEF Shape
<1>6. /\ UNCHANGED <<trades, taken, paid, bank, sales, faults>>
      /\ jobs' = [jobs EXCEPT ![j] = Resting]
      /\ ships' = [ships EXCEPT ![f].owned = FALSE]
  <2>1. x.left \ {"credit"} = {}
    BY <1>5
  <2>. QED
    BY <1>4, <2>1, DoneIsAfter DEF Scrap, After
<1>7. /\ ~ships'[f].owned
      /\ \A s \in Ships : ships'[s].credits = ships[s].credits /\ ships'[s].cargo = ships[s].cargo
      /\ \A s \in Ships \ {f} : ships'[s].owned = ships[s].owned
  BY <1>4, <1>6 DEF TypeOK, Rows
<1>8. JobTouches(j) = {x.from, x.to}
  BY <1>2 DEF JobTouches
<1>9. ~contended' => JobCurrent(ships, bank, x)
  BY DEF Books, Current
<1>10. ~contended' => x.payee = ships[f].credits /\ ships[f].owned
  BY <1>2, <1>4, <1>5, <1>9 DEF JobCurrent, At, Held
<1>. HIDE DEF x
<1>11. \A b \in Balances \ JobTouches(j) : /\ At(ships', bank', b) = At(ships, bank, b)
                                           /\ Held(ships, b) => Held(ships', b)
  <2>1. ASSUME NEW b \in Balances \ JobTouches(j)
        PROVE  /\ At(ships', bank', b) = At(ships, bank, b)
               /\ Held(ships, b) => Held(ships', b)
    <3>1. b[1] = "purse" => b[2] \in Ships /\ b = Purse(b[2])
      BY PurseOf
    <3>2. b[1] = "purse" => b[2] # f
      BY <1>3, <1>8, <3>1
    <3>. QED
      BY <1>6, <1>7, <3>1, <3>2 DEF At, Held
  <2>. QED
    BY <2>1
<1>12. JobCurrent(ships', bank', Resting)
  BY DEF JobCurrent, Resting
<1>13. Shapes' /\ Current' /\ GoodsBalance'
  BY <1>6, <1>7, <1>11, <1>12, RestingType, RestingShape, JobKeeps
<1>14. Float(x) = x.payee
  BY <1>2 DEF Float
<1>15. ~contended' => Worth' - Float(Resting) = Worth - Float(x)
  <2>1. ASSUME ~contended' PROVE ShipWorth' = ShipWorth - x.payee
    BY <1>4, <1>7, <1>10, <2>1, ShipWorthLoses
  <2>2. /\ ShipWorth \in Int /\ BankWorth \in Int /\ BankWorth' = BankWorth /\ paid \in Int
        /\ Worth = ShipWorth + BankWorth + paid /\ Worth' = ShipWorth' + BankWorth' + paid'
    BY <1>6, WorthType, NextWorth DEF BankWorth, TypeOK
  <2>. QED
    BY <1>1, <1>6, <1>14, <2>1, <2>2, RestingShape
<1>16. Balanced' /\ Covered'
  BY <1>6, <1>15, RestingType, Evens DEF x
<1>17. SoldOnce'
  <2>1. \A g \in Fleet : ships'[g].owned => ships[g].owned
    BY <1>7, FleetAssumption
  <2>. QED
    BY <1>4, <1>6, <1>7, <2>1, RestingType, SalesKept DEF x, faults
<1>18. PilotsAfloat' /\ Tallies'
  <2>1. PilotsAfloat'
    BY <1>4, <1>7, PilotsFinite DEF Books, PilotsAfloat
  <2>. QED
    BY <1>6, <2>1 DEF Books, Tallies, faults
<1>. QED
  BY <1>13, <1>16, <1>17, <1>18 DEF Books

\* What is cut short makes no credits, unless it pays before it is paid, or
\* does not look whether it was.
LEMMA Faulty ==
  ASSUME TypeOK, TypeOK', Books, NEW j \in Jobs, NEW job \in JobStates,
         jobs' = [jobs EXCEPT ![j] = job], contended' = (contended \/ Contention'),
         Worth' = Worth, cut' = cut \cup {jobs[j].kind},
         kills' \in Nat, failures' \in Nat, failures <= failures',
         kills' > 0 \/ failures' > 0,
         \/ jobs[j].kind \in Lavish
         \/ jobs[j].kind = "withdraw" /\ failures' > 0
         \/ Float(jobs[j]) <= Float(job)
  PROVE  Balanced' /\ Covered'
<1>1. AllFloat' = AllFloat - Float(jobs[j]) + Float(job)
  BY JobFloat
<1>2. /\ AllFloat \in Int /\ OpeningWorth \in Int
      /\ Worth \in Int /\ Float(job) \in Int /\ Float(jobs[j]) \in Int
      /\ failures \in Nat
  BY WorthType, OpeningType, WorthIsInt, FloatType DEF TypeOK, Books, Tallies
<1>3. AllFloat' \in Int /\ OpeningWorth' = OpeningWorth /\ Lavish' = Lavish
  BY <1>1, <1>2 DEF OpeningWorth, Lavish
<1>4. Balanced'
  BY DEF Balanced
<1>5. Covered'
  <2>1. SUFFICES ASSUME ~contended', cut' \cap Lavish = {},
                        "withdraw" \in cut' => failures' = 0
        PROVE  Worth' <= OpeningWorth + AllFloat'
    BY <1>3 DEF Covered
  <2>2. /\ cut \cap Lavish = {} /\ ("withdraw" \in cut => failures = 0)
        /\ jobs[j].kind \notin Lavish /\ ~(jobs[j].kind = "withdraw" /\ failures' > 0)
    BY <1>2, <2>1
  <2>3. Worth <= OpeningWorth + AllFloat
    BY <2>1, <2>2 DEF Books, Covered
  <2>. QED
    BY <1>1, <1>2, <1>3, <2>2, <2>3
<1>. QED
  BY <1>4, <1>5

LEMMA BooksKill ==
  ASSUME TypeOK, TypeOK', Books, contended' = (contended \/ Contention'), NEW j \in Jobs,
         Kill(j)
  PROVE  Books'
<1>. DEFINE x == jobs[j]
<1>1. x \in JobStates /\ Shape(x) /\ x.step # "idle" /\ x.amount \in Nat
  BY DEF TypeOK, JobStates, Kill, Books, Shapes
<1>2. /\ UNCHANGED <<ships, trades, taken, paid, bank, sales, failures>>
      /\ jobs' = [jobs EXCEPT ![j] = Resting]
      /\ kills' = kills + 1 /\ cut' = cut \cup {x.kind}
  BY DEF Kill, tradeVars
<1>3. JobCurrent(ships, bank, Resting)
  BY DEF JobCurrent, Resting
<1>4. Shapes' /\ Current' /\ GoodsBalance'
  BY <1>2, <1>3, RestingType, RestingShape, JobKeeps
<1>. HIDE DEF x
<1>5. x.kind \in Lavish \/ Float(x) <= 0
  <2>1. x.kind \notin Lavish => x.left # {"debit"} /\ x.kind # "sale"
    BY <1>1 DEF Shape, Lavish
  <2>2. -x.amount <= 0
    BY <1>1
  <2>3. x.kind \notin Lavish => Float(x) = 0 \/ Float(x) = -x.amount
    BY <2>1 DEF Float
  <2>. QED
    BY <2>2, <2>3
<1>6. kills' \in Nat /\ kills' > 0 /\ failures' \in Nat /\ failures <= failures'
  BY <1>2 DEF Books, Tallies
<1>7. Balanced' /\ Covered'
  <2>1. Worth' = Worth
    BY <1>2, SameTables
  <2>. QED
    BY <1>2, <1>5, <1>6, <2>1, RestingType, RestingShape, Faulty DEF x
<1>8. Settled(x) => "sale" \in cut'
  BY <1>2 DEF Settled
<1>9. SoldOnce'
  BY <1>2, <1>8, RestingType, SalesKept DEF x
<1>10. PilotsAfloat' /\ Tallies'
  BY <1>2, <1>6 DEF Books, Tallies, PilotsAfloat
<1>. QED
  BY <1>4, <1>7, <1>9, <1>10 DEF Books

LEMMA BooksFail ==
  ASSUME TypeOK, TypeOK', Books, contended' = (contended \/ Contention'), NEW j \in Jobs,
         Fail(j)
  PROVE  Books'
<1>. DEFINE x == jobs[j]
<1>1. /\ x \in JobStates /\ Shape(x) /\ x.step = "write" /\ x.amount \in Nat
      /\ x.kind \in {"transfer", "deposit", "withdraw"}
  BY DEF TypeOK, JobStates, Fail, Moves, Books, Shapes
<1>2. /\ UNCHANGED <<ships, trades, taken, paid, bank, sales, kills>>
      /\ failures' = failures + 1 /\ cut' = cut \cup {x.kind}
  BY DEF Fail, tradeVars
<1>3. JobCurrent(ships, bank, Resting)
  BY DEF JobCurrent, Resting
<1>4. ~contended' => JobCurrent(ships, bank, x)
  BY DEF Books, Current
<1>5. PICK job \in JobStates :
        /\ jobs' = [jobs EXCEPT ![j] = job] /\ Shape(job)
        /\ ~contended' => JobCurrent(ships, bank, job)
        /\ x.kind = "deposit" => job = Resting
  <2>1. CASE x.kind = "deposit" /\ jobs' = [jobs EXCEPT ![j] = Resting]
    BY <1>3, <2>1, RestingType, RestingShape
  <2>2. CASE x.kind # "deposit" /\ "debit" \in x.left /\ Done(j, "debit")
    <3>1. jobs' = [jobs EXCEPT ![j] = After(x, "debit")]
      BY <2>2, DoneIsAfter
    <3>. HIDE DEF x
    <3>2. /\ After(x, "debit") \in JobStates /\ Shape(After(x, "debit"))
          /\ \/ After(x, "debit") = Resting
             \/ /\ x.left = {"debit", "credit"}
                /\ After(x, "debit") = [x EXCEPT !.left = {"credit"}]
      BY <1>1, <2>2, AfterDebit
    <3>. DEFINE job == After(x, "debit")
    <3>. HIDE DEF job
    <3>3. ASSUME ~contended' PROVE JobCurrent(ships, bank, job)
      <4>1. CASE job = [x EXCEPT !.left = {"credit"}] /\ x.left = {"debit", "credit"}
        <5>1. /\ job.step = x.step /\ job.kind = x.kind /\ job.left = {"credit"}
              /\ job.from = x.from /\ job.to = x.to /\ job.payee = x.payee
          BY <1>1, <4>1, LeftFields
        <5>. QED
          BY <1>1, <1>4, <3>3, <4>1, <5>1 DEF JobCurrent
      <4>. QED
        BY <1>3, <3>2, <4>1 DEF job
    <3>. QED
      BY <2>2, <3>1, <3>2, <3>3 DEF job
  <2>3. CASE /\ x.kind # "deposit" /\ "credit" \in x.left
             /\ x.kind = "transfer" \/ "debit" \notin x.left
             /\ Done(j, "credit")
    <3>1. jobs' = [jobs EXCEPT ![j] = After(x, "credit")]
      BY <2>3, DoneIsAfter
    <3>. HIDE DEF x
    <3>2. /\ After(x, "credit") \in JobStates /\ Shape(After(x, "credit"))
          /\ \/ After(x, "credit") = Resting
             \/ /\ x.left = {"debit", "credit"}
                /\ After(x, "credit") = [x EXCEPT !.left = {"debit"}]
      BY <1>1, <2>3, AfterCredit
    <3>. DEFINE job == After(x, "credit")
    <3>. HIDE DEF job
    <3>3. ASSUME ~contended' PROVE JobCurrent(ships, bank, job)
      <4>1. CASE job = [x EXCEPT !.left = {"debit"}] /\ x.left = {"debit", "credit"}
        <5>1. /\ job.step = x.step /\ job.kind = x.kind /\ job.left = {"debit"}
              /\ job.from = x.from /\ job.to = x.to /\ job.payer = x.payer
          BY <1>1, <4>1, LeftFields
        <5>. QED
          BY <1>1, <1>4, <3>3, <4>1, <5>1 DEF JobCurrent
      <4>. QED
        BY <1>3, <3>2, <4>1 DEF job
    <3>. QED
      BY <2>3, <3>1, <3>2, <3>3 DEF job
  <2>. QED
    BY <2>1, <2>2, <2>3 DEF Fail
<1>6. Shapes' /\ Current' /\ GoodsBalance'
  BY <1>2, <1>5, JobKeeps
<1>. HIDE DEF x
<1>7. x.kind \in Lavish \/ x.kind = "withdraw" \/ Float(x) <= Float(job)
  <2>1. CASE x.kind = "deposit"
    <3>1. x.left # {"debit"}
      BY <1>1, <2>1 DEF Shape
    <3>2. Float(x) = 0 \/ Float(x) = -x.amount
      BY <2>1, <3>1 DEF Float
    <3>3. -x.amount <= 0
      BY <1>1
    <3>. QED
      BY <1>5, <2>1, <3>2, <3>3, RestingShape
  <2>. QED
    BY <1>1, <2>1 DEF Lavish
<1>8. kills' \in Nat /\ failures' > 0 /\ failures' \in Nat /\ failures <= failures'
  BY <1>2 DEF Books, Tallies
<1>9. Balanced' /\ Covered'
  <2>1. Worth' = Worth
    BY <1>2, SameTables
  <2>. QED
    BY <1>2, <1>5, <1>7, <1>8, <2>1, Faulty DEF x
<1>10. ~Settled(x)
  BY <1>1 DEF Settled
<1>11. SoldOnce'
  BY <1>2, <1>5, <1>10, SalesKept DEF x
<1>12. PilotsAfloat' /\ Tallies'
  BY <1>2, <1>8 DEF Books, Tallies, PilotsAfloat
<1>. QED
  BY <1>6, <1>9, <1>11, <1>12 DEF Books

\* The tables and the requests stay: a trade opens, reads the port or gives up,
\* or the port changes.
LEMMA BooksTables ==
  ASSUME TypeOK, Books, contended => contended', ~contended' => ~Contention',
         UNCHANGED <<ships, bank, jobs, paid, taken, sales, faults>>,
         ~contended' => \A t \in Trades : TradeCurrent(ships, trades'[t])
  PROVE  Books'
<1>1. Shapes' /\ PilotsAfloat' /\ Tallies'
  BY DEF Books, Shapes, PilotsAfloat, Tallies, faults
<1>2. Current'
  BY DEF Books, Current
<1>3. Worth' = Worth /\ AllFloat' = AllFloat /\ OpeningWorth' = OpeningWorth
  BY SameTables DEF AllFloat, OpeningWorth
<1>4. Balanced' /\ Covered'
  BY <1>3 DEF Books, Balanced, Covered, Lavish, faults
<1>5. SoldOnce'
  BY DEF Books, SoldOnce, faults
<1>6. GoodsBalance'
  BY GoodsStay DEF Books
<1>. QED
  BY <1>1, <1>2, <1>4, <1>5, <1>6 DEF Books

LEMMA BooksSmallTrade ==
  ASSUME TypeOK, TypeOK', Books, contended' = (contended \/ Contention'), NEW t \in Trades,
         UNCHANGED jobVars,
         \/ \E s \in Ships, g \in Goods, n \in Lots : OpenTrade(t, s, g, n)
         \/ ReadPort(t) \/ Refuse(t) \/ RollBack(t) \/ Mismatch(t)
  PROVE  Books'
<1>1. UNCHANGED <<ships, bank, jobs, paid, taken, sales, faults>>
  BY DEF OpenTrade, ReadPort, Refuse, RollBack, Mismatch, jobVars
<1>2. TradeCurrent(ships, AtRest)
  BY DEF TradeCurrent, AtRest
<1>3. TradeCurrent(ships, trades[t]) => TradeCurrent(ships, trades'[t])
  <2>. DEFINE x == trades[t]
  <2>0. x \in TradeStates /\ trades \in [Trades -> TradeStates]
    BY DEF TypeOK
  <2>1. CASE \E s \in Ships, g \in Goods, n \in Lots : OpenTrade(t, s, g, n)
    <3>1. PICK s \in Ships, g \in Goods, n \in Lots : OpenTrade(t, s, g, n)
      BY <2>1
    <3>2. /\ trades'[t] = [AtRest EXCEPT !.step = "port", !.ship = s, !.good = g,
                                         !.units = n, !.row = ships[s]]
          /\ ships[s].owned
      BY <2>0, <3>1 DEF OpenTrade
    <3>3. trades'[t].ship = s /\ trades'[t].row = ships[s]
      BY <3>2 DEF AtRest
    <3>. QED
      BY <3>2, <3>3 DEF TradeCurrent
  <2>2. CASE ReadPort(t)
    <3>1. trades'[t] = [x EXCEPT !.step = "ready", !.port = port]
      BY <2>0, <2>2 DEF ReadPort, TradeStates
    <3>2. trades'[t].ship = x.ship /\ trades'[t].row = x.row /\ x.step # "idle"
      BY <2>0, <2>2, <3>1 DEF ReadPort, TradeStates
    <3>. QED
      BY <3>2 DEF TradeCurrent
  <2>3. CASE Refuse(t) \/ RollBack(t)
    BY <1>2, <2>0, <2>3 DEF Refuse, RollBack
  <2>4. CASE Mismatch(t)
    <3>1. \/ trades'[t] = AtRest
          \/ trades'[t] = [x EXCEPT !.step = "port", !.tries = @ + 1]
      BY <2>0, <2>4 DEF Mismatch
    <3>2. CASE trades'[t] = [x EXCEPT !.step = "port", !.tries = @ + 1]
      <4>1. trades'[t].ship = x.ship /\ trades'[t].row = x.row /\ x.step # "idle"
        BY <2>0, <2>4, <3>2 DEF Mismatch, TradeStates
      <4>. QED
        BY <4>1 DEF TradeCurrent
    <3>. QED
      BY <1>2, <3>1, <3>2
  <2>. QED
    BY <2>1, <2>2, <2>3, <2>4
<1>4. \A u \in Trades \ {t} : trades'[u] = trades[u]
  BY DEF OpenTrade, ReadPort, Refuse, RollBack, Mismatch, TypeOK
<1>5. ~contended' => \A u \in Trades : TradeCurrent(ships, trades'[u])
  <2>1. ~contended' => \A u \in Trades : TradeCurrent(ships, trades[u])
    BY DEF Books, Current
  <2>. QED
    BY <1>3, <1>4, <2>1
<1>. QED
  BY <1>1, <1>5, BooksTables

\* What the ship pays or gains the game gains or pays, and what leaves the
\* port is on board.
LEMMA BooksCommit ==
  ASSUME TypeOK, TypeOK', Books, contended' = (contended \/ Contention'), NEW t \in Trades,
         UNCHANGED jobVars, Commit(t)
  PROVE  Books'
<1>. DEFINE x == trades[t]
            s == x.ship
            c == Charge(x)
            o == Onto(x)
            cargo == Loaded(x)
<1>1. /\ x \in TradeStates /\ s \in Ships /\ x.good \in Goods /\ x.step = "ready"
      /\ x.row \in Rows /\ ships[s] \in Rows /\ ships \in [Ships -> Rows]
  BY DEF TypeOK, TradeStates, Commit
<1>2. c \in Int /\ o \in Int /\ x.row.credits \in Int /\ paid \in Int
  BY <1>1, ChargeType DEF Rows, TypeOK
<1>3. /\ UNCHANGED <<bank, jobs, sales, faults>>
      /\ trades' = [trades EXCEPT ![t] = AtRest]
      /\ paid' = paid + c /\ taken' = [taken EXCEPT ![x.good] = @ + o]
      /\ ships[s].owned
  BY DEF Commit, jobVars
<1>4. ships' = [ships EXCEPT ![s].credits = x.row.credits - c, ![s].cargo = cargo]
  BY DEF Commit
<1>5. /\ cargo = [x.row.cargo EXCEPT ![x.good] = @ + o] /\ x.row.cargo \in [Goods -> Int]
  BY <1>1 DEF Loaded, Rows
<1>6. ~contended' => ~contended /\ ~Contention /\ x.row.credits = ships[s].credits /\ x.row.cargo = ships[s].cargo
  <2>1. ~contended' => TradeCurrent(ships, x) /\ ~contended /\ ~Contention
    BY DEF Books, Current
  <2>. QED
    BY <1>1, <2>1 DEF TradeCurrent
<1>7. TradeTouches(t) = {Purse(s)}
  BY <1>1 DEF TradeTouches
<1>. HIDE DEF s, c, o, cargo, x
<1>8. /\ ships'[s].credits = x.row.credits - c /\ ships'[s].cargo = cargo
      /\ \A r \in Ships \ {s} : ships'[r] = ships[r]
      /\ \A r \in Ships : ships'[r].owned = ships[r].owned
  BY <1>1, <1>4 DEF Rows
<1>9. ASSUME ~contended', NEW b \in Balances, b # Purse(s)
      PROVE  At(ships', bank', b) = At(ships, bank, b)
  <2>1. b[1] = "purse" => b[2] \in Ships \ {s}
    BY <1>9, PurseOf
  <2>. QED
    BY <1>3, <1>8, <2>1 DEF At
<1>10. \A b \in Balances : Held(ships', b) <=> Held(ships, b)
  BY <1>8, BalanceKinds DEF Held
<1>11. ASSUME ~contended', NEW k \in Jobs PROVE JobCurrent(ships', bank', jobs'[k])
  <2>1. Shape(jobs[k]) /\ JobCurrent(ships, bank, jobs[k]) /\ jobs'[k] = jobs[k]
    BY <1>3, <1>6, <1>11 DEF Books, Shapes, Current
  <2>2. CASE jobs[k].step = "idle"
    <3>1. jobs[k].left = {} /\ jobs[k].kind = "none"
      BY <2>1, <2>2 DEF Shape
    <3>. QED
      BY <2>1, <2>2, <3>1 DEF JobCurrent
  <2>3. CASE jobs[k].step # "idle"
    <3>1. JobTouches(k) = {jobs[k].from, jobs[k].to}
      BY <2>3 DEF JobTouches
    <3>2. JobTouches(k) \cap TradeTouches(t) = {}
      BY <1>6, <1>11, Apart
    <3>3. /\ jobs[k].from \in Balances /\ jobs[k].from # Purse(s)
          /\ jobs[k].to \in Balances /\ jobs[k].to # Purse(s)
      BY <1>7, <3>1, <3>2 DEF TypeOK, JobStates
    <3>4. /\ At(ships', bank', jobs[k].from) = At(ships, bank, jobs[k].from)
          /\ At(ships', bank', jobs[k].to) = At(ships, bank, jobs[k].to)
      BY <1>9, <1>11, <3>3
    <3>. QED
      BY <1>10, <2>1, <3>3, <3>4 DEF JobCurrent
  <2>. QED
    BY <2>2, <2>3
<1>12. ASSUME ~contended', NEW u \in Trades PROVE TradeCurrent(ships', trades'[u])
  <2>1. CASE u = t
    <3>1. trades'[u].step = "idle"
      BY <1>3, <2>1, AtRestType DEF TypeOK
    <3>. QED
      BY <3>1 DEF TradeCurrent
  <2>2. CASE u # t
    <3>1. trades'[u] = trades[u] /\ TradeCurrent(ships, trades[u]) /\ trades[u].ship \in Ships
      BY <1>3, <1>6, <1>12, <2>2 DEF Books, Current, TypeOK, TradeStates
    <3>2. trades[u].step # "idle" => trades[u].ship # s
      <4>1. TradeTouches(u) \cap TradeTouches(t) = {}
        BY <1>6, <1>12, <2>2, Apart
      <4>. QED
        BY <1>7, <4>1 DEF TradeTouches
    <3>3. trades[u].step # "idle" => ships'[trades[u].ship] = ships[trades[u].ship]
      BY <1>8, <3>1, <3>2
    <3>. QED
      BY <3>1, <3>3 DEF TradeCurrent
  <2>. QED
    BY <2>1, <2>2
<1>13. Shapes' /\ PilotsAfloat' /\ Tallies'
  <2>1. PilotsAfloat'
    BY <1>8, PilotsFinite DEF Books, PilotsAfloat
  <2>. QED
    BY <1>3, <2>1 DEF Books, Shapes, Tallies, faults
<1>14. Current'
  <2>1. ~contended' => ~Contention'
    OBVIOUS
  <2>. QED
    BY <1>11, <1>12, <2>1 DEF Current
<1>15. ~contended' => Worth' = Worth
  <2>1. ASSUME ~contended' PROVE ShipWorth' = ShipWorth - c
    <3>1. ShipWorth' = ShipWorth - ships[s].credits + ships'[s].credits
      BY <1>1, <1>3, <1>8, ShipWorthChanges
    <3>2. ShipWorth \in Int
      BY WorthType
    <3>. QED
      BY <1>2, <1>6, <1>8, <2>1, <3>1, <3>2
  <2>2. /\ ShipWorth \in Int /\ BankWorth \in Int /\ BankWorth' = BankWorth
        /\ Worth = ShipWorth + BankWorth + paid /\ Worth' = ShipWorth' + BankWorth' + paid'
    BY <1>3, WorthType, NextWorth DEF BankWorth
  <2>. QED
    BY <1>2, <1>3, <2>1, <2>2
<1>16. Balanced' /\ Covered'
  <2>1. AllFloat' = AllFloat /\ OpeningWorth' = OpeningWorth
    BY <1>3 DEF AllFloat, OpeningWorth
  <2>. QED
    BY <1>3, <1>6, <1>15, <2>1 DEF Books, Balanced, Covered, Lavish, faults
<1>17. SoldOnce'
  <2>1. \A f \in Fleet : ships'[f].owned = ships[f].owned
    BY <1>8, FleetAssumption
  <2>. QED
    BY <1>3, <1>6, <2>1 DEF Books, SoldOnce, faults
<1>18. GoodsBalance'
  <2>1. SUFFICES ASSUME ~contended', NEW g \in Goods
        PROVE  SumFunctionOnSet([r \in Ships |-> ships'[r].cargo[g]], Ships)
                 = Cardinality(Ships) * OpeningRow.cargo[g] + taken'[g]
    BY DEF GoodsBalance, GoodsOnBoard
  <2>. DEFINE f == [r \in Ships |-> ships[r].cargo[g]]
              h == [r \in Ships |-> ships'[r].cargo[g]]
              d == IF g = x.good THEN o ELSE 0
  <2>2. SumFunctionOnSet(f, Ships) = Cardinality(Ships) * OpeningRow.cargo[g] + taken[g]
    BY <1>6, <2>1 DEF Books, GoodsBalance, GoodsOnBoard
  <2>3. taken'[g] = taken[g] + d /\ taken[g] \in Int /\ d \in Int
    BY <1>2, <1>3 DEF TypeOK
  <2>4. \A r \in Ships : f[r] \in Int /\ h[r] \in Int
    <3>1. \A r \in Ships : ships[r].cargo[g] \in Int /\ ships'[r].cargo[g] \in Int
      BY DEF TypeOK, Rows
    <3>. QED
      BY <3>1
  <2>5. f[s] \in Int /\ h[s] = f[s] + d
    <3>1. cargo[g] = ships[s].cargo[g] + d
      BY <1>2, <1>5, <1>6, <2>1
    <3>. QED
      BY <1>1, <1>8, <2>4, <3>1
  <2>6. \A r \in Ships \ {s} : h[r] = f[r]
    BY <1>8
  <2>7. Cardinality(Ships) * OpeningRow.cargo[g] \in Int
    <3>1. Cardinality(Ships) \in Int /\ OpeningRow.cargo[g] \in Int
      BY ShipsAssumption, FS_CardinalityType
    <3>. QED
      BY <3>1
  <2>8. SumFunctionOnSet(f, Ships) \in Int
    <3>. HIDE DEF f
    <3>. QED
      BY <2>4, ShipsAssumption, SumIsInt
  <2>9. SumFunctionOnSet(h, Ships) = SumFunctionOnSet(f, Ships) - f[s] + h[s]
    <3>. HIDE DEF f, h
    <3>. QED
      BY <1>1, <2>4, <2>6, ShipsAssumption, SumChanges
  <2>. HIDE DEF f, h, d
  <2>10. SumFunctionOnSet(h, Ships) = Cardinality(Ships) * OpeningRow.cargo[g] + taken'[g]
    BY <2>2, <2>3, <2>5, <2>7, <2>8, <2>9
  <2>. QED
    BY <2>10 DEF h
<1>. QED
  BY <1>13, <1>14, <1>16, <1>17, <1>18 DEF Books

LEMMA BooksInit == Init => Books
<1>. SUFFICES ASSUME Init PROVE Books
  OBVIOUS
<1>1. /\ \A j \in Jobs : jobs[j] = Resting
      /\ \A t \in Trades : trades[t] = AtRest
      /\ ships = [s \in Ships |-> OpeningRow] /\ bank = [s \in Pilots |-> 0]
      /\ paid = 0 /\ kills = 0 /\ failures = 0 /\ sales = [f \in Fleet |-> 0]
      /\ taken = [g \in Goods |-> 0]
  BY DEF Init, TradeInit
<1>2. OpeningRow.owned /\ OpeningRow.credits \in Int /\ \A g \in Goods : OpeningRow.cargo[g] \in Int
  <2>1. OpeningRow.owned \in {TRUE} /\ OpeningRow.credits \in Nat /\ OpeningRow.cargo \in [Goods -> Nat]
    BY ShipsAssumption
  <2>2. OpeningRow.owned
    BY <2>1
  <2>. QED
    BY <2>1, <2>2
<1>3. Shapes /\ Tallies
  BY <1>1, RestingShape DEF Shapes, Tallies
<1>4. PilotsAfloat /\ Afloat = Ships
  BY <1>1, <1>2 DEF PilotsAfloat, Pilots, Afloat
<1>5. Current
  <2>1. /\ \A j \in Jobs : JobTouches(j) = {}
        /\ \A t \in Trades : TradeTouches(t) = {}
    BY <1>1, RestingType, AtRestType DEF JobTouches, TradeTouches
  <2>2. ~Contention
    BY <2>1 DEF Contention
  <2>3. JobCurrent(ships, bank, Resting) /\ TradeCurrent(ships, AtRest)
    BY RestingType, AtRestType DEF JobCurrent, TradeCurrent, Resting
  <2>. QED
    BY <1>1, <2>2, <2>3 DEF Current
<1>6. AllFloat = 0
  <2>. DEFINE f == [j \in Jobs |-> Float(jobs[j])]
  <2>1. \A j \in Jobs : f[j] = 0
    BY <1>1, RestingShape
  <2>. HIDE DEF f
  <2>2. SumFunctionOnSet(f, Jobs) = Cardinality(Jobs) * 0
    BY <2>1, JobsAssumption, SumOfConstant
  <2>3. Cardinality(Jobs) \in Int
    BY JobsAssumption, FS_CardinalityType
  <2>. QED
    BY <2>2, <2>3 DEF AllFloat, f
<1>7. ShipWorth = OpeningWorth
  <2>. DEFINE f == [s \in Ships |-> ships[s].credits]
              k == OpeningRow.credits
  <2>1. \A s \in Ships : f[s] = k
    BY <1>1
  <2>2. k \in Int
    BY <1>2
  <2>. HIDE DEF f, k
  <2>3. SumFunctionOnSet(f, Ships) = Cardinality(Ships) * k
    BY <2>1, <2>2, ShipsAssumption, SumOfConstant
  <2>. QED
    BY <1>4, <2>3 DEF ShipWorth, OpeningWorth, f, k
<1>8. BankWorth = 0
  <2>1. \A p \in Pilots : bank[p] = 0
    BY <1>1
  <2>2. SumFunctionOnSet(bank, Pilots) = Cardinality(Pilots) * 0
    BY <2>1, PilotsFinite, SumOfConstant
  <2>3. Cardinality(Pilots) \in Int
    BY PilotsFinite, FS_CardinalityType
  <2>. QED
    BY <2>2, <2>3 DEF BankWorth
<1>9. Balanced /\ Covered
  <2>1. Worth = ShipWorth + BankWorth + paid
    BY DEF Worth, ShipWorth, BankWorth
  <2>2. Worth = OpeningWorth + AllFloat
    BY <1>1, <1>6, <1>7, <1>8, <2>1, OpeningType
  <2>3. Worth <= OpeningWorth + AllFloat
    BY <1>6, <2>2, OpeningType
  <2>. QED
    BY <2>2, <2>3 DEF Balanced, Covered
<1>10. SoldOnce
  BY <1>1 DEF SoldOnce
<1>11. GoodsBalance
  <2>1. SUFFICES ASSUME NEW g \in Goods
        PROVE  SumFunctionOnSet([s \in Ships |-> ships[s].cargo[g]], Ships)
                 = Cardinality(Ships) * OpeningRow.cargo[g] + taken[g]
    BY DEF GoodsBalance, GoodsOnBoard
  <2>. DEFINE f == [s \in Ships |-> ships[s].cargo[g]]
              k == OpeningRow.cargo[g]
  <2>2. \A s \in Ships : f[s] = k
    BY <1>1
  <2>3. k \in Int /\ Cardinality(Ships) \in Int
    BY <1>2, ShipsAssumption, FS_CardinalityType
  <2>4. taken[g] = 0
    BY <1>1
  <2>. HIDE DEF f, k
  <2>5. SumFunctionOnSet(f, Ships) = Cardinality(Ships) * k
    BY <2>2, <2>3, ShipsAssumption, SumOfConstant
  <2>6. SumFunctionOnSet(f, Ships) = Cardinality(Ships) * k + taken[g]
    BY <2>3, <2>4, <2>5
  <2>. QED
    BY <2>6 DEF f, k
<1>. QED
  BY <1>3, <1>4, <1>5, <1>9, <1>10, <1>11 DEF Books

LEMMA BooksNext == TypeOK /\ TypeOK' /\ Books /\ [Next]_vars => Books'
<1>. SUFFICES ASSUME TypeOK, TypeOK', Books, [Next]_vars PROVE Books'
  OBVIOUS
<1>1. CASE UNCHANGED vars
  <2>1. /\ UNCHANGED <<ships, bank, jobs, trades, paid, taken, sales, faults, contended>>
    BY <1>1 DEF vars, tradeVars, jobVars
  <2>2. Contention' <=> Contention
    BY <2>1 DEF Contention, JobTouches, TradeTouches
  <2>3. ~contended' => ~Contention'
    BY <2>1, <2>2 DEF Books, Current
  <2>4. ~contended' => \A t \in Trades : TradeCurrent(ships, trades'[t])
    BY <2>1 DEF Books, Current
  <2>. QED
    BY <2>1, <2>3, <2>4, BooksTables
<1>2. CASE Next
  <2>0. contended' = (contended \/ Contention')
    BY <1>2 DEF Next
  <2>1. ASSUME NEW t \in Trades, Trade(t) PROVE Books'
    <3>1. UNCHANGED jobVars
      BY <2>1 DEF Trade
    <3>2. CASE Commit(t)
      BY <2>0, <3>1, <3>2, BooksCommit
    <3>3. CASE ~Commit(t)
      BY <2>0, <2>1, <3>1, <3>3, BooksSmallTrade DEF Trade, TradeStep
    <3>. QED
      BY <3>2, <3>3
  <2>2. ASSUME NEW j \in Jobs, JobStep(j) PROVE Books'
    BY <2>0, <2>2, BooksCall, BooksSupply, BooksReadPayee, BooksDebit, BooksCredit,
       BooksSupplied, BooksPaySeller, BooksScrap, BooksFail, BooksKill DEF JobStep
  <2>3. CASE (Regenerate \/ Reset) /\ UNCHANGED jobVars
    <3>1. /\ UNCHANGED <<ships, bank, jobs, trades, paid, taken, sales, faults>>
      BY <2>3 DEF Regenerate, Reset, Restock, jobVars
    <3>2. ~contended' => \A t \in Trades : TradeCurrent(ships, trades'[t])
      BY <2>0, <3>1 DEF Books, Current
    <3>. QED
      BY <2>0, <3>1, <3>2, BooksTables
  <2>. QED
    BY <1>2, <2>1, <2>2, <2>3 DEF Next
<1>. QED
  BY <1>1, <1>2

\* When no request runs, nothing is in the air; when none runs that pays before
\* it is paid, nothing is owed to the books.
LEMMA InTheAir ==
  ASSUME TypeOK, Books
  PROVE  /\ AllIdle => AllFloat = 0
         /\ (\A j \in Jobs : jobs[j].kind \notin Lavish) => AllFloat <= 0
<1>. DEFINE f == [j \in Jobs |-> Float(jobs[j])]
            z == [j \in Jobs |-> 0]
<1>1. \A j \in Jobs : f[j] = Float(jobs[j]) /\ f[j] \in Int /\ z[j] = 0
  BY FloatType DEF TypeOK
<1>2. ASSUME AllIdle, NEW j \in Jobs PROVE Float(jobs[j]) = 0
  BY <1>2 DEF AllIdle, Float
<1>3. ASSUME \A j \in Jobs : jobs[j].kind \notin Lavish, NEW j \in Jobs
      PROVE  Float(jobs[j]) <= 0
  <2>1. Shape(jobs[j]) /\ jobs[j].kind \notin Lavish /\ -jobs[j].amount <= 0
    <3>1. jobs[j].amount \in Nat
      BY DEF TypeOK, JobStates
    <3>. QED
      BY <1>3, <3>1 DEF Books, Shapes
  <2>2. jobs[j].left # {"debit"} /\ jobs[j].kind # "sale"
    BY <2>1 DEF Shape, Lavish
  <2>3. Float(jobs[j]) = 0 \/ Float(jobs[j]) = -jobs[j].amount
    BY <2>2 DEF Float
  <2>. QED
    BY <2>1, <2>3
<1>4. AllFloat = SumFunctionOnSet(f, Jobs)
  BY DEF AllFloat
<1>. HIDE DEF f, z
<1>5. SumFunctionOnSet(z, Jobs) = Cardinality(Jobs) * 0 /\ Cardinality(Jobs) \in Int
  BY <1>1, JobsAssumption, SumOfConstant, FS_CardinalityType
<1>6. AllIdle => AllFloat = 0
  BY <1>1, <1>2, <1>4, <1>5, JobsAssumption, SumOfSame
<1>7. ASSUME \A j \in Jobs : jobs[j].kind \notin Lavish PROVE AllFloat <= 0
  <2>1. \A j \in Jobs : f[j] \in Int /\ z[j] \in Int /\ f[j] <= z[j]
    BY <1>1, <1>3, <1>7
  <2>2. SumFunctionOnSet(f, Jobs) <= SumFunctionOnSet(z, Jobs)
    BY <2>1, JobsAssumption, SumAtMost
  <2>. QED
    BY <1>4, <1>5, <2>2
<1>. QED
  BY <1>6, <1>7

LEMMA BooksInvariant == Spec => [](TypeOK /\ Books)
<1>1. Init => TypeOK /\ Books
  BY InitType, BooksInit
<1>2. TypeOK /\ Books /\ [Next]_vars => (TypeOK /\ Books)'
  BY NextType, BooksNext
<1>. QED
  BY <1>1, <1>2, PTL DEF Spec

\* As long as no two requests that overlap touch one balance, transfer_credits,
\* bank_transfer, ship_sell, the purchases and the trades move credits and make
\* none and lose none: with nothing running and nothing killed or failed, ships,
\* accounts and the game hold the opening worth; whatever was cut short, they
\* hold no more than that, unless a transfer or a sale runs or was cut, or a
\* withdrawal went on after a failed write; and no ship is paid for twice unless
\* a sale was killed.
THEOREM BooksAreBalanced == Spec => []BooksBalance
<1>1. TypeOK /\ Books => BooksBalance
  <2>. SUFFICES ASSUME TypeOK, Books, ~contended
       PROVE  /\ AllIdle /\ kills = 0 /\ failures = 0 => Worth = OpeningWorth
              /\ /\ cut \cap Lavish = {} /\ \A j \in Jobs : jobs[j].kind \notin Lavish
                 /\ "withdraw" \in cut => failures = 0
                 => Worth <= OpeningWorth
              /\ "sale" \notin cut => \A f \in Fleet : sales[f] <= 1
    BY DEF BooksBalance
  <2>1. Worth \in Int /\ OpeningWorth \in Int /\ AllFloat \in Int
    BY WorthType, WorthIsInt, OpeningType
  <2>2. AllIdle /\ kills = 0 /\ failures = 0 => Worth = OpeningWorth
    BY <2>1, InTheAir DEF Books, Balanced
  <2>3. /\ cut \cap Lavish = {} /\ \A j \in Jobs : jobs[j].kind \notin Lavish
        /\ "withdraw" \in cut => failures = 0
        => Worth <= OpeningWorth
    BY <2>1, InTheAir DEF Books, Covered
  <2>4. "sale" \notin cut => \A f \in Fleet : sales[f] <= 1
    BY DEF Books, SoldOnce
  <2>. QED
    BY <2>2, <2>3, <2>4
<1>. QED
  BY <1>1, BooksInvariant, PTL

\* As long as no two requests that overlap touch one ship, what trades took
\* from the port is in the holds of the ships, after any retries,
\* regenerations and resets.
THEOREM GoodsAreBalanced == Spec => []GoodsBalance
<1>1. Books => GoodsBalance
  BY DEF Books
<1>. QED
  BY <1>1, BooksInvariant, PTL
=============================================================================
