---------------------------- MODULE ShipAccounts ----------------------------
(***************************************************************************)
(* The purses of the ships docked at a mega-port, the bank accounts of     *)
(* their pilots, and the functions that move credits between them while    *)
(* the ships trade: transfer_credits, bank_transfer, ship_sell,            *)
(* recharge_warp_power and purchase_fighters.                              *)
(*                                                                         *)
(* Each function reads the balances it is going to change, computes the    *)
(* new ones and writes them back, each row in a statement of its own.      *)
(* Nothing in a write depends on what the row holds by then.               *)
(***************************************************************************)
EXTENDS PortTrade

CONSTANTS
  Fleet,       \* ships owned by a corporation; the others are personal
  Buyer,       \* Buyer[f]: the pilot who bought f for it (added_by)
  Jobs,        \* invocations of these functions that may overlap
  Kinds,       \* which of the functions are called
  Amounts,     \* amounts moved
  TradeIn,     \* calculateTradeInValue of a ship that is sold
  Tank,        \* warp power capacity, or fighter capacity
  UnitPrice,   \* PRICE_PER_UNIT, or FIGHTER_PRICE
  MaxFaults    \* bound of the model: functions killed and statements that fail

ASSUME FleetAssumption ==
  Fleet \subseteq Ships /\ Buyer \in [Fleet -> Ships \ Fleet]
ASSUME JobsAssumption == IsFiniteSet(Jobs)
ASSUME AmountsAssumption ==
  /\ Amounts \subseteq Nat \ {0}
  /\ TradeIn \in Nat /\ Tank \in Nat /\ UnitPrice \in Nat

VARIABLES
  bank,   \* credits_in_megabank of the pilot of each personal ship
  jobs,   \* what each invocation has in memory
  sales,  \* history: how often each corporation ship has been paid for
  kills,  \* bound: functions killed so far
  cut,    \* history: the kinds of the functions killed, or failed in part
  failures, \* bound: statements that failed so far
  contended \* history: two requests that overlapped touched one balance

faults == <<kills, cut, failures>>
jobVars == <<bank, jobs, sales, faults>>
vars == <<tradeVars, jobVars, contended>>

Pilots == Ships \ Fleet
Purse(s) == <<"purse", s>>
Account(s) == <<"bank", s>>
Balances == {Purse(s) : s \in Ships} \cup {Account(s) : s \in Pilots}

Balance(b) == IF b[1] = "purse" THEN ships[b[2]].credits ELSE bank[b[2]]
SetBalance(b, n) ==
  IF b[1] = "purse"
  THEN ships' = [ships EXCEPT ![b[2]].credits = n] /\ UNCHANGED bank
  ELSE bank' = [bank EXCEPT ![b[2]] = n] /\ UNCHANGED ships

Resting == [kind |-> "none", step |-> "idle", from |-> Purse(AtRest.ship),
            to |-> Purse(AtRest.ship), amount |-> 0, payer |-> 0, payee |-> 0,
            left |-> {}]

\* The balances an invocation will write, while it runs.
JobTouches(j) == IF jobs[j].step = "idle" THEN {} ELSE {jobs[j].from, jobs[j].to}
TradeTouches(t) == IF trades[t].step = "idle" THEN {} ELSE {Purse(trades[t].ship)}

\* Two invocations that run at the same time touch the same balance.
Contention ==
  \/ \E j, k \in Jobs : j # k /\ JobTouches(j) \cap JobTouches(k) # {}
  \/ \E t, u \in Trades : t # u /\ TradeTouches(t) \cap TradeTouches(u) # {}
  \/ \E j \in Jobs, t \in Trades : JobTouches(j) \cap TradeTouches(t) # {}

-----------------------------------------------------------------------------
Init ==
  /\ TradeInit
  /\ bank = [s \in Pilots |-> 0]
  /\ jobs = [j \in Jobs |-> Resting]
  /\ sales = [f \in Fleet |-> 0]
  /\ kills = 0 /\ cut = {} /\ failures = 0
  /\ contended = FALSE

\* The handler starts by reading the balance it will debit, or for a sale
\* the balance of the seller.
Open(j, kind, from, to, amount) ==
  /\ kind \in Kinds
  /\ jobs[j].step = "idle"
  /\ opened < MaxRequests
  /\ opened' = opened + 1
  /\ jobs' = [jobs EXCEPT ![j] =
       [Resting EXCEPT !.kind = kind, !.step = "payee", !.from = from,
                       !.to = to, !.amount = amount, !.payer = Balance(from)]]
  /\ UNCHANGED <<port, ships, trades, taken, grown, paid, regrowths, bank, sales, faults>>

Transfer(j) ==
  \E a, b \in Ships, n \in Amounts :
    /\ a # b /\ ships[a].owned /\ ships[b].owned
    /\ Open(j, "transfer", Purse(a), Purse(b), n)

Deposit(j) ==
  \E a \in Ships, b \in Pilots, n \in Amounts :
    /\ ships[a].owned
    /\ Open(j, "deposit", Purse(a), Account(b), n)

Withdraw(j) ==
  \E a \in Pilots, n \in Amounts :
    Open(j, "withdraw", Account(a), Purse(a), n)

Sell(j) ==
  \E f \in Fleet : Open(j, "sale", Purse(Buyer[f]), Purse(f), TradeIn)

\* recharge_warp_power and purchase_fighters read one row, clamp the quantity
\* to the room left and refuse what the purse cannot pay.
Supply(j) ==
  \E a \in Ships, n \in Amounts :
    LET row == ships[a]
        units == IF row.stores + n > Tank THEN Tank - row.stores ELSE n
    IN
    /\ "supply" \in Kinds
    /\ jobs[j].step = "idle"
    /\ opened < MaxRequests
    /\ row.owned
    /\ row.stores < Tank
    /\ row.credits >= units * UnitPrice
    /\ opened' = opened + 1
    /\ jobs' = [jobs EXCEPT ![j] =
         [Resting EXCEPT !.kind = "supply", !.step = "write", !.from = Purse(a),
                         !.to = Purse(a), !.amount = units,
                         !.payer = row.credits, !.payee = row.stores]]
    /\ UNCHANGED <<port, ships, trades, taken, grown, paid, regrowths, bank, sales, faults>>

-----------------------------------------------------------------------------
\* The other row is read and the request checked.
ReadPayee(j) ==
  LET x == jobs[j] IN
  /\ x.step = "payee"
  /\ jobs' = [jobs EXCEPT ![j] =
       IF /\ x.to[1] = "purse" => ships[x.to[2]].owned
          /\ x.kind # "sale" => x.payer >= x.amount
       THEN [x EXCEPT !.step = "write", !.payee = Balance(x.to),
                      !.left = {"debit", "credit"}]
       ELSE Resting]
  /\ UNCHANGED <<tradeVars, bank, sales, faults>>

Moves(x) == x.step = "write" /\ x.kind \in {"transfer", "deposit", "withdraw"}
Done(j, write) ==
  LET left == jobs[j].left \ {write} IN
  jobs' = [jobs EXCEPT ![j] = IF left = {} THEN Resting
                              ELSE [jobs[j] EXCEPT !.left = left]]

\* Mutant: the debit is relative to what the row holds by now.
Debit_Relative(j) ==
  LET x == jobs[j] IN
  /\ Moves(x)
  /\ "debit" \in x.left
  /\ SetBalance(x.from, Balance(x.from) - x.amount)
  /\ Done(j, "debit")
  /\ UNCHANGED <<port, trades, taken, grown, paid, opened, regrowths, sales, faults>>

\* The payer's row.
Debit(j) ==
  LET x == jobs[j] IN
  /\ Moves(x)
  /\ "debit" \in x.left
  /\ SetBalance(x.from, x.payer - x.amount)
  /\ Done(j, "debit")
  /\ UNCHANGED <<port, trades, taken, grown, paid, opened, regrowths, sales, faults>>

\* Mutant: a bank transfer, too, writes both rows at once.
Credit_AnyOrder(j) ==
  LET x == jobs[j] IN
  /\ Moves(x)
  /\ "credit" \in x.left
  /\ SetBalance(x.to, x.payee + x.amount)
  /\ Done(j, "credit")
  /\ UNCHANGED <<port, trades, taken, grown, paid, opened, regrowths, sales, faults>>

\* The payee's row: at the same time as the payer's in transfer_credits
\* (Promise.all), after it in bank_transfer.
Credit(j) ==
  LET x == jobs[j] IN
  /\ Moves(x)
  /\ "credit" \in x.left
  /\ x.kind = "transfer" \/ "debit" \notin x.left
  /\ SetBalance(x.to, x.payee + x.amount)
  /\ Done(j, "credit")
  /\ UNCHANGED <<port, trades, taken, grown, paid, opened, regrowths, sales, faults>>

\* One row, one statement.
Supplied(j) ==
  LET x == jobs[j] IN
  /\ x.kind = "supply"
  /\ ships' = [ships EXCEPT ![x.from[2]].credits = x.payer - x.amount * UnitPrice,
                            ![x.from[2]].stores = x.payee + x.amount]
  /\ paid' = paid + x.amount * UnitPrice
  /\ jobs' = [jobs EXCEPT ![j] = Resting]
  /\ UNCHANGED <<port, trades, taken, grown, opened, regrowths, bank, sales, faults>>

\* The seller gets the trade-in value and what the sold ship had on board.
PaySeller(j) ==
  LET x == jobs[j] IN
  /\ x.kind = "sale" /\ x.step = "write" /\ "debit" \in x.left
  /\ SetBalance(x.from, x.payer + x.amount + x.payee)
  /\ paid' = paid - x.amount
  /\ sales' = [sales EXCEPT ![x.to[2]] = @ + 1]
  /\ Done(j, "debit")
  /\ UNCHANGED <<port, trades, taken, grown, opened, regrowths, faults>>

\* Then the sold ship loses its pilot, its registration and its owner.
Scrap(j) ==
  LET x == jobs[j] IN
  /\ x.kind = "sale" /\ x.step = "write" /\ "debit" \notin x.left
  /\ ships' = [ships EXCEPT ![x.to[2]].owned = FALSE]
  /\ Done(j, "credit")
  /\ UNCHANGED <<port, trades, taken, grown, paid, opened, regrowths, bank, sales, faults>>

\* A statement fails: a deposit stops there, the other half of a transfer is
\* under way already, and a withdrawal does not look.
Fail(j) ==
  LET x == jobs[j] IN
  /\ kills + failures < MaxFaults
  /\ Moves(x)
  /\ failures' = failures + 1
  /\ cut' = cut \cup {x.kind}
  /\ \/ x.kind = "deposit" /\ jobs' = [jobs EXCEPT ![j] = Resting]
     \/ x.kind # "deposit" /\ "debit" \in x.left /\ Done(j, "debit")
     \/ /\ x.kind # "deposit" /\ "credit" \in x.left
        /\ x.kind = "transfer" \/ "debit" \notin x.left
        /\ Done(j, "credit")
  /\ UNCHANGED <<tradeVars, bank, sales, kills>>

\* The function is killed: its memory is gone, its writes stay.
Kill(j) ==
  /\ jobs[j].step # "idle"
  /\ kills + failures < MaxFaults
  /\ kills' = kills + 1
  /\ cut' = cut \cup {jobs[j].kind}
  /\ jobs' = [jobs EXCEPT ![j] = Resting]
  /\ UNCHANGED <<tradeVars, bank, sales, failures>>

JobStep(j) ==
  \/ Transfer(j) \/ Deposit(j) \/ Withdraw(j) \/ Sell(j) \/ Supply(j)
  \/ ReadPayee(j) \/ Debit(j) \/ Credit(j) \/ Supplied(j)
  \/ PaySeller(j) \/ Scrap(j) \/ Fail(j) \/ Kill(j)

Trade(t) ==
  /\ \/ \E s \in Ships, g \in Goods, n \in Lots :
          OpenTrade(t, s, g, n)
     \/ TradeStep(t)
  /\ UNCHANGED jobVars

Next ==
  /\ \/ \E t \in Trades : Trade(t)
     \/ \E j \in Jobs : JobStep(j)
     \/ (Regenerate \/ Reset) /\ UNCHANGED jobVars
  /\ contended' = (contended \/ Contention')

Spec == Init /\ [][Next]_vars

-----------------------------------------------------------------------------
(* Properties. *)

Rows == [credits : Int, cargo : [Goods -> Int], stores : Int, owned : BOOLEAN]
PortRows == [stock : [Goods -> 0..MaxStock], version : Nat]

TradeStates == [step : {"idle", "port", "ready"}, ship : Ships, good : Goods,
                units : Nat, tries : Nat, row : Rows, port : PortRows]
JobStates == [kind : {"none", "transfer", "deposit", "withdraw", "sale", "supply"},
              step : {"idle", "payee", "write"}, from : Balances, to : Balances,
              amount : Nat, payer : Int, payee : Int,
              left : SUBSET {"debit", "credit"}]

\* The rows, and the copies the functions hold of them, keep their shape; the
\* port never holds less than nothing nor more than its capacity.
TypeOK ==
  /\ port \in PortRows
  /\ ships \in [Ships -> Rows]
  /\ trades \in [Trades -> TradeStates]
  /\ bank \in [Pilots -> Int]
  /\ jobs \in [Jobs -> JobStates]
  /\ taken \in [Goods -> Int] /\ grown \in [Goods -> Int] /\ paid \in Int

\* The stock adds up: no trade and no regeneration overwrites another.
StockKept ==
  \A g \in Goods : port.stock[g] + taken[g] = OpeningStock[g] + grown[g]

\* The port has what it opened with, plus what it grew by, less what trades
\* took (the version test of pgExecuteTradeTransaction), and never less than
\* nothing nor more than its capacity (regenerate_ports stops at LEAST).
StockAccounted ==
  /\ \A g \in Goods : port.stock[g] \in 0..MaxStock
  /\ StockKept

\* A trade goes through at the price of the stock the port has at that
\* moment, however often it was computed before (executeTradeWithRetry).
PricedAtStock ==
  [][\A t \in Trades :
       LET x == trades[t] IN
       x.step = "ready" /\ trades'[t].step = "idle" /\ port' # port
       => /\ paid' - paid = Price[x.good][port.stock[x.good]] * Onto(x)
          /\ port'.stock = [port.stock EXCEPT ![x.good] = @ - Onto(x)]]_vars

\* Nobody ends up owing credits or goods, though every check was made on
\* balances that may have changed since: the CHECKs of the tables never refuse
\* one half of a transfer.
NoOverdraft ==
  /\ \A s \in Ships : /\ ships[s].credits >= 0 /\ ships[s].stores >= 0
                      /\ \A g \in Goods : ships[s].cargo[g] >= 0
  /\ \A p \in Pilots : bank[p] >= 0

Afloat == {s \in Ships : ships[s].owned}
Worth == SumFunctionOnSet([s \in Ships |-> ships[s].credits], Afloat)
         + SumFunctionOnSet(bank, Pilots) + paid
OpeningWorth == Cardinality(Ships) * OpeningRow.credits
AllIdle == \A j \in Jobs : jobs[j].step = "idle"

\* What left the port is in the ships' holds.
GoodsOnBoard ==
  \A g \in Goods :
    SumFunctionOnSet([s \in Ships |-> ships[s].cargo[g]], Ships)
      = Cardinality(Ships) * OpeningRow.cargo[g] + taken[g]

\* It is, also after retries and regenerations, as long as no ship is in two
\* requests at a time: pgExecuteTradeTransaction writes the hold of the ship
\* it has read, with the port's row it has tested.
GoodsBalance == contended \/ GoodsOnBoard

\* A trade that has lost its first attempt to another one adds its goods to what
\* the ship holds when it succeeds (trade_test.ts: the ship's cargo increased by
\* what was bought).
RetryAddsToHold ==
  [][\A t \in Trades :
       LET x == trades[t] IN
       x.tries > 0 /\ trades'[t] # x /\ port' # port =>
         ships'[x.ship].cargo = [ships[x.ship].cargo EXCEPT ![x.good] = @ + Onto(x)]]_vars

\* transfer_credits and ship_sell pay one side before the other gives it up.
Lavish == {"transfer", "sale"}

\* As long as no two requests that overlap touch the same balance, credits
\* move and are neither made nor lost: what ships and bank accounts hold, and
\* what the game was paid, is what there was at the start. Bank business that
\* is cut short may lose credits, but makes none: the payer's row is written
\* before the payee's (bank_transfer), though a withdrawal does not look whether
\* that write failed. Else only transfers between ships and sales make credits,
\* while they run or when they are cut; and only a sale cut short between its
\* two writes is paid for again (ship_sell).
BooksBalance ==
  contended \/
    /\ AllIdle /\ kills = 0 /\ failures = 0 => Worth = OpeningWorth
    /\ /\ cut \cap Lavish = {} /\ \A j \in Jobs : jobs[j].kind \notin Lavish
       /\ "withdraw" \in cut => failures = 0
       => Worth <= OpeningWorth
    /\ "sale" \notin cut => \A f \in Fleet : sales[f] <= 1
=============================================================================
