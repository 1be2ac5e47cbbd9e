CONSTANTS
  p1 = p1
  p2 = p2
  f1 = f1
  t1 = t1
  t2 = t2
  j1 = j1
  j2 = j2
  qf = qf
  ro = ro
  Ships = {p1, f1}
  Fleet = {f1}
  Buyer <- BuyerOfOne
  Trades = {t1, t2}
  Jobs = {j1, j2}
  Goods = {qf, ro}
  Sold = {qf}
  MaxStock = 3
  Price <- Prices
  OpeningStock <- HalfFull
  OpeningRow <- Sixty
  Regrowth = 2
  Holds = 3
  Lots = {1, 2}
  Amounts = {40}
  Kinds = {"transfer", "deposit", "withdraw", "sale", "supply"}
  TradeIn = 10
  Tank = 2
  UnitPrice = 25
  MaxAttempts = 2
  MaxRequests = 3
  MaxRegrowths = 1
  MaxFaults = 1
SPECIFICATION Spec
SYMMETRY Sym
CHECK_DEADLOCK FALSE
INVARIANT StockAccounted
INVARIANT NoOverdraft
PROPERTY PricedAtStock
INVARIANT BooksBalance
INVARIANT GoodsBalance
