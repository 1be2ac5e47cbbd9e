CONSTANTS
  p1 = p1
  p2 = p2
  f1 = f1
  t1 = t1
  t2 = t2
  j1 = j1
  j2 = j2
  qf = qf
  ro = ro
  Ships = {p1}
  Fleet = {}
  Buyer <- NoBuyer
  Trades = {t1, t2}
  Jobs = {j1}
  Goods = {qf, ro}
  Sold = {qf}
  MaxStock = 3
  Price <- Prices
  OpeningStock <- HalfFull
  OpeningRow <- Sixty
  Regrowth = 2
  Holds = 3
  Lots = {1, 2}
  Amounts = {40}
  Kinds = {}
  TradeIn = 10
  Tank = 2
  UnitPrice = 25
  MaxAttempts = 2
  MaxRequests = 2
  MaxRegrowths = 0
  MaxFaults = 0
SPECIFICATION Spec
CHECK_DEADLOCK FALSE
PROPERTY RetryAddsToHold
