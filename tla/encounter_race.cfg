CONSTANTS
  p1 = p1
  p2 = p2
  p3 = p3
  t1 = t1
  t2 = t2
  Players = {p1, p2}
  Ticks = {t1}
  Wealth = 1
  LockOutlived = TRUE
  MaxCalls = 3
  MaxFights = 1
  MaxCrashes = 1
  LastRound = 1
  Outcomes <- FewOutcomes
SPECIFICATION TollSpec
SYMMETRY Sym
INVARIANT CargoSafe
INVARIANT PaidForPeace
PROPERTY NothingRolledBack
CHECK_DEADLOCK FALSE
INVARIANT Fenced
