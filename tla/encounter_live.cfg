CONSTANTS
  p1 = p1
  p2 = p2
  p3 = p3
  t1 = t1
  t2 = t2
  Players = {p1, p2}
  Ticks = {t1}
  Wealth = 1
  LockOutlived = FALSE
  MaxCalls = 2
  MaxFights = 1
  MaxCrashes = 1
  LastRound = 2
  Outcomes <- FewOutcomes
SPECIFICATION TollFairSpec
PROPERTY RoundsEnd
CHECK_DEADLOCK FALSE
