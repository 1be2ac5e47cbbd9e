CONSTANTS
  p1 = p1
  p2 = p2
  f1 = f1
  f2 = f2
  c1 = c1
  c2 = c2
  c3 = c3
  Pilots = {p1, p2}
  Fights = {f1}
  Ids = {c1, c2}
  Holds = 3
  OpeningCargo = 1
  OpeningCredits = 1
  WreckUnits = 3
  WreckCredits = 2
  Lots = {1, 2}
  OneAtATime = TRUE
  MaxCalls = 5
  MaxKills = 1
SPECIFICATION FairSpec
CHECK_DEADLOCK FALSE
PROPERTY ClaimsReleased
INVARIANT Conserved
