CONSTANTS
  a = a
  b = b
  c = c
  s1 = s1
  s2 = s2
  Ships = {s1, s2}
  Sectors = {a, b, c}
  Warps <- MCWarps
  Depots = {a}
  Berth <- MCBerth
  Jobs = {1, 2}
  Tank = 2
  Full = 1
  Cost = 1
  Flight = 1
  Threshold = 1
  Slack = 1
  Units = {2}
  MaxCalls = 3
  MaxFaults = 1
SPECIFICATION FairSpec
CHECK_DEADLOCK FALSE
INVARIANT JumpOwned
INVARIANT NoWarpMade
PROPERTY AlongWarps
PROPERTY LeavesHyperspace
