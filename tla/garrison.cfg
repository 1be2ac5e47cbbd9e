CONSTANTS
  a = a
  b = b
  c = c
  x1 = x1
  x2 = x2
  j1 = j1
  j2 = j2
  corp = corp
  NoCorp = NoCorp
  Ships = {a, b, c}
  Sectors = {x1, x2}
  Corp <- MCCorp
  Jobs = {j1, j2}
  Kinds = {"leave", "collect", "disband", "mode"}
  Quantities = {2}
  Opening = 2
  Standing <- MCStanding
  Berth <- MCBerth
  Bay = 3
  MaxGarrison = 3
  MaxRequests = 2
  MaxFights = 1
  MaxMoves = 1
SPECIFICATION Spec
SYMMETRY Sym
CHECK_DEADLOCK FALSE
INVARIANT TypeOK
INVARIANT OneGarrison
INVARIANT NoLockCycle
INVARIANT FightersAccounted
INVARIANT TollsAccounted
PROPERTY DeployedOnTheSpot
