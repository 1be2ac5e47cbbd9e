CONSTANTS
  None = None
  Players = {p1, p2, p3}
  Corps = {c1, c2}
  Hulls = {h1, h2}
  Jobs = {j1, j2}
  Cap = 1
  MaxCalls = 2
  MaxFaults = 1
SPECIFICATION Spec
SYMMETRY Sym
CHECK_DEADLOCK FALSE
INVARIANT ShipCap
INVARIANT RollsAgree
INVARIANT NothingOrphaned
PROPERTY ClaimsHeld
