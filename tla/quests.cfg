CONSTANTS
  t1 = t1
  t2 = t2
  moved = moved
  docked = docked
  Txns = {t1, t2}
  Kinds = {moved, docked}
  Heard <- Moves
  Passing <- Filters
  Target <- Targets
  Limit = 2
  MaxEvents = 4
  MaxClaims = 2
  MaxFaults = 1
SPECIFICATION Spec
SYMMETRY Sym
CHECK_DEADLOCK FALSE
INVARIANT CountsAgree
INVARIANT NothingMissed
INVARIANT RewardsOnce
PROPERTY NeverBack
