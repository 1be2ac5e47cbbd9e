CONSTANTS
  me = me
  s1 = s1
  s2 = s2
  Me = me
  Ships = {s1, s2}
  Qty = 2
  Attempts = 2
  Budgets <- MCBudgets
SPECIFICATION FairSpec
CHECK_DEADLOCK FALSE
INVARIANT NothingLost
INVARIANT InOrder
INVARIANT ScopeAgrees
INVARIANT HeardOnce
PROPERTY Delivered
PROPERTY Listens
