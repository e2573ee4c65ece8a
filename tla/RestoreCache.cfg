SPECIFICATION Spec
CONSTANTS
  Restores = {m1, m2}
  Generations = {2, 3}
  Encoded <- Sizes
  MaximumBytes = 7
  Disturbances = 2
  None = None
SYMMETRY Same
CHECK_DEADLOCK FALSE
INVARIANTS
  RestoredIsReviewed
  BudgetKept
  CacheNeverCosts
