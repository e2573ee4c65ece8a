\* Two managers, one of which may be an orphan, two baselines, one edit.
SPECIFICATION Spec
CONSTANTS
  Managers = {m1, m2}
  Files = {1, 2, 3, 4}
  Disturbances = 1
  MaxPlan = 1
  Source <- MCSource
  Policy <- MCPolicy
  None = None
INVARIANTS
  MarkerIsTrue
PROPERTIES
  ResetIsSafe
SYMMETRY ManagerSymmetry
CHECK_DEADLOCK FALSE
