SPECIFICATION GuardFairSpec
CONSTANTS
  Procs = {p1, p2, p3}
  Killable = {p1}
  Recycled = {p1}
  Unlucky = {p2}
INVARIANTS
  OwnerKeepsLock
PROPERTIES
  LockIsGivenUp
CHECK_DEADLOCK FALSE
