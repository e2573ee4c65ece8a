SPECIFICATION FairSpec
CONSTANTS
  Requests <- TwoRequests
  Operators = {op}
  Capacity = 2
  NumberLimit = 2
  Mortal = {1, 2}
  Impatient = {1, 2}
  InOrder = FALSE
  Reusable = {1}
INVARIANTS
  NoOvertaking
  GuardedWorkNeverOverlaps
  LiveTicketStays
PROPERTIES
  DeadHolderNeedsReview
  ImplementsLease
  WaitersProgress
CHECK_DEADLOCK FALSE
