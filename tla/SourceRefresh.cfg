SPECIFICATION Spec
CONSTANTS
  None = None
  Identifiers <- MCIdentifiers
  Variables <- MCVariables
  Slugs = {"covers"}
  Digests <- MCDigests
  Environment <- MCEnvironment
  base = base
  relisted = relisted
  provided = provided
  Policies <- MCPolicies
  Document <- MCDocument
  Readers <- MCReaders
  Torn = Torn
  MaxGrants = 2
  MaxEvents = 1
  Names = {1, 2, 3}
  First = 2
  Retain = 2
  MaxVersions = 2
INVARIANTS
  AccessIsRecorded
  ActiveIsWhole
  ReportIsTrue
PROPERTIES
  RetiredAsReviewed
  CapturedAsReviewed
  PrunedAsReviewed
SYMMETRY Same
CHECK_DEADLOCK FALSE
