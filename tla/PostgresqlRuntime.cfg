SPECIFICATION Spec
CONSTANTS
  Tools = {"sql", "native"}
  Candidates = 1
  Generations = 2
  MaxVolumes = 2
  Foreign = TRUE
INVARIANTS
  RecordsVouch
PROPERTIES
  ReadyMeansRestored
  ServedDataKept
  VerifiedIsExact
