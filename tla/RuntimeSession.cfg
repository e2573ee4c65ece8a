SPECIFICATION FairSpec
CONSTANTS
  Size = 2
  Projects <- ProjectFiles
  Commands = {"run", "open", "start", "reset", "migrate", "stop", "discard"}
  MaxSignals = 2
INVARIANTS
  ProtectedDataKept
  OutcomeIsTrue
  ApplicationRetired
PROPERTIES
  StackGoesDown
  CancellationEnds
CHECK_DEADLOCK FALSE
