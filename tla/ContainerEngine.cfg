\* Two projects, one of which may boot and release the VM, and its reviewer.
SPECIFICATION EngineSpec
CONSTANTS
  Projects = {p1, p2}
  Reviewer = reviewer
  AutoStart = {p1}
  Idle = {p1}
  Queued = {p2}
  MaxBoots = 2
  MaxStarts = 2
  MaxCommands = 4
  MaxMeddling = 1
  None = None
PROPERTIES
  StopsAreProven
  CleanupIsExact
CHECK_DEADLOCK FALSE
