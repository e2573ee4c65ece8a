CONSTANTS
    Generations <- MCGenerations
    Represented <- MCRepresented
    Directories <- MCDirectories
    MaxTrouble = 2
    None = None
SPECIFICATION Spec
PROPERTIES
  ServedIsRestored
  RemovedIsGone
  OnlyApproved
