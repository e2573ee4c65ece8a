SPECIFICATION DockerSpec
CONSTANTS
  Boxes = {1, 2, 3, 4}
  BoxLabels <- SomeBoxLabels
  VolumeLabels <- SomeVolumeLabels
  Mounts <- SomeMounts
  ImageOf <- SomeImages
  Claims <- InOrder
  Targets <- Started
  Provider <- Providers
  Sheltered = {"side"}
  Evidence <- Recorded
  VolumeBytes <- Sizes
  RetainedEnvironments = 1
  Quota = 5
  Later = {3, 4}
  Tags <- SomeTags
  Cutoff = 1
  MaxTime = 3
  Memory <- Weights
  EngineMemory = 6
  EngineReserve = 1
  Demand <- Needed
  MaximumContainers = 3
  Nothing = Nothing
PROPERTIES
  ActsAsReviewed
  ReportsAreTrue
CHECK_DEADLOCK FALSE
