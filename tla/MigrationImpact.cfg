SPECIFICATION ImpactSpec
CONSTANTS
    Relations = {1, 2}
    Oids = {o1, o2, o3}
    Contents <- SomeContents
    Directories <- SomeDirectories
    Represented <- SomeHistories
    Namespace = Namespace
    None = None
    MaxMeasurements = 2
    MaxEvents = 2
SYMMETRY Symmetry
INVARIANTS CountsAreTrue MeasuredAsReviewed
CHECK_DEADLOCK FALSE
