SPECIFICATION FleetSpec
CONSTANTS
    n1 = n1
    n2 = n2
    w1 = w1
    w2 = w2
    None = None
    Node = {n1, n2}
    Worker = {w1, w2}
    Latest = 3
    Floors = {1, 2}
    UniformFloors = FALSE
    Sizes = {2}
    MaxAttempts = 2
    MaxRows = 3
    Oldest = 1
    Newest = 4
    Page = 2
    Limited = FALSE
PROPERTIES RangesSettle CatchesUp
CHECK_DEADLOCK FALSE
