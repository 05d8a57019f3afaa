SPECIFICATION LeasesSpec
CONSTANTS
    n1 = n1
    n2 = n2
    w1 = w1
    w2 = w2
    w3 = w3
    v1 = v1
    v2 = v2
    None = None
    Node = {n1, n2}
    Worker = {w1, w2, w3}
    NodeOf <- MCNodeOf
    Latest = 4
    Floors = {1, 2}
    UniformFloors = TRUE
    Sizes = {2, 3}
    MaxAttempts = 2
    MaxRows = 3
    OperatedFloors = {1, 2}
    OperatedSizes = {2}
SYMMETRY SameNodeWorkers
INVARIANTS TypeOK Exclusive IdsAreAccountedFor OperatedFence
PROPERTIES ClosedForGood KeepsLedger
