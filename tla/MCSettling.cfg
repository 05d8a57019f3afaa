SPECIFICATION SettlingSpec
CONSTANTS
    n1 = n1
    n2 = n2
    r1 = r1
    None = None
    Node = {n1, n2}
    Posts = {1, 2}
    Floor = 1
    Batch = 2
    MaxAttempts = 2
    Limit = 0
    Control = n1
    Leasable = {r1}
    HeartbeatEvery = 1
    NodeTimeout = 2
    MaxStops = 1
    Nobody = Nobody
INVARIANTS SucceededMeansStored PunctualIsAlive
PROPERTIES WorkComesBack
CHECK_DEADLOCK FALSE
