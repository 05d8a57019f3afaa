SPECIFICATION LifeSpec
CONSTANTS
    n1 = n1
    n2 = n2
    r1 = r1
    Host = {n1, n2}
    Control = n1
    Leasable = {r1}
    HeartbeatEvery = 1
    NodeTimeout = 2
    MaxStops = 1
    Nobody = Nobody
PROPERTIES OwnRunIsSpared
CHECK_DEADLOCK FALSE
