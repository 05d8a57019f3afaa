SPECIFICATION ImagesSpec
CONSTANTS
    p1 = p1
    p2 = p2
    m1 = m1
    m2 = m2
    s1 = s1
    s2 = s2
    None = None
    Post = {p1, p2}
    Model = {m1, m2}
    Submitter = {s1, s2}
    Batch = 1
    n1 = n1
    n2 = n2
    Node = {n1, n2}
    Calls = 1
    Retries = 2
    Nobody = Nobody
    a = a
    b = b
    Image = {a, b}
    control = control
    reembed = reembed
    doctor = doctor
    Writer = {control, reembed}
    Reader = {doctor}
    MaxSlots = 3
    MaxBatch = 2
    QueryVec = 0
    OlderVec = 3
    QueryHash = 0
    Threshold = 1
    Want = 2
    Candidates = 2
    Limit = 1
    Scanners = 2
    SearchedSlots = 5
    MaxSearches = 1
    Gone = Gone
SYMMETRY FullSymmetry
INVARIANTS IndexIsBackedUp MarkedIsIndexed SettledIsBackedUp RebuiltIsComplete DeliveryIsTrue FilesKeepPairs SearchFinds
