SPECIFICATION CrawlSpec
CONSTANTS
    n1 = n1
    n2 = n2
    Node = {n1, n2}
    Oldest = 1
    Newest = 3
    Page = 2
    Limited = TRUE
    None = None
    Posts = {1, 2}
    Floor = 1
    Batch = 2
    MaxAttempts = 2
    Limit = 2
    MaxPost = 5
    PageSize = 2
    MaxId = 5
    o1 = o1
    o2 = o2
    Operator = {o1, o2}
    Sizes = {1, 2}
    Limits = {1, 5}
    c1 = c1
    c2 = c2
    Caller = {c1, c2}
    Interval = 2
    Burst = 2
    Pauses = {1, 3}
    Retries = 2
    MaxTime = 4
    direct = direct
    encrypted = encrypted
    proxy = proxy
    Unready = {proxy}
    Ech = encrypted
    r1 = r1
    r2 = r2
    Requester = {r1, r2}
    MaxDisturbed = 1
    MaxRestarts = 1
    Id = {"a", "b"}
    VectorSizes = {1, 2}
    Weights = {"v", "w"}
    w1 = w1
    Worker = {w1}
    central = central
    Central = central
    MaxChanges = 2
    MaxStarts = 3
SYMMETRY SymmetricNodes
INVARIANTS NoOtherGaps Paced PathsAreHonest VectorsKeepToOneModel
PROPERTIES RetriesAreFenced RangesAreComplete
