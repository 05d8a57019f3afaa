SPECIFICATION WorkerSpec
CONSTANTS
    p1 = p1
    p2 = p2
    p3 = p3
    Main = Main
    Post = {p1, p2, p3}
    SubmitBatch = 2
    Senders = 1
    MinLimit = 1
    MaxLimit = 2
    StartLimit = 2
    Enough = 2
    Sample = 2
    c1 = c1
    c2 = c2
    c3 = c3
    Caller = {c1, c2, c3}
    Size = 2
    Preparers = 2
    direct = direct
    encrypted = encrypted
    proxy = proxy
    Unready = {proxy}
    Ech = encrypted
    None = None
    r1 = r1
    r2 = r2
    Requester = {r1, r2}
    MaxDisturbed = 1
    MaxRestarts = 0
    w1 = w1
    w2 = w2
    Crawler = {w1, w2}
    MaxImages = 4
    MaxPosts = 3
    MaxRanges = 3
    Backfill = {w1}
    Other = {w2}
    MaxIndexed = 3
    BatchSize = 2
    Overshoot = 1
    Errors = 1
INVARIANTS SlotsConserved ReportAddsUp PartsTypeOK LimitsAreKept
PROPERTIES CallsReturn WindowIsForTheAnswered SettlesOnAnOpenPath LimitsEnd
CHECK_DEADLOCK FALSE
