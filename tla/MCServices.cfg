SPECIFICATION ServicesSpec
CONSTANTS
    t1 = t1
    t2 = t2
    s1 = s1
    s2 = s2
    n1 = n1
    Updates = 2
    MaxFaults = 2
    MaxBots = 2
    Setter = {s1, s2}
    Token = {t1, t2}
    MaxSets = 2
    MaxTroubles = 1
    Images = 3
    PageSize = 2
    Mishaps = 1
    Saver = {s1, s2}
    Spans = {1, 2}
    Jobs = {"rebuild", "reembed"}
    MaxSaves = 2
    MaxStarts = 2
    Node = {n1}
    Calls = 1
    Retries = 2
    Nobody = Nobody
    a1 = a1
    a2 = a2
    Applier = {a1, a2}
    Releases = {1, 2, 3}
    Pieces = 2
    MaxApplies = 3
    Browser = {s1, s2}
    MaxSetups = 3
    MaxMishaps = 2
INVARIANTS UpdatesAreAnswered FilesHoldUnlessCrossed RunsLeaveNothingOut ConsoleHolds
PROPERTIES EveryoneIsAnswered TokenTakesEffect ThumbsBecomeSearchable UpdatesGoForward
CHECK_DEADLOCK FALSE
