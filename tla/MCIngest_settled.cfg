SPECIFICATION Spec
CONSTANTS
    p1 = p1
    p2 = p2
    m1 = m1
    m2 = m2
    s1 = s1
    s2 = s2
    None = None
    Post = {p1}
    Model = {m1}
    Submitter = {s1}
    Batch = 1
INVARIANTS SettledIsIndexed
