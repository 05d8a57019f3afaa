SPECIFICATION Spec
CONSTANTS
    n1 = n1
    n2 = n2
    None = None
    Node = {n1}
    Posts = {1}
    Floor = 1
    Batch = 1
    MaxAttempts = 1
    Limit = 1
INVARIANTS SucceededMeansStored
