SPECIFICATION Spec
CONSTANTS
    n1 = n1
    n2 = n2
    Node = {n1}
    Oldest = 1
    Newest = 3
    Page = 2
    Limited = TRUE
INVARIANTS CutPostsStayAhead
