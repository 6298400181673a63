\* A sale and the row that opening the day enqueues, under a fault.
SPECIFICATION Spec
CONSTANTS
    s1 = s1
    s2 = s2
    d1 = d1
    p1 = p1
    p2 = p2
    t1 = t1
    Sales <- OneSale
    Sessions <- OneSession
    Posts <- TwoPosts
    Retries <- Nothing
    NoRow = NoRow
    NoPost = NoPost
    MaxAttempts = 2
    MaxFaults = 1
PROPERTY
    LedgerSafety
