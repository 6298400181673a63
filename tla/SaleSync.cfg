\* One sale, both delivery paths and an admin retry, under a fault.
SPECIFICATION FairSpec
CONSTANTS
    s1 = s1
    s2 = s2
    d1 = d1
    p1 = p1
    p2 = p2
    t1 = t1
    Sales <- OneSale
    Sessions <- Nothing
    Posts <- TwoPosts
    Retries <- OneRetry
    NoRow = NoRow
    NoPost = NoPost
    MaxAttempts = 2
    MaxFaults = 1
INVARIANT
    OkMeansRecorded
PROPERTY
    LedgerSpec
