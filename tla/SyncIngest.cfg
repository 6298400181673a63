\* Three overlapping POSTs and one admin retry of the same sale.
SPECIFICATION ServerSpec
CONSTANTS
    s1 = s1
    p1 = p1
    p2 = p2
    p3 = p3
    t1 = t1
    t2 = t2
    Sales <- OneSale
    Posts <- ThreePosts
    Retries <- OneRetry
SYMMETRY Slots
INVARIANTS
    ChargedOnce
    LogAgrees
    HonestReply
