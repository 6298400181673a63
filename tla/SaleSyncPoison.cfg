\* A sale charged after the day was opened, with the cash_session row ahead of it.
SPECIFICATION FairSpec
CONSTANTS
    s1 = s1
    s2 = s2
    d1 = d1
    p1 = p1
    p2 = p2
    t1 = t1
    Sales <- OneSale
    Sessions <- OneSession
    Posts <- OnePost
    Retries <- Nothing
    NoRow = NoRow
    NoPost = NoPost
    MaxAttempts = 2
    MaxFaults = 1
PROPERTY
    SaleArrives
