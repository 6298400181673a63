\* One order and any two requests on it at a time.
SPECIFICATION FairSpec
CONSTANTS
    r1 = r1
    r2 = r2
    Requests <- TwoRequests
    MaxRequests = 4
INVARIANTS
    ClosedIsPaid
    SettledOnce
    ChargedIsWhole
PROPERTIES
    StaysClosed
    StaysFired
    GhostsClose
CHECK_DEADLOCK FALSE
