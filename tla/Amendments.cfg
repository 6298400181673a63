\* An invoice of two lines, and any two requests at a time.
SPECIFICATION Spec
CONSTANTS
    i1 = i1
    l1 = l1
    l2 = l2
    u1 = u1
    r1 = r1
    r2 = r2
    Invoices <- OneInvoice
    Lines <- TwoLines
    Of <- BothOfIt
    Sold = 1
    Uuids <- OneUuid
    Requests <- TwoRequests
    Totals <- One
    Budgets <- Small
    Setups <- TwoSetups
SYMMETRY Twins
INVARIANTS
    RefundedOnce
    AuthorityKnows
    BackOnce
PROPERTIES
    CapHolds
    StaysCancelled
CHECK_DEADLOCK FALSE
