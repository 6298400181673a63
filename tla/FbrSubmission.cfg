\* A fiscal and a non-fiscal invoice, two messages, two worker processes, a till.
SPECIFICATION Spec
CONSTANTS
    i1 = i1
    i2 = i2
    m1 = m1
    m2 = m2
    r1 = r1
    t1 = t1
    Invoices <- TwoInvoices
    Fiscal <- OneInvoice
    Messages <- TwoMessages
    Requests <- OneRequest
    Tills <- OneTill
    Workers = 2
    MaxRetries = 1
    LongWait = 1
    MaxLost = 1
    MaxMet = 1
    Dies = TRUE
VIEW Seen
SYMMETRY Slots
INVARIANTS
    FiscalizedOnce
    FiscalStatus
    NumberOnRecord
PROPERTY
    NumberIsFinal
