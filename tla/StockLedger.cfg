\* A transfer, a goods receipt, an audit and a sale over four level rows.
SPECIFICATION Spec
CONSTANTS
    a1 = a1
    a2 = a2
    b1 = b1
    b2 = b2
    tr = tr
    gr = gr
    au = au
    sa = sa
    r1 = r1
    r2 = r2
    Keys <- FourLevels
    Docs <- FourDocs
    Kind <- Kinds
    Line <- Lines
    Opening <- Fives
    Missing <- OneMissing
    Requests <- TwoRequests
SYMMETRY Slots
VIEW Seen
INVARIANTS
    LevelIsLedger
    DocumentsExplainStock
    DocumentsAddUp
CHECK_DEADLOCK FALSE
