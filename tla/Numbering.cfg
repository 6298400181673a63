\* A till, a tablet and a desk; three orders over the year's end.
SPECIFICATION Spec
CONSTANTS
    o1 = o1
    o2 = o2
    o3 = o3
    t1 = t1
    w1 = w1
    d1 = d1
    None = None
    Orders <- ThreeOrders
    Retail <- OneRetail
    Tills <- OneTill
    Tablets <- OneTablet
    Desks <- DeskAndTill
    Types <- SalesAndNotes
    TagsFirst = TRUE
    TagDigits = 1
    MaxSeq = 2
    MaxYear = 2
SYMMETRY Restaurant
INVARIANTS
    BillsDiffer
    NoSaleIsStuck
    SlipIsBill
    
CHECK_DEADLOCK FALSE
