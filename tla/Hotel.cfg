\* Two rooms, two guests and any two requests at a time.
SPECIFICATION Spec
CONSTANTS
    m1 = m1
    m2 = m2
    f1 = f1
    f2 = f2
    c1 = c1
    r1 = r1
    r2 = r2
    Rooms <- TwoRooms
    Folios <- TwoFolios
    Charges <- OneCharge
    Requests <- TwoRequests
    Nights <- OneOrTwo
    MaxSettles = 2
VIEW Seen
SYMMETRY Twins
INVARIANTS
    RoomsCharged
    OneGuest
    RoomsInStep
    BillIsWhole
CHECK_DEADLOCK FALSE
