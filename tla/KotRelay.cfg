\* A till and a tablet that fire; the till relays, and its printer may fail.
SPECIFICATION FairSpec
CONSTANTS
    t1 = t1
    w1 = w1
    Tills <- OneTill
    Tablets <- OneTablet
    Lines <- MixedLines
    OrderOf <- MixedOrders
    Dish <- MixedDishes
    Jams <- OneTill
    MaxBacklog = 1
    MaxUpserts = 3
    MaxFaults = 1
INVARIANT
    StampedIsPrinted
PROPERTIES
    StampsSurvive
    SentIsCooked
