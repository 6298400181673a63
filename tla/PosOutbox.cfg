\* Two sales and a cash session under arbitrary answers, crashes and retries.
SPECIFICATION TillSpec
CONSTANTS
    s1 = s1
    s2 = s2
    d1 = d1
    Sales <- TwoSales
    Sessions <- OneSession
    NoRow = NoRow
    MaxAttempts = 2
SYMMETRY SaleSymmetry
INVARIANTS
    NeverAbandoned
    ChargedIsQueued
    SentIsInFlight
PROPERTY
    AckIsFinal
