------------------------------ MODULE MCKotRelay ------------------------------
(* Instances of KotRelay for TLC.                                          *)
EXTENDS KotRelay, TLC

CONSTANTS t1, w1

OneTill == {t1}
OneTablet == {w1}

\* Two lines at the till, two of one dish at the tablet.
MixedLines == 1 .. 4
MixedOrders == [l \in 1 .. 4 |-> IF l <= 2 THEN t1 ELSE w1]
MixedDishes == [l \in 1 .. 4 |-> IF l <= 2 THEN l ELSE 3]
=============================================================================
