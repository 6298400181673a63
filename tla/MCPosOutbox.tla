------------------------------ MODULE MCPosOutbox ------------------------------
(* Instances of PosOutbox for TLC.                                         *)
EXTENDS PosOutbox, TLC

CONSTANTS s1, s2, d1

TwoSales == {s1, s2}
OneSession == {d1}

\* The sales are interchangeable: no property names one.
SaleSymmetry == Permutations(Sales)
=============================================================================
