------------------------------ MODULE MCSaleSync ------------------------------
(* Instances of SaleSync for TLC.                                          *)
EXTENDS SaleSync, TLC

CONSTANTS s1, s2, d1, p1, p2, t1

OneSale == {s1}
TwoSales == {s1, s2}
OneSession == {d1}
OnePost == {p1}
TwoPosts == {p1, p2}
OneRetry == {t1}
Nothing == {}
=============================================================================
