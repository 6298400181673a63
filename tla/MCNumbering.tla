----------------------------- MODULE MCNumbering -----------------------------
(* Instances of Numbering for TLC.                                         *)
EXTENDS Numbering, TLC

CONSTANTS o1, o2, o3, t1, w1, d1

ThreeOrders == {o1, o2, o3}
OneRetail == {o3}
OneTill == {t1}
OneTablet == {w1}
OneDesk == {d1}
DeskAndTill == {d1, t1}
SalesAndNotes == {"sale", "debit_note"}

\* The orders of a restaurant are interchangeable.
Restaurant == Permutations({o1, o2})
=============================================================================
