----------------------------- MODULE MCOpenOrder -----------------------------
(* Instances of OpenOrder for TLC.                                         *)
EXTENDS OpenOrder, TLC

CONSTANTS r1, r2

TwoRequests == {r1, r2}
=============================================================================
