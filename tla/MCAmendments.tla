---------------------------- MODULE MCAmendments ----------------------------
(* Instances of Amendments for TLC.                                        *)
EXTENDS Amendments, TLC

CONSTANTS i1, l1, l2, u1, r1, r2

OneInvoice == {i1}
TwoLines == {l1, l2}
BothOfIt == [l \in TwoLines |-> i1]

\* A branch with a token of its own, and a tenant with one on the POS cloud.
TwoSetups == {[i \in OneInvoice |-> w] : w \in {{"branch"}, {"tenant", "cloud"}}}
OneUuid == {u1}
TwoRequests == {r1, r2}
Small == {1, 2}
One == {1}

Twins == Permutations(Uuids) \cup Permutations(Requests) \cup Permutations(Lines)
=============================================================================
