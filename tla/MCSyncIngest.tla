----------------------------- MODULE MCSyncIngest -----------------------------
(* Instances of SyncIngest for TLC.                                        *)
EXTENDS SyncIngest, TLC

CONSTANTS s1, p1, p2, p3, t1, t2

OneSale == {s1}
ThreePosts == {p1, p2, p3}
OneRetry == {t1}

\* Two retries of one log row break ChargedOnce.
TwoRetries == {t1, t2}

\* The POST slots are interchangeable: no property names one.
Slots == Permutations(Posts)
=============================================================================
