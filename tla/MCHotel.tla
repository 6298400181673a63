------------------------------- MODULE MCHotel -------------------------------
(* Instances of Hotel for TLC.                                             *)
EXTENDS Hotel, TLC

CONSTANTS m1, m2, f1, f2, c1, r1, r2

TwoRooms == {m1, m2}
TwoFolios == {f1, f2}
OneCharge == {c1}
TwoRequests == {r1, r2}
OneOrTwo == {1, 2}

Twins == Permutations(Rooms) \cup Permutations(Folios)
        \cup Permutations(Charges) \cup Permutations(Requests)

\* The bill of an ended stay is what BillIsWhole asks, or no longer asked about.
Fine(f) ==
    \/ f \in late
    \/ folio[f] = "closed" /\ bill[f] = [nights |-> nights[f], extras |-> extras[f]]
    \/ folio[f] = "cancelled" /\ nights[f] = NoNights /\ extras[f] = {}

\* What the steps and the invariants tell states apart by: of an ended stay, its
\* bill and the rooms that a late checkout would free.
OfStay(f) ==
    CASE folio[f] = "open" ->
             <<booked[f], [m \in booked[f] |-> term[f][m]], nights[f], extras[f],
               struck[f], bill[f]>>
      [] folio[f] = "none" -> <<>>
      [] OTHER ->
             <<Fine(f), IF \E r \in Requests : op[r] = "checkout" /\ arg[r].f = f
                        THEN booked[f] ELSE {}>>

Seen ==
    <<room, folio, settles, posted, work, met, late, [f \in Folios |-> OfStay(f)],
      [c \in Charges |-> IF \E f \in Folios : folio[f] = "open" /\ c \in extras[f]
                         THEN tag[c] ELSE {}]>>
=============================================================================
