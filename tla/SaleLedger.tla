------------------------------ MODULE SaleLedger ------------------------------
(***************************************************************************)
(* What offline selling promises: a sale taken at a till is entered into   *)
(* the server's books once, and the till lets go of it only after that.    *)
(* SaleSync implements this.                                               *)
(***************************************************************************)
EXTENDS Naturals, ClientUuids

VARIABLES taken,      \* sales the cashier has charged
          entries,    \* how often each sale is in the server's books
          settled     \* sales the till considers delivered

vars == <<taken, entries, settled>>

Init ==
    /\ taken \in SUBSET Sales
    /\ entries = [u \in Sales |-> 0]
    /\ settled = {}

Take(u) ==
    /\ u \notin taken
    /\ taken' = taken \cup {u}
    /\ UNCHANGED <<entries, settled>>

Enter(u) ==
    /\ u \in taken /\ entries[u] = 0
    /\ entries' = [entries EXCEPT ![u] = 1]
    /\ UNCHANGED <<taken, settled>>

Settle(u) ==
    /\ entries[u] = 1 /\ u \notin settled
    /\ settled' = settled \cup {u}
    /\ UNCHANGED <<taken, entries>>

Next == \E u \in Sales : Take(u) \/ Enter(u) \/ Settle(u)

Safety == Init /\ [][Next]_vars

\* Delivery is only a matter of time.
Spec == Safety /\ \A u \in Sales : WF_vars(Enter(u)) /\ WF_vars(Settle(u))
=============================================================================
