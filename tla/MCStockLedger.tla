---------------------------- MODULE MCStockLedger ----------------------------
(* Instances of StockLedger for TLC.                                       *)
EXTENDS StockLedger, TLC

CONSTANTS a1, a2, b1, b2, tr, gr, au, sa, r1, r2

FourLevels == {a1, a2, b1, b2}
FourDocs == {tr, gr, au, sa}
TwoRequests == {r1, r2}

\* Two products go from branch a to b while both are sold at a, in the opposite
\* order; of each product one item is not received; goods arrive at a, and an audit at
\* b finds one item less.
Kinds == tr :> "transfer" @@ gr :> "receipt" @@ au :> "audit" @@ sa :> "sale"
L(k, t, q) == [at |-> k, to |-> t, qty |-> q]
Lines == tr :> <<L(a1, b1, 2), L(a2, b2, 1)>>
      @@ gr :> <<L(a1, a1, 3)>>
      @@ au :> <<L(b1, b1, -1)>>
      @@ sa :> <<L(a2, a2, 1), L(a1, a1, 1)>>
Fives == [k \in FourLevels |-> 5]
OneMissing == {1}

Slots == Permutations(Requests)

\* It does not matter which document an idle request worked on before.
Seen == <<documents, level, ledger, op, todo, count, step, held, draft, rows, history,
          [r \in Requests |-> IF op[r] = "idle" THEN {} ELSE {doc[r]}]>>
=============================================================================
