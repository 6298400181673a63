--------------------------- MODULE MCFbrSubmission ---------------------------
(* Instances of FbrSubmission for TLC.                                     *)
EXTENDS FbrSubmission, TLC

CONSTANTS i1, i2, m1, m2, r1, t1

OneInvoice == {i1}
TwoInvoices == {i1, i2}
TwoMessages == {m1, m2}
OneRequest == {r1}
OneTill == {t1}

\* What a message, a request or a till that is at rest was last about, and the
\* number it then got, is not read again: they are set anew when they start.
Seen ==
    <<invoice, active, task, req, till, issued, lost, met,
      [m \in Messages |-> IF task[m] = "free" THEN <<>> ELSE <<of[m], tries[m]>>],
      [m \in Messages |-> IF task[m] \in {"accepted", "logged"} THEN got[m] ELSE 0],
      [r \in Requests |-> IF req[r] = "idle" THEN {} ELSE {on[r]}],
      [t \in Tills |-> IF till[t] = "idle" THEN {} ELSE {sale[t]}],
      [t \in Tills |-> IF till[t] \in {"issued", "checked"} THEN gave[t] ELSE 0]>>

\* Messages and requests are interchangeable: no property names one.
Slots == Permutations(Messages) \cup Permutations(Requests)
=============================================================================
