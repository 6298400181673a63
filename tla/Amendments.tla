----------------------------- MODULE Amendments -----------------------------
(***************************************************************************)
(* What becomes of an invoice that the authority has accepted: cancelled   *)
(* whole or by lines, edited, returned, or marked as cancelled on the      *)
(* portal (apps/returns/services/process.py, apps/fbr/services.py,         *)
(* apps/sales/services/cancellation.py), and the monthly budget that       *)
(* cancellations and edits draw on (apps/fbr/budget.py).                   *)
(*                                                                         *)
(* A request decides by the invoice and lines it loads, then locks the     *)
(* budget row, asks the authority if there is a token for it, reads the    *)
(* lines again and commits, all in one transaction: a refusal or a failure *)
(* undoes what it wrote here, never what the authority has recorded.       *)
(* Nothing locks the invoice: what requests that overlap on one lead to is *)
(* written down as history.  The month has its budget row, and tokens and  *)
(* connections stay as they are.                                           *)
(***************************************************************************)
EXTENDS Naturals

CONSTANTS Invoices, Lines,
          Of,            \* the invoice of each line
          Sold,          \* quantity sold of each line
          Uuids,         \* Return.client_uuid
          Requests,      \* requests the server can serve at once
          Totals,        \* grand totals
          Budgets,       \* a tenth of last month's sales
          Setups         \* which tokens, and which connection, invoices may have

Wires == {"tenant", "branch", "cloud"}

ASSUME AmendAssumption ==
    /\ Of \in [Lines -> Invoices]
    /\ Sold \in Nat \ {0}
    /\ Totals \subseteq Nat /\ Budgets \subseteq Nat
    /\ Setups \subseteq [Invoices -> SUBSET Wires]

VARIABLES
    wired,         \* of each invoice: a production token of its tenant or branch,
                   \* a connection to the POS cloud
    status,        \* Invoice.status
    dead,          \* invoices past edit_deadline_at
    total,         \* Invoice.grand_total
    gone,          \* lines with is_cancelled
    edited,        \* lines with is_edited
    backs,         \* how often a cancellation put a line back in stock
    returned,      \* quantities on the Return row of each client_uuid
    refunds,       \* refund payments made for it
    booked,        \* consumption rows and credit notes
    budget,        \* the month's FbrCancelBudget row
    heard,         \* what the authority has recorded
    phase,         \* what each request does next, or "idle"
    job,           \* what it is about, and what it has loaded
    met,           \* history: lines put back by who had read them before another
    slack          \* history: consumption that the last recomputation overlooked

books == <<status, dead, total, gone, edited, backs, returned, refunds, booked, budget,
           met, slack>>
vars == <<wired, books, heard, phase, job>>

Accepted == {"valid", "partially_edited", "partially_cancelled",
             "partially_edited_and_cancelled", "edited"}
Statuses == Accepted \cup {"cancelled"}
Pays == {"cancel", "edit", "amend"}
Returning == {"amend", "note"}
Kinds == {"cancel", "plain", "portal", "item", "edit", "amend", "note"}
Phases == {"budget", "authority", "lines", "commit"}
Carts == [Lines -> 0 .. Sold]
NoJob == [kind |-> "none"]
Nothing == [l \in Lines |-> 0]
Facts == [kind : Kinds, i : Invoices, l : SUBSET Lines, u : SUBSET Uuids]
Jobs ==
    [kind : {"recompute"}, sum : Nat]
    \cup [kind : Kinds, i : Invoices, l : SUBSET Lines, u : SUBSET Uuids, q : Carts,
          live : BOOLEAN, sum : Nat, saw : SUBSET Lines, then : Statuses]
Rows == [amount : Nat, consumed : Nat, remaining : Nat]

LinesOf(i) == {l \in Lines : Of[l] = i}

TypeOK ==
    /\ wired \in Setups
    /\ status \in [Invoices -> Statuses]
    /\ dead \subseteq Invoices
    /\ total \in [Invoices -> Nat]
    /\ gone \subseteq Lines /\ edited \subseteq Lines
    /\ backs \in [Lines -> Nat]
    /\ returned \in [Uuids -> Carts]
    /\ refunds \in [Uuids -> Nat]
    /\ booked \subseteq Facts /\ heard \subseteq Facts
    /\ budget \in Rows
    /\ phase \in [Requests -> Phases \cup {"idle"}]
    /\ job \in [Requests -> Jobs \cup {NoJob}]
    /\ \A r \in Requests : phase[r] # "idle" => job[r] \in Jobs
    /\ met \subseteq Lines /\ slack \in Nat

Init ==
    /\ wired \in Setups
    /\ status = [i \in Invoices |-> "valid"]
    /\ dead = {} /\ gone = {} /\ edited = {} /\ booked = {} /\ heard = {}
    /\ met = {} /\ slack = 0
    /\ total \in [Invoices -> Totals]
    /\ backs = [l \in Lines |-> 0]
    /\ returned = [u \in Uuids |-> Nothing]
    /\ refunds = [u \in Uuids |-> 0]
    /\ \E b \in Budgets : budget = [amount |-> b, consumed |-> 0, remaining |-> b]
    /\ phase = [r \in Requests |-> "idle"]
    /\ job = [r \in Requests |-> NoJob]

-----------------------------------------------------------------------------
(* What a request decides by the invoice and lines as loaded.              *)

Idle(r) == phase[r] = "idle"

\* Variant for mutation: an invoice that is cancelled is not refused.
AcceptableAlways(i) == i \notin dead

\* _not_yet_validated_reason and _past_deadline.
Acceptable(i) == status[i] \in Accepted /\ i \notin dead

\* can_cancel_invoice.
CanCancel(i) == Acceptable(i) /\ LinesOf(i) \cap edited = {}

\* can_cancel_item and can_edit_item.
CanTouch(l) == Acceptable(Of[l]) /\ l \notin gone /\ l \notin edited

\* Variant for mutation: no row is looked for and no constraint holds.
FreshAlways(u) == u \in Uuids

\* Return.client_uuid has no row: looked up first, and unique.
Fresh(u) == returned[u] = Nothing

\* process_return takes any cart of lines of the invoice, each within what was sold.
CartOf(i, q) == q # Nothing /\ \A l \in Lines : q[l] > 0 => Of[l] = i

\* Whether there is an authority to ask: cancelling and editing take the token of the
\* branch or else of the tenant, returns the tenant's alone; no cancellation goes to
\* the POS cloud.
Asks(x) ==
    CASE x.kind = "cancel" -> wired[x.i] \cap {"tenant", "branch"} # {} /\ "cloud" \notin wired[x.i]
      [] x.kind = "edit" -> wired[x.i] \cap {"tenant", "branch"} # {}
      [] x.kind \in Returning -> "tenant" \in wired[x.i]
      [] OTHER -> FALSE

\* Who has asked, or has no one to ask, reads the lines; an edit has its lines with the
\* invoice, which the view prefetched.
Asked(j) == IF j.kind = "edit" THEN "commit" ELSE "lines"

First(j) ==
    CASE j.kind \in Pays -> "budget"
      [] j.kind = "note" -> IF Asks(j) THEN "authority" ELSE "lines"
      [] j.kind \in {"plain", "item"} -> "lines"
      [] OTHER -> "commit"

Start(r, j) ==
    /\ Idle(r)
    /\ phase' = [phase EXCEPT ![r] = First(j)]
    /\ job' = [job EXCEPT ![r] = j]
    /\ UNCHANGED <<books, heard>>

\* A job on invoice i as it is loaded: whether the invoice was live, the lines it read
\* as cancelled, and the status an edit will write.
Job(k, i, l, u, q, sum) ==
    [kind |-> k, i |-> i, l |-> l, u |-> u, q |-> q, live |-> status[i] # "cancelled",
     sum |-> sum, saw |-> {}, then |-> "cancelled"]

\* cancel_invoice_with_fbr, or the plain cancel_invoice of the sales API.
LoadCancel(r, i, k) ==
    CanCancel(i) /\ Start(r, Job(k, i, {}, {}, Nothing, total[i]))

\* cancel_item.
LoadItem(r, l) ==
    CanTouch(l) /\ Start(r, Job("item", Of[l], {l}, {}, Nothing, 0))

\* The status that an edit of a line will write, by the lines as prefetched: they do
\* not show the edit itself.
EditedStatus(i) ==
    IF LinesOf(i) \cap edited # {} /\ LinesOf(i) \cap gone # {}
    THEN "partially_edited_and_cancelled" ELSE "partially_edited"

\* edit_item: the invoice's totals are made again of the lines as prefetched.
LoadEdit(r, l, t) ==
    /\ CanTouch(l)
    /\ Start(r, [Job("edit", Of[l], {l}, {}, Nothing, t) EXCEPT !.then = EditedStatus(Of[l])])

\* process_return, routed by determine_fbr_route.
LoadReturn(r, i, u, q) ==
    /\ CartOf(i, q) /\ Fresh(u)
    /\ Start(r, Job(IF CanCancel(i) THEN "amend" ELSE "note", i, {}, {u}, q, total[i]))

LoadPortal(r, i) ==
    status[i] # "cancelled" /\ Start(r, Job("portal", i, {}, {}, Nothing, 0))

\* recompute_monthly_budget reads the row without locking it.
LoadRecompute(r) == Start(r, [kind |-> "recompute", sum |-> budget.consumed])

-----------------------------------------------------------------------------
(* The budget and the authority.                                           *)

\* The budget row is locked from the consumption to the end of the transaction.
Locks(r) == phase[r] \in {"authority", "lines", "commit"} /\ job[r].kind \in Pays
Unlocked == \A r \in Requests : ~ Locks(r)

\* Variant for mutation: the room that is left is not looked at.
AffordsAll(sum) == sum \in Nat

Affords(sum) == budget.remaining >= sum

Done(r) == phase' = [phase EXCEPT ![r] = "idle"] /\ job' = [job EXCEPT ![r] = NoJob]

Goes(r, p) == phase' = [phase EXCEPT ![r] = p] /\ UNCHANGED job

\* consume_cancel_budget.
Reserve(r) ==
    /\ phase[r] = "budget" /\ Unlocked
    /\ Affords(job[r].sum)
    /\ Goes(r, IF Asks(job[r]) THEN "authority" ELSE Asked(job[r]))
    /\ UNCHANGED <<books, heard>>

\* What is recorded, and what is kept of it here.
Fact(j) == [kind |-> j.kind, i |-> j.i, l |-> j.l, u |-> j.u]

\* Variant for mutation: a refusal is logged and the request goes on.
AskAnyway(r) ==
    /\ phase[r] = "authority"
    /\ heard' \in {heard, heard \cup {Fact(job[r])}}
    /\ Goes(r, Asked(job[r]))
    /\ UNCHANGED books

\* cancelinvoice, editinvoice or postinvoicedata is accepted; the answer may be lost.
Ask(r) ==
    /\ phase[r] = "authority"
    /\ heard' = heard \cup {Fact(job[r])}
    /\ Goes(r, Asked(job[r])) \/ Done(r)
    /\ UNCHANGED books

\* A refusal, a failed check or a crash: the transaction is rolled back.
Abort(r) ==
    /\ ~ Idle(r)
    /\ Done(r)
    /\ UNCHANGED <<books, heard>>

-----------------------------------------------------------------------------
(* Commits.                                                                *)

\* Lines of its invoice that the request has read as cancelled stay out of it.
\* Variant for mutation: a line that was cancelled before is put back again.
LiveLinesAll(j) == IF j.kind = "item" THEN j.l ELSE LinesOf(j.i)

LiveLines(j) == IF j.kind = "item" THEN j.l ELSE LinesOf(j.i) \ j.saw

\* The lines are read again: by cancel_invoice after the rules are checked once more,
\* by cancel_sale_item with its own check, by process_return for the status.
ReadLines(r) ==
    LET j == job[r]
    IN  /\ phase[r] = "lines"
        /\ j.kind = "cancel" => j.i \notin dead /\ LinesOf(j.i) \cap edited = {}
        /\ j.kind = "item" => j.l \cap (gone \cup edited) = {}
        /\ phase' = [phase EXCEPT ![r] = "commit"]
        /\ job' = [job EXCEPT ![r].saw = gone \cap LinesOf(j.i)]
        /\ UNCHANGED <<books, heard>>

Ends(r, kinds) ==
    /\ phase[r] = "commit" /\ job[r].kind \in kinds
    /\ Done(r)
    /\ UNCHANGED heard

Spend(j) == [amount |-> budget.amount, consumed |-> budget.consumed + j.sum,
             remaining |-> budget.remaining - j.sum]

\* Live lines go back in stock and are marked.
PutBack(j) ==
    /\ backs' = [l \in Lines |-> IF l \in LiveLines(j) THEN backs[l] + 1 ELSE backs[l]]
    /\ gone' = gone \cup LiveLines(j)
    /\ met' = met \cup ((LiveLines(j) \cap gone) \ j.saw)

\* cancel_invoice puts every live line back.
CommitCancel(r) ==
    LET j == job[r]
    IN  /\ Ends(r, {"cancel", "plain"})
        /\ PutBack(j)
        /\ status' = [status EXCEPT ![j.i] = "cancelled"]
        /\ budget' = IF j.kind = "cancel" THEN Spend(j) ELSE budget
        /\ booked' = IF j.kind = "cancel" THEN booked \cup {Fact(j)} ELSE booked
        /\ UNCHANGED <<dead, total, edited, returned, refunds, slack>>

\* cancel_sale_item: the status goes by the lines as prefetched, among which this one
\* is live.
CommitItem(r) ==
    LET j == job[r]
    IN  /\ Ends(r, {"item"})
        /\ PutBack(j)
        /\ status' = [status EXCEPT ![j.i] = "partially_cancelled"]
        /\ UNCHANGED <<dead, total, edited, returned, refunds, booked, budget, slack>>

\* edit_invoice_item_with_fbr.
CommitEdit(r) ==
    LET j == job[r]
    IN  /\ Ends(r, {"edit"})
        /\ edited' = edited \cup j.l
        /\ total' = [total EXCEPT ![j.i] = j.sum]
        /\ status' = [status EXCEPT ![j.i] = j.then]
        /\ budget' = Spend(j)
        /\ booked' = booked \cup {Fact(j)}
        /\ UNCHANGED <<dead, gone, backs, returned, refunds, met, slack>>

\* Lines that a return takes back in full.
Full(j) == {l \in Lines : j.q[l] = Sold}

\* process_return: the row, the refund and the flags of lines returned in full,
\* unless the invoice was loaded as cancelled.
CommitReturn(r) ==
    LET j == job[r]
    IN  /\ Ends(r, Returning)
        /\ \A u \in j.u : Fresh(u)
        /\ returned' = [u \in Uuids |-> IF u \in j.u THEN j.q ELSE returned[u]]
        /\ refunds' = [u \in Uuids |-> IF u \in j.u THEN refunds[u] + 1 ELSE refunds[u]]
        /\ IF ~ j.live THEN UNCHANGED <<gone, status>>
           ELSE /\ gone' = gone \cup Full(j)
                /\ status' = [status EXCEPT ![j.i] =
                       IF LinesOf(j.i) \subseteq j.saw \cup Full(j) THEN "cancelled"
                       ELSE "partially_cancelled"]
        /\ budget' = IF j.kind = "amend" THEN Spend(j) ELSE budget
        /\ booked' = booked \cup {Fact(j)}
        /\ UNCHANGED <<dead, total, edited, backs, met, slack>>

\* mark_cancelled_on_fbr.
CommitPortal(r) ==
    /\ Ends(r, {"portal"})
    /\ status' = [status EXCEPT ![job[r].i] = "cancelled"]
    /\ UNCHANGED <<dead, total, gone, edited, backs, returned, refunds, booked, budget, met,
                   slack>>

\* recompute_monthly_budget saves what follows from the consumption it read.
CommitRecompute(r, b) ==
    /\ Ends(r, {"recompute"}) /\ Unlocked
    /\ budget' = [budget EXCEPT !.amount = b,
                                !.remaining = IF b > job[r].sum THEN b - job[r].sum ELSE 0]
    /\ slack' = budget.consumed - job[r].sum
    /\ UNCHANGED <<status, dead, total, gone, edited, backs, returned, refunds, booked, met>>

\* Seventy-two hours, or the month, are over.
DeadlinePasses(i) ==
    /\ i \notin dead
    /\ dead' = dead \cup {i}
    /\ UNCHANGED <<status, total, gone, edited, backs, returned, refunds, booked, budget,
                   heard, phase, job, met, slack>>

Acts(r) ==
    \/ \E i \in Invoices :
         \/ \E k \in {"cancel", "plain"} : LoadCancel(r, i, k)
         \/ \E u \in Uuids, q \in Carts : LoadReturn(r, i, u, q)
         \/ LoadPortal(r, i)
    \/ \E l \in Lines : LoadItem(r, l) \/ \E t \in Totals : LoadEdit(r, l, t)
    \/ LoadRecompute(r)
    \/ Reserve(r) \/ Ask(r) \/ ReadLines(r) \/ Abort(r)
    \/ CommitCancel(r) \/ CommitItem(r) \/ CommitEdit(r) \/ CommitReturn(r)
    \/ CommitPortal(r)
    \/ \E b \in Budgets : CommitRecompute(r, b)

Next ==
    /\ \/ \E r \in Requests : Acts(r)
       \/ \E i \in Invoices : DeadlinePasses(i)
    /\ UNCHANGED wired

Spec == Init /\ [][Next]_vars

-----------------------------------------------------------------------------
(* Safety, whatever requests overlap.                                      *)

\* A client_uuid is refunded once, however often and beside what else its
\* request is delivered: one refund for its Return row, none without.
RefundedOnce ==
    \A u \in Uuids : refunds[u] = IF returned[u] = Nothing THEN 0 ELSE 1

\* "No half-states": where there is an authority to ask, budget is drawn on, and a
\* credit note kept, only for what it has recorded.  Without one they are kept all
\* the same.
AuthorityKnows == \A x \in booked : Asks(x) => x \in heard

\* "The 10% cap": a cancellation or edit takes the consumption of the month past its
\* budget by no more than what was consumed between the reading and the saving of
\* its last recomputation.
CapHolds ==
    [][budget'.consumed > budget.consumed => budget'.consumed <= budget'.amount + slack]_vars

\* "already terminal": only a request that had loaded an invoice before it was
\* cancelled brings it back; no edit, return or cancellation of a line begun after
\* that does.
StaysCancelled ==
    [][\A i \in Invoices : status[i] = "cancelled" /\ status'[i] # "cancelled" =>
          \E r \in Requests : /\ phase[r] = "commit" /\ phase'[r] = "idle"
                              /\ job[r].i = i /\ job[r].live]_vars

\* Cancelling lines and then the invoice puts each line back in stock once; a
\* cancelled line was put back, or returned in full.  The exception is a line that
\* two cancellations both read before either had marked it.
BackOnce ==
    \A l \in Lines \ met :
        /\ backs[l] <= 1
        /\ backs[l] = 1 => l \in gone
        /\ l \in gone => backs[l] = 1 \/ \E u \in Uuids : returned[u][l] = Sold
=============================================================================
