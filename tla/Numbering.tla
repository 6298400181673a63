------------------------------- MODULE Numbering -------------------------------
(***************************************************************************)
(* Who gives an invoice its number.  Two counters mint BRANCH-T#-YYYY-NNNN *)
(* for a terminal: the till's own, in its SQLite file                      *)
(* (electron/db/numbering.ts), and the server's, computed from the         *)
(* completed invoices (sales/services/numbering.py).  Orders that have no  *)
(* number yet carry a tag (ORD-..., FOL-...), and numbers travel: from a   *)
(* till to the kitchen and the server, from the server to the till that    *)
(* resumes the order, and to the invoice that the sync creates.            *)
(* UNIQUE (tenant, local_invoice_number) has the last word.                *)
(*                                                                         *)
(* A fired order is "sent" whatever the kitchen has done with it since;    *)
(* one process, the server, answers one request at a time (OpenOrder has   *)
(* the requests that overlap).                                             *)
(***************************************************************************)
EXTENDS Naturals, FiniteSets

CONSTANTS Orders,      \* carts, by client_uuid
          Retail,      \* those of a shop: held on the till, never sent
          Tills,       \* terminals that charge
          Tablets,     \* terminals that only take orders
          Desks,       \* terminals whose invoices the server numbers
          Types,       \* what is issued at a desk: "sale", "debit_note"
          None,        \* no order, number or terminal
          TagsFirst,   \* do tags sort before the branch's numbers, descending?
          TagDigits,   \* what parseInt reads of a tag
          MaxSeq,      \* bound on the numbers of a terminal and a year
          MaxYear      \* bound on the years

ASSUME NumberingAssumption ==
    /\ Retail \subseteq Orders /\ Types \subseteq {"sale", "debit_note"}
    /\ Tills \cap Tablets = {} /\ TagsFirst \in BOOLEAN
    /\ TagDigits \in Nat /\ MaxSeq \in Nat /\ MaxYear \in Nat \ {0}

VARIABLES year,      \* the local year, at the tills and on the server
          counter,   \* kv_meta: the last number of a till in a year
          cart,      \* the order on a till's screen, and whether it was resumed
          parked,    \* the sales held on a till
          number,    \* the number a till has for an order
          charged,   \* the till that charged an order and will sync it
          bill,      \* the number on the bill that it printed and will sync
          row,       \* the Invoice row of an order on the server: "open" and "sent"
                     \* are held orders, "void" a deleted one, "folio" a held charge
                     \* of a stay, "sale" and "debit_note" completed invoices
          loose,     \* history: the numbers of tills that were in use and that their
                     \* till may give out again, see Void and Issue
          tagged     \* history: orders that the server got from a till under a tag

vars == <<year, counter, cart, parked, number, charged, bill, row, loose, tagged>>

Years == 1 .. MaxYear
Terminals == Tills \cup Tablets \cup Desks

\* BRANCH-T#-YYYY-NNNN, and the tag of an order.
Numbers == Terminals \X Years \X (1 .. MaxSeq)
Tag(o) == <<o, 0, TagDigits>>
TillNumbers == Tills \X Years \X (1 .. MaxSeq)

\* "No number", "no order" and "nobody" are none of them.
ASSUME NoneAssumption ==
    None \notin Orders \cup Terminals \cup (Terminals \X Years \X Nat) \cup {Tag(o) : o \in Orders}

NoRow == [state |-> "none", no |-> None, at |-> None, year |-> 0]
Empty == [order |-> None, resumed |-> FALSE]

Init ==
    /\ year = 1
    /\ counter = [t \in Tills |-> [y \in Years |-> 0]]
    /\ cart = [t \in Tills |-> Empty]
    /\ parked = {}
    /\ number = [o \in Orders |-> None]
    /\ charged = [o \in Orders |-> None]
    /\ bill = [o \in Orders |-> None]
    /\ loose = {} /\ tagged = {}
    /\ row = [o \in Orders |-> NoRow]

-----------------------------------------------------------------------------
(* The till                                                                *)

\* Nobody has seen the order yet.
Fresh(o) ==
    /\ number[o] = None /\ charged[o] = None /\ row[o] = NoRow
    /\ \A t \in Tills : cart[t].order # o

\* nextInvoiceNumber: counts up in the counter of the till and the year.
Mint(t, o) ==
    LET n == counter[t][year] + 1
    IN  /\ n <= MaxSeq
        /\ counter' = [counter EXCEPT ![t][year] = n]
        /\ number' = [number EXCEPT ![o] = <<t, year, n>>]

\* ensureOrderNumber: the number the order has, or a new one, or none if the till
\* cannot tell its terminal or write its counter.
Ensure(t, o) ==
    \/ number[o] = None /\ Mint(t, o)
    \/ UNCHANGED <<counter, number>>

\* What it returns: an order without a number goes by a tag, the head of its uuid.
SentAs(o, n) == IF n = None THEN Tag(o) ELSE n

\* A mutant: any number is handed back.
ReleaseAny(t, o) ==
    counter' = IF number[o] # None /\ number[o][3] > 0
                 THEN [counter EXCEPT ![t][year] = number[o][3] - 1]
                 ELSE counter

\* releaseInvoiceNumber: hands the number back if the counter still stands there.
Release(t, o) ==
    counter' = IF number[o] # None /\ number[o][3] > 0 /\ counter[t][year] = number[o][3]
                 THEN [counter EXCEPT ![t][year] = @ - 1]
                 ELSE counter

Clear(t) == cart' = [cart EXCEPT ![t] = Empty]
Load(t, o, resumed) == cart' = [cart EXCEPT ![t] = [order |-> o, resumed |-> resumed]]

\* The numbers under which an order is, or may still be, known.
AtTill(o) == \E t \in Tills : cart[t].order = o \/ <<t, o>> \in parked
Uses(o) == ({row[o].no, bill[o]} \cup {n \in {number[o]} : AtTill(o)}) \ {None}

\* The first line of a new cart.
Ring(t, o) ==
    /\ Fresh(o) /\ cart[t].order = None
    /\ Load(t, o, FALSE)
    /\ UNCHANGED <<year, counter, parked, number, charged, bill, row, loose, tagged>>

\* "Hold": the sale is parked on the till under a new number.
Hold(t) ==
    /\ cart[t].order \in Retail
    /\ Mint(t, cart[t].order)
    /\ parked' = parked \cup {<<t, cart[t].order>>}
    /\ Clear(t)
    /\ UNCHANGED <<year, charged, bill, row, loose, tagged>>

\* Held sales: the sale returns to the screen, with its number.
Recall(t, o) ==
    /\ <<t, o>> \in parked
    /\ parked' = parked \ {<<t, o>>}
    /\ Load(t, o, FALSE)
    /\ UNCHANGED <<year, counter, number, charged, bill, row, loose, tagged>>

-----------------------------------------------------------------------------
(* The server                                                              *)

\* UNIQUE (tenant, local_invoice_number).
Free(n, o) == \A p \in Orders \ {o} : row[p].no # n

\* upsert_open_order: a new row takes the caller's number, an existing one keeps
\* its own; a deleted row stays deleted.
Upserted(o, s, n, t) ==
    IF row[o].state = "none"
      THEN /\ Free(n, o)
           /\ row' = [row EXCEPT ![o] = [state |-> s, no |-> n, at |-> t, year |-> year]]
      ELSE /\ row[o].state \in {"open", "sent", "void"}
           /\ row' = [row EXCEPT ![o].state = IF @ = "open" THEN s ELSE @]

\* The till's order is on the server, and the till has no number for it.
Tags(o) == tagged' = tagged \cup {p \in {o} : row'[o].state # "none" /\ number'[o] = None}

\* A mutant: a number is taken only when the server has answered.
SendForgets(t, s) ==
    LET o == cart[t].order
    IN  /\ o \in Orders \ Retail
        /\ \/ Ensure(t, o) /\ Upserted(o, s, SentAs(o, number'[o]), t) /\ Clear(t)
           \/ /\ number[o] = None /\ counter[t][year] < MaxSeq
              /\ Upserted(o, s, <<t, year, counter[t][year] + 1>>, t)
              /\ UNCHANGED <<counter, number, cart>>
        /\ Tags(o)
        /\ UNCHANGED <<year, parked, charged, bill, loose>>

\* "Save order" and "Send to kitchen": the screen is cleared if the server
\* answers; the request, or its answer, may be lost.
Send(t, s) ==
    LET o == cart[t].order
    IN  /\ o \in Orders \ Retail
        /\ Ensure(t, o)
        /\ \/ Upserted(o, s, SentAs(o, number'[o]), t) /\ Clear(t)
           \/ Upserted(o, s, SentAs(o, number'[o]), t) /\ UNCHANGED cart
           \/ UNCHANGED <<row, cart>>
        /\ Tags(o)
        /\ UNCHANGED <<year, parked, charged, bill, loose>>

\* A waiter's order: a tag until it is charged, and then for good.
TabletSend(w, o, s) ==
    /\ o \notin Retail
    /\ Fresh(o) \/ row[o].at = w
    /\ Upserted(o, s, Tag(o), w)
    /\ UNCHANGED <<year, counter, cart, parked, number, charged, bill, loose, tagged>>

\* A mutant: the resumed order comes without its number.
ResumeBlank(t, o) ==
    /\ row[o].state \in {"open", "sent"} /\ row[o].at \in {t} \cup Tablets
    /\ number' = [number EXCEPT ![o] = None]
    /\ Load(t, o, TRUE)
    /\ UNCHANGED <<year, counter, parked, charged, bill, row, loose, tagged>>

\* Open orders: the order returns to the screen of its till, or a tablet's to any.
Resume(t, o) ==
    /\ row[o].state \in {"open", "sent"} /\ row[o].at \in {t} \cup Tablets
    /\ number' = [number EXCEPT ![o] = row[o].no]
    /\ Load(t, o, TRUE)
    /\ UNCHANGED <<year, counter, parked, charged, bill, row, loose, tagged>>

\* "Void sale" in a restaurant: the server deletes a resumed order that was never
\* fired, if the call arrives; the number is handed back in any case, though the
\* server's row, or another order, may have the number that the counter gives up.
Void(t) ==
    LET o == cart[t].order
        last == <<t, year, counter[t][year]>>
    IN  /\ o \in Orders \ Retail
        /\ row' \in {row, [row EXCEPT ![o].state =
                             IF cart[t].resumed /\ @ = "open" THEN "void" ELSE @]}
        /\ Release(t, o)
        /\ Clear(t)
        /\ UNCHANGED <<year, parked, number, charged, bill, tagged>>
        /\ loose' = loose \cup {n \in {last} : counter' # counter
                                              /\ \E p \in Orders : n \in Uses(p)'}

\* "Void sale" in a shop clears the screen, and so does a restart of any till:
\* the cart is in memory only.
Drop(t) ==
    /\ cart[t].order # None
    /\ Clear(t)
    /\ UNCHANGED <<year, counter, parked, number, charged, bill, row, loose, tagged>>

\* "Complete sale": the bill carries the order's number, or a new one, and is
\* queued; an order that was charged before is queued as it was then.
Charge(t) ==
    LET o == cart[t].order
    IN  /\ o # None
        /\ IF number[o] = None THEN Mint(t, o) ELSE UNCHANGED <<counter, number>>
        /\ charged' = [charged EXCEPT ![o] = IF @ = None THEN t ELSE @]
        /\ bill' = [bill EXCEPT ![o] = IF @ = None THEN number'[o] ELSE @]
        /\ Clear(t)
        /\ UNCHANGED <<year, parked, row, loose, tagged>>

\* create_invoice for a synced sale: a held row is completed and keeps its
\* number, a new row takes the bill's.
Deliver(o) ==
    /\ charged[o] # None
    /\ row[o].state \in {"none", "open", "sent", "void"}
    /\ row[o].state = "none" => Free(bill[o], o)
    /\ row' = [row EXCEPT ![o] =
                 [state |-> "sale", at |-> charged[o], year |-> year,
                  no |-> IF row[o].state = "none" THEN bill[o] ELSE row[o].no]]
    /\ UNCHANGED <<year, counter, cart, parked, number, charged, bill, loose, tagged>>

\* close_paid_order, by an admin or at night.
Close(o) ==
    /\ row[o].state \in {"open", "sent"}
    /\ row' = [row EXCEPT ![o].state = "sale"]
    /\ UNCHANGED <<year, counter, cart, parked, number, charged, bill, loose, tagged>>

\* A mutant: held invoices count as well.
CountedHeld(d) == {o \in Orders : row[o].no # None /\ row[o].at = d /\ row[o].year = year}

\* What next_invoice_number counts: the completed sales of the terminal and year.
Counted(d) == {o \in Orders : row[o].state = "sale" /\ row[o].at = d /\ row[o].year = year}

\* The sequence of the last of them in descending order; a tag has none.
LastSeq(d) ==
    LET numbers == {row[o].no : o \in Counted(d)} \cap Numbers
    IN  IF numbers = {} \/ (TagsFirst /\ \E o \in Counted(d) : row[o].no = Tag(o)) THEN 0
        ELSE (CHOOSE n \in numbers :
                \A m \in numbers : m[2] < n[2] \/ (m[2] = n[2] /\ m[3] <= n[3]))[3]

\* next_invoice_number, under the lock of the terminal.
NextNo(d) == <<d, year, LastSeq(d) + 1>>

\* An invoice of the back office, or the bill of a stay, numbered by the server; at
\* the terminal of a till its counter, which the server does not see, may be behind.
Issue(d, o, k) ==
    /\ Fresh(o) /\ LastSeq(d) < MaxSeq
    /\ Free(NextNo(d), o)
    /\ row' = [row EXCEPT ![o] = [state |-> k, no |-> NextNo(d), at |-> d, year |-> year]]
    /\ loose' = loose \cup ({NextNo(d)} \cap TillNumbers)
    /\ UNCHANGED <<year, counter, cart, parked, number, charged, bill, tagged>>

\* A charge on a stay is held, under a tag.
PostCharge(d, o) ==
    /\ Fresh(o)
    /\ row' = [row EXCEPT ![o] = [state |-> "folio", no |-> Tag(o), at |-> d, year |-> year]]
    /\ UNCHANGED <<year, counter, cart, parked, number, charged, bill, loose, tagged>>

NewYear ==
    /\ year < MaxYear /\ year' = year + 1
    /\ UNCHANGED <<counter, cart, parked, number, charged, bill, row, loose, tagged>>

Next ==
    \/ \E t \in Tills, o \in Orders : Ring(t, o) \/ Recall(t, o) \/ Resume(t, o)
    \/ \E t \in Tills : Hold(t) \/ Void(t) \/ Drop(t) \/ Charge(t)
    \/ \E t \in Tills, s \in {"open", "sent"} : Send(t, s)
    \/ \E w \in Tablets, o \in Orders, s \in {"open", "sent"} : TabletSend(w, o, s)
    \/ \E o \in Orders : Deliver(o) \/ Close(o)
    \/ \E d \in Desks, o \in Orders : PostCharge(d, o) \/ \E k \in Types : Issue(d, o, k)
    \/ NewYear

Spec == Init /\ [][Next]_vars

-----------------------------------------------------------------------------
\* The number on the bill of an order: what the till printed, or the row's.
Billed(o) == charged[o] # None \/ row[o].state \in {"sale", "debit_note"}
BillNo(o) == IF charged[o] # None THEN bill[o] ELSE row[o].no

\* "Two different sales sharing an invoice number ... is far worse than a gap"
\* (numbering-release.test.ts): two bills with one number come only of a number that
\* was handed back while an order still had it, or that the server issued for a till;
\* never of minting, holding, resuming, a lost answer or the turn of the year.
BillsDiffer ==
    \A o, p \in Orders :
        o # p /\ Billed(o) /\ Billed(p) => BillNo(o) # BillNo(p) \/ BillNo(o) \in loose

\* The server can record every sale that a till has charged, unless its number was
\* handed back or issued in that way: UNIQUE does not refuse it for another order.
NoSaleIsStuck ==
    \A o \in Orders : charged[o] # None /\ row[o].state = "none" =>
        Free(bill[o], o) \/ bill[o] \in loose

\* "The kitchen slip, the open-order card and the final bill all carry the SAME
\* number": what the till printed is what the server has, unless the order went to
\* the server when its till had no number for it.
SlipIsBill ==
    \A o \in Orders : charged[o] # None /\ row[o].state # "none" =>
        bill[o] = row[o].no \/ o \in tagged

\* "Self-healing if anything ever drifts": if the number that the server would give
\* next at a desk is taken, so that no invoice can be issued there, a debit note has
\* it, or the desk is a till or a tablet and the order is not a completed sale, or
\* a tag, which sorts first, hides the completed sales.
DeskCanSell ==
    \A d \in Desks, o \in Orders : row[o].no = NextNo(d) =>
        \/ row[o].state = "debit_note"
        \/ /\ d \in Tills \cup Tablets
           /\ \/ row[o].state # "sale"
              \/ TagsFirst /\ \E p \in Counted(d) : row[p].no = Tag(p)

-----------------------------------------------------------------------------
Invoices == [state : {"none", "open", "sent", "void", "folio", "sale", "debit_note"},
             no : {None} \cup Numbers \cup {Tag(o) : o \in Orders},
             at : Terminals \cup {None}, year : Years \cup {0}]

TypeOK ==
    /\ year \in Years
    /\ counter \in [Tills -> [Years -> 0 .. MaxSeq]]
    /\ cart \in [Tills -> [order : Orders \cup {None}, resumed : BOOLEAN]]
    /\ parked \subseteq Tills \X Orders
    /\ number \in [Orders -> {None} \cup TillNumbers \cup {Tag(o) : o \in Orders}]
    /\ charged \in [Orders -> Tills \cup {None}]
    /\ bill \in [Orders -> {None} \cup TillNumbers \cup {Tag(o) : o \in Orders}]
    /\ row \in [Orders -> Invoices]
    /\ loose \subseteq TillNumbers /\ tagged \subseteq Orders
=============================================================================
