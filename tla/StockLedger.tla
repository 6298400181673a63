----------------------------- MODULE StockLedger -----------------------------
(***************************************************************************)
(* Stock (apps/inventory/services, apps/purchases/services.py, and what    *)
(* checkout.py and cancellation.py do to stock): append-only movements,    *)
(* the level that record_movement keeps beside them, and the documents     *)
(* that post them - transfers, goods receipts, audits and sales.           *)
(*                                                                         *)
(* A request is one PostgreSQL transaction.  Its view loads the document   *)
(* without a lock and the service checks the status of that object; then   *)
(* it posts the lines one by one, each under the lock of its level row,    *)
(* and flips the status at the end.  What it wrote appears when it         *)
(* commits, and until then the level rows it touched are locked.           *)
(***************************************************************************)
EXTENDS Integers, Sequences, FiniteSetsExt

CONSTANTS Keys,          \* stock_levels rows: a product at a branch
          Docs,          \* documents
          Kind,          \* what each document is
          Line,          \* its lines: level, level at the other branch, quantity
          Opening,       \* the levels at the start
          Missing,       \* by how much a received quantity may fall short
          Requests       \* requests the server can serve at once

ASSUME StockAssumption ==
    /\ Kind \in [Docs -> {"transfer", "receipt", "audit", "sale"}]
    /\ Line \in [Docs -> Seq([at : Keys, to : Keys, qty : Int])]
    /\ Opening \in [Keys -> Int]
    /\ Missing \subseteq Int

VARIABLES
    status,    \* committed status of each document
    off,       \* lines of a sale that are cancelled (SaleItem.is_cancelled)
    got,       \* quantity_received of each transfer line
    level,     \* committed StockLevel.quantity
    ledger,    \* opening balance plus the committed movements, by level
    net,       \* the committed movements, by document line and branch
    op,        \* what each request does, or "idle"
    doc,       \* the document it loaded
    todo,      \* the lines its loop goes through
    count,     \* the quantities it was told were received
    step,      \* how many movements of the loop are behind it
    held,      \* the level rows it has written, and locks
    draft,     \* what it has written there
    rows,      \* the movements it has written and not committed, by level
    stale,     \* history: requests whose document another has written since
    raced      \* history: documents that such a request has written

documents == <<status, off, got, net>>
history == <<stale, raced>>
vars == <<documents, level, ledger, op, doc, todo, count, step, held, draft, rows, history>>

Ops == {"dispatch", "receive", "cancel", "post", "finalize",
        "sell", "void", "discard", "unsell"}
Statuses == {"draft", "dispatched", "received", "cancelled", "posted", "finalized",
             "sold", "partly", "voided", "discarded"}
LineNos(d) == DOMAIN Line[d]
Nothing == [k \in Keys |-> 0]
Unmoved == [at |-> 0, to |-> 0]

TypeOK ==
    /\ status \in [Docs -> Statuses]
    /\ \A d \in Docs : /\ off[d] \subseteq LineNos(d)
                       /\ got[d] \in [LineNos(d) -> Int]
                       /\ net[d] \in [LineNos(d) -> [at : Int, to : Int]]
    /\ level \in [Keys -> Int]
    /\ ledger \in [Keys -> Int]
    /\ op \in [Requests -> Ops \cup {"idle"}]
    /\ doc \in [Requests -> Docs]
    /\ \A r \in Requests : op[r] # "idle" =>
           /\ todo[r] \subseteq LineNos(doc[r])
           /\ count[r] \in [LineNos(doc[r]) -> Int]
    /\ step \in [Requests -> Nat]
    /\ held \in [Requests -> SUBSET Keys]
    /\ draft \in [Requests -> [Keys -> Int]]
    /\ rows \in [Requests -> [Keys -> Int]]
    /\ stale \subseteq Requests /\ raced \subseteq Docs

Init ==
    /\ status = [d \in Docs |-> "draft"]
    /\ off = [d \in Docs |-> {}]
    /\ got = [d \in Docs |-> [i \in LineNos(d) |-> 0]]
    /\ level = Opening
    /\ ledger = Opening
    /\ net = [d \in Docs |-> [i \in LineNos(d) |-> Unmoved]]
    /\ op = [r \in Requests |-> "idle"]
    /\ doc \in [Requests -> Docs]
    /\ todo = [r \in Requests |-> {}]
    /\ count = [r \in Requests |-> <<>>]
    /\ step = [r \in Requests |-> 0]
    /\ held = [r \in Requests |-> {}]
    /\ draft = [r \in Requests |-> Nothing]
    /\ rows = [r \in Requests |-> Nothing]
    /\ stale = {} /\ raced = {}

-----------------------------------------------------------------------------
(* What an operation asks of the document, and what it makes of it.        *)

\* The status check of each service, on the object that the view loaded.
Allows(o, d) ==
    \/ Kind[d] = "transfer" /\ o \in {"dispatch", "cancel"} /\ status[d] = "draft"
    \/ Kind[d] = "transfer" /\ o = "receive" /\ status[d] = "dispatched"
    \/ Kind[d] = "receipt" /\ o = "post" /\ status[d] # "posted"
    \/ Kind[d] = "audit" /\ o = "finalize" /\ status[d] = "draft"
    \/ Kind[d] = "sale" /\ o = "sell" /\ status[d] = "draft"
    \/ Kind[d] = "sale" /\ o \in {"void", "unsell"} /\ status[d] \in {"sold", "partly"}
    \/ Kind[d] = "sale" /\ o = "discard" /\ status[d] = "sold"

\* Variant for mutation: cancelling a sale returns its cancelled lines again.
LinesOfAll(o, d) ==
    CASE o = "cancel" -> {{}}
      [] o = "unsell" -> {{i} : i \in LineNos(d)}
      [] OTHER -> {LineNos(d)}

\* The lines that the loop goes through; a sale's cancelled ones are skipped.
LinesOf(o, d) ==
    CASE o = "cancel" -> {{}}
      [] o = "void" -> {LineNos(d) \ off[d]}
      [] o = "unsell" -> {{i} : i \in LineNos(d) \ off[d]}
      [] OTHER -> {LineNos(d)}

Outcome(o, d, done) ==
    CASE o = "dispatch" -> "dispatched"
      [] o = "receive" -> "received"
      [] o = "cancel" -> "cancelled"
      [] o = "post" -> "posted"
      [] o = "finalize" -> "finalized"
      [] o = "sell" -> "sold"
      [] o = "discard" -> "discarded"
      [] OTHER -> IF done = LineNos(d) THEN "voided" ELSE "partly"

\* The movement that a request makes of line i at the document's branch, and
\* the one it makes at the other branch.  The variance of a receipt is booked
\* where the goods came from.
AtMove(r, i) ==
    LET q == Line[doc[r]][i].qty
    IN  CASE op[r] = "receive" -> count[r][i] - q
          [] op[r] \in {"dispatch", "sell"} -> - q
          [] OTHER -> q
ToMove(r, i) == IF op[r] = "receive" THEN count[r][i] ELSE 0

\* The loop: for each line the other branch's movement, then the document's.
Moving(r) == LET n == step[r] + 1
             IN  IF n % 2 = 1 THEN <<(n + 1) \div 2, "to">> ELSE <<n \div 2, "at">>
Looping(r) == step[r] < 2 * Len(Line[doc[r]])

-----------------------------------------------------------------------------
(* Requests.                                                               *)

Busy(d) == \E r \in Requests : op[r] # "idle" /\ doc[r] = d

\* The view loads the document, the service checks it and starts its loop, be
\* it that others do the same.  A sale comes with a unique client_uuid, so it is
\* recorded by one at a time.
Start(r, d, o, ls, c) ==
    /\ op[r] = "idle"
    /\ Allows(o, d)
    /\ ls \in LinesOf(o, d)
    /\ o = "sell" => ~ Busy(d)
    /\ op' = [op EXCEPT ![r] = o]
    /\ doc' = [doc EXCEPT ![r] = d]
    /\ todo' = [todo EXCEPT ![r] = ls]
    /\ count' = [count EXCEPT ![r] = c]
    /\ step' = [step EXCEPT ![r] = 0]
    /\ UNCHANGED <<documents, level, ledger, held, draft, rows, history>>

\* Variant for mutation: the level is read without select_for_update.
FreeUnlocked(r, k) == k \in Keys

Free(r, k) == \A s \in Requests \ {r} : k \notin held[s]

\* record_movement: a row in the ledger, and the level under its lock.
Record(r, k, q) ==
    /\ Free(r, k)
    /\ held' = [held EXCEPT ![r] = @ \cup {k}]
    /\ draft' = [draft EXCEPT ![r][k] = (IF k \in held[r] THEN @ ELSE level[k]) + q]
    /\ rows' = [rows EXCEPT ![r][k] = @ + q]

\* The next movement of the loop.  Cancelled lines, lines without variance and
\* the other branch of anything but a transfer's receipt have none.
Post(r) ==
    LET i == Moving(r)[1]
        side == Moving(r)[2]
        l == Line[doc[r]][i]
        q == IF side = "to" THEN ToMove(r, i) ELSE AtMove(r, i)
    IN  /\ op[r] # "idle" /\ Looping(r)
        /\ step' = [step EXCEPT ![r] = @ + 1]
        /\ \/ (i \notin todo[r] \/ q = 0) /\ UNCHANGED <<held, draft, rows>>
           \/ i \in todo[r] /\ q # 0 /\ Record(r, IF side = "to" THEN l.to ELSE l.at, q)
        /\ UNCHANGED <<documents, level, ledger, op, doc, todo, count, history>>

Reset(r) ==
    /\ op' = [op EXCEPT ![r] = "idle"]
    /\ todo' = [todo EXCEPT ![r] = {}]
    /\ count' = [count EXCEPT ![r] = <<>>]
    /\ step' = [step EXCEPT ![r] = 0]
    /\ held' = [held EXCEPT ![r] = {}]
    /\ draft' = [draft EXCEPT ![r] = Nothing]
    /\ rows' = [rows EXCEPT ![r] = Nothing]
    /\ UNCHANGED doc

\* The document's status is written, and the transaction commits.
Finish(r) ==
    LET d == doc[r]
        done == off[d] \cup (IF op[r] \in {"void", "unsell"} THEN todo[r] ELSE {})
    IN  /\ op[r] # "idle" /\ ~ Looping(r)
        /\ status' = [status EXCEPT ![d] = Outcome(op[r], d, done)]
        /\ off' = [off EXCEPT ![d] = done]
        /\ got' = [got EXCEPT ![d] = IF op[r] = "receive" THEN count[r] ELSE @]
        /\ net' = [net EXCEPT ![d] = [i \in LineNos(d) |->
                      IF i \in todo[r] THEN [at |-> @[i].at + AtMove(r, i),
                                             to |-> @[i].to + ToMove(r, i)]
                                       ELSE @[i]]]
        /\ level' = [k \in Keys |-> IF k \in held[r] THEN draft[r][k] ELSE level[k]]
        /\ ledger' = [k \in Keys |-> ledger[k] + rows[r][k]]
        /\ stale' = (stale \cup {s \in Requests : op[s] # "idle" /\ doc[s] = d}) \ {r}
        /\ raced' = IF r \in stale THEN raced \cup {d} ELSE raced
        /\ Reset(r)

\* Variant for mutation: the loop is not one transaction.
AbortKeeps(r) ==
    /\ op[r] # "idle"
    /\ level' = [k \in Keys |-> IF k \in held[r] THEN draft[r][k] ELSE level[k]]
    /\ ledger' = [k \in Keys |-> ledger[k] + rows[r][k]]
    /\ Reset(r)
    /\ stale' = stale \ {r}
    /\ UNCHANGED <<documents, raced>>

\* A validation error, a lost connection, a killed process, or the choice of
\* PostgreSQL's deadlock detector when two loops wait for each other.
Abort(r) ==
    /\ op[r] # "idle"
    /\ Reset(r)
    /\ stale' = stale \ {r}
    /\ UNCHANGED <<documents, level, ledger, raced>>

Counts(o, d) ==
    IF o # "receive" THEN {[i \in LineNos(d) |-> 0]}
    ELSE {[i \in LineNos(d) |-> Line[d][i].qty - s] : s \in Missing}

Next ==
    \/ \E r \in Requests, d \in Docs, o \in Ops :
           \E ls \in LinesOf(o, d), c \in Counts(o, d) : Start(r, d, o, ls, c)
    \/ \E r \in Requests : Post(r) \/ Finish(r) \/ Abort(r)

Spec == Init /\ [][Next]_vars

-----------------------------------------------------------------------------
(* Safety.                                                                 *)

\* Two transactions never have the same level row in hand, so that none of them
\* overwrites what another added.
RowsExclusive == \A r, s \in Requests : r # s => held[r] \cap held[s] = {}

\* record_movement is "the only sanctioned way to mutate inventory": whatever
\* requests interleave or roll back, a level is the sum of its movements.
LevelIsLedger == level = ledger

\* What the status of a document says has happened to stock because of a line.
Owed(d, i) ==
    LET q == Line[d][i].qty
        g == got[d][i]
    IN  CASE status[d] = "dispatched" -> [at |-> - q, to |-> 0]
          [] status[d] = "received" -> [at |-> (g - q) - q, to |-> g]
          [] status[d] \in {"posted", "finalized"} -> [at |-> q, to |-> 0]
          [] status[d] \in {"sold", "partly", "voided"} /\ i \notin off[d] ->
                 [at |-> - q, to |-> 0]
          [] OTHER -> Unmoved

\* The movements that refer to a document are those its status claims: nothing
\* is dispatched, received, posted, sold or returned twice, and a request that
\* fails half-way leaves none.  The only exception is a document that a request
\* wrote after another had, on the strength of the status that it read before.
DocumentsExplainStock ==
    \A d \in Docs \ raced : \A i \in LineNos(d) : net[d][i] = Owed(d, i)

\* A document's line moves stock at the document's branch and at the other one.
Places == UNION {{d} \X LineNos(d) \X {"at", "to"} : d \in Docs}
PlacesOf(k) == {p \in Places : Line[p[1]][p[2]][p[3]] = k}
Moved == [p \in Places |-> net[p[1]][p[2]][p[3]]]
Total(f, S) == MapThenSumSet(LAMBDA p : f[p], S)

\* The level rows and the documents are two views of one ledger: the movements
\* of all documents add up to the levels, whoever posts, rolls back or repeats.
DocumentsAddUp == \A k \in Keys : level[k] = Opening[k] + Total(Moved, PlacesOf(k))
=============================================================================
