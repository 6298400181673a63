------------------------------ MODULE SyncIngest ------------------------------
(***************************************************************************)
(* The server's ingestion of offline sales: POST /api/sync/invoices/ and   *)
(* the admin's POST /api/sync/log/<id>/retry/ (apps/sync/services.py and   *)
(* views.py, with the part of sales/services/checkout.py that makes a      *)
(* repeated client_uuid harmless).                                         *)
(*                                                                         *)
(* Every request is one PostgreSQL transaction at READ COMMITTED           *)
(* (ATOMIC_REQUESTS): its statements are separate actions, each sees what  *)
(* was committed when it ran, its writes appear at Commit, and row locks   *)
(* are held until the transaction ends.  The locks are not variables:      *)
(* which rows a transaction holds follows from how far it has got.         *)
(***************************************************************************)
EXTENDS Naturals, FiniteSets, ClientUuids

CONSTANTS Posts,      \* POST /api/sync/invoices/ requests the server can serve at once
          Retries     \* admin retry requests the server can serve at once

ASSUME DisjointRequests == Posts \cap Retries = {}

VARIABLES
    log,       \* committed sync_log row of each client_uuid
    inv,       \* committed invoice of each client_uuid
    applied,   \* how often its stock, payment and ledger rows were written
    bad,       \* sales that _create_invoice_from_payload rejects (catalog drift)
    fbr,       \* fate of the FBR task of each sale
    pc,        \* how far each request has got
    sale,      \* the client_uuid it carries
    seen,      \* the invoice it read (checkout's `existing`), or "failed"
    stale,     \* its sync_log row was deleted by a transaction that committed
    reply      \* the answer to a POST

server == <<log, inv, applied, bad, fbr, pc, sale, seen, stale, reply>>

Requests == Posts \cup Retries

LogStatus == {"none", "failed", "processed"}
InvStatus == {"none", "held", "charged"}

ServerTypeOK ==
    /\ log \in [Sales -> LogStatus]
    /\ inv \in [Sales -> InvStatus]
    /\ applied \in [Sales -> Nat]
    /\ bad \subseteq Sales
    /\ fbr \in [Sales -> {"none", "queued", "missed", "early", "taken"}]
    /\ pc \in [Requests -> {"free", "insert", "conflict", "delete", "read",
                            "write", "mark", "commit", "done"}]
    /\ sale \in [Requests -> Sales]
    /\ seen \in [Requests -> InvStatus \cup {"failed"}]
    /\ stale \in [Requests -> BOOLEAN]
    /\ reply \in [Posts -> {"ok", "rejected", "error"}]

ServerInit ==
    /\ log = [u \in Sales |-> "none"]
    /\ inv \in [Sales -> {"none", "held"}]
    /\ applied = [u \in Sales |-> 0]
    /\ bad \in SUBSET Sales
    /\ fbr = [u \in Sales |-> "none"]
    /\ pc = [r \in Requests |-> "free"]
    /\ sale \in [Requests -> Sales]
    /\ seen = [r \in Requests |-> "none"]
    /\ stale = [r \in Requests |-> FALSE]
    /\ reply = [r \in Posts |-> "error"]

-----------------------------------------------------------------------------
(* Row locks.                                                              *)

\* A POST that inserted (or deleted and re-inserted) its sync_log row, and a
\* retry that updated one, hold it until they end.
HoldsLog(r) ==
    \/ r \in Posts /\ pc[r] \in {"read", "write", "mark", "commit"}
    \/ r \in Retries /\ pc[r] = "commit"

\* Creating the invoice, or saving the held one as charged, locks its row.
HoldsInv(r) ==
    pc[r] \in {"mark", "commit"} /\ seen[r] \in {"none", "held"}

LogFree(r) == \A q \in Requests \ {r} : sale[q] = sale[r] => ~ HoldsLog(q)
InvFree(r) == \A q \in Requests \ {r} : sale[q] = sale[r] => ~ HoldsInv(q)

Goto(r, l) == pc' = [pc EXCEPT ![r] = l]
Answer(r, a) == Goto(r, "done") /\ reply' = [reply EXCEPT ![r] = a]

committed == <<log, inv, applied, fbr>>

-----------------------------------------------------------------------------
(* ingest_invoice                                                          *)

\* The view accepts a POST carrying sale u.
StartPost(r, u) ==
    /\ r \in Posts /\ pc[r] = "free"
    /\ Goto(r, "insert")
    /\ sale' = [sale EXCEPT ![r] = u]
    /\ stale' = [stale EXCEPT ![r] = FALSE]
    /\ UNCHANGED <<committed, bad, seen, reply>>

\* SyncLog.objects.create in a savepoint: waits for whoever holds the row, then
\* succeeds or meets the unique key on client_uuid.
InsertLog(r) ==
    /\ pc[r] = "insert" /\ LogFree(r)
    /\ Goto(r, IF log[sale[r]] = "none" THEN "read" ELSE "conflict")
    /\ UNCHANGED <<committed, bad, sale, seen, stale, reply>>

\* Variant for mutation: any existing sync_log row counts as a replay.
ReadConflictAnyRow(r) ==
    /\ pc[r] = "conflict"
    /\ Answer(r, "ok")
    /\ UNCHANGED <<committed, bad, sale, seen, stale>>

\* The except branch reads the existing row without a lock: an entity_id means
\* a replay, a failed row is deleted for a fresh attempt.
ReadConflict(r) ==
    /\ pc[r] = "conflict"
    /\ \/ /\ log[sale[r]] = "processed"
          /\ Answer(r, "ok")
       \/ /\ log[sale[r]] = "failed"
          /\ Goto(r, "delete")
          /\ UNCHANGED reply
    /\ UNCHANGED <<committed, bad, sale, seen, stale>>

\* existing.delete() waits for the row's holder; if that transaction replaced
\* the row, nothing is deleted and the second create raises IntegrityError.
DeleteLog(r) ==
    /\ pc[r] = "delete" /\ LogFree(r)
    /\ \/ ~ stale[r] /\ Goto(r, "read") /\ UNCHANGED reply
       \/ stale[r] /\ Answer(r, "error")
    /\ UNCHANGED <<committed, bad, sale, seen, stale>>

-----------------------------------------------------------------------------
(* checkout.create_invoice, called by both kinds of request                *)

\* Variant for mutation: create_invoice treats every existing invoice as a hold.
ReadInvoiceNotIdempotent(r) ==
    /\ pc[r] = "read"
    /\ Goto(r, "write")
    /\ seen' = [seen EXCEPT ![r] = IF inv[sale[r]] = "none" THEN "none" ELSE "held"]
    /\ UNCHANGED <<committed, bad, sale, stale, reply>>

\* `existing` is read without a lock.
ReadInvoice(r) ==
    /\ pc[r] = "read"
    /\ Goto(r, "write")
    /\ seen' = [seen EXCEPT ![r] = inv[sale[r]]]
    /\ UNCHANGED <<committed, bad, sale, stale, reply>>

\* An exception inside create_invoice: the POST rolls back to its savepoint and
\* goes on to mark_failed; the retry's request is rolled back as a whole.
CreateFails(r) ==
    \/ /\ r \in Posts
       /\ Goto(r, "mark")
       /\ seen' = [seen EXCEPT ![r] = "failed"]
    \/ /\ r \in Retries
       /\ Goto(r, "free")
       /\ UNCHANGED seen

\* The unique key on invoices.client_uuid.
Unique(r) == seen[r] = "none" => inv[sale[r]] = "none"

\* The invoice has moved on since it was read.  A finalization that read a hold
\* and now finds a charged sale has deleted either the lines of that sale, and
\* goes through, or those of the hold, and then its own lines meet the unique
\* key on (invoice, line_number): it depends on when the delete selected them.
MovedOn(r) == seen[r] # inv[sale[r]]

WriteInvoice(r) ==
    /\ pc[r] = "write"
    /\ \/ seen[r] = "charged" /\ Goto(r, "mark") /\ UNCHANGED seen
       \/ /\ seen[r] # "charged" /\ sale[r] \in bad
          /\ CreateFails(r)
       \/ /\ seen[r] # "charged" /\ sale[r] \notin bad /\ InvFree(r)
          /\ \/ Unique(r) /\ Goto(r, "mark") /\ UNCHANGED seen
             \/ MovedOn(r) /\ CreateFails(r)
    /\ UNCHANGED <<committed, bad, sale, stale, reply>>

-----------------------------------------------------------------------------
(* Marking, enqueueing and committing                                      *)

\* The FBR task is handed to Celery before the transaction commits.
Enqueue(u) == fbr' = [fbr EXCEPT ![u] = "queued"]

\* A POST marks its own row, processed or failed, and enqueues.  A retry updates
\* the row it read: it waits for the holder, and if the row is gone the save
\* with update_fields raises and the request is rolled back.
MarkLog(r) ==
    /\ pc[r] = "mark"
    /\ \/ /\ r \in Posts
          /\ Goto(r, "commit")
          /\ IF seen[r] = "failed" THEN UNCHANGED fbr ELSE Enqueue(sale[r])
       \/ /\ r \in Retries /\ LogFree(r)
          /\ Goto(r, IF stale[r] THEN "free" ELSE "commit")
          /\ UNCHANGED fbr
    /\ UNCHANGED <<log, inv, applied, bad, sale, seen, stale, reply>>

\* Requests that have read the sync_log row which POST r has replaced.
Overtaken(r) ==
    {q \in Requests \ {r} : /\ sale[q] = sale[r]
                            /\ \/ pc[q] = "delete"
                               \/ q \in Retries /\ pc[q] \in {"read", "write", "mark"}}

\* Variant for mutation: without the savepoint, a rejected sale is half written.
EffectsNoSavepoint(r) ==
    /\ inv' = [inv EXCEPT ![sale[r]] = IF seen[r] # "charged" THEN "charged" ELSE @]
    /\ applied' = [applied EXCEPT ![sale[r]] = IF seen[r] # "charged" THEN @ + 1 ELSE @]

\* The writes of create_invoice become visible.
Effects(r) ==
    /\ inv' = [inv EXCEPT ![sale[r]] = IF HoldsInv(r) THEN "charged" ELSE @]
    /\ applied' = [applied EXCEPT ![sale[r]] = IF HoldsInv(r) THEN @ + 1 ELSE @]

CommitPost(r) ==
    /\ r \in Posts /\ pc[r] = "commit"
    /\ Effects(r)
    /\ \/ /\ seen[r] = "failed"
          /\ log' = [log EXCEPT ![sale[r]] = "failed"]
          /\ Answer(r, "rejected")
       \/ /\ seen[r] # "failed"
          /\ log' = [log EXCEPT ![sale[r]] = "processed"]
          /\ Answer(r, "ok")
    /\ stale' = [q \in Requests |-> IF q \in Overtaken(r) THEN TRUE ELSE stale[q]]
    /\ UNCHANGED <<bad, fbr, sale, seen>>

CommitRetry(r) ==
    /\ r \in Retries /\ pc[r] = "commit"
    /\ Effects(r)
    /\ log' = [log EXCEPT ![sale[r]] = "processed"]
    /\ Goto(r, "free")
    /\ UNCHANGED <<bad, fbr, sale, seen, stale, reply>>

-----------------------------------------------------------------------------
(* retry_failed                                                            *)

\* The row is read and its status checked without a lock.
StartRetry(r, u) ==
    /\ r \in Retries /\ pc[r] = "free" /\ log[u] = "failed"
    /\ Goto(r, "read")
    /\ sale' = [sale EXCEPT ![r] = u]
    /\ stale' = [stale EXCEPT ![r] = FALSE]
    /\ UNCHANGED <<committed, bad, seen, reply>>

-----------------------------------------------------------------------------
(* Failures and surroundings                                               *)

\* The server dies, the connection drops or the request never arrives: the
\* transaction is rolled back; a client that still listens sees an error.
Abort(r) ==
    /\ pc[r] \notin {"free", "done"}
    /\ IF r \in Posts THEN Answer(r, "error") ELSE Goto(r, "free") /\ UNCHANGED reply
    /\ UNCHANGED <<committed, bad, sale, seen, stale>>

\* A retry that holds the invoice and waits for the sync_log row against a POST
\* that holds that row and waits for the invoice: PostgreSQL fails one of them.
Deadlocked(p, q) ==
    /\ p \in Posts /\ q \in Retries /\ sale[p] = sale[q]
    /\ pc[p] = "write" /\ seen[p] # "charged" /\ sale[p] \notin bad
    /\ pc[q] = "mark" /\ HoldsInv(q)

BreakDeadlock(p, q) ==
    /\ Deadlocked(p, q)
    /\ \E r \in {p, q} : CreateFails(r)
    /\ UNCHANGED <<committed, bad, sale, stale, reply>>

\* The answer has been read, or nobody is waiting for it any more.
Release(r) ==
    /\ pc[r] = "done"
    /\ Goto(r, "free")
    /\ UNCHANGED <<committed, bad, sale, seen, stale, reply>>

\* A till or tablet fires an order: upsert_open_order commits a held invoice.  It
\* becomes a sale by a request of this module; the hold and recall endpoints,
\* which no till or tablet calls, are in OpenOrder.
FireOrder(u) ==
    /\ inv[u] = "none"
    /\ \A q \in Requests : sale[q] = u => ~ HoldsInv(q)
    /\ inv' = [inv EXCEPT ![u] = "held"]
    /\ UNCHANGED <<log, applied, bad, fbr, pc, sale, seen, stale, reply>>

\* Somebody repairs what made the payload unacceptable.
FixCatalog(u) ==
    /\ u \in bad
    /\ bad' = bad \ {u}
    /\ UNCHANGED <<committed, pc, sale, seen, stale, reply>>

\* A Celery worker runs submit_invoice_to_fbr: it loads the invoice as committed
\* now, and raises DoesNotExist if there is none.
RunFbrTask(u) ==
    /\ fbr[u] = "queued"
    /\ fbr' = [fbr EXCEPT ![u] = CASE inv[u] = "none" -> "missed"
                                   [] inv[u] = "held" -> "early"
                                   [] OTHER -> "taken"]
    /\ UNCHANGED <<log, inv, applied, bad, pc, sale, seen, stale, reply>>

-----------------------------------------------------------------------------
\* The statements of request r.
Step(r) ==
    \/ InsertLog(r) \/ ReadConflict(r) \/ DeleteLog(r)
    \/ ReadInvoice(r) \/ WriteInvoice(r) \/ MarkLog(r)
    \/ CommitPost(r) \/ CommitRetry(r)

ServerNext ==
    \/ \E r \in Requests : Step(r) \/ Abort(r)
    \/ \E r \in Posts : Release(r)
    \/ \E r \in Posts, u \in Sales : StartPost(r, u)
    \/ \E r \in Retries, u \in Sales : StartRetry(r, u)
    \/ \E p \in Posts, q \in Retries : BreakDeadlock(p, q)
    \/ \E u \in Sales : FireOrder(u) \/ FixCatalog(u) \/ RunFbrTask(u)

ServerSpec == ServerInit /\ [][ServerNext]_server

-----------------------------------------------------------------------------
\* However often a sale is POSTed, replayed and retried, its stock, payment and
\* ledger effects are written once, and the sync log says "processed" exactly
\* when the sale is charged (checkout's idempotency on client_uuid).
ChargedOnce ==
    \A u \in Sales :
        /\ inv[u] = "charged" <=> applied[u] = 1
        /\ inv[u] # "charged" <=> applied[u] = 0

LogAgrees == \A u \in Sales : log[u] = "processed" <=> inv[u] = "charged"

\* A 200 or 201 is never given for a sale the server has not recorded.
HonestReply ==
    \A r \in Posts : pc[r] = "done" /\ reply[r] = "ok" => inv[sale[r]] = "charged"

\* Two transactions never hold the same invoice, or the same sync_log row.
Exclusive ==
    \A q, r \in Requests :
        q # r /\ sale[q] = sale[r] => ~ (HoldsLog(q) /\ HoldsLog(r)) /\ ~ (HoldsInv(q) /\ HoldsInv(r))

-----------------------------------------------------------------------------
(* The inductive invariant behind them, proved in SaleSyncProofs.          *)

\* What a POST that holds its sync_log row has read of the invoice still holds.
PostView ==
    \A r \in Posts :
        pc[r] \in {"write", "mark", "commit"} =>
            (seen[r] = "charged" <=> inv[sale[r]] = "charged")

\* A retry whose row was not replaced works on a sale that is not yet charged.
RetryView ==
    \A r \in Retries :
        /\ pc[r] \in {"free", "read", "write", "mark", "commit"}
        /\ pc[r] # "free" =>
               log[sale[r]] = "failed" \/ (stale[r] /\ pc[r] # "commit")
        /\ seen[r] # "failed"
        /\ pc[r] \in {"write", "mark", "commit"} /\ seen[r] = "charged" =>
               inv[sale[r]] = "charged"

ServerIInv == ServerTypeOK /\ ChargedOnce /\ LogAgrees /\ HonestReply /\ Exclusive /\ PostView /\ RetryView
=============================================================================
