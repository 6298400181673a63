# Formal verification of the Invoice Solution POS

TLA+ models of the parts of this repository that move money and paperwork
between a shop's tills, the server and the tax authority, checked with TLC and,
for the core modules, proved with TLAPS.

The system is a point of sale for shops and restaurants: an Electron till that
sells offline (`src/pos-terminal`), tablets for waiters (`src/tablet-web`), a
Django/PostgreSQL server with Celery workers (`src/backend`), and the fiscal
authority (PRAL, for FBR and PRA) that numbers every invoice.

## Inventory

| Part | Code | State | Operations | Hard because | Correct when |
|---|---|---|---|---|---|
| Till outbox and worker | `electron/db/{sales,backfill}.ts`, `electron/sync/{worker,manager}.ts` | SQLite `invoices`, `outbound_queue`, `kv_meta`; the worker's token and row in hand | hold, recall, charge, open the day, retry, expedite, pick and POST, every answer, refresh, launch, crash | crashes between two writes, answers lost, operators and a worker on the same rows | no paid sale is dropped, stranded or un-acknowledged |
| Sync ingestion | `apps/sync/{services,views}.py`, `apps/sales/services/checkout.py` | `sync_log`, `invoices` and their effects | POST of a sale, replay, re-delivery of a failed sale, admin retry | concurrent transactions at READ COMMITTED, savepoints, rows deleted and re-inserted | a sale is applied once and acknowledged only then |
| Sale delivery | the two above and `features/checkout/payment.tsx` | both, and the request in flight | direct POST, queue POST, timeout, loss | two paths for one sale, requests that outlive their client | the books get each charged sale once, eventually |
| Fiscalization | `apps/fbr/{tasks,services,client,rules}.py`, `sales/{views,services/cancellation}.py`, `electron/fiscalize.ts` | invoice status, number, deadline; submission log and audit; messages; token; the till's device | submit in two worker processes, fiscalize at a till, retry, resubmit, redeliver, delete, cancel, finalize | two writers of one number, at-least-once messages, an external side effect, stale objects | one number per invoice, kept for ever, and a status that agrees |
| Restaurant orders | `apps/restaurant/services.py`, `tasks.py`, `sales/services/{checkout,holds}.py` | held invoices: lines, stamps, order status, payments | save, fire, kitchen status, void, charge, close, nightly sweep, hold and recall by hand | check-then-save on stale objects by till, tablet, office and sweep | a charged sale is never touched by an order operation; a cooked order is charged or swept |
| KOT relay | `electron/kot-relay.ts`, `features/restaurant/fire.ts`, `restaurant/views.py` | `kot_printed_at` stamps | fire, print, acknowledge, relay poll or refuse a backlog | prints and acknowledgements cross, lines are replaced | every fired line is printed |
| Stock | `apps/inventory/services/*`, `purchases/services.py`, `sales/services/{checkout,cancellation}.py` | levels, movements, documents | movement, dispatch, receive, cancel, post, finalize, sell, discard, void | unlocked status checks, shared level rows, rollbacks | a level is the sum of its movements, the movements are what the documents say |
| Amendments | `apps/returns`, `fbr/{budget,rules,services}.py`, `sales/services/cancellation.py` | status and lines of an accepted invoice, returns, budget, what the authority recorded | return, cancel, cancel a line, edit, mark at the portal, recompute | a call to the authority in the middle of a transaction, unlocked budget reads | one refund a return; where there is an authority to ask, nothing kept here that is not recorded there; the 10 % cap |
| Hotel | `apps/hotel/{services,views,models}.py` | rooms, bookings, folio, charges, bill | open, edit, add / remove / release a room, charge, void a charge or any line, cancel, check out | checks on loaded objects, several settlements | no room is shared or stuck; each night is charged; the bill is whole |
| Numbering | `electron/db/numbering.ts`, `sales/services/numbering.py`, `fire.ts`, `held-sales.tsx`, `OpenOrdersPanel.tsx` | a counter on each till, the count of invoices on the server, the number an order carries | mint, reuse, hand back, carry, tag, count | two counters for one namespace, numbers handed back, the year's end | no two bills share a number, no sale is refused for its number |
| Cash sessions | `sales/services/sessions.py` | open session, expected amount | open, close | a payment during a close | one open session (a constraint); the amounts add up |
| Pricing | `sales/services/{pricing,tax_rules}.py` | none | quote a cart | rounding | totals agree with their lines |
| The rest | accounts, tenants, catalog, reports, notifications, audit, leads, platform admin, the user interfaces, printer drivers | records | CRUD, rendering, device I/O | - | not modelled, see below |

How they interact: the renderer writes a charged sale and its queue row into
SQLite in one transaction, then tries a direct POST; the worker drains the queue
independently of it. `ingest_invoice` calls checkout, which finalizes a held
order under the same `client_uuid`, moves stock, records payments and the
customer ledger, and queues `submit_invoice_to_fbr`. That task, its retries, the
till that fiscalizes on its own device and the endpoints that delete or cancel
write the same invoice row without a common lock. Waiters' tablets write the
held invoice through `upsert_open_order`, and the till prints kitchen slips from
it; the till's charge, the back office and the nightly sweep close it. A stay
holds its charges as held invoices and bills them as one at checkout. Sales,
returns, transfers, receipts and audits meet in the stock levels; sales of
tills, stays and the back office meet in the number space of a terminal;
cancellations, edits and returns meet in the tenant's monthly budget.

## Modules

| Module | Models | State and actions in the code |
|---|---|---|
| `SyncIngest` | one transaction per request, statement by statement | `log`, `inv`, `applied` are committed rows; `pc`, `seen`, `stale` a request's progress and what it has read. `InsertLog`, `ReadConflict`, `DeleteLog`, `ReadInvoice`, `WriteInvoice`, `MarkLog`, `CommitPost`, `CommitRetry` are the statements of `ingest_invoice` and `retry_failed` |
| `PosOutbox` | the till's database and worker process | one action per IPC handler and per branch of `processRow`; `Launch`, `StartWorker`, `Crash` are the life of the process, SQLite survives |
| `SaleSync` | the two composed over HTTP (it extends both; the definitions of one side that have a counterpart on the other are called `Till...` and `Server...`) | `conn` and `fate` are the worker's request in flight; an action is a step of the till, of the server, or both at once when a message passes |
| `ClientUuids` | the identity of a sale | `client_uuid`, one constant that till and server share |
| `SaleLedger` | the promise of offline selling, abstractly | a sale is taken, entered once, then settled; `SaleSync` implements it |
| `FbrSubmission` | the two writers of a fiscal number, the Celery task and the till with a device (`fiscal_payload`, `fiscal_result`), with the requests that delete, cancel or queue again and the hourly finalization | each `save()` of the task is an action of its own (it runs in autocommit); `till` is at a step of `fiscalizeInvoice`; the authority is external; `lost` and `met` are history |
| `KotRelay` | the kitchen slips of open orders, from cart to paper | `cart`, `fire`, `batch`, `fired` are a client's; `items`, `sent`, `stamped`, `status`, `firedAt` are the server's rows; `tick`, `slip`, `ids` a relay's; `printed` is the paper, `missed` what a till failed to print (history). Each await of `fireUnsentToKitchen` and of the relay's `tick` ends an action; `Upsert` replaces the snapshot as one transaction |
| `OpenOrder` | the row of one restaurant order and the services that write it: save, fire, send, ready, served, void, charge, close, sweep, hold, recall | `row`, `lines`, `pays`, `moved` are the invoice, its items, payments and stock; `kind`, `seen`, `checked` a request and the object it has loaded. `Load`, `Check` and `Commit` are the three moments of every service: it reads without a lock, decides, and saves the columns it saves (all of them, or its `update_fields`). `late` and `count` are history: what others did to the row since a request loaded it, and how often the `Incidents` that its screens do not foresee have happened. `NightFalls` starts the sweep |
| `StockLedger` | `record_movement` and the documents that call it line by line | `level` is the stock, `ledger` and `net` are the movements by level and by document line, `status`, `got`, `off` the documents; `op`, `doc`, `todo`, `step` are a request and how far its loop has got, `held` the rows it has locked, `draft` and `rows` what it has written and not committed; `stale` and `raced` are history |
| `Amendments` | what may still happen to an invoice that the authority has accepted | `books` is our database: status, lines, returns, refunds, consumptions, the month's `budget`; `heard` is what the authority has recorded; `wired` says which tokens and connection an invoice has; `phase` and `job` are a request and what it has loaded; `met` and `slack` are history. `Load...`, `Ask` and `Commit...` are the rules, the call and the writes of each service; `Ask` is skipped where the code finds nobody to ask (`Asks`), may be refused, and its answer may be lost after the authority acted; `Reserve` is `consume_cancel_budget` |
| `Hotel` | stays, rooms and their bill | `room` and `folio` are statuses, `booked` and `term` a stay's rooms and their nights, `nights` and `extras` its live charges, `bill` and `settles` the settlement; `op`, `arg` a request that has loaded its objects. Check-in, adding a room, charging, voiding and checkout are a `Load` and a step that writes; what locks first is one step. `struck`, `taken`, `over`, `met` and `late` are history |
| `Numbering` | who gives an invoice its number | `counter` is a till's `kv_meta`, `number` what the till knows as an order's number, `row` the server's invoice; `bill` the number on the printed bill; the server's next number is computed from the rows (`LastSeq`), as `next_invoice_number` does; `loose` and `tagged` are history |

`...Proofs` modules hold the theorems; the `MC...` modules name the sets that
the `.cfg` files choose from. Definitions called "Variant for mutation" or "A
mutant" are a plausible slip in the code next to them; nothing uses them, they
are what each property is tested against.

The modules share a style for requests that overlap. A Django request loads
objects in its view, checks them in a service, and writes them in the same
transaction; what it loaded may be stale when it writes. `SyncIngest` follows
the statements and their locks; `OpenOrder`, `Hotel`, `Amendments`,
`StockLedger` and `FbrSubmission` keep the loaded object or the decision made
from it. Nothing in the models keeps two requests apart, because nothing in the
code does. Where the code lets an overlap do damage, a history variable records
that it has happened and to which object, and the property names it as the only
exception: it says that the damage has no other cause, how large it is, or both.
History variables appear in no guard but for the bounds `MaxLost` and `MaxMet`.

Row locks are not variables. Which rows a transaction holds follows from how far
it has got (`HoldsLog`, `HoldsInv`), and a statement that would wait is disabled
until the holder has ended. A unique key that a concurrent transaction's
uncommitted row occupies makes the statement wait in the same way.

## Runs

| Run | Instance | What it shows |
|---|---|---|
| `sync_ingest` | 1 sale, 3 concurrent POSTs, 1 admin retry | `ChargedOnce`, `LogAgrees`, `HonestReply` in every interleaving, with aborts, broken deadlocks, a fired order and a catalog repair |
| `pos_outbox` | 2 sales, 1 cash session, MaxAttempts 2 | `NeverAbandoned`, `ChargedIsQueued`, `SentIsInFlight`, `AckIsFinal` |
| `sale_sync` | 1 sale, 2 POST slots, 1 retry, 1 fault | refinement of `SaleLedger` with liveness (`LedgerSpec`), `OkMeansRecorded` |
| `sale_sync_day` | 1 sale, 1 cash session, 1 fault | `LedgerSafety`: the refinement's safety survives the worker that the cash session's row kills |
| `sale_sync_poison` | the same, with fairness | violation of `SaleArrives`: a charged sale never arrives |
| `fbr_submission` | 2 invoices (one not fiscal), 2 messages, 2 worker processes, 1 till with a device, 1 request; per invoice 1 lost number, 1 meeting | `FiscalizedOnce`, `NumberIsFinal`, `FiscalStatus`, `NumberOnRecord`: what duplicates a number is a lost one or two fiscalizations that met |
| `kot_relay` | 1 till with two lines whose printer may fail, 1 tablet with two lines of one dish, 3 snapshots, 1 fault, a backlog limit of 1 | `StampedIsPrinted`, `StampsSurvive`, and `SentIsCooked` under fairness of the relays |
| `open_order` | 1 order, any 2 requests at a time, 4 in all, the sweep | paid once and only with payment (`ClosedIsPaid`, `SettledOnce`), `ChargedIsWhole`, never reopened or downgraded (`StaysClosed`, `StaysFired`) but by what an overtaken request or a hold or recall by hand did; `GhostsClose` under fairness |
| `stock_ledger` | a transfer, a receipt, an audit and a sale over 4 levels, 2 requests | `LevelIsLedger`, `DocumentsExplainStock`, `DocumentsAddUp`, with rollbacks after every line and two requests on one document |
| `hotel` | 2 rooms, 2 stays of 1 or 2 nights, 1 charge, any 2 requests | `RoomsCharged`, `OneGuest`, `RoomsInStep`, `BillIsWhole` |
| `amendments` | 1 invoice of 2 lines, 1 return, any 2 requests, budgets of 1 or 2, a branch's own token or a tenant on the POS cloud | `RefundedOnce`, `AuthorityKnows`, `BackOnce`, `CapHolds`, `StaysCancelled` |
| `numbering` | 3 orders (1 of a shop), a till whose terminal the server numbers too, a tablet, a desk, sales and debit notes, 2 numbers in each of 2 years | `BillsDiffer`, `NoSaleIsStuck`, `SlipIsBill`, `DeskCanSell` |

The type invariants are proved for all constants and are not run.

### Bounds

`Posts`, `Retries`, `Messages`, `Requests` are slots that are used again and
again, so they bound how many things happen at once and not how often. Three
POSTs are one that inserts, one that waits, and one that deletes a failed row
under both; sales do not interact on the server (every row is found by
`client_uuid`), so one is enough there, and two are used at the till, where the
queue orders them. `MaxAttempts` is 30 in the code and 2 here: the smallest
value with an attempt that is not the last. `MaxRetries` is 12 and is 1 here,
`LongWait` says from which retry on the countdown outlasts the broker's
visibility timeout (6 h against 1 h). `MaxFaults` bounds crashes, lost and late
messages, aborts, expiries and admin retries taken together in `SaleSync`;
`MaxLost` and `MaxMet` bound, per invoice, the numbers that are lost and the
fiscalizations that begin beside another: with one of each an invoice can have
three numbers, and a second meeting repeats the first. Two worker processes are
deployed (`pos-celery-worker.service`); one till suffices beside them, since
tills exclude each other no more than a till and a task do. In `KotRelay` each
client has one order and an order at most two lines: a stamp can go astray
between an old line and a new one, or between two lines of a dish, and orders
meet only in the relay's choice of the oldest. `MaxUpserts` bounds saves and
fires (firing two lines one by one takes two, and one of them can be lost and
repeated) and `MaxFaults` failed prints and lost requests. `MAX_BACKLOG` is 1:
two clients with an unprinted order each exceed it.

In `OpenOrder` one order is enough, since every service works on one row;
`MaxRequests` counts the calls of a run: four are a fire, a settlement and two
that overlap with it or with each other, and there are two slots because two
requests are what it takes to have one act on what the other has changed. In
`StockLedger` the transfer has two lines and the sale has them in the opposite
order, so that two requests can wait for each other's rows; quantities differ so
that a movement cannot pass for another. `Missing` is what a receipt may find
short. In `Hotel` two rooms and two guests are what a double booking and a move
take; `MaxSettles` is 2 because two checkouts can overlap. Its `VIEW` leaves out
of an ended stay what neither a step nor an invariant looks at any more. In
`Amendments` both lines belong to one invoice, so that two requests always
compete for it and for the budget; `Budgets` are the values a recomputation may
find, one that a single cancellation uses up and one that it does not; the two
`Setups` are a branch whose returns find no token and a tenant whose
cancellations are not sent. `MaxSeq` of `Numbering` is 2: a number handed back
and the one that collides with it; `MaxYear` is 2 for a turn of the year. The
run has some 3.6 million states and takes three minutes; more numbers or tills
multiply that. `TagsFirst` and `TagDigits` say how a tag sorts and parses: a
tablet's tag sorts before the branch's numbers (code `B...`, tag `ORD-...`), and
its digits can be any. The proofs have none of these bounds.

### Exceptions

What the code does not prevent is in the models, and in the properties as an
exception that a history variable witnesses. Without the exception TLC finds a
counterexample in the same run.

| History | Records | Excepted in | Code |
|---|---|---|---|
| `FbrSubmission!lost` | a number issued by the authority or a device that nobody lived to save | `FiscalizedOnce` | `client.py:177`, `fiscalize.ts:199` |
| `FbrSubmission!met` | a fiscalization that began while another one of the invoice ran | `FiscalizedOnce`, `NumberIsFinal`, `FiscalStatus` | `tasks.py:54`, `sales/views.py:633` |
| `KotRelay!missed` | lines that their own till failed to print | `StampedIsPrinted`, `SentIsCooked` | `fire.ts:169` |
| `OpenOrder!count`, "overtaken" | an upsert, settlement or void whose order was closed since it loaded it | `SettledOnce`, `ChargedIsWhole`, `StaysClosed`, `GhostsClose` | `restaurant/services.py:131`, `:345` |
| "outfired" | a save or charge that puts back a row loaded before the fire | `StaysFired` | `restaurant/services.py:131` |
| "rehung", "recalled" | a closed order put on hold, an order taken off hold, by hand | the first as "overtaken", the second in `ClosedIsPaid` | `holds.py:17-40` |
| "unpaid" | a charge that brings no completed payment | `ClosedIsPaid` | `checkout.py` |
| `StockLedger!stale`, `raced` | documents written on a status that another request had changed | `DocumentsExplainStock` | `transfers.py:68`, `purchases/services.py:27` |
| `Hotel!struck` | rooms whose line was voided as an item | `RoomsCharged` | `hotel/services.py:385` |
| `Hotel!met` | rooms booked, or freed, on what was no longer so | `OneGuest`, `RoomsInStep` | `hotel/services.py:147`, `:775` |
| `Hotel!late` | folios charged, voided or settled after they had ended | `BillIsWhole` | `hotel/services.py:775` |
| `Amendments!met` | lines put back in stock by two who had both read them as live | `BackOnce` | `cancellation.py` |
| `Amendments!slack` | what was consumed between a recomputation's read and its save | `CapHolds` | `budget.py:121` |
| `Numbering!loose` | a till's numbers given up, or issued by the server, while in use | `BillsDiffer`, `NoSaleIsStuck` | `fire.ts:358`, `sales/services/numbering.py` |
| `Numbering!tagged` | orders sent to the server when their till had no number | `SlipIsBill` | `fire.ts:52-55` |

One condition is left as a constant: `SyncIngest!Retries` has one admin retry at
a time. With two (`TwoRetries`) `ChargedOnce` is false.

### Fairness

Three modules assume fairness. In `SaleSync` (`Fairness`) the till is started
again, its timers and event loop run, the server goes on with what it has
accepted, an answer that was sent arrives, somebody signs in when asked to, and
somebody repairs the catalog (a payload that is rejected for ever can never
arrive; the comment at `worker.ts:334` says the same). The statements of a
request get strong fairness because a statement that waits for a row lock is
enabled and disabled again as other transactions pass, and PostgreSQL's lock
queue wakes it. Nothing is assumed of cashiers, crashes, losses or the admin. In
`KotRelay` (`FairSpec`) the relays' timers fire and a slip that can be printed
is printed at last; nothing is assumed of those who take, save, fire or serve
orders. In `OpenOrder` (`FairSpec`) a request that has started ends, and the
nightly sweep runs: celery beat starts it at 04:00 every day (`core/celery.py`),
and its loop catches what one order throws (`tasks.py:75-89`). Nothing is
assumed of tills, waiters or the office: `GhostsClose` is what the sweep alone
guarantees.

## Proofs

| Theorem | States | Assumes |
|---|---|---|
| `SaleSyncProofs!LocksExclude`, `IngestOnce`, `LogIsTrue`, `AnswersAreHonest` | no two transactions hold a row; `ChargedOnce`; `LogAgrees`; `HonestReply` | the last three: at most one admin retry at a time |
| `SaleSyncProofs!SalesStayQueued`, `NoStrandedRow`, `AcksAreFinal`, `NoSaleOffTheQueue` | `NeverAbandoned`; `SentIsInFlight`; `AckIsFinal`; `ChargedIsQueued` | the constants' assumptions only |
| `SaleSyncProofs!TickedOffIsRecorded`, `DeliveryImplementsLedger` | `OkMeansRecorded`; `LedgerSafety`: every step of till, link and server is a step of `SaleLedger` or a stutter | at most one admin retry at a time |
| `SaleSyncProofs!TillIsPosOutbox`, `ServerIsSyncIngest` | the composition is, on each side, a behaviour of the module that was checked and proved alone | the second: at most one admin retry at a time |
| `FbrSubmissionProofs!NumbersAreAccounted`, `NumbersAreFinal`, `StatusFollowsNumber`, `NumbersAreRecorded` | `FiscalizedOnce`; `NumberIsFinal`; `FiscalStatus`; `NumberOnRecord` | the constants' assumptions only |
| `KotRelayProofs!StampsAreTrue`, `StampsAreKept` | `StampedIsPrinted`; `StampsSurvive` | the constants' assumptions only |
| `StockLedgerProofs!LevelIsTheLedger`, `LedgerIsDocuments`, `DocumentsExplain` | `LevelIsLedger`; `DocumentsAddUp`; `DocumentsExplainStock` | the second: finitely many documents |
| `OpenOrderProofs!AlwaysPaid`, `PaidOnce`, `WholeSale`, `NeverReopened`, `NeverDowngraded` | `ClosedIsPaid`; `SettledOnce`; `ChargedIsWhole`; `StaysClosed`; `StaysFired` | the constants' assumptions only |
| `HotelProofs!EveryNightIsCharged`, `OneGuestPerRoom`, `NoRoomIsStuck`, `WholeBill` | `RoomsCharged`; `OneGuest`; `RoomsInStep`; `BillIsWhole` | the constants' assumptions only |
| `AmendmentsProofs!OneRefund`, `NoHalfStateHere`, `BudgetCaps`, `CancelledForGood`, `LinesGoBackOnce` | `RefundedOnce`; `AuthorityKnows`; `CapHolds`; `StaysCancelled`; `BackOnce` | the constants' assumptions only |
| `NumberingProofs!BillsAreApart`, `SalesAreRecordable`, `SlipsAreBills`, `DesksGoOn` | `BillsDiffer`; `NoSaleIsStuck`; `SlipIsBill`; `DeskCanSell` | the constants' assumptions only |
| `TypeCorrect` of `FbrSubmissionProofs`, `KotRelayProofs`, `StockLedgerProofs`, `OpenOrderProofs`, `HotelProofs`, `AmendmentsProofs`; `TillTypeCorrect`, `ServerTypeCorrect` of `SaleSyncProofs` | `[]TypeOK` (`Numbering` has it in its invariant) | the constants' assumptions only |

`ChargedOnce` is not inductive: it needs to know that what a request has read of
the invoice is still true when it writes. For a POST this is `PostView`: from
the moment it holds the sync-log row nobody else can charge the sale, since
another POST needs that row and a retry needs it before it commits. For a retry
it is `RetryView`: as long as its row was not replaced, the row says "failed",
so by `LogAgrees` the sale is not charged. Both use `Exclusive`. With two
retries `RetryView` fails, and the sale is charged twice.

The delivery of a sale is proved on top of both sides. `TillIsPosOutbox` and
`ServerIsSyncIngest` carry their invariants over to the composition, and three
conjuncts tie them together: `OnlyCharged` (what is queued, POSTed or logged is
a sale that a till has charged), `WorkersPost` (while the worker's POST is
served, it is the request that the server has for the row in the worker's hand)
and `OkMeansRecorded`. A row becomes "ok" only by an answer, so an honest answer
is all that is needed; a sale that was entered stays entered. With them every
step maps to a step of `SaleLedger`: charging takes a sale, the commit that
applies it enters it, the acknowledgement settles it, and everything else -
losses, crashes, re-deliveries, second paths - is a stutter.

`FiscalizedOnce` is not inductive: a fiscalization that is waiting for its
answer, or one that nothing would stop from beginning, costs a number that is
not issued yet. `Within` counts those in: the numbers issued, the requests that
the authority has yet to answer (`Posting`, `Asking`) and one more if a
fiscalization may begin without meeting another (`Due`) are covered by the first
number, the lost and the meetings. A task or a till that ends without a number
makes one `Due` and takes one from the requests; one that loses its answer pays
with `lost`; one that begins beside another pays with `met`. For the status and
the final number `Alone` says that until two meet, at most one task or till
works on an invoice, and it has no number while one does: the guards at
`tasks.py:54` and `sales/views.py:633` were then evaluated while nothing else
ran. `Carried` says that the number on its way to the invoice is in a record
before it gets there. The sets are finite (`IsFiniteSet(Messages)`,
`IsFiniteSet(Tills)`); the number of worker processes plays no part.

`StampedIsPrinted` and `StampsSurvive` rest on what the counting of stamps in
`upsert_open_order` comes to. It carries stamps over by dish (signature) and in
line order, so with two lines of a dish a stamp could move to a line that was
never printed. `InOrder` is why it does not on a tablet's order: lines are sent
in the order of the cart, what the tablet knows as sent is the beginning of what
the server has as sent, and the stamped lines are the beginning of that, because
a relay that takes an order takes all its unstamped lines, and loses hold of
them when the snapshot is replaced. Two beginnings of one list have their
shorter one in common (`CarriedIsStamped`). At a till `DishesDiffer`: more of a
dish goes into its line. `Printing` adds that what a till knows as sent, or has
told the server, is on a slip, missed by it, or on the one it is about to print,
and that what a till or a relay is about to acknowledge is printed or missed by
then; `Handles` ties an acknowledgement to items that still exist. The lines
that `fire.ts:169` acknowledges without having printed them are what `missed` is
there for: a line can be in it only because its own till failed to print it.

`LevelIsLedger` follows from the row locks: a request that is about to write a
level holds its row (`RowsExclusive` makes it the only one), so the sum it adds
to is current; a rollback drops the drafts and the uncommitted movements
together. `DocumentsExplainStock` needs in addition that the status of a
document is the one its request has read: `AtWork` says that this is so of every
request that is not `stale`, and that between its start and its end the
movements are those the old status claims plus the lines that the request has
done. A document that a stale request writes is `raced` from then on.
`DocumentsAddUp` excepts no document. `RowsAddUp` says that the rows a request
has written are the movements its loop has passed (`Posted`), and `LedgerAddsUp`
that the ledger is the opening balance plus all that the documents' lines have
moved; a commit has passed every line, so it adds `Posted` to `Moved` place by
place. The lemmas on `Total` that this takes (a sum is that of its parts,
changes by what one summand changes by, and so on) are proved from the
definition of the library's fold by induction over the subsets of a finite set;
the induction is stated for a set of sets and rests on the least element of a
set of natural numbers (`WFMin`), since a rule with an operator as a parameter
cannot be instantiated.

The theorems about an open order rest on `InTime`: a request that settles,
replaces or voids a closed order has loaded it before it was closed, and `late`
says so; likewise for the fire. So every step that closes an order that is
closed, or opens it, or takes its fire back, adds to `count`. `Accounts` turns
this into a sum: the settlements made, and one to come if the order is open, are
covered by the first one, those that were overtaken and the holds by hand.
Closing adds one on the left and takes the one to come away; opening gives it
back and adds one on the right. `SaleLines` adds what `ChargedIsWhole` needs at
the first charge.

In `HotelProofs` `CInv` ties the live room charges of an open stay to its booked
rooms and their terms (`InTune`), whatever overlaps, because the services
re-post under the lock of the folio. `KInv` adds what a request has loaded: a
room to be booked is free or was taken since (`Looked`), a folio to be written
on is open or has ended since (`Stands`). A room that is not in `met` has one
guest and a status that says so (`Kept`), a folio that is not in `late` the bill
of its lines (`Billed`); a room or folio enters those sets in the step that
would break this, and never leaves them.

In `AmendmentsProofs` `AInv` relates a request between its call and its commit
to what the authority has recorded (`heard`): past the call, what there was to
ask (`Asks`) is in it. `OneLock` is the lock of the budget row, under which what
was reserved stays available; `Room` says that what is left of the budget, if
anything is, and what was consumed exceed the amount by at most `slack`, which
each recomputation sets anew to what it overlooked. The lines that a
cancellation puts back are those it read as live, and one that another has
cancelled since is in `met`. `StaysCancelled` needs only that an edit and the
cancellation of a line had loaded a live invoice (`Shaped`).

`Numbering` follows what an order is, or may still be, known by (`Uses`): the
row's number, the bill's, and the till's as long as the order is in a cart or
parked. But for the `loose` ones, no two orders use one number (`UsesDiffer`)
and no counter is behind a number in use (`CounterAhead`), so a new number is
new. Handing a number back moves a counter down, and is what makes this
delicate: `Void` puts the number it gives up among the loose ones exactly if an
order still uses it afterwards, and an order that leaves the screen uses its
number no more unless the server has it. `OnScreen` and `OnShelf` say that an
order is at one till unless it goes by its tag, and that its number is of that
till; `Printed` ties what the till printed to the server's row.

Only model-checked is liveness, for which the prover has no rule (fairness and
ENABLED): the fairness half of `LedgerSpec`, `SentIsCooked` and `GhostsClose`.
Every other property of a passing run is stated by a theorem.

## What was found

PROJECT.json lists the disagreements between the code and its comments: one with
the run that shows it, the rest met while modelling. Most are in the models,
where they are the exceptions of the properties (table above):

- delivery: the worker that a 404 page stops; an admin retry that runs twice; a
  refreshed token read under the wrong name;
- authority: two submissions of one invoice in two worker processes, or by a task and a
  till; a device's number that is lost when the server is not reached; an invoice
  left in 'submitted'; a deleted draft that is fiscalized; a partial return that
  cancels the whole invoice there; acceptances that a later failure forgets
  here; cancellations and returns for which nobody is asked, or under another token;
  totals and statuses made of prefetched lines; a budget row that a refusal takes
  away, and a cap that a recomputation overruns;
- kitchen and orders: a line acknowledged and never printed; a second portion
  that is never printed; slips printed twice; a waiter's cart lost with a failed
  save; "mark served", which voids the order; a cooked order that can be voided
  once the kitchen calls it ready; a charged order that an upsert reopens; a
  deleted order that is saved on; orders closed without stock or submission; a paid
  sale put on hold, an unpaid one taken off it;
- numbers: a number handed back while its order is on the server; an order sent under
  the head of its uuid and billed under a number; this year's
  counter rolled back by last year's number; debit notes and tags that make the
  server repeat a number; two counters for one terminal; return numbers of two
  terminals in one namespace;
- stock and hotel: receipts posted twice; a variance taken twice; a level with
  two rows; a double checkout; a double booking; a night's line struck off; voided
  charges of a stay that keep their stock; returns and cancellations that restock more than was sold.

## Not modelled, and why

Pure I/O (printing, USB displays, e-mail), rendering, CRUD without a protocol,
reports. The user interfaces of tills, tablets, the back office and the website
are most of the code of this repository; the parts of them that drive a protocol
(carts, firing, charging, resuming, holding) are in the modules, the rest is
forms and tables over the services above.

Time is abstracted: a backoff or deadline is a bit that becomes true. Money is
abstracted to whether an effect happened and how often; where quantities matter
(stock, nights, budget) they are small integers. Hence cash sessions (the sum
expected at a close), pricing, tax, re-rating at checkout and the customer
ledger are not modelled. `KotRelay` follows an order until it is charged or
voided; slips are not counted, so it says that a line is printed and not how
often. `OpenOrder` has one order and no tables; tills that lose an order's lines
are in `KotRelay`. `StockLedger` starts with its level rows in place and has no
batches, manual adjustments or opening balances. `Amendments` starts with
accepted invoices, and with the month's budget row in place. In `SyncIngest` an
order gets on and off hold by firing and charging; the hold and recall
endpoints, which no till or tablet calls, are in `OpenOrder`. `Numbering`
answers one request at a time (the server locks the terminal, and `UNIQUE`
decides), and a request that `UNIQUE` refuses is a step that does not happen.

## Plan

1. `Numbering`: return numbers and the daily kitchen number.
2. `StockLedger`: batches, adjustments, opening balances, first use of a level.
3. `CashSession`: payments in integer amounts against the expected sum, with the
   customer ledger; pricing as operators against a reference definition.
4. `KotRelay`: cancelled lines and the service day.
