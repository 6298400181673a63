------------------------------- MODULE SaleSync -------------------------------
(***************************************************************************)
(* A till (PosOutbox) and the server's ingestion (SyncIngest) over HTTP.   *)
(* A sale reaches the server by two independent paths: the renderer's      *)
(* fire-and-forget POST at the moment of charging (payment.tsx,            *)
(* syncInvoiceNow) and the worker's POST of the queue row.  A request the  *)
(* client has given up on may still be executed by the server.             *)
(***************************************************************************)
EXTENDS PosOutbox, SyncIngest

CONSTANTS NoPost,       \* the worker has no request at the server
          MaxFaults     \* bound on crashes, lost messages, aborts, expiries and retries

VARIABLES conn,      \* the request the worker is waiting for
          fate,      \* what becomes of the worker's POST
          faults     \* how many faults there have been

vars == <<till, server, conn, fate, faults>>

Init ==
    /\ TillInit
    /\ ServerInit
    /\ conn = NoPost /\ fate = "none" /\ faults = 0

\* Something goes wrong, or an admin intervenes: MaxFaults times at most.
Fault == faults < MaxFaults /\ faults' = faults + 1

-----------------------------------------------------------------------------
(* The till                                                                *)

\* Steps of the till that involve no message.
TillStep ==
    /\ \/ \E u \in Sales : Hold(u) \/ Recall(u)
       \/ \E x \in Rows : OpenDay(x) \/ RetryRow(x) \/ TimePasses(x)
       \/ RetryFailed \/ Login \/ Launch \/ StartWorker
       \/ Refresh \/ Expedite
    /\ UNCHANGED <<server, conn, fate, faults>>

\* "Complete sale": the sale is written and queued, and POSTed directly unless
\* the till is offline or its renderer dies first.
CompleteSale(u) ==
    /\ Charge(u)
    /\ (\E r \in Posts : StartPost(r, u)) \/ UNCHANGED server
    /\ UNCHANGED <<conn, fate, faults>>

Send(x, f) ==
    /\ Pick(x)
    /\ fate' = f

\* The worker POSTs row x with a live token and the server takes it up.
SendServed(x) ==
    /\ Send(x, "served") /\ token = "live" /\ x \in Sales
    /\ \E r \in Posts : StartPost(r, x) /\ conn' = r
    /\ UNCHANGED faults

\* The POST never arrives.
SendLost(x) ==
    /\ Send(x, "lost")
    /\ Fault
    /\ UNCHANGED <<server, conn>>

\* The access token has expired: 401.
SendDenied(x) ==
    /\ Send(x, "denied") /\ token = "expired"
    /\ UNCHANGED <<server, conn, faults>>

\* There is no /api/sync/cash_sessions/: Django's 404 page.
SendUnknown(x) ==
    /\ Send(x, "html") /\ token = "live" /\ x \in Sessions
    /\ UNCHANGED <<server, conn, faults>>

Closed == conn' = NoPost /\ fate' = "none"

\* The answer of the server reaches the worker.
Receive ==
    /\ fate = "served" /\ pc[conn] = "done"
    /\ \/ reply[conn] = "ok" /\ Acked
       \/ reply[conn] = "rejected" /\ Rejected
       \/ reply[conn] = "error" /\ ServerError
    /\ Release(conn)
    /\ Closed /\ UNCHANGED faults

\* The 30 s timeout, or the link fails; the server may be anywhere.
Timeout ==
    /\ NetworkFails
    /\ \/ fate = "lost" /\ UNCHANGED faults
       \/ fate # "lost" /\ Fault
    /\ Closed /\ UNCHANGED server

Denied ==
    /\ fate = "denied" /\ Unauthorized
    /\ Closed /\ UNCHANGED <<server, faults>>

Poisoned ==
    /\ fate = "html" /\ HtmlError
    /\ Closed /\ UNCHANGED <<server, faults>>

TillCrashes ==
    /\ Crash /\ Fault
    /\ Closed /\ UNCHANGED server

TokenExpires ==
    /\ Expire /\ Fault
    /\ UNCHANGED <<server, conn, fate>>

-----------------------------------------------------------------------------
(* The server                                                              *)

ServerStep ==
    /\ \/ \E r \in Posts \cup Retries : Step(r)
       \/ \E r \in Posts : r # conn /\ Release(r)
       \/ \E p \in Posts, q \in Retries : BreakDeadlock(p, q)
       \/ \E u \in Sales : FireOrder(u) \/ FixCatalog(u) \/ RunFbrTask(u)
    /\ UNCHANGED <<till, conn, fate, faults>>

ServerFault ==
    /\ \/ \E r \in Posts \cup Retries : Abort(r)
       \/ \E r \in Retries, u \in Sales : StartRetry(r, u)
    /\ Fault
    /\ UNCHANGED <<till, conn, fate>>

-----------------------------------------------------------------------------
Next ==
    \/ TillStep
    \/ \E u \in Sales : CompleteSale(u)
    \/ \E x \in Rows : SendServed(x) \/ SendLost(x) \/ SendDenied(x) \/ SendUnknown(x)
    \/ Receive \/ Timeout \/ Denied \/ Poisoned
    \/ TillCrashes \/ TokenExpires
    \/ ServerStep \/ ServerFault

Spec == Init /\ [][Next]_vars

-----------------------------------------------------------------------------
(* Fairness.  The till is switched on again, its event loop runs, timers   *)
(* fire, the server executes what it has accepted, answers that were sent  *)
(* arrive, somebody signs in again when asked to and somebody repairs the  *)
(* catalog.  A statement that waits for a row lock is woken when the       *)
(* holder ends, hence SF for the statements of a request.  Nothing is      *)
(* assumed of the cashier, of crashes or of losses.                        *)

Quiet == UNCHANGED <<server, conn, fate, faults>>
Alone == UNCHANGED <<till, conn, fate, faults>>

Fairness ==
    /\ WF_vars(Launch /\ Quiet) /\ WF_vars(StartWorker /\ Quiet)
    /\ WF_vars(\E x \in Rows : SendServed(x) \/ SendDenied(x) \/ SendUnknown(x))
    /\ WF_vars(Receive) /\ WF_vars(fate = "lost" /\ Timeout) /\ WF_vars(Denied) /\ WF_vars(Poisoned)
    /\ WF_vars(Refresh /\ Quiet) /\ WF_vars(Login /\ Quiet)
    /\ \A x \in Rows : WF_vars(TimePasses(x) /\ Quiet)
    /\ \A r \in Posts \cup Retries : SF_vars(Step(r) /\ Alone)
    /\ \A r \in Posts : WF_vars(r # conn /\ Release(r) /\ Alone)
    /\ \A p \in Posts, q \in Retries : WF_vars(BreakDeadlock(p, q) /\ Alone)
    /\ \A u \in Sales : WF_vars(FixCatalog(u) /\ Alone)

FairSpec == Spec /\ Fairness

-----------------------------------------------------------------------------
\* A row the worker has ticked off is a sale in the server's books, once, with
\* a sync log that says so.
OkMeansRecorded ==
    \A u \in Sales : queue[u] = "ok" => inv[u] = "charged" /\ applied[u] = 1 /\ log[u] = "processed"

\* "It parks as 'pending' ... and retries until it lands": every charged sale is
\* eventually recorded by the server and ticked off at the till.
SaleArrives ==
    \A u \in Sales : local[u] = "charged" ~> queue[u] = "ok" /\ inv[u] = "charged"

\* The till and the server together keep the promise of SaleLedger.
Ledger == INSTANCE SaleLedger WITH
    taken <- {u \in Sales : local[u] = "charged"},
    entries <- applied,
    settled <- {u \in Sales : queue[u] = "ok"}

LedgerSafety == Ledger!Safety
LedgerSpec == Ledger!Spec

-----------------------------------------------------------------------------
(* The inductive invariant behind them, proved in SaleSyncProofs: that of  *)
(* each side, and what connects them.                                      *)

\* Only a charged sale is queued at the till, POSTed or logged on the server.
OnlyCharged ==
    /\ \A u \in Sales : queue[u] # "none" \/ log[u] # "none" => local[u] = "charged"
    /\ \A r \in Requests : pc[r] # "free" => local[sale[r]] = "charged"

\* The request that the worker waits for carries the row in its hands.
WorkersPost ==
    fate = "served" => /\ worker = "posting" /\ conn \in Posts
                       /\ pc[conn] # "free" /\ sale[conn] = row

IInv == TillIInv /\ ServerIInv /\ OnlyCharged /\ WorkersPost /\ OkMeansRecorded
=============================================================================
