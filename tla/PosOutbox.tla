------------------------------- MODULE PosOutbox -------------------------------
(***************************************************************************)
(* The till's offline queue: the SQLite tables invoices and outbound_queue *)
(* (electron/db/sales.ts, db/backfill.ts, ipc.ts), the background worker   *)
(* that drains the queue (electron/sync/worker.ts) and the process that    *)
(* starts it and hands it tokens (sync/manager.ts, main.ts).               *)
(*                                                                         *)
(* Time is abstracted to `due`: a row put on a backoff is not due until    *)
(* TimePasses.  The server is an arbitrary answer: one action per answer   *)
(* the worker distinguishes.  SaleSync connects them to SyncIngest.        *)
(***************************************************************************)
EXTENDS Naturals, FiniteSets, ClientUuids

CONSTANTS Sessions,      \* cash_session rows enqueued by day-open.tsx
          NoRow,         \* the worker is processing no row
          MaxAttempts    \* MAX_ATTEMPTS of sync/backoff.ts

ASSUME OutboxAssumption ==
    /\ Sales \cap Sessions = {}
    /\ NoRow \notin Sales \cup Sessions
    /\ IsFiniteSet(Sales) /\ IsFiniteSet(Sessions)
    /\ MaxAttempts \in Nat \ {0}

VARIABLES
    local,        \* SQLite: the till's own copy of each sale
    queue,        \* SQLite: outbound_queue.status of each row, "none" if absent
    attempt,      \* SQLite: outbound_queue.attempt_count
    due,          \* SQLite: next_attempt_at <= now
    id,           \* SQLite: outbound_queue.id (autoincrement), 0 if absent
    backfilled,   \* SQLite: kv_meta flag of the one-time backfill
    rescued,      \* SQLite: kv_meta flag of the one-time rescue
    stored,       \* SQLite: kv_meta access_token
    token,        \* the worker's access token
    worker,       \* what the worker process is doing; "off" with the whole till
    row,          \* the row it is processing
    tries         \* the attempt_count it read when it picked that row

disk == <<local, queue, attempt, due, id, backfilled, rescued, stored>>
till == <<disk, token, worker, row, tries>>

Rows == Sales \cup Sessions
Tokens == {"none", "live", "expired"}

TillTypeOK ==
    /\ local \in [Sales -> {"none", "held", "charged"}]
    /\ queue \in [Rows -> {"none", "pending", "sent", "ok", "failed"}]
    /\ attempt \in [Rows -> 0 .. MaxAttempts - 1]
    /\ due \in [Rows -> BOOLEAN]
    /\ id \in [Rows -> Nat]
    /\ backfilled \in BOOLEAN /\ rescued \in BOOLEAN
    /\ stored \in Tokens /\ token \in Tokens
    /\ worker \in {"off", "starting", "idle", "posting", "refreshing", "dead"}
    /\ row \in Rows \cup {NoRow}
    /\ tries \in 0 .. MaxAttempts - 1

\* The till is about to launch this build on the database an earlier build left:
\* some sales were charged but never queued, some invoice rows parked 'failed'.
TillInit ==
    /\ \E charged \in SUBSET Sales : \E parked \in SUBSET charged :
          /\ local = [u \in Sales |-> IF u \in charged THEN "charged" ELSE "none"]
          /\ queue = [x \in Rows |-> IF x \in parked THEN "failed" ELSE "none"]
          /\ id \in [Rows -> 0 .. Cardinality(parked)]
          /\ \A x \in Rows : id[x] = 0 <=> x \notin parked
          /\ \A x, y \in parked : id[x] = id[y] => x = y
    /\ attempt = [x \in Rows |-> IF queue[x] = "failed" THEN MaxAttempts - 1 ELSE 0]
    /\ due = [x \in Rows |-> TRUE]
    /\ backfilled = FALSE /\ rescued = FALSE
    /\ stored \in Tokens /\ token = "none"
    /\ worker = "off" /\ row = NoRow /\ tries = 0

Running == worker # "off"
Looping == worker \in {"idle", "posting", "refreshing"}

-----------------------------------------------------------------------------
(* The queue                                                               *)

Absent(X) == {x \in X : queue[x] = "none"}
LastId == Cardinality({x \in Rows : id[x] > 0})

\* INSERT ... ON CONFLICT(client_uuid) DO NOTHING, due now, attempt_count 0.
Insert(x) ==
    /\ queue' = [queue EXCEPT ![x] = IF @ = "none" THEN "pending" ELSE @]
    /\ id' = [id EXCEPT ![x] = IF @ = 0 THEN LastId + 1 ELSE @]

\* The rows of X become pending, due at once.
Requeue(X) ==
    /\ queue' = [x \in Rows |-> IF x \in X THEN "pending" ELSE queue[x]]
    /\ due' = [x \in Rows |-> due[x] \/ x \in X]

ResetAttempts(X) == attempt' = [x \in Rows |-> IF x \in X THEN 0 ELSE attempt[x]]

-----------------------------------------------------------------------------
(* The cashier                                                             *)

\* persistInvoice with is_held: kept locally, not queued.
Hold(u) ==
    /\ Running /\ local[u] = "none"
    /\ local' = [local EXCEPT ![u] = "held"]
    /\ UNCHANGED <<queue, attempt, due, id, backfilled, rescued, stored>>
    /\ UNCHANGED <<token, worker, row, tries>>

\* Recalling a retail hold deletes the local row (deleteHeldInvoice).
Recall(u) ==
    /\ Running /\ local[u] = "held"
    /\ local' = [local EXCEPT ![u] = "none"]
    /\ UNCHANGED <<queue, attempt, due, id, backfilled, rescued, stored>>
    /\ UNCHANGED <<token, worker, row, tries>>

\* Variant for mutation: finalizing a held sale forgets its queue row.
ChargeNotQueued(u) ==
    /\ Running /\ local[u] \in {"none", "held"}
    /\ local' = [local EXCEPT ![u] = "charged"]
    /\ IF local[u] = "none" THEN Insert(u) ELSE UNCHANGED <<queue, id>>
    /\ UNCHANGED <<attempt, due, backfilled, rescued, stored>>
    /\ UNCHANGED <<token, worker, row, tries>>

\* persistInvoice of a charged sale: a new row, or the held one finalized, and
\* its queue row in the same SQLite transaction; on a charged one it is a no-op.
Charge(u) ==
    /\ Running /\ local[u] \in {"none", "held"}
    /\ local' = [local EXCEPT ![u] = "charged"]
    /\ Insert(u)
    /\ UNCHANGED <<attempt, due, backfilled, rescued, stored>>
    /\ UNCHANGED <<token, worker, row, tries>>

\* Opening the day enqueues a cash_session row (ipc queue:enqueue).
OpenDay(x) ==
    /\ Running /\ x \in Sessions /\ queue[x] = "none"
    /\ Insert(x)
    /\ UNCHANGED <<local, attempt, due, backfilled, rescued, stored>>
    /\ UNCHANGED <<token, worker, row, tries>>

\* Variant for mutation: the sync screen retries any row, delivered ones too.
RetryRowUnchecked(x) ==
    /\ Running /\ queue[x] # "none"
    /\ Requeue({x}) /\ ResetAttempts({x})
    /\ UNCHANGED <<local, id, backfilled, rescued, stored>>
    /\ UNCHANGED <<token, worker, row, tries>>

\* "Retry" on one row of the sync screen.
RetryRow(x) ==
    /\ Running /\ queue[x] \in {"failed", "pending", "sent"}
    /\ Requeue({x}) /\ ResetAttempts({x})
    /\ UNCHANGED <<local, id, backfilled, rescued, stored>>
    /\ UNCHANGED <<token, worker, row, tries>>

\* "Retry failed": every failed row, with the attempts it has used up.
RetryFailed ==
    /\ Running
    /\ \E x \in Rows : queue[x] = "failed"
    /\ Requeue({x \in Rows : queue[x] = "failed"})
    /\ UNCHANGED <<local, attempt, id, backfilled, rescued, stored>>
    /\ UNCHANGED <<token, worker, row, tries>>

\* Signing in stores the tokens and posts them to the worker.
Login ==
    /\ Running
    /\ stored' = "live"
    /\ token' = IF Looping THEN "live" ELSE token
    /\ UNCHANGED <<local, queue, attempt, due, id, backfilled, rescued>>
    /\ UNCHANGED <<worker, row, tries>>

-----------------------------------------------------------------------------
(* Start and stop                                                          *)

\* main.ts: the one-time backfill, before the worker process is forked.
Launch ==
    /\ worker = "off"
    /\ worker' = "starting"
    /\ LET missed == {u \in Absent(Sales) : local[u] = "charged"}
       IN  IF backfilled THEN UNCHANGED <<queue, id>>
           ELSE /\ queue' = [x \in Rows |-> IF x \in missed THEN "pending" ELSE queue[x]]
                /\ \E f \in [missed -> LastId + 1 .. LastId + Cardinality(missed)] :
                      /\ \A x, y \in missed : f[x] = f[y] => x = y
                      /\ id' = [x \in Rows |-> IF x \in missed THEN f[x] ELSE id[x]]
    /\ backfilled' = TRUE
    /\ UNCHANGED <<local, attempt, due, rescued, stored, token, row, tries>>

\* Rows the one-time rescue brings back.
Rescued == {u \in Sales : ~ rescued /\ queue[u] = "failed"}

\* Variant for mutation: init() leaves the 'sent' rows of a previous run alone.
StartWorkerKeepsSent ==
    /\ worker = "starting"
    /\ worker' = "idle" /\ token' = stored
    /\ queue' = [x \in Rows |-> IF x \in Rescued THEN "pending" ELSE queue[x]]
    /\ due' = [x \in Rows |-> due[x] \/ x \in Rescued]
    /\ ResetAttempts(Rescued)
    /\ rescued' = TRUE
    /\ UNCHANGED <<local, id, backfilled, stored, row, tries>>

\* worker.ts init(): 'sent' rows of a previous run become pending again, then
\* the rescue, then the tokens restored from kv_meta arrive.
StartWorker ==
    /\ worker = "starting"
    /\ worker' = "idle" /\ token' = stored
    /\ queue' = [x \in Rows |-> IF queue[x] = "sent" \/ x \in Rescued
                                THEN "pending" ELSE queue[x]]
    /\ due' = [x \in Rows |-> due[x] \/ x \in Rescued]
    /\ ResetAttempts(Rescued)
    /\ rescued' = TRUE
    /\ UNCHANGED <<local, id, backfilled, stored, row, tries>>

\* The till is quit, crashes or loses power: only SQLite survives.
Crash ==
    /\ Running
    /\ worker' = "off" /\ token' = "none" /\ row' = NoRow /\ tries' = 0
    /\ UNCHANGED disk

-----------------------------------------------------------------------------
(* The worker's loop                                                       *)

Ready(x) == queue[x] = "pending" /\ due[x]

\* pickRow and the first half of processRow: the due pending row with the
\* lowest id is marked 'sent' and POSTed.  Without a token nothing happens.
Pick(x) ==
    /\ worker = "idle" /\ token # "none"
    /\ Ready(x) /\ \A y \in Rows : Ready(y) => id[x] <= id[y]
    /\ queue' = [queue EXCEPT ![x] = "sent"]
    /\ worker' = "posting" /\ row' = x /\ tries' = attempt[x]
    /\ UNCHANGED <<local, attempt, due, id, backfilled, rescued, stored, token>>

\* The row leaves the worker's hands with status s.
Settle(s) ==
    /\ queue' = [queue EXCEPT ![row] = s]
    /\ worker' = "idle" /\ row' = NoRow /\ tries' = 0

Backoff == due' = [due EXCEPT ![row] = FALSE]

\* 2xx: finalizeSent.
Acked ==
    /\ worker = "posting"
    /\ Settle("ok")
    /\ UNCHANGED <<local, attempt, due, id, backfilled, rescued, stored, token>>

\* No answer: networkFailure; does not count as an attempt.
NetworkFails ==
    /\ worker = "posting"
    /\ Settle("pending") /\ Backoff
    /\ UNCHANGED <<local, attempt, id, backfilled, rescued, stored, token>>

\* Variant for mutation: a rejected row is given up, a sale like any other.
PermanentFailureGivesUp == Settle("failed") /\ UNCHANGED due

\* permanentFailure: an invoice is parked for an hour, anything else is failed.
PermanentFailure ==
    IF row \in Sales THEN Settle("pending") /\ Backoff
                     ELSE Settle("failed") /\ UNCHANGED due

\* Variant for mutation: any answer below 500 counts as delivered.
RejectedCountsAsSent ==
    /\ worker = "posting"
    /\ Settle("ok")
    /\ UNCHANGED <<local, attempt, due, id, backfilled, rescued, stored, token>>

\* 4xx with a JSON body.
Rejected ==
    /\ worker = "posting"
    /\ PermanentFailure
    /\ UNCHANGED <<local, attempt, id, backfilled, rescued, stored, token>>

\* 5xx: transientFailure, from the attempt_count read when the row was picked.
ServerError ==
    /\ worker = "posting"
    /\ \/ /\ tries + 1 >= MaxAttempts
          /\ PermanentFailure
          /\ UNCHANGED attempt
       \/ /\ tries + 1 < MaxAttempts
          /\ Settle("pending") /\ Backoff
          /\ attempt' = [attempt EXCEPT ![row] = tries + 1]
    /\ UNCHANGED <<local, id, backfilled, rescued, stored, token>>

\* 4xx with a body that is not JSON: response.json() has consumed the body,
\* response.text() throws, runForever rejects and nothing restarts the loop.
HtmlError ==
    /\ worker = "posting"
    /\ worker' = "dead" /\ row' = NoRow /\ tries' = 0
    /\ UNCHANGED <<disk, token>>

\* 401: the worker asks for a new access token.
Unauthorized ==
    /\ worker = "posting"
    /\ worker' = "refreshing"
    /\ UNCHANGED <<disk, token, row, tries>>

\* tryRefreshToken: the server answers with "access", the worker reads
\* "accessToken" and so loses the token it had; or the refresh fails.
Refresh ==
    /\ worker = "refreshing"
    /\ token' \in {"none", token}
    /\ Settle("pending")
    /\ UNCHANGED <<local, attempt, due, id, backfilled, rescued, stored>>

\* Connectivity is back (or a sale was charged): every pending row is due.
Expedite ==
    /\ Looping
    /\ LET X == {x \in Rows : queue[x] = "pending"}
       IN  Requeue(X) /\ ResetAttempts(X)
    /\ UNCHANGED <<local, id, backfilled, rescued, stored, token, worker, row, tries>>

TimePasses(x) ==
    /\ ~ due[x]
    /\ due' = [due EXCEPT ![x] = TRUE]
    /\ UNCHANGED <<local, queue, attempt, id, backfilled, rescued, stored>>
    /\ UNCHANGED <<token, worker, row, tries>>

\* The access token's lifetime ends.
Expire ==
    /\ "live" \in {stored, token}
    /\ stored' = IF stored = "live" THEN "expired" ELSE stored
    /\ token' = IF token = "live" THEN "expired" ELSE token
    /\ UNCHANGED <<local, queue, attempt, due, id, backfilled, rescued, worker, row, tries>>

-----------------------------------------------------------------------------
Cashier ==
    \/ \E u \in Sales : Hold(u) \/ Recall(u) \/ Charge(u)
    \/ \E x \in Rows : OpenDay(x) \/ RetryRow(x)
    \/ RetryFailed \/ Login

Answered == Acked \/ NetworkFails \/ Rejected \/ ServerError \/ HtmlError \/ Unauthorized

TillNext ==
    \/ Cashier
    \/ Launch \/ StartWorker \/ Crash
    \/ \E x \in Rows : Pick(x) \/ TimePasses(x)
    \/ Answered \/ Refresh \/ Expedite \/ Expire

TillSpec == TillInit /\ [][TillNext]_till

-----------------------------------------------------------------------------
\* A paid sale is never written off: once the one-time rescue has run, no
\* invoice row is 'failed' (worker.ts permanentFailure).
NeverAbandoned == rescued => \A u \in Sales : queue[u] # "failed"

\* Once the one-time backfill has run, every charged sale has a queue row.
ChargedIsQueued ==
    backfilled => \A u \in Sales : local[u] = "charged" => queue[u] # "none"

\* While the loop is alive, a row is 'sent' only if it is the one in the
\* worker's hands: no row is lost to a status nothing picks up.
SentIsInFlight ==
    Looping => \A x \in Rows : queue[x] = "sent" => worker # "idle" /\ x = row

\* Once acknowledged, a row is never sent again: no late failure, refresh,
\* restart or operator action takes it back to the queue.
AckIsFinal == [][\A x \in Rows : queue[x] = "ok" => queue'[x] = "ok"]_till

-----------------------------------------------------------------------------
(* The inductive invariant behind them, proved in SaleSyncProofs.          *)

\* The row in the worker's hands: there is one exactly while it is working, and
\* nobody else can settle it meanwhile (an operator can make it pending again).
RowInHand ==
    /\ row \in Rows <=> worker \in {"posting", "refreshing"}
    /\ row \in Rows => queue[row] \in {"sent", "pending"}

TillIInv == TillTypeOK /\ RowInHand /\ NeverAbandoned /\ ChargedIsQueued /\ SentIsInFlight
=============================================================================
