---------------------------- MODULE SaleSyncProofs ----------------------------
(***************************************************************************)
(* What holds of a till, of the server's ingestion and of the two together *)
(* for any number of sales, requests and faults.                           *)
(***************************************************************************)
EXTENDS SaleSync, FiniteSetTheorems, TLAPS

-----------------------------------------------------------------------------
(* The till's outbox, whatever the server answers.                         *)

\* The ids in use can be counted.
LEMMA LastIdIsNat == LastId \in Nat /\ \A S : S \subseteq Rows => Cardinality(S) \in Nat
<1>1. IsFiniteSet(Rows)
  BY FS_Union, OutboxAssumption DEF Rows
<1>2. \A S : S \subseteq Rows => Cardinality(S) \in Nat
  BY <1>1, FS_Subset, FS_CardinalityType
<1>3. {x \in Rows : id[x] > 0} \subseteq Rows
  OBVIOUS
<1> QED
  BY <1>2, <1>3 DEF LastId

\* Settling a row keeps the types of what it changes.
LEMMA SettleType ==
  ASSUME TillTypeOK, NEW s \in {"pending", "ok", "failed"}, Settle(s)
  PROVE  /\ queue' \in [Rows -> {"none", "pending", "sent", "ok", "failed"}]
         /\ worker' \in {"off", "starting", "idle", "posting", "refreshing", "dead"}
         /\ row' \in Rows \cup {NoRow}
         /\ tries' \in 0 .. MaxAttempts - 1
<1>1. queue' \in [Rows -> {"none", "pending", "sent", "ok", "failed"}]
  BY DEF TillTypeOK, Settle
<1>2. worker' = "idle" /\ row' = NoRow /\ tries' = 0
  BY DEF Settle
<1>3. 0 \in 0 .. MaxAttempts - 1
  BY OutboxAssumption
<1> QED
  BY <1>1, <1>2, <1>3

LEMMA TillStarts == TillInit => TillIInv
<1> SUFFICES ASSUME TillInit PROVE TillIInv
  OBVIOUS
<1>1. TillTypeOK
  <2>1. PICK charged \in SUBSET Sales, parked \in SUBSET Sales :
          /\ local = [u \in Sales |-> IF u \in charged THEN "charged" ELSE "none"]
          /\ queue = [x \in Rows |-> IF x \in parked THEN "failed" ELSE "none"]
          /\ id \in [Rows -> 0 .. Cardinality(parked)]
    BY DEF TillInit
  <2>2. id \in [Rows -> Nat]
    BY <2>1, LastIdIsNat DEF Rows
  <2>3. attempt \in [Rows -> 0 .. MaxAttempts - 1]
    BY OutboxAssumption DEF TillInit
  <2>4. local \in [Sales -> {"none", "held", "charged"}]
        /\ queue \in [Rows -> {"none", "pending", "sent", "ok", "failed"}]
    BY <2>1
  <2>5. tries \in 0 .. MaxAttempts - 1
    BY OutboxAssumption DEF TillInit
  <2>6. /\ due \in [Rows -> BOOLEAN] /\ backfilled \in BOOLEAN /\ rescued \in BOOLEAN
        /\ stored \in Tokens /\ token \in Tokens /\ row \in Rows \cup {NoRow}
        /\ worker \in {"off", "starting", "idle", "posting", "refreshing", "dead"}
    BY DEF TillInit, Tokens
  <2> QED
    BY <2>2, <2>3, <2>4, <2>5, <2>6 DEF TillTypeOK
<1>2. RowInHand /\ NeverAbandoned /\ ChargedIsQueued /\ SentIsInFlight
  BY OutboxAssumption DEF TillInit, RowInHand, NeverAbandoned, ChargedIsQueued, SentIsInFlight, Looping, Rows
<1> QED
  BY <1>1, <1>2 DEF TillIInv

\* Holding and recalling touch only sales that are not charged.
LEMMA HoldKeeps ==
  ASSUME TillIInv, NEW u \in Sales, Hold(u) \/ Recall(u)
  PROVE  TillIInv'
<1> USE OutboxAssumption DEF TillIInv, TillTypeOK, Tokens, Rows, Running, Looping
<1>1. TillTypeOK'
  BY LastIdIsNat DEF Hold, Recall
<1>2. RowInHand'
  BY DEF Hold, Recall, RowInHand
<1>3. NeverAbandoned'
  BY DEF Hold, Recall, NeverAbandoned
<1>4. ChargedIsQueued'
  BY DEF Hold, Recall, ChargedIsQueued
<1>5. SentIsInFlight'
  BY DEF Hold, Recall, SentIsInFlight, RowInHand
<1> QED
  BY <1>1, <1>2, <1>3, <1>4, <1>5 DEF TillIInv

\* A charged sale gets its queue row in the same step.
LEMMA ChargeKeeps ==
  ASSUME TillIInv, NEW u \in Sales, Charge(u)
  PROVE  TillIInv'
<1> USE OutboxAssumption DEF TillIInv, TillTypeOK, Tokens, Rows, Running, Looping
<1>1. TillTypeOK'
  BY LastIdIsNat DEF Charge, Insert
<1>2. RowInHand'
  BY DEF Charge, Insert, RowInHand
<1>3. NeverAbandoned'
  BY DEF Charge, Insert, NeverAbandoned
<1>4. ChargedIsQueued'
  BY DEF Charge, Insert, ChargedIsQueued
<1>5. SentIsInFlight'
  BY DEF Charge, Insert, SentIsInFlight, RowInHand
<1> QED
  BY <1>1, <1>2, <1>3, <1>4, <1>5 DEF TillIInv

\* A cash_session row joins the queue.
LEMMA OpenDayKeeps ==
  ASSUME TillIInv, NEW x \in Rows, OpenDay(x)
  PROVE  TillIInv'
<1> USE OutboxAssumption DEF TillIInv, TillTypeOK, Tokens, Rows, Running, Looping
<1>1. TillTypeOK'
  BY LastIdIsNat DEF OpenDay, Insert
<1>2. RowInHand'
  BY DEF OpenDay, Insert, RowInHand
<1>3. NeverAbandoned'
  BY DEF OpenDay, Insert, NeverAbandoned
<1>4. ChargedIsQueued'
  BY DEF OpenDay, Insert, ChargedIsQueued
<1>5. SentIsInFlight'
  BY DEF OpenDay, Insert, SentIsInFlight, RowInHand
<1> QED
  BY <1>1, <1>2, <1>3, <1>4, <1>5 DEF TillIInv

\* An operator's retry only makes a row pending.
LEMMA RetryRowKeeps ==
  ASSUME TillIInv, NEW x \in Rows, RetryRow(x)
  PROVE  TillIInv'
<1> USE OutboxAssumption DEF TillIInv, TillTypeOK, Tokens, Rows, Running, Looping
<1>1. TillTypeOK'
  BY LastIdIsNat DEF RetryRow, Requeue, ResetAttempts
<1>2. RowInHand'
  BY DEF RetryRow, Requeue, ResetAttempts, RowInHand
<1>3. NeverAbandoned'
  BY DEF RetryRow, Requeue, ResetAttempts, NeverAbandoned
<1>4. ChargedIsQueued'
  BY DEF RetryRow, Requeue, ResetAttempts, ChargedIsQueued
<1>5. SentIsInFlight'
  BY DEF RetryRow, Requeue, ResetAttempts, SentIsInFlight, RowInHand
<1> QED
  BY <1>1, <1>2, <1>3, <1>4, <1>5 DEF TillIInv

\* So does the retry of all failed rows.
LEMMA RetryFailedKeeps ==
  ASSUME TillIInv, RetryFailed
  PROVE  TillIInv'
<1> USE OutboxAssumption DEF TillIInv, TillTypeOK, Tokens, Rows, Running, Looping
<1>1. TillTypeOK'
  BY LastIdIsNat DEF RetryFailed, Requeue
<1>2. RowInHand'
  BY DEF RetryFailed, Requeue, RowInHand
<1>3. NeverAbandoned'
  BY DEF RetryFailed, Requeue, NeverAbandoned
<1>4. ChargedIsQueued'
  BY DEF RetryFailed, Requeue, ChargedIsQueued
<1>5. SentIsInFlight'
  BY DEF RetryFailed, Requeue, SentIsInFlight, RowInHand
<1> QED
  BY <1>1, <1>2, <1>3, <1>4, <1>5 DEF TillIInv

\* Tokens do not touch the queue.
LEMMA LoginKeeps ==
  ASSUME TillIInv, Login
  PROVE  TillIInv'
<1> USE OutboxAssumption DEF TillIInv, TillTypeOK, Tokens, Rows, Running, Looping
<1>1. TillTypeOK'
  BY LastIdIsNat DEF Login
<1>2. RowInHand'
  BY DEF Login, RowInHand
<1>3. NeverAbandoned'
  BY DEF Login, NeverAbandoned
<1>4. ChargedIsQueued'
  BY DEF Login, ChargedIsQueued
<1>5. SentIsInFlight'
  BY DEF Login, SentIsInFlight, RowInHand
<1> QED
  BY <1>1, <1>2, <1>3, <1>4, <1>5 DEF TillIInv

\* The backfill queues what was charged without a queue row.
LEMMA LaunchKeeps ==
  ASSUME TillIInv, Launch
  PROVE  TillIInv'
<1> USE OutboxAssumption DEF TillIInv, TillTypeOK, Tokens, Rows, Running, Looping
<1>1. TillTypeOK'
  <2>1. CASE backfilled
    BY <2>1 DEF Launch
  <2>2. CASE ~ backfilled
    <3> DEFINE missed == {u \in Absent(Sales) : local[u] = "charged"}
    <3>1. PICK f \in [missed -> LastId + 1 .. LastId + Cardinality(missed)] :
             id' = [x \in Rows |-> IF x \in missed THEN f[x] ELSE id[x]]
      BY <2>2 DEF Launch
    <3>2. Cardinality(missed) \in Nat /\ LastId \in Nat
      BY LastIdIsNat DEF Absent
    <3>3. id' \in [Rows -> Nat]
      BY <3>1, <3>2
    <3>4. queue' = [x \in Rows |-> IF x \in missed THEN "pending" ELSE queue[x]]
      BY <2>2 DEF Launch
    <3> HIDE DEF missed
    <3> QED
      BY <3>3, <3>4 DEF Launch
  <2> QED
    BY <2>1, <2>2
<1>2. RowInHand'
  BY DEF Launch, Absent, RowInHand
<1>3. NeverAbandoned'
  BY DEF Launch, Absent, NeverAbandoned
<1>4. ChargedIsQueued'
  BY DEF Launch, Absent, ChargedIsQueued
<1>5. SentIsInFlight'
  BY DEF Launch, Absent, SentIsInFlight, RowInHand
<1> QED
  BY <1>1, <1>2, <1>3, <1>4, <1>5 DEF TillIInv

\* The restarted worker leaves no 'sent' and no 'failed' invoice row behind.
LEMMA StartKeeps ==
  ASSUME TillIInv, StartWorker
  PROVE  TillIInv'
<1> USE OutboxAssumption DEF TillIInv, TillTypeOK, Tokens, Rows, Running, Looping
<1>1. TillTypeOK'
  BY LastIdIsNat DEF StartWorker, ResetAttempts, Rescued
<1>2. RowInHand'
  BY DEF StartWorker, ResetAttempts, Rescued, RowInHand
<1>3. NeverAbandoned'
  BY DEF StartWorker, ResetAttempts, Rescued, NeverAbandoned
<1>4. ChargedIsQueued'
  BY DEF StartWorker, ResetAttempts, Rescued, ChargedIsQueued
<1>5. SentIsInFlight'
  BY DEF StartWorker, ResetAttempts, Rescued, SentIsInFlight, RowInHand
<1> QED
  BY <1>1, <1>2, <1>3, <1>4, <1>5 DEF TillIInv

\* A crash forgets the row in hand, not its status.
LEMMA CrashKeeps ==
  ASSUME TillIInv, Crash
  PROVE  TillIInv'
<1> USE OutboxAssumption DEF TillIInv, TillTypeOK, Tokens, Rows, Running, Looping
<1>1. TillTypeOK'
  BY LastIdIsNat DEF Crash, disk
<1>2. RowInHand'
  BY DEF Crash, disk, RowInHand
<1>3. NeverAbandoned'
  BY DEF Crash, disk, NeverAbandoned
<1>4. ChargedIsQueued'
  BY DEF Crash, disk, ChargedIsQueued
<1>5. SentIsInFlight'
  BY DEF Crash, disk, SentIsInFlight, RowInHand
<1> QED
  BY <1>1, <1>2, <1>3, <1>4, <1>5 DEF TillIInv

\* The worker marks 'sent' the row it takes, and takes one at a time.
LEMMA PickKeeps ==
  ASSUME TillIInv, NEW x \in Rows, Pick(x)
  PROVE  TillIInv'
<1> USE OutboxAssumption DEF TillIInv, TillTypeOK, Tokens, Rows, Running, Looping
<1>1. TillTypeOK'
  BY LastIdIsNat DEF Pick, Ready
<1>2. RowInHand'
  BY DEF Pick, Ready, RowInHand
<1>3. NeverAbandoned'
  BY DEF Pick, Ready, NeverAbandoned
<1>4. ChargedIsQueued'
  BY DEF Pick, Ready, ChargedIsQueued
<1>5. SentIsInFlight'
  BY DEF Pick, Ready, SentIsInFlight, RowInHand
<1> QED
  BY <1>1, <1>2, <1>3, <1>4, <1>5 DEF TillIInv

\* Every JSON answer ends the row's 'sent' status, never with a failed invoice.
LEMMA AnswerKeeps ==
  ASSUME TillIInv, Acked \/ NetworkFails \/ Rejected \/ ServerError
  PROVE  TillIInv'
<1> USE OutboxAssumption DEF TillIInv, TillTypeOK, Tokens, Rows, Running, Looping
<1>1. TillTypeOK'
  <2>1. CASE Acked
    BY <2>1, SettleType DEF Acked
  <2>2. CASE NetworkFails
    BY <2>2, SettleType DEF NetworkFails, Backoff
  <2>3. CASE Rejected
    BY <2>3, SettleType DEF Rejected, PermanentFailure, Backoff
  <2>4. CASE ServerError
    <3>1. due' \in [Rows -> BOOLEAN]
      BY <2>4 DEF ServerError, PermanentFailure, Backoff
    <3>2. \E s \in {"pending", "ok", "failed"} : Settle(s)
      BY <2>4 DEF ServerError, PermanentFailure
    <3>3. attempt' \in [Rows -> 0 .. MaxAttempts - 1]
      BY <2>4 DEF ServerError
    <3> QED
      BY <2>4, <3>1, <3>2, <3>3, SettleType DEF ServerError
  <2> QED
    BY <2>1, <2>2, <2>3, <2>4
<1>2. RowInHand'
  BY DEF Acked, NetworkFails, Rejected, ServerError, PermanentFailure, Settle, Backoff, RowInHand
<1>3. NeverAbandoned'
  BY DEF Acked, NetworkFails, Rejected, ServerError, PermanentFailure, Settle, Backoff, NeverAbandoned
<1>4. ChargedIsQueued'
  BY DEF Acked, NetworkFails, Rejected, ServerError, PermanentFailure, Settle, Backoff, ChargedIsQueued
<1>5. SentIsInFlight'
  BY DEF Acked, NetworkFails, Rejected, ServerError, PermanentFailure, Settle, Backoff, SentIsInFlight, RowInHand
<1> QED
  BY <1>1, <1>2, <1>3, <1>4, <1>5 DEF TillIInv

\* After an HTML error the loop is dead; a 401 keeps the row in hand.
LEMMA HtmlKeeps ==
  ASSUME TillIInv, HtmlError \/ Unauthorized
  PROVE  TillIInv'
<1> USE OutboxAssumption DEF TillIInv, TillTypeOK, Tokens, Rows, Running, Looping
<1>1. TillTypeOK'
  BY LastIdIsNat DEF HtmlError, Unauthorized, disk
<1>2. RowInHand'
  BY DEF HtmlError, Unauthorized, disk, RowInHand
<1>3. NeverAbandoned'
  BY DEF HtmlError, Unauthorized, disk, NeverAbandoned
<1>4. ChargedIsQueued'
  BY DEF HtmlError, Unauthorized, disk, ChargedIsQueued
<1>5. SentIsInFlight'
  BY DEF HtmlError, Unauthorized, disk, SentIsInFlight, RowInHand
<1> QED
  BY <1>1, <1>2, <1>3, <1>4, <1>5 DEF TillIInv

\* The refresh puts the row back.
LEMMA RefreshKeeps ==
  ASSUME TillIInv, Refresh
  PROVE  TillIInv'
<1> USE OutboxAssumption DEF TillIInv, TillTypeOK, Tokens, Rows, Running, Looping
<1>1. TillTypeOK'
  <2>1. token' \in {"none", "live", "expired"}
    BY DEF Refresh
  <2>2. Settle("pending")
    BY DEF Refresh
  <2>3. UNCHANGED <<local, attempt, due, id, backfilled, rescued, stored>>
    BY DEF Refresh
  <2> QED
    BY <2>1, <2>2, <2>3, SettleType
<1>2. RowInHand'
  BY DEF Refresh, Settle, RowInHand
<1>3. NeverAbandoned'
  BY DEF Refresh, Settle, NeverAbandoned
<1>4. ChargedIsQueued'
  BY DEF Refresh, Settle, ChargedIsQueued
<1>5. SentIsInFlight'
  BY DEF Refresh, Settle, SentIsInFlight, RowInHand
<1> QED
  BY <1>1, <1>2, <1>3, <1>4, <1>5 DEF TillIInv

\* Timers and expiry change no status except pending.
LEMMA TimeKeeps ==
  ASSUME TillIInv, Expedite \/ Expire \/ \E x \in Rows : TimePasses(x)
  PROVE  TillIInv'
<1> USE OutboxAssumption DEF TillIInv, TillTypeOK, Tokens, Rows, Running, Looping
<1>1. TillTypeOK'
  <2>1. CASE Expedite
    <3>1. queue' = [x \in Rows |-> IF queue[x] = "pending" THEN "pending" ELSE queue[x]]
          /\ attempt' = [x \in Rows |-> IF queue[x] = "pending" THEN 0 ELSE attempt[x]]
      BY <2>1 DEF Expedite, Requeue, ResetAttempts
    <3>2. due' \in [Rows -> BOOLEAN]
      BY <2>1 DEF Expedite, Requeue
    <3> QED
      BY <2>1, <3>1, <3>2 DEF Expedite
  <2>2. CASE Expire
    BY <2>2 DEF Expire
  <2>3. CASE \E x \in Rows : TimePasses(x)
    BY <2>3 DEF TimePasses
  <2> QED
    BY <2>1, <2>2, <2>3
<1>2. RowInHand'
  BY DEF Expedite, Requeue, ResetAttempts, Expire, TimePasses, RowInHand
<1>3. NeverAbandoned'
  BY DEF Expedite, Requeue, ResetAttempts, Expire, TimePasses, NeverAbandoned
<1>4. ChargedIsQueued'
  BY DEF Expedite, Requeue, ResetAttempts, Expire, TimePasses, ChargedIsQueued
<1>5. SentIsInFlight'
  BY DEF Expedite, Requeue, ResetAttempts, Expire, TimePasses, SentIsInFlight, RowInHand
<1> QED
  BY <1>1, <1>2, <1>3, <1>4, <1>5 DEF TillIInv

LEMMA TillKeeps ==
  ASSUME TillIInv, [TillNext]_till
  PROVE  TillIInv'
<1>1. CASE UNCHANGED till
  BY <1>1 DEF till, disk, TillIInv, TillTypeOK, RowInHand, NeverAbandoned, ChargedIsQueued, SentIsInFlight, Looping
<1>2. CASE TillNext
  BY <1>2, HoldKeeps, ChargeKeeps, OpenDayKeeps, RetryRowKeeps, RetryFailedKeeps, LoginKeeps, LaunchKeeps,
     StartKeeps, CrashKeeps, PickKeeps, AnswerKeeps, HtmlKeeps, RefreshKeeps, TimeKeeps
     DEF TillNext, Cashier, Answered
<1> QED
  BY <1>1, <1>2

LEMMA OutboxInvariant == TillSpec => []TillIInv
<1>1. TillInit => TillIInv
  BY TillStarts
<1>2. TillIInv /\ [TillNext]_till => TillIInv'
  BY TillKeeps
<1> QED
  BY <1>1, <1>2, PTL DEF TillSpec

\* The type of every variable of the till.
THEOREM TillTypeCorrect == TillSpec => []TillTypeOK
<1>1. TillIInv => TillTypeOK
  BY DEF TillIInv
<1> QED
  BY <1>1, OutboxInvariant, PTL

\* Whatever the server answers, and however often the till crashes, no invoice
\* row is written off and no charged sale is without a row.
THEOREM SalesStayQueued == TillSpec => [](NeverAbandoned /\ ChargedIsQueued)
<1>1. TillIInv => NeverAbandoned /\ ChargedIsQueued
  BY DEF TillIInv
<1> QED
  BY <1>1, OutboxInvariant, PTL

\* While the loop is alive no row is stranded in 'sent'.
THEOREM NoStrandedRow == TillSpec => []SentIsInFlight
<1>1. TillIInv => SentIsInFlight
  BY DEF TillIInv
<1> QED
  BY <1>1, OutboxInvariant, PTL

\* Every charged sale has its row in the queue, in every state: charge and
\* enqueue are one SQLite transaction, and launch repairs the rows of old sales.
THEOREM NoSaleOffTheQueue == TillSpec => []ChargedIsQueued
BY SalesStayQueued, PTL

\* No step takes an acknowledged row out of its status.
LEMMA AcksStay ==
  ASSUME TillIInv, [TillNext]_till
  PROVE  \A x \in Rows : queue[x] = "ok" => queue'[x] = "ok"
<1> USE DEF TillIInv, TillTypeOK
<1>0. CASE UNCHANGED till
  BY <1>0 DEF till, disk
<1>1. ASSUME NEW s \in {"pending", "ok", "failed"}, Settle(s), worker \in {"posting", "refreshing"}
      PROVE  \A x \in Rows : queue[x] = "ok" => queue'[x] = "ok"
  BY <1>1 DEF Settle, RowInHand
<1>2. CASE Acked \/ NetworkFails \/ Rejected \/ ServerError \/ Refresh
  BY <1>1, <1>2 DEF Acked, NetworkFails, Rejected, ServerError, Refresh, PermanentFailure
<1>3. CASE Cashier
  <2>1. CASE \E u \in Sales : Hold(u) \/ Recall(u)
    BY <2>1 DEF Hold, Recall
  <2>2. CASE \E u \in Sales : Charge(u)
    BY <2>2 DEF Charge, Insert, Rows
  <2>3. CASE \E x \in Rows : OpenDay(x)
    BY <2>3 DEF OpenDay, Insert
  <2>4. CASE \E x \in Rows : RetryRow(x)
    BY <2>4 DEF RetryRow, Requeue
  <2>5. CASE RetryFailed \/ Login
    BY <2>5 DEF RetryFailed, Requeue, Login
  <2> QED
    BY <1>3, <2>1, <2>2, <2>3, <2>4, <2>5 DEF Cashier
<1>4. CASE Launch \/ StartWorker \/ Crash
  BY <1>4 DEF Launch, Absent, StartWorker, Rescued, Crash, disk, Rows
<1>5. CASE HtmlError \/ Unauthorized \/ Expire \/ Expedite
  BY <1>5 DEF HtmlError, Unauthorized, disk, Expire, Expedite, Requeue
<1>6. CASE \E x \in Rows : Pick(x) \/ TimePasses(x)
  BY <1>6 DEF Pick, Ready, TimePasses
<1> QED
  BY <1>0, <1>2, <1>3, <1>4, <1>5, <1>6 DEF TillNext, Answered

\* An acknowledged row never goes back to the queue.
THEOREM AcksAreFinal == TillSpec => AckIsFinal
<1>1. TillIInv /\ [TillNext]_till => [\A x \in Rows : queue[x] = "ok" => queue'[x] = "ok"]_till
  BY AcksStay
<1> QED
  BY <1>1, OutboxInvariant, PTL DEF TillSpec, AckIsFinal

-----------------------------------------------------------------------------
(* The server's ingestion, whoever sends the POSTs.  The inductive         *)
(* invariant says what a transaction in progress may rely on: a POST that  *)
(* has passed the sync_log row keeps everybody else from charging the      *)
(* sale, and a retry whose row was not replaced works on a sale that is    *)
(* still uncharged.                                                        *)

LEMMA ServerTypeKept ==
  ASSUME ServerTypeOK, [ServerNext]_server
  PROVE  ServerTypeOK'
<1> USE DEF ServerTypeOK, LogStatus, InvStatus, Requests, Goto, Answer, committed
<1>1. ASSUME NEW r \in Requests, InsertLog(r) PROVE ServerTypeOK'
  BY <1>1 DEF InsertLog
<1>2. ASSUME NEW r \in Requests, ReadConflict(r) PROVE ServerTypeOK'
  BY <1>2 DEF ReadConflict
<1>3. ASSUME NEW r \in Requests, DeleteLog(r) PROVE ServerTypeOK'
  BY <1>3 DEF DeleteLog
<1>4. ASSUME NEW r \in Requests, ReadInvoice(r) PROVE ServerTypeOK'
  BY <1>4 DEF ReadInvoice
<1>5. ASSUME NEW r \in Requests, WriteInvoice(r) PROVE ServerTypeOK'
  BY <1>5 DEF WriteInvoice, CreateFails
<1>6. ASSUME NEW r \in Requests, MarkLog(r) PROVE ServerTypeOK'
  BY <1>6 DEF MarkLog, Enqueue
<1>7a. ASSUME NEW r \in Requests, CommitPost(r) PROVE ServerTypeOK'
  <2>1. inv' \in [Sales -> InvStatus] /\ applied' \in [Sales -> Nat]
    BY <1>7a DEF CommitPost, Effects
  <2>2. log' \in [Sales -> LogStatus] /\ stale' \in [Requests -> BOOLEAN]
    BY <1>7a DEF CommitPost
  <2>3. /\ pc' \in [Requests -> {"free", "insert", "conflict", "delete", "read",
                                "write", "mark", "commit", "done"}]
        /\ reply' \in [Posts -> {"ok", "rejected", "error"}]
    BY <1>7a DEF CommitPost
  <2>4. UNCHANGED <<bad, fbr, sale, seen>>
    BY <1>7a DEF CommitPost
  <2> QED
    BY <2>1, <2>2, <2>3, <2>4
<1>7b. ASSUME NEW r \in Requests, CommitRetry(r) PROVE ServerTypeOK'
  BY <1>7b DEF CommitRetry, Effects
<1>8. ASSUME NEW r \in Requests, Abort(r) PROVE ServerTypeOK'
  BY <1>8 DEF Abort
<1>9. ASSUME NEW r \in Posts, Release(r) PROVE ServerTypeOK'
  BY <1>9 DEF Release
<1>10. ASSUME NEW r \in Posts, NEW u \in Sales, StartPost(r, u) PROVE ServerTypeOK'
  BY <1>10 DEF StartPost
<1>11. ASSUME NEW r \in Retries, NEW u \in Sales, StartRetry(r, u) PROVE ServerTypeOK'
  BY <1>11 DEF StartRetry
<1>12. ASSUME NEW p \in Posts, NEW q \in Retries, BreakDeadlock(p, q) PROVE ServerTypeOK'
  BY <1>12 DEF BreakDeadlock, CreateFails
<1>13. ASSUME NEW u \in Sales, FireOrder(u) \/ FixCatalog(u) \/ RunFbrTask(u) PROVE ServerTypeOK'
  BY <1>13 DEF FireOrder, FixCatalog, RunFbrTask
<1>14. CASE UNCHANGED server
  BY <1>14 DEF server
<1> QED
  BY <1>1, <1>2, <1>3, <1>4, <1>5, <1>6, <1>7a, <1>7b, <1>8, <1>9, <1>10, <1>11, <1>12, <1>13, <1>14
  DEF ServerNext, Step

\* The type of every variable, for any Sales, Posts and Retries.
THEOREM ServerTypeCorrect == ServerSpec => []ServerTypeOK
<1>1. ServerInit => ServerTypeOK
  BY DEF ServerInit, ServerTypeOK, LogStatus, InvStatus, Requests
<1>2. ServerTypeOK /\ [ServerNext]_server => ServerTypeOK'
  BY ServerTypeKept
<1> QED
  BY <1>1, <1>2, PTL DEF ServerSpec

-----------------------------------------------------------------------------
\* Row locks exclude each other, however many retries run at once.
THEOREM LocksExclude == ServerSpec => []Exclusive
<1> USE DEF Requests, HoldsLog, HoldsInv, Goto, Answer, committed
<1>1. ServerInit => Exclusive
  BY DEF ServerInit, Exclusive
<1>2. ServerTypeOK /\ Exclusive /\ [ServerNext]_server => Exclusive'
  <2> SUFFICES ASSUME ServerTypeOK, Exclusive, [ServerNext]_server PROVE Exclusive'
    OBVIOUS
  <2> USE DEF ServerTypeOK, Exclusive, LogFree, InvFree
  <2>1. ASSUME NEW r \in Requests, InsertLog(r) \/ ReadConflict(r) \/ DeleteLog(r) PROVE Exclusive'
    BY <2>1 DEF InsertLog, ReadConflict, DeleteLog
  <2>2. ASSUME NEW r \in Requests, ReadInvoice(r) PROVE Exclusive'
    BY <2>2 DEF ReadInvoice
  <2>3. ASSUME NEW r \in Requests, WriteInvoice(r) PROVE Exclusive'
    BY <2>3 DEF WriteInvoice, CreateFails, Unique
  <2>4. ASSUME NEW r \in Requests, MarkLog(r) PROVE Exclusive'
    BY <2>4 DEF MarkLog
  <2>5. ASSUME NEW r \in Requests, CommitPost(r) \/ CommitRetry(r) PROVE Exclusive'
    <3>1. pc' = [pc EXCEPT ![r] = "done"] \/ pc' = [pc EXCEPT ![r] = "free"]
      BY <2>5 DEF CommitPost, CommitRetry
    <3>2. sale' = sale /\ seen' = seen
      BY <2>5 DEF CommitPost, CommitRetry
    <3> QED
      BY <3>1, <3>2
  <2>6. ASSUME NEW r \in Requests, Abort(r) \/ Release(r) PROVE Exclusive'
    BY <2>6 DEF Abort, Release
  <2>7. ASSUME NEW r \in Requests, NEW u \in Sales, StartPost(r, u) \/ StartRetry(r, u) PROVE Exclusive'
    BY <2>7, DisjointRequests DEF StartPost, StartRetry
  <2>8. ASSUME NEW p \in Posts, NEW q \in Retries, BreakDeadlock(p, q) PROVE Exclusive'
    BY <2>8 DEF BreakDeadlock, Deadlocked, CreateFails
  <2>9. ASSUME NEW u \in Sales, FireOrder(u) \/ FixCatalog(u) \/ RunFbrTask(u) PROVE Exclusive'
    BY <2>9 DEF FireOrder, FixCatalog, RunFbrTask
  <2>10. CASE UNCHANGED server
    BY <2>10 DEF server
  <2> QED
    BY <2>1, <2>2, <2>3, <2>4, <2>5, <2>6, <2>7, <2>8, <2>9, <2>10 DEF ServerNext, Step
<1> QED
  BY <1>1, <1>2, ServerTypeCorrect, PTL DEF ServerSpec

-----------------------------------------------------------------------------
\* Admins do not retry while another retry request is being served.
SingleRetry == \A q, r \in Retries : q = r

\* InsertLog takes the sync_log row only if nobody else holds it.
LEMMA InsertKeeps ==
  ASSUME ServerIInv, ServerTypeOK', NEW r \in Requests, InsertLog(r)
  PROVE  ServerIInv'
<1> USE DEF ServerIInv, ServerTypeOK, LogStatus, InvStatus, Requests, Goto, Answer, committed
<1>1. ChargedOnce' /\ LogAgrees'
  BY DisjointRequests DEF InsertLog, ChargedOnce, LogAgrees
<1>2. HonestReply'
  BY DisjointRequests DEF InsertLog, HonestReply, LogAgrees, RetryView
<1>3. Exclusive'
  BY DisjointRequests DEF InsertLog, Exclusive, HoldsLog, HoldsInv, LogFree, InvFree
<1>4. PostView'
  BY DisjointRequests DEF InsertLog, PostView
<1>5. RetryView'
  BY DisjointRequests DEF InsertLog, RetryView, LogAgrees
<1> QED
  BY <1>1, <1>2, <1>3, <1>4, <1>5 DEF ServerIInv

\* ReadConflict answers "ok" only on a processed row, hence a charged sale.
LEMMA ConflictKeeps ==
  ASSUME ServerIInv, ServerTypeOK', NEW r \in Requests, ReadConflict(r)
  PROVE  ServerIInv'
<1> USE DEF ServerIInv, ServerTypeOK, LogStatus, InvStatus, Requests, Goto, Answer, committed
<1>1. ChargedOnce' /\ LogAgrees'
  BY DisjointRequests DEF ReadConflict, ChargedOnce, LogAgrees
<1>2. HonestReply'
  BY DisjointRequests DEF ReadConflict, HonestReply, LogAgrees, RetryView
<1>3. Exclusive'
  BY DisjointRequests DEF ReadConflict, Exclusive, HoldsLog, HoldsInv, LogFree, InvFree
<1>4. PostView'
  BY DisjointRequests DEF ReadConflict, PostView
<1>5. RetryView'
  BY DisjointRequests DEF ReadConflict, RetryView, LogAgrees
<1> QED
  BY <1>1, <1>2, <1>3, <1>4, <1>5 DEF ServerIInv

\* DeleteLog takes the sync_log row only if nobody else holds it.
LEMMA DeleteKeeps ==
  ASSUME ServerIInv, ServerTypeOK', NEW r \in Requests, DeleteLog(r)
  PROVE  ServerIInv'
<1> USE DEF ServerIInv, ServerTypeOK, LogStatus, InvStatus, Requests, Goto, Answer, committed
<1>1. ChargedOnce' /\ LogAgrees'
  BY DisjointRequests DEF DeleteLog, ChargedOnce, LogAgrees
<1>2. HonestReply'
  BY DisjointRequests DEF DeleteLog, HonestReply, LogAgrees, RetryView
<1>3. Exclusive'
  BY DisjointRequests DEF DeleteLog, Exclusive, HoldsLog, HoldsInv, LogFree, InvFree
<1>4. PostView'
  BY DisjointRequests DEF DeleteLog, PostView
<1>5. RetryView'
  BY DisjointRequests DEF DeleteLog, RetryView, LogAgrees
<1> QED
  BY <1>1, <1>2, <1>3, <1>4, <1>5 DEF ServerIInv

\* ReadInvoice establishes the request's view of the invoice.
LEMMA ReadKeeps ==
  ASSUME ServerIInv, ServerTypeOK', NEW r \in Requests, ReadInvoice(r)
  PROVE  ServerIInv'
<1> USE DEF ServerIInv, ServerTypeOK, LogStatus, InvStatus, Requests, Goto, Answer, committed
<1>1. ChargedOnce' /\ LogAgrees'
  BY DisjointRequests DEF ReadInvoice, ChargedOnce, LogAgrees
<1>2. HonestReply'
  BY DisjointRequests DEF ReadInvoice, HonestReply, LogAgrees, RetryView
<1>3. Exclusive'
  BY DisjointRequests DEF ReadInvoice, Exclusive, HoldsLog, HoldsInv, LogFree, InvFree
<1>4. PostView'
  BY DisjointRequests DEF ReadInvoice, PostView
<1>5. RetryView'
  BY DisjointRequests DEF ReadInvoice, RetryView, LogAgrees
<1> QED
  BY <1>1, <1>2, <1>3, <1>4, <1>5 DEF ServerIInv

\* WriteInvoice takes the invoice only if nobody else holds it.
LEMMA WriteKeeps ==
  ASSUME ServerIInv, ServerTypeOK', NEW r \in Requests, WriteInvoice(r)
  PROVE  ServerIInv'
<1> USE DEF ServerIInv, ServerTypeOK, LogStatus, InvStatus, Requests, Goto, Answer, committed
<1>1. ChargedOnce' /\ LogAgrees'
  BY DisjointRequests DEF WriteInvoice, CreateFails, Unique, ChargedOnce, LogAgrees
<1>2. HonestReply'
  BY DisjointRequests DEF WriteInvoice, CreateFails, Unique, HonestReply, LogAgrees, RetryView
<1>3. Exclusive'
  BY DisjointRequests DEF WriteInvoice, CreateFails, Unique, Exclusive, HoldsLog, HoldsInv, LogFree, InvFree
<1>4. PostView'
  BY DisjointRequests DEF WriteInvoice, CreateFails, Unique, PostView
<1>5. RetryView'
  BY DisjointRequests DEF WriteInvoice, CreateFails, Unique, RetryView, LogAgrees
<1> QED
  BY <1>1, <1>2, <1>3, <1>4, <1>5 DEF ServerIInv

\* MarkLog lets a retry through only if its row was not replaced.
LEMMA MarkKeeps ==
  ASSUME ServerIInv, ServerTypeOK', NEW r \in Requests, MarkLog(r)
  PROVE  ServerIInv'
<1> USE DEF ServerIInv, ServerTypeOK, LogStatus, InvStatus, Requests, Goto, Answer, committed
<1>1. ChargedOnce' /\ LogAgrees'
  BY DisjointRequests DEF MarkLog, Enqueue, ChargedOnce, LogAgrees
<1>2. HonestReply'
  BY DisjointRequests DEF MarkLog, Enqueue, HonestReply, LogAgrees, RetryView
<1>3. Exclusive'
  BY DisjointRequests DEF MarkLog, Enqueue, Exclusive, HoldsLog, HoldsInv, LogFree, InvFree
<1>4. PostView'
  BY DisjointRequests DEF MarkLog, Enqueue, PostView
<1>5. RetryView'
  BY DisjointRequests DEF MarkLog, Enqueue, RetryView, LogAgrees
<1> QED
  BY <1>1, <1>2, <1>3, <1>4, <1>5 DEF ServerIInv

\* A POST commits what its view of the invoice allows, and overtakes retries.
LEMMA CommitPKeeps ==
  ASSUME ServerIInv, ServerTypeOK', NEW r \in Requests, CommitPost(r)
  PROVE  ServerIInv'
<1> USE DEF ServerIInv, ServerTypeOK, LogStatus, InvStatus, Requests, Goto, Answer, committed
<1>1. \A q \in Requests \ {r} : sale[q] = sale[r] => ~ HoldsLog(q)
  BY DEF CommitPost, Exclusive, HoldsLog
<1>2. /\ HoldsInv(r) <=> seen[r] \in {"none", "held"}
      /\ seen[r] = "charged" <=> inv[sale[r]] = "charged"
  BY DEF CommitPost, HoldsInv, PostView
<1>3. /\ inv' = [inv EXCEPT ![sale[r]] = IF seen[r] = "failed" THEN @ ELSE "charged"]
      /\ applied' = [applied EXCEPT ![sale[r]] = IF seen[r] = "failed" THEN 0 ELSE 1]
  <2>1. Effects(r) /\ sale[r] \in Sales
    BY DEF CommitPost
  <2>2. CASE HoldsInv(r)
    <3>1. seen[r] # "failed" /\ applied[sale[r]] = 0
      BY <1>2, <2>1, <2>2 DEF ChargedOnce
    <3> QED
      BY <2>1, <2>2, <3>1 DEF Effects
  <2>3. CASE ~ HoldsInv(r)
    <3>1. inv' = inv /\ applied' = applied
      BY <2>1, <2>3 DEF Effects
    <3>2. IF seen[r] = "failed" THEN applied[sale[r]] = 0
                                ELSE applied[sale[r]] = 1 /\ inv[sale[r]] = "charged"
      BY <1>2, <2>1, <2>3 DEF ChargedOnce
    <3> QED
      BY <2>1, <3>1, <3>2
  <2> QED
    BY <2>2, <2>3
<1>4. /\ log' = [log EXCEPT ![sale[r]] = IF seen[r] = "failed" THEN "failed" ELSE "processed"]
      /\ pc' = [pc EXCEPT ![r] = "done"]
      /\ reply' = [reply EXCEPT ![r] = IF seen[r] = "failed" THEN "rejected" ELSE "ok"]
      /\ stale' = [q \in Requests |-> IF q \in Overtaken(r) THEN TRUE ELSE stale[q]]
      /\ sale' = sale /\ seen' = seen /\ r \in Posts
  BY DEF CommitPost
<1>5. ChargedOnce' /\ LogAgrees'
  BY <1>2, <1>3, <1>4 DEF ChargedOnce, LogAgrees
<1>6. HonestReply'
  BY <1>3, <1>4 DEF HonestReply
<1>7. Exclusive'
  BY <1>4 DEF Exclusive, HoldsLog, HoldsInv
<1>8. PostView'
  BY <1>1, <1>3, <1>4 DEF PostView, HoldsLog
<1>9. RetryView'
  BY <1>1, <1>3, <1>4, DisjointRequests DEF RetryView, LogAgrees, HoldsLog, Overtaken
<1> QED
  BY <1>5, <1>6, <1>7, <1>8, <1>9 DEF ServerIInv

\* The only retry there is commits on a sale that is not yet charged.
LEMMA CommitRKeeps ==
  ASSUME ServerIInv, ServerTypeOK', NEW r \in Requests, CommitRetry(r), SingleRetry
  PROVE  ServerIInv'
<1> USE DEF ServerIInv, ServerTypeOK, LogStatus, InvStatus, Requests, Goto, Answer, committed
<1>1. \A q \in Requests \ {r} : sale[q] = sale[r] => ~ HoldsLog(q)
  BY DEF CommitRetry, Exclusive, HoldsLog
<1>2. log[sale[r]] = "failed" /\ inv[sale[r]] # "charged" /\ HoldsInv(r)
  BY DEF CommitRetry, RetryView, LogAgrees, HoldsInv
<1>3. /\ inv' = [inv EXCEPT ![sale[r]] = "charged"]
      /\ applied' = [applied EXCEPT ![sale[r]] = 1]
  <2>1. Effects(r) /\ sale[r] \in Sales /\ applied[sale[r]] = 0
    BY <1>2 DEF CommitRetry, ChargedOnce
  <2> QED
    BY <1>2, <2>1 DEF Effects
<1>4. /\ log' = [log EXCEPT ![sale[r]] = "processed"]
      /\ pc' = [pc EXCEPT ![r] = "free"]
      /\ sale' = sale /\ seen' = seen /\ stale' = stale /\ reply' = reply /\ r \in Retries
  BY DEF CommitRetry
<1>5. ChargedOnce' /\ LogAgrees'
  BY <1>3, <1>4 DEF ChargedOnce, LogAgrees
<1>6. HonestReply'
  BY <1>3, <1>4 DEF HonestReply
<1>7. Exclusive'
  BY <1>4 DEF Exclusive, HoldsLog, HoldsInv
<1>8. PostView'
  BY <1>1, <1>3, <1>4, DisjointRequests DEF PostView, HoldsLog
<1>9. RetryView'
  BY <1>3, <1>4 DEF RetryView, SingleRetry
<1> QED
  BY <1>5, <1>6, <1>7, <1>8, <1>9 DEF ServerIInv

\* A rolled-back request leaves no trace.
LEMMA AbortKeeps ==
  ASSUME ServerIInv, ServerTypeOK', NEW r \in Requests, Abort(r)
  PROVE  ServerIInv'
<1> USE DEF ServerIInv, ServerTypeOK, LogStatus, InvStatus, Requests, Goto, Answer, committed
<1>1. ChargedOnce' /\ LogAgrees'
  BY DisjointRequests DEF Abort, ChargedOnce, LogAgrees
<1>2. HonestReply'
  BY DisjointRequests DEF Abort, HonestReply, LogAgrees, RetryView
<1>3. Exclusive'
  BY DisjointRequests DEF Abort, Exclusive, HoldsLog, HoldsInv, LogFree, InvFree
<1>4. PostView'
  BY DisjointRequests DEF Abort, PostView
<1>5. RetryView'
  BY DisjointRequests DEF Abort, RetryView, LogAgrees
<1> QED
  BY <1>1, <1>2, <1>3, <1>4, <1>5 DEF ServerIInv

\* Nobody reads the answer any more.
LEMMA ReleaseKeeps ==
  ASSUME ServerIInv, ServerTypeOK', NEW r \in Posts, Release(r)
  PROVE  ServerIInv'
<1> USE DEF ServerIInv, ServerTypeOK, LogStatus, InvStatus, Requests, Goto, Answer, committed
<1>1. ChargedOnce' /\ LogAgrees'
  BY DisjointRequests DEF Release, ChargedOnce, LogAgrees
<1>2. HonestReply'
  BY DisjointRequests DEF Release, HonestReply, LogAgrees, RetryView
<1>3. Exclusive'
  BY DisjointRequests DEF Release, Exclusive, HoldsLog, HoldsInv, LogFree, InvFree
<1>4. PostView'
  BY DisjointRequests DEF Release, PostView
<1>5. RetryView'
  BY DisjointRequests DEF Release, RetryView, LogAgrees
<1> QED
  BY <1>1, <1>2, <1>3, <1>4, <1>5 DEF ServerIInv

\* A new POST holds nothing yet.
LEMMA PostKeeps ==
  ASSUME ServerIInv, ServerTypeOK', NEW r \in Posts, NEW u \in Sales, StartPost(r, u)
  PROVE  ServerIInv'
<1> USE DEF ServerIInv, ServerTypeOK, LogStatus, InvStatus, Requests, Goto, Answer, committed
<1>1. ChargedOnce' /\ LogAgrees'
  BY DisjointRequests DEF StartPost, ChargedOnce, LogAgrees
<1>2. HonestReply'
  BY DisjointRequests DEF StartPost, HonestReply, LogAgrees, RetryView
<1>3. Exclusive'
  BY DisjointRequests DEF StartPost, Exclusive, HoldsLog, HoldsInv, LogFree, InvFree
<1>4. PostView'
  BY DisjointRequests DEF StartPost, PostView
<1>5. RetryView'
  BY DisjointRequests DEF StartPost, RetryView, LogAgrees
<1> QED
  BY <1>1, <1>2, <1>3, <1>4, <1>5 DEF ServerIInv

\* A new retry starts from a failed row.
LEMMA RetryKeeps ==
  ASSUME ServerIInv, ServerTypeOK', NEW r \in Retries, NEW u \in Sales, StartRetry(r, u)
  PROVE  ServerIInv'
<1> USE DEF ServerIInv, ServerTypeOK, LogStatus, InvStatus, Requests, Goto, Answer, committed
<1>1. ChargedOnce' /\ LogAgrees'
  BY DisjointRequests DEF StartRetry, ChargedOnce, LogAgrees
<1>2. HonestReply'
  BY DisjointRequests DEF StartRetry, HonestReply, LogAgrees, RetryView
<1>3. Exclusive'
  BY DisjointRequests DEF StartRetry, Exclusive, HoldsLog, HoldsInv, LogFree, InvFree
<1>4. PostView'
  BY DisjointRequests DEF StartRetry, PostView
<1>5. RetryView'
  BY DisjointRequests DEF StartRetry, RetryView, LogAgrees
<1> QED
  BY <1>1, <1>2, <1>3, <1>4, <1>5 DEF ServerIInv

\* The victim of a deadlock gives up what it held.
LEMMA DeadlockKeeps ==
  ASSUME ServerIInv, ServerTypeOK', NEW p \in Posts, NEW q \in Retries, BreakDeadlock(p, q)
  PROVE  ServerIInv'
<1> USE DEF ServerIInv, ServerTypeOK, LogStatus, InvStatus, Requests, Goto, Answer, committed
<1>1. ChargedOnce' /\ LogAgrees'
  BY DisjointRequests DEF BreakDeadlock, Deadlocked, CreateFails, ChargedOnce, LogAgrees
<1>2. HonestReply'
  BY DisjointRequests DEF BreakDeadlock, Deadlocked, CreateFails, HonestReply, LogAgrees, RetryView
<1>3. Exclusive'
  BY DisjointRequests DEF BreakDeadlock, Deadlocked, CreateFails, Exclusive, HoldsLog, HoldsInv, LogFree, InvFree
<1>4. PostView'
  BY DisjointRequests DEF BreakDeadlock, Deadlocked, CreateFails, PostView
<1>5. RetryView'
  BY DisjointRequests DEF BreakDeadlock, Deadlocked, CreateFails, RetryView, LogAgrees
<1> QED
  BY <1>1, <1>2, <1>3, <1>4, <1>5 DEF ServerIInv

\* A fired order, a repaired catalog and an FBR task charge no sale.
LEMMA OthersKeeps ==
  ASSUME ServerIInv, ServerTypeOK', NEW u \in Sales, FireOrder(u) \/ FixCatalog(u) \/ RunFbrTask(u)
  PROVE  ServerIInv'
<1> USE DEF ServerIInv, ServerTypeOK, LogStatus, InvStatus, Requests, Goto, Answer, committed
<1>1. ChargedOnce' /\ LogAgrees'
  BY DisjointRequests DEF FireOrder, FixCatalog, RunFbrTask, ChargedOnce, LogAgrees
<1>2. HonestReply'
  BY DisjointRequests DEF FireOrder, FixCatalog, RunFbrTask, HonestReply, LogAgrees, RetryView
<1>3. Exclusive'
  BY DisjointRequests DEF FireOrder, FixCatalog, RunFbrTask, Exclusive, HoldsLog, HoldsInv, LogFree, InvFree
<1>4. PostView'
  BY DisjointRequests DEF FireOrder, FixCatalog, RunFbrTask, PostView
<1>5. RetryView'
  BY DisjointRequests DEF FireOrder, FixCatalog, RunFbrTask, RetryView, LogAgrees
<1> QED
  BY <1>1, <1>2, <1>3, <1>4, <1>5 DEF ServerIInv

LEMMA ServerStarts == ServerInit => ServerIInv
BY DEF ServerInit, ServerIInv, ServerTypeOK, ChargedOnce, LogAgrees, HonestReply, Exclusive, PostView, RetryView,
       HoldsLog, HoldsInv, LogStatus, InvStatus, Requests

LEMMA ServerKeeps ==
  ASSUME SingleRetry, ServerIInv, ServerTypeOK', [ServerNext]_server
  PROVE  ServerIInv'
<1>1. CASE UNCHANGED server
  BY <1>1 DEF server, ServerIInv, ServerTypeOK, ChargedOnce, LogAgrees, HonestReply, Exclusive, PostView, RetryView,
              HoldsLog, HoldsInv
<1>2. CASE ServerNext
  BY <1>2, InsertKeeps, ConflictKeeps, DeleteKeeps, ReadKeeps, WriteKeeps, MarkKeeps, CommitPKeeps,
     CommitRKeeps, AbortKeeps, ReleaseKeeps, PostKeeps, RetryKeeps, DeadlockKeeps, OthersKeeps
     DEF ServerNext, Step
<1> QED
  BY <1>1, <1>2

\* If at most one admin retry runs at a time, then however POSTs, replays and
\* that retry interleave, every sale is charged at most once, the sync log
\* agrees with the invoice and a 2xx is only given for a recorded sale.
THEOREM IngestOnce ==
  ASSUME SingleRetry
  PROVE  ServerSpec => [](ChargedOnce /\ LogAgrees /\ HonestReply)
<1>1. ServerInit => ServerIInv
  BY ServerStarts
<1>2. ServerIInv /\ ServerTypeOK' /\ [ServerNext]_server => ServerIInv'
  BY ServerKeeps, SingleRetry
<1>3. ServerIInv => ChargedOnce /\ LogAgrees /\ HonestReply
  BY DEF ServerIInv
<1> QED
  BY <1>1, <1>2, <1>3, ServerTypeCorrect, PTL DEF ServerSpec

\* With at most one admin retry at a time, the sync log never reports a sale as
\* processed that is not charged, nor as failed one that is.
THEOREM LogIsTrue ==
  ASSUME SingleRetry
  PROVE  ServerSpec => []LogAgrees
BY IngestOnce, PTL

\* With at most one admin retry at a time, a till is only told 2xx about a sale
\* whose charge is committed: it may then forget the sale.
THEOREM AnswersAreHonest ==
  ASSUME SingleRetry
  PROVE  ServerSpec => []HonestReply
BY IngestOnce, PTL

-----------------------------------------------------------------------------
(* The two together.                                                       *)

\* Every step of the composition is a step of the till, or none of its own.
LEMMA TillSide == [Next]_vars => [TillNext]_till
<1> SUFFICES ASSUME Next PROVE [TillNext]_till
  BY DEF vars
<1>1. CASE TillStep
  BY <1>1 DEF TillStep, TillNext, Cashier
<1>2. ASSUME NEW u \in Sales, CompleteSale(u) PROVE TillNext
  BY <1>2 DEF CompleteSale, TillNext, Cashier
<1>3. ASSUME NEW x \in Rows, SendServed(x) \/ SendLost(x) \/ SendDenied(x) \/ SendUnknown(x)
      PROVE  TillNext
  BY <1>3 DEF SendServed, SendLost, SendDenied, SendUnknown, Send, TillNext
<1>4. CASE Receive \/ Timeout \/ Denied \/ Poisoned
  BY <1>4 DEF Receive, Timeout, Denied, Poisoned, TillNext, Answered
<1>5. CASE TillCrashes \/ TokenExpires
  BY <1>5 DEF TillCrashes, TokenExpires, TillNext
<1>6. CASE ServerStep \/ ServerFault
  BY <1>6 DEF ServerStep, ServerFault
<1> QED
  BY <1>1, <1>2, <1>3, <1>4, <1>5, <1>6 DEF Next

\* Every step of the composition is a step of the server, or none of its own.
LEMMA ServerSide ==
  ASSUME WorkersPost
  PROVE  [Next]_vars => [ServerNext]_server
<1> SUFFICES ASSUME Next PROVE [ServerNext]_server
  BY DEF vars
<1>1. CASE TillStep
  BY <1>1 DEF TillStep
<1>2. ASSUME NEW u \in Sales, CompleteSale(u) PROVE [ServerNext]_server
  BY <1>2 DEF CompleteSale, ServerNext
<1>3. ASSUME NEW x \in Rows, SendServed(x) \/ SendLost(x) \/ SendDenied(x) \/ SendUnknown(x)
      PROVE  [ServerNext]_server
  BY <1>3 DEF SendServed, SendLost, SendDenied, SendUnknown, ServerNext
<1>4. CASE Receive
  BY <1>4 DEF Receive, WorkersPost, ServerNext
<1>5. CASE Timeout \/ Denied \/ Poisoned \/ TillCrashes \/ TokenExpires
  BY <1>5 DEF Timeout, Denied, Poisoned, TillCrashes, TokenExpires
<1>6. CASE ServerStep \/ ServerFault
  BY <1>6 DEF ServerStep, ServerFault, ServerNext, Requests
<1> QED
  BY <1>1, <1>2, <1>3, <1>4, <1>5, <1>6 DEF Next

\* The till charges sales and takes no charge back; it queues charged sales only.
LEMMA TillCharges ==
  ASSUME TillIInv, [TillNext]_till
  PROVE  /\ \A u \in Sales : local[u] = "charged" => local'[u] = "charged"
         /\ \A u \in Sales : queue'[u] # "none" => queue[u] # "none" \/ local'[u] = "charged"
<1> USE OutboxAssumption DEF TillIInv, TillTypeOK, Rows
<1>1. CASE UNCHANGED till
  BY <1>1 DEF till, disk
<1>2. CASE Cashier
  BY <1>2 DEF Cashier, Hold, Recall, Charge, OpenDay, Insert, RetryRow, RetryFailed, Requeue, Login
<1>3. CASE Launch \/ StartWorker \/ Crash
  BY <1>3 DEF Launch, Absent, StartWorker, Rescued, Crash, disk
<1>4. CASE HtmlError \/ Unauthorized \/ Expire \/ Expedite
  BY <1>4 DEF HtmlError, Unauthorized, disk, Expire, Expedite, Requeue
<1>5. CASE \E x \in Rows : Pick(x) \/ TimePasses(x)
  BY <1>5 DEF Pick, Ready, TimePasses
<1>6. CASE Acked \/ NetworkFails \/ Rejected \/ ServerError \/ Refresh
  <2>1. local' = local /\ row \in Rows /\ queue[row] # "none"
    BY <1>6 DEF Acked, NetworkFails, Rejected, ServerError, Refresh, RowInHand
  <2>2. \E s \in {"pending", "ok", "failed"} : queue' = [queue EXCEPT ![row] = s]
    BY <1>6 DEF Acked, NetworkFails, Rejected, ServerError, Refresh, PermanentFailure, Settle
  <2> QED
    BY <2>1, <2>2
<1> QED
  BY <1>1, <1>2, <1>3, <1>4, <1>5, <1>6 DEF TillNext, Answered

\* Once accepted, a request keeps its sale, and it logs no other.
LEMMA ServerWorks ==
  ASSUME ServerIInv, ServerStep \/ \E r \in Requests : Abort(r)
  PROVE  /\ sale' = sale
         /\ \A r \in Requests : pc'[r] # "free" => pc[r] # "free"
         /\ \A u \in Sales : log'[u] # log[u] => \E r \in Requests : pc[r] # "free" /\ sale[r] = u
<1> USE DEF ServerIInv, ServerTypeOK, Requests, Goto, Answer, committed
<1>1. ASSUME NEW r \in Requests, InsertLog(r) \/ ReadConflict(r) \/ DeleteLog(r)
      PROVE  /\ sale' = sale /\ log' = log
             /\ \A q \in Requests : pc'[q] # "free" => pc[q] # "free"
  BY <1>1 DEF InsertLog, ReadConflict, DeleteLog
<1>2. ASSUME NEW r \in Requests, ReadInvoice(r) \/ WriteInvoice(r) \/ MarkLog(r)
      PROVE  /\ sale' = sale /\ log' = log
             /\ \A q \in Requests : pc'[q] # "free" => pc[q] # "free"
  BY <1>2 DEF ReadInvoice, WriteInvoice, CreateFails, MarkLog
<1>3. ASSUME NEW r \in Requests, CommitPost(r) \/ CommitRetry(r)
      PROVE  /\ sale' = sale /\ pc[r] # "free"
             /\ \A q \in Requests : pc'[q] # "free" => pc[q] # "free"
             /\ \A u \in Sales : log'[u] # log[u] => sale[r] = u
  BY <1>3 DEF CommitPost, CommitRetry
<1>4. ASSUME NEW r \in Requests, Abort(r) \/ Release(r)
      PROVE  /\ sale' = sale /\ log' = log
             /\ \A q \in Requests : pc'[q] # "free" => pc[q] # "free"
  BY <1>4 DEF Abort, Release
<1>5. ASSUME NEW p \in Posts, NEW q \in Retries, BreakDeadlock(p, q)
      PROVE  /\ sale' = sale /\ log' = log
             /\ \A r \in Requests : pc'[r] # "free" => pc[r] # "free"
  BY <1>5 DEF BreakDeadlock, Deadlocked, CreateFails
<1>6. ASSUME NEW u \in Sales, FireOrder(u) \/ FixCatalog(u) \/ RunFbrTask(u)
      PROVE  sale' = sale /\ log' = log /\ pc' = pc
  BY <1>6 DEF FireOrder, FixCatalog, RunFbrTask
<1> QED
  BY <1>1, <1>2, <1>3, <1>4, <1>5, <1>6 DEF ServerStep, Step

\* A request is opened for one sale and changes nothing else.
LEMMA Opens ==
  ASSUME ServerIInv, NEW r \in Requests, NEW u \in Sales, StartPost(r, u) \/ StartRetry(r, u)
  PROVE  /\ log' = log /\ applied' = applied /\ inv' = inv
         /\ sale' = [sale EXCEPT ![r] = u]
         /\ \E l \in {"insert", "read"} : pc' = [pc EXCEPT ![r] = l]
BY DEF StartPost, StartRetry, Goto, committed

\* What is queued, POSTed or logged was charged before, at the till.
LEMMA OnlyChargedKept ==
  ASSUME IInv, ServerTypeOK', [Next]_vars
  PROVE  OnlyCharged'
<1>1. [TillNext]_till
  BY TillSide
<1>2. \A u \in Sales : local[u] = "charged" => local'[u] = "charged"
  BY <1>1, TillCharges DEF IInv
<1>3. \A u \in Sales : queue'[u] # "none" => local'[u] = "charged"
  BY <1>1, <1>2, TillCharges DEF IInv, OnlyCharged
<1>4. SUFFICES /\ \A u \in Sales : log'[u] # "none" => local'[u] = "charged"
               /\ \A r \in Requests : pc'[r] # "free" => local'[sale'[r]] = "charged"
  BY <1>3 DEF OnlyCharged
<1> USE DEF IInv, OnlyCharged
<1>5. ASSUME ServerStep \/ \E r \in Requests : Abort(r)
      PROVE  /\ \A u \in Sales : log'[u] # "none" => local'[u] = "charged"
             /\ \A r \in Requests : pc'[r] # "free" => local'[sale'[r]] = "charged"
  BY <1>2, <1>5, ServerWorks DEF ServerIInv, ServerTypeOK
<1>6. ASSUME NEW r \in Requests, NEW u \in Sales, local'[u] = "charged",
             StartPost(r, u) \/ StartRetry(r, u)
      PROVE  /\ \A v \in Sales : log'[v] # "none" => local'[v] = "charged"
             /\ \A q \in Requests : pc'[q] # "free" => local'[sale'[q]] = "charged"
  BY <1>2, <1>6, Opens DEF ServerIInv, ServerTypeOK
<1>7. ASSUME UNCHANGED server
      PROVE  /\ \A u \in Sales : log'[u] # "none" => local'[u] = "charged"
             /\ \A r \in Requests : pc'[r] # "free" => local'[sale'[r]] = "charged"
  BY <1>2, <1>7 DEF server, ServerIInv, ServerTypeOK
<1>8. CASE UNCHANGED vars \/ TillStep \/ Timeout \/ Denied \/ Poisoned \/ TillCrashes \/ TokenExpires
  BY <1>7, <1>8 DEF vars, TillStep, Timeout, Denied, Poisoned, TillCrashes, TokenExpires
<1>9. ASSUME NEW u \in Sales, CompleteSale(u)
      PROVE  /\ \A v \in Sales : log'[v] # "none" => local'[v] = "charged"
             /\ \A r \in Requests : pc'[r] # "free" => local'[sale'[r]] = "charged"
  <2>1. local'[u] = "charged"
    BY <1>9 DEF CompleteSale, Charge, TillIInv, TillTypeOK
  <2> QED
    BY <1>6, <1>7, <1>9, <2>1 DEF CompleteSale, Requests
<1>10. ASSUME NEW x \in Rows, SendServed(x) \/ SendLost(x) \/ SendDenied(x) \/ SendUnknown(x)
      PROVE  /\ \A u \in Sales : log'[u] # "none" => local'[u] = "charged"
             /\ \A r \in Requests : pc'[r] # "free" => local'[sale'[r]] = "charged"
  <2>1. CASE SendServed(x)
    <3>1. x \in Sales /\ queue[x] = "pending"
      BY <2>1 DEF SendServed, Send, Pick, Ready
    <3>2. local'[x] = "charged"
      BY <3>1, <1>2
    <3> QED
      BY <1>6, <2>1, <3>1, <3>2 DEF SendServed, Requests
  <2>2. CASE ~ SendServed(x)
    BY <1>7, <1>10, <2>2 DEF SendLost, SendDenied, SendUnknown
  <2> QED
    BY <2>1, <2>2
<1>11. CASE Receive
  <2>1. PICK r \in Posts : Release(r)
    BY <1>11 DEF Receive, WorkersPost
  <2>2. log' = log /\ sale' = sale /\ \A q \in Requests : pc'[q] # "free" => pc[q] # "free"
    BY <2>1 DEF Release, Goto, committed, ServerIInv, ServerTypeOK, Requests
  <2> QED
    BY <1>2, <2>2 DEF ServerIInv, ServerTypeOK
<1>12. CASE ServerFault
  <2>1. ASSUME NEW r \in Retries, NEW u \in Sales, StartRetry(r, u)
        PROVE  local'[u] = "charged"
    BY <1>2, <2>1 DEF StartRetry
  <2> QED
    BY <1>5, <1>6, <1>12, <2>1 DEF ServerFault, Requests
<1> QED
  BY <1>5, <1>8, <1>9, <1>10, <1>11, <1>12 DEF Next

\* While the worker waits for an answer, nothing at the till takes its row away.
LEMMA WorkerWaits ==
  ASSUME worker = "posting", TillStep \/ TokenExpires
  PROVE  worker' = worker /\ row' = row
BY DEF TillStep, TokenExpires, Hold, Recall, OpenDay, RetryRow, TimePasses, RetryFailed, Login,
       Launch, StartWorker, Refresh, Expedite, Expire

\* The server frees the slot of a POST only when nobody waits for its answer.
LEMMA PostStays ==
  ASSUME ServerIInv, NEW p \in Posts, p = conn, pc[p] # "free", ServerStep \/ ServerFault
  PROVE  pc'[p] # "free" /\ sale'[p] = sale[p]
<1> USE DisjointRequests DEF ServerIInv, ServerTypeOK, Requests, Goto, Answer
<1>1. ASSUME NEW r \in Requests, Step(r) \/ Abort(r)
      PROVE  pc'[p] # "free" /\ sale'[p] = sale[p]
  <2>1. CASE InsertLog(r) \/ ReadConflict(r) \/ DeleteLog(r)
    BY <2>1 DEF InsertLog, ReadConflict, DeleteLog
  <2>2. CASE ReadInvoice(r) \/ WriteInvoice(r) \/ MarkLog(r)
    BY <2>2 DEF ReadInvoice, WriteInvoice, CreateFails, MarkLog
  <2>3. CASE CommitPost(r) \/ CommitRetry(r) \/ Abort(r)
    BY <2>3 DEF CommitPost, CommitRetry, Abort
  <2> QED
    BY <1>1, <2>1, <2>2, <2>3 DEF Step
<1>2. ASSUME NEW r \in Posts, r # conn, Release(r)
      PROVE  pc'[p] # "free" /\ sale'[p] = sale[p]
  BY <1>2 DEF Release
<1>3. ASSUME NEW s \in Posts, NEW q \in Retries, BreakDeadlock(s, q)
      PROVE  pc'[p] # "free" /\ sale'[p] = sale[p]
  BY <1>3 DEF BreakDeadlock, Deadlocked, CreateFails
<1>4. ASSUME NEW u \in Sales, FireOrder(u) \/ FixCatalog(u) \/ RunFbrTask(u)
      PROVE  pc'[p] # "free" /\ sale'[p] = sale[p]
  BY <1>4 DEF FireOrder, FixCatalog, RunFbrTask
<1>5. ASSUME NEW r \in Retries, NEW u \in Sales, StartRetry(r, u)
      PROVE  pc'[p] # "free" /\ sale'[p] = sale[p]
  BY <1>5 DEF StartRetry
<1> QED
  BY <1>1, <1>2, <1>3, <1>4, <1>5 DEF ServerStep, ServerFault

\* The worker's request carries its row until the answer, or the worker, is gone.
LEMMA WorkersPostKept ==
  ASSUME IInv, [Next]_vars
  PROVE  WorkersPost'
<1> USE DEF IInv, WorkersPost
<1>1. CASE UNCHANGED vars
  BY <1>1 DEF vars, till, server
<1>2. CASE TillStep \/ TokenExpires
  <2>1. UNCHANGED <<conn, fate, pc, sale>>
    BY <1>2 DEF TillStep, TokenExpires, server
  <2> QED
    BY <1>2, <2>1, WorkerWaits
<1>3. ASSUME NEW u \in Sales, CompleteSale(u) PROVE WorkersPost'
  <2>1. UNCHANGED <<conn, fate, worker, row>>
    BY <1>3 DEF CompleteSale, Charge
  <2>2. ASSUME NEW r \in Posts, StartPost(r, u), fate = "served"
        PROVE  pc'[conn] # "free" /\ sale'[conn] = sale[conn]
    BY <2>2 DEF StartPost, Goto, ServerIInv, ServerTypeOK, Requests
  <2> QED
    BY <1>3, <2>1, <2>2 DEF CompleteSale, server
<1>4. ASSUME NEW x \in Rows, SendServed(x) PROVE WorkersPost'
  BY <1>4 DEF SendServed, Send, Pick, StartPost, Goto, ServerIInv, ServerTypeOK, Requests
<1>5. CASE \E x \in Rows : SendLost(x) \/ SendDenied(x) \/ SendUnknown(x)
  BY <1>5 DEF SendLost, SendDenied, SendUnknown, Send
<1>6. CASE Receive \/ Timeout \/ Denied \/ Poisoned \/ TillCrashes
  BY <1>6 DEF Receive, Timeout, Denied, Poisoned, TillCrashes, Closed
<1>7. CASE ServerStep \/ ServerFault
  <2>1. UNCHANGED <<conn, fate, worker, row>>
    BY <1>7 DEF ServerStep, ServerFault, till
  <2> QED
    BY <1>7, <2>1, PostStays
<1> QED
  BY <1>1, <1>2, <1>3, <1>4, <1>5, <1>6, <1>7 DEF Next

\* A row is ticked off only by the answer that the worker was waiting for.
LEMMA TickedOff ==
  ASSUME TillIInv, [Next]_vars, NEW u \in Sales, queue'[u] = "ok", queue[u] # "ok"
  PROVE  Receive /\ reply[conn] = "ok" /\ row = u /\ worker = "posting"
<1> USE DEF TillIInv, TillTypeOK, Rows
<1>1. CASE UNCHANGED till
  BY <1>1 DEF till, disk
<1>2. CASE TillStep
  <2>1. ASSUME \E v \in Sales : Hold(v) \/ Recall(v)
        PROVE  \A x \in Rows : queue'[x] \in {queue[x], "pending"}
    BY <2>1 DEF Hold, Recall
  <2>2. ASSUME NEW y \in Rows, OpenDay(y) \/ RetryRow(y) \/ TimePasses(y)
        PROVE  \A x \in Rows : queue'[x] \in {queue[x], "pending"}
    BY <2>2 DEF OpenDay, Insert, RetryRow, TimePasses, Requeue
  <2>3. ASSUME RetryFailed \/ Login \/ Launch \/ StartWorker
        PROVE  \A x \in Rows : queue'[x] \in {queue[x], "pending"}
    BY <2>3 DEF RetryFailed, Requeue, Login, Launch, Absent, StartWorker, Rescued
  <2>4. ASSUME Refresh \/ Expedite
        PROVE  \A x \in Rows : queue'[x] \in {queue[x], "pending"}
    BY <2>4 DEF Refresh, Settle, Expedite, Requeue
  <2> QED
    BY <1>2, <2>1, <2>2, <2>3, <2>4 DEF TillStep
<1>3. ASSUME NEW v \in Sales, CompleteSale(v) PROVE FALSE
  BY <1>3 DEF CompleteSale, Charge, Insert
<1>4. ASSUME NEW x \in Rows, SendServed(x) \/ SendLost(x) \/ SendDenied(x) \/ SendUnknown(x)
      PROVE  FALSE
  BY <1>4 DEF SendServed, SendLost, SendDenied, SendUnknown, Send, Pick
<1>5. CASE Timeout \/ Denied \/ Poisoned \/ TillCrashes \/ TokenExpires
  BY <1>5 DEF Timeout, NetworkFails, Settle, Denied, Unauthorized, Poisoned, HtmlError, TillCrashes,
     Crash, disk, TokenExpires, Expire, RowInHand
<1>6. CASE Receive
  <2>1. CASE Rejected \/ ServerError
    BY <2>1 DEF Rejected, ServerError, PermanentFailure, Settle, RowInHand
  <2>2. CASE reply[conn] = "ok" /\ Acked
    BY <1>6, <2>2 DEF Acked, Settle, RowInHand
  <2> QED
    BY <1>6, <2>1, <2>2 DEF Receive
<1>7. CASE ServerStep \/ ServerFault
  BY <1>7, <1>1 DEF ServerStep, ServerFault
<1> QED
  BY <1>1, <1>2, <1>3, <1>4, <1>5, <1>6, <1>7 DEF Next, vars

\* The server enters a sale into its books at most once, for a request it has.
LEMMA Enters ==
  ASSUME ServerIInv, ServerIInv', [ServerNext]_server
  PROVE  \/ applied' = applied
         \/ \E r \in Requests : /\ pc[r] = "commit"
                                /\ CommitPost(r) \/ CommitRetry(r)
                                /\ applied[sale[r]] = 0
                                /\ applied' = [applied EXCEPT ![sale[r]] = 1]
<1> USE DEF ServerIInv, ServerTypeOK, Requests
<1>1. ASSUME NEW r \in Requests, CommitPost(r) \/ CommitRetry(r)
      PROVE  \/ applied' = applied
             \/ applied[sale[r]] = 0 /\ applied' = [applied EXCEPT ![sale[r]] = 1]
  <2>1. Effects(r) /\ sale[r] \in Sales
    BY <1>1 DEF CommitPost, CommitRetry
  <2>2. applied'[sale[r]] \in {0, 1} /\ applied[sale[r]] \in {0, 1}
    BY <2>1 DEF ChargedOnce
  <2>3. CASE HoldsInv(r)
    <3>1. applied' = [applied EXCEPT ![sale[r]] = applied[sale[r]] + 1]
      BY <2>1, <2>3 DEF Effects
    <3>2. applied[sale[r]] = 0
      BY <2>1, <2>2, <3>1
    <3> QED
      BY <3>1, <3>2
  <2>4. CASE ~ HoldsInv(r)
    BY <2>1, <2>4 DEF Effects
  <2> QED
    BY <2>3, <2>4
<1>2. ASSUME NEW r \in Requests, Step(r), ~ CommitPost(r), ~ CommitRetry(r)
      PROVE  applied' = applied
  BY <1>2 DEF Step, InsertLog, ReadConflict, DeleteLog, ReadInvoice, WriteInvoice, MarkLog, committed
<1>3. ASSUME NEW r \in Requests, Abort(r) \/ Release(r) \/ \E u \in Sales : StartPost(r, u) \/ StartRetry(r, u)
      PROVE  applied' = applied
  BY <1>3 DEF Abort, Release, StartPost, StartRetry, committed
<1>4. CASE \E p \in Posts, q \in Retries : BreakDeadlock(p, q)
  BY <1>4 DEF BreakDeadlock, committed
<1>5. CASE \E u \in Sales : FireOrder(u) \/ FixCatalog(u) \/ RunFbrTask(u)
  BY <1>5 DEF FireOrder, FixCatalog, RunFbrTask, committed
<1>6. CASE UNCHANGED server
  BY <1>6 DEF server
<1>7. CASE \E r \in Requests : Step(r) /\ (CommitPost(r) \/ CommitRetry(r))
  BY <1>1, <1>7 DEF CommitPost, CommitRetry
<1> QED
  BY <1>2, <1>3, <1>4, <1>5, <1>6, <1>7 DEF ServerNext

\* What the till has ticked off stays in the server's books.
LEMMA OkMeansRecordedKept ==
  ASSUME IInv, ServerIInv', [Next]_vars
  PROVE  OkMeansRecorded'
<1> SUFFICES ASSUME NEW u \in Sales, queue'[u] = "ok"
             PROVE  inv'[u] = "charged" /\ applied'[u] = 1 /\ log'[u] = "processed"
  BY DEF OkMeansRecorded
<1> USE DEF IInv, ServerIInv
<1>1. [ServerNext]_server
  BY ServerSide
<1>2. ASSUME applied'[u] = 1
      PROVE  inv'[u] = "charged" /\ log'[u] = "processed"
  BY <1>2 DEF ChargedOnce, LogAgrees
<1>3. CASE queue[u] = "ok"
  <2>1. applied[u] = 1
    BY <1>3 DEF OkMeansRecorded
  <2>2. applied'[u] = 1
    BY <1>1, <2>1, Enters DEF ServerTypeOK
  <2> QED
    BY <1>2, <2>2
<1>4. CASE queue[u] # "ok"
  <2>1. Receive /\ reply[conn] = "ok" /\ row = u
    BY <1>4, TickedOff
  <2>2. conn \in Posts /\ pc[conn] = "done" /\ sale[conn] = u
    BY <2>1 DEF Receive, WorkersPost
  <2>3. inv[u] = "charged"
    BY <2>1, <2>2 DEF HonestReply
  <2>4. applied' = applied
    BY <2>1 DEF Receive, Release, committed
  <2>5. applied'[u] = 1
    BY <2>3, <2>4 DEF ChargedOnce
  <2> QED
    BY <1>2, <2>5
<1> QED
  BY <1>3, <1>4

LEMMA InitIInv == Init => IInv
<1> SUFFICES ASSUME Init PROVE IInv
  OBVIOUS
<1>1. TillIInv /\ ServerIInv
  BY TillStarts, ServerStarts DEF Init
<1>2. OnlyCharged /\ OkMeansRecorded
  BY OutboxAssumption DEF Init, TillInit, ServerInit, OnlyCharged, OkMeansRecorded, Rows, Requests
<1>3. WorkersPost
  BY DEF Init, WorkersPost
<1> QED
  BY <1>1, <1>2, <1>3 DEF IInv

LEMMA NextIInv ==
  ASSUME SingleRetry, IInv, [Next]_vars
  PROVE  IInv'
<1>1. TillIInv'
  BY TillSide, TillKeeps DEF IInv
<1>2. [ServerNext]_server
  BY ServerSide DEF IInv
<1>3. ServerTypeOK'
  BY <1>2, ServerTypeKept DEF IInv, ServerIInv
<1>4. ServerIInv'
  BY <1>2, <1>3, ServerKeeps DEF IInv
<1> QED
  BY <1>1, <1>3, <1>4, OnlyChargedKept, WorkersPostKept, OkMeansRecordedKept DEF IInv

LEMMA DeliveryInvariant ==
  ASSUME SingleRetry
  PROVE  Spec => []IInv
<1>1. Init => IInv
  BY InitIInv
<1>2. IInv /\ [Next]_vars => IInv'
  BY NextIInv, SingleRetry
<1> QED
  BY <1>1, <1>2, PTL DEF Spec

\* A row that the worker has ticked off is a sale in the server's books, whatever
\* was lost, repeated, timed out or crashed on the way (one admin retry at a time).
THEOREM TickedOffIsRecorded ==
  ASSUME SingleRetry
  PROVE  Spec => []OkMeansRecorded
<1>1. IInv => OkMeansRecorded
  BY DEF IInv
<1> QED
  BY <1>1, DeliveryInvariant, SingleRetry, PTL

-----------------------------------------------------------------------------
(* The two together implement SaleLedger.                                  *)

\* Only "Complete sale" adds to the sales that are taken.
LEMMA Takes ==
  ASSUME TillIInv, [Next]_vars, ~ \E u \in Sales : CompleteSale(u)
  PROVE  {u \in Sales : local'[u] = "charged"} = {u \in Sales : local[u] = "charged"}
<1> USE DEF TillIInv, TillTypeOK
<1>1. ASSUME NEW v \in Sales, Hold(v) \/ Recall(v)
      PROVE  {u \in Sales : local'[u] = "charged"} = {u \in Sales : local[u] = "charged"}
  BY <1>1 DEF Hold, Recall
<1>2. CASE \/ \E x \in Rows : OpenDay(x) \/ RetryRow(x) \/ TimePasses(x)
           \/ RetryFailed \/ Login \/ Launch \/ StartWorker \/ Refresh \/ Expedite
  BY <1>2 DEF OpenDay, RetryRow, TimePasses, RetryFailed, Login, Launch, StartWorker, Refresh, Expedite
<1>3. CASE \/ \E x \in Rows : SendServed(x) \/ SendLost(x) \/ SendDenied(x) \/ SendUnknown(x)
           \/ TillCrashes \/ TokenExpires
  BY <1>3 DEF SendServed, SendLost, SendDenied, SendUnknown, Send, Pick, TillCrashes, Crash, disk,
     TokenExpires, Expire
<1>4. CASE Receive \/ Timeout \/ Denied \/ Poisoned
  BY <1>4 DEF Receive, Acked, Rejected, ServerError, Timeout, NetworkFails, Denied, Unauthorized,
     Poisoned, HtmlError, disk
<1>5. CASE ServerStep \/ ServerFault \/ UNCHANGED vars
  BY <1>5 DEF ServerStep, ServerFault, vars, till, disk
<1> QED
  BY <1>1, <1>2, <1>3, <1>4, <1>5 DEF Next, TillStep

\* The till takes a sale; the POST that goes out with it enters nothing yet.
LEMMA SellTakes ==
  ASSUME IInv, NEW u \in Sales, CompleteSale(u)
  PROVE  Ledger!Take(u)
<1> USE DEF IInv, TillIInv, TillTypeOK, Rows
<1>1. local[u] # "charged" /\ local' = [local EXCEPT ![u] = "charged"]
  BY DEF CompleteSale, Charge
<1>2. {v \in Sales : local'[v] = "charged"} = {v \in Sales : local[v] = "charged"} \cup {u}
  BY <1>1
<1>3. \A v \in Sales : queue'[v] = "ok" <=> queue[v] = "ok"
  BY DEF CompleteSale, Charge, Insert
<1>4. applied' = applied
  BY DEF CompleteSale, StartPost, committed, server
<1> QED
  BY <1>1, <1>2, <1>3, <1>4 DEF Ledger!Take

\* A commit on the server enters a sale that was taken, for the first time.
LEMMA CommitEnters ==
  ASSUME IInv, NEW r \in Requests, pc[r] = "commit",
         applied[sale[r]] = 0, applied' = [applied EXCEPT ![sale[r]] = 1], UNCHANGED till
  PROVE  Ledger!Enter(sale[r])
<1>1. sale[r] \in Sales /\ local[sale[r]] = "charged"
  BY DEF IInv, OnlyCharged, ServerIInv, ServerTypeOK
<1>2. local' = local /\ queue' = queue
  BY DEF till, disk
<1> QED
  BY <1>1, <1>2 DEF Ledger!Enter

\* The answer that the worker was waiting for settles the row in its hands, which
\* is in the server's books.
LEMMA AnswerSettles ==
  ASSUME IInv, Receive, NEW u \in Sales, queue'[u] = "ok", queue[u] # "ok"
  PROVE  Ledger!Settle(u)
<1> USE DEF IInv, TillIInv, ServerIInv, TillTypeOK, Rows
<1>1. reply[conn] = "ok" /\ row = u
  BY TickedOff DEF Next
<1>2. conn \in Posts /\ pc[conn] = "done" /\ sale[conn] = u
  BY <1>1 DEF Receive, WorkersPost
<1>3. applied[u] = 1
  BY <1>1, <1>2 DEF HonestReply, ChargedOnce
<1>4. Acked /\ applied' = applied
  BY <1>1 DEF Receive, Release, committed, Rejected, ServerError
<1>5. local' = local /\ queue' = [queue EXCEPT ![u] = "ok"]
  BY <1>1, <1>4 DEF Acked, Settle
<1>6. {v \in Sales : queue'[v] = "ok"} = {v \in Sales : queue[v] = "ok"} \cup {u}
  BY <1>5
<1> QED
  BY <1>3, <1>4, <1>5, <1>6 DEF Ledger!Settle

\* The steps of the link and of the till enter nothing into the server's books.
LEMMA OnlyServerEnters ==
  ASSUME [Next]_vars, ~ ServerStep, ~ ServerFault
  PROVE  applied' = applied
BY DEF Next, vars, server, TillStep, CompleteSale, SendServed, SendLost, SendDenied, SendUnknown,
       StartPost, committed, Receive, Release, Timeout, Denied, Poisoned, TillCrashes, TokenExpires

\* Initially nothing is entered and nothing settled.
LEMMA LedgerStarts == Init => Ledger!Init
<1> SUFFICES ASSUME Init PROVE Ledger!Init
  OBVIOUS
<1>1. applied = [u \in Sales |-> 0]
  BY DEF Init, ServerInit
<1>2. \A u \in Sales : queue[u] # "ok"
  BY DEF Init, TillInit, Rows
<1> QED
  BY <1>1, <1>2 DEF Ledger!Init

\* Every step of the till, the link or the server takes, enters or settles one
\* sale, or does none of it.
LEMMA LedgerSteps ==
  ASSUME SingleRetry, IInv, [Next]_vars
  PROVE  [Ledger!Next]_(Ledger!vars)
<1>1. IInv'
  BY NextIInv
<1>2. [TillNext]_till /\ [ServerNext]_server
  BY TillSide, ServerSide DEF IInv
<1>3. \/ applied' = applied
      \/ \E r \in Requests : /\ pc[r] = "commit" /\ (CommitPost(r) \/ CommitRetry(r))
                             /\ applied[sale[r]] = 0
                             /\ applied' = [applied EXCEPT ![sale[r]] = 1]
  BY <1>1, <1>2, Enters DEF IInv
<1> DEFINE SameTaken == {u \in Sales : local'[u] = "charged"} = {u \in Sales : local[u] = "charged"}
           SameSettled == {u \in Sales : queue'[u] = "ok"} = {u \in Sales : queue[u] = "ok"}
<1>4. ASSUME SameTaken, SameSettled, applied' = applied
      PROVE  UNCHANGED Ledger!vars
  BY <1>4 DEF Ledger!vars
<1>5. CASE \E u \in Sales : CompleteSale(u)
  BY <1>5, SellTakes DEF Ledger!Next
<1>6. CASE \E u \in Sales : Receive /\ queue'[u] = "ok" /\ queue[u] # "ok"
  BY <1>6, AnswerSettles DEF Ledger!Next
<1>7. CASE ServerStep \/ ServerFault
  <2>1. UNCHANGED till
    BY <1>7 DEF ServerStep, ServerFault
  <2>2. SameTaken /\ SameSettled
    BY <2>1 DEF till, disk
  <2>3. ASSUME NEW r \in Requests, pc[r] = "commit", applied[sale[r]] = 0,
               applied' = [applied EXCEPT ![sale[r]] = 1]
        PROVE  Ledger!Next
    <3>1. sale[r] \in Sales
      BY DEF IInv, ServerIInv, ServerTypeOK
    <3> QED
      BY <2>1, <2>3, <3>1, CommitEnters DEF Ledger!Next
  <2> QED
    BY <1>3, <1>4, <2>2, <2>3
<1>8. CASE /\ [Next]_vars /\ ~ ServerStep /\ ~ ServerFault
           /\ ~ \E u \in Sales : CompleteSale(u)
           /\ ~ \E u \in Sales : Receive /\ queue'[u] = "ok" /\ queue[u] # "ok"
  <2>1. SameTaken
    BY <1>8, Takes DEF IInv
  <2>2. SameSettled
    <3>1. ASSUME NEW u \in Sales, queue'[u] = "ok" PROVE queue[u] = "ok"
      BY <1>8, <3>1, TickedOff DEF IInv
    <3>2. ASSUME NEW u \in Sales, queue[u] = "ok" PROVE queue'[u] = "ok"
      BY <1>2, <3>2, AcksStay DEF IInv, Rows
    <3> QED
      BY <3>1, <3>2
  <2>3. applied' = applied
    BY <1>8, OnlyServerEnters
  <2> QED
    BY <1>4, <2>1, <2>2, <2>3
<1> QED
  BY <1>5, <1>6, <1>7, <1>8

\* A till and the server implement the ledger of sales: every sale is entered
\* once, after it was taken, and let go of only when it is entered, whatever is
\* lost, repeated, timed out or crashed (one admin retry at a time).
THEOREM DeliveryImplementsLedger ==
  ASSUME SingleRetry
  PROVE  Spec => LedgerSafety
<1>1. Init => Ledger!Init
  BY LedgerStarts
<1>2. IInv /\ [Next]_vars => [Ledger!Next]_(Ledger!vars)
  BY LedgerSteps, SingleRetry
<1> QED
  BY <1>1, <1>2, DeliveryInvariant, SingleRetry, PTL DEF Spec, LedgerSafety, Ledger!Safety

\* In the composition the till is the one of PosOutbox: what is proved of it
\* whatever the server answers holds of it here.
THEOREM TillIsPosOutbox == Spec => TillSpec
<1>1. Init => TillInit
  BY DEF Init
<1>2. [Next]_vars => [TillNext]_till
  BY TillSide
<1> QED
  BY <1>1, <1>2, PTL DEF Spec, TillSpec

\* In the composition the server is the one of SyncIngest: no POST of a till does
\* what SyncIngest does not foresee (one admin retry at a time).
THEOREM ServerIsSyncIngest ==
  ASSUME SingleRetry
  PROVE  Spec => ServerSpec
<1>1. Init => ServerInit
  BY DEF Init
<1>2. IInv /\ [Next]_vars => [ServerNext]_server
  BY ServerSide DEF IInv
<1> QED
  BY <1>1, <1>2, DeliveryInvariant, SingleRetry, PTL DEF Spec, ServerSpec
=============================================================================
