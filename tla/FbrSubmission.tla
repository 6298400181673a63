---------------------------- MODULE FbrSubmission ----------------------------
(***************************************************************************)
(* Fiscalization of an invoice with the tax authority (PRAL, on behalf of  *)
(* FBR or PRA) by its two writers: the Celery task submit_invoice_to_fbr   *)
(* (apps/fbr/tasks.py), and the till, which asks the fiscal device of its  *)
(* own branch and posts the number back (pos-terminal fiscalize.ts, the    *)
(* endpoints fiscal_payload and fiscal_result).  With them the hourly      *)
(* finalize_aged_invoices, the endpoints that queue a submission again,    *)
(* and those that delete or cancel an invoice meanwhile.                   *)
(*                                                                         *)
(* A task runs in autocommit: each save is visible at once, but the object *)
(* it works on is the one it loaded.  The authority is external: it issues *)
(* a new number for whatever it accepts, and its answer may be lost.       *)
(***************************************************************************)
EXTENDS Naturals, FiniteSets

CONSTANTS Invoices,
          Fiscal,       \* invoices of tenants connected to an authority
          Messages,     \* submission messages the broker can hold at once
          Requests,     \* delete and cancel requests the server can serve at once
          Tills,        \* tills with a fiscal device
          Workers,      \* processes of the Celery worker
          MaxRetries,   \* len(_BACKOFF_S)
          LongWait,     \* retries whose countdown outlasts the broker's visibility timeout
          MaxLost,      \* bound on the numbers lost per invoice
          MaxMet,       \* bound on the overlapping fiscalizations per invoice
          Dies          \* whether worker processes die

ASSUME FbrAssumption ==
    /\ Fiscal \subseteq Invoices
    /\ IsFiniteSet(Messages) /\ IsFiniteSet(Tills)
    /\ {Workers, MaxRetries, LongWait, MaxLost, MaxMet} \subseteq Nat
    /\ Dies \in BOOLEAN

VARIABLES
    status,     \* invoices.status
    number,     \* invoices.fbr_invoice_number, 0 if NULL
    deadline,   \* invoices.edit_deadline_at: "none", "open" or "past"
    deleted,    \* invoices with a deleted_at
    logged,     \* numbers in the append-only records of the invoice: fbr_submissions
                \* rows, and the audit entries fbr_validated_via_sdc
    active,     \* the token that owns the submissions is active
    task,       \* what has become of a message
    of,         \* the invoice it names
    tries,      \* request.retries
    got,        \* the number in the authority's answer to it
    req,        \* what a request is about to do to its invoice
    on,         \* that invoice
    till,       \* what a till is doing about its invoice
    sale,       \* that invoice
    gave,       \* the number its device has got
    issued,     \* authority: how many numbers it has issued for the invoice
    lost,       \* how many of them nobody lived to save
    met         \* history: how many fiscalizations of the invoice have begun
                \* while another one of it was running

vars == <<status, number, deadline, deleted, logged, active, task, of, tries, got,
          req, on, till, sale, gave, issued, lost, met>>

invoice == <<status, number, deadline, deleted, logged>>
celery == <<task, of, tries, got>>
admin == <<req, on>>
device == <<till, sale, gave>>
authority == <<issued, lost>>

Submittable == {"pending_sync", "submitted", "failed"}
Statuses == Submittable \cup {"none", "valid", "cancelled", "finalized"}
Steps == {"loaded", "posting", "accepted", "logged"}
TillSteps == {"asked", "issued", "checked"}

TypeOK ==
    /\ status \in [Invoices -> Statuses]
    /\ number \in [Invoices -> Nat]
    /\ deadline \in [Invoices -> {"none", "open", "past"}]
    /\ deleted \subseteq Invoices
    /\ logged \in [Invoices -> SUBSET Nat]
    /\ active \in BOOLEAN
    /\ task \in [Messages -> {"free", "queued"} \cup Steps]
    /\ of \in [Messages -> Invoices]
    /\ tries \in [Messages -> 0 .. MaxRetries]
    /\ got \in [Messages -> Nat]
    /\ req \in [Requests -> {"idle", "delete", "cancel", "portal"}]
    /\ on \in [Requests -> Invoices]
    /\ till \in [Tills -> {"idle"} \cup TillSteps]
    /\ sale \in [Tills -> Invoices]
    /\ gave \in [Tills -> Nat]
    /\ issued \in [Invoices -> Nat]
    /\ lost \in [Invoices -> 0 .. MaxLost]
    /\ met \in [Invoices -> 0 .. MaxMet]

Init ==
    /\ status = [i \in Invoices |-> "none"]
    /\ number = [i \in Invoices |-> 0]
    /\ deadline = [i \in Invoices |-> "none"]
    /\ deleted = {}
    /\ logged = [i \in Invoices |-> {}]
    /\ active \in BOOLEAN
    /\ task = [m \in Messages |-> "free"]
    /\ \E i \in Invoices : /\ of = [m \in Messages |-> i]
                           /\ on = [r \in Requests |-> i]
                           /\ sale = [t \in Tills |-> i]
    /\ tries = [m \in Messages |-> 0]
    /\ got = [m \in Messages |-> 0]
    /\ req = [r \in Requests |-> "idle"]
    /\ till = [t \in Tills |-> "idle"]
    /\ gave = [t \in Tills |-> 0]
    /\ issued = [i \in Invoices |-> 0]
    /\ lost = [i \in Invoices |-> 0]
    /\ met = [i \in Invoices |-> 0]

Become(i, s) == status' = [status EXCEPT ![i] = s]
Goto(m, t) == task' = [task EXCEPT ![m] = t]

-----------------------------------------------------------------------------
(* Queueing a submission                                                   *)

\* submit_invoice_to_fbr.delay(i)
Delay(m, i) ==
    /\ task[m] = "free"
    /\ Goto(m, "queued")
    /\ of' = [of EXCEPT ![m] = i]
    /\ tries' = [tries EXCEPT ![m] = 0]
    /\ UNCHANGED got

\* Checkout or ingestion commits a sale and queues it.
Create(m, i) ==
    /\ status[i] = "none"
    /\ Become(i, "pending_sync")
    /\ Delay(m, i)
    /\ UNCHANGED <<number, deadline, deleted, logged, active, admin, device, authority, met>>

\* resubmit_failed_invoice: for a listed invoice that has no number.
Resubmit(m, i) ==
    /\ i \notin deleted
    /\ status[i] \in {"failed", "pending_sync"} /\ number[i] = 0
    /\ Delay(m, i)
    /\ UNCHANGED <<invoice, active, admin, device, authority, met>>

\* POST /api/fbr/submissions/retry/<invoice>: for any invoice.
Retry(m, i) ==
    /\ status[i] # "none"
    /\ Delay(m, i)
    /\ UNCHANGED <<invoice, active, admin, device, authority, met>>

\* The broker delivers again a message that has been waiting for too long.
Redeliver(m, n) ==
    /\ task[m] = "queued" /\ tries[m] >= LongWait
    /\ task[n] = "free"
    /\ Goto(n, "queued")
    /\ of' = [of EXCEPT ![n] = of[m]]
    /\ tries' = [tries EXCEPT ![n] = tries[m]]
    /\ UNCHANGED <<invoice, active, got, admin, device, authority, met>>

-----------------------------------------------------------------------------
(* submit_invoice_to_fbr                                                   *)

Busy == {m \in Messages : task[m] \in Steps}

TasksOf(i) == {m \in Messages : of[m] = i /\ task[m] \in Steps}
TillsOf(i) == {t \in Tills : sale[t] = i /\ till[t] \in TillSteps}

\* A fiscalization of i is running, in a worker process or at a till.
Running(i) == TasksOf(i) # {} \/ TillsOf(i) # {}

\* One more begins; the history remembers if it met another.
Meets(i) ==
    IF Running(i) THEN met[i] < MaxMet /\ met' = [met EXCEPT ![i] = @ + 1]
                  ELSE UNCHANGED met

\* Variant for mutation: the task trusts that only open invoices are queued.
LoadUnguarded(m) ==
    /\ task[m] = "queued" /\ Cardinality(Busy) < Workers
    /\ Goto(m, "loaded") /\ Meets(of[m])
    /\ UNCHANGED <<invoice, active, of, tries, got, admin, device, authority>>

\* A worker process takes the message and loads the invoice.
Load(m) ==
    /\ task[m] = "queued" /\ Cardinality(Busy) < Workers
    /\ \/ /\ status[of[m]] \in Submittable
          /\ Goto(m, "loaded") /\ Meets(of[m])
       \/ /\ status[of[m]] \notin Submittable
          /\ Goto(m, "free") /\ UNCHANGED met
    /\ UNCHANGED <<invoice, active, of, tries, got, admin, device, authority>>

\* Variant for mutation: without a token, every tenant counts as non-fiscal.
SkipWithoutToken(m) ==
    /\ task[m] = "loaded" /\ (of[m] \notin Fiscal \/ ~ active)
    /\ Become(of[m], "finalized")
    /\ Goto(m, "free")
    /\ UNCHANGED <<number, deadline, deleted, logged, active, of, tries, got, admin, device,
                   authority, met>>

\* A sale of a non-fiscal tenant is complete once it is on the server.
SkipNonFiscal(m) ==
    /\ task[m] = "loaded" /\ of[m] \notin Fiscal
    /\ Become(of[m], "finalized")
    /\ Goto(m, "free")
    /\ UNCHANGED <<number, deadline, deleted, logged, active, of, tries, got, admin, device,
                   authority, met>>

\* No active token: the task ends and nothing queues the invoice again.
Defer(m) ==
    /\ task[m] = "loaded" /\ of[m] \in Fiscal /\ ~ active
    /\ Goto(m, "free")
    /\ UNCHANGED <<invoice, active, of, tries, got, admin, device, authority, met>>

\* The invoice is marked as submitted, whatever has become of it since.
Mark(m) ==
    /\ task[m] = "loaded" /\ of[m] \in Fiscal /\ active
    /\ Become(of[m], "submitted")
    /\ Goto(m, "posting")
    /\ UNCHANGED <<number, deadline, deleted, logged, active, of, tries, got, admin, device,
                   authority, met>>

\* The authority accepts the POST and issues a number.
Accept(m) ==
    /\ task[m] = "posting"
    /\ issued' = [issued EXCEPT ![of[m]] = @ + 1]
    /\ got' = [got EXCEPT ![m] = issued[of[m]] + 1]
    /\ Goto(m, "accepted")
    /\ UNCHANGED <<invoice, active, of, tries, admin, device, lost, met>>

\* Variant for mutation: the submission log is best effort.
RecordSwallowed(m) ==
    /\ task[m] = "accepted"
    /\ Goto(m, "logged")
    /\ UNCHANGED <<invoice, active, of, tries, got, admin, device, authority, met>>

\* The answer is written to fbr_submissions.
Record(m) ==
    /\ task[m] = "accepted"
    /\ logged' = [logged EXCEPT ![of[m]] = @ \cup {got[m]}]
    /\ Goto(m, "logged")
    /\ UNCHANGED <<status, number, deadline, deleted, active, of, tries, got, admin, device,
                   authority, met>>

\* _persist_fbr_success: the number, the edit deadline and the status.
Persist(m) ==
    /\ task[m] = "logged"
    /\ number' = [number EXCEPT ![of[m]] = got[m]]
    /\ deadline' = [deadline EXCEPT ![of[m]] = "open"]
    /\ Become(of[m], "valid")
    /\ Goto(m, "free")
    /\ UNCHANGED <<deleted, logged, active, of, tries, got, admin, device, authority, met>>

\* _mark_invoice_failed
Fail(m) ==
    /\ Become(of[m], "failed")
    /\ Goto(m, "free")
    /\ UNCHANGED <<number, deadline, deleted, logged, of, tries, got>>

\* A transient error: another attempt after a countdown, while there are any.
Again(m) ==
    \/ /\ tries[m] < MaxRetries
       /\ Goto(m, "queued")
       /\ tries' = [tries EXCEPT ![m] = @ + 1]
       /\ UNCHANGED <<invoice, of, got>>
    \/ /\ tries[m] >= MaxRetries
       /\ Fail(m)

\* The authority was not reached, or said that it is out of order.
Transient(m) ==
    /\ task[m] = "posting"
    /\ Again(m)
    /\ UNCHANGED <<active, admin, device, authority, met>>

Lose(i) == lost[i] < MaxLost /\ lost' = [lost EXCEPT ![i] = @ + 1]

\* The authority accepted, but its answer did not arrive within 30 s.
Timeout(m) ==
    /\ task[m] = "accepted"
    /\ Lose(of[m])
    /\ Again(m)
    /\ UNCHANGED <<active, admin, device, issued, met>>

\* A validation or business error.
Refused(m) ==
    /\ task[m] = "posting"
    /\ Fail(m)
    /\ UNCHANGED <<active, admin, device, authority, met>>

\* An authentication error deactivates the token.
AuthFails(m) ==
    /\ task[m] = "posting"
    /\ active' = FALSE
    /\ Fail(m)
    /\ UNCHANGED <<admin, device, authority, met>>

\* The worker process dies.  The message was acknowledged when it was taken.
Crash(m) ==
    /\ Dies /\ task[m] \in Steps
    /\ IF task[m] \in {"accepted", "logged"} THEN Lose(of[m]) ELSE UNCHANGED lost
    /\ Goto(m, "free")
    /\ UNCHANGED <<invoice, active, of, tries, got, admin, device, issued, met>>

-----------------------------------------------------------------------------
(* The till: useTerminalFiscalize, fiscalizeInvoice                        *)

TillAt(t, p) == till' = [till EXCEPT ![t] = p]

\* fiscal_payload: the invoice is on the server and has no number yet.
TillAsks(t, i) ==
    /\ till[t] = "idle"
    /\ i \in Fiscal /\ i \notin deleted /\ status[i] # "none" /\ number[i] = 0
    /\ TillAt(t, "asked") /\ Meets(i)
    /\ sale' = [sale EXCEPT ![t] = i]
    /\ UNCHANGED <<invoice, active, celery, admin, gave, authority>>

\* The device answers with a number of the authority.
DeviceIssues(t) ==
    /\ till[t] = "asked"
    /\ issued' = [issued EXCEPT ![sale[t]] = @ + 1]
    /\ gave' = [gave EXCEPT ![t] = issued[sale[t]] + 1]
    /\ TillAt(t, "issued")
    /\ UNCHANGED <<invoice, active, celery, admin, sale, lost, met>>

\* The device is not reached or refuses.
DeviceFails(t) ==
    /\ till[t] = "asked" /\ TillAt(t, "idle")
    /\ UNCHANGED <<invoice, active, celery, admin, sale, gave, authority, met>>

\* The device is slower than 3.5 s, or the server is not reached with its
\* number, or the draft is deleted: the till does not try again.
TillLoses(t) ==
    /\ till[t] = "issued" /\ Lose(sale[t]) /\ TillAt(t, "idle")
    /\ UNCHANGED <<invoice, active, celery, admin, sale, gave, issued, met>>

\* fiscal_result loads the invoice: if it has a number, nothing is written.
ResultLoads(t) ==
    /\ till[t] = "issued" /\ sale[t] \notin deleted
    /\ TillAt(t, IF number[sale[t]] = 0 THEN "checked" ELSE "idle")
    /\ UNCHANGED <<invoice, active, celery, admin, sale, gave, authority, met>>

\* It saves the number, the deadline and the status, with an audit entry.
ResultSaves(t) ==
    /\ till[t] = "checked"
    /\ number' = [number EXCEPT ![sale[t]] = gave[t]]
    /\ deadline' = [deadline EXCEPT ![sale[t]] = "open"]
    /\ logged' = [logged EXCEPT ![sale[t]] = @ \cup {gave[t]}]
    /\ Become(sale[t], "valid")
    /\ TillAt(t, "idle")
    /\ UNCHANGED <<deleted, active, celery, admin, sale, gave, authority, met>>

-----------------------------------------------------------------------------
(* Requests that delete or cancel: load and check, then save               *)

Begin(r, i, what) ==
    /\ req[r] = "idle" /\ i \notin deleted
    /\ req' = [req EXCEPT ![r] = what]
    /\ on' = [on EXCEPT ![r] = i]
    /\ UNCHANGED <<invoice, active, celery, device, authority, met>>

\* is_unsubmitted_draft
BeginDelete(r, i) ==
    /\ number[i] = 0 /\ status[i] \in {"pending_sync", "failed"}
    /\ Begin(r, i, "delete")

\* can_cancel_invoice
BeginCancel(r, i) ==
    /\ number[i] # 0 /\ status[i] = "valid" /\ deadline[i] # "past"
    /\ Begin(r, i, "cancel")

\* mark_cancelled_on_fbr
BeginPortal(r, i) ==
    /\ number[i] # 0 /\ status[i] # "cancelled"
    /\ Begin(r, i, "portal")

\* Variant for mutation: cancelling clears the number.
FinishClears(r) ==
    /\ req[r] # "idle"
    /\ Become(on[r], "cancelled")
    /\ number' = [number EXCEPT ![on[r]] = 0]
    /\ deleted' = IF req[r] = "delete" THEN deleted \cup {on[r]} ELSE deleted
    /\ req' = [req EXCEPT ![r] = "idle"]
    /\ UNCHANGED <<deadline, logged, active, on, celery, device, authority, met>>

\* The transaction commits: the invoice is cancelled, and a draft is hidden.
Finish(r) ==
    /\ req[r] # "idle"
    /\ Become(on[r], "cancelled")
    /\ deleted' = IF req[r] = "delete" THEN deleted \cup {on[r]} ELSE deleted
    /\ req' = [req EXCEPT ![r] = "idle"]
    /\ UNCHANGED <<number, deadline, logged, active, on, celery, device, authority, met>>

-----------------------------------------------------------------------------
(* Clock, beat and onboarding                                              *)

DeadlinePasses(i) ==
    /\ deadline[i] = "open"
    /\ deadline' = [deadline EXCEPT ![i] = "past"]
    /\ UNCHANGED <<status, number, deleted, logged, active, celery, admin, device, authority, met>>

Aged == {i \in Invoices : deadline[i] = "past" /\ status[i] = "valid"}

\* finalize_aged_invoices: one UPDATE.
Finalize ==
    /\ Aged # {}
    /\ status' = [i \in Invoices |-> IF i \in Aged THEN "finalized" ELSE status[i]]
    /\ UNCHANGED <<number, deadline, deleted, logged, active, celery, admin, device,
                   authority, met>>

\* A token is entered, or deactivated on the Branches page.
SetToken ==
    /\ active' = ~ active
    /\ UNCHANGED <<invoice, celery, admin, device, authority, met>>

-----------------------------------------------------------------------------
Task(m) ==
    \/ Load(m) \/ SkipNonFiscal(m) \/ Defer(m) \/ Mark(m)
    \/ Accept(m) \/ Record(m) \/ Persist(m)
    \/ Transient(m) \/ Timeout(m) \/ Refused(m) \/ AuthFails(m) \/ Crash(m)

Till(t) ==
    \/ DeviceIssues(t) \/ DeviceFails(t) \/ TillLoses(t) \/ ResultLoads(t) \/ ResultSaves(t)

Next ==
    \/ \E m \in Messages, i \in Invoices : Create(m, i) \/ Resubmit(m, i) \/ Retry(m, i)
    \/ \E m, n \in Messages : Redeliver(m, n)
    \/ \E m \in Messages : Task(m)
    \/ \E t \in Tills, i \in Invoices : TillAsks(t, i)
    \/ \E t \in Tills : Till(t)
    \/ \E r \in Requests, i \in Invoices :
          BeginDelete(r, i) \/ BeginCancel(r, i) \/ BeginPortal(r, i)
    \/ \E r \in Requests : Finish(r)
    \/ \E i \in Invoices : DeadlinePasses(i)
    \/ Finalize \/ SetToken

Spec == Init /\ [][Next]_vars

-----------------------------------------------------------------------------
\* The authority issues one number per invoice, and another one only for a
\* number that a timeout or a crash has lost, or for a fiscalization that began
\* while another one of the invoice was running, one for each: whatever is
\* resubmitted, retried by an admin, delivered twice or asked for at a till
\* costs no more (resubmit_failed_invoice: the task "idempotently handles the
\* retry"; fiscal_result: "never a duplicate").
FiscalizedOnce == \A i \in Invoices : issued[i] <= 1 + lost[i] + met[i]

\* A number stays on its invoice: unless two fiscalizations of it have met, no
\* late task or till, failure or cancellation replaces it, and none ever
\* clears it (it is what customers and the authority refer to).
NumberIsFinal ==
    [][\A i \in Invoices : number[i] # 0 =>
          /\ number'[i] # 0
          /\ met[i] = 0 => number'[i] = number[i]]_vars

\* An invoice that the authority accepted once is not submitted again nor shown
\* as failed or pending, unless two fiscalizations of it have met; and a sale
\* without a number is never shown as accepted.
FiscalStatus ==
    \A i \in Invoices :
        /\ number[i] # 0 /\ met[i] = 0 => status[i] \in {"valid", "cancelled", "finalized"}
        /\ i \in Fiscal /\ status[i] \in {"valid", "finalized"} => number[i] # 0

\* The number on an invoice is in an append-only record of it, whoever brought
\* it and whatever the workers and tills do at once.
NumberOnRecord == \A i \in Invoices : number[i] # 0 => number[i] \in logged[i]
-----------------------------------------------------------------------------
(* The inductive invariant behind these, proved in FbrSubmissionProofs.    *)

\* Those that the authority has yet to answer.
Posting(i) == {m \in Messages : of[m] = i /\ task[m] \in {"loaded", "posting"}}
Asking(i) == {t \in Tills : sale[t] = i /\ till[t] = "asked"}

\* A fiscalization may begin without meeting another one: the invoice has no
\* number and nobody works on it, or it has one and a status that denies it.
Due(i) ==
    \/ number[i] = 0 /\ TasksOf(i) = {} /\ TillsOf(i) = {}
    \/ number[i] # 0 /\ status[i] \in Submittable /\ TasksOf(i) = {}

\* Numbers issued, and those still to come without another incident, are
\* covered by the first one, the lost ones and the meetings.
Within(i) ==
    issued[i] + Cardinality(Posting(i)) + Cardinality(Asking(i)) + (IF Due(i) THEN 1 ELSE 0)
        <= 1 + lost[i] + met[i]

\* Until two meet, one at a time works on an invoice, and it has no number yet.
Alone(i) ==
    met[i] = 0 =>
        /\ \A m, n \in TasksOf(i) : m = n
        /\ \A t, u \in TillsOf(i) : t = u
        /\ TasksOf(i) = {} \/ TillsOf(i) = {}
        /\ TasksOf(i) # {} \/ TillsOf(i) # {} => number[i] = 0

Carried ==
    /\ \A m \in Messages : task[m] \in {"accepted", "logged"} => got[m] # 0
    /\ \A m \in Messages : task[m] = "logged" => got[m] \in logged[of[m]]
    /\ \A t \in Tills : till[t] \in {"issued", "checked"} => gave[t] # 0
    /\ \A i \in Invoices : number[i] # 0 => status[i] # "none"

IInv ==
    /\ TypeOK /\ Carried /\ FiscalStatus /\ NumberOnRecord
    /\ \A i \in Invoices : Within(i) /\ Alone(i)
=============================================================================
