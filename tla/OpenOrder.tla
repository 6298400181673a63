------------------------------ MODULE OpenOrder ------------------------------
(***************************************************************************)
(* The book of open restaurant orders (apps/restaurant/services.py and     *)
(* tasks.py, and the part of sales/services/checkout.py that finalizes a   *)
(* held order): one order, which is an Invoice with is_held set.           *)
(*                                                                         *)
(* Waiters save and fire it, the kitchen screen advances it, a cashier     *)
(* voids or charges it, the back office or the nightly sweep closes it,    *)
(* and the hold and recall endpoints set is_held by hand.  Each is a       *)
(* request that loads the row without a lock, checks what it loaded, and   *)
(* later writes: fire, save and charge write every column of the loaded    *)
(* object, the others only the columns they name.  Nothing keeps two of    *)
(* them apart; late and count are history, of what requests overtook.      *)
(***************************************************************************)
EXTENDS Naturals, FiniteSets

CONSTANTS Requests,      \* requests the server can serve at once
          MaxRequests    \* how many there are, the nightly sweep aside

ASSUME OrderAssumption == MaxRequests \in Nat

VARIABLES
    row,       \* the invoice row
    lines,     \* its SaleItem rows: none, an order's snapshot, or a sale's
    pays,      \* completed payments
    moved,     \* how many times its lines left stock
    told,      \* a till was told that its paid invoice is on the server
    past,      \* the day of the order is over
    kind,      \* what each request does, or "idle"
    seen,      \* the row as the request loaded it
    checked,   \* the payments have been looked up
    started,   \* requests so far
    late,      \* history: what others did to the row since each request loaded it
    count      \* history: how many times each of the Incidents has happened

order == <<row, lines, pays, moved, count>>
requests == <<kind, seen, checked, started, late>>
vars == <<order, told, past, requests>>

Upserts == {"fire", "save"}
Settles == {"close", "sweep", "charge"}
Discards == {"void"}
Guarded == Upserts \cup Settles \cup Discards
Kinds == Guarded \cup {"send", "ready", "served", "hold", "recall"}
FiredStates == {"sent_to_kitchen", "ready", "served"}

Rows == [there : BOOLEAN, held : BOOLEAN, deleted : BOOLEAN, fired : BOOLEAN,
         stage : FiredStates \cup {"open"}, status : {"pending_sync", "finalized"}]
NoRow == [there |-> FALSE, held |-> TRUE, deleted |-> FALSE, fired |-> FALSE,
          stage |-> "open", status |-> "pending_sync"]

\* What has been done to the order that its screens do not foresee:
\*   overtaken   an upsert, settlement or void of an order closed since it was loaded,
\*   outfired    a save or charge that puts back a row loaded before the fire,
\*   rehung      a closed order put on hold by hand,
\*   recalled    an order taken off hold by hand,
\*   unpaid      a charge that brings no completed payment.
Incidents == {"overtaken", "outfired", "rehung", "recalled", "unpaid"}

TypeOK ==
    /\ row \in Rows
    /\ lines \in {"none", "order", "sale"}
    /\ pays \in Nat /\ moved \in Nat
    /\ told \in BOOLEAN /\ past \in BOOLEAN
    /\ kind \in [Requests -> Kinds \cup {"idle"}]
    /\ seen \in [Requests -> Rows]
    /\ checked \in [Requests -> BOOLEAN]
    /\ started \in 0 .. MaxRequests
    /\ late \in [Requests -> SUBSET {"closed", "fired"}]
    /\ count \in [Incidents -> Nat]

Init ==
    /\ row = NoRow /\ lines = "none" /\ pays = 0 /\ moved = 0
    /\ told = FALSE /\ past = FALSE
    /\ kind = [r \in Requests |-> "idle"]
    /\ seen = [r \in Requests |-> NoRow]
    /\ checked = [r \in Requests |-> FALSE]
    /\ started = 0
    /\ late = [r \in Requests |-> {}]
    /\ count = [i \in Incidents |-> 0]

-----------------------------------------------------------------------------
(* Loading and checking.                                                   *)

\* A sale of the till's list, not an order of the book.
Closed == row.there /\ ~ row.held

\* The requests of S are over, and what they had loaded is gone.
End(S) ==
    /\ kind' = [r \in Requests |-> IF r \in S THEN "idle" ELSE kind[r]]
    /\ seen' = [r \in Requests |-> IF r \in S THEN NoRow ELSE seen[r]]
    /\ checked' = [r \in Requests |-> checked[r] /\ r \notin S]
    /\ late' = [r \in Requests |-> IF r \in S \/ kind[r] = "idle" THEN {} ELSE
                  late[r] \cup (IF ~ Closed /\ Closed' THEN {"closed"} ELSE {})
                          \cup (IF ~ row.fired /\ row'.fired THEN {"fired"} ELSE {})]
    /\ UNCHANGED started

\* An order that the kitchen has had and that is still in the book.
Cooked == row.there /\ row.held /\ ~ row.deleted /\ row.stage \in FiredStates

\* Variant for mutation: only orders that are still on the kitchen's screen.
SweepsSent == Cooked /\ row.stage = "sent_to_kitchen" /\ past /\ pays = 0

\* What the nightly sweep selects.
Sweeps == Cooked /\ past /\ pays = 0

\* Variant for mutation: an upsert does not look at is_held.
PassesBlind(k) == row.there \/ k \in Upserts \cup {"charge"}

\* The checks made on the loaded row: an upsert refuses a charged sale, a void
\* and a close pass over one; hold and recall take whatever is not deleted.
Passes(k) ==
    CASE k \in Upserts \cup {"charge"} -> row.there => row.held
      [] k = "void" -> row.there /\ row.held /\ ~ row.deleted
      [] k = "close" -> row.there /\ row.held
      [] k = "sweep" -> Sweeps
      [] k \in {"hold", "recall"} -> row.there /\ ~ row.deleted
      [] OTHER -> row.there

Load(r, k) ==
    /\ kind[r] = "idle"
    /\ Passes(k)
    /\ IF k = "sweep" THEN UNCHANGED started
                      ELSE started < MaxRequests /\ started' = started + 1
    /\ kind' = [kind EXCEPT ![r] = k]
    /\ seen' = [seen EXCEPT ![r] = row]
    /\ checked' = [checked EXCEPT ![r] = k \notin {"void", "close", "sweep"}]
    /\ UNCHANGED <<order, told, past, late>>

\* A void and a close look the payments up; a void also spares an order that
\* has been sent to the kitchen.
Check(r) ==
    /\ kind[r] # "idle" /\ ~ checked[r]
    /\ UNCHANGED <<order, told, past>>
    /\ IF pays = 0 /\ (kind[r] = "void" => seen[r].stage # "sent_to_kitchen")
       THEN checked' = [checked EXCEPT ![r] = TRUE] /\ UNCHANGED <<kind, seen, started, late>>
       ELSE End({r})

-----------------------------------------------------------------------------
(* Writing.                                                                *)

\* fire, save and charge write every column of the object that they loaded.
Fired(s) == [s EXCEPT !.there = TRUE, !.held = TRUE,
                      !.stage = "sent_to_kitchen", !.fired = TRUE]

\* Variant for mutation: saving an order without firing it opens it again.
SavedOpen(s) == [s EXCEPT !.there = TRUE, !.held = TRUE, !.stage = "open", !.fired = FALSE]

\* A save does not take back a fire, as far as the loaded object knows of one.
Saved(s) == IF s.fired THEN [s EXCEPT !.there = TRUE, !.held = TRUE]
            ELSE [s EXCEPT !.there = TRUE, !.held = TRUE, !.stage = "open"]

\* Variant for mutation: finalizing keeps the deletion of an earlier void.
ChargedHidden(s) == [s EXCEPT !.there = TRUE, !.held = FALSE, !.stage = "served",
                              !.status = "pending_sync"]

\* create_invoice finalizes the held row in place, and undoes a void.
Charged(s) == [s EXCEPT !.there = TRUE, !.held = FALSE, !.deleted = FALSE,
                        !.stage = "served", !.status = "pending_sync"]

\* The row that request r leaves; those that save with update_fields change
\* only the columns they name.
Written(r) ==
    LET k == kind[r]
    IN  CASE k = "fire" -> Fired(seen[r])
          [] k = "save" -> Saved(seen[r])
          [] k = "charge" -> Charged(seen[r])
          [] k = "send" -> [row EXCEPT !.stage = "sent_to_kitchen", !.fired = TRUE]
          [] k = "void" -> [row EXCEPT !.deleted = TRUE]
          [] k \in {"hold", "recall"} -> [row EXCEPT !.held = (k = "hold")]
          [] k \in {"close", "sweep"} ->
                 [row EXCEPT !.held = FALSE, !.stage = "served", !.status = "finalized"]
          [] OTHER -> [row EXCEPT !.stage = k]

\* Variant for mutation: the row is closed and no payment is recorded.
TakesOnCharge(k, paid) == k = "charge" /\ paid

\* A close records the payment; a charge records what it brings, which may be
\* nothing or a cheque that is still pending.
Takes(k, paid) == k \in {"close", "sweep"} \/ (k = "charge" /\ paid)

\* What happens to the order when request r writes.
Met(r, paid) ==
    LET k == kind[r]
    IN  {i \in Incidents :
           \/ i = "overtaken" /\ k \in Guarded /\ "closed" \in late[r]
           \/ i = "outfired" /\ k \in {"save", "charge"} /\ "fired" \in late[r]
           \/ i = "rehung" /\ k = "hold" /\ Closed
           \/ i = "recalled" /\ k = "recall"
           \/ i = "unpaid" /\ k = "charge" /\ ~ paid}

\* The request writes and commits.  A new row is unique by client_uuid.  Charge
\* deletes the lines it finds first of all and numbers its own from one, so it
\* fails on a line that an upsert or another charge has committed since.
Commit(r, paid) ==
    LET k == kind[r]
        rebuilt == k \in Upserts \cup {"charge"}
    IN  /\ k # "idle" /\ checked[r]
        /\ seen[r].there = row.there
        /\ row' = Written(r)
        /\ lines' = IF k \in Upserts THEN "order" ELSE IF k = "charge" THEN "sale" ELSE lines
        /\ pays' = IF Takes(k, paid) THEN pays + 1 ELSE pays
        /\ moved' = IF k = "charge" THEN moved + 1 ELSE moved
        /\ told' = (told \/ k = "charge")
        /\ count' = [i \in Incidents |-> IF i \in Met(r, paid) THEN count[i] + 1 ELSE count[i]]
        /\ End({r} \cup {s \in Requests : rebuilt /\ kind[s] = "charge"})
        /\ UNCHANGED past

\* An error, a lost connection or a killed worker: nothing is written.
Abort(r) ==
    /\ kind[r] # "idle"
    /\ UNCHANGED <<order, told, past>>
    /\ End({r})

\* A paid invoice that finds the row closed is taken for a duplicate.
Duplicate ==
    /\ row.there /\ ~ row.held
    /\ told' = TRUE
    /\ UNCHANGED <<order, past, requests>>

NightFalls ==
    /\ row.there
    /\ past' = TRUE
    /\ UNCHANGED <<order, told, requests>>

Next ==
    \/ \E r \in Requests, k \in Kinds : Load(r, k)
    \/ \E r \in Requests : Check(r) \/ Abort(r)
    \/ \E r \in Requests, paid \in BOOLEAN : Commit(r, paid)
    \/ Duplicate \/ NightFalls

Spec == Init /\ [][Next]_vars

\* Requests end; the sweep runs every night, and does not fail for ever.
FairSpec ==
    /\ Spec
    /\ WF_vars(\E r \in Requests : Load(r, "sweep"))
    /\ \A r \in Requests :
          /\ WF_vars(Check(r) \/ (\E paid \in BOOLEAN : Commit(r, paid)) \/ Abort(r))
          /\ SF_vars(kind[r] = "sweep" /\ Check(r))
          /\ SF_vars(kind[r] = "sweep" /\ \E paid \in BOOLEAN : Commit(r, paid))

-----------------------------------------------------------------------------
(* Properties.                                                             *)

\* A till that is told "duplicate" has been paid for: an order is closed without
\* a completed payment only if it was charged without one, or taken off hold by
\* hand.
ClosedIsPaid == Closed \/ told => pays + count["unpaid"] + count["recalled"] >= 1

\* A guest settles an order once, and its dishes leave stock at most as often.
\* Every further time is one that a request overtaken by a settlement, or a
\* hold of the settled order, accounts for.
SettledOnce ==
    /\ pays + count["unpaid"] <= 1 + count["overtaken"] + count["rehung"]
    /\ moved <= pays + count["unpaid"]

\* Unless that has happened, the order has left stock when, and only when, it is
\* a visible sale on its way to the tax authority with the lines charged.
ChargedIsWhole ==
    count["overtaken"] + count["rehung"] = 0 =>
        (moved >= 1 <=>
            Closed /\ ~ row.deleted /\ lines = "sale" /\ row.status = "pending_sync")

\* "A held-order upsert must NEVER touch an already-CHARGED sale": a closed order
\* is opened again, or its lines replaced, only by a request that loaded it
\* before it was closed or by the hold endpoint.
StaysClosed ==
    [][Closed /\ count'["overtaken"] = count["overtaken"] /\ count'["rehung"] = count["rehung"]
         => Closed' /\ lines' = lines]_vars

\* "Never DOWNGRADE a previously fired order": only a save or a charge that loaded
\* the order before it was fired takes the kitchen's stamp back.
StaysFired == [][row.fired /\ count'["outfired"] = count["outfired"] => row'.fired]_vars

\* No ghost stays in the book: an order that was cooked and whose day is over is
\* closed, whatever tills, waiters and the back office did or failed to do.  The
\* one that stays was paid, and opened again by a late request or by hand.
GhostsClose ==
    (past /\ Cooked) ~>
        (~ Cooked \/ (pays >= 1 /\ count["overtaken"] + count["rehung"] >= 1))
=============================================================================
