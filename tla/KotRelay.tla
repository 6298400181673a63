------------------------------- MODULE KotRelay -------------------------------
(***************************************************************************)
(* Kitchen slips (KOTs) of open restaurant orders.  A till or a waiter's   *)
(* tablet fires the unsent lines of its cart: the server replaces its      *)
(* snapshot of the order (restaurant/services.py, upsert_open_order).  A   *)
(* till prints the slip itself and acknowledges it (features/restaurant/   *)
(* fire.ts); a tablet has no printer, so the tills of the branch poll the  *)
(* server for fired lines nobody has printed (electron/kot-relay.ts).      *)
(*                                                                         *)
(* Each client works on one order, whose lines are OrderOf.  An order is   *)
(* followed until it is charged or voided, within one service day.         *)
(***************************************************************************)
EXTENDS Naturals, FiniteSets

CONSTANTS Tills,        \* tills of the branch: each fires, prints and relays
          Tablets,      \* waiters' tablets
          Lines,        \* cart lines, numbered in the order they are entered
          OrderOf,      \* the client whose order a line belongs to
          Dish,         \* product, modifiers and course of a line
          Jams,         \* tills whose kitchen printer may fail, or which may stop
          MaxBacklog,   \* MAX_BACKLOG: orders beyond which the relay refuses to print
          MaxUpserts,   \* bound on the snapshots that the clients send
          MaxFaults     \* bound on failed prints and lost requests and answers

Clients == Tills \cup Tablets

ASSUME KotAssumption ==
    /\ Tills \cap Tablets = {}
    /\ Lines \subseteq Nat /\ IsFiniteSet(Lines)
    /\ OrderOf \in [Lines -> Clients]
    /\ DOMAIN Dish = Lines
    /\ Jams \subseteq Tills
    /\ {MaxBacklog, MaxUpserts, MaxFaults} \subseteq Nat

VARIABLES
    cart,      \* client: a line is not in the cart, new, or marked as sent
    fire,      \* till: what fireUnsentToKitchen is about to do
    batch,     \* till: the unsent lines it is firing
    fired,     \* till: unprinted items in the server's answer, {} if there is none
    status,    \* server: order_status, "none" before the order is saved
    items,     \* server: lines in the order's snapshot
    sent,      \* server: items with sent_to_kitchen
    stamped,   \* server: items with a kot_printed_at
    firedAt,   \* server: kitchen_sent_at, counted in upserts
    upserts,   \* server: how many snapshots it has taken
    tick,      \* till: what the relay's tick is about to do
    slip,      \* till: the lines its relay is printing
    ids,       \* till: those of them whose item ids still exist
    printed,   \* kitchen: lines that are on a slip
    missed,    \* history: lines whose own till failed to print them
    faults     \* how many faults there have been

client == <<cart, fire, batch, fired>>
server == <<status, items, sent, stamped, firedAt, upserts>>
relay == <<tick, slip, ids>>
vars == <<client, server, relay, printed, missed, faults>>

TypeOK ==
    /\ cart \in [Lines -> {"no", "new", "sent"}]
    /\ fire \in [Clients -> {"idle", "print", "ack"}]
    /\ batch \in [Clients -> SUBSET Lines] /\ fired \in [Clients -> SUBSET Lines]
    /\ status \in [Clients -> {"none", "open", "sent_to_kitchen", "served"}]
    /\ sent \subseteq items /\ items \subseteq Lines
    /\ stamped \subseteq items
    /\ firedAt \in [Clients -> 0 .. MaxUpserts]
    /\ tick \in [Tills -> {"idle", "print", "ack"}]
    /\ slip \in [Tills -> SUBSET Lines] /\ ids \in [Tills -> SUBSET Lines]
    /\ printed \subseteq Lines /\ missed \subseteq Lines
    /\ upserts \in 0 .. MaxUpserts /\ faults \in 0 .. MaxFaults

Init ==
    /\ cart = [l \in Lines |-> "no"]
    /\ fire = [c \in Clients |-> "idle"]
    /\ batch = [c \in Clients |-> {}] /\ fired = [c \in Clients |-> {}]
    /\ status = [c \in Clients |-> "none"]
    /\ items = {} /\ sent = {} /\ stamped = {} /\ upserts = 0
    /\ firedAt = [c \in Clients |-> 0]
    /\ tick = [t \in Tills |-> "idle"]
    /\ slip = [t \in Tills |-> {}] /\ ids = [t \in Tills |-> {}]
    /\ printed = {} /\ missed = {}
    /\ faults = 0

Mine(c) == {l \in Lines : OrderOf[l] = c}
Cart(c) == {l \in Mine(c) : cart[l] # "no"}
New(c) == {l \in Mine(c) : cart[l] = "new"}

Fault == faults < MaxFaults /\ faults' = faults + 1

-----------------------------------------------------------------------------
(* The server                                                              *)

\* Variant for mutation: the snapshot is recreated without its stamps.
CarriedNot(c) == {l \in Mine(c) : FALSE}

\* The stamps of the old snapshot, each restored to one line of its dish that
\* the client says was sent, in line order.
Carried(c) ==
    LET again == Cart(c) \ New(c)
        before(l) == {k \in again : k < l /\ Dish[k] = Dish[l]}
        stamps(l) == {k \in stamped \cap Mine(c) : Dish[k] = Dish[l]}
    IN  {l \in again : Cardinality(before(l)) < Cardinality(stamps(l))}

\* Variant for mutation: firing believes the flags that the client echoes.
QueuedAsEchoed(c, firing) == Cart(c) \ New(c)

\* What of the snapshot is in the kitchen's queue: all of it when firing.
Queued(c, firing) == IF firing THEN Cart(c) ELSE Cart(c) \ New(c)

\* upsert_open_order: the order's items are deleted and created again from the
\* cart, so the ids that a relay has read no longer exist.
Upsert(c, firing) ==
    /\ upserts < MaxUpserts /\ upserts' = upserts + 1
    /\ items' = (items \ Mine(c)) \cup Cart(c)
    /\ sent' = (sent \ Mine(c)) \cup Queued(c, firing)
    /\ stamped' = (stamped \ Mine(c)) \cup Carried(c)
    /\ ids' = [t \in Tills |-> ids[t] \ Mine(c)]
    /\ \/ /\ firing
          /\ status' = [status EXCEPT ![c] = "sent_to_kitchen"]
          /\ firedAt' = [firedAt EXCEPT ![c] = upserts']
       \/ /\ ~ firing
          /\ status' = [status EXCEPT ![c] = IF @ = "none" THEN "open" ELSE @]
          /\ UNCHANGED firedAt

\* An upsert whose answer, or which itself, is lost.
LostUpsert(c, firing) ==
    /\ Fault
    /\ Upsert(c, firing) \/ UNCHANGED <<server, ids>>

\* MarkKotPrintedView: stamps the items of X that still exist.
MarkPrinted(X) == stamped' = stamped \cup X

\* The kitchen display marks an order as served.
Served(c) ==
    /\ status[c] = "sent_to_kitchen"
    /\ status' = [status EXCEPT ![c] = "served"]
    /\ UNCHANGED <<client, items, sent, stamped, firedAt, upserts, relay, printed, missed, faults>>

-----------------------------------------------------------------------------
(* Carts                                                                   *)

\* A line is appended; a parked order must be resumed first.  More of a dish goes
\* into its line: at a till into any line of it, on a tablet into an unsent one.
Add(l) ==
    LET c == OrderOf[l]
    IN  /\ fire[c] = "idle" /\ cart[l] = "no"
        /\ status[c] = "none" \/ Cart(c) # {}
        /\ \A k \in Cart(c) : k < l
        /\ \A k \in IF c \in Tills THEN Cart(c) ELSE New(c) : Dish[k] # Dish[l]
        /\ cart' = [cart EXCEPT ![l] = "new"]
        /\ UNCHANGED <<fire, batch, fired, server, relay, printed, missed, faults>>

\* A line that was not sent can be taken out again, but for the last one.
Remove(l) ==
    /\ fire[OrderOf[l]] = "idle" /\ cart[l] = "new"
    /\ Cart(OrderOf[l]) # {l}
    /\ cart' = [cart EXCEPT ![l] = "no"]
    /\ UNCHANGED <<fire, batch, fired, server, relay, printed, missed, faults>>

ClearCart(c) == cart' = [l \in Lines |-> IF OrderOf[l] = c THEN "no" ELSE cart[l]]

\* The order is loaded from the server, into a cart that may have been lost
\* with the application.
Resume(c) ==
    /\ status[c] # "none" /\ fire[c] = "idle"
    /\ cart' = [l \in Lines |-> IF OrderOf[l] # c THEN cart[l]
                                ELSE IF l \in sent THEN "sent"
                                ELSE IF l \in items THEN "new" ELSE "no"]
    /\ UNCHANGED <<fire, batch, fired, server, relay, printed, missed, faults>>

\* "Save order": parked without a word to the kitchen.  The tablet clears its
\* cart even if the request failed, the till only if it was answered.
Save(c) ==
    /\ fire[c] = "idle" /\ Cart(c) # {}
    /\ \/ Upsert(c, FALSE) /\ ClearCart(c) /\ UNCHANGED faults
       \/ LostUpsert(c, FALSE) /\ IF c \in Tablets THEN ClearCart(c) ELSE UNCHANGED cart
    /\ UNCHANGED <<fire, batch, fired, tick, slip, printed, missed>>

-----------------------------------------------------------------------------
(* Firing                                                                  *)

\* The tablet takes the lines back from the answer, all of them sent.
TabletFires(c) ==
    /\ c \in Tablets /\ New(c) # {}
    /\ \/ /\ Upsert(c, TRUE)
          /\ cart' = [l \in Lines |-> IF l \in Cart(c) THEN "sent" ELSE cart[l]]
          /\ UNCHANGED faults
       \/ LostUpsert(c, TRUE) /\ UNCHANGED cart
    /\ UNCHANGED <<fire, batch, fired, tick, slip, printed, missed>>

\* The till's first step: the server, whatever comes of it.
TillFires(c) ==
    /\ c \in Tills /\ fire[c] = "idle" /\ New(c) # {}
    /\ fire' = [fire EXCEPT ![c] = "print"]
    /\ batch' = [batch EXCEPT ![c] = New(c)]
    /\ \/ /\ Upsert(c, TRUE) /\ UNCHANGED faults
          /\ fired' = [fired EXCEPT ![c] = Cart(c) \ stamped']
       \/ /\ LostUpsert(c, TRUE)
          /\ UNCHANGED fired
    /\ UNCHANGED <<cart, tick, slip, printed, missed>>

\* Its second step: the slip of the unsent lines.
TillPrints(c) ==
    /\ fire[c] = "print"
    /\ printed' = printed \cup batch[c]
    /\ fire' = [fire EXCEPT ![c] = "ack"]
    /\ UNCHANGED <<cart, batch, fired, server, relay, missed, faults>>

\* The cart is cleared if the server answered; otherwise it is kept, its lines
\* marked as sent if they were printed.
FireEnds(c, printOk) ==
    /\ fire' = [fire EXCEPT ![c] = "idle"]
    /\ batch' = [batch EXCEPT ![c] = {}]
    /\ fired' = [fired EXCEPT ![c] = {}]
    /\ \/ fired[c] # {} /\ ClearCart(c)
       \/ /\ fired[c] = {}
          /\ cart' = [l \in Lines |-> IF printOk /\ l \in batch[c] THEN "sent" ELSE cart[l]]

\* The printer fails, or the till stops before it has printed.
TillJams(c) ==
    /\ fire[c] = "print" /\ c \in Jams /\ Fault
    /\ FireEnds(c, FALSE)
    /\ missed' = missed \cup batch[c]
    /\ UNCHANGED <<server, relay, printed>>

\* Its third step: every unprinted item of the answer is acknowledged.
TillAcks(c) ==
    /\ fire[c] = "ack"
    /\ \/ MarkPrinted(fired[c]) /\ UNCHANGED faults
       \/ fired[c] # {} /\ Fault /\ UNCHANGED stamped
    /\ FireEnds(c, TRUE)
    /\ UNCHANGED <<status, items, sent, firedAt, upserts, relay, printed, missed>>

-----------------------------------------------------------------------------
(* The relay's tick                                                        *)

\* Items of order c that are fired and not printed ("ready" is part of
\* "sent_to_kitchen" here).
Unprinted(c) == IF status[c] = "sent_to_kitchen" THEN (sent \cap Mine(c)) \ stamped ELSE {}

\* More orders than a service ever has: something is wrong upstream.
Backlog == Cardinality({c \in Clients : Unprinted(c) # {}}) > MaxBacklog

\* KdsUnprintedView, of which the first order is taken, but for a backlog.
Poll(t) ==
    /\ tick[t] = "idle" /\ ~ Backlog
    /\ \E c \in Clients :
          /\ Unprinted(c) # {}
          /\ \A o \in Clients : Unprinted(o) # {} => firedAt[c] <= firedAt[o]
          /\ slip' = [slip EXCEPT ![t] = Unprinted(c)]
          /\ ids' = [ids EXCEPT ![t] = Unprinted(c)]
    /\ tick' = [tick EXCEPT ![t] = "print"]
    /\ UNCHANGED <<client, server, printed, missed, faults>>

TickEnds(t) ==
    /\ tick' = [tick EXCEPT ![t] = "idle"]
    /\ slip' = [slip EXCEPT ![t] = {}]
    /\ ids' = [ids EXCEPT ![t] = {}]

RelayPrints(t) ==
    /\ tick[t] = "print"
    /\ printed' = printed \cup slip[t]
    /\ tick' = [tick EXCEPT ![t] = "ack"]
    /\ UNCHANGED <<client, server, slip, ids, missed, faults>>

\* Variant for mutation: the lines are acknowledged although the printer failed.
RelayJamsAcked(t) ==
    /\ tick[t] = "print" /\ t \in Jams /\ Fault
    /\ tick' = [tick EXCEPT ![t] = "ack"]
    /\ UNCHANGED <<client, server, slip, ids, printed, missed>>

\* The printer fails, or the till is switched off with the slip unprinted.
RelayJams(t) ==
    /\ tick[t] = "print" /\ t \in Jams /\ Fault
    /\ TickEnds(t)
    /\ UNCHANGED <<client, server, printed, missed>>

\* The acknowledgement arrives or is lost; items that have been replaced since
\* the poll are not there to be stamped.
RelayAcks(t) ==
    /\ tick[t] = "ack"
    /\ \/ MarkPrinted(ids[t]) /\ UNCHANGED faults
       \/ Fault /\ UNCHANGED stamped
    /\ TickEnds(t)
    /\ UNCHANGED <<client, status, items, sent, firedAt, upserts, printed, missed>>

-----------------------------------------------------------------------------
Next ==
    \/ \E l \in Lines : Add(l) \/ Remove(l)
    \/ \E c \in Clients :
          \/ Resume(c) \/ Save(c) \/ Served(c)
          \/ TabletFires(c) \/ TillFires(c)
          \/ TillPrints(c) \/ TillJams(c) \/ TillAcks(c)
    \/ \E t \in Tills : Poll(t) \/ RelayPrints(t) \/ RelayJams(t) \/ RelayAcks(t)

Spec == Init /\ [][Next]_vars

\* The relays go on ticking, and paper is put into the printers.  Nothing is
\* assumed of cashiers, waiters or cooks.
FairSpec ==
    Spec /\ \A t \in Tills : WF_vars(Poll(t)) /\ WF_vars(RelayPrints(t)) /\ WF_vars(RelayAcks(t))

-----------------------------------------------------------------------------
\* A line is stamped as printed only if it is on a slip, or its own till failed
\* to print it: an acknowledgement, be it the relay's or that of a till, which
\* names every unprinted line of the server's answer (fire.ts), takes no other
\* line out of the kitchen's queue, and no snapshot moves a stamp to one.
StampedIsPrinted == stamped \subseteq printed \cup missed

\* A line that its client knows as sent keeps its stamp through every re-fire and
\* save (services.py: a course 2 fire prints "only the NEW lines and never
\* reprint[s] course 1").
StampsSurvive == [][\A l \in stamped : cart[l] = "sent" => l \in stamped']_vars

\* A line that is shown as sent to the kitchen gets onto a slip, unless the
\* kitchen itself marks the order as served, its own till failed to print it and
\* acknowledged it later with other lines, or the relay refuses a backlog for ever.
SentIsCooked ==
    \/ <>[]Backlog
    \/ \A l \in Lines :
          cart[l] = "sent" ~> \/ l \in printed \/ status[OrderOf[l]] = "served"
                              \/ l \in missed \cap stamped
=============================================================================
