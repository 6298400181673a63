---------------------------- MODULE KotRelayProofs ----------------------------
(***************************************************************************)
(* Kitchen slips for any number of tills, tablets and lines, and any       *)
(* number of faults.                                                       *)
(***************************************************************************)
EXTENDS KotRelay, FiniteSetTheorems, TLAPS

\* What a client or a relay means to acknowledge is still an item of the server,
\* and what a till is firing is its own.
Handles ==
    /\ \A t \in Tills : ids[t] \subseteq items \cap slip[t]
    /\ \A c \in Clients :
          /\ fired[c] \subseteq items \cap Mine(c)
          /\ batch[c] \subseteq Mine(c)
          /\ fire[c] = "idle" => fired[c] = {} /\ batch[c] = {}
          /\ c \in Tablets => fire[c] = "idle"

TInv == TypeOK /\ Handles

\* What an upsert leaves behind.
LEMMA UpsertKeeps ==
  ASSUME TInv, NEW c \in Clients, NEW firing \in BOOLEAN, fire[c] = "idle", Upsert(c, firing)
  PROVE  /\ status' \in [Clients -> {"none", "open", "sent_to_kitchen", "served"}]
         /\ sent' \subseteq items' /\ items' \subseteq Lines
         /\ stamped' \subseteq items'
         /\ firedAt' \in [Clients -> 0 .. MaxUpserts]
         /\ upserts' \in 0 .. MaxUpserts
         /\ ids' \in [Tills -> SUBSET Lines]
         /\ \A t \in Tills : ids'[t] \subseteq items' \cap slip[t]
         /\ \A d \in Clients : fired[d] \subseteq items' \cap Mine(d)
         /\ Cart(c) \subseteq items' \cap Mine(c)
<1>1. Cart(c) \subseteq Lines /\ Carried(c) \subseteq Cart(c) /\ Queued(c, firing) \subseteq Cart(c)
  BY DEF Cart, Mine, Carried, Queued
<1>2. items' = (items \ Mine(c)) \cup Cart(c)
      /\ sent' = (sent \ Mine(c)) \cup Queued(c, firing)
      /\ stamped' = (stamped \ Mine(c)) \cup Carried(c)
  BY DEF Upsert
<1>3. sent' \subseteq items' /\ items' \subseteq Lines /\ stamped' \subseteq items'
  BY <1>1, <1>2 DEF TInv, TypeOK
<1>4. upserts' \in 0 .. MaxUpserts
  BY KotAssumption DEF TInv, TypeOK, Upsert
<1>5. firedAt' \in [Clients -> 0 .. MaxUpserts]
      /\ status' \in [Clients -> {"none", "open", "sent_to_kitchen", "served"}]
  BY <1>4 DEF TInv, TypeOK, Upsert
<1>6. ids' = [t \in Tills |-> ids[t] \ Mine(c)]
  BY DEF Upsert
<1>7. ids' \in [Tills -> SUBSET Lines] /\ \A t \in Tills : ids'[t] \subseteq items' \cap slip[t]
  BY <1>2, <1>6 DEF TInv, TypeOK, Handles
<1>8. ASSUME NEW d \in Clients PROVE fired[d] \subseteq items' \cap Mine(d)
  <2>1. CASE d = c
    BY <2>1 DEF TInv, Handles
  <2>2. CASE d # c
    BY <2>2, <1>2 DEF TInv, Handles, Mine
  <2> QED
    BY <2>1, <2>2
<1>9. Cart(c) \subseteq items' \cap Mine(c)
  BY <1>2 DEF Cart
<1> QED
  BY <1>3, <1>4, <1>5, <1>7, <1>8, <1>9

\* An upsert that may not have happened, or whose answer is lost.
LEMMA LostUpsertKeeps ==
  ASSUME TInv, NEW c \in Clients, NEW firing \in BOOLEAN, fire[c] = "idle", LostUpsert(c, firing)
  PROVE  /\ status' \in [Clients -> {"none", "open", "sent_to_kitchen", "served"}]
         /\ sent' \subseteq items' /\ items' \subseteq Lines
         /\ stamped' \subseteq items'
         /\ firedAt' \in [Clients -> 0 .. MaxUpserts]
         /\ upserts' \in 0 .. MaxUpserts
         /\ faults' \in 0 .. MaxFaults
         /\ ids' \in [Tills -> SUBSET Lines]
         /\ \A t \in Tills : ids'[t] \subseteq items' \cap slip[t]
         /\ \A d \in Clients : fired[d] \subseteq items' \cap Mine(d)
<1>1. faults' \in 0 .. MaxFaults
  BY KotAssumption DEF LostUpsert, Fault, TInv, TypeOK
<1>2. CASE Upsert(c, firing)
  BY <1>1, <1>2, UpsertKeeps
<1>3. CASE UNCHANGED <<server, ids>>
  BY <1>1, <1>3 DEF server, TInv, TypeOK, Handles
<1> QED
  BY <1>2, <1>3 DEF LostUpsert

\* Clearing a cart keeps its type.
LEMMA ClearCartType ==
  ASSUME TypeOK, NEW c \in Clients, ClearCart(c)
  PROVE  cart' \in [Lines -> {"no", "new", "sent"}]
BY DEF ClearCart, TypeOK

\* So does the end of a fire, which forgets what was fired.
LEMMA FireEndsType ==
  ASSUME TInv, NEW c \in Clients, NEW ok \in BOOLEAN, FireEnds(c, ok)
  PROVE  /\ cart' \in [Lines -> {"no", "new", "sent"}]
         /\ fire' = [fire EXCEPT ![c] = "idle"]
         /\ batch' = [batch EXCEPT ![c] = {}]
         /\ fired' = [fired EXCEPT ![c] = {}]
BY DEF FireEnds, ClearCart, TInv, TypeOK

LEMMA TickEndsType ==
  ASSUME TInv, NEW t \in Tills, TickEnds(t)
  PROVE  /\ tick' \in [Tills -> {"idle", "print", "ack"}]
         /\ slip' \in [Tills -> SUBSET Lines] /\ ids' \in [Tills -> SUBSET Lines]
         /\ \A s \in Tills : ids'[s] \subseteq items \cap slip'[s]
BY DEF TickEnds, TInv, TypeOK, Handles

LEMMA InitTInv == Init => TInv
BY KotAssumption DEF Init, TInv, TypeOK, Handles

\* The conjuncts of TInv that the variables of one side decide.
LEMMA StepTInv == TInv /\ [Next]_vars => TInv'
<1> SUFFICES ASSUME TInv, [Next]_vars PROVE TInv'
  OBVIOUS
<1> USE DEF TInv
<1>1. ASSUME NEW l \in Lines, Add(l) \/ Remove(l) PROVE TInv'
  BY <1>1 DEF Add, Remove, TypeOK, Handles, server, relay, Mine
<1>2. ASSUME NEW c \in Clients, Resume(c) PROVE TInv'
  BY <1>2 DEF Resume, TypeOK, Handles, server, relay, Mine
<1>3. ASSUME NEW c \in Clients, Save(c) PROVE TInv'
  <2>1. fire[c] = "idle" /\ UNCHANGED <<fire, batch, fired, tick, slip, printed, missed>>
    BY <1>3 DEF Save
  <2>2. CASE Upsert(c, FALSE) /\ ClearCart(c) /\ UNCHANGED faults
    BY <2>1, <2>2, UpsertKeeps, ClearCartType DEF TypeOK, Handles, Mine
  <2>3. CASE /\ LostUpsert(c, FALSE)
             /\ IF c \in Tablets THEN ClearCart(c) ELSE UNCHANGED cart
    <3>1. cart' \in [Lines -> {"no", "new", "sent"}]
      BY <2>3, ClearCartType DEF TypeOK
    <3> QED
      BY <2>1, <2>3, <3>1, LostUpsertKeeps DEF TypeOK, Handles, Mine
  <2> QED
    BY <1>3, <2>2, <2>3 DEF Save
<1>4. ASSUME NEW c \in Clients, Served(c) PROVE TInv'
  BY <1>4 DEF Served, TypeOK, Handles, client, relay, Mine
<1>5. ASSUME NEW c \in Clients, TabletFires(c) PROVE TInv'
  <2>1. fire[c] = "idle" /\ UNCHANGED <<fire, batch, fired, tick, slip, printed, missed>>
    BY <1>5 DEF TabletFires, Handles
  <2>2. CASE Upsert(c, TRUE) /\ UNCHANGED faults
             /\ cart' = [l \in Lines |-> IF l \in Cart(c) THEN "sent" ELSE cart[l]]
    BY <2>1, <2>2, UpsertKeeps DEF TypeOK, Handles, Mine
  <2>3. CASE LostUpsert(c, TRUE) /\ UNCHANGED cart
    BY <2>1, <2>3, LostUpsertKeeps DEF TypeOK, Handles, Mine
  <2> QED
    BY <1>5, <2>2, <2>3 DEF TabletFires
<1>6. ASSUME NEW c \in Clients, TillFires(c) PROVE TInv'
  <2>1. /\ c \in Tills /\ fire[c] = "idle"
        /\ fire' = [fire EXCEPT ![c] = "print"]
        /\ batch' = [batch EXCEPT ![c] = New(c)]
        /\ UNCHANGED <<cart, tick, slip, printed, missed>>
    BY <1>6 DEF TillFires
  <2>2. c \notin Tablets /\ New(c) \subseteq Mine(c) /\ Mine(c) \subseteq Lines
    BY <2>1, KotAssumption DEF New, Mine
  <2>5. ASSUME NEW d \in Clients
        PROVE  /\ Mine(d)' = Mine(d) /\ batch'[d] \subseteq Mine(d)
               /\ d # c => fire'[d] = fire[d] /\ batch'[d] = batch[d]
               /\ fire'[c] = "print"
    BY <2>1, <2>2 DEF TypeOK, Handles, Mine
  <2>3. CASE Upsert(c, TRUE) /\ UNCHANGED faults /\ fired' = [fired EXCEPT ![c] = Cart(c) \ stamped']
    <3>0. Cart(c) \subseteq items' \cap Mine(c) /\ Cart(c) \subseteq Lines
      BY <2>3 DEF Upsert, Cart, Mine
    <3>4. \A d \in Clients : d # c => items' \cap Mine(d) = items \cap Mine(d)
      BY <2>3 DEF Upsert, Cart, Mine
    <3>1. /\ fired' \in [Clients -> SUBSET Lines]
          /\ \A d \in Clients : fired'[d] \subseteq items' \cap Mine(d)
      <4>1. fired' \in [Clients -> SUBSET Lines]
        BY <2>3, <3>0 DEF TypeOK
      <4>2. fired'[c] \subseteq items' \cap Mine(c)
        BY <2>3, <3>0 DEF TypeOK
      <4>3. \A d \in Clients : d # c => fired'[d] = fired[d] /\ fired[d] \subseteq items \cap Mine(d)
        BY <2>3 DEF TypeOK, Handles
      <4> QED
        BY <3>4, <4>1, <4>2, <4>3
    <3>2. TypeOK'
      BY <2>1, <2>2, <2>3, <3>1, UpsertKeeps DEF TypeOK
    <3>3. \A d \in Clients : d # c => fired'[d] = fired[d]
      BY <2>3 DEF TypeOK
    <3> QED
      BY <2>1, <2>2, <2>3, <2>5, <3>1, <3>2, <3>3, UpsertKeeps DEF Handles
  <2>4. CASE LostUpsert(c, TRUE) /\ UNCHANGED fired
    <3>1. TypeOK'
      BY <2>1, <2>2, <2>4, LostUpsertKeeps DEF TypeOK
    <3> QED
      BY <2>1, <2>2, <2>4, <2>5, <3>1, LostUpsertKeeps DEF Handles
  <2> QED
    BY <1>6, <2>3, <2>4 DEF TillFires
<1>7. ASSUME NEW c \in Clients, TillPrints(c) PROVE TInv'
  BY <1>7 DEF TillPrints, TypeOK, Handles, server, relay, Mine
<1>8. ASSUME NEW c \in Clients, TillJams(c) PROVE TInv'
  <2>1. /\ Fault /\ FireEnds(c, FALSE) /\ UNCHANGED <<server, relay, printed>>
        /\ missed' = missed \cup batch[c]
    BY <1>8, Zenon DEF TillJams
  <2>2. faults' \in 0 .. MaxFaults
    BY <2>1, KotAssumption DEF Fault, TypeOK
  <2>3. /\ cart' \in [Lines -> {"no", "new", "sent"}]
        /\ fire' = [fire EXCEPT ![c] = "idle"]
        /\ batch' = [batch EXCEPT ![c] = {}]
        /\ fired' = [fired EXCEPT ![c] = {}]
    BY <2>1, FireEndsType
  <2> QED
    BY <2>1, <2>2, <2>3 DEF TypeOK, Handles, server, relay, Mine
<1>9. ASSUME NEW c \in Clients, TillAcks(c) PROVE TInv'
  <2>1. FireEnds(c, TRUE)
    BY <1>9, Zenon DEF TillAcks
  <2>4. /\ UNCHANGED faults \/ Fault
        /\ stamped' = stamped \cup fired[c] \/ stamped' = stamped
        /\ UNCHANGED <<status, items, sent, firedAt, upserts, relay, printed, missed>>
    BY <1>9, Zenon DEF TillAcks, MarkPrinted
  <2>2. stamped' \subseteq items
    BY <2>4 DEF TypeOK, Handles
  <2>5. faults' \in 0 .. MaxFaults
    BY <2>4, KotAssumption DEF Fault, TypeOK
  <2>3. /\ cart' \in [Lines -> {"no", "new", "sent"}]
        /\ fire' = [fire EXCEPT ![c] = "idle"]
        /\ batch' = [batch EXCEPT ![c] = {}]
        /\ fired' = [fired EXCEPT ![c] = {}]
    BY <2>1, FireEndsType
  <2> QED
    BY <2>2, <2>3, <2>4, <2>5 DEF TypeOK, Handles, relay, Mine
<1>10. ASSUME NEW t \in Tills, Poll(t) PROVE TInv'
  <2>1. PICK c \in Clients : slip' = [slip EXCEPT ![t] = Unprinted(c)]
                             /\ ids' = [ids EXCEPT ![t] = Unprinted(c)]
    BY <1>10 DEF Poll
  <2>2. Unprinted(c) \subseteq items
    BY DEF Unprinted, TypeOK
  <2> QED
    BY <1>10, <2>1, <2>2 DEF Poll, TypeOK, Handles, client, server, Mine
<1>11. ASSUME NEW t \in Tills, RelayPrints(t) PROVE TInv'
  BY <1>11 DEF RelayPrints, TypeOK, Handles, client, server, Mine
<1>12. ASSUME NEW t \in Tills, RelayJams(t) PROVE TInv'
  <2>1. faults' \in 0 .. MaxFaults /\ TickEnds(t) /\ UNCHANGED <<client, server, printed, missed>>
    BY <1>12, KotAssumption DEF RelayJams, Fault, TypeOK
  <2> QED
    BY <2>1, TickEndsType DEF TypeOK, Handles, client, server, Mine
<1>13. ASSUME NEW t \in Tills, RelayAcks(t) PROVE TInv'
  <2>1. /\ faults' \in 0 .. MaxFaults /\ TickEnds(t)
        /\ stamped' = stamped \cup ids[t] \/ stamped' = stamped
        /\ UNCHANGED <<client, status, items, sent, firedAt, upserts, printed, missed>>
    BY <1>13, KotAssumption DEF RelayAcks, MarkPrinted, Fault, TypeOK
  <2>2. stamped' \subseteq items
    BY <2>1 DEF TypeOK, Handles
  <2> QED
    BY <2>1, <2>2, TickEndsType DEF TypeOK, Handles, client, Mine
<1>14. CASE UNCHANGED vars
  BY <1>14 DEF vars, client, server, relay, TypeOK, Handles, Mine
<1> QED
  BY <1>1, <1>2, <1>3, <1>4, <1>5, <1>6, <1>7, <1>8, <1>9, <1>10, <1>11, <1>12, <1>13,
     <1>14 DEF Next

\* The model of the slips keeps its types: in particular, only items that exist
\* are ever stamped.
THEOREM TypeCorrect == Spec => []TypeOK
<1>1. TInv => TypeOK
  BY DEF TInv
<1> QED
  BY <1>1, InitTInv, StepTInv, PTL DEF Spec

-----------------------------------------------------------------------------
(* Where the stamps go                                                     *)

\* The lines that a client knows as sent.
Sent(c) == {l \in Mine(c) : cart[l] = "sent"}

\* The lines of a tablet's order are sent, and stamped, in the order of the cart:
\* what was sent comes before what was not, in the cart and in the snapshot; what the
\* tablet knows as sent is the beginning of what the server has as sent; and the
\* stamped lines are the beginning of that, because a relay takes all that is not
\* stamped.
InOrder(c) ==
    /\ \A l \in Sent(c), k \in New(c) : l < k
    /\ \A l \in sent \cap Mine(c), k \in (items \ sent) \cap Mine(c) : l < k
    /\ Sent(c) \subseteq sent
    /\ \A l \in Sent(c), k \in sent \cap Mine(c) : k < l => k \in Sent(c)
    /\ stamped \cap Mine(c) \subseteq sent
    /\ \A l \in stamped \cap Mine(c), k \in sent \cap Mine(c) : k < l => k \in stamped
    /\ \A t \in Tills :
          /\ ids[t] \cap Mine(c) \subseteq sent
          /\ ids[t] \cap Mine(c) # {} => sent \cap Mine(c) \subseteq ids[t] \cup stamped

\* A till puts more of a dish into its line, so a dish is on one line of its orders.
DishesDiffer(c) ==
    /\ \A k, l \in Cart(c) : Dish[k] = Dish[l] => k = l
    /\ \A k, l \in items \cap Mine(c) : Dish[k] = Dish[l] => k = l
    /\ batch[c] \subseteq Cart(c)

OInv ==
    /\ TInv
    /\ \A c \in Tablets : InOrder(c)
    /\ \A c \in Tills : DishesDiffer(c)

LEMMA CartIs ==
  ASSUME TypeOK, NEW c \in Clients
  PROVE  /\ Cart(c) \ New(c) = Sent(c) /\ Cart(c) = New(c) \cup Sent(c)
         /\ New(c) \cap Sent(c) = {}
         /\ Cart(c) \subseteq Mine(c) /\ Mine(c) \subseteq Lines /\ Lines \subseteq Nat
         /\ Carried(c) \subseteq Sent(c)
         /\ IsFiniteSet(Mine(c))
<1>1. /\ Cart(c) \ New(c) = Sent(c) /\ Cart(c) = New(c) \cup Sent(c)
      /\ New(c) \cap Sent(c) = {}
  BY DEF Cart, New, Sent, Mine, TypeOK
<1>2. Cart(c) \subseteq Mine(c) /\ Mine(c) \subseteq Lines /\ Lines \subseteq Nat
  BY KotAssumption DEF Cart, Mine
<1>3. Carried(c) \subseteq Sent(c)
  BY <1>1 DEF Carried
<1>4. IsFiniteSet(Mine(c))
  BY <1>2, KotAssumption, FS_Subset
<1> QED
  BY <1>1, <1>2, <1>3, <1>4

\* Stamps are counted, dish by dish: a line gets one back if fewer lines of its dish
\* come before it than have one.
Before(c, l) == {k \in Sent(c) : k < l /\ Dish[k] = Dish[l]}
Stamps(c, l) == {k \in stamped \cap Mine(c) : Dish[k] = Dish[l]}

LEMMA CarriedIs ==
  ASSUME TypeOK, NEW c \in Clients
  PROVE  /\ Carried(c) = {l \in Sent(c) : Cardinality(Before(c, l)) < Cardinality(Stamps(c, l))}
         /\ \A l \in Sent(c) :
               /\ IsFiniteSet(Before(c, l)) /\ Cardinality(Before(c, l)) \in Nat
               /\ IsFiniteSet(Stamps(c, l)) /\ Cardinality(Stamps(c, l)) \in Nat
<1>1. Carried(c) = {l \in Sent(c) : Cardinality(Before(c, l)) < Cardinality(Stamps(c, l))}
  BY CartIs DEF Carried, Before, Stamps
<1>2. ASSUME NEW l \in Sent(c)
      PROVE  /\ IsFiniteSet(Before(c, l)) /\ Cardinality(Before(c, l)) \in Nat
             /\ IsFiniteSet(Stamps(c, l)) /\ Cardinality(Stamps(c, l)) \in Nat
  <2>1. Before(c, l) \in SUBSET Mine(c) /\ Stamps(c, l) \in SUBSET Mine(c)
    BY DEF Before, Stamps, Sent
  <2>2. IsFiniteSet(Before(c, l)) /\ IsFiniteSet(Stamps(c, l))
    BY <2>1, CartIs, FS_Subset
  <2> QED
    BY <2>2, FS_CardinalityType
<1> QED
  BY <1>1, <1>2

\* A set is not smaller than one that it contains, and larger with one more element.
LEMMA Larger ==
  ASSUME NEW S, NEW T, IsFiniteSet(T), S \subseteq T
  PROVE  /\ Cardinality(S) <= Cardinality(T)
         /\ \A x \in T \ S : Cardinality(S) < Cardinality(T)
<1>1. IsFiniteSet(S) /\ Cardinality(S) <= Cardinality(T)
      /\ Cardinality(S) \in Nat /\ Cardinality(T) \in Nat
  BY FS_Subset, FS_CardinalityType
<1>2. ASSUME NEW x \in T \ S
      PROVE  Cardinality(S) < Cardinality(T)
  <2>1. S # T
    OBVIOUS
  <2>2. Cardinality(S) # Cardinality(T)
    BY <2>1, FS_Subset
  <2> QED
    BY <1>1, <2>2
<1> QED
  BY <1>1, <1>2

\* On a tablet's order every stamp goes back to the line that had it, however many
\* lines a dish is on.
LEMMA CarriedIsStamped ==
  ASSUME TypeOK, NEW c \in Tablets, InOrder(c)
  PROVE  Carried(c) = Sent(c) \cap stamped
<1>0. c \in Clients
  BY DEF Clients
<1>1. ASSUME NEW l \in Sent(c), l \in stamped
      PROVE  Cardinality(Before(c, l)) < Cardinality(Stamps(c, l))
  <2>1. l \in Stamps(c, l) \ Before(c, l) /\ l \in Nat
    BY <1>0, <1>1, CartIs DEF Stamps, Before, Sent
  <2>2. Before(c, l) \subseteq Stamps(c, l)
    BY <1>1 DEF Before, Stamps, Sent, InOrder
  <2> QED
    BY <1>0, <2>1, <2>2, CarriedIs, Larger
<1>2. ASSUME NEW l \in Sent(c), l \notin stamped
      PROVE  ~(Cardinality(Before(c, l)) < Cardinality(Stamps(c, l)))
  <2>1. Stamps(c, l) \subseteq Before(c, l)
    <3> SUFFICES ASSUME NEW k \in Stamps(c, l)
                 PROVE  k \in Before(c, l)
      OBVIOUS
    <3>1. k \in stamped /\ k \in Mine(c) /\ k \in sent /\ k \in Nat /\ Dish[k] = Dish[l]
      BY <1>0, CartIs DEF Stamps, InOrder
    <3>2. l \in sent /\ l \in Mine(c) /\ l \in Nat
      BY <1>0, CartIs DEF Sent, InOrder
    <3>3. k # l /\ ~(l < k)
      BY <1>2, <3>1, <3>2 DEF InOrder
    <3>4. k < l
      BY <3>1, <3>2, <3>3
    <3>5. k \in Sent(c)
      BY <3>1, <3>4 DEF InOrder
    <3> QED
      BY <3>1, <3>4, <3>5 DEF Before
  <2>2. Cardinality(Stamps(c, l)) <= Cardinality(Before(c, l))
    BY <1>0, <2>1, CarriedIs, Larger
  <2> QED
    BY <1>0, <2>2, CarriedIs
<1>3. Carried(c) = {l \in Sent(c) : Cardinality(Before(c, l)) < Cardinality(Stamps(c, l))}
  BY <1>0, CarriedIs
<1> QED
  BY <1>1, <1>2, <1>3

\* On any order a line that is sent and stamped keeps its stamp.
LEMMA StampsAreCarried ==
  ASSUME OInv, NEW c \in Clients
  PROVE  Sent(c) \cap stamped \subseteq Carried(c)
<1>1. CASE c \in Tablets
  BY <1>1, CarriedIsStamped DEF OInv, TInv
<1>2. CASE c \in Tills
  <2>1. ASSUME NEW l \in Sent(c), l \in stamped
        PROVE  Cardinality(Before(c, l)) < Cardinality(Stamps(c, l))
    <3>1. Before(c, l) = {}
      <4> SUFFICES ASSUME NEW k \in Before(c, l)
                   PROVE  FALSE
        OBVIOUS
      <4>1. k \in Cart(c) /\ l \in Cart(c) /\ Dish[k] = Dish[l] /\ k < l /\ k \in Nat
        BY CartIs DEF Before, OInv, TInv
      <4>2. k = l
        BY <1>2, <4>1 DEF OInv, DishesDiffer
      <4> QED
        BY <4>1, <4>2
    <3>2. l \in Stamps(c, l) \ Before(c, l) /\ Before(c, l) \subseteq Stamps(c, l)
      BY <2>1, <3>1 DEF Stamps, Sent
    <3> QED
      BY <3>2, CarriedIs, Larger DEF OInv, TInv
  <2> QED
    BY <2>1, CarriedIs DEF OInv, TInv
<1> QED
  BY <1>1, <1>2 DEF Clients

\* An order of one line has only one line to stamp.
LEMMA OneLineIsStamped ==
  ASSUME TypeOK, NEW c \in Clients, \A k, l \in Mine(c) : k = l
  PROVE  Carried(c) \subseteq stamped
<1> SUFFICES ASSUME NEW l \in Carried(c)
             PROVE  l \in stamped
  OBVIOUS
<1>1. l \in Sent(c) /\ Cardinality(Before(c, l)) < Cardinality(Stamps(c, l))
      /\ Cardinality(Before(c, l)) \in Nat
  BY CarriedIs
<1>2. Stamps(c, l) # {}
  BY <1>1, FS_EmptySet
<1>3. PICK k \in Stamps(c, l) : TRUE
  BY <1>2
<1> QED
  BY <1>1, <1>3 DEF Stamps, Sent

\* An order of which nothing changes, but that its lines may leave a relay's hands,
\* stays in order; so does one whose cart is cleared.
LEMMA OrderStays ==
  ASSUME NEW c \in Tablets, InOrder(c),
         \/ \A l \in Mine(c) : cart'[l] = cart[l]
         \/ \A l \in Mine(c) : cart'[l] = "no",
         items' \cap Mine(c) = items \cap Mine(c), sent' \cap Mine(c) = sent \cap Mine(c),
         stamped' \cap Mine(c) = stamped \cap Mine(c),
         \A t \in Tills : ids'[t] \cap Mine(c) \in {{}, ids[t] \cap Mine(c)}
  PROVE  InOrder(c)'
<1>1. /\ Mine(c)' = Mine(c)
      /\ \/ Sent(c)' = Sent(c) /\ New(c)' = New(c)
         \/ Sent(c)' = {} /\ New(c)' = {}
  BY DEF Sent, New, Mine
<1>2. Sent(c) \subseteq Mine(c)
  BY DEF Sent
<1>3. /\ \A l \in Sent(c)', k \in New(c)' : l < k
      /\ Sent(c)' \subseteq sent'
      /\ \A l \in Sent(c)', k \in sent' \cap Mine(c) : k < l => k \in Sent(c)'
  BY <1>1, <1>2 DEF InOrder
<1>4. \A l \in sent' \cap Mine(c), k \in (items' \ sent') \cap Mine(c) : l < k
  BY DEF InOrder
<1>5. /\ stamped' \cap Mine(c) \subseteq sent'
      /\ \A l \in stamped' \cap Mine(c), k \in sent' \cap Mine(c) : k < l => k \in stamped'
  BY DEF InOrder
<1>6. \A t \in Tills :
         /\ ids'[t] \cap Mine(c) \subseteq sent'
         /\ ids'[t] \cap Mine(c) # {} => sent' \cap Mine(c) \subseteq ids'[t] \cup stamped'
  BY DEF InOrder
<1> QED
  BY <1>1, <1>3, <1>4, <1>5, <1>6 DEF InOrder

\* Nobody's lines are somebody else's.
LEMMA NotMine ==
  ASSUME NEW c \in Clients, NEW d \in Clients, c # d
  PROVE  Mine(c) \cap Mine(d) = {}
BY DEF Mine

\* An upsert leaves the orders of others alone.
LEMMA UpsertOthers ==
  ASSUME TypeOK, NEW d \in Clients, NEW firing \in BOOLEAN, Upsert(d, firing),
         NEW c \in Clients, c # d
  PROVE  /\ items' \cap Mine(c) = items \cap Mine(c) /\ sent' \cap Mine(c) = sent \cap Mine(c)
         /\ stamped' \cap Mine(c) = stamped \cap Mine(c)
         /\ \A t \in Tills : ids'[t] \cap Mine(c) = ids[t] \cap Mine(c)
<1>1. /\ items' = (items \ Mine(d)) \cup Cart(d)
      /\ sent' = (sent \ Mine(d)) \cup Queued(d, firing)
      /\ stamped' = (stamped \ Mine(d)) \cup Carried(d)
      /\ ids' = [t \in Tills |-> ids[t] \ Mine(d)]
  BY DEF Upsert
<1>2. Cart(d) \subseteq Mine(d) /\ Queued(d, firing) \subseteq Mine(d) /\ Carried(d) \subseteq Mine(d)
  BY CartIs DEF Queued, Sent
<1>3. Mine(c) \cap Mine(d) = {}
  BY NotMine
<1> QED
  BY <1>1, <1>2, <1>3

\* A snapshot of a tablet's order is in order, whether its cart is cleared with it,
\* comes back with the answer, or stays because the answer is lost.
LEMMA UpsertOrder ==
  ASSUME TypeOK, NEW c \in Tablets, InOrder(c), NEW firing \in BOOLEAN, Upsert(c, firing),
         \/ \A l \in Mine(c) : cart'[l] = "no"
         \/ firing /\ \A l \in Mine(c) : cart'[l] = IF l \in Cart(c) THEN "sent" ELSE cart[l]
         \/ firing /\ \A l \in Mine(c) : cart'[l] = cart[l]
  PROVE  InOrder(c)'
<1> DEFINE S == Sent(c)
           N == New(c)
<1>0. c \in Clients
  BY DEF Clients
<1>1. /\ items' \cap Mine(c) = S \cup N
      /\ sent' \cap Mine(c) = IF firing THEN S \cup N ELSE S
      /\ stamped' \cap Mine(c) = S \cap stamped
      /\ \A t \in Tills : ids'[t] \cap Mine(c) = {}
  <2>1. /\ items' = (items \ Mine(c)) \cup Cart(c)
        /\ sent' = (sent \ Mine(c)) \cup Queued(c, firing)
        /\ stamped' = (stamped \ Mine(c)) \cup Carried(c)
        /\ ids' = [t \in Tills |-> ids[t] \ Mine(c)]
    BY DEF Upsert
  <2>2. Cart(c) = S \cup N /\ Cart(c) \ N = S /\ S \cup N \subseteq Mine(c)
    BY <1>0, CartIs
  <2>3. Carried(c) = S \cap stamped
    BY CarriedIsStamped
  <2>4. Queued(c, firing) = IF firing THEN S \cup N ELSE S
    BY <2>2 DEF Queued
  <2> QED
    BY <2>1, <2>2, <2>3, <2>4
<1>2. /\ Mine(c)' = Mine(c) /\ S \cap N = {} /\ S \cup N \subseteq Mine(c) /\ Mine(c) \subseteq Nat
  BY <1>0, CartIs DEF Mine
<1>3. \/ Sent(c)' = {} /\ New(c)' = {}
      \/ firing /\ Sent(c)' = S \cup N /\ New(c)' = {}
      \/ firing /\ Sent(c)' = S /\ New(c)' = N
  <2>1. CASE \A l \in Mine(c) : cart'[l] = "no"
    BY <1>2, <2>1 DEF Sent, New
  <2>2. CASE firing /\ \A l \in Mine(c) : cart'[l] = IF l \in Cart(c) THEN "sent" ELSE cart[l]
    <3>1. Cart(c) = {l \in Mine(c) : cart[l] # "no"} /\ Cart(c) = S \cup N
      BY <1>0, CartIs DEF Cart
    <3> QED
      BY <1>2, <2>2, <3>1 DEF Sent, New
  <2>3. CASE firing /\ \A l \in Mine(c) : cart'[l] = cart[l]
    BY <1>2, <2>3 DEF Sent, New
  <2> QED
    BY <2>1, <2>2, <2>3
<1>4. /\ \A l \in S, k \in N : l < k
      /\ S \subseteq sent
      /\ \A l \in stamped \cap Mine(c), k \in sent \cap Mine(c) : k < l => k \in stamped
  BY DEF InOrder
<1>5. \A l \in S, k \in N : ~(k < l)
  BY <1>2, <1>4
<1> HIDE DEF S, N
<1>6. /\ \A l \in Sent(c)', k \in New(c)' : l < k
      /\ Sent(c)' \subseteq sent'
      /\ \A l \in Sent(c)', k \in sent' \cap Mine(c) : k < l => k \in Sent(c)'
  BY <1>1, <1>2, <1>3, <1>4, <1>5
<1>7. \A l \in sent' \cap Mine(c), k \in (items' \ sent') \cap Mine(c) : l < k
  BY <1>1, <1>4
<1>8. stamped' \cap Mine(c) \subseteq sent'
  BY <1>1
<1>9. ASSUME NEW l \in stamped' \cap Mine(c), NEW k \in sent' \cap Mine(c), k < l
      PROVE  k \in stamped'
  <2>1. l \in S /\ l \in stamped /\ k \in S
    BY <1>1, <1>5, <1>9
  <2>2. k \in sent /\ k \in stamped
    BY <1>4, <1>9, <2>1
  <2> QED
    BY <1>1, <2>1, <2>2
<1> QED
  BY <1>1, <1>2, <1>6, <1>7, <1>8, <1>9 DEF InOrder

LEMMA InitOInv == Init => OInv
<1> SUFFICES ASSUME Init
             PROVE  OInv
  OBVIOUS
<1>1. \A c \in Clients : Sent(c) = {} /\ New(c) = {} /\ Cart(c) = {} /\ batch[c] = {}
  BY DEF Init, Sent, New, Cart, Mine
<1>2. items = {} /\ sent = {} /\ stamped = {} /\ \A t \in Tills : ids[t] = {}
  BY DEF Init
<1>3. \A c \in Tablets : InOrder(c)
  BY <1>1, <1>2 DEF InOrder, Clients
<1>4. \A c \in Tills : DishesDiffer(c)
  BY <1>1, <1>2 DEF DishesDiffer, Clients
<1> QED
  BY <1>3, <1>4, InitTInv DEF OInv

\* Every step keeps the orders of the tablets in order.
LEMMA StepInOrder ==
  ASSUME OInv, [Next]_vars, NEW c \in Tablets
  PROVE  InOrder(c)'
<1>0. TypeOK /\ InOrder(c) /\ c \in Clients /\ c \notin Tills
  BY KotAssumption DEF OInv, TInv, Clients
<1>1. ASSUME NEW l \in Lines, Add(l) \/ Remove(l) PROVE InOrder(c)'
  <2>1. CASE OrderOf[l] # c
    <3>1. \A k \in Mine(c) : k # l
      BY <2>1 DEF Mine
    <3>2. cart' = [cart EXCEPT ![l] = "new"] \/ cart' = [cart EXCEPT ![l] = "no"]
      BY <1>1 DEF Add, Remove
    <3>3. \A k \in Mine(c) : cart'[k] = cart[k]
      BY <1>0, <3>1, <3>2, CartIs DEF TypeOK
    <3> QED
      BY <1>0, <1>1, <3>3, OrderStays DEF Add, Remove, server, relay
  <2>2. CASE OrderOf[l] = c
    <3>1. /\ UNCHANGED <<items, sent, stamped, ids>> /\ Mine(c)' = Mine(c)
      BY <1>1 DEF Add, Remove, server, relay, Mine
    <3>2. CASE Add(l)
      <4>1. cart[l] = "no" /\ cart' = [cart EXCEPT ![l] = "new"] /\ \A k \in Cart(c) : k < l
        BY <2>2, <3>2 DEF Add
      <4>2. Sent(c)' = Sent(c) /\ New(c)' = New(c) \cup {l}
        BY <1>0, <2>2, <4>1 DEF Sent, New, Mine, TypeOK
      <4>3. \A k \in Sent(c) : k < l
        BY <1>0, <4>1, CartIs
      <4> QED
        BY <1>0, <3>1, <4>2, <4>3 DEF InOrder
    <3>3. CASE Remove(l)
      <4>1. cart[l] = "new" /\ cart' = [cart EXCEPT ![l] = "no"]
        BY <3>3 DEF Remove
      <4>2. Sent(c)' = Sent(c) /\ New(c)' \subseteq New(c)
        BY <1>0, <4>1 DEF Sent, New, Mine, TypeOK
      <4> QED
        BY <1>0, <3>1, <4>2 DEF InOrder
    <3> QED
      BY <1>1, <3>2, <3>3
  <2> QED
    BY <2>1, <2>2
<1>2. ASSUME NEW d \in Clients, Resume(d) PROVE InOrder(c)'
  <2>1. /\ cart' = [l \in Lines |-> IF OrderOf[l] # d THEN cart[l]
                                    ELSE IF l \in sent THEN "sent"
                                    ELSE IF l \in items THEN "new" ELSE "no"]
        /\ UNCHANGED <<items, sent, stamped, ids>>
    BY <1>2 DEF Resume, server, relay
  <2>2. CASE d # c
    <3>1. \A l \in Mine(c) : cart'[l] = cart[l]
      BY <2>1, <2>2 DEF Mine
    <3> QED
      BY <1>0, <2>1, <3>1, OrderStays
  <2>3. CASE d = c
    <3>1. /\ Mine(c)' = Mine(c) /\ Sent(c)' = sent \cap Mine(c)
          /\ New(c)' = (items \ sent) \cap Mine(c)
      BY <1>0, <2>1, <2>3 DEF Mine, Sent, New, TypeOK
    <3> QED
      BY <1>0, <2>1, <3>1 DEF InOrder
  <2> QED
    BY <2>2, <2>3
<1>3. ASSUME NEW d \in Clients, NEW firing \in BOOLEAN, d # c,
             Upsert(d, firing) \/ LostUpsert(d, firing), \A l \in Mine(c) : cart'[l] = cart[l]
      PROVE  InOrder(c)'
  <2>1. CASE Upsert(d, firing)
    BY <1>0, <1>3, <2>1, UpsertOthers, OrderStays
  <2>2. CASE UNCHANGED <<server, ids>>
    BY <1>0, <1>3, <2>2, OrderStays DEF server
  <2> QED
    BY <1>3, <2>1, <2>2 DEF LostUpsert
<1>4. ASSUME NEW d \in Clients, Save(d) PROVE InOrder(c)'
  <2>1. CASE d # c
    <3>1. \A l \in Mine(c) : cart'[l] = cart[l]
      BY <1>4, <2>1 DEF Save, ClearCart, Mine
    <3> QED
      BY <1>3, <1>4, <2>1, <3>1 DEF Save
  <2>2. CASE d = c
    <3>1. \A l \in Mine(c) : cart'[l] = "no"
      BY <1>4, <2>2 DEF Save, ClearCart, Mine
    <3>2. CASE Upsert(c, FALSE)
      BY <1>0, <3>1, <3>2, UpsertOrder
    <3>3. CASE UNCHANGED <<server, ids>>
      BY <1>0, <3>1, <3>3, OrderStays DEF server
    <3> QED
      BY <1>4, <2>2, <3>2, <3>3 DEF Save, LostUpsert
  <2> QED
    BY <2>1, <2>2
<1>5. ASSUME NEW d \in Clients, TabletFires(d) PROVE InOrder(c)'
  <2>1. CASE d # c
    <3>1. \A l \in Mine(c) : l \notin Cart(d)
      BY <2>1 DEF Mine, Cart
    <3>2. \A l \in Mine(c) : cart'[l] = cart[l]
      BY <1>5, <3>1 DEF TabletFires, Mine
    <3> QED
      BY <1>3, <1>5, <2>1, <3>2 DEF TabletFires
  <2>2. CASE d = c
    <3>1. CASE Upsert(c, TRUE) /\ cart' = [l \in Lines |-> IF l \in Cart(c) THEN "sent" ELSE cart[l]]
      <4>1. \A l \in Mine(c) : cart'[l] = IF l \in Cart(c) THEN "sent" ELSE cart[l]
        BY <3>1 DEF Mine
      <4> QED
        BY <1>0, <3>1, <4>1, UpsertOrder
    <3>2. CASE Upsert(c, TRUE) /\ UNCHANGED cart
      BY <1>0, <3>2, UpsertOrder
    <3>3. CASE UNCHANGED <<server, ids>> /\ UNCHANGED cart
      BY <1>0, <3>3, OrderStays DEF server
    <3> QED
      BY <1>5, <2>2, <3>1, <3>2, <3>3 DEF TabletFires, LostUpsert
  <2> QED
    BY <2>1, <2>2
<1>6. ASSUME NEW d \in Clients, TillFires(d) PROVE InOrder(c)'
  BY <1>0, <1>3, <1>6 DEF TillFires
<1>7. ASSUME NEW d \in Tills, NEW ok \in BOOLEAN, FireEnds(d, ok),
             UNCHANGED <<items, sent, ids>>, stamped' \in {stamped, stamped \cup fired[d]}
      PROVE  InOrder(c)'
  <2>1. d # c /\ d \in Clients
    BY <1>0 DEF Clients
  <2>2. fired[d] \subseteq Mine(d) /\ batch[d] \subseteq Mine(d) /\ Mine(c) \cap Mine(d) = {}
    BY <1>0, <2>1, NotMine DEF OInv, TInv, Handles
  <2>3. \A l \in Mine(c) : cart'[l] = cart[l]
    BY <1>7, <2>1, <2>2 DEF FireEnds, ClearCart, Mine
  <2>4. stamped' \cap Mine(c) = stamped \cap Mine(c)
    BY <1>7, <2>2
  <2> QED
    BY <1>0, <1>7, <2>3, <2>4, OrderStays
<1>8. ASSUME NEW d \in Clients, fire[d] # "idle" PROVE d \in Tills
  BY <1>8 DEF OInv, TInv, Handles, Clients
<1>9. ASSUME NEW d \in Clients, TillJams(d) PROVE InOrder(c)'
  <2>1. fire[d] = "print" /\ FireEnds(d, FALSE) /\ UNCHANGED <<server, relay>>
    BY <1>9, Zenon DEF TillJams
  <2> QED
    BY <1>7, <1>8, <2>1 DEF server, relay
<1>10. ASSUME NEW d \in Clients, TillAcks(d) PROVE InOrder(c)'
  <2>1. /\ fire[d] = "ack" /\ FireEnds(d, TRUE)
        /\ stamped' = stamped \cup fired[d] \/ stamped' = stamped
        /\ UNCHANGED <<items, sent, relay>>
    BY <1>10, Zenon DEF TillAcks, MarkPrinted
  <2> QED
    BY <1>7, <1>8, <2>1 DEF relay
<1>11. ASSUME UNCHANGED <<cart, items, sent, stamped>>,
              \A t \in Tills : ids'[t] \in {{}, ids[t]}
       PROVE  InOrder(c)'
  BY <1>0, <1>11, OrderStays
<1>12. ASSUME NEW d \in Clients, Served(d) \/ TillPrints(d) PROVE InOrder(c)'
  BY <1>11, <1>12 DEF Served, TillPrints, client, server, relay
<1>13. ASSUME NEW t \in Tills, Poll(t) PROVE InOrder(c)'
  <2>1. PICK d \in Clients : ids' = [ids EXCEPT ![t] = Unprinted(d)]
    BY <1>13 DEF Poll
  <2>2. UNCHANGED <<cart, items, sent, stamped>> /\ Mine(c)' = Mine(c)
    BY <1>13 DEF Poll, client, server, Mine
  <2>3. Sent(c)' = Sent(c) /\ New(c)' = New(c)
    BY <2>2 DEF Sent, New, Mine
  <2>4. Unprinted(d) \cap Mine(c) # {} => sent \cap Mine(c) \subseteq Unprinted(d) \cup stamped
    <3>1. d # c => Unprinted(d) \cap Mine(c) = {}
      BY <1>0, NotMine DEF Unprinted
    <3> QED
      BY <3>1 DEF Unprinted
  <2>5. ASSUME NEW s \in Tills
        PROVE  /\ ids'[s] \cap Mine(c) \subseteq sent
               /\ ids'[s] \cap Mine(c) # {} => sent \cap Mine(c) \subseteq ids'[s] \cup stamped
    <3>1. ids'[s] = IF s = t THEN Unprinted(d) ELSE ids[s]
      BY <1>0, <2>1 DEF TypeOK
    <3>2. Unprinted(d) \subseteq sent
      BY DEF Unprinted
    <3> QED
      BY <1>0, <2>4, <3>1, <3>2 DEF InOrder
  <2> QED
    BY <1>0, <2>2, <2>3, <2>5 DEF InOrder
<1>14. ASSUME NEW t \in Tills, RelayPrints(t) PROVE InOrder(c)'
  BY <1>11, <1>14 DEF RelayPrints, client, server
<1>15. ASSUME NEW t \in Tills, TickEnds(t) PROVE \A s \in Tills : ids'[s] \in {{}, ids[s]}
  BY <1>0, <1>15 DEF TickEnds, TypeOK
<1>16. ASSUME NEW t \in Tills, RelayJams(t) PROVE InOrder(c)'
  BY <1>11, <1>15, <1>16 DEF RelayJams, client, server
<1>17. ASSUME NEW t \in Tills, RelayAcks(t) PROVE InOrder(c)'
  <2>1. /\ stamped' = stamped \cup ids[t] \/ stamped' = stamped
        /\ UNCHANGED <<cart, items, sent>> /\ Mine(c)' = Mine(c)
        /\ \A s \in Tills : ids'[s] \in {{}, ids[s]}
    BY <1>15, <1>17 DEF RelayAcks, MarkPrinted, client, Mine
  <2>2. Sent(c)' = Sent(c) /\ New(c)' = New(c)
    BY <2>1 DEF Sent, New, Mine
  <2>3. CASE stamped' \cap Mine(c) = stamped \cap Mine(c)
    BY <1>0, <2>1, <2>3, OrderStays
  <2>4. CASE stamped' = stamped \cup ids[t] /\ ids[t] \cap Mine(c) # {}
    <3>1. sent \cap Mine(c) \subseteq stamped'
      BY <1>0, <2>4 DEF InOrder
    <3>2. stamped' \cap Mine(c) \subseteq sent
      <4>1. ids[t] \cap Mine(c) \subseteq sent
        BY <1>0 DEF InOrder
      <4> QED
        BY <1>0, <2>4, <4>1 DEF InOrder
    <3> QED
      BY <1>0, <2>1, <2>2, <3>1, <3>2 DEF InOrder
  <2> QED
    BY <2>1, <2>3, <2>4
<1>18. CASE UNCHANGED vars
  BY <1>11, <1>18 DEF vars, client, server, relay
<1> QED
  BY <1>1, <1>2, <1>4, <1>5, <1>6, <1>9, <1>10, <1>12, <1>13, <1>14, <1>16, <1>17, <1>18 DEF Next

\* A cart and a snapshot that have no line which neither had.
LEMMA DishesStay ==
  ASSUME NEW c \in Tills, DishesDiffer(c),
         Cart(c)' \subseteq Cart(c) \/ Cart(c)' \subseteq items \cap Mine(c),
         items' \cap Mine(c) \subseteq items \cap Mine(c) \/ items' \cap Mine(c) \subseteq Cart(c),
         batch'[c] \subseteq Cart(c)'
  PROVE  DishesDiffer(c)'
<1>1. Mine(c)' = Mine(c)
  BY DEF Mine
<1>2. \A k, l \in Cart(c)' : Dish[k] = Dish[l] => k = l
  BY DEF DishesDiffer
<1>3. \A k, l \in items' \cap Mine(c) : Dish[k] = Dish[l] => k = l
  BY DEF DishesDiffer
<1> QED
  BY <1>1, <1>2, <1>3 DEF DishesDiffer

LEMMA StepDishes ==
  ASSUME OInv, [Next]_vars, NEW c \in Tills
  PROVE  DishesDiffer(c)'
<1>0. TypeOK /\ DishesDiffer(c) /\ c \in Clients /\ c \notin Tablets
  BY KotAssumption DEF OInv, TInv, Clients
<1>a. Mine(c) \subseteq Lines /\ Cart(c) = {l \in Mine(c) : cart[l] # "no"}
      /\ Cart(c)' = {l \in Mine(c) : cart'[l] # "no"} /\ batch[c] \subseteq Cart(c)
  BY <1>0 DEF Cart, Mine, DishesDiffer
<1>1. ASSUME \A l \in Mine(c) : cart'[l] = cart[l],
             items' \cap Mine(c) = items \cap Mine(c), batch'[c] = batch[c]
      PROVE  DishesDiffer(c)'
  BY <1>0, <1>a, <1>1, DishesStay
<1>2. ASSUME NEW l \in Lines, Add(l) PROVE DishesDiffer(c)'
  <2>1. cart' = [cart EXCEPT ![l] = "new"] /\ UNCHANGED <<items, batch>>
    BY <1>2 DEF Add, server
  <2>2. CASE OrderOf[l] # c
    BY <1>0, <1>1, <2>1, <2>2 DEF Mine, TypeOK
  <2>3. CASE OrderOf[l] = c
    <3>1. \A k \in Cart(c) : Dish[k] # Dish[l]
      BY <1>0, <1>2, <2>3 DEF Add
    <3>2. Cart(c)' = Cart(c) \cup {l} /\ Mine(c)' = Mine(c)
      BY <1>0, <1>a, <2>1, <2>3 DEF Mine, TypeOK
    <3> QED
      BY <1>0, <2>1, <3>1, <3>2 DEF DishesDiffer
  <2> QED
    BY <2>2, <2>3
<1>3. ASSUME NEW l \in Lines, Remove(l) PROVE DishesDiffer(c)'
  <2>1. cart' = [cart EXCEPT ![l] = "no"] /\ UNCHANGED <<items, batch>>
        /\ fire[OrderOf[l]] = "idle"
    BY <1>3 DEF Remove, server
  <2>2. CASE OrderOf[l] # c
    BY <1>0, <1>1, <2>1, <2>2 DEF Mine, TypeOK
  <2>3. CASE OrderOf[l] = c
    <3>1. batch[c] = {}
      BY <1>0, <2>1, <2>3 DEF OInv, TInv, Handles
    <3>2. Cart(c)' \subseteq Cart(c)
      BY <1>0, <1>a, <2>1 DEF TypeOK
    <3> QED
      BY <1>0, <2>1, <3>1, <3>2, DishesStay
  <2> QED
    BY <2>2, <2>3
<1>4. ASSUME NEW d \in Clients, Resume(d) PROVE DishesDiffer(c)'
  <2>1. /\ cart' = [l \in Lines |-> IF OrderOf[l] # d THEN cart[l]
                                    ELSE IF l \in sent THEN "sent"
                                    ELSE IF l \in items THEN "new" ELSE "no"]
        /\ fire[d] = "idle" /\ UNCHANGED <<items, batch>>
    BY <1>4 DEF Resume, server
  <2>2. CASE d # c
    BY <1>1, <2>1, <2>2 DEF Mine
  <2>3. CASE d = c
    <3>1. batch[c] = {}
      BY <1>0, <2>1, <2>3 DEF OInv, TInv, Handles
    <3>2. Cart(c)' \subseteq items \cap Mine(c)
      BY <1>0, <1>a, <2>1, <2>3 DEF Mine, TypeOK
    <3> QED
      BY <1>0, <2>1, <3>1, <3>2, DishesStay
  <2> QED
    BY <2>2, <2>3
<1>5. ASSUME NEW d \in Clients, NEW firing \in BOOLEAN, Upsert(d, firing) \/ LostUpsert(d, firing)
      PROVE  \/ items' \cap Mine(c) = items \cap Mine(c)
             \/ d = c /\ items' \cap Mine(c) = Cart(c)
  <2>1. CASE Upsert(d, firing) /\ d # c
    BY <1>0, <2>1, UpsertOthers
  <2>2. CASE Upsert(d, firing) /\ d = c
    BY <1>a, <2>2 DEF Upsert
  <2>3. CASE UNCHANGED <<server, ids>>
    BY <2>3 DEF server
  <2> QED
    BY <1>5, <2>1, <2>2, <2>3 DEF LostUpsert
<1>6. ASSUME NEW d \in Clients, Save(d) PROVE DishesDiffer(c)'
  <2>1. /\ fire[d] = "idle" /\ UNCHANGED batch
        /\ ClearCart(d) \/ UNCHANGED cart
        /\ Upsert(d, FALSE) \/ LostUpsert(d, FALSE)
    BY <1>6 DEF Save
  <2>2. CASE d # c
    <3>1. \A l \in Mine(c) : cart'[l] = cart[l]
      BY <2>1, <2>2 DEF ClearCart, Mine
    <3> QED
      BY <1>1, <1>5, <2>1, <2>2, <3>1
  <2>3. CASE d = c
    <3>1. batch[c] = {}
      BY <1>0, <2>1, <2>3 DEF OInv, TInv, Handles
    <3>2. Cart(c)' \subseteq Cart(c)
      BY <1>a, <2>1 DEF ClearCart
    <3> QED
      BY <1>0, <1>5, <2>1, <2>3, <3>1, <3>2, DishesStay
  <2> QED
    BY <2>2, <2>3
<1>7. ASSUME NEW d \in Clients, TabletFires(d) PROVE DishesDiffer(c)'
  <2>1. /\ d # c /\ UNCHANGED batch
        /\ Upsert(d, TRUE) \/ LostUpsert(d, TRUE)
        /\ \/ cart' = [l \in Lines |-> IF l \in Cart(d) THEN "sent" ELSE cart[l]]
           \/ UNCHANGED cart
    BY <1>0, <1>7 DEF TabletFires
  <2>2. \A l \in Mine(c) : l \notin Cart(d)
    BY <2>1 DEF Cart, Mine
  <2>3. \A l \in Mine(c) : cart'[l] = cart[l]
    BY <1>a, <2>1, <2>2
  <2> QED
    BY <1>1, <1>5, <2>1, <2>3
<1>8. ASSUME NEW d \in Clients, TillFires(d) PROVE DishesDiffer(c)'
  <2>1. /\ UNCHANGED cart /\ batch' = [batch EXCEPT ![d] = New(d)]
        /\ Upsert(d, TRUE) \/ LostUpsert(d, TRUE)
    BY <1>8 DEF TillFires
  <2>2. batch'[c] = batch[c] \/ batch'[c] = New(c)
    BY <1>0, <2>1 DEF TypeOK
  <2>3. New(c) \subseteq Cart(c) /\ Cart(c)' = Cart(c)
    BY <1>0, <1>a, <2>1, CartIs
  <2> QED
    BY <1>0, <1>5, <1>a, <2>1, <2>2, <2>3, DishesStay
<1>9. ASSUME NEW d \in Clients, NEW ok \in BOOLEAN, FireEnds(d, ok), UNCHANGED items
      PROVE  DishesDiffer(c)'
  <2>1. batch' = [batch EXCEPT ![d] = {}] /\ batch[d] \subseteq Mine(d)
    BY <1>9 DEF FireEnds, OInv, TInv, Handles
  <2>2. CASE d # c
    <3>1. \A l \in Mine(c) : cart'[l] = cart[l]
      <4>1. \A l \in Mine(c) : l \notin batch[d] /\ OrderOf[l] # d
        BY <2>1, <2>2 DEF Mine
      <4> QED
        BY <1>9, <1>a, <4>1 DEF FireEnds, ClearCart
    <3>2. batch'[c] = batch[c]
      BY <1>0, <2>1, <2>2 DEF TypeOK
    <3> QED
      BY <1>1, <1>9, <3>1, <3>2
  <2>3. CASE d = c
    <3>1. batch'[c] = {}
      BY <1>0, <2>1, <2>3 DEF TypeOK
    <3>2. Cart(c)' \subseteq Cart(c)
      BY <1>9, <1>a, <2>3 DEF FireEnds, ClearCart
    <3> QED
      BY <1>0, <1>9, <3>1, <3>2, DishesStay
  <2> QED
    BY <2>2, <2>3
<1>10. ASSUME NEW d \in Clients, TillJams(d) PROVE DishesDiffer(c)'
  <2>1. FireEnds(d, FALSE) /\ UNCHANGED server
    BY <1>10, Zenon DEF TillJams
  <2> QED
    BY <1>9, <2>1 DEF server
<1>11. ASSUME NEW d \in Clients, TillAcks(d) PROVE DishesDiffer(c)'
  <2>1. FireEnds(d, TRUE) /\ UNCHANGED items
    BY <1>11, Zenon DEF TillAcks
  <2> QED
    BY <1>9, <2>1
<1>12. CASE UNCHANGED <<cart, items, batch>>
  BY <1>1, <1>12
<1>13. ASSUME NEW d \in Clients, Served(d) \/ TillPrints(d) PROVE UNCHANGED <<cart, items, batch>>
  BY <1>13 DEF Served, TillPrints, client, server
<1>14. ASSUME NEW t \in Tills, Poll(t) \/ RelayPrints(t) \/ RelayJams(t) \/ RelayAcks(t)
       PROVE  UNCHANGED <<cart, items, batch>>
  BY <1>14 DEF Poll, RelayPrints, RelayJams, RelayAcks, client, server
<1>15. UNCHANGED vars => UNCHANGED <<cart, items, batch>>
  BY DEF vars, client, server
<1> QED
  BY <1>2, <1>3, <1>4, <1>6, <1>7, <1>8, <1>10, <1>11, <1>12, <1>13, <1>14, <1>15 DEF Next

LEMMA StepOInv == OInv /\ [Next]_vars => OInv'
BY StepTInv, StepInOrder, StepDishes DEF OInv

-----------------------------------------------------------------------------
(* What is stamped is printed                                              *)

\* A line that is on a slip, or whose own till failed to print it; or the slip is the
\* one its till is about to print.
Known == printed \cup missed
Slipped(l) == l \in Known \/ (fire[OrderOf[l]] = "print" /\ l \in batch[OrderOf[l]])

\* What a till knows as sent, or has told the server, is slipped; and what anybody
\* will acknowledge is by then on a slip or missed.
Printing ==
    /\ \A l \in Lines : OrderOf[l] \in Tills /\ cart[l] = "sent" => l \in Known
    /\ \A l \in sent : OrderOf[l] \in Tills => Slipped(l)
    /\ \A c \in Clients :
          /\ fire[c] = "print" => fired[c] \subseteq Known \cup batch[c]
          /\ fire[c] = "ack" => fired[c] \cup batch[c] \subseteq Known
    /\ \A t \in Tills : tick[t] = "ack" => ids[t] \subseteq Known

SInv == OInv /\ Printing /\ StampedIsPrinted

LEMMA UpsertPrints ==
  ASSUME SInv, NEW c \in Clients, NEW firing \in BOOLEAN, fire[c] = "idle",
         Upsert(c, firing) \/ LostUpsert(c, firing)
  PROVE  /\ stamped' \subseteq Known
         /\ \A l \in sent' : OrderOf[l] \in Tills =>
               Slipped(l) \/ l \in Queued(c, firing) \cap New(c)
         /\ \A t \in Tills : ids'[t] \subseteq ids[t]
<1>1. CASE Upsert(c, firing)
  <2>1. stamped' = (stamped \ Mine(c)) \cup Carried(c)
        /\ sent' = (sent \ Mine(c)) \cup Queued(c, firing)
        /\ ids' = [t \in Tills |-> ids[t] \ Mine(c)]
    BY <1>1 DEF Upsert
  <2>2. Carried(c) \subseteq Known
    <3>1. CASE c \in Tablets
      BY <3>1, CarriedIsStamped DEF SInv, OInv, TInv, StampedIsPrinted, Known
    <3>2. CASE c \in Tills
      <4>1. Carried(c) \subseteq Sent(c) /\ Sent(c) \subseteq Lines
        BY CartIs DEF SInv, OInv, TInv, Sent
      <4> QED
        BY <3>2, <4>1 DEF Sent, Mine, SInv, Printing, Known
    <3> QED
      BY <3>1, <3>2 DEF Clients
  <2>3. \A l \in Cart(c) : l \in Lines /\ (cart[l] = "sent" \/ l \in New(c))
    BY DEF Cart, New, Mine, SInv, OInv, TInv, TypeOK
  <2>4. Queued(c, firing) \subseteq Cart(c)
    BY DEF Queued
  <2>5. stamped' \subseteq Known
    BY <2>1, <2>2 DEF SInv, StampedIsPrinted, Known
  <2>6. ASSUME NEW l \in sent', OrderOf[l] \in Tills
        PROVE  Slipped(l) \/ l \in Queued(c, firing) \cap New(c)
    BY <2>1, <2>3, <2>4, <2>6 DEF SInv, Printing, Slipped, Known
  <2> QED
    BY <2>1, <2>5, <2>6
<1>2. CASE UNCHANGED <<server, ids>>
  <2>1. stamped' = stamped /\ sent' = sent /\ ids' = ids
    BY <1>2 DEF server
  <2> QED
    BY <2>1 DEF SInv, StampedIsPrinted, Printing, Known
<1> QED
  BY <1>1, <1>2 DEF LostUpsert

LEMMA InitSInv == Init => SInv
BY InitOInv DEF Init, SInv, Printing, StampedIsPrinted, Slipped, Known

\* An upsert while its client is idle, which leaves the printers alone.
LEMMA SnapshotKeepsPrinting ==
  ASSUME SInv, NEW c \in Clients, NEW firing \in BOOLEAN, fire[c] = "idle",
         Upsert(c, firing) \/ LostUpsert(c, firing),
         UNCHANGED <<fire, batch, fired, tick, slip, printed, missed>>,
         c \in Tills => Queued(c, firing) \cap New(c) = {},
         \A l \in Lines : OrderOf[l] \in Tills /\ cart'[l] = "sent" => cart[l] = "sent"
  PROVE  Printing' /\ StampedIsPrinted'
<1>1. \A l \in New(c) : OrderOf[l] = c
  BY DEF New, Mine
<1>2. \A l \in sent' : OrderOf[l] \in Tills => Slipped(l)
  BY <1>1, UpsertPrints DEF Clients
<1>3. \A l \in sent' : OrderOf[l] \in Tills => Slipped(l)'
  BY <1>2 DEF Slipped, Known
<1>4. stamped' \subseteq Known' /\ \A t \in Tills : ids'[t] \subseteq ids[t]
  BY UpsertPrints DEF Known
<1> QED
  BY <1>3, <1>4 DEF Printing, Known, StampedIsPrinted, SInv

LEMMA StepSInv ==
  ASSUME SInv, [Next]_vars
  PROVE  SInv'
<1>1. OInv' /\ TInv'
  BY StepOInv DEF SInv, OInv
<1> SUFFICES Printing' /\ StampedIsPrinted'
  BY <1>1 DEF SInv
<1>2. ASSUME NEW l \in Lines, Add(l) \/ Remove(l) PROVE Printing' /\ StampedIsPrinted'
  BY <1>2 DEF Add, Remove, SInv, OInv, TInv, TypeOK, Printing, Slipped, Known, StampedIsPrinted, server,
     relay
<1>3. ASSUME NEW c \in Clients, Resume(c) PROVE Printing' /\ StampedIsPrinted'
  <2>1. UNCHANGED <<fire, batch, fired, sent, stamped, tick, ids, printed, missed>>
    BY <1>3 DEF Resume, server, relay
  <2>2. ASSUME NEW l \in Lines, OrderOf[l] \in Tills, cart'[l] = "sent" PROVE l \in Known
    <3>1. CASE OrderOf[l] = c
      <4>1. fire[c] = "idle" /\ l \in sent
        BY <1>3, <2>2, <3>1 DEF Resume
      <4> QED
        BY <2>2, <3>1, <4>1 DEF SInv, Printing, Slipped, Known
    <3>2. CASE OrderOf[l] # c
      BY <1>3, <2>2, <3>2 DEF Resume, SInv, Printing, Known
    <3> QED
      BY <3>1, <3>2
  <2> QED
    BY <2>1, <2>2 DEF SInv, Printing, Slipped, Known, StampedIsPrinted
<1>4. ASSUME NEW c \in Clients, Save(c) PROVE Printing' /\ StampedIsPrinted'
  <2>1. /\ fire[c] = "idle" /\ UNCHANGED <<fire, batch, fired, tick, slip, printed, missed>>
        /\ Upsert(c, FALSE) \/ LostUpsert(c, FALSE)
        /\ ClearCart(c) \/ UNCHANGED cart
    BY <1>4 DEF Save
  <2>2. Queued(c, FALSE) \cap New(c) = {}
    BY DEF Queued
  <2>3. \A l \in Lines : cart'[l] = "sent" => cart[l] = "sent"
    BY <2>1 DEF ClearCart
  <2> QED
    BY <2>1, <2>2, <2>3, SnapshotKeepsPrinting
<1>5. ASSUME NEW c \in Clients, Served(c) PROVE Printing' /\ StampedIsPrinted'
  BY <1>5 DEF Served, SInv, Printing, Slipped, Known, StampedIsPrinted, client, relay
<1>6. ASSUME NEW c \in Clients, TabletFires(c) PROVE Printing' /\ StampedIsPrinted'
  <2>1. /\ c \in Tablets /\ c \notin Tills
        /\ fire[c] = "idle" /\ UNCHANGED <<fire, batch, fired, tick, slip, printed, missed>>
        /\ Upsert(c, TRUE) \/ LostUpsert(c, TRUE)
    BY <1>6, KotAssumption DEF TabletFires, SInv, OInv, TInv, Handles
  <2>2. \A l \in Lines : OrderOf[l] \in Tills /\ cart'[l] = "sent" => cart[l] = "sent"
    BY <1>6, <2>1 DEF TabletFires, Cart, Mine
  <2> QED
    BY <2>1, <2>2, SnapshotKeepsPrinting
<1>7. ASSUME NEW c \in Clients, TillFires(c) PROVE Printing' /\ StampedIsPrinted'
  <2>1. /\ fire[c] = "idle" /\ fire' = [fire EXCEPT ![c] = "print"]
        /\ batch' = [batch EXCEPT ![c] = New(c)]
        /\ UNCHANGED <<cart, tick, slip, printed, missed>>
        /\ Upsert(c, TRUE) \/ LostUpsert(c, TRUE)
        /\ fired' = fired \/ fired' = [fired EXCEPT ![c] = Cart(c) \ stamped']
        /\ c \in Tills
    BY <1>7 DEF TillFires
  <2>2. stamped' \subseteq Known /\ \A t \in Tills : ids'[t] \subseteq ids[t]
    BY <2>1, UpsertPrints
  <2>3. \A l \in New(c) : OrderOf[l] = c
    BY DEF New, Mine
  <2>4. fire \in [Clients -> {"idle", "print", "ack"}] /\ batch \in [Clients -> SUBSET Lines]
        /\ fired \in [Clients -> SUBSET Lines] /\ sent' \subseteq Lines
    BY <1>1 DEF SInv, OInv, TInv, TypeOK
  <2>5. ASSUME NEW l \in sent', OrderOf[l] \in Tills PROVE Slipped(l)'
    <3>1. Slipped(l) \/ l \in New(c)
      BY <2>1, <2>5, UpsertPrints
    <3>2. CASE l \in New(c)
      BY <2>1, <2>3, <2>4, <3>2 DEF Slipped, Known
    <3>3. CASE Slipped(l)
      <4>1. OrderOf[l] \in Clients
        BY <2>4, KotAssumption
      <4> QED
        BY <2>1, <2>4, <3>3, <4>1 DEF Slipped, Known
    <3> QED
      BY <3>1, <3>2, <3>3
  <2>6. fired[c] = {}
    BY <2>1 DEF SInv, OInv, TInv, Handles
  <2>7. Cart(c) \subseteq Known \cup New(c)
    <3>1. Cart(c) = New(c) \cup Sent(c) /\ Sent(c) \subseteq Mine(c) /\ Mine(c) \subseteq Lines
      BY CartIs DEF SInv, OInv, TInv, Sent
    <3> QED
      BY <2>1, <3>1 DEF Sent, Mine, SInv, Printing, Known
  <2>8. \A d \in Clients :
           /\ fire'[d] = "print" => fired'[d] \subseteq Known' \cup batch'[d]
           /\ fire'[d] = "ack" => fired'[d] \cup batch'[d] \subseteq Known'
    BY <2>1, <2>4, <2>6, <2>7 DEF SInv, Printing, Known
  <2> QED
    BY <2>1, <2>2, <2>5, <2>8 DEF SInv, Printing, Known, StampedIsPrinted
<1>8. ASSUME NEW c \in Clients, TillPrints(c) PROVE Printing' /\ StampedIsPrinted'
  <2>1. /\ fire[c] = "print" /\ fire' = [fire EXCEPT ![c] = "ack"]
        /\ printed' = printed \cup batch[c]
        /\ UNCHANGED <<cart, batch, fired, sent, stamped, tick, ids, missed>>
    BY <1>8 DEF TillPrints, server, relay
  <2>2. Known' = Known \cup batch[c]
    BY <2>1 DEF Known
  <2>3. ASSUME NEW l \in sent, OrderOf[l] \in Tills PROVE Slipped(l)'
    <3>1. OrderOf[l] \in Clients /\ Slipped(l)
      BY <2>3, KotAssumption DEF SInv, OInv, TInv, TypeOK, Printing
    <3>2. CASE OrderOf[l] = c
      BY <2>2, <3>1, <3>2 DEF Slipped
    <3>3. CASE OrderOf[l] # c
      BY <2>1, <2>2, <3>1, <3>3 DEF Slipped, SInv, OInv, TInv, TypeOK
    <3> QED
      BY <3>2, <3>3
  <2>4. stamped' \subseteq printed' \cup missed'
    BY <2>1 DEF SInv, StampedIsPrinted
  <2> QED
    BY <2>1, <2>2, <2>3, <2>4 DEF SInv, OInv, TInv, TypeOK, Printing, StampedIsPrinted
<1>9. ASSUME NEW c \in Clients, TillJams(c) PROVE Printing' /\ StampedIsPrinted'
  <2>1. /\ fire[c] = "print" /\ FireEnds(c, FALSE) /\ UNCHANGED <<server, relay, printed>>
        /\ missed' = missed \cup batch[c]
    BY <1>9, Zenon DEF TillJams
  <2>2. Known' = Known \cup batch[c]
    BY <2>1 DEF Known
  <2>3. /\ fire' = [fire EXCEPT ![c] = "idle"]
        /\ batch' = [batch EXCEPT ![c] = {}]
        /\ fired' = [fired EXCEPT ![c] = {}]
    BY <2>1, FireEndsType DEF SInv, OInv
  <2>4. \A l \in Lines : cart'[l] = "sent" => cart[l] = "sent"
    BY <2>1 DEF FireEnds, ClearCart
  <2>5. ASSUME NEW l \in sent, OrderOf[l] \in Tills PROVE Slipped(l)'
    <3>1. OrderOf[l] \in Clients /\ Slipped(l)
      BY <2>5, KotAssumption DEF SInv, OInv, TInv, TypeOK, Printing
    <3>2. CASE OrderOf[l] = c
      BY <2>2, <3>1, <3>2 DEF Slipped
    <3>3. CASE OrderOf[l] # c
      BY <2>2, <2>3, <3>1, <3>3 DEF Slipped, SInv, OInv, TInv, TypeOK
    <3> QED
      BY <3>2, <3>3
  <2>6. UNCHANGED <<sent, stamped, tick, ids>>
    BY <2>1 DEF server, relay
  <2>7. stamped' \subseteq printed' \cup missed'
    BY <2>1, <2>6 DEF SInv, StampedIsPrinted
  <2> QED
    BY <2>2, <2>3, <2>4, <2>5, <2>6, <2>7
       DEF SInv, OInv, TInv, TypeOK, Printing, StampedIsPrinted
<1>10. ASSUME NEW c \in Clients, TillAcks(c) PROVE Printing' /\ StampedIsPrinted'
  <2>1. FireEnds(c, TRUE)
    BY <1>10, Zenon DEF TillAcks
  <2>2. /\ fire[c] = "ack"
        /\ stamped' = stamped \cup fired[c] \/ stamped' = stamped
        /\ UNCHANGED <<sent, tick, ids, printed, missed>>
    BY <1>10, Zenon DEF TillAcks, MarkPrinted, relay
  <2>3. /\ fire' = [fire EXCEPT ![c] = "idle"]
        /\ batch' = [batch EXCEPT ![c] = {}]
        /\ fired' = [fired EXCEPT ![c] = {}]
    BY <2>1, FireEndsType DEF SInv, OInv
  <2>4. fired[c] \cup batch[c] \subseteq Known
    BY <2>2 DEF SInv, Printing, Known
  <2>5. \A l \in Lines : cart'[l] = "sent" => cart[l] = "sent" \/ l \in batch[c]
    BY <2>1 DEF FireEnds, ClearCart
  <2>6. ASSUME NEW l \in sent, OrderOf[l] \in Tills PROVE Slipped(l)'
    <3>1. OrderOf[l] \in Clients /\ Slipped(l)
      BY <2>6, KotAssumption DEF SInv, OInv, TInv, TypeOK, Printing, Known
    <3> QED
      BY <2>2, <2>3, <3>1 DEF Slipped, Known, SInv, OInv, TInv, TypeOK
  <2> QED
    BY <2>2, <2>3, <2>4, <2>5, <2>6 DEF SInv, OInv, TInv, TypeOK, Printing, Known, StampedIsPrinted
<1>11. ASSUME NEW t \in Tills, Poll(t) PROVE Printing' /\ StampedIsPrinted'
  BY <1>11 DEF Poll, client, server, SInv, OInv, TInv, TypeOK, Printing, Slipped, Known, StampedIsPrinted
<1>12. ASSUME NEW t \in Tills, RelayPrints(t) PROVE Printing' /\ StampedIsPrinted'
  <2>1. /\ printed' = printed \cup slip[t] /\ tick' = [tick EXCEPT ![t] = "ack"]
        /\ UNCHANGED missed
        /\ UNCHANGED <<cart, fire, batch, fired, sent, stamped, ids>>
    BY <1>12 DEF RelayPrints, client, server
  <2>2. ids[t] \subseteq slip[t]
    BY DEF SInv, OInv, TInv, Handles
  <2> QED
    BY <2>1, <2>2 DEF SInv, OInv, TInv, TypeOK, Printing, Slipped, Known, StampedIsPrinted
<1>13. ASSUME NEW t \in Tills, RelayJams(t) PROVE Printing' /\ StampedIsPrinted'
  BY <1>13 DEF RelayJams, TickEnds, client, server, SInv, OInv, TInv, TypeOK, Printing, Slipped, Known,
     StampedIsPrinted
<1>14. ASSUME NEW t \in Tills, RelayAcks(t) PROVE Printing' /\ StampedIsPrinted'
  <2>1. /\ tick[t] = "ack" /\ TickEnds(t)
        /\ stamped' = stamped \cup ids[t] \/ stamped' = stamped
        /\ UNCHANGED <<cart, fire, batch, fired, sent, printed, missed>>
    BY <1>14 DEF RelayAcks, MarkPrinted, client
  <2> QED
    BY <2>1 DEF TickEnds, SInv, OInv, TInv, TypeOK, Printing, Slipped, Known, StampedIsPrinted
<1>15. CASE UNCHANGED vars
  BY <1>15 DEF vars, client, server, relay, SInv, Printing, Slipped, Known, StampedIsPrinted
<1> QED
  BY <1>2, <1>3, <1>4, <1>5, <1>6, <1>7, <1>8, <1>9, <1>10, <1>11, <1>12, <1>13, <1>14,
     <1>15 DEF Next

\* A line is stamped as printed only if it is on a slip or its own till failed to
\* print it, whatever requests and acknowledgements are lost, however relays and
\* printers fail and however many lines a dish is on: only the till that missed a
\* line takes it out of the kitchen's queue, with a later acknowledgement.
THEOREM StampsAreTrue == Spec => []StampedIsPrinted
<1>1. SInv /\ [Next]_vars => SInv'
  BY StepSInv
<1>2. SInv => StampedIsPrinted
  BY DEF SInv
<1> QED
  BY <1>1, <1>2, InitSInv, PTL DEF Spec

\* Every line that its client knows as sent keeps its stamp through every snapshot,
\* from whatever till or tablet and with any number of lines of a dish: counting the
\* stamps dish by dish gives each back to the line that had it.
THEOREM StampsAreKept == Spec => StampsSurvive
<1>1. ASSUME OInv, [Next]_vars
      PROVE  [\A l \in stamped : cart[l] = "sent" => l \in stamped']_vars
  <2>1. ASSUME NEW c \in Clients, NEW firing \in BOOLEAN, Upsert(c, firing),
               NEW l \in stamped, cart[l] = "sent"
        PROVE  l \in stamped'
    <3>1. l \in Lines
      BY <1>1 DEF OInv, TInv, TypeOK
    <3>2. CASE l \in Mine(c)
      <4>1. l \in Sent(c)
        BY <2>1, <3>2 DEF Sent
      <4> QED
        BY <1>1, <2>1, <4>1, StampsAreCarried DEF Upsert
    <3>3. CASE l \notin Mine(c)
      BY <2>1, <3>3 DEF Upsert
    <3> QED
      BY <3>2, <3>3
  <2>2. ASSUME NEW c \in Clients, NEW firing \in BOOLEAN,
               Upsert(c, firing) \/ LostUpsert(c, firing), NEW l \in stamped, cart[l] = "sent"
        PROVE  l \in stamped'
    BY <2>1, <2>2 DEF LostUpsert, server
  <2>3. ASSUME NEW c \in Clients, Save(c) \/ TabletFires(c) \/ TillFires(c)
        PROVE  \A l \in stamped : cart[l] = "sent" => l \in stamped'
    BY <2>2, <2>3 DEF Save, TabletFires, TillFires
  <2>4. ASSUME Next, ~ \E c \in Clients : Save(c) \/ TabletFires(c) \/ TillFires(c)
        PROVE  stamped \subseteq stamped'
    BY <2>4 DEF Next, Add, Remove, Resume, Served, TillPrints, TillJams, TillAcks, Poll,
                RelayPrints, RelayJams, RelayAcks, MarkPrinted, client, server
  <2> QED
    BY <1>1, <2>3, <2>4
<1> QED
  BY <1>1, InitOInv, StepOInv, PTL DEF Spec, StampsSurvive
=============================================================================
