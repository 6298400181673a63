--------------------------- MODULE OpenOrderProofs ---------------------------
(***************************************************************************)
(* The open order for any number of requests, whatever overlaps.           *)
(***************************************************************************)
EXTENDS OpenOrder, TLAPS

\* Who settles, replaces the lines of or voids a closed order, or puts back a
\* row that was not fired, has been overtaken by the close or the fire.
InTime ==
    \A r \in Requests :
        /\ kind[r] \in Guarded /\ "closed" \notin late[r] => ~ Closed
        /\ kind[r] \in {"save", "charge"} /\ "fired" \notin late[r] =>
               (row.fired => seen[r].fired)

\* Whoever does not make the row has found it.
InBook == \A r \in Requests : kind[r] \notin Upserts \cup {"charge", "idle"} => row.there

\* Settling an order closes it, so a second settlement needs one that opened it
\* or came late.
Accounts ==
    /\ pays + count["unpaid"] + (IF Closed THEN 0 ELSE 1) <= 1 + count["overtaken"] + count["rehung"]
    /\ moved <= pays + count["unpaid"]

\* The lines of a sale are there when it has left stock.
SaleLines == count["overtaken"] + count["rehung"] = 0 /\ moved = 0 => lines # "sale"

Parts == Accounts /\ ClosedIsPaid /\ ChargedIsWhole /\ SaleLines
OInv == TypeOK /\ InTime /\ InBook /\ Parts

\* A request leaves a well-typed row, in the book unless it settles.
LEMMA WrittenRow ==
  ASSUME TypeOK, NEW r \in Requests, kind[r] # "idle"
  PROVE  /\ Written(r) \in Rows
         /\ kind[r] \in Upserts => Written(r).held
         /\ kind[r] \in Settles => ~ Written(r).held
         /\ kind[r] = "hold" => Written(r).held
         /\ kind[r] = "recall" => ~ Written(r).held
         /\ kind[r] \notin Upserts \cup Settles \cup {"hold", "recall"} =>
                Written(r).held = row.held
         /\ kind[r] \notin Upserts \cup {"charge"} => Written(r).there = row.there
         /\ kind[r] \in Upserts \cup {"charge"} => Written(r).there
<1>1. kind[r] \in Kinds /\ seen[r] \in Rows /\ row \in Rows
  BY DEF TypeOK
<1>2. CASE kind[r] = "fire"
  BY <1>1, <1>2 DEF Written, Fired, Rows, Upserts, Settles, FiredStates
<1>3. CASE kind[r] = "save"
  BY <1>1, <1>3 DEF Written, Saved, Rows, Upserts, Settles, FiredStates
<1>4. CASE kind[r] = "charge"
  BY <1>1, <1>4 DEF Written, Charged, Rows, Upserts, Settles, FiredStates
<1>5. CASE kind[r] \in {"close", "sweep"}
  BY <1>1, <1>5 DEF Written, Rows, Upserts, Settles, FiredStates
<1>6. CASE kind[r] \in {"send", "void"}
  BY <1>1, <1>6 DEF Written, Rows, Upserts, Settles, FiredStates
<1>7. CASE kind[r] \in {"ready", "served"}
  BY <1>1, <1>7 DEF Written, Rows, Upserts, Settles, FiredStates
<1>8. CASE kind[r] \in {"hold", "recall"}
  BY <1>1, <1>8 DEF Written, Rows, Upserts, Settles, FiredStates
<1> QED
  BY <1>1, <1>2, <1>3, <1>4, <1>5, <1>6, <1>7, <1>8
  DEF Kinds, Guarded, Discards, Upserts, Settles

\* Ending requests resets them, and tells the others what has happened.
LEMMA EndType ==
  ASSUME TypeOK, NEW S, End(S)
  PROVE  /\ kind' \in [Requests -> Kinds \cup {"idle"}] /\ seen' \in [Requests -> Rows]
         /\ checked' \in [Requests -> BOOLEAN] /\ started' \in 0 .. MaxRequests
         /\ late' \in [Requests -> SUBSET {"closed", "fired"}]
<1>1. NoRow \in Rows
  BY DEF NoRow, Rows, FiredStates
<1>2. /\ kind' \in [Requests -> Kinds \cup {"idle"}] /\ seen' \in [Requests -> Rows]
      /\ checked' \in [Requests -> BOOLEAN] /\ started' \in 0 .. MaxRequests
  BY <1>1 DEF End, TypeOK
<1>3. late' \in [Requests -> SUBSET {"closed", "fired"}]
  BY DEF End, TypeOK
<1> QED
  BY <1>2, <1>3

LEMMA EndTells ==
  ASSUME TypeOK, NEW S, End(S), NEW r \in Requests, kind'[r] # "idle"
  PROVE  /\ kind'[r] = kind[r] /\ seen'[r] = seen[r] /\ r \notin S
         /\ late[r] \subseteq late'[r]
         /\ ~ Closed /\ Closed' => "closed" \in late'[r]
         /\ ~ row.fired /\ row'.fired => "fired" \in late'[r]
<1>1. kind'[r] = kind[r] /\ seen'[r] = seen[r] /\ r \notin S
  BY DEF End, TypeOK
<1>2. late'[r] = late[r] \cup (IF ~ Closed /\ Closed' THEN {"closed"} ELSE {})
                         \cup (IF ~ row.fired /\ row'.fired THEN {"fired"} ELSE {})
  BY <1>1 DEF End, TypeOK
<1> HIDE DEF Closed
<1> QED
  BY <1>1, <1>2

\* So whatever is written, those still at work are in time or know.
LEMMA EndInTime == ASSUME TypeOK, InTime, NEW S, End(S) PROVE InTime'
<1> SUFFICES ASSUME NEW r \in Requests
             PROVE  /\ kind'[r] \in Guarded /\ "closed" \notin late'[r] => ~ Closed'
                    /\ kind'[r] \in {"save", "charge"} /\ "fired" \notin late'[r] =>
                           (row'.fired => seen'[r].fired)
  BY DEF InTime
<1>1. CASE kind'[r] = "idle"
  BY <1>1 DEF Guarded, Upserts, Settles, Discards
<1>2. CASE kind'[r] # "idle"
  <2>1. /\ kind'[r] = kind[r] /\ seen'[r] = seen[r] /\ late[r] \subseteq late'[r]
        /\ ~ Closed /\ Closed' => "closed" \in late'[r]
        /\ ~ row.fired /\ row'.fired => "fired" \in late'[r]
    BY <1>2, EndTells
  <2>2. /\ kind[r] \in Guarded /\ "closed" \notin late[r] => ~ Closed
        /\ kind[r] \in {"save", "charge"} /\ "fired" \notin late[r] =>
               (row.fired => seen[r].fired)
    BY DEF InTime
  <2> HIDE DEF Closed, Guarded
  <2> QED
    BY <2>1, <2>2
<1> QED
  BY <1>1, <1>2

LEMMA InitOInv == Init => OInv
<1> SUFFICES ASSUME Init PROVE OInv
  OBVIOUS
<1>1. NoRow \in Rows
  BY DEF NoRow, Rows, FiredStates
<1>2. started \in 0 .. MaxRequests
  BY OrderAssumption DEF Init
<1>3. row \in Rows /\ seen \in [Requests -> Rows]
  BY <1>1 DEF Init
<1>4. /\ kind \in [Requests -> Kinds \cup {"idle"}] /\ checked \in [Requests -> BOOLEAN]
      /\ lines \in {"none", "order", "sale"} /\ pays \in Nat /\ moved \in Nat
      /\ late \in [Requests -> SUBSET {"closed", "fired"}]
  BY DEF Init
<1>5. told \in BOOLEAN /\ past \in BOOLEAN /\ count \in [Incidents -> Nat]
  BY DEF Init
<1>6. TypeOK
  BY <1>2, <1>3, <1>4, <1>5 DEF TypeOK
<1>7. InTime
  BY DEF Init, InTime, Guarded, Upserts, Settles, Discards
<1>10. InBook
  BY DEF Init, InBook
<1>8. /\ \A i \in Incidents : count[i] = 0
      /\ pays = 0 /\ moved = 0 /\ lines = "none" /\ ~ told /\ ~ Closed
  BY DEF Init, Closed, NoRow
<1>9. Parts
  BY <1>8 DEF Incidents, Parts, Accounts, ClosedIsPaid, ChargedIsWhole, SaleLines
<1> QED
  BY <1>6, <1>7, <1>9, <1>10 DEF OInv

LEMMA LoadType ==
  ASSUME TypeOK, NEW r \in Requests, NEW k \in Kinds, Load(r, k)
  PROVE  TypeOK'
<1>1. started' \in 0 .. MaxRequests
  BY OrderAssumption DEF Load, TypeOK
<1> QED
  BY <1>1 DEF Load, TypeOK, order

LEMMA CommitType ==
  ASSUME TypeOK, NEW r \in Requests, NEW paid \in BOOLEAN, Commit(r, paid)
  PROVE  TypeOK'
<1>1. row' \in Rows
  BY WrittenRow DEF Commit
<1>2. lines' \in {"none", "order", "sale"}
  BY DEF Commit, TypeOK
<1>3. pays' \in Nat /\ moved' \in Nat
  BY DEF Commit, TypeOK
<1>4. told' \in BOOLEAN /\ past' \in BOOLEAN
  BY DEF Commit, TypeOK
<1>5. count' \in [Incidents -> Nat]
  BY DEF Commit, TypeOK
<1>6. PICK S : End(S)
  BY DEF Commit
<1>7. /\ kind' \in [Requests -> Kinds \cup {"idle"}] /\ seen' \in [Requests -> Rows]
      /\ checked' \in [Requests -> BOOLEAN] /\ started' \in 0 .. MaxRequests
      /\ late' \in [Requests -> SUBSET {"closed", "fired"}]
  BY <1>6, EndType
<1> QED
  BY <1>1, <1>2, <1>3, <1>4, <1>5, <1>7 DEF TypeOK

\* What a request leaves of the row, as far as the invariant tells rows apart.
LEMMA Leaves ==
  ASSUME OInv, NEW r \in Requests, NEW paid \in BOOLEAN, Commit(r, paid)
  PROVE  /\ row.there => row'.there
         /\ kind[r] \in Settles => Closed'
         /\ kind[r] = "charge" => ~ row'.deleted /\ row'.status = "pending_sync"
         /\ kind[r] \in Upserts \cup {"hold"} => ~ Closed'
         /\ kind[r] = "recall" =>
                (Closed => Closed' /\ row'.deleted = row.deleted /\ row'.status = row.status)
         /\ kind[r] \in {"void", "send", "ready", "served"} => Closed' = Closed
         /\ kind[r] \in {"send", "ready", "served"} =>
                row'.deleted = row.deleted /\ row'.status = row.status
<1> DEFINE k == kind[r]
<1>1. /\ TypeOK /\ k # "idle" /\ k \in Kinds /\ row' = Written(r)
      /\ seen[r] \in Rows /\ row \in Rows
  BY DEF OInv, Commit, TypeOK
<1>2. k \notin Upserts \cup {"charge"} => row.there
  BY <1>1 DEF OInv, InBook
<1>3. /\ k \in Upserts \cup {"charge"} => row'.there
      /\ k \notin Upserts \cup {"charge"} => row'.there = row.there
      /\ k \in Upserts \cup {"hold"} => row'.held
      /\ k \in Settles \cup {"recall"} => ~ row'.held
      /\ k \notin Upserts \cup Settles \cup {"hold", "recall"} => row'.held = row.held
  BY <1>1, WrittenRow
<1>4. k \in Settles => Closed'
  BY <1>2, <1>3 DEF Closed, Settles, Upserts
<1>5. k = "charge" => ~ row'.deleted /\ row'.status = "pending_sync"
  BY <1>1 DEF Written, Charged, Rows
<1>6. k \in Upserts \cup {"hold"} => ~ Closed'
  BY <1>3 DEF Closed
<1>7. k \in {"send", "ready", "served", "recall"} =>
          row'.deleted = row.deleted /\ row'.status = row.status
  BY <1>1 DEF Written, Rows
<1>8. k \in {"void", "send", "ready", "served"} => Closed' = Closed
  BY <1>3 DEF Closed, Upserts, Settles
<1>9. k = "recall" => (Closed => Closed')
  BY <1>3 DEF Closed, Upserts
<1> QED
  BY <1>2, <1>3, <1>4, <1>5, <1>6, <1>7, <1>8, <1>9

\* What a request counts, and what it adds to the accounts.
LEMMA Counts ==
  ASSUME OInv, NEW r \in Requests, NEW paid \in BOOLEAN, Commit(r, paid)
  PROVE  /\ \A i \in Incidents : count[i] \in Nat /\ count'[i] \in Nat /\ count'[i] >= count[i]
         /\ pays \in Nat /\ moved \in Nat /\ pays' \in Nat /\ moved' \in Nat
         /\ pays' + count'["unpaid"] =
                pays + count["unpaid"] + (IF kind[r] \in Settles THEN 1 ELSE 0)
         /\ moved' = moved + (IF kind[r] = "charge" THEN 1 ELSE 0)
         /\ kind[r] \in Guarded /\ Closed => count'["overtaken"] = count["overtaken"] + 1
         /\ kind[r] = "hold" /\ Closed => count'["rehung"] = count["rehung"] + 1
         /\ kind[r] = "recall" => count'["recalled"] = count["recalled"] + 1
         /\ kind[r] \in {"save", "charge"} /\ row.fired /\ ~ seen[r].fired =>
                count'["outfired"] = count["outfired"] + 1
<1> DEFINE k == kind[r]
<1>1. /\ pays \in Nat /\ moved \in Nat /\ k \in Kinds
      /\ pays' = IF Takes(k, paid) THEN pays + 1 ELSE pays
      /\ moved' = IF k = "charge" THEN moved + 1 ELSE moved
  BY DEF OInv, Commit, TypeOK
<1>2. \A i \in Incidents :
          /\ count[i] \in Nat
          /\ count'[i] = IF i \in Met(r, paid) THEN count[i] + 1 ELSE count[i]
  BY DEF OInv, Commit, TypeOK
<1>3. \A i \in Incidents : count[i] \in Nat /\ count'[i] \in Nat /\ count'[i] >= count[i]
  BY <1>2
<1>4. pays' \in Nat /\ moved' \in Nat /\ moved' = moved + (IF k = "charge" THEN 1 ELSE 0)
  BY <1>1
<1>5. pays' + count'["unpaid"] = pays + count["unpaid"] + (IF k \in Settles THEN 1 ELSE 0)
  <2>1. /\ count["unpaid"] \in Nat
        /\ count'["unpaid"] = IF k = "charge" /\ ~ paid THEN count["unpaid"] + 1 ELSE count["unpaid"]
    BY <1>2 DEF Met, Incidents
  <2> QED
    BY <1>1, <2>1 DEF Takes, Settles
<1>6. k \in Guarded /\ Closed => count'["overtaken"] = count["overtaken"] + 1
  <2>1. k \in Guarded /\ Closed => "closed" \in late[r]
    BY DEF OInv, InTime
  <2> QED
    BY <1>2, <2>1 DEF Met, Incidents
<1>7. /\ k = "hold" /\ Closed => count'["rehung"] = count["rehung"] + 1
      /\ k = "recall" => count'["recalled"] = count["recalled"] + 1
  BY <1>2 DEF Met, Incidents
<1>8. k \in {"save", "charge"} /\ row.fired /\ ~ seen[r].fired =>
          count'["outfired"] = count["outfired"] + 1
  <2>1. k \in {"save", "charge"} /\ row.fired /\ ~ seen[r].fired => "fired" \in late[r]
    BY DEF OInv, InTime
  <2> QED
    BY <1>2, <2>1 DEF Met, Incidents
<1> QED
  BY <1>1, <1>3, <1>4, <1>5, <1>6, <1>7, <1>8

\* The parts of the invariant about the order follow from the two.
LEMMA CommitParts ==
  ASSUME OInv, NEW r \in Requests, NEW paid \in BOOLEAN, Commit(r, paid)
  PROVE  Parts'
<1> DEFINE k == kind[r]
<1>1. /\ k # "idle" /\ k \in Kinds /\ Parts
      /\ lines' = IF k \in Upserts THEN "order" ELSE IF k = "charge" THEN "sale" ELSE lines
      /\ told' = (told \/ k = "charge")
      /\ k = "charge" => k \in Settles
      /\ k \in Upserts \cup Settles \cup {"void"} <=> k \in Guarded
  BY DEF OInv, Commit, TypeOK, Settles, Guarded, Discards
<1>2. /\ row.there => row'.there
      /\ k \in Settles => Closed'
      /\ k = "charge" => ~ row'.deleted /\ row'.status = "pending_sync"
      /\ k \in Upserts \cup {"hold"} => ~ Closed'
      /\ k = "recall" =>
             (Closed => Closed' /\ row'.deleted = row.deleted /\ row'.status = row.status)
      /\ k \in {"void", "send", "ready", "served"} => Closed' = Closed
      /\ k \in {"send", "ready", "served"} =>
             row'.deleted = row.deleted /\ row'.status = row.status
  BY Leaves
<1>3. /\ \A i \in Incidents : count[i] \in Nat /\ count'[i] \in Nat /\ count'[i] >= count[i]
      /\ pays \in Nat /\ moved \in Nat /\ pays' \in Nat /\ moved' \in Nat
      /\ pays' + count'["unpaid"] = pays + count["unpaid"] + (IF k \in Settles THEN 1 ELSE 0)
      /\ moved' = moved + (IF k = "charge" THEN 1 ELSE 0)
      /\ k \in Guarded /\ Closed => count'["overtaken"] = count["overtaken"] + 1
      /\ k = "hold" /\ Closed => count'["rehung"] = count["rehung"] + 1
      /\ k = "recall" => count'["recalled"] = count["recalled"] + 1
  BY Counts
<1>4. \A i \in {"overtaken", "rehung", "recalled", "unpaid"} :
          count[i] \in Nat /\ count'[i] \in Nat /\ count'[i] >= count[i]
  BY <1>3 DEF Incidents
<1>5. k \in Upserts \cup Settles \cup {"void", "send", "ready", "served", "hold", "recall"}
      /\ ~ (k \in Upserts /\ k \in Settles)
      /\ (k \in Upserts \cup Settles => k \notin {"void", "send", "ready", "served", "hold", "recall"})
  BY <1>1 DEF Kinds, Guarded, Discards, Upserts, Settles
<1> HIDE DEF Closed, k
<1>6. Accounts'
  <2>1. pays + count["unpaid"] + (IF Closed THEN 0 ELSE 1) <= 1 + count["overtaken"] + count["rehung"]
        /\ moved <= pays + count["unpaid"]
    BY <1>1 DEF Parts, Accounts
  <2>2. moved' <= pays' + count'["unpaid"]
    BY <1>1, <1>3, <1>4, <2>1
  <2>3. (IF k \in Settles THEN 1 ELSE 0) + (IF Closed' THEN 0 ELSE 1) - (IF Closed THEN 0 ELSE 1)
            <= (IF k \in Guarded /\ Closed THEN 1 ELSE 0) + (IF k = "hold" /\ Closed THEN 1 ELSE 0)
    BY <1>1, <1>2, <1>5
  <2> DEFINE c == IF Closed THEN 0 ELSE 1
             d == IF Closed' THEN 0 ELSE 1
             e == IF k \in Settles THEN 1 ELSE 0
             g == IF k \in Guarded /\ Closed THEN 1 ELSE 0
             h == IF k = "hold" /\ Closed THEN 1 ELSE 0
  <2>4. c \in 0 .. 1 /\ d \in 0 .. 1 /\ e \in 0 .. 1 /\ g \in 0 .. 1 /\ h \in 0 .. 1
    OBVIOUS
  <2>5. count'["overtaken"] >= count["overtaken"] + g /\ count'["rehung"] >= count["rehung"] + h
    BY <1>3, <1>4
  <2>6. pays' + count'["unpaid"] = pays + count["unpaid"] + e
    BY <1>3
  <2>7. e + d - c <= g + h
    BY <2>3
  <2>8. pays + count["unpaid"] + c <= 1 + count["overtaken"] + count["rehung"]
    BY <2>1
  <2> HIDE DEF c, d, e, g, h
  <2>9. pays' + count'["unpaid"] + d <= 1 + count'["overtaken"] + count'["rehung"]
    BY <1>3, <1>4, <2>4, <2>5, <2>6, <2>7, <2>8
  <2> QED
    BY <2>2, <2>9 DEF Accounts, d
<1>7. ClosedIsPaid'
  <2>1. Closed \/ told => pays + count["unpaid"] + count["recalled"] >= 1
    BY <1>1 DEF Parts, ClosedIsPaid
  <2>2. CASE k \in Settles \/ k = "recall"
    BY <1>3, <1>4, <2>2 DEF ClosedIsPaid
  <2>3. CASE k \notin Settles /\ k # "recall"
    <3>1. Closed' \/ told' => Closed \/ told
      BY <1>1, <1>2, <1>5, <2>3
    <3> QED
      BY <1>3, <1>4, <2>1, <2>3, <3>1 DEF ClosedIsPaid
  <2> QED
    BY <2>2, <2>3
<1>8. ASSUME count'["overtaken"] + count'["rehung"] = 0
      PROVE  /\ moved' >= 1 <=> /\ Closed' /\ ~ row'.deleted
                                /\ lines' = "sale" /\ row'.status = "pending_sync"
             /\ moved' = 0 => lines' # "sale"
  <2>1. count["overtaken"] + count["rehung"] = 0 /\ (k \in Guarded \cup {"hold"} => ~ Closed)
    BY <1>3, <1>4, <1>8
  <2>2. /\ moved >= 1 <=> Closed /\ ~ row.deleted /\ lines = "sale" /\ row.status = "pending_sync"
        /\ moved = 0 => lines # "sale"
    BY <1>1, <2>1 DEF Parts, ChargedIsWhole, SaleLines
  <2>3. ~ Closed => moved = 0 /\ lines # "sale"
    BY <1>3, <2>2
  <2>4. CASE k = "charge"
    <3>1. lines' = "sale" /\ moved' >= 1
      BY <1>1, <1>3, <1>5, <2>4
    <3> QED
      BY <1>1, <1>2, <1>3, <2>4, <3>1
  <2>5. CASE k \in Guarded \cup {"hold"} /\ k # "charge"
    <3>1. moved' = 0 /\ lines' # "sale"
      BY <1>1, <1>3, <2>1, <2>3, <2>5
    <3> QED
      BY <3>1
  <2>6. CASE k = "recall"
    <3>1. moved' = moved /\ lines' = lines
      BY <1>1, <1>3, <1>5, <2>6
    <3>2. CASE Closed
      BY <1>2, <2>2, <2>6, <3>1, <3>2
    <3>3. CASE ~ Closed
      BY <2>3, <3>1, <3>3
    <3> QED
      BY <3>2, <3>3
  <2>7. CASE k \in {"send", "ready", "served"}
    <3>1. moved' = moved /\ lines' = lines
      BY <1>1, <1>3, <1>5, <2>7
    <3> QED
      BY <1>2, <2>2, <2>7, <3>1
  <2> QED
    BY <1>1, <1>5, <2>4, <2>5, <2>6, <2>7
<1> QED
  BY <1>6, <1>7, <1>8 DEF Parts, ChargedIsWhole, SaleLines

\* Everything but a commit leaves the order as it is.
LEMMA SameParts ==
  ASSUME Parts, UNCHANGED order, told' => told \/ Closed
  PROVE  Parts'
BY DEF Parts, order, Accounts, ClosedIsPaid, ChargedIsWhole, SaleLines, Closed

LEMMA StepOInv == OInv /\ [Next]_vars => OInv'
<1> SUFFICES ASSUME OInv, [Next]_vars PROVE OInv'
  OBVIOUS
<1> USE DEF OInv
<1>1. ASSUME NEW r \in Requests, NEW k \in Kinds, Load(r, k) PROVE OInv'
  <2>1. TypeOK' /\ UNCHANGED <<order, told, past, late>>
    BY <1>1, LoadType DEF Load
  <2>2. \A s \in Requests : /\ kind'[s] = IF s = r THEN k ELSE kind[s]
                            /\ seen'[s] = IF s = r THEN row ELSE seen[s]
    BY <1>1 DEF Load, TypeOK
  <2>3. k \in Guarded => ~ Closed
    BY <1>1 DEF Load, Passes, Sweeps, Cooked, Closed, Guarded, Discards, Settles, Upserts
  <2>4. k \notin Upserts \cup {"charge"} => row.there
    BY <1>1 DEF Load, Passes, Sweeps, Cooked, Upserts
  <2>5. InTime'
    <3> SUFFICES ASSUME NEW s \in Requests
                 PROVE  /\ kind'[s] \in Guarded /\ "closed" \notin late'[s] => ~ Closed'
                        /\ kind'[s] \in {"save", "charge"} /\ "fired" \notin late'[s] =>
                               (row'.fired => seen'[s].fired)
      BY DEF InTime
    <3>1. row' = row /\ late' = late /\ (Closed' <=> Closed)
      BY <2>1 DEF order, Closed
    <3> HIDE DEF Closed, Guarded
    <3> QED
      BY <2>2, <2>3, <3>1 DEF InTime
  <2>6. InBook'
    BY <2>1, <2>2, <2>4 DEF InBook, order
  <2>7. Parts'
    BY <2>1, SameParts
  <2> QED
    BY <2>1, <2>5, <2>6, <2>7
<1>2. ASSUME NEW S, End(S), UNCHANGED <<order, told, past>> PROVE OInv'
  <2>1. TypeOK'
    BY <1>2, EndType DEF TypeOK, order
  <2>2. InTime'
    BY <1>2, EndInTime
  <2>3. InBook'
    BY <1>2, EndTells DEF InBook, order
  <2> QED
    BY <1>2, <2>1, <2>2, <2>3, SameParts
<1>3. ASSUME NEW r \in Requests, Check(r) PROVE OInv'
  <2>1. UNCHANGED <<order, told, past>>
    BY <1>3 DEF Check
  <2>2. CASE checked' = [checked EXCEPT ![r] = TRUE] /\ UNCHANGED <<kind, seen, started, late>>
    <3>1. TypeOK'
      BY <2>1, <2>2 DEF TypeOK, order
    <3>2. InTime' /\ InBook'
      BY <2>1, <2>2 DEF InTime, InBook, Closed, order
    <3> QED
      BY <2>1, <3>1, <3>2, SameParts
  <2> QED
    BY <1>2, <1>3, <2>1, <2>2 DEF Check
<1>4. ASSUME NEW r \in Requests, NEW paid \in BOOLEAN, Commit(r, paid) PROVE OInv'
  <2>1. TypeOK' /\ Parts' /\ (row.there => row'.there)
    BY <1>4, CommitType, CommitParts, Leaves
  <2>2. PICK S : End(S)
    BY <1>4 DEF Commit
  <2>3. InTime'
    BY <2>2, EndInTime
  <2>4. InBook'
    BY <2>1, <2>2, EndTells DEF InBook
  <2> QED
    BY <2>1, <2>3, <2>4
<1>5. ASSUME NEW r \in Requests, Abort(r) PROVE OInv'
  BY <1>2, <1>5 DEF Abort
<1>6. CASE Duplicate \/ NightFalls \/ UNCHANGED vars
  <2>0. told \in BOOLEAN /\ past \in BOOLEAN
    BY DEF TypeOK
  <2>1. /\ UNCHANGED <<order, requests>> /\ (told' => told \/ Closed)
        /\ told' \in BOOLEAN /\ past' \in BOOLEAN
    <3>1. CASE Duplicate
      BY <2>0, <3>1 DEF Duplicate, Closed
    <3>2. CASE NightFalls
      BY <2>0, <3>2 DEF NightFalls
    <3>3. CASE UNCHANGED vars
      BY <2>0, <3>3 DEF vars
    <3> QED
      BY <1>6, <3>1, <3>2, <3>3
  <2>2. TypeOK'
    BY <2>1 DEF TypeOK, order, requests
  <2>3. InTime' /\ InBook'
    BY <2>1 DEF InTime, InBook, Closed, order, requests
  <2> QED
    BY <2>1, <2>2, <2>3, SameParts
<1> QED
  BY <1>1, <1>3, <1>4, <1>5, <1>6 DEF Next

LEMMA Kept == Spec => []OInv
BY InitOInv, StepOInv, PTL DEF Spec

\* The order is always well typed: its stage is one that the screens and the
\* sweep know.
THEOREM TypeCorrect == Spec => []TypeOK
<1>1. OInv => TypeOK
  BY DEF OInv
<1> QED
  BY <1>1, Kept, PTL

\* Whatever requests overlap, an order that is closed, and an order that a till
\* was told about, carries a payment, unless it was charged without one or taken
\* off hold by hand: a later sync that takes it for a duplicate loses none.
THEOREM AlwaysPaid == Spec => []ClosedIsPaid
<1>1. OInv => ClosedIsPaid
  BY DEF OInv, Parts
<1> QED
  BY <1>1, Kept, PTL

\* Whatever requests overlap, an order is settled once, and once more at most for
\* every request that a settlement overtook and every hold of a settled order.
THEOREM PaidOnce == Spec => []SettledOnce
<1>1. OInv => SettledOnce
  <2>1. OInv => /\ pays \in Nat /\ count["unpaid"] \in Nat
                /\ count["overtaken"] \in Nat /\ count["rehung"] \in Nat
    BY DEF OInv, TypeOK, Incidents
  <2>2. OInv => Accounts
    BY DEF OInv, Parts
  <2> QED
    BY <2>1, <2>2 DEF Accounts, SettledOnce
<1> QED
  BY <1>1, Kept, PTL

\* Until then a charged order is a visible sale that waits for the tax authority,
\* with the lines that were charged, and no other order has left stock.
THEOREM WholeSale == Spec => []ChargedIsWhole
<1>1. OInv => ChargedIsWhole
  BY DEF OInv, Parts
<1> QED
  BY <1>1, Kept, PTL

\* What a step that counts no incident may not do.
LEMMA StepKeeps ==
  OInv /\ [Next]_vars =>
      /\ Closed /\ count'["overtaken"] = count["overtaken"] /\ count'["rehung"] = count["rehung"]
             => Closed' /\ lines' = lines
      /\ row.fired /\ count'["outfired"] = count["outfired"] => row'.fired
<1> SUFFICES ASSUME OInv, [Next]_vars
             PROVE  /\ /\ Closed /\ count'["overtaken"] = count["overtaken"]
                       /\ count'["rehung"] = count["rehung"]
                       => Closed' /\ lines' = lines
                    /\ row.fired /\ count'["outfired"] = count["outfired"] => row'.fired
  OBVIOUS
<1>1. ASSUME NEW r \in Requests, NEW paid \in BOOLEAN, Commit(r, paid)
      PROVE  /\ /\ Closed /\ count'["overtaken"] = count["overtaken"]
                /\ count'["rehung"] = count["rehung"]
                => Closed' /\ lines' = lines
             /\ row.fired /\ count'["outfired"] = count["outfired"] => row'.fired
  <2> DEFINE k == kind[r]
  <2>1. /\ k \in Kinds /\ k # "idle" /\ row' = Written(r) /\ seen[r] \in Rows /\ row \in Rows
        /\ lines' = IF k \in Upserts THEN "order" ELSE IF k = "charge" THEN "sale" ELSE lines
    BY <1>1 DEF OInv, Commit, TypeOK
  <2>2. /\ count["overtaken"] \in Nat /\ count["rehung"] \in Nat /\ count["outfired"] \in Nat
        /\ k \in Guarded /\ Closed => count'["overtaken"] = count["overtaken"] + 1
        /\ k = "hold" /\ Closed => count'["rehung"] = count["rehung"] + 1
        /\ k \in {"save", "charge"} /\ row.fired /\ ~ seen[r].fired =>
               count'["outfired"] = count["outfired"] + 1
    BY <1>1, Counts DEF Incidents
  <2>3. ASSUME Closed, count'["overtaken"] = count["overtaken"], count'["rehung"] = count["rehung"]
        PROVE  Closed' /\ lines' = lines
    <3>1. k \notin Guarded /\ k # "hold"
      BY <2>2, <2>3
    <3>2. k \in {"send", "ready", "served", "recall"}
      BY <2>1, <3>1 DEF Kinds
    <3>3. Closed'
      BY <1>1, <2>3, <3>2, Leaves
    <3> QED
      BY <2>1, <3>2, <3>3 DEF Upserts
  <2>4. ASSUME row.fired, count'["outfired"] = count["outfired"] PROVE row'.fired
    <3>1. k \in {"save", "charge"} => seen[r].fired
      BY <2>2, <2>4
    <3>2. CASE k = "fire"
      BY <2>1, <3>2 DEF Written, Fired, Rows
    <3>3. CASE k = "save"
      BY <2>1, <3>1, <3>3 DEF Written, Saved, Rows
    <3>4. CASE k = "charge"
      BY <2>1, <3>1, <3>4 DEF Written, Charged, Rows
    <3>5. CASE k \in {"close", "sweep", "hold", "recall"}
      BY <2>1, <2>4, <3>5 DEF Written, Rows
    <3>6. CASE k \in {"send", "void", "ready", "served"}
      BY <2>1, <2>4, <3>6 DEF Written, Rows
    <3> QED
      BY <2>1, <3>2, <3>3, <3>4, <3>5, <3>6
      DEF Kinds, Guarded, Discards, Upserts, Settles
  <2> QED
    BY <2>3, <2>4
<1>2. ASSUME UNCHANGED order
      PROVE  (Closed => Closed' /\ lines' = lines) /\ (row.fired => row'.fired)
  BY <1>2 DEF order, Closed
<1>3. ASSUME NEW r \in Requests, Check(r) \/ Abort(r) \/ \E k \in Kinds : Load(r, k)
      PROVE  UNCHANGED order
  BY <1>3 DEF Check, Abort, Load
<1>4. CASE Duplicate \/ NightFalls \/ UNCHANGED vars
  BY <1>2, <1>4 DEF Duplicate, NightFalls, vars
<1> QED
  BY <1>1, <1>2, <1>3, <1>4 DEF Next

\* A charged sale is opened again, or its lines replaced, only by a request that
\* loaded it before it was closed or by the hold endpoint.
THEOREM NeverReopened == Spec => StaysClosed
<1>1. OInv /\ [Next]_vars =>
          [Closed /\ count'["overtaken"] = count["overtaken"] /\ count'["rehung"] = count["rehung"]
               => Closed' /\ lines' = lines]_vars
  BY StepKeeps
<1> QED
  BY <1>1, Kept, PTL DEF Spec, StaysClosed

\* What the kitchen was sent stays sent, but for a save or charge that loaded the
\* order before.
THEOREM NeverDowngraded == Spec => StaysFired
<1>1. OInv /\ [Next]_vars =>
          [row.fired /\ count'["outfired"] = count["outfired"] => row'.fired]_vars
  BY StepKeeps
<1> QED
  BY <1>1, Kept, PTL DEF Spec, StaysFired
=============================================================================
