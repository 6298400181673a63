---------------------------- MODULE NumberingProofs ----------------------------
(***************************************************************************)
(* Proofs about Numbering, for any tills, tablets, desks, orders, numbers  *)
(* and years: two bills have one number, and the UNIQUE constraint refuses *)
(* a charged sale, only for a number that was handed back or issued while  *)
(* in use (loose); what a till has printed is what the server has, unless  *)
(* the order was sent without a number (tagged); and what can hide or take *)
(* the next number of a desk.                                              *)
(*                                                                         *)
(* The invariant follows a number from the till to the bill and the row:   *)
(* what an order is known by (Uses) is its own tag, or a number that its   *)
(* till's counter has passed and that no other order is known by, or loose.*)
(***************************************************************************)
EXTENDS Numbering, WellFoundedInduction, TLAPS

-----------------------------------------------------------------------------
(* The inductive invariant                                                 *)

Held(o) == row[o].state \in {"open", "sent", "void"}

\* What an order may be known by: the till's number and the bill's, or its own tag.
Names(o) ==
    /\ number[o] \in {None, Tag(o)} \cup TillNumbers
    /\ bill[o] \in {None, Tag(o)} \cup TillNumbers
    /\ (charged[o] = None) <=> (bill[o] = None)
    /\ charged[o] # None /\ bill[o] \in TillNumbers => bill[o][1] = charged[o]
    /\ charged[o] # None /\ row[o].no \in TillNumbers => row[o].no[1] = charged[o]

\* No number is of a year to come.
NoneAhead(o) ==
    /\ number[o] \in TillNumbers => number[o][2] <= year
    /\ bill[o] \in TillNumbers => bill[o][2] <= year
    /\ row[o].no \in Numbers => row[o].no[2] <= row[o].year
    /\ row[o].year <= year

\* A row has its number from the terminal it is of, or its tag; held orders are of
\* tills and tablets, and a desk that is neither completes no tag.
RowFits(o) ==
    /\ row[o].no \in {None, Tag(o)} \cup Numbers
    /\ row[o].state = "none" => row[o] = NoRow /\ number[o] # Tag(o)
    /\ row[o].state # "none" => row[o].no # None
    /\ row[o].no \in Numbers => row[o].at = row[o].no[1]
    /\ Held(o) => /\ o \notin Retail /\ row[o].at \in Tills \cup Tablets
                  /\ row[o].no \in {Tag(o)} \cup TillNumbers
    /\ row[o].state = "folio" => row[o].no = Tag(o)
    /\ row[o].state = "sale" /\ row[o].no = Tag(o) => row[o].at \in Tills \cup Tablets

\* A sale on a till's shelf is there alone, with a number of that till.
OnShelf(t, o) ==
    /\ o \in Retail /\ charged[o] = None /\ row[o].state = "none"
    /\ number[o] \in TillNumbers /\ number[o][1] = t
    /\ \A s \in Tills : cart[s].order # o /\ (<<s, o>> \in parked => s = t)

\* An order on a till's screen goes by a number of that till or by its tag; on two
\* screens, by its tag; and by the server's number unless it was sent without one.
OnScreen(t, o) ==
    /\ number[o] \in TillNumbers => number[o][1] = t
    /\ row[o].no \in TillNumbers => row[o].no[1] = t
    /\ row[o].state = "none" => charged[o] = None
    /\ row[o].state # "none" => o \notin Retail /\ (o \in tagged \/ number[o] = row[o].no)
    /\ \A s \in Tills : cart[s].order = o => s = t \/ number[o] = Tag(o)

Places(o) ==
    \A t \in Tills :
        /\ <<t, o>> \in parked => OnShelf(t, o)
        /\ cart[t].order = o => OnScreen(t, o)

\* What the till printed is what the server has.
Printed(o) ==
    charged[o] # None /\ row[o].state # "none" => bill[o] = row[o].no \/ o \in tagged

OrderOK(o) == Names(o) /\ NoneAhead(o) /\ RowFits(o) /\ Places(o) /\ Printed(o)

\* No counter is behind a number in use, but for the loose ones.
CounterAhead ==
    \A o \in Orders : \A n \in (Uses(o) \cap TillNumbers) \ loose : n[3] <= counter[n[1]][n[2]]

\* No two orders are known by one number, but for the loose ones.
UsesDiffer == \A o, p \in Orders : o # p => Uses(o) \cap Uses(p) \subseteq loose

IInv == /\ TypeOK /\ CounterAhead /\ UsesDiffer
        /\ \A o \in Orders : OrderOK(o)

-----------------------------------------------------------------------------
(* Numbers and tags                                                        *)

\* A tag is no number, and no two orders have one tag.
LEMMA TagFacts ==
  ASSUME NEW o \in Orders
  PROVE  /\ Tag(o) # None /\ Tag(o) \notin TillNumbers /\ Tag(o) \notin Numbers
         /\ \A p \in Orders : Tag(o) = Tag(p) => o = p
<1>1. Tag(o) # None
  BY NoneAssumption
<1>2. Tag(o) \notin TillNumbers /\ Tag(o) \notin Numbers
  BY NumberingAssumption DEF Tag, TillNumbers, Numbers, Years
<1>3. \A p \in Orders : Tag(o) = Tag(p) => o = p
  BY DEF Tag
<1> QED
  BY <1>1, <1>2, <1>3

\* The parts of a number.
LEMMA NumberFacts ==
  ASSUME NEW n \in Numbers
  PROVE  /\ n # None /\ n = <<n[1], n[2], n[3]>>
         /\ n[1] \in Terminals /\ n[2] \in Years /\ n[3] \in 1 .. MaxSeq
         /\ n \in TillNumbers <=> n[1] \in Tills
<1>1. /\ n = <<n[1], n[2], n[3]>> /\ n[1] \in Terminals /\ n[2] \in Years /\ n[3] \in 1 .. MaxSeq
      /\ n \in TillNumbers <=> n[1] \in Tills
  BY DEF Numbers, TillNumbers
<1>2. n \in Terminals \X Years \X Nat
  BY <1>1
<1> QED
  BY <1>1, <1>2, NoneAssumption

\* The numbers of tills are numbers.
LEMMA TillNumberFacts ==
  ASSUME NEW n \in TillNumbers
  PROVE  /\ n \in Numbers /\ n # None /\ n = <<n[1], n[2], n[3]>>
         /\ n[1] \in Tills /\ n[2] \in Years /\ n[3] \in 1 .. MaxSeq
<1>1. n \in Numbers
  BY DEF Numbers, TillNumbers, Terminals
<1> QED
  BY <1>1, NumberFacts

\* "No order" is no order, "nobody" no terminal.
LEMMA NoneFacts ==
  /\ None \notin Orders /\ None \notin Terminals /\ None \notin Tills
  /\ None \notin TillNumbers /\ None \notin Numbers
<1>1. None \notin Orders /\ None \notin Terminals /\ None \notin Tills
  BY NoneAssumption DEF Terminals
<1>2. None \notin TillNumbers /\ None \notin Numbers
  BY NumberFacts, TillNumberFacts
<1> QED
  BY <1>1, <1>2

\* The values of an order.
LEMMA OrderTypes ==
  ASSUME TypeOK, NEW o \in Orders
  PROVE  /\ number[o] \in {None} \cup TillNumbers \cup {Tag(p) : p \in Orders}
         /\ bill[o] \in {None} \cup TillNumbers \cup {Tag(p) : p \in Orders}
         /\ charged[o] \in Tills \cup {None}
         /\ row[o] \in Invoices /\ row[o].year \in Nat /\ year \in Nat
         /\ row[o].no \in {None} \cup Numbers \cup {Tag(p) : p \in Orders}
         /\ row[o].at \in Terminals \cup {None}
BY NumberingAssumption DEF TypeOK, Invoices, Years

\* What an order is known by is a number or its own tag.
LEMMA UsesTypes ==
  ASSUME NEW o \in Orders, Names(o), RowFits(o)
  PROVE  Uses(o) \subseteq {Tag(o)} \cup Numbers /\ None \notin Uses(o)
<1>1. TillNumbers \subseteq Numbers
  BY TillNumberFacts
<1> QED
  BY <1>1 DEF Uses, Names, RowFits

-----------------------------------------------------------------------------
(* One order changes, the others stay                                      *)

\* An order that is not changed, and comes to no new place, stays as it should be.
LEMMA Untouched ==
  ASSUME NEW o \in Orders, OrderOK(o), TypeOK,
         row'[o] = row[o], number'[o] = number[o], bill'[o] = bill[o],
         charged'[o] = charged[o], year' \in Nat, year <= year', tagged \subseteq tagged',
         \A t \in Tills : cart'[t].order = o => cart[t].order = o,
         \A t \in Tills : <<t, o>> \in parked' => <<t, o>> \in parked
  PROVE  OrderOK(o)' /\ Uses(o)' \subseteq Uses(o)
<1>1. Names(o)' /\ RowFits(o)'
  BY DEF OrderOK, Names, RowFits, Held
<1>2. NoneAhead(o)'
  <2>1. \A n \in Numbers : n[2] \in Nat
    BY NumberFacts DEF Years
  <2>2. \A n \in TillNumbers : n[2] \in Nat
    BY TillNumberFacts DEF Years
  <2> QED
    BY <2>1, <2>2, OrderTypes DEF OrderOK, NoneAhead
<1>3. Places(o)'
  <2> SUFFICES ASSUME NEW t \in Tills
               PROVE  /\ <<t, o>> \in parked' => OnShelf(t, o)'
                      /\ cart'[t].order = o => OnScreen(t, o)'
    BY DEF Places
  <2>1. ASSUME <<t, o>> \in parked' PROVE OnShelf(t, o)'
    BY <2>1 DEF OrderOK, Places, OnShelf
  <2>2. ASSUME cart'[t].order = o PROVE OnScreen(t, o)'
    BY <2>2 DEF OrderOK, Places, OnScreen
  <2> QED
    BY <2>1, <2>2
<1>4. Printed(o)'
  BY DEF OrderOK, Printed
<1>5. Uses(o)' \subseteq Uses(o)
  BY DEF Uses, AtTill
<1> QED
  BY <1>1, <1>2, <1>3, <1>4, <1>5 DEF OrderOK

\* If no counter falls, and one order at most is known by something new, which is
\* loose, or which nobody else has and its counter has passed, all stay apart.
LEMMA OneChanges ==
  ASSUME IInv, TypeOK', NEW o \in Orders, loose \subseteq loose',
         \A p \in Orders \ {o} : Uses(p)' \subseteq Uses(p),
         \A t \in Tills, y \in Years : counter[t][y] <= counter'[t][y],
         \A n \in Uses(o)' :
            \/ n \in Uses(o) \cup loose'
            \/ /\ \A p \in Orders \ {o} : n \notin Uses(p)
               /\ n \in TillNumbers => n[3] <= counter'[n[1]][n[2]]
  PROVE  CounterAhead' /\ UsesDiffer'
<1>1. UsesDiffer'
  <2> SUFFICES ASSUME NEW p \in Orders, NEW q \in Orders, p # q,
                      NEW n \in Uses(p)', n \in Uses(q)'
               PROVE  n \in loose'
    BY DEF UsesDiffer
  <2>1. CASE n \in Uses(p) /\ n \in Uses(q)
    BY <2>1 DEF IInv, UsesDiffer
  <2>2. CASE p = o /\ n \notin Uses(p)
    BY <2>2
  <2>3. CASE q = o /\ n \notin Uses(q)
    BY <2>3
  <2> QED
    BY <2>1, <2>2, <2>3
<1>2. CounterAhead'
  <2> SUFFICES ASSUME NEW p \in Orders, NEW n \in Uses(p)', n \in TillNumbers, n \notin loose'
               PROVE  n[3] <= counter'[n[1]][n[2]]
    BY DEF CounterAhead, TillNumbers
  <2>1. /\ n[1] \in Tills /\ n[2] \in Years /\ n[3] \in Nat
        /\ counter[n[1]][n[2]] \in Nat /\ counter'[n[1]][n[2]] \in Nat
    BY TillNumberFacts DEF IInv, TypeOK
  <2>2. CASE n \in Uses(p)
    <3>1. n[3] <= counter[n[1]][n[2]]
      BY <2>2 DEF IInv, CounterAhead
    <3> QED
      BY <3>1, <2>1
  <2>3. CASE n \notin Uses(p)
    BY <2>3
  <2> QED
    BY <2>2, <2>3
<1> QED
  BY <1>1, <1>2

\* A change of one order keeps the invariant if it keeps that order as it should be.
LEMMA OneOrder ==
  ASSUME IInv, TypeOK', NEW o \in Orders, OrderOK(o)',
         \A p \in Orders \ {o} :
            /\ row'[p] = row[p] /\ number'[p] = number[p]
            /\ bill'[p] = bill[p] /\ charged'[p] = charged[p]
            /\ \A t \in Tills : cart'[t].order = p => cart[t].order = p
            /\ \A t \in Tills : <<t, p>> \in parked' => <<t, p>> \in parked,
         year' = year, loose \subseteq loose', tagged \subseteq tagged',
         \A t \in Tills, y \in Years : counter[t][y] <= counter'[t][y],
         \A n \in Uses(o)' :
            \/ n \in Uses(o) \cup loose'
            \/ /\ \A p \in Orders \ {o} : n \notin Uses(p)
               /\ n \in TillNumbers => n[3] <= counter'[n[1]][n[2]]
  PROVE  IInv'
<1>1. year \in Nat
  BY OrderTypes DEF IInv
<1>2. \A p \in Orders \ {o} : OrderOK(p)' /\ Uses(p)' \subseteq Uses(p)
  <2> SUFFICES ASSUME NEW p \in Orders \ {o}
               PROVE  OrderOK(p)' /\ Uses(p)' \subseteq Uses(p)
    OBVIOUS
  <2>1. OrderOK(p) /\ TypeOK
    BY DEF IInv
  <2> QED
    BY <2>1, <1>1, Untouched
<1>3. CounterAhead' /\ UsesDiffer'
  BY <1>2, OneChanges
<1> QED
  BY <1>2, <1>3 DEF IInv

\* Counters that do not move do not fall.
LEMMA CountersStand ==
  ASSUME TypeOK, UNCHANGED counter
  PROVE  \A t \in Tills, y \in Years : counter[t][y] <= counter'[t][y]
<1>1. \A t \in Tills, y \in Years : counter[t][y] \in Int
  BY DEF TypeOK
<1> QED
  BY <1>1

\* Nobody else is known by the tag of an order.
LEMMA TagIsOwn ==
  ASSUME IInv, NEW o \in Orders, NEW p \in Orders \ {o}
  PROVE  Tag(o) \notin Uses(p)
<1>1. Uses(p) \subseteq {Tag(p)} \cup Numbers
  BY UsesTypes DEF IInv, OrderOK
<1> QED
  BY <1>1, TagFacts

-----------------------------------------------------------------------------
(* The actions that mint no number                                         *)

\* An order that nobody has seen is nowhere, and known by nothing.
LEMMA FreshIsNowhere ==
  ASSUME IInv, NEW o \in Orders, Fresh(o)
  PROVE  /\ number[o] = None /\ charged[o] = None /\ bill[o] = None /\ row[o] = NoRow
         /\ \A t \in Tills : cart[t].order # o /\ <<t, o>> \notin parked
<1>1. number[o] = None /\ charged[o] = None /\ row[o] = NoRow
      /\ \A t \in Tills : cart[t].order # o
  BY DEF Fresh
<1>2. bill[o] = None
  BY <1>1 DEF IInv, OrderOK, Names
<1>3. \A t \in Tills : <<t, o>> \notin parked
  BY <1>1, TillNumberFacts DEF IInv, OrderOK, Places, OnShelf
<1> QED
  BY <1>1, <1>2, <1>3

LEMMA RingKeeps ==
  ASSUME IInv, NEW t \in Tills, NEW o \in Orders, Ring(t, o)
  PROVE  IInv'
<1> USE DEF Ring, Load
<1>1. TypeOK'
  BY DEF IInv, TypeOK
<1>2. /\ number[o] = None /\ charged[o] = None /\ bill[o] = None /\ row[o] = NoRow
      /\ \A s \in Tills : cart[s].order # o /\ <<s, o>> \notin parked
  BY FreshIsNowhere
<1>3. \A s \in Tills, p \in Orders :
        cart'[s].order = p => (s = t /\ p = o) \/ cart[s].order = p
  BY DEF IInv, TypeOK
<1>4. OrderOK(o)'
  <2>1. Names(o)' /\ NoneAhead(o)' /\ RowFits(o)' /\ Printed(o)'
    BY DEF IInv, OrderOK, Names, NoneAhead, RowFits, Held, Printed
  <2>2. Places(o)'
    <3>1. \A s \in Tills : cart'[s].order = o => s = t
      BY <1>2, <1>3
    <3>2. number'[o] \notin TillNumbers /\ row'[o].no \notin TillNumbers
          /\ row'[o].state = "none" /\ charged'[o] = None
      BY <1>2, NoneFacts DEF NoRow
    <3> QED
      BY <1>2, <3>1, <3>2 DEF Places, OnScreen
  <2> QED
    BY <2>1, <2>2 DEF OrderOK
<1>5. Uses(o)' = {}
  BY <1>2 DEF Uses, NoRow
<1>6. \A s \in Tills, y \in Years : counter[s][y] <= counter'[s][y]
  BY CountersStand DEF IInv
<1> QED
  BY <1>1, <1>3, <1>4, <1>5, <1>6, OneOrder

LEMMA RecallKeeps ==
  ASSUME IInv, NEW t \in Tills, NEW o \in Orders, Recall(t, o)
  PROVE  IInv'
<1> USE DEF Recall, Load
<1>1. TypeOK'
  BY DEF IInv, TypeOK
<1>2. OnShelf(t, o)
  BY DEF IInv, OrderOK, Places
<1>3. \A s \in Tills, p \in Orders :
        /\ cart'[s].order = p => (s = t /\ p = o) \/ cart[s].order = p
        /\ <<s, p>> \in parked' => <<s, p>> \in parked /\ <<s, p>> # <<t, o>>
  BY DEF IInv, TypeOK
<1>4. OrderOK(o)'
  <2>1. Names(o)' /\ NoneAhead(o)' /\ RowFits(o)' /\ Printed(o)'
    BY DEF IInv, OrderOK, Names, NoneAhead, RowFits, Held, Printed
  <2>2. row[o].no = None
    BY <1>2 DEF OnShelf, IInv, OrderOK, RowFits, NoRow
  <2>3. Places(o)'
    BY <1>2, <1>3, <2>2, TillNumberFacts DEF Places, OnShelf, OnScreen
  <2> QED
    BY <2>1, <2>3 DEF OrderOK
<1>5. Uses(o)' \subseteq Uses(o)
  BY DEF Uses, AtTill
<1>6. \A s \in Tills, y \in Years : counter[s][y] <= counter'[s][y]
  BY CountersStand DEF IInv
<1> QED
  BY <1>1, <1>3, <1>4, <1>5, <1>6, OneOrder

LEMMA DropKeeps ==
  ASSUME IInv, NEW t \in Tills, Drop(t)
  PROVE  IInv'
<1> USE DEF Drop, Clear
<1>1. TypeOK'
  BY DEF IInv, TypeOK, Empty
<1>2. \A s \in Tills, p \in Orders : cart'[s].order = p => cart[s].order = p
  BY NoneFacts DEF IInv, TypeOK, Empty
<1>3. year \in Nat /\ TypeOK
  BY DEF IInv, TypeOK, Years
<1>4. PICK o \in Orders : cart[t].order = o
  BY DEF IInv, TypeOK
<1>5. OrderOK(o)' /\ Uses(o)' \subseteq Uses(o)
  BY <1>2, <1>3, Untouched DEF IInv
<1>6. \A s \in Tills, y \in Years : counter[s][y] <= counter'[s][y]
  BY CountersStand DEF IInv
<1> QED
  BY <1>1, <1>2, <1>5, <1>6, OneOrder

LEMMA ResumeKeeps ==
  ASSUME IInv, NEW t \in Tills, NEW o \in Orders, Resume(t, o)
  PROVE  IInv'
<1> USE DEF Resume, Load
<1>1. /\ Held(o) /\ row[o].state # "none" /\ row[o].no # None
      /\ row[o].no \in {Tag(o)} \cup TillNumbers
  BY DEF IInv, OrderOK, RowFits, Held
<1>2. number' = [number EXCEPT ![o] = row[o].no] /\ number'[o] = row[o].no
  BY DEF IInv, TypeOK
<1>3. TypeOK'
  <2>1. cart' \in [Tills -> [order : Orders \cup {None}, resumed : BOOLEAN]]
    BY DEF IInv, TypeOK
  <2>2. number' \in [Orders -> {None} \cup TillNumbers \cup {Tag(p) : p \in Orders}]
    BY <1>1, <1>2 DEF IInv, TypeOK
  <2> QED
    BY <2>1, <2>2 DEF IInv, TypeOK
<1>4. \A s \in Tills, p \in Orders :
        cart'[s].order = p => (s = t /\ p = o) \/ cart[s].order = p
  BY DEF IInv, TypeOK
<1>5. row[o].no \in TillNumbers => row[o].no[1] = t
  <2>1. ASSUME row[o].no \in TillNumbers PROVE row[o].no[1] = t
    <3>1. row[o].no \in Numbers /\ row[o].no[1] \in Tills
      BY <2>1, TillNumberFacts
    <3>2. row[o].at = row[o].no[1]
      BY <3>1 DEF IInv, OrderOK, RowFits
    <3> QED
      BY <3>1, <3>2, NumberingAssumption
  <2> QED
    BY <2>1
<1>6. o \notin Retail
  BY <1>1 DEF IInv, OrderOK, RowFits, Held
<1>7. OrderOK(o)'
  <2>1. Names(o)'
    BY <1>1, <1>2 DEF IInv, OrderOK, Names
  <2>2. NoneAhead(o)'
    <3>1. ASSUME row[o].no \in TillNumbers PROVE row[o].no[2] <= year
      <4>1. row[o].no \in Numbers /\ row[o].no[2] \in Nat
        BY <3>1, TillNumberFacts DEF Years
      <4>2. row[o].no[2] <= row[o].year /\ row[o].year <= year
        BY <4>1 DEF IInv, OrderOK, NoneAhead
      <4> QED
        BY <4>1, <4>2, OrderTypes DEF IInv
    <3> QED
      BY <1>2, <3>1 DEF IInv, OrderOK, NoneAhead
  <2>3. RowFits(o)' /\ Printed(o)'
    BY <1>1, <1>2 DEF IInv, OrderOK, RowFits, Held, Printed
  <2>4. Places(o)'
    <3> SUFFICES ASSUME NEW s \in Tills
                 PROVE  /\ <<s, o>> \in parked' => OnShelf(s, o)'
                        /\ cart'[s].order = o => OnScreen(s, o)'
      BY DEF Places
    <3>1. <<s, o>> \notin parked
      BY <1>1 DEF IInv, OrderOK, Places, OnShelf
    <3>2. ASSUME cart'[s].order = o PROVE OnScreen(s, o)'
      <4>1. \A z \in Tills : cart'[z].order = o => z = t \/ cart[z].order = o
        BY <1>4
      <4>2. \A z \in Tills : cart'[z].order = o /\ row[o].no \in TillNumbers => z = t
        BY <4>1, <1>5 DEF IInv, OrderOK, Places, OnScreen
      <4>3. row[o].no \notin TillNumbers => row[o].no = Tag(o)
        BY <1>1
      <4> QED
        BY <3>2, <4>2, <4>3, <1>1, <1>2, <1>5, <1>6 DEF OnScreen
    <3> QED
      BY <3>1, <3>2
  <2> QED
    BY <2>1, <2>2, <2>3, <2>4 DEF OrderOK
<1>8. Uses(o)' \subseteq Uses(o)
  BY <1>1, <1>2 DEF Uses
<1>9. \A s \in Tills, y \in Years : counter[s][y] <= counter'[s][y]
  BY CountersStand DEF IInv
<1>10. \A p \in Orders \ {o} : number'[p] = number[p]
  BY <1>2 DEF IInv, TypeOK
<1> QED
  BY <1>3, <1>4, <1>7, <1>8, <1>9, <1>10, OneOrder

LEMMA NewYearKeeps ==
  ASSUME IInv, NewYear
  PROVE  IInv'
<1> USE DEF NewYear
<1>1. TypeOK'
  BY NumberingAssumption DEF IInv, TypeOK, Years
<1>2. year \in Nat /\ year' \in Nat /\ year <= year' /\ TypeOK
  BY <1>1 DEF IInv, TypeOK, Years
<1>3. \A p \in Orders : OrderOK(p)' /\ Uses(p)' \subseteq Uses(p)
  BY <1>2, Untouched DEF IInv
<1>4. CounterAhead' /\ UsesDiffer'
  BY <1>3 DEF IInv, CounterAhead, UsesDiffer
<1> QED
  BY <1>1, <1>3, <1>4 DEF IInv

LEMMA CloseKeeps ==
  ASSUME IInv, NEW o \in Orders, Close(o)
  PROVE  IInv'
<1> USE DEF Close
<1>1. /\ Held(o) /\ row[o].state # "none"
      /\ row'[o] = [row[o] EXCEPT !.state = "sale"] /\ row[o] \in Invoices
      /\ \A p \in Orders \ {o} : row'[p] = row[p]
  BY DEF IInv, TypeOK, Held
<1>2. /\ row'[o].state = "sale" /\ row'[o].no = row[o].no /\ row'[o].at = row[o].at
      /\ row'[o].year = row[o].year /\ row'[o] \in Invoices
  BY <1>1 DEF Invoices
<1>3. TypeOK'
  BY <1>2 DEF IInv, TypeOK
<1>4. OrderOK(o)'
  <2>1. Names(o)' /\ NoneAhead(o)' /\ Printed(o)'
    BY <1>1, <1>2 DEF IInv, OrderOK, Names, NoneAhead, Printed
  <2>2. RowFits(o)'
    BY <1>1, <1>2 DEF IInv, OrderOK, RowFits, Held
  <2>3. Places(o)'
    BY <1>1, <1>2 DEF IInv, OrderOK, Places, OnShelf, OnScreen
  <2> QED
    BY <2>1, <2>2, <2>3 DEF OrderOK
<1>5. Uses(o)' \subseteq Uses(o)
  BY <1>2 DEF Uses, AtTill
<1>6. \A s \in Tills, y \in Years : counter[s][y] <= counter'[s][y]
  BY CountersStand DEF IInv
<1> QED
  BY <1>1, <1>3, <1>4, <1>5, <1>6, OneOrder

\* A row that is made for an order that nobody has seen: it fits, and its number is
\* the order's tag, or one that nobody has, or loose.
LEMMA NewRow ==
  ASSUME IInv, NEW o \in Orders, Fresh(o), RowFits(o)',
         loose \subseteq loose', loose' \subseteq TillNumbers,
         UNCHANGED <<year, counter, cart, parked, number, charged, bill, tagged>>,
         row' = [row EXCEPT ![o] = row'[o]], row'[o] \in Invoices, row'[o].year = year,
         row'[o].no \in Numbers => row'[o].no[2] <= year,
         \/ row'[o].no \in {Tag(o)} \cup loose'
         \/ /\ row'[o].no \in Numbers \ TillNumbers
            /\ \A p \in Orders \ {o} : row[p].no # row'[o].no
  PROVE  IInv'
<1>1. /\ number[o] = None /\ charged[o] = None /\ bill[o] = None /\ row[o] = NoRow
      /\ \A t \in Tills : cart[t].order # o /\ <<t, o>> \notin parked
  BY FreshIsNowhere
<1>2. TypeOK'
  BY DEF IInv, TypeOK
<1>3. \A p \in Orders \ {o} : row'[p] = row[p]
  BY DEF IInv, TypeOK
<1>4. OrderOK(o)'
  <2>1. Names(o)' /\ Printed(o)' /\ Places(o)'
    BY <1>1, NoneFacts DEF Names, Printed, Places
  <2>2. NoneAhead(o)'
    <3>1. year \in Nat
      BY OrderTypes DEF IInv
    <3> QED
      BY <1>1, <3>1, NoneFacts DEF NoneAhead
  <2> QED
    BY <2>1, <2>2 DEF OrderOK
<1>5. Uses(o)' \subseteq {row'[o].no}
  BY <1>1 DEF Uses, AtTill
<1>6. \A s \in Tills, y \in Years : counter[s][y] <= counter'[s][y]
  BY CountersStand DEF IInv
<1>7. ASSUME row'[o].no \in Numbers \ TillNumbers,
             \A p \in Orders \ {o} : row[p].no # row'[o].no,
             NEW p \in Orders \ {o}
      PROVE  row'[o].no \notin Uses(p)
  <2>1. row'[o].no # number[p] /\ row'[o].no # bill[p]
    BY <1>7, TagFacts, NoneFacts DEF IInv, OrderOK, Names
  <2> QED
    BY <1>7, <2>1 DEF Uses
<1>8. \A n \in Uses(o)' :
        \/ n \in Uses(o) \cup loose'
        \/ /\ \A p \in Orders \ {o} : n \notin Uses(p)
           /\ n \in TillNumbers => n[3] <= counter'[n[1]][n[2]]
  BY <1>5, <1>7, TagIsOwn, TagFacts
<1> QED
  BY <1>2, <1>3, <1>4, <1>6, <1>8, OneOrder

LEMMA PostChargeKeeps ==
  ASSUME IInv, NEW d \in Desks, NEW o \in Orders, PostCharge(d, o)
  PROVE  IInv'
<1> USE DEF PostCharge
<1>1. row'[o] = [state |-> "folio", no |-> Tag(o), at |-> d, year |-> year]
      /\ row' = [row EXCEPT ![o] = row'[o]]
  BY DEF IInv, TypeOK
<1>2. row'[o] \in Invoices
  BY <1>1 DEF Invoices, Terminals, IInv, TypeOK
<1>3. RowFits(o)'
  BY <1>1, TagFacts DEF RowFits, Held
<1>4. loose' \subseteq TillNumbers
  BY DEF IInv, TypeOK
<1>5. /\ Fresh(o) /\ loose \subseteq loose'
      /\ UNCHANGED <<year, counter, cart, parked, number, charged, bill, tagged>>
      /\ row'[o].year = year /\ row'[o].no = Tag(o) /\ row'[o].no \notin Numbers
  BY <1>1, TagFacts
<1> QED
  BY <1>1, <1>2, <1>3, <1>4, <1>5, NewRow

\* Deliver: the row is completed under its own number, or takes the bill's.
LEMMA DeliverKeeps ==
  ASSUME IInv, NEW o \in Orders, Deliver(o)
  PROVE  IInv'
<1> USE DEF Deliver
<1>1. PICK n : n = IF row[o].state = "none" THEN bill[o] ELSE row[o].no
  OBVIOUS
<1>2. /\ row' = [row EXCEPT ![o] = [state |-> "sale", at |-> charged[o], year |-> year,
                                    no |-> n]]
      /\ row'[o] = [state |-> "sale", at |-> charged[o], year |-> year, no |-> n]
      /\ \A p \in Orders \ {o} : row'[p] = row[p]
  BY <1>1 DEF IInv, TypeOK
<1>3. /\ row[o].state # "none" => Held(o)
      /\ charged[o] \in Tills /\ bill[o] # None /\ row[o].year <= year
  BY OrderTypes DEF Held, IInv, OrderOK, Names, NoneAhead
<1>4. n \in {Tag(o)} \cup TillNumbers /\ n # None /\ n \in {bill[o], row[o].no}
  <2>1. CASE row[o].state = "none"
    BY <1>1, <1>3, <2>1 DEF IInv, OrderOK, Names
  <2>2. CASE row[o].state # "none"
    BY <1>1, <1>3, <2>2 DEF IInv, OrderOK, RowFits
  <2> QED
    BY <2>1, <2>2
<1>5. n \in TillNumbers => n[1] = charged[o]
  BY <1>3, <1>4 DEF IInv, OrderOK, Names
<1>6. n \in TillNumbers => n[2] <= year
  <2> SUFFICES ASSUME n \in TillNumbers PROVE n[2] <= year
    OBVIOUS
  <2>1. n \in Numbers /\ n[2] \in Nat
    BY TillNumberFacts DEF Years
  <2>2. n[2] <= year \/ n[2] <= row[o].year
    BY <1>4, <2>1 DEF IInv, OrderOK, NoneAhead
  <2> QED
    BY <1>3, <2>1, <2>2, OrderTypes DEF IInv
<1>7. TillNumbers \subseteq Numbers
  BY TillNumberFacts
<1>8. TypeOK'
  <2>1. row'[o] \in Invoices
    BY <1>2, <1>3, <1>4, <1>7 DEF Invoices, Terminals, IInv, TypeOK
  <2> QED
    BY <1>2, <2>1 DEF IInv, TypeOK
<1>9. OrderOK(o)'
  <2>1. Names(o)'
    BY <1>2, <1>5 DEF IInv, OrderOK, Names
  <2>2. NoneAhead(o)'
    <3>1. n \in Numbers => n \in TillNumbers
      BY <1>4, TagFacts
    <3> QED
      BY <1>2, <1>6, <3>1, OrderTypes DEF IInv, OrderOK, NoneAhead
  <2>3. RowFits(o)'
    <3>1. n \in Numbers => n \in TillNumbers
      BY <1>4, TagFacts
    <3> QED
      BY <1>2, <1>3, <1>4, <1>5, <1>7, <3>1 DEF RowFits, Held
  <2>4. Places(o)'
    <3> SUFFICES ASSUME NEW t \in Tills
                 PROVE  /\ <<t, o>> \in parked' => OnShelf(t, o)'
                        /\ cart'[t].order = o => OnScreen(t, o)'
      BY DEF Places
    <3>1. <<t, o>> \notin parked
      BY <1>3 DEF IInv, OrderOK, Places, OnShelf
    <3>2. ASSUME cart'[t].order = o PROVE OnScreen(t, o)'
      <4>1. OnScreen(t, o)
        BY <3>2 DEF IInv, OrderOK, Places
      <4>2. row[o].state # "none" /\ n = row[o].no
        BY <1>1, <1>3, <4>1 DEF OnScreen
      <4> QED
        BY <1>2, <4>1, <4>2 DEF OnScreen
    <3> QED
      BY <3>1, <3>2
  <2>5. Printed(o)'
    BY <1>1, <1>2 DEF IInv, OrderOK, Printed
  <2> QED
    BY <2>1, <2>2, <2>3, <2>4, <2>5 DEF OrderOK
<1>10. Uses(o)' \subseteq Uses(o)
  <2>1. n \in Uses(o)
    BY <1>4 DEF Uses
  <2> QED
    BY <1>2, <2>1 DEF Uses, AtTill
<1>11. \A s \in Tills, y \in Years : counter[s][y] <= counter'[s][y]
  BY CountersStand DEF IInv
<1> QED
  BY <1>2, <1>8, <1>9, <1>10, <1>11, OneOrder

LEMMA TabletSendKeeps ==
  ASSUME IInv, NEW w \in Tablets, NEW o \in Orders, NEW s \in {"open", "sent"},
         TabletSend(w, o, s)
  PROVE  IInv'
<1> USE DEF TabletSend
<1>1. CASE row[o].state = "none"
  <2>1. /\ row'[o] = [state |-> s, no |-> Tag(o), at |-> w, year |-> year]
        /\ row' = [row EXCEPT ![o] = row'[o]]
    BY <1>1 DEF Upserted, IInv, TypeOK
  <2>2. Fresh(o)
    <3>1. row[o] = NoRow
      BY <1>1 DEF IInv, OrderOK, RowFits
    <3>2. row[o].at # w
      BY <3>1, NoneFacts DEF NoRow, Terminals
    <3> QED
      BY <3>2
  <2>3. row'[o] \in Invoices
    BY <2>1 DEF Invoices, Terminals, IInv, TypeOK
  <2>4. RowFits(o)'
    BY <2>1, TagFacts DEF RowFits, Held
  <2>5. /\ loose \subseteq loose' /\ loose' \subseteq TillNumbers
        /\ UNCHANGED <<year, counter, cart, parked, number, charged, bill, tagged>>
        /\ row'[o].year = year /\ row'[o].no = Tag(o) /\ row'[o].no \notin Numbers
    BY <2>1, TagFacts DEF IInv, TypeOK
  <2> QED
    BY <2>1, <2>2, <2>3, <2>4, <2>5, NewRow
<1>2. CASE row[o].state # "none"
  <2>1. /\ Held(o) /\ row'[o] = [row[o] EXCEPT !.state = row'[o].state]
        /\ row'[o].state \in {"open", "sent", "void"}
        /\ \A p \in Orders \ {o} : row'[p] = row[p]
        /\ row' = [row EXCEPT ![o] = row'[o]]
    BY <1>2 DEF Upserted, IInv, TypeOK, Held, Invoices
  <2>2. /\ row'[o].no = row[o].no /\ row'[o].at = row[o].at
        /\ row'[o].year = row[o].year /\ row'[o] \in Invoices
    BY <2>1 DEF Invoices, IInv, TypeOK
  <2>3. TypeOK'
    BY <2>1, <2>2 DEF IInv, TypeOK
  <2>4. OrderOK(o)'
    <3>1. Names(o)' /\ NoneAhead(o)' /\ Printed(o)'
      BY <1>2, <2>1, <2>2 DEF IInv, OrderOK, Names, NoneAhead, Printed
    <3>2. RowFits(o)'
      BY <1>2, <2>1, <2>2 DEF IInv, OrderOK, RowFits, Held
    <3>3. Places(o)'
      BY <1>2, <2>1, <2>2 DEF IInv, OrderOK, Places, OnShelf, OnScreen
    <3> QED
      BY <3>1, <3>2, <3>3 DEF OrderOK
  <2>5. Uses(o)' \subseteq Uses(o)
    BY <2>2 DEF Uses, AtTill
  <2>6. \A z \in Tills, y \in Years : counter[z][y] <= counter'[z][y]
    BY CountersStand DEF IInv
  <2> QED
    BY <2>1, <2>3, <2>4, <2>5, <2>6, OneOrder
<1> QED
  BY <1>1, <1>2

-----------------------------------------------------------------------------
(* The server's counter                                                    *)

\* A set of numbers that is not empty and does not exceed m has a largest element.
LEMMA LargestExists ==
  ASSUME NEW m \in Nat, NEW S \in SUBSET (0 .. m), S # {}
  PROVE  \E x \in S : \A y \in S : y <= x
<1> DEFINE T == {m - x : x \in S}
<1>0. \A x \in S : x \in 0 .. m /\ m - x \in Nat
  OBVIOUS
<1>1. T \subseteq Nat /\ T # {}
  BY <1>0
<1>2. PICK z \in T : \A y \in T : ~(<<y, z>> \in OpToRel(<, Nat))
  BY <1>1, NatLessThanWellFounded, WFMin
<1>3. \A y \in T : ~(y < z)
  BY <1>1, <1>2 DEF OpToRel
<1>4. PICK x \in S : z = m - x
  BY <1>2
<1>5. \A y \in S : y <= x
  <2> SUFFICES ASSUME NEW y \in S, ~(y <= x)
               PROVE  FALSE
    OBVIOUS
  <2>1. m - y \in T
    OBVIOUS
  <2>2. ~(m - y < z)
    BY <1>3, <2>1
  <2> QED
    BY <1>4, <2>2
<1> QED
  BY <1>5

\* A tag sorts before the numbers of the desk's completed sales.
TagHides(d) == TagsFirst /\ \E o \in Counted(d) : row[o].no = Tag(o)

\* A set of numbers that is not empty has one of the last year with the last sequence.
LEMMA LastExists ==
  ASSUME NEW S \in SUBSET Numbers, S # {}
  PROVE  \E n \in S : \A m \in S : m[2] < n[2] \/ (m[2] = n[2] /\ m[3] <= n[3])
<1> DEFINE years == {n[2] : n \in S}
<1>0. MaxSeq \in Nat /\ MaxYear \in Nat
  BY NumberingAssumption
<1>1. \A n \in S : n[2] \in 1 .. MaxYear /\ n[3] \in 1 .. MaxSeq
  BY NumberFacts DEF Years
<1>2. years \in SUBSET (0 .. MaxYear) /\ years # {}
  BY <1>0, <1>1
<1>3. PICK y \in years : \A z \in years : z <= y
  BY <1>0, <1>2, LargestExists
<1> DEFINE seqs == {n[3] : n \in {m \in S : m[2] = y}}
<1>4. seqs \in SUBSET (0 .. MaxSeq) /\ seqs # {}
  BY <1>0, <1>1, <1>3
<1>5. PICK x \in seqs : \A z \in seqs : z <= x
  BY <1>0, <1>4, LargestExists
<1>6. PICK n \in S : n[2] = y /\ n[3] = x
  BY <1>5
<1>7. ASSUME NEW m \in S PROVE m[2] < n[2] \/ (m[2] = n[2] /\ m[3] <= n[3])
  <2>1. m[2] <= y /\ m[2] \in Nat /\ y \in Nat
    BY <1>1, <1>2, <1>3
  <2>2. CASE m[2] = y
    BY <1>5, <1>6, <2>2
  <2> QED
    BY <1>6, <2>1, <2>2
<1> QED
  BY <1>7

\* The server's query finds the last number of the year at a terminal, if there is
\* one among the completed sales of this year and no tag hides it.
LEMMA LastSeqIsLast ==
  ASSUME IInv, NEW d
  PROVE  /\ LastSeq(d) \in 0 .. MaxSeq
         /\ \A o \in Counted(d) : row[o].no \in Numbers /\ row[o].no[2] = year
                                   /\ ~TagHides(d) => row[o].no[3] <= LastSeq(d)
<1> DEFINE numbers == {row[o].no : o \in Counted(d)} \cap Numbers
<1>0. MaxSeq \in Nat
  BY NumberingAssumption
<1>1. CASE numbers = {} \/ TagHides(d)
  <2>1. LastSeq(d) = 0
    BY <1>1 DEF LastSeq, TagHides
  <2> QED
    BY <1>0, <1>1, <2>1
<1>2. CASE numbers # {} /\ ~TagHides(d)
  <2> DEFINE top == CHOOSE v \in numbers :
                      \A m \in numbers : m[2] < v[2] \/ (m[2] = v[2] /\ m[3] <= v[3])
  <2>1. numbers \in SUBSET Numbers
    OBVIOUS
  <2>2. \E n \in numbers : \A m \in numbers : m[2] < n[2] \/ (m[2] = n[2] /\ m[3] <= n[3])
    BY <1>2, <2>1, LastExists
  <2>3. /\ top \in numbers
        /\ \A m \in numbers : m[2] < top[2] \/ (m[2] = top[2] /\ m[3] <= top[3])
    BY <2>2
  <2>4. LastSeq(d) = top[3]
    BY <1>2 DEF LastSeq, TagHides
  <2> HIDE DEF top
  <2>5. top \in Numbers /\ top[3] \in 1 .. MaxSeq /\ top[2] \in Nat
    BY <2>3, NumberFacts DEF Years
  <2>6. top[2] <= year
    <3>1. PICK p \in Counted(d) : top = row[p].no
      BY <2>3
    <3>2. p \in Orders /\ row[p].year = year
      BY <3>1 DEF Counted
    <3> QED
      BY <2>5, <3>1, <3>2 DEF IInv, OrderOK, NoneAhead
  <2>7. ASSUME NEW o \in Counted(d), row[o].no \in Numbers, row[o].no[2] = year
        PROVE  row[o].no[3] <= LastSeq(d)
    <3>1. row[o].no[2] < top[2] \/ row[o].no[3] <= top[3]
      BY <2>3, <2>7
    <3>2. year \in Nat
      BY DEF IInv, TypeOK, Years
    <3> QED
      BY <2>4, <2>5, <2>6, <2>7, <3>1, <3>2
  <2> QED
    BY <1>0, <2>4, <2>5, <2>7
<1> QED
  BY <1>1, <1>2

\* The server's invoice: its number is on no row; a till's is loose from now on.
LEMMA IssueKeeps ==
  ASSUME IInv, NEW d \in Desks, NEW o \in Orders, NEW k \in Types, Issue(d, o, k)
  PROVE  IInv'
<1> USE DEF Issue
<1>1. PICK n : n = NextNo(d)
  OBVIOUS
<1>2. /\ n \in Numbers /\ n[1] = d /\ n[2] = year
  <2>1. LastSeq(d) \in 0 .. MaxSeq /\ MaxSeq \in Nat /\ year \in Years
    BY LastSeqIsLast, NumberingAssumption DEF IInv, TypeOK
  <2>2. LastSeq(d) + 1 \in 1 .. MaxSeq
    BY <2>1
  <2> QED
    BY <1>1, <2>1, <2>2 DEF NextNo, Numbers, Terminals
<1>3. row'[o] = [state |-> k, no |-> n, at |-> d, year |-> year]
      /\ row' = [row EXCEPT ![o] = row'[o]]
  BY <1>1 DEF IInv, TypeOK
<1>4. k \in {"sale", "debit_note"} /\ n # None /\ n # Tag(o)
  BY <1>2, NumberingAssumption, NoneFacts, TagFacts
<1>5. row'[o] \in Invoices
  BY <1>2, <1>3, <1>4 DEF Invoices, Terminals, IInv, TypeOK
<1>6. RowFits(o)'
  BY <1>2, <1>3, <1>4 DEF RowFits, Held
<1>7. loose \subseteq loose' /\ loose' \subseteq TillNumbers
      /\ (n \in TillNumbers => n \in loose')
  BY <1>1 DEF IInv, TypeOK
<1>8. \A p \in Orders \ {o} : row[p].no # n
  BY <1>1 DEF Free
<1>9. /\ Fresh(o) /\ UNCHANGED <<year, counter, cart, parked, number, charged, bill, tagged>>
      /\ row'[o].year = year /\ row'[o].no = n
      /\ year \in Nat
  BY <1>3 DEF IInv, TypeOK, Years
<1>10. row'[o].no \in Numbers => row'[o].no[2] <= year
  BY <1>2, <1>9
<1>11. \/ row'[o].no \in {Tag(o)} \cup loose'
       \/ /\ row'[o].no \in Numbers \ TillNumbers
          /\ \A p \in Orders \ {o} : row[p].no # row'[o].no
  BY <1>2, <1>7, <1>8, <1>9
<1> QED
  BY <1>3, <1>5, <1>6, <1>7, <1>9, <1>10, <1>11, NewRow

-----------------------------------------------------------------------------
(* The actions that may mint                                               *)

\* A number that the counter has not reached is known to nobody, or loose.
LEMMA MintIsNew ==
  ASSUME IInv, NEW t \in Tills, NEW n \in TillNumbers, n = <<t, year, counter[t][year] + 1>>,
         NEW p \in Orders, n \in Uses(p)
  PROVE  n \in loose
<1>1. n[1] = t /\ n[2] = year /\ n[3] = counter[t][year] + 1 /\ counter[t][year] \in Nat
  BY DEF IInv, TypeOK
<1>2. ASSUME n \notin loose PROVE n[3] <= counter[t][year]
  BY <1>1, <1>2 DEF IInv, CounterAhead
<1> QED
  BY <1>1, <1>2

\* An order gets a new number of its till, and the counter moves there, or nothing.
LEMMA Numbered ==
  ASSUME IInv, NEW t \in Tills, NEW o \in Orders,
         Mint(t, o) \/ UNCHANGED <<counter, number>>
  PROVE  /\ counter' \in [Tills -> [Years -> 0 .. MaxSeq]]
         /\ number' \in [Orders -> {None} \cup TillNumbers \cup {Tag(p) : p \in Orders}]
         /\ \A p \in Orders \ {o} : number'[p] = number[p]
         /\ \A s \in Tills, y \in Years : counter[s][y] <= counter'[s][y]
         /\ \/ number'[o] = number[o]
            \/ /\ number'[o] \in TillNumbers
               /\ number'[o][1] = t /\ number'[o][2] = year
               /\ number'[o][3] <= counter'[number'[o][1]][number'[o][2]]
               /\ \A p \in Orders : number'[o] \in Uses(p) => number'[o] \in loose
<1>1. CASE UNCHANGED <<counter, number>>
  BY <1>1, CountersStand DEF IInv, TypeOK
<1>2. CASE Mint(t, o)
  <2>1. PICK c : c = counter[t][year] + 1
    OBVIOUS
  <2>2. /\ c <= MaxSeq
        /\ counter' = [counter EXCEPT ![t][year] = c]
        /\ number' = [number EXCEPT ![o] = <<t, year, c>>]
    BY <1>2, <2>1 DEF Mint
  <2>3. /\ counter \in [Tills -> [Years -> 0 .. MaxSeq]] /\ MaxSeq \in Nat /\ year \in Years
        /\ number \in [Orders -> {None} \cup TillNumbers \cup {Tag(p) : p \in Orders}]
    BY NumberingAssumption DEF IInv, TypeOK
  <2>4. c \in 1 .. MaxSeq
    BY <2>1, <2>2, <2>3
  <2>5. <<t, year, c>> \in TillNumbers
    BY <2>3, <2>4 DEF TillNumbers
  <2>6. counter' \in [Tills -> [Years -> 0 .. MaxSeq]] /\ counter'[t][year] = c
    BY <2>2, <2>3, <2>4
  <2>7. \A s \in Tills, y \in Years : counter[s][y] <= counter'[s][y]
    BY <2>1, <2>2, <2>3, <2>4
  <2>8. /\ number' \in [Orders -> {None} \cup TillNumbers \cup {Tag(p) : p \in Orders}]
        /\ number'[o] = <<t, year, c>> /\ \A p \in Orders \ {o} : number'[p] = number[p]
    BY <2>2, <2>3, <2>5
  <2>9. \A p \in Orders : number'[o] \in Uses(p) => number'[o] \in loose
    BY <2>1, <2>5, <2>8, MintIsNew
  <2>10. /\ number'[o][1] = t /\ number'[o][2] = year /\ number'[o][3] = c /\ c <= c
    BY <2>4, <2>8
  <2> QED
    BY <2>5, <2>6, <2>7, <2>8, <2>9, <2>10
<1> QED
  BY <1>1, <1>2

\* An order whose number may be new, and that is known by nothing else that is new,
\* keeps the invariant if it stays as it should be.
LEMMA NumberedOrder ==
  ASSUME IInv, TypeOK', NEW t \in Tills, NEW o \in Orders,
         Mint(t, o) \/ UNCHANGED <<counter, number>>,
         OrderOK(o)',
         \A p \in Orders \ {o} :
            /\ row'[p] = row[p] /\ bill'[p] = bill[p] /\ charged'[p] = charged[p]
            /\ \A s \in Tills : cart'[s].order = p => cart[s].order = p
            /\ \A s \in Tills : <<s, p>> \in parked' => <<s, p>> \in parked,
         year' = year, loose' = loose, tagged \subseteq tagged',
         cart[t].order = o,
         Uses(o)' \subseteq Uses(o) \cup {number'[o], Tag(o)}
  PROVE  IInv'
<1>1. /\ \A p \in Orders \ {o} : number'[p] = number[p]
      /\ \A s \in Tills, y \in Years : counter[s][y] <= counter'[s][y]
      /\ \/ number'[o] = number[o]
         \/ /\ number'[o][3] <= counter'[number'[o][1]][number'[o][2]]
            /\ \A p \in Orders : number'[o] \in Uses(p) => number'[o] \in loose
  BY Numbered
<1>2. ASSUME NEW n \in Uses(o)', number'[o] = number[o]
      PROVE  n \in Uses(o) \cup {Tag(o)}
  <2>1. n # None
    BY <1>2 DEF Uses
  <2> QED
    BY <1>2, <2>1 DEF Uses, AtTill
<1>3. \A n \in Uses(o)' :
        \/ n \in Uses(o) \cup loose'
        \/ /\ \A p \in Orders \ {o} : n \notin Uses(p)
           /\ n \in TillNumbers => n[3] <= counter'[n[1]][n[2]]
  <2> SUFFICES ASSUME NEW n \in Uses(o)', n \notin Uses(o), n \notin loose'
               PROVE  /\ \A p \in Orders \ {o} : n \notin Uses(p)
                      /\ n \in TillNumbers => n[3] <= counter'[n[1]][n[2]]
    OBVIOUS
  <2>1. CASE n = Tag(o)
    BY <2>1, TagIsOwn, TagFacts
  <2>2. CASE n # Tag(o)
    <3>1. n = number'[o] /\ number'[o] # number[o]
      BY <1>2, <2>2
    <3> QED
      BY <1>1, <3>1
  <2> QED
    BY <2>1, <2>2
<1> QED
  BY <1>1, <1>3, OneOrder

\* The number of an order on a till's screen, after Mint or not: as on the screen.
LEMMA StillFits ==
  ASSUME IInv, NEW t \in Tills, NEW o \in Orders, cart[t].order = o,
         Mint(t, o) \/ UNCHANGED <<counter, number>>
  PROVE  /\ number'[o] \in {None, Tag(o)} \cup TillNumbers
         /\ number'[o] \in TillNumbers => number'[o][1] = t /\ number'[o][2] <= year
         /\ number'[o] = Tag(o) => number[o] = Tag(o)
         /\ row[o].state = "none" => number'[o] # Tag(o)
<1>1. /\ number[o] \in {None, Tag(o)} \cup TillNumbers /\ year \in Nat
      /\ number[o] \in TillNumbers => number[o][1] = t /\ number[o][2] <= year
      /\ row[o].state = "none" => number[o] # Tag(o)
  BY OrderTypes DEF IInv, OrderOK, Names, NoneAhead, RowFits, Places, OnScreen
<1> QED
  BY <1>1, Numbered, TagFacts

LEMMA ChargeKeeps ==
  ASSUME IInv, NEW t \in Tills, Charge(t)
  PROVE  IInv'
<1>1. PICK o \in Orders : o = cart[t].order
  BY DEF Charge, IInv, TypeOK
<1>2. /\ IF number[o] = None THEN Mint(t, o) ELSE UNCHANGED <<counter, number>>
      /\ charged' = [charged EXCEPT ![o] = IF @ = None THEN t ELSE @]
      /\ bill' = [bill EXCEPT ![o] = IF @ = None THEN number'[o] ELSE @]
      /\ cart' = [cart EXCEPT ![t] = Empty]
      /\ UNCHANGED <<year, parked, row, loose, tagged>>
  BY <1>1 DEF Charge, Clear
<1>3. /\ Mint(t, o) \/ UNCHANGED <<counter, number>>
      /\ number[o] # None => number'[o] = number[o]
  BY <1>2
<1>4. /\ number'[o] \in {Tag(o)} \cup TillNumbers
      /\ number'[o] \in TillNumbers => number'[o][1] = t /\ number'[o][2] <= year
      /\ row[o].state = "none" => number'[o] # Tag(o)
  <2>1. number'[o] # None
    <3>1. CASE number[o] # None
      BY <1>3, <3>1
    <3>2. CASE number[o] = None
      <4>1. number'[o] = <<t, year, counter[t][year] + 1>>
        BY <1>2, <3>2 DEF Mint, IInv, TypeOK
      <4>2. counter[t][year] + 1 \in Nat /\ year \in Years /\ t \in Terminals
        BY DEF IInv, TypeOK, Terminals
      <4> QED
        BY <4>1, <4>2, NoneAssumption
    <3> QED
      BY <3>1, <3>2
  <2> QED
    BY <1>1, <1>3, <2>1, StillFits
<1>5. /\ charged'[o] = IF charged[o] = None THEN t ELSE charged[o]
      /\ bill'[o] = IF bill[o] = None THEN number'[o] ELSE bill[o]
      /\ \A p \in Orders \ {o} : charged'[p] = charged[p] /\ bill'[p] = bill[p]
  BY <1>2 DEF IInv, TypeOK
<1>6. \A s \in Tills, p \in Orders : cart'[s].order = p => s # t /\ cart[s].order = p
  BY <1>2, NoneFacts DEF IInv, TypeOK, Empty
<1>7. OnScreen(t, o) /\ (charged[o] = None <=> bill[o] = None) /\ number'[o] # None
  BY <1>1, <1>4, TagFacts, NoneFacts DEF IInv, OrderOK, Places, Names
<1>8. TypeOK'
  <2>1. cart' \in [Tills -> [order : Orders \cup {None}, resumed : BOOLEAN]]
    BY <1>2 DEF IInv, TypeOK, Empty
  <2>2. charged' \in [Orders -> Tills \cup {None}]
    BY <1>2 DEF IInv, TypeOK
  <2>3. bill' \in [Orders -> {None} \cup TillNumbers \cup {Tag(p) : p \in Orders}]
    BY <1>2, <1>4 DEF IInv, TypeOK
  <2>4. /\ counter' \in [Tills -> [Years -> 0 .. MaxSeq]]
        /\ number' \in [Orders -> {None} \cup TillNumbers \cup {Tag(p) : p \in Orders}]
    BY <1>3, Numbered
  <2> QED
    BY <1>2, <2>1, <2>2, <2>3, <2>4 DEF IInv, TypeOK
<1>9. OrderOK(o)'
  <2>1. Names(o)'
    <3>1. CASE charged[o] = None
      BY <1>2, <1>4, <1>5, <1>7, <3>1, NoneFacts DEF Names, OnScreen
    <3>2. CASE charged[o] # None
      BY <1>2, <1>4, <1>5, <1>7, <3>2 DEF IInv, OrderOK, Names
    <3> QED
      BY <3>1, <3>2
  <2>2. NoneAhead(o)'
    BY <1>2, <1>4, <1>5 DEF IInv, OrderOK, NoneAhead
  <2>3. RowFits(o)'
    BY <1>2, <1>4 DEF IInv, OrderOK, RowFits, Held
  <2>4. Places(o)'
    <3> SUFFICES ASSUME NEW s \in Tills
                 PROVE  /\ <<s, o>> \in parked' => OnShelf(s, o)'
                        /\ cart'[s].order = o => OnScreen(s, o)'
      BY DEF Places
    <3>1. <<s, o>> \notin parked
      BY <1>1 DEF IInv, OrderOK, Places, OnShelf
    <3>2. ASSUME cart'[s].order = o PROVE OnScreen(s, o)'
      <4>1. s # t /\ cart[s].order = o /\ OnScreen(s, o)
        BY <1>6, <3>2 DEF IInv, OrderOK, Places
      <4>2. number[o] = Tag(o)
        BY <1>7, <4>1 DEF OnScreen
      <4>3. number'[o] = Tag(o) /\ row[o].state # "none"
        BY <1>3, <1>4, <4>2, TagFacts
      <4> QED
        BY <1>2, <4>1, <4>2, <4>3, TagFacts DEF OnScreen
    <3> QED
      BY <1>2, <3>1, <3>2
  <2>5. Printed(o)'
    <3>1. CASE charged[o] = None
      <4>1. row[o].state # "none" => (o \in tagged \/ number[o] = row[o].no) /\ row[o].no # None
        BY <1>7 DEF OnScreen, IInv, OrderOK, RowFits
      <4> QED
        BY <1>2, <1>3, <1>5, <1>7, <3>1, <4>1 DEF Printed
    <3>2. CASE charged[o] # None
      BY <1>2, <1>5, <1>7, <3>2 DEF IInv, OrderOK, Printed
    <3> QED
      BY <3>1, <3>2
  <2> QED
    BY <2>1, <2>2, <2>3, <2>4, <2>5 DEF OrderOK
<1>10. Uses(o)' \subseteq Uses(o) \cup {number'[o], Tag(o)}
  BY <1>2, <1>5 DEF Uses
<1>11. \A p \in Orders \ {o} :
         /\ row'[p] = row[p] /\ bill'[p] = bill[p] /\ charged'[p] = charged[p]
         /\ \A s \in Tills : cart'[s].order = p => cart[s].order = p
         /\ \A s \in Tills : <<s, p>> \in parked' => <<s, p>> \in parked
  BY <1>2, <1>5, <1>6
<1> QED
  BY <1>1, <1>2, <1>3, <1>8, <1>9, <1>10, <1>11, NumberedOrder

LEMMA HoldKeeps ==
  ASSUME IInv, NEW t \in Tills, Hold(t)
  PROVE  IInv'
<1>1. PICK o \in Orders : o = cart[t].order /\ o \in Retail
  BY NumberingAssumption DEF Hold
<1>2. /\ Mint(t, o)
      /\ parked' = parked \cup {<<t, o>>}
      /\ cart' = [cart EXCEPT ![t] = Empty]
      /\ UNCHANGED <<year, charged, bill, row, loose, tagged>>
  BY <1>1 DEF Hold, Clear
<1>3. OnScreen(t, o) /\ row[o].state = "none" /\ charged[o] = None /\ row[o] = NoRow
      /\ number[o] # Tag(o)
  <2>1. OnScreen(t, o) /\ RowFits(o)
    BY <1>1 DEF IInv, OrderOK, Places
  <2>2. row[o].state = "none" /\ charged[o] = None
    BY <1>1, <2>1 DEF OnScreen
  <2> QED
    BY <2>1, <2>2 DEF RowFits
<1>4. number'[o] \in TillNumbers /\ number'[o][1] = t /\ number'[o][2] <= year
  <2>1. number'[o] # None
    <3>1. number'[o] = <<t, year, counter[t][year] + 1>>
      BY <1>2 DEF Mint, IInv, TypeOK
    <3>2. counter[t][year] + 1 \in Nat /\ year \in Years /\ t \in Terminals
      BY DEF IInv, TypeOK, Terminals
    <3> QED
      BY <3>1, <3>2, NoneAssumption
  <2> QED
    BY <1>1, <1>2, <1>3, <2>1, StillFits
<1>5. \A s \in Tills, p \in Orders :
        /\ cart'[s].order = p => s # t /\ cart[s].order = p
        /\ <<s, p>> \in parked' => <<s, p>> \in parked \/ (s = t /\ p = o)
  BY <1>2, NoneFacts DEF IInv, TypeOK, Empty
<1>6. TypeOK'
  <2>1. cart' \in [Tills -> [order : Orders \cup {None}, resumed : BOOLEAN]]
    BY <1>2 DEF IInv, TypeOK, Empty
  <2>2. parked' \subseteq Tills \X Orders
    BY <1>2 DEF IInv, TypeOK
  <2>3. /\ counter' \in [Tills -> [Years -> 0 .. MaxSeq]]
        /\ number' \in [Orders -> {None} \cup TillNumbers \cup {Tag(p) : p \in Orders}]
    BY <1>2, Numbered
  <2> QED
    BY <1>2, <2>1, <2>2, <2>3 DEF IInv, TypeOK
<1>7. OrderOK(o)'
  <2>1. Names(o)' /\ NoneAhead(o)' /\ Printed(o)'
    BY <1>2, <1>3, <1>4 DEF IInv, OrderOK, Names, NoneAhead, Printed
  <2>2. RowFits(o)'
    BY <1>2, <1>3, <1>4, TagFacts DEF IInv, OrderOK, RowFits, Held
  <2>3. Places(o)'
    <3>1. \A s \in Tills : <<s, o>> \notin parked
      BY <1>1 DEF IInv, OrderOK, Places, OnShelf
    <3>2. \A s \in Tills : cart'[s].order # o
      BY <1>3, <1>5 DEF OnScreen
    <3>3. \A s \in Tills : <<s, o>> \in parked' => s = t
      BY <1>5, <3>1
    <3>4. OnShelf(t, o)'
      BY <1>1, <1>2, <1>3, <1>4, <3>2, <3>3 DEF OnShelf
    <3> QED
      BY <3>2, <3>3, <3>4 DEF Places
  <2> QED
    BY <2>1, <2>2, <2>3 DEF OrderOK
<1>8. Uses(o)' \subseteq Uses(o) \cup {number'[o], Tag(o)}
  BY <1>2 DEF Uses
<1>9. \A p \in Orders \ {o} :
        /\ row'[p] = row[p] /\ bill'[p] = bill[p] /\ charged'[p] = charged[p]
        /\ \A s \in Tills : cart'[s].order = p => cart[s].order = p
        /\ \A s \in Tills : <<s, p>> \in parked' => <<s, p>> \in parked
  BY <1>2, <1>5
<1> QED
  BY <1>1, <1>2, <1>6, <1>7, <1>8, <1>9, NumberedOrder

\* The row stays, or is held before and after: its number and terminal stay.
SameRow(o) ==
    /\ row'[o].no = row[o].no /\ row'[o].at = row[o].at /\ row'[o].year = row[o].year
    /\ row'[o] = row[o] \/ (Held(o) /\ Held(o)')

\* What a row becomes by Send: it stays, or a held row changes its state only, or a
\* new row gets what the till calls the order.
LEMMA SentRow ==
  ASSUME IInv, NEW t \in Tills, NEW o \in Orders, NEW s \in {"open", "sent"}, NEW n,
         n \in {Tag(o)} \cup TillNumbers,
         Upserted(o, s, n, t) \/ UNCHANGED row
  PROVE  /\ row' \in [Orders -> Invoices] /\ \A p \in Orders \ {o} : row'[p] = row[p]
         /\ \/ SameRow(o)
            \/ /\ row[o].state = "none"
               /\ row'[o] = [state |-> s, no |-> n, at |-> t, year |-> year]
<1> USE DEF IInv, TypeOK
<1>1. CASE UNCHANGED row
  BY <1>1 DEF SameRow
<1>2. CASE Upserted(o, s, n, t) /\ row[o].state = "none"
  <2>1. row' = [row EXCEPT ![o] = [state |-> s, no |-> n, at |-> t, year |-> year]]
    BY <1>2 DEF Upserted
  <2>2. [state |-> s, no |-> n, at |-> t, year |-> year] \in Invoices
    BY TillNumberFacts DEF Invoices, Terminals
  <2> QED
    BY <1>2, <2>1, <2>2
<1>3. CASE Upserted(o, s, n, t) /\ row[o].state # "none"
  <2>1. /\ Held(o) /\ row[o] \in Invoices
        /\ row' = [row EXCEPT ![o].state = IF row[o].state = "open" THEN s ELSE row[o].state]
    BY <1>3 DEF Upserted, Held
  <2>2. /\ row'[o].state \in {"open", "sent", "void"} /\ row'[o].no = row[o].no
        /\ row'[o].at = row[o].at /\ row'[o].year = row[o].year /\ row'[o] \in Invoices
    BY <2>1 DEF Held, Invoices
  <2> QED
    BY <2>1, <2>2 DEF Held, SameRow
<1> QED
  BY <1>1, <1>2, <1>3

LEMMA SendKeeps ==
  ASSUME IInv, NEW t \in Tills, NEW s \in {"open", "sent"}, Send(t, s)
  PROVE  IInv'
<1>1. PICK o \in Orders : o = cart[t].order /\ o \notin Retail
  BY DEF Send
<1>2. PICK n : n = SentAs(o, number'[o])
  OBVIOUS
<1>3. /\ Ensure(t, o)
      /\ Upserted(o, s, n, t) \/ UNCHANGED row
      /\ cart' = [cart EXCEPT ![t] = Empty] \/ UNCHANGED cart
      /\ tagged' = tagged \cup {p \in {o} : row'[o].state # "none" /\ number'[o] = None}
      /\ UNCHANGED <<year, parked, charged, bill, loose>>
  BY <1>1, <1>2 DEF Send, Clear, Tags
<1>4. /\ Mint(t, o) \/ UNCHANGED <<counter, number>>
      /\ number[o] # None => number'[o] = number[o]
  BY <1>3 DEF Ensure
<1>5. /\ number'[o] \in {None, Tag(o)} \cup TillNumbers
      /\ number'[o] \in TillNumbers => number'[o][1] = t /\ number'[o][2] <= year
      /\ number'[o] = Tag(o) => number[o] = Tag(o)
      /\ row[o].state = "none" => number'[o] # Tag(o)
  BY <1>1, <1>4, StillFits
<1>6. /\ n \in {Tag(o)} \cup TillNumbers /\ n # None
      /\ n \in TillNumbers => n = number'[o]
      /\ number'[o] # None => n = number'[o]
  BY <1>2, <1>5, TagFacts, NoneFacts DEF SentAs
<1>7. /\ row' \in [Orders -> Invoices] /\ \A p \in Orders \ {o} : row'[p] = row[p]
      /\ \/ SameRow(o)
         \/ /\ row[o].state = "none"
            /\ row'[o] = [state |-> s, no |-> n, at |-> t, year |-> year]
  BY <1>1, <1>3, <1>6, SentRow
<1>8. /\ cart' \in [Tills -> [order : Orders \cup {None}, resumed : BOOLEAN]]
      /\ \A z \in Tills, p \in Orders : cart'[z].order = p => cart[z].order = p
  <2>1. cart \in [Tills -> [order : Orders \cup {None}, resumed : BOOLEAN]]
    BY DEF IInv, TypeOK
  <2>2. CASE UNCHANGED cart
    BY <2>1, <2>2
  <2>3. CASE cart' = [cart EXCEPT ![t] = Empty]
    BY <2>1, <2>3, NoneFacts DEF Empty
  <2> QED
    BY <1>3, <2>2, <2>3
<1>9. TypeOK'
  <2>2. /\ counter' \in [Tills -> [Years -> 0 .. MaxSeq]]
        /\ number' \in [Orders -> {None} \cup TillNumbers \cup {Tag(p) : p \in Orders}]
    BY <1>4, Numbered
  <2>3. tagged' \subseteq Orders
    BY <1>3 DEF IInv, TypeOK
  <2> QED
    BY <1>3, <1>7, <1>8, <2>2, <2>3 DEF IInv, TypeOK
<1>10. /\ OnScreen(t, o) /\ Names(o) /\ NoneAhead(o) /\ RowFits(o) /\ Printed(o)
       /\ \A z \in Tills : <<z, o>> \notin parked
  BY <1>1 DEF IInv, OrderOK, Places, OnShelf
<1>11. OrderOK(o)'
  <2>1. CASE SameRow(o)
    <3>1. Names(o)' /\ NoneAhead(o)'
      BY <1>3, <1>5, <1>10, <2>1 DEF Names, NoneAhead, SameRow
    <3>2. RowFits(o)'
      BY <1>5, <1>10, <2>1 DEF RowFits, Held, SameRow
    <3>3. row'[o].state = "none" <=> row[o].state = "none"
      BY <2>1 DEF Held, SameRow
    <3>4. Places(o)'
      <4> SUFFICES ASSUME NEW z \in Tills, cart'[z].order = o PROVE OnScreen(z, o)'
        BY <1>3, <1>10 DEF Places
      <4>1. cart[z].order = o /\ OnScreen(z, o)
        BY <1>8 DEF IInv, OrderOK, Places
      <4>2. number'[o] \in TillNumbers => z = t
        BY <1>4, <1>5, <1>10, <4>1, TagFacts, NoneFacts DEF OnScreen
      <4>3. \A y \in Tills : cart'[y].order = o => y = z \/ number'[o] = Tag(o)
        BY <1>4, <1>8, <4>1, TagFacts DEF OnScreen
      <4>4. row[o].state # "none" => o \in tagged' \/ number'[o] = row[o].no
        BY <1>3, <1>4, <1>10, <4>1 DEF OnScreen, RowFits
      <4> QED
        BY <1>1, <1>3, <1>5, <2>1, <3>3, <4>1, <4>2, <4>3, <4>4 DEF OnScreen, SameRow
    <3>5. Printed(o)'
      BY <1>3, <1>10, <2>1, <3>3 DEF Printed, SameRow
    <3> QED
      BY <3>1, <3>2, <3>4, <3>5 DEF OrderOK
  <2>2. CASE row[o].state = "none"
             /\ row'[o] = [state |-> s, no |-> n, at |-> t, year |-> year]
    <3>1. /\ charged[o] = None /\ charged'[o] = None /\ bill'[o] = None
          /\ row'[o].no = n /\ row'[o].at = t /\ row'[o].year = year
          /\ row'[o].state \in {"open", "sent"} /\ year \in Nat
      BY <1>3, <1>10, <2>2 DEF OnScreen, Names, IInv, TypeOK, Years
    <3>2. n \in Numbers <=> n \in TillNumbers
      BY <1>6, TagFacts, TillNumberFacts
    <3>3. Names(o)' /\ NoneAhead(o)'
      BY <1>3, <1>5, <1>6, <3>1, <3>2, NoneFacts DEF Names, NoneAhead
    <3>4. RowFits(o)'
      BY <1>1, <1>5, <1>6, <3>1, <3>2, TagFacts DEF RowFits, Held
    <3>5. Places(o)'
      <4> SUFFICES ASSUME NEW z \in Tills, cart'[z].order = o PROVE OnScreen(z, o)'
        BY <1>3, <1>10 DEF Places
      <4>1. \A y \in Tills : cart'[y].order = o => y = t
        BY <1>8, <1>10, <2>2 DEF OnScreen, RowFits
      <4>2. o \in tagged' \/ number'[o] = n
        BY <1>3, <1>6, <3>1
      <4> QED
        BY <1>1, <1>5, <1>6, <3>1, <4>1, <4>2 DEF OnScreen
    <3>6. Printed(o)'
      BY <3>1 DEF Printed
    <3> QED
      BY <3>3, <3>4, <3>5, <3>6 DEF OrderOK
  <2> QED
    BY <1>7, <2>1, <2>2
<1>12. Uses(o)' \subseteq Uses(o) \cup {number'[o], Tag(o)}
  <2>1. row'[o].no \in {row[o].no, number'[o], Tag(o)}
    BY <1>6, <1>7 DEF SameRow
  <2> QED
    BY <1>3, <2>1 DEF Uses
<1>13. \A p \in Orders \ {o} :
         /\ row'[p] = row[p] /\ bill'[p] = bill[p] /\ charged'[p] = charged[p]
         /\ \A z \in Tills : cart'[z].order = p => cart[z].order = p
         /\ \A z \in Tills : <<z, p>> \in parked' => <<z, p>> \in parked
  BY <1>3, <1>7, <1>8
<1> QED
  BY <1>1, <1>3, <1>4, <1>9, <1>11, <1>12, <1>13, NumberedOrder

-----------------------------------------------------------------------------
(* A number is handed back                                                 *)

\* Release takes one off the counter of the till and the year, or does nothing.
LEMMA Released ==
  ASSUME IInv, NEW t \in Tills, NEW o \in Orders, Release(t, o)
  PROVE  /\ counter' \in [Tills -> [Years -> 0 .. MaxSeq]]
         /\ \A s \in Tills, y \in Years :
              \/ counter'[s][y] = counter[s][y]
              \/ /\ s = t /\ y = year /\ counter' # counter
                 /\ counter'[s][y] = counter[s][y] - 1
<1> USE DEF IInv, TypeOK
<1>0. MaxSeq \in Nat
  BY NumberingAssumption
<1>1. CASE counter' = counter
  BY <1>1
<1>2. CASE number[o] # None /\ number[o][3] > 0 /\ counter[t][year] = number[o][3]
  <2>1. counter' = [counter EXCEPT ![t][year] = counter[t][year] - 1]
    BY <1>2 DEF Release
  <2>2. counter[t][year] \in 0 .. MaxSeq /\ counter[t][year] > 0
    BY <1>2
  <2>3. counter[t][year] - 1 \in 0 .. MaxSeq
    BY <1>0, <2>2
  <2>4. counter' \in [Tills -> [Years -> 0 .. MaxSeq]]
    BY <2>1, <2>3
  <2>5. counter'[t][year] = counter[t][year] - 1 /\ counter'[t][year] # counter[t][year]
    BY <2>1, <2>2
  <2>6. counter' # counter
    BY <2>5
  <2>7. \A s \in Tills, y \in Years :
          ~(s = t /\ y = year) => counter'[s][y] = counter[s][y]
    BY <2>1
  <2> QED
    BY <2>4, <2>5, <2>6, <2>7
<1> QED
  BY <1>1, <1>2 DEF Release

LEMMA VoidKeeps ==
  ASSUME IInv, NEW t \in Tills, Void(t)
  PROVE  IInv'
<1>1. PICK o \in Orders : o = cart[t].order
  BY DEF Void
<1>2. PICK last : last = <<t, year, counter[t][year]>>
  OBVIOUS
<1>3. /\ \/ row' = row
         \/ row' = [row EXCEPT ![o].state =
                      IF cart[t].resumed /\ row[o].state = "open" THEN "void"
                                                                  ELSE row[o].state]
      /\ Release(t, o)
      /\ cart' = [cart EXCEPT ![t] = Empty]
      /\ UNCHANGED <<year, parked, number, charged, bill, tagged>>
      /\ loose' = loose \cup {n \in {last} : counter' # counter
                                           /\ \E p \in Orders : n \in Uses(p)'}
  BY <1>1, <1>2 DEF Void, Clear
<1>4. /\ counter' \in [Tills -> [Years -> 0 .. MaxSeq]]
      /\ \A s \in Tills, y \in Years :
           \/ counter'[s][y] = counter[s][y]
           \/ /\ s = t /\ y = year /\ counter' # counter
              /\ counter'[s][y] = counter[s][y] - 1
  BY <1>3, Released
<1>5. \A s \in Tills, p \in Orders : cart'[s].order = p => cart[s].order = p
  BY <1>3, NoneFacts DEF IInv, TypeOK, Empty
<1>6. /\ row' \in [Orders -> Invoices] /\ \A p \in Orders \ {o} : row'[p] = row[p]
      /\ SameRow(o)
  <2>1. CASE row' = row
    BY <2>1 DEF SameRow, IInv, TypeOK
  <2>2. CASE /\ row' = [row EXCEPT ![o].state = "void"]
             /\ row[o].state = "open"
    <3>1. /\ row'[o].state = "void" /\ row'[o].no = row[o].no
          /\ row'[o].at = row[o].at /\ row'[o].year = row[o].year /\ row'[o] \in Invoices
      BY <2>2 DEF IInv, TypeOK, Invoices
    <3> QED
      BY <2>2, <3>1 DEF SameRow, Held, IInv, TypeOK
  <2>3. CASE row' = [row EXCEPT ![o].state = row[o].state]
    <3>1. row' = row
      BY <2>3 DEF IInv, TypeOK, Invoices
    <3> QED
      BY <2>1, <3>1
  <2> QED
    BY <1>3, <2>1, <2>2, <2>3
<1>7. \A p \in Orders : Uses(p)' \subseteq Uses(p)
  <2> SUFFICES ASSUME NEW p \in Orders PROVE Uses(p)' \subseteq Uses(p)
    OBVIOUS
  <2>1. row'[p].no = row[p].no
    BY <1>6 DEF SameRow
  <2>2. AtTill(p)' => AtTill(p)
    BY <1>3, <1>5 DEF AtTill
  <2> QED
    BY <1>3, <2>1, <2>2 DEF Uses
<1>8. loose \subseteq loose' /\ loose' \subseteq TillNumbers
  <2>1. ASSUME counter' # counter, NEW p \in Orders, last \in Uses(p)'
        PROVE  last \in TillNumbers
    <3>1. last \in Uses(p)
      BY <1>7, <2>1
    <3>2. last \in {Tag(p)} \cup Numbers
      BY <3>1, UsesTypes DEF IInv, OrderOK
    <3>3. last # Tag(p)
      BY <1>2 DEF Tag, IInv, TypeOK, Years
    <3> QED
      BY <1>2, <3>2, <3>3, NumberFacts
  <2> QED
    BY <1>3, <2>1 DEF IInv, TypeOK
<1>9. TypeOK'
  <2>1. cart' \in [Tills -> [order : Orders \cup {None}, resumed : BOOLEAN]]
    BY <1>3 DEF IInv, TypeOK, Empty
  <2> QED
    BY <1>3, <1>4, <1>6, <1>8, <2>1 DEF IInv, TypeOK
<1>10. ASSUME NEW p \in Orders PROVE OrderOK(p)'
  <2>1. CASE p # o
    <3>1. year \in Nat /\ TypeOK /\ OrderOK(p)
      BY DEF IInv, TypeOK, Years
    <3> QED
      BY <1>3, <1>5, <1>6, <2>1, <3>1, Untouched
  <2>2. CASE p = o
    <3>1. /\ OnScreen(t, o) /\ Names(o) /\ NoneAhead(o) /\ RowFits(o) /\ Printed(o)
          /\ \A z \in Tills : <<z, o>> \notin parked
      BY <1>1 DEF IInv, OrderOK, Places, OnShelf
    <3>2. Names(o)' /\ NoneAhead(o)'
      BY <1>3, <1>6, <3>1 DEF Names, NoneAhead, SameRow
    <3>3. RowFits(o)'
      BY <1>3, <1>6, <3>1 DEF RowFits, Held, SameRow
    <3>4. row'[o].state = "none" <=> row[o].state = "none"
      BY <1>6 DEF SameRow, Held
    <3>5. Places(o)'
      <4> SUFFICES ASSUME NEW z \in Tills, cart'[z].order = o PROVE OnScreen(z, o)'
        BY <1>3, <3>1 DEF Places
      <4>1. OnScreen(z, o)
        BY <1>5 DEF IInv, OrderOK, Places
      <4> QED
        BY <1>3, <1>5, <1>6, <3>4, <4>1 DEF OnScreen, SameRow
    <3>6. Printed(o)'
      BY <1>3, <1>6, <3>1, <3>4 DEF Printed, SameRow
    <3> QED
      BY <2>2, <3>2, <3>3, <3>5, <3>6 DEF OrderOK
  <2> QED
    BY <2>1, <2>2
<1>11. UsesDiffer'
  BY <1>7, <1>8 DEF UsesDiffer, IInv
<1>12. CounterAhead'
  <2> SUFFICES ASSUME NEW p \in Orders, NEW n \in Uses(p)', n \in TillNumbers, n \notin loose'
               PROVE  n[3] <= counter'[n[1]][n[2]]
    BY DEF CounterAhead, TillNumbers
  <2>1. /\ n[1] \in Tills /\ n[2] \in Years /\ n[3] \in Nat /\ n = <<n[1], n[2], n[3]>>
        /\ counter[n[1]][n[2]] \in Nat /\ counter'[n[1]][n[2]] \in Nat
    BY <1>4, TillNumberFacts DEF IInv, TypeOK
  <2>2. n[3] <= counter[n[1]][n[2]]
    BY <1>7, <1>8 DEF IInv, CounterAhead
  <2>3. CASE counter'[n[1]][n[2]] = counter[n[1]][n[2]]
    BY <2>2, <2>3
  <2>4. CASE n[1] = t /\ n[2] = year /\ counter' # counter
             /\ counter'[n[1]][n[2]] = counter[n[1]][n[2]] - 1
    <3>1. n # last
      BY <1>3, <2>4
    <3>2. n[3] # counter[n[1]][n[2]]
      BY <1>2, <2>1, <2>4, <3>1
    <3> QED
      BY <2>1, <2>2, <2>4, <3>2
  <2> QED
    BY <1>4, <2>1, <2>3, <2>4
<1> QED
  BY <1>9, <1>10, <1>11, <1>12 DEF IInv

-----------------------------------------------------------------------------
(* The invariant                                                           *)

LEMMA InitIInv == Init => IInv
<1> SUFFICES ASSUME Init PROVE IInv
  OBVIOUS
<1> USE DEF Init
<1>1. TypeOK
  BY NumberingAssumption DEF TypeOK, Invoices, NoRow, Empty, Years
<1>2. \A o \in Orders : Uses(o) = {}
  BY NoneFacts DEF Uses, AtTill, NoRow, Empty
<1>3. CounterAhead /\ UsesDiffer
  BY <1>2 DEF CounterAhead, UsesDiffer
<1>4. ASSUME NEW o \in Orders PROVE OrderOK(o)
  <2>1. /\ row[o] = NoRow /\ number[o] = None /\ bill[o] = None /\ charged[o] = None
        /\ \A t \in Tills : cart[t].order # o /\ <<t, o>> \notin parked
    BY NoneFacts DEF Empty
  <2>2. Names(o) /\ NoneAhead(o) /\ Places(o) /\ Printed(o)
    BY <2>1, NoneFacts DEF Names, NoneAhead, Places, Printed, NoRow
  <2>3. RowFits(o)
    BY <2>1, NoneFacts, TagFacts DEF RowFits, Held, NoRow
  <2> QED
    BY <2>2, <2>3 DEF OrderOK
<1> QED
  BY <1>1, <1>3, <1>4 DEF IInv

LEMMA NextIInv == IInv /\ [Next]_vars => IInv'
<1> SUFFICES ASSUME IInv, [Next]_vars PROVE IInv'
  OBVIOUS
<1>1. CASE UNCHANGED vars
  <2>1. year' \in Nat /\ year <= year' /\ TypeOK
    BY <1>1 DEF vars, IInv, TypeOK, Years
  <2>2. \A p \in Orders : OrderOK(p)' /\ Uses(p)' \subseteq Uses(p)
    BY <1>1, <2>1, Untouched DEF vars, IInv
  <2>3. TypeOK'
    BY <1>1 DEF vars, IInv, TypeOK
  <2>4. CounterAhead' /\ UsesDiffer'
    BY <1>1, <2>2 DEF vars, IInv, CounterAhead, UsesDiffer
  <2> QED
    BY <2>2, <2>3, <2>4 DEF IInv
<1>2. CASE \E t \in Tills, o \in Orders : Ring(t, o) \/ Recall(t, o) \/ Resume(t, o)
  BY <1>2, RingKeeps, RecallKeeps, ResumeKeeps
<1>3. CASE \E t \in Tills : Hold(t) \/ Void(t) \/ Drop(t) \/ Charge(t)
  BY <1>3, HoldKeeps, VoidKeeps, DropKeeps, ChargeKeeps
<1>4. CASE \E t \in Tills, s \in {"open", "sent"} : Send(t, s)
  BY <1>4, SendKeeps
<1>5. CASE \E w \in Tablets, o \in Orders, s \in {"open", "sent"} : TabletSend(w, o, s)
  BY <1>5, TabletSendKeeps
<1>6. CASE \E o \in Orders : Deliver(o) \/ Close(o)
  BY <1>6, DeliverKeeps, CloseKeeps
<1>7. CASE \E d \in Desks, o \in Orders : PostCharge(d, o) \/ \E k \in Types : Issue(d, o, k)
  BY <1>7, PostChargeKeeps, IssueKeeps
<1>8. CASE NewYear
  BY <1>8, NewYearKeeps
<1> QED
  BY <1>1, <1>2, <1>3, <1>4, <1>5, <1>6, <1>7, <1>8 DEF Next

LEMMA Invariance == Spec => []IInv
BY InitIInv, NextIInv, PTL DEF Spec

-----------------------------------------------------------------------------
(* The theorems                                                            *)

\* Two bills have one number only if it was handed back, or issued by the server for
\* a till, while an order was known by it: minting, holding, resuming, the sync and
\* the turn of the year never give two bills one number.
THEOREM BillsAreApart == Spec => []BillsDiffer
<1>1. IInv => BillsDiffer
  <2> SUFFICES ASSUME IInv, NEW o \in Orders, NEW p \in Orders, o # p,
                      Billed(o), Billed(p), BillNo(o) = BillNo(p)
               PROVE  BillNo(o) \in loose
    BY DEF BillsDiffer
  <2>1. ASSUME NEW q \in Orders, Billed(q) PROVE BillNo(q) \in Uses(q)
    BY <2>1 DEF IInv, OrderOK, Names, RowFits, Billed, BillNo, Uses
  <2> QED
    BY <2>1 DEF IInv, UsesDiffer
<1> QED
  BY <1>1, Invariance, PTL

\* UNIQUE refuses a sale that a till has charged only for such a number.
THEOREM SalesAreRecordable == Spec => []NoSaleIsStuck
<1>1. IInv => NoSaleIsStuck
  <2> SUFFICES ASSUME IInv, NEW o \in Orders, charged[o] # None,
                      NEW p \in Orders \ {o}, row[p].no = bill[o]
               PROVE  bill[o] \in loose
    BY DEF NoSaleIsStuck, Free
  <2>1. bill[o] # None
    BY DEF IInv, OrderOK, Names
  <2>2. bill[o] \in Uses(o) /\ bill[o] \in Uses(p)
    BY <2>1 DEF Uses
  <2> QED
    BY <2>2 DEF IInv, UsesDiffer
<1> QED
  BY <1>1, Invariance, PTL

\* What a till printed is what the server has, through lost answers, resumed and
\* repeated orders, unless the till sent the order when it had no number for it.
THEOREM SlipsAreBills == Spec => []SlipIsBill
<1>1. IInv => SlipIsBill
  BY DEF IInv, OrderOK, Printed, SlipIsBill
<1> QED
  BY <1>1, Invariance, PTL

\* The next number of a desk is on no row but a debit note's; at a till or a tablet,
\* also on none of the terminal's completed sales, unless a tag hides them.
THEOREM DesksGoOn == Spec => []DeskCanSell
<1>1. IInv => DeskCanSell
  <2> SUFFICES ASSUME IInv, NEW d \in Desks, NEW o \in Orders, row[o].no = NextNo(d)
               PROVE  \/ row[o].state = "debit_note"
                      \/ /\ d \in Tills \cup Tablets
                         /\ row[o].state # "sale" \/ TagHides(d)
    BY DEF DeskCanSell, TagHides
  <2>1. LastSeq(d) \in Nat /\ LastSeq(d) + 1 \in Nat /\ year \in Years
    BY LastSeqIsLast, NumberingAssumption DEF IInv, TypeOK
  <2>2. /\ row[o].no = <<d, year, LastSeq(d) + 1>>
        /\ row[o].no[1] = d /\ row[o].no[2] = year /\ row[o].no[3] = LastSeq(d) + 1
    BY DEF NextNo
  <2>3. row[o].no # None
    <3>1. row[o].no \in Terminals \X Years \X Nat
      BY <2>1, <2>2 DEF Terminals
    <3> QED
      BY <3>1, NoneAssumption
  <2>4. row[o].no # Tag(o)
    BY <2>1, <2>2 DEF Tag, Years
  <2>5. row[o].no \in Numbers /\ row[o].at = d /\ row[o].year = year
    <3>1. row[o].no \in Numbers
      BY <2>3, <2>4 DEF IInv, OrderOK, RowFits
    <3>2. row[o].at = d /\ year <= row[o].year /\ row[o].year <= year
      BY <2>2, <3>1 DEF IInv, OrderOK, RowFits, NoneAhead
    <3>3. row[o].year \in Nat /\ year \in Nat
      BY OrderTypes DEF IInv
    <3> QED
      BY <3>1, <3>2, <3>3
  <2>6. row[o].state = "sale" => TagHides(d)
    <3> SUFFICES ASSUME row[o].state = "sale", ~TagHides(d) PROVE FALSE
      OBVIOUS
    <3>1. o \in Counted(d)
      BY <2>5 DEF Counted
    <3>2. row[o].no[3] <= LastSeq(d)
      BY <2>2, <2>5, <3>1, LastSeqIsLast
    <3> QED
      BY <2>1, <2>2, <3>2
  <2>7. CASE d \notin Tills \cup Tablets
    <3>1. ~TagHides(d)
      <4> SUFFICES ASSUME NEW p \in Counted(d), row[p].no = Tag(p) PROVE FALSE
        BY DEF TagHides
      <4>1. p \in Orders /\ row[p].state = "sale" /\ row[p].at = d
        BY DEF Counted
      <4> QED
        BY <2>7, <4>1 DEF IInv, OrderOK, RowFits
    <3>2. row[o].state # "none" /\ row[o].state # "folio" /\ ~Held(o)
      BY <2>3, <2>4, <2>5, <2>7 DEF IInv, OrderOK, RowFits, NoRow
    <3>3. row[o].state \in {"sale", "debit_note"}
      BY <3>2 DEF Held, IInv, TypeOK, Invoices
    <3> QED
      BY <2>6, <3>1, <3>3
  <2> QED
    BY <2>6, <2>7
<1> QED
  BY <1>1, Invariance, PTL
=============================================================================
