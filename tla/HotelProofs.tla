----------------------------- MODULE HotelProofs -----------------------------
(***************************************************************************)
(* The hotel for any rooms, guests, charges and requests, whatever of them *)
(* overlap.                                                                *)
(***************************************************************************)
EXTENDS Hotel, TLAPS

\* A request at work has a folio, rooms and a charge to work on.
Working == \A r \in Requests : op[r] # "idle" => arg[r] \in Args

\* A folio is charged for its rooms, but for those struck off.
InTune(f) ==
    /\ folio[f] = "none" => nights[f] = NoNights /\ struck[f] = {}
    /\ folio[f] = "open" =>
         /\ struck[f] \subseteq booked[f]
         /\ nights[f] = [m \in Rooms |->
                            IF m \in booked[f] \ struck[f] THEN term[f][m] ELSE 0]

\* Who strikes off a line of an open stay strikes that of a room it has.
Aims(r) ==
    op[r] = "strike" =>
        /\ folio[arg[r].f] # "none"
        /\ folio[arg[r].f] = "open" => arg[r].rooms \subseteq booked[arg[r].f]

CInv == /\ TypeOK /\ Working
        /\ \A f \in Folios : InTune(f)
        /\ \A r \in Requests : Aims(r)

LEMMA TakeType ==
  ASSUME TypeOK, NEW S, NEW s \in {"available", "occupied"}
  PROVE  /\ Take(S, s) \in [Rooms -> {"available", "occupied"}]
         /\ \A m \in Rooms : Take(S, s)[m] = IF m \in S THEN s ELSE room[m]
BY DEF Take, TypeOK

LEMMA ChargedType ==
  ASSUME TypeOK, NEW f \in Folios, NEW S, NEW n \in Nat
  PROVE  /\ Charged(f, S, n) \in [Folios -> [Rooms -> Nat]]
         /\ Charged(f, S, n)[f] = [m \in Rooms |-> IF m \in S THEN n ELSE nights[f][m]]
<1>1. nights \in [Folios -> [Rooms -> Nat]]
  BY DEF TypeOK
<1>2. [m \in Rooms |-> IF m \in S THEN n ELSE nights[f][m]] \in [Rooms -> Nat]
  BY <1>1
<1> QED
  BY <1>1, <1>2 DEF Charged

LEMMA ChargedOthers ==
  ASSUME TypeOK, NEW f, NEW S, NEW n, NEW g \in Folios, g # f
  PROVE  Charged(f, S, n)[g] = nights[g] /\ Booked(f, S, n)[g] = term[g]
BY DEF Charged, Booked, TypeOK

LEMMA BookedType ==
  ASSUME TypeOK, NEW f \in Folios, NEW S, NEW n \in Nat
  PROVE  /\ Booked(f, S, n) \in [Folios -> [Rooms -> Nat]]
         /\ Booked(f, S, n)[f] = [m \in Rooms |-> IF m \in S THEN n ELSE term[f][m]]
<1>1. term \in [Folios -> [Rooms -> Nat]]
  BY DEF TypeOK
<1>2. [m \in Rooms |-> IF m \in S THEN n ELSE term[f][m]] \in [Rooms -> Nat]
  BY <1>1
<1> QED
  BY <1>1, <1>2 DEF Booked

\* Requests that are done leave the others as they were.
LEMMA DoneType ==
  ASSUME TypeOK, Working, NEW S, NEW rooms, NEW ended, Done(S, rooms, ended)
  PROVE  /\ op' \in [Requests -> Slow \cup {"idle"}]
         /\ arg' \in [Requests -> Args \cup {NoArg}]
         /\ taken' \in [Requests -> SUBSET Rooms]
         /\ over' \subseteq Requests
         /\ Working'
         /\ \A s \in Requests : op'[s] # "idle" =>
                s \notin S /\ op'[s] = op[s] /\ arg'[s] = arg[s] /\ op[s] # "idle"
<1>1. /\ op' = [s \in Requests |-> IF s \in S THEN "idle" ELSE op[s]]
      /\ arg' = [s \in Requests |-> IF s \in S THEN NoArg ELSE arg[s]]
  BY DEF Done
<1>2. op' \in [Requests -> Slow \cup {"idle"}] /\ arg' \in [Requests -> Args \cup {NoArg}]
  BY <1>1 DEF TypeOK
<1>3. \A s \in Requests : op'[s] # "idle" =>
          s \notin S /\ op'[s] = op[s] /\ arg'[s] = arg[s] /\ op[s] # "idle"
  BY <1>1
<1>4. Working'
  BY <1>3 DEF Working
<1>5. over' \subseteq Requests
  BY DEF Done
<1>6. \A s \in Requests : op[s] \in Booking => arg[s].rooms \subseteq Rooms
  BY DEF Working, Args, Booking
<1>7. taken' \in [Requests -> SUBSET Rooms]
  <2>1. taken \in [Requests -> SUBSET Rooms]
    BY DEF TypeOK
  <2>2. taken' = [s \in Requests |-> IF s \in S THEN {} ELSE
                    IF op[s] \in Booking THEN taken[s] \cup (rooms \cap arg[s].rooms)
                                         ELSE taken[s]]
    BY DEF Done
  <2>3. ASSUME NEW s \in Requests
        PROVE  (IF s \in S THEN {} ELSE
                IF op[s] \in Booking THEN taken[s] \cup (rooms \cap arg[s].rooms)
                                     ELSE taken[s]) \in SUBSET Rooms
    BY <1>6, <2>1
  <2> QED
    BY <2>2, <2>3
<1> QED
  BY <1>2, <1>3, <1>4, <1>5, <1>7

\* What a request at work holds.
LEMMA ArgType ==
  ASSUME Working, NEW r \in Requests, op[r] # "idle"
  PROVE  /\ arg[r].f \in Folios /\ arg[r].rooms \subseteq Rooms
         /\ arg[r].c \subseteq Charges /\ arg[r].n \in Nat
<1>1. arg[r] \in Args
  BY DEF Working
<1>2. /\ arg[r].f \in Folios /\ arg[r].rooms \subseteq Rooms
      /\ arg[r].c \subseteq Charges /\ arg[r].n \in Nights \cup {0}
  BY <1>1 DEF Args
<1>3. Nights \cup {0} \subseteq Nat
  BY HotelAssumption
<1> QED
  BY <1>2, <1>3

\* What is written down of late requests stays within its type.
LEMMA LateType ==
  ASSUME TypeOK, Working, NEW r \in Requests, op[r] # "idle"
  PROVE  /\ LateOn(r) \subseteq Folios /\ late \subseteq LateOn(r)
         /\ MetIn(r) \subseteq Rooms /\ met \subseteq MetIn(r)
         /\ r \in over => arg[r].f \in LateOn(r)
BY ArgType DEF LateOn, MetIn, TypeOK

LEMMA InitCInv == Init => CInv
<1> SUFFICES ASSUME Init PROVE CInv
  OBVIOUS
<1> USE DEF Init
<1>1. NoNights \in [Rooms -> Nat]
  BY DEF NoNights
<1>2. nights \in [Folios -> [Rooms -> Nat]] /\ term \in [Folios -> [Rooms -> Nat]]
  BY <1>1
<1>3. bill \in [Folios -> Bills]
  BY <1>1 DEF Bills
<1>4. settles \in [Folios -> 0 .. MaxSettles]
  BY HotelAssumption
<1>5. room \in [Rooms -> {"available", "occupied"}] /\ folio \in [Folios -> Statuses]
  BY DEF Statuses
<1>6. /\ booked \in [Folios -> SUBSET Rooms] /\ extras \in [Folios -> SUBSET Charges]
      /\ tag \in [Charges -> SUBSET Rooms] /\ posted \subseteq Charges
      /\ struck \in [Folios -> SUBSET Rooms] /\ taken \in [Requests -> SUBSET Rooms]
      /\ over \subseteq Requests /\ met \subseteq Rooms /\ late \subseteq Folios
  OBVIOUS
<1>7. op \in [Requests -> Slow \cup {"idle"}] /\ arg \in [Requests -> Args \cup {NoArg}]
  OBVIOUS
<1>8. TypeOK
  BY <1>2, <1>3, <1>4, <1>5, <1>6, <1>7 DEF TypeOK
<1>9. Working /\ \A r \in Requests : Aims(r)
  BY DEF Working, Aims
<1>10. \A f \in Folios : InTune(f)
  BY DEF InTune
<1> QED
  BY <1>8, <1>9, <1>10 DEF CInv

LEMMA StepType ==
  ASSUME TypeOK, Working, [Next]_vars
  PROVE  TypeOK' /\ Working'
<1> USE DEF Statuses
<1>1. ASSUME NEW r \in Requests, NEW o \in Slow, NEW a \in Args, Load(r, o, a)
      PROVE  TypeOK' /\ Working'
  <2>1. op' \in [Requests -> Slow \cup {"idle"}] /\ arg' \in [Requests -> Args \cup {NoArg}]
    BY <1>1 DEF Load, TypeOK
  <2>2. Working'
    BY <1>1 DEF Load, TypeOK, Working
  <2> QED
    BY <1>1, <2>1, <2>2 DEF Load, stay, TypeOK
<1>2. ASSUME NEW r \in Requests, OpenStay(r) PROVE TypeOK' /\ Working'
  <2>1. op[r] # "idle" /\ Done({r}, arg[r].rooms, {})
    BY <1>2 DEF OpenStay
  <2>2. /\ room' \in [Rooms -> {"available", "occupied"}]
        /\ nights' \in [Folios -> [Rooms -> Nat]] /\ term' \in [Folios -> [Rooms -> Nat]]
    BY <1>2, <2>1, ArgType, TakeType, ChargedType, BookedType DEF OpenStay
  <2>3. folio' \in [Folios -> Statuses] /\ booked' \in [Folios -> SUBSET Rooms]
    BY <1>2, <2>1, ArgType DEF OpenStay, TypeOK
  <2>4. met' \subseteq Rooms
    BY <1>2, <2>1, LateType DEF OpenStay
  <2> QED
    BY <1>2, <2>1, <2>2, <2>3, <2>4, DoneType DEF OpenStay, TypeOK
<1>3. ASSUME NEW r \in Requests, AddRoom(r) PROVE TypeOK' /\ Working'
  <2>1. op[r] # "idle" /\ Done({r}, arg[r].rooms, {})
    BY <1>3 DEF AddRoom
  <2>2. /\ room' \in [Rooms -> {"available", "occupied"}]
        /\ nights' \in [Folios -> [Rooms -> Nat]] /\ term' \in [Folios -> [Rooms -> Nat]]
    BY <1>3, <2>1, ArgType, TakeType, ChargedType, BookedType DEF AddRoom
  <2>3. booked' \in [Folios -> SUBSET Rooms]
    BY <1>3, <2>1, ArgType DEF AddRoom, TypeOK
  <2>4. met' \subseteq Rooms
    BY <1>3, <2>1, LateType DEF AddRoom
  <2> QED
    BY <1>3, <2>1, <2>2, <2>3, <2>4, DoneType DEF AddRoom, TypeOK
<1>4. ASSUME NEW r \in Requests, AddCharge(r) PROVE TypeOK' /\ Working'
  <2>1. op[r] # "idle" /\ Done({r}, {}, {})
    BY <1>4 DEF AddCharge
  <2>2. extras' \in [Folios -> SUBSET Charges] /\ posted' \subseteq Charges
    BY <1>4, <2>1, ArgType DEF AddCharge, TypeOK
  <2>3. tag' \in [Charges -> SUBSET Rooms]
    BY <1>4, <2>1, ArgType DEF AddCharge, TypeOK
  <2>4. late' \subseteq Folios
    BY <1>4, <2>1, LateType DEF AddCharge
  <2> QED
    BY <1>4, <2>1, <2>2, <2>3, <2>4, DoneType DEF AddCharge, TypeOK
<1>5. ASSUME NEW r \in Requests, VoidCharge(r) PROVE TypeOK' /\ Working'
  <2>1. op[r] # "idle" /\ Done({r}, {}, {})
    BY <1>5 DEF VoidCharge
  <2>2. extras' \in [Folios -> SUBSET Charges]
    BY <1>5 DEF VoidCharge, TypeOK
  <2>3. late' \subseteq Folios
    BY <1>5, <2>1, LateType DEF VoidCharge
  <2> QED
    BY <1>5, <2>1, <2>2, <2>3, DoneType DEF VoidCharge, TypeOK
<1>6. ASSUME NEW r \in Requests, VoidItem(r) PROVE TypeOK' /\ Working'
  <2>1. op[r] # "idle" /\ Done({r}, {}, {})
    BY <1>6 DEF VoidItem
  <2>2. nights' \in [Folios -> [Rooms -> Nat]]
    BY <1>6, <2>1, ArgType, ChargedType DEF VoidItem
  <2>3. struck' \in [Folios -> SUBSET Rooms]
    BY <1>6, <2>1, ArgType DEF VoidItem, TypeOK
  <2>4. late' \subseteq Folios
    BY <1>6, <2>1, LateType DEF VoidItem
  <2> QED
    BY <1>6, <2>1, <2>2, <2>3, <2>4, DoneType DEF VoidItem, TypeOK
<1>7. ASSUME NEW r \in Requests, Checkout(r) PROVE TypeOK' /\ Working'
  <2>1. op[r] # "idle" /\ Done({r}, {}, {arg[r].f})
    BY <1>7 DEF Checkout
  <2>2. room' \in [Rooms -> {"available", "occupied"}]
    BY <1>7, TakeType DEF Checkout
  <2>3. bill' \in [Folios -> Bills]
    BY <1>7, <2>1, ArgType DEF Checkout, TypeOK, Bills
  <2>4. settles' \in [Folios -> 0 .. MaxSettles]
    BY <1>7, <2>1, ArgType, HotelAssumption DEF Checkout, TypeOK
  <2>5. folio' \in [Folios -> Statuses]
    BY <1>7 DEF Checkout, TypeOK
  <2>6. late' \subseteq Folios
    BY <1>7, <2>1, LateType DEF Checkout
  <2>7. met' \subseteq Rooms
    BY <1>7, <2>1, ArgType DEF Checkout, TypeOK
  <2> QED
    BY <1>7, <2>1, <2>2, <2>3, <2>4, <2>5, <2>6, <2>7, DoneType DEF Checkout, TypeOK
<1>8. ASSUME NEW r \in Requests, Abort(r) PROVE TypeOK' /\ Working'
  BY <1>8, DoneType DEF Abort, stay, TypeOK
<1>9. ASSUME NEW f \in Folios, NEW n \in Nights, UpdateStay(f, n) PROVE TypeOK' /\ Working'
  <2>1. n \in Nat
    BY HotelAssumption
  <2>2. nights' \in [Folios -> [Rooms -> Nat]] /\ term' \in [Folios -> [Rooms -> Nat]]
    BY <1>9, <2>1, ChargedType, BookedType DEF UpdateStay
  <2>3. struck' \in [Folios -> SUBSET Rooms]
    BY <1>9 DEF UpdateStay, TypeOK
  <2> QED
    BY <1>9, <2>2, <2>3, DoneType DEF UpdateStay, TypeOK
<1>10. ASSUME NEW f \in Folios, NEW m \in Rooms, RemoveRoom(f, m) PROVE TypeOK' /\ Working'
  <2>1. nights' \in [Folios -> [Rooms -> Nat]]
    BY <1>10, ChargedType DEF RemoveRoom
  <2>2. /\ room' \in [Rooms -> {"available", "occupied"}] /\ booked' \in [Folios -> SUBSET Rooms]
        /\ extras' \in [Folios -> SUBSET Charges] /\ struck' \in [Folios -> SUBSET Rooms]
    BY <1>10 DEF RemoveRoom, TypeOK
  <2> QED
    BY <1>10, <2>1, <2>2, DoneType DEF RemoveRoom, TypeOK
<1>11. ASSUME NEW f \in Folios, CancelStay(f) PROVE TypeOK' /\ Working'
  <2>1. room' \in [Rooms -> {"available", "occupied"}] /\ nights' \in [Folios -> [Rooms -> Nat]]
    BY <1>11, TakeType, ChargedType DEF CancelStay
  <2>2. folio' \in [Folios -> Statuses] /\ extras' \in [Folios -> SUBSET Charges]
    BY <1>11 DEF CancelStay, TypeOK
  <2> QED
    BY <1>11, <2>1, <2>2, DoneType DEF CancelStay, TypeOK
<1>12. ASSUME NEW m \in Rooms, ReleaseRoom(m) PROVE TypeOK' /\ Working'
  <2>1. room' \in [Rooms -> {"available", "occupied"}]
    BY <1>12 DEF ReleaseRoom, TypeOK
  <2> QED
    BY <1>12, <2>1 DEF ReleaseRoom, work, TypeOK, Working
<1>13. CASE UNCHANGED vars
  BY <1>13 DEF vars, stay, work, TypeOK, Working
<1> QED
  BY <1>1, <1>2, <1>3, <1>4, <1>5, <1>6, <1>7, <1>8, <1>9, <1>10, <1>11, <1>12, <1>13 DEF Next

-----------------------------------------------------------------------------
(* Rooms and their nights.                                                 *)

\* Of folio g, the step leaves all that its rooms are charged by.
Same(g) == /\ folio'[g] = folio[g] /\ nights'[g] = nights[g] /\ struck'[g] = struck[g]
           /\ booked'[g] = booked[g] /\ term'[g] = term[g]

LEMMA SameFolio ==
  ASSUME NEW g, InTune(g), Same(g)
  PROVE  InTune(g)'
BY DEF InTune, Same, NoNights

\* A request that goes on aims as before, as long as its stay keeps its rooms.
LEMMA AimsOn ==
  ASSUME NEW s, Aims(s),
         op'[s] # "idle" => op'[s] = op[s] /\ arg'[s] = arg[s],
         op'[s] = "strike" =>
             /\ folio[arg[s].f] # "none" => folio'[arg[s].f] # "none"
             /\ folio'[arg[s].f] = "open" =>
                    /\ folio[arg[s].f] = "open" \/ folio[arg[s].f] = "none"
                    /\ booked[arg[s].f] \subseteq booked'[arg[s].f]
  PROVE  Aims(s)'
BY DEF Aims

LEMMA StepTune ==
  ASSUME CInv, TypeOK', [Next]_vars
  PROVE  /\ \A g \in Folios : InTune(g)'
         /\ \A s \in Requests : Aims(s)'
<1> USE DEF CInv
<1>0. TypeOK /\ Working
  OBVIOUS
<1>1. ASSUME NEW r \in Requests, NEW o \in Slow, NEW a \in Args, Load(r, o, a)
      PROVE  (\A g \in Folios : InTune(g)') /\ \A s \in Requests : Aims(s)'
  <2>1. \A g \in Folios : InTune(g)'
    BY <1>1, SameFolio DEF Load, stay, Same
  <2>2. UNCHANGED <<folio, booked>> /\ op'[r] = o /\ arg'[r] = a
        /\ \A s \in Requests : s # r => op'[s] = op[s] /\ arg'[s] = arg[s]
    BY <1>1 DEF Load, stay, TypeOK
  <2>3. Aims(r)'
    <3>1. CASE o = "strike"
      <4>1. a.f \in Folios /\ a.rooms \subseteq Rooms
        BY DEF Args
      <4>2. folio[a.f] = "open" /\ \A m \in a.rooms : nights[a.f][m] # 0
        BY <1>1, <3>1 DEF Load, FolioFits
      <4>3. nights[a.f] = [m \in Rooms |-> IF m \in booked[a.f] \ struck[a.f]
                                           THEN term[a.f][m] ELSE 0]
        BY <4>1, <4>2 DEF InTune
      <4>4. a.rooms \subseteq booked[a.f]
        BY <4>1, <4>2, <4>3
      <4> QED
        BY <2>2, <4>2, <4>4 DEF Aims
    <3>2. CASE o # "strike"
      BY <2>2, <3>2 DEF Aims
    <3> QED
      BY <3>1, <3>2
  <2>4. \A s \in Requests : s # r => Aims(s)'
    BY <2>2 DEF Aims
  <2> QED
    BY <2>1, <2>3, <2>4
<1>2. ASSUME NEW r \in Requests, OpenStay(r)
      PROVE  (\A g \in Folios : InTune(g)') /\ \A s \in Requests : Aims(s)'
  <2> DEFINE a == arg[r]
  <2>1. a.f \in Folios /\ a.rooms \subseteq Rooms /\ a.n \in Nat /\ folio[a.f] = "none"
    BY <1>2, ArgType DEF OpenStay
  <2>2. ASSUME NEW g \in Folios PROVE InTune(g)'
    <3>1. CASE g = a.f
      <4>1. nights[g] = NoNights /\ struck[g] = {}
        BY <2>1, <3>1 DEF InTune
      <4>2. folio'[g] = "open" /\ booked'[g] = a.rooms /\ struck'[g] = {}
        BY <1>2, <3>1, <4>1 DEF OpenStay, TypeOK
      <4>3. /\ nights'[g] = [m \in Rooms |-> IF m \in a.rooms THEN a.n ELSE nights[g][m]]
            /\ term'[g] = [m \in Rooms |-> IF m \in a.rooms THEN a.n ELSE term[g][m]]
        BY <1>2, <2>1, <3>1, ChargedType, BookedType DEF OpenStay
      <4> QED
        BY <4>1, <4>2, <4>3 DEF InTune, NoNights
    <3>2. CASE g # a.f
      <4>1. nights'[g] = nights[g] /\ term'[g] = term[g]
        BY <1>2, <3>2, ChargedOthers DEF OpenStay
      <4>2. Same(g)
        BY <1>2, <3>2, <4>1 DEF OpenStay, TypeOK, Same
      <4> QED
        BY <4>2, SameFolio
    <3> QED
      BY <3>1, <3>2
  <2>3. \A s \in Requests : op'[s] # "idle" =>
            op'[s] = op[s] /\ arg'[s] = arg[s] /\ op[s] # "idle"
    BY <1>2, DoneType DEF OpenStay
  <2>4. ASSUME NEW s \in Requests, op'[s] = "strike"
        PROVE  folio'[arg[s].f] = folio[arg[s].f] /\ booked'[arg[s].f] = booked[arg[s].f]
    <3>1. op[s] = "strike" /\ arg[s].f \in Folios /\ folio[arg[s].f] # "none"
      BY <2>3, <2>4, ArgType DEF Aims
    <3> QED
      BY <1>2, <2>1, <3>1 DEF OpenStay, TypeOK
  <2>5. \A s \in Requests : Aims(s)'
    BY <2>3, <2>4 DEF Aims
  <2> QED
    BY <2>2, <2>5
<1>3. ASSUME NEW r \in Requests, AddRoom(r)
      PROVE  (\A g \in Folios : InTune(g)') /\ \A s \in Requests : Aims(s)'
  <2> DEFINE a == arg[r]
  <2>1. /\ a.f \in Folios /\ a.rooms \subseteq Rooms /\ a.n \in Nat
        /\ folio[a.f] = "open" /\ a.rooms \cap booked[a.f] = {}
    BY <1>3, ArgType DEF AddRoom
  <2>2. ASSUME NEW g \in Folios PROVE InTune(g)'
    <3>1. CASE g = a.f
      <4>1. /\ struck[g] \subseteq booked[g]
            /\ nights[g] = [m \in Rooms |-> IF m \in booked[g] \ struck[g]
                                            THEN term[g][m] ELSE 0]
        BY <2>1, <3>1 DEF InTune
      <4>2. folio'[g] = "open" /\ booked'[g] = booked[g] \cup a.rooms /\ struck'[g] = struck[g]
        BY <1>3, <2>1, <3>1 DEF AddRoom, TypeOK
      <4>3. /\ nights'[g] = [m \in Rooms |-> IF m \in a.rooms THEN a.n ELSE nights[g][m]]
            /\ term'[g] = [m \in Rooms |-> IF m \in a.rooms THEN a.n ELSE term[g][m]]
        BY <1>3, <2>1, <3>1, ChargedType, BookedType DEF AddRoom
      <4>4. nights'[g] = [m \in Rooms |-> IF m \in booked'[g] \ struck'[g]
                                          THEN term'[g][m] ELSE 0]
        BY <2>1, <3>1, <4>1, <4>2, <4>3
      <4> QED
        BY <4>1, <4>2, <4>4 DEF InTune
    <3>2. CASE g # a.f
      <4>1. nights'[g] = nights[g] /\ term'[g] = term[g]
        BY <1>3, <3>2, ChargedOthers DEF AddRoom
      <4>2. Same(g)
        BY <1>3, <3>2, <4>1 DEF AddRoom, TypeOK, Same
      <4> QED
        BY <4>2, SameFolio
    <3> QED
      BY <3>1, <3>2
  <2>3. \A s \in Requests : op'[s] # "idle" =>
            op'[s] = op[s] /\ arg'[s] = arg[s] /\ op[s] # "idle"
    BY <1>3, DoneType DEF AddRoom
  <2>4. folio' = folio /\ \A g \in Folios : booked[g] \subseteq booked'[g]
    BY <1>3 DEF AddRoom, TypeOK
  <2>5. \A s \in Requests : Aims(s)'
    BY <2>3, <2>4, ArgType DEF Aims
  <2> QED
    BY <2>2, <2>5
<1>4. ASSUME NEW r \in Requests, AddCharge(r) \/ VoidCharge(r) \/ Abort(r)
      PROVE  (\A g \in Folios : InTune(g)') /\ \A s \in Requests : Aims(s)'
  <2>1. UNCHANGED <<folio, booked, term, nights, struck>>
    BY <1>4 DEF AddCharge, VoidCharge, Abort, stay
  <2>2. \A s \in Requests : op'[s] # "idle" =>
            op'[s] = op[s] /\ arg'[s] = arg[s] /\ op[s] # "idle"
    BY <1>4, DoneType DEF AddCharge, VoidCharge, Abort
  <2>3. \A g \in Folios : InTune(g)'
    BY <2>1, SameFolio DEF Same
  <2>4. \A s \in Requests : Aims(s)'
    BY <2>1, <2>2 DEF Aims
  <2> QED
    BY <2>3, <2>4
<1>5. ASSUME NEW r \in Requests, VoidItem(r)
      PROVE  (\A g \in Folios : InTune(g)') /\ \A s \in Requests : Aims(s)'
  <2> DEFINE a == arg[r]
  <2>1. a.f \in Folios /\ a.rooms \subseteq Rooms /\ op[r] = "strike"
    BY <1>5, ArgType DEF VoidItem
  <2>2. UNCHANGED <<folio, booked, term>>
    BY <1>5 DEF VoidItem
  <2>3. ASSUME NEW g \in Folios PROVE InTune(g)'
    <3>1. CASE g = a.f
      <4>1. nights'[g] = [m \in Rooms |-> IF m \in a.rooms THEN 0 ELSE nights[g][m]]
        BY <1>5, <2>1, <3>1, ChargedType DEF VoidItem
      <4>2. struck'[g] = struck[g] \cup a.rooms /\ folio[g] # "none"
        BY <1>5, <2>1, <3>1 DEF VoidItem, TypeOK, Aims
      <4>3. CASE folio[g] = "open"
        <5>1. a.rooms \subseteq booked[g]
          BY <2>1, <3>1, <4>3 DEF Aims
        <5>2. /\ struck[g] \subseteq booked[g]
              /\ nights[g] = [m \in Rooms |-> IF m \in booked[g] \ struck[g]
                                              THEN term[g][m] ELSE 0]
          BY <4>3 DEF InTune
        <5>3. nights'[g] = [m \in Rooms |-> IF m \in booked[g] \ struck'[g]
                                            THEN term[g][m] ELSE 0]
          BY <4>1, <4>2, <5>2
        <5> QED
          BY <2>2, <4>2, <4>3, <5>1, <5>2, <5>3 DEF InTune
      <4>4. CASE folio[g] # "open"
        BY <2>2, <4>2, <4>4 DEF InTune
      <4> QED
        BY <4>3, <4>4
    <3>2. CASE g # a.f
      <4>1. nights'[g] = nights[g]
        BY <1>5, <3>2, ChargedOthers DEF VoidItem
      <4>2. Same(g)
        BY <1>5, <3>2, <4>1 DEF VoidItem, TypeOK, Same
      <4> QED
        BY <4>2, SameFolio
    <3> QED
      BY <3>1, <3>2
  <2>4. \A s \in Requests : op'[s] # "idle" =>
            op'[s] = op[s] /\ arg'[s] = arg[s] /\ op[s] # "idle"
    BY <1>5, DoneType DEF VoidItem
  <2>5. \A s \in Requests : Aims(s)'
    BY <2>2, <2>4 DEF Aims
  <2> QED
    BY <2>3, <2>5
<1>6. ASSUME NEW r \in Requests, Checkout(r)
      PROVE  (\A g \in Folios : InTune(g)') /\ \A s \in Requests : Aims(s)'
  <2>1. UNCHANGED <<nights, booked, term, struck>>
    BY <1>6 DEF Checkout
  <2>2. \A g \in Folios : folio'[g] = folio[g] \/ folio'[g] = "closed"
    BY <1>6 DEF Checkout, TypeOK
  <2>3. \A g \in Folios : InTune(g)'
    BY <2>1, <2>2 DEF InTune, NoNights
  <2>4. \A s \in Requests : op'[s] # "idle" =>
            op'[s] = op[s] /\ arg'[s] = arg[s] /\ op[s] # "idle"
    BY <1>6, DoneType DEF Checkout
  <2>5. \A s \in Requests : Aims(s)'
    BY <2>1, <2>2, <2>4, ArgType DEF Aims
  <2> QED
    BY <2>3, <2>5
<1>7. ASSUME NEW f \in Folios, NEW n \in Nights, UpdateStay(f, n)
      PROVE  (\A g \in Folios : InTune(g)') /\ \A s \in Requests : Aims(s)'
  <2>1. n \in Nat /\ UNCHANGED <<folio, booked>> /\ folio[f] = "open"
    BY <1>7, HotelAssumption DEF UpdateStay
  <2>2. ASSUME NEW g \in Folios PROVE InTune(g)'
    <3>1. CASE g = f
      <4>1. nights[g] = [m \in Rooms |-> IF m \in booked[g] \ struck[g]
                                         THEN term[g][m] ELSE 0]
            /\ struck[g] \subseteq booked[g]
        BY <2>1, <3>1 DEF InTune
      <4>2. struck'[g] = {}
        BY <1>7, <3>1 DEF UpdateStay, TypeOK
      <4>3. /\ nights'[g] = [m \in Rooms |-> IF m \in booked[g] THEN n ELSE nights[g][m]]
            /\ term'[g] = [m \in Rooms |-> IF m \in booked[g] THEN n ELSE term[g][m]]
        BY <1>7, <2>1, <3>1, ChargedType, BookedType DEF UpdateStay
      <4>4. nights'[g] = [m \in Rooms |-> IF m \in booked[g] \ {} THEN term'[g][m] ELSE 0]
        BY <4>1, <4>3
      <4> QED
        BY <2>1, <3>1, <4>2, <4>4 DEF InTune
    <3>2. CASE g # f
      <4>1. nights'[g] = nights[g] /\ term'[g] = term[g]
        BY <1>7, <3>2, ChargedOthers DEF UpdateStay
      <4>2. Same(g)
        BY <1>7, <3>2, <4>1 DEF UpdateStay, TypeOK, Same
      <4> QED
        BY <4>2, SameFolio
    <3> QED
      BY <3>1, <3>2
  <2>3. \A s \in Requests : op'[s] # "idle" =>
            op'[s] = op[s] /\ arg'[s] = arg[s] /\ op[s] # "idle"
    BY <1>7, DoneType DEF UpdateStay
  <2>4. \A s \in Requests : Aims(s)'
    BY <2>1, <2>3 DEF Aims
  <2> QED
    BY <2>2, <2>4
<1>8. ASSUME NEW f \in Folios, NEW k \in Rooms, RemoveRoom(f, k)
      PROVE  (\A g \in Folios : InTune(g)') /\ \A s \in Requests : Aims(s)'
  <2>1. /\ UNCHANGED <<folio, term>> /\ folio[f] = "open" /\ k \in booked[f]
        /\ booked'[f] = booked[f] \ {k} /\ struck'[f] = struck[f] \ {k}
        /\ \A g \in Folios : g # f => booked'[g] = booked[g]
    BY <1>8 DEF RemoveRoom, TypeOK
  <2>2. ASSUME NEW g \in Folios PROVE InTune(g)'
    <3>1. CASE g = f
      <4>1. /\ struck[g] \subseteq booked[g]
            /\ nights[g] = [m \in Rooms |-> IF m \in booked[g] \ struck[g]
                                            THEN term[g][m] ELSE 0]
        BY <2>1, <3>1 DEF InTune
      <4>2. nights'[g] = [m \in Rooms |-> IF m \in {k} THEN 0 ELSE nights[g][m]]
        BY <1>8, <3>1, ChargedType DEF RemoveRoom
      <4>3. nights'[g] = [m \in Rooms |-> IF m \in booked'[g] \ struck'[g]
                                          THEN term[g][m] ELSE 0]
        BY <2>1, <3>1, <4>1, <4>2
      <4> QED
        BY <2>1, <3>1, <4>1, <4>3 DEF InTune
    <3>2. CASE g # f
      <4>1. nights'[g] = nights[g]
        BY <1>8, <3>2, ChargedOthers DEF RemoveRoom
      <4>2. Same(g)
        BY <1>8, <3>2, <4>1 DEF RemoveRoom, TypeOK, Same
      <4> QED
        BY <4>2, SameFolio
    <3> QED
      BY <3>1, <3>2
  <2>3. \A s \in Requests : op'[s] # "idle" =>
            /\ op'[s] = op[s] /\ arg'[s] = arg[s] /\ op[s] # "idle"
            /\ s \notin Strikes(f, {k})
    BY <1>8, DoneType DEF RemoveRoom
  <2>4. ASSUME NEW s \in Requests, op'[s] = "strike"
        PROVE  Aims(s)'
    <3>1. op[s] = "strike" /\ arg'[s] = arg[s] /\ arg[s].f \in Folios
      BY <2>3, <2>4, ArgType
    <3>2. CASE arg[s].f = f
      <4>1. k \notin arg[s].rooms
        BY <2>3, <2>4, <3>1, <3>2 DEF Strikes
      <4> QED
        BY <2>1, <3>1, <3>2, <4>1 DEF Aims
    <3>3. CASE arg[s].f # f
      BY <2>1, <3>1, <3>3 DEF Aims
    <3> QED
      BY <3>2, <3>3
  <2>5. \A s \in Requests : Aims(s)'
    BY <2>4 DEF Aims
  <2> QED
    BY <2>2, <2>5

<1>9. ASSUME NEW f \in Folios, CancelStay(f)
      PROVE  (\A g \in Folios : InTune(g)') /\ \A s \in Requests : Aims(s)'
  <2>1. /\ UNCHANGED <<booked, term, struck>> /\ folio'[f] = "cancelled"
        /\ \A g \in Folios : g # f => folio'[g] = folio[g]
    BY <1>9 DEF CancelStay, TypeOK
  <2>2. ASSUME NEW g \in Folios PROVE InTune(g)'
    <3>1. CASE g = f
      BY <2>1, <3>1 DEF InTune
    <3>2. CASE g # f
      <4>1. nights'[g] = nights[g]
        BY <1>9, <3>2, ChargedOthers DEF CancelStay
      <4>2. Same(g)
        BY <2>1, <3>2, <4>1 DEF Same
      <4> QED
        BY <4>2, SameFolio
    <3> QED
      BY <3>1, <3>2
  <2>3. \A s \in Requests : op'[s] # "idle" =>
            op'[s] = op[s] /\ arg'[s] = arg[s] /\ op[s] # "idle"
    BY <1>9, DoneType DEF CancelStay
  <2>4. ASSUME NEW s \in Requests, op'[s] = "strike" PROVE Aims(s)'
    <3>1. op[s] = "strike" /\ arg'[s] = arg[s] /\ arg[s].f \in Folios
      BY <2>3, <2>4, ArgType
    <3> QED
      BY <2>1, <3>1 DEF Aims
  <2>5. \A s \in Requests : Aims(s)'
    BY <2>4 DEF Aims
  <2> QED
    BY <2>2, <2>5
<1>10. ASSUME NEW m \in Rooms, ReleaseRoom(m)
       PROVE  (\A g \in Folios : InTune(g)') /\ \A s \in Requests : Aims(s)'
  <2>1. UNCHANGED <<folio, booked, term, nights, struck, op, arg>>
    BY <1>10 DEF ReleaseRoom, work
  <2> QED
    BY <2>1, SameFolio DEF Same, Aims
<1>11. CASE UNCHANGED vars
  <2>1. UNCHANGED <<folio, booked, term, nights, struck, op, arg>>
    BY <1>11 DEF vars, stay, work
  <2> QED
    BY <2>1, SameFolio DEF Same, Aims
<1> QED
  BY <1>1, <1>2, <1>3, <1>4, <1>5, <1>6, <1>7, <1>8, <1>9, <1>10, <1>11 DEF Next

LEMMA StepCInv == CInv /\ [Next]_vars => CInv'
<1> SUFFICES ASSUME CInv, [Next]_vars PROVE CInv'
  OBVIOUS
<1>1. TypeOK' /\ Working'
  BY StepType DEF CInv
<1>2. (\A g \in Folios : InTune(g)') /\ \A s \in Requests : Aims(s)'
  BY <1>1, StepTune
<1> QED
  BY <1>1, <1>2 DEF CInv

LEMMA InCharge == Spec => []CInv
BY InitCInv, StepCInv, PTL DEF Spec

\* Folios, rooms and requests are always well typed: in particular a folio's
\* status is one that the screens know.
THEOREM TypeCorrect == Spec => []TypeOK
<1>1. CInv => TypeOK
  BY DEF CInv
<1> QED
  BY <1>1, InCharge, PTL

\* Whatever requests overlap, an open stay is charged for every night that its
\* rooms are booked, but for lines struck off, and for no other room.
THEOREM EveryNightIsCharged == Spec => []RoomsCharged
<1>1. CInv => RoomsCharged
  BY DEF CInv, RoomsCharged, InTune
<1> QED
  BY <1>1, InCharge, PTL

-----------------------------------------------------------------------------
(* Guests, rooms and bills: what a request has loaded still holds unless   *)
(* the history says otherwise.                                             *)

\* A room to be booked is free, or was taken since it was looked at.
Looked(r) == op[r] \in Booking => \A m \in arg[r].rooms \ taken[r] : room[m] # "occupied"

\* A folio to be written on is open, or has ended since it was loaded.
Stands(r) == op[r] \in Billing /\ r \notin over => folio[arg[r].f] = "open"

\* Room m is in use on folio f.
Lives(f, m) == folio[f] = "open" /\ m \in booked[f]

\* A room has one guest, and its status says whether it has one.
Kept(m) ==
    m \notin met =>
        /\ \A f, g \in Folios : Lives(f, m) /\ Lives(g, m) => f = g
        /\ room[m] = "occupied" <=> \E f \in Folios : Lives(f, m)

\* What BillIsWhole says of one folio.
Billed(f) ==
    f \notin late =>
        /\ settles[f] = IF folio[f] = "closed" THEN 1 ELSE 0
        /\ folio[f] = "closed" => bill[f] = [nights |-> nights[f], extras |-> extras[f]]
        /\ folio[f] = "cancelled" => nights[f] = NoNights /\ extras[f] = {}

Loaded == \A r \in Requests : Looked(r) /\ Stands(r)
RoomsKept == \A m \in Rooms : Kept(m)
AllBilled == \A f \in Folios : Billed(f)

KInv == CInv /\ Loaded /\ RoomsKept /\ AllBilled

LEMMA InitKInv == Init => KInv
<1>1. Init => Loaded
  BY DEF Init, Loaded, Looked, Stands, Booking, Billing
<1>2. Init => RoomsKept
  BY DEF Init, RoomsKept, Kept, Lives
<1>3. Init => AllBilled
  BY DEF Init, AllBilled, Billed
<1> QED
  BY <1>1, <1>2, <1>3, InitCInv DEF KInv

\* When requests are done, the others know of the rooms taken and of the folios
\* ended by the step.
LEMMA DoneLoaded ==
  ASSUME TypeOK, Working, Loaded, NEW S, NEW rooms, NEW ended, Done(S, rooms, ended),
         \A m \in Rooms : room'[m] = "occupied" => m \in rooms \/ room[m] = "occupied",
         \A f \in Folios : folio[f] = "open" => f \in ended \/ folio'[f] = "open"
  PROVE  Loaded'
<1> SUFFICES ASSUME NEW s \in Requests, op'[s] # "idle" PROVE Looked(s)' /\ Stands(s)'
  BY DEF Loaded, Looked, Stands, Booking, Billing
<1>1. s \notin S /\ op'[s] = op[s] /\ arg'[s] = arg[s] /\ op[s] # "idle"
  BY DoneType
<1>2. arg[s].f \in Folios /\ arg[s].rooms \subseteq Rooms
  BY <1>1, ArgType
<1>3. Looked(s)'
  <2>1. CASE op[s] \in Booking
    <3>1. taken'[s] = taken[s] \cup (rooms \cap arg[s].rooms)
      BY <1>1, <2>1 DEF Done
    <3>2. \A m \in arg[s].rooms \ taken[s] : room[m] # "occupied"
      BY <2>1 DEF Loaded, Looked
    <3> QED
      BY <1>1, <1>2, <3>1, <3>2 DEF Looked
  <2>2. CASE op[s] \notin Booking
    BY <1>1, <2>2 DEF Looked
  <2> QED
    BY <2>1, <2>2
<1>4. Stands(s)'
  <2>1. over' = {r \in Requests \ S :
                     r \in over \/ (op[r] \in Billing /\ arg[r].f \in ended)}
    BY DEF Done
  <2>2. op[s] \in Billing /\ s \notin over' => s \notin over /\ arg[s].f \notin ended
    BY <1>1, <2>1
  <2> QED
    BY <1>1, <1>2, <2>2 DEF Loaded, Stands
<1> QED
  BY <1>3, <1>4

\* A step that gives folio f free rooms, or frees rooms of it, and marks them
\* so, leaves a room that is not met with one guest and in step.
LEMMA RoomMoves ==
  ASSUME NEW m \in Rooms, Kept(m), NEW f \in Folios, met \subseteq met',
         \A g \in Folios : g # f => (Lives(g, m)' <=> Lives(g, m)),
         m \notin met' =>
             /\ Lives(f, m)' => Lives(f, m) \/ room[m] # "occupied"
             /\ room'[m] = "occupied" <=>
                    Lives(f, m)' \/ (room[m] = "occupied" /\ ~ Lives(f, m))
  PROVE  Kept(m)'
<1> SUFFICES ASSUME m \notin met'
             PROVE  /\ \A g, h \in Folios : Lives(g, m)' /\ Lives(h, m)' => g = h
                    /\ room'[m] = "occupied" <=> \E g \in Folios : Lives(g, m)'
  BY DEF Kept
<1> DEFINE Was(g) == Lives(g, m)
<1> DEFINE Is(g) == Lives(g, m)'
<1>1. \A g, h \in Folios : Was(g) /\ Was(h) => g = h
  BY DEF Kept
<1>2. room[m] = "occupied" <=> \E g \in Folios : Was(g)
  BY DEF Kept
<1>3. \A g \in Folios : g # f => (Is(g) <=> Was(g))
  OBVIOUS
<1>4. Is(f) => Was(f) \/ room[m] # "occupied"
  OBVIOUS
<1>5. room'[m] = "occupied" <=> Is(f) \/ (room[m] = "occupied" /\ ~ Was(f))
  OBVIOUS
<1> HIDE DEF Was, Is
<1>6. \A g, h \in Folios : Is(g) /\ Is(h) => g = h
  BY <1>1, <1>2, <1>3, <1>4
<1>7. room'[m] = "occupied" <=> \E g \in Folios : Is(g)
  BY <1>1, <1>2, <1>3, <1>5
<1> QED
  BY <1>6, <1>7 DEF Was, Is

LEMMA RoomsStay ==
  ASSUME RoomsKept, UNCHANGED <<room, folio, booked, met>>
  PROVE  RoomsKept'
BY DEF RoomsKept, Kept, Lives

LEMMA SameBill ==
  ASSUME NEW g, Billed(g), late \subseteq late',
         folio'[g] = folio[g], settles'[g] = settles[g], bill'[g] = bill[g],
         nights'[g] = nights[g], extras'[g] = extras[g]
  PROVE  Billed(g)'
BY DEF Billed, NoNights

\* An open folio may change as long as it is not settled.
LEMMA OpenBill ==
  ASSUME NEW g, Billed(g), late \subseteq late', folio[g] \in {"none", "open"},
         folio'[g] = "open", settles'[g] = settles[g]
  PROVE  Billed(g)'
BY DEF Billed

LEMMA LateBill ==
  ASSUME NEW g, g \in late'
  PROVE  Billed(g)'
BY DEF Billed

-----------------------------------------------------------------------------
(* What each operation keeps.                                              *)

Goal == Loaded /\ RoomsKept /\ AllBilled

\* Check-in, and one more room.
LEMMA BookKeeps ==
  ASSUME KInv, TypeOK', NEW r \in Requests, OpenStay(r) \/ AddRoom(r),
         NEW f, f = arg[r].f, NEW S, S = arg[r].rooms
  PROVE  Goal'
<1> USE DEF KInv, CInv
<1>1. /\ op[r] \in Booking /\ f \in Folios /\ S \subseteq Rooms
      /\ folio[f] \in {"none", "open"}
  BY ArgType DEF OpenStay, AddRoom, Booking
<1>2. /\ \A m \in Rooms : room'[m] = IF m \in S THEN "occupied" ELSE room[m]
      /\ Done({r}, S, {}) /\ met' = MetIn(r)
      /\ \A g \in Folios : g # f => folio'[g] = folio[g] /\ booked'[g] = booked[g]
      /\ folio'[f] = "open" /\ UNCHANGED <<extras, settles, bill, late>>
  BY TakeType, <1>1 DEF OpenStay, AddRoom, TypeOK
<1>3. \A m \in Rooms : m \in booked'[f] /\ folio[f] = "open" => m \in booked[f] \/ m \in S
  BY <1>1 DEF OpenStay, AddRoom, TypeOK
<1>4. folio[f] = "none" => booked'[f] = S
  BY <1>1 DEF OpenStay, AddRoom, TypeOK
<1>5. folio[f] = "open" => booked'[f] = booked[f] \cup S
  BY <1>1 DEF OpenStay, AddRoom, TypeOK
<1>6. Loaded'
  <2>1. \A m \in Rooms : room'[m] = "occupied" => m \in S \/ room[m] = "occupied"
    BY <1>2
  <2>2. \A g \in Folios : folio[g] = "open" => g \in {} \/ folio'[g] = "open"
    BY <1>1, <1>2
  <2> QED
    BY <1>2, <2>1, <2>2, DoneLoaded
<1>7. ASSUME NEW m \in Rooms PROVE Kept(m)'
  <2>1. Kept(m) /\ met \subseteq met'
    BY <1>2 DEF RoomsKept, MetIn
  <2>2. \A g \in Folios : g # f => (Lives(g, m)' <=> Lives(g, m))
    BY <1>2 DEF Lives
  <2>3. Lives(f, m)' <=> Lives(f, m) \/ m \in S
    BY <1>1, <1>2, <1>4, <1>5 DEF Lives
  <2>4. m \notin met' /\ m \in S => room[m] # "occupied"
    <3>1. m \in S \ taken[r] => room[m] # "occupied"
      BY <1>1 DEF Loaded, Looked
    <3>2. m \notin met' /\ m \in S \cap taken[r] => room[m] # "occupied"
      BY <1>2 DEF MetIn
    <3> QED
      BY <3>1, <3>2
  <2>5. m \notin met' /\ Lives(f, m) => room[m] = "occupied"
    BY <1>1, <2>1 DEF Kept
  <2>6. m \notin met' =>
             /\ Lives(f, m)' => Lives(f, m) \/ room[m] # "occupied"
             /\ room'[m] = "occupied" <=>
                    Lives(f, m)' \/ (room[m] = "occupied" /\ ~ Lives(f, m))
    BY <1>2, <2>3, <2>4, <2>5
  <2> QED
    BY <1>1, <2>1, <2>2, <2>6, RoomMoves
<1>8. ASSUME NEW g \in Folios PROVE Billed(g)'
  <2>1. Billed(g)
    BY DEF AllBilled
  <2>2. CASE g = f
    BY <1>1, <1>2, <2>1, <2>2, OpenBill
  <2>3. CASE g # f
    <3>1. nights'[g] = nights[g]
      BY <2>3, ChargedOthers DEF OpenStay, AddRoom
    <3> QED
      BY <1>2, <2>1, <2>3, <3>1, SameBill
  <2> QED
    BY <2>2, <2>3
<1> QED
  BY <1>6, <1>7, <1>8 DEF Goal, RoomsKept, AllBilled

\* Charges, and lines taken off: a stay that has ended since is late.
LEMMA ChargeKeeps ==
  ASSUME KInv, TypeOK', NEW r \in Requests, AddCharge(r) \/ VoidCharge(r) \/ VoidItem(r)
  PROVE  Goal'
<1> USE DEF KInv, CInv
<1> DEFINE f == arg[r].f
<1>1. op[r] \in Billing /\ op[r] # "idle" /\ f \in Folios
  BY ArgType DEF AddCharge, VoidCharge, VoidItem, Billing
<1>2. /\ UNCHANGED <<room, folio, booked, settles, bill, met>> /\ Done({r}, {}, {})
      /\ late' = LateOn(r)
  BY DEF AddCharge, VoidCharge, VoidItem
<1>3. late \subseteq late' /\ (r \in over => f \in late')
  BY <1>1, <1>2, LateType
<1>4. Loaded'
  BY <1>2, DoneLoaded
<1>5. RoomsKept'
  BY <1>2, RoomsStay
<1>6. ASSUME NEW g \in Folios PROVE Billed(g)'
  <2>1. Billed(g)
    BY DEF AllBilled
  <2>2. CASE g = f /\ r \in over
    BY <1>3, <2>2, LateBill
  <2>3. CASE g = f /\ r \notin over
    <3>1. folio[g] = "open"
      BY <1>1, <2>3 DEF Loaded, Stands
    <3> QED
      BY <1>2, <1>3, <2>1, <3>1, OpenBill
  <2>4. CASE g # f
    <3>1. extras'[g] = extras[g]
      BY <2>4 DEF AddCharge, VoidCharge, VoidItem, TypeOK
    <3>2. nights'[g] = nights[g]
      BY <2>4, ChargedOthers DEF AddCharge, VoidCharge, VoidItem
    <3> QED
      BY <1>2, <1>3, <2>1, <3>1, <3>2, SameBill
  <2> QED
    BY <2>2, <2>3, <2>4
<1> QED
  BY <1>4, <1>5, <1>6 DEF Goal, AllBilled

LEMMA CheckoutKeeps ==
  ASSUME KInv, TypeOK', NEW r \in Requests, Checkout(r), NEW f, f = arg[r].f
  PROVE  Goal'
<1> USE DEF KInv, CInv
<1>1. op[r] = "checkout" /\ op[r] \in Billing /\ f \in Folios
  BY ArgType DEF Checkout, Billing
<1>2. /\ \A m \in Rooms : room'[m] = IF m \in booked[f] THEN "available" ELSE room[m]
      /\ Done({r}, {}, {f}) /\ UNCHANGED <<booked, nights, extras>> /\ late' = LateOn(r)
      /\ met' = IF r \in over THEN met \cup booked[f] ELSE met
      /\ folio'[f] = "closed" /\ \A g \in Folios : g # f => folio'[g] = folio[g]
  BY TakeType, <1>1 DEF Checkout, TypeOK
<1>3. /\ settles'[f] = settles[f] + 1 /\ bill'[f] = [nights |-> nights[f], extras |-> extras[f]]
      /\ \A g \in Folios : g # f => settles'[g] = settles[g] /\ bill'[g] = bill[g]
  BY <1>1 DEF Checkout, TypeOK
<1>4. late \subseteq late' /\ (r \in over => f \in late')
  BY <1>1, <1>2, LateType
<1>5. r \notin over => folio[f] = "open"
  BY <1>1 DEF Loaded, Stands
<1>6. Loaded'
  <2>1. \A m \in Rooms : room'[m] = "occupied" => m \in {} \/ room[m] = "occupied"
    BY <1>2
  <2>2. \A g \in Folios : folio[g] = "open" => g \in {f} \/ folio'[g] = "open"
    BY <1>2
  <2> QED
    BY <1>2, <2>1, <2>2, DoneLoaded
<1>7. ASSUME NEW m \in Rooms PROVE Kept(m)'
  <2>1. Kept(m) /\ met \subseteq met'
    BY <1>2 DEF RoomsKept
  <2>2. \A g \in Folios : g # f => (Lives(g, m)' <=> Lives(g, m))
    BY <1>2 DEF Lives
  <2>3. ~ Lives(f, m)'
    BY <1>2 DEF Lives
  <2>4. CASE m \in booked[f]
    <3>1. m \notin met' => Lives(f, m)
      BY <1>2, <1>5, <2>4 DEF Lives
    <3> QED
      BY <1>1, <1>2, <2>1, <2>2, <2>3, <2>4, <3>1, RoomMoves
  <2>5. CASE m \notin booked[f]
    <3>1. ~ Lives(f, m)
      BY <2>5 DEF Lives
    <3> QED
      BY <1>1, <1>2, <2>1, <2>2, <2>3, <2>5, <3>1, RoomMoves
  <2> QED
    BY <2>4, <2>5
<1>8. ASSUME NEW g \in Folios PROVE Billed(g)'
  <2>1. Billed(g)
    BY DEF AllBilled
  <2>2. CASE g = f /\ r \in over
    BY <1>4, <2>2, LateBill
  <2>3. CASE g = f /\ r \notin over
    <3>1. f \notin late => settles[f] = 0
      BY <1>5, <2>1, <2>3 DEF Billed
    <3> QED
      BY <1>2, <1>3, <1>4, <2>3, <3>1 DEF Billed
  <2>4. CASE g # f
    BY <1>2, <1>3, <1>4, <2>1, <2>4, SameBill
  <2> QED
    BY <2>2, <2>3, <2>4
<1> QED
  BY <1>6, <1>7, <1>8 DEF Goal, RoomsKept, AllBilled

LEMMA UpdateKeeps ==
  ASSUME KInv, NEW f \in Folios, NEW n \in Nights, UpdateStay(f, n)
  PROVE  Goal'
<1> USE DEF KInv, CInv
<1>1. /\ UNCHANGED <<room, folio, booked, extras, settles, bill, met, late>>
      /\ folio[f] = "open" /\ Done(Strikes(f, booked[f]), {}, {})
  BY DEF UpdateStay
<1>2. Loaded'
  BY <1>1, DoneLoaded
<1>3. RoomsKept'
  BY <1>1, RoomsStay
<1>4. ASSUME NEW g \in Folios PROVE Billed(g)'
  <2>1. Billed(g)
    BY DEF AllBilled
  <2>2. CASE g = f
    BY <1>1, <2>1, <2>2, OpenBill
  <2>3. CASE g # f
    <3>1. nights'[g] = nights[g]
      BY <2>3, ChargedOthers DEF UpdateStay
    <3> QED
      BY <1>1, <2>1, <3>1, SameBill
  <2> QED
    BY <2>2, <2>3
<1> QED
  BY <1>2, <1>3, <1>4 DEF Goal, AllBilled

LEMMA RemoveKeeps ==
  ASSUME KInv, TypeOK', NEW f \in Folios, NEW k \in Rooms, RemoveRoom(f, k)
  PROVE  Goal'
<1> USE DEF KInv, CInv
<1>1. /\ UNCHANGED <<folio, settles, bill, met, late>>
      /\ folio[f] = "open" /\ k \in booked[f] /\ Done(Strikes(f, {k}), {}, {})
  BY DEF RemoveRoom
<1>2. /\ \A m \in Rooms : room'[m] = IF m = k THEN "available" ELSE room[m]
      /\ booked'[f] = booked[f] \ {k} /\ \A g \in Folios : g # f => booked'[g] = booked[g]
  BY DEF RemoveRoom, TypeOK
<1>3. Loaded'
  <2>1. \A m \in Rooms : room'[m] = "occupied" => m \in {} \/ room[m] = "occupied"
    BY <1>2
  <2> QED
    BY <1>1, <2>1, DoneLoaded
<1>4. ASSUME NEW m \in Rooms PROVE Kept(m)'
  <2>1. Kept(m)
    BY DEF RoomsKept
  <2>2. \A g \in Folios : g # f => (Lives(g, m)' <=> Lives(g, m))
    BY <1>1, <1>2 DEF Lives
  <2>3. Lives(f, m)' <=> Lives(f, m) /\ m # k
    BY <1>1, <1>2 DEF Lives
  <2>4. m \notin met /\ Lives(f, m) => room[m] = "occupied"
    BY <2>1 DEF Kept
  <2>5. m = k => Lives(f, m)
    BY <1>1 DEF Lives
  <2>6. m \notin met' =>
             /\ Lives(f, m)' => Lives(f, m) \/ room[m] # "occupied"
             /\ room'[m] = "occupied" <=>
                    Lives(f, m)' \/ (room[m] = "occupied" /\ ~ Lives(f, m))
    BY <1>1, <1>2, <2>3, <2>4, <2>5
  <2> QED
    BY <1>1, <2>1, <2>2, <2>6, RoomMoves
<1>5. ASSUME NEW g \in Folios PROVE Billed(g)'
  <2>1. Billed(g)
    BY DEF AllBilled
  <2>2. CASE g = f
    BY <1>1, <2>1, <2>2, OpenBill
  <2>3. CASE g # f
    <3>1. nights'[g] = nights[g]
      BY <2>3, ChargedOthers DEF RemoveRoom
    <3>2. extras'[g] = extras[g]
      BY <2>3 DEF RemoveRoom, TypeOK
    <3>3. bill'[g] = bill[g]
      BY DEF RemoveRoom
    <3> QED
      BY <1>1, <2>1, <3>1, <3>2, <3>3, SameBill
  <2> QED
    BY <2>2, <2>3
<1> QED
  BY <1>3, <1>4, <1>5 DEF Goal, RoomsKept, AllBilled

LEMMA CancelKeeps ==
  ASSUME KInv, TypeOK', NEW f \in Folios, CancelStay(f)
  PROVE  Goal'
<1> USE DEF KInv, CInv
<1>1. /\ UNCHANGED <<booked, settles, bill, met, late>>
      /\ folio[f] = "open" /\ folio'[f] = "cancelled" /\ Done(Strikes(f, Rooms), {}, {f})
      /\ \A g \in Folios : g # f => folio'[g] = folio[g]
  BY DEF CancelStay, TypeOK
<1>2. \A m \in Rooms : room'[m] = IF m \in booked[f] THEN "available" ELSE room[m]
  BY TakeType DEF CancelStay
<1>3. Loaded'
  <2>1. \A m \in Rooms : room'[m] = "occupied" => m \in {} \/ room[m] = "occupied"
    BY <1>2
  <2>2. \A g \in Folios : folio[g] = "open" => g \in {f} \/ folio'[g] = "open"
    BY <1>1
  <2> QED
    BY <1>1, <2>1, <2>2, DoneLoaded
<1>4. ASSUME NEW m \in Rooms PROVE Kept(m)'
  <2>1. Kept(m)
    BY DEF RoomsKept
  <2>2. \A g \in Folios : g # f => (Lives(g, m)' <=> Lives(g, m))
    BY <1>1 DEF Lives
  <2>3. ~ Lives(f, m)' /\ (Lives(f, m) <=> m \in booked[f])
    BY <1>1 DEF Lives
  <2> QED
    BY <1>1, <1>2, <2>1, <2>2, <2>3, RoomMoves
<1>5. ASSUME NEW g \in Folios PROVE Billed(g)'
  <2>1. Billed(g)
    BY DEF AllBilled
  <2>2. CASE g = f
    <3>1. nights'[g] = NoNights
      BY <2>2, ChargedType DEF CancelStay, NoNights
    <3>2. extras'[g] = {}
      BY <2>2 DEF CancelStay, TypeOK
    <3>3. g \notin late => settles[g] = 0
      BY <1>1, <2>1, <2>2 DEF Billed
    <3> QED
      BY <1>1, <2>2, <3>1, <3>2, <3>3 DEF Billed, NoNights
  <2>3. CASE g # f
    <3>1. nights'[g] = nights[g]
      BY <2>3, ChargedOthers DEF CancelStay
    <3>2. extras'[g] = extras[g]
      BY <2>3 DEF CancelStay, TypeOK
    <3>3. bill'[g] = bill[g]
      BY DEF CancelStay
    <3> QED
      BY <1>1, <2>1, <2>3, <3>1, <3>2, <3>3, SameBill
  <2> QED
    BY <2>2, <2>3
<1> QED
  BY <1>3, <1>4, <1>5 DEF Goal, RoomsKept, AllBilled

LEMMA ReleaseKeeps ==
  ASSUME KInv, NEW k \in Rooms, ReleaseRoom(k)
  PROVE  Goal'
<1> USE DEF KInv, CInv
<1>1. UNCHANGED <<folio, booked, nights, extras, settles, bill, work, met, late>>
  BY DEF ReleaseRoom
<1>2. \A f \in Folios : ~ Lives(f, k)
  BY DEF ReleaseRoom, Lives
<1>3. \A m \in Rooms : room'[m] = IF m = k THEN "available" ELSE room[m]
  BY DEF ReleaseRoom, TypeOK
<1>4. Loaded'
  <2>1. \A r \in Requests : op[r] \in Booking => arg[r].rooms \subseteq Rooms
    BY DEF Working, Args, Booking
  <2>2. \A r \in Requests : Looked(r)'
    BY <1>1, <1>3, <2>1 DEF Loaded, Looked, work
  <2> QED
    BY <1>1, <2>2 DEF Loaded, Stands, work
<1>5. ASSUME NEW m \in Rooms PROVE Kept(m)'
  <2>1. Kept(m) /\ \A f \in Folios : Lives(f, m)' <=> Lives(f, m)
    BY <1>1 DEF RoomsKept, Lives
  <2>2. m \notin met => (room'[m] = "occupied" <=> room[m] = "occupied")
    BY <1>2, <1>3, <2>1 DEF Kept
  <2> QED
    BY <1>1, <2>1, <2>2 DEF Kept
<1>6. AllBilled'
  BY <1>1, SameBill DEF AllBilled
<1> QED
  BY <1>4, <1>5, <1>6 DEF Goal, RoomsKept

LEMMA LoadKeeps ==
  ASSUME KInv, NEW r \in Requests, NEW o \in Slow, NEW a \in Args, Load(r, o, a)
  PROVE  Goal'
<1> USE DEF KInv, CInv
<1>1. UNCHANGED <<room, folio, booked, nights, extras, settles, bill, taken, over, met, late>>
  BY DEF Load, stay
<1>2. op'[r] = o /\ arg'[r] = a /\ \A s \in Requests : s # r => op'[s] = op[s] /\ arg'[s] = arg[s]
  BY DEF Load, TypeOK
<1>3. ASSUME NEW s \in Requests PROVE Looked(s)' /\ Stands(s)'
  <2>1. CASE s = r
    <3>1. o \in Booking => \A m \in a.rooms : room[m] # "occupied"
      BY DEF Load, RoomsFit
    <3>2. o \in Billing => folio[a.f] = "open"
      BY DEF Load, FolioFits, Billing
    <3> QED
      BY <1>1, <1>2, <2>1, <3>1, <3>2 DEF Looked, Stands
  <2>2. CASE s # r
    BY <1>1, <1>2, <2>2 DEF Loaded, Looked, Stands
  <2> QED
    BY <2>1, <2>2
<1>4. RoomsKept'
  BY <1>1, RoomsStay
<1>5. AllBilled'
  BY <1>1, SameBill DEF AllBilled
<1> QED
  BY <1>3, <1>4, <1>5 DEF Goal, Loaded

LEMMA AbortKeeps ==
  ASSUME KInv, NEW r \in Requests, Abort(r)
  PROVE  Goal'
<1> USE DEF KInv, CInv
<1>1. UNCHANGED <<room, folio, booked, nights, extras, settles, bill, met, late>>
      /\ Done({r}, {}, {})
  BY DEF Abort, stay
<1>2. Loaded'
  BY <1>1, DoneLoaded
<1>3. RoomsKept'
  BY <1>1, RoomsStay
<1>4. AllBilled'
  BY <1>1, SameBill DEF AllBilled
<1> QED
  BY <1>2, <1>3, <1>4 DEF Goal

LEMMA StepKInv == KInv /\ [Next]_vars => KInv'
<1> SUFFICES ASSUME KInv, [Next]_vars PROVE KInv'
  OBVIOUS
<1>1. CInv' /\ TypeOK'
  BY StepCInv DEF KInv, CInv
<1>2. Goal'
  <2>1. ASSUME NEW r \in Requests, NEW o \in Slow, NEW a \in Args, Load(r, o, a)
        PROVE  Goal'
    BY <2>1, LoadKeeps
  <2>2. ASSUME NEW r \in Requests, OpenStay(r) \/ AddRoom(r) PROVE Goal'
    BY <1>1, <2>2, BookKeeps
  <2>3. ASSUME NEW r \in Requests, AddCharge(r) \/ VoidCharge(r) \/ VoidItem(r) PROVE Goal'
    BY <1>1, <2>3, ChargeKeeps
  <2>4. ASSUME NEW r \in Requests, Checkout(r) \/ Abort(r) PROVE Goal'
    BY <1>1, <2>4, CheckoutKeeps, AbortKeeps
  <2>5. ASSUME NEW f \in Folios, NEW n \in Nights, UpdateStay(f, n) PROVE Goal'
    BY <2>5, UpdateKeeps
  <2>6. ASSUME NEW f \in Folios, NEW m \in Rooms, RemoveRoom(f, m) PROVE Goal'
    BY <1>1, <2>6, RemoveKeeps
  <2>7. ASSUME NEW f \in Folios, CancelStay(f) PROVE Goal'
    BY <1>1, <2>7, CancelKeeps
  <2>8. ASSUME NEW m \in Rooms, ReleaseRoom(m) PROVE Goal'
    BY <2>8, ReleaseKeeps
  <2>9. CASE UNCHANGED vars
    <3>1. UNCHANGED <<room, folio, booked, nights, extras, settles, bill, op, arg, taken, over,
                      met, late>>
      BY <2>9 DEF vars, stay, work
    <3>2. Loaded'
      BY <3>1 DEF KInv, Loaded, Looked, Stands
    <3>3. RoomsKept'
      BY <3>1, RoomsStay DEF KInv
    <3>4. AllBilled'
      BY <3>1, SameBill DEF KInv, AllBilled
    <3> QED
      BY <3>2, <3>3, <3>4 DEF Goal
  <2> QED
    BY <2>1, <2>2, <2>3, <2>4, <2>5, <2>6, <2>7, <2>8, <2>9 DEF Next
<1> QED
  BY <1>1, <1>2 DEF KInv, Goal

LEMMA Holds == Spec => []KInv
BY InitKInv, StepKInv, PTL DEF Spec

\* No room has two guests, but one that a check-in took on what had changed since
\* it was looked at, or that a checkout of an ended stay freed.
THEOREM OneGuestPerRoom == Spec => []OneGuest
<1>1. KInv => OneGuest
  BY DEF KInv, CInv, TypeOK, RoomsKept, Kept, Lives, OneGuest
<1> QED
  BY <1>1, Holds, PTL

\* But for such a room, a room is marked occupied exactly while an open stay has
\* it.
THEOREM NoRoomIsStuck == Spec => []RoomsInStep
<1>1. KInv => RoomsInStep
  BY DEF KInv, RoomsKept, Kept, Lives, RoomsInStep
<1> QED
  BY <1>1, Holds, PTL

\* A stay that is checked out was settled once, for all that is live on it, and a
\* cancelled one owes nothing, unless a request wrote on it after it had ended.
THEOREM WholeBill == Spec => []BillIsWhole
<1>1. KInv => BillIsWhole
  BY DEF KInv, AllBilled, Billed, BillIsWhole
<1> QED
  BY <1>1, Holds, PTL
=============================================================================
