-------------------------------- MODULE Hotel --------------------------------
(***************************************************************************)
(* Hotel stays (apps/hotel/services.py and views.py): rooms, and folios    *)
(* that gather a guest's rooms, their nights and the charges of the stay,  *)
(* until checkout bills them or the stay is cancelled.                     *)
(*                                                                         *)
(* Editing, cancelling and releasing take the row lock first and decide by *)
(* what they then read, so each is one step.  Check-in and adding a room   *)
(* decide by the room that the view loaded, checkout, charging and voiding *)
(* by the folio that the view loaded: they are requests with a step that   *)
(* loads and a step that writes and commits.  Nothing keeps two of them    *)
(* off one folio or room; what that leads to is written down as history.   *)
(***************************************************************************)
EXTENDS Naturals, FiniteSets

CONSTANTS Rooms, Folios,
          Charges,       \* charge entries: a meal, an extra mattress
          Requests,      \* requests the server can serve at once
          Nights,        \* lengths of stay
          MaxSettles     \* bound on the settlements of a folio

ASSUME HotelAssumption ==
    /\ Nights \subseteq Nat \ {0}
    /\ MaxSettles \in Nat

VARIABLES
    room,      \* Room.status
    folio,     \* GuestFolio.status, "none" before check-in
    booked,    \* its FolioRoom rows
    term,      \* nights of each of those
    nights,    \* nights of the live room charge of each room of a folio
    extras,    \* the other charges on it that are not voided
    tag,       \* the room that each charge is tagged to
    posted,    \* charges that have been posted
    settles,   \* settlement invoices of a folio
    bill,      \* what the last of them bills
    op,        \* what each request does, or "idle"
    arg,       \* the folio, rooms, charge and nights it is about
    taken,     \* history: of its rooms, those occupied since it has loaded them
    over,      \* history: requests whose folio has ended since they loaded it
    struck,    \* history: rooms whose line void_item took off the folio
    met,       \* history: rooms written on what was no longer so
    late       \* history: folios written on what was no longer so

stay == <<room, folio, booked, term, nights, extras, tag, posted, settles, bill, struck>>
work == <<op, arg, taken, over>>
vars == <<stay, work, met, late>>

Statuses == {"none", "open", "closed", "cancelled"}
Booking == {"open", "add"}
Billing == {"charge", "void", "strike", "checkout"}
Slow == Booking \cup Billing
NoNights == [m \in Rooms |-> 0]
Bills == [nights : [Rooms -> Nat], extras : SUBSET Charges]
Args == [f : Folios, rooms : SUBSET Rooms, c : SUBSET Charges, n : Nights \cup {0}]
NoArg == [f |-> "none", rooms |-> {}, c |-> {}, n |-> 0]

TypeOK ==
    /\ room \in [Rooms -> {"available", "occupied"}]
    /\ folio \in [Folios -> Statuses]
    /\ booked \in [Folios -> SUBSET Rooms]
    /\ term \in [Folios -> [Rooms -> Nat]]
    /\ nights \in [Folios -> [Rooms -> Nat]]
    /\ extras \in [Folios -> SUBSET Charges]
    /\ tag \in [Charges -> SUBSET Rooms]
    /\ posted \subseteq Charges
    /\ settles \in [Folios -> 0 .. MaxSettles]
    /\ bill \in [Folios -> Bills]
    /\ struck \in [Folios -> SUBSET Rooms]
    /\ op \in [Requests -> Slow \cup {"idle"}]
    /\ arg \in [Requests -> Args \cup {NoArg}]
    /\ taken \in [Requests -> SUBSET Rooms]
    /\ over \subseteq Requests
    /\ met \subseteq Rooms /\ late \subseteq Folios

Init ==
    /\ room = [m \in Rooms |-> "available"]
    /\ folio = [f \in Folios |-> "none"]
    /\ booked = [f \in Folios |-> {}]
    /\ term = [f \in Folios |-> NoNights]
    /\ nights = [f \in Folios |-> NoNights]
    /\ extras = [f \in Folios |-> {}]
    /\ tag = [c \in Charges |-> {}]
    /\ posted = {}
    /\ settles = [f \in Folios |-> 0]
    /\ bill = [f \in Folios |-> [nights |-> NoNights, extras |-> {}]]
    /\ struck = [f \in Folios |-> {}]
    /\ op = [r \in Requests |-> "idle"]
    /\ arg = [r \in Requests |-> NoArg]
    /\ taken = [r \in Requests |-> {}]
    /\ over = {} /\ met = {} /\ late = {}

-----------------------------------------------------------------------------
(* Requests that decide by what the view loaded.                           *)

\* What each of them asks of the folio it has loaded.  void_charge refuses room
\* charges, void_item does not.
FolioFits(o, a) ==
    CASE o = "open" -> folio[a.f] = "none"
      [] o = "add" -> TRUE
      [] o = "charge" -> folio[a.f] = "open" /\ a.c \cap posted = {}
      [] o = "void" -> folio[a.f] = "open" /\ a.c \subseteq extras[a.f]
      [] o = "strike" -> folio[a.f] = "open" /\ \A m \in a.rooms : nights[a.f][m] # 0
      [] o = "checkout" -> folio[a.f] = "open"

\* Variant for mutation: a room is not looked at before it is booked.
RoomsFitBlind(o, a) == o \in Booking => a.rooms # {}

\* What check-in and adding a room ask of the rooms.
RoomsFit(o, a) == o \in Booking => \A m \in a.rooms : room[m] # "occupied"

\* Check-in names rooms and nights; adding a room names one, for the nights of the
\* stay or for dates of its own; a charge may be tagged to a room.
Names(o, a) ==
    /\ o \in Booking <=> a.n # 0
    /\ Cardinality(a.c) = IF o \in {"charge", "void"} THEN 1 ELSE 0
    /\ CASE o = "open" -> a.rooms # {}
         [] o \in {"add", "strike"} -> Cardinality(a.rooms) = 1
         [] o = "charge" -> Cardinality(a.rooms) \in {0, 1}
         [] OTHER -> a.rooms = {}

Load(r, o, a) ==
    /\ op[r] = "idle"
    /\ Names(o, a) /\ FolioFits(o, a) /\ RoomsFit(o, a)
    /\ op' = [op EXCEPT ![r] = o]
    /\ arg' = [arg EXCEPT ![r] = a]
    /\ UNCHANGED <<stay, taken, over, met, late>>

\* The nights of these rooms are charged to folio f, beside what is charged.
Charged(f, rooms, n) ==
    [nights EXCEPT ![f] = [m \in Rooms |-> IF m \in rooms THEN n ELSE @[m]]]

\* Their FolioRoom rows say so.
Booked(f, rooms, n) ==
    [term EXCEPT ![f] = [m \in Rooms |-> IF m \in rooms THEN n ELSE @[m]]]

Take(rooms, s) == [m \in Rooms |-> IF m \in rooms THEN s ELSE room[m]]

\* The requests of S are over; the others learn of these rooms and folios.
Done(S, rooms, ended) ==
    /\ op' = [r \in Requests |-> IF r \in S THEN "idle" ELSE op[r]]
    /\ arg' = [r \in Requests |-> IF r \in S THEN NoArg ELSE arg[r]]
    /\ taken' = [r \in Requests |-> IF r \in S THEN {} ELSE
                    IF op[r] \in Booking THEN taken[r] \cup (rooms \cap arg[r].rooms)
                                         ELSE taken[r]]
    /\ over' = {r \in Requests \ S :
                    r \in over \/ (op[r] \in Billing /\ arg[r].f \in ended)}

\* What request r writes on its folio, or on these rooms, goes by a folio that
\* has ended or by rooms that are taken.
LateOn(r) == IF r \in over THEN late \cup {arg[r].f} ELSE late
MetIn(r) == met \cup {m \in arg[r].rooms \cap taken[r] : room[m] = "occupied"}

\* open_stay: a folio for one guest, its rooms occupied and charged.
OpenStay(r) ==
    LET a == arg[r]
    IN  /\ op[r] = "open" /\ folio[a.f] = "none"
        /\ folio' = [folio EXCEPT ![a.f] = "open"]
        /\ booked' = [booked EXCEPT ![a.f] = a.rooms]
        /\ term' = Booked(a.f, a.rooms, a.n)
        /\ room' = Take(a.rooms, "occupied")
        /\ nights' = Charged(a.f, a.rooms, a.n)
        /\ met' = MetIn(r)
        /\ Done({r}, a.rooms, {})
        /\ UNCHANGED <<extras, tag, posted, settles, bill, struck, late>>

\* Variant for mutation: the room's nights are not charged.
AddRoomFree(r) ==
    LET a == arg[r]
    IN  /\ op[r] = "add" /\ folio[a.f] = "open" /\ a.rooms \cap booked[a.f] = {}
        /\ booked' = [booked EXCEPT ![a.f] = @ \cup a.rooms]
        /\ term' = Booked(a.f, a.rooms, a.n)
        /\ room' = Take(a.rooms, "occupied")
        /\ met' = MetIn(r)
        /\ Done({r}, a.rooms, {})
        /\ UNCHANGED <<folio, nights, extras, tag, posted, settles, bill, struck, late>>

\* add_room_to_stay checks the folio under its lock, the room as loaded.
AddRoom(r) ==
    LET a == arg[r]
    IN  /\ op[r] = "add" /\ folio[a.f] = "open" /\ a.rooms \cap booked[a.f] = {}
        /\ booked' = [booked EXCEPT ![a.f] = @ \cup a.rooms]
        /\ term' = Booked(a.f, a.rooms, a.n)
        /\ room' = Take(a.rooms, "occupied")
        /\ nights' = Charged(a.f, a.rooms, a.n)
        /\ met' = MetIn(r)
        /\ Done({r}, a.rooms, {})
        /\ UNCHANGED <<folio, extras, tag, posted, settles, bill, struck, late>>

\* add_charge and _hold_and_link: a held invoice, linked to the folio.
AddCharge(r) ==
    LET a == arg[r]
    IN  /\ op[r] = "charge" /\ a.c \cap posted = {}
        /\ extras' = [extras EXCEPT ![a.f] = @ \cup a.c]
        /\ tag' = [c \in Charges |-> IF c \in a.c THEN a.rooms ELSE tag[c]]
        /\ posted' = posted \cup a.c
        /\ late' = LateOn(r)
        /\ Done({r}, {}, {})
        /\ UNCHANGED <<room, folio, booked, term, nights, settles, bill, struck, met>>

\* void_charge, and void_item on a charge: it is cancelled and leaves the folio.
VoidCharge(r) ==
    LET a == arg[r]
    IN  /\ op[r] = "void"
        /\ extras' = [extras EXCEPT ![a.f] = @ \ a.c]
        /\ late' = LateOn(r)
        /\ Done({r}, {}, {})
        /\ UNCHANGED <<room, folio, booked, term, nights, tag, posted, settles, bill,
                       struck, met>>

\* void_item on the line of a room: its nights are cancelled, the room stays.
VoidItem(r) ==
    LET a == arg[r]
    IN  /\ op[r] = "strike"
        /\ nights' = Charged(a.f, a.rooms, 0)
        /\ struck' = [struck EXCEPT ![a.f] = @ \cup a.rooms]
        /\ late' = LateOn(r)
        /\ Done({r}, {}, {})
        /\ UNCHANGED <<room, folio, booked, term, extras, tag, posted, settles, bill, met>>

\* Variant for mutation: the bill is made of the room charges alone.
CheckoutRoomsOnly(r) ==
    LET f == arg[r].f
    IN  /\ op[r] = "checkout" /\ settles[f] < MaxSettles
        /\ bill' = [bill EXCEPT ![f] = [nights |-> nights[f], extras |-> {}]]
        /\ settles' = [settles EXCEPT ![f] = @ + 1]
        /\ room' = Take(booked[f], "available")
        /\ folio' = [folio EXCEPT ![f] = "closed"]
        /\ late' = LateOn(r)
        /\ met' = IF r \in over THEN met \cup booked[f] ELSE met
        /\ Done({r}, {}, {f})
        /\ UNCHANGED <<booked, term, nights, extras, tag, posted, struck>>

\* checkout_stay takes the lock after it has checked the status: it bills every
\* live line of the folio, frees its rooms and closes it.
Checkout(r) ==
    LET f == arg[r].f
    IN  /\ op[r] = "checkout" /\ settles[f] < MaxSettles
        /\ bill' = [bill EXCEPT ![f] = [nights |-> nights[f], extras |-> extras[f]]]
        /\ settles' = [settles EXCEPT ![f] = @ + 1]
        /\ room' = Take(booked[f], "available")
        /\ folio' = [folio EXCEPT ![f] = "closed"]
        /\ late' = LateOn(r)
        /\ met' = IF r \in over THEN met \cup booked[f] ELSE met
        /\ Done({r}, {}, {f})
        /\ UNCHANGED <<booked, term, nights, extras, tag, posted, struck>>

Abort(r) == op[r] # "idle" /\ Done({r}, {}, {}) /\ UNCHANGED <<stay, met, late>>

-----------------------------------------------------------------------------
(* Requests that lock first.                                               *)

\* Requests that would strike the room lines of f which have just been voided:
\* they find the line cancelled, or cancel it once more.
Strikes(f, rooms) ==
    {r \in Requests : op[r] = "strike" /\ arg[r].f = f /\ arg[r].rooms \cap rooms # {}}

\* update_stay: new dates; every room's charge is voided and posted again.
UpdateStay(f, n) ==
    /\ folio[f] = "open"
    /\ term' = Booked(f, booked[f], n)
    /\ nights' = Charged(f, booked[f], n)
    /\ struck' = [struck EXCEPT ![f] = {}]
    /\ Done(Strikes(f, booked[f]), {}, {})
    /\ UNCHANGED <<room, folio, booked, extras, tag, posted, settles, bill, met, late>>

\* remove_room_from_stay: all that is tagged to the room is voided with it; the
\* last room stays.
RemoveRoom(f, m) ==
    /\ folio[f] = "open"
    /\ m \in booked[f] /\ Cardinality(booked[f]) > 1
    /\ booked' = [booked EXCEPT ![f] = @ \ {m}]
    /\ room' = [room EXCEPT ![m] = "available"]
    /\ nights' = Charged(f, {m}, 0)
    /\ extras' = [extras EXCEPT ![f] = {c \in @ : m \notin tag[c]}]
    /\ struck' = [struck EXCEPT ![f] = @ \ {m}]
    /\ Done(Strikes(f, {m}), {}, {})
    /\ UNCHANGED <<folio, term, tag, posted, settles, bill, met, late>>

\* Variant for mutation: the rooms of a cancelled stay are not freed.
CancelKeepsRooms(f) ==
    /\ folio[f] = "open"
    /\ folio' = [folio EXCEPT ![f] = "cancelled"]
    /\ nights' = Charged(f, Rooms, 0)
    /\ extras' = [extras EXCEPT ![f] = {}]
    /\ Done(Strikes(f, Rooms), {}, {f})
    /\ UNCHANGED <<room, booked, term, tag, posted, settles, bill, struck, met, late>>

\* cancel_stay: every charge is voided, every room freed.
CancelStay(f) ==
    /\ folio[f] = "open"
    /\ folio' = [folio EXCEPT ![f] = "cancelled"]
    /\ nights' = Charged(f, Rooms, 0)
    /\ extras' = [extras EXCEPT ![f] = {}]
    /\ room' = Take(booked[f], "available")
    /\ Done(Strikes(f, Rooms), {}, {f})
    /\ UNCHANGED <<booked, term, tag, posted, settles, bill, struck, met, late>>

\* release_room frees a stuck room, unless it is on an open stay.
ReleaseRoom(m) ==
    /\ \A f \in Folios : folio[f] = "open" => m \notin booked[f]
    /\ room' = [room EXCEPT ![m] = "available"]
    /\ UNCHANGED <<folio, booked, term, nights, extras, tag, posted, settles, bill, struck,
                   work, met, late>>

Next ==
    \/ \E r \in Requests :
         \/ \E o \in Slow, a \in Args : Load(r, o, a)
         \/ OpenStay(r) \/ AddRoom(r) \/ AddCharge(r) \/ VoidCharge(r) \/ VoidItem(r)
         \/ Checkout(r) \/ Abort(r)
    \/ \E f \in Folios :
         \/ \E n \in Nights : UpdateStay(f, n)
         \/ \E m \in Rooms : RemoveRoom(f, m)
         \/ CancelStay(f)
    \/ \E m \in Rooms : ReleaseRoom(m)

Spec == Init /\ [][Next]_vars

-----------------------------------------------------------------------------
(* Safety, whatever requests overlap.                                      *)

\* The rooms of an open stay, and they alone, are charged for the nights they
\* are booked: no edit leaves a room without its charge, or a charge without its
\* room.  What is missing is a line that void_item took off.
RoomsCharged ==
    \A f \in Folios : folio[f] = "open" =>
        nights[f] = [m \in Rooms |-> IF m \in booked[f] \ struck[f] THEN term[f][m] ELSE 0]

\* Two guests are in one room only where a check-in took a room that had been
\* taken since it was looked at, or a checkout freed rooms of an ended stay.
OneGuest ==
    \A f, g \in Folios : f # g /\ folio[f] = "open" /\ folio[g] = "open" =>
        booked[f] \cap booked[g] \subseteq met

\* "Normal check-in/checkout keeps Room.status in sync": but for such a room, a
\* room is occupied exactly while an open stay has it, so none is stuck.
RoomsInStep ==
    \A m \in Rooms \ met : room[m] = "occupied" <=>
        \E f \in Folios : folio[f] = "open" /\ m \in booked[f]

\* A stay that is checked out is settled once, for every live line on it and no
\* other; one that is cancelled has no live line; neither that nor an open one is
\* settled.  An exception is a stay that ended between the check of a charge, a
\* void or another checkout and its write.
BillIsWhole ==
    \A f \in Folios \ late :
        /\ settles[f] = IF folio[f] = "closed" THEN 1 ELSE 0
        /\ folio[f] = "closed" => bill[f] = [nights |-> nights[f], extras |-> extras[f]]
        /\ folio[f] = "cancelled" => nights[f] = NoNights /\ extras[f] = {}
=============================================================================
