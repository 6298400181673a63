-------------------------- MODULE AmendmentsProofs --------------------------
(***************************************************************************)
(* Amendments for any invoices, lines, totals, budgets, tokens and         *)
(* requests, whatever of them overlaps.                                    *)
(***************************************************************************)
EXTENDS Amendments, TLAPS

\* The types of what is stored.
BooksOK ==
    /\ wired \in Setups
    /\ status \in [Invoices -> Statuses]
    /\ dead \subseteq Invoices
    /\ total \in [Invoices -> Nat]
    /\ gone \subseteq Lines /\ edited \subseteq Lines
    /\ backs \in [Lines -> Nat]
    /\ returned \in [Uuids -> Carts]
    /\ refunds \in [Uuids -> Nat]
    /\ booked \subseteq Facts /\ heard \subseteq Facts
    /\ budget \in Rows
    /\ met \subseteq Lines /\ slack \in Nat

\* The types of what the requests are at.
WorkOK ==
    /\ phase \in [Requests -> Phases \cup {"idle"}]
    /\ job \in [Requests -> Jobs \cup {NoJob}]
    /\ \A r \in Requests : phase[r] # "idle" => job[r] \in Jobs

LEMMA Types == TypeOK <=> BooksOK /\ WorkOK
BY DEF TypeOK, BooksOK, WorkOK

\* One request at most holds the budget row, and what it draws is there.
OneLock ==
    \A r \in Requests : Locks(r) =>
        /\ budget.remaining >= job[r].sum
        /\ \A s \in Requests : Locks(s) => s = r

\* A job is at a phase of its kind; a line that is cancelled or edited belonged to a
\* live invoice, a return has its cart and its client_uuid.
Shaped(r) ==
    /\ phase[r] = "budget" => job[r].kind \in Pays
    /\ phase[r] = "authority" => job[r].kind \in Pays \cup {"note"}
    /\ phase[r] = "lines" => job[r].kind \in {"cancel", "plain", "item"} \cup Returning
    /\ job[r].kind \in {"item", "edit"} => job[r].live
    /\ job[r].kind \in Returning => job[r].q # Nothing /\ \E u \in Uuids : job[r].u = {u}

\* Past the authority, what there was to ask has been recorded; the lines to cancel
\* were read as live; a recomputation has read no more than is consumed by now.
Fit(r) ==
    /\ Shaped(r)
    /\ phase[r] \in {"lines", "commit"} /\ Asks(job[r]) => Fact(job[r]) \in heard
    /\ phase[r] = "commit" /\ job[r].kind \in {"cancel", "plain", "item"} =>
           LiveLines(job[r]) \cap job[r].saw = {}
    /\ job[r].kind = "recompute" => job[r].sum <= budget.consumed

\* What is left of the budget is no more than what was not consumed, and what the
\* last recomputation overlooked.
Room == budget.remaining > 0 => budget.consumed + budget.remaining <= budget.amount + slack

Work == WorkOK /\ OneLock /\ \A r \in Requests : phase[r] # "idle" => Fit(r)

AInv == BooksOK /\ Work /\ Room /\ RefundedOnce /\ AuthorityKnows /\ BackOnce

\* What a step does to the budget and to a cancelled invoice.
CapStep == budget'.consumed > budget.consumed => budget'.consumed <= budget'.amount + slack
StayStep ==
    \A i \in Invoices : status[i] = "cancelled" /\ status'[i] # "cancelled" =>
        \E r \in Requests : /\ phase[r] = "commit" /\ phase'[r] = "idle"
                            /\ job[r].i = i /\ job[r].live

Keeps == AInv' /\ CapStep /\ StayStep

LEMMA JobType ==
  ASSUME NEW j \in Jobs
  PROVE  /\ j.sum \in Nat
         /\ j.kind \in Kinds \cup {"recompute"}
         /\ j.kind # "recompute" =>
                /\ j.i \in Invoices /\ j.l \subseteq Lines /\ j.u \subseteq Uuids
                /\ j.q \in Carts /\ j.live \in BOOLEAN /\ j.saw \subseteq Lines
                /\ j.then \in Statuses /\ Fact(j) \in Facts
<1>1. CASE j \in [kind : {"recompute"}, sum : Nat]
  BY <1>1
<1>2. CASE j \in [kind : Kinds, i : Invoices, l : SUBSET Lines, u : SUBSET Uuids, q : Carts,
                  live : BOOLEAN, sum : Nat, saw : SUBSET Lines, then : Statuses]
  BY <1>2 DEF Fact, Facts
<1> QED
  BY <1>1, <1>2 DEF Jobs

\* What a request has at hand fits as well when more is recorded and consumed.
LEMMA FitStays ==
  ASSUME AInv, NEW s \in Requests, Fit(s), job[s] \in Jobs, UNCHANGED wired,
         phase'[s] = phase[s], job'[s] = job[s], heard \subseteq heard',
         budget.consumed <= budget'.consumed, budget'.consumed \in Nat
  PROVE  Fit(s)'
<1>1. Shaped(s)'
  BY DEF Fit, Shaped
<1>2. Asks(job[s])' <=> Asks(job[s])
  BY DEF Asks
<1>3. Fact(job[s])' = Fact(job[s])
  BY DEF Fact
<1>4. phase'[s] \in {"lines", "commit"} /\ Asks(job[s])' => Fact(job[s])' \in heard'
  BY <1>2, <1>3 DEF Fit
<1>5. phase'[s] = "commit" /\ job'[s].kind \in {"cancel", "plain", "item"} =>
          LiveLines(job'[s]) \cap job'[s].saw = {}
  BY DEF Fit
<1>6. job'[s].kind = "recompute" => job'[s].sum <= budget'.consumed
  <2>1. job[s].sum \in Nat /\ budget.consumed \in Nat
    BY JobType DEF AInv, BooksOK, Rows
  <2> QED
    BY <2>1 DEF Fit
<1> QED
  BY <1>1, <1>4, <1>5, <1>6 DEF Fit, LiveLines, LinesOf

\* A request that is done leaves the others as they were.
LEMMA DoneType ==
  ASSUME WorkOK, NEW r \in Requests, Done(r)
  PROVE  /\ WorkOK'
         /\ phase'[r] = "idle"
         /\ \A s \in Requests : phase'[s] # "idle" =>
                s # r /\ phase'[s] = phase[s] /\ job'[s] = job[s] /\ job'[s] \in Jobs
<1>1. phase' = [phase EXCEPT ![r] = "idle"] /\ job' = [job EXCEPT ![r] = NoJob]
  BY DEF Done
<1>2. phase' \in [Requests -> Phases \cup {"idle"}] /\ phase'[r] = "idle"
  BY <1>1 DEF WorkOK
<1>3. \A s \in Requests : s # r => phase'[s] = phase[s] /\ job'[s] = job[s]
  BY <1>1 DEF WorkOK
<1>4. job' \in [Requests -> Jobs \cup {NoJob}]
  BY <1>1 DEF WorkOK
<1> QED
  BY <1>2, <1>3, <1>4 DEF WorkOK

\* A request that moves on.
LEMMA GoesType ==
  ASSUME WorkOK, NEW r \in Requests, NEW p \in Phases, phase[r] # "idle", Goes(r, p)
  PROVE  /\ WorkOK'
         /\ phase'[r] = p /\ job' = job
         /\ \A s \in Requests : s # r => phase'[s] = phase[s]
<1>1. phase' = [phase EXCEPT ![r] = p] /\ job' = job
  BY DEF Goes
<1> QED
  BY <1>1 DEF WorkOK

\* A transaction that ends gives up its lock.
LEMMA DoneKeeps ==
  ASSUME AInv, NEW r \in Requests, Done(r), UNCHANGED wired, heard \subseteq heard',
         budget' = budget \/ Locks(r) \/ Unlocked,
         budget.consumed <= budget'.consumed, budget'.consumed \in Nat
  PROVE  Work'
<1>1. \A s \in Requests : phase'[s] # "idle" =>
          s # r /\ phase'[s] = phase[s] /\ job'[s] = job[s] /\ job[s] \in Jobs
  BY DoneType DEF AInv, Work
<1>2. \A s \in Requests : Locks(s)' => s # r /\ Locks(s) /\ job'[s] = job[s]
  BY <1>1 DEF Locks
<1>3. OneLock'
  <2>1. ASSUME NEW s \in Requests, Locks(s)'
        PROVE  budget'.remaining >= job'[s].sum /\ \A x \in Requests : Locks(x)' => x = s
    <3>1. Locks(s) /\ s # r /\ job'[s] = job[s]
      BY <1>2, <2>1
    <3>2. budget' = budget
      BY <3>1 DEF AInv, Work, OneLock, Unlocked
    <3> QED
      BY <1>2, <3>1, <3>2 DEF AInv, Work, OneLock
  <2> QED
    BY <2>1 DEF OneLock
<1>4. ASSUME NEW s \in Requests, phase'[s] # "idle" PROVE Fit(s)'
  <2>1. phase'[s] = phase[s] /\ job'[s] = job[s] /\ job[s] \in Jobs /\ Fit(s)
    BY <1>1, <1>4 DEF AInv, Work
  <2> QED
    BY <2>1, FitStays
<1>5. WorkOK'
  BY DoneType DEF AInv, Work
<1> QED
  BY <1>3, <1>4, <1>5 DEF Work

LEMMA InitAInv == Init => AInv
<1> SUFFICES ASSUME Init PROVE AInv
  OBVIOUS
<1>1. BooksOK
  <2>1. returned \in [Uuids -> Carts]
    BY AmendAssumption DEF Init, Nothing, Carts
  <2>2. total \in [Invoices -> Nat] /\ status \in [Invoices -> Statuses]
    BY AmendAssumption DEF Init, Statuses, Accepted
  <2>3. budget \in Rows
    BY AmendAssumption DEF Init, Rows
  <2>4. backs \in [Lines -> Nat] /\ refunds \in [Uuids -> Nat]
    BY DEF Init
  <2> QED
    BY <2>1, <2>2, <2>3, <2>4 DEF Init, BooksOK
<1>2. Work
  <2>1. \A r \in Requests : phase[r] = "idle"
    BY DEF Init
  <2>2. WorkOK
    BY <2>1 DEF Init, WorkOK
  <2> QED
    BY <2>1, <2>2 DEF Work, OneLock, Locks
<1>3. Room
  BY AmendAssumption DEF Init, Room
<1>4. RefundedOnce /\ AuthorityKnows /\ BackOnce
  BY DEF Init, RefundedOnce, AuthorityKnows, BackOnce
<1> QED
  BY <1>1, <1>2, <1>3, <1>4 DEF AInv

-----------------------------------------------------------------------------
(* Starting.                                                               *)

\* What a request has loaded when it starts.
Loaded(j) ==
    /\ j.kind \in {"item", "edit"} => j.live
    /\ j.kind \in Returning => j.q # Nothing /\ \E u \in Uuids : j.u = {u}
    /\ j.kind = "recompute" => j.sum = budget.consumed

LEMMA MadeJob ==
  ASSUME BooksOK, NEW k \in Kinds, NEW i \in Invoices, NEW l \in SUBSET Lines,
         NEW u \in SUBSET Uuids, NEW q \in Carts, NEW t \in Nat
  PROVE  Job(k, i, l, u, q, t) \in Jobs
BY DEF Job, Jobs, BooksOK, Statuses, Kinds

LEMMA NothingCart == Nothing \in Carts
BY AmendAssumption DEF Nothing, Carts

\* Every kind of load starts a job that is well typed and up to date.
LEMMA LoadIsStart ==
  ASSUME BooksOK, NEW r \in Requests,
         \/ \E i \in Invoices :
              \/ \E k \in {"cancel", "plain"} : LoadCancel(r, i, k)
              \/ \E u \in Uuids, q \in Carts : LoadReturn(r, i, u, q)
              \/ LoadPortal(r, i)
         \/ \E l \in Lines : LoadItem(r, l) \/ \E t \in Totals : LoadEdit(r, l, t)
         \/ LoadRecompute(r)
  PROVE  \E j \in Jobs : Start(r, j) /\ Loaded(j)
<1>1. ASSUME NEW i \in Invoices, NEW k \in {"cancel", "plain"}, LoadCancel(r, i, k)
      PROVE  \E j \in Jobs : Start(r, j) /\ Loaded(j)
  <2>1. Job(k, i, {}, {}, Nothing, total[i]) \in Jobs
    BY MadeJob, NothingCart DEF BooksOK, Kinds
  <2>2. Loaded(Job(k, i, {}, {}, Nothing, total[i]))
    BY DEF Loaded, Job, Returning
  <2> QED
    BY <1>1, <2>1, <2>2 DEF LoadCancel
<1>2. ASSUME NEW i \in Invoices, NEW u \in Uuids, NEW q \in Carts, LoadReturn(r, i, u, q)
      PROVE  \E j \in Jobs : Start(r, j) /\ Loaded(j)
  <2> DEFINE k == IF CanCancel(i) THEN "amend" ELSE "note"
  <2>1. k \in Kinds /\ k \notin {"item", "edit", "recompute"}
    BY DEF Kinds
  <2>2. Start(r, Job(k, i, {}, {u}, q, total[i])) /\ q # Nothing
    BY <1>2 DEF LoadReturn, CartOf
  <2> HIDE DEF k
  <2>3. Job(k, i, {}, {u}, q, total[i]) \in Jobs
    BY <2>1, MadeJob DEF BooksOK
  <2>4. Loaded(Job(k, i, {}, {u}, q, total[i]))
    BY <2>1, <2>2 DEF Loaded, Job
  <2> QED
    BY <2>2, <2>3, <2>4
<1>3. ASSUME NEW i \in Invoices, LoadPortal(r, i)
      PROVE  \E j \in Jobs : Start(r, j) /\ Loaded(j)
  <2>1. Job("portal", i, {}, {}, Nothing, 0) \in Jobs
    BY MadeJob, NothingCart DEF Kinds
  <2>2. Loaded(Job("portal", i, {}, {}, Nothing, 0))
    BY DEF Loaded, Job, Returning
  <2> QED
    BY <1>3, <2>1, <2>2 DEF LoadPortal
<1>4. ASSUME NEW l \in Lines, LoadItem(r, l) PROVE \E j \in Jobs : Start(r, j) /\ Loaded(j)
  <2>1. Job("item", Of[l], {l}, {}, Nothing, 0) \in Jobs
    BY MadeJob, NothingCart, AmendAssumption DEF Kinds
  <2>2. Loaded(Job("item", Of[l], {l}, {}, Nothing, 0))
    BY <1>4 DEF Loaded, Job, Returning, LoadItem, CanTouch, Acceptable, Accepted
  <2> QED
    BY <1>4, <2>1, <2>2 DEF LoadItem
<1>5. ASSUME NEW l \in Lines, NEW t \in Totals, LoadEdit(r, l, t)
      PROVE  \E j \in Jobs : Start(r, j) /\ Loaded(j)
  <2> DEFINE b == Job("edit", Of[l], {l}, {}, Nothing, t)
             j == [b EXCEPT !.then = EditedStatus(Of[l])]
  <2>1. b \in Jobs
    BY MadeJob, NothingCart, AmendAssumption DEF Kinds
  <2>2. b.kind = "edit" /\ b.live
    BY <1>5 DEF Job, LoadEdit, CanTouch, Acceptable, Accepted
  <2>3. EditedStatus(Of[l]) \in Statuses
    BY DEF EditedStatus, Statuses, Accepted
  <2>4. Start(r, j)
    BY <1>5 DEF LoadEdit
  <2> HIDE DEF b
  <2>5. j \in Jobs /\ j.kind = "edit" /\ j.live
    BY <2>1, <2>2, <2>3 DEF Jobs
  <2>6. Loaded(j)
    BY <2>5 DEF Loaded, Returning
  <2> QED
    BY <2>4, <2>5, <2>6
<1>6. ASSUME LoadRecompute(r) PROVE \E j \in Jobs : Start(r, j) /\ Loaded(j)
  <2>1. [kind |-> "recompute", sum |-> budget.consumed] \in Jobs
    BY DEF BooksOK, Jobs, Rows
  <2> QED
    BY <1>6, <2>1 DEF LoadRecompute, Loaded, Returning
<1> QED
  BY <1>1, <1>2, <1>3, <1>4, <1>5, <1>6

\* The phase at which a job starts.
LEMMA FirstType ==
  ASSUME NEW j \in Jobs
  PROVE  /\ First(j) \in Phases
         /\ First(j) = "budget" <=> j.kind \in Pays
         /\ First(j) = "authority" => j.kind = "note"
         /\ First(j) = "lines" => j.kind \in {"plain", "item", "note"}
         /\ First(j) = "commit" => j.kind \in {"portal", "recompute"}
         /\ First(j) \in {"lines", "commit"} => ~ Asks(j)
<1>1. j.kind \in Kinds \cup {"recompute"}
  BY JobType
<1>2. CASE j.kind \in Pays
  BY <1>2 DEF First, Phases, Pays
<1>3. CASE j.kind = "note"
  BY <1>3 DEF First, Phases, Pays
<1>4. CASE j.kind \in {"plain", "item"}
  BY <1>4 DEF First, Phases, Pays, Asks, Returning
<1>5. CASE j.kind \in {"portal", "recompute"}
  BY <1>5 DEF First, Phases, Pays, Asks, Returning
<1> QED
  BY <1>1, <1>2, <1>3, <1>4, <1>5 DEF Kinds, Pays

\* A step that changes no row but the deadline leaves what holds of the rows.
LEMMA Same ==
  ASSUME AInv, Work', dead' \subseteq Invoices, heard \subseteq heard', heard' \subseteq Facts,
         UNCHANGED <<wired, status, total, gone, edited, backs, returned, refunds, booked, budget,
                     met, slack>>
  PROVE  Keeps
<1>1. BooksOK'
  BY DEF AInv, BooksOK
<1>2. Room' /\ RefundedOnce' /\ BackOnce'
  BY DEF AInv, Room, RefundedOnce, BackOnce
<1>3. AuthorityKnows'
  <2>1. \A x \in booked : Asks(x)' <=> Asks(x)
    BY DEF Asks
  <2> QED
    BY <2>1 DEF AInv, AuthorityKnows
<1>4. CapStep
  BY DEF CapStep, AInv, BooksOK, Rows
<1>5. StayStep
  BY DEF StayStep
<1> QED
  BY <1>1, <1>2, <1>3, <1>4, <1>5 DEF Keeps, AInv

LEMMA StartKeeps ==
  ASSUME AInv, NEW r \in Requests, NEW j \in Jobs, Start(r, j), Loaded(j), UNCHANGED wired
  PROVE  Keeps
<1>1. /\ phase' = [phase EXCEPT ![r] = First(j)] /\ job' = [job EXCEPT ![r] = j]
      /\ UNCHANGED <<status, dead, total, gone, edited, backs, returned, refunds, booked, budget,
                     met, slack, heard>>
  BY DEF Start, books
<1>2. /\ phase'[r] = First(j) /\ job'[r] = j
      /\ \A s \in Requests : s # r => phase'[s] = phase[s] /\ job'[s] = job[s]
  BY <1>1 DEF AInv, Work, WorkOK
<1>3. WorkOK'
  <2>1. phase' \in [Requests -> Phases \cup {"idle"}]
    BY <1>1, FirstType DEF AInv, Work, WorkOK
  <2>2. job' \in [Requests -> Jobs \cup {NoJob}]
    BY <1>1 DEF AInv, Work, WorkOK
  <2> QED
    BY <1>2, <2>1, <2>2 DEF AInv, Work, WorkOK
<1>4. OneLock'
  <2>1. \A s \in Requests : Locks(s)' => s # r /\ Locks(s) /\ job'[s] = job[s]
    BY <1>2, FirstType DEF Locks
  <2> QED
    BY <1>1, <2>1 DEF AInv, Work, OneLock
<1>5. Fit(r)'
  <2>1. Shaped(r)'
    BY <1>2, FirstType DEF Shaped, Loaded, Returning
  <2>2. phase'[r] \in {"lines", "commit"} => ~ Asks(j)'
    <3>1. Asks(j)' <=> Asks(j)
      BY DEF Asks
    <3> QED
      BY <1>2, <3>1, FirstType
  <2>3. phase'[r] = "commit" => job'[r].kind \notin {"cancel", "plain", "item"}
    BY <1>2, FirstType
  <2>4. job'[r].kind = "recompute" => job'[r].sum <= budget'.consumed
    BY <1>1, <1>2 DEF Loaded, AInv, BooksOK, Rows
  <2>5. Asks(job[r])' <=> Asks(j)'
    BY <1>2 DEF Asks
  <2> QED
    BY <2>1, <2>2, <2>3, <2>4, <2>5 DEF Fit
<1>6. ASSUME NEW s \in Requests, phase'[s] # "idle" PROVE Fit(s)'
  <2>1. CASE s = r
    BY <1>5, <2>1
  <2>2. CASE s # r
    <3>1. phase'[s] = phase[s] /\ job'[s] = job[s] /\ job[s] \in Jobs /\ Fit(s)
      BY <1>2, <1>6, <2>2 DEF AInv, Work, WorkOK
    <3>2. budget.consumed <= budget'.consumed /\ budget'.consumed \in Nat
      BY <1>1 DEF AInv, BooksOK, Rows
    <3> QED
      BY <1>1, <3>1, <3>2, FitStays
  <2> QED
    BY <2>1, <2>2
<1>7. Work'
  BY <1>3, <1>4, <1>6 DEF Work
<1> QED
  BY <1>1, <1>7, Same DEF AInv, BooksOK

-----------------------------------------------------------------------------
(* Inside a request.                                                       *)

LEMMA MovesKeep ==
  ASSUME AInv, NEW r \in Requests, NEW p \in Phases, phase[r] # "idle", Goes(r, p),
         UNCHANGED <<books, wired>>, heard \subseteq heard', heard' \subseteq Facts,
         Fit(r)', OneLock'
  PROVE  Keeps
<1>1. UNCHANGED <<dead, status, total, gone, edited, backs, returned, refunds, booked, budget,
                  met, slack>>
  BY DEF books
<1>2. /\ WorkOK' /\ job' = job
      /\ \A s \in Requests : s # r => phase'[s] = phase[s]
  BY GoesType DEF AInv, Work
<1>3. ASSUME NEW s \in Requests, phase'[s] # "idle" PROVE Fit(s)'
  <2>1. CASE s = r
    BY <2>1
  <2>2. CASE s # r
    <3>1. phase'[s] = phase[s] /\ job'[s] = job[s] /\ job[s] \in Jobs /\ Fit(s)
      BY <1>2, <1>3, <2>2 DEF AInv, Work, WorkOK
    <3>2. budget.consumed <= budget'.consumed /\ budget'.consumed \in Nat
      BY <1>1 DEF AInv, BooksOK, Rows
    <3> QED
      BY <3>1, <3>2, FitStays
  <2> QED
    BY <2>1, <2>2
<1>4. Work'
  BY <1>2, <1>3 DEF Work
<1> QED
  BY <1>1, <1>4, Same DEF AInv, BooksOK

LEMMA ReserveKeeps ==
  ASSUME AInv, NEW r \in Requests, Reserve(r), UNCHANGED wired
  PROVE  Keeps
<1>1. /\ phase[r] = "budget" /\ Unlocked /\ budget.remaining >= job[r].sum
      /\ UNCHANGED <<books, heard>> /\ budget' = budget
  BY DEF Reserve, Affords, books
<1>2. job[r] \in Jobs /\ job[r].kind \in Pays /\ Fit(r)
  BY <1>1 DEF AInv, Work, WorkOK, Fit, Shaped
<1>3. PICK p \in Phases :
          /\ Goes(r, p) /\ p # "budget"
          /\ p \in {"lines", "commit"} => ~ Asks(job[r])
          /\ p = "lines" => job[r].kind # "edit"
          /\ p = "commit" => job[r].kind = "edit"
  BY DEF Reserve, Asked, Phases
<1>4. WorkOK' /\ phase'[r] = p /\ job' = job /\ \A s \in Requests : s # r => phase'[s] = phase[s]
  BY <1>1, <1>3, GoesType DEF AInv, Work
<1>5. OneLock'
  <2>1. \A s \in Requests : Locks(s)' => s = r
    BY <1>1, <1>4 DEF Locks, Unlocked
  <2> QED
    BY <1>1, <1>4, <2>1 DEF OneLock
<1>6. Fit(r)'
  <2>1. Shaped(r)'
    BY <1>2, <1>3, <1>4 DEF Fit, Shaped, Pays, Returning
  <2>2. Asks(job[r])' <=> Asks(job[r])
    BY <1>4 DEF Asks
  <2>3. phase'[r] = "commit" => job'[r].kind \notin {"cancel", "plain", "item"}
    BY <1>3, <1>4
  <2>4. job'[r].kind # "recompute"
    BY <1>2, <1>4 DEF Pays
  <2> QED
    BY <1>3, <1>4, <2>1, <2>2, <2>3, <2>4 DEF Fit
<1> QED
  BY <1>1, <1>3, <1>5, <1>6, MovesKeep DEF AInv, BooksOK

LEMMA EndsAlone ==
  ASSUME AInv, NEW r \in Requests, Done(r), UNCHANGED <<books, wired>>,
         heard \subseteq heard', heard' \subseteq Facts
  PROVE  Keeps
<1>1. UNCHANGED <<dead, status, total, gone, edited, backs, returned, refunds, booked, budget,
                  met, slack>>
  BY DEF books
<1>2. budget.consumed <= budget'.consumed /\ budget'.consumed \in Nat
  BY <1>1 DEF AInv, BooksOK, Rows
<1>3. Work'
  BY <1>1, <1>2, DoneKeeps
<1> QED
  BY <1>1, <1>3, Same DEF AInv, BooksOK

LEMMA AskKeeps ==
  ASSUME AInv, NEW r \in Requests, Ask(r), UNCHANGED wired
  PROVE  Keeps
<1>1. phase[r] = "authority" /\ heard' = heard \cup {Fact(job[r])} /\ UNCHANGED books
  BY DEF Ask
<1>2. job[r] \in Jobs /\ job[r].kind \in Pays \cup {"note"} /\ Fit(r)
  BY <1>1 DEF AInv, Work, WorkOK, Fit, Shaped
<1>3. heard \subseteq heard' /\ heard' \subseteq Facts
  BY <1>1, <1>2, JobType DEF AInv, BooksOK, Pays
<1>4. CASE Done(r)
  BY <1>1, <1>3, <1>4, EndsAlone
<1>5. CASE Goes(r, Asked(job[r]))
  <2>1. PICK p \in {"lines", "commit"} :
            Goes(r, p) /\ (p = "commit" <=> job[r].kind = "edit")
    BY <1>5 DEF Asked
  <2>2. phase'[r] = p /\ job' = job /\ \A s \in Requests : s # r => phase'[s] = phase[s]
    BY <1>1, <2>1, GoesType DEF AInv, Work, Phases
  <2>3. OneLock'
    <3>1. \A s \in Requests : Locks(s)' => Locks(s)
      BY <1>1, <2>2 DEF Locks
    <3>2. budget' = budget
      BY <1>1 DEF books
    <3> QED
      BY <2>2, <3>1, <3>2 DEF AInv, Work, OneLock
  <2>4. Fit(r)'
    <3>1. Shaped(r)'
      BY <1>2, <2>1, <2>2 DEF Fit, Shaped, Pays, Returning
    <3>2. Fact(job[r])' \in heard'
      BY <1>1, <2>2 DEF Fact
    <3>3. phase'[r] = "commit" => job'[r].kind \notin {"cancel", "plain", "item"}
      BY <2>1, <2>2
    <3>4. job'[r].kind # "recompute"
      BY <1>2, <2>2 DEF Pays
    <3> QED
      BY <3>1, <3>2, <3>3, <3>4 DEF Fit
  <2> QED
    BY <1>1, <1>3, <2>1, <2>3, <2>4, MovesKeep DEF Phases
<1> QED
  BY <1>4, <1>5 DEF Ask

LEMMA ReadKeeps ==
  ASSUME AInv, NEW r \in Requests, ReadLines(r), UNCHANGED wired
  PROVE  Keeps
<1> DEFINE S == gone \cap LinesOf(job[r].i)
<1>1. /\ phase[r] = "lines" /\ phase' = [phase EXCEPT ![r] = "commit"]
      /\ job' = [job EXCEPT ![r].saw = S]
      /\ UNCHANGED <<books, heard>>
      /\ job[r].kind = "item" => job[r].l \cap (gone \cup edited) = {}
  BY DEF ReadLines
<1>2. job[r] \in Jobs /\ Fit(r) /\ job[r].kind \in {"cancel", "plain", "item"} \cup Returning
  BY <1>1 DEF AInv, Work, WorkOK, Fit, Shaped
<1>3. S \subseteq Lines
  BY DEF LinesOf
<1>4. job[r].kind = "item" => job[r].l \cap S = {}
  BY <1>1
<1> HIDE DEF S
<1>5. job[r] \in [kind : Kinds, i : Invoices, l : SUBSET Lines, u : SUBSET Uuids, q : Carts,
                  live : BOOLEAN, sum : Nat, saw : SUBSET Lines, then : Statuses]
  BY <1>2 DEF Jobs, Returning
<1>6. PICK j \in Jobs :
          /\ job' = [job EXCEPT ![r] = j]
          /\ j.kind = job[r].kind /\ j.i = job[r].i /\ j.l = job[r].l /\ j.u = job[r].u
          /\ j.q = job[r].q /\ j.live = job[r].live /\ j.sum = job[r].sum /\ j.saw = S
  <2>1. [job[r] EXCEPT !.saw = S] \in Jobs
    BY <1>3, <1>5 DEF Jobs
  <2>2. job' = [job EXCEPT ![r] = [job[r] EXCEPT !.saw = S]]
    BY <1>1 DEF AInv, Work, WorkOK
  <2> QED
    BY <1>5, <2>1, <2>2
<1>7. /\ phase'[r] = "commit" /\ job'[r] = j
      /\ \A s \in Requests : s # r => phase'[s] = phase[s] /\ job'[s] = job[s]
  BY <1>1, <1>6 DEF AInv, Work, WorkOK
<1>8. WorkOK'
  <2>1. phase' \in [Requests -> Phases \cup {"idle"}]
    BY <1>1 DEF AInv, Work, WorkOK, Phases
  <2>2. job' \in [Requests -> Jobs \cup {NoJob}]
    BY <1>6 DEF AInv, Work, WorkOK
  <2> QED
    BY <1>7, <2>1, <2>2 DEF AInv, Work, WorkOK
<1>9. OneLock'
  <2>1. \A s \in Requests : Locks(s)' => Locks(s) /\ job'[s].sum = job[s].sum
    BY <1>1, <1>6, <1>7 DEF Locks
  <2>2. budget' = budget
    BY <1>1 DEF books
  <2> QED
    BY <2>1, <2>2 DEF AInv, Work, OneLock
<1>10. Fit(r)'
  <2>1. Shaped(r)'
    BY <1>2, <1>6, <1>7 DEF Fit, Shaped, Returning, Pays
  <2>2. Asks(job[r])' => Asks(job[r])
    BY <1>6, <1>7 DEF Asks
  <2>3. Fact(job[r])' = Fact(job[r])
    BY <1>6, <1>7 DEF Fact
  <2>4. Asks(job[r])' => Fact(job[r])' \in heard'
    BY <1>1, <1>2, <2>2, <2>3 DEF Fit
  <2>5. LiveLines(j) \cap j.saw = {} \/ j.kind \notin {"cancel", "plain", "item"}
    BY <1>4, <1>6 DEF LiveLines
  <2>6. job'[r].kind # "recompute"
    BY <1>2, <1>6, <1>7 DEF Returning
  <2> QED
    BY <1>7, <2>1, <2>4, <2>5, <2>6 DEF Fit, LiveLines, LinesOf
<1>11. ASSUME NEW s \in Requests, phase'[s] # "idle" PROVE Fit(s)'
  <2>1. CASE s = r
    BY <1>10, <2>1
  <2>2. CASE s # r
    <3>1. phase'[s] = phase[s] /\ job'[s] = job[s] /\ job[s] \in Jobs /\ Fit(s)
      BY <1>7, <1>11, <2>2 DEF AInv, Work, WorkOK
    <3>2. budget.consumed <= budget'.consumed /\ budget'.consumed \in Nat
      BY <1>1 DEF AInv, BooksOK, Rows, books
    <3> QED
      BY <1>1, <3>1, <3>2, FitStays
  <2> QED
    BY <2>1, <2>2
<1>12. Work'
  BY <1>8, <1>9, <1>11 DEF Work
<1> QED
  BY <1>1, <1>12, Same DEF AInv, BooksOK, books

-----------------------------------------------------------------------------
(* Commits.                                                                *)

\* A request that draws on the budget holds it, with what it draws in it.
LEMMA SpendKeeps ==
  ASSUME AInv, NEW r \in Requests, phase[r] = "commit", job[r].kind \in Pays,
         budget' = Spend(job[r]), slack' = slack
  PROVE  /\ Locks(r) /\ budget' \in Rows /\ Room' /\ CapStep
         /\ budget.consumed <= budget'.consumed /\ budget'.consumed \in Nat
<1>1. Locks(r) /\ budget.remaining >= job[r].sum
  BY DEF AInv, Work, Locks, OneLock
<1>2. job[r] \in Jobs /\ budget \in Rows /\ slack \in Nat
  BY DEF AInv, Work, WorkOK, BooksOK
<1>3. job[r].sum \in Nat
  BY <1>2, JobType
<1>4. budget.amount \in Nat /\ budget.consumed \in Nat /\ budget.remaining \in Nat
  BY <1>2 DEF Rows
<1>5. budget' = [amount |-> budget.amount, consumed |-> budget.consumed + job[r].sum,
                 remaining |-> budget.remaining - job[r].sum]
  BY DEF Spend
<1>6. /\ budget'.amount = budget.amount
      /\ budget'.consumed = budget.consumed + job[r].sum
      /\ budget'.remaining = budget.remaining - job[r].sum
  BY <1>5
<1>7. budget' \in Rows
  BY <1>1, <1>3, <1>4, <1>5 DEF Rows
<1>8. budget.remaining > 0 => budget.consumed + budget.remaining <= budget.amount + slack
  BY DEF AInv, Room
<1>9. Room'
  BY <1>1, <1>2, <1>3, <1>4, <1>6, <1>8 DEF Room
<1>10. CapStep
  BY <1>1, <1>2, <1>3, <1>4, <1>6, <1>8 DEF CapStep
<1>11. budget.consumed <= budget'.consumed /\ budget'.consumed \in Nat
  BY <1>3, <1>4, <1>6
<1> QED
  BY <1>1, <1>7, <1>9, <1>10, <1>11

\* What a commit does to the budget: it draws on it, or leaves it.
LEMMA CommitWork ==
  ASSUME AInv, NEW r \in Requests, phase[r] = "commit", Done(r), UNCHANGED <<wired, heard, slack>>,
         budget' = budget \/ (job[r].kind \in Pays /\ budget' = Spend(job[r]))
  PROVE  Work' /\ budget' \in Rows /\ Room' /\ CapStep
<1>1. CASE budget' = budget
  <2>1. budget.consumed <= budget'.consumed /\ budget'.consumed \in Nat
    BY <1>1 DEF AInv, BooksOK, Rows
  <2>2. Work'
    BY <1>1, <2>1, DoneKeeps
  <2>3. budget' \in Rows /\ Room' /\ CapStep
    BY <1>1, <2>1 DEF AInv, BooksOK, Room, CapStep, Rows
  <2> QED
    BY <2>2, <2>3
<1>2. CASE job[r].kind \in Pays /\ budget' = Spend(job[r])
  BY <1>2, SpendKeeps, DoneKeeps
<1> QED
  BY <1>1, <1>2

\* What is kept of a commit has been recorded, where there is an authority.
LEMMA BookedKnown ==
  ASSUME AInv, NEW r \in Requests, phase[r] = "commit", job[r].kind \in Kinds,
         UNCHANGED <<wired, heard>>,
         booked' = booked \/ booked' = booked \cup {Fact(job[r])}
  PROVE  booked' \subseteq Facts /\ AuthorityKnows'
<1>1. job[r] \in Jobs /\ Fit(r)
  BY DEF AInv, Work, WorkOK
<1>2. job[r].kind # "recompute"
  BY DEF Kinds
<1>3. Fact(job[r]) \in Facts
  BY <1>1, <1>2, JobType
<1>4. Asks(Fact(job[r])) <=> Asks(job[r])
  BY DEF Asks, Fact
<1>5. \A x \in booked' : Asks(x) => x \in heard
  BY <1>1, <1>4 DEF Fit, AInv, AuthorityKnows
<1>6. \A x \in booked' : Asks(x)' <=> Asks(x)
  BY DEF Asks
<1> QED
  BY <1>3, <1>5, <1>6 DEF AInv, BooksOK, AuthorityKnows

\* Only the status of the request's own invoice changes, which was live when loaded, or
\* else becomes cancelled.
LEMMA StayKeeps ==
  ASSUME AInv, NEW r \in Requests, phase[r] = "commit", Done(r), job[r].kind \in Kinds,
         NEW v \in Statuses, status' = [status EXCEPT ![job[r].i] = v],
         v = "cancelled" \/ job[r].live
  PROVE  StayStep /\ status' \in [Invoices -> Statuses]
<1>1. status \in [Invoices -> Statuses] /\ phase'[r] = "idle"
  BY DoneType DEF AInv, Work, BooksOK
<1>2. \A i \in Invoices : i # job[r].i => status'[i] = status[i]
  BY <1>1
<1>3. ASSUME NEW i \in Invoices, status[i] = "cancelled", status'[i] # "cancelled"
      PROVE  job[r].i = i /\ job[r].live
  BY <1>1, <1>2, <1>3
<1> QED
  BY <1>1, <1>3 DEF StayStep

\* Lines that the request had read as live go back once, but for those that another
\* has put back since.
LEMMA PutBackKeeps ==
  ASSUME AInv, NEW r \in Requests, phase[r] = "commit", PutBack(job[r]), returned' = returned,
         job[r].kind \in {"cancel", "plain", "item"}
  PROVE  /\ BackOnce' /\ backs' \in [Lines -> Nat] /\ gone' \subseteq Lines
         /\ met' \subseteq Lines
<1> DEFINE L == LiveLines(job[r])
<1>1. job[r] \in Jobs /\ Fit(r) /\ job[r].kind # "recompute"
  BY DEF AInv, Work, WorkOK
<1>2. L \subseteq Lines
  BY <1>1, JobType DEF LiveLines, LinesOf
<1>3. L \cap job[r].saw = {}
  BY <1>1 DEF Fit
<1>4. /\ backs' = [l \in Lines |-> IF l \in L THEN backs[l] + 1 ELSE backs[l]]
      /\ gone' = gone \cup L
      /\ met' = met \cup ((L \cap gone) \ job[r].saw)
  BY DEF PutBack
<1> HIDE DEF L
<1>5. ASSUME NEW l \in Lines, l \notin met'
      PROVE  /\ backs'[l] <= 1
             /\ backs'[l] = 1 => l \in gone'
             /\ l \in gone' => backs'[l] = 1 \/ \E u \in Uuids : returned'[u][l] = Sold
  <2>1. /\ backs[l] \in Nat /\ l \notin met
        /\ backs[l] <= 1 /\ (backs[l] = 1 => l \in gone)
        /\ l \in gone => backs[l] = 1 \/ \E u \in Uuids : returned[u][l] = Sold
    BY <1>4, <1>5 DEF AInv, BooksOK, BackOnce
  <2>2. CASE l \in L
    <3>1. l \notin gone
      BY <1>3, <1>4, <1>5, <2>2
    <3>2. backs[l] = 0
      BY <2>1, <3>1
    <3>3. backs'[l] = 1 /\ l \in gone'
      BY <1>4, <2>2, <3>2
    <3> QED
      BY <3>3
  <2>3. CASE l \notin L
    <3>1. backs'[l] = backs[l] /\ (l \in gone' <=> l \in gone)
      BY <1>4, <2>3
    <3> QED
      BY <2>1, <3>1
  <2> QED
    BY <2>2, <2>3
<1>6. backs' \in [Lines -> Nat]
  BY <1>4 DEF AInv, BooksOK
<1>7. gone' \subseteq Lines /\ met' \subseteq Lines
  BY <1>2, <1>4 DEF AInv, BooksOK
<1> QED
  BY <1>5, <1>6, <1>7 DEF BackOnce

LEMMA CancelKeeps ==
  ASSUME AInv, NEW r \in Requests, CommitCancel(r), UNCHANGED wired
  PROVE  Keeps
<1>1. /\ phase[r] = "commit" /\ job[r].kind \in {"cancel", "plain"} /\ Done(r)
      /\ PutBack(job[r]) /\ status' = [status EXCEPT ![job[r].i] = "cancelled"]
      /\ UNCHANGED <<heard, dead, total, edited, returned, refunds, slack>>
      /\ budget' = budget \/ (job[r].kind \in Pays /\ budget' = Spend(job[r]))
      /\ booked' = booked \/ booked' = booked \cup {Fact(job[r])}
  BY DEF CommitCancel, Ends, Pays
<1>2. Work' /\ budget' \in Rows /\ Room' /\ CapStep
  BY <1>1, CommitWork
<1>3. booked' \subseteq Facts /\ AuthorityKnows'
  BY <1>1, BookedKnown DEF Kinds
<1>4. StayStep /\ status' \in [Invoices -> Statuses]
  BY <1>1, StayKeeps DEF Kinds, Statuses
<1>5. BackOnce' /\ backs' \in [Lines -> Nat] /\ gone' \subseteq Lines /\ met' \subseteq Lines
  BY <1>1, PutBackKeeps
<1>6. BooksOK'
  BY <1>1, <1>2, <1>3, <1>4, <1>5 DEF AInv, BooksOK
<1>7. RefundedOnce'
  BY <1>1 DEF AInv, RefundedOnce
<1> QED
  BY <1>2, <1>3, <1>4, <1>5, <1>6, <1>7 DEF Keeps, AInv

LEMMA ItemKeeps ==
  ASSUME AInv, NEW r \in Requests, CommitItem(r), UNCHANGED wired
  PROVE  Keeps
<1>1. /\ phase[r] = "commit" /\ job[r].kind = "item" /\ Done(r)
      /\ PutBack(job[r]) /\ status' = [status EXCEPT ![job[r].i] = "partially_cancelled"]
      /\ UNCHANGED <<heard, dead, total, edited, returned, refunds, booked, budget, slack>>
  BY DEF CommitItem, Ends
<1>2. Work' /\ budget' \in Rows /\ Room' /\ CapStep
  BY <1>1, CommitWork
<1>3. booked' \subseteq Facts /\ AuthorityKnows'
  BY <1>1, BookedKnown DEF Kinds
<1>4. job[r].live
  BY <1>1 DEF AInv, Work, Fit, Shaped
<1>5. StayStep /\ status' \in [Invoices -> Statuses]
  BY <1>1, <1>4, StayKeeps DEF Kinds, Statuses, Accepted
<1>6. BackOnce' /\ backs' \in [Lines -> Nat] /\ gone' \subseteq Lines /\ met' \subseteq Lines
  BY <1>1, PutBackKeeps
<1>7. BooksOK'
  BY <1>1, <1>2, <1>3, <1>5, <1>6 DEF AInv, BooksOK
<1>8. RefundedOnce'
  BY <1>1 DEF AInv, RefundedOnce
<1> QED
  BY <1>2, <1>3, <1>5, <1>6, <1>7, <1>8 DEF Keeps, AInv

LEMMA EditKeeps ==
  ASSUME AInv, NEW r \in Requests, CommitEdit(r), UNCHANGED wired
  PROVE  Keeps
<1>1. /\ phase[r] = "commit" /\ job[r].kind = "edit" /\ job[r].kind \in Pays /\ Done(r)
      /\ edited' = edited \cup job[r].l
      /\ total' = [total EXCEPT ![job[r].i] = job[r].sum]
      /\ status' = [status EXCEPT ![job[r].i] = job[r].then]
      /\ budget' = Spend(job[r])
      /\ booked' = booked \cup {Fact(job[r])}
      /\ UNCHANGED <<heard, dead, gone, backs, returned, refunds, met, slack>>
  BY DEF CommitEdit, Ends, Pays
<1>2. Work' /\ budget' \in Rows /\ Room' /\ CapStep
  BY <1>1, CommitWork
<1>3. booked' \subseteq Facts /\ AuthorityKnows'
  BY <1>1, BookedKnown DEF Kinds
<1>4. job[r] \in Jobs /\ job[r].live
  BY <1>1 DEF AInv, Work, WorkOK, Fit, Shaped
<1>5. job[r].l \subseteq Lines /\ job[r].sum \in Nat /\ job[r].then \in Statuses
  BY <1>1, <1>4, JobType
<1>6. StayStep /\ status' \in [Invoices -> Statuses]
  BY <1>1, <1>4, <1>5, StayKeeps DEF Kinds
<1>7. edited' \subseteq Lines /\ total' \in [Invoices -> Nat]
  BY <1>1, <1>5 DEF AInv, BooksOK
<1>8. BooksOK'
  BY <1>1, <1>2, <1>3, <1>6, <1>7 DEF AInv, BooksOK
<1>9. RefundedOnce' /\ BackOnce'
  BY <1>1 DEF AInv, RefundedOnce, BackOnce
<1> QED
  BY <1>2, <1>3, <1>6, <1>8, <1>9 DEF Keeps, AInv

LEMMA ReturnKeeps ==
  ASSUME AInv, NEW r \in Requests, CommitReturn(r), UNCHANGED wired
  PROVE  Keeps
<1>1. /\ phase[r] = "commit" /\ job[r].kind \in Returning /\ Done(r)
      /\ job[r].kind \in Kinds /\ job[r].kind # "recompute"
      /\ UNCHANGED <<heard, dead, total, edited, backs, met, slack>>
      /\ budget' = budget \/ (job[r].kind \in Pays /\ budget' = Spend(job[r]))
      /\ booked' = booked \cup {Fact(job[r])}
  BY DEF CommitReturn, Ends, Pays, Returning, Kinds
<1>2. Work' /\ budget' \in Rows /\ Room' /\ CapStep
  BY <1>1, CommitWork
<1>3. booked' \subseteq Facts /\ AuthorityKnows'
  BY <1>1, BookedKnown
<1>4. job[r] \in Jobs /\ job[r].q # Nothing /\ \E u \in Uuids : job[r].u = {u}
  BY <1>1 DEF AInv, Work, WorkOK, Fit, Shaped
<1>5. PICK u \in Uuids : job[r].u = {u}
  BY <1>4
<1>6. job[r].q \in Carts
  BY <1>1, <1>4, JobType
<1>7. /\ returned[u] = Nothing
      /\ returned' = [returned EXCEPT ![u] = job[r].q]
      /\ refunds' = [refunds EXCEPT ![u] = refunds[u] + 1]
  BY <1>5 DEF CommitReturn, Fresh, AInv, BooksOK
<1>8. returned' \in [Uuids -> Carts] /\ refunds' \in [Uuids -> Nat]
  BY <1>6, <1>7 DEF AInv, BooksOK
<1>9. RefundedOnce'
  <2>1. refunds[u] = 0
    BY <1>7 DEF AInv, RefundedOnce
  <2>2. returned'[u] # Nothing /\ refunds'[u] = 1
    BY <1>4, <1>7, <2>1 DEF AInv, BooksOK
  <2> QED
    BY <1>7, <2>2 DEF AInv, BooksOK, RefundedOnce
<1>10. gone \subseteq gone' /\ gone' \subseteq Lines /\ gone' \subseteq gone \cup Full(job[r])
  BY DEF CommitReturn, Full, AInv, BooksOK
<1>11. StayStep /\ status' \in [Invoices -> Statuses]
  <2>1. CASE ~ job[r].live
    BY <2>1 DEF CommitReturn, StayStep, AInv, BooksOK
  <2>2. CASE job[r].live
    <3>1. PICK v \in Statuses : status' = [status EXCEPT ![job[r].i] = v]
      BY <2>2 DEF CommitReturn, Statuses, Accepted
    <3> QED
      BY <1>1, <2>2, <3>1, StayKeeps
  <2> QED
    BY <2>1, <2>2
<1>12. BackOnce'
  <2>1. \A w \in Uuids, l \in Lines : returned[w][l] = Sold => returned'[w][l] = Sold
    <3>1. \A l \in Lines : returned[u][l] # Sold
      BY <1>7, AmendAssumption DEF Nothing
    <3> QED
      BY <1>7, <3>1 DEF AInv, BooksOK
  <2>2. \A l \in Lines : l \in gone' \ gone => returned'[u][l] = Sold
    BY <1>7, <1>10 DEF Full, AInv, BooksOK
  <2> QED
    BY <1>1, <1>10, <2>1, <2>2 DEF AInv, BackOnce
<1>13. BooksOK'
  BY <1>1, <1>2, <1>3, <1>8, <1>10, <1>11 DEF AInv, BooksOK
<1> QED
  BY <1>2, <1>3, <1>9, <1>11, <1>12, <1>13 DEF Keeps, AInv

LEMMA PortalKeeps ==
  ASSUME AInv, NEW r \in Requests, CommitPortal(r), UNCHANGED wired
  PROVE  Keeps
<1>1. /\ phase[r] = "commit" /\ job[r].kind = "portal" /\ Done(r)
      /\ status' = [status EXCEPT ![job[r].i] = "cancelled"]
      /\ UNCHANGED <<heard, dead, total, gone, edited, backs, returned, refunds, booked, budget,
                     met, slack>>
  BY DEF CommitPortal, Ends
<1>2. Work' /\ budget' \in Rows /\ Room' /\ CapStep
  BY <1>1, CommitWork
<1>3. booked' \subseteq Facts /\ AuthorityKnows'
  BY <1>1, BookedKnown DEF Kinds
<1>4. StayStep /\ status' \in [Invoices -> Statuses]
  BY <1>1, StayKeeps DEF Kinds, Statuses
<1>5. BooksOK'
  BY <1>1, <1>2, <1>3, <1>4 DEF AInv, BooksOK
<1>6. RefundedOnce' /\ BackOnce'
  BY <1>1 DEF AInv, RefundedOnce, BackOnce
<1> QED
  BY <1>2, <1>3, <1>4, <1>5, <1>6 DEF Keeps, AInv

\* What a recomputation overlooks is what was consumed since it read the row.
LEMMA RecomputeKeeps ==
  ASSUME AInv, NEW r \in Requests, NEW b \in Budgets, CommitRecompute(r, b), UNCHANGED wired
  PROVE  Keeps
<1>1. /\ phase[r] = "commit" /\ job[r].kind = "recompute" /\ Done(r) /\ Unlocked
      /\ UNCHANGED <<heard, status, dead, total, gone, edited, backs, returned, refunds, booked,
                     met>>
      /\ slack' = budget.consumed - job[r].sum
  BY DEF CommitRecompute, Ends
<1>2. job[r] \in Jobs /\ Fit(r) /\ budget \in Rows
  BY <1>1 DEF AInv, Work, WorkOK, BooksOK
<1>3. job[r].sum \in Nat /\ job[r].sum <= budget.consumed /\ b \in Nat
  BY <1>1, <1>2, JobType, AmendAssumption DEF Fit
<1>4. budget.amount \in Nat /\ budget.consumed \in Nat /\ budget.remaining \in Nat
  BY <1>2 DEF Rows
<1> DEFINE m == IF b > job[r].sum THEN b - job[r].sum ELSE 0
<1>5. m \in Nat /\ (m > 0 => m = b - job[r].sum)
  BY <1>3
<1>6. budget' = [budget EXCEPT !.amount = b, !.remaining = m]
  BY DEF CommitRecompute
<1> HIDE DEF m
<1>7. /\ budget' \in Rows /\ budget'.amount = b /\ budget'.consumed = budget.consumed
      /\ budget'.remaining = m
  BY <1>2, <1>3, <1>5, <1>6 DEF Rows
<1>8. slack' \in Nat
  BY <1>1, <1>3, <1>4
<1>9. Room'
  BY <1>1, <1>3, <1>4, <1>5, <1>7 DEF Room
<1>10. CapStep
  BY <1>4, <1>7 DEF CapStep
<1>11. Work'
  <2>1. budget.consumed <= budget'.consumed /\ budget'.consumed \in Nat
    BY <1>4, <1>7
  <2> QED
    BY <1>1, <2>1, DoneKeeps
<1>12. AuthorityKnows'
  <2>1. \A x \in booked : Asks(x)' <=> Asks(x)
    BY DEF Asks
  <2> QED
    BY <1>1, <2>1 DEF AInv, AuthorityKnows
<1>13. BooksOK'
  BY <1>1, <1>7, <1>8 DEF AInv, BooksOK
<1>14. RefundedOnce' /\ BackOnce' /\ StayStep
  BY <1>1 DEF AInv, RefundedOnce, BackOnce, StayStep
<1> QED
  BY <1>9, <1>10, <1>11, <1>12, <1>13, <1>14 DEF Keeps, AInv

LEMMA StillKeeps ==
  ASSUME AInv, (\E i \in Invoices : DeadlinePasses(i)) \/ UNCHANGED <<books, heard, phase, job>>,
         UNCHANGED wired
  PROVE  Keeps
<1>1. /\ dead' \subseteq Invoices
      /\ UNCHANGED <<status, total, gone, edited, backs, returned, refunds, booked, budget, met,
                     slack, heard, phase, job>>
  BY DEF DeadlinePasses, books, AInv, BooksOK
<1>2. \A s \in Requests : phase'[s] # "idle" => Fit(s)'
  <2>1. budget.consumed <= budget'.consumed /\ budget'.consumed \in Nat
    BY <1>1 DEF AInv, BooksOK, Rows
  <2>2. \A s \in Requests : phase[s] # "idle" => Fit(s) /\ job[s] \in Jobs
    BY DEF AInv, Work, WorkOK
  <2> QED
    BY <1>1, <2>1, <2>2, FitStays
<1>3. WorkOK' /\ OneLock'
  BY <1>1 DEF AInv, Work, WorkOK, OneLock, Locks
<1>4. Work'
  BY <1>2, <1>3 DEF Work
<1> QED
  BY <1>1, <1>4, Same DEF AInv, BooksOK

-----------------------------------------------------------------------------
(* Theorems.                                                               *)

LEMMA StepKeeps == AInv /\ [Next]_vars => Keeps
<1> SUFFICES ASSUME AInv, [Next]_vars PROVE Keeps
  OBVIOUS
<1>1. UNCHANGED wired
  BY DEF Next, vars
<1>2. ASSUME NEW r \in Requests, Acts(r) PROVE Keeps
  <2>1. BooksOK
    BY DEF AInv
  <2>2. ASSUME NEW j \in Jobs, Start(r, j), Loaded(j) PROVE Keeps
    BY <1>1, <2>2, StartKeeps
  <2>3. CASE Reserve(r) \/ Ask(r) \/ ReadLines(r)
    BY <1>1, <2>3, ReserveKeeps, AskKeeps, ReadKeeps
  <2>4. CASE Abort(r)
    BY <1>1, <2>4, EndsAlone DEF Abort, AInv, BooksOK
  <2>5. CASE CommitCancel(r) \/ CommitItem(r) \/ CommitEdit(r) \/ CommitReturn(r)
    BY <1>1, <2>5, CancelKeeps, ItemKeeps, EditKeeps, ReturnKeeps
  <2>6. CASE CommitPortal(r) \/ \E b \in Budgets : CommitRecompute(r, b)
    BY <1>1, <2>6, PortalKeeps, RecomputeKeeps
  <2> QED
    BY <1>2, <2>1, <2>2, <2>3, <2>4, <2>5, <2>6, LoadIsStart DEF Acts
<1>3. CASE (\E i \in Invoices : DeadlinePasses(i)) \/ UNCHANGED vars
  BY <1>1, <1>3, StillKeeps DEF vars
<1> QED
  BY <1>2, <1>3 DEF Next

LEMMA Sound == Spec => []AInv
<1>1. AInv /\ [Next]_vars => AInv'
  BY StepKeeps DEF Keeps
<1> QED
  BY <1>1, InitAInv, PTL DEF Spec

\* The rows are always well typed: the budget never goes below zero and a status
\* is one that the rules know.
THEOREM TypeCorrect == Spec => []TypeOK
<1>1. AInv => TypeOK
  BY Types DEF AInv, Work
<1> QED
  BY <1>1, Sound, PTL

\* Whatever requests overlap, repeat and fail, a client_uuid is refunded once.
THEOREM OneRefund == Spec => []RefundedOnce
<1>1. AInv => RefundedOnce
  BY DEF AInv
<1> QED
  BY <1>1, Sound, PTL

\* Whatever requests overlap, and wherever they fail, budget is drawn on and credit
\* notes are kept only for what the authority has recorded, where the tokens and
\* connections of the invoice leave one to ask.
THEOREM NoHalfStateHere == Spec => []AuthorityKnows
<1>1. AInv => AuthorityKnows
  BY DEF AInv
<1> QED
  BY <1>1, Sound, PTL

\* Whatever overlaps, the month's budget caps what is drawn but for what its last
\* recomputation overlooked.
THEOREM BudgetCaps == Spec => CapHolds
<1>1. AInv /\ [Next]_vars => [CapStep]_vars
  BY StepKeeps DEF Keeps
<1> QED
  BY <1>1, Sound, PTL DEF Spec, CapHolds, CapStep

\* Nothing that begins after an invoice was cancelled revives it.
THEOREM CancelledForGood == Spec => StaysCancelled
<1>1. AInv /\ [Next]_vars => [StayStep]_vars
  BY StepKeeps DEF Keeps
<1> QED
  BY <1>1, Sound, PTL DEF Spec, StaysCancelled, StayStep

\* Cancelling lines and invoices in any order, at once or one after the other, puts each
\* line back once but for those that two have read before either marked them.
THEOREM LinesGoBackOnce == Spec => []BackOnce
<1>1. AInv => BackOnce
  BY DEF AInv
<1> QED
  BY <1>1, Sound, PTL
=============================================================================
