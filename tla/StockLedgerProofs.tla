-------------------------- MODULE StockLedgerProofs --------------------------
(***************************************************************************)
(* The stock ledger for any number of levels, documents and requests, any  *)
(* lines and any quantities.                                               *)
(***************************************************************************)
EXTENDS StockLedger, SequenceTheorems, FiniteSetTheorems, WellFoundedInduction, TLAPS

\* The draft of a level row that a request holds is the committed level plus the
\* movements it has written; it has written none to a row it does not hold.
InHand ==
    \A r \in Requests, k \in Keys :
        IF k \in held[r] THEN draft[r][k] = level[k] + rows[r][k] ELSE rows[r][k] = 0

\* The tables have a row for each document, and the requests a slot each.
Tables ==
    /\ off = [d \in Docs |-> off[d]] /\ got = [d \in Docs |-> got[d]]
    /\ net = [d \in Docs |-> net[d]]
    /\ todo = [r \in Requests |-> todo[r]] /\ count = [r \in Requests |-> count[r]]

LInv == TypeOK /\ Tables /\ RowsExclusive /\ InHand /\ LevelIsLedger

\* The lines of a document are well typed.
LEMMA LineType ==
  ASSUME NEW d \in Docs, NEW i \in LineNos(d)
  PROVE  Line[d][i] \in [at : Keys, to : Keys, qty : Int]
<1>1. Line[d] \in Seq([at : Keys, to : Keys, qty : Int])
  BY StockAssumption
<1>2. i \in 1 .. Len(Line[d])
  BY <1>1 DEF LineNos
<1> QED
  BY <1>1, <1>2, ElementOfSeq

\* So are the movements of a request's lines.
LEMMA MovementType ==
  ASSUME TypeOK, NEW r \in Requests, op[r] # "idle", NEW i \in todo[r]
  PROVE  /\ i \in LineNos(doc[r]) /\ doc[r] \in Docs
         /\ AtMove(r, i) \in Int /\ ToMove(r, i) \in Int
<1>1. i \in LineNos(doc[r]) /\ doc[r] \in Docs /\ count[r][i] \in Int
  BY DEF TypeOK
<1>2. Line[doc[r]][i].qty \in Int
  BY <1>1, LineType
<1> QED
  BY <1>1, <1>2 DEF AtMove, ToMove

LEMMA InitLInv == Init => LInv
BY StockAssumption DEF Init, LInv, Tables, TypeOK, RowsExclusive, InHand, LevelIsLedger, Statuses,
   LineNos, Nothing, Unmoved

\* What a request starts with.
LEMMA StartedType ==
  ASSUME NEW d \in Docs, NEW o \in Ops, NEW ls \in LinesOf(o, d), NEW c \in Counts(o, d)
  PROVE  ls \subseteq LineNos(d) /\ c \in [LineNos(d) -> Int]
<1>1. ls \subseteq LineNos(d)
  BY DEF LinesOf
<1>2. CASE o # "receive"
  BY <1>1, <1>2 DEF Counts
<1>3. CASE o = "receive"
  <2>1. PICK s \in Missing : c = [i \in LineNos(d) |-> Line[d][i].qty - s]
    BY <1>3 DEF Counts
  <2>2. \A i \in LineNos(d) : Line[d][i].qty \in Int
    BY LineType
  <2>3. s \in Int
    BY StockAssumption
  <2> QED
    BY <1>1, <2>1, <2>2, <2>3
<1> QED
  BY <1>2, <1>3

\* A movement written to a level row: the ledger's invariants survive, because
\* the row is held by nobody else.
LEMMA RecordKeeps ==
  ASSUME LInv, NEW r \in Requests, NEW k \in Keys, NEW q \in Int, Record(r, k, q),
         UNCHANGED <<level, ledger>>
  PROVE  /\ held' \in [Requests -> SUBSET Keys]
         /\ draft' \in [Requests -> [Keys -> Int]]
         /\ rows' \in [Requests -> [Keys -> Int]]
         /\ RowsExclusive' /\ InHand'
<1> USE DEF LInv
<1>0. /\ held' = [held EXCEPT ![r] = @ \cup {k}]
      /\ draft' = [draft EXCEPT ![r][k] = (IF k \in held[r] THEN @ ELSE level[k]) + q]
      /\ rows' = [rows EXCEPT ![r][k] = @ + q]
  BY DEF Record
<1>1. /\ held' \in [Requests -> SUBSET Keys]
      /\ draft' \in [Requests -> [Keys -> Int]]
      /\ rows' \in [Requests -> [Keys -> Int]]
  BY <1>0 DEF TypeOK
<1>2. RowsExclusive'
  BY <1>0 DEF Record, Free, RowsExclusive, TypeOK
<1>3. ASSUME NEW s \in Requests, NEW j \in Keys
      PROVE  IF j \in held'[s] THEN draft'[s][j] = level[j] + rows'[s][j] ELSE rows'[s][j] = 0
  <2>1. CASE s = r /\ j = k
    <3>1. k \in held'[r] /\ rows'[r][k] = rows[r][k] + q
          /\ draft'[r][k] = (IF k \in held[r] THEN draft[r][k] ELSE level[k]) + q
      BY <1>0 DEF TypeOK
    <3>2. (IF k \in held[r] THEN draft[r][k] ELSE level[k]) = level[k] + rows[r][k]
      BY DEF InHand, TypeOK
    <3> QED
      BY <2>1, <3>1, <3>2 DEF TypeOK
  <2>2. CASE s # r \/ j # k
    <3>1. /\ j \in held'[s] <=> j \in held[s]
          /\ draft'[s][j] = draft[s][j] /\ rows'[s][j] = rows[s][j]
      BY <1>0, <2>2 DEF TypeOK
    <3> QED
      BY <3>1 DEF InHand
  <2> QED
    BY <2>1, <2>2
<1>4. InHand'
  BY <1>3 DEF InHand
<1> QED
  BY <1>1, <1>2, <1>4

\* The end of a request, whichever it is, leaves a slot that holds nothing.
LEMMA ResetKeeps ==
  ASSUME LInv, NEW r \in Requests, Reset(r)
  PROVE  /\ op' \in [Requests -> Ops \cup {"idle"}] /\ doc' \in [Requests -> Docs]
         /\ \A s \in Requests : op'[s] # "idle" =>
                /\ op'[s] = op[s] /\ s # r
                /\ todo'[s] \subseteq LineNos(doc'[s])
                /\ count'[s] \in [LineNos(doc'[s]) -> Int]
         /\ step' \in [Requests -> Nat]
         /\ held' \in [Requests -> SUBSET Keys]
         /\ draft' \in [Requests -> [Keys -> Int]]
         /\ rows' \in [Requests -> [Keys -> Int]]
         /\ held'[r] = {} /\ rows'[r] = Nothing
         /\ \A s \in Requests \ {r} :
                held'[s] = held[s] /\ draft'[s] = draft[s] /\ rows'[s] = rows[s]
         /\ RowsExclusive'
<1> USE DEF LInv
<1>1. op' \in [Requests -> Ops \cup {"idle"}] /\ doc' \in [Requests -> Docs]
      /\ step' \in [Requests -> Nat]
  BY DEF Reset, TypeOK
<1>2. ASSUME NEW s \in Requests, op'[s] # "idle"
      PROVE  /\ op'[s] = op[s] /\ s # r
             /\ todo'[s] \subseteq LineNos(doc'[s])
             /\ count'[s] \in [LineNos(doc'[s]) -> Int]
  <2>1. s # r /\ op'[s] = op[s] /\ todo'[s] = todo[s] /\ count'[s] = count[s]
        /\ doc'[s] = doc[s]
    BY <1>2 DEF Reset, TypeOK
  <2> QED
    BY <1>2, <2>1 DEF TypeOK
<1>3. Nothing \in [Keys -> Int]
  BY DEF Nothing
<1>4. /\ held' \in [Requests -> SUBSET Keys]
      /\ draft' \in [Requests -> [Keys -> Int]]
      /\ rows' \in [Requests -> [Keys -> Int]]
      /\ held'[r] = {} /\ rows'[r] = Nothing
      /\ \A s \in Requests \ {r} :
             held'[s] = held[s] /\ draft'[s] = draft[s] /\ rows'[s] = rows[s]
  BY <1>3 DEF Reset, TypeOK
<1>5. RowsExclusive'
  BY <1>4 DEF RowsExclusive
<1> QED
  BY <1>1, <1>2, <1>4, <1>5

\* A commit: the drafts become levels and the rows become movements together,
\* and no other request's rows are touched.
LEMMA FinishKeeps ==
  ASSUME LInv, NEW r \in Requests, Finish(r)
  PROVE  /\ level' \in [Keys -> Int] /\ ledger' \in [Keys -> Int]
         /\ InHand' /\ LevelIsLedger'
<1> USE DEF LInv
<1>0. Reset(r) /\ level' = [k \in Keys |-> IF k \in held[r] THEN draft[r][k] ELSE level[k]]
      /\ ledger' = [k \in Keys |-> ledger[k] + rows[r][k]]
  BY DEF Finish
<1>1. \A k \in Keys : level'[k] = level[k] + rows[r][k]
  BY <1>0 DEF InHand, TypeOK
<1>2. level' \in [Keys -> Int] /\ ledger' \in [Keys -> Int]
  BY <1>0 DEF TypeOK
<1>3. LevelIsLedger'
  <2>1. \A k \in Keys : ledger'[k] = level'[k]
    BY <1>0, <1>1 DEF LevelIsLedger
  <2> QED
    BY <1>0, <2>1 DEF LevelIsLedger
<1>4. ASSUME NEW s \in Requests, NEW k \in Keys
      PROVE  IF k \in held'[s] THEN draft'[s][k] = level'[k] + rows'[s][k] ELSE rows'[s][k] = 0
  <2>1. CASE s = r
    BY <1>0, <2>1, ResetKeeps DEF Nothing
  <2>2. CASE s # r
    <3>1. held'[s] = held[s] /\ draft'[s] = draft[s] /\ rows'[s] = rows[s]
      BY <1>0, <2>2, ResetKeeps
    <3>2. k \in held[s] => level'[k] = level[k]
      BY <1>0, <2>2 DEF RowsExclusive
    <3> QED
      BY <3>1, <3>2 DEF InHand
  <2> QED
    BY <2>1, <2>2
<1>5. InHand'
  BY <1>4 DEF InHand
<1> QED
  BY <1>2, <1>3, <1>5

\* What a commit makes of the document.
LEMMA FinishType ==
  ASSUME LInv, NEW r \in Requests, Finish(r)
  PROVE  /\ status' \in [Docs -> Statuses]
         /\ Tables'
         /\ \A d \in Docs : /\ off'[d] \subseteq LineNos(d)
                            /\ got'[d] \in [LineNos(d) -> Int]
                            /\ net'[d] \in [LineNos(d) -> [at : Int, to : Int]]
<1> DEFINE e == doc[r]
           done == off[e] \cup (IF op[r] \in {"void", "unsell"} THEN todo[r] ELSE {})
<1> USE DEF LInv
<1>0. /\ op[r] \in Ops /\ e \in Docs /\ op[r] # "idle"
      /\ todo[r] \subseteq LineNos(e) /\ count[r] \in [LineNos(e) -> Int]
  BY DEF Finish, TypeOK
<1>1. Outcome(op[r], e, done) \in Statuses
  BY <1>0 DEF Outcome, Ops, Statuses
<1>2. status' \in [Docs -> Statuses]
  BY <1>0, <1>1 DEF Finish, TypeOK
<1>3. ASSUME NEW d \in Docs, d # e
      PROVE  /\ off'[d] \subseteq LineNos(d) /\ got'[d] \in [LineNos(d) -> Int]
             /\ net'[d] \in [LineNos(d) -> [at : Int, to : Int]]
  <2>1. off'[d] = off[d] /\ got'[d] = got[d] /\ net'[d] = net[d]
    BY <1>0, <1>3 DEF Finish
  <2> QED
    BY <2>1 DEF TypeOK
<1>4. off'[e] \subseteq LineNos(e)
  BY <1>0 DEF Finish, TypeOK
<1>5. got'[e] \in [LineNos(e) -> Int]
  BY <1>0 DEF Finish, TypeOK
<1>6. net'[e] \in [LineNos(e) -> [at : Int, to : Int]]
  <2>1. ASSUME NEW i \in LineNos(e)
        PROVE  (IF i \in todo[r] THEN [at |-> net[e][i].at + AtMove(r, i),
                                       to |-> net[e][i].to + ToMove(r, i)]
                ELSE net[e][i]) \in [at : Int, to : Int]
    <3>1. net[e][i] \in [at : Int, to : Int]
      BY <1>0 DEF TypeOK
    <3> QED
      BY <1>0, <3>1, MovementType
  <2>2. net'[e] = [i \in LineNos(e) |->
                     IF i \in todo[r] THEN [at |-> net[e][i].at + AtMove(r, i),
                                            to |-> net[e][i].to + ToMove(r, i)]
                     ELSE net[e][i]]
    BY <1>0 DEF Finish, TypeOK, Tables
  <2> HIDE DEF e
  <2> QED
    BY <2>1, <2>2
<1>7. Tables'
  <2>1. /\ off' = [off EXCEPT ![e] = off'[e]] /\ got' = [got EXCEPT ![e] = got'[e]]
        /\ net' = [net EXCEPT ![e] = net'[e]]
    BY <1>0 DEF Finish, Tables
  <2> QED
    BY <1>0, <2>1 DEF Tables, Finish, Reset
<1> QED
  BY <1>2, <1>3, <1>4, <1>5, <1>6, <1>7

\* The history names requests and documents.
LEMMA HistoryType ==
  ASSUME TypeOK, [Next]_vars
  PROVE  stale' \subseteq Requests /\ raced' \subseteq Docs
<1>1. stale \subseteq Requests /\ raced \subseteq Docs /\ doc \in [Requests -> Docs]
  BY DEF TypeOK
<1>2. ASSUME NEW r \in Requests, Finish(r) PROVE stale' \subseteq Requests /\ raced' \subseteq Docs
  BY <1>1, <1>2 DEF Finish
<1>3. ASSUME NEW r \in Requests, Abort(r) PROVE stale' \subseteq Requests /\ raced' \subseteq Docs
  BY <1>1, <1>3 DEF Abort
<1>4. ASSUME NEW r \in Requests, Post(r) PROVE UNCHANGED history
  BY <1>4 DEF Post
<1>5. ASSUME NEW r \in Requests, NEW d \in Docs, NEW o \in Ops,
             NEW ls \in LinesOf(o, d), NEW c \in Counts(o, d), Start(r, d, o, ls, c)
      PROVE  UNCHANGED history
  BY <1>5 DEF Start
<1>6. UNCHANGED vars => UNCHANGED history
  BY DEF vars
<1> QED
  BY <1>1, <1>2, <1>3, <1>4, <1>5, <1>6 DEF Next, history

LEMMA StepLInv == LInv /\ [Next]_vars => LInv'
<1> SUFFICES ASSUME LInv, [Next]_vars PROVE LInv'
  OBVIOUS
<1> USE DEF LInv
<1>0. stale' \subseteq Requests /\ raced' \subseteq Docs
  BY HistoryType
<1>1. ASSUME NEW r \in Requests, NEW d \in Docs, NEW o \in Ops,
             NEW ls \in LinesOf(o, d), NEW c \in Counts(o, d), Start(r, d, o, ls, c)
      PROVE  LInv'
  <2>1. ls \subseteq LineNos(d) /\ c \in [LineNos(d) -> Int]
    BY StartedType
  <2>2. UNCHANGED <<documents, level, ledger, held, draft, rows>>
        /\ op' = [op EXCEPT ![r] = o] /\ doc' = [doc EXCEPT ![r] = d]
        /\ todo' = [todo EXCEPT ![r] = ls] /\ count' = [count EXCEPT ![r] = c]
        /\ step' = [step EXCEPT ![r] = 0]
    BY <1>1 DEF Start
  <2>3. /\ op' \in [Requests -> Ops \cup {"idle"}] /\ doc' \in [Requests -> Docs]
        /\ step' \in [Requests -> Nat]
    BY <2>2 DEF TypeOK
  <2>4. ASSUME NEW s \in Requests, op'[s] # "idle"
        PROVE  /\ todo'[s] \subseteq LineNos(doc'[s])
               /\ count'[s] \in [LineNos(doc'[s]) -> Int]
    <3>1. CASE s = r
      <4>1. todo'[s] = ls /\ count'[s] = c /\ doc'[s] = d
        BY <2>2, <3>1 DEF TypeOK, Tables
      <4> QED
        BY <2>1, <4>1
    <3>2. CASE s # r
      <4>1. op'[s] = op[s] /\ doc'[s] = doc[s] /\ todo'[s] = todo[s] /\ count'[s] = count[s]
        BY <2>2, <3>2 DEF TypeOK
      <4> QED
        BY <2>4, <4>1 DEF TypeOK
    <3> QED
      BY <3>1, <3>2
  <2>5. TypeOK'
    BY <1>0, <2>2, <2>3, <2>4 DEF TypeOK, documents
  <2>6. Tables'
    BY <2>2 DEF documents, Tables
  <2> QED
    BY <2>2, <2>5, <2>6 DEF RowsExclusive, InHand, LevelIsLedger
<1>2. ASSUME NEW r \in Requests, Post(r) PROVE LInv'
  <2>1. /\ op[r] # "idle" /\ step' = [step EXCEPT ![r] = @ + 1]
        /\ UNCHANGED <<documents, level, ledger, op, doc, todo, count>>
    BY <1>2 DEF Post
  <2>2. step' \in [Requests -> Nat]
    BY <2>1 DEF TypeOK
  <2>3. CASE UNCHANGED <<held, draft, rows>>
    BY <1>0, <2>1, <2>2, <2>3 DEF TypeOK, Tables, RowsExclusive, InHand, LevelIsLedger, documents
  <2>4. ASSUME NEW i \in todo[r], NEW k \in Keys, NEW q \in Int, Record(r, k, q)
        PROVE  LInv'
    BY <1>0, <2>1, <2>2, <2>4, RecordKeeps DEF TypeOK, Tables, LevelIsLedger, documents
  <2>5. PICK i, side, q : /\ \/ UNCHANGED <<held, draft, rows>>
                             \/ i \in todo[r] /\ Record(r, IF side = "to"
                                    THEN Line[doc[r]][i].to ELSE Line[doc[r]][i].at, q)
                          /\ q = IF side = "to" THEN ToMove(r, i) ELSE AtMove(r, i)
    BY <1>2 DEF Post
  <2>6. CASE i \in todo[r]
    <3>1. (IF side = "to" THEN Line[doc[r]][i].to ELSE Line[doc[r]][i].at) \in Keys
      BY <2>1, <2>6, MovementType, LineType
    <3>2. q \in Int
      BY <2>1, <2>5, <2>6, MovementType
    <3> QED
      BY <2>3, <2>4, <2>5, <2>6, <3>1, <3>2
  <2> QED
    BY <2>3, <2>5, <2>6
<1>3. ASSUME NEW r \in Requests, Finish(r) PROVE LInv'
  <2>1. Reset(r)
    BY <1>3 DEF Finish
  <2> QED
    BY <1>0, <1>3, <2>1, ResetKeeps, FinishKeeps, FinishType DEF TypeOK
<1>4. ASSUME NEW r \in Requests, Abort(r) PROVE LInv'
  <2>1. Reset(r) /\ UNCHANGED <<documents, level, ledger>>
    BY <1>4 DEF Abort
  <2>2. InHand'
    <3>1. ASSUME NEW s \in Requests, NEW k \in Keys
          PROVE  IF k \in held'[s] THEN draft'[s][k] = level'[k] + rows'[s][k]
                 ELSE rows'[s][k] = 0
      <4>1. CASE s = r
        BY <2>1, <4>1, ResetKeeps DEF Nothing
      <4>2. CASE s # r
        <5>1. held'[s] = held[s] /\ draft'[s] = draft[s] /\ rows'[s] = rows[s]
          BY <2>1, <4>2, ResetKeeps
        <5> QED
          BY <2>1, <5>1 DEF InHand
      <4> QED
        BY <4>1, <4>2
    <3> QED
      BY <3>1 DEF InHand
  <2>3. Tables'
    BY <2>1 DEF documents, Tables, Reset
  <2> QED
    BY <1>0, <2>1, <2>2, <2>3, ResetKeeps DEF TypeOK, LevelIsLedger, documents
<1>5. CASE UNCHANGED vars
  BY <1>0, <1>5 DEF vars, documents, TypeOK, Tables, RowsExclusive, InHand, LevelIsLedger
<1> QED
  BY <1>1, <1>2, <1>3, <1>4, <1>5 DEF Next

LEMMA Ledgers == Spec => []LInv
BY InitLInv, StepLInv, PTL DEF Spec

\* The state is always well typed: in particular a status is one of those that
\* the services know, and a request's lines are lines of its document.
THEOREM TypeCorrect == Spec => []TypeOK
<1>1. LInv => TypeOK
  BY DEF LInv
<1> QED
  BY <1>1, Ledgers, PTL

\* record_movement keeps the level equal to its movements whatever requests
\* interleave, roll back or submit a document twice: because a level row is
\* written by one transaction at a time, from the level that is committed.
THEOREM LevelIsTheLedger == Spec => []LevelIsLedger
<1>1. LInv => LevelIsLedger
  BY DEF LInv
<1> QED
  BY <1>1, Ledgers, PTL

-----------------------------------------------------------------------------
(* Documents and their movements.                                          *)

\* A request whose document nobody has written since is still allowed what it does;
\* and only a sale that was cancelled line by line has lines off.
AtWork ==
    /\ \A r \in Requests : op[r] # "idle" /\ r \notin stale /\ doc[r] \notin raced =>
           Allows(op[r], doc[r]) /\ todo[r] \in LinesOf(op[r], doc[r])
    /\ \A d \in Docs \ raced :
           /\ off[d] # {} => status[d] \in {"partly", "voided"}
           /\ Kind[d] = "receipt" => status[d] \in {"draft", "posted"}

DInv == TypeOK /\ Tables /\ AtWork /\ DocumentsExplainStock

LEMMA InitDInv == LInv /\ Init => DInv
BY StockAssumption DEF Init, LInv, DInv, AtWork, DocumentsExplainStock, Owed, Unmoved, LineNos

\* The movements of a request that ends well turn what the old status of the
\* document explained into what the new one explains.
LEMMA FinishExplains ==
  ASSUME DInv, NEW r \in Requests, Finish(r), NEW i \in LineNos(doc[r]),
         r \notin stale, doc[r] \notin raced
  PROVE  net'[doc[r]][i] = Owed(doc[r], i)'
<1> DEFINE d == doc[r]
           q == Line[d][i].qty
           done == off[d] \cup (IF op[r] \in {"void", "unsell"} THEN todo[r] ELSE {})
<1> USE DEF DInv
<1>1. /\ d \in Docs /\ op[r] \in Ops /\ op[r] # "idle"
      /\ todo[r] \subseteq LineNos(d) /\ count[r][i] \in Int
      /\ net[d][i] \in [at : Int, to : Int] /\ got[d][i] \in Int
      /\ status[d] \in Statuses
  BY DEF Finish, TypeOK
<1>2. q \in Int
  BY <1>1, LineType
<1>3. Allows(op[r], d) /\ todo[r] \in LinesOf(op[r], d)
  BY <1>1 DEF AtWork
<1>4. /\ off[d] # {} => status[d] \in {"partly", "voided"}
      /\ Kind[d] = "receipt" => status[d] \in {"draft", "posted"}
  BY <1>1 DEF AtWork
<1>5. net[d][i] = Owed(d, i)
  BY <1>1 DEF DocumentsExplainStock
<1>6. /\ status'[d] = Outcome(op[r], d, done) /\ off'[d] = done
      /\ got'[d] = IF op[r] = "receive" THEN count[r] ELSE got[d]
      /\ net'[d][i] = IF i \in todo[r] THEN [at |-> net[d][i].at + AtMove(r, i),
                                             to |-> net[d][i].to + ToMove(r, i)]
                      ELSE net[d][i]
  BY <1>1 DEF Finish, TypeOK, Tables
<1>7. /\ AtMove(r, i) = (CASE op[r] = "receive" -> count[r][i] - q
                          [] op[r] \in {"dispatch", "sell"} -> - q
                          [] OTHER -> q)
      /\ ToMove(r, i) = IF op[r] = "receive" THEN count[r][i] ELSE 0
  BY DEF AtMove, ToMove
<1>8. Owed(d, i)' = (CASE status'[d] = "dispatched" -> [at |-> - q, to |-> 0]
         [] status'[d] = "received" -> [at |-> (got'[d][i] - q) - q, to |-> got'[d][i]]
         [] status'[d] \in {"posted", "finalized"} -> [at |-> q, to |-> 0]
         [] status'[d] \in {"sold", "partly", "voided"} /\ i \notin off'[d] ->
                [at |-> - q, to |-> 0]
         [] OTHER -> Unmoved)
  BY <1>1, <1>2 DEF Owed, Finish, Reset
<1> HIDE DEF d, q, done
<1>9. Kind[d] \in {"transfer", "receipt", "audit", "sale"}
  BY <1>1, StockAssumption
<1>10. CASE op[r] = "receive"
  <2>1. status[d] = "dispatched" /\ i \in todo[r] /\ status'[d] = "received"
        /\ got'[d] = count[r]
    BY <1>3, <1>6, <1>10 DEF Allows, LinesOf, Outcome, d
  <2>2. net[d][i] = [at |-> - q, to |-> 0]
    BY <1>5, <2>1 DEF Owed, q
  <2>3. Owed(d, i)' = [at |-> (count[r][i] - q) - q, to |-> count[r][i]]
    BY <1>8, <2>1
  <2>4. AtMove(r, i) = count[r][i] - q /\ ToMove(r, i) = count[r][i]
    BY <1>7, <1>10
  <2>5. net'[d][i] = [at |-> (- q) + (count[r][i] - q), to |-> 0 + count[r][i]]
    BY <1>6, <2>1, <2>2, <2>4
  <2> QED
    BY <1>1, <1>2, <2>3, <2>5 DEF d
<1>11. CASE op[r] \in {"dispatch", "sell", "post", "finalize"}
  <2>1. i \in todo[r] /\ status[d] \in {"draft", "posted"} /\ off[d] = {} /\ done = {}
        /\ (status[d] = "posted" => op[r] # "post")
    BY <1>3, <1>4, <1>9, <1>11 DEF Allows, LinesOf, done, d
  <2>2. net[d][i] = Unmoved
    BY <1>3, <1>5, <1>11, <2>1 DEF Owed, Allows
  <2>3. AtMove(r, i) = (IF op[r] \in {"dispatch", "sell"} THEN - q ELSE q) /\ ToMove(r, i) = 0
    BY <1>7, <1>11
  <2>4. Owed(d, i)' = [at |-> IF op[r] \in {"dispatch", "sell"} THEN - q ELSE q, to |-> 0]
    BY <1>6, <1>8, <1>11, <2>1 DEF Outcome
  <2>5. net'[d][i] = [at |-> 0 + AtMove(r, i), to |-> 0 + ToMove(r, i)]
    BY <1>6, <2>1, <2>2 DEF Unmoved
  <2> QED
    BY <1>1, <1>2, <2>3, <2>4, <2>5 DEF d
<1>12. CASE op[r] = "cancel"
  <2>1. status[d] = "draft" /\ todo[r] = {} /\ status'[d] = "cancelled"
    BY <1>3, <1>6, <1>12 DEF Allows, LinesOf, Outcome
  <2>2. net'[d][i] = net[d][i] /\ net[d][i] = Unmoved
    BY <1>5, <1>6, <2>1 DEF Owed
  <2> QED
    BY <1>8, <2>1, <2>2 DEF d
<1>13. CASE op[r] = "discard"
  <2>1. status[d] = "sold" /\ off[d] = {} /\ i \in todo[r] /\ status'[d] = "discarded"
    BY <1>3, <1>4, <1>6, <1>13 DEF Allows, LinesOf, Outcome, d
  <2>2. net[d][i] = [at |-> - q, to |-> 0]
    BY <1>5, <2>1 DEF Owed, q
  <2>3. AtMove(r, i) = q /\ ToMove(r, i) = 0
    BY <1>7, <1>13
  <2>4. net'[d][i] = [at |-> (- q) + q, to |-> 0 + 0]
    BY <1>6, <2>1, <2>2, <2>3
  <2>5. Owed(d, i)' = Unmoved
    BY <1>8, <2>1
  <2> QED
    BY <1>2, <2>4, <2>5 DEF Unmoved, d
<1>14. CASE op[r] \in {"void", "unsell"}
  <2>1. status[d] \in {"sold", "partly"} /\ todo[r] \cap off[d] = {}
        /\ done = off[d] \cup todo[r] /\ status'[d] \in {"partly", "voided"}
    BY <1>3, <1>6, <1>14 DEF Allows, LinesOf, Outcome, done, d
  <2>2. AtMove(r, i) = q /\ ToMove(r, i) = 0
    BY <1>7, <1>14
  <2>3. CASE i \in todo[r]
    <3>1. net[d][i] = [at |-> - q, to |-> 0]
      BY <1>5, <2>1, <2>3 DEF Owed, q
    <3>2. net'[d][i] = [at |-> (- q) + q, to |-> 0 + 0]
      BY <1>6, <2>2, <2>3, <3>1
    <3>3. Owed(d, i)' = Unmoved
      BY <1>6, <1>8, <2>1, <2>3
    <3> QED
      BY <1>2, <3>2, <3>3 DEF Unmoved, d
  <2>4. CASE i \notin todo[r]
    <3>1. net'[d][i] = net[d][i] /\ (i \in off'[d] <=> i \in off[d])
      BY <1>6, <2>1, <2>4
    <3>2. Owed(d, i)' = Owed(d, i)
      BY <1>8, <2>1, <3>1 DEF Owed, q
    <3> QED
      BY <1>5, <3>1, <3>2 DEF d
  <2> QED
    BY <2>3, <2>4
<1> QED
  BY <1>1, <1>10, <1>11, <1>12, <1>13, <1>14 DEF Ops

\* What a document owes depends on its own row.
LEMMA SameRow ==
  ASSUME NEW d \in Docs, status'[d] = status[d], off'[d] = off[d], got'[d] = got[d]
  PROVE  \A i \in LineNos(d) : Owed(d, i)' = Owed(d, i)
<1> SUFFICES ASSUME NEW i \in LineNos(d) PROVE Owed(d, i)' = Owed(d, i)
  OBVIOUS
<1> DEFINE q == Line[d][i].qty
<1>1. Owed(d, i) = (CASE status[d] = "dispatched" -> [at |-> - q, to |-> 0]
         [] status[d] = "received" -> [at |-> (got[d][i] - q) - q, to |-> got[d][i]]
         [] status[d] \in {"posted", "finalized"} -> [at |-> q, to |-> 0]
         [] status[d] \in {"sold", "partly", "voided"} /\ i \notin off[d] ->
                [at |-> - q, to |-> 0]
         [] OTHER -> Unmoved)
  BY DEF Owed
<1>2. Owed(d, i)' = (CASE status'[d] = "dispatched" -> [at |-> - q, to |-> 0]
         [] status'[d] = "received" -> [at |-> (got'[d][i] - q) - q, to |-> got'[d][i]]
         [] status'[d] \in {"posted", "finalized"} -> [at |-> q, to |-> 0]
         [] status'[d] \in {"sold", "partly", "voided"} /\ i \notin off'[d] ->
                [at |-> - q, to |-> 0]
         [] OTHER -> Unmoved)
  BY DEF Owed
<1> QED
  BY <1>1, <1>2

\* While documents and operations stay, so does what is at work.
LEMMA SameWork ==
  ASSUME AtWork, UNCHANGED <<documents, op, doc, todo, history>> PROVE AtWork'
<1>1. \A d, o : (Allows(o, d)' <=> Allows(o, d)) /\ LinesOf(o, d)' = LinesOf(o, d)
  BY DEF documents, Allows, LinesOf, LineNos
<1>2. /\ op' = op /\ doc' = doc /\ todo' = todo /\ status' = status /\ off' = off
      /\ stale' = stale /\ raced' = raced
  BY DEF documents, history
<1> QED
  BY <1>1, <1>2 DEF AtWork

LEMMA StepDInv ==
  ASSUME LInv, DInv, [Next]_vars
  PROVE  DInv'
<1> USE DEF DInv
<1>0. LInv'
  BY StepLInv
<1>1. ASSUME NEW r \in Requests, NEW d \in Docs, NEW o \in Ops,
             NEW ls \in LinesOf(o, d), NEW c \in Counts(o, d), Start(r, d, o, ls, c)
      PROVE  AtWork' /\ DocumentsExplainStock'
  <2>1. UNCHANGED documents /\ UNCHANGED history /\ Allows(o, d)
        /\ op' = [op EXCEPT ![r] = o] /\ doc' = [doc EXCEPT ![r] = d]
        /\ todo' = [todo EXCEPT ![r] = ls]
    BY <1>1 DEF Start
  <2>2. ASSUME NEW s \in Requests
        PROVE  /\ op'[s] = IF s = r THEN o ELSE op[s]
               /\ doc'[s] = IF s = r THEN d ELSE doc[s]
               /\ todo'[s] = IF s = r THEN ls ELSE todo[s]
    BY <2>1 DEF TypeOK, Tables
  <2>3. \A e \in Docs, p \in Ops :
            (Allows(p, e)' <=> Allows(p, e)) /\ LinesOf(p, e)' = LinesOf(p, e)
    BY <2>1 DEF documents, Allows, LinesOf, LineNos
  <2>4. stale' = stale /\ raced' = raced
    BY <2>1 DEF history
  <2>5. AtWork'
    <3>1. ASSUME NEW s \in Requests, op'[s] # "idle", s \notin stale, doc'[s] \notin raced
          PROVE  (Allows(op[s], doc[s]) /\ todo[s] \in LinesOf(op[s], doc[s]))'
      <4>1. CASE s = r
        BY <2>1, <2>2, <2>3, <4>1
      <4>2. CASE s # r
        <5>1. Allows(op[s], doc[s]) /\ todo[s] \in LinesOf(op[s], doc[s])
          BY <2>2, <3>1, <4>2 DEF AtWork
        <5>2. op'[s] \in Ops /\ doc'[s] \in Docs
          BY <2>2, <3>1, <4>2 DEF TypeOK
        <5> QED
          BY <2>2, <2>3, <4>2, <5>1, <5>2
      <4> QED
        BY <4>1, <4>2
    <3> QED
      BY <2>1, <2>4, <3>1 DEF AtWork, documents
  <2>6. DocumentsExplainStock'
    BY <2>1, <2>4 DEF DocumentsExplainStock, Owed, documents
  <2> QED
    BY <2>5, <2>6
<1>2. ASSUME NEW r \in Requests, Post(r) PROVE AtWork' /\ DocumentsExplainStock'
  <2>1. UNCHANGED <<documents, op, doc, todo, history>>
    BY <1>2 DEF Post
  <2>2. AtWork'
    BY <2>1, SameWork
  <2>3. DocumentsExplainStock'
    BY <2>1, SameRow DEF documents, history, DocumentsExplainStock, LineNos
  <2> QED
    BY <2>2, <2>3
<1>3. ASSUME NEW r \in Requests, Reset(r), op[r] # "idle",
             \A d \in Docs \ {doc[r]} : /\ status'[d] = status[d] /\ off'[d] = off[d]
                                       /\ got'[d] = got[d] /\ net'[d] = net[d],
             raced \subseteq raced',
             \A s \in Requests \ {r} : s \notin stale' => s \notin stale,
             \A s \in Requests \ {r} :
                 op[s] # "idle" /\ doc[s] = doc[r] /\ s \notin stale' =>
                     status'[doc[r]] = status[doc[r]] /\ off'[doc[r]] = off[doc[r]],
             \A d \in Docs \ raced' : /\ off'[d] # {} => status'[d] \in {"partly", "voided"}
                                      /\ Kind[d] = "receipt" => status'[d] \in {"draft", "posted"},
             doc[r] \notin raced' => \A i \in LineNos(doc[r]) : net'[doc[r]][i] = Owed(doc[r], i)'
      PROVE  AtWork' /\ DocumentsExplainStock'
  <2>1. ASSUME NEW s \in Requests, op'[s] # "idle"
        PROVE  /\ s # r /\ op'[s] = op[s] /\ doc'[s] = doc[s] /\ todo'[s] = todo[s]
               /\ doc[s] \in Docs
    BY <1>3, <2>1 DEF Reset, TypeOK, Tables
  <2>2. ASSUME NEW s \in Requests, op'[s] # "idle", s \notin stale', doc'[s] \notin raced'
        PROVE  (Allows(op[s], doc[s]) /\ todo[s] \in LinesOf(op[s], doc[s]))'
    <3>1. status'[doc[s]] = status[doc[s]] /\ off'[doc[s]] = off[doc[s]]
      BY <1>3, <2>1, <2>2
    <3>2. Allows(op[s], doc[s]) /\ todo[s] \in LinesOf(op[s], doc[s])
      BY <1>3, <2>1, <2>2 DEF AtWork
    <3> QED
      BY <2>1, <2>2, <3>1, <3>2 DEF Allows, LinesOf, LineNos
  <2>3. AtWork'
    BY <1>3, <2>2 DEF AtWork
  <2>4. ASSUME NEW d \in Docs, d \notin raced', NEW i \in LineNos(d)
        PROVE  net'[d][i] = Owed(d, i)'
    <3>1. CASE d = doc[r]
      <4>1. doc' = doc
        BY <1>3 DEF Reset
      <4>2. net'[doc[r]][i] = Owed(doc[r], i)'
        BY <1>3, <2>4, <3>1
      <4> QED
        BY <3>1, <4>1, <4>2 DEF Owed
    <3>2. CASE d # doc[r]
      <4>1. Owed(d, i)' = Owed(d, i) /\ net'[d] = net[d]
        BY <1>3, <2>4, <3>2, SameRow
      <4>2. d \notin raced
        BY <1>3, <2>4
      <4> QED
        BY <2>4, <4>1, <4>2 DEF DocumentsExplainStock
    <3> QED
      BY <3>1, <3>2
  <2> QED
    BY <2>3, <2>4 DEF DocumentsExplainStock, LineNos
<1>4. ASSUME NEW r \in Requests, Finish(r) PROVE AtWork' /\ DocumentsExplainStock'
  <2>1. /\ Reset(r) /\ op[r] # "idle" /\ doc[r] \in Docs
        /\ op[r] \in Ops
        /\ stale' = (stale \cup {s \in Requests : op[s] # "idle" /\ doc[s] = doc[r]}) \ {r}
        /\ raced' = IF r \in stale THEN raced \cup {doc[r]} ELSE raced
    BY <1>4 DEF Finish, TypeOK
  <2>2. \A d \in Docs \ {doc[r]} : /\ status'[d] = status[d] /\ off'[d] = off[d]
                                   /\ got'[d] = got[d] /\ net'[d] = net[d]
    BY <1>4, <2>1 DEF Finish, TypeOK, Tables
  <2>3. ASSUME doc[r] \notin raced'
        PROVE  /\ off'[doc[r]] # {} => status'[doc[r]] \in {"partly", "voided"}
               /\ Kind[doc[r]] = "receipt" => status'[doc[r]] \in {"draft", "posted"}
    <3>0. r \notin stale /\ doc[r] \notin raced
      BY <2>1, <2>3
    <3>1. Allows(op[r], doc[r]) /\ (off[doc[r]] # {} => status[doc[r]] \in {"partly", "voided"})
      BY <2>1, <3>0 DEF AtWork
    <3>2. LET done == off[doc[r]] \cup (IF op[r] \in {"void", "unsell"} THEN todo[r] ELSE {})
          IN  status'[doc[r]] = Outcome(op[r], doc[r], done) /\ off'[doc[r]] = done
      BY <1>4, <2>1 DEF Finish, TypeOK, Tables
    <3>3. op[r] \in {"void", "unsell"} => /\ Kind[doc[r]] = "sale"
                                         /\ status'[doc[r]] \in {"partly", "voided"}
      BY <2>1, <3>1, <3>2 DEF Allows, Outcome
    <3>4. op[r] \notin {"void", "unsell"} =>
              \/ off'[doc[r]] = off[doc[r]] /\ status[doc[r]] \notin {"partly", "voided"}
              \/ Kind[doc[r]] = "receipt"
      BY <2>1, <3>1, <3>2 DEF Allows, Ops
    <3>5. Kind[doc[r]] = "receipt" => op[r] = "post" /\ status'[doc[r]] = "posted"
      BY <2>1, <3>1, <3>2 DEF Allows, Outcome
    <3>6. Kind[doc[r]] = "receipt" => off'[doc[r]] = off[doc[r]] /\ status[doc[r]] \in {"draft", "posted"}
      BY <2>1, <3>0, <3>2, <3>5 DEF AtWork
    <3> QED
      BY <3>1, <3>3, <3>4, <3>5, <3>6
  <2>4. \A d \in Docs \ raced' : /\ off'[d] # {} => status'[d] \in {"partly", "voided"}
                                 /\ Kind[d] = "receipt" => status'[d] \in {"draft", "posted"}
    <3> SUFFICES ASSUME NEW d \in Docs, d \notin raced'
                 PROVE  /\ off'[d] # {} => status'[d] \in {"partly", "voided"}
                        /\ Kind[d] = "receipt" => status'[d] \in {"draft", "posted"}
      OBVIOUS
    <3>1. CASE d = doc[r]
      BY <2>3, <3>1
    <3>2. CASE d # doc[r]
      <4>1. d \notin raced /\ status'[d] = status[d] /\ off'[d] = off[d]
        BY <2>1, <2>2, <3>2
      <4> QED
        BY <4>1 DEF AtWork
    <3> QED
      BY <3>1, <3>2
  <2>5. doc[r] \notin raced' => \A i \in LineNos(doc[r]) : net'[doc[r]][i] = Owed(doc[r], i)'
    BY <1>4, <2>1, FinishExplains
  <2>6. raced \subseteq raced' /\ \A s \in Requests \ {r} : s \notin stale' => s \notin stale
    BY <2>1
  <2>7. \A s \in Requests \ {r} : op[s] # "idle" /\ doc[s] = doc[r] => s \in stale'
    BY <2>1
  <2> QED
    BY <1>3, <2>1, <2>2, <2>4, <2>5, <2>6, <2>7
<1>5. ASSUME NEW r \in Requests, Abort(r) PROVE AtWork' /\ DocumentsExplainStock'
  <2>1. Reset(r) /\ op[r] # "idle" /\ UNCHANGED documents /\ doc[r] \in Docs
        /\ raced' = raced /\ stale' = stale \ {r}
    BY <1>5 DEF Abort, TypeOK
  <2>2. doc[r] \notin raced' => \A i \in LineNos(doc[r]) : net'[doc[r]][i] = Owed(doc[r], i)'
    <3>1. doc' = doc
      BY <2>1 DEF Reset
    <3> QED
      BY <2>1, <3>1 DEF documents, DocumentsExplainStock, Owed
  <2>3. status' = status /\ off' = off /\ got' = got /\ net' = net
    BY <2>1 DEF documents
  <2>4. \A d \in Docs \ raced' : /\ off'[d] # {} => status'[d] \in {"partly", "voided"}
                                 /\ Kind[d] = "receipt" => status'[d] \in {"draft", "posted"}
    BY <2>1, <2>3 DEF AtWork
  <2>5. \A s \in Requests \ {r} : s \notin stale' => s \notin stale
    BY <2>1
  <2> QED
    BY <1>3, <2>1, <2>2, <2>3, <2>4, <2>5
<1>6. ASSUME UNCHANGED vars PROVE AtWork' /\ DocumentsExplainStock'
  <2>1. AtWork'
    BY <1>6, SameWork DEF vars, documents, history
  <2>2. DocumentsExplainStock'
    BY <1>6, SameRow DEF vars, documents, history, DocumentsExplainStock, LineNos
  <2> QED
    BY <2>1, <2>2
<1>7. AtWork' /\ DocumentsExplainStock'
  BY <1>1, <1>2, <1>4, <1>5, <1>6 DEF Next
<1> QED
  BY <1>0, <1>7 DEF LInv

\* However many requests work on one document, many documents share a level and
\* whichever requests fail, the movements of a document are those its status claims,
\* until a request writes it that read its status before another wrote it.
THEOREM DocumentsExplain == Spec => []DocumentsExplainStock
<1>1. Init => LInv /\ DInv
  BY InitLInv, InitDInv
<1>2. LInv /\ DInv /\ [Next]_vars => (LInv /\ DInv)'
  BY StepLInv, StepDInv
<1>3. LInv /\ DInv => DocumentsExplainStock
  BY DEF DInv
<1> QED
  BY <1>1, <1>2, <1>3, PTL DEF Spec

-----------------------------------------------------------------------------
(* Sums over finite sets                                                   *)

\* A set of natural numbers that is not empty has a least element.
LEMMA LeastExists ==
  ASSUME NEW N \in SUBSET Nat, N # {}
  PROVE  \E n \in N : \A m \in N : ~(m < n)
<1>1. PICK n \in N : \A m \in N : ~(<<m, n>> \in OpToRel(<, Nat))
  BY NatLessThanWellFounded, WFMin
<1> QED
  BY <1>1 DEF OpToRel

\* Induction over the subsets of a finite set: what a set has if the sets with one
\* element less have it, all sets have.
LEMMA FiniteInduction ==
  ASSUME NEW S, IsFiniteSet(S), NEW G,
         \A s \in SUBSET S : (\A x \in s : s \ {x} \in G) => s \in G
  PROVE  \A s \in SUBSET S : s \in G
<1> DEFINE B == {s \in SUBSET S : s \notin G}
           N == {Cardinality(s) : s \in B}
<1>1. \A s \in SUBSET S : IsFiniteSet(s) /\ Cardinality(s) \in Nat
  BY FS_Subset, FS_CardinalityType
<1> SUFFICES ASSUME B # {}
             PROVE  FALSE
  OBVIOUS
<1>2. PICK n \in N : \A m \in N : ~(m < n)
  <2>1. N \in SUBSET Nat /\ N # {}
    BY <1>1
  <2> HIDE DEF N
  <2> QED
    BY <2>1, LeastExists
<1>3. PICK s \in B : n = Cardinality(s)
  OBVIOUS
<1>4. \A x \in s : s \ {x} \in G
  <2> SUFFICES ASSUME NEW x \in s, s \ {x} \in B
               PROVE  FALSE
    OBVIOUS
  <2>1. Cardinality(s \ {x}) = Cardinality(s) - 1
    BY <1>1, FS_RemoveElement
  <2>2. Cardinality(s \ {x}) \in N
    OBVIOUS
  <2>3. ~(Cardinality(s \ {x}) < n) /\ Cardinality(s) \in Nat
    BY <1>1, <1>2, <2>2
  <2> QED
    BY <1>3, <2>1, <2>3
<1> QED
  BY <1>3, <1>4

\* The element that the fold takes first.
Pick(s) == CHOOSE x \in s : TRUE

LEMMA PickIn == \A s : s # {} => Pick(s) \in s
BY DEF Pick

\* What the fold's recursive function has to satisfy.
Folded(f, S, t) ==
    t = [s \in SUBSET S |-> IF s = {} THEN 0 ELSE f[Pick(s)] + t[s \ {Pick(s)}]]

LEMMA TotalIs ==
  ASSUME NEW f, NEW S
  PROVE  Total(f, S) = (CHOOSE t : Folded(f, S, t))[S]
BY DEF Total, MapThenSumSet, MapThenFoldSet, Folded, Pick

\* There is such a function: for the empty set, and with it for sets of one more.
LEMMA FoldExists ==
  ASSUME NEW f, NEW S, IsFiniteSet(S)
  PROVE  \E t : Folded(f, S, t)
<1> DEFINE Sub(n) == {s \in SUBSET S : Cardinality(s) <= n}
           V(t, s) == IF s = {} THEN 0 ELSE f[Pick(s)] + t[s \ {Pick(s)}]
           Good(n) == \E t : t = [s \in Sub(n) |-> V(t, s)]
           Bad == {n \in Nat : ~Good(n)}
<1>1. \A s \in SUBSET S : /\ IsFiniteSet(s) /\ Cardinality(s) \in Nat
                          /\ Cardinality(s) = 0 <=> s = {}
  BY FS_Subset, FS_CardinalityType, FS_EmptySet
<1>2. Good(0)
  <2> DEFINE t == [s \in Sub(0) |-> 0]
  <2>1. \A s \in Sub(0) : s = {}
    BY <1>1
  <2>2. t = [s \in Sub(0) |-> V(t, s)]
    BY <2>1
  <2> QED
    BY <2>2
<1>3. ASSUME NEW n \in Nat, Good(n)
      PROVE  Good(n + 1)
  <2>1. PICK t : t = [s \in Sub(n) |-> V(t, s)]
    BY <1>3
  <2> DEFINE u == [s \in Sub(n + 1) |-> V(t, s)]
  <2>2. \A s \in Sub(n + 1) : s # {} => s \ {Pick(s)} \in Sub(n)
    <3> SUFFICES ASSUME NEW s \in Sub(n + 1), s # {}
                 PROVE  Cardinality(s \ {Pick(s)}) <= n
      OBVIOUS
    <3>1. Cardinality(s \ {Pick(s)}) = Cardinality(s) - 1
      BY <1>1, FS_RemoveElement, PickIn
    <3> QED
      BY <1>1, <3>1
  <2>3. \A s \in Sub(n) : s \in Sub(n + 1) /\ u[s] = t[s]
    <3> SUFFICES ASSUME NEW s \in Sub(n)
                 PROVE  s \in Sub(n + 1) /\ u[s] = t[s]
      OBVIOUS
    <3>1. s \in Sub(n + 1)
      BY <1>1
    <3>2. t[s] = V(t, s)
      BY <2>1
    <3> QED
      BY <3>1, <3>2
  <2>4. \A s \in Sub(n + 1) : V(u, s) = V(t, s)
    BY <2>2, <2>3
  <2>5. u = [s \in Sub(n + 1) |-> V(u, s)]
    BY <2>4
  <2> QED
    BY <2>5
<1>4. Bad = {}
  <2> SUFFICES ASSUME Bad # {}
               PROVE  FALSE
    OBVIOUS
  <2> HIDE DEF Good
  <2>1. PICK n \in Bad : \A m \in Bad : ~(m < n)
    BY LeastExists
  <2>2. n # 0 /\ n - 1 \in Nat
    BY <1>2
  <2>3. Good(n - 1)
    BY <2>1, <2>2
  <2>4. Good(n - 1 + 1)
    BY <1>3, <2>2, <2>3
  <2> QED
    BY <2>4
<1>5. Good(Cardinality(S))
  BY <1>1, <1>4
<1>6. Sub(Cardinality(S)) = SUBSET S
  BY FS_Subset, FS_CardinalityType
<1> QED
  BY <1>5, <1>6 DEF Folded

\* A fold over a subset is what the function of the whole set says of it.
LEMMA OneFunction ==
  ASSUME NEW f, NEW S, IsFiniteSet(S), NEW t, Folded(f, S, t), NEW T \in SUBSET S
  PROVE  Total(f, T) = t[T]
<1>0. IsFiniteSet(T)
  BY FS_Subset
<1>1. PICK u : Folded(f, T, u) /\ Total(f, T) = u[T]
  BY <1>0, FoldExists, TotalIs
<1> DEFINE G == {s \in SUBSET T : u[s] = t[s]}
<1>2. ASSUME NEW s \in SUBSET T, \A x \in s : s \ {x} \in G
      PROVE  s \in G
  <2>1. /\ u[s] = IF s = {} THEN 0 ELSE f[Pick(s)] + u[s \ {Pick(s)}]
        /\ t[s] = IF s = {} THEN 0 ELSE f[Pick(s)] + t[s \ {Pick(s)}]
    BY <1>1 DEF Folded
  <2>2. CASE s = {}
    BY <2>1, <2>2
  <2>3. CASE s # {}
    BY <1>2, <2>1, <2>3, PickIn
  <2> QED
    BY <2>2, <2>3
<1>3. \A s \in SUBSET T : s \in G
  <2> HIDE DEF G
  <2> QED
    BY <1>0, <1>2, FiniteInduction
<1> QED
  BY <1>1, <1>3

\* The sum over a finite set of integers: the first element's and the rest's.
LEMMA TotalStep ==
  ASSUME NEW f, NEW S, IsFiniteSet(S)
  PROVE  /\ Total(f, {}) = 0
         /\ S # {} => Pick(S) \in S /\ Total(f, S) = f[Pick(S)] + Total(f, S \ {Pick(S)})
<1>1. PICK t : Folded(f, S, t)
  BY FoldExists
<1>2. \A s \in SUBSET S : t[s] = IF s = {} THEN 0 ELSE f[Pick(s)] + t[s \ {Pick(s)}]
  BY <1>1 DEF Folded
<1>3. \A s \in SUBSET S : Total(f, s) = t[s]
  BY <1>1, OneFunction
<1>4. Total(f, {}) = 0
  BY <1>2, <1>3
<1>5. ASSUME S # {}
      PROVE  Pick(S) \in S /\ Total(f, S) = f[Pick(S)] + Total(f, S \ {Pick(S)})
  <2>1. Pick(S) \in S /\ S \ {Pick(S)} \in SUBSET S /\ S \in SUBSET S
    BY <1>5, PickIn
  <2> QED
    BY <1>2, <1>3, <1>5, <2>1
<1> QED
  BY <1>4, <1>5

LEMMA TotalType ==
  ASSUME NEW f, NEW S, IsFiniteSet(S), \A x \in S : f[x] \in Int
  PROVE  Total(f, S) \in Int
<1> DEFINE G == {s \in SUBSET S : Total(f, s) \in Int}
<1>1. ASSUME NEW s \in SUBSET S, \A x \in s : s \ {x} \in G
      PROVE  s \in G
  <2>1. IsFiniteSet(s)
    BY FS_Subset
  <2>2. /\ s = {} => Total(f, s) = 0
        /\ s # {} => Pick(s) \in s /\ Total(f, s) = f[Pick(s)] + Total(f, s \ {Pick(s)})
    BY <2>1, TotalStep
  <2> QED
    BY <1>1, <2>2
<1>2. \A s \in SUBSET S : s \in G
  <2> HIDE DEF G
  <2> QED
    BY <1>1, FiniteInduction
<1> QED
  BY <1>2

\* The sum does not depend on which element is taken first.
LEMMA TotalRemove ==
  ASSUME NEW f, NEW S, IsFiniteSet(S), \A x \in S : f[x] \in Int, NEW e \in S
  PROVE  Total(f, S) = f[e] + Total(f, S \ {e})
<1> DEFINE Holds(s) == \A x \in s : Total(f, s) = f[x] + Total(f, s \ {x})
           G == {s \in SUBSET S : Holds(s)}
<1>0. \A s \in SUBSET S : IsFiniteSet(s) /\ Total(f, s) \in Int
  BY FS_Subset, TotalType
<1>1. ASSUME NEW s \in SUBSET S, \A x \in s : s \ {x} \in G
      PROVE  s \in G
  <2> SUFFICES ASSUME NEW x \in s
               PROVE  Total(f, s) = f[x] + Total(f, s \ {x})
    OBVIOUS
  <2> DEFINE y == Pick(s)
  <2>1. y \in s /\ Total(f, s) = f[y] + Total(f, s \ {y})
    BY <1>0, TotalStep
  <2> HIDE DEF y
  <2>2. CASE x = y
    BY <2>1, <2>2
  <2>3. CASE x # y
    <3>1. Holds(s \ {y}) /\ Holds(s \ {x}) /\ x \in s \ {y} /\ y \in s \ {x}
      BY <1>1, <2>1, <2>3
    <3>2. Total(f, s \ {y}) = f[x] + Total(f, (s \ {y}) \ {x})
      BY <3>1
    <3>3. Total(f, s \ {x}) = f[y] + Total(f, (s \ {x}) \ {y})
      BY <3>1
    <3>4. (s \ {x}) \ {y} = (s \ {y}) \ {x} /\ (s \ {x}) \ {y} \in SUBSET S
      OBVIOUS
    <3>5. f[x] \in Int /\ f[y] \in Int /\ Total(f, (s \ {x}) \ {y}) \in Int
      BY <1>0, <2>1, <3>4
    <3>6. PICK rest \in Int : /\ Total(f, (s \ {x}) \ {y}) = rest
                              /\ Total(f, (s \ {y}) \ {x}) = rest
      BY <3>4, <3>5
    <3>7. Total(f, s) = f[y] + (f[x] + rest) /\ Total(f, s \ {x}) = f[y] + rest
      BY <2>1, <3>2, <3>3, <3>6
    <3> QED
      BY <3>5, <3>7
  <2> QED
    BY <2>2, <2>3
<1>2. \A s \in SUBSET S : s \in G
  <2> HIDE DEF G
  <2> QED
    BY <1>1, FiniteInduction
<1> QED
  BY <1>2

\* Sums add up.
LEMMA TotalAdds ==
  ASSUME NEW f, NEW g, NEW h, NEW S, IsFiniteSet(S),
         \A x \in S : f[x] \in Int /\ g[x] \in Int /\ h[x] = f[x] + g[x]
  PROVE  Total(h, S) = Total(f, S) + Total(g, S)
<1> DEFINE G == {s \in SUBSET S : Total(h, s) = Total(f, s) + Total(g, s)}
<1>0. \A s \in SUBSET S : IsFiniteSet(s) /\ Total(f, s) \in Int /\ Total(g, s) \in Int
  BY FS_Subset, TotalType
<1>1. ASSUME NEW s \in SUBSET S, \A x \in s : s \ {x} \in G
      PROVE  s \in G
  <2>1. CASE s = {}
    <3>1. Total(f, {}) = 0 /\ Total(g, {}) = 0 /\ Total(h, {}) = 0
      BY TotalStep
    <3> QED
      BY <2>1, <3>1
  <2>2. CASE s # {}
    <3>1. PICK x \in s : x = Pick(s)
      BY <2>2, PickIn
    <3>2. /\ Total(h, s) = h[x] + Total(h, s \ {x})
          /\ Total(f, s) = f[x] + Total(f, s \ {x})
          /\ Total(g, s) = g[x] + Total(g, s \ {x})
      BY <1>0, <2>2, <3>1, TotalStep
    <3>3. /\ Total(h, s \ {x}) = Total(f, s \ {x}) + Total(g, s \ {x})
          /\ Total(f, s \ {x}) \in Int /\ Total(g, s \ {x}) \in Int
          /\ h[x] = f[x] + g[x] /\ f[x] \in Int /\ g[x] \in Int
      BY <1>0, <1>1
    <3> QED
      BY <3>2, <3>3
  <2> QED
    BY <2>1, <2>2
<1>2. \A s \in SUBSET S : s \in G
  <2> HIDE DEF G
  <2> QED
    BY <1>1, FiniteInduction
<1> QED
  BY <1>2

\* The sum of nothing but zeros, and of the same numbers.
LEMMA TotalZero ==
  ASSUME NEW f, NEW S, IsFiniteSet(S), \A x \in S : f[x] = 0
  PROVE  Total(f, S) = 0
<1>1. Total(f, S) = Total(f, S) + Total(f, S)
  BY TotalAdds
<1> QED
  BY <1>1, TotalType

LEMMA TotalSame ==
  ASSUME NEW f, NEW g, NEW S, IsFiniteSet(S), \A x \in S : f[x] \in Int /\ g[x] = f[x]
  PROVE  Total(g, S) = Total(f, S)
<1> DEFINE z == [x \in S |-> 0]
<1>1. Total(g, S) = Total(f, S) + Total(z, S)
  BY TotalAdds
<1>2. Total(z, S) = 0
  BY TotalZero
<1> QED
  BY <1>1, <1>2, TotalType

\* One of the numbers changes.
LEMMA TotalChanges ==
  ASSUME NEW f, NEW g, NEW S, IsFiniteSet(S), \A x \in S : f[x] \in Int,
         NEW e \in S, NEW q \in Int, g[e] = f[e] + q, \A x \in S \ {e} : g[x] = f[x]
  PROVE  Total(g, S) = Total(f, S) + q
<1>1. IsFiniteSet(S \ {e})
  BY FS_RemoveElement
<1>2. Total(g, S \ {e}) = Total(f, S \ {e}) /\ Total(f, S \ {e}) \in Int
  BY <1>1, TotalSame, TotalType
<1>3. Total(f, S) = f[e] + Total(f, S \ {e}) /\ Total(g, S) = g[e] + Total(g, S \ {e})
  BY TotalRemove
<1> QED
  BY <1>2, <1>3

-----------------------------------------------------------------------------
(* Levels and documents                                                    *)

\* When the loop comes to a place, and the movement it makes there.
Turn(p) == IF p[3] = "to" THEN 2 * p[2] - 1 ELSE 2 * p[2]
Move(r, p) == IF p[3] = "to" THEN ToMove(r, p[2]) ELSE AtMove(r, p[2])

\* What a request has written so far, place by place.
Posted(r) ==
    [p \in Places |->
        IF op[r] # "idle" /\ p[1] = doc[r] /\ p[2] \in todo[r] /\ Turn(p) <= step[r]
          THEN Move(r, p) ELSE 0]

\* The movements of a request are what it has posted, and the ledger of a level is
\* its opening balance and the movements of all documents.
RowsAddUp ==
    \A r \in Requests, k \in Keys : rows[r][k] = Total(Posted(r), PlacesOf(k))
LedgerAddsUp ==
    \A k \in Keys : ledger[k] = Opening[k] + Total(Moved, PlacesOf(k))

\* What a place is.
LEMMA PlaceFacts ==
  ASSUME NEW p \in Places
  PROVE  /\ p[1] \in Docs /\ p[2] \in LineNos(p[1]) /\ p[2] \in Nat /\ p[2] > 0
         /\ p[3] \in {"at", "to"} /\ p = <<p[1], p[2], p[3]>>
         /\ Line[p[1]][p[2]][p[3]] \in Keys
<1>1. PICK d \in Docs : p \in {d} \X LineNos(d) \X {"at", "to"}
  BY DEF Places
<1>2. p[1] = d /\ p[2] \in LineNos(d) /\ p[3] \in {"at", "to"} /\ p = <<p[1], p[2], p[3]>>
  BY <1>1
<1>3. LineNos(d) = 1 .. Len(Line[d]) /\ Len(Line[d]) \in Nat
  BY StockAssumption DEF LineNos
<1>4. Line[d][p[2]].at \in Keys /\ Line[d][p[2]].to \in Keys
  BY <1>2, LineType
<1>5. Line[p[1]][p[2]][p[3]] \in Keys
  BY <1>2, <1>4
<1> QED
  BY <1>2, <1>3, <1>5

LEMMA IsPlace ==
  ASSUME NEW d \in Docs, NEW i \in LineNos(d), NEW s \in {"at", "to"}
  PROVE  <<d, i, s>> \in Places
BY DEF Places

\* The image of a finite set is finite.
LEMMA ImageIsFinite ==
  ASSUME NEW S, IsFiniteSet(S), NEW f, f = [x \in S |-> f[x]]
  PROVE  IsFiniteSet({f[x] : x \in S})
<1> DEFINE T == {f[x] : x \in S}
<1>1. f \in [S -> T] /\ \A y \in T : \E x \in S : f[x] = y
  OBVIOUS
<1>2. f \in Surjection(S, T)
  BY <1>1 DEF Surjection
<1> HIDE DEF T
<1>3. IsFiniteSet(T)
  BY <1>2, FS_Surjection
<1> QED
  BY <1>3 DEF T

\* Finitely many documents have finitely many places.
LEMMA PlacesAreFinite ==
  ASSUME IsFiniteSet(Docs)
  PROVE  IsFiniteSet(Places) /\ \A k \in Keys : IsFiniteSet(PlacesOf(k)) /\ PlacesOf(k) \subseteq Places
<1> DEFINE f == [d \in Docs |-> {d} \X LineNos(d) \X {"at", "to"}]
<1>1. ASSUME NEW d \in Docs
      PROVE  IsFiniteSet(f[d])
  <2> DEFINE S == LineNos(d) \X {"at", "to"}
             g == [x \in S |-> <<d, x[1], x[2]>>]
  <2>1. LineNos(d) = 1 .. Len(Line[d]) /\ Len(Line[d]) \in Nat
    BY StockAssumption DEF LineNos
  <2>2. IsFiniteSet(LineNos(d))
    BY <2>1, FS_Interval
  <2>3. IsFiniteSet({"at", "to"})
    <3>1. IsFiniteSet({"at"}) /\ {"at", "to"} = {"at"} \cup {"to"}
      BY FS_Singleton
    <3> QED
      BY <3>1, FS_AddElement
  <2>4. IsFiniteSet(S)
    BY <2>2, <2>3, FS_Product
  <2>5. IsFiniteSet({g[x] : x \in S})
    <3> HIDE DEF S
    <3> QED
      BY <2>4, ImageIsFinite
  <2>6. f[d] \subseteq {g[x] : x \in S}
    <3> SUFFICES ASSUME NEW p \in {d} \X LineNos(d) \X {"at", "to"}
                 PROVE  p \in {g[x] : x \in S}
      OBVIOUS
    <3>1. <<p[2], p[3]>> \in S /\ p = g[<<p[2], p[3]>>]
      OBVIOUS
    <3> QED
      BY <3>1
  <2> QED
    BY <2>5, <2>6, FS_Subset
<1>2. IsFiniteSet({f[d] : d \in Docs})
  <2>1. f = [d \in Docs |-> f[d]]
    OBVIOUS
  <2> HIDE DEF f
  <2> QED
    BY <2>1, ImageIsFinite
<1>3. Places = UNION {f[d] : d \in Docs}
  BY DEF Places
<1>4. IsFiniteSet(Places)
  BY <1>1, <1>2, <1>3, FS_UNION
<1>5. \A k \in Keys : PlacesOf(k) \in SUBSET Places
  BY DEF PlacesOf
<1> QED
  BY <1>4, <1>5, FS_Subset

\* What is summed are integers.
LEMMA SummandsType ==
  ASSUME TypeOK, NEW p \in Places
  PROVE  Moved[p] \in Int /\ \A r \in Requests : Posted(r)[p] \in Int
<1>1. p[1] \in Docs /\ p[2] \in LineNos(p[1]) /\ p[3] \in {"at", "to"}
  BY PlaceFacts
<1>2. net[p[1]][p[2]] \in [at : Int, to : Int]
  BY <1>1 DEF TypeOK
<1>3. Moved[p] \in Int
  BY <1>1, <1>2 DEF Moved
<1>4. ASSUME NEW r \in Requests
      PROVE  Posted(r)[p] \in Int
  <2>1. CASE op[r] # "idle" /\ p[2] \in todo[r]
    BY <2>1, MovementType DEF Posted, Move
  <2>2. CASE ~(op[r] # "idle" /\ p[2] \in todo[r])
    BY <2>2 DEF Posted
  <2> QED
    BY <2>1, <2>2
<1> QED
  BY <1>3, <1>4

\* A request posts nothing while it is idle or before its first movement.
LEMMA NothingPosted ==
  ASSUME IsFiniteSet(Docs), NEW r \in Requests, op[r] = "idle" \/ step[r] = 0, NEW k \in Keys
  PROVE  Total(Posted(r), PlacesOf(k)) = 0
<1>1. ASSUME NEW p \in Places
      PROVE  Posted(r)[p] = 0
  <2>1. Turn(p) > 0 /\ Turn(p) \in Nat
    BY PlaceFacts DEF Turn
  <2> QED
    BY <2>1 DEF Posted
<1> QED
  BY <1>1, PlacesAreFinite, TotalZero

\* A request of which nothing changes has posted what it had.
LEMMA SamePosted ==
  ASSUME NEW r \in Requests, op'[r] = op[r], doc'[r] = doc[r], todo'[r] = todo[r],
         count'[r] = count[r], step'[r] = step[r]
  PROVE  Posted(r)' = Posted(r)
BY DEF Posted, Turn, Move, AtMove, ToMove

LEMMA InitSums == IsFiniteSet(Docs) /\ Init => RowsAddUp /\ LedgerAddsUp
<1> SUFFICES ASSUME IsFiniteSet(Docs), Init
             PROVE  RowsAddUp /\ LedgerAddsUp
  OBVIOUS
<1>1. RowsAddUp
  BY NothingPosted DEF Init, RowsAddUp, Nothing
<1>2. ASSUME NEW p \in Places
      PROVE  Moved[p] = 0
  BY <1>2, PlaceFacts DEF Init, Moved, Unmoved
<1>3. \A k \in Keys : Total(Moved, PlacesOf(k)) = 0 /\ Opening[k] \in Int
  BY <1>2, PlacesAreFinite, TotalZero, StockAssumption
<1> QED
  BY <1>1, <1>3 DEF Init, LedgerAddsUp

\* A movement of the loop is one place more, and one row more at its level.
LEMMA PostAddsUp ==
  ASSUME IsFiniteSet(Docs), LInv, RowsAddUp, NEW r \in Requests, Post(r), NEW k \in Keys
  PROVE  rows'[r][k] = Total(Posted(r)', PlacesOf(k))
<1> USE DEF LInv
<1> DEFINE i == Moving(r)[1]
           side == Moving(r)[2]
           l == Line[doc[r]][i]
           q == IF side = "to" THEN ToMove(r, i) ELSE AtMove(r, i)
           at == IF side = "to" THEN l.to ELSE l.at
<1>0. /\ op[r] # "idle" /\ Looping(r) /\ step' = [step EXCEPT ![r] = step[r] + 1]
      /\ UNCHANGED <<documents, level, ledger, op, doc, todo, count>>
      /\ \/ (i \notin todo[r] \/ q = 0) /\ UNCHANGED <<held, draft, rows>>
         \/ i \in todo[r] /\ q # 0 /\ Record(r, at, q)
  BY DEF Post
<1>1. /\ step[r] \in Nat /\ step'[r] = step[r] + 1 /\ doc[r] \in Docs
      /\ todo[r] \subseteq LineNos(doc[r])
  BY <1>0 DEF TypeOK
<1>2. /\ i \in Nat /\ side \in {"at", "to"}
      /\ side = "to" => 2 * i - 1 = step[r] + 1
      /\ side = "at" => 2 * i = step[r] + 1
  BY <1>1 DEF Moving
<1> DEFINE e == <<doc[r], i, side>>
<1>3. e[1] = doc[r] /\ e[2] = i /\ e[3] = side
  OBVIOUS
<1>4. \A p \in Places : p[1] = doc[r] => (Turn(p) = step[r] + 1 <=> p = e)
  <2> SUFFICES ASSUME NEW p \in Places, p[1] = doc[r]
               PROVE  Turn(p) = step[r] + 1 <=> p = e
    OBVIOUS
  <2>1. p[2] \in Nat /\ p[3] \in {"at", "to"} /\ p = <<p[1], p[2], p[3]>>
    BY PlaceFacts
  <2> QED
    BY <1>1, <1>2, <2>1 DEF Turn
<1>5. \A p \in Places : Turn(p) \in Nat
  BY PlaceFacts DEF Turn
<1>6. ASSUME NEW p \in Places
      PROVE  Posted(r)'[p] = IF p = e /\ i \in todo[r] THEN q ELSE Posted(r)[p]
  <2>1. Move(r, p)' = Move(r, p)
    BY <1>0 DEF Move, AtMove, ToMove
  <2>2. CASE p = e
    <3>1. Turn(p) = step[r] + 1 /\ p[1] = doc[r] /\ p[2] = i /\ Move(r, p) = q
      BY <1>3, <1>4, <2>2 DEF Move
    <3> QED
      BY <1>0, <1>1, <2>1, <2>2, <3>1 DEF Posted
  <2>3. CASE p # e
    <3>1. p[1] = doc[r] => (Turn(p) <= step[r] + 1 <=> Turn(p) <= step[r])
      BY <1>1, <1>4, <1>5, <2>3
    <3> QED
      BY <1>0, <1>1, <2>1, <2>3, <3>1 DEF Posted
  <2> QED
    BY <2>2, <2>3
<1>7. e \in Places => Posted(r)[e] = 0
  BY <1>1, <1>3, <1>4 DEF Posted
<1>8. \A p \in PlacesOf(k) : Posted(r)[p] \in Int /\ p \in Places
  BY SummandsType DEF PlacesOf
<1>9. IsFiniteSet(PlacesOf(k)) /\ rows[r][k] = Total(Posted(r), PlacesOf(k))
  BY PlacesAreFinite DEF RowsAddUp
<1>10. CASE (i \notin todo[r] \/ q = 0) /\ UNCHANGED <<held, draft, rows>>
  <2>1. \A p \in PlacesOf(k) : Posted(r)'[p] = Posted(r)[p]
    BY <1>6, <1>7, <1>8, <1>10
  <2>2. Total(Posted(r)', PlacesOf(k)) = Total(Posted(r), PlacesOf(k))
    BY <1>8, <1>9, <2>1, TotalSame
  <2> QED
    BY <1>9, <1>10, <2>2
<1>11. CASE i \in todo[r] /\ q # 0 /\ Record(r, at, q)
  <2>1. /\ q \in Int /\ e \in Places /\ at = Line[e[1]][e[2]][e[3]]
        /\ e \in PlacesOf(k) <=> at = k
    <3>1. q \in Int
      BY <1>0, <1>11, MovementType
    <3>2. e \in Places
      BY <1>1, <1>2, <1>11, IsPlace
    <3>3. at = Line[e[1]][e[2]][e[3]]
      BY <1>2
    <3> QED
      BY <3>1, <3>2, <3>3 DEF PlacesOf
  <2>2. rows'[r][k] = IF k = at THEN rows[r][k] + q ELSE rows[r][k]
    BY <1>11 DEF Record, TypeOK
  <2>3. CASE k = at
    <3>1. Posted(r)'[e] = Posted(r)[e] + q
      BY <1>6, <1>7, <1>11, <2>1
    <3>2. \A p \in PlacesOf(k) \ {e} : Posted(r)'[p] = Posted(r)[p]
      BY <1>6, <1>8
    <3>3. e \in PlacesOf(k) /\ q \in Int
      BY <2>1, <2>3
    <3>4. \A p \in PlacesOf(k) : Posted(r)[p] \in Int
      BY <1>8
    <3>5. Total(Posted(r)', PlacesOf(k)) = Total(Posted(r), PlacesOf(k)) + q
      <4> DEFINE f == Posted(r)
                 g == Posted(r)'
                 S == PlacesOf(k)
      <4>1. /\ IsFiniteSet(S) /\ e \in S /\ q \in Int /\ \A x \in S : f[x] \in Int
            /\ g[e] = f[e] + q /\ \A x \in S \ {e} : g[x] = f[x]
        BY <1>9, <3>1, <3>2, <3>3, <3>4
      <4> HIDE DEF e, q, f, g, S
      <4>2. Total(g, S) = Total(f, S) + q
        BY <4>1, TotalChanges
      <4> QED
        BY <4>2 DEF f, g, S
    <3> QED
      BY <1>9, <2>2, <2>3, <3>5
  <2>4. CASE k # at
    <3>1. \A p \in PlacesOf(k) : Posted(r)'[p] = Posted(r)[p]
      BY <1>6, <1>8, <2>1, <2>4
    <3>2. Total(Posted(r)', PlacesOf(k)) = Total(Posted(r), PlacesOf(k))
      BY <1>8, <1>9, <3>1, TotalSame
    <3> QED
      BY <1>9, <2>2, <2>4, <3>2
  <2> QED
    BY <2>3, <2>4
<1> QED
  BY <1>0, <1>10, <1>11

\* Another request's movement leaves a request's own as they were.
LEMMA PostLeaves ==
  ASSUME IsFiniteSet(Docs), LInv, RowsAddUp, NEW r \in Requests, Post(r),
         NEW s \in Requests \ {r}, NEW k \in Keys
  PROVE  rows'[s][k] = Total(Posted(s)', PlacesOf(k))
<1>1. rows'[s] = rows[s]
  BY DEF Post, Record, LInv, TypeOK
<1>2. Posted(s)' = Posted(s)
  <2>1. /\ op'[s] = op[s] /\ doc'[s] = doc[s] /\ todo'[s] = todo[s]
        /\ count'[s] = count[s] /\ step'[s] = step[s]
    BY DEF Post, LInv, TypeOK
  <2> QED
    BY <2>1, SamePosted
<1> QED
  BY <1>1, <1>2 DEF RowsAddUp

\* A loop that has gone through its lines has posted all of them, so that what it
\* commits is what the document's lines gain.
LEMMA FinishAddsUp ==
  ASSUME IsFiniteSet(Docs), LInv, RowsAddUp, LedgerAddsUp,
         NEW r \in Requests, Finish(r), NEW k \in Keys
  PROVE  ledger'[k] = Opening[k] + Total(Moved', PlacesOf(k))
<1> USE DEF LInv
<1> DEFINE e == doc[r]
<1>0. /\ e \in Docs /\ op[r] # "idle" /\ todo[r] \subseteq LineNos(e)
      /\ step[r] \in Nat /\ Len(Line[e]) \in Nat /\ step[r] >= 2 * Len(Line[e])
  BY StockAssumption DEF Finish, Looping, TypeOK
<1>1. ledger'[k] = ledger[k] + rows[r][k]
  BY DEF Finish
<1>2. \A d \in Docs : d # e => net'[d] = net[d]
  BY <1>0 DEF Finish, TypeOK, Tables
<1>3. net'[e] = [i \in LineNos(e) |->
                   IF i \in todo[r] THEN [at |-> net[e][i].at + AtMove(r, i),
                                          to |-> net[e][i].to + ToMove(r, i)]
                   ELSE net[e][i]]
  BY <1>0 DEF Finish, TypeOK, Tables
<1>4. ASSUME NEW p \in Places
      PROVE  Moved'[p] = Moved[p] + Posted(r)[p]
  <2>1. /\ p[1] \in Docs /\ p[2] \in LineNos(p[1]) /\ p[2] \in Nat
        /\ p[3] = "at" \/ p[3] = "to"
    BY PlaceFacts
  <2>2. Moved'[p] = net'[p[1]][p[2]][p[3]] /\ Moved[p] = net[p[1]][p[2]][p[3]]
    BY DEF Moved
  <2>3. Moved[p] \in Int
    BY SummandsType
  <2>4. CASE p[1] # e
    BY <1>2, <2>1, <2>2, <2>3, <2>4 DEF Posted
  <2>5. CASE p[1] = e /\ p[2] \notin todo[r]
    <3>1. net'[p[1]][p[2]] = net[p[1]][p[2]]
      BY <1>3, <2>1, <2>5
    <3>2. Posted(r)[p] = 0
      BY <2>5 DEF Posted
    <3> QED
      BY <2>2, <2>3, <3>1, <3>2
  <2>6. CASE p[1] = e /\ p[2] \in todo[r]
    <3>1. Turn(p) <= step[r]
      <4>1. p[2] <= Len(Line[e])
        BY <1>0, <2>1, <2>6 DEF LineNos
      <4> QED
        BY <1>0, <2>1, <4>1 DEF Turn
    <3>2. Posted(r)[p] = Move(r, p)
      BY <1>0, <2>6, <3>1 DEF Posted
    <3>3. net'[e][p[2]] = [at |-> net[e][p[2]].at + AtMove(r, p[2]),
                           to |-> net[e][p[2]].to + ToMove(r, p[2])]
      BY <1>3, <2>1, <2>6
    <3>4. CASE p[3] = "at"
      BY <2>2, <2>6, <3>2, <3>3, <3>4 DEF Move
    <3>5. CASE p[3] = "to"
      BY <2>2, <2>6, <3>2, <3>3, <3>5 DEF Move
    <3> QED
      BY <2>1, <3>4, <3>5
  <2> QED
    BY <2>4, <2>5, <2>6
<1>5. \A p \in PlacesOf(k) :
         Moved[p] \in Int /\ Posted(r)[p] \in Int /\ Moved'[p] = Moved[p] + Posted(r)[p]
  BY <1>4, SummandsType DEF PlacesOf
<1>6. IsFiniteSet(PlacesOf(k))
  BY PlacesAreFinite
<1>7. Total(Moved', PlacesOf(k)) = Total(Moved, PlacesOf(k)) + Total(Posted(r), PlacesOf(k))
  BY <1>5, <1>6, TotalAdds
<1>8. Total(Moved, PlacesOf(k)) \in Int /\ Total(Posted(r), PlacesOf(k)) \in Int
  BY <1>5, <1>6, TotalType
<1>9. Opening[k] \in Int
  BY StockAssumption
<1> QED
  BY <1>1, <1>7, <1>8, <1>9 DEF RowsAddUp, LedgerAddsUp

\* A request that begins or ends has posted nothing; the others go on.
LEMMA TurnoverAddsUp ==
  ASSUME IsFiniteSet(Docs), LInv, RowsAddUp, NEW r \in Requests,
         (op'[r] = "idle" \/ step'[r] = 0) /\ rows'[r] = Nothing,
         \A s \in Requests \ {r} :
             /\ op'[s] = op[s] /\ doc'[s] = doc[s] /\ todo'[s] = todo[s]
             /\ count'[s] = count[s] /\ step'[s] = step[s] /\ rows'[s] = rows[s]
  PROVE  RowsAddUp'
<1>1. ASSUME NEW s \in Requests, NEW k \in Keys
      PROVE  rows'[s][k] = Total(Posted(s)', PlacesOf(k))
  <2>1. CASE s = r
    <3>1. ASSUME NEW p \in Places
          PROVE  Posted(s)'[p] = 0
      <4>1. Turn(p) > 0 /\ Turn(p) \in Nat
        BY PlaceFacts DEF Turn
      <4> QED
        BY <2>1, <4>1 DEF Posted
    <3>2. Total(Posted(s)', PlacesOf(k)) = 0
      BY <3>1, PlacesAreFinite, TotalZero
    <3> QED
      BY <2>1, <3>2 DEF Nothing
  <2>2. CASE s # r
    <3>1. Posted(s)' = Posted(s)
      BY <2>2, SamePosted
    <3> QED
      BY <2>2, <3>1 DEF RowsAddUp
  <2> QED
    BY <2>1, <2>2
<1> QED
  BY <1>1 DEF RowsAddUp

LEMMA SumsStay ==
  ASSUME LedgerAddsUp, UNCHANGED <<documents, ledger>>
  PROVE  LedgerAddsUp'
<1>1. Moved' = Moved
  BY DEF Moved, documents
<1> QED
  BY <1>1 DEF LedgerAddsUp

LEMMA StepSums ==
  ASSUME IsFiniteSet(Docs), LInv, RowsAddUp, LedgerAddsUp, [Next]_vars
  PROVE  RowsAddUp' /\ LedgerAddsUp'
<1>1. ASSUME NEW r \in Requests, NEW d \in Docs, NEW o \in Ops,
             NEW ls \in LinesOf(o, d), NEW c \in Counts(o, d), Start(r, d, o, ls, c)
      PROVE  RowsAddUp' /\ LedgerAddsUp'
  <2>1. rows[r] = Nothing
    <3>1. \A k \in Keys : rows[r][k] = 0
      BY <1>1, NothingPosted DEF Start, RowsAddUp
    <3> QED
      BY <3>1 DEF LInv, TypeOK, Nothing
  <2>2. (op'[r] = "idle" \/ step'[r] = 0) /\ rows'[r] = Nothing
    BY <1>1, <2>1 DEF Start, LInv, TypeOK
  <2>3. \A s \in Requests \ {r} :
           /\ op'[s] = op[s] /\ doc'[s] = doc[s] /\ todo'[s] = todo[s]
           /\ count'[s] = count[s] /\ step'[s] = step[s] /\ rows'[s] = rows[s]
    BY <1>1 DEF Start
  <2> QED
    BY <1>1, <2>2, <2>3, TurnoverAddsUp, SumsStay DEF Start
<1>2. ASSUME NEW r \in Requests, Post(r)
      PROVE  RowsAddUp' /\ LedgerAddsUp'
  <2>1. LedgerAddsUp'
    BY <1>2, SumsStay DEF Post
  <2>2. \A s \in Requests, k \in Keys : rows'[s][k] = Total(Posted(s)', PlacesOf(k))
    BY <1>2, PostAddsUp, PostLeaves
  <2> QED
    BY <2>1, <2>2 DEF RowsAddUp
<1>3. ASSUME NEW r \in Requests, Reset(r)
      PROVE  RowsAddUp'
  <2>1. (op'[r] = "idle" \/ step'[r] = 0) /\ rows'[r] = Nothing
    BY <1>3, ResetKeeps DEF Reset, LInv, TypeOK
  <2>2. \A s \in Requests \ {r} :
           /\ op'[s] = op[s] /\ doc'[s] = doc[s] /\ todo'[s] = todo[s]
           /\ count'[s] = count[s] /\ step'[s] = step[s] /\ rows'[s] = rows[s]
    BY <1>3 DEF Reset
  <2> QED
    BY <2>1, <2>2, TurnoverAddsUp
<1>4. ASSUME NEW r \in Requests, Finish(r)
      PROVE  RowsAddUp' /\ LedgerAddsUp'
  <2>1. Reset(r)
    BY <1>4 DEF Finish
  <2>2. \A k \in Keys : ledger'[k] = Opening[k] + Total(Moved', PlacesOf(k))
    BY <1>4, FinishAddsUp
  <2> QED
    BY <1>3, <2>1, <2>2 DEF LedgerAddsUp
<1>5. ASSUME NEW r \in Requests, Abort(r)
      PROVE  RowsAddUp' /\ LedgerAddsUp'
  BY <1>3, <1>5, SumsStay DEF Abort
<1>6. CASE UNCHANGED vars
  <2>1. \A s \in Requests : Posted(s)' = Posted(s)
    BY <1>6, SamePosted DEF vars
  <2>2. RowsAddUp'
    BY <1>6, <2>1 DEF vars, RowsAddUp
  <2> QED
    BY <1>6, <2>2, SumsStay DEF vars
<1> QED
  BY <1>1, <1>2, <1>4, <1>5, <1>6 DEF Next

\* The level rows and the documents are two views of one ledger: for any finite
\* number of documents with any lines, a level is its opening balance and what the
\* documents' lines have moved there.  It excepts no document: of one that two
\* requests post (raced), both postings are on both sides.
THEOREM LedgerIsDocuments ==
  ASSUME IsFiniteSet(Docs) PROVE Spec => []DocumentsAddUp
<1>1. Init => LInv /\ RowsAddUp /\ LedgerAddsUp
  BY InitLInv, InitSums
<1>2. LInv /\ RowsAddUp /\ LedgerAddsUp /\ [Next]_vars => (LInv /\ RowsAddUp /\ LedgerAddsUp)'
  BY StepLInv, StepSums
<1>3. LInv /\ RowsAddUp /\ LedgerAddsUp => DocumentsAddUp
  BY DEF LInv, LevelIsLedger, LedgerAddsUp, DocumentsAddUp
<1> QED
  BY <1>1, <1>2, <1>3, PTL DEF Spec
=============================================================================
