-------------------------- MODULE FbrSubmissionProofs --------------------------
(***************************************************************************)
(* What holds of FbrSubmission for any number of invoices, messages,       *)
(* worker processes, tills and requests.  Nothing keeps two fiscalizations *)
(* of an invoice apart, so the theorems count how often they meet.         *)
(***************************************************************************)
EXTENDS FbrSubmission, FiniteSetTheorems, TLAPS

\* The history of meetings keeps its type.
LEMMA MetType ==
  ASSUME met \in [Invoices -> 0 .. MaxMet], NEW i \in Invoices, Meets(i)
  PROVE  met' \in [Invoices -> 0 .. MaxMet]
<1>1. CASE Running(i)
  <2>1. met[i] + 1 \in 0 .. MaxMet
    BY <1>1, FbrAssumption DEF Meets
  <2> QED
    BY <1>1, <2>1 DEF Meets
<1> QED
  BY <1>1 DEF Meets

\* The type of every variable, for any constants.
THEOREM TypeCorrect == Spec => []TypeOK
<1>1. Init => TypeOK
  BY FbrAssumption DEF Init, TypeOK, Statuses
<1>2. TypeOK /\ [Next]_vars => TypeOK'
  <2> SUFFICES ASSUME TypeOK, [Next]_vars PROVE TypeOK'
    OBVIOUS
  <2> USE DEF TypeOK, Statuses, Submittable, Steps, TillSteps, Become, Goto, TillAt,
              invoice, celery, admin, device, authority
  <2>1. ASSUME NEW m \in Messages, NEW i \in Invoices, Create(m, i) \/ Resubmit(m, i) \/ Retry(m, i)
        PROVE  TypeOK'
    BY <2>1, FbrAssumption DEF Create, Resubmit, Retry, Delay
  <2>2. ASSUME NEW m \in Messages, NEW n \in Messages, Redeliver(m, n) PROVE TypeOK'
    BY <2>2 DEF Redeliver
  <2>3. ASSUME NEW m \in Messages, Load(m) \/ SkipNonFiscal(m) \/ Defer(m) \/ Mark(m) PROVE TypeOK'
    BY <2>3, MetType DEF Load, SkipNonFiscal, Defer, Mark
  <2>4. ASSUME NEW m \in Messages, Accept(m) PROVE TypeOK'
    BY <2>4 DEF Accept
  <2>5. ASSUME NEW m \in Messages, Record(m) PROVE TypeOK'
    BY <2>5 DEF Record
  <2>6. ASSUME NEW m \in Messages, Persist(m) PROVE TypeOK'
    BY <2>6 DEF Persist
  <2>7. ASSUME NEW m \in Messages, Again(m)
        PROVE  /\ status' \in [Invoices -> Statuses] /\ task' \in [Messages -> {"free", "queued"} \cup Steps]
               /\ tries' \in [Messages -> 0 .. MaxRetries]
               /\ UNCHANGED <<number, deadline, deleted, logged, of, got>>
    <3>1. CASE tries[m] < MaxRetries /\ Goto(m, "queued")
               /\ tries' = [tries EXCEPT ![m] = @ + 1] /\ UNCHANGED <<invoice, of, got>>
      <4>1. tries[m] + 1 \in 0 .. MaxRetries
        BY <3>1, FbrAssumption
      <4> QED
        BY <3>1, <4>1
    <3>2. CASE Fail(m)
      BY <3>2 DEF Fail
    <3> QED
      BY <2>7, <3>1, <3>2 DEF Again
  <2>8. ASSUME NEW m \in Messages, Transient(m) PROVE TypeOK'
    <3>1. Again(m) /\ UNCHANGED <<active, admin, device, authority, met>>
      BY <2>8 DEF Transient
    <3> QED
      BY <2>7, <3>1
  <2>9. ASSUME NEW i \in Invoices, Lose(i) PROVE lost' \in [Invoices -> 0 .. MaxLost]
    <3>1. lost[i] + 1 \in 0 .. MaxLost
      BY <2>9, FbrAssumption DEF Lose
    <3> QED
      BY <2>9, <3>1 DEF Lose
  <2>10. ASSUME NEW m \in Messages, Timeout(m) PROVE TypeOK'
    <3>1. Again(m) /\ UNCHANGED <<active, admin, device, issued, met>> /\ lost' \in [Invoices -> 0 .. MaxLost]
      BY <2>10, <2>9 DEF Timeout
    <3> QED
      BY <2>7, <3>1
  <2>11. ASSUME NEW m \in Messages, Refused(m) \/ AuthFails(m) PROVE TypeOK'
    <3>1. CASE Refused(m)
      BY <3>1 DEF Refused, Fail
    <3>2. CASE AuthFails(m)
      BY <3>2 DEF AuthFails, Fail
    <3> QED
      BY <2>11, <3>1, <3>2
  <2>12. ASSUME NEW m \in Messages, Crash(m) PROVE TypeOK'
    <3>1. lost' \in [Invoices -> 0 .. MaxLost]
      BY <2>12, <2>9 DEF Crash
    <3> QED
      BY <2>12, <3>1 DEF Crash
  <2>13. ASSUME NEW r \in Requests, NEW i \in Invoices,
                BeginDelete(r, i) \/ BeginCancel(r, i) \/ BeginPortal(r, i)
         PROVE  TypeOK'
    BY <2>13 DEF BeginDelete, BeginCancel, BeginPortal, Begin
  <2>14. ASSUME NEW r \in Requests, Finish(r) PROVE TypeOK'
    BY <2>14 DEF Finish
  <2>15. ASSUME NEW i \in Invoices, DeadlinePasses(i) PROVE TypeOK'
    BY <2>15 DEF DeadlinePasses
  <2>16. ASSUME Finalize \/ SetToken PROVE TypeOK'
    <3>1. CASE Finalize
      <4>1. status' \in [Invoices -> Statuses]
        BY <3>1 DEF Finalize
      <4> QED
        BY <3>1, <4>1 DEF Finalize
    <3>2. CASE SetToken
      BY <3>2 DEF SetToken
    <3> QED
      BY <2>16, <3>1, <3>2
  <2>17. ASSUME NEW t \in Tills, NEW i \in Invoices, TillAsks(t, i) PROVE TypeOK'
    BY <2>17, MetType DEF TillAsks
  <2>18. ASSUME NEW t \in Tills, DeviceIssues(t) \/ DeviceFails(t) PROVE TypeOK'
    BY <2>18 DEF DeviceIssues, DeviceFails
  <2>19. ASSUME NEW t \in Tills, TillLoses(t) PROVE TypeOK'
    BY <2>19, <2>9 DEF TillLoses
  <2>20. ASSUME NEW t \in Tills, ResultLoads(t) \/ ResultSaves(t) PROVE TypeOK'
    <3>1. CASE ResultLoads(t)
      BY <3>1 DEF ResultLoads
    <3>2. CASE ResultSaves(t)
      <4>1. logged' \in [Invoices -> SUBSET Nat]
        BY <3>2 DEF ResultSaves
      <4> QED
        BY <3>2, <4>1 DEF ResultSaves
    <3> QED
      BY <2>20, <3>1, <3>2
  <2>21. CASE UNCHANGED vars
    BY <2>21 DEF vars
  <2> QED
    BY <2>1, <2>2, <2>3, <2>4, <2>5, <2>6, <2>8, <2>10, <2>11, <2>12, <2>13, <2>14, <2>15, <2>16,
       <2>17, <2>18, <2>19, <2>20, <2>21
    DEF Next, Task, Till
<1> QED
  BY <1>1, <1>2, PTL DEF Spec

-----------------------------------------------------------------------------
\* The steps of a task that end it, or put it back in the queue.
LEMMA AgainSteps ==
  ASSUME TypeOK, NEW m \in Messages, Again(m)
  PROVE  /\ UNCHANGED <<number, deadline, deleted, logged, of, got>>
         /\ \A n \in Messages : n # m => task'[n] = task[n]
         /\ task'[m] \in {"free", "queued"}
         /\ \A i \in Invoices : i # of[m] => status'[i] = status[i]
         /\ status'[of[m]] \in {status[of[m]], "failed"}
         /\ status' \in [Invoices -> Statuses]
BY DEF TypeOK, Again, Fail, Goto, Become, invoice, Statuses, Submittable

\* Of two sets S and T, one loses or gains an element.
Drops(S, T, S2, T2, x) ==
    \/ x \in S /\ S2 = S \ {x} /\ T2 = T
    \/ x \in T /\ T2 = T \ {x} /\ S2 = S

Adds(S, T, S2, T2, x) ==
    \/ x \notin S /\ S2 = S \cup {x} /\ T2 = T
    \/ x \notin T /\ T2 = T \cup {x} /\ S2 = S

LEMMA OneLess ==
  ASSUME NEW S, NEW T, NEW S2, NEW T2, NEW x, IsFiniteSet(S), IsFiniteSet(T),
         Drops(S, T, S2, T2, x)
  PROVE  /\ Cardinality(S2) \in Nat /\ Cardinality(T2) \in Nat
         /\ Cardinality(S2) + Cardinality(T2) = Cardinality(S) + Cardinality(T) - 1
<1>1. Cardinality(S) \in Nat /\ Cardinality(T) \in Nat
  BY FS_CardinalityType
<1>2. CASE x \in S /\ S2 = S \ {x} /\ T2 = T
  <2>1. IsFiniteSet(S2) /\ Cardinality(S2) = Cardinality(S) - 1
    BY <1>2, FS_RemoveElement
  <2>2. Cardinality(S2) \in Nat
    BY <2>1, FS_CardinalityType
  <2> QED
    BY <1>1, <1>2, <2>1, <2>2
<1>3. CASE x \in T /\ T2 = T \ {x} /\ S2 = S
  <2>1. IsFiniteSet(T2) /\ Cardinality(T2) = Cardinality(T) - 1
    BY <1>3, FS_RemoveElement
  <2>2. Cardinality(T2) \in Nat
    BY <2>1, FS_CardinalityType
  <2> QED
    BY <1>1, <1>3, <2>1, <2>2
<1> QED
  BY <1>2, <1>3 DEF Drops

LEMMA OneMore ==
  ASSUME NEW S, NEW T, NEW S2, NEW T2, NEW x, IsFiniteSet(S), IsFiniteSet(T),
         Adds(S, T, S2, T2, x)
  PROVE  /\ Cardinality(S2) \in Nat /\ Cardinality(T2) \in Nat
         /\ Cardinality(S2) + Cardinality(T2) = Cardinality(S) + Cardinality(T) + 1
<1>1. Cardinality(S) \in Nat /\ Cardinality(T) \in Nat
  BY FS_CardinalityType
<1>2. CASE x \notin S /\ S2 = S \cup {x} /\ T2 = T
  <2>1. IsFiniteSet(S2) /\ Cardinality(S2) = Cardinality(S) + 1
    BY <1>2, FS_AddElement
  <2>2. Cardinality(S2) \in Nat
    BY <2>1, FS_CardinalityType
  <2> QED
    BY <1>1, <1>2, <2>1, <2>2
<1>3. CASE x \notin T /\ T2 = T \cup {x} /\ S2 = S
  <2>1. IsFiniteSet(T2) /\ Cardinality(T2) = Cardinality(T) + 1
    BY <1>3, FS_AddElement
  <2>2. Cardinality(T2) \in Nat
    BY <2>1, FS_CardinalityType
  <2> QED
    BY <1>1, <1>3, <2>1, <2>2
<1> QED
  BY <1>2, <1>3 DEF Adds

\* A step that starts nothing and issues nothing keeps the account of i.
LEMMA Rests ==
  ASSUME TypeOK, TypeOK', NEW i \in Invoices, Within(i),
         Posting(i)' = Posting(i), Asking(i)' = Asking(i), issued'[i] = issued[i],
         met'[i] = met[i], \/ lost'[i] = lost[i] /\ (Due(i)' => Due(i))
                           \/ lost'[i] = lost[i] + 1
  PROVE  Within(i)'
<1>1. /\ Cardinality(Posting(i)') = Cardinality(Posting(i)) /\ Cardinality(Posting(i)) \in Nat
      /\ Cardinality(Asking(i)') = Cardinality(Asking(i)) /\ Cardinality(Asking(i)) \in Nat
  BY FbrAssumption, FS_Subset, FS_CardinalityType DEF Posting, Asking
<1>2. /\ {issued[i], lost[i], met[i], issued'[i], lost'[i], met'[i]} \subseteq Nat
  BY FbrAssumption DEF TypeOK
<1> HIDE DEF Posting, Asking, Due
<1> QED
  BY <1>1, <1>2 DEF Within

\* A task or a till that gives up leaves room for another attempt at most.
LEMMA GivesUp ==
  ASSUME TypeOK, TypeOK', NEW i \in Invoices, Within(i), NEW m,
         Drops(Posting(i), Asking(i), Posting(i)', Asking(i)', m),
         issued'[i] = issued[i], met'[i] = met[i], lost'[i] = lost[i]
  PROVE  Within(i)'
<1>1. IsFiniteSet(Posting(i)) /\ IsFiniteSet(Asking(i))
  BY FbrAssumption, FS_Subset DEF Posting, Asking
<1>2. Cardinality(Posting(i)) \in Nat /\ Cardinality(Asking(i)) \in Nat
  BY <1>1, FS_CardinalityType
<1>3. Cardinality(Posting(i)') + Cardinality(Asking(i)')
        = Cardinality(Posting(i)) + Cardinality(Asking(i)) - 1
  BY <1>1, OneLess
<1>4. Cardinality(Posting(i)') \in Nat /\ Cardinality(Asking(i)') \in Nat
  BY <1>1, OneLess
<1>5. /\ {issued[i], lost[i], met[i], issued'[i], lost'[i], met'[i]} \subseteq Nat
  BY FbrAssumption DEF TypeOK
<1> HIDE DEF Posting, Asking, Due
<1> QED
  BY <1>2, <1>3, <1>4, <1>5 DEF Within

\* One that begins takes the room there was, or meets another.
LEMMA Begins ==
  ASSUME TypeOK, TypeOK', NEW i \in Invoices, Within(i), NEW m,
         Adds(Posting(i), Asking(i), Posting(i)', Asking(i)', m),
         issued'[i] = issued[i], lost'[i] = lost[i],
         \/ Due(i) /\ ~ Due(i)' /\ met'[i] \in {met[i], met[i] + 1}
         \/ (Due(i)' => Due(i)) /\ met'[i] = met[i] + 1
  PROVE  Within(i)'
<1>1. IsFiniteSet(Posting(i)) /\ IsFiniteSet(Asking(i))
  BY FbrAssumption, FS_Subset DEF Posting, Asking
<1>2. Cardinality(Posting(i)) \in Nat /\ Cardinality(Asking(i)) \in Nat
  BY <1>1, FS_CardinalityType
<1>3. Cardinality(Posting(i)') + Cardinality(Asking(i)')
        = Cardinality(Posting(i)) + Cardinality(Asking(i)) + 1
  BY <1>1, OneMore
<1>4. Cardinality(Posting(i)') \in Nat /\ Cardinality(Asking(i)') \in Nat
  BY <1>1, OneMore
<1>5. /\ {issued[i], lost[i], met[i], issued'[i], lost'[i], met'[i]} \subseteq Nat
  BY FbrAssumption DEF TypeOK
<1> HIDE DEF Posting, Asking, Due
<1> QED
  BY <1>2, <1>3, <1>4, <1>5 DEF Within

\* A number that arrives is one that was still to come.
LEMMA Arrives ==
  ASSUME TypeOK, TypeOK', NEW i \in Invoices, Within(i), NEW m,
         Drops(Posting(i), Asking(i), Posting(i)', Asking(i)', m),
         issued'[i] = issued[i] + 1, met'[i] = met[i], lost'[i] = lost[i], Due(i)' => Due(i)
  PROVE  Within(i)'
<1>1. IsFiniteSet(Posting(i)) /\ IsFiniteSet(Asking(i))
  BY FbrAssumption, FS_Subset DEF Posting, Asking
<1>2. Cardinality(Posting(i)) \in Nat /\ Cardinality(Asking(i)) \in Nat
  BY <1>1, FS_CardinalityType
<1>3. Cardinality(Posting(i)') + Cardinality(Asking(i)')
        = Cardinality(Posting(i)) + Cardinality(Asking(i)) - 1
  BY <1>1, OneLess
<1>4. Cardinality(Posting(i)') \in Nat /\ Cardinality(Asking(i)') \in Nat
  BY <1>1, OneLess
<1>5. /\ {issued[i], lost[i], met[i], issued'[i], lost'[i], met'[i]} \subseteq Nat
  BY FbrAssumption DEF TypeOK
<1> HIDE DEF Posting, Asking, Due
<1> QED
  BY <1>2, <1>3, <1>4, <1>5 DEF Within

-----------------------------------------------------------------------------
(* What a step may do to the account of one invoice                        *)

Kept(i) == Within(i)' /\ Alone(i)'

\* Nothing about invoice i changes, but for steps of its tasks and tills.
Calm(i) == /\ number'[i] = number[i] /\ issued'[i] = issued[i]
           /\ lost'[i] = lost[i] /\ met'[i] = met[i]

SameTills(i) == TillsOf(i)' = TillsOf(i) /\ Asking(i)' = Asking(i)
SameTasks(i) == TasksOf(i)' = TasksOf(i) /\ Posting(i)' = Posting(i)

\* Fewer at work, and a number only once nobody is: still one at a time.
LEMMA Shrinks ==
  ASSUME NEW i \in Invoices, Alone(i), met'[i] = met[i],
         TasksOf(i)' \subseteq TasksOf(i), TillsOf(i)' \subseteq TillsOf(i),
         number'[i] = number[i] \/ (TasksOf(i)' = {} /\ TillsOf(i)' = {})
  PROVE  Alone(i)'
<1> HIDE DEF TasksOf, TillsOf
<1> QED
  BY DEF Alone

\* The first one at work on an invoice without a number.
LEMMA First ==
  ASSUME NEW i \in Invoices, NEW x, number'[i] = 0,
         \/ TasksOf(i)' = {x} /\ TillsOf(i)' = {}
         \/ TillsOf(i)' = {x} /\ TasksOf(i)' = {}
  PROVE  Alone(i)'
<1> HIDE DEF TasksOf, TillsOf
<1> QED
  BY DEF Alone

\* Steps that leave the tasks and tills of i where they are.
LEMMA Frame ==
  ASSUME TypeOK, TypeOK', NEW i \in Invoices, Within(i), Alone(i),
         Calm(i), SameTills(i), SameTasks(i),
         status'[i] \in Submittable => status[i] \in Submittable \/ number[i] = 0
  PROVE  Kept(i)
<1>1. Due(i)' => Due(i)
  <2> HIDE DEF TasksOf, TillsOf
  <2> QED
    BY DEF Calm, SameTills, SameTasks, Due
<1>2. Within(i)'
  BY <1>1, Rests DEF Calm, SameTills, SameTasks
<1>3. Alone(i)'
  BY Shrinks DEF Calm, SameTills, SameTasks
<1> QED
  BY <1>2, <1>3 DEF Kept

\* A step of a task of another invoice.
LEMMA Elsewhere ==
  ASSUME TypeOK, TypeOK', NEW i \in Invoices, Within(i), Alone(i), Calm(i),
         NEW m \in Messages, of[m] # i, UNCHANGED <<of, device>>, status'[i] = status[i],
         \A n \in Messages : n # m => task'[n] = task[n]
  PROVE  Kept(i)
<1>1. SameTills(i)
  BY DEF SameTills, TillsOf, Asking, device
<1>2. SameTasks(i)
  BY DEF SameTasks, TasksOf, Posting
<1> QED
  BY <1>1, <1>2, Frame

\* A task of i ends, or goes back to the queue.
LEMMA TaskEnds ==
  ASSUME TypeOK, TypeOK', NEW i \in Invoices, Within(i), Alone(i),
         NEW m \in Messages, of[m] = i, UNCHANGED <<of, device>>,
         task[m] \in Steps, task'[m] \in {"free", "queued"},
         \A n \in Messages : n # m => task'[n] = task[n],
         met'[i] = met[i], issued'[i] = issued[i],
         \/ task[m] \in {"loaded", "posting"} /\ number'[i] = number[i] /\ lost'[i] = lost[i]
         \/ task[m] \in {"accepted", "logged"} /\ number'[i] = number[i] /\ lost'[i] = lost[i] + 1
         \/ /\ task[m] = "logged" /\ number'[i] # 0 /\ status'[i] = "valid"
            /\ lost'[i] = lost[i]
  PROVE  Kept(i)
<1>1. TasksOf(i)' = TasksOf(i) \ {m} /\ m \in TasksOf(i)
  BY DEF TasksOf, Steps
<1>2. SameTills(i)
  BY DEF SameTills, TillsOf, Asking, device
<1>3. CASE task[m] \in {"loaded", "posting"} /\ number'[i] = number[i] /\ lost'[i] = lost[i]
  <2>1. Posting(i)' = Posting(i) \ {m} /\ m \in Posting(i)
    BY <1>3 DEF Posting
  <2>2. Drops(Posting(i), Asking(i), Posting(i)', Asking(i)', m)
    BY <1>2, <2>1 DEF Drops, SameTills
  <2>3. Within(i)'
    BY <1>3, <2>2, GivesUp
  <2>4. Alone(i)'
    BY <1>1, <1>2, <1>3, Shrinks DEF SameTills
  <2> QED
    BY <2>3, <2>4 DEF Kept
<1>4. CASE task[m] \in {"accepted", "logged"}
  <2>1. Posting(i)' = Posting(i)
    BY <1>4 DEF Posting
  <2> QED
    <3>1. CASE number'[i] = number[i] /\ lost'[i] = lost[i] + 1
      <4>1. Within(i)'
        BY <1>2, <2>1, <3>1, Rests DEF SameTills
      <4>2. Alone(i)'
        BY <1>1, <1>2, <3>1, Shrinks DEF SameTills
      <4> QED
        BY <4>1, <4>2 DEF Kept
    <3>2. CASE number'[i] # 0 /\ status'[i] = "valid" /\ lost'[i] = lost[i]
      <4>1. ~ Due(i)'
        BY <3>2 DEF Due, Submittable
      <4>2. Within(i)'
        BY <1>2, <2>1, <3>2, <4>1, Rests DEF SameTills
      <4>3. met[i] = 0 => TasksOf(i)' = {} /\ TillsOf(i)' = {}
        <5> HIDE DEF TasksOf, TillsOf
        <5> QED
          BY <1>1, <1>2 DEF Alone, SameTills
      <4>4. Alone(i)'
        <5> HIDE DEF TasksOf, TillsOf
        <5>1. CASE met[i] = 0
          BY <5>1, <4>3, <1>1, <1>2, Shrinks DEF SameTills
        <5>2. CASE met[i] # 0
          BY <5>2 DEF Alone
        <5> QED
          BY <5>1, <5>2
      <4> QED
        BY <4>2, <4>4 DEF Kept
    <3> QED
      BY <1>4, <3>1, <3>2
<1> QED
  BY <1>3, <1>4

\* A till is done with i: its device gave none, its number was lost or came
\* second, or the number is saved.
LEMMA TillEnds ==
  ASSUME TypeOK, TypeOK', NEW i \in Invoices, Within(i), Alone(i),
         NEW t \in Tills, sale[t] = i, UNCHANGED <<sale, celery>>,
         till[t] \in TillSteps, till'[t] = "idle",
         \A u \in Tills : u # t => till'[u] = till[u],
         met'[i] = met[i], issued'[i] = issued[i],
         \/ UNCHANGED <<status, number, lost>> /\ (till[t] = "asked" \/ number[i] # 0)
         \/ till[t] # "asked" /\ UNCHANGED <<status, number>> /\ lost'[i] = lost[i] + 1
         \/ /\ till[t] = "checked" /\ number'[i] # 0 /\ status'[i] = "valid"
            /\ lost'[i] = lost[i]
  PROVE  Kept(i)
<1>1. TillsOf(i)' = TillsOf(i) \ {t} /\ t \in TillsOf(i)
  BY DEF TillsOf, TillSteps
<1>2. SameTasks(i)
  BY DEF SameTasks, TasksOf, Posting, celery
<1>3. number'[i] = number[i] => Alone(i)'
  BY <1>1, <1>2, Shrinks DEF SameTasks
<1>4. till[t] # "asked" => Asking(i)' = Asking(i)
  BY DEF Asking
<1>5. CASE till[t] = "asked" /\ UNCHANGED <<status, number, lost>>
  <2>1. Asking(i)' = Asking(i) \ {t} /\ t \in Asking(i)
    BY <1>5 DEF Asking
  <2>2. Drops(Posting(i), Asking(i), Posting(i)', Asking(i)', t)
    BY <1>2, <2>1 DEF Drops, SameTasks
  <2>3. Within(i)'
    BY <1>5, <2>2, GivesUp
  <2> QED
    BY <1>3, <1>5, <2>3 DEF Kept
<1>6. CASE till[t] # "asked" /\ UNCHANGED <<status, number, lost>> /\ number[i] # 0
  <2>1. Due(i)' => Due(i)
    <3> HIDE DEF TasksOf, TillsOf
    <3> QED
      BY <1>2, <1>6 DEF Due, SameTasks
  <2>2. Within(i)'
    BY <1>2, <1>4, <1>6, <2>1, Rests DEF SameTasks
  <2> QED
    BY <1>3, <1>6, <2>2 DEF Kept
<1>7. CASE till[t] # "asked" /\ UNCHANGED <<status, number>> /\ lost'[i] = lost[i] + 1
  <2>1. Within(i)'
    BY <1>2, <1>4, <1>7, Rests DEF SameTasks
  <2> QED
    BY <1>3, <1>7, <2>1 DEF Kept
<1>8. CASE till[t] = "checked" /\ number'[i] # 0 /\ status'[i] = "valid" /\ lost'[i] = lost[i]
  <2>1. ~ Due(i)'
    BY <1>8 DEF Due, Submittable
  <2>2. Within(i)'
    BY <1>2, <1>4, <1>8, <2>1, Rests DEF SameTasks
  <2>3. CASE met[i] = 0
    <3>1. TasksOf(i)' = {} /\ TillsOf(i)' = {}
      <4> HIDE DEF TasksOf, TillsOf
      <4> QED
        BY <1>1, <1>2, <2>3 DEF Alone, SameTasks
    <3> QED
      BY <1>1, <1>2, <2>2, <3>1, Shrinks DEF SameTasks, Kept
  <2>4. CASE met[i] # 0
    BY <2>2, <2>4 DEF Alone, Kept
  <2> QED
    BY <2>3, <2>4
<1> QED
  BY <1>5, <1>6, <1>7, <1>8

\* A worker process takes a message of i that passes the status guard.
LEMMA LoadKeeps ==
  ASSUME IInv, TypeOK', NEW i \in Invoices, NEW m \in Messages, of[m] = i, Load(m),
         status[i] \in Submittable
  PROVE  Kept(i)
<1> USE DEF IInv
<1>1. /\ task[m] = "queued" /\ task' = [task EXCEPT ![m] = "loaded"] /\ Meets(i)
      /\ UNCHANGED <<status, number, issued, lost, of, device>>
  BY DEF Load, Goto, invoice, authority
<1>2. SameTills(i)
  BY <1>1 DEF SameTills, TillsOf, Asking, device
<1>3. TasksOf(i)' = TasksOf(i) \cup {m} /\ Posting(i)' = Posting(i) \cup {m} /\ m \notin Posting(i)
  BY <1>1 DEF TypeOK, TasksOf, Posting, Steps
<1>4. Adds(Posting(i), Asking(i), Posting(i)', Asking(i)', m)
  BY <1>2, <1>3 DEF Adds, SameTills
<1>5. ~ Due(i)'
  <2> HIDE DEF TasksOf, TillsOf
  <2> QED
    BY <1>3 DEF Due
<1>6. met'[i] = met[i] \/ met'[i] = met[i] + 1
  BY <1>1 DEF Meets, TypeOK
<1>7. CASE Running(i)
  <2>1. met'[i] = met[i] + 1 /\ met[i] \in Nat
    BY <1>1, <1>7, FbrAssumption DEF Meets, TypeOK
  <2>2. Within(i)'
    BY <1>1, <1>4, <1>5, <2>1, Begins
  <2> QED
    BY <2>1, <2>2 DEF Kept, Alone
<1>8. CASE ~ Running(i)
  <2>1. met'[i] = met[i] /\ TasksOf(i) = {} /\ TillsOf(i) = {}
    BY <1>1, <1>8 DEF Meets, Running
  <2>2. Due(i)
    <3> HIDE DEF TasksOf, TillsOf
    <3> QED
      BY <2>1 DEF Due
  <2>3. Within(i)'
    BY <1>1, <1>4, <1>5, <2>1, <2>2, Begins
  <2>4. CASE met[i] = 0
    <3>1. number'[i] = 0
      BY <1>1, <2>4 DEF FiscalStatus, Submittable
    <3> QED
      BY <1>2, <1>3, <2>1, <2>3, <3>1, First DEF SameTills, Kept
  <2>5. CASE met[i] # 0
    BY <2>1, <2>3, <2>5 DEF Alone, Kept
  <2> QED
    BY <2>4, <2>5
<1> QED
  BY <1>7, <1>8

\* A till asks its device about i.
LEMMA AskKeeps ==
  ASSUME IInv, TypeOK', NEW i \in Invoices, NEW t \in Tills, TillAsks(t, i)
  PROVE  Kept(i)
<1> USE DEF IInv
<1>1. /\ till[t] = "idle" /\ number[i] = 0 /\ Meets(i)
      /\ till' = [till EXCEPT ![t] = "asked"] /\ sale' = [sale EXCEPT ![t] = i]
      /\ UNCHANGED <<status, number, issued, lost, task, of>>
  BY DEF TillAsks, TillAt, invoice, celery, authority
<1>2. SameTasks(i)
  BY <1>1 DEF SameTasks, TasksOf, Posting
<1>3. TillsOf(i)' = TillsOf(i) \cup {t} /\ Asking(i)' = Asking(i) \cup {t} /\ t \notin Asking(i)
  BY <1>1 DEF TypeOK, TillsOf, Asking, TillSteps
<1>4. Adds(Posting(i), Asking(i), Posting(i)', Asking(i)', t)
  BY <1>2, <1>3 DEF Adds, SameTasks
<1>5. ~ Due(i)'
  <2> HIDE DEF TasksOf, TillsOf
  <2> QED
    BY <1>1, <1>3 DEF Due
<1>6. CASE Running(i)
  <2>1. met'[i] = met[i] + 1 /\ met[i] \in Nat
    BY <1>1, <1>6, FbrAssumption DEF Meets, TypeOK
  <2>2. Within(i)'
    BY <1>1, <1>4, <1>5, <2>1, Begins
  <2> QED
    BY <2>1, <2>2 DEF Kept, Alone
<1>7. CASE ~ Running(i)
  <2>1. met'[i] = met[i] /\ TasksOf(i) = {} /\ TillsOf(i) = {}
    BY <1>1, <1>7 DEF Meets, Running
  <2>2. Due(i)
    <3> HIDE DEF TasksOf, TillsOf
    <3> QED
      BY <1>1, <2>1 DEF Due
  <2>3. Within(i)'
    BY <1>1, <1>4, <1>5, <2>1, <2>2, Begins
  <2> QED
    BY <1>1, <1>2, <1>3, <2>1, <2>3, First DEF SameTasks, Kept
<1> QED
  BY <1>6, <1>7

\* Of the steps that a task takes on its own invoice, those in the middle.
LEMMA MiddleKeeps ==
  ASSUME IInv, TypeOK', NEW i \in Invoices, NEW m \in Messages, of[m] = i,
         Mark(m) \/ Accept(m) \/ Record(m)
  PROVE  Kept(i)
<1> USE DEF IInv
<1>1. /\ UNCHANGED <<of, number, lost, met, till, sale>> /\ task[m] \in Steps /\ task'[m] \in Steps
      /\ \A n \in Messages : n # m => task'[n] = task[n]
  BY DEF Mark, Accept, Record, Goto, Steps, invoice, authority, device, TypeOK
<1>2. SameTills(i)
  BY <1>1 DEF SameTills, TillsOf, Asking
<1>3. TasksOf(i)' = TasksOf(i) /\ m \in TasksOf(i)
  BY <1>1 DEF TasksOf
<1>4. ~ Due(i)' /\ ~ Due(i)
  <2> HIDE DEF TasksOf, TillsOf
  <2> QED
    BY <1>3 DEF Due
<1>5. Alone(i)'
  BY <1>1, <1>2, <1>3, Shrinks DEF SameTills
<1>6. CASE Mark(m) \/ Record(m)
  <2>1. Posting(i)' = Posting(i) /\ issued' = issued
    <3>1. task[m] \in {"loaded", "posting"} <=> task'[m] \in {"loaded", "posting"}
      BY <1>6 DEF Mark, Record, Goto, TypeOK
    <3>2. issued' = issued
      BY <1>6 DEF Mark, Record, authority
    <3> QED
      BY <1>1, <3>1, <3>2 DEF Posting
  <2>2. Within(i)'
    BY <1>1, <1>2, <1>4, <2>1, Rests DEF SameTills
  <2> QED
    BY <1>5, <2>2 DEF Kept
<1>7. CASE Accept(m)
  <2>1. issued'[i] = issued[i] + 1 /\ task[m] = "posting" /\ task'[m] = "accepted"
    BY <1>7 DEF Accept, Goto, TypeOK
  <2>2. Posting(i)' = Posting(i) \ {m} /\ m \in Posting(i)
    BY <1>1, <2>1 DEF Posting
  <2>3. Drops(Posting(i), Asking(i), Posting(i)', Asking(i)', m)
    BY <1>2, <2>2 DEF Drops, SameTills
  <2>4. Within(i)'
    BY <1>1, <1>4, <2>1, <2>3, Arrives
  <2> QED
    BY <1>5, <2>4 DEF Kept
<1> QED
  BY <1>6, <1>7

\* What a step of a task does to its message and to other invoices.
LEMMA TaskFrame ==
  ASSUME TypeOK, TypeOK', NEW m \in Messages, Task(m)
  PROVE  /\ UNCHANGED <<of, device>>
         /\ \A n \in Messages : n # m => task'[n] = task[n]
         /\ \A i \in Invoices : i # of[m] => Calm(i) /\ status'[i] = status[i]
<1> USE DEF TypeOK, Goto, Become, Calm, invoice, authority, device, celery
<1>1. CASE Load(m)
  BY <1>1 DEF Load, Meets
<1>2. CASE SkipNonFiscal(m) \/ Defer(m) \/ Mark(m)
  BY <1>2 DEF SkipNonFiscal, Defer, Mark
<1>3. CASE Accept(m) \/ Record(m)
  BY <1>3 DEF Accept, Record
<1>4. CASE Persist(m)
  BY <1>4 DEF Persist
<1>5. CASE Transient(m) \/ Timeout(m)
  <2>1. Again(m) /\ UNCHANGED <<device, issued, met>> /\ (UNCHANGED lost \/ Lose(of[m]))
    BY <1>5 DEF Transient, Timeout
  <2>2. \A i \in Invoices : i # of[m] => lost'[i] = lost[i]
    BY <2>1 DEF Lose
  <2> QED
    BY <2>1, <2>2, AgainSteps
<1>6. CASE Refused(m) \/ AuthFails(m)
  BY <1>6 DEF Refused, AuthFails, Fail
<1>7. CASE Crash(m)
  BY <1>7 DEF Crash, Lose
<1> QED
  BY <1>1, <1>2, <1>3, <1>4, <1>5, <1>6, <1>7 DEF Task

\* A step of a task keeps the account of its invoice.
LEMMA TaskKeeps ==
  ASSUME IInv, TypeOK', NEW m \in Messages, Task(m), NEW i \in Invoices, of[m] = i
  PROVE  Kept(i)
<1> USE DEF IInv
<1>1. UNCHANGED <<of, device>> /\ \A n \in Messages : n # m => task'[n] = task[n]
  BY TaskFrame
<1>2. CASE Load(m)
  <2>1. CASE status[i] \in Submittable
    BY <1>2, <2>1, LoadKeeps
  <2>2. CASE status[i] \notin Submittable
    <3>1. /\ Calm(i) /\ task[m] = "queued" /\ task'[m] = "free" /\ status'[i] = status[i]
      BY <1>2, <2>2 DEF Load, Goto, Calm, invoice, authority, TypeOK
    <3>2. SameTasks(i) /\ SameTills(i)
      BY <1>1, <3>1 DEF SameTasks, SameTills, TasksOf, TillsOf, Posting, Asking, device, Steps
    <3> QED
      BY <2>2, <3>1, <3>2, Frame
  <2> QED
    BY <2>1, <2>2
<1>3. CASE SkipNonFiscal(m) \/ Defer(m)
  BY <1>1, <1>3, TaskEnds DEF SkipNonFiscal, Defer, Goto, Steps, invoice, authority, TypeOK
<1>4. CASE Mark(m) \/ Accept(m) \/ Record(m)
  BY <1>4, MiddleKeeps
<1>5. CASE Persist(m)
  <2>1. number'[i] = got[m] /\ got[m] # 0 /\ status'[i] = "valid"
    BY <1>5 DEF Persist, Carried, Become, TypeOK
  <2>2. task[m] = "logged" /\ task'[m] = "free" /\ UNCHANGED <<issued, lost, met>>
    BY <1>5 DEF Persist, Goto, authority, TypeOK
  <2> QED
    BY <1>1, <2>1, <2>2, TaskEnds DEF Steps
<1>6. CASE Transient(m)
  <2>1. Again(m) /\ task[m] = "posting" /\ UNCHANGED <<issued, lost, met>>
    BY <1>6 DEF Transient, authority
  <2> QED
    BY <1>1, <2>1, AgainSteps, TaskEnds DEF Steps
<1>7. CASE Timeout(m)
  <2>1. Again(m) /\ task[m] = "accepted" /\ UNCHANGED <<issued, met>> /\ lost'[i] = lost[i] + 1
    BY <1>7 DEF Timeout, Lose, TypeOK
  <2> QED
    BY <1>1, <2>1, AgainSteps, TaskEnds DEF Steps
<1>8. CASE Refused(m) \/ AuthFails(m)
  BY <1>1, <1>8, TaskEnds DEF Refused, AuthFails, Fail, Goto, Steps, authority, TypeOK
<1>9. CASE Crash(m)
  <2>1. task[m] \in Steps /\ task'[m] = "free" /\ UNCHANGED <<number, issued, met>>
    BY <1>9 DEF Crash, Goto, invoice, TypeOK
  <2>2. CASE task[m] \in {"accepted", "logged"}
    <3>1. lost'[i] = lost[i] + 1
      BY <1>9, <2>2 DEF Crash, Lose, TypeOK
    <3> QED
      BY <1>1, <2>1, <2>2, <3>1, TaskEnds
  <2>3. CASE task[m] \in {"loaded", "posting"}
    <3>1. UNCHANGED lost
      BY <1>9, <2>3 DEF Crash
    <3> QED
      BY <1>1, <2>1, <2>3, <3>1, TaskEnds
  <2> QED
    BY <2>1, <2>2, <2>3 DEF Steps
<1> QED
  BY <1>2, <1>3, <1>4, <1>5, <1>6, <1>7, <1>8, <1>9 DEF Task

\* A step of a till keeps the account of every invoice.
LEMMA TillKeeps ==
  ASSUME IInv, TypeOK', NEW t \in Tills, NEW i \in Invoices,
         Till(t) \/ (\E j \in Invoices : TillAsks(t, j))
  PROVE  Kept(i)
<1> USE DEF IInv
<1>1. CASE \E j \in Invoices : TillAsks(t, j)
  <2>1. PICK j \in Invoices : TillAsks(t, j)
    BY <1>1
  <2>2. CASE i = j
    BY <2>1, <2>2, AskKeeps
  <2>3. CASE i # j
    <3>1. Calm(i) /\ status'[i] = status[i]
      BY <2>1, <2>3 DEF TillAsks, Meets, Calm, invoice, authority, TypeOK
    <3>2. SameTasks(i) /\ SameTills(i)
      BY <2>1, <2>3 DEF TillAsks, TillAt, celery, TypeOK, SameTasks, SameTills, TasksOf, TillsOf,
                        Posting, Asking, TillSteps
    <3> QED
      BY <3>1, <3>2, Frame
  <2> QED
    BY <2>2, <2>3
<1>2. CASE Till(t)
  <2>1. /\ UNCHANGED <<sale, celery, met>> /\ \A u \in Tills : u # t => till'[u] = till[u]
        /\ till[t] \in TillSteps
        /\ \A k \in Invoices : k # sale[t] => Calm(k) /\ status'[k] = status[k]
    BY <1>2 DEF Till, DeviceIssues, DeviceFails, TillLoses, ResultLoads, ResultSaves, TillAt,
                Lose, Become, Calm, TillSteps, invoice, authority, TypeOK
  <2>2. CASE sale[t] # i
    <3>1. SameTasks(i) /\ SameTills(i)
      BY <2>1, <2>2 DEF SameTasks, SameTills, TasksOf, TillsOf, Posting, Asking, celery
    <3> QED
      BY <2>1, <2>2, <3>1, Frame
  <2>3. CASE sale[t] = i
    <3>1. CASE DeviceIssues(t)
      <4>1. /\ till[t] = "asked" /\ till'[t] = "issued" /\ issued'[i] = issued[i] + 1
            /\ UNCHANGED <<status, number, lost, met>>
        BY <2>3, <3>1 DEF DeviceIssues, TillAt, invoice, TypeOK
      <4>2. SameTasks(i) /\ TillsOf(i)' = TillsOf(i)
        BY <2>1, <4>1 DEF SameTasks, TasksOf, TillsOf, Posting, celery, TillSteps
      <4>3. Asking(i)' = Asking(i) \ {t} /\ t \in Asking(i)
        BY <2>1, <2>3, <4>1 DEF Asking
      <4>4. Drops(Posting(i), Asking(i), Posting(i)', Asking(i)', t)
        BY <4>2, <4>3 DEF Drops, SameTasks
      <4>5. Due(i)' => Due(i)
        <5> HIDE DEF TasksOf, TillsOf
        <5> QED
          BY <4>1, <4>2 DEF Due, SameTasks
      <4>6. Within(i)'
        BY <4>1, <4>4, <4>5, Arrives
      <4>7. Alone(i)'
        BY <4>1, <4>2, Shrinks DEF SameTasks
      <4> QED
        BY <4>6, <4>7 DEF Kept
    <3>2. CASE DeviceFails(t)
      <4>1. till[t] = "asked" /\ till'[t] = "idle" /\ UNCHANGED <<status, number, issued, lost>>
        BY <3>2 DEF DeviceFails, TillAt, invoice, authority, TypeOK
      <4> QED
        BY <2>1, <2>3, <4>1, TillEnds
    <3>3. CASE TillLoses(t)
      <4>1. /\ till[t] = "issued" /\ till'[t] = "idle" /\ lost'[i] = lost[i] + 1
            /\ UNCHANGED <<status, number, issued>>
        BY <2>3, <3>3 DEF TillLoses, TillAt, Lose, invoice, TypeOK
      <4> QED
        BY <2>1, <2>3, <4>1, TillEnds
    <3>4. CASE ResultLoads(t) /\ number[i] # 0
      <4>1. till[t] = "issued" /\ till'[t] = "idle" /\ UNCHANGED <<status, number, issued, lost>>
        BY <2>3, <3>4 DEF ResultLoads, TillAt, invoice, authority, TypeOK
      <4> QED
        BY <2>1, <2>3, <3>4, <4>1, TillEnds
    <3>5. CASE ResultLoads(t) /\ number[i] = 0
      <4>1. /\ till[t] = "issued" /\ till'[t] = "checked"
            /\ UNCHANGED <<status, number, issued, lost>>
        BY <2>3, <3>5 DEF ResultLoads, TillAt, invoice, authority, TypeOK
      <4>2. SameTasks(i) /\ SameTills(i)
        BY <2>1, <4>1 DEF SameTasks, SameTills, TasksOf, TillsOf, Posting, Asking, celery, TillSteps
      <4> QED
        BY <2>1, <4>1, <4>2, Frame DEF Calm
    <3>6. CASE ResultSaves(t)
      <4>1. /\ till[t] = "checked" /\ till'[t] = "idle" /\ UNCHANGED <<issued, lost>>
            /\ number'[i] = gave[t] /\ gave[t] # 0 /\ status'[i] = "valid"
        BY <2>3, <3>6 DEF ResultSaves, TillAt, Become, authority, TypeOK, Carried
      <4> QED
        BY <2>1, <2>3, <4>1, TillEnds
    <3> QED
      BY <1>2, <3>1, <3>2, <3>3, <3>4, <3>5, <3>6 DEF Till
  <2> QED
    BY <2>2, <2>3
<1> QED
  BY <1>1, <1>2

\* The steps of neither a task nor a till start and issue nothing.
LEMMA OthersKeep ==
  ASSUME IInv, TypeOK', NEW i \in Invoices,
         \/ \E m \in Messages, j \in Invoices : Create(m, j) \/ Resubmit(m, j) \/ Retry(m, j)
         \/ \E m, n \in Messages : Redeliver(m, n)
         \/ \E r \in Requests, j \in Invoices :
               BeginDelete(r, j) \/ BeginCancel(r, j) \/ BeginPortal(r, j)
         \/ \E r \in Requests : Finish(r)
         \/ \E j \in Invoices : DeadlinePasses(j)
         \/ Finalize \/ SetToken \/ UNCHANGED vars
  PROVE  Kept(i)
<1> USE DEF IInv
<1>1. SUFFICES ASSUME \/ UNCHANGED <<task, of>>
                      \/ \E m \in Messages : /\ task[m] = "free" /\ task'[m] = "queued"
                                             /\ \A n \in Messages \ {m} : task'[n] = task[n] /\ of'[n] = of[n],
                      UNCHANGED device, Calm(i),
                      status'[i] \in Submittable => status[i] \in Submittable \/ number[i] = 0
               PROVE  Kept(i)
  <2> USE DEF Calm, invoice, celery, authority, device
  <2>1. ASSUME NEW m \in Messages, NEW j \in Invoices, Create(m, j) \/ Resubmit(m, j) \/ Retry(m, j)
        PROVE  Kept(i)
    <3>1. /\ task[m] = "free" /\ task'[m] = "queued"
          /\ \A n \in Messages \ {m} : task'[n] = task[n] /\ of'[n] = of[n]
      BY <2>1 DEF Create, Resubmit, Retry, Delay, Goto, TypeOK
    <3>2. UNCHANGED device /\ Calm(i) /\ (status'[i] = status[i] \/ number[i] = 0)
      BY <2>1 DEF Create, Resubmit, Retry, Become, Carried, TypeOK
    <3> QED
      BY <1>1, <3>1, <3>2
  <2>2. ASSUME NEW m \in Messages, NEW n \in Messages, Redeliver(m, n) PROVE Kept(i)
    <3>1. /\ task[n] = "free" /\ task'[n] = "queued"
          /\ \A k \in Messages \ {n} : task'[k] = task[k] /\ of'[k] = of[k]
      BY <2>2 DEF Redeliver, Goto, TypeOK
    <3>2. UNCHANGED device /\ Calm(i) /\ status'[i] = status[i]
      BY <2>2 DEF Redeliver
    <3> QED
      BY <1>1, <3>1, <3>2
  <2>3. CASE \E r \in Requests, j \in Invoices :
                BeginDelete(r, j) \/ BeginCancel(r, j) \/ BeginPortal(r, j)
    BY <1>1, <2>3 DEF BeginDelete, BeginCancel, BeginPortal, Begin
  <2>4. CASE \E r \in Requests : Finish(r)
    BY <1>1, <2>4 DEF Finish, Become, Submittable, TypeOK
  <2>5. CASE \E j \in Invoices : DeadlinePasses(j)
    BY <1>1, <2>5 DEF DeadlinePasses
  <2>6. CASE Finalize
    BY <1>1, <2>6 DEF Finalize, Submittable
  <2>7. CASE SetToken
    BY <1>1, <2>7 DEF SetToken
  <2>8. CASE UNCHANGED vars
    BY <1>1, <2>8 DEF vars
  <2> QED
    BY <2>1, <2>2, <2>3, <2>4, <2>5, <2>6, <2>7, <2>8
<1>2. SameTasks(i)
  BY <1>1 DEF SameTasks, TasksOf, Posting, Steps
<1>3. SameTills(i)
  BY <1>1 DEF SameTills, TillsOf, Asking, device
<1> QED
  BY <1>1, <1>2, <1>3, Frame

\* Every step keeps the account of every invoice.
LEMMA AccountStep ==
  ASSUME IInv, TypeOK', [Next]_vars, NEW i \in Invoices
  PROVE  Kept(i)
<1> USE DEF IInv
<1>1. ASSUME NEW m \in Messages, Task(m) PROVE Kept(i)
  <2>1. CASE of[m] = i
    BY <1>1, <2>1, TaskKeeps
  <2>2. CASE of[m] # i
    BY <1>1, <2>2, TaskFrame, Elsewhere
  <2> QED
    BY <2>1, <2>2
<1>2. ASSUME NEW t \in Tills, Till(t) \/ (\E j \in Invoices : TillAsks(t, j)) PROVE Kept(i)
  BY <1>2, TillKeeps
<1> QED
  BY <1>1, <1>2, OthersKeep DEF Next

\* No step makes the status or the records disagree with the number.
LEMMA RecordStep ==
  ASSUME IInv, TypeOK', [Next]_vars
  PROVE  Carried' /\ FiscalStatus' /\ NumberOnRecord'
<1> DEFINE Goal == Carried' /\ FiscalStatus' /\ NumberOnRecord'
<1> USE DEF IInv, TypeOK, Carried, FiscalStatus, NumberOnRecord
<1> USE DEF Goto, Become, invoice, celery, admin, device, authority
<1>1. ASSUME NEW m \in Messages, NEW i \in Invoices, Create(m, i) \/ Resubmit(m, i) \/ Retry(m, i)
      PROVE  Goal
  <2>1. /\ UNCHANGED <<number, logged, got, device, met>>
        /\ task'[m] = "queued" /\ \A n \in Messages \ {m} : task'[n] = task[n] /\ of'[n] = of[n]
    BY <1>1 DEF Create, Resubmit, Retry, Delay
  <2>2. Carried'
    BY <1>1, <2>1 DEF Create, Resubmit, Retry
  <2>3. FiscalStatus' /\ NumberOnRecord'
    BY <1>1, <2>1 DEF Create, Resubmit, Retry
  <2> QED
    BY <2>2, <2>3
<1>2. ASSUME NEW m \in Messages, NEW n \in Messages, Redeliver(m, n) PROVE Goal
  BY <1>2 DEF Redeliver
<1>3. ASSUME NEW i \in Invoices, Meets(i) \/ UNCHANGED met
      PROVE  \A j \in Invoices : met'[j] = 0 => met[j] = 0
  <2>1. ASSUME NEW j \in Invoices, met'[j] = 0 PROVE met[j] = 0
    BY <1>3, <2>1, FbrAssumption DEF Meets
  <2> QED
    BY <2>1
<1>4. ASSUME NEW m \in Messages, Load(m) PROVE Goal
  <2>1. \A j \in Invoices : met'[j] = 0 => met[j] = 0
    BY <1>3, <1>4 DEF Load
  <2>2. UNCHANGED <<number, status, logged, of, got, till, gave>>
    BY <1>4 DEF Load
  <2>3. \A n \in Messages : task'[n] = task[n] \/ task'[n] \in {"loaded", "free"}
    BY <1>4 DEF Load
  <2> QED
    BY <2>1, <2>2, <2>3
<1>5. ASSUME NEW m \in Messages, task[m] \in Steps PROVE met[of[m]] = 0 => number[of[m]] = 0
  <2>1. m \in TasksOf(of[m]) /\ Alone(of[m])
    BY <1>5 DEF TasksOf
  <2> HIDE DEF TasksOf, TillsOf
  <2> QED
    BY <2>1 DEF Alone
<1>6. ASSUME NEW m \in Messages, SkipNonFiscal(m) \/ Defer(m) \/ Mark(m) PROVE Goal
  <2>1. met[of[m]] = 0 => number[of[m]] = 0
    BY <1>5, <1>6 DEF SkipNonFiscal, Defer, Mark, Steps
  <2> QED
    BY <1>6, <2>1 DEF SkipNonFiscal, Defer, Mark
<1>7. ASSUME NEW m \in Messages, Accept(m) PROVE Goal
  <2>1. issued[of[m]] + 1 # 0
    OBVIOUS
  <2> QED
    BY <1>7, <2>1 DEF Accept
<1>8. ASSUME NEW m \in Messages, Record(m) PROVE Goal
  BY <1>8 DEF Record
<1>9. ASSUME NEW m \in Messages, Persist(m) PROVE Goal
  BY <1>9 DEF Persist
<1>10. ASSUME NEW m \in Messages, Transient(m) \/ Timeout(m) PROVE Goal
  <2>1. Again(m) /\ task[m] \in Steps /\ UNCHANGED <<device, met>>
    BY <1>10 DEF Transient, Timeout, Steps
  <2>2. met[of[m]] = 0 => number[of[m]] = 0
    BY <1>5, <2>1
  <2>3. /\ UNCHANGED <<number, logged, of, got>>
        /\ \A n \in Messages : n # m => task'[n] = task[n]
        /\ task'[m] \in {"free", "queued"}
        /\ status'[of[m]] \in {status[of[m]], "failed"}
        /\ \A i \in Invoices : i # of[m] => status'[i] = status[i]
    BY <2>1, AgainSteps
  <2>4. FiscalStatus'
    BY <2>1, <2>2, <2>3
  <2>5. NumberOnRecord' /\ Carried'
    BY <2>1, <2>3
  <2> QED
    BY <2>4, <2>5
<1>11. ASSUME NEW m \in Messages, Refused(m) \/ AuthFails(m) PROVE Goal
  <2>1. met[of[m]] = 0 => number[of[m]] = 0
    BY <1>5, <1>11 DEF Refused, AuthFails, Steps
  <2> QED
    BY <1>11, <2>1 DEF Refused, AuthFails, Fail
<1>12. ASSUME NEW m \in Messages, Crash(m) PROVE Goal
  BY <1>12 DEF Crash
<1>13. ASSUME NEW r \in Requests, NEW i \in Invoices,
              BeginDelete(r, i) \/ BeginCancel(r, i) \/ BeginPortal(r, i)
       PROVE  Goal
  BY <1>13 DEF BeginDelete, BeginCancel, BeginPortal, Begin
<1>14. ASSUME NEW r \in Requests, Finish(r) PROVE Goal
  BY <1>14 DEF Finish
<1>15. ASSUME NEW i \in Invoices, DeadlinePasses(i) PROVE Goal
  BY <1>15 DEF DeadlinePasses
<1>16. CASE Finalize
  BY <1>16 DEF Finalize, Aged
<1>17. CASE SetToken
  BY <1>17 DEF SetToken
<1>18. ASSUME NEW t \in Tills, NEW i \in Invoices, TillAsks(t, i) PROVE Goal
  <2>1. \A j \in Invoices : met'[j] = 0 => met[j] = 0
    BY <1>3, <1>18 DEF TillAsks
  <2>2. UNCHANGED <<number, status, logged, of, got, task, gave>>
    BY <1>18 DEF TillAsks
  <2>3. \A u \in Tills : till'[u] = till[u] \/ till'[u] = "asked"
    BY <1>18 DEF TillAsks, TillAt
  <2> QED
    BY <2>1, <2>2, <2>3
<1>19. ASSUME NEW t \in Tills, DeviceIssues(t) PROVE Goal
  <2>1. issued[sale[t]] + 1 # 0
    OBVIOUS
  <2> QED
    BY <1>19, <2>1 DEF DeviceIssues, TillAt
<1>20. ASSUME NEW t \in Tills, DeviceFails(t) \/ TillLoses(t) \/ ResultLoads(t) PROVE Goal
  BY <1>20 DEF DeviceFails, TillLoses, ResultLoads, TillAt
<1>21. ASSUME NEW t \in Tills, ResultSaves(t) PROVE Goal
  BY <1>21 DEF ResultSaves, TillAt
<1>22. CASE UNCHANGED vars
  BY <1>22 DEF vars
<1> QED
  BY <1>1, <1>2, <1>4, <1>6, <1>7, <1>8, <1>9, <1>10, <1>11, <1>12, <1>13, <1>14, <1>15,
     <1>16, <1>17, <1>18, <1>19, <1>20, <1>21, <1>22 DEF Next, Task, Till

LEMMA Inductive == Spec => []IInv
<1>1. Init => IInv
  <2> SUFFICES ASSUME Init PROVE IInv
    OBVIOUS
  <2>1. TypeOK
    BY FbrAssumption DEF Init, TypeOK, Statuses
  <2>2. Carried /\ FiscalStatus /\ NumberOnRecord
    BY DEF Init, Carried, FiscalStatus, NumberOnRecord
  <2>3. ASSUME NEW i \in Invoices PROVE Within(i) /\ Alone(i)
    <3>1. Posting(i) = {} /\ Asking(i) = {} /\ TasksOf(i) = {} /\ TillsOf(i) = {}
      BY DEF Init, Posting, Asking, TasksOf, TillsOf, Steps, TillSteps
    <3>2. issued[i] = 0 /\ lost[i] = 0 /\ met[i] = 0
      BY DEF Init
    <3> HIDE DEF Posting, Asking, TasksOf, TillsOf
    <3>3. Alone(i)
      BY <3>1 DEF Alone
    <3>4. Cardinality(Posting(i)) = 0 /\ Cardinality(Asking(i)) = 0
      BY <3>1, FS_EmptySet
    <3>5. Within(i)
      BY <3>2, <3>4 DEF Within
    <3> QED
      BY <3>3, <3>5
  <2> QED
    BY <2>1, <2>2, <2>3 DEF IInv
<1>2. ASSUME IInv, [Next]_vars, TypeOK' PROVE IInv'
  <2>1. ASSUME NEW i \in Invoices PROVE Within(i)' /\ Alone(i)'
    BY <1>2, AccountStep DEF Kept
  <2> QED
    BY <1>2, <2>1, RecordStep DEF IInv
<1>3. IInv /\ TypeOK' /\ [Next]_vars => IInv'
  BY <1>2
<1> QED
  BY <1>1, <1>3, TypeCorrect, PTL DEF Spec

\* However many workers, tills, messages and requests there are, and whatever
\* times out or crashes, an invoice has no more numbers than its first one, one
\* for each that was lost and one for each time two fiscalizations of it met.
THEOREM NumbersAreAccounted == Spec => []FiscalizedOnce
<1>1. IInv => FiscalizedOnce
  <2> SUFFICES ASSUME IInv, NEW i \in Invoices PROVE issued[i] <= 1 + lost[i] + met[i]
    BY DEF FiscalizedOnce
  <2>1. Cardinality(Posting(i)) \in Nat /\ Cardinality(Asking(i)) \in Nat
    BY FbrAssumption, FS_Subset, FS_CardinalityType DEF Posting, Asking
  <2>2. issued[i] \in Nat /\ lost[i] \in Nat /\ met[i] \in Nat /\ Within(i)
    BY FbrAssumption DEF IInv, TypeOK
  <2> HIDE DEF Posting, Asking, Due
  <2> QED
    BY <2>1, <2>2 DEF Within
<1> QED
  BY <1>1, Inductive, PTL

\* The status of an invoice contradicts its number only after two
\* fiscalizations of it have met, and never shows a sale without one as accepted.
THEOREM StatusFollowsNumber == Spec => []FiscalStatus
<1>1. IInv => FiscalStatus
  BY DEF IInv
<1> QED
  BY <1>1, Inductive, PTL

\* The number on an invoice is in an append-only record, whoever brought it.
THEOREM NumbersAreRecorded == Spec => []NumberOnRecord
<1>1. IInv => NumberOnRecord
  BY DEF IInv
<1> QED
  BY <1>1, Inductive, PTL

\* A number is never cleared, and never replaced unless two fiscalizations of
\* the invoice have met.
THEOREM NumbersAreFinal == Spec => NumberIsFinal
<1>1. ASSUME IInv, TypeOK', Next, NEW i \in Invoices, number[i] # 0
      PROVE  number'[i] # 0 /\ (met[i] = 0 => number'[i] = number[i])
  <2> USE DEF IInv, TypeOK, invoice
  <2>1. ASSUME NEW m \in Messages, task[m] \in Steps, of[m] = i PROVE met[i] # 0
    <3>1. m \in TasksOf(i) /\ Alone(i)
      BY <1>1, <2>1 DEF TasksOf
    <3> HIDE DEF TasksOf, TillsOf
    <3> QED
      BY <1>1, <3>1 DEF Alone
  <2>2. ASSUME NEW t \in Tills, till[t] \in TillSteps, sale[t] = i PROVE met[i] # 0
    <3>1. t \in TillsOf(i) /\ Alone(i)
      BY <1>1, <2>2 DEF TillsOf
    <3> HIDE DEF TasksOf, TillsOf
    <3> QED
      BY <1>1, <3>1 DEF Alone
  <2>3. ASSUME NEW m \in Messages, Task(m), ~ Persist(m) PROVE UNCHANGED number
    <3>1. CASE Transient(m) \/ Timeout(m)
      BY <1>1, <3>1, AgainSteps DEF Transient, Timeout
    <3> QED
      BY <2>3, <3>1 DEF Task, Load, SkipNonFiscal, Defer, Mark, Accept, Record,
                        Refused, AuthFails, Crash, Fail
  <2>4. ASSUME NEW m \in Messages, Persist(m)
        PROVE  number'[i] # 0 /\ (met[i] = 0 => number'[i] = number[i])
    <3>1. CASE of[m] = i
      BY <1>1, <2>4, <3>1, <2>1 DEF Persist, Carried, Steps
    <3>2. CASE of[m] # i
      BY <1>1, <2>4, <3>2 DEF Persist
    <3> QED
      BY <3>1, <3>2
  <2>5. ASSUME NEW t \in Tills, ResultSaves(t)
        PROVE  number'[i] # 0 /\ (met[i] = 0 => number'[i] = number[i])
    <3>1. CASE sale[t] = i
      BY <1>1, <2>5, <3>1, <2>2 DEF ResultSaves, Carried, TillSteps
    <3>2. CASE sale[t] # i
      BY <1>1, <2>5, <3>2 DEF ResultSaves
    <3> QED
      BY <3>1, <3>2
  <2>6. ASSUME NEW t \in Tills, ~ ResultSaves(t), Till(t) \/ (\E j \in Invoices : TillAsks(t, j))
        PROVE  UNCHANGED number
    BY <2>6 DEF Till, TillAsks, DeviceIssues, DeviceFails, TillLoses, ResultLoads
  <2>7. CASE \E m \in Messages, j \in Invoices : Create(m, j) \/ Resubmit(m, j) \/ Retry(m, j)
    BY <1>1, <2>7 DEF Create, Resubmit, Retry
  <2>8. CASE \E m, n \in Messages : Redeliver(m, n)
    BY <1>1, <2>8 DEF Redeliver
  <2>9. CASE \E r \in Requests, j \in Invoices :
                BeginDelete(r, j) \/ BeginCancel(r, j) \/ BeginPortal(r, j)
    BY <1>1, <2>9 DEF BeginDelete, BeginCancel, BeginPortal, Begin
  <2>10. CASE (\E r \in Requests : Finish(r)) \/ (\E j \in Invoices : DeadlinePasses(j))
              \/ Finalize \/ SetToken
    BY <1>1, <2>10 DEF Finish, DeadlinePasses, Finalize, SetToken
  <2> QED
    BY <1>1, <2>3, <2>4, <2>5, <2>6, <2>7, <2>8, <2>9, <2>10 DEF Next
<1>2. IInv /\ TypeOK' /\ [Next]_vars
        => [\A i \in Invoices : number[i] # 0 =>
               /\ number'[i] # 0
               /\ met[i] = 0 => number'[i] = number[i]]_vars
  BY <1>1
<1> QED
  BY <1>2, Inductive, TypeCorrect, PTL DEF Spec, NumberIsFinal
=============================================================================
