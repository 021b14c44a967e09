---------------------- MODULE WebhookDeliveriesProofs -----------------------
(***************************************************************************)
(* Types of WebhookDeliveries, the bound on accepted posts, and that what  *)
(* was delivered stays so, for any number of slots and any bounds.         *)
(***************************************************************************)
EXTENDS WebhookDeliveries, FiniteSetTheorems, TLAPS

-----------------------------------------------------------------------------
(* Cardinality of a set that changes in one element.                       *)

(* A set that gained one element at most.                                  *)
LEMMA OneMore ==
    ASSUME NEW A, NEW B, NEW x, IsFiniteSet(A), B \subseteq A \cup {x}
    PROVE  /\ IsFiniteSet(B)
           /\ Cardinality(B) \in Nat /\ Cardinality(A) \in Nat
           /\ Cardinality(B) <= Cardinality(A) + 1
<1>0. Cardinality(A) \in Nat
  BY FS_CardinalityType
<1>1. IsFiniteSet(A \cup {x}) /\ Cardinality(A \cup {x}) <= Cardinality(A) + 1
  <2> DEFINE n == Cardinality(A)
             m == Cardinality(A \cup {x})
  <2>1. IsFiniteSet(A \cup {x}) /\ m = IF x \in A THEN n ELSE n + 1
    BY FS_AddElement, Zenon
  <2>2. n \in Nat
    BY <1>0
  <2> HIDE DEF n, m
  <2>3. m <= n + 1
    BY <2>1, <2>2
  <2> QED
    BY <2>1, <2>3 DEF n, m
<1>2. IsFiniteSet(B) /\ Cardinality(B) <= Cardinality(A \cup {x})
  BY <1>1, FS_Subset
<1>3. Cardinality(B) \in Nat /\ Cardinality(A \cup {x}) \in Nat
  BY <1>1, <1>2, FS_CardinalityType
<1> QED
  BY <1>0, <1>1, <1>2, <1>3

(* A set that lost nothing but may have shrunk.                            *)
LEMMA NoMore ==
    ASSUME NEW A, NEW B, IsFiniteSet(A), B \subseteq A
    PROVE  /\ IsFiniteSet(B)
           /\ Cardinality(B) \in Nat /\ Cardinality(A) \in Nat
           /\ Cardinality(B) <= Cardinality(A)
BY FS_Subset, FS_CardinalityType

(* A set that lost a given element.                                        *)
LEMMA OneLess ==
    ASSUME NEW A, NEW B, NEW x, IsFiniteSet(A), x \in A, B \subseteq A \ {x}
    PROVE  /\ IsFiniteSet(B)
           /\ Cardinality(B) \in Nat /\ Cardinality(A) \in Nat
           /\ Cardinality(B) + 1 <= Cardinality(A)
<1>1. IsFiniteSet(A \ {x}) /\ Cardinality(A \ {x}) = Cardinality(A) - 1
      /\ Cardinality(A) \in Nat
  BY FS_RemoveElement, FS_CardinalityType
<1>2. IsFiniteSet(B) /\ Cardinality(B) <= Cardinality(A \ {x})
  BY <1>1, FS_Subset
<1>3. Cardinality(B) \in Nat
  BY <1>2, FS_CardinalityType
<1> QED
  BY <1>1, <1>2, <1>3

-----------------------------------------------------------------------------
(* Types.                                                                  *)

(* The backoff is a natural number of units.                               *)
LEMMA BackoffType == \A n \in Nat \ {0} : Backoff(n) \in Nat
<1> SUFFICES ASSUME NEW n \in Nat \ {0} PROVE Backoff(n) \in Nat
  OBVIOUS
<1>1. CASE n > 10
  BY <1>1, BoundsAssumption DEF Backoff
<1>2. CASE ~(n > 10)
  <2>1. n \in {1, 2, 3, 4, 5, 6, 7, 8, 9, 10}
    BY <1>2
  <2>2. Doublings[n] \in Nat
    BY <2>1 DEF Doublings
  <2> QED
    BY <1>2, <2>2, BoundsAssumption DEF Backoff
<1> QED
  BY <1>1, <1>2

(* The table of jobs keeps its type when a job is added.                   *)
LEMMA EnqueuedType ==
    ASSUME NEW k, NEW at \in Nat, job \in [Keys -> Job]
    PROVE  Enqueued(k, at) \in [Keys -> Job]
BY DEF Enqueued, Job

(* The blank row and the blank attempt have their types.                   *)
LEMMA BlankTypes == NoRow \in Row /\ Idle \in Attempt
<1>1. NoRow \in Row
  BY DEF NoRow, Row, Statuses
<1>2. 0 \in 0 .. MaxKey
  BY BoundsAssumption
<1> QED
  BY <1>1, <1>2 DEF Idle, Attempt, PCs

(* An attempt that moves to another pc keeps its type.                     *)
LEMMA GotoType ==
    ASSUME NEW s \in Slots, NEW pc \in PCs, attempt \in [Slots -> Attempt], Goto(s, pc)
    PROVE  attempt' \in [Slots -> Attempt]
BY DEF Goto, Attempt

(* The initial state has the types.                                        *)
LEMMA InitType == Init => TypeOK
<1> SUFFICES ASSUME Init PROVE TypeOK
  OBVIOUS
<1>1. row \in Row /\ attempt \in [Slots -> Attempt]
  BY BlankTypes DEF Init
<1>2. job \in [Keys -> Job]
  BY DEF Init, Job
<1> QED
  BY <1>1, <1>2 DEF Init, TypeOK

(* Each action keeps the types.                                            *)
LEMMA StepType == TypeOK /\ [Next]_vars => TypeOK'
<1> SUFFICES ASSUME TypeOK, [Next]_vars PROVE TypeOK'
  OBVIOUS
<1> USE DEF TypeOK
<1>1. ASSUME NEW s \in Slots, EmitCreate(s) PROVE TypeOK'
  BY <1>1 DEF EmitCreate, Goto, NoRow, Row, Attempt, Statuses, PCs
<1>2. ASSUME NEW s \in Slots, EmitEnqueue(s) PROVE TypeOK'
  BY <1>2, EnqueuedType, BlankTypes DEF EmitEnqueue
<1>3. ASSUME NEW s \in Slots, Work(s) PROVE TypeOK'
  <2>1. PICK k \in Keys : TakeJob(s, k)
    BY <1>3 DEF Work
  <2>2. job' \in [Keys -> Job]
    <3>1. job' = [job EXCEPT ![k].state = "leased"]
      BY <2>1 DEF TakeJob
    <3> QED
      BY <3>1 DEF Job
  <2>3. [Idle EXCEPT !.pc = "find", !.key = k] \in Attempt
    <3>1. k \in 0 .. MaxKey
      BY BoundsAssumption DEF Keys
    <3> QED
      BY <3>1, BlankTypes DEF Attempt, PCs
  <2> QED
    BY <2>1, <2>2, <2>3 DEF TakeJob
<1>4. ASSUME NEW s \in Slots, Retry(s) PROVE TypeOK'
  <2>1. [Idle EXCEPT !.pc = "reset", !.copy = row] \in Attempt
    BY BlankTypes DEF Attempt, PCs
  <2> QED
    BY <1>4, <2>1 DEF Retry
<1>5. ASSUME NEW s \in Slots, Reset(s) PROVE TypeOK'
  BY <1>5 DEF Reset, Goto, Row, Attempt, Statuses, PCs
<1>6. ASSUME NEW s \in Slots, Find(s) PROVE TypeOK'
  <2>1. PICK pc \in {"done", "bury", "post"} :
           attempt' = [attempt EXCEPT ![s].copy = row, ![s].pc = pc]
    BY <1>6 DEF Find
  <2>2. pc \in PCs
    BY DEF PCs
  <2>3. attempt' \in [Slots -> Attempt]
    BY <2>1, <2>2 DEF Attempt
  <2> QED
    BY <1>6, <2>3 DEF Find
<1>7. ASSUME NEW s \in Slots, Bury(s) PROVE TypeOK'
  BY <1>7 DEF Bury, Goto, Row, Attempt, Statuses, PCs
<1>8. ASSUME NEW s \in Slots, Post(s) PROVE TypeOK'
  <2>1. "save delivered" \in PCs /\ "save failed" \in PCs
    BY DEF PCs
  <2>2. attempt' \in [Slots -> Attempt]
    <3>1. CASE Goto(s, "save delivered")
      BY <2>1, <3>1, GotoType
    <3>2. CASE Goto(s, "save failed")
      BY <2>1, <3>2, GotoType
    <3> QED
      BY <1>8, <3>1, <3>2 DEF Post
  <2> QED
    <3>1. /\ accepted' = accepted + 1 \/ accepted' = accepted
          /\ lost' = lost + 1 \/ lost' = lost
      BY <1>8 DEF Post
    <3>2. row' = row /\ job' = job /\ now' = now /\ retries' = retries /\ faults' = faults
      BY <1>8 DEF Post
    <3> QED
      BY <2>2, <3>1, <3>2
<1>9. ASSUME NEW s \in Slots, SaveDelivered(s) PROVE TypeOK'
  <2>0. Count(s) \in Nat
    <3>1. attempt[s].copy.attempts \in Nat
      BY DEF Attempt, Row
    <3> QED
      BY <3>1 DEF Count
  <2>1. row' \in Row
    BY <1>9, <2>0 DEF SaveDelivered, Row, Statuses
  <2> QED
    BY <1>9, <2>1, GotoType DEF SaveDelivered, PCs
<1>10. ASSUME NEW s \in Slots, SaveFailed(s) PROVE TypeOK'
  <2>1. Count(s) \in Nat \ {0}
    BY DEF Count, Attempt, Row
  <2>2. now + Backoff(Count(s)) \in Nat
    BY <2>1, BackoffType
  <2>3. row' \in Row
    BY <1>10, <2>1 DEF SaveFailed, Row, Statuses
  <2>4. attempt' \in [Slots -> Attempt]
    <3> DEFINE at == now + Backoff(Count(s))
               pc == IF Last(s) THEN "done" ELSE "chain"
    <3>1. at \in Nat /\ pc \in PCs
      BY <2>2 DEF PCs
    <3>2. attempt' = [attempt EXCEPT ![s].pc = pc, ![s].at = at]
      BY <1>10 DEF SaveFailed
    <3> QED
      BY <3>1, <3>2 DEF Attempt
  <2> QED
    BY <1>10, <2>3, <2>4 DEF SaveFailed
<1>11. ASSUME NEW s \in Slots, Chain(s) PROVE TypeOK'
  BY <1>11, EnqueuedType DEF Chain, Goto, Attempt, PCs
<1>12. ASSUME NEW s \in Slots, Done(s) PROVE TypeOK'
  <2>1. job' \in [Keys -> Job]
    BY <1>12 DEF Done, Job
  <2> QED
    BY <1>12, <2>1, BlankTypes DEF Done
<1>13. ASSUME NEW s \in Slots, Fault(s) PROVE TypeOK'
  <2>1. job' \in [Keys -> Job]
    BY <1>13 DEF Fault, Job
  <2> QED
    BY <1>13, <2>1, BlankTypes DEF Fault
<1>14. CASE Tick
  BY <1>14 DEF Tick
<1>15. CASE UNCHANGED vars
  BY <1>15 DEF vars
<1> QED
  BY <1>1, <1>2, <1>3, <1>4, <1>5, <1>6, <1>7, <1>8, <1>9, <1>10, <1>11,
     <1>12, <1>13, <1>14, <1>15 DEF Next, Step

(* Rows, jobs, copies and counters always have their types.                *)
THEOREM TypeCorrect == Spec => []TypeOK
BY InitType, StepType, PTL DEF Spec

-----------------------------------------------------------------------------
(* The bound on accepted posts: what may still lead to a post is paid for  *)
(* by the creation of the row, by a manual retry or by a fault, and a post *)
(* whose 2xx arrives uses it up; one whose answer was lost pays for its    *)
(* own successor.                                                          *)

Queued == {k \in Keys : job[k].state = "queued"}
Trying == {s \in Slots : attempt[s].pc \in
              {"schedule", "reset", "find", "post", "save failed", "chain"}}
Unborn == IF row.status = "none" THEN 1 ELSE 0

Budget ==
    accepted + Cardinality(Queued) + Cardinality(Trying) + Unborn
        <= 1 + retries + faults + lost

(* The keys and the slots are finitely many, and so are their subsets.     *)
LEMMA Finite ==
    /\ IsFiniteSet(Queued) /\ IsFiniteSet(Trying)
    /\ Cardinality(Queued) \in Nat /\ Cardinality(Trying) \in Nat
<1>1. IsFiniteSet(Keys)
  BY FS_Interval, BoundsAssumption DEF Keys
<1>2. Queued \subseteq Keys /\ Trying \subseteq Slots
  BY DEF Queued, Trying
<1>3. IsFiniteSet(Queued) /\ IsFiniteSet(Trying)
  BY <1>1, <1>2, SlotsAssumption, FS_Subset
<1> QED
  BY <1>3, FS_CardinalityType

(* enqueue queues the job of that key at most.                             *)
LEMMA EnqueuedQueues ==
    ASSUME NEW k, NEW at, job \in [Keys -> Job], job' = Enqueued(k, at)
    PROVE  Queued' \subseteq Queued \cup {k}
<1>1. \A j \in Keys : j # k => job'[j] = job[j]
  BY DEF Enqueued
<1> QED
  BY <1>1 DEF Queued

(* Only the attempt that moves may enter or leave Trying.                  *)
LEMMA GotoTries ==
    ASSUME NEW s \in Slots, NEW pc, attempt \in [Slots -> Attempt], Goto(s, pc)
    PROVE  /\ attempt'[s].pc = pc
           /\ \A r \in Slots \ {s} : attempt'[r] = attempt[r]
BY DEF Goto, Attempt

(* Initially only the row that emit will create may lead to a post.        *)
LEMMA InitBudget == Init => Budget
<1> SUFFICES ASSUME Init PROVE Budget
  OBVIOUS
<1>1. Queued = {} /\ Trying = {}
  BY DEF Init, Queued, Trying, Idle
<1>2. Cardinality(Queued) = 0 /\ Cardinality(Trying) = 0
  BY <1>1, FS_EmptySet
<1> QED
  BY <1>2 DEF Init, Budget, Unborn, NoRow

(* Each action keeps the budget.                                           *)
LEMMA StepBudget == TypeOK /\ Budget /\ [Next]_vars => Budget'
<1> SUFFICES ASSUME TypeOK, Budget, [Next]_vars PROVE Budget'
  OBVIOUS
<1> DEFINE q == Cardinality(Queued)
           t == Cardinality(Trying)
<1>0. /\ accepted \in Nat /\ retries \in Nat /\ faults \in Nat /\ lost \in Nat
      /\ q \in Nat /\ t \in Nat /\ Unborn \in {0, 1}
      /\ accepted + q + t + Unborn <= 1 + retries + faults + lost
      /\ IsFiniteSet(Queued) /\ IsFiniteSet(Trying)
  BY Finite DEF TypeOK, Budget, Unborn
<1>a. job \in [Keys -> Job] /\ attempt \in [Slots -> Attempt] /\ row \in Row
  BY DEF TypeOK
<1>n. Unborn' \in {0, 1}
  BY DEF Unborn
<1> SUFFICES accepted' + q' + t' + Unborn' <= 1 + retries' + faults' + lost'
  BY DEF Budget
<1> HIDE DEF q, t
<1>1. ASSUME NEW s \in Slots, EmitCreate(s) PROVE accepted' + q' + t' + Unborn' <= 1 + retries' + faults' + lost'
  <2>1. Queued' = Queued
    BY <1>1 DEF EmitCreate, Queued
  <2>2. Trying' \subseteq Trying \cup {s}
    BY <1>1, <1>a DEF EmitCreate, Goto, Trying
  <2>3. q' = q /\ t' <= t + 1 /\ t' \in Nat
    BY <2>1, <2>2, <1>0, OneMore DEF q, t
  <2>4. Unborn = 1 /\ Unborn' = 0
    BY <1>1 DEF EmitCreate, Unborn, NoRow
  <2> QED
    BY <1>1, <1>0, <2>3, <2>4 DEF EmitCreate
<1>2. ASSUME NEW s \in Slots, EmitEnqueue(s) PROVE accepted' + q' + t' + Unborn' <= 1 + retries' + faults' + lost'
  <2>1. Queued' \subseteq Queued \cup {1}
    BY <1>2, <1>a, EnqueuedQueues DEF EmitEnqueue
  <2>2. s \in Trying /\ Trying' \subseteq Trying \ {s}
    BY <1>2, <1>a DEF EmitEnqueue, Trying, Idle
  <2>3. q' <= q + 1 /\ q' \in Nat /\ t' + 1 <= t /\ t' \in Nat
    BY <2>1, <2>2, <1>0, OneMore, OneLess DEF q, t
  <2>4. Unborn' = Unborn
    BY <1>2 DEF EmitEnqueue, Unborn
  <2>5. UNCHANGED <<accepted, retries, faults, lost>>
    BY <1>2 DEF EmitEnqueue
  <2>6. \A Q, T \in Nat : Q <= q + 1 /\ T + 1 <= t =>
           accepted + Q + T + Unborn <= 1 + retries + faults + lost
    BY <1>0
  <2> QED
    BY <2>3, <2>4, <2>5, <2>6
<1>3. ASSUME NEW s \in Slots, Work(s) PROVE accepted' + q' + t' + Unborn' <= 1 + retries' + faults' + lost'
  <2>0. PICK k \in Keys : TakeJob(s, k)
    BY <1>3 DEF Work
  <2>1. k \in Queued /\ Queued' \subseteq Queued \ {k}
    BY <2>0, <1>a DEF TakeJob, Queued
  <2>2. Trying' \subseteq Trying \cup {s}
    BY <2>0, <1>a DEF TakeJob, Trying
  <2>3. q' + 1 <= q /\ q' \in Nat /\ t' <= t + 1 /\ t' \in Nat
    BY <2>1, <2>2, <1>0, OneMore, OneLess DEF q, t
  <2>4. Unborn' = Unborn
    BY <2>0 DEF TakeJob, Unborn
  <2> QED
    BY <2>0, <1>0, <2>3, <2>4 DEF TakeJob
<1>4. ASSUME NEW s \in Slots, Retry(s) PROVE accepted' + q' + t' + Unborn' <= 1 + retries' + faults' + lost'
  <2>1. Queued' = Queued /\ Trying' \subseteq Trying \cup {s}
    BY <1>4, <1>a DEF Retry, Queued, Trying
  <2>2. q' = q /\ t' <= t + 1 /\ t' \in Nat
    BY <2>1, <1>0, OneMore DEF q, t
  <2>3. Unborn' = Unborn
    BY <1>4 DEF Retry, Unborn
  <2> QED
    BY <1>4, <1>0, <2>2, <2>3 DEF Retry
<1>5. ASSUME NEW s \in Slots, Reset(s) \/ Find(s) \/ Bury(s) \/ SaveFailed(s) \/ SaveDelivered(s)
      PROVE accepted' + q' + t' + Unborn' <= 1 + retries' + faults' + lost'
  <2>1. Queued' = Queued
    BY <1>5 DEF Reset, Find, Bury, SaveFailed, SaveDelivered, Queued
  <2>2. Trying' \subseteq Trying
    <3>1. \A r \in Slots \ {s} : attempt'[r] = attempt[r]
      BY <1>5, <1>a DEF Reset, Find, Bury, SaveFailed, SaveDelivered, Goto
    <3>2. attempt[s].pc \in {"reset", "find", "save failed"}
             \/ attempt'[s].pc = "done"
      BY <1>5, <1>a, GotoTries DEF Reset, Find, Bury, SaveFailed, SaveDelivered
    <3>3. s \in Trying' => s \in Trying
      BY <3>2 DEF Trying
    <3> QED
      BY <3>1, <3>3 DEF Trying
  <2>3. q' = q /\ t' <= t /\ t' \in Nat
    BY <2>1, <2>2, <1>0, NoMore DEF q, t
  <2>4. Unborn' <= Unborn
    <3>0. attempt[s].copy \in Row
      BY <1>a DEF Attempt
    <3>1. row' = row \/ row'.status \in {"pending", "dead", "failed", "delivered"}
      <4>1. CASE Reset(s)
        BY <3>0, <4>1 DEF Reset, Row
      <4>2. CASE Find(s)
        BY <4>2 DEF Find
      <4>3. CASE Bury(s)
        BY <3>0, <4>3 DEF Bury, Row
      <4>4. CASE SaveFailed(s)
        BY <4>4 DEF SaveFailed
      <4>5. CASE SaveDelivered(s)
        BY <4>5 DEF SaveDelivered
      <4> QED
        BY <1>5, <4>1, <4>2, <4>3, <4>4, <4>5
    <3> QED
      BY <3>1 DEF Unborn
  <2>5. UNCHANGED <<accepted, retries, faults, lost>>
    BY <1>5 DEF Reset, Find, Bury, SaveFailed, SaveDelivered
  <2>6. \A T \in Nat, U \in {0, 1} : T <= t /\ U <= Unborn =>
           accepted + q + T + U <= 1 + retries + faults + lost
    BY <1>0
  <2> QED
    BY <1>n, <2>3, <2>4, <2>5, <2>6
<1>6. ASSUME NEW s \in Slots, Post(s) PROVE accepted' + q' + t' + Unborn' <= 1 + retries' + faults' + lost'
  <2>1. Queued' = Queued /\ Unborn' = Unborn /\ retries' = retries /\ faults' = faults
    BY <1>6 DEF Post, Queued, Unborn
  <2>2. q' = q
    BY <2>1 DEF q
  <2>3. CASE accepted' = accepted + 1 /\ lost' = lost /\ Goto(s, "save delivered")
    <3>1. s \in Trying /\ Trying' \subseteq Trying \ {s}
      <4>1. attempt[s].pc = "post"
        BY <1>6 DEF Post
      <4>2. attempt'[s].pc = "save delivered"
            /\ \A r \in Slots \ {s} : attempt'[r] = attempt[r]
        BY <2>3, <1>a, GotoTries
      <4> QED
        BY <4>1, <4>2 DEF Trying
    <3>2. t' + 1 <= t /\ t' \in Nat
      BY <3>1, <1>0, OneLess DEF t
    <3>3. \A T \in Nat : T + 1 <= t =>
             (accepted + 1) + q + T + Unborn <= 1 + retries + faults + lost
      BY <1>0
    <3> QED
      BY <2>1, <2>2, <2>3, <3>2, <3>3
  <2>4. ASSUME Goto(s, "save failed") PROVE t' <= t /\ t' \in Nat
    <3>1. Trying' \subseteq Trying
      BY <1>6, <2>4, <1>a, GotoTries DEF Post, Trying
    <3> QED
      BY <3>1, <1>0, NoMore DEF t
  <2>5. CASE accepted' = accepted + 1 /\ lost' = lost + 1 /\ Goto(s, "save failed")
    <3>1. \A T \in Nat : T <= t =>
             (accepted + 1) + q + T + Unborn <= 1 + retries + faults + (lost + 1)
      BY <1>0
    <3> QED
      BY <2>1, <2>2, <2>4, <2>5, <3>1
  <2>6. CASE UNCHANGED <<accepted, lost>> /\ Goto(s, "save failed")
    <3>1. \A T \in Nat : T <= t =>
             accepted + q + T + Unborn <= 1 + retries + faults + lost
      BY <1>0
    <3> QED
      BY <2>1, <2>2, <2>4, <2>6, <3>1
  <2> QED
    BY <1>6, <2>3, <2>5, <2>6 DEF Post
<1>7. ASSUME NEW s \in Slots, Chain(s) PROVE accepted' + q' + t' + Unborn' <= 1 + retries' + faults' + lost'
  <2>1. Queued' \subseteq Queued \cup {NextKey(s)}
    BY <1>7, <1>a, EnqueuedQueues DEF Chain
  <2>2. s \in Trying /\ Trying' \subseteq Trying \ {s}
    <3>1. attempt[s].pc = "chain" /\ Goto(s, "done")
      BY <1>7 DEF Chain
    <3>2. attempt'[s].pc = "done"
          /\ \A r \in Slots \ {s} : attempt'[r] = attempt[r]
      BY <3>1, <1>a, GotoTries
    <3> QED
      BY <3>1, <3>2 DEF Trying
  <2>3. q' <= q + 1 /\ q' \in Nat /\ t' + 1 <= t /\ t' \in Nat
    BY <2>1, <2>2, <1>0, OneMore, OneLess DEF q, t
  <2>4. Unborn' = Unborn
    BY <1>7 DEF Chain, Unborn
  <2>5. UNCHANGED <<accepted, retries, faults, lost>>
    BY <1>7 DEF Chain
  <2>6. \A Q, T \in Nat : Q <= q + 1 /\ T + 1 <= t =>
           accepted + Q + T + Unborn <= 1 + retries + faults + lost
    BY <1>0
  <2> QED
    BY <2>3, <2>4, <2>5, <2>6
<1>8. ASSUME NEW s \in Slots, Done(s) PROVE accepted' + q' + t' + Unborn' <= 1 + retries' + faults' + lost'
  <2>1. Queued' \subseteq Queued
    BY <1>8, <1>a DEF Done, Queued
  <2>2. Trying' \subseteq Trying
    BY <1>8, <1>a DEF Done, Trying, Idle
  <2>3. q' <= q /\ q' \in Nat /\ t' <= t /\ t' \in Nat
    BY <2>1, <2>2, <1>0, NoMore DEF q, t
  <2>4. Unborn' = Unborn
    BY <1>8 DEF Done, Unborn
  <2> QED
    BY <1>8, <1>0, <2>3, <2>4 DEF Done
<1>9. ASSUME NEW s \in Slots, Fault(s) PROVE accepted' + q' + t' + Unborn' <= 1 + retries' + faults' + lost'
  <2>1. Queued' \subseteq Queued \cup {attempt[s].key}
    BY <1>9, <1>a DEF Fault, Queued
  <2>2. Trying' \subseteq Trying
    BY <1>9, <1>a DEF Fault, Trying, Idle
  <2>3. q' <= q + 1 /\ q' \in Nat /\ t' <= t /\ t' \in Nat
    BY <2>1, <2>2, <1>0, OneMore, NoMore DEF q, t
  <2>4. Unborn' = Unborn
    BY <1>9 DEF Fault, Unborn
  <2>5. UNCHANGED <<accepted, retries, lost>> /\ faults' = faults + 1
    BY <1>9 DEF Fault
  <2>6. \A Q, T \in Nat : Q <= q + 1 /\ T <= t =>
           accepted + Q + T + Unborn <= 1 + retries + (faults + 1) + lost
    BY <1>0
  <2> QED
    BY <2>3, <2>4, <2>5, <2>6
<1>10. CASE Tick \/ UNCHANGED vars
  <2>1. Queued' = Queued /\ Trying' = Trying /\ Unborn' = Unborn
    BY <1>10 DEF Tick, vars, Queued, Trying, Unborn
  <2>2. UNCHANGED <<accepted, retries, faults, lost>>
    BY <1>10 DEF Tick, vars
  <2> QED
    BY <1>0, <2>1, <2>2 DEF q, t
<1> QED
  BY <1>1, <1>2, <1>3, <1>4, <1>5, <1>6, <1>7, <1>8, <1>9, <1>10 DEF Next, Step

(* The budget leaves no room for more accepted posts.                      *)
LEMMA BudgetBounds == TypeOK /\ Budget => AcceptedOnce
BY Finite DEF TypeOK, Budget, AcceptedOnce, Unborn

(* However many attempts overlap, the endpoint takes a delivery once, and  *)
(* once more at most for each manual retry, each fault and each post it    *)
(* took whose answer was lost.                                             *)
THEOREM AcceptedIsBounded == Spec => []AcceptedOnce
<1>1. Init => TypeOK /\ Budget
  BY InitType, InitBudget
<1>2. TypeOK /\ Budget /\ [Next]_vars => (TypeOK /\ Budget)'
  BY StepType, StepBudget
<1> QED
  BY <1>1, <1>2, BudgetBounds, PTL DEF Spec

-----------------------------------------------------------------------------
(* What was delivered stays so while nobody retries by hand: of all slots  *)
(* and jobs one at most may still write the row, and none when it says     *)
(* delivered, or does not exist yet.  Counting accepted posts says less:   *)
(* a fault pays for another, and must not for a second writer.             *)

(* Attempts that may write the row, or chain another.                      *)
Writing == {s \in Slots : attempt[s].pc \notin {"idle", "done"}}

OneWriter ==
    retries = 0 =>
        /\ \A s, t \in Writing : s = t
        /\ \A j, k \in Queued : j = k
        /\ Writing = {} \/ Queued = {}
        /\ row.status \in {"none", "delivered"} => Writing = {} /\ Queued = {}

LEMMA StepWriter == TypeOK /\ OneWriter /\ [Next]_vars => OneWriter'
<1> SUFFICES ASSUME TypeOK, OneWriter, [Next]_vars, retries' = 0 PROVE OneWriter'
  BY DEF OneWriter
<1>0. /\ job \in [Keys -> Job] /\ attempt \in [Slots -> Attempt] /\ row \in Row
      /\ retries \in Nat
  BY DEF TypeOK
<1>1. ASSUME NEW s \in Slots, EmitCreate(s) PROVE OneWriter'
  <2>1. Writing' \subseteq Writing \cup {s} /\ Queued' = Queued /\ retries' = retries
    BY <1>0, <1>1 DEF EmitCreate, Goto, Writing, Queued
  <2>2. row.status = "none" /\ row'.status = "pending"
    BY <1>1 DEF EmitCreate, NoRow
  <2> QED
    BY <2>1, <2>2 DEF OneWriter
<1>2. ASSUME NEW s \in Slots, Work(s) PROVE OneWriter'
  <2>1. PICK k \in Keys : TakeJob(s, k)
    BY <1>2 DEF Work
  <2>2. /\ k \in Queued /\ Queued' \subseteq Queued \ {k} /\ Writing' \subseteq Writing \cup {s}
        /\ UNCHANGED <<row, retries>>
    BY <1>0, <2>1 DEF TakeJob, Queued, Writing
  <2> QED
    BY <2>2 DEF OneWriter
<1>3. ASSUME NEW s \in Slots, Retry(s) PROVE OneWriter'
  BY <1>0, <1>3 DEF Retry
<1>a. ASSUME NEW s \in Writing PROVE retries = 0 => Writing = {s} /\ Queued = {}
                                                    /\ row.status \notin {"none", "delivered"}
  BY DEF OneWriter
<1>4. ASSUME NEW s \in Slots, EmitEnqueue(s) \/ Chain(s) PROVE OneWriter'
  <2>1. /\ s \in Writing /\ UNCHANGED <<row, retries>>
        /\ Writing' \subseteq Writing \ {s}
    BY <1>0, <1>4 DEF EmitEnqueue, Chain, Goto, Writing, Idle, Attempt
  <2>2. PICK k : Queued' \subseteq Queued \cup {k}
    BY <1>0, <1>4, EnqueuedQueues DEF EmitEnqueue, Chain
  <2> QED
    BY <1>a, <2>1, <2>2 DEF OneWriter
<1>5. ASSUME NEW s \in Slots, Find(s) \/ Post(s) PROVE OneWriter'
  <2>1. /\ s \in Writing /\ UNCHANGED <<row, retries>> /\ Queued' = Queued
        /\ Writing' \subseteq Writing
    BY <1>0, <1>5 DEF Find, Post, Goto, Writing, Queued, Attempt
  <2> QED
    BY <1>a, <2>1 DEF OneWriter
<1>6. ASSUME NEW s \in Slots, Reset(s) \/ Bury(s) \/ SaveFailed(s) \/ SaveDelivered(s)
      PROVE  OneWriter'
  <2>1. /\ s \in Writing /\ retries' = retries /\ Queued' = Queued
        /\ Writing' \subseteq Writing
    BY <1>0, <1>6 DEF Reset, Bury, SaveFailed, SaveDelivered, Goto, Writing, Queued, Attempt
  <2>2. row'.status \in {"pending", "dead", "failed"}
        \/ (row'.status = "delivered" /\ s \notin Writing')
    <3>1. attempt[s].copy \in Row
      BY <1>0 DEF Attempt
    <3>2. CASE Reset(s) \/ Bury(s)
      BY <3>1, <3>2 DEF Reset, Bury, Row
    <3>3. CASE SaveFailed(s)
      BY <3>3 DEF SaveFailed
    <3>4. CASE SaveDelivered(s)
      BY <1>0, <3>4 DEF SaveDelivered, Goto, Writing, Attempt
    <3> QED
      BY <1>6, <3>2, <3>3, <3>4
  <2> QED
    BY <1>a, <2>1, <2>2 DEF OneWriter
<1>7. ASSUME NEW s \in Slots, Done(s) PROVE OneWriter'
  <2>1. /\ UNCHANGED <<row, retries>> /\ Writing' \subseteq Writing /\ Queued' \subseteq Queued
    BY <1>0, <1>7 DEF Done, Writing, Queued, Idle
  <2> QED
    BY <2>1 DEF OneWriter
<1>8. ASSUME NEW s \in Slots, Fault(s) PROVE OneWriter'
  <2>1. /\ UNCHANGED <<row, retries>> /\ Writing' \subseteq Writing \ {s}
    BY <1>0, <1>8 DEF Fault, Writing, Idle
  <2>2. \/ Queued' = Queued
        \/ s \in Writing /\ Queued' \subseteq Queued \cup {attempt[s].key}
    BY <1>0, <1>8 DEF Fault, Writing, Queued
  <2> QED
    BY <1>a, <2>1, <2>2 DEF OneWriter
<1>9. CASE Tick \/ UNCHANGED vars
  BY <1>9 DEF Tick, vars, OneWriter, Writing, Queued
<1> QED
  BY <1>1, <1>2, <1>3, <1>4, <1>5, <1>6, <1>7, <1>8, <1>9 DEF Next, Step

(* Without manual retries a chain of attempts is never doubled, though     *)
(* statements fail and processes die: what was delivered stays so.         *)
THEOREM DeliveredIsAlwaysFinal == Spec => DeliveredIsFinal
<1>1. Init => OneWriter
  BY DEF Init, OneWriter, Writing, Queued, Idle
<1>2. Spec => []TypeOK
  BY TypeCorrect
<1>3. Spec => []OneWriter
  BY <1>1, <1>2, StepWriter, PTL DEF Spec
<1>4. TypeOK /\ OneWriter /\ [Next]_vars => [row.status = "delivered" /\ retries = 0 => row' = row]_vars
  <2> SUFFICES ASSUME OneWriter, Next, row.status = "delivered", retries = 0
               PROVE  row' = row
    BY DEF vars
  <2>1. \A s \in Slots : attempt[s].pc \in {"idle", "done"}
    BY DEF OneWriter, Writing
  <2>2. ASSUME NEW s \in Slots, EmitCreate(s) \/ Work(s) \/ Retry(s) \/ Step(s) \/ Fault(s)
        PROVE  row' = row
    BY <2>1, <2>2 DEF EmitCreate, Work, TakeJob, Retry, Step, EmitEnqueue, Reset, Find, Bury,
       Post, SaveDelivered, SaveFailed, Chain, Done, Fault
  <2> QED
    BY <2>2 DEF Next, Tick
<1> QED
  BY <1>2, <1>3, <1>4, PTL DEF Spec, DeliveredIsFinal
=============================================================================
