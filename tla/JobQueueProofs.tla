--------------------------- MODULE JobQueueProofs ---------------------------
(***************************************************************************)
(* The queue is type correct, runs a job in one worker at a time, keeps    *)
(* one job per key, orphans one job per crash at most, and implements      *)
(* JobLeases, for any number of jobs, producers and workers; and it keeps  *)
(* the limit on attempts where workers take turns, as a single one does.   *)
(***************************************************************************)
EXTENDS MCJobQueue, FiniteSetTheorems, TLAPS

(* What TypeOK and OneHolder need to be inductive: who holds a row holds a *)
(* real one, and a row that may be claimed has attempts left, also in the  *)
(* copy a worker selected before another one changed it.                   *)
AttemptsLeft ==
    /\ \A w \in Workers : worker[w].pc # "idle" => worker[w].job \in Jobs
    /\ \A w \in Workers : worker[w].pc = "claim" => worker[w].attempts < MaxAttempts
    /\ \A j \in Jobs : job[j].status = "pending" => job[j].attempts < MaxAttempts

Inv == TypeOK /\ AttemptsLeft /\ OneHolder

-----------------------------------------------------------------------------
(* The initial records have their types.                                   *)
LEMMA Blanks == Absent \in Job /\ Free \in Worker /\ NoCall \in Call
BY LimitsAssumption DEF Absent, Job, Free, Worker, NoCall, Call, Statuses

(* backoffMs is a natural number of ticks.                                 *)
LEMMA BackoffType == ASSUME NEW n \in Nat PROVE Backoff(n) \in Nat
<1>1. CASE n <= 1 \/ n > 7
  BY <1>1 DEF Backoff
<1>2. CASE ~(n <= 1 \/ n > 7)
  <2>1. n \in {2, 3, 4, 5, 6, 7}
    BY <1>2
  <2>2. Backoff(n) = <<1, 2, 4, 8, 16, 32, 64>>[n]
    BY <1>2 DEF Backoff
  <2> QED
    BY <2>1, <2>2
<1> QED
  BY <1>1, <1>2

(* Nobody holds anything at the start.                                     *)
LEMMA InvInit == Init => Inv
<1> SUFFICES ASSUME Init PROVE Inv
  OBVIOUS
<1>1. TypeOK
  BY Blanks DEF Init, TypeOK
<1>2. AttemptsLeft
  BY DEF Init, AttemptsLeft, Absent, Free
<1>3. OneHolder
  BY DEF Init, OneHolder, Runs, Free
<1> QED
  BY <1>1, <1>2, <1>3 DEF Inv

(* A save by the worker that runs the job keeps the invariant, if a job    *)
(* put back in the queue has attempts left.                                *)
LEMMA SaveStep ==
    ASSUME Inv, NEW w \in Workers, worker[w].pc = "run",
           NEW s \in {"pending", "completed", "dead"}, NEW n \in Nat,
           Save(w, s, n),
           s = "pending" => worker[w].attempts < MaxAttempts
    PROVE  Inv'
<1> DEFINE j == worker[w].job
           new == [job[j] EXCEPT !.status = s, !.attempts = worker[w].attempts, !.wait = n]
<1>1. j \in Jobs /\ worker[w] \in Worker /\ job[j] \in Job
  BY DEF Inv, AttemptsLeft, TypeOK
<1>2. new \in Job /\ new.status = s /\ new.attempts = worker[w].attempts
  BY <1>1 DEF Job, Worker, Statuses
<1>3. job' = [job EXCEPT ![j] = new]
  BY <1>1 DEF Save, Inv, TypeOK
<1> HIDE DEF new
<1>4. worker' = [worker EXCEPT ![w] = Free] /\ UNCHANGED <<call, runs, crashes>>
  BY DEF Save
<1>5. TypeOK'
  BY <1>1, <1>2, <1>3, <1>4, Blanks DEF Inv, TypeOK
<1>6. AttemptsLeft'
  <2>1. \A v \in Workers : v # w => worker'[v] = worker[v]
    BY <1>4 DEF Inv, TypeOK
  <2>2. worker'[w].pc = "idle"
    BY <1>4 DEF Inv, TypeOK, Free
  <2>3. \A i \in Jobs : i # j => job'[i] = job[i]
    BY <1>3 DEF Inv, TypeOK
  <2>4. job'[j].status = "pending" => job'[j].attempts < MaxAttempts
    BY <1>1, <1>2, <1>3 DEF Inv, TypeOK
  <2> QED
    BY <1>1, <2>1, <2>2, <2>3, <2>4 DEF Inv, AttemptsLeft
<1>7. OneHolder'
  <2> SUFFICES ASSUME NEW v \in Workers, NEW i \in Jobs, Runs(v, i)'
               PROVE  job'[i].status = "processing" /\ \A u \in Workers : Runs(u, i)' => u = v
    BY DEF OneHolder
  <2>1. v # w /\ Runs(v, i)
    BY <1>4 DEF Runs, Inv, TypeOK, Free
  <2>2. Runs(w, j)
    BY DEF Runs
  <2>3. i # j
    BY <1>1, <2>1, <2>2 DEF Inv, OneHolder
  <2>4. job'[i] = job[i]
    BY <1>3, <2>3 DEF Inv, TypeOK
  <2>5. \A u \in Workers : Runs(u, i)' => Runs(u, i)
    BY <1>4 DEF Runs, Inv, TypeOK, Free
  <2> QED
    BY <2>1, <2>4, <2>5 DEF Inv, OneHolder
<1> QED
  BY <1>5, <1>6, <1>7 DEF Inv

(* Every step keeps the invariant.                                         *)
LEMMA InvStep == Inv /\ [Next]_vars => Inv'
<1> SUFFICES ASSUME Inv, [Next]_vars PROVE Inv'
  OBVIOUS
<1> USE DEF Inv
<1>1. ASSUME NEW p \in Producers, NEW k \in Keys \cup {NoKey}, Lookup(p, k) PROVE Inv'
  <2>1. TypeOK'
    BY <1>1 DEF Lookup, TypeOK, Call
  <2>2. AttemptsLeft' /\ OneHolder'
    BY <1>1 DEF Lookup, AttemptsLeft, OneHolder, Runs
  <2> QED
    BY <2>1, <2>2
<1>2. ASSUME NEW p \in Producers, Insert(p) PROVE Inv'
  <2>1. UNCHANGED <<worker, runs, crashes>> /\ call' \in [Producers -> Call]
    BY <1>2, Blanks DEF Insert, TypeOK
  <2>2. CASE UNCHANGED job
    BY <2>1, <2>2 DEF TypeOK, AttemptsLeft, OneHolder, Runs
  <2>3. ASSUME NEW j \in Jobs \ Live, NEW d \in Delays, NEW h \in BOOLEAN,
               job' = [job EXCEPT ![j] =
                          [status |-> "pending", key |-> call[p].key, handled |-> h,
                           attempts |-> 0, wait |-> d]]
        PROVE  Inv'
    <3> DEFINE r == [status |-> "pending", key |-> call[p].key, handled |-> h,
                     attempts |-> 0, wait |-> d]
    <3>1. r \in Job /\ r.attempts < MaxAttempts
      <4>1. call[p].key \in Keys \cup {NoKey}
        BY DEF TypeOK, Call
      <4> QED
        BY <4>1, LimitsAssumption DEF Job, Statuses
    <3>2. job' = [job EXCEPT ![j] = r]
      BY <2>3
    <3> HIDE DEF r
    <3>3. \A i \in Jobs : job'[i] = IF i = j THEN r ELSE job[i]
      BY <3>2 DEF TypeOK
    <3>4. job' \in [Jobs -> Job]
      BY <3>1, <3>2 DEF TypeOK
    <3>5. AttemptsLeft'
      BY <2>1, <3>1, <3>3 DEF AttemptsLeft
    <3>6. OneHolder'
      <4>1. \A w \in Workers : ~Runs(w, j)
        BY <2>3 DEF OneHolder, Live
      <4> QED
        BY <2>1, <3>3, <4>1 DEF OneHolder, Runs
    <3> QED
      BY <2>1, <3>4, <3>5, <3>6 DEF TypeOK
  <2> QED
    BY <1>2, <2>2, <2>3 DEF Insert
<1>3. ASSUME NEW w \in Workers, Select(w) PROVE Inv'
  <2>1. PICK j \in Jobs : /\ Due(j)
                          /\ worker' = [worker EXCEPT ![w] =
                               [pc |-> "claim", job |-> j, attempts |-> job[j].attempts]]
    BY <1>3 DEF Select
  <2> DEFINE c == [pc |-> "claim", job |-> j, attempts |-> job[j].attempts]
  <2>2. UNCHANGED <<job, call, runs, crashes>>
    BY <1>3 DEF Select
  <2>3. job[j] \in Job /\ job[j].attempts < MaxAttempts
    BY <2>1 DEF Due, TypeOK, AttemptsLeft
  <2>4. c \in Worker /\ c.pc = "claim" /\ c.job = j /\ c.attempts < MaxAttempts
    BY <2>3 DEF Worker, Job
  <2>5. worker' = [worker EXCEPT ![w] = c]
    BY <2>1
  <2> HIDE DEF c
  <2>6. \A v \in Workers : worker'[v] = IF v = w THEN c ELSE worker[v]
    BY <2>5 DEF TypeOK
  <2>7. TypeOK'
    BY <2>2, <2>4, <2>5 DEF TypeOK
  <2>8. AttemptsLeft'
    BY <2>2, <2>4, <2>6 DEF AttemptsLeft
  <2>9. OneHolder'
    BY <2>2, <2>4, <2>6 DEF OneHolder, Runs
  <2> QED
    BY <2>7, <2>8, <2>9
<1>4. ASSUME NEW w \in Workers, Claim(w) PROVE Inv'
  <2> DEFINE j == worker[w].job
             n == worker[w].attempts + 1
             c == [pc |-> "run", job |-> j, attempts |-> n]
             r == [job[j] EXCEPT !.status = "processing", !.attempts = n]
  <2>1. j \in Jobs /\ job[j] \in Job /\ n \in 0 .. MaxAttempts
    BY <1>4, LimitsAssumption DEF Claim, AttemptsLeft, TypeOK, Worker
  <2>2. CASE ~Claimable(j)
    <3>1. worker' = [worker EXCEPT ![w] = Free] /\ UNCHANGED <<job, runs, call, crashes>>
      BY <1>4, <2>2 DEF Claim
    <3>2. \A v \in Workers : worker'[v] = IF v = w THEN Free ELSE worker[v]
      BY <3>1 DEF TypeOK
    <3>3. Free.pc = "idle"
      BY DEF Free
    <3>4. TypeOK'
      BY <3>1, Blanks DEF TypeOK
    <3>5. AttemptsLeft' /\ OneHolder'
      BY <3>1, <3>2, <3>3 DEF AttemptsLeft, OneHolder, Runs
    <3> QED
      BY <3>4, <3>5
  <2>3. CASE Claimable(j)
    <3>1. /\ job' = [job EXCEPT ![j].status = "processing", ![j].attempts = n]
          /\ worker' = [worker EXCEPT ![w] = c]
          /\ runs' = IF job[j].handled THEN [runs EXCEPT ![j] = @ + 1] ELSE runs
          /\ UNCHANGED <<call, crashes>>
      BY <1>4, <2>3 DEF Claim
    <3>2. job' = [job EXCEPT ![j] = r]
      BY <2>1, <3>1 DEF TypeOK
    <3>3. r \in Job /\ r.status = "processing"
      BY <2>1 DEF Job, Statuses
    <3>4. c \in Worker /\ c.pc = "run" /\ c.job = j
      BY <2>1 DEF Worker
    <3>5. runs' \in [Jobs -> Nat]
      BY <2>1, <3>1 DEF TypeOK
    <3> HIDE DEF r, c
    <3>6. \A v \in Workers : worker'[v] = IF v = w THEN c ELSE worker[v]
      BY <3>1 DEF TypeOK
    <3>7. \A i \in Jobs : job'[i] = IF i = j THEN r ELSE job[i]
      BY <3>2 DEF TypeOK
    <3>8. TypeOK'
      BY <3>1, <3>2, <3>3, <3>4, <3>5 DEF TypeOK
    <3>9. AttemptsLeft'
      BY <2>1, <3>3, <3>4, <3>6, <3>7 DEF AttemptsLeft
    <3>10. OneHolder'
      <4>1. \A v \in Workers : ~Runs(v, j)
        BY <2>1, <2>3 DEF Claimable, OneHolder
      <4> SUFFICES ASSUME NEW v \in Workers, NEW i \in Jobs, Runs(v, i)'
                   PROVE  job'[i].status = "processing" /\ \A u \in Workers : Runs(u, i)' => u = v
        BY DEF OneHolder
      <4>2. \A u \in Workers : Runs(u, i)' <=> IF u = w THEN i = j ELSE Runs(u, i)
        BY <3>4, <3>6 DEF Runs
      <4>3. CASE i = j
        BY <3>3, <3>7, <4>1, <4>2, <4>3
      <4>4. CASE i # j
        <5>1. v # w /\ Runs(v, i)
          BY <4>2, <4>4
        <5> QED
          BY <3>7, <4>2, <4>4, <5>1 DEF OneHolder
      <4> QED
        BY <4>3, <4>4
    <3> QED
      BY <3>8, <3>9, <3>10
  <2> QED
    BY <2>2, <2>3
<1>5. ASSUME NEW w \in Workers, Bury(w) \/ Complete(w) PROVE Inv'
  <2>1. worker[w].pc = "run" /\ job[worker[w].job].wait \in Nat
    BY <1>5 DEF Bury, Complete, TypeOK, AttemptsLeft, Job
  <2> QED
    BY <1>5, <2>1, SaveStep DEF Bury, Complete
<1>6. ASSUME NEW w \in Workers, Fail(w) PROVE Inv'
  <2> DEFINE s == IF Exhausted(worker[w].attempts) THEN "dead" ELSE "pending"
  <2>1. worker[w].attempts \in 0 .. MaxAttempts
    BY DEF TypeOK, Worker
  <2>2. Backoff(worker[w].attempts) \in Nat
    BY <2>1, BackoffType
  <2>3. s = "pending" => worker[w].attempts < MaxAttempts
    BY <2>1, LimitsAssumption DEF Exhausted
  <2>4. worker[w].pc = "run" /\ Save(w, s, Backoff(worker[w].attempts))
    BY <1>6 DEF Fail
  <2>5. s \in {"pending", "completed", "dead"}
    OBVIOUS
  <2> HIDE DEF s
  <2> QED
    BY <2>2, <2>3, <2>4, <2>5, SaveStep
<1>7. ASSUME NEW w \in Workers, Crash(w) PROVE Inv'
  <2>1. \A v \in Workers : worker'[v] = IF v = w THEN Free ELSE worker[v]
    BY <1>7 DEF Crash, TypeOK
  <2>2. Free.pc = "idle"
    BY DEF Free
  <2>3. TypeOK'
    BY <1>7, Blanks, LimitsAssumption DEF Crash, TypeOK
  <2>4. AttemptsLeft' /\ OneHolder'
    BY <1>7, <2>1, <2>2 DEF Crash, AttemptsLeft, OneHolder, Runs
  <2> QED
    BY <2>3, <2>4
<1>8. ASSUME Tick PROVE Inv'
  <2>1. \A j \in Jobs : /\ job'[j] \in Job
                        /\ job'[j].status = job[j].status
                        /\ job'[j].attempts = job[j].attempts
    <3> TAKE j \in Jobs
    <3> DEFINE n == IF job[j].wait = 0 THEN 0 ELSE job[j].wait - 1
    <3>1. job[j] \in Job
      BY DEF TypeOK
    <3>2. n \in Nat
      BY <3>1 DEF Job
    <3>3. job'[j] = [job[j] EXCEPT !.wait = n]
      BY <1>8 DEF Tick
    <3> HIDE DEF n
    <3> QED
      BY <3>1, <3>2, <3>3 DEF Job
  <2>2. TypeOK'
    BY <1>8, <2>1 DEF Tick, TypeOK
  <2>3. AttemptsLeft'
    BY <1>8, <2>1 DEF Tick, AttemptsLeft
  <2>4. \A w \in Workers, j \in Jobs : Runs(w, j)' <=> Runs(w, j)
    BY <1>8 DEF Tick, Runs
  <2>5. OneHolder'
    BY <2>1, <2>4 DEF OneHolder
  <2> QED
    BY <2>2, <2>3, <2>5
<1>9. CASE UNCHANGED vars
  BY <1>9 DEF vars, TypeOK, AttemptsLeft, OneHolder, Runs
<1> QED
  BY <1>1, <1>2, <1>3, <1>4, <1>5, <1>6, <1>7, <1>8, <1>9 DEF Next, Work

(* The invariant holds in every reachable state.                           *)
LEMMA Invariance == Spec => []Inv
BY InvInit, InvStep, PTL DEF Spec

-----------------------------------------------------------------------------
(* Types hold, the attempts counters within the limit among them.          *)
THEOREM TypeCorrect == Spec => []TypeOK
<1>1. Inv => TypeOK
  BY DEF Inv
<1> QED
  BY <1>1, Invariance, PTL

(* What a step does to one job's place: the number of rows only grows by   *)
(* an insert, a row keeps its key, and who runs it changes by a claim, a   *)
(* save or a crash.                                                        *)
Same == \A j \in Jobs : /\ job'[j].key = job[j].key
                        /\ job'[j].status = job[j].status
Unmoved == \A w \in Workers, j \in Jobs : Runs(w, j)' <=> Runs(w, j)

Added(j, p) ==
    /\ job[j].status = "none"
    /\ ~Rejected(call[p].key)
    /\ job'[j].status = "pending"
    /\ job'[j].key = call[p].key
    /\ \A i \in Jobs \ {j} : job'[i] = job[i]
    /\ Unmoved

Moved(j, w, before, after) ==
    /\ job[j].status = before
    /\ job'[j].status = after
    /\ job'[j].key = job[j].key
    /\ \A i \in Jobs \ {j} : job'[i] = job[i]
    /\ \A v \in Workers \ {w}, i \in Jobs : Runs(v, i)' <=> Runs(v, i)

Taken(j, w) ==
    /\ Moved(j, w, "pending", "processing")
    /\ \A i \in Jobs : ~Runs(w, i)
    /\ \A i \in Jobs : Runs(w, i)' <=> i = j

Given(j, w) ==
    /\ \E s \in {"pending", "completed", "dead"} : Moved(j, w, "processing", s)
    /\ Runs(w, j)
    /\ \A i \in Jobs : ~Runs(w, i)'

Left(j, w) ==
    /\ Same
    /\ Runs(w, j)
    /\ \A v \in Workers \ {w}, i \in Jobs : Runs(v, i)' <=> Runs(v, i)
    /\ \A i \in Jobs : ~Runs(w, i)'
    /\ crashes' = crashes + 1

(* Every step is one of these.                                             *)
Effect ==
    \/ Same /\ Unmoved /\ crashes' >= crashes
    \/ crashes' = crashes /\ \E j \in Jobs, p \in Producers : Added(j, p)
    \/ crashes' = crashes /\ \E j \in Jobs, w \in Workers : Taken(j, w) \/ Given(j, w)
    \/ \E j \in Jobs, w \in Workers : Left(j, w)

(* A save by the worker that runs the job gives the job back.              *)
LEMMA SaveEffect ==
    ASSUME Inv, NEW w \in Workers, worker[w].pc = "run",
           NEW s \in {"pending", "completed", "dead"}, NEW n, Save(w, s, n)
    PROVE  Effect
<1> DEFINE j == worker[w].job
<1>1. j \in Jobs /\ Runs(w, j) /\ job[j] \in Job /\ job[j].status = "processing"
  BY DEF Inv, AttemptsLeft, TypeOK, OneHolder, Runs
<1>2. /\ job'[j].status = s
      /\ job'[j].key = job[j].key
      /\ \A i \in Jobs \ {j} : job'[i] = job[i]
  BY <1>1 DEF Save, Inv, TypeOK, Job
<1>3. \A v \in Workers : worker'[v] = IF v = w THEN Free ELSE worker[v]
  BY DEF Save, Inv, TypeOK
<1>4. /\ \A v \in Workers \ {w}, i \in Jobs : Runs(v, i)' <=> Runs(v, i)
      /\ \A i \in Jobs : ~Runs(w, i)'
  BY <1>3 DEF Runs, Free
<1>5. crashes' = crashes
  BY DEF Save
<1>6. Given(j, w)
  BY <1>1, <1>2, <1>4 DEF Given, Moved
<1> QED
  BY <1>1, <1>5, <1>6 DEF Effect

(* Every step of a state of the invariant has one of the effects above.    *)
LEMMA StepEffect == Inv /\ [Next]_vars => Effect
<1> SUFFICES ASSUME Inv, [Next]_vars PROVE Effect
  OBVIOUS
<1> USE DEF Inv
<1>0. crashes \in Nat
  BY DEF TypeOK
<1>1. ASSUME NEW p \in Producers, NEW k \in Keys \cup {NoKey}, Lookup(p, k) PROVE Effect
  BY <1>0, <1>1 DEF Lookup, Effect, Same, Unmoved, Runs
<1>2. ASSUME NEW p \in Producers, Insert(p) PROVE Effect
  <2>1. UNCHANGED <<worker, crashes>>
    BY <1>2 DEF Insert
  <2>2. Unmoved
    BY <2>1 DEF Unmoved, Runs
  <2>3. CASE UNCHANGED job
    BY <1>0, <2>1, <2>2, <2>3 DEF Effect, Same
  <2>4. ASSUME NEW j \in Jobs \ Live, NEW d \in Delays, NEW h \in BOOLEAN,
               ~Rejected(call[p].key),
               job' = [job EXCEPT ![j] =
                          [status |-> "pending", key |-> call[p].key, handled |-> h,
                           attempts |-> 0, wait |-> d]]
        PROVE  Effect
    <3>1. Added(j, p)
      BY <2>2, <2>4 DEF Added, Live, TypeOK
    <3> QED
      BY <2>1, <3>1 DEF Effect
  <2> QED
    BY <1>2, <2>3, <2>4 DEF Insert
<1>3. ASSUME NEW w \in Workers, Select(w) PROVE Effect
  <2>1. Unmoved
    BY <1>3 DEF Select, Unmoved, Runs, TypeOK
  <2> QED
    BY <1>0, <1>3, <2>1 DEF Select, Effect, Same
<1>4. ASSUME NEW w \in Workers, Claim(w) PROVE Effect
  <2> DEFINE j == worker[w].job
  <2>1. j \in Jobs /\ job[j] \in Job /\ \A i \in Jobs : ~Runs(w, i)
    BY <1>4 DEF Claim, AttemptsLeft, TypeOK, Runs
  <2>2. crashes' = crashes
    BY <1>4 DEF Claim
  <2>3. CASE ~Claimable(j)
    <3>1. Unmoved
      BY <1>4, <2>1, <2>3 DEF Claim, Unmoved, Runs, TypeOK, Free
    <3> QED
      BY <1>0, <1>4, <2>2, <2>3, <3>1 DEF Claim, Effect, Same
  <2>4. CASE Claimable(j)
    <3>1. /\ \A i \in Jobs \ {j} : job'[i] = job[i]
          /\ job'[j].status = "processing"
          /\ job'[j].key = job[j].key
      BY <1>4, <2>1, <2>4 DEF Claim, TypeOK, Job
    <3>2. \A v \in Workers : worker'[v] =
             IF v = w THEN [pc |-> "run", job |-> j, attempts |-> worker[w].attempts + 1]
             ELSE worker[v]
      BY <1>4, <2>4 DEF Claim, TypeOK
    <3>3. Taken(j, w)
      BY <2>1, <2>4, <3>1, <3>2 DEF Taken, Moved, Runs, Claimable
    <3> QED
      BY <2>1, <2>2, <3>3 DEF Effect
  <2> QED
    BY <2>3, <2>4
<1>5. ASSUME NEW w \in Workers, Bury(w) \/ Complete(w) \/ Fail(w) PROVE Effect
  BY <1>5, SaveEffect DEF Bury, Complete, Fail
<1>6. ASSUME NEW w \in Workers, Crash(w) PROVE Effect
  <2> DEFINE j == worker[w].job
  <2>1. j \in Jobs
    BY <1>6 DEF Crash, AttemptsLeft
  <2>2. \A v \in Workers : worker'[v] = IF v = w THEN Free ELSE worker[v]
    BY <1>6 DEF Crash, TypeOK
  <2>3. /\ \A v \in Workers \ {w}, i \in Jobs : Runs(v, i)' <=> Runs(v, i)
        /\ \A i \in Jobs : ~Runs(w, i)'
    BY <2>2 DEF Runs, Free
  <2>4. Same /\ crashes' = crashes + 1
    BY <1>6 DEF Crash, Same
  <2>5. CASE Runs(w, j)
    BY <2>1, <2>3, <2>4, <2>5 DEF Left, Effect
  <2>6. CASE ~Runs(w, j)
    <3>1. Unmoved
      BY <2>3, <2>6 DEF Unmoved, Runs
    <3> QED
      BY <1>0, <2>4, <3>1 DEF Effect
  <2> QED
    BY <2>5, <2>6
<1>7. ASSUME Tick PROVE Effect
  <2>1. Same
    BY <1>7 DEF Tick, Same, TypeOK, Job
  <2> QED
    BY <1>0, <1>7, <2>1 DEF Tick, Effect, Unmoved, Runs
<1>8. CASE UNCHANGED vars
  BY <1>0, <1>8 DEF vars, Effect, Same, Unmoved, Runs
<1> QED
  BY <1>1, <1>2, <1>3, <1>4, <1>5, <1>6, <1>7, <1>8 DEF Next, Work

-----------------------------------------------------------------------------
(* No job runs in two workers at once, whichever statements of claimNext   *)
(* interleave and whoever crashes.                                         *)
THEOREM HolderIsUnique == Spec => []OneHolder
<1>1. Inv => OneHolder
  BY DEF Inv
<1> QED
  BY <1>1, Invariance, PTL
(* However enqueue calls with one key overlap, there is one job for it.    *)
THEOREM OneJobPerKeyAlways == Spec => []OneJobPerKey
<1>1. Init => OneJobPerKey
  BY DEF Init, OneJobPerKey, Live, Absent
<1>2. Inv /\ OneJobPerKey /\ [Next]_vars => OneJobPerKey'
  <2> SUFFICES ASSUME Inv, OneJobPerKey, Effect PROVE OneJobPerKey'
    BY StepEffect
  <2>1. CASE Same
    BY <2>1 DEF Same, OneJobPerKey, Live
  <2>2. ASSUME NEW j \in Jobs, NEW p \in Producers, Added(j, p) PROVE OneJobPerKey'
    <3>1. \A i \in Jobs : i # j => /\ job'[i].key = job[i].key
                                  /\ job'[i].status = job[i].status
      BY <2>2 DEF Added
    <3>2. \A i \in Live : job[i].key = call[p].key => call[p].key = NoKey
      BY <2>2 DEF Added, Rejected, HasKey
    <3>3. job'[j].key = call[p].key
      BY <2>2 DEF Added
    <3> QED
      BY <3>1, <3>2, <3>3 DEF OneJobPerKey, Live
  <2>3. ASSUME NEW j \in Jobs, NEW w \in Workers, Taken(j, w) \/ Given(j, w)
        PROVE  OneJobPerKey'
    <3>1. PICK before, after : Moved(j, w, before, after) /\ before # "none" /\ after # "none"
      BY <2>3 DEF Taken, Given
    <3>2. /\ \A i \in Jobs : job'[i].key = job[i].key
          /\ Live' = Live
      BY <3>1 DEF Moved, Live
    <3> QED
      BY <3>2 DEF OneJobPerKey, Live
  <2>4. ASSUME NEW j \in Jobs, NEW w \in Workers, Left(j, w) PROVE OneJobPerKey'
    BY <2>4 DEF Left, Same, OneJobPerKey, Live
  <2> QED
    BY <2>1, <2>2, <2>3, <2>4 DEF Effect
<1> QED
  BY <1>1, <1>2, Invariance, PTL DEF Spec

(* Jobs stuck in processing are at most as many as workers crashed.        *)
THEOREM OrphansAreFew == Spec => []OrphansComeFromCrashes
<1> DEFINE Few == crashes \in Nat /\ Cardinality(Orphans) <= crashes
<1>0. IsFiniteSet(Orphans)
  BY JobsAssumption, FS_Subset DEF Orphans
<1>0p. IsFiniteSet(Orphans')
  BY JobsAssumption, FS_Subset DEF Orphans
<1>1. Init => Few
  <2> SUFFICES ASSUME Init PROVE Few
    OBVIOUS
  <2>1. Orphans = {}
    BY DEF Init, Orphans, Absent
  <2> QED
    BY <2>1, FS_EmptySet DEF Init
<1>2. Inv /\ Few /\ [Next]_vars => Few'
  <2> SUFFICES ASSUME Inv', Few, Effect PROVE Few'
    BY StepEffect, InvStep
  <2>0. Cardinality(Orphans) \in Nat /\ Cardinality(Orphans') \in Nat
    BY <1>0, <1>0p, FS_CardinalityType
  <2>1. ASSUME Orphans' \subseteq Orphans, crashes' \in Nat, crashes' >= crashes PROVE Few'
    <3>1. Cardinality(Orphans') <= Cardinality(Orphans)
      BY <1>0, <2>1, FS_Subset
    <3> QED
      BY <2>0, <2>1, <3>1
  <2>2. crashes' \in Nat
    BY DEF Inv, TypeOK
  <2>3. CASE Same /\ Unmoved /\ crashes' >= crashes
    <3>1. Orphans' \subseteq Orphans
      BY <2>3 DEF Same, Unmoved, Orphans
    <3> QED
      BY <2>1, <2>2, <2>3, <3>1
  <2>4. ASSUME NEW j \in Jobs, NEW p \in Producers, Added(j, p), crashes' = crashes
        PROVE  Few'
    <3>1. Orphans' \subseteq Orphans
      BY <2>4 DEF Added, Unmoved, Orphans
    <3> QED
      BY <2>1, <2>2, <2>4, <3>1
  <2>5. ASSUME NEW j \in Jobs, NEW w \in Workers, Taken(j, w), crashes' = crashes
        PROVE  Few'
    <3>1. Runs(w, j)' /\ \A i \in Jobs \ {j} : job'[i] = job[i]
      BY <2>5 DEF Taken, Moved
    <3>2. \A i \in Jobs \ {j}, v \in Workers : Runs(v, i) => Runs(v, i)'
      BY <2>5 DEF Taken, Moved
    <3>3. Orphans' \subseteq Orphans
      BY <3>1, <3>2 DEF Orphans
    <3> QED
      BY <2>1, <2>2, <2>5, <3>3
  <2>6. ASSUME NEW j \in Jobs, NEW w \in Workers, Given(j, w), crashes' = crashes
        PROVE  Few'
    <3>1. job'[j].status # "processing" /\ \A i \in Jobs \ {j} : job'[i] = job[i]
      BY <2>6 DEF Given, Moved
    <3>2. \A i \in Jobs \ {j} : ~Runs(w, i)
      BY <2>6 DEF Given, Runs
    <3>3. \A i \in Jobs \ {j}, v \in Workers : Runs(v, i) => Runs(v, i)'
      BY <2>6, <3>2 DEF Given, Moved
    <3>4. Orphans' \subseteq Orphans
      BY <3>1, <3>3 DEF Orphans
    <3> QED
      BY <2>1, <2>2, <2>6, <3>4
  <2>7. ASSUME NEW j \in Jobs, NEW w \in Workers, Left(j, w) PROVE Few'
    <3>1. \A i \in Jobs \ {j} : ~Runs(w, i)
      BY <2>7 DEF Left, Runs
    <3>2. \A i \in Jobs \ {j}, v \in Workers : Runs(v, i) => Runs(v, i)'
      BY <2>7, <3>1 DEF Left
    <3>3. Orphans' \subseteq Orphans \cup {j}
      BY <2>7, <3>2 DEF Left, Same, Orphans
    <3>4. IsFiniteSet(Orphans \cup {j})
      BY <1>0, FS_AddElement
    <3>5. /\ Cardinality(Orphans \cup {j}) \in Nat
          /\ Cardinality(Orphans \cup {j}) <= Cardinality(Orphans) + 1
      BY <1>0, <2>0, FS_AddElement
    <3>6. Cardinality(Orphans') <= Cardinality(Orphans \cup {j})
      BY <3>3, <3>4, FS_Subset
    <3>7. crashes' = crashes + 1
      BY <2>7 DEF Left
    <3> QED
      BY <2>0, <2>2, <3>5, <3>6, <3>7
  <2> QED
    BY <2>2, <2>3, <2>4, <2>5, <2>6, <2>7 DEF Effect
<1>3. Few => OrphansComeFromCrashes
  BY DEF OrphansComeFromCrashes
<1> HIDE DEF Few
<1> QED
  BY <1>1, <1>2, <1>3, Invariance, PTL DEF Spec

-----------------------------------------------------------------------------
(* Refinement.                                                             *)

(* Holder names the worker that runs the job, if one does.                 *)
LEMMA HolderIs ==
    OneHolder => \A j \in Jobs :
        /\ \A w \in Workers : Runs(w, j) <=> Holder(j) = w
        /\ (\A w \in Workers : ~Runs(w, j)) <=> Holder(j) = NoWorker
<1> SUFFICES ASSUME OneHolder, NEW j \in Jobs
             PROVE  /\ \A w \in Workers : Runs(w, j) <=> Holder(j) = w
                    /\ (\A w \in Workers : ~Runs(w, j)) <=> Holder(j) = NoWorker
  OBVIOUS
<1>1. CASE \E w \in Workers : Runs(w, j)
  <2>1. Holder(j) = CHOOSE w \in Workers : Runs(w, j)
    BY <1>1 DEF Holder
  <2>2. Holder(j) \in Workers /\ Runs(Holder(j), j)
    BY <1>1, <2>1
  <2> QED
    BY <1>1, <2>2, WorkersAssumption DEF OneHolder
<1>2. CASE \A w \in Workers : ~Runs(w, j)
  <2>1. Holder(j) = NoWorker
    BY <1>2 DEF Holder
  <2> QED
    BY <1>2, <2>1, WorkersAssumption
<1> QED
  BY <1>1, <1>2

(* The queue implements JobLeases, for every instance.                     *)
THEOREM QueueImplementsLeases == Spec => ImplementsLeases
<1> DEFINE state == [j \in Jobs |-> Phase(job[j].status)]
           lease == [j \in Jobs |-> Holder(j)]
<1>1. Init => Leases!Init
  <2> SUFFICES ASSUME Init PROVE Leases!Init
    OBVIOUS
  <2>1. \A j \in Jobs : Phase(job[j].status) = "absent"
    BY DEF Init, Absent, Phase
  <2>2. \A j \in Jobs : Holder(j) = NoWorker
    BY DEF Init, Free, Runs, Holder
  <2> QED
    BY <2>1, <2>2 DEF Leases!Init
<1>2. Inv /\ Inv' /\ [Next]_vars => [Leases!Next]_<<state, lease>>
  <2> SUFFICES ASSUME Inv, Inv', Effect PROVE Leases!Next \/ UNCHANGED <<state, lease>>
    BY StepEffect
  <2>1. \A j \in Jobs :
          /\ \A w \in Workers : Runs(w, j) <=> Holder(j) = w
          /\ (\A w \in Workers : ~Runs(w, j)) <=> Holder(j) = NoWorker
    BY HolderIs DEF Inv
  <2>2. \A j \in Jobs :
          /\ \A w \in Workers : Runs(w, j)' <=> Holder(j)' = w
          /\ (\A w \in Workers : ~Runs(w, j)') <=> Holder(j)' = NoWorker
    <3>1. OneHolder'
      BY DEF Inv
    <3>2. (OneHolder => \A j \in Jobs :
              /\ \A w \in Workers : Runs(w, j) <=> Holder(j) = w
              /\ (\A w \in Workers : ~Runs(w, j)) <=> Holder(j) = NoWorker)'
      BY HolderIs, PTL
    <3> QED
      BY <3>1, <3>2
  <2>3. \A j \in Jobs :
          (\A w \in Workers : Runs(w, j)' <=> Runs(w, j)) => Holder(j)' = Holder(j)
    BY <2>1, <2>2
  <2>4. CASE Same /\ Unmoved
    <3>1. UNCHANGED state
      BY <2>4 DEF Same
    <3>2. UNCHANGED lease
      BY <2>3, <2>4 DEF Unmoved
    <3> QED
      BY <3>1, <3>2
  <2>5. ASSUME NEW j \in Jobs, NEW p \in Producers, Added(j, p) PROVE Leases!Next
    <3>1. state[j] = "absent" /\ state' = [state EXCEPT ![j] = "queued"]
      BY <2>5 DEF Added, Phase
    <3>2. UNCHANGED lease
      BY <2>3, <2>5 DEF Added, Unmoved
    <3> QED
      BY <3>1, <3>2 DEF Leases!Next, Leases!Add
  <2>6. ASSUME NEW j \in Jobs, NEW w \in Workers, Taken(j, w) PROVE Leases!Next
    <3>1. state[j] = "queued" /\ state' = [state EXCEPT ![j] = "leased"]
      BY <2>6 DEF Taken, Moved, Phase
    <3>2. \A i \in Jobs : Holder(i) # w
      BY <2>1, <2>6 DEF Taken
    <3>3. Holder(j) = NoWorker
      BY <2>1, <2>6 DEF Taken, Moved, Inv, OneHolder
    <3>4. \A i \in Jobs : Holder(i)' = IF i = j THEN w ELSE Holder(i)
      BY <2>2, <2>3, <2>6 DEF Taken, Moved
    <3>5. lease' = [lease EXCEPT ![j] = w]
      BY <3>4
    <3>6. lease[j] = NoWorker /\ \A i \in Jobs : lease[i] # w
      BY <3>2, <3>3
    <3> QED
      BY <3>1, <3>5, <3>6 DEF Leases!Next, Leases!Take
  <2>7. ASSUME NEW j \in Jobs, NEW w \in Workers, Given(j, w) PROVE Leases!Next
    <3>1. PICK s \in {"pending", "completed", "dead"} : Moved(j, w, "processing", s)
      BY <2>7 DEF Given
    <3>2. Phase(s) \in {"queued", "finished"} /\ state[j] = "leased"
      BY <3>1 DEF Moved, Phase
    <3>3. state' = [state EXCEPT ![j] = Phase(s)]
      BY <3>1 DEF Moved
    <3>4. lease[j] = w
      BY <2>1, <2>7 DEF Given
    <3>5. \A i \in Jobs : Holder(i)' = IF i = j THEN NoWorker ELSE Holder(i)
      <4>1. \A i \in Jobs \ {j} : ~Runs(w, i)
        BY <2>7 DEF Given, Runs
      <4>2. \A v \in Workers : ~Runs(v, j)'
        BY <2>7, <3>1 DEF Given, Moved, Inv, OneHolder
      <4> QED
        BY <2>2, <2>3, <2>7, <3>1, <4>1, <4>2 DEF Given, Moved
    <3>6. lease' = [lease EXCEPT ![j] = NoWorker]
      BY <3>5
    <3>7. Leases!GiveBack(j, w, Phase(s))
      BY <3>2, <3>3, <3>4, <3>6 DEF Leases!GiveBack
    <3> HIDE DEF state, lease
    <3> QED
      BY <3>2, <3>7 DEF Leases!Next
  <2>8. ASSUME NEW j \in Jobs, NEW w \in Workers, Left(j, w) PROVE Leases!Next
    <3>1. UNCHANGED state
      BY <2>8 DEF Left, Same
    <3>2. lease[j] = w
      BY <2>1, <2>8 DEF Left
    <3>3. \A i \in Jobs : Holder(i)' = IF i = j THEN NoWorker ELSE Holder(i)
      <4>1. \A i \in Jobs \ {j} : ~Runs(w, i)
        BY <2>8 DEF Left, Runs
      <4>2. \A v \in Workers : ~Runs(v, j)'
        BY <2>8 DEF Left, Inv, OneHolder
      <4> QED
        BY <2>2, <2>3, <2>8, <4>1, <4>2 DEF Left
    <3>4. lease' = [lease EXCEPT ![j] = NoWorker]
      BY <3>3
    <3>5. Leases!Abandon(j, w)
      BY <3>1, <3>2, <3>4 DEF Leases!Abandon
    <3> QED
      BY <3>5 DEF Leases!Next
  <2> QED
    BY <2>4, <2>5, <2>6, <2>7, <2>8 DEF Effect
<1> QED
  BY <1>1, <1>2, Invariance, PTL DEF Spec, ImplementsLeases, Leases!Spec

-----------------------------------------------------------------------------
(* The limit on attempts, kept by workers that take turns.                 *)

(* No two workers hold a row at the same time.                             *)
OneAtWork == \A v, w \in Workers : v = w \/ worker[v].pc = "idle" \/ worker[w].pc = "idle"

(* What RunsWithinLimit needs to be inductive: the attempts of a row count *)
(* the starts of its handler, and the worker's copy of them is the row's.  *)
CountedRow(j) ==
    /\ runs[j] = IF job[j].handled THEN job[j].attempts ELSE 0
    /\ job[j].status = "none" => job[j].attempts = 0
    /\ job[j].status = "dead" /\ job[j].handled => job[j].attempts = MaxAttempts
CurrentCopy(w) == worker[w].pc # "idle" =>
    /\ job[worker[w].job].status # "none"
    /\ worker[w].attempts = job[worker[w].job].attempts
Counted ==
    /\ \A j \in Jobs : CountedRow(j)
    /\ \A w \in Workers : CurrentCopy(w)

(* A save by the only worker that holds a row keeps the counts.            *)
LEMMA SaveCounted ==
    ASSUME Inv, Counted, OneAtWork, NEW w \in Workers, worker[w].pc = "run",
           NEW s \in {"pending", "completed", "dead"}, NEW n, Save(w, s, n),
           s = "dead" /\ job[worker[w].job].handled => worker[w].attempts = MaxAttempts
    PROVE  Counted'
<1>0. PICK j \in Jobs : j = worker[w].job
  BY DEF Inv, AttemptsLeft
<1>1. job[j] \in Job /\ worker[w].attempts = job[j].attempts /\ CountedRow(j)
  BY <1>0 DEF Inv, AttemptsLeft, TypeOK, Counted, CurrentCopy
<1>2. /\ job'[j].status = s /\ job'[j].handled = job[j].handled
      /\ job'[j].attempts = job[j].attempts
      /\ \A i \in Jobs \ {j} : job'[i] = job[i]
      /\ runs' = runs
  BY <1>0, <1>1 DEF Save, Inv, TypeOK, Job
<1>3. CountedRow(j)'
  BY <1>0, <1>1, <1>2 DEF CountedRow
<1>4. \A i \in Jobs \ {j} : CountedRow(i)'
  BY <1>2 DEF Counted, CountedRow
<1>5. \A v \in Workers : CurrentCopy(v)'
  <2> SUFFICES ASSUME NEW v \in Workers PROVE worker'[v].pc = "idle"
    BY DEF CurrentCopy
  <2>1. worker'[v] = IF v = w THEN Free ELSE worker[v]
    BY DEF Save, Inv, TypeOK
  <2> QED
    BY <2>1 DEF OneAtWork, Free
<1> QED
  BY <1>3, <1>4, <1>5 DEF Counted

LEMMA CountedStep == Inv /\ Counted /\ OneAtWork /\ OneAtWork' /\ [Next]_vars => Counted'
<1> SUFFICES ASSUME Inv, Counted, OneAtWork, OneAtWork', [Next]_vars PROVE Counted'
  OBVIOUS
<1>t. TypeOK /\ AttemptsLeft
  BY DEF Inv
<1>1. ASSUME NEW p \in Producers, NEW k \in Keys \cup {NoKey}, Lookup(p, k) PROVE Counted'
  BY <1>1 DEF Lookup, Counted, CountedRow, CurrentCopy
<1>2. ASSUME NEW p \in Producers, Insert(p) PROVE Counted'
  <2>1. UNCHANGED <<worker, runs>>
    BY <1>2 DEF Insert
  <2>2. CASE UNCHANGED job
    BY <2>1, <2>2 DEF Counted, CountedRow, CurrentCopy
  <2>3. ASSUME NEW j \in Jobs \ Live, NEW d \in Delays, NEW h \in BOOLEAN,
               job' = [job EXCEPT ![j] =
                          [status |-> "pending", key |-> call[p].key, handled |-> h,
                           attempts |-> 0, wait |-> d]]
        PROVE  Counted'
    <3>1. /\ job'[j].status = "pending" /\ job'[j].attempts = 0
          /\ \A i \in Jobs \ {j} : job'[i] = job[i]
      BY <2>3, <1>t DEF TypeOK
    <3>2. job[j].status = "none" /\ runs[j] = 0
      BY <2>3 DEF Live, Counted, CountedRow
    <3>3. \A i \in Jobs : CountedRow(i)'
      BY <2>1, <3>1, <3>2 DEF Counted, CountedRow
    <3>4. ASSUME NEW w \in Workers, worker[w].pc # "idle"
          PROVE  worker[w].job \in Jobs \ {j}
      BY <3>2, <3>4, <1>t DEF Counted, CurrentCopy, AttemptsLeft
    <3>5. \A w \in Workers : CurrentCopy(w)'
      BY <2>1, <3>1, <3>4 DEF Counted, CurrentCopy
    <3> QED
      BY <3>3, <3>5 DEF Counted
  <2> QED
    BY <1>2, <2>2, <2>3 DEF Insert
<1>3. ASSUME NEW w \in Workers, Select(w) PROVE Counted'
  <2>1. PICK j \in Jobs : /\ Due(j)
                          /\ worker' = [worker EXCEPT ![w] =
                               [pc |-> "claim", job |-> j, attempts |-> job[j].attempts]]
    BY <1>3 DEF Select
  <2>2. UNCHANGED <<job, runs>>
    BY <1>3 DEF Select
  <2>3. CurrentCopy(w)'
    BY <2>1, <2>2, <1>t DEF CurrentCopy, Due, TypeOK
  <2>4. \A v \in Workers \ {w} : CurrentCopy(v)'
    BY <2>1, <2>2, <1>t DEF Counted, CurrentCopy, TypeOK
  <2> QED
    BY <2>2, <2>3, <2>4 DEF Counted, CountedRow
<1>4. ASSUME NEW w \in Workers, Claim(w) PROVE Counted'
  <2>0. PICK j \in Jobs, n \in {worker[w].attempts + 1} : j = worker[w].job /\ n = worker[w].attempts + 1
    BY <1>4, <1>t DEF Claim, AttemptsLeft
  <2>1. /\ job[j] \in Job /\ worker[w].attempts = job[j].attempts
        /\ worker[w].pc = "claim" /\ job[j].attempts \in Nat /\ runs[j] \in Nat
    BY <1>4, <1>t, <2>0, LimitsAssumption DEF Claim, Counted, CurrentCopy, TypeOK, Job
  <2>2. \A v \in Workers \ {w} : worker'[v].pc = "idle"
    BY <1>4, <2>1, <1>t DEF Claim, OneAtWork, TypeOK
  <2>3. CASE ~Claimable(j)
    <3>1. worker'[w].pc = "idle" /\ UNCHANGED <<job, runs>>
      BY <1>4, <2>0, <2>3, <1>t DEF Claim, TypeOK, Free
    <3> QED
      BY <2>2, <3>1 DEF Counted, CountedRow, CurrentCopy
  <2>4. CASE Claimable(j)
    <3>1. /\ job'[j].status = "processing" /\ job'[j].attempts = n
          /\ job'[j].handled = job[j].handled
          /\ \A i \in Jobs \ {j} : job'[i] = job[i] /\ runs'[i] = runs[i]
          /\ runs'[j] = IF job[j].handled THEN runs[j] + 1 ELSE runs[j]
          /\ worker'[w] = [pc |-> "run", job |-> j, attempts |-> n]
      BY <1>4, <2>0, <2>1, <2>4, <1>t DEF Claim, TypeOK, Job
    <3>2. CountedRow(j)'
      <4>1. runs[j] = IF job[j].handled THEN job[j].attempts ELSE 0
        BY <2>1 DEF Counted, CountedRow
      <4> QED
        BY <2>0, <2>1, <3>1, <4>1 DEF CountedRow
    <3>3. \A i \in Jobs \ {j} : CountedRow(i)'
      BY <3>1 DEF Counted, CountedRow
    <3>4. CurrentCopy(w)'
      BY <3>1 DEF CurrentCopy
    <3> QED
      BY <2>2, <3>2, <3>3, <3>4 DEF Counted, CurrentCopy
  <2> QED
    BY <2>3, <2>4
<1>5. ASSUME NEW w \in Workers, Bury(w) \/ Complete(w) PROVE Counted'
  BY <1>5, SaveCounted DEF Bury, Complete
<1>6. ASSUME NEW w \in Workers, Fail(w) PROVE Counted'
  <2> DEFINE s == IF Exhausted(worker[w].attempts) THEN "dead" ELSE "pending"
  <2>1. worker[w].attempts \in 0 .. MaxAttempts
    BY <1>t DEF TypeOK, Worker
  <2>2. s = "dead" => worker[w].attempts = MaxAttempts
    BY <2>1, LimitsAssumption DEF Exhausted
  <2>3. worker[w].pc = "run" /\ Save(w, s, Backoff(worker[w].attempts))
    BY <1>6 DEF Fail
  <2>4. s \in {"pending", "completed", "dead"}
    OBVIOUS
  <2> HIDE DEF s
  <2> QED
    BY <2>2, <2>3, <2>4, SaveCounted
<1>7. ASSUME NEW w \in Workers, Crash(w) PROVE Counted'
  <2>1. \A v \in Workers : worker'[v] = IF v = w THEN Free ELSE worker[v]
    BY <1>7, <1>t DEF Crash, TypeOK
  <2> QED
    BY <1>7, <2>1 DEF Crash, Counted, CountedRow, CurrentCopy, Free
<1>8. ASSUME Tick PROVE Counted'
  <2>1. \A j \in Jobs : /\ job'[j].status = job[j].status
                        /\ job'[j].attempts = job[j].attempts
                        /\ job'[j].handled = job[j].handled
    <3> TAKE j \in Jobs
    <3> DEFINE n == IF job[j].wait = 0 THEN 0 ELSE job[j].wait - 1
    <3>1. job[j] \in Job /\ job'[j] = [job[j] EXCEPT !.wait = n]
      BY <1>8, <1>t DEF Tick, TypeOK
    <3> HIDE DEF n
    <3> QED
      BY <3>1 DEF Job
  <2>2. UNCHANGED <<worker, runs>>
    BY <1>8 DEF Tick
  <2> QED
    BY <2>1, <2>2, <1>t DEF Counted, CountedRow, CurrentCopy, AttemptsLeft
<1>9. CASE UNCHANGED vars
  BY <1>9 DEF vars, Counted, CountedRow, CurrentCopy
<1> QED
  BY <1>1, <1>2, <1>3, <1>4, <1>5, <1>6, <1>7, <1>8, <1>9 DEF Next, Work

LEMMA CountedLimit == Inv /\ Counted => RunsWithinLimit
<1> SUFFICES ASSUME Inv, Counted, NEW j \in Jobs
             PROVE  /\ runs[j] <= MaxAttempts
                    /\ job[j].status = "dead" /\ job[j].handled => runs[j] = MaxAttempts
  BY DEF RunsWithinLimit
<1>1. job[j].attempts \in 0 .. MaxAttempts
  BY DEF Inv, TypeOK, Job
<1> QED
  BY <1>1, LimitsAssumption DEF Counted, CountedRow

LEMMA CountedInit == Init => Counted
BY DEF Init, Counted, CountedRow, CurrentCopy, Absent, Free

(* Workers that never hold rows at the same time start a handler at most   *)
(* MaxAttempts times, and give a job up only after all of them, however    *)
(* many they are and wherever they crash.                                  *)
THEOREM LimitKeptInTurn == Spec /\ []OneAtWork => []RunsWithinLimit
BY InvInit, InvStep, CountedInit, CountedStep, CountedLimit, PTL DEF Spec

(* The workers that are not deployed never hold anything; so where one is, *)
(* the checked instance takes turns.                                       *)
Undeployed == deployed \subseteq Workers /\ \A w \in Workers \ deployed : worker[w].pc = "idle"
Alone == Inv /\ Undeployed /\ (OneWorker => Counted)

LEMMA OneWorkerAlone == Undeployed /\ OneWorker => OneAtWork
<1> SUFFICES ASSUME Undeployed, OneWorker PROVE OneAtWork
  OBVIOUS
<1>1. IsFiniteSet(deployed)
  BY WorkersAssumption, FS_Subset DEF Undeployed
<1>2. PICK only : deployed = {only}
  BY <1>1, FS_Singleton DEF OneWorker
<1> QED
  BY <1>2 DEF Undeployed, OneAtWork

LEMMA AloneStep == Alone /\ [MCNext]_mcVars => Alone'
<1> SUFFICES ASSUME Alone, [MCNext]_mcVars PROVE Alone'
  OBVIOUS
<1>1. deployed' = deployed /\ [Next]_vars
  BY DEF MCNext, mcVars, WorkDeployed, Deployed, TickDeployed, Next, vars
<1>2. Inv'
  BY <1>1, InvStep DEF Alone
<1>3. Undeployed'
  <2> SUFFICES ASSUME NEW v \in Workers \ deployed PROVE worker'[v].pc = "idle"
    BY <1>1 DEF Alone, Undeployed
  <2>1. worker[v].pc = "idle" /\ TypeOK
    BY DEF Alone, Undeployed, Inv
  <2>2. ASSUME NEW w \in Workers, w \in deployed, Work(w) \/ Crash(w) PROVE worker'[v] = worker[v]
    <3>1. CASE Select(w)
      BY <2>1, <2>2, <3>1 DEF Select, TypeOK
    <3>2. CASE Claim(w)
      BY <2>1, <2>2, <3>2 DEF Claim, TypeOK
    <3>3. CASE Bury(w) \/ Complete(w) \/ Fail(w) \/ Crash(w)
      BY <2>1, <2>2, <3>3 DEF Bury, Complete, Fail, Crash, Save, TypeOK
    <3> QED
      BY <2>2, <3>1, <3>2, <3>3 DEF Work
  <2>3. (\E w \in Workers : w \in deployed /\ (Work(w) \/ Crash(w))) \/ UNCHANGED worker
    BY DEF MCNext, mcVars, vars, WorkDeployed, Deployed, TickDeployed, Lookup, Insert, Tick
  <2> QED
    BY <2>1, <2>2, <2>3
<1>4. ASSUME OneWorker' PROVE Counted'
  <2>1. OneWorker
    BY <1>1, <1>4 DEF OneWorker
  <2>2. OneAtWork
    BY <2>1, OneWorkerAlone DEF Alone
  <2>3. Undeployed' /\ OneWorker' => OneAtWork'
    BY OneWorkerAlone, PTL
  <2> QED
    BY <1>1, <1>3, <1>4, <2>1, <2>2, <2>3, CountedStep DEF Alone
<1> QED
  BY <1>2, <1>3, <1>4 DEF Alone

(* A single deployed worker keeps the limit exactly, for any number of     *)
(* jobs, keys and calls: the invariant LimitKeptByOne of the checked       *)
(* instance.                                                               *)
THEOREM LimitAlwaysKeptByOne == MCSpec => []LimitKeptByOne
<1>1. MCInit => Alone
  BY InvInit, CountedInit DEF MCInit, Init, Alone, Undeployed, Free
<1>2. Alone => LimitKeptByOne
  BY CountedLimit DEF Alone, LimitKeptByOne
<1> QED
  BY <1>1, <1>2, AloneStep, PTL DEF MCSpec
=============================================================================
