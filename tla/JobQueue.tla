------------------------------ MODULE JobQueue ------------------------------
(***************************************************************************)
(* The background job queue: request handlers enqueue jobs, worker         *)
(* processes claim due ones, run their handler and save the outcome.       *)
(* claimNext is two statements, a select and a conditional update, so      *)
(* workers interleave between them; save writes the whole claimed row.     *)
(***************************************************************************)
EXTENDS Naturals, FiniteSets

CONSTANTS
    Jobs,          \* bound: rows the job table may ever hold
    NoJob,
    Keys,          \* idempotency keys
    NoKey,         \* a job enqueued without a key
    Producers,     \* enqueue calls that can be in flight at once
    Workers,       \* processes running the worker's loop
    NoWorker,
    MaxAttempts,   \* maxAttempts of every job
    Delays,        \* how far ahead availableAt may be, in ticks of 500 ms
    MaxCrashes     \* bound: crashes of workers

ASSUME JobsAssumption == IsFiniteSet(Jobs) /\ NoJob \notin Jobs
ASSUME KeysAssumption == NoKey \notin Keys
ASSUME WorkersAssumption == IsFiniteSet(Workers) /\ NoWorker \notin Workers
ASSUME LimitsAssumption ==
    MaxAttempts \in Nat \ {0} /\ Delays \subseteq Nat /\ MaxCrashes \in Nat

VARIABLES
    job,       \* the job table
    call,      \* enqueue calls between their lookup and their insert
    worker,    \* what each worker holds: nothing, a selected or a claimed row
    runs,      \* history: how often each job's handler was started
    crashes    \* number of crashes so far

vars == <<job, call, worker, runs, crashes>>

Statuses == {"none", "pending", "processing", "completed", "dead"}

(* wait is availableAt as the ticks left until it; handled says that the   *)
(* worker registers a handler for the job's type.                          *)
Job == [status: Statuses, key: Keys \cup {NoKey}, handled: BOOLEAN,
        attempts: 0 .. MaxAttempts, wait: Nat]
Absent == [status |-> "none", key |-> NoKey, handled |-> TRUE, attempts |-> 0, wait |-> 0]

Call == [pc: {"idle", "insert"}, key: Keys \cup {NoKey}]
NoCall == [pc |-> "idle", key |-> NoKey]

(* attempts is the worker's copy of the row's column.                      *)
Worker == [pc: {"idle", "claim", "run"}, job: Jobs \cup {NoJob}, attempts: 0 .. MaxAttempts]
Free == [pc |-> "idle", job |-> NoJob, attempts |-> 0]

Init ==
    /\ job = [j \in Jobs |-> Absent]
    /\ call = [p \in Producers |-> NoCall]
    /\ worker = [w \in Workers |-> Free]
    /\ runs = [j \in Jobs |-> 0]
    /\ crashes = 0

-----------------------------------------------------------------------------
(* enqueue: look the key up; if nobody has it, insert.                     *)

Live == {j \in Jobs : job[j].status # "none"}
HasKey(k) == k # NoKey /\ \E j \in Live : job[j].key = k

Lookup(p, k) ==
    /\ call[p].pc = "idle"
    /\ ~HasKey(k)
    /\ call' = [call EXCEPT ![p] = [pc |-> "insert", key |-> k]]
    /\ UNCHANGED <<job, worker, runs, crashes>>

(* The unique index rejects a second job with the key, and the caller gets *)
(* the first one.                                                          *)
RejectedNever(k) == FALSE
Rejected(k) == HasKey(k)

Insert(p) ==
    /\ call[p].pc = "insert"
    /\ \/ /\ Rejected(call[p].key)
          /\ UNCHANGED job
       \/ /\ ~Rejected(call[p].key)
          /\ \E j \in Jobs \ Live, d \in Delays, h \in BOOLEAN :
                job' = [job EXCEPT ![j] =
                          [status |-> "pending", key |-> call[p].key, handled |-> h,
                           attempts |-> 0, wait |-> d]]
    /\ call' = [call EXCEPT ![p] = NoCall]
    /\ UNCHANGED <<worker, runs, crashes>>

-----------------------------------------------------------------------------
(* processNext.                                                            *)

(* claimNext's select: any due row, for the query has no order.            *)
Due(j) == job[j].status = "pending" /\ job[j].wait = 0

Select(w) ==
    /\ worker[w].pc = "idle"
    /\ \E j \in Jobs :
          /\ Due(j)
          /\ worker' = [worker EXCEPT ![w] =
                          [pc |-> "claim", job |-> j, attempts |-> job[j].attempts]]
    /\ UNCHANGED <<job, call, runs, crashes>>

(* claimNext's update, conditional on the status alone.                    *)
ClaimableAlways(j) == TRUE
Claimable(j) == job[j].status = "pending"

Claim(w) ==
    /\ worker[w].pc = "claim"
    /\ LET j == worker[w].job
           n == worker[w].attempts + 1
       IN  IF Claimable(j)
           THEN /\ job' = [job EXCEPT ![j].status = "processing", ![j].attempts = n]
                /\ worker' = [worker EXCEPT ![w] = [pc |-> "run", job |-> j, attempts |-> n]]
                /\ runs' = IF job[j].handled THEN [runs EXCEPT ![j] = @ + 1] ELSE runs
           ELSE /\ worker' = [worker EXCEPT ![w] = Free]
                /\ UNCHANGED <<job, runs>>
    /\ UNCHANGED <<call, crashes>>

(* The save at the end of processNext, with the attempts of the claim.     *)
Save(w, status, wait) ==
    /\ job' = [job EXCEPT ![worker[w].job].status = status,
                          ![worker[w].job].attempts = worker[w].attempts,
                          ![worker[w].job].wait = wait]
    /\ worker' = [worker EXCEPT ![w] = Free]
    /\ UNCHANGED <<call, runs, crashes>>

(* No handler is registered for the type.                                  *)
BuryWithoutSave(w) ==
    /\ worker[w].pc = "run"
    /\ ~job[worker[w].job].handled
    /\ worker' = [worker EXCEPT ![w] = Free]
    /\ UNCHANGED <<job, call, runs, crashes>>
BuryUncounted(w) ==
    /\ worker[w].pc = "run"
    /\ ~job[worker[w].job].handled
    /\ job' = [job EXCEPT ![worker[w].job].status = "pending",
                          ![worker[w].job].attempts = worker[w].attempts - 1]
    /\ worker' = [worker EXCEPT ![w] = Free]
    /\ UNCHANGED <<call, runs, crashes>>
Bury(w) ==
    /\ worker[w].pc = "run"
    /\ ~job[worker[w].job].handled
    /\ Save(w, "dead", job[worker[w].job].wait)

Complete(w) ==
    /\ worker[w].pc = "run"
    /\ job[worker[w].job].handled
    /\ Save(w, "completed", job[worker[w].job].wait)

(* backoffMs in ticks of 500 ms, at most a minute.                         *)
Backoff(n) == IF n <= 1 THEN 1
              ELSE IF n > 7 THEN 120
              ELSE <<1, 2, 4, 8, 16, 32, 64>>[n]

ExhaustedLate(n) == n > MaxAttempts
Exhausted(n) == n >= MaxAttempts

(* The handler threw.                                                      *)
Fail(w) ==
    /\ worker[w].pc = "run"
    /\ job[worker[w].job].handled
    /\ Save(w, IF Exhausted(worker[w].attempts) THEN "dead" ELSE "pending",
            Backoff(worker[w].attempts))

(* The process dies, or a database call throws and main() exits.  The row  *)
(* it claimed stays as it is.                                              *)
Crash(w) ==
    /\ worker[w].pc # "idle"
    /\ crashes < MaxCrashes
    /\ crashes' = crashes + 1
    /\ worker' = [worker EXCEPT ![w] = Free]
    /\ UNCHANGED <<job, call, runs>>

(* 500 ms pass.                                                            *)
Tick ==
    /\ \E j \in Jobs : job[j].wait > 0
    /\ job' = [j \in Jobs |-> [job[j] EXCEPT !.wait = IF @ = 0 THEN 0 ELSE @ - 1]]
    /\ UNCHANGED <<call, worker, runs, crashes>>

Work(w) == Select(w) \/ Claim(w) \/ Bury(w) \/ Complete(w) \/ Fail(w)

Next ==
    \/ \E p \in Producers, k \in Keys \cup {NoKey} : Lookup(p, k)
    \/ \E p \in Producers : Insert(p)
    \/ \E w \in Workers : Work(w) \/ Crash(w)
    \/ Tick

Spec == Init /\ [][Next]_vars

(* Time passes, and a worker polls again after every job: each handler     *)
(* returns or throws.                                                      *)
FairSpec == Spec /\ WF_vars(Tick) /\ \A w \in Workers : WF_vars(Work(w))
-----------------------------------------------------------------------------
(* Properties.                                                             *)

(* Type correctness; above all no attempts counter passes the limit,       *)
(* neither in the table nor in a worker's copy.                            *)
TypeOK ==
    /\ job \in [Jobs -> Job]
    /\ call \in [Producers -> Call]
    /\ worker \in [Workers -> Worker]
    /\ runs \in [Jobs -> Nat]
    /\ crashes \in Nat

Runs(w, j) == worker[w].pc = "run" /\ worker[w].job = j

(* No job runs in two workers at once, and a running one is marked so.     *)
OneHolder == \A w \in Workers, j \in Jobs : Runs(w, j) =>
    /\ job[j].status = "processing"
    /\ \A v \in Workers : Runs(v, j) => v = w

(* enqueue with a key another call has used, or is using, adds no job.     *)
OneJobPerKey == \A i, j \in Live :
    job[i].key = job[j].key /\ job[i].key # NoKey => i = j

(* A job is left processing with nobody running it only by a crash, one    *)
(* job per crash at most.                                                  *)
Orphans == {j \in Jobs : job[j].status = "processing" /\ \A w \in Workers : ~Runs(w, j)}
OrphansComeFromCrashes == Cardinality(Orphans) <= crashes

(* With one worker: a handler is started at most MaxAttempts times, and a  *)
(* handled job is dead only after all of them.  With two workers one can   *)
(* select the row, the other claim it, fail and save it, and the first     *)
(* claim it with the attempts counter it read: the count starts over.      *)
RunsWithinLimit == \A j \in Jobs :
    /\ runs[j] <= MaxAttempts
    /\ job[j].status = "dead" /\ job[j].handled => runs[j] = MaxAttempts

(* Every job ends completed or dead unless a crash orphans it, whatever    *)
(* its handler does and however many workers there are: select takes any   *)
(* due row, but attempts are bounded, so no row is passed over for ever.   *)
(* Nothing takes an orphan up again.                                       *)
EveryJobEnds == \A j \in Jobs : job[j].status = "pending" ~>
    job[j].status \in {"completed", "dead"} \/ j \in Orphans

-----------------------------------------------------------------------------
(* What the queue promises its users: JobLeases.                           *)

Phase(s) == CASE s = "none" -> "absent"
              [] s = "pending" -> "queued"
              [] s = "processing" -> "leased"
              [] OTHER -> "finished"

Holder(j) == IF \E w \in Workers : Runs(w, j)
             THEN CHOOSE w \in Workers : Runs(w, j)
             ELSE NoWorker

Leases == INSTANCE JobLeases WITH
    state <- [j \in Jobs |-> Phase(job[j].status)],
    lease <- [j \in Jobs |-> Holder(j)]

(* The queue implements JobLeases: a job is leased to one worker at a      *)
(* time, goes back to the queue or ends by that worker's hand only, and a  *)
(* lease lost to a crash is never given out again.                         *)
ImplementsLeases == Leases!Spec
=============================================================================
