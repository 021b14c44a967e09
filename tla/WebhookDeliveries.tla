-------------------------- MODULE WebhookDeliveries -------------------------
(***************************************************************************)
(* One delivery of a public webhook: emit creates its row and a job,       *)
(* attemptDelivery posts it and chains the next job after a failure, and   *)
(* an organizer may retry it by hand.  Attempts of workers and of manual   *)
(* retries overlap; each works on the copy of the row it read and saves    *)
(* the whole of it.  Jobs behave as JobQueue shows: a key is used once, a  *)
(* job a crash leaves leased is never given out again.                     *)
(***************************************************************************)
EXTENDS Naturals, FiniteSets

CONSTANTS
    Slots,       \* attempts that can be in flight at once
    MaxKey,      \* bound: job keys, more than the window leaves time for
    Cap,         \* longest backoff, the shortest being 1
    Window,      \* how long after its creation a delivery is retried
    MaxRetries,  \* bound: manual retries
    MaxLost,     \* bound: answers of the endpoint that are lost
    MaxFaults    \* bound: processes that die, statements that fail

ASSUME BoundsAssumption ==
    /\ MaxKey \in Nat \ {0} /\ Cap \in 1 .. 1024 /\ Window \in Nat
    /\ MaxRetries \in Nat /\ MaxLost \in Nat /\ MaxFaults \in Nat
ASSUME SlotsAssumption == IsFiniteSet(Slots)

VARIABLES
    row,       \* the public_webhook_delivery row
    job,       \* the webhook.deliver job of each key
    attempt,   \* the attempts in flight
    now,       \* time since the row was created
    accepted,  \* external: how often the endpoint took the post
    lost,      \* history: of these, how often its answer did not arrive
    retries,   \* manual retries so far
    faults

vars == <<row, job, attempt, now, accepted, lost, retries, faults>>

-----------------------------------------------------------------------------
Keys == 1 .. MaxKey
Statuses == {"none", "pending", "failed", "delivered", "dead"}
Row == [status: Statuses, attempts: Nat]
Job == [state: {"absent", "queued", "leased", "finished"}, at: Nat]
PCs == {"idle", "schedule", "reset", "find", "bury", "post",
        "save delivered", "save failed", "chain", "done"}

(* copy is the row as the attempt read it, key its job's or 0 if an        *)
(* organizer or emit started it, at the retry time it computed.            *)
Attempt == [pc: PCs, copy: Row, key: 0 .. MaxKey, at: Nat]
NoRow == [status |-> "none", attempts |-> 0]
Idle == [pc |-> "idle", copy |-> NoRow, key |-> 0, at |-> 0]

Init ==
    /\ row = NoRow
    /\ job = [k \in Keys |-> [state |-> "absent", at |-> 0]]
    /\ attempt = [s \in Slots |-> Idle]
    /\ now = 0
    /\ accepted = 0
    /\ lost = 0
    /\ retries = 0
    /\ faults = 0

-----------------------------------------------------------------------------
(* emit.                                                                   *)

Goto(s, pc) == attempt' = [attempt EXCEPT ![s].pc = pc]

(* enqueue: a key that exists, in whatever state, adds no job.             *)
Enqueued(k, at) ==
    IF k \in Keys /\ job[k].state = "absent"
    THEN [job EXCEPT ![k] = [state |-> "queued", at |-> at]]
    ELSE job

EmitCreate(s) ==
    /\ row.status = "none"
    /\ attempt[s].pc = "idle"
    /\ row' = [NoRow EXCEPT !.status = "pending"]
    /\ Goto(s, "schedule")
    /\ UNCHANGED <<job, now, accepted, lost, retries, faults>>

EmitEnqueue(s) ==
    /\ attempt[s].pc = "schedule"
    /\ job' = Enqueued(1, now)
    /\ attempt' = [attempt EXCEPT ![s] = Idle]
    /\ UNCHANGED <<row, now, accepted, lost, retries, faults>>

-----------------------------------------------------------------------------
(* attemptDelivery, for a due job or a manual retry.                       *)

TakeJobUnclaimed(s, k) ==
    /\ attempt[s].pc = "idle"
    /\ job[k].state = "queued" /\ job[k].at <= now
    /\ attempt' = [attempt EXCEPT ![s] = [Idle EXCEPT !.pc = "find", !.key = k]]
    /\ UNCHANGED <<row, job, now, accepted, lost, retries, faults>>
TakeJob(s, k) ==
    /\ attempt[s].pc = "idle"
    /\ job[k].state = "queued" /\ job[k].at <= now
    /\ job' = [job EXCEPT ![k].state = "leased"]
    /\ attempt' = [attempt EXCEPT ![s] = [Idle EXCEPT !.pc = "find", !.key = k]]
    /\ UNCHANGED <<row, now, accepted, lost, retries, faults>>

(* retryDelivery: the row is read, then saved as pending.  Listed by       *)
(* endpoint it skips delivered rows; by its id any row is retried.         *)
Retry(s) ==
    /\ attempt[s].pc = "idle"
    /\ row.status # "none"
    /\ retries < MaxRetries
    /\ retries' = retries + 1
    /\ attempt' = [attempt EXCEPT ![s] = [Idle EXCEPT !.pc = "reset", !.copy = row]]
    /\ UNCHANGED <<row, job, now, accepted, lost, faults>>

Reset(s) ==
    /\ attempt[s].pc = "reset"
    /\ row' = [attempt[s].copy EXCEPT !.status = "pending"]
    /\ Goto(s, "find")
    /\ UNCHANGED <<job, now, accepted, lost, retries, faults>>

Late(t) == t > Window

Already(status) == status = "delivered"

(* The endpoint is looked up too: gone, if it was removed or disabled.     *)
Find(s) ==
    /\ attempt[s].pc = "find"
    /\ \E gone \in BOOLEAN :
          attempt' = [attempt EXCEPT ![s].copy = row,
                        ![s].pc = IF Already(row.status) THEN "done"
                                  ELSE IF gone \/ Late(now) THEN "bury" ELSE "post"]
    /\ UNCHANGED <<row, job, now, accepted, lost, retries, faults>>

Bury(s) ==
    /\ attempt[s].pc = "bury"
    /\ row' = [attempt[s].copy EXCEPT !.status = "dead"]
    /\ Goto(s, "done")
    /\ UNCHANGED <<job, now, accepted, lost, retries, faults>>

(* The endpoint takes the post and its 2xx arrives, or fetch or the        *)
(* reading of the answer throws although it took it, or it did not take    *)
(* it.  The last two are one to the code: its catch saves a failure.       *)
Post(s) ==
    /\ attempt[s].pc = "post"
    /\ \/ accepted' = accepted + 1 /\ UNCHANGED lost /\ Goto(s, "save delivered")
       \/ /\ lost < MaxLost
          /\ accepted' = accepted + 1 /\ lost' = lost + 1 /\ Goto(s, "save failed")
       \/ UNCHANGED <<accepted, lost>> /\ Goto(s, "save failed")
    /\ UNCHANGED <<row, job, now, retries, faults>>

Count(s) == attempt[s].copy.attempts + 1

SaveDeliveredStale(s) ==
    /\ attempt[s].pc = "save delivered"
    /\ row' = [attempt[s].copy EXCEPT !.status = "answered"]
    /\ Goto(s, "done")
    /\ UNCHANGED <<job, now, accepted, lost, retries, faults>>
SaveDelivered(s) ==
    /\ attempt[s].pc = "save delivered"
    /\ row' = [status |-> "delivered", attempts |-> Count(s)]
    /\ Goto(s, "done")
    /\ UNCHANGED <<job, now, accepted, lost, retries, faults>>

(* webhookBackoffMs in units of 30 s.                                      *)
Doublings == <<1, 2, 4, 8, 16, 32, 64, 128, 256, 512>>
Backoff(n) == IF n > 10 THEN Cap
              ELSE IF Doublings[n] < Cap THEN Doublings[n] ELSE Cap

Last(s) == Late(now + Backoff(Count(s)))

SaveFailed(s) ==
    /\ attempt[s].pc = "save failed"
    /\ row' = [status |-> IF Last(s) THEN "dead" ELSE "failed", attempts |-> Count(s)]
    /\ attempt' = [attempt EXCEPT ![s].pc = IF Last(s) THEN "done" ELSE "chain",
                                  ![s].at = now + Backoff(Count(s))]
    /\ UNCHANGED <<job, now, accepted, lost, retries, faults>>

NextKeyRepeated(s) == Count(s)
NextKey(s) == Count(s) + 1

Chain(s) ==
    /\ attempt[s].pc = "chain"
    /\ job' = Enqueued(NextKey(s), attempt[s].at)
    /\ Goto(s, "done")
    /\ UNCHANGED <<row, now, accepted, lost, retries, faults>>

(* The attempt returns; the worker completes its job.                      *)
Done(s) ==
    /\ attempt[s].pc = "done"
    /\ job' = IF attempt[s].key = 0 THEN job
              ELSE [job EXCEPT ![attempt[s].key].state = "finished"]
    /\ attempt' = [attempt EXCEPT ![s] = Idle]
    /\ UNCHANGED <<row, now, accepted, lost, retries, faults>>

(* A statement of attemptDelivery fails and the worker puts the job back,  *)
(* or the process dies, as it does when the statement that completes the   *)
(* job fails, and the job stays leased.  Nobody repeats a retry or emit.   *)
Fault(s) ==
    /\ attempt[s].pc # "idle"
    /\ faults < MaxFaults
    /\ faults' = faults + 1
    /\ attempt' = [attempt EXCEPT ![s] = Idle]
    /\ \/ UNCHANGED job
       \/ /\ attempt[s].key # 0 /\ attempt[s].pc # "done"
          /\ job' = [job EXCEPT ![attempt[s].key] = [state |-> "queued", at |-> now + 1]]
    /\ UNCHANGED <<row, now, accepted, lost, retries>>

(* Time passes, at the latest until no attempt is worth another.           *)
Tick ==
    /\ row.status # "none"
    /\ now <= Window
    /\ now' = now + 1
    /\ UNCHANGED <<row, job, attempt, accepted, lost, retries, faults>>

-----------------------------------------------------------------------------
Step(s) ==
    \/ EmitEnqueue(s) \/ Reset(s) \/ Find(s) \/ Bury(s) \/ Post(s)
    \/ SaveDelivered(s) \/ SaveFailed(s) \/ Chain(s) \/ Done(s)

Work(s) == \E k \in Keys : TakeJob(s, k)

Next ==
    \/ \E s \in Slots : EmitCreate(s) \/ Work(s) \/ Retry(s) \/ Step(s) \/ Fault(s)
    \/ Tick

Spec == Init /\ [][Next]_vars

(* Time passes, an attempt that started goes on, and workers take due jobs *)
(* although manual retries compete with them.                              *)
FairSpec ==
    /\ Spec
    /\ WF_vars(Tick)
    /\ \A s \in Slots : WF_vars(Step(s)) /\ SF_vars(Work(s))
-----------------------------------------------------------------------------
(* Properties.                                                             *)

(* Type correctness of the row, its copies, the jobs and the counters.     *)
TypeOK ==
    /\ row \in Row
    /\ job \in [Keys -> Job]
    /\ attempt \in [Slots -> Attempt]
    /\ now \in Nat /\ accepted \in Nat /\ lost \in Nat
    /\ retries \in Nat /\ faults \in Nat

(* However attempts overlap, the endpoint takes a delivery once, and once  *)
(* more at most for each manual retry, each fault and each post it took    *)
(* whose answer was lost: a 2xx that arrives ends the chain of attempts.   *)
AcceptedOnce == accepted <= 1 + retries + faults + lost

(* Without manual retries a chain of attempts is never doubled, though     *)
(* statements fail and processes die: what was delivered stays so.         *)
DeliveredIsFinal ==
    [][row.status = "delivered" /\ retries = 0 => row' = row]_vars
=============================================================================
