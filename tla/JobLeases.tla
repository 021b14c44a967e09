----------------------------- MODULE JobLeases ------------------------------
(***************************************************************************)
(* What the job queue promises: a job is queued, leased to one worker that *)
(* runs it, and returned or finished by that worker.  Finished is final.   *)
(***************************************************************************)
CONSTANTS Jobs, Workers, NoWorker

VARIABLES
    state,   \* phase of each job
    lease    \* the worker that runs it, or NoWorker

TypeInvariant ==
    /\ state \in [Jobs -> {"absent", "queued", "leased", "finished"}]
    /\ lease \in [Jobs -> Workers \cup {NoWorker}]

Init ==
    /\ state = [j \in Jobs |-> "absent"]
    /\ lease = [j \in Jobs |-> NoWorker]

Add(j) ==
    /\ state[j] = "absent"
    /\ state' = [state EXCEPT ![j] = "queued"]
    /\ UNCHANGED lease

Take(j, w) ==
    /\ state[j] = "queued"
    /\ lease[j] = NoWorker
    /\ \A i \in Jobs : lease[i] # w
    /\ state' = [state EXCEPT ![j] = "leased"]
    /\ lease' = [lease EXCEPT ![j] = w]

(* The worker hands the job back for a retry, or is done with it.          *)
GiveBack(j, w, s) ==
    /\ state[j] = "leased"
    /\ lease[j] = w
    /\ state' = [state EXCEPT ![j] = s]
    /\ lease' = [lease EXCEPT ![j] = NoWorker]

(* The worker dies; nobody takes the job over.                             *)
Abandon(j, w) ==
    /\ lease[j] = w
    /\ lease' = [lease EXCEPT ![j] = NoWorker]
    /\ UNCHANGED state

Next == \E j \in Jobs :
    \/ Add(j)
    \/ \E w \in Workers :
          \/ Take(j, w)
          \/ \E s \in {"queued", "finished"} : GiveBack(j, w, s)
          \/ Abandon(j, w)

Spec == Init /\ [][Next]_<<state, lease>>
=============================================================================
