----------------------------- MODULE MCJobQueue -----------------------------
(***************************************************************************)
(* An instance of JobQueue for TLC in which some of the workers run: those *)
(* deployed, chosen once.  It shows in one run what holds for any number   *)
(* of workers and what needs that there is one.                            *)
(***************************************************************************)
EXTENDS JobQueue

VARIABLE deployed  \* the workers that run

MCInit == Init /\ deployed \in SUBSET Workers \ {{}}

Deployed(w) == w \in deployed /\ UNCHANGED deployed
WorkDeployed(w) == Deployed(w) /\ Work(w)
TickDeployed == Tick /\ UNCHANGED deployed

MCNext ==
    \/ \E p \in Producers, k \in Keys \cup {NoKey} : Lookup(p, k) /\ UNCHANGED deployed
    \/ \E p \in Producers : Insert(p) /\ UNCHANGED deployed
    \/ \E w \in Workers : WorkDeployed(w)
    \/ \E w \in Workers : Deployed(w) /\ Crash(w)
    \/ TickDeployed

mcVars == <<vars, deployed>>

MCSpec ==
    /\ MCInit /\ [][MCNext]_mcVars
    /\ WF_mcVars(TickDeployed)
    /\ \A w \in Workers : WF_mcVars(WorkDeployed(w))

OneWorker == Cardinality(deployed) = 1

(* processNext with a single worker keeps the limit on attempts exactly.   *)
LimitKeptByOne == OneWorker => RunsWithinLimit

(* The table in Backoff is the formula of backoffMs, in units of 500 ms:   *)
(* Math.min(60_000, 500 * 2 ** Math.max(0, attempts - 1)).                 *)
Milliseconds(n) == LET d == 500 * 2 ^ (IF n = 0 THEN 0 ELSE n - 1)
                   IN  IF d < 60000 THEN d ELSE 60000
ASSUME BackoffAssumption == \A n \in 0 .. 20 : 500 * Backoff(n) = Milliseconds(n)
=============================================================================
