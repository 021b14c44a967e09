------------------------ MODULE MCWebhookDeliveries -------------------------
(***************************************************************************)
(* An instance of WebhookDeliveries for TLC in which attempts overlap or   *)
(* do not, chosen once.  It shows in one run what overlapping attempts     *)
(* keep, and what holds of attempts made one after the other.              *)
(***************************************************************************)
EXTENDS WebhookDeliveries

VARIABLE alone  \* attempts do not overlap, and nothing fails

MCInit == Init /\ alone \in BOOLEAN

(* One attempt starts when no other is in flight.                          *)
Free(s) == alone => \A t \in Slots : attempt[t].pc = "idle"
MayFail == ~alone

(* Bound: a manual retry, a lost answer and a fault, two of them at most.  *)
MaxTroubles == 2
Bounded == retries + lost + faults <= MaxTroubles

StepMC(s) == Step(s) /\ Bounded' /\ UNCHANGED alone
WorkMC(s) == Free(s) /\ Work(s) /\ UNCHANGED alone
TickMC == Tick /\ UNCHANGED alone

MCNext ==
    \/ \E s \in Slots : Free(s) /\ EmitCreate(s) /\ UNCHANGED alone
    \/ \E s \in Slots : Free(s) /\ Retry(s) /\ Bounded' /\ UNCHANGED alone
    \/ \E s \in Slots : WorkMC(s)
    \/ \E s \in Slots : StepMC(s)
    \/ \E s \in Slots : MayFail /\ Fault(s) /\ Bounded' /\ UNCHANGED alone
    \/ TickMC

mcVars == <<vars, alone>>

MCSpec ==
    /\ MCInit /\ [][MCNext]_mcVars
    /\ WF_mcVars(TickMC)
    /\ \A s \in Slots : WF_mcVars(StepMC(s)) /\ SF_mcVars(WorkMC(s))

(* Attempts that do not overlap and do not fail: every delivery of         *)
(* attemptDelivery is delivered or given up in the end, although an        *)
(* organizer retries it by hand.                                           *)
EveryDeliveryEnds ==
    alone /\ row.status \in {"pending", "failed"} ~> row.status \in {"delivered", "dead"}
=============================================================================
