------------------------------ MODULE MCBilling ------------------------------
(***************************************************************************)
(* An instance of Billing for TLC: operations that overlap, where nothing  *)
(* fails, or that take turns, are longer and may fail.                     *)
(***************************************************************************)
EXTENDS Billing, TLC

VARIABLE scene

MCInit == Init /\ scene \in {"overlap", "turns"}

InScene == /\ IF scene = "turns" THEN ~overlapped'
              ELSE calls' <= 4 /\ faults' = 0 /\ now' <= Period + 1
           /\ UNCHANGED scene

MCNext == 
    \/ (Tick \/ RequestCancellation) /\ InScene
    \/ \E i \in Invoices : (Pay(i) \/ Abandon(i)) /\ InScene
    \/ \E s \in Slots : /\ \/ StartCheckout(s) \/ ConfirmCancellation(s)
                           \/ ProcessRenewals(s) \/ ProcessRenewalNotices(s)
                           \/ ProcessGraceExpiry(s)
                           \/ \E i \in Invoices : StripeEvent(s, i)
                           \/ Step(s) \/ Fault(s)
                        /\ InScene

MCSpec == MCInit /\ [][MCNext]_<<vars, scene>>

Alike == Permutations(Slots) \cup Permutations(Invoices)
=============================================================================
