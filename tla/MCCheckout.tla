----------------------------- MODULE MCCheckout -----------------------------
(***************************************************************************)
(* Instances of Checkout for TLC in which purchases overlap and die, or    *)
(* take turns with each other, with webhooks and with the account, chosen  *)
(* once.                                                                   *)
(***************************************************************************)
EXTENDS Checkout

CONSTANTS t1, t2

VARIABLE alone  \* purchases take turns, and nothing fails

Buying(types, coupon, addOn, free) ==
    [types |-> types, coupon |-> coupon, addOn |-> addOn, free |-> free]

(* One ticket; two with the coupon; one with coupon and add-on; a free one *)
(* with the coupon.                                                        *)
MCCarts == {Buying({t1}, FALSE, FALSE, FALSE), Buying({t1, t2}, TRUE, FALSE, FALSE),
            Buying({t2}, TRUE, TRUE, FALSE), Buying({t1}, TRUE, FALSE, TRUE)}

MCInit == Init /\ alone \in BOOLEAN

(* Purchases that take turns need one slot, two that overlap two buyers.   *)
First == CHOOSE s \in Slots : TRUE
Two == CHOOSE some \in SUBSET Buyers : Cardinality(some) = 2
Start(s, b) == IF alone THEN s = First ELSE b \in Two /\ calls < 2

Same == UNCHANGED alone
InTurn == alone => ~overlapped'

StepMC(s) == Step(s) /\ Same
CompletedMC(b) == Completed(b) /\ InTurn /\ Same
ExpiredMC(b) == Expired(b) /\ InTurn /\ Same

MCNext ==
    \/ \E s \in Slots, b \in Buyers, cart \in Carts :
          Start(s, b) /\ Purchase(s, b, cart) /\ InTurn /\ Same
    \/ \E s \in Slots : StepMC(s)
    \/ \E s \in Slots : ~alone /\ Fault(s) /\ Same
    \/ \E b \in Buyers : (Pay(b) /\ Same) \/ CompletedMC(b) \/ ExpiredMC(b)
    \/ AccountUpdated /\ alone /\ InTurn /\ Same

mcVars == <<vars, alone>>

(* Some purchase in flight goes on, and of a session paid or open the      *)
(* event comes.                                                            *)
MCSpec ==
    /\ MCInit /\ [][MCNext]_mcVars
    /\ WF_mcVars(\E s \in Slots : StepMC(s))
    /\ \A b \in Buyers : SF_mcVars(CompletedMC(b) \/ ExpiredMC(b))
=============================================================================
