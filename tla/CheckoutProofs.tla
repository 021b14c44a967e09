--------------------------- MODULE CheckoutProofs ---------------------------
(***************************************************************************)
(* What holds of Checkout for any buyers, carts, purchases in flight and   *)
(* deaths: an address is given one session to pay, and the seats stay      *)
(* within the capacity; and, of purchases in turn, that the tables agree   *)
(* and the counters hold.                                                  *)
(***************************************************************************)
EXTENDS Checkout, FiniteSetTheorems, TLAPS

-----------------------------------------------------------------------------
(* Types.                                                                  *)

(* A purchase in flight has a buyer and a cart.                            *)
Serving == \A s \in Slots : req[s].pc # "idle" => req[s].buyer \in Buyers /\ req[s].cart \in Carts

Typed == TypeOK /\ Serving

LEMMA IdleType == Idle \in Req
BY DEF Idle, Req, PCs

LEMMA FinishType ==
    ASSUME NEW s \in Slots, Typed, Finish(s)
    PROVE  req' \in [Slots -> Req] /\ Serving'
BY IdleType DEF Finish, Typed, TypeOK, Serving, Idle

LEMMA GotoType ==
    ASSUME NEW s \in Slots, NEW pc \in PCs, Typed, req[s].pc # "idle", Goto(s, pc)
    PROVE  req' \in [Slots -> Req] /\ Serving'
<1>1. req \in [Slots -> Req]
  BY DEF Typed, TypeOK
<1>2. req' \in [Slots -> Req]
  BY <1>1 DEF Goto, Req
<1>3. \A t \in Slots : /\ req'[t].buyer = req[t].buyer /\ req'[t].cart = req[t].cart
                       /\ t # s => req'[t].pc = req[t].pc
  BY <1>1 DEF Goto, Req
<1> QED
  BY <1>2, <1>3 DEF Typed, Serving

LEMMA CartFields == \A cart \in Carts : cart \in Cart
BY CartsAssumption

(* A row whose status changes is a row.                                    *)
LEMMA SeatType ==
    ASSUME NEW b, NEW status \in {"none", "pending", "confirmed", "cancelled"}, Typed,
           seat' = [seat EXCEPT ![b].status = status]
    PROVE  seat' \in [Buyers -> Seat]
BY DEF Typed, TypeOK, Seat

(* Every step keeps the types.                                             *)
LEMMA TypedStep == Typed /\ [Next]_vars => Typed'
<1> SUFFICES ASSUME Typed, [Next]_vars PROVE Typed'
  OBVIOUS
<1> USE LimitsAssumption
<1>0. /\ req \in [Slots -> Req] /\ used \in Int /\ stock \in Int /\ calls \in Nat /\ faults \in Nat
      /\ \A s \in Slots : req[s] \in Req
  BY DEF Typed, TypeOK
<1>1. ASSUME NEW s \in Slots, NEW b \in Buyers, NEW cart \in Carts, Purchase(s, b, cart)
      PROVE Typed'
  <2> DEFINE r == [Idle EXCEPT !.pc = "quote", !.buyer = b, !.cart = cart]
  <2>1. r \in Req /\ r.buyer = b /\ r.cart = cart
    BY IdleType DEF Req, PCs
  <2>2. req' = [req EXCEPT ![s] = r] /\ calls' \in Nat
    BY <1>0, <1>1 DEF Purchase
  <2> HIDE DEF r
  <2>3. req' \in [Slots -> Req] /\ Serving'
    BY <2>1, <2>2 DEF Typed, TypeOK, Serving
  <2>4. overlapped' \in BOOLEAN
    BY <1>1 DEF Purchase, Meet, Busy, Typed, TypeOK
  <2> QED
    BY <1>1, <2>2, <2>3, <2>4 DEF Purchase, tables, stripe, Typed, TypeOK
<1>2. ASSUME NEW s \in Slots, Quote(s) PROVE Typed'
  <2>1. CASE Finish(s)
    BY <1>2, <2>1, FinishType DEF Quote, tables, stripe, history, bounds, Typed, TypeOK
  <2>2. CASE req' = [req EXCEPT ![s].pc = "find", ![s].count = used, ![s].left = stock]
    <3> DEFINE r == [req[s] EXCEPT !.pc = "find", !.count = used, !.left = stock]
    <3>a. r \in Req
      BY <1>0 DEF Req, PCs
    <3>b. req' = [req EXCEPT ![s] = r]
      BY <1>0, <2>2 DEF Req
    <3> HIDE DEF r
    <3>1. req' \in [Slots -> Req]
      BY <1>0, <3>a, <3>b
    <3>2. \A t \in Slots : /\ req'[t].buyer = req[t].buyer /\ req'[t].cart = req[t].cart
                           /\ t # s => req'[t].pc = req[t].pc
      BY <1>0, <2>2 DEF Req
    <3>3. Serving'
      BY <1>2, <3>2 DEF Quote, Typed, Serving
    <3> QED
      BY <1>2, <3>1, <3>3 DEF Quote, tables, stripe, history, bounds, Typed, TypeOK
  <2> QED
    BY <1>2, <2>1, <2>2 DEF Quote
<1>3. ASSUME NEW s \in Slots, FindOrder(s) PROVE Typed'
  <2>1. Finish(s) \/ Goto(s, "reserve")
    BY <1>3 DEF FindOrder
  <2>2. req' \in [Slots -> Req] /\ Serving'
    BY <1>3, <2>1, FinishType, GotoType DEF FindOrder, PCs
  <2>3. url' \subseteq Buyers
    BY <1>3 DEF FindOrder, Typed, TypeOK, Serving
  <2> QED
    BY <1>3, <2>2, <2>3 DEF FindOrder, tables, history, bounds, Typed, TypeOK
<1>4. ASSUME NEW s \in Slots, Reserve(s) PROVE Typed'
  <2>0. req[s].buyer \in Buyers /\ req[s].cart \in Cart /\ req[s].pc = "reserve"
    BY <1>4, CartFields DEF Reserve, Typed, Serving
  <2>1. CASE Finish(s) /\ UNCHANGED seat
    BY <1>4, <2>1, FinishType DEF Reserve, stripe, history, bounds, Typed, TypeOK
  <2>2. ASSUME NEW status \in {"confirmed", "pending"}, NEW pc \in {"coupon", "order", "account"},
               seat' = [seat EXCEPT ![req[s].buyer] =
                 [status |-> status, types |-> req[s].cart.types,
                  coupon |-> req[s].cart.coupon, addOn |-> req[s].cart.addOn]],
               Goto(s, pc)
        PROVE  Typed'
    <3>1. seat' \in [Buyers -> Seat]
      BY <2>0, <2>2 DEF Typed, TypeOK, Seat, Cart
    <3>2. req' \in [Slots -> Req] /\ Serving'
      BY <2>0, <2>2, GotoType DEF PCs
    <3> QED
      BY <1>4, <3>1, <3>2 DEF Reserve, stripe, history, bounds, Typed, TypeOK
  <2> QED
    BY <1>4, <2>1, <2>2 DEF Reserve
<1>5. ASSUME NEW s \in Slots, CountCoupon(s) PROVE Typed'
  <2>1. used' \in Int
    BY <1>0, <1>5 DEF CountCoupon, Req
  <2>2. req' \in [Slots -> Req] /\ Serving'
    BY <1>5, GotoType DEF CountCoupon, PCs
  <2> QED
    BY <1>5, <2>1, <2>2 DEF CountCoupon, stripe, history, bounds, Typed, TypeOK
<1>6. ASSUME NEW s \in Slots, RequireAccount(s) PROVE Typed'
  <2>1. req' \in [Slots -> Req] /\ Serving'
    BY <1>6, FinishType, GotoType DEF RequireAccount, PCs
  <2>2. refused' \subseteq Buyers
    BY <1>6 DEF RequireAccount, Typed, TypeOK, Serving
  <2> QED
    BY <1>6, <2>1, <2>2 DEF RequireAccount, tables, stripe, bounds, Typed, TypeOK
<1>7. ASSUME NEW s \in Slots, AskStripe(s) PROVE Typed'
  <2>1. req' \in [Slots -> Req] /\ Serving'
    BY <1>7, GotoType DEF AskStripe, PCs
  <2>2. req[s].buyer \in Buyers
    BY <1>7 DEF AskStripe, Typed, Serving
  <2>3. session' \in [Buyers -> SessionStates]
    BY <1>7, <2>2 DEF AskStripe, Typed, TypeOK, SessionStates
  <2>4. sessions[req[s].buyer] + 1 \in Nat
    BY <2>2 DEF Typed, TypeOK
  <2>5. sessions' \in [Buyers -> Nat]
    BY <1>7, <2>2, <2>4 DEF AskStripe, Typed, TypeOK
  <2> QED
    BY <1>7, <2>1, <2>3, <2>5 DEF AskStripe, tables, history, bounds, Typed, TypeOK
<1>8. ASSUME NEW s \in Slots, Release(s) PROVE Typed'
  <2>1. req' \in [Slots -> Req] /\ Serving'
    BY <1>8, FinishType DEF Release
  <2>2. seat' \in [Buyers -> Seat]
    BY <1>8, SeatType DEF Release
  <2> QED
    BY <1>8, <2>1, <2>2 DEF Release, stripe, history, bounds, Typed, TypeOK
<1>9. ASSUME NEW s \in Slots, CreateOrder(s) PROVE Typed'
  <2>1. req' \in [Slots -> Req] /\ Serving'
    BY <1>9, GotoType DEF CreateOrder, PCs
  <2>2. order' \in [Buyers -> OrderStatuses]
    BY <1>9 DEF CreateOrder, Typed, TypeOK, OrderStatuses
  <2> QED
    BY <1>9, <2>1, <2>2 DEF CreateOrder, stripe, history, bounds, Typed, TypeOK
<1>10. ASSUME NEW s \in Slots, CreatePayment(s) PROVE Typed'
  <2>1. req' \in [Slots -> Req] /\ Serving'
    BY <1>10, GotoType DEF CreatePayment, PCs
  <2>2. payment' \in [Buyers -> PaymentStatuses]
    BY <1>10 DEF CreatePayment, Typed, TypeOK, PaymentStatuses
  <2> QED
    BY <1>10, <2>1, <2>2 DEF CreatePayment, stripe, history, bounds, Typed, TypeOK
<1>11. ASSUME NEW s \in Slots, TakeAddOn(s) PROVE Typed'
  <2>1. req' \in [Slots -> Req] /\ Serving'
    BY <1>11, GotoType DEF TakeAddOn, PCs
  <2>2. stock' \in Int
    BY <1>0, <1>11 DEF TakeAddOn, Req
  <2> QED
    BY <1>11, <2>1, <2>2 DEF TakeAddOn, stripe, history, bounds, Typed, TypeOK
<1>12. ASSUME NEW s \in Slots, SaveSeat(s) PROVE Typed'
  <2>1. req' \in [Slots -> Req] /\ Serving'
    BY <1>12, FinishType, GotoType DEF SaveSeat, PCs
  <2>2. seat' \in [Buyers -> Seat]
    BY <1>12, SeatType DEF SaveSeat
  <2>3. url' \subseteq Buyers
    BY <1>12 DEF SaveSeat, Typed, TypeOK, Serving
  <2> QED
    BY <1>12, <2>1, <2>2, <2>3 DEF SaveSeat, history, bounds, Typed, TypeOK
<1>13. ASSUME NEW s \in Slots, IssueTickets(s) PROVE Typed'
  <2>1. req' \in [Slots -> Req] /\ Serving'
    BY <1>13, FinishType DEF IssueTickets
  <2> QED
    BY <1>13, <2>1 DEF IssueTickets, Issued, stripe, history, bounds, Typed, TypeOK
<1>14. ASSUME NEW s \in Slots, Fault(s) PROVE Typed'
  <2>1. req' \in [Slots -> Req] /\ Serving' /\ faults' \in Nat
    BY <1>0, <1>14, FinishType DEF Fault
  <2> QED
    BY <1>14, <2>1 DEF Fault, tables, stripe, history, Typed, TypeOK
<1>15. ASSUME NEW b \in Buyers, Pay(b) PROVE Typed'
  BY <1>15 DEF Pay, tables, history, bounds, Typed, TypeOK, Serving, SessionStates
<1>16. ASSUME NEW b \in Buyers, Completed(b) PROVE Typed'
  <2>1. seat' \in [Buyers -> Seat] /\ tickets' \in [Buyers -> Nat]
    BY <1>16, SeatType DEF Completed, Issued, Typed, TypeOK
  <2>2. /\ session' \in [Buyers -> SessionStates] /\ order' \in [Buyers -> OrderStatuses]
        /\ payment' \in [Buyers -> PaymentStatuses]
    BY <1>16 DEF Completed, Typed, TypeOK, SessionStates, OrderStatuses, PaymentStatuses
  <2>3. overlapped' \in BOOLEAN /\ early' \in BOOLEAN
    BY <1>16 DEF Completed, Meet, Busy, Ongoing, Typed, TypeOK
  <2> QED
    BY <1>16, <2>1, <2>2, <2>3 DEF Completed, bounds, Typed, TypeOK, Serving
<1>17. ASSUME NEW b \in Buyers, Expired(b) PROVE Typed'
  <2>1. seat' \in [Buyers -> Seat]
    BY <1>17, SeatType DEF Expired, Typed, TypeOK
  <2>2. /\ session' \in [Buyers -> SessionStates] /\ order' \in [Buyers -> OrderStatuses]
        /\ payment' \in [Buyers -> PaymentStatuses]
    BY <1>17 DEF Expired, Typed, TypeOK, SessionStates, OrderStatuses, PaymentStatuses
  <2>3. overlapped' \in BOOLEAN /\ early' \in BOOLEAN
    BY <1>17 DEF Expired, Meet, Busy, Ongoing, Typed, TypeOK
  <2> QED
    BY <1>17, <2>1, <2>2, <2>3 DEF Expired, bounds, Typed, TypeOK, Serving
<1>18. CASE AccountUpdated
  BY <1>18 DEF AccountUpdated, Meet, Busy, stripe, bounds, Typed, TypeOK, Serving
<1>19. CASE UNCHANGED vars
  BY <1>19 DEF vars, tables, stripe, history, bounds, Typed, TypeOK, Serving
<1> QED
  BY <1>1, <1>2, <1>3, <1>4, <1>5, <1>6, <1>7, <1>8, <1>9, <1>10, <1>11, <1>12, <1>13, <1>14,
     <1>15, <1>16, <1>17, <1>18, <1>19 DEF Next, Step

LEMMA TypedInit == Init => Typed
<1> SUFFICES ASSUME Init PROVE Typed
  OBVIOUS
<1>1. NoSeat \in Seat
  BY DEF NoSeat, Seat
<1>2. req \in [Slots -> Req] /\ Serving
  BY IdleType DEF Init, Serving, Idle
<1>3. seat \in [Buyers -> Seat]
  BY <1>1 DEF Init
<1>4. /\ order \in [Buyers -> OrderStatuses] /\ payment \in [Buyers -> PaymentStatuses]
      /\ session \in [Buyers -> SessionStates] /\ tickets \in [Buyers -> Nat]
      /\ sessions \in [Buyers -> Nat]
  BY DEF Init, OrderStatuses, PaymentStatuses, SessionStates
<1>a. /\ used = 0 /\ stock = Inventory /\ connected = TRUE /\ url = {}
      /\ overlapped = FALSE /\ refused = {} /\ early = FALSE /\ calls = 0 /\ faults = 0
  BY DEF Init
<1>5. /\ used \in Int /\ stock \in Int /\ calls \in Nat /\ faults \in Nat
  BY <1>a, LimitsAssumption
<1>6. /\ connected \in BOOLEAN /\ overlapped \in BOOLEAN /\ early \in BOOLEAN
      /\ url \subseteq Buyers /\ refused \subseteq Buyers
  BY <1>a
<1> QED
  BY <1>2, <1>3, <1>4, <1>5, <1>6 DEF Typed, TypeOK

(* Tables, sessions and purchases in flight keep their types.              *)
THEOREM TypeCorrect == Spec => []TypeOK
<1>1. Spec => []Typed
  BY TypedInit, TypedStep, PTL DEF Spec
<1>2. Typed => TypeOK
  BY DEF Typed
<1> QED
  BY <1>1, <1>2, PTL
-----------------------------------------------------------------------------
(* One session for an address, and seats within the capacity.              *)

(* A session is paid, and its address handed out, for an order only: one   *)
(* whose answer was lost is not.                                           *)
Writing == {"payment", "add-on", "save", "issue"}
Ordered ==
    /\ \A b \in Buyers : b \in url \/ session[b] = "paid" => order[b] # "none"
    /\ \A s \in Slots : req[s].pc \in Writing => order[req[s].buyer] # "none"

LEMMA OrderedStep == Typed /\ Ordered /\ [Next]_vars => Ordered'
<1> SUFFICES ASSUME Typed, Ordered, [Next]_vars PROVE Ordered'
  OBVIOUS
<1>0. /\ req \in [Slots -> Req] /\ order \in [Buyers -> OrderStatuses] /\ Serving
      /\ session \in [Buyers -> SessionStates] /\ url \subseteq Buyers
  BY DEF Typed, TypeOK
<1> USE DEF Writing
<1>1. ASSUME NEW s \in Slots, NEW b \in Buyers, NEW cart \in Carts, Purchase(s, b, cart)
      PROVE Ordered'
  BY <1>0, <1>1 DEF Purchase, Idle, tables, stripe, Ordered
<1>2. ASSUME NEW s \in Slots, Finish(s),
             UNCHANGED <<order, session>>, url' = url
      PROVE Ordered'
  BY <1>0, <1>2 DEF Finish, Idle, Ordered
<1>3. ASSUME NEW s \in Slots, NEW pc \in PCs, Goto(s, pc),
             pc \in Writing => req[s].pc \in Writing,
             UNCHANGED <<order, session>>, url' = url
      PROVE Ordered'
  <2>1. \A t \in Slots : /\ req'[t].buyer = req[t].buyer
                         /\ req'[t].pc = IF t = s THEN pc ELSE req[t].pc
    BY <1>0, <1>3 DEF Goto, Req
  <2> QED
    BY <1>0, <1>3, <2>1 DEF Ordered
<1>4. ASSUME NEW s \in Slots, Quote(s) PROVE Ordered'
  <2>1. CASE Finish(s)
    BY <1>2, <1>4, <2>1 DEF Quote, tables, stripe
  <2>2. CASE req' = [req EXCEPT ![s].pc = "find", ![s].count = used, ![s].left = stock]
    <3>1. req'[s].pc = "find" /\ \A t \in Slots \ {s} : req'[t] = req[t]
      BY <1>0, <2>2 DEF Req
    <3> QED
      BY <1>0, <1>4, <3>1 DEF Quote, tables, stripe, Ordered
  <2> QED
    BY <1>4, <2>1, <2>2 DEF Quote
<1>5. ASSUME NEW s \in Slots, FindOrder(s) PROVE Ordered'
  <2>1. CASE Goto(s, "reserve") /\ UNCHANGED url
    BY <1>3, <1>5, <2>1 DEF FindOrder, tables, PCs
  <2>2. CASE ~(Goto(s, "reserve") /\ UNCHANGED url)
    <3>1. /\ Finish(s) /\ order[req[s].buyer] \in {"pending", "paid"}
          /\ url' \subseteq url \cup {req[s].buyer} /\ UNCHANGED <<order, session>>
      BY <1>5, <2>2 DEF FindOrder, tables
    <3> QED
      BY <1>0, <3>1 DEF Finish, Idle, Ordered
  <2> QED
    BY <2>1, <2>2
<1>6. ASSUME NEW s \in Slots, \/ Reserve(s) \/ CountCoupon(s) \/ RequireAccount(s)
                             \/ Release(s) \/ CreatePayment(s) \/ TakeAddOn(s)
                             \/ IssueTickets(s) \/ Fault(s)
      PROVE Ordered'
  <2>1. UNCHANGED <<order, session>> /\ url' = url
    BY <1>6 DEF Reserve, CountCoupon, RequireAccount, Release, CreatePayment, TakeAddOn,
       IssueTickets, Fault, tables, stripe
  <2>2. \/ Finish(s)
        \/ \E pc \in PCs : Goto(s, pc) /\ (pc \in Writing => req[s].pc \in Writing)
    BY <1>6 DEF Reserve, CountCoupon, RequireAccount, Release, CreatePayment, TakeAddOn,
       IssueTickets, Fault, PCs
  <2> QED
    BY <1>2, <1>3, <2>1, <2>2
<1>7. ASSUME NEW s \in Slots, AskStripe(s) PROVE Ordered'
  <2>1. PICK pc \in {"release", "order"} : Goto(s, pc)
    BY <1>7 DEF AskStripe
  <2>2. \A t \in Slots : /\ req'[t].buyer = req[t].buyer
                         /\ req'[t].pc = IF t = s THEN pc ELSE req[t].pc
    BY <1>0, <2>1 DEF Goto, Req
  <2>3. /\ order' = order /\ url' = url
        /\ \A b \in Buyers : session'[b] = "paid" => session[b] = "paid"
    BY <1>0, <1>7 DEF AskStripe, tables
  <2> QED
    BY <2>2, <2>3 DEF Ordered
<1>8. ASSUME NEW s \in Slots, CreateOrder(s) PROVE Ordered'
  <2>1. \A t \in Slots : /\ req'[t].buyer = req[t].buyer
                         /\ t # s => req'[t].pc = req[t].pc
    BY <1>0, <1>8 DEF CreateOrder, Goto, Req
  <2>2. /\ order'[req[s].buyer] # "none" /\ UNCHANGED <<session, url>>
        /\ \A b \in Buyers : order'[b] = "none" => order[b] = "none"
    BY <1>0, <1>8 DEF CreateOrder, Serving, stripe
  <2>3. \A t \in Slots : req[t].pc # "idle" => req[t].buyer \in Buyers
    BY <1>0 DEF Serving
  <2> QED
    BY <2>1, <2>2, <2>3 DEF Ordered
<1>9. ASSUME NEW s \in Slots, SaveSeat(s) PROVE Ordered'
  <2>1. /\ order[req[s].buyer] # "none" /\ url' \subseteq url \cup {req[s].buyer}
        /\ UNCHANGED <<order, session>>
    BY <1>9 DEF SaveSeat, Ordered
  <2>2. Finish(s) \/ Goto(s, "issue")
    BY <1>9 DEF SaveSeat
  <2>3. \A t \in Slots : \/ req'[t].pc = "idle"
                         \/ t = s /\ req'[t].buyer = req[t].buyer
                         \/ req'[t] = req[t]
    BY <1>0, <2>2 DEF Finish, Goto, Idle, Req
  <2>4. \A t \in Slots : req'[t].pc \in Writing => order'[req'[t].buyer] # "none"
    BY <2>1, <2>3 DEF Ordered
  <2>5. \A b \in Buyers : b \in url' \/ session'[b] = "paid" => order'[b] # "none"
    BY <2>1 DEF Ordered
  <2> QED
    BY <2>4, <2>5 DEF Ordered
<1>10. ASSUME NEW b \in Buyers, Pay(b) \/ Completed(b) \/ Expired(b) PROVE Ordered'
  <2>1. /\ req' = req /\ url' = url
        /\ \A c \in Buyers : session'[c] = "paid" => session[c] = "paid" \/ c \in url
        /\ \A c \in Buyers : order'[c] = "none" => order[c] = "none"
    BY <1>0, <1>10 DEF Pay, Completed, Expired, tables
  <2>2. \A t \in Slots : req[t].pc \in Writing => req[t].buyer \in Buyers
    BY <1>0 DEF Serving
  <2>3. \A c \in Buyers : c \in url' \/ session'[c] = "paid" => order'[c] # "none"
    BY <2>1 DEF Ordered
  <2>4. \A t \in Slots : req'[t].pc \in Writing => order'[req'[t].buyer] # "none"
    BY <2>1, <2>2 DEF Ordered
  <2> QED
    BY <2>3, <2>4 DEF Ordered
<1>11. CASE AccountUpdated \/ UNCHANGED vars
  BY <1>11 DEF AccountUpdated, vars, tables, stripe, Ordered
<1> QED
  BY <1>1, <1>4, <1>5, <1>6, <1>7, <1>8, <1>9, <1>10, <1>11 DEF Next, Step

LEMMA OrderedInit == Init => Ordered
BY DEF Init, Idle, Ordered, Writing

(* Purchases that have inserted the row of a buyer and go on with it; the  *)
(* unique index lets one do so, and Stripe is not asked before.            *)
Asking == {"coupon", "account", "ask"}
Seated == Asking \cup {"release", "order", "payment", "add-on", "save", "issue"}
Holding(b) == {s \in Slots : req[s].buyer = b /\ req[s].pc \in Seated}

Sold(b) ==
    /\ seat[b].status = "none" => /\ Holding(b) = {} /\ sessions[b] = 0
                                  /\ session[b] = "none" /\ order[b] = "none"
    /\ \A s, t \in Holding(b) : s = t
    /\ \A s \in Holding(b) : /\ req[s].pc \in Asking => sessions[b] = 0 /\ session[b] = "none"
                             /\ req[s].pc \in Asking \cup {"release", "order"} => order[b] = "none"
    /\ sessions[b] <= 1

(* A buyer who has a purchase in hand or may pay has a seat.               *)
Kept(b) ==
    /\ \A s \in Holding(b) : b \in Active
    /\ session[b] = "paid" \/ (session[b] = "open" /\ order[b] # "none") => b \in Active

Inv == /\ \A b \in Buyers : Sold(b)
       /\ ~early => (\A b \in Buyers : Kept(b)) /\ SeatsOf(Active) <= Capacity

(* The seats of some buyers are finitely many.                             *)
SeatsIn(taken) == {p \in taken \X Types : p[2] \in seat[p[1]].types}

LEMMA SeatsFinite ==
    ASSUME NEW G \in SUBSET Buyers
    PROVE  /\ IsFiniteSet(SeatsIn(G)) /\ Cardinality(SeatsIn(G)) \in Nat
           /\ SeatsOf(G) = Cardinality(SeatsIn(G))
<1>1. IsFiniteSet(G)
  BY BuyersAssumption, FS_Subset
<1>2. IsFiniteSet(G \X Types)
  BY <1>1, CartsAssumption, FS_Product
<1>3. SeatsIn(G) \in SUBSET (G \X Types)
  BY DEF SeatsIn
<1> QED
  BY <1>2, <1>3, FS_Subset, FS_CardinalityType DEF SeatsOf, SeatsIn

(* A buyer not among them adds a seat for each type of the cart.           *)
LEMMA SeatAdded ==
    ASSUME NEW G \in SUBSET Buyers, NEW b \in Buyers \ G, Typed,
           NEW row \in Seat, seat' = [seat EXCEPT ![b] = row]
    PROVE  SeatsOf(G \cup {b})' = SeatsOf(G) + Cardinality(row.types)
<1> DEFINE old == SeatsIn(G)
           new == {b} \X row.types
<1>1. seat \in [Buyers -> Seat] /\ row.types \subseteq Types
  BY DEF Typed, TypeOK, Seat
<1>2. seat'[b] = row /\ \A g \in G : seat'[g] = seat[g]
  BY <1>1
<1>3. SeatsIn(G \cup {b})' = old \cup new
  <2>1. \A p \in old \cup new : p \in SeatsIn(G \cup {b})'
    BY <1>1, <1>2 DEF SeatsIn
  <2>2. \A p \in SeatsIn(G \cup {b})' : p \in old \cup new
    BY <1>1, <1>2 DEF SeatsIn
  <2> QED
    BY <2>1, <2>2
<1>4. old \cap new = {}
  BY DEF SeatsIn
<1>5. IsFiniteSet(old) /\ Cardinality(old) \in Nat /\ SeatsOf(G) = Cardinality(old)
  BY SeatsFinite
<1>6. IsFiniteSet(row.types) /\ Cardinality(row.types) \in Nat
  BY <1>1, CartsAssumption, FS_Subset, FS_CardinalityType
<1>7. IsFiniteSet(new) /\ Cardinality(new) = Cardinality(row.types)
  <2>1. IsFiniteSet({b}) /\ Cardinality({b}) = 1
    BY FS_Singleton
  <2> QED
    BY <1>6, <2>1, FS_Product
<1>8. Cardinality(old \cup new) = Cardinality(old) + Cardinality(new)
  <2> HIDE DEF old, new
  <2>1. Cardinality(old \cup new) = Cardinality(old) + Cardinality(new) - Cardinality(old \cap new)
    BY <1>5, <1>7, FS_Union
  <2>2. Cardinality(old \cap new) = 0
    BY <1>4, FS_EmptySet
  <2>3. Cardinality(old) \in Nat /\ Cardinality(new) \in Nat
    BY <1>5, <1>6, <1>7
  <2> QED
    BY <2>1, <2>2, <2>3
<1>9. SeatsOf(G \cup {b})' = Cardinality(SeatsIn(G \cup {b})')
  BY DEF SeatsOf, SeatsIn
<1> QED
  BY <1>3, <1>5, <1>7, <1>8, <1>9

(* Fewer seats are taken when no row becomes active and none is rewritten. *)
LEMMA SeatsShrink ==
    ASSUME Typed, Active' \subseteq Active,
           \A b \in Active' : seat'[b].types = seat[b].types
    PROVE  SeatsOf(Active)' <= SeatsOf(Active) /\ SeatsOf(Active) \in Nat
<1>1. SeatsIn(Active)' \subseteq SeatsIn(Active)
  BY DEF SeatsIn
<1>2. Active \in SUBSET Buyers
  BY DEF Active
<1>3. IsFiniteSet(SeatsIn(Active)) /\ SeatsOf(Active) = Cardinality(SeatsIn(Active))
      /\ SeatsOf(Active) \in Nat
  BY <1>2, SeatsFinite
<1>4. SeatsOf(Active)' = Cardinality(SeatsIn(Active)')
  BY DEF SeatsOf, SeatsIn
<1> QED
  BY <1>1, <1>3, <1>4, FS_Subset
(* The purchases of a buyer go on, or end, and none of them goes back.     *)
Onward(b) ==
    /\ Holding(b)' \subseteq Holding(b)
    /\ \A t \in Holding(b)' :
          /\ req'[t].pc \in Asking => req[t].pc \in Asking
          /\ req'[t].pc \in Asking \cup {"release", "order"} =>
                req[t].pc \in Asking \cup {"release", "order"}

LEMMA FinishOnward ==
    ASSUME NEW s \in Slots, Typed, Finish(s)
    PROVE  \A b \in Buyers : Onward(b)
BY DEF Finish, Idle, Onward, Holding, Seated, Asking, Typed, TypeOK

LEMMA GotoOnward ==
    ASSUME NEW s \in Slots, NEW pc \in PCs, Typed, Goto(s, pc),
           pc \in Seated => req[s].pc \in Seated,
           pc \in Asking => req[s].pc \in Asking,
           pc \in {"release", "order"} => req[s].pc \in Asking
    PROVE  \A b \in Buyers : Onward(b)
<1>1. \A t \in Slots : /\ req'[t].buyer = req[t].buyer
                       /\ req'[t].pc = IF t = s THEN pc ELSE req[t].pc
  BY DEF Goto, Req, Typed, TypeOK
<1> QED
  BY <1>1 DEF Onward, Holding

LEMMA SameOnward == ASSUME UNCHANGED req PROVE \A b \in Buyers : Onward(b)
BY DEF Onward, Holding

(* What a step has to leave as it is, to keep the invariant.               *)
LEMMA Carry ==
    ASSUME Typed, Inv, sessions' = sessions, early => early',
           \A b \in Buyers :
              /\ Onward(b)
              /\ seat'[b].status = "none" => seat[b].status = "none"
              /\ session[b] = "none" <=> session'[b] = "none"
              /\ order[b] = "none" <=> order'[b] = "none"
              /\ session'[b] = "paid" => \/ session[b] = "paid"
                                         \/ session[b] = "open" /\ order[b] # "none"
              /\ session'[b] = "open" => session[b] = "open"
              /\ ~early' =>
                    /\ b \in Active' => b \in Active /\ seat'[b].types = seat[b].types
                    /\ b \in Active => \/ b \in Active'
                                       \/ /\ Holding(b)' = {} /\ session'[b] # "paid"
                                          /\ session'[b] = "open" => order[b] = "none"
    PROVE  Inv'
<1>1. ASSUME NEW b \in Buyers PROVE Sold(b)'
  BY DEF Inv, Sold, Onward
<1>2. ASSUME ~early' PROVE (\A b \in Buyers : Kept(b)') /\ SeatsOf(Active)' <= Capacity
  <2>1. ASSUME NEW b \in Buyers PROVE Kept(b)'
    BY <1>2 DEF Inv, Kept, Onward
  <2>2. Active' \subseteq Active /\ \A b \in Active' : seat'[b].types = seat[b].types
    BY <1>2 DEF Active
  <2>3. SeatsOf(Active) <= Capacity /\ Capacity \in Nat
    BY <1>2, LimitsAssumption DEF Inv
  <2>4. SeatsOf(Active)' <= SeatsOf(Active) /\ SeatsOf(Active) \in Nat
    BY <2>2, SeatsShrink
  <2>5. SeatsOf(Active)' \in Nat
    <3>1. Active' \in SUBSET Buyers
      BY DEF Active
    <3>2. SeatsIn(Active)' \subseteq SeatsIn(Active) /\ IsFiniteSet(SeatsIn(Active))
      BY <2>2, SeatsFinite DEF SeatsIn, Active
    <3>3. SeatsOf(Active)' = Cardinality(SeatsIn(Active)')
      BY DEF SeatsOf, SeatsIn
    <3> QED
      BY <3>2, <3>3, FS_Subset, FS_CardinalityType
  <2> QED
    BY <2>1, <2>3, <2>4, <2>5
<1> QED
  BY <1>1, <1>2 DEF Inv

(* ... of those that change no row, session or history.                    *)
LEMMA CarryOn ==
    ASSUME Typed, Inv, UNCHANGED <<seat, order, session, sessions, early>>,
           \A b \in Buyers : Onward(b)
    PROVE  Inv'
<1>1. Active' = Active
  BY DEF Active
<1> QED
  BY <1>1, Carry

LEMMA InvStep == Typed /\ Ordered /\ Inv /\ [Next]_vars => Inv'
<1> SUFFICES ASSUME Typed, Ordered, Inv, [Next]_vars PROVE Inv'
  OBVIOUS
<1>0. /\ req \in [Slots -> Req] /\ seat \in [Buyers -> Seat] /\ Serving
      /\ session \in [Buyers -> SessionStates] /\ sessions \in [Buyers -> Nat]
  BY DEF Typed, TypeOK
<1>a. order \in [Buyers -> OrderStatuses]
  BY DEF Typed, TypeOK
<1> USE DEF Seated, Asking
<1>1. ASSUME NEW s \in Slots, NEW b \in Buyers, NEW cart \in Carts, Purchase(s, b, cart)
      PROVE Inv'
  <2>1. /\ req'[s].pc = "quote" /\ \A t \in Slots \ {s} : req'[t] = req[t]
    BY <1>0, <1>1 DEF Purchase, Idle
  <2>2. \A c \in Buyers : Onward(c)
    BY <2>1 DEF Onward, Holding
  <2> QED
    BY <1>1, <2>2, CarryOn DEF Purchase, tables, stripe
<1>2. ASSUME NEW s \in Slots, Quote(s) PROVE Inv'
  <2>1. CASE Finish(s)
    BY <1>2, <2>1, FinishOnward, CarryOn DEF Quote, tables, stripe, history
  <2>2. CASE req' = [req EXCEPT ![s].pc = "find", ![s].count = used, ![s].left = stock]
    <3>1. req'[s].pc = "find" /\ \A t \in Slots \ {s} : req'[t] = req[t]
      BY <1>0, <2>2 DEF Req
    <3>2. \A c \in Buyers : Onward(c)
      BY <3>1 DEF Onward, Holding
    <3> QED
      BY <1>2, <3>2, CarryOn DEF Quote, tables, stripe, history
  <2> QED
    BY <1>2, <2>1, <2>2 DEF Quote
<1>3. ASSUME NEW s \in Slots, FindOrder(s) PROVE Inv'
  <2>1. Finish(s) \/ Goto(s, "reserve")
    BY <1>3 DEF FindOrder
  <2>2. \A c \in Buyers : Onward(c)
    BY <2>1, FinishOnward, GotoOnward DEF PCs
  <2> QED
    BY <1>3, <2>2, CarryOn DEF FindOrder, tables, history
<1>4. ASSUME NEW s \in Slots, CountCoupon(s) PROVE Inv'
  <2>1. PICK pc \in {"order", "account"} : Goto(s, pc)
    BY <1>4 DEF CountCoupon
  <2>2. \A c \in Buyers : Onward(c)
    BY <1>4, <2>1, GotoOnward DEF CountCoupon, PCs
  <2> QED
    BY <1>4, <2>2, CarryOn DEF CountCoupon, stripe, history
<1>5. ASSUME NEW s \in Slots, RequireAccount(s) PROVE Inv'
  <2>1. \A c \in Buyers : Onward(c)
    BY <1>5, FinishOnward, GotoOnward DEF RequireAccount, PCs
  <2> QED
    BY <1>5, <2>1, CarryOn DEF RequireAccount, tables, stripe
<1>6. ASSUME NEW s \in Slots, CreateOrder(s) PROVE Inv'
  <2>1. PICK b \in Buyers : b = req[s].buyer
    BY <1>0, <1>6 DEF CreateOrder, Serving
  <2>2. \A t \in Slots : /\ req'[t].buyer = req[t].buyer
                         /\ req'[t].pc = IF t = s THEN "payment" ELSE req[t].pc
    BY <1>0, <1>6 DEF CreateOrder, Goto, Req
  <2>3. /\ req[s].pc = "order" /\ UNCHANGED <<seat, session, sessions, early>>
        /\ order'[b] # "none" /\ \A c \in Buyers \ {b} : order'[c] = order[c]
        /\ Active' = Active
    BY <1>a, <1>6, <2>1 DEF CreateOrder, stripe, history, Active
  <2>4. \A c \in Buyers : Holding(c)' = Holding(c)
    BY <2>2, <2>3 DEF Holding
  <2>5. s \in Holding(b) /\ Holding(b) = {s}
    BY <2>1, <2>3 DEF Holding, Inv, Sold
  <2>6. ASSUME NEW c \in Buyers PROVE Sold(c)'
    <3>1. CASE c = b
      BY <2>2, <2>3, <2>4, <2>5, <3>1 DEF Inv, Sold
    <3>2. CASE c # b
      <4>1. \A t \in Holding(c) : req'[t].pc = req[t].pc
        BY <2>1, <2>2, <3>2 DEF Holding
      <4> QED
        BY <2>3, <2>4, <3>2, <4>1 DEF Inv, Sold
    <3> QED
      BY <3>1, <3>2
  <2>7. ASSUME ~early', NEW c \in Buyers PROVE Kept(c)'
    BY <2>3, <2>4, <2>5, <2>7 DEF Inv, Kept
  <2>8. SeatsOf(Active)' = SeatsOf(Active)
    BY <2>3 DEF SeatsOf
  <2> QED
    BY <2>3, <2>6, <2>7, <2>8 DEF Inv
<1>7. ASSUME NEW s \in Slots, CreatePayment(s) PROVE Inv'
  <2>1. \A c \in Buyers : Onward(c)
    BY <1>7, GotoOnward DEF CreatePayment, PCs
  <2> QED
    BY <1>7, <2>1, CarryOn DEF CreatePayment, stripe, history
<1>8. ASSUME NEW s \in Slots, TakeAddOn(s) PROVE Inv'
  <2>1. \A c \in Buyers : Onward(c)
    BY <1>8, GotoOnward DEF TakeAddOn, PCs
  <2> QED
    BY <1>8, <2>1, CarryOn DEF TakeAddOn, stripe, history
<1>9. ASSUME NEW s \in Slots, IssueTickets(s) PROVE Inv'
  <2>1. \A c \in Buyers : Onward(c)
    BY <1>9, FinishOnward DEF IssueTickets
  <2> QED
    BY <1>9, <2>1, CarryOn DEF IssueTickets, stripe, history
<1>10. ASSUME NEW s \in Slots, Fault(s) PROVE Inv'
  <2>1. \A c \in Buyers : Onward(c)
    BY <1>10, FinishOnward DEF Fault
  <2> QED
    BY <1>10, <2>1, CarryOn DEF Fault, tables, stripe, history
<1>11. CASE AccountUpdated \/ UNCHANGED vars
  <2>1. UNCHANGED <<req, seat, order, session, sessions, early>>
    BY <1>11 DEF AccountUpdated, vars, tables, stripe, history
  <2> QED
    BY <2>1, SameOnward, CarryOn
<1>12. ASSUME NEW s \in Slots, Reserve(s) PROVE Inv'
  <2>1. CASE Finish(s) /\ UNCHANGED seat
    BY <1>12, <2>1, FinishOnward, CarryOn DEF Reserve, stripe, history
  <2>2. CASE ~(Finish(s) /\ UNCHANGED seat)
    <3>1. PICK b \in Buyers : b = req[s].buyer
      BY <1>0, <1>12 DEF Reserve, Serving
    <3>2. /\ Fits(req[s].cart.types) /\ seat[b].status = "none" /\ req[s].pc = "reserve"
          /\ UNCHANGED <<order, session, sessions, early>>
      BY <1>12, <2>2, <3>1 DEF Reserve, stripe, history
    <3>3. PICK status \in {"confirmed", "pending"}, pc \in {"coupon", "order", "account"} :
             /\ seat' = [seat EXCEPT ![b] =
                  [status |-> status, types |-> req[s].cart.types,
                   coupon |-> req[s].cart.coupon, addOn |-> req[s].cart.addOn]]
             /\ Goto(s, pc)
      BY <1>12, <2>2, <3>1 DEF Reserve
    <3> DEFINE row == [status |-> status, types |-> req[s].cart.types,
                       coupon |-> req[s].cart.coupon, addOn |-> req[s].cart.addOn]
    <3>4. row \in Seat /\ row.status = status /\ row.types = req[s].cart.types
      BY <1>0, <3>2, CartFields DEF Seat, Cart, Serving
    <3>5. seat' = [seat EXCEPT ![b] = row]
      BY <3>3
    <3> HIDE DEF row
    <3>6. Active' = Active \cup {b} /\ b \notin Active /\ seat'[b].status # "none"
          /\ \A c \in Buyers \ {b} : seat'[c] = seat[c]
      BY <1>0, <3>2, <3>4, <3>5 DEF Active
    <3>7. \A t \in Slots : /\ req'[t].buyer = req[t].buyer
                           /\ req'[t].pc = IF t = s THEN pc ELSE req[t].pc
      BY <1>0, <3>3 DEF Goto, Req
    <3>8. Holding(b) = {} /\ sessions[b] = 0 /\ session[b] = "none" /\ order[b] = "none"
      BY <3>2 DEF Inv, Sold
    <3>9. Holding(b)' = {s} /\ \A c \in Buyers \ {b} : Holding(c)' = Holding(c)
      BY <3>1, <3>2, <3>7, <3>8 DEF Holding
    <3>10. ASSUME NEW c \in Buyers PROVE Sold(c)'
      <4>1. CASE c = b
        BY <3>2, <3>6, <3>8, <3>9, <4>1 DEF Sold
      <4>2. CASE c # b
        <5>1. \A t \in Holding(c) : req'[t].pc = req[t].pc
          BY <3>1, <3>7, <4>2 DEF Holding
        <5>2. Holding(c)' = Holding(c) /\ Sold(c)
          BY <3>9, <4>2 DEF Inv
        <5> QED
          BY <3>2, <3>6, <4>2, <5>1, <5>2 DEF Sold
      <4> QED
        BY <4>1, <4>2
    <3>11. ASSUME ~early', NEW c \in Buyers PROVE Kept(c)'
      <4>1. CASE c = b
        BY <3>2, <3>6, <4>1 DEF Kept
      <4>2. CASE c # b
        BY <3>2, <3>6, <3>9, <3>11, <4>2 DEF Inv, Kept
      <4> QED
        BY <4>1, <4>2
    <3>12. SeatsOf(Active)' <= Capacity
      <4>1. SeatsOf(Active \cup {b})' = SeatsOf(Active)'
        BY <3>6 DEF SeatsOf, Active
      <4>2. PICK G \in SUBSET Buyers : G = Active
        BY DEF Active
      <4>3. SeatsOf(G \cup {b})' = SeatsOf(G) + Cardinality(row.types)
        BY <3>4, <3>5, <3>6, <4>2, SeatAdded
      <4>4. SeatsOf(G) + Cardinality(row.types) <= Capacity
        BY <3>2, <3>4, <4>2 DEF Fits
      <4>5. SeatsOf(Active)' = SeatsOf(G \cup {b})'
        BY <3>6, <4>2 DEF SeatsOf
      <4> QED
        BY <4>3, <4>4, <4>5
    <3> QED
      BY <3>10, <3>11, <3>12 DEF Inv
  <2> QED
    BY <2>1, <2>2
<1>13. ASSUME NEW s \in Slots, AskStripe(s) PROVE Inv'
  <2>0. /\ req[s].pc = "ask" /\ req[s].buyer \in Buyers /\ UNCHANGED <<seat, order, early>>
        /\ Active' = Active
    BY <1>0, <1>13 DEF AskStripe, tables, history, Serving, Active
  <2>1. CASE Goto(s, "release") /\ UNCHANGED <<session, sessions>>
    BY <2>0, <2>1, GotoOnward, CarryOn DEF PCs
  <2>2. ASSUME NEW b \in Buyers, b = req[s].buyer, NEW pc \in {"order", "release"}, Goto(s, pc),
               session' = [session EXCEPT ![b] = "open"],
               sessions' = [sessions EXCEPT ![b] = @ + 1]
        PROVE  Inv'
    <3>1. \A t \in Slots : /\ req'[t].buyer = req[t].buyer
                           /\ req'[t].pc = IF t = s THEN pc ELSE req[t].pc
      BY <1>0, <2>2 DEF Goto, Req
    <3>2. s \in Holding(b) /\ Holding(b) = {s} /\ sessions[b] = 0 /\ order[b] = "none"
      BY <2>0, <2>2 DEF Holding, Inv, Sold
    <3>3. \A c \in Buyers : Holding(c)' = Holding(c)
      BY <2>0, <3>1 DEF Holding
    <3>4. /\ sessions'[b] = 1 /\ session'[b] = "open"
          /\ \A c \in Buyers \ {b} : sessions'[c] = sessions[c] /\ session'[c] = session[c]
      BY <1>0, <2>2, <3>2
    <3>5. seat[b].status # "none"
      BY <3>2 DEF Inv, Sold
    <3>6. ASSUME NEW c \in Buyers PROVE Sold(c)'
      <4>1. CASE c = b
        BY <2>0, <3>1, <3>2, <3>3, <3>4, <3>5, <4>1 DEF Sold
      <4>2. CASE c # b
        <5>1. \A t \in Holding(c) : req'[t].pc = req[t].pc
          BY <2>2, <3>1, <4>2 DEF Holding
        <5> QED
          BY <2>0, <3>3, <3>4, <4>2, <5>1 DEF Inv, Sold
      <4> QED
        BY <4>1, <4>2
    <3>7. ASSUME ~early', NEW c \in Buyers PROVE Kept(c)'
      BY <2>0, <3>2, <3>3, <3>4, <3>7 DEF Inv, Kept
    <3>8. SeatsOf(Active)' = SeatsOf(Active)
      BY <2>0 DEF SeatsOf
    <3> QED
      BY <2>0, <3>6, <3>7, <3>8 DEF Inv
  <2> QED
    BY <1>13, <2>0, <2>1, <2>2 DEF AskStripe
<1>14. ASSUME NEW s \in Slots, Release(s) PROVE Inv'
  <2>1. PICK b \in Buyers : b = req[s].buyer
    BY <1>0, <1>14 DEF Release, Serving
  <2>2. /\ req[s].pc = "release" /\ Finish(s) /\ UNCHANGED <<order, session, sessions, early>>
        /\ seat' = [seat EXCEPT ![b].status = "cancelled"]
    BY <1>14, <2>1 DEF Release, stripe, history
  <2>3. Holding(b) = {s} /\ order[b] = "none" /\ session[b] # "paid"
    BY <2>1, <2>2 DEF Holding, Inv, Sold, Ordered
  <2>4. \A c \in Buyers : Onward(c)
    BY <2>2, FinishOnward
  <2>5. Holding(b)' = {}
    <3>1. req'[s].pc = "idle"
      BY <1>0, <2>2 DEF Finish, Idle
    <3> QED
      BY <2>3, <2>4, <3>1 DEF Onward, Holding
  <2>6. /\ seat'[b].status = "cancelled" /\ \A c \in Buyers \ {b} : seat'[c] = seat[c]
    BY <1>0, <2>2 DEF Seat
  <2> QED
    BY <2>2, <2>3, <2>4, <2>5, <2>6, Carry DEF Active
<1>15. ASSUME NEW s \in Slots, SaveSeat(s) PROVE Inv'
  <2>1. PICK b \in Buyers : b = req[s].buyer
    BY <1>0, <1>15 DEF SaveSeat, Serving
  <2>2. PICK status \in {"confirmed", "pending"} : seat' = [seat EXCEPT ![b].status = status]
    BY <1>15, <2>1 DEF SaveSeat
  <2>3. req[s].pc = "save" /\ UNCHANGED <<order, session, sessions, early>>
    BY <1>15 DEF SaveSeat, history
  <2>4. \A c \in Buyers : Onward(c)
    BY <1>15, FinishOnward, GotoOnward DEF SaveSeat, PCs
  <2>5. ~early => b \in Active
    BY <2>1, <2>3 DEF Inv, Kept, Holding
  <2>6. /\ seat'[b].status = status /\ seat'[b].types = seat[b].types
        /\ \A c \in Buyers \ {b} : seat'[c] = seat[c]
    BY <1>0, <2>2 DEF Seat
  <2> QED
    BY <2>3, <2>4, <2>5, <2>6, Carry DEF Active
<1>16. ASSUME NEW b \in Buyers, Pay(b) PROVE Inv'
  <2>1. /\ UNCHANGED <<req, seat, order, sessions, early>> /\ session[b] = "open"
        /\ order[b] # "none"
        /\ session'[b] = "paid" /\ \A c \in Buyers \ {b} : session'[c] = session[c]
    BY <1>0, <1>16 DEF Pay, tables, history, Ordered
  <2>2. Active' = Active
    BY <2>1 DEF Active
  <2> QED
    BY <2>1, <2>2, SameOnward, Carry
<1>17. ASSUME NEW b \in Buyers, Completed(b) PROVE Inv'
  <2>1. /\ UNCHANGED <<req, sessions>> /\ session[b] = "paid" /\ session'[b] = "settled"
        /\ (early => early')
        /\ order[b] # "none" /\ order'[b] # "none"
        /\ \A c \in Buyers \ {b} : session'[c] = session[c] /\ order'[c] = order[c]
    BY <1>0, <1>a, <1>17 DEF Completed, Ordered
  <2>2. ~early => b \in Active
    BY <2>1 DEF Inv, Kept
  <2>3. /\ seat'[b] = seat[b] \/ seat'[b].status = "confirmed"
        /\ seat'[b].types = seat[b].types /\ \A c \in Buyers \ {b} : seat'[c] = seat[c]
    <3>1. seat' = seat \/ seat' = [seat EXCEPT ![b].status = "confirmed"]
      BY <1>17 DEF Completed
    <3>2. CASE seat' = seat
      BY <3>2
    <3>3. CASE seat' = [seat EXCEPT ![b].status = "confirmed"]
      BY <1>0, <3>3 DEF Seat
    <3> QED
      BY <3>1, <3>2, <3>3
  <2> QED
    BY <2>1, <2>2, <2>3, SameOnward, Carry DEF Active
<1>18. ASSUME NEW b \in Buyers, Expired(b) PROVE Inv'
  <2>1. /\ UNCHANGED <<req, sessions>> /\ session[b] = "open" /\ session'[b] = "expired"
        /\ (early => early')
        /\ order[b] = "none" <=> order'[b] = "none"
        /\ \A c \in Buyers \ {b} : session'[c] = session[c] /\ order'[c] = order[c]
    BY <1>0, <1>a, <1>18 DEF Expired
  <2>2. ~early' => Holding(b)' = {}
    BY <1>18, <2>1 DEF Expired, Ongoing, Holding
  <2>3. /\ seat'[b] = seat[b] \/ seat'[b].status = "cancelled"
        /\ seat'[b].types = seat[b].types /\ \A c \in Buyers \ {b} : seat'[c] = seat[c]
    <3>1. seat' = seat \/ seat' = [seat EXCEPT ![b].status = "cancelled"]
      BY <1>18 DEF Expired
    <3>2. CASE seat' = seat
      BY <3>2
    <3>3. CASE seat' = [seat EXCEPT ![b].status = "cancelled"]
      BY <1>0, <3>3 DEF Seat
    <3> QED
      BY <3>1, <3>2, <3>3
  <2> QED
    BY <2>1, <2>2, <2>3, SameOnward, Carry DEF Active
<1> QED
  BY <1>1, <1>2, <1>3, <1>4, <1>5, <1>6, <1>7, <1>8, <1>9, <1>10, <1>11, <1>12, <1>13, <1>14,
     <1>15, <1>16, <1>17, <1>18 DEF Next, Step
LEMMA InvInit == Init => Inv
<1> SUFFICES ASSUME Init PROVE Inv
  OBVIOUS
<1>1. \A s \in Slots : req[s].pc = "idle"
  BY DEF Init, Idle
<1>2. \A b \in Buyers : /\ seat[b].status = "none" /\ sessions[b] = 0 /\ session[b] = "none"
                        /\ order[b] = "none" /\ Holding(b) = {}
  BY <1>1 DEF Init, NoSeat, Holding, Seated, Asking
<1>3. Active = {}
  BY <1>2 DEF Active
<1>4. SeatsOf({}) = 0
  BY FS_EmptySet, SeatsFinite DEF SeatsIn
<1> QED
  BY <1>2, <1>3, <1>4, LimitsAssumption DEF Inv, Sold, Kept

(* However purchases repeat, overlap and die, an address is given one      *)
(* session of Stripe to pay for.                                           *)
THEOREM ChargedOnceAlways == Spec => []ChargedOnce
<1>1. Init => Inv
  BY InvInit
<1>2. Spec => [](Typed /\ Ordered /\ Inv)
  BY TypedInit, TypedStep, OrderedInit, OrderedStep, <1>1, InvStep, PTL DEF Spec
<1>3. Inv => ChargedOnce
  BY DEF Inv, Sold, ChargedOnce
<1> QED
  BY <1>2, <1>3, PTL

(* ... and the seats of all active rows are within the capacity, unless a  *)
(* webhook met the purchase it is about.                                   *)
THEOREM SeatsAlwaysFit == Spec => []SeatsWithinCapacity
<1>1. Spec => [](Typed /\ Ordered /\ Inv)
  BY TypedInit, TypedStep, OrderedInit, OrderedStep, InvInit, InvStep, PTL DEF Spec
<1>2. Inv => SeatsWithinCapacity
  BY DEF Inv, SeatsWithinCapacity
<1> QED
  BY <1>1, <1>2, PTL

-----------------------------------------------------------------------------
(* Tables that agree, when purchases take turns and none dies.             *)

Alone == \A s, t \in Slots : req[s].pc # "idle" /\ req[t].pc # "idle" => s = t

(* How the tables stand for a buyer whose purchase is over, or has not     *)
(* reserved a seat.                                                        *)
Settled(b) ==
    /\ seat[b].status = "none" => order[b] = "none" /\ session[b] = "none"
    /\ order[b] = "none" => /\ payment[b] = "none" /\ session[b] # "paid" /\ tickets[b] = 0
                            /\ b \in Active => b \in refused
    /\ order[b] = "pending" => payment[b] # "none" /\ tickets[b] = 0
    /\ order[b] = "paid" => seat[b].status = "confirmed" /\ tickets[b] = 1
    /\ order[b] = "cancelled" => b \notin Active
    /\ session[b] = "paid" => order[b] = "pending"
    /\ session[b] = "open" => order[b] \in {"none", "pending"}

(* ... and while the purchase r, which has, writes one table after another. *)
Placed(r) ==
    LET b == r.buyer
        free == r.cart.free
    IN  r.pc \in Seated =>
        /\ b \in Active /\ tickets[b] = 0
        /\ seat[b].coupon = r.cart.coupon /\ seat[b].addOn = r.cart.addOn
        /\ free => session[b] = "none"
        /\ r.pc \in {"account", "ask", "release"} => ~free
        /\ r.pc \in Asking \cup {"release", "order"} => order[b] = "none" /\ payment[b] = "none"
        /\ r.pc \in {"payment", "add-on", "save", "issue"} =>
              order[b] = IF free THEN "paid" ELSE "pending"
        /\ r.pc \in {"add-on", "save", "issue"} => payment[b] # "none"
        /\ r.pc = "issue" => free /\ seat[b].status = "confirmed"

Tables ==
    Undisturbed =>
        /\ Alone
        /\ \A b \in Buyers : Holding(b) = {} => Settled(b)
        /\ \A s \in Slots : Placed(req[s])

(* A step of the only purchase writes the rows of its buyer.               *)
LEMMA TablesCarry ==
    ASSUME Typed, Tables, Undisturbed, UNCHANGED <<overlapped, faults>>,
           NEW s \in Slots, req[s].pc # "idle", NEW r, req' = [req EXCEPT ![s] = r],
           NEW b \in Buyers, b = req[s].buyer, r.pc = "idle" \/ r.buyer = b,
           \A c \in Buyers \ {b} :
              /\ seat'[c] = seat[c] /\ order'[c] = order[c] /\ payment'[c] = payment[c]
              /\ tickets'[c] = tickets[c] /\ session'[c] = session[c]
              /\ c \in refused => c \in refused',
           Placed(r)', r.pc \notin Seated => Settled(b)'
    PROVE  Tables'
<1>0. req \in [Slots -> Req] /\ Alone
  BY DEF Typed, TypeOK, Tables
<1>1. req'[s] = r /\ \A t \in Slots \ {s} : req'[t] = req[t]
  BY <1>0
<1>2. \A t \in Slots \ {s} : req[t].pc = "idle"
  BY <1>0 DEF Alone
<1>3. Alone'
  BY <1>1, <1>2 DEF Alone
<1>4. ASSUME NEW t \in Slots PROVE Placed(req[t])'
  <2>1. CASE t = s
    BY <1>1, <2>1 DEF Placed
  <2>2. CASE t # s
    BY <1>1, <1>2, <2>2 DEF Placed, Seated, Asking
  <2> QED
    BY <2>1, <2>2
<1>5. ASSUME NEW c \in Buyers, Holding(c)' = {} PROVE Settled(c)'
  <2>1. CASE c = b
    <3>1. r.pc \notin Seated
      <4> SUFFICES ASSUME r.pc \in Seated PROVE FALSE
        OBVIOUS
      <4>1. r.buyer = b
        BY DEF Seated, Asking
      <4> QED
        BY <1>1, <1>5, <2>1, <4>1 DEF Holding
    <3> QED
      BY <2>1, <3>1
  <2>2. CASE c # b
    <3>1. Holding(c) = {}
      BY <1>2, <2>2 DEF Holding, Seated, Asking
    <3>2. Settled(c)
      BY <3>1 DEF Tables
    <3> QED
      BY <2>2, <3>2 DEF Settled, Active
  <2> QED
    BY <2>1, <2>2
<1> QED
  BY <1>3, <1>4, <1>5 DEF Tables

LEMMA GotoPlace ==
    ASSUME Typed, NEW s \in Slots, NEW pc, Goto(s, pc)
    PROVE  \E r : /\ req' = [req EXCEPT ![s] = r] /\ r.pc = pc
                  /\ r.buyer = req[s].buyer /\ r.cart = req[s].cart
                  /\ r.count = req[s].count /\ r.left = req[s].left
<1>0. req \in [Slots -> Req]
  BY DEF Typed, TypeOK
<1> DEFINE r == [req[s] EXCEPT !.pc = pc]
<1>1. req' = [req EXCEPT ![s] = r]
  BY <1>0 DEF Goto, Req
<1>2. /\ r.pc = pc /\ r.buyer = req[s].buyer /\ r.cart = req[s].cart
      /\ r.count = req[s].count /\ r.left = req[s].left
  BY <1>0 DEF Req
<1> HIDE DEF r
<1> QED
  BY <1>1, <1>2

LEMMA FinishPlace ==
    ASSUME NEW s \in Slots, Finish(s)
    PROVE  \E r : /\ req' = [req EXCEPT ![s] = r] /\ r.pc = "idle"
<1>1. Idle.pc = "idle"
  BY DEF Idle
<1> QED
  BY <1>1 DEF Finish

(* A purchase that ends leaves the tables settled.                         *)
LEMMA TablesFinish ==
    ASSUME Typed, Tables, Undisturbed, UNCHANGED <<overlapped, faults>>,
           NEW s \in Slots, req[s].pc # "idle", Finish(s),
           NEW b \in Buyers, b = req[s].buyer,
           \A c \in Buyers \ {b} :
              /\ seat'[c] = seat[c] /\ order'[c] = order[c] /\ payment'[c] = payment[c]
              /\ tickets'[c] = tickets[c] /\ session'[c] = session[c]
              /\ c \in refused => c \in refused',
           Settled(b)'
    PROVE  Tables'
<1>1. PICK r : req' = [req EXCEPT ![s] = r] /\ r.pc = "idle"
  BY FinishPlace
<1>2. Placed(r)'
  BY <1>1 DEF Placed, Seated, Asking
<1> QED
  BY <1>1, <1>2, TablesCarry

(* ... and one that changes no table has not begun to write, or goes on    *)
(* from one step of its writing to the next.                               *)
LEMMA TablesGoto ==
    ASSUME Typed, Tables, Undisturbed, UNCHANGED <<overlapped, faults>>,
           NEW s \in Slots, req[s].pc # "idle", NEW pc, pc # "idle", Goto(s, pc),
           NEW b \in Buyers, b = req[s].buyer,
           \A c \in Buyers \ {b} :
              /\ seat'[c] = seat[c] /\ order'[c] = order[c] /\ payment'[c] = payment[c]
              /\ tickets'[c] = tickets[c] /\ session'[c] = session[c]
              /\ c \in refused => c \in refused',
           \A r : r.pc = pc /\ r.buyer = b /\ r.cart = req[s].cart => Placed(r)',
           pc \notin Seated => Settled(b)'
    PROVE  Tables'
<1>1. PICK r : req' = [req EXCEPT ![s] = r] /\ r.pc = pc
               /\ r.buyer = req[s].buyer /\ r.cart = req[s].cart
  BY GotoPlace
<1>2. Placed(r)'
  BY <1>1
<1> QED
  BY <1>1, <1>2, TablesCarry

LEMMA TablesStep == Typed /\ Ordered /\ Inv /\ Tables /\ [Next]_vars => Tables'
<1> SUFFICES ASSUME Typed, Ordered, Inv, Tables, [Next]_vars, Undisturbed' PROVE Tables'
  BY DEF Tables
<1>0. /\ req \in [Slots -> Req] /\ seat \in [Buyers -> Seat] /\ Serving
      /\ session \in [Buyers -> SessionStates] /\ order \in [Buyers -> OrderStatuses]
      /\ payment \in [Buyers -> PaymentStatuses] /\ tickets \in [Buyers -> Nat]
      /\ faults \in Nat /\ early \in BOOLEAN /\ overlapped \in BOOLEAN
  BY DEF Typed, TypeOK
<1>a. Undisturbed =>
        /\ Alone /\ \A s \in Slots : Placed(req[s])
        /\ \A b \in Buyers : Holding(b) = {} => Settled(b)
  BY DEF Tables
<1>b. ASSUME Undisturbed, NEW s \in Slots, req[s].pc \notin Seated \cup {"idle"}
      PROVE  \A b \in Buyers : Settled(b)
  BY <1>a, <1>b DEF Alone, Holding, Seated, Asking
<1>c. ASSUME NEW s \in Slots, req[s].pc # "idle" PROVE req[s].buyer \in Buyers
  BY <1>0, <1>c DEF Serving
<1>1. ASSUME NEW s \in Slots, NEW b \in Buyers, NEW cart \in Carts, Purchase(s, b, cart)
      PROVE  Tables'
  <2>1. /\ req'[s].pc = "quote" /\ \A t \in Slots \ {s} : req'[t] = req[t]
        /\ UNCHANGED <<tables, stripe, refused, faults>>
        /\ ~overlapped /\ \A t \in Slots : req[t].pc = "idle"
    BY <1>0, <1>1 DEF Purchase, Idle, Undisturbed, Meet, Busy
  <2>2. Undisturbed /\ \A c \in Buyers : Holding(c) = {}
    BY <2>1 DEF Undisturbed, Holding, Seated, Asking
  <2>3. \A c \in Buyers : Settled(c)'
    BY <1>a, <2>1, <2>2 DEF Settled, Active, tables, stripe
  <2>4. Alone' /\ \A t \in Slots : Placed(req[t])'
    BY <2>1 DEF Alone, Placed, Seated, Asking
  <2> QED
    BY <2>3, <2>4 DEF Tables
<1>2. ASSUME NEW s \in Slots, Quote(s) PROVE Tables'
  <2>1. /\ req[s].pc = "quote" /\ UNCHANGED <<tables, stripe, history, bounds>>
    BY <1>2 DEF Quote
  <2>2. Undisturbed /\ UNCHANGED <<overlapped, faults, refused>>
        /\ UNCHANGED <<seat, order, payment, tickets, session>>
    BY <2>1 DEF Undisturbed, history, bounds, tables, stripe
  <2>3. PICK b \in Buyers : b = req[s].buyer
    BY <1>c, <2>1
  <2>4. Settled(b)'
    BY <1>b, <2>1, <2>2 DEF Settled, Active, Seated, Asking
  <2>5. CASE Finish(s)
    BY <2>1, <2>2, <2>3, <2>4, <2>5, TablesFinish
  <2>6. CASE req' = [req EXCEPT ![s].pc = "find", ![s].count = used, ![s].left = stock]
    <3> DEFINE r == [req[s] EXCEPT !.pc = "find", !.count = used, !.left = stock]
    <3>1. r.pc = "find" /\ r.buyer = b
      BY <1>0, <2>3 DEF Req
    <3>2. req' = [req EXCEPT ![s] = r]
      BY <1>0, <2>6 DEF Req
    <3> HIDE DEF r
    <3>3. PICK q : q = r
      OBVIOUS
    <3>4. Placed(q)' /\ q.pc = "find" /\ q.buyer = b /\ req' = [req EXCEPT ![s] = q]
      BY <3>1, <3>2, <3>3 DEF Placed, Seated, Asking
    <3> QED
      BY <2>1, <2>2, <2>3, <2>4, <3>4, TablesCarry
  <2> QED
    BY <1>2, <2>5, <2>6 DEF Quote
<1>3. ASSUME NEW s \in Slots, FindOrder(s) PROVE Tables'
  <2>1. /\ req[s].pc = "find" /\ UNCHANGED <<tables, session, history, bounds>>
        /\ Finish(s) \/ Goto(s, "reserve")
    BY <1>3 DEF FindOrder
  <2>2. Undisturbed /\ UNCHANGED <<overlapped, faults, refused>>
        /\ UNCHANGED <<seat, order, payment, tickets, session>>
    BY <2>1 DEF Undisturbed, history, bounds, tables
  <2>3. PICK b \in Buyers : b = req[s].buyer
    BY <1>c, <2>1
  <2>4. Settled(b)'
    BY <1>b, <2>1, <2>2 DEF Settled, Active, Seated, Asking
  <2>5. \A r : r.pc = "reserve" => Placed(r)'
    BY DEF Placed, Seated, Asking
  <2> QED
    BY <2>1, <2>2, <2>3, <2>4, <2>5, TablesFinish, TablesGoto
<1>4. ASSUME NEW s \in Slots, Reserve(s) PROVE Tables'
  <2>1. /\ req[s].pc = "reserve"
        /\ UNCHANGED <<order, payment, tickets, session, overlapped, refused, faults>>
    BY <1>4 DEF Reserve, stripe, history, bounds
  <2>2. Undisturbed
    BY <2>1 DEF Undisturbed
  <2>3. PICK b \in Buyers : b = req[s].buyer
    BY <1>c, <2>1
  <2>4. Settled(b)
    BY <1>b, <2>1, <2>2 DEF Seated, Asking
  <2>5. CASE Finish(s) /\ UNCHANGED seat
    <3>1. Settled(b)'
      BY <2>1, <2>4, <2>5 DEF Settled, Active
    <3> QED
      BY <2>1, <2>2, <2>3, <2>5, <3>1, TablesFinish
  <2>6. CASE ~(Finish(s) /\ UNCHANGED seat)
    <3>1. PICK cart \in Cart : cart = req[s].cart
      BY <1>0, <2>1, CartFields DEF Serving
    <3>2. /\ seat[b].status = "none"
          /\ seat' = [seat EXCEPT ![b] =
                 [status |-> IF cart.free THEN "confirmed" ELSE "pending",
                  types |-> cart.types, coupon |-> cart.coupon, addOn |-> cart.addOn]]
          /\ Goto(s, IF cart.coupon THEN "coupon" ELSE IF cart.free THEN "order" ELSE "account")
      BY <1>4, <2>3, <2>6, <3>1 DEF Reserve
    <3>3. PICK pc \in {"coupon", "order", "account"} :
             Goto(s, pc) /\ (pc = "account" => ~cart.free)
      BY <3>2
    <3>4. /\ seat'[b].status \in {"confirmed", "pending"}
          /\ seat'[b].coupon = cart.coupon /\ seat'[b].addOn = cart.addOn
          /\ \A c \in Buyers \ {b} : seat'[c] = seat[c]
      BY <1>0, <3>2
    <3>5. order[b] = "none" /\ payment[b] = "none" /\ session[b] = "none" /\ tickets[b] = 0
      BY <2>4, <3>2 DEF Settled
    <3>6. ASSUME NEW r, r.pc = pc, r.buyer = b, r.cart = cart PROVE Placed(r)'
      BY <2>1, <3>3, <3>4, <3>5, <3>6 DEF Placed, Active
    <3> QED
      BY <2>1, <2>2, <2>3, <3>1, <3>3, <3>4, <3>6, TablesGoto DEF Seated, Asking
  <2> QED
    BY <2>5, <2>6
<1>5. ASSUME NEW s \in Slots, CountCoupon(s) PROVE Tables'
  <2>1. /\ req[s].pc = "coupon"
        /\ UNCHANGED <<seat, order, payment, tickets, session, overlapped, refused, faults>>
    BY <1>5 DEF CountCoupon, stripe, history, bounds
  <2>2. Undisturbed
    BY <2>1 DEF Undisturbed
  <2>3. PICK b \in Buyers : b = req[s].buyer
    BY <1>c, <2>1
  <2>4. PICK pc \in {"order", "account"} : Goto(s, pc) /\ (pc = "account" => ~req[s].cart.free)
    BY <1>5 DEF CountCoupon
  <2>5. Placed(req[s])
    BY <1>a, <2>2
  <2>6. ASSUME NEW r, r.pc = pc, r.buyer = b, r.cart = req[s].cart PROVE Placed(r)'
    BY <2>1, <2>3, <2>4, <2>5, <2>6 DEF Placed, Active, Seated, Asking
  <2> QED
    BY <2>1, <2>2, <2>3, <2>4, <2>6, TablesGoto DEF Seated, Asking
<1>6. ASSUME NEW s \in Slots, RequireAccount(s) PROVE Tables'
  <2>1. /\ req[s].pc = "account"
        /\ UNCHANGED <<seat, order, payment, tickets, session, overlapped, faults>>
    BY <1>6 DEF RequireAccount, tables, stripe, bounds
  <2>2. Undisturbed
    BY <2>1 DEF Undisturbed
  <2>3. PICK b \in Buyers : b = req[s].buyer
    BY <1>c, <2>1
  <2>4. Placed(req[s])
    BY <1>a, <2>2
  <2>5. CASE Goto(s, "ask") /\ UNCHANGED refused
    <3>1. ASSUME NEW r, r.pc = "ask", r.buyer = b, r.cart = req[s].cart PROVE Placed(r)'
      BY <2>1, <2>3, <2>4, <3>1 DEF Placed, Active, Seated, Asking
    <3> QED
      BY <2>1, <2>2, <2>3, <2>5, <3>1, TablesGoto DEF Seated, Asking
  <2>6. CASE Finish(s) /\ refused' = refused \cup {b}
    <3>1. session[b] = "none"
      BY <2>1, <2>3 DEF Inv, Sold, Holding, Seated, Asking
    <3>2. Settled(b)'
      BY <2>1, <2>3, <2>4, <2>6, <3>1 DEF Placed, Settled, Active, Seated, Asking
    <3> QED
      BY <2>1, <2>2, <2>3, <2>6, <3>2, TablesFinish
  <2> QED
    BY <1>6, <2>3, <2>5, <2>6 DEF RequireAccount
<1>7. ASSUME NEW s \in Slots, AskStripe(s) PROVE Tables'
  <2>1. /\ req[s].pc = "ask"
        /\ UNCHANGED <<seat, order, payment, tickets, overlapped, faults, refused>>
    BY <1>7 DEF AskStripe, tables, history, bounds
  <2>2. Undisturbed
    BY <2>1 DEF Undisturbed
  <2>3. PICK b \in Buyers : b = req[s].buyer
    BY <1>c, <2>1
  <2>4. Placed(req[s])
    BY <1>a, <2>2
  <2>5. PICK pc \in {"release", "order"} : Goto(s, pc)
    BY <1>7 DEF AskStripe
  <2>6. \A c \in Buyers \ {b} : session'[c] = session[c]
    BY <1>0, <1>7, <2>3 DEF AskStripe
  <2>7. ASSUME NEW r, r.pc = pc, r.buyer = b, r.cart = req[s].cart PROVE Placed(r)'
    BY <2>1, <2>3, <2>4, <2>5, <2>7 DEF Placed, Active, Seated, Asking
  <2> QED
    BY <2>1, <2>2, <2>3, <2>5, <2>6, <2>7, TablesGoto DEF Seated, Asking
<1>8. ASSUME NEW s \in Slots, Release(s) PROVE Tables'
  <2>1. /\ req[s].pc = "release" /\ Finish(s)
        /\ UNCHANGED <<order, payment, tickets, session, overlapped, faults, refused>>
    BY <1>8 DEF Release, stripe, history, bounds
  <2>2. Undisturbed
    BY <2>1 DEF Undisturbed
  <2>3. PICK b \in Buyers : b = req[s].buyer
    BY <1>c, <2>1
  <2>4. Placed(req[s])
    BY <1>a, <2>2
  <2>5. seat'[b].status = "cancelled" /\ \A c \in Buyers \ {b} : seat'[c] = seat[c]
    BY <1>0, <1>8, <2>3 DEF Release, Seat
  <2>6. order[b] = "none" /\ session[b] # "paid"
    BY <2>1, <2>3, <2>4 DEF Placed, Ordered, Seated, Asking
  <2>7. Settled(b)'
    BY <2>1, <2>3, <2>4, <2>5, <2>6 DEF Placed, Settled, Active, Seated, Asking
  <2> QED
    BY <2>1, <2>2, <2>3, <2>5, <2>7, TablesFinish
<1>9. ASSUME NEW s \in Slots, CreateOrder(s) PROVE Tables'
  <2>1. /\ req[s].pc = "order" /\ Goto(s, "payment")
        /\ UNCHANGED <<seat, payment, tickets, session, overlapped, faults, refused>>
    BY <1>9 DEF CreateOrder, stripe, history, bounds
  <2>2. Undisturbed
    BY <2>1 DEF Undisturbed
  <2>3. PICK b \in Buyers : b = req[s].buyer
    BY <1>c, <2>1
  <2>4. Placed(req[s])
    BY <1>a, <2>2
  <2>5. /\ order'[b] = IF req[s].cart.free THEN "paid" ELSE "pending"
        /\ \A c \in Buyers \ {b} : order'[c] = order[c]
    BY <1>0, <1>9, <2>3 DEF CreateOrder
  <2>6. ASSUME NEW r, r.pc = "payment", r.buyer = b, r.cart = req[s].cart PROVE Placed(r)'
    BY <2>1, <2>3, <2>4, <2>5, <2>6 DEF Placed, Active, Seated, Asking
  <2> QED
    BY <2>1, <2>2, <2>3, <2>5, <2>6, TablesGoto DEF Seated, Asking
<1>10. ASSUME NEW s \in Slots, CreatePayment(s) PROVE Tables'
  <2>1. /\ req[s].pc = "payment"
        /\ UNCHANGED <<seat, order, tickets, session, overlapped, faults, refused>>
    BY <1>10 DEF CreatePayment, stripe, history, bounds
  <2>2. Undisturbed
    BY <2>1 DEF Undisturbed
  <2>3. PICK b \in Buyers : b = req[s].buyer
    BY <1>c, <2>1
  <2>4. Placed(req[s])
    BY <1>a, <2>2
  <2>5. payment'[b] # "none" /\ \A c \in Buyers \ {b} : payment'[c] = payment[c]
    BY <1>0, <1>10, <2>3 DEF CreatePayment
  <2>6. PICK pc \in {"add-on", "save"} : Goto(s, pc)
    BY <1>10 DEF CreatePayment
  <2>7. ASSUME NEW r, r.pc = pc, r.buyer = b, r.cart = req[s].cart PROVE Placed(r)'
    BY <2>1, <2>3, <2>4, <2>5, <2>6, <2>7 DEF Placed, Active, Seated, Asking
  <2> QED
    BY <2>1, <2>2, <2>3, <2>5, <2>6, <2>7, TablesGoto DEF Seated, Asking
<1>11. ASSUME NEW s \in Slots, TakeAddOn(s) PROVE Tables'
  <2>1. /\ req[s].pc = "add-on" /\ Goto(s, "save")
        /\ UNCHANGED <<seat, order, payment, tickets, session, overlapped, faults, refused>>
    BY <1>11 DEF TakeAddOn, stripe, history, bounds
  <2>2. Undisturbed
    BY <2>1 DEF Undisturbed
  <2>3. PICK b \in Buyers : b = req[s].buyer
    BY <1>c, <2>1
  <2>4. Placed(req[s])
    BY <1>a, <2>2
  <2>5. ASSUME NEW r, r.pc = "save", r.buyer = b, r.cart = req[s].cart PROVE Placed(r)'
    BY <2>1, <2>3, <2>4, <2>5 DEF Placed, Active, Seated, Asking
  <2> QED
    BY <2>1, <2>2, <2>3, <2>5, TablesGoto DEF Seated, Asking
<1>12. ASSUME NEW s \in Slots, SaveSeat(s) PROVE Tables'
  <2>1. /\ req[s].pc = "save"
        /\ UNCHANGED <<order, payment, tickets, session, overlapped, faults, refused>>
    BY <1>12 DEF SaveSeat, history, bounds
  <2>2. Undisturbed
    BY <2>1 DEF Undisturbed
  <2>3. PICK b \in Buyers : b = req[s].buyer
    BY <1>c, <2>1
  <2>4. Placed(req[s])
    BY <1>a, <2>2
  <2>5. /\ seat'[b].status = IF req[s].cart.free THEN "confirmed" ELSE "pending"
        /\ seat'[b].coupon = seat[b].coupon /\ seat'[b].addOn = seat[b].addOn
        /\ \A c \in Buyers \ {b} : seat'[c] = seat[c]
    BY <1>0, <1>12, <2>3 DEF SaveSeat, Seat
  <2>6. CASE req[s].cart.free /\ Goto(s, "issue")
    <3>1. ASSUME NEW r, r.pc = "issue", r.buyer = b, r.cart = req[s].cart PROVE Placed(r)'
      BY <2>1, <2>3, <2>4, <2>5, <2>6, <3>1 DEF Placed, Active, Seated, Asking
    <3> QED
      BY <2>1, <2>2, <2>3, <2>5, <2>6, <3>1, TablesGoto DEF Seated, Asking
  <2>7. CASE ~req[s].cart.free /\ Finish(s)
    <3>1. Settled(b)'
      BY <2>1, <2>3, <2>4, <2>5, <2>7 DEF Placed, Settled, Active, Seated, Asking
    <3> QED
      BY <2>1, <2>2, <2>3, <2>5, <2>7, <3>1, TablesFinish
  <2> QED
    BY <1>12, <2>6, <2>7 DEF SaveSeat
<1>13. ASSUME NEW s \in Slots, IssueTickets(s) PROVE Tables'
  <2>1. /\ req[s].pc = "issue" /\ Finish(s)
        /\ UNCHANGED <<seat, order, payment, session, overlapped, faults, refused>>
    BY <1>13 DEF IssueTickets, stripe, history, bounds
  <2>2. Undisturbed
    BY <2>1 DEF Undisturbed
  <2>3. PICK b \in Buyers : b = req[s].buyer
    BY <1>c, <2>1
  <2>4. Placed(req[s])
    BY <1>a, <2>2
  <2>5. tickets'[b] = (IF tickets[b] = 0 THEN 1 ELSE tickets[b])
        /\ \A c \in Buyers \ {b} : tickets'[c] = tickets[c]
    BY <1>0, <1>13, <2>3 DEF IssueTickets, Issued
  <2>6. Settled(b)'
    BY <2>1, <2>3, <2>4, <2>5 DEF Placed, Settled, Active, Seated, Asking
  <2> QED
    BY <2>1, <2>2, <2>3, <2>5, <2>6, TablesFinish
<1>14. ASSUME NEW s \in Slots, Fault(s) PROVE Tables'
  BY <1>0, <1>14 DEF Fault, Undisturbed
<1>15. ASSUME NEW b \in Buyers, Pay(b) PROVE Tables'
  <2>1. /\ UNCHANGED <<req, seat, order, payment, tickets, overlapped, faults, refused>>
        /\ session[b] = "open" /\ session' = [session EXCEPT ![b] = "paid"]
        /\ order[b] # "none"
    BY <1>15 DEF Pay, tables, history, bounds, Ordered
  <2>2. Undisturbed
    BY <2>1 DEF Undisturbed
  <2>3. ASSUME NEW c \in Buyers, session'[c] # session[c]
        PROVE  session[c] = "open" /\ session'[c] = "paid" /\ order[c] # "none"
    BY <1>0, <2>1, <2>3
  <2>4. ASSUME NEW c \in Buyers, Holding(c)' = {} PROVE Settled(c)'
    BY <1>a, <2>1, <2>2, <2>3, <2>4 DEF Settled, Active, Holding
  <2>5. ASSUME NEW s \in Slots PROVE Placed(req[s])'
    <3>1. Placed(req[s]) /\ (req[s].pc \in Seated => req[s].buyer \in Buyers)
      BY <1>a, <1>c, <2>2 DEF Seated, Asking
    <3> QED
      BY <2>1, <2>3, <3>1 DEF Placed, Active
  <2> QED
    BY <1>a, <2>1, <2>2, <2>4, <2>5 DEF Tables, Alone
<1>16. ASSUME NEW b \in Buyers, Completed(b) \/ Expired(b) PROVE Tables'
  <2>1. /\ UNCHANGED <<req, faults, refused>> /\ ~overlapped
        /\ \A s \in Slots : req[s].pc = "idle"
    BY <1>16 DEF Completed, Expired, Meet, Busy, Undisturbed, bounds
  <2>2. Undisturbed /\ \A c \in Buyers : Holding(c) = {}
    BY <2>1 DEF Undisturbed, Holding, Seated, Asking
  <2>3. /\ session[b] \in {"open", "paid"} /\ session'[b] \in {"settled", "expired"}
        /\ \A c \in Buyers \ {b} :
              /\ seat'[c] = seat[c] /\ order'[c] = order[c] /\ payment'[c] = payment[c]
              /\ tickets'[c] = tickets[c] /\ session'[c] = session[c]
    <3>1. CASE Completed(b)
      BY <1>0, <3>1 DEF Completed, Issued
    <3>2. CASE Expired(b)
      BY <1>0, <3>2 DEF Expired
    <3> QED
      BY <1>16, <3>1, <3>2
  <2>4. ASSUME order[b] # "none" \/ Completed(b)
        PROVE  /\ order[b] = "pending" /\ payment[b] # "none" /\ tickets[b] = 0
               /\ seat[b].status # "none"
    BY <1>a, <2>2, <2>3, <2>4 DEF Settled, Completed
  <2>5. Settled(b)'
    <3>1. CASE Completed(b)
      <4>1. order'[b] = "paid" /\ seat'[b].status = "confirmed" /\ tickets'[b] = 1
        BY <1>0, <2>4, <3>1 DEF Completed, Issued, Seat
      <4> QED
        BY <2>3, <4>1 DEF Settled
    <3>2. CASE Expired(b) /\ order[b] # "none"
      <4>1. order'[b] = "cancelled" /\ seat'[b].status = "cancelled"
        BY <1>0, <2>4, <3>2 DEF Expired, Seat
      <4> QED
        BY <2>3, <4>1 DEF Settled, Active
    <3>3. CASE Expired(b) /\ order[b] = "none"
      <4>1. UNCHANGED <<seat, order, payment, tickets, refused>>
        BY <3>3 DEF Expired
      <4>2. Settled(b) /\ seat[b].status # "none"
        BY <1>a, <2>2, <2>3 DEF Settled
      <4> QED
        BY <2>3, <3>3, <4>1, <4>2 DEF Settled, Active
    <3> QED
      BY <1>16, <3>1, <3>2, <3>3
  <2>6. \A c \in Buyers \ {b} : Settled(c)'
    BY <1>a, <2>1, <2>2, <2>3 DEF Settled, Active
  <2>7. Alone' /\ \A s \in Slots : Placed(req[s])'
    BY <2>1 DEF Alone, Placed, Seated, Asking
  <2> QED
    BY <2>5, <2>6, <2>7 DEF Tables
<1>17. CASE AccountUpdated \/ UNCHANGED vars
  <2>1. /\ UNCHANGED <<req, seat, order, payment, tickets, session, faults, refused>>
        /\ overlapped => overlapped'
    BY <1>0, <1>17 DEF AccountUpdated, Meet, Busy, vars, tables, stripe, history, bounds
  <2>2. Undisturbed
    BY <2>1 DEF Undisturbed
  <2> QED
    BY <1>a, <2>1, <2>2 DEF Tables, Alone, Settled, Placed, Active, Holding
<1> QED
  BY <1>1, <1>2, <1>3, <1>4, <1>5, <1>6, <1>7, <1>8, <1>9, <1>10, <1>11, <1>12, <1>13, <1>14,
     <1>15, <1>16, <1>17 DEF Next, Step

LEMMA TablesInit == Init => Tables
<1> SUFFICES ASSUME Init PROVE Tables
  OBVIOUS
<1>1. \A s \in Slots : req[s].pc = "idle"
  BY DEF Init, Idle
<1>2. \A b \in Buyers : /\ seat[b].status = "none" /\ order[b] = "none" /\ payment[b] = "none"
                        /\ tickets[b] = 0 /\ session[b] = "none"
  BY DEF Init, NoSeat
<1>3. \A b \in Buyers : Settled(b)
  BY <1>2 DEF Settled, Active
<1>4. Alone /\ \A s \in Slots : Placed(req[s])
  BY <1>1 DEF Alone, Placed, Seated, Asking
<1> QED
  BY <1>3, <1>4 DEF Tables

(* Purchases, webhooks and settings in turn, of which none dies, leave a   *)
(* seat taken for an order, unless the account may not charge, and an      *)
(* order that is paid with its seat and its tickets.                       *)
THEOREM TablesAgreeAlways == Spec => []TablesAgree
<1>1. Spec => [](Typed /\ Ordered /\ Inv)
  BY TypedInit, TypedStep, OrderedInit, OrderedStep, InvInit, InvStep, PTL DEF Spec
<1>2. Spec => []Tables
  BY <1>1, TablesInit, TablesStep, PTL DEF Spec
<1>3. Typed /\ Tables => TablesAgree
  <2> SUFFICES ASSUME Typed, Tables, Quiet, Undisturbed, NEW b \in Buyers
               PROVE  /\ b \in Active => b \in Standing \cup refused
                      /\ order[b] = "paid" => seat[b].status = "confirmed" /\ tickets[b] = 1
    BY DEF TablesAgree
  <2>1. Holding(b) = {}
    BY DEF Quiet, Busy, Holding, Seated, Asking
  <2>2. Settled(b) /\ order[b] \in OrderStatuses
    BY <2>1 DEF Tables, Typed, TypeOK
  <2> QED
    BY <2>2 DEF Settled, Standing, OrderStatuses
<1> QED
  BY <1>1, <1>2, <1>3, PTL

-----------------------------------------------------------------------------
(* The counters, when purchases take turns and none dies.                  *)

Coupons == {b \in Standing : seat[b].coupon}
AddOns == {b \in Standing : seat[b].addOn}

(* What the purchase r quoted is what the counters say until it writes     *)
(* them; it has used the coupon before its order stands.                   *)
Quoted(r) ==
    /\ r.pc \in {"find", "reserve", "coupon"} =>
          r.count = used /\ (r.cart.coupon => used < UsageLimit)
    /\ r.pc = "coupon" => r.cart.coupon
    /\ r.pc \in {"account", "ask", "release", "order"} /\ r.cart.coupon =>
          Cardinality(Coupons) < used
    /\ r.pc \in {"find", "reserve"} \cup Asking \cup {"order", "payment", "add-on"} =>
          r.left = stock /\ (r.cart.addOn => stock > 0)
    /\ r.pc = "add-on" => r.cart.addOn

(* An order that stands takes its add-on two statements later.             *)
Untaken(r) == r.pc \in {"payment", "add-on"} /\ r.cart.addOn

Counters ==
    Undisturbed =>
        /\ Cardinality(Coupons) <= used /\ used <= UsageLimit
        /\ stock >= 0
        /\ \A s \in Slots : Quoted(req[s])
        /\ Cardinality(AddOns) <= 1 + Inventory - stock
        /\ (\A s \in Slots : ~Untaken(req[s])) => Cardinality(AddOns) <= Inventory - stock

LEMMA BuyersFinite ==
    ASSUME NEW G \in SUBSET Buyers
    PROVE  /\ IsFiniteSet(G) /\ Cardinality(G) \in Nat
           /\ \A H \in SUBSET G : Cardinality(H) \in Nat /\ Cardinality(H) <= Cardinality(G)
           /\ \A b \in Buyers : Cardinality(G \cup {b}) \in Nat
                                /\ Cardinality(G \cup {b}) <= Cardinality(G) + 1
<1>1. IsFiniteSet(G) /\ Cardinality(G) \in Nat
  BY BuyersAssumption, FS_Subset, FS_CardinalityType
<1>2. ASSUME NEW H \in SUBSET G PROVE Cardinality(H) \in Nat /\ Cardinality(H) <= Cardinality(G)
  BY <1>1, FS_Subset, FS_CardinalityType
<1>3. ASSUME NEW b \in Buyers
      PROVE  Cardinality(G \cup {b}) \in Nat /\ Cardinality(G \cup {b}) <= Cardinality(G) + 1
  <2>1. IsFiniteSet(G \cup {b})
        /\ Cardinality(G \cup {b}) = IF b \in G THEN Cardinality(G) ELSE Cardinality(G) + 1
    BY <1>1, FS_AddElement
  <2> QED
    BY <1>1, <2>1
<1> QED
  BY <1>1, <1>2, <1>3

LEMMA CouponsType ==
    /\ Coupons \in SUBSET Buyers /\ AddOns \in SUBSET Buyers
    /\ Cardinality(Coupons) \in Nat /\ Cardinality(AddOns) \in Nat
<1>1. Coupons \in SUBSET Buyers /\ AddOns \in SUBSET Buyers
  BY DEF Coupons, AddOns, Standing
<1> QED
  BY <1>1, BuyersFinite

(* Other purchases are idle, so what is to be shown is shown of this one.  *)
LEMMA CountersCarry ==
    ASSUME Typed, Tables, Undisturbed, NEW s \in Slots, req[s].pc # "idle",
           NEW r, req' = [req EXCEPT ![s] = r],
           Cardinality(Coupons)' <= used', used' <= UsageLimit, stock' >= 0,
           Quoted(r)',
           Cardinality(AddOns)' <= 1 + Inventory - stock',
           ~Untaken(r) => Cardinality(AddOns)' <= Inventory - stock'
    PROVE  Counters'
<1>0. req \in [Slots -> Req] /\ Alone
  BY DEF Typed, TypeOK, Tables
<1>1. req'[s] = r /\ \A t \in Slots \ {s} : req'[t] = req[t]
  BY <1>0
<1>2. \A t \in Slots \ {s} : req[t].pc = "idle"
  BY <1>0 DEF Alone
<1>3. ASSUME NEW t \in Slots PROVE Quoted(req[t])'
  <2>1. CASE t = s
    BY <1>1, <2>1 DEF Quoted
  <2>2. CASE t # s
    BY <1>1, <1>2, <2>2 DEF Quoted, Asking
  <2> QED
    BY <2>1, <2>2
<1>4. (\A t \in Slots : ~Untaken(req'[t])) => ~Untaken(r)
  BY <1>1
<1> QED
  BY <1>3, <1>4 DEF Counters

(* A step that counts nothing: no order comes to stand, and the purchase   *)
(* goes on with what it quoted.                                            *)
LEMMA CountersKeep ==
    ASSUME Typed, Tables, Counters, Undisturbed, NEW s \in Slots, req[s].pc # "idle",
           NEW r, req' = [req EXCEPT ![s] = r], UNCHANGED <<used, stock>>,
           Coupons' \subseteq Coupons, AddOns' \subseteq AddOns,
           Cardinality(Coupons)' <= Cardinality(Coupons) => Quoted(r)',
           Untaken(req[s]) => Untaken(r)
    PROVE  Counters'
<1> USE LimitsAssumption
<1>0. /\ Cardinality(Coupons) <= used /\ used <= UsageLimit /\ stock >= 0
      /\ Cardinality(AddOns) <= 1 + Inventory - stock
      /\ (\A t \in Slots : ~Untaken(req[t])) => Cardinality(AddOns) <= Inventory - stock
      /\ used \in Int /\ stock \in Int /\ Alone
  BY DEF Counters, Tables, Typed, TypeOK
<1>1. /\ Cardinality(Coupons) \in Nat /\ Cardinality(AddOns) \in Nat
      /\ Cardinality(Coupons') \in Nat /\ Cardinality(Coupons') <= Cardinality(Coupons)
      /\ Cardinality(AddOns') \in Nat /\ Cardinality(AddOns') <= Cardinality(AddOns)
  BY CouponsType, BuyersFinite
<1>2. Cardinality(Coupons)' <= used' /\ used' <= UsageLimit /\ stock' >= 0
      /\ Cardinality(AddOns)' <= 1 + Inventory - stock'
  BY <1>0, <1>1
<1>3. ~Untaken(r) => Cardinality(AddOns)' <= Inventory - stock'
  <2> SUFFICES ASSUME ~Untaken(r) PROVE Cardinality(AddOns)' <= Inventory - stock'
    OBVIOUS
  <2>1. \A t \in Slots : ~Untaken(req[t])
    BY <1>0 DEF Alone, Untaken
  <2> QED
    BY <1>0, <1>1, <2>1
<1> QED
  BY <1>1, <1>2, <1>3, CountersCarry

LEMMA SameCounted ==
    ASSUME UNCHANGED order,
           \A b \in Buyers : b \in Standing =>
              seat'[b].coupon = seat[b].coupon /\ seat'[b].addOn = seat[b].addOn
    PROVE  Coupons' = Coupons /\ AddOns' = AddOns
BY DEF Coupons, AddOns, Standing

(* A purchase that ends counts nothing more.                               *)
LEMMA CountersFinish ==
    ASSUME Typed, Tables, Counters, Undisturbed, NEW s \in Slots, req[s].pc # "idle",
           Finish(s), UNCHANGED <<used, stock>>,
           Coupons' \subseteq Coupons, AddOns' \subseteq AddOns, ~Untaken(req[s])
    PROVE  Counters'
<1>1. PICK r : req' = [req EXCEPT ![s] = r] /\ r.pc = "idle"
  BY FinishPlace
<1>2. Quoted(r)'
  BY <1>1 DEF Quoted, Asking
<1> QED
  BY <1>1, <1>2, CountersKeep

LEMMA CountersGoto ==
    ASSUME Typed, Tables, Counters, Undisturbed, NEW s \in Slots, req[s].pc # "idle",
           NEW pc, Goto(s, pc), UNCHANGED <<used, stock>>,
           Coupons' = Coupons, AddOns' = AddOns,
           \A r : /\ r.pc = pc /\ r.cart = req[s].cart
                  /\ r.count = req[s].count /\ r.left = req[s].left
                  => Quoted(r),
           Untaken(req[s]) => pc \in {"payment", "add-on"}
    PROVE  Counters'
<1>1. PICK r : /\ req' = [req EXCEPT ![s] = r] /\ r.pc = pc /\ r.cart = req[s].cart
               /\ r.count = req[s].count /\ r.left = req[s].left
  BY GotoPlace
<1>2. Quoted(r)
  BY <1>1
<1>3. Quoted(r)'
  BY <1>2 DEF Quoted
<1>4. Untaken(req[s]) => Untaken(r)
  BY <1>1 DEF Untaken
<1> QED
  BY <1>1, <1>3, <1>4, CountersKeep

LEMMA CountersStep == Typed /\ Inv /\ Tables /\ Counters /\ [Next]_vars => Counters'
<1> SUFFICES ASSUME Typed, Inv, Tables, Counters, [Next]_vars, Undisturbed' PROVE Counters'
  BY DEF Counters
<1> USE LimitsAssumption
<1>0. /\ req \in [Slots -> Req] /\ seat \in [Buyers -> Seat] /\ Serving
      /\ order \in [Buyers -> OrderStatuses] /\ used \in Int /\ stock \in Int
      /\ faults \in Nat /\ overlapped \in BOOLEAN
  BY DEF Typed, TypeOK
<1>a. Undisturbed =>
        /\ Alone /\ \A s \in Slots : Placed(req[s])
        /\ \A b \in Buyers : Holding(b) = {} => Settled(b)
  BY DEF Tables
<1>b. Undisturbed =>
        /\ Cardinality(Coupons) <= used /\ used <= UsageLimit /\ stock >= 0
        /\ \A s \in Slots : Quoted(req[s])
        /\ Cardinality(AddOns) <= 1 + Inventory - stock
        /\ (\A s \in Slots : ~Untaken(req[s])) => Cardinality(AddOns) <= Inventory - stock
  BY DEF Counters
<1>c. /\ Cardinality(Coupons) \in Nat /\ Cardinality(AddOns) \in Nat
  BY CouponsType
<1>d. ASSUME NEW s \in Slots, req[s].pc # "idle" PROVE req[s].buyer \in Buyers
  BY <1>0, <1>d DEF Serving
<1>1. ASSUME NEW s \in Slots, NEW b \in Buyers, NEW cart \in Carts, Purchase(s, b, cart)
      PROVE  Counters'
  <2>1. /\ req'[s].pc = "quote" /\ \A t \in Slots \ {s} : req'[t] = req[t]
        /\ UNCHANGED <<seat, order, used, stock, faults>>
        /\ ~overlapped /\ \A t \in Slots : req[t].pc = "idle"
    BY <1>0, <1>1 DEF Purchase, Idle, Undisturbed, Meet, Busy, tables
  <2>2. Undisturbed /\ Coupons' = Coupons /\ AddOns' = AddOns
    BY <2>1 DEF Undisturbed, Coupons, AddOns, Standing
  <2>3. \A t \in Slots : Quoted(req[t])'
    BY <2>1 DEF Quoted, Asking
  <2>4. \A t \in Slots : ~Untaken(req[t])
    BY <2>1 DEF Untaken
  <2> QED
    BY <1>b, <2>1, <2>2, <2>3, <2>4 DEF Counters
<1>2. ASSUME NEW s \in Slots, Quote(s) PROVE Counters'
  <2>1. /\ req[s].pc = "quote" /\ UNCHANGED <<seat, order, used, stock, overlapped, faults>>
    BY <1>2 DEF Quote, tables, history, bounds
  <2>2. Undisturbed /\ Coupons' = Coupons /\ AddOns' = AddOns /\ ~Untaken(req[s])
    BY <2>1 DEF Undisturbed, Coupons, AddOns, Standing, Untaken
  <2>3. CASE Finish(s)
    BY <2>1, <2>2, <2>3, CountersFinish
  <2>4. CASE ~Finish(s)
    <3>1. /\ req' = [req EXCEPT ![s].pc = "find", ![s].count = used, ![s].left = stock]
          /\ req[s].cart.coupon => ~(used >= UsageLimit)
          /\ req[s].cart.addOn => ~(stock < 1)
      BY <1>2, <2>4 DEF Quote
    <3> DEFINE r == [req[s] EXCEPT !.pc = "find", !.count = used, !.left = stock]
    <3>2. r.pc = "find" /\ r.count = used /\ r.left = stock /\ r.cart = req[s].cart
      BY <1>0 DEF Req
    <3>3. req' = [req EXCEPT ![s] = r]
      BY <1>0, <3>1 DEF Req
    <3> HIDE DEF r
    <3>4. PICK q : q = r
      OBVIOUS
    <3>5. /\ req[s].cart.coupon => used < UsageLimit
          /\ req[s].cart.addOn => stock > 0
      BY <1>0, <3>1
    <3>6. q.pc = "find" /\ Quoted(q)
      BY <3>2, <3>4, <3>5 DEF Quoted
    <3>7. Quoted(q)' /\ req' = [req EXCEPT ![s] = q]
      BY <2>1, <2>2, <3>3, <3>4, <3>6 DEF Quoted
    <3> QED
      BY <2>1, <2>2, <3>7, CountersKeep
  <2> QED
    BY <2>3, <2>4
<1>3. ASSUME NEW s \in Slots, FindOrder(s) PROVE Counters'
  <2>1. /\ req[s].pc = "find" /\ UNCHANGED <<seat, order, used, stock, overlapped, faults>>
        /\ Finish(s) \/ Goto(s, "reserve")
    BY <1>3 DEF FindOrder, tables, history, bounds
  <2>2. Undisturbed /\ Coupons' = Coupons /\ AddOns' = AddOns /\ ~Untaken(req[s])
    BY <2>1 DEF Undisturbed, Coupons, AddOns, Standing, Untaken
  <2>3. Quoted(req[s])
    BY <1>b, <2>2
  <2>4. ASSUME NEW r, r.pc = "reserve", r.cart = req[s].cart, r.count = req[s].count,
               r.left = req[s].left
        PROVE  Quoted(r)
    BY <2>4, <2>1, <2>3 DEF Quoted
  <2> QED
    BY <2>1, <2>2, <2>4, CountersFinish, CountersGoto
<1>4. ASSUME NEW s \in Slots, Reserve(s) PROVE Counters'
  <2>1. req[s].pc = "reserve" /\ UNCHANGED <<order, used, stock, overlapped, faults>>
    BY <1>4 DEF Reserve, history, bounds
  <2>2. Undisturbed /\ ~Untaken(req[s])
    BY <2>1 DEF Undisturbed, Untaken
  <2>3. PICK b \in Buyers : b = req[s].buyer
    BY <1>d, <2>1
  <2>4. Quoted(req[s])
    BY <1>b, <2>2
  <2>5. CASE Finish(s) /\ UNCHANGED seat
    <3>1. Coupons' = Coupons /\ AddOns' = AddOns
      BY <2>1, <2>5, SameCounted
    <3> QED
      BY <2>1, <2>2, <2>5, <3>1, CountersFinish
  <2>6. CASE ~(Finish(s) /\ UNCHANGED seat)
    <3>1. /\ seat[b].status = "none" /\ \A c \in Buyers \ {b} : seat'[c] = seat[c]
      BY <1>0, <1>4, <2>3, <2>6 DEF Reserve
    <3>2. PICK pc \in {"coupon", "order", "account"} :
             Goto(s, pc) /\ (pc = "coupon" <=> req[s].cart.coupon)
      BY <1>4, <2>6 DEF Reserve
    <3>3. Holding(b) = {}
      BY <1>a, <2>1, <2>2 DEF Alone, Holding, Seated, Asking
    <3>4. b \notin Standing
      BY <1>a, <2>2, <3>1, <3>3 DEF Settled, Standing
    <3>5. Coupons' = Coupons /\ AddOns' = AddOns
      BY <2>1, <3>1, <3>4, SameCounted
    <3>6. ASSUME NEW r, r.pc = pc, r.cart = req[s].cart, r.count = req[s].count,
                 r.left = req[s].left
          PROVE  Quoted(r)
      BY <3>6, <2>1, <2>4, <3>2 DEF Quoted
    <3> QED
      BY <2>1, <2>2, <3>2, <3>5, <3>6, CountersGoto
  <2> QED
    BY <2>5, <2>6
<1>5. ASSUME NEW s \in Slots, CountCoupon(s) PROVE Counters'
  <2>1. /\ req[s].pc = "coupon" /\ UNCHANGED <<seat, order, stock, overlapped, faults>>
        /\ used' = req[s].count + 1
    BY <1>5 DEF CountCoupon, history, bounds
  <2>2. Undisturbed /\ Coupons' = Coupons /\ AddOns' = AddOns
    BY <2>1 DEF Undisturbed, Coupons, AddOns, Standing
  <2>3. Quoted(req[s]) /\ \A t \in Slots : ~Untaken(req[t])
    BY <1>a, <1>b, <2>1, <2>2 DEF Alone, Untaken
  <2>4. used' = used + 1 /\ used' <= UsageLimit /\ Cardinality(Coupons) < used'
    BY <1>0, <1>b, <1>c, <2>1, <2>2, <2>3 DEF Quoted
  <2>5. PICK pc \in {"order", "account"} : Goto(s, pc)
    BY <1>5 DEF CountCoupon
  <2>6. PICK r : /\ req' = [req EXCEPT ![s] = r] /\ r.pc = pc /\ r.cart = req[s].cart
                 /\ r.left = req[s].left
    BY <2>5, GotoPlace
  <2>7. Quoted(r)'
    BY <2>1, <2>2, <2>3, <2>4, <2>6 DEF Quoted, Asking
  <2>8. /\ Cardinality(Coupons)' <= used' /\ stock' >= 0
        /\ Cardinality(AddOns)' <= 1 + Inventory - stock'
        /\ Cardinality(AddOns)' <= Inventory - stock'
    BY <1>0, <1>b, <1>c, <2>1, <2>2, <2>3, <2>4
  <2> QED
    BY <2>1, <2>2, <2>4, <2>6, <2>7, <2>8, CountersCarry
<1>6. ASSUME NEW s \in Slots, RequireAccount(s) PROVE Counters'
  <2>1. /\ req[s].pc = "account" /\ UNCHANGED <<seat, order, used, stock, overlapped, faults>>
        /\ Finish(s) \/ Goto(s, "ask")
    BY <1>6 DEF RequireAccount, tables, bounds
  <2>2. Undisturbed /\ Coupons' = Coupons /\ AddOns' = AddOns /\ ~Untaken(req[s])
    BY <2>1 DEF Undisturbed, Coupons, AddOns, Standing, Untaken
  <2>3. Quoted(req[s])
    BY <1>b, <2>2
  <2>4. ASSUME NEW r, r.pc = "ask", r.cart = req[s].cart, r.count = req[s].count,
               r.left = req[s].left
        PROVE  Quoted(r)
    BY <2>4, <2>1, <2>3 DEF Quoted, Asking
  <2> QED
    BY <2>1, <2>2, <2>4, CountersFinish, CountersGoto
<1>7. ASSUME NEW s \in Slots, AskStripe(s) PROVE Counters'
  <2>1. /\ req[s].pc = "ask" /\ UNCHANGED <<seat, order, used, stock, overlapped, faults>>
    BY <1>7 DEF AskStripe, tables, history, bounds
  <2>2. Undisturbed /\ Coupons' = Coupons /\ AddOns' = AddOns /\ ~Untaken(req[s])
    BY <2>1 DEF Undisturbed, Coupons, AddOns, Standing, Untaken
  <2>3. Quoted(req[s])
    BY <1>b, <2>2
  <2>4. PICK pc \in {"release", "order"} : Goto(s, pc)
    BY <1>7 DEF AskStripe
  <2>5. ASSUME NEW r, r.pc = pc, r.cart = req[s].cart, r.count = req[s].count,
               r.left = req[s].left
        PROVE  Quoted(r)
    BY <2>5, <2>1, <2>3, <2>4 DEF Quoted, Asking
  <2> QED
    BY <2>1, <2>2, <2>4, <2>5, CountersGoto
<1>8. ASSUME NEW s \in Slots, Release(s) PROVE Counters'
  <2>1. /\ req[s].pc = "release" /\ Finish(s)
        /\ UNCHANGED <<order, used, stock, overlapped, faults>>
        /\ seat' = [seat EXCEPT ![req[s].buyer].status = "cancelled"]
    BY <1>8 DEF Release, history, bounds
  <2>2. Undisturbed /\ ~Untaken(req[s])
    BY <2>1 DEF Undisturbed, Untaken
  <2>3. Coupons' = Coupons /\ AddOns' = AddOns
    BY <1>0, <2>1, SameCounted DEF Seat
  <2> QED
    BY <2>1, <2>2, <2>3, CountersFinish
<1>9. ASSUME NEW s \in Slots, CreateOrder(s) PROVE Counters'
  <2>1. /\ req[s].pc = "order" /\ Goto(s, "payment")
        /\ UNCHANGED <<seat, used, stock, overlapped, faults>>
    BY <1>9 DEF CreateOrder, history, bounds
  <2>2. Undisturbed
    BY <2>1 DEF Undisturbed
  <2>3. PICK b \in Buyers : b = req[s].buyer
    BY <1>d, <2>1
  <2>4. Quoted(req[s]) /\ Placed(req[s]) /\ \A t \in Slots : ~Untaken(req[t])
    BY <1>a, <1>b, <2>1, <2>2 DEF Alone, Untaken
  <2>5. /\ seat[b].coupon = req[s].cart.coupon /\ seat[b].addOn = req[s].cart.addOn
    BY <2>1, <2>3, <2>4 DEF Placed, Seated
  <2>6. \A c \in Buyers \ {b} : order'[c] = order[c]
    BY <1>0, <1>9, <2>3 DEF CreateOrder
  <2>7. /\ Coupons' \subseteq IF req[s].cart.coupon THEN Coupons \cup {b} ELSE Coupons
        /\ AddOns' \subseteq IF req[s].cart.addOn THEN AddOns \cup {b} ELSE AddOns
    BY <2>1, <2>5, <2>6 DEF Coupons, AddOns, Standing
  <2>8. /\ Cardinality(Coupons') \in Nat
        /\ Cardinality(Coupons') <= Cardinality(Coupons) + (IF req[s].cart.coupon THEN 1 ELSE 0)
    <3>1. CASE req[s].cart.coupon
      <4>1. Coupons \cup {b} \in SUBSET Buyers /\ Cardinality(Coupons \cup {b}) <= Cardinality(Coupons) + 1
            /\ Cardinality(Coupons \cup {b}) \in Nat
        BY CouponsType, BuyersFinite
      <4>2. /\ Cardinality(Coupons') \in Nat
            /\ Cardinality(Coupons') <= Cardinality(Coupons \cup {b})
        BY <2>7, <3>1, <4>1, BuyersFinite
      <4> QED
        BY <1>c, <3>1, <4>1, <4>2
    <3>2. CASE ~req[s].cart.coupon
      BY <1>c, <2>7, <3>2, CouponsType, BuyersFinite
    <3> QED
      BY <3>1, <3>2
  <2>9. /\ Cardinality(AddOns') \in Nat
        /\ Cardinality(AddOns') <= Cardinality(AddOns) + (IF req[s].cart.addOn THEN 1 ELSE 0)
    <3>1. CASE req[s].cart.addOn
      <4>1. AddOns \cup {b} \in SUBSET Buyers /\ Cardinality(AddOns \cup {b}) <= Cardinality(AddOns) + 1
            /\ Cardinality(AddOns \cup {b}) \in Nat
        BY CouponsType, BuyersFinite
      <4>2. /\ Cardinality(AddOns') \in Nat
            /\ Cardinality(AddOns') <= Cardinality(AddOns \cup {b})
        BY <2>7, <3>1, <4>1, BuyersFinite
      <4> QED
        BY <1>c, <3>1, <4>1, <4>2
    <3>2. CASE ~req[s].cart.addOn
      BY <1>c, <2>7, <3>2, CouponsType, BuyersFinite
    <3> QED
      BY <3>1, <3>2
  <2>10. PICK r : /\ req' = [req EXCEPT ![s] = r] /\ r.pc = "payment" /\ r.cart = req[s].cart
                  /\ r.left = req[s].left
    BY <2>1, GotoPlace
  <2>11. Quoted(r)'
    BY <2>1, <2>4, <2>10 DEF Quoted, Asking
  <2>12. req[s].cart.coupon => Cardinality(Coupons) < used
    BY <2>1, <2>4 DEF Quoted
  <2>13. Cardinality(Coupons') <= used /\ used <= UsageLimit /\ stock >= 0
    BY <1>0, <1>b, <1>c, <2>2, <2>8, <2>12
  <2>14. /\ Cardinality(AddOns') <= 1 + Inventory - stock
         /\ ~req[s].cart.addOn => Cardinality(AddOns') <= Inventory - stock
    BY <1>0, <1>b, <1>c, <2>2, <2>4, <2>9
  <2>15. ~Untaken(r) => ~req[s].cart.addOn
    BY <2>10 DEF Untaken
  <2> QED
    BY <2>1, <2>2, <2>10, <2>11, <2>13, <2>14, <2>15, CountersCarry
<1>10. ASSUME NEW s \in Slots, CreatePayment(s) PROVE Counters'
  <2>1. /\ req[s].pc = "payment" /\ UNCHANGED <<seat, order, used, stock, overlapped, faults>>
    BY <1>10 DEF CreatePayment, history, bounds
  <2>2. Undisturbed /\ Coupons' = Coupons /\ AddOns' = AddOns
    BY <2>1 DEF Undisturbed, Coupons, AddOns, Standing
  <2>3. Quoted(req[s])
    BY <1>b, <2>2
  <2>4. PICK pc \in {"add-on", "save"} : Goto(s, pc) /\ (pc = "add-on" <=> req[s].cart.addOn)
    BY <1>10 DEF CreatePayment
  <2>5. ASSUME NEW r, r.pc = pc, r.cart = req[s].cart, r.count = req[s].count,
               r.left = req[s].left
        PROVE  Quoted(r)
    BY <2>5, <2>1, <2>3, <2>4 DEF Quoted, Asking
  <2>6. Untaken(req[s]) => pc \in {"payment", "add-on"}
    BY <2>4 DEF Untaken
  <2> QED
    BY <2>1, <2>2, <2>4, <2>5, <2>6, CountersGoto
<1>11. ASSUME NEW s \in Slots, TakeAddOn(s) PROVE Counters'
  <2>1. /\ req[s].pc = "add-on" /\ UNCHANGED <<seat, order, used, overlapped, faults>>
        /\ stock' = req[s].left - 1 /\ Goto(s, "save")
    BY <1>11 DEF TakeAddOn, history, bounds
  <2>2. Undisturbed /\ Coupons' = Coupons /\ AddOns' = AddOns
    BY <2>1 DEF Undisturbed, Coupons, AddOns, Standing
  <2>3. Quoted(req[s])
    BY <1>b, <2>2
  <2>4. stock' = stock - 1 /\ stock > 0
    BY <2>1, <2>3 DEF Quoted
  <2>5. PICK r : /\ req' = [req EXCEPT ![s] = r] /\ r.pc = "save"
    BY <2>1, GotoPlace
  <2>6. Quoted(r)'
    BY <2>5 DEF Quoted, Asking
  <2>7. /\ Cardinality(Coupons)' <= used' /\ used' <= UsageLimit /\ stock' >= 0
        /\ Cardinality(AddOns)' <= 1 + Inventory - stock'
        /\ Cardinality(AddOns)' <= Inventory - stock'
    BY <1>0, <1>b, <1>c, <2>1, <2>2, <2>4
  <2> QED
    BY <2>1, <2>2, <2>5, <2>6, <2>7, CountersCarry
<1>12. ASSUME NEW s \in Slots, SaveSeat(s) PROVE Counters'
  <2>1. /\ req[s].pc = "save" /\ UNCHANGED <<order, used, stock, overlapped, faults>>
        /\ Finish(s) \/ Goto(s, "issue")
    BY <1>12 DEF SaveSeat, history, bounds
  <2>2. Undisturbed /\ ~Untaken(req[s])
    BY <2>1 DEF Undisturbed, Untaken
  <2>3. Coupons' = Coupons /\ AddOns' = AddOns
    BY <1>0, <1>12, <2>1, SameCounted DEF SaveSeat, Seat
  <2>4. \A r : r.pc = "issue" => Quoted(r)
    BY DEF Quoted, Asking
  <2> QED
    BY <2>1, <2>2, <2>3, <2>4, CountersFinish, CountersGoto
<1>13. ASSUME NEW s \in Slots, IssueTickets(s) PROVE Counters'
  <2>1. /\ req[s].pc = "issue" /\ Finish(s)
        /\ UNCHANGED <<seat, order, used, stock, overlapped, faults>>
    BY <1>13 DEF IssueTickets, history, bounds
  <2>2. Undisturbed /\ Coupons' = Coupons /\ AddOns' = AddOns /\ ~Untaken(req[s])
    BY <2>1 DEF Undisturbed, Coupons, AddOns, Standing, Untaken
  <2> QED
    BY <2>1, <2>2, CountersFinish
<1>14. ASSUME NEW s \in Slots, Fault(s) PROVE Counters'
  BY <1>0, <1>14 DEF Fault, Undisturbed
<1>15. ASSUME NEW b \in Buyers, Completed(b) \/ Expired(b) PROVE Counters'
  <2>1. /\ UNCHANGED <<req, used, stock, faults>> /\ ~overlapped
        /\ \A s \in Slots : req[s].pc = "idle"
    BY <1>15 DEF Completed, Expired, Meet, Busy, Undisturbed, bounds
  <2>2. Undisturbed /\ \A c \in Buyers : Holding(c) = {}
    BY <2>1 DEF Undisturbed, Holding, Seated, Asking
  <2>3. b \in Standing \/ order'[b] = "none"
    BY <1>a, <1>15, <2>2 DEF Completed, Expired, Settled, Standing
  <2>4. /\ \A c \in Buyers : seat'[c].coupon = seat[c].coupon /\ seat'[c].addOn = seat[c].addOn
        /\ \A c \in Buyers \ {b} : order'[c] = order[c]
    <3>1. CASE Completed(b)
      BY <1>0, <3>1 DEF Completed, Seat
    <3>2. CASE Expired(b)
      BY <1>0, <3>2 DEF Expired, Seat
    <3> QED
      BY <1>15, <3>1, <3>2
  <2>5. Coupons' \subseteq Coupons /\ AddOns' \subseteq AddOns
    BY <2>3, <2>4 DEF Coupons, AddOns, Standing
  <2>6. /\ Cardinality(Coupons') \in Nat /\ Cardinality(Coupons') <= Cardinality(Coupons)
        /\ Cardinality(AddOns') \in Nat /\ Cardinality(AddOns') <= Cardinality(AddOns)
    BY <2>5, CouponsType, BuyersFinite
  <2>7. \A s \in Slots : Quoted(req[s])' /\ ~Untaken(req[s])
    BY <2>1 DEF Quoted, Untaken, Asking
  <2>8. /\ Cardinality(Coupons)' <= used' /\ used' <= UsageLimit /\ stock' >= 0
        /\ Cardinality(AddOns)' <= 1 + Inventory - stock'
        /\ Cardinality(AddOns)' <= Inventory - stock'
    BY <1>0, <1>b, <1>c, <2>1, <2>2, <2>6, <2>7
  <2> QED
    BY <2>7, <2>8 DEF Counters
<1>16. CASE AccountUpdated \/ UNCHANGED vars \/ \E b \in Buyers : Pay(b)
  <2>1. /\ UNCHANGED <<req, seat, order, used, stock, faults>>
        /\ overlapped => overlapped'
    BY <1>0, <1>16 DEF AccountUpdated, Pay, Meet, Busy, vars, tables, stripe, history, bounds
  <2>2. Undisturbed /\ Coupons' = Coupons /\ AddOns' = AddOns
    BY <2>1 DEF Undisturbed, Coupons, AddOns, Standing
  <2>3. \A s \in Slots : Quoted(req[s])'
    BY <1>b, <2>1, <2>2 DEF Quoted
  <2> QED
    BY <1>b, <2>1, <2>2, <2>3 DEF Counters
<1> QED
  BY <1>1, <1>2, <1>3, <1>4, <1>5, <1>6, <1>7, <1>8, <1>9, <1>10, <1>11, <1>12, <1>13, <1>14,
     <1>15, <1>16 DEF Next, Step

LEMMA CountersInit == Init => Counters
<1> SUFFICES ASSUME Init PROVE Counters
  OBVIOUS
<1>1. \A s \in Slots : req[s].pc = "idle"
  BY DEF Init, Idle
<1>2. Coupons = {} /\ AddOns = {}
  BY DEF Init, Coupons, AddOns, Standing
<1>3. Cardinality(Coupons) = 0 /\ Cardinality(AddOns) = 0
  BY <1>2, FS_EmptySet
<1>4. used = 0 /\ stock = Inventory
  BY DEF Init
<1>5. \A s \in Slots : Quoted(req[s])
  BY <1>1 DEF Quoted, Asking
<1> QED
  BY <1>3, <1>4, <1>5, LimitsAssumption DEF Counters

(* Purchases in turn, of which none dies, keep the counters: the orders    *)
(* that are not cancelled use the coupon and take the add-on as often as   *)
(* they may.                                                               *)
THEOREM CountersAlwaysHold == Spec => []CountersHold
<1>1. Spec => [](Typed /\ Ordered /\ Inv)
  BY TypedInit, TypedStep, OrderedInit, OrderedStep, InvInit, InvStep, PTL DEF Spec
<1>2. Spec => []Tables
  BY <1>1, TablesInit, TablesStep, PTL DEF Spec
<1>3. Spec => []Counters
  BY <1>1, <1>2, CountersInit, CountersStep, PTL DEF Spec
<1>4. Counters => CountersHold
  <2> SUFFICES ASSUME Counters, Quiet, Undisturbed
               PROVE  /\ Cardinality(Coupons) <= used /\ used <= UsageLimit
                      /\ Cardinality(AddOns) <= Inventory - stock /\ stock >= 0
    BY DEF CountersHold, Coupons, AddOns
  <2>1. \A s \in Slots : ~Untaken(req[s])
    BY DEF Quiet, Busy, Untaken
  <2> QED
    BY <2>1 DEF Counters
<1> QED
  BY <1>3, <1>4, PTL
=============================================================================
