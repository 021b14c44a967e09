------------------------------ MODULE Checkout ------------------------------
(***************************************************************************)
(* The checkout of one event.  purchase quotes a cart, reserves the seats  *)
(* under the event's row lock, asks Stripe for a session and writes order, *)
(* payment, counters and registration one after the other; each await is a *)
(* step of its own.  Stripe's webhooks and the account settings change the *)
(* same tables meanwhile.  An email address has one registration row of an *)
(* event at most, so a buyer has one order at most.                        *)
(***************************************************************************)
EXTENDS Integers, FiniteSets

CONSTANTS
    Buyers,        \* email addresses
    NoBuyer,
    Slots,         \* purchases that can be in flight at once
    Types,         \* ticket types
    Carts,         \* what may be bought, one ticket of each type it names
    Capacity,      \* seats of the event
    TypeCapacity,  \* tickets of each type
    UsageLimit,    \* of the coupon
    Inventory,     \* of the add-on
    MaxCalls,      \* bound: purchases begun
    MaxFaults      \* bound: purchases that die

Cart == [types: SUBSET Types, coupon: BOOLEAN, addOn: BOOLEAN, free: BOOLEAN]

ASSUME BuyersAssumption == IsFiniteSet(Buyers) /\ NoBuyer \notin Buyers
ASSUME CartsAssumption ==
    /\ IsFiniteSet(Types) /\ Carts \subseteq Cart
    /\ \A cart \in Carts : cart.types # {}
ASSUME LimitsAssumption ==
    /\ Capacity \in Nat /\ TypeCapacity \in Nat
    /\ UsageLimit \in Nat /\ Inventory \in Nat
    /\ MaxCalls \in Nat /\ MaxFaults \in Nat

VARIABLES
    seat,        \* each buyer's event_registration row
    order,       \* status of each buyer's event_order row
    payment,     \* status of each order's checkout_payment row
    tickets,     \* how many times tickets were issued for each order
    used,        \* usedCount of the event_coupon row
    stock,       \* inventory of the event_add_on row
    connected,   \* may the organizer's Stripe account charge?
    session,     \* external: the Stripe session of each buyer's order
    sessions,    \* external: how many sessions each buyer was given
    url,         \* external: buyers who were sent to their session
    req,         \* purchases in flight
    overlapped,  \* history: a purchase met another purchase, a webhook or a setting
    refused,     \* history: buyers whose purchase met an account that may not charge
    early,       \* history: has a webhook met the purchase it is about?
    calls, faults

tables == <<seat, order, payment, tickets, used, stock, connected>>
stripe == <<session, sessions, url>>
history == <<overlapped, refused, early>>
bounds == <<calls, faults>>
vars == <<tables, stripe, req, history, bounds>>

-----------------------------------------------------------------------------
Seat == [status: {"none", "pending", "confirmed", "cancelled"},
         types: SUBSET Types, coupon: BOOLEAN, addOn: BOOLEAN]
NoSeat == [status |-> "none", types |-> {}, coupon |-> FALSE, addOn |-> FALSE]

OrderStatuses == {"none", "pending", "paid", "cancelled"}
PaymentStatuses == {"none", "pending", "paid", "failed"}
SessionStates == {"none", "open", "paid", "settled", "expired"}

PCs == {"idle", "quote", "find", "reserve", "coupon", "account", "ask", "release",
        "order", "payment", "add-on", "save", "issue"}

(* count and left are the coupon's and the add-on's counters as quoted.    *)
NoCart == [types |-> {}, coupon |-> FALSE, addOn |-> FALSE, free |-> FALSE]
Req == [pc: PCs, buyer: Buyers \cup {NoBuyer}, cart: Carts \cup {NoCart},
        count: Int, left: Int]
Idle == [pc |-> "idle", buyer |-> NoBuyer, cart |-> NoCart, count |-> 0, left |-> 0]

Init ==
    /\ seat = [b \in Buyers |-> NoSeat]
    /\ order = [b \in Buyers |-> "none"]
    /\ payment = [b \in Buyers |-> "none"]
    /\ tickets = [b \in Buyers |-> 0]
    /\ used = 0 /\ stock = Inventory
    /\ connected = TRUE
    /\ session = [b \in Buyers |-> "none"]
    /\ sessions = [b \in Buyers |-> 0]
    /\ url = {}
    /\ req = [s \in Slots |-> Idle]
    /\ overlapped = FALSE /\ refused = {} /\ early = FALSE
    /\ calls = 0 /\ faults = 0

Busy == \E s \in Slots : req[s].pc # "idle"
Meet(busy) == overlapped' = (overlapped \/ busy)
Ongoing(b) == \E s \in Slots : req[s].buyer = b

Goto(s, pc) == req' = [req EXCEPT ![s].pc = pc]
Finish(s) == req' = [req EXCEPT ![s] = Idle]

-----------------------------------------------------------------------------
(* purchase.                                                               *)

Purchase(s, b, cart) ==
    /\ req[s].pc = "idle"
    /\ calls < MaxCalls /\ calls' = calls + 1
    /\ req' = [req EXCEPT ![s] = [Idle EXCEPT !.pc = "quote", !.buyer = b, !.cart = cart]]
    /\ Meet(Busy)
    /\ UNCHANGED <<tables, stripe, refused, early, faults>>

(* quote and applyCoupon refuse a coupon that is used up and an add-on     *)
(* that is sold out, and keep what they read.                              *)
QuoteLate(s) ==
    /\ req[s].pc = "quote"
    /\ LET cart == req[s].cart
       IN  IF (cart.coupon /\ used > UsageLimit) \/ (cart.addOn /\ stock < 1)
           THEN Finish(s)
           ELSE req' = [req EXCEPT ![s].pc = "find", ![s].count = used, ![s].left = stock]
    /\ UNCHANGED <<tables, stripe, history, bounds>>
Quote(s) ==
    /\ req[s].pc = "quote"
    /\ LET cart == req[s].cart
       IN  IF (cart.coupon /\ used >= UsageLimit) \/ (cart.addOn /\ stock < 1)
           THEN Finish(s)
           ELSE req' = [req EXCEPT ![s].pc = "find", ![s].count = used, ![s].left = stock]
    /\ UNCHANGED <<tables, stripe, history, bounds>>

(* The idempotency key names the email address and the cart.  A purchase   *)
(* that left a pending or paid order is answered with it and with the      *)
(* session of its payment; otherwise the purchase goes on, with a new key. *)
SameCart(s) ==
    LET row == seat[req[s].buyer]
        cart == req[s].cart
    IN  row.types = cart.types /\ row.coupon = cart.coupon /\ row.addOn = cart.addOn

FindOrder(s) ==
    LET b == req[s].buyer
    IN  /\ req[s].pc = "find"
        /\ IF order[b] \in {"pending", "paid"} /\ SameCart(s)
           THEN /\ Finish(s)
                /\ url' = IF payment[b] # "none" /\ ~req[s].cart.free THEN url \cup {b} ELSE url
           ELSE Goto(s, "reserve") /\ UNCHANGED url
        /\ UNCHANGED <<tables, session, sessions, history, bounds>>

(* createIfCapacity counts the seats of the active rows.  A row of several *)
(* types has no ticketTypeId, and counts for none of them.                 *)
Active == {b \in Buyers : seat[b].status \in {"pending", "confirmed"}}
SeatsOf(taken) == Cardinality({p \in taken \X Types : p[2] \in seat[p[1]].types})
OfType(t) == Cardinality({b \in Active : seat[b].types = {t}})

FitsUnlessFull(types) ==
    /\ SeatsOf(Active) < Capacity
    /\ \A t \in types : OfType(t) + 1 <= TypeCapacity
Fits(types) ==
    /\ SeatsOf(Active) + Cardinality(types) <= Capacity
    /\ \A t \in types : OfType(t) + 1 <= TypeCapacity

(* The unique index refuses a second row of the address, whatever became   *)
(* of the first.                                                           *)
ReserveAgain(s) ==
    LET b == req[s].buyer
        cart == req[s].cart
    IN  /\ req[s].pc = "reserve"
        /\ IF Fits(cart.types)
           THEN /\ seat' = [seat EXCEPT ![b] =
                      [status |-> IF cart.free THEN "confirmed" ELSE "pending",
                       types |-> cart.types, coupon |-> cart.coupon, addOn |-> cart.addOn]]
                /\ Goto(s, IF cart.coupon THEN "coupon" ELSE IF cart.free THEN "order" ELSE "account")
           ELSE Finish(s) /\ UNCHANGED seat
        /\ UNCHANGED <<order, payment, tickets, used, stock, connected, stripe, history, bounds>>
Reserve(s) ==
    LET b == req[s].buyer
        cart == req[s].cart
    IN  /\ req[s].pc = "reserve"
        /\ IF Fits(cart.types) /\ seat[b].status = "none"
           THEN /\ seat' = [seat EXCEPT ![b] =
                      [status |-> IF cart.free THEN "confirmed" ELSE "pending",
                       types |-> cart.types, coupon |-> cart.coupon, addOn |-> cart.addOn]]
                /\ Goto(s, IF cart.coupon THEN "coupon" ELSE IF cart.free THEN "order" ELSE "account")
           ELSE Finish(s) /\ UNCHANGED seat
        /\ UNCHANGED <<order, payment, tickets, used, stock, connected, stripe, history, bounds>>

CountCoupon(s) ==
    /\ req[s].pc = "coupon"
    /\ used' = req[s].count + 1
    /\ Goto(s, IF req[s].cart.free THEN "order" ELSE "account")
    /\ UNCHANGED <<seat, order, payment, tickets, stock, connected, stripe, history, bounds>>

(* requireConnectedAccount throws outside the try: the seat stays taken.   *)
RequireAccount(s) ==
    /\ req[s].pc = "account"
    /\ IF connected THEN Goto(s, "ask") /\ UNCHANGED refused
       ELSE Finish(s) /\ refused' = refused \cup {req[s].buyer}
    /\ UNCHANGED <<tables, stripe, overlapped, early, bounds>>

(* Stripe opens a session, refuses, or opens one and its answer is lost,   *)
(* which purchase takes for a refusal.                                     *)
AskStripeOnce(s) ==
    LET b == req[s].buyer
    IN  /\ req[s].pc = "ask"
        /\ \/ /\ session' = [session EXCEPT ![b] = "open"]
              /\ sessions' = [sessions EXCEPT ![b] = @ + 1]
              /\ Goto(s, "order")
           \/ Finish(s) /\ UNCHANGED <<session, sessions>>
        /\ UNCHANGED <<tables, url, history, bounds>>
AskStripe(s) ==
    LET b == req[s].buyer
    IN  /\ req[s].pc = "ask"
        /\ \/ /\ session' = [session EXCEPT ![b] = "open"]
              /\ sessions' = [sessions EXCEPT ![b] = @ + 1]
              /\ Goto(s, "order")
           \/ /\ session' = [session EXCEPT ![b] = "open"]
              /\ sessions' = [sessions EXCEPT ![b] = @ + 1]
              /\ Goto(s, "release")
           \/ Goto(s, "release") /\ UNCHANGED <<session, sessions>>
        /\ UNCHANGED <<tables, url, history, bounds>>

Release(s) ==
    /\ req[s].pc = "release"
    /\ seat' = [seat EXCEPT ![req[s].buyer].status = "cancelled"]
    /\ Finish(s)
    /\ UNCHANGED <<order, payment, tickets, used, stock, connected, stripe, history, bounds>>

CreateOrder(s) ==
    /\ req[s].pc = "order"
    /\ order' = [order EXCEPT ![req[s].buyer] = IF req[s].cart.free THEN "paid" ELSE "pending"]
    /\ Goto(s, "payment")
    /\ UNCHANGED <<seat, payment, tickets, used, stock, connected, stripe, history, bounds>>

CreatePayment(s) ==
    /\ req[s].pc = "payment"
    /\ payment' = [payment EXCEPT ![req[s].buyer] = IF req[s].cart.free THEN "paid" ELSE "pending"]
    /\ Goto(s, IF req[s].cart.addOn THEN "add-on" ELSE "save")
    /\ UNCHANGED <<seat, order, tickets, used, stock, connected, stripe, history, bounds>>

TakeAddOn(s) ==
    /\ req[s].pc = "add-on"
    /\ stock' = req[s].left - 1
    /\ Goto(s, "save")
    /\ UNCHANGED <<seat, order, payment, tickets, used, connected, stripe, history, bounds>>

(* The row is saved as it was when it was reserved, and the buyer is sent  *)
(* to the session.  Tickets of a free order are issued at once.            *)
SaveSeat(s) ==
    LET b == req[s].buyer
        free == req[s].cart.free
    IN  /\ req[s].pc = "save"
        /\ seat' = [seat EXCEPT ![b].status = IF free THEN "confirmed" ELSE "pending"]
        /\ url' = IF free THEN url ELSE url \cup {b}
        /\ IF free THEN Goto(s, "issue") ELSE Finish(s)
        /\ UNCHANGED <<order, payment, tickets, used, stock, connected, session, sessions,
                       history, bounds>>

(* issueTickets, unless the order has tickets.                             *)
Issued(b) == [tickets EXCEPT ![b] = IF @ = 0 THEN 1 ELSE @]

IssueTickets(s) ==
    /\ req[s].pc = "issue"
    /\ tickets' = Issued(req[s].buyer)
    /\ Finish(s)
    /\ UNCHANGED <<seat, order, payment, used, stock, connected, stripe, history, bounds>>

(* A purchase dies between two statements, or one of them fails.           *)
Fault(s) ==
    /\ req[s].pc # "idle"
    /\ faults < MaxFaults
    /\ faults' = faults + 1
    /\ Finish(s)
    /\ UNCHANGED <<tables, stripe, history, calls>>

-----------------------------------------------------------------------------
(* Stripe's webhooks, each handled as a whole (Payments takes them apart), *)
(* and what happens at Stripe.                                             *)

Pay(b) ==
    /\ b \in url /\ session[b] = "open"
    /\ session' = [session EXCEPT ![b] = "paid"]
    /\ UNCHANGED <<tables, sessions, url, req, history, bounds>>

(* checkout.session.completed and markPaid.                                *)
Completed(b) ==
    /\ session[b] = "paid"
    /\ session' = [session EXCEPT ![b] = "settled"]
    /\ IF payment[b] # "none"
       THEN /\ order' = [order EXCEPT ![b] = "paid"]
            /\ payment' = [payment EXCEPT ![b] = "paid"]
            /\ seat' = [seat EXCEPT ![b].status = "confirmed"]
            /\ tickets' = Issued(b)
       ELSE UNCHANGED <<order, payment, seat, tickets>>
    /\ Meet(Busy) /\ early' = (early \/ Ongoing(b))
    /\ UNCHANGED <<used, stock, connected, sessions, url, req, refused, bounds>>

(* checkout.session.expired or payment_intent.payment_failed, and          *)
(* markFailed: an order without a payment row is found by its own id.      *)
ExpiredAlike(b) ==
    /\ session[b] = "open"
    /\ session' = [session EXCEPT ![b] = "expired"]
    /\ IF order[b] = "pending"
       THEN /\ order' = [order EXCEPT ![b] = "cancelled"]
            /\ payment' = [payment EXCEPT ![b] = IF @ = "none" THEN @ ELSE "cancelled"]
            /\ seat' = [seat EXCEPT ![b].status = "cancelled"]
       ELSE UNCHANGED <<order, payment, seat>>
    /\ Meet(Busy) /\ early' = (early \/ Ongoing(b))
    /\ UNCHANGED <<tickets, used, stock, connected, sessions, url, req, refused, bounds>>
ExpiredSeated(b) ==
    /\ session[b] = "open"
    /\ session' = [session EXCEPT ![b] = "expired"]
    /\ IF order[b] = "pending"
       THEN /\ order' = [order EXCEPT ![b] = "cancelled"]
            /\ payment' = [payment EXCEPT ![b] = IF @ = "none" THEN @ ELSE "failed"]
       ELSE UNCHANGED <<order, payment>>
    /\ Meet(Busy) /\ early' = (early \/ Ongoing(b))
    /\ UNCHANGED <<seat, tickets, used, stock, connected, sessions, url, req, refused, bounds>>
Expired(b) ==
    /\ session[b] = "open"
    /\ session' = [session EXCEPT ![b] = "expired"]
    /\ IF order[b] = "pending"
       THEN /\ order' = [order EXCEPT ![b] = "cancelled"]
            /\ payment' = [payment EXCEPT ![b] = IF @ = "none" THEN @ ELSE "failed"]
            /\ seat' = [seat EXCEPT ![b].status = "cancelled"]
       ELSE UNCHANGED <<order, payment, seat>>
    /\ Meet(Busy) /\ early' = (early \/ Ongoing(b))
    /\ UNCHANGED <<tickets, used, stock, connected, sessions, url, req, refused, bounds>>

(* account.updated.                                                        *)
AccountUpdated ==
    /\ connected' = ~connected
    /\ Meet(Busy)
    /\ UNCHANGED <<seat, order, payment, tickets, used, stock, stripe, req, refused, early, bounds>>

-----------------------------------------------------------------------------
Step(s) ==
    \/ Quote(s) \/ FindOrder(s) \/ Reserve(s) \/ CountCoupon(s) \/ RequireAccount(s)
    \/ AskStripe(s) \/ Release(s) \/ CreateOrder(s) \/ CreatePayment(s) \/ TakeAddOn(s)
    \/ SaveSeat(s) \/ IssueTickets(s)

Next ==
    \/ \E s \in Slots, b \in Buyers, cart \in Carts : Purchase(s, b, cart)
    \/ \E s \in Slots : Step(s) \/ Fault(s)
    \/ \E b \in Buyers : Pay(b) \/ Completed(b) \/ Expired(b)
    \/ AccountUpdated

Spec == Init /\ [][Next]_vars

(* A purchase goes on, and Stripe ends a session and delivers its event.   *)
FairSpec ==
    /\ Spec
    /\ \A s \in Slots : WF_vars(Step(s))
    /\ \A b \in Buyers : WF_vars(Completed(b)) /\ WF_vars(Expired(b))
-----------------------------------------------------------------------------
(* Properties.                                                             *)

(* Type correctness of the tables, the sessions and the purchases.         *)
TypeOK ==
    /\ seat \in [Buyers -> Seat] /\ order \in [Buyers -> OrderStatuses]
    /\ payment \in [Buyers -> PaymentStatuses] /\ tickets \in [Buyers -> Nat]
    /\ used \in Int /\ stock \in Int /\ connected \in BOOLEAN
    /\ session \in [Buyers -> SessionStates] /\ sessions \in [Buyers -> Nat]
    /\ url \subseteq Buyers /\ req \in [Slots -> Req]
    /\ overlapped \in BOOLEAN /\ refused \subseteq Buyers /\ early \in BOOLEAN
    /\ calls \in Nat /\ faults \in Nat

(* However purchases repeat, overlap and die, an address is given one      *)
(* session of Stripe to pay for: two that pass the idempotency key         *)
(* together meet the unique index before Stripe is asked.                  *)
ChargedOnce == \A b \in Buyers : sessions[b] <= 1

(* ... and the seats of all active rows are within the capacity, unless    *)
(* the webhook of a declined card met the purchase it is about: the last   *)
(* statement of purchase takes the seat again that the webhook gave back.  *)
SeatsWithinCapacity == early \/ SeatsOf(Active) <= Capacity

Quiet == ~Busy
Undisturbed == ~overlapped /\ faults = 0

(* Purchases in turn that do not die keep the counters: the orders that    *)
(* are not cancelled use the coupon and take the add-on as often as they   *)
(* may, although failed purchases keep what they counted.                  *)
Standing == {b \in Buyers : order[b] \in {"pending", "paid"}}
CountersHold == Quiet /\ Undisturbed =>
    /\ Cardinality({b \in Standing : seat[b].coupon}) <= used /\ used <= UsageLimit
    /\ Cardinality({b \in Standing : seat[b].addOn}) <= Inventory - stock /\ stock >= 0

(* The tables agree: a seat that is taken belongs to an order, unless its  *)
(* purchase met an account that may not charge, and an order that is paid  *)
(* has its seat and its tickets.                                           *)
TablesAgree == Quiet /\ Undisturbed => \A b \in Buyers :
    /\ b \in Active => b \in Standing \cup refused
    /\ order[b] = "paid" => seat[b].status = "confirmed" /\ tickets[b] = 1

(* A seat that waits for a payment is sold or given back in the end.       *)
SeatsSettle == \A b \in Buyers :
    seat[b].status = "pending" ~>
        seat[b].status \in {"confirmed", "cancelled"} \/ ~Undisturbed \/ b \in refused

(* What a test says of ticket types: no more tickets of a type are out     *)
(* than the type has.  Orders of several types break it.                   *)
TypesWithinCapacity == \A t \in Types :
    Cardinality({b \in Active : t \in seat[b].types}) <= TypeCapacity
=============================================================================
