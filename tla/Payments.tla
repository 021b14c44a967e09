------------------------------ MODULE Payments ------------------------------
(***************************************************************************)
(* Paid orders of one event after checkout: Stripe's webhooks, refunds by  *)
(* the organizer, and the refunds of a cancelled event.  Stripe delivers   *)
(* an event at least once, in any order; every handler is a sequence of    *)
(* database statements and Stripe calls, may overlap others and may die    *)
(* between two of them.  Writes set the status columns and nothing else    *)
(* that changes, so a handler's copies matter only where it decides.       *)
(***************************************************************************)
EXTENDS Naturals, FiniteSets, Sequences

CONSTANTS
    Orders,      \* orders that may be placed, one registration each
    NoOrder,
    Slots,       \* handlers that can be in flight at once
    Capacity,    \* seats of the event; an order takes one
    Quantity,    \* tickets of an order
    Price,       \* what each of them costs
    Partials,    \* amounts an organizer may refund at will
    Intents,     \* whether Stripe names the payment intent at checkout
    MaxCrashes,  \* bound: handlers that die
    Declines,    \* may a card be declined before the session ends?
    Outages      \* may Stripe fail to refund?

ASSUME OrdersAssumption == IsFiniteSet(Orders) /\ NoOrder \notin Orders
ASSUME AmountsAssumption ==
    Quantity \in Nat \ {0} /\ Price \in Nat \ {0} /\ Partials \subseteq Nat \ {0}
ASSUME FlagsAssumption ==
    /\ Intents \subseteq BOOLEAN /\ Declines \in BOOLEAN /\ Outages \in BOOLEAN
    /\ MaxCrashes \in Nat /\ Capacity \in Nat

VARIABLES
    cancelled,  \* the event row: is its status cancelled?
    order,      \* status of each event_order row
    payment,    \* each checkout_payment row
    seat,       \* status of each order's event_registration row
    tickets,    \* issued_ticket rows of each order, their status
    recorded,   \* sum of each order's payment_refund rows
    processed,  \* stripe_webhook_event rows
    stripe,     \* external: session and refunds of each order
    sent,       \* external: the events Stripe has to deliver
    req,        \* the handlers in flight
    crashes

db == <<cancelled, order, payment, seat, tickets, recorded, processed>>
vars == <<db, stripe, sent, req, crashes>>

-----------------------------------------------------------------------------
Total == Quantity * Price

OrderStatuses == {"none", "pending", "paid", "cancelled", "partially_refunded", "refunded"}
PaymentStatuses == {"none", "pending", "paid", "failed", "partially_refunded", "refunded"}
SeatStatuses == {"none", "pending", "confirmed", "cancelled"}

(* intent: is stripePaymentIntentId filled?  It only is at checkout.       *)
Payment == [status: PaymentStatuses, intent: BOOLEAN]

WebhookEvent == [order: Orders, type: {"completed", "expired", "failed"}]

(* An idempotency key of Stripe's refund call: what the code puts in it.   *)
Kinds == {"individual", "partial", "full"}
RefundKey == [kind: Kinds, amount: Nat, ticket: Nat]
Session == [state: {"none", "open", "completed", "expired"},
            keys: SUBSET RefundKey, moved: Nat]

PCs == {"idle", "pay order", "pay payment", "confirm", "list tickets", "issue",
        "cancel order", "fail payment", "release", "record event",
        "void ticket", "stripe", "record refund", "refund order",
        "refund payment", "void tickets", "release refunded", "list orders", "next order"}

(* event is the webhook being handled, key the refund being made, already  *)
(* what was refunded when it was decided, left the (order, status) pairs a *)
(* cancellation listed and has not come to.                                *)
NoEvent == [order |-> NoOrder, type |-> "none"]
NoKey == [kind |-> "full", amount |-> 0, ticket |-> 0]
Req == [pc: PCs, order: Orders \cup {NoOrder}, event: WebhookEvent \cup {NoEvent},
        key: RefundKey, already: Nat, left: SUBSET (Orders \X OrderStatuses),
        cancelling: BOOLEAN]
Idle == [pc |-> "idle", order |-> NoOrder, event |-> NoEvent, key |-> NoKey,
         already |-> 0, left |-> {}, cancelling |-> FALSE]

Init ==
    /\ cancelled = FALSE
    /\ order = [o \in Orders |-> "none"]
    /\ payment = [o \in Orders |-> [status |-> "none", intent |-> FALSE]]
    /\ seat = [o \in Orders |-> "none"]
    /\ tickets = [o \in Orders |-> <<>>]
    /\ recorded = [o \in Orders |-> 0]
    /\ processed = {}
    /\ stripe = [o \in Orders |-> [state |-> "none", keys |-> {}, moved |-> 0]]
    /\ sent = {}
    /\ req = [s \in Slots |-> Idle]
    /\ crashes = 0

-----------------------------------------------------------------------------
(* External: the buyer and Stripe.                                         *)

SeatsTaken == {o \in Orders : seat[o] \in {"pending", "confirmed"}}

(* A checkout that went through: purchase reserved a seat and left a       *)
(* pending order with an open session.  It does not ask whether the event  *)
(* is cancelled.                                                           *)
Purchase(o) ==
    /\ order[o] = "none"
    /\ Cardinality(SeatsTaken) < Capacity
    /\ order' = [order EXCEPT ![o] = "pending"]
    /\ \E i \in Intents :
          payment' = [payment EXCEPT ![o] = [status |-> "pending", intent |-> i]]
    /\ seat' = [seat EXCEPT ![o] = "pending"]
    /\ stripe' = [stripe EXCEPT ![o].state = "open"]
    /\ UNCHANGED <<cancelled, tickets, recorded, processed, sent, req, crashes>>

EndSession(o, state) ==
    /\ stripe[o].state = "open"
    /\ stripe' = [stripe EXCEPT ![o].state = state]
    /\ sent' = sent \cup {[order |-> o, type |-> state]}
    /\ UNCHANGED <<db, req, crashes>>

(* A declined card leaves the session open: the buyer may try another.     *)
(* The event is taken to name the order, as the handler expects it to.     *)
Decline(o) ==
    /\ Declines
    /\ stripe[o].state = "open"
    /\ [order |-> o, type |-> "failed"] \notin sent
    /\ sent' = sent \cup {[order |-> o, type |-> "failed"]}
    /\ UNCHANGED <<db, stripe, req, crashes>>

-----------------------------------------------------------------------------
(* handleStripeWebhook.                                                    *)

Goto(s, pc) == req' = [req EXCEPT ![s].pc = pc]
Finish(s) == req' = [req EXCEPT ![s] = Idle]

SeenNever(e) == FALSE
Seen(e) == e \in processed

(* What the event's type and the order's status call for.                  *)
OutcomeUnlessExpired(e) == IF e.type = "expired" THEN "cancel order" ELSE "pay order"
Outcome(e) ==
    CASE e.type = "completed" -> "pay order"
      [] e.type # "completed" /\ order[e.order] = "pending" -> "cancel order"
      [] OTHER -> "record event"

Handling(s, e) == req' = [req EXCEPT ![s] =
    [Idle EXCEPT !.event = e, !.order = e.order, !.pc = Outcome(e)]]

DeliverRecordingFirst(s, e) ==
    /\ req[s].pc = "idle"
    /\ ~Seen(e)
    /\ Handling(s, e)
    /\ processed' = processed \cup {e}
    /\ UNCHANGED <<cancelled, order, payment, seat, tickets, recorded, stripe, sent, crashes>>
(* The lookups.  The event counts as processed only at the end.            *)
Deliver(s, e) ==
    /\ req[s].pc = "idle"
    /\ ~Seen(e)
    /\ Handling(s, e)
    /\ UNCHANGED <<db, stripe, sent, crashes>>

(* markPaid, whatever the order's status is.                               *)
PayOrder(s) ==
    /\ req[s].pc = "pay order"
    /\ order' = [order EXCEPT ![req[s].order] = "paid"]
    /\ Goto(s, "pay payment")
    /\ UNCHANGED <<cancelled, payment, seat, tickets, recorded, processed, stripe, sent, crashes>>

PayPayment(s) ==
    /\ req[s].pc = "pay payment"
    /\ payment' = [payment EXCEPT ![req[s].order].status = "paid"]
    /\ Goto(s, "confirm")
    /\ UNCHANGED <<cancelled, order, seat, tickets, recorded, processed, stripe, sent, crashes>>

Confirm(s) ==
    /\ req[s].pc = "confirm"
    /\ seat' = [seat EXCEPT ![req[s].order] = "confirmed"]
    /\ Goto(s, "list tickets")
    /\ UNCHANGED <<cancelled, order, payment, tickets, recorded, processed, stripe, sent, crashes>>

(* issueTickets: none if the order has some already.                       *)
HasTicketsNever(o) == FALSE
HasTickets(o) == tickets[o] # <<>>

ListTickets(s) ==
    /\ req[s].pc = "list tickets"
    /\ Goto(s, IF HasTickets(req[s].order) THEN "record event" ELSE "issue")
    /\ UNCHANGED <<db, stripe, sent, crashes>>

Issue(s) ==
    /\ req[s].pc = "issue"
    /\ tickets' = [tickets EXCEPT ![req[s].order] = @ \o [i \in 1 .. Quantity |-> "valid"]]
    /\ Goto(s, "record event")
    /\ UNCHANGED <<cancelled, order, payment, seat, recorded, processed, stripe, sent, crashes>>

(* The last statement: the event counts as processed.                      *)
RecordEvent(s) ==
    /\ req[s].pc = "record event"
    /\ processed' = processed \cup {req[s].event}
    /\ Finish(s)
    /\ UNCHANGED <<cancelled, order, payment, seat, tickets, recorded, stripe, sent, crashes>>

(* markFailed, for a webhook or for the cancellation of the event.         *)
CancelOrder(s) ==
    /\ req[s].pc = "cancel order"
    /\ order' = [order EXCEPT ![req[s].order] = "cancelled"]
    /\ Goto(s, "fail payment")
    /\ UNCHANGED <<cancelled, payment, seat, tickets, recorded, processed, stripe, sent, crashes>>

FailPayment(s) ==
    /\ req[s].pc = "fail payment"
    /\ payment' = [payment EXCEPT ![req[s].order].status = "failed"]
    /\ Goto(s, "release")
    /\ UNCHANGED <<cancelled, order, seat, tickets, recorded, processed, stripe, sent, crashes>>

Release(s) ==
    /\ req[s].pc = "release"
    /\ seat' = [seat EXCEPT ![req[s].order] = "cancelled"]
    /\ Goto(s, IF req[s].cancelling THEN "next order" ELSE "record event")
    /\ UNCHANGED <<cancelled, order, payment, tickets, recorded, processed, stripe, sent, crashes>>

-----------------------------------------------------------------------------
(* refundOrder.                                                            *)

PaidOnly(status) == status = "paid"
HasMoney(status) == status \in {"paid", "partially_refunded"}
Refundable(o) == HasMoney(order[o]) /\ payment[o].intent

(* The checks on the amount; one that fails ends the handler.              *)
AmountUnchecked(o, already, amount) == amount > 0
AmountFits(o, already, amount) == amount > 0 /\ already + amount <= Total

(* What a handler holds once it decided to refund amount of o.             *)
Decided(r, o, kind, amount, ticket, pc) ==
    [r EXCEPT !.pc = pc, !.order = o, !.already = recorded[o],
              !.key = [kind |-> kind, amount |-> amount, ticket |-> ticket]]

RefundAmount(s, o, amount) ==
    /\ req[s].pc = "idle"
    /\ Refundable(o)
    /\ AmountFits(o, recorded[o], amount)
    /\ LET kind == IF amount < Total - recorded[o] THEN "partial" ELSE "full"
       IN  req' = [req EXCEPT ![s] = Decided(@, o, kind, amount, 0, "stripe")]
    /\ UNCHANGED <<db, stripe, sent, crashes>>

RefundRest(s, o) == recorded[o] < Total /\ RefundAmount(s, o, Total - recorded[o])

RefundTicket(s, o, i) ==
    /\ req[s].pc = "idle"
    /\ Refundable(o)
    /\ i \in 1 .. Len(tickets[o])
    /\ tickets[o][i] = "valid"
    /\ req' = [req EXCEPT ![s] = Decided(@, o, "individual", Price, i, "void ticket")]
    /\ UNCHANGED <<db, stripe, sent, crashes>>

(* The ticket is refunded first, the amount checked and Stripe asked next. *)
VoidTicket(s) ==
    /\ req[s].pc = "void ticket"
    /\ LET o == req[s].order IN
         /\ tickets' = [tickets EXCEPT ![o][req[s].key.ticket] = "refunded"]
         /\ IF AmountFits(o, req[s].already, req[s].key.amount)
            THEN Goto(s, "stripe") ELSE Finish(s)
    /\ UNCHANGED <<cancelled, order, payment, seat, recorded, processed, stripe, sent, crashes>>

(* External: Stripe answers a key it knows as it did before, and refunds   *)
(* no more than it captured.                                               *)
AskStripe(s) ==
    /\ req[s].pc = "stripe"
    /\ LET o == req[s].order
           k == req[s].key
       IN  \/ /\ k \in stripe[o].keys
              /\ Goto(s, "record refund")
              /\ UNCHANGED stripe
           \/ /\ k \notin stripe[o].keys
              /\ stripe[o].moved + k.amount <= Total
              /\ stripe' = [stripe EXCEPT ![o] =
                      [stripe[o] EXCEPT !.keys = @ \cup {k}, !.moved = @ + k.amount]]
              /\ Goto(s, "record refund")
           \/ /\ \/ k \notin stripe[o].keys /\ stripe[o].moved + k.amount > Total
                 \/ Outages
              /\ Finish(s)
              /\ UNCHANGED stripe
    /\ UNCHANGED <<db, sent, crashes>>

RecordRefund(s) ==
    /\ req[s].pc = "record refund"
    /\ recorded' = [recorded EXCEPT ![req[s].order] = @ + req[s].key.amount]
    /\ Goto(s, "refund order")
    /\ UNCHANGED <<cancelled, order, payment, seat, tickets, processed, stripe, sent, crashes>>

Fully(r) == r.already + r.key.amount >= Total
RefundedByKind(r) == IF Fully(r) THEN "refunded" ELSE r.key.kind
Refunded(r) == IF Fully(r) THEN "refunded" ELSE "partially_refunded"

RefundOrder(s) ==
    /\ req[s].pc = "refund order"
    /\ order' = [order EXCEPT ![req[s].order] = Refunded(req[s])]
    /\ Goto(s, "refund payment")
    /\ UNCHANGED <<cancelled, payment, seat, tickets, recorded, processed, stripe, sent, crashes>>

(* The end of a refund: back to the cancellation's loop, if it runs in one.*)
EndRefund(s) == IF req[s].cancelling THEN Goto(s, "next order") ELSE Finish(s)

RefundPayment(s) ==
    /\ req[s].pc = "refund payment"
    /\ payment' = [payment EXCEPT ![req[s].order].status = Refunded(req[s])]
    /\ IF Fully(req[s]) THEN Goto(s, "void tickets") ELSE EndRefund(s)
    /\ UNCHANGED <<cancelled, order, seat, tickets, recorded, processed, stripe, sent, crashes>>

(* The loop over the order's tickets, as one step.                         *)
VoidTickets(s) ==
    /\ req[s].pc = "void tickets"
    /\ tickets' = [tickets EXCEPT ![req[s].order] = [i \in DOMAIN @ |-> "refunded"]]
    /\ Goto(s, "release refunded")
    /\ UNCHANGED <<cancelled, order, payment, seat, recorded, processed, stripe, sent, crashes>>

ReleaseRefunded(s) ==
    /\ req[s].pc = "release refunded"
    /\ seat' = [seat EXCEPT ![req[s].order] = "cancelled"]
    /\ EndRefund(s)
    /\ UNCHANGED <<cancelled, order, payment, tickets, recorded, processed, stripe, sent, crashes>>

-----------------------------------------------------------------------------
(* cancelEvent and refundEventCancellation.                                *)

(* The organizer cancels; a cancelled event may be cancelled again.        *)
CancelEvent(s) ==
    /\ req[s].pc = "idle"
    /\ cancelled' = TRUE
    /\ req' = [req EXCEPT ![s].pc = "list orders", ![s].cancelling = TRUE]
    /\ UNCHANGED <<order, payment, seat, tickets, recorded, processed, stripe, sent, crashes>>

ListOrders(s) ==
    /\ req[s].pc = "list orders"
    /\ req' = [req EXCEPT ![s].pc = "next order",
                          ![s].left = {<<o, order[o]>> : o \in Orders}]
    /\ UNCHANGED <<db, stripe, sent, crashes>>

(* Each order by the status it had in the list.  A refund that is refused  *)
(* throws out of the loop.                                                 *)
NextOrder(s) ==
    /\ req[s].pc = "next order"
    /\ \/ /\ req[s].left = {}
          /\ Finish(s)
       \/ \E p \in req[s].left :
             LET o == p[1]
                 r == [req[s] EXCEPT !.left = @ \ {p}]
             IN  \/ /\ p[2] = "pending"
                    /\ req' = [req EXCEPT ![s] = [r EXCEPT !.pc = "cancel order", !.order = o]]
                 \/ /\ HasMoney(p[2])
                    /\ IF Refundable(o) /\ recorded[o] < Total
                       THEN req' = [req EXCEPT ![s] =
                              Decided(r, o, "full", Total - recorded[o], 0, "stripe")]
                       ELSE Finish(s)
                 \/ /\ p[2] # "pending" /\ ~HasMoney(p[2])
                    /\ req' = [req EXCEPT ![s] = r]
    /\ UNCHANGED <<db, stripe, sent, crashes>>

(* The handler's process dies or a statement fails.                        *)
Crash(s) ==
    /\ req[s].pc # "idle"
    /\ crashes < MaxCrashes
    /\ crashes' = crashes + 1
    /\ Finish(s)
    /\ UNCHANGED <<db, stripe, sent>>

-----------------------------------------------------------------------------
Buyer(o) == \/ Purchase(o)
            \/ Decline(o)
            \/ \E state \in {"completed", "expired"} : EndSession(o, state)

Organizer(s) ==
    \/ \E o \in Orders : \/ \E a \in Partials : RefundAmount(s, o, a)
                         \/ RefundRest(s, o)
                         \/ \E i \in 1 .. Len(tickets[o]) : RefundTicket(s, o, i)
    \/ CancelEvent(s)

Webhook(s) == \E e \in sent : Deliver(s, e)

Step(s) ==
    \/ PayOrder(s) \/ PayPayment(s) \/ Confirm(s) \/ ListTickets(s) \/ Issue(s)
    \/ RecordEvent(s) \/ CancelOrder(s) \/ FailPayment(s) \/ Release(s)
    \/ VoidTicket(s) \/ AskStripe(s) \/ RecordRefund(s) \/ RefundOrder(s)
    \/ RefundPayment(s) \/ VoidTickets(s) \/ ReleaseRefunded(s)
    \/ ListOrders(s) \/ NextOrder(s)

Next ==
    \/ \E o \in Orders : Buyer(o)
    \/ \E s \in Slots : Organizer(s) \/ Webhook(s) \/ Step(s) \/ Crash(s)

Spec == Init /\ [][Next]_vars

(* A handler that started runs on unless it dies; Stripe repeats an event  *)
(* until it is acknowledged, however busy the server is.                   *)
FairSpec ==
    /\ Spec
    /\ \A s \in Slots : WF_vars(Step(s))
    /\ \A e \in WebhookEvent : SF_vars(e \in sent /\ \E s \in Slots : Deliver(s, e))
-----------------------------------------------------------------------------
(* Properties.                                                             *)

Quiet == \A s \in Slots : req[s].pc = "idle"
Captured(o) == stripe[o].state = "completed"

(* Type correctness of rows, copies and Stripe's records.                  *)
TypeOK ==
    /\ cancelled \in BOOLEAN
    /\ order \in [Orders -> OrderStatuses]
    /\ payment \in [Orders -> Payment]
    /\ seat \in [Orders -> SeatStatuses]
    /\ tickets \in [Orders -> Seq({"valid", "refunded"})]
    /\ recorded \in [Orders -> Nat]
    /\ processed \subseteq WebhookEvent
    /\ stripe \in [Orders -> Session]
    /\ sent \subseteq WebhookEvent
    /\ req \in [Slots -> Req]
    /\ crashes \in Nat

(* No ticket, no confirmed seat and no refund without money at Stripe,     *)
(* whatever overlaps, is delivered twice or dies.                          *)
NothingForFree == \A o \in Orders :
    (tickets[o] # <<>> \/ seat[o] = "confirmed" \/ recorded[o] > 0) => Captured(o)

(* Handlers that do not overlap issue an order's tickets once, however     *)
(* often Stripe delivers the event and wherever a delivery dies.           *)
TicketsIssuedOnce == \A o \in Orders : Len(tickets[o]) \in {0, Quantity}

(* Handlers that do not overlap and do not die leave an order's rows in    *)
(* agreement: the refunds recorded, the order's status and its payment's,  *)
(* the tickets and the seat.                                               *)
RowsAgree == Quiet /\ crashes = 0 => \A o \in Orders :
    /\ order[o] = "refunded" <=> recorded[o] = Total
    /\ order[o] = "partially_refunded" <=> recorded[o] \in 1 .. Total - 1
    /\ order[o] \in {"paid", "partially_refunded"} <=> seat[o] = "confirmed"
    /\ order[o] \in {"cancelled", "refunded"} <=> seat[o] = "cancelled"
    /\ order[o] = "cancelled" <=> payment[o].status = "failed"
    /\ order[o] \in OrderStatuses \ {"cancelled"} => payment[o].status = order[o]
    /\ order[o] = "refunded" => \A i \in DOMAIN tickets[o] : tickets[o][i] = "refunded"

(* "refunds and emails buyers when a paid event is cancelled": once a      *)
(* cancellation has come through its list, with no other handler beside    *)
(* it, no order is left paid.  A refund that fails ends it earlier.        *)
Through(s) == req[s].cancelling /\ req[s].pc = "next order" /\ req[s].left = {}
CancellationRefunds == \A s \in Slots : Through(s) =>
    \A o \in Orders : order[o] \notin {"paid", "partially_refunded"}

(* Handlers that do not overlap never record more refunds than the order's *)
(* total, crashes between Stripe's refund and its row included.            *)
RecordedWithinTotal == \A o \in Orders : recorded[o] <= Total

(* With handlers that do not overlap: who paid gets the tickets, though    *)
(* deliveries die.                                                         *)
PaymentIsHonoured == \A o \in Orders : Captured(o) ~> tickets[o] # <<>>

(* "A ... refund of ... was issued": the refunds recorded and announced    *)
(* are backed by money that Stripe moved.                                  *)
RefundsAreBacked == \A o \in Orders : recorded[o] <= stripe[o].moved
=============================================================================
