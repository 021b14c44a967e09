--------------------------- MODULE PaymentsProofs ---------------------------
(***************************************************************************)
(* Types of Payments; that nothing is given without captured money, for    *)
(* any orders, handlers in flight, prices, crashes and redeliveries; and,  *)
(* for handlers that take turns, what they leave in the rows.              *)
(***************************************************************************)
EXTENDS Payments, SequenceTheorems, TLAPS

-----------------------------------------------------------------------------
(* Types.                                                                  *)

TicketStatuses == {"valid", "refunded"}

(* The total of an order is an amount.                                     *)
LEMMA TotalType == Total \in Nat /\ Price \in Nat /\ Quantity \in Nat
BY AmountsAssumption DEF Total

(* The blank handler has its type.                                         *)
LEMMA IdleType == Idle \in Req
BY DEF Idle, Req, PCs, NoEvent, NoKey, RefundKey, Kinds

(* A handler that goes on or ends keeps its type.                          *)
LEMMA MoveType ==
    ASSUME NEW s \in Slots, req \in [Slots -> Req],
           Finish(s) \/ \E pc \in PCs : Goto(s, pc)
    PROVE  req' \in [Slots -> Req]
<1>1. CASE Finish(s)
  BY <1>1, IdleType DEF Finish
<1>2. ASSUME NEW pc \in PCs, Goto(s, pc) PROVE req' \in [Slots -> Req]
  BY <1>2 DEF Goto, Req
<1> QED
  BY <1>1, <1>2

(* An order with new tickets has tickets.                                  *)
LEMMA IssueType ==
    ASSUME NEW t \in Seq(TicketStatuses)
    PROVE  t \o [i \in 1 .. Quantity |-> "valid"] \in Seq(TicketStatuses)
<1>1. [i \in 1 .. Quantity |-> "valid"] \in Seq(TicketStatuses)
  BY TotalType, SeqDef DEF TicketStatuses
<1> QED
  BY <1>1, ConcatProperties

(* A ticket refunded.                                                      *)
LEMMA VoidOneType ==
    ASSUME NEW t \in Seq(TicketStatuses), NEW i \in Nat
    PROVE  [t EXCEPT ![i] = "refunded"] \in Seq(TicketStatuses)
<1>1. PICK n \in Nat : t \in [1 .. n -> TicketStatuses]
  BY SeqDef
<1>2. [t EXCEPT ![i] = "refunded"] \in [1 .. n -> TicketStatuses]
  BY <1>1 DEF TicketStatuses
<1> QED
  BY <1>2, SeqDef

(* All of an order's tickets refunded.                                     *)
LEMMA VoidAllType ==
    ASSUME NEW t \in Seq(TicketStatuses)
    PROVE  [i \in DOMAIN t |-> "refunded"] \in Seq(TicketStatuses)
<1>1. PICK n \in Nat : t \in [1 .. n -> TicketStatuses]
  BY SeqDef
<1>2. [i \in DOMAIN t |-> "refunded"] \in [1 .. n -> TicketStatuses]
  BY <1>1 DEF TicketStatuses
<1> QED
  BY <1>2, SeqDef

(* Which handlers answer a webhook: they hold an event that Stripe sent.   *)
Answers == {"pay order", "pay payment", "confirm", "list tickets", "issue", "record event"}
Fails == {"cancel order", "fail payment", "release"}
Loops == {"list orders", "next order"}
Answering(r) == r.pc \in Answers \/ (r.pc \in Fails /\ ~r.cancelling)

Events == \A s \in Slots : /\ Answering(req[s]) => req[s].event \in sent
                           /\ req[s].pc \in Loops => req[s].cancelling

(* A decided refund is a handler's record.                                 *)
LEMMA DecidedType ==
    ASSUME NEW r \in Req, NEW o \in Orders, NEW kind \in Kinds, NEW amount \in Nat,
           NEW ticket \in Nat, NEW pc \in PCs, recorded[o] \in Nat
    PROVE  Decided(r, o, kind, amount, ticket, pc) \in Req
BY DEF Decided, Req, RefundKey

-----------------------------------------------------------------------------
(* The initial state has the types.                                        *)
LEMMA InitType == Init => TypeOK
<1> SUFFICES ASSUME Init PROVE TypeOK
  OBVIOUS
<1>1. req \in [Slots -> Req]
  BY IdleType DEF Init
<1>2. tickets \in [Orders -> Seq({"valid", "refunded"})]
  BY DEF Init
<1>3. stripe \in [Orders -> Session]
  BY DEF Init, Session
<1>4. payment \in [Orders -> Payment]
  BY DEF Init, Payment, PaymentStatuses
<1> QED
  BY <1>1, <1>2, <1>3, <1>4 DEF Init, TypeOK, OrderStatuses, SeatStatuses

(* Each action keeps the types: what a buyer and Stripe do.                *)
LEMMA BuyerType == ASSUME TypeOK, NEW o \in Orders, Buyer(o) PROVE TypeOK'
<1> USE DEF TypeOK
<1>1. CASE Purchase(o)
  <2>1. payment' \in [Orders -> Payment]
    <3>1. PICK i \in Intents : payment' = [payment EXCEPT ![o] = [status |-> "pending", intent |-> i]]
      BY <1>1 DEF Purchase
    <3>2. [status |-> "pending", intent |-> i] \in Payment
      BY FlagsAssumption DEF Payment, PaymentStatuses
    <3> QED
      BY <3>1, <3>2
  <2>2. stripe' \in [Orders -> Session]
    <3>1. stripe' = [stripe EXCEPT ![o] = [stripe[o] EXCEPT !.state = "open"]]
      BY <1>1 DEF Purchase
    <3>2. [stripe[o] EXCEPT !.state = "open"] \in Session
      BY DEF Session
    <3> QED
      BY <3>1, <3>2
  <2>3. order' \in [Orders -> OrderStatuses] /\ seat' \in [Orders -> SeatStatuses]
    BY <1>1 DEF Purchase, OrderStatuses, SeatStatuses
  <2> QED
    BY <1>1, <2>1, <2>2, <2>3 DEF Purchase
<1>2. CASE Decline(o)
  <2>1. sent' \subseteq WebhookEvent
    BY <1>2 DEF Decline, WebhookEvent
  <2> QED
    BY <1>2, <2>1 DEF Decline, db
<1>3. ASSUME NEW state \in {"completed", "expired"}, EndSession(o, state) PROVE TypeOK'
  <2>1. sent' \subseteq WebhookEvent
    BY <1>3 DEF EndSession, WebhookEvent
  <2>2. stripe' \in [Orders -> Session]
    BY <1>3 DEF EndSession, Session
  <2> QED
    BY <1>3, <2>1, <2>2 DEF EndSession, db
<1> QED
  BY <1>1, <1>2, <1>3 DEF Buyer

(* What starts a handler.                                                  *)
LEMMA StartType ==
    ASSUME TypeOK, NEW s \in Slots, Organizer(s) \/ Webhook(s) PROVE TypeOK'
<1> USE DEF TypeOK
<1>1. ASSUME NEW o \in Orders, NEW a \in Nat, RefundAmount(s, o, a) PROVE TypeOK'
  <2> DEFINE kind == IF a < Total - recorded[o] THEN "partial" ELSE "full"
  <2>1. Decided(req[s], o, kind, a, 0, "stripe") \in Req
    BY DecidedType DEF Kinds, PCs
  <2>2. req' \in [Slots -> Req]
    BY <1>1, <2>1 DEF RefundAmount
  <2> QED
    BY <1>1, <2>2 DEF RefundAmount, db
<1>2. ASSUME NEW o \in Orders, NEW a \in Partials, RefundAmount(s, o, a) PROVE TypeOK'
  BY <1>1, <1>2, AmountsAssumption
<1>3. ASSUME NEW o \in Orders, RefundRest(s, o) PROVE TypeOK'
  <2>1. Total - recorded[o] \in Nat
    BY <1>3, TotalType DEF RefundRest
  <2> QED
    BY <1>1, <1>3, <2>1 DEF RefundRest
<1>4. ASSUME NEW o \in Orders, NEW i \in 1 .. Len(tickets[o]), RefundTicket(s, o, i)
      PROVE TypeOK'
  <2>1. i \in Nat
    OBVIOUS
  <2>2. Decided(req[s], o, "individual", Price, i, "void ticket") \in Req
    BY <2>1, DecidedType, TotalType DEF Kinds, PCs
  <2>3. req' \in [Slots -> Req]
    BY <1>4, <2>2 DEF RefundTicket
  <2> QED
    BY <1>4, <2>3 DEF RefundTicket, db
<1>5. CASE CancelEvent(s)
  <2> DEFINE r == [req[s] EXCEPT !.pc = "list orders", !.cancelling = TRUE]
  <2>0. r \in Req
    <3>1. req[s] \in Req
      OBVIOUS
    <3> QED
      BY <3>1 DEF Req, PCs
  <2>1. req' \in [Slots -> Req]
    BY <1>5, <2>0 DEF CancelEvent
  <2> QED
    BY <1>5, <2>1 DEF CancelEvent
<1>6. ASSUME NEW e \in sent, Deliver(s, e) PROVE TypeOK'
  <2>1. e \in WebhookEvent /\ e.order \in Orders
    BY DEF WebhookEvent
  <2>2. Outcome(e) \in PCs
    BY DEF Outcome, PCs
  <2>3. [Idle EXCEPT !.event = e, !.order = e.order, !.pc = Outcome(e)] \in Req
    BY <2>1, <2>2, IdleType DEF Req
  <2>4. req' \in [Slots -> Req]
    BY <1>6, <2>3 DEF Deliver, Handling
  <2> QED
    BY <1>6, <2>4 DEF Deliver, db
<1> QED
  BY <1>2, <1>3, <1>4, <1>5, <1>6 DEF Organizer, Webhook

-----------------------------------------------------------------------------
(* The statements of markPaid, issueTickets and markFailed.                *)
LEMMA WebhookStepType ==
    ASSUME TypeOK, Events, NEW s \in Slots,
           \/ PayOrder(s) \/ PayPayment(s) \/ Confirm(s) \/ ListTickets(s) \/ Issue(s)
           \/ RecordEvent(s) \/ CancelOrder(s) \/ FailPayment(s) \/ Release(s)
    PROVE  TypeOK'
<1> USE DEF TypeOK
<1>1. CASE PayOrder(s)
  <2>1. req' \in [Slots -> Req]
    BY <1>1, MoveType DEF PayOrder, PCs
  <2> QED
    BY <1>1, <2>1 DEF PayOrder, OrderStatuses
<1>2. CASE PayPayment(s)
  <2>1. req' \in [Slots -> Req]
    BY <1>2, MoveType DEF PayPayment, PCs
  <2>2. payment' \in [Orders -> Payment]
    BY <1>2 DEF PayPayment, Payment, PaymentStatuses
  <2> QED
    BY <1>2, <2>1, <2>2 DEF PayPayment
<1>3. CASE Confirm(s)
  <2>1. req' \in [Slots -> Req]
    BY <1>3, MoveType DEF Confirm, PCs
  <2> QED
    BY <1>3, <2>1 DEF Confirm, SeatStatuses
<1>4. CASE ListTickets(s)
  <2>1. req' \in [Slots -> Req]
    BY <1>4, MoveType DEF ListTickets, PCs
  <2> QED
    BY <1>4, <2>1 DEF ListTickets, db
<1>5. CASE Issue(s)
  <2>1. req' \in [Slots -> Req]
    BY <1>5, MoveType DEF Issue, PCs
  <2>2. tickets' \in [Orders -> Seq({"valid", "refunded"})]
    BY <1>5, IssueType DEF Issue, TicketStatuses
  <2> QED
    BY <1>5, <2>1, <2>2 DEF Issue
<1>6. CASE RecordEvent(s)
  <2>1. req' \in [Slots -> Req]
    BY <1>6, MoveType DEF RecordEvent
  <2>2. req[s].event \in sent
    BY <1>6 DEF RecordEvent, Events, Answering, Answers
  <2> QED
    BY <1>6, <2>1, <2>2 DEF RecordEvent
<1>7. CASE CancelOrder(s)
  <2>1. req' \in [Slots -> Req]
    BY <1>7, MoveType DEF CancelOrder, PCs
  <2> QED
    BY <1>7, <2>1 DEF CancelOrder, OrderStatuses
<1>8. CASE FailPayment(s)
  <2>1. req' \in [Slots -> Req]
    BY <1>8, MoveType DEF FailPayment, PCs
  <2>2. payment' \in [Orders -> Payment]
    BY <1>8 DEF FailPayment, Payment, PaymentStatuses
  <2> QED
    BY <1>8, <2>1, <2>2 DEF FailPayment
<1>9. CASE Release(s)
  <2>1. req' \in [Slots -> Req]
    BY <1>9, MoveType DEF Release, PCs
  <2> QED
    BY <1>9, <2>1 DEF Release, SeatStatuses
<1> QED
  BY <1>1, <1>2, <1>3, <1>4, <1>5, <1>6, <1>7, <1>8, <1>9

(* The statements of refundOrder.                                          *)
LEMMA RefundStepType ==
    ASSUME TypeOK, NEW s \in Slots,
           \/ VoidTicket(s) \/ AskStripe(s) \/ RecordRefund(s) \/ RefundOrder(s)
           \/ RefundPayment(s) \/ VoidTickets(s) \/ ReleaseRefunded(s)
    PROVE  TypeOK'
<1> USE DEF TypeOK
<1>1. CASE VoidTicket(s)
  <2>1. req' \in [Slots -> Req]
    BY <1>1, MoveType DEF VoidTicket, PCs
  <2>2. req[s].key.ticket \in Nat
    BY DEF Req, RefundKey
  <2>3. tickets' \in [Orders -> Seq({"valid", "refunded"})]
    BY <1>1, <2>2, VoidOneType DEF VoidTicket, TicketStatuses
  <2> QED
    BY <1>1, <2>1, <2>3 DEF VoidTicket
<1>2. CASE AskStripe(s)
  <2>1. req' \in [Slots -> Req]
    BY <1>2, MoveType DEF AskStripe, PCs
  <2>2. req[s].key \in RefundKey /\ req[s].key.amount \in Nat
    BY DEF Req, RefundKey
  <2>3. stripe' \in [Orders -> Session]
    <3> DEFINE o == req[s].order
               k == req[s].key
    <3>1. CASE UNCHANGED stripe
      BY <3>1
    <3>2. CASE stripe' = [stripe EXCEPT ![o] =
                            [stripe[o] EXCEPT !.keys = @ \cup {k}, !.moved = @ + k.amount]]
      <4> DEFINE r == [stripe[o] EXCEPT !.keys = @ \cup {k}, !.moved = @ + k.amount]
      <4>1. o \in Orders => r \in Session
        <5> SUFFICES ASSUME o \in Orders PROVE r \in Session
          OBVIOUS
        <5>1. stripe[o] \in Session
          OBVIOUS
        <5>2. stripe[o].keys \in SUBSET RefundKey /\ stripe[o].moved \in Nat
          BY <5>1 DEF Session
        <5>3. stripe[o].keys \cup {k} \in SUBSET RefundKey /\ stripe[o].moved + k.amount \in Nat
          BY <2>2, <5>2
        <5> HIDE DEF o, k, TypeOK
        <5> QED
          BY <5>1, <5>3 DEF Session
      <4>2. stripe' = [stripe EXCEPT ![o] = r] /\ stripe \in [Orders -> Session]
        BY <3>2
      <4> HIDE DEF r, TypeOK
      <4> QED
        BY <4>1, <4>2
    <3> QED
      BY <1>2, <3>1, <3>2 DEF AskStripe
  <2> QED
    BY <1>2, <2>1, <2>3 DEF AskStripe, db
<1>3. CASE RecordRefund(s)
  <2>1. req' \in [Slots -> Req]
    BY <1>3, MoveType DEF RecordRefund, PCs
  <2>2. req[s].key.amount \in Nat
    BY DEF Req, RefundKey
  <2>3. recorded' \in [Orders -> Nat]
    <3>1. recorded' = [recorded EXCEPT ![req[s].order] = @ + req[s].key.amount]
      BY <1>3 DEF RecordRefund
    <3>2. req[s].order \in Orders => recorded[req[s].order] + req[s].key.amount \in Nat
      BY <2>2
    <3> QED
      BY <3>1, <3>2
  <2> QED
    BY <1>3, <2>1, <2>3 DEF RecordRefund
<1>4. CASE RefundOrder(s)
  <2>1. req' \in [Slots -> Req]
    BY <1>4, MoveType DEF RefundOrder, PCs
  <2> QED
    BY <1>4, <2>1 DEF RefundOrder, OrderStatuses, Refunded
<1>5. CASE RefundPayment(s)
  <2>1. req' \in [Slots -> Req]
    BY <1>5, MoveType DEF RefundPayment, PCs, EndRefund
  <2>2. payment' \in [Orders -> Payment]
    BY <1>5 DEF RefundPayment, Refunded, Payment, PaymentStatuses
  <2> QED
    BY <1>5, <2>1, <2>2 DEF RefundPayment
<1>6. CASE VoidTickets(s)
  <2>1. req' \in [Slots -> Req]
    BY <1>6, MoveType DEF VoidTickets, PCs
  <2>2. tickets' \in [Orders -> Seq({"valid", "refunded"})]
    BY <1>6, VoidAllType DEF VoidTickets, TicketStatuses
  <2> QED
    BY <1>6, <2>1, <2>2 DEF VoidTickets
<1>7. CASE ReleaseRefunded(s)
  <2>1. req' \in [Slots -> Req]
    BY <1>7, MoveType DEF ReleaseRefunded, PCs, EndRefund
  <2> QED
    BY <1>7, <2>1 DEF ReleaseRefunded, SeatStatuses
<1> QED
  BY <1>1, <1>2, <1>3, <1>4, <1>5, <1>6, <1>7

(* The loop of refundEventCancellation, and a handler that dies.           *)
LEMMA LoopType ==
    ASSUME TypeOK, NEW s \in Slots, ListOrders(s) \/ NextOrder(s) \/ Crash(s)
    PROVE  TypeOK'
<1> USE DEF TypeOK
<1>1. CASE ListOrders(s)
  <2> DEFINE r == [req[s] EXCEPT !.pc = "next order", !.left = {<<o, order[o]>> : o \in Orders}]
  <2>1. r \in Req
    <3>1. req[s] \in Req /\ {<<o, order[o]>> : o \in Orders} \subseteq Orders \X OrderStatuses
      OBVIOUS
    <3> QED
      BY <3>1 DEF Req, PCs
  <2>2. req' \in [Slots -> Req]
    BY <1>1, <2>1 DEF ListOrders
  <2> QED
    BY <1>1, <2>2 DEF ListOrders, db
<1>2. CASE NextOrder(s)
  <2>1. Finish(s) => req' \in [Slots -> Req]
    BY MoveType
  <2>2. ASSUME NEW p \in req[s].left,
               LET o == p[1]
                   r == [req[s] EXCEPT !.left = @ \ {p}]
               IN  \/ req' = [req EXCEPT ![s] = [r EXCEPT !.pc = "cancel order", !.order = o]]
                   \/ /\ recorded[o] < Total
                      /\ req' = [req EXCEPT ![s] =
                            Decided(r, o, "full", Total - recorded[o], 0, "stripe")]
                   \/ req' = [req EXCEPT ![s] = r]
        PROVE  req' \in [Slots -> Req]
    <3> DEFINE o == p[1]
               r == [req[s] EXCEPT !.left = @ \ {p}]
    <3>1. p \in Orders \X OrderStatuses /\ o \in Orders
      BY DEF Req
    <3>2. r \in Req
      BY DEF Req
    <3>3. [r EXCEPT !.pc = "cancel order", !.order = o] \in Req
      BY <3>1, <3>2 DEF Req, PCs
    <3>4. recorded[o] < Total => Total - recorded[o] \in Nat
      BY <3>1, TotalType
    <3>5. recorded[o] < Total => Decided(r, o, "full", Total - recorded[o], 0, "stripe") \in Req
      BY <3>1, <3>2, <3>4, DecidedType DEF Kinds, PCs
    <3> QED
      BY <2>2, <3>2, <3>3, <3>5
  <2>3. req' \in [Slots -> Req]
    BY <1>2, <2>1, <2>2 DEF NextOrder
  <2> QED
    BY <1>2, <2>3 DEF NextOrder, db
<1>3. CASE Crash(s)
  <2>1. req' \in [Slots -> Req]
    BY <1>3, MoveType DEF Crash
  <2> QED
    BY <1>3, <2>1 DEF Crash, db
<1> QED
  BY <1>1, <1>2, <1>3

-----------------------------------------------------------------------------
(* A step of handler s that changes its own record only, to r, keeps       *)
(* Events if r does.                                                       *)
LEMMA EventsLocal ==
    ASSUME TypeOK, Events, NEW s \in Slots, NEW r,
           req' = [req EXCEPT ![s] = r], sent' = sent,
           Answering(r) => r.event \in sent, r.pc \in Loops => r.cancelling
    PROVE  Events'
BY DEF TypeOK, Events, Answering

(* What a handler that goes on changes: its place.                         *)
LEMMA GotoEffect ==
    ASSUME TypeOK, NEW s \in Slots, NEW pc \in PCs, Goto(s, pc)
    PROVE  /\ req'[s].pc = pc /\ req'[s].event = req[s].event
           /\ req'[s].order = req[s].order /\ req'[s].cancelling = req[s].cancelling
           /\ \A r \in Slots \ {s} : req'[r] = req[r]
<1>1. req[s] \in Req /\ req' = [req EXCEPT ![s].pc = pc]
  BY DEF TypeOK, Goto
<1>2. \A r \in Slots : req'[r] = IF r = s THEN [req[s] EXCEPT !.pc = pc] ELSE req[r]
  BY <1>1 DEF TypeOK
<1> QED
  BY <1>1, <1>2 DEF Req

(* Going on within an answer, or where none is needed, keeps Events.       *)
LEMMA EventsGoto ==
    ASSUME TypeOK, Events, NEW s \in Slots, NEW pc \in PCs, sent' = sent, Goto(s, pc),
           pc \in Answers => Answering(req[s]),
           pc \in Fails => Answering(req[s]) \/ req[s].cancelling,
           pc \in Loops => req[s].cancelling
    PROVE  Events'
BY GotoEffect DEF Events, Answering

(* Ending keeps Events.                                                    *)
LEMMA EventsFinish ==
    ASSUME TypeOK, Events, NEW s \in Slots, sent' = sent, Finish(s) PROVE Events'
<1>1. ~Answering(Idle) /\ Idle.pc \notin Loops
  BY DEF Answering, Idle, Answers, Fails, Loops
<1> QED
  BY <1>1, EventsLocal DEF Finish

(* The statements of the webhook's answer keep Events.                     *)
LEMMA AnswerEvents ==
    ASSUME TypeOK, Events, NEW s \in Slots,
           \/ PayOrder(s) \/ PayPayment(s) \/ Confirm(s) \/ ListTickets(s) \/ Issue(s)
           \/ RecordEvent(s) \/ CancelOrder(s) \/ FailPayment(s) \/ Release(s)
    PROVE  Events'
<1>1. sent' = sent
  BY DEF PayOrder, PayPayment, Confirm, ListTickets, Issue, RecordEvent, CancelOrder,
     FailPayment, Release, db
<1>2. ASSUME NEW pc \in PCs, Goto(s, pc), pc \in Answers, req[s].pc \in Answers PROVE Events'
  BY <1>1, <1>2, EventsGoto DEF Answering, Answers, Fails, Loops
<1>3. ASSUME NEW pc \in PCs, Goto(s, pc), pc \in Fails, req[s].pc \in Fails PROVE Events'
  BY <1>1, <1>3, EventsGoto DEF Answering, Answers, Fails, Loops
<1>4. CASE PayOrder(s)
  BY <1>2, <1>4 DEF PayOrder, PCs, Answers
<1>5. CASE PayPayment(s)
  BY <1>2, <1>5 DEF PayPayment, PCs, Answers
<1>6. CASE Confirm(s)
  BY <1>2, <1>6 DEF Confirm, PCs, Answers
<1>7. CASE ListTickets(s)
  BY <1>2, <1>7 DEF ListTickets, PCs, Answers
<1>8. CASE Issue(s)
  BY <1>2, <1>8 DEF Issue, PCs, Answers
<1>9. CASE RecordEvent(s)
  BY <1>1, <1>9, EventsFinish DEF RecordEvent
<1>10. CASE CancelOrder(s)
  BY <1>3, <1>10 DEF CancelOrder, PCs, Fails
<1>11. CASE FailPayment(s)
  BY <1>3, <1>11 DEF FailPayment, PCs, Fails
<1>12. CASE Release(s)
  <2>1. CASE req[s].cancelling
    BY <1>1, <1>12, <2>1, EventsGoto DEF Release, PCs, Answers, Fails, Loops
  <2>2. CASE ~req[s].cancelling
    BY <1>1, <1>12, <2>2, EventsGoto DEF Release, PCs, Answers, Fails, Loops, Answering
  <2> QED
    BY <2>1, <2>2
<1> QED
  BY <1>4, <1>5, <1>6, <1>7, <1>8, <1>9, <1>10, <1>11, <1>12

(* The statements of refundOrder keep Events.                              *)
LEMMA RefundEvents ==
    ASSUME TypeOK, Events, NEW s \in Slots,
           \/ VoidTicket(s) \/ AskStripe(s) \/ RecordRefund(s) \/ RefundOrder(s)
           \/ RefundPayment(s) \/ VoidTickets(s) \/ ReleaseRefunded(s)
    PROVE  Events'
<1>1. sent' = sent
  BY DEF VoidTicket, AskStripe, RecordRefund, RefundOrder, RefundPayment, VoidTickets,
     ReleaseRefunded, db
<1>2. ASSUME NEW pc \in PCs, Goto(s, pc), pc \notin Answers \cup Fails \cup Loops PROVE Events'
  BY <1>1, <1>2, EventsGoto
<1>3. EndRefund(s) => Events'
  BY <1>1, EventsGoto, EventsFinish DEF EndRefund, PCs, Answers, Fails, Loops
<1>4. Finish(s) => Events'
  BY <1>1, EventsFinish
<1>5. CASE VoidTicket(s)
  BY <1>2, <1>4, <1>5 DEF VoidTicket, PCs, Answers, Fails, Loops
<1>6. CASE AskStripe(s)
  BY <1>2, <1>4, <1>6 DEF AskStripe, PCs, Answers, Fails, Loops
<1>7. CASE RecordRefund(s)
  BY <1>2, <1>7 DEF RecordRefund, PCs, Answers, Fails, Loops
<1>8. CASE RefundOrder(s)
  BY <1>2, <1>8 DEF RefundOrder, PCs, Answers, Fails, Loops
<1>9. CASE RefundPayment(s)
  BY <1>2, <1>3, <1>9 DEF RefundPayment, PCs, Answers, Fails, Loops
<1>10. CASE VoidTickets(s)
  BY <1>2, <1>10 DEF VoidTickets, PCs, Answers, Fails, Loops
<1>11. CASE ReleaseRefunded(s)
  BY <1>3, <1>11 DEF ReleaseRefunded
<1> QED
  BY <1>5, <1>6, <1>7, <1>8, <1>9, <1>10, <1>11

(* So do the cancellation's loop and a handler that dies.                  *)
LEMMA LoopEvents ==
    ASSUME TypeOK, Events, NEW s \in Slots, ListOrders(s) \/ NextOrder(s) \/ Crash(s)
    PROVE  Events'
<1>1. sent' = sent /\ req[s] \in Req
  BY DEF ListOrders, NextOrder, Crash, db, TypeOK
<1>2. CASE ListOrders(s)
  <2> DEFINE r == [req[s] EXCEPT !.pc = "next order", !.left = {<<o, order[o]>> : o \in Orders}]
  <2>1. req' = [req EXCEPT ![s] = r] /\ req[s].cancelling
    BY <1>2 DEF ListOrders, Events, Loops, TypeOK
  <2>2. r.pc = "next order" /\ r.cancelling = req[s].cancelling
    BY <1>1 DEF Req
  <2>3. ~Answering(r)
    BY <2>2 DEF Answering, Answers, Fails
  <2> HIDE DEF r
  <2> QED
    BY <1>1, <2>1, <2>2, <2>3, EventsLocal
<1>3. CASE NextOrder(s)
  <2>1. req[s].pc = "next order" /\ req[s].cancelling
    BY <1>3 DEF NextOrder, Events, Loops
  <2>2. CASE Finish(s)
    BY <1>1, <2>2, EventsFinish
  <2>3. ASSUME NEW r, req' = [req EXCEPT ![s] = r], r.pc \notin Answers, r.cancelling
        PROVE  Events'
    BY <1>1, <2>3, EventsLocal DEF Answering
  <2>4. ASSUME NEW p \in req[s].left PROVE
          LET o == p[1]
              r == [req[s] EXCEPT !.left = @ \ {p}]
          IN  /\ req' = [req EXCEPT ![s] = [r EXCEPT !.pc = "cancel order", !.order = o]] => Events'
              /\ req' = [req EXCEPT ![s] =
                   Decided(r, o, "full", Total - recorded[o], 0, "stripe")] => Events'
              /\ req' = [req EXCEPT ![s] = r] => Events'
    <3> DEFINE o == p[1]
               r == [req[s] EXCEPT !.left = @ \ {p}]
               d == Decided(r, o, "full", Total - recorded[o], 0, "stripe")
               c == [r EXCEPT !.pc = "cancel order", !.order = o]
    <3>1. r.pc = "next order" /\ r.cancelling
      BY <1>1, <2>1 DEF Req
    <3>2. d.pc = "stripe" /\ d.cancelling
      BY <1>1, <2>1 DEF Decided, Req
    <3>3. c.pc = "cancel order" /\ c.cancelling
      BY <1>1, <2>1 DEF Req
    <3> HIDE DEF r, d, c
    <3>4. req' = [req EXCEPT ![s] = r] => Events'
      BY <2>3, <3>1 DEF Answers
    <3>5. req' = [req EXCEPT ![s] = d] => Events'
      BY <2>3, <3>2 DEF Answers
    <3>6. req' = [req EXCEPT ![s] = c] => Events'
      BY <2>3, <3>3 DEF Answers
    <3> QED
      BY <3>4, <3>5, <3>6 DEF r, d, c
  <2> QED
    BY <1>3, <2>2, <2>4 DEF NextOrder
<1>4. CASE Crash(s)
  BY <1>1, <1>4, EventsFinish DEF Crash
<1> QED
  BY <1>2, <1>3, <1>4

(* And what starts a handler, and the buyer and Stripe.                    *)
LEMMA StartEvents ==
    ASSUME TypeOK, Events, NEW s \in Slots, Organizer(s) \/ Webhook(s) PROVE Events'
<1>1. sent' = sent /\ req[s] \in Req /\ req[s].pc = "idle"
  BY DEF Organizer, Webhook, RefundAmount, RefundRest, RefundTicket, CancelEvent, Deliver, db, TypeOK
<1>2. ASSUME NEW o, NEW kind, NEW amount, NEW i, NEW pc \in {"stripe", "void ticket"},
             req' = [req EXCEPT ![s] = Decided(req[s], o, kind, amount, i, pc)]
      PROVE  Events'
  <2> DEFINE r == Decided(req[s], o, kind, amount, i, pc)
  <2>1. r.pc = pc
    BY <1>1 DEF Decided, Req
  <2> HIDE DEF r
  <2>2. ~Answering(r) /\ r.pc \notin Loops
    BY <2>1 DEF Answering, Answers, Fails, Loops
  <2> QED
    BY <1>1, <1>2, <2>2, EventsLocal DEF r
<1>3. ASSUME NEW o, NEW a, RefundAmount(s, o, a) PROVE Events'
  BY <1>2, <1>3 DEF RefundAmount
<1>4. ASSUME NEW o, NEW i, RefundTicket(s, o, i) PROVE Events'
  BY <1>2, <1>4 DEF RefundTicket
<1>5. CASE CancelEvent(s)
  <2>1. /\ req'[s].pc = "list orders" /\ req'[s].cancelling
        /\ \A x \in Slots \ {s} : req'[x] = req[x]
    BY <1>1, <1>5 DEF CancelEvent, Req, TypeOK
  <2> QED
    BY <1>1, <2>1 DEF Events, Answering, Answers, Fails, Loops
<1>6. ASSUME NEW e \in sent, Deliver(s, e) PROVE Events'
  <2> DEFINE r == [Idle EXCEPT !.event = e, !.order = e.order, !.pc = Outcome(e)]
  <2>1. r.event = e /\ r.pc = Outcome(e)
    BY DEF Idle
  <2>2. req' = [req EXCEPT ![s] = r]
    BY <1>6 DEF Deliver, Handling
  <2>3. r.pc \notin Loops
    BY <2>1 DEF Outcome, Loops
  <2> HIDE DEF r
  <2> QED
    BY <1>1, <2>1, <2>2, <2>3, EventsLocal
<1> QED
  BY <1>3, <1>4, <1>5, <1>6 DEF Organizer, Webhook, RefundRest

(* Every step keeps the types and Events.                                  *)
LEMMA StepType == TypeOK /\ Events /\ [Next]_vars => TypeOK' /\ Events'
<1> SUFFICES ASSUME TypeOK, Events, [Next]_vars PROVE TypeOK' /\ Events'
  OBVIOUS
<1>1. CASE UNCHANGED vars
  BY <1>1 DEF vars, db, TypeOK, Events
<1>2. ASSUME NEW o \in Orders, Buyer(o) PROVE TypeOK' /\ Events'
  <2>1. sent \subseteq sent' /\ req' = req
    BY <1>2 DEF Buyer, Purchase, Decline, EndSession
  <2> QED
    BY <1>2, <2>1, BuyerType DEF Events
<1>3. ASSUME NEW s \in Slots, Organizer(s) \/ Webhook(s) PROVE TypeOK' /\ Events'
  BY <1>3, StartType, StartEvents
<1>4. ASSUME NEW s \in Slots, Step(s) PROVE TypeOK' /\ Events'
  <2>1. TypeOK'
    BY <1>4, WebhookStepType, RefundStepType, LoopType DEF Step
  <2>2. Events'
    BY <1>4, AnswerEvents, RefundEvents, LoopEvents DEF Step
  <2> QED
    BY <2>1, <2>2
<1>5. ASSUME NEW s \in Slots, Crash(s) PROVE TypeOK' /\ Events'
  BY <1>5, LoopType, LoopEvents
<1> QED
  BY <1>1, <1>2, <1>3, <1>4, <1>5 DEF Next

(* No handler is in flight at first.                                       *)
LEMMA InitEvents == Init => Events
<1>1. Idle.pc = "idle"
  BY DEF Idle
<1>2. ASSUME Init PROVE \A s \in Slots : req[s].pc = "idle"
  BY <1>1, <1>2 DEF Init
<1> QED
  BY <1>2 DEF Events, Answering, Answers, Fails, Loops

(* Rows, handlers' copies and Stripe's records keep their types.  An       *)
(* answer to a webhook holds an event Stripe sent: that is what keeps      *)
(* stripe_webhook_event's type.                                            *)
THEOREM TypeCorrect == Spec => []TypeOK
<1>1. Init => TypeOK /\ Events
  BY InitType, InitEvents
<1> QED
  BY <1>1, StepType, PTL DEF Spec

-----------------------------------------------------------------------------
(* Money.  Whatever an order was given, or a handler is about to give or   *)
(* to refund, rests on a completed session; only a completed session sends *)
(* a completed event, and a session belongs to a placed order.             *)
Given(o) == \/ tickets[o] # <<>> \/ seat[o] = "confirmed"
            \/ recorded[o] > 0 \/ HasMoney(order[o])

Paying == {"pay order", "pay payment", "confirm", "list tickets", "issue", "void ticket",
           "stripe", "record refund", "refund order", "refund payment", "void tickets"}
Backed(r) == r.pc \in Paying => r.order \in Orders /\ Captured(r.order)

Money ==
    /\ \A e \in sent : e.type = "completed" => Captured(e.order)
    /\ \A o \in Orders : order[o] = "none" => stripe[o].state = "none"
    /\ \A o \in Orders : Given(o) => Captured(o)
    /\ \A s \in Slots : Backed(req[s])

(* A step of the server keeps Money if it gives to captured orders only.   *)
LEMMA MoneyKept ==
    ASSUME TypeOK, Money, sent' = sent,
           \A o \in Orders : stripe'[o].state = stripe[o].state,
           \A o \in Orders : order'[o] = "none" => order[o] = "none",
           \A o \in Orders : Given(o)' => Given(o) \/ Captured(o),
           \A s \in Slots : Backed(req'[s])
    PROVE  Money'
<1>1. \A o \in Orders : Captured(o)' <=> Captured(o)
  BY DEF Captured
<1>2. \A e \in sent : e.order \in Orders
  BY DEF TypeOK, WebhookEvent
<1>3. \A s \in Slots : Backed(req[s])'
  BY <1>1 DEF Backed
<1> QED
  BY <1>1, <1>2, <1>3 DEF Money

(* Going on among the paying statements, or leaving them, stays backed.    *)
LEMMA BackedGoto ==
    ASSUME TypeOK, Money, NEW s \in Slots, NEW pc \in PCs, Goto(s, pc),
           pc \in Paying => req[s].pc \in Paying
    PROVE  \A r \in Slots : Backed(req'[r])
BY GotoEffect DEF Money, Backed

(* So does a handler that takes the record r.                              *)
LEMMA BackedSet ==
    ASSUME TypeOK, Money, NEW s \in Slots, NEW r, req' = [req EXCEPT ![s] = r], Backed(r)
    PROVE  \A x \in Slots : Backed(req'[x])
BY DEF TypeOK, Money

(* And one that ends.                                                      *)
LEMMA BackedFinish ==
    ASSUME TypeOK, Money, NEW s \in Slots, Finish(s)
    PROVE  \A r \in Slots : Backed(req'[r])
<1>1. Backed(Idle)
  BY DEF Backed, Idle, Paying
<1> QED
  BY <1>1, BackedSet DEF Finish

(* A paying handler's order is captured, so what it gives is backed.       *)
LEMMA GivenKept ==
    ASSUME TypeOK, Money, NEW s \in Slots, req[s].pc \in Paying,
           \A o \in Orders \ {req[s].order} :
             tickets'[o] = tickets[o] /\ seat'[o] = seat[o]
             /\ recorded'[o] = recorded[o] /\ order'[o] = order[o]
    PROVE  \A o \in Orders : Given(o)' => Given(o) \/ Captured(o)
<1>1. Captured(req[s].order)
  BY DEF Money, Backed
<1>2. ASSUME NEW o \in Orders \ {req[s].order} PROVE Given(o)' => Given(o)
  BY <1>2 DEF Given
<1> QED
  BY <1>1, <1>2

(* The statements of the webhook's answer keep Money.                      *)
LEMMA AnswerMoney ==
    ASSUME TypeOK, Money, NEW s \in Slots,
           \/ PayOrder(s) \/ PayPayment(s) \/ Confirm(s) \/ ListTickets(s) \/ Issue(s)
           \/ RecordEvent(s) \/ CancelOrder(s) \/ FailPayment(s) \/ Release(s)
    PROVE  Money'
<1> USE DEF PCs, Paying
<1>1. CASE PayOrder(s)
  <2>1. \A r \in Slots : Backed(req'[r])
    BY <1>1, BackedGoto DEF PayOrder
  <2>2. \A o \in Orders : Given(o)' => Given(o) \/ Captured(o)
    BY <1>1, GivenKept DEF PayOrder, TypeOK
  <2>3. \A o \in Orders : order'[o] = "none" => order[o] = "none"
    BY <1>1 DEF PayOrder, TypeOK
  <2> QED
    BY <1>1, <2>1, <2>2, <2>3, MoneyKept DEF PayOrder
<1>2. CASE PayPayment(s)
  <2>1. \A r \in Slots : Backed(req'[r])
    BY <1>2, BackedGoto DEF PayPayment
  <2>2. \A o \in Orders : Given(o)' => Given(o)
    BY <1>2 DEF PayPayment, Given
  <2> QED
    BY <1>2, <2>1, <2>2, MoneyKept DEF PayPayment
<1>3. CASE Confirm(s)
  <2>1. \A r \in Slots : Backed(req'[r])
    BY <1>3, BackedGoto DEF Confirm
  <2>2. \A o \in Orders : Given(o)' => Given(o) \/ Captured(o)
    BY <1>3, GivenKept DEF Confirm, TypeOK
  <2> QED
    BY <1>3, <2>1, <2>2, MoneyKept DEF Confirm
<1>4. CASE ListTickets(s)
  <2>1. \A r \in Slots : Backed(req'[r])
    BY <1>4, BackedGoto DEF ListTickets
  <2>2. \A o \in Orders : Given(o)' => Given(o)
    BY <1>4 DEF ListTickets, db, Given
  <2> QED
    BY <1>4, <2>1, <2>2, MoneyKept DEF ListTickets, db
<1>5. CASE Issue(s)
  <2>1. \A r \in Slots : Backed(req'[r])
    BY <1>5, BackedGoto DEF Issue
  <2>2. \A o \in Orders : Given(o)' => Given(o) \/ Captured(o)
    BY <1>5, GivenKept DEF Issue, TypeOK
  <2> QED
    BY <1>5, <2>1, <2>2, MoneyKept DEF Issue
<1>6. CASE RecordEvent(s)
  <2>1. \A r \in Slots : Backed(req'[r])
    BY <1>6, BackedFinish DEF RecordEvent
  <2>2. \A o \in Orders : Given(o)' => Given(o)
    BY <1>6 DEF RecordEvent, Given
  <2> QED
    BY <1>6, <2>1, <2>2, MoneyKept DEF RecordEvent
<1>7. CASE CancelOrder(s)
  <2>1. \A r \in Slots : Backed(req'[r])
    BY <1>7, BackedGoto DEF CancelOrder
  <2>2. \A o \in Orders : Given(o)' => Given(o)
    BY <1>7 DEF CancelOrder, Given, HasMoney, TypeOK
  <2>3. \A o \in Orders : order'[o] = "none" => order[o] = "none"
    BY <1>7 DEF CancelOrder, TypeOK
  <2> QED
    BY <1>7, <2>1, <2>2, <2>3, MoneyKept DEF CancelOrder
<1>8. CASE FailPayment(s)
  <2>1. \A r \in Slots : Backed(req'[r])
    BY <1>8, BackedGoto DEF FailPayment
  <2>2. \A o \in Orders : Given(o)' => Given(o)
    BY <1>8 DEF FailPayment, Given
  <2> QED
    BY <1>8, <2>1, <2>2, MoneyKept DEF FailPayment
<1>9. CASE Release(s)
  <2>1. \A r \in Slots : Backed(req'[r])
    BY <1>9, BackedGoto DEF Release
  <2>2. \A o \in Orders : Given(o)' => Given(o)
    BY <1>9 DEF Release, Given, TypeOK
  <2> QED
    BY <1>9, <2>1, <2>2, MoneyKept DEF Release
<1> QED
  BY <1>1, <1>2, <1>3, <1>4, <1>5, <1>6, <1>7, <1>8, <1>9

(* The statements of refundOrder keep Money.                               *)
LEMMA RefundMoney ==
    ASSUME TypeOK, Money, NEW s \in Slots,
           \/ VoidTicket(s) \/ AskStripe(s) \/ RecordRefund(s) \/ RefundOrder(s)
           \/ RefundPayment(s) \/ VoidTickets(s) \/ ReleaseRefunded(s)
    PROVE  Money'
<1> USE DEF PCs, Paying
<1>1. EndRefund(s) => \A r \in Slots : Backed(req'[r])
  BY BackedGoto, BackedFinish DEF EndRefund
<1>2. CASE VoidTicket(s)
  <2>1. \A r \in Slots : Backed(req'[r])
    BY <1>2, BackedGoto, BackedFinish DEF VoidTicket
  <2>2. \A o \in Orders : Given(o)' => Given(o) \/ Captured(o)
    BY <1>2, GivenKept DEF VoidTicket, TypeOK
  <2> QED
    BY <1>2, <2>1, <2>2, MoneyKept DEF VoidTicket
<1>3. CASE AskStripe(s)
  <2>1. \A r \in Slots : Backed(req'[r])
    BY <1>3, BackedGoto, BackedFinish DEF AskStripe
  <2>2. \A o \in Orders : Given(o)' => Given(o)
    BY <1>3 DEF AskStripe, db, Given
  <2>3. \A o \in Orders : stripe'[o].state = stripe[o].state
    <3> DEFINE o == req[s].order
               r == [stripe[o] EXCEPT !.keys = @ \cup {req[s].key},
                                      !.moved = @ + req[s].key.amount]
    <3>1. o \in Orders => r.state = stripe[o].state
      BY DEF TypeOK, Session
    <3>2. stripe' = stripe \/ stripe' = [stripe EXCEPT ![o] = r]
      BY <1>3 DEF AskStripe
    <3> HIDE DEF r
    <3> QED
      BY <3>1, <3>2 DEF TypeOK
  <2> QED
    BY <1>3, <2>1, <2>2, <2>3, MoneyKept DEF AskStripe, db
<1>4. CASE RecordRefund(s)
  <2>1. \A r \in Slots : Backed(req'[r])
    BY <1>4, BackedGoto DEF RecordRefund
  <2>2. \A o \in Orders : Given(o)' => Given(o) \/ Captured(o)
    BY <1>4, GivenKept DEF RecordRefund, TypeOK
  <2> QED
    BY <1>4, <2>1, <2>2, MoneyKept DEF RecordRefund
<1>5. CASE RefundOrder(s)
  <2>1. \A r \in Slots : Backed(req'[r])
    BY <1>5, BackedGoto DEF RefundOrder
  <2>2. \A o \in Orders : Given(o)' => Given(o) \/ Captured(o)
    BY <1>5, GivenKept DEF RefundOrder, TypeOK
  <2>3. \A o \in Orders : order'[o] = "none" => order[o] = "none"
    BY <1>5 DEF RefundOrder, Refunded, TypeOK
  <2> QED
    BY <1>5, <2>1, <2>2, <2>3, MoneyKept DEF RefundOrder
<1>6. CASE RefundPayment(s)
  <2>1. \A r \in Slots : Backed(req'[r])
    BY <1>1, <1>6, BackedGoto DEF RefundPayment
  <2>2. \A o \in Orders : Given(o)' => Given(o)
    BY <1>6 DEF RefundPayment, Given
  <2> QED
    BY <1>6, <2>1, <2>2, MoneyKept DEF RefundPayment
<1>7. CASE VoidTickets(s)
  <2>1. \A r \in Slots : Backed(req'[r])
    BY <1>7, BackedGoto DEF VoidTickets
  <2>2. \A o \in Orders : Given(o)' => Given(o) \/ Captured(o)
    BY <1>7, GivenKept DEF VoidTickets, TypeOK
  <2> QED
    BY <1>7, <2>1, <2>2, MoneyKept DEF VoidTickets
<1>8. CASE ReleaseRefunded(s)
  <2>1. \A r \in Slots : Backed(req'[r])
    BY <1>1, <1>8 DEF ReleaseRefunded
  <2>2. \A o \in Orders : Given(o)' => Given(o)
    BY <1>8 DEF ReleaseRefunded, Given, TypeOK
  <2> QED
    BY <1>8, <2>1, <2>2, MoneyKept DEF ReleaseRefunded
<1> QED
  BY <1>2, <1>3, <1>4, <1>5, <1>6, <1>7, <1>8

(* So do the cancellation's loop, a handler that dies and one that starts. *)
LEMMA StartMoney ==
    ASSUME TypeOK, Money, NEW s \in Slots,
           ListOrders(s) \/ NextOrder(s) \/ Crash(s) \/ Organizer(s) \/ Webhook(s)
    PROVE  Money'
<1>1. /\ sent' = sent /\ stripe' = stripe /\ req[s] \in Req
      /\ <<order, seat, tickets, recorded>>' = <<order, seat, tickets, recorded>>
  BY DEF ListOrders, NextOrder, Crash, Organizer, Webhook, RefundAmount, RefundRest,
     RefundTicket, CancelEvent, Deliver, db, TypeOK
<1>2. \A o \in Orders : Given(o)' => Given(o)
  BY <1>1 DEF Given
<1>3. (\A r \in Slots : Backed(req'[r])) => Money'
  BY <1>1, <1>2, MoneyKept
<1>4. ASSUME NEW r, req' = [req EXCEPT ![s] = r], r.pc \notin Paying PROVE Money'
  BY <1>3, <1>4, BackedSet DEF Backed
<1>5. ASSUME NEW d, d.order \in Orders, Refundable(d.order), req' = [req EXCEPT ![s] = d]
      PROVE  Money'
  <2>1. Captured(d.order)
    BY <1>5 DEF Refundable, Money, Given
  <2>2. Backed(d)
    BY <1>5, <2>1 DEF Backed
  <2> QED
    BY <1>3, <1>5, <2>2, BackedSet
<1>6. CASE ListOrders(s)
  <2> DEFINE r == [req[s] EXCEPT !.pc = "next order", !.left = {<<o, order[o]>> : o \in Orders}]
  <2>1. req' = [req EXCEPT ![s] = r]
    BY <1>6 DEF ListOrders, TypeOK
  <2>2. r.pc = "next order"
    BY <1>1 DEF Req
  <2> HIDE DEF r
  <2> QED
    BY <1>4, <2>1, <2>2 DEF Paying
<1>7. CASE NextOrder(s)
  <2>1. CASE Finish(s)
    BY <1>3, <2>1, BackedFinish
  <2>2. ASSUME NEW p \in req[s].left PROVE
          LET o == p[1]
              r == [req[s] EXCEPT !.left = @ \ {p}]
          IN  /\ req' = [req EXCEPT ![s] = [r EXCEPT !.pc = "cancel order", !.order = o]] => Money'
              /\ Refundable(o) /\ req' = [req EXCEPT ![s] =
                   Decided(r, o, "full", Total - recorded[o], 0, "stripe")] => Money'
              /\ req' = [req EXCEPT ![s] = r] => Money'
    <3> DEFINE o == p[1]
               r == [req[s] EXCEPT !.left = @ \ {p}]
               c == [r EXCEPT !.pc = "cancel order", !.order = o]
               d == Decided(r, o, "full", Total - recorded[o], 0, "stripe")
    <3>1. r.pc = "next order" /\ r \in Req
      BY <1>1, <1>7 DEF NextOrder, Req
    <3>2. c.pc = "cancel order"
      BY <1>1 DEF Req
    <3>3. o \in Orders
      BY <1>1 DEF Req
    <3>7. d.order = o
      BY <1>1 DEF Decided, Req
    <3> HIDE DEF r, c, o, d
    <3>4. req' = [req EXCEPT ![s] = r] => Money'
      BY <1>4, <3>1 DEF Paying
    <3>5. req' = [req EXCEPT ![s] = c] => Money'
      BY <1>4, <3>2 DEF Paying
    <3>6. Refundable(o) /\ req' = [req EXCEPT ![s] = d] => Money'
      BY <1>5, <3>3, <3>7
    <3> QED
      BY <3>4, <3>5, <3>6 DEF r, c, o, d
  <2> QED
    BY <1>7, <2>1, <2>2 DEF NextOrder
<1>8. CASE Crash(s)
  BY <1>3, <1>8, BackedFinish DEF Crash
<1>9. ASSUME NEW o \in Orders, NEW a, RefundAmount(s, o, a) PROVE Money'
  <2> DEFINE kind == IF a < Total - recorded[o] THEN "partial" ELSE "full"
  <2> DEFINE d == Decided(req[s], o, kind, a, 0, "stripe")
  <2>1. d.order = o
    BY <1>1 DEF Decided, Req
  <2>2. Refundable(o) /\ req' = [req EXCEPT ![s] = d]
    BY <1>9 DEF RefundAmount
  <2> HIDE DEF d
  <2> QED
    BY <1>5, <2>1, <2>2
<1>10. ASSUME NEW o \in Orders, NEW i, RefundTicket(s, o, i) PROVE Money'
  <2> DEFINE d == Decided(req[s], o, "individual", Price, i, "void ticket")
  <2>1. d.order = o
    BY <1>1 DEF Decided, Req
  <2>2. Refundable(o) /\ req' = [req EXCEPT ![s] = d]
    BY <1>10 DEF RefundTicket
  <2> HIDE DEF d
  <2> QED
    BY <1>5, <2>1, <2>2
<1>11. CASE CancelEvent(s)
  <2>1. req'[s].pc = "list orders" /\ \A x \in Slots \ {s} : req'[x] = req[x]
    BY <1>1, <1>11 DEF CancelEvent, Req, TypeOK
  <2> QED
    BY <1>3, <2>1 DEF Money, Backed, Paying
<1>12. ASSUME NEW e \in sent, Deliver(s, e) PROVE Money'
  <2> DEFINE r == [Idle EXCEPT !.event = e, !.order = e.order, !.pc = Outcome(e)]
  <2>1. r.order = e.order /\ r.pc = Outcome(e)
    BY DEF Idle
  <2>2. req' = [req EXCEPT ![s] = r]
    BY <1>12 DEF Deliver, Handling
  <2>3. Outcome(e) \in Paying => e.type = "completed"
    BY DEF Outcome, Paying
  <2>4. e.order \in Orders
    BY DEF TypeOK, WebhookEvent
  <2> HIDE DEF r
  <2>5. Backed(r)
    BY <2>1, <2>3, <2>4 DEF Backed, Money
  <2> QED
    BY <1>3, <2>2, <2>5, BackedSet
<1> QED
  BY <1>6, <1>7, <1>8, <1>9, <1>10, <1>11, <1>12 DEF Organizer, Webhook, RefundRest

(* The buyer and Stripe: a session completes once, from open.              *)
LEMMA BuyerMoney == ASSUME TypeOK, Money, NEW o \in Orders, Buyer(o) PROVE Money'
<1>1. CASE Purchase(o)
  <2>1. stripe[o].state = "none"
    BY <1>1 DEF Purchase, Money
  <2>2. \A x \in Orders \ {o} : stripe'[x] = stripe[x] /\ order'[x] = order[x] /\ seat'[x] = seat[x]
    BY <1>1 DEF Purchase, TypeOK
  <2>3. order'[o] = "pending" /\ seat'[o] = "pending" /\ ~Captured(o)
    BY <1>1, <2>1 DEF Purchase, TypeOK, Captured
  <2>4. UNCHANGED <<tickets, recorded, sent, req>>
    BY <1>1 DEF Purchase
  <2>5. \A x \in Orders : Captured(x) => Captured(x)'
    BY <2>2, <2>3 DEF Captured
  <2>6. \A e \in sent : e.order \in Orders
    BY DEF TypeOK, WebhookEvent
  <2>7. ~Given(o)' /\ \A x \in Orders \ {o} : Given(x)' => Given(x)
    BY <2>2, <2>3, <2>4 DEF Given, HasMoney, Money
  <2>8. \A s \in Slots : Backed(req[s])'
    BY <2>4, <2>5 DEF Money, Backed
  <2> QED
    BY <2>2, <2>3, <2>4, <2>5, <2>6, <2>7, <2>8 DEF Money
<1>2. CASE Decline(o)
  <2>1. UNCHANGED <<order, seat, tickets, recorded, stripe, req>>
    BY <1>2 DEF Decline, db
  <2>2. sent' = sent \cup {[order |-> o, type |-> "failed"]}
    BY <1>2 DEF Decline
  <2>3. \A x : (Captured(x)' <=> Captured(x)) /\ (Given(x)' <=> Given(x))
    BY <2>1 DEF Captured, Given, HasMoney
  <2>4. \A s \in Slots : Backed(req[s])'
    BY <2>1, <2>3 DEF Money, Backed
  <2> QED
    BY <2>1, <2>2, <2>3, <2>4 DEF Money
<1>3. ASSUME NEW state \in {"completed", "expired"}, EndSession(o, state) PROVE Money'
  <2>1. UNCHANGED <<order, seat, tickets, recorded, req>>
    BY <1>3 DEF EndSession, db
  <2>2. sent' = sent \cup {[order |-> o, type |-> state]}
    BY <1>3 DEF EndSession
  <2>3. stripe[o].state = "open" /\ stripe'[o].state = state
        /\ \A x \in Orders \ {o} : stripe'[x] = stripe[x]
    BY <1>3 DEF EndSession, TypeOK, Session
  <2>4. \A x \in Orders : Captured(x) => Captured(x)'
    BY <2>3 DEF Captured
  <2>5. \A e \in sent : e.order \in Orders
    BY DEF TypeOK, WebhookEvent
  <2>6. \A e \in sent' : e.type = "completed" => Captured(e.order)'
    BY <2>2, <2>3, <2>4, <2>5 DEF Money, Captured
  <2>7. \A x \in Orders : Given(x)' <=> Given(x)
    BY <2>1 DEF Given, HasMoney
  <2>8. \A s \in Slots : Backed(req[s])'
    BY <2>1, <2>4 DEF Money, Backed
  <2>9. \A x \in Orders : order'[x] = "none" => stripe'[x].state = "none"
    BY <2>1, <2>3 DEF Money
  <2> QED
    BY <2>1, <2>4, <2>6, <2>7, <2>8, <2>9 DEF Money
<1> QED
  BY <1>1, <1>2, <1>3 DEF Buyer

(* Every step keeps Money.                                                 *)
LEMMA StepMoney == TypeOK /\ Money /\ [Next]_vars => Money'
<1> SUFFICES ASSUME TypeOK, Money, [Next]_vars PROVE Money'
  OBVIOUS
<1>1. CASE UNCHANGED vars
  BY <1>1 DEF vars, db, Money, Given, HasMoney, Captured, Backed
<1>2. ASSUME NEW o \in Orders, Buyer(o) PROVE Money'
  BY <1>2, BuyerMoney
<1>3. ASSUME NEW s \in Slots, Organizer(s) \/ Webhook(s) \/ Crash(s) PROVE Money'
  BY <1>3, StartMoney
<1>4. ASSUME NEW s \in Slots, Step(s) PROVE Money'
  BY <1>4, AnswerMoney, RefundMoney, StartMoney DEF Step
<1> QED
  BY <1>1, <1>2, <1>3, <1>4 DEF Next

(* Nothing was given at first.                                             *)
LEMMA InitMoney == Init => Money
<1> SUFFICES ASSUME Init PROVE Money
  OBVIOUS
<1>1. Backed(Idle)
  BY DEF Backed, Idle, Paying
<1>2. \A s \in Slots : Backed(req[s])
  BY <1>1 DEF Init
<1>3. \A o \in Orders : ~Given(o)
  BY DEF Init, Given, HasMoney
<1> QED
  BY <1>2, <1>3 DEF Init, Money

(* No ticket, no confirmed seat and no recorded refund without a captured  *)
(* payment, for any number of orders and of handlers that overlap, any     *)
(* prices, crashes and redeliveries.  The invariant that carries it        *)
(* follows a handler from the event it answers, or the order it found      *)
(* paid, to what it writes.                                                *)
THEOREM NoTicketUnpaid == Spec => []NothingForFree
<1>1. Init => TypeOK /\ Events /\ Money
  BY InitType, InitEvents, InitMoney
<1>2. Money => NothingForFree
  BY DEF Money, NothingForFree, Given
<1> QED
  BY <1>1, <1>2, StepType, StepMoney, PTL DEF Spec

-----------------------------------------------------------------------------
(* Handlers that take turns: there is one slot.                            *)
OneAtATime == \E only \in Slots : Slots = {only}

(* How many tickets each change leaves.                                    *)
LEMMA TicketCounts ==
    ASSUME NEW t \in Seq(TicketStatuses), NEW i \in Nat
    PROVE  /\ Len([t EXCEPT ![i] = "refunded"]) = Len(t)
           /\ Len([j \in DOMAIN t |-> "refunded"]) = Len(t)
           /\ Len(<<>> \o [j \in 1 .. Quantity |-> "valid"]) = Quantity
<1>1. PICK n \in Nat : t \in [1 .. n -> TicketStatuses] /\ Len(t) = n /\ DOMAIN t = 1 .. n
  BY LenProperties
<1>2. Len([t EXCEPT ![i] = "refunded"]) = n
  <2>1. [t EXCEPT ![i] = "refunded"] \in Seq(TicketStatuses)
    BY VoidOneType
  <2>2. DOMAIN [t EXCEPT ![i] = "refunded"] = 1 .. n
    BY <1>1
  <2> QED
    BY <2>1, <2>2, <1>1, LenProperties
<1>3. Len([j \in DOMAIN t |-> "refunded"]) = n
  <2>1. [j \in DOMAIN t |-> "refunded"] \in Seq(TicketStatuses)
    BY VoidAllType
  <2>2. DOMAIN [j \in DOMAIN t |-> "refunded"] = 1 .. n
    BY <1>1
  <2> QED
    BY <2>1, <2>2, <1>1, LenProperties
<1>4. Len(<<>> \o [j \in 1 .. Quantity |-> "valid"]) = Quantity
  <2> DEFINE v == [j \in 1 .. Quantity |-> "valid"]
  <2>1. v \in Seq(TicketStatuses) /\ DOMAIN v = 1 .. Quantity
    BY TotalType, SeqDef DEF TicketStatuses
  <2>2. Len(v) = Quantity
    BY <2>1, TotalType, LenProperties
  <2>3. <<>> \in Seq(TicketStatuses) /\ Len(<<>>) = 0
    BY EmptySeq
  <2> HIDE DEF v
  <2> QED
    BY <2>1, <2>2, <2>3, TotalType, ConcatProperties
<1> QED
  BY <1>1, <1>2, <1>3, <1>4

(* A handler that goes on changes its place and nothing else it holds.     *)
LEMMA GotoKeeps ==
    ASSUME TypeOK, NEW s \in Slots, NEW pc \in PCs, Goto(s, pc)
    PROVE  /\ req'[s].pc = pc
           /\ req'[s].order = req[s].order /\ req'[s].event = req[s].event
           /\ req'[s].key = req[s].key /\ req'[s].already = req[s].already
           /\ req'[s].left = req[s].left /\ req'[s].cancelling = req[s].cancelling
<1>1. req[s] \in Req /\ req'[s] = [req[s] EXCEPT !.pc = pc]
  BY DEF TypeOK, Goto
<1> QED
  BY <1>1 DEF Req

(* One that ends holds nothing.                                            *)
LEMMA FinishKeeps ==
    ASSUME TypeOK, NEW s \in Slots, Finish(s) 
    PROVE  /\ req'[s] = Idle /\ req'[s].pc = "idle" /\ req'[s].left = {}
           /\ ~req'[s].cancelling
BY DEF TypeOK, Finish, Idle

(* What a handler holds once it decided on a refund.                       *)
LEMMA DecidedIs ==
    ASSUME NEW r \in Req, NEW o, NEW kind, NEW amount, NEW ticket, NEW pc
    PROVE  LET d == Decided(r, o, kind, amount, ticket, pc)
           IN  /\ d.pc = pc /\ d.order = o /\ d.already = recorded[o]
               /\ d.key = [kind |-> kind, amount |-> amount, ticket |-> ticket]
               /\ d.event = r.event /\ d.left = r.left /\ d.cancelling = r.cancelling
BY DEF Decided, Req

-----------------------------------------------------------------------------
(* What was decided agrees with what is recorded, until it is recorded;    *)
(* and tickets are issued to an order that has none.                       *)
Deciding == {"void ticket", "stripe", "record refund"}
Settling == {"refund order", "refund payment", "void tickets", "release refunded"}
Amounts(r) ==
    /\ r.pc \in Deciding => r.already = recorded[r.order] /\ r.key.amount > 0
    /\ r.pc \in {"stripe", "record refund"} => r.already + r.key.amount <= Total
    /\ r.pc \in Settling => /\ recorded[r.order] = r.already + r.key.amount
                            /\ r.key.amount > 0
                            /\ r.already + r.key.amount <= Total
Issuing(r) == r.pc = "issue" => tickets[r.order] = <<>>

Served ==
    /\ \A o \in Orders : Len(tickets[o]) \in {0, Quantity} /\ recorded[o] <= Total
    /\ \A s \in Slots : Amounts(req[s]) /\ Issuing(req[s])

(* A step that leaves tickets and refunds alone, to a place that says      *)
(* nothing of them.                                                        *)
LEMMA ServedMove ==
    ASSUME OneAtATime, Served, tickets' = tickets, recorded' = recorded, NEW s \in Slots,
           req'[s].pc \notin Deciding \cup Settling \cup {"issue"}
    PROVE  Served'
BY DEF OneAtATime, Served, Amounts, Issuing, Deciding, Settling

(* And one to a place that says something.                                 *)
LEMMA ServedSet ==
    ASSUME OneAtATime, NEW s \in Slots, Amounts(req[s])', req'[s].pc # "issue",
           \A o \in Orders : Len(tickets'[o]) \in {0, Quantity} /\ recorded'[o] <= Total
    PROVE  Served'
BY DEF OneAtATime, Served, Issuing

(* What starts a handler, and one that dies.                               *)
LEMMA ServedStart ==
    ASSUME OneAtATime, TypeOK, Served, NEW s \in Slots, Organizer(s) \/ Webhook(s) \/ Crash(s)
    PROVE  Served'
<1>1. req[s] \in Req /\ tickets' = tickets /\ recorded' = recorded /\ \A t \in Slots : t = s
  BY DEF Organizer, Webhook, RefundAmount, RefundRest, RefundTicket, CancelEvent, Deliver,
     Crash, db, TypeOK, OneAtATime
<1>2. ASSUME NEW o \in Orders, NEW a \in Nat, RefundAmount(s, o, a) PROVE Served'
  <2> DEFINE kind == IF a < Total - recorded[o] THEN "partial" ELSE "full"
             d == Decided(req[s], o, kind, a, 0, "stripe")
  <2>1. req'[s] = d /\ a > 0 /\ recorded[o] + a <= Total
    BY <1>2, <1>1 DEF RefundAmount, TypeOK, AmountFits
  <2>2. d.pc = "stripe" /\ d.order = o /\ d.already = recorded[o] /\ d.key.amount = a
    BY <1>1 DEF Decided, Req
  <2> HIDE DEF d
  <2> QED
    BY <1>1, <2>1, <2>2 DEF Served, Amounts, Issuing, Deciding, Settling
<1>3. ASSUME NEW o \in Orders, RefundRest(s, o) PROVE Served'
  <2>1. Total - recorded[o] \in Nat
    BY <1>3, TotalType DEF RefundRest, TypeOK
  <2> QED
    BY <1>2, <1>3, <2>1 DEF RefundRest
<1>4. ASSUME NEW o \in Orders, NEW i \in 1 .. Len(tickets[o]), RefundTicket(s, o, i) PROVE Served'
  <2> DEFINE d == Decided(req[s], o, "individual", Price, i, "void ticket")
  <2>1. req'[s] = d
    BY <1>4 DEF RefundTicket, TypeOK
  <2>3. Price > 0
    BY AmountsAssumption
  <2>2. d.pc = "void ticket" /\ d.order = o /\ d.already = recorded[o] /\ d.key.amount = Price
    BY <1>1 DEF Decided, Req
  <2> HIDE DEF d
  <2> QED
    BY <1>1, <2>1, <2>2, <2>3 DEF Served, Amounts, Issuing, Deciding, Settling
<1>5. CASE CancelEvent(s)
  <2>1. req'[s].pc = "list orders"
    BY <1>1, <1>5 DEF CancelEvent, Req, TypeOK
  <2> QED
    BY <1>1, <2>1, ServedMove DEF Deciding, Settling
<1>6. ASSUME NEW e \in sent, Deliver(s, e) PROVE Served'
  <2>1. req'[s].pc = Outcome(e)
    BY <1>6 DEF Deliver, Handling, TypeOK, Idle
  <2>2. Outcome(e) \notin Deciding \cup Settling \cup {"issue"}
    BY DEF Outcome, Deciding, Settling
  <2> QED
    BY <1>1, <2>1, <2>2, ServedMove
<1>7. CASE Crash(s)
  <2>1. req'[s].pc = "idle"
    BY <1>7, FinishKeeps DEF Crash, Idle
  <2> QED
    BY <1>1, <2>1, ServedMove DEF Deciding, Settling
<1>8. Partials \subseteq Nat
  BY AmountsAssumption
<1> QED
  BY <1>2, <1>3, <1>4, <1>5, <1>6, <1>7, <1>8 DEF Organizer, Webhook

(* The statements of the webhook's answer.                                 *)
LEMMA ServedWebhook ==
    ASSUME OneAtATime, TypeOK, Events, Money, Served, NEW s \in Slots,
           \/ PayOrder(s) \/ PayPayment(s) \/ Confirm(s) \/ ListTickets(s) \/ Issue(s)
           \/ RecordEvent(s) \/ CancelOrder(s) \/ FailPayment(s) \/ Release(s)
    PROVE  Served'
<1> USE DEF Deciding, Settling, PCs
<1>0. \A t \in Slots : t = s
  BY DEF OneAtATime
<1>1. CASE PayOrder(s)
  BY <1>1, GotoKeeps, ServedMove DEF PayOrder
<1>2. CASE PayPayment(s)
  BY <1>2, GotoKeeps, ServedMove DEF PayPayment
<1>3. CASE Confirm(s)
  BY <1>3, GotoKeeps, ServedMove DEF Confirm
<1>4. CASE ListTickets(s)
  <2>1. tickets' = tickets /\ recorded' = recorded
    BY <1>4 DEF ListTickets, db
  <2>2. CASE tickets[req[s].order] # <<>>
    <3>1. req'[s].pc = "record event"
      BY <1>4, <2>2, GotoKeeps DEF ListTickets, HasTickets
    <3> QED
      BY <2>1, <3>1, ServedMove
  <2>3. CASE tickets[req[s].order] = <<>>
    <3>1. req'[s].pc = "issue" /\ req'[s].order = req[s].order
      BY <1>4, <2>3, GotoKeeps DEF ListTickets, HasTickets
    <3> QED
      BY <1>0, <2>1, <2>3, <3>1 DEF Served, Amounts, Issuing
  <2> QED
    BY <2>2, <2>3
<1>5. CASE Issue(s)
  <2> DEFINE o == req[s].order
  <2>1. o \in Orders /\ tickets[o] = <<>> /\ recorded' = recorded
    BY <1>5 DEF Issue, Served, Issuing, Money, Backed, Paying
  <2>2. Len(tickets'[o]) = Quantity
    <3>1. tickets'[o] = <<>> \o [i \in 1 .. Quantity |-> "valid"]
      BY <1>5, <2>1 DEF Issue, TypeOK
    <3>2. Len(<<>> \o [i \in 1 .. Quantity |-> "valid"]) = Quantity
      <4>1. <<>> \in Seq(TicketStatuses) /\ 0 \in Nat
        BY EmptySeq
      <4> QED
        BY ONLY <4>1, TicketCounts
    <3> QED
      BY <3>1, <3>2
  <2>3. \A x \in Orders \ {o} : tickets'[x] = tickets[x]
    BY <1>5 DEF Issue, TypeOK
  <2>4. req'[s].pc = "record event"
    BY <1>5, GotoKeeps DEF Issue
  <2> HIDE DEF o
  <2> QED
    BY <1>0, <2>1, <2>2, <2>3, <2>4 DEF Served, Amounts, Issuing
<1>6. CASE RecordEvent(s)
  BY <1>6, FinishKeeps, ServedMove DEF RecordEvent, Idle
<1>7. CASE CancelOrder(s)
  BY <1>7, GotoKeeps, ServedMove DEF CancelOrder
<1>8. CASE FailPayment(s)
  BY <1>8, GotoKeeps, ServedMove DEF FailPayment
<1>9. CASE Release(s)
  BY <1>9, GotoKeeps, ServedMove DEF Release
<1> QED
  BY <1>1, <1>2, <1>3, <1>4, <1>5, <1>6, <1>7, <1>8, <1>9

(* The statements of refundOrder.                                          *)
LEMMA ServedRefund ==
    ASSUME OneAtATime, TypeOK, Money, Served, NEW s \in Slots,
           \/ VoidTicket(s) \/ AskStripe(s) \/ RecordRefund(s) \/ RefundOrder(s)
           \/ RefundPayment(s) \/ VoidTickets(s) \/ ReleaseRefunded(s)
    PROVE  Served'
<1> USE DEF Deciding, Settling, PCs
<1> DEFINE o == req[s].order
<1>0. /\ \A t \in Slots : t = s
      /\ req[s].already \in Nat /\ req[s].key.amount \in Nat /\ req[s].key.ticket \in Nat
  BY DEF OneAtATime, TypeOK, Req, RefundKey
<1>1. o \in Orders \/ req[s].pc = "release refunded"
  BY DEF VoidTicket, AskStripe, RecordRefund, RefundOrder, RefundPayment, VoidTickets,
     ReleaseRefunded, Money, Backed, Paying
<1>2. EndRefund(s) => req'[s].pc \in {"next order", "idle"}
  BY GotoKeeps, FinishKeeps DEF EndRefund, Idle
<1>3. CASE VoidTicket(s)
  <2>1. recorded' = recorded /\ o \in Orders
    BY <1>1, <1>3 DEF VoidTicket
  <2>2. \A x \in Orders : Len(tickets'[x]) = Len(tickets[x])
    <3>1. tickets[o] \in Seq(TicketStatuses)
      BY <2>1 DEF TypeOK, TicketStatuses
    <3>2. Len([tickets[o] EXCEPT ![req[s].key.ticket] = "refunded"]) = Len(tickets[o])
      BY <1>0, <3>1, TicketCounts
    <3>3. tickets' = [tickets EXCEPT ![o] = [tickets[o] EXCEPT ![req[s].key.ticket] = "refunded"]]
      BY <1>3, <2>1 DEF VoidTicket, TypeOK
    <3> HIDE DEF o
    <3> QED
      BY <2>1, <3>2, <3>3 DEF TypeOK
  <2>3. CASE Finish(s)
    BY <2>1, <2>2, <2>3, FinishKeeps, ServedSet DEF Served, Amounts
  <2>4. CASE AmountFits(o, req[s].already, req[s].key.amount) /\ Goto(s, "stripe")
    <3>1. Amounts(req[s])'
      BY <1>3, <2>1, <2>4, GotoKeeps DEF Served, Amounts, AmountFits, VoidTicket
    <3>2. req'[s].pc # "issue"
      BY <2>4, GotoKeeps
    <3> QED
      BY <2>1, <2>2, <3>1, <3>2, ServedSet DEF Served
  <2> QED
    BY <1>3, <2>3, <2>4 DEF VoidTicket
<1>4. CASE AskStripe(s)
  <2>1. tickets' = tickets /\ recorded' = recorded
    BY <1>4 DEF AskStripe, db
  <2>2. CASE Finish(s)
    BY <2>1, <2>2, FinishKeeps, ServedMove DEF Idle
  <2>3. CASE Goto(s, "record refund")
    <3>1. Amounts(req[s])' /\ req'[s].pc # "issue"
      BY <1>4, <2>1, <2>3, GotoKeeps DEF Served, Amounts, AskStripe
    <3> QED
      BY <2>1, <3>1, ServedSet DEF Served
  <2> QED
    BY <1>4, <2>2, <2>3 DEF AskStripe
<1>5. CASE RecordRefund(s)
  <2>1. o \in Orders /\ tickets' = tickets /\ recorded[o] \in Nat
    BY <1>1, <1>5 DEF RecordRefund, TypeOK
  <2>2. recorded'[o] = recorded[o] + req[s].key.amount
    BY <1>5, <2>1 DEF RecordRefund, TypeOK
  <2>3. \A x \in Orders \ {o} : recorded'[x] = recorded[x]
    BY <1>5 DEF RecordRefund, TypeOK
  <2>4. req'[s].pc = "refund order" /\ req'[s].order = o
        /\ req'[s].key = req[s].key /\ req'[s].already = req[s].already
    BY <1>5, GotoKeeps DEF RecordRefund
  <2>5. recorded[o] = req[s].already /\ req[s].key.amount > 0 /\ req[s].already + req[s].key.amount <= Total
    BY <1>5 DEF RecordRefund, Served, Amounts
  <2> HIDE DEF o
  <2> QED
    BY <1>0, <2>1, <2>2, <2>3, <2>4, <2>5 DEF Served, Amounts, Issuing
<1>6. CASE RefundOrder(s)
  <2>1. tickets' = tickets /\ recorded' = recorded
    BY <1>6 DEF RefundOrder
  <2>2. Amounts(req[s])' /\ req'[s].pc # "issue"
    BY <1>6, <2>1, GotoKeeps DEF Served, Amounts, RefundOrder
  <2> QED
    BY <2>1, <2>2, ServedSet DEF Served
<1>7. CASE RefundPayment(s)
  <2>1. tickets' = tickets /\ recorded' = recorded
    BY <1>7 DEF RefundPayment
  <2>2. CASE EndRefund(s)
    BY <1>2, <2>1, <2>2, ServedMove
  <2>3. CASE Goto(s, "void tickets")
    <3>1. Amounts(req[s])' /\ req'[s].pc # "issue"
      BY <1>7, <2>1, <2>3, GotoKeeps DEF Served, Amounts, RefundPayment
    <3> QED
      BY <2>1, <3>1, ServedSet DEF Served
  <2> QED
    BY <1>7, <2>2, <2>3 DEF RefundPayment
<1>8. CASE VoidTickets(s)
  <2>1. recorded' = recorded /\ o \in Orders
    BY <1>1, <1>8 DEF VoidTickets
  <2>2. \A x \in Orders : Len(tickets'[x]) = Len(tickets[x])
    <3>1. tickets[o] \in Seq(TicketStatuses) /\ 0 \in Nat
      BY <2>1 DEF TypeOK, TicketStatuses
    <3>2. Len([i \in DOMAIN tickets[o] |-> "refunded"]) = Len(tickets[o])
      BY <3>1, TicketCounts
    <3>3. tickets' = [tickets EXCEPT ![o] = [i \in DOMAIN tickets[o] |-> "refunded"]]
      BY <1>8, <2>1 DEF VoidTickets, TypeOK
    <3> HIDE DEF o
    <3> QED
      BY <2>1, <3>2, <3>3 DEF TypeOK
  <2>3. Goto(s, "release refunded")
    BY <1>8 DEF VoidTickets
  <2> QED
    <3>1. Amounts(req[s])' /\ req'[s].pc # "issue"
      BY <1>8, <2>1, <2>3, GotoKeeps DEF Served, Amounts, VoidTickets
    <3> QED
      BY <2>1, <2>2, <3>1, ServedSet DEF Served
<1>9. CASE ReleaseRefunded(s)
  BY <1>2, <1>9, ServedMove DEF ReleaseRefunded
<1> QED
  BY <1>3, <1>4, <1>5, <1>6, <1>7, <1>8, <1>9

(* The loop of a cancellation.                                             *)
LEMMA ServedLoop ==
    ASSUME OneAtATime, TypeOK, Served, NEW s \in Slots, ListOrders(s) \/ NextOrder(s)
    PROVE  Served'
<1>1. req[s] \in Req /\ tickets' = tickets /\ recorded' = recorded /\ \A t \in Slots : t = s
  BY DEF ListOrders, NextOrder, db, TypeOK, OneAtATime
<1>2. CASE ListOrders(s)
  <2>1. req'[s].pc = "next order"
    BY <1>1, <1>2 DEF ListOrders, TypeOK, Req
  <2> QED
    BY <1>1, <2>1, ServedMove DEF Deciding, Settling
<1>3. CASE Finish(s)
  BY <1>1, <1>3, FinishKeeps, ServedMove DEF Idle, Deciding, Settling
<1>4. ASSUME NEW p \in req[s].left, NEW r \in Req, r = [req[s] EXCEPT !.left = @ \ {p}],
             req[s].pc = "next order"
      PROVE  /\ req' = [req EXCEPT ![s] = [r EXCEPT !.pc = "cancel order", !.order = p[1]]] => Served'
             /\ recorded[p[1]] < Total /\ req' = [req EXCEPT ![s] =
                    Decided(r, p[1], "full", Total - recorded[p[1]], 0, "stripe")] => Served'
             /\ req' = [req EXCEPT ![s] = r] => Served'
  <2> DEFINE o == p[1]
             d == Decided(r, o, "full", Total - recorded[o], 0, "stripe")
  <2>1. o \in Orders
    BY <1>1, <1>4 DEF Req
  <2>2. ASSUME req' = [req EXCEPT ![s] = [r EXCEPT !.pc = "cancel order", !.order = o]] PROVE Served'
    <3>1. req'[s].pc = "cancel order"
      BY <1>4, <2>2 DEF TypeOK, Req
    <3> QED
      BY <1>1, <3>1, ServedMove DEF Deciding, Settling
  <2>3. ASSUME recorded[o] < Total, req' = [req EXCEPT ![s] = d] PROVE Served'
    <3>1. req'[s] = d
      BY <2>3 DEF TypeOK
    <3>2. d.pc = "stripe" /\ d.order = o /\ d.already = recorded[o] /\ d.key.amount = Total - recorded[o]
      BY <1>4 DEF Decided, Req
    <3>3. recorded[o] \in Nat
      BY <2>1 DEF TypeOK
    <3> HIDE DEF d, o
    <3> QED
      <4> DEFINE amount == Total - recorded[o]
      <4>1. amount > 0 /\ recorded[o] + amount = Total
        BY <2>3, <3>3, TotalType
      <4>2. req'[s].pc = "stripe" /\ req'[s].already = recorded'[req'[s].order]
            /\ req'[s].key.amount = amount /\ recorded'[req'[s].order] = recorded[o]
        BY <1>1, <3>1, <3>2
      <4>3. Total <= Total
        BY TotalType
      <4> HIDE DEF amount
      <4>4. Amounts(req[s])' /\ req'[s].pc # "issue"
        BY <4>1, <4>2, <4>3 DEF Amounts, Deciding, Settling
      <4> QED
        BY <1>1, <4>4, ServedSet DEF Served
  <2>4. ASSUME req' = [req EXCEPT ![s] = r] PROVE Served'
    <3>1. req'[s].pc = "next order"
      BY <1>1, <1>4, <2>4 DEF TypeOK, Req
    <3> QED
      BY <1>1, <3>1, ServedMove DEF Deciding, Settling
  <2> QED
    BY <2>2, <2>3, <2>4
<1>5. CASE NextOrder(s)
  <2>1. \A p \in req[s].left : [req[s] EXCEPT !.left = @ \ {p}] \in Req
    BY <1>1 DEF Req
  <2> QED
    BY <1>3, <1>4, <1>5, <2>1 DEF NextOrder
<1> QED
  BY <1>2, <1>5

(* Every step keeps what was decided and issued in agreement.              *)
LEMMA ServedStep ==
    ASSUME OneAtATime, TypeOK, Events, Money, Served, [Next]_vars PROVE Served'
<1>1. CASE UNCHANGED vars
  BY <1>1 DEF vars, db, Served, Amounts, Issuing
<1>2. ASSUME NEW o \in Orders, Buyer(o) PROVE Served'
  <2>1. UNCHANGED <<tickets, recorded, req>>
    BY <1>2 DEF Buyer, Purchase, Decline, EndSession, db
  <2> QED
    BY <2>1 DEF Served, Amounts, Issuing
<1>3. ASSUME NEW s \in Slots, Organizer(s) \/ Webhook(s) \/ Crash(s) PROVE Served'
  BY <1>3, ServedStart
<1>4. ASSUME NEW s \in Slots, Step(s) PROVE Served'
  BY <1>4, ServedWebhook, ServedRefund, ServedLoop DEF Step
<1> QED
  BY <1>1, <1>2, <1>3, <1>4 DEF Next

(* Nothing was decided at first.                                           *)
LEMMA InitServed == Init => Served
<1> SUFFICES ASSUME Init PROVE Served
  OBVIOUS
<1>1. \A s \in Slots : Amounts(req[s]) /\ Issuing(req[s])
  BY DEF Init, Idle, Amounts, Issuing, Deciding, Settling
<1>2. \A o \in Orders : tickets[o] = <<>> /\ Len(tickets[o]) = 0 /\ recorded[o] = 0
  BY EmptySeq DEF Init
<1> QED
  BY <1>1, <1>2, TotalType DEF Served

(* Where handlers take turns, an order's tickets are issued once, however  *)
(* often its completion is delivered and wherever a delivery dies, for any *)
(* orders, quantities and crashes.                                         *)
THEOREM IssuedOnceInTurn ==
    ASSUME OneAtATime PROVE Spec => []TicketsIssuedOnce
<1>1. Init => TypeOK /\ Events /\ Money /\ Served
  BY InitType, InitEvents, InitMoney, InitServed
<1>2. Served => TicketsIssuedOnce
  BY DEF Served, TicketsIssuedOnce
<1>3. TypeOK /\ Events /\ Money /\ Served /\ [Next]_vars => Served'
  BY ServedStep
<1> QED
  BY <1>1, <1>2, <1>3, StepType, StepMoney, PTL DEF Spec

(* Where handlers take turns, no more is recorded as refunded than the     *)
(* order's total, for any amounts, tickets, crashes and cancellations.     *)
THEOREM RefundsFitInTurn ==
    ASSUME OneAtATime PROVE Spec => []RecordedWithinTotal
<1>1. Init => TypeOK /\ Events /\ Money /\ Served
  BY InitType, InitEvents, InitMoney, InitServed
<1>2. Served => RecordedWithinTotal
  BY DEF Served, RecordedWithinTotal
<1>3. TypeOK /\ Events /\ Money /\ Served /\ [Next]_vars => Served'
  BY ServedStep
<1> QED
  BY <1>1, <1>2, <1>3, StepType, StepMoney, PTL DEF Spec

-----------------------------------------------------------------------------
(* A cancellation in hand: its list holds each order once, by the status   *)
(* the order still has unless it was only placed since; and an order with  *)
(* money is on the list, or is being refunded in full.                     *)
Owing == {"stripe", "record refund", "refund order"}
Working == Owing \cup {"cancel order", "fail payment", "release", "refund payment",
                       "void tickets", "release refunded"}
Loop(r) ==
    /\ r.pc = "idle" => ~r.cancelling
    /\ r.pc = "list orders" \/ ~r.cancelling => r.left = {}
    /\ r.cancelling => r.pc \in Working \cup Loops
    /\ \A p \in r.left : p[2] = order[p[1]] \/ p[2] = "none"
    /\ \A p, q \in r.left : p[1] = q[1] => p = q
    /\ r.pc \in Working => \A p \in r.left : p[1] # r.order
    /\ r.cancelling /\ r.pc \in Owing => r.already + r.key.amount = Total
    /\ r.cancelling /\ r.pc # "list orders" => \A o \in Orders : HasMoney(order[o]) =>
          <<o, order[o]>> \in r.left \/ (r.pc \in Owing /\ r.order = o)
Listed == \A s \in Slots : Loop(req[s])

(* One handler tells the whole, where there is one.                        *)
LEMMA ListedSet ==
    ASSUME OneAtATime, NEW s \in Slots, Loop(req[s])' PROVE Listed'
BY DEF OneAtATime, Listed

(* A handler that is not, or no longer, cancelling the event.              *)
LEMMA ListedFree ==
    ASSUME OneAtATime, NEW s \in Slots, ~req'[s].cancelling, req'[s].left = {} PROVE Listed'
<1>1. Loop(req[s])'
  BY DEF Loop
<1> QED
  BY <1>1, ListedSet

(* One that goes on, not cancelling.                                       *)
LEMMA ListedGoto ==
    ASSUME OneAtATime, TypeOK, Listed, NEW s \in Slots, ~req[s].cancelling,
           NEW pc \in PCs, Goto(s, pc)
    PROVE  Listed'
<1>1. ~req'[s].cancelling /\ req'[s].left = {}
  BY GotoKeeps DEF Listed, Loop
<1> QED
  BY <1>1, ListedFree

(* One that ends.                                                          *)
LEMMA ListedFinish ==
    ASSUME OneAtATime, TypeOK, NEW s \in Slots, Finish(s) PROVE Listed'
BY FinishKeeps, ListedFree

(* A statement that leaves the order's status alone.                       *)
LEMMA ListedMove ==
    ASSUME OneAtATime, TypeOK, Listed, NEW s \in Slots, order' = order, req[s].pc \in Working,
           NEW pc \in Working \cup {"next order"}, Goto(s, pc),
           pc \in Owing <=> req[s].pc \in Owing
    PROVE  Listed'
<1>1. Loop(req[s]) /\ pc \in PCs
  BY DEF Listed, Working, Owing, PCs
<1>2. /\ pc \in Working \cup Loops /\ pc # "idle" /\ pc # "list orders"
      /\ req[s].pc # "idle" /\ req[s].pc # "list orders"
  BY DEF Working, Owing, Loops
<1>3. /\ req'[s].pc = pc /\ req'[s].order = req[s].order /\ req'[s].left = req[s].left
      /\ req'[s].key = req[s].key /\ req'[s].already = req[s].already
      /\ req'[s].cancelling = req[s].cancelling
  BY <1>1, GotoKeeps
<1>4. Loop(req[s])'
  BY <1>1, <1>2, <1>3 DEF Loop
<1> QED
  BY <1>4, ListedSet

(* One that gives the order a status without money.                        *)
LEMMA ListedSettle ==
    ASSUME OneAtATime, TypeOK, Listed, NEW s \in Slots, req[s].pc \in Working,
           NEW status, req[s].cancelling => ~HasMoney(status),
           order' = [order EXCEPT ![req[s].order] = status],
           NEW pc \in Working \ Owing, Goto(s, pc)
    PROVE  Listed'
<1> DEFINE o == req[s].order
<1>1. Loop(req[s]) /\ pc \in PCs /\ req[s] \in Req
  BY DEF Listed, Working, Owing, PCs, TypeOK
<1>0. req[s].left \subseteq Orders \X OrderStatuses
  BY <1>1 DEF Req
<1>2. \A x \in Orders \ {o} : order'[x] = order[x]
  BY DEF TypeOK
<1>3. o \in Orders => order'[o] = status
  BY DEF TypeOK
<1>4. \A p \in req[s].left : p[1] \in Orders /\ p[1] # o
  BY <1>0, <1>1 DEF Loop
<1> HIDE DEF o
<1>5. CASE req[s].cancelling
  <2>1. \A x \in Orders : HasMoney(order'[x]) => x # o /\ <<x, order'[x]>> \in req[s].left
    <3>1. req[s].pc \notin Loops
      BY DEF Working, Owing, Loops
    <3>2. \A x \in Orders : HasMoney(order[x]) => <<x, order[x]>> \in req[s].left \/ o = x
      BY <1>1, <1>5, <3>1 DEF Loop, Loops, o
    <3>3. ~HasMoney(status)
      BY <1>5
    <3> QED
      BY <1>2, <1>3, <3>2, <3>3
  <2>2. \A p \in req[s].left : p[2] = order'[p[1]] \/ p[2] = "none"
    BY <1>1, <1>2, <1>4 DEF Loop
  <2>3. pc \notin Owing /\ pc \notin {"idle", "list orders"}
    BY DEF Working, Owing
  <2>4. Loop(req[s])'
    <3>1. /\ req'[s].pc = pc /\ req'[s].order = o /\ req'[s].left = req[s].left
          /\ req'[s].cancelling
      BY <1>1, <1>5, GotoKeeps DEF o
    <3>2. \A p, q \in req[s].left : p[1] = q[1] => p = q
      BY <1>1 DEF Loop
    <3> QED
      BY <1>4, <2>1, <2>2, <2>3, <3>1, <3>2 DEF Loop
  <2> QED
    BY <2>4, ListedSet
<1>6. CASE ~req[s].cancelling
  BY <1>1, <1>6, ListedGoto
<1> QED
  BY <1>5, <1>6

(* The webhook's answers are not part of a cancellation.                   *)
LEMMA ListedWebhook ==
    ASSUME OneAtATime, TypeOK, Listed, NEW s \in Slots,
           \/ PayOrder(s) \/ PayPayment(s) \/ Confirm(s) \/ ListTickets(s) \/ Issue(s)
           \/ RecordEvent(s) \/ CancelOrder(s) \/ FailPayment(s) \/ Release(s)
    PROVE  Listed'
<1> USE DEF PCs
<1>1. CASE PayOrder(s) \/ PayPayment(s) \/ Confirm(s) \/ ListTickets(s) \/ Issue(s) \/ RecordEvent(s)
  <2>1. req[s].pc \notin Working \cup Loops
    BY <1>1 DEF PayOrder, PayPayment, Confirm, ListTickets, Issue, RecordEvent,
       Working, Owing, Loops
  <2>2. ~req[s].cancelling
    BY <2>1 DEF Listed, Loop
  <2>3. Finish(s) \/ \E pc \in PCs : Goto(s, pc)
    BY <1>1 DEF PayOrder, PayPayment, Confirm, ListTickets, Issue, RecordEvent
  <2> QED
    BY <2>2, <2>3, ListedGoto, ListedFinish
<1>2. CASE CancelOrder(s)
  BY <1>2, ListedSettle DEF CancelOrder, Working, Owing, HasMoney
<1>3. CASE FailPayment(s)
  BY <1>3, ListedMove DEF FailPayment, Working, Owing
<1>4. CASE Release(s)
  BY <1>4, ListedMove, ListedGoto DEF Release, Working, Owing
<1> QED
  BY <1>1, <1>2, <1>3, <1>4

(* A refund within a cancellation is of all that is left.                  *)
LEMMA ListedRefund ==
    ASSUME OneAtATime, TypeOK, Listed, NEW s \in Slots,
           \/ VoidTicket(s) \/ AskStripe(s) \/ RecordRefund(s) \/ RefundOrder(s)
           \/ RefundPayment(s) \/ VoidTickets(s) \/ ReleaseRefunded(s)
    PROVE  Listed'
<1> USE DEF PCs
<1>1. CASE VoidTicket(s)
  <2>1. ~req[s].cancelling
    BY <1>1 DEF VoidTicket, Listed, Loop, Working, Owing, Loops
  <2> QED
    BY <1>1, <2>1, ListedGoto, ListedFinish DEF VoidTicket
<1>2. CASE AskStripe(s)
  BY <1>2, ListedMove, ListedFinish DEF AskStripe, db, Working, Owing
<1>3. CASE RecordRefund(s)
  BY <1>3, ListedMove DEF RecordRefund, Working, Owing
<1>4. CASE RefundOrder(s)
  <2>1. req[s].cancelling => Fully(req[s])
    <3>1. req[s].cancelling => req[s].already + req[s].key.amount = Total
      BY <1>4 DEF RefundOrder, Listed, Loop, Owing
    <3> QED
      BY <3>1, TotalType DEF Fully
  <2>2. req[s].cancelling => ~HasMoney(Refunded(req[s]))
    BY <2>1 DEF Refunded, HasMoney
  <2> QED
    BY <1>4, <2>2, ListedSettle DEF RefundOrder, Working, Owing
<1>5. req[s].pc \in Working \ Owing /\ order' = order /\ EndRefund(s) => Listed'
  BY ListedMove, ListedFinish DEF EndRefund, Working, Owing
<1>6. CASE RefundPayment(s)
  BY <1>5, <1>6, ListedMove DEF RefundPayment, Working, Owing
<1>7. CASE VoidTickets(s)
  BY <1>7, ListedMove DEF VoidTickets, Working, Owing
<1>8. CASE ReleaseRefunded(s)
  BY <1>5, <1>8 DEF ReleaseRefunded, Working, Owing
<1> QED
  BY <1>1, <1>2, <1>3, <1>4, <1>6, <1>7, <1>8

(* What starts a handler, and one that dies.                               *)
LEMMA ListedStart ==
    ASSUME OneAtATime, TypeOK, Listed, NEW s \in Slots, Organizer(s) \/ Webhook(s) \/ Crash(s)
    PROVE  Listed'
<1>1. req[s] \in Req /\ order' = order
  BY DEF Organizer, Webhook, RefundAmount, RefundRest, RefundTicket, CancelEvent, Deliver,
     Crash, db, TypeOK
<1>2. req[s].pc = "idle" => ~req[s].cancelling /\ req[s].left = {}
  BY DEF Listed, Loop
<1>3. ASSUME req[s].pc = "idle", NEW o, NEW kind, NEW amount, NEW i, NEW pc,
             req' = [req EXCEPT ![s] = Decided(req[s], o, kind, amount, i, pc)]
      PROVE  Listed'
  <2>1. req'[s] = Decided(req[s], o, kind, amount, i, pc)
    BY <1>3 DEF TypeOK
  <2>2. ~req'[s].cancelling /\ req'[s].left = {}
    BY <1>1, <1>2, <1>3, <2>1 DEF Decided, Req
  <2> QED
    BY <2>2, ListedFree
<1>4. ASSUME NEW o, NEW a, RefundAmount(s, o, a) PROVE Listed'
  BY <1>3, <1>4 DEF RefundAmount
<1>5. ASSUME NEW o, NEW i, RefundTicket(s, o, i) PROVE Listed'
  BY <1>3, <1>5 DEF RefundTicket
<1>6. CASE CancelEvent(s)
  <2>1. /\ req'[s].pc = "list orders" /\ req'[s].cancelling /\ req'[s].left = {}
    BY <1>1, <1>2, <1>6 DEF CancelEvent, Req, TypeOK
  <2>2. Loop(req[s])'
    BY <2>1 DEF Loop, Working, Owing, Loops
  <2> QED
    BY <2>2, ListedSet
<1>7. ASSUME NEW e \in sent, Deliver(s, e) PROVE Listed'
  <2>1. ~req'[s].cancelling /\ req'[s].left = {}
    BY <1>7 DEF Deliver, Handling, TypeOK, Idle
  <2> QED
    BY <2>1, ListedFree
<1>8. CASE Crash(s)
  BY <1>8, ListedFinish DEF Crash
<1> QED
  BY <1>4, <1>5, <1>6, <1>7, <1>8 DEF Organizer, Webhook, RefundRest

(* The list itself, and its next order.                                    *)
LEMMA ListedLoop ==
    ASSUME OneAtATime, TypeOK, Events, Listed, NEW s \in Slots, ListOrders(s) \/ NextOrder(s)
    PROVE  Listed'
<1>1. req[s] \in Req /\ order' = order /\ req[s].cancelling /\ Loop(req[s])
  BY DEF ListOrders, NextOrder, db, TypeOK, Events, Loops, Listed
<1>2. CASE ListOrders(s)
  <2>1. /\ req'[s].pc = "next order" /\ req'[s].cancelling
        /\ req'[s].left = {<<o, order[o]>> : o \in Orders}
    BY <1>1, <1>2 DEF ListOrders, TypeOK, Req
  <2>2. Loop(req[s])'
    <3> DEFINE L == {<<o, order[o]>> : o \in Orders}
    <3>1. /\ \A p \in L : p[2] = order'[p[1]]
          /\ \A p, q \in L : p[1] = q[1] => p = q
          /\ \A x \in Orders : <<x, order'[x]>> \in L
      BY <1>1
    <3>2. /\ req'[s].pc = "next order" /\ req'[s].cancelling /\ req'[s].left = L
      BY <2>1
    <3> HIDE DEF L
    <3> QED
      BY <3>1, <3>2 DEF Loop, Working, Owing, Loops
  <2> QED
    BY <2>2, ListedSet
<1>3. ASSUME NEW p \in req[s].left, NEW r \in Req, r = [req[s] EXCEPT !.left = @ \ {p}],
             req[s].pc = "next order"
      PROVE  /\ p[2] = "pending" /\ req' = [req EXCEPT ![s] =
                    [r EXCEPT !.pc = "cancel order", !.order = p[1]]] => Listed'
             /\ recorded[p[1]] < Total /\ req' = [req EXCEPT ![s] =
                    Decided(r, p[1], "full", Total - recorded[p[1]], 0, "stripe")] => Listed'
             /\ ~HasMoney(p[2]) /\ req' = [req EXCEPT ![s] = r] => Listed'
  <2> DEFINE o == p[1]
             d == Decided(r, o, "full", Total - recorded[o], 0, "stripe")
             c == [r EXCEPT !.pc = "cancel order", !.order = o]
  <2>1. o \in Orders /\ p = <<o, p[2]>>
    <3>1. req[s].left \subseteq Orders \X OrderStatuses
      BY <1>1 DEF Req
    <3> QED
      BY <3>1
  <2>2. r.pc = "next order" /\ r.cancelling /\ r.left = req[s].left \ {p}
    BY <1>1, <1>3 DEF Req
  <2>3. /\ \A q \in r.left : q[1] # o
        /\ \A q \in r.left : q[2] = order'[q[1]] \/ q[2] = "none"
        /\ \A q, t \in r.left : q[1] = t[1] => q = t
        /\ \A x \in Orders \ {o} : HasMoney(order'[x]) => <<x, order'[x]>> \in r.left
    <3>1. \A x \in Orders : HasMoney(order[x]) => <<x, order[x]>> \in req[s].left
      BY <1>1, <1>3 DEF Loop, Owing
    <3> QED
      BY <1>1, <2>1, <2>2, <3>1 DEF Loop
  <2>4. ~HasMoney(p[2]) => ~HasMoney(order[o])
    <3>1. HasMoney(order[o]) => <<o, order[o]>> \in req[s].left
      BY <1>1, <1>3, <2>1 DEF Loop, Owing
    <3>2. <<o, order[o]>> \in req[s].left => p = <<o, order[o]>>
      BY <1>1, <2>1 DEF Loop
    <3> QED
      BY <3>1, <3>2
  <2>5. ASSUME p[2] = "pending", req' = [req EXCEPT ![s] = c] PROVE Listed'
    <3>1. req'[s].pc = "cancel order" /\ req'[s].order = o /\ req'[s].cancelling
          /\ req'[s].left = r.left
      BY <1>3, <2>2, <2>5 DEF TypeOK, Req
    <3>2. ~HasMoney(order'[o])
      BY <1>1, <2>4, <2>5 DEF HasMoney
    <3> HIDE DEF o
    <3>3. Loop(req[s])'
      BY <2>3, <3>1, <3>2 DEF Loop, Working, Owing
    <3> QED
      BY <3>3, ListedSet
  <2>6. ASSUME recorded[o] < Total, req' = [req EXCEPT ![s] = d] PROVE Listed'
    <3>1. req'[s] = d
      BY <2>6 DEF TypeOK
    <3>2. d.pc = "stripe" /\ d.order = o /\ d.already = recorded[o]
          /\ d.key.amount = Total - recorded[o] /\ d.cancelling /\ d.left = r.left
      BY <1>3, <2>2 DEF Decided, Req
    <3>3. recorded[o] + (Total - recorded[o]) = Total
      BY <2>1, TotalType DEF TypeOK
    <3> HIDE DEF d, o
    <3>4. Loop(req[s])'
      BY <2>3, <3>1, <3>2, <3>3 DEF Loop, Working, Owing
    <3> QED
      BY <3>4, ListedSet
  <2>7. ASSUME ~HasMoney(p[2]), req' = [req EXCEPT ![s] = r] PROVE Listed'
    <3>1. req'[s].pc = "next order" /\ req'[s].cancelling /\ req'[s].left = r.left
      BY <2>2, <2>7 DEF TypeOK
    <3>2. ~HasMoney(order'[o])
      BY <1>1, <2>4, <2>7
    <3> HIDE DEF o
    <3>3. Loop(req[s])'
      BY <2>3, <3>1, <3>2 DEF Loop, Working, Owing, Loops
    <3> QED
      BY <3>3, ListedSet
  <2> QED
    BY <2>5, <2>6, <2>7
<1>4. CASE NextOrder(s)
  <2>1. \A p \in req[s].left : [req[s] EXCEPT !.left = @ \ {p}] \in Req
    BY <1>1 DEF Req
  <2> QED
    BY <1>3, <1>4, <2>1, ListedFinish DEF NextOrder
<1> QED
  BY <1>2, <1>4

(* Every step keeps the list true.                                         *)
LEMMA ListedStep ==
    ASSUME OneAtATime, TypeOK, Events, Listed, [Next]_vars PROVE Listed'
<1>1. CASE UNCHANGED vars
  BY <1>1 DEF vars, db, Listed, Loop
<1>2. ASSUME NEW o \in Orders, Buyer(o) PROVE Listed'
  <2>1. req' = req /\ \A s \in Slots : req[s] \in Req
    BY <1>2 DEF Buyer, Purchase, Decline, EndSession, TypeOK
  <2>2. \A x \in Orders : order'[x] = order[x] \/ (order[x] = "none" /\ order'[x] = "pending")
    BY <1>2 DEF Buyer, Purchase, Decline, EndSession, db, TypeOK
  <2>3. ASSUME NEW s \in Slots PROVE Loop(req[s])'
    <3>1. Loop(req[s]) /\ \A p \in req[s].left : p[1] \in Orders
      BY <2>1 DEF Listed, Req
    <3> QED
      BY <2>1, <2>2, <3>1 DEF Loop, HasMoney
  <2> QED
    BY <2>3 DEF Listed
<1>3. ASSUME NEW s \in Slots, Organizer(s) \/ Webhook(s) \/ Crash(s) PROVE Listed'
  BY <1>3, ListedStart
<1>4. ASSUME NEW s \in Slots, Step(s) PROVE Listed'
  BY <1>4, ListedWebhook, ListedRefund, ListedLoop DEF Step
<1> QED
  BY <1>1, <1>2, <1>3, <1>4 DEF Next

(* No cancellation is in hand at first.                                    *)
LEMMA InitListed == Init => Listed
<1>1. Idle.pc = "idle" /\ ~Idle.cancelling /\ Idle.left = {}
  BY DEF Idle
<1>2. Loop(Idle)
  BY <1>1 DEF Loop, Working, Owing
<1> QED
  BY <1>2 DEF Init, Listed

(* Where handlers take turns, a cancellation that came through its list    *)
(* leaves no order with money, whatever was refunded before, purchased     *)
(* meanwhile or died in an earlier attempt.                                *)
THEOREM CancellationRefundsInTurn ==
    ASSUME OneAtATime PROVE Spec => []CancellationRefunds
<1>1. Init => TypeOK /\ Events /\ Listed
  BY InitType, InitEvents, InitListed
<1>2. Listed => CancellationRefunds
  BY DEF Listed, Loop, Owing, CancellationRefunds, Through, HasMoney
<1>3. TypeOK /\ Events /\ Listed /\ [Next]_vars => Listed'
  BY ListedStep
<1> QED
  BY <1>1, <1>2, <1>3, StepType, PTL DEF Spec

-----------------------------------------------------------------------------
(* While nothing died, every order's rows agree but those of the order     *)
(* being served; Halfway says what they are at each statement of that.     *)
AllVoid(o) == \A i \in DOMAIN tickets[o] : tickets[o][i] = "refunded"
Agree(o) ==
    /\ order[o] = "refunded" <=> recorded[o] = Total
    /\ order[o] = "partially_refunded" <=> recorded[o] \in 1 .. Total - 1
    /\ order[o] \in {"paid", "partially_refunded"} <=> seat[o] = "confirmed"
    /\ order[o] \in {"cancelled", "refunded"} <=> seat[o] = "cancelled"
    /\ order[o] = "cancelled" <=> payment[o].status = "failed"
    /\ order[o] \in OrderStatuses \ {"cancelled"} => payment[o].status = order[o]
    /\ order[o] = "refunded" => AllVoid(o)

Settled == {"idle", "record event", "list orders", "next order"}
Completion(o) == [order |-> o, type |-> "completed"]

Halfway(r) ==
    /\ r.pc \notin Settled => r.order \in Orders
    /\ r.pc \in {"pay order", "pay payment", "confirm", "list tickets", "issue"} =>
          r.event = Completion(r.order)
    /\ r.pc = "pay order" => Agree(r.order) /\ order[r.order] \in {"pending", "cancelled"}
    /\ r.pc \in {"pay payment", "confirm"} => order[r.order] = "paid" /\ recorded[r.order] = 0
    /\ r.pc = "confirm" => payment[r.order].status = "paid"
    /\ r.pc \in {"list tickets", "issue"} => Agree(r.order) /\ order[r.order] = "paid"
    /\ r.pc = "cancel order" => Agree(r.order) /\ order[r.order] = "pending"
    /\ r.pc \in {"fail payment", "release"} =>
          order[r.order] = "cancelled" /\ recorded[r.order] = 0
    /\ r.pc = "release" => payment[r.order].status = "failed"
    /\ r.pc \in Deciding => Agree(r.order) /\ HasMoney(order[r.order])
    /\ r.pc = "refund order" => HasMoney(order[r.order])
    /\ r.pc \in Settling => seat[r.order] = "confirmed"
    /\ r.pc \in Settling \ {"refund order"} => order[r.order] = Refunded(r)
    /\ r.pc \in {"void tickets", "release refunded"} =>
          payment[r.order].status = "refunded" /\ Fully(r)
    /\ r.pc = "release refunded" => AllVoid(r.order)

(* An order that was paid for has had its completion handled, or nearly.   *)
Answered == {"pay payment", "confirm", "list tickets", "issue", "record event"}
Handled(s, o) == \/ Completion(o) \in processed
                 \/ req[s].pc \in Answered /\ req[s].event = Completion(o)
PaidFor(o) == order[o] \in {"paid", "partially_refunded", "refunded"}

Agreement == crashes = 0 => \A s \in Slots :
    /\ \A o \in Orders : Agree(o) \/ (req[s].pc \notin Settled /\ req[s].order = o)
    /\ \A o \in Orders : PaidFor(o) => Handled(s, o)
    /\ Halfway(req[s])

RowsSame(o) == /\ order'[o] = order[o] /\ payment'[o].status = payment[o].status
               /\ seat'[o] = seat[o] /\ recorded'[o] = recorded[o]
               /\ tickets'[o] = tickets[o]

(* An order costs something.                                               *)
LEMMA TotalPositive == Total \in Nat \ {0}
<1>1. Quantity >= 1 /\ Price >= 1 /\ Quantity \in Nat /\ Price \in Nat
  BY AmountsAssumption
<1> QED
  BY <1>1 DEF Total

(* Rows that do not change go on agreeing.                                 *)
LEMMA AgreeSame == ASSUME NEW o, RowsSame(o), Agree(o) PROVE Agree(o)'
BY DEF RowsSame, Agree, AllVoid

(* Rows that agree of an order not paid for record no refund.              *)
LEMMA NothingRecorded ==
    ASSUME TypeOK, Served, NEW o \in Orders, Agree(o), ~PaidFor(o) PROVE recorded[o] = 0
BY TotalPositive DEF TypeOK, Served, Agree, PaidFor

(* A statement that serves an order touches no rows but its own.           *)
LEMMA AgreementServe ==
    ASSUME OneAtATime, Agreement, crashes = 0, NEW s \in Slots, NEW o \in Orders,
           req[s].order = o, \A x \in Orders \ {o} : RowsSame(x),
           Agree(o)' \/ (req'[s].pc \notin Settled /\ req'[s].order = o),
           \A x \in Orders : Handled(s, x) => Handled(s, x)',
           PaidFor(o)' => Handled(s, o)', Halfway(req[s])'
    PROVE  Agreement'
<1>1. \A x \in Orders \ {o} : Agree(x)'
  BY AgreeSame DEF Agreement
<1>2. \A x \in Orders : PaidFor(x)' => Handled(s, x)'
  BY DEF Agreement, RowsSame, PaidFor
<1> QED
  BY <1>1, <1>2 DEF OneAtATime, Agreement

(* A step that touches none.                                               *)
LEMMA AgreementMove ==
    ASSUME OneAtATime, Agreement, crashes = 0, NEW s \in Slots,
           \A x \in Orders : RowsSame(x),
           \/ req[s].pc \in Settled \/ Agree(req[s].order)
           \/ req'[s].pc \notin Settled /\ req'[s].order = req[s].order,
           \A x \in Orders : Handled(s, x) => Handled(s, x)', Halfway(req[s])'
    PROVE  Agreement'
<1>1. \A x \in Orders : Agree(x)' \/ (req'[s].pc \notin Settled /\ req'[s].order = x)
  BY AgreeSame DEF Agreement
<1>2. \A x \in Orders : PaidFor(x)' => Handled(s, x)'
  BY DEF Agreement, RowsSame, PaidFor
<1> QED
  BY <1>1, <1>2 DEF OneAtATime, Agreement

(* Going on keeps what was handled, if it stays among the answers or was   *)
(* not there.                                                              *)
LEMMA HandledGoto ==
    ASSUME TypeOK, NEW s \in Slots, NEW pc \in PCs, Goto(s, pc), processed' = processed,
           req[s].pc \in Answered => pc \in Answered
    PROVE  \A x : Handled(s, x) => Handled(s, x)'
BY GotoKeeps DEF Handled, Completion

(* What the served order's handler knows.                                  *)
LEMMA Serving ==
    ASSUME TypeOK, Agreement, crashes = 0, NEW s \in Slots, req[s].pc \notin Settled
    PROVE  /\ req[s].order \in Orders /\ Halfway(req[s])
           /\ \A o \in Orders : PaidFor(o) => Handled(s, o)
BY DEF Agreement, Halfway

(* The statements of the webhook's answer.                                 *)
LEMMA AgreementWebhook ==
    ASSUME OneAtATime, TypeOK, Served, Agreement, crashes = 0,
           NEW s \in Slots, NEW o, o = req[s].order,
           \/ PayOrder(s) \/ PayPayment(s) \/ Confirm(s) \/ ListTickets(s) \/ Issue(s)
           \/ RecordEvent(s) \/ CancelOrder(s) \/ FailPayment(s) \/ Release(s)
    PROVE  Agreement'
<1> USE DEF PCs, Settled, Answered
<1>1. CASE PayOrder(s)
  <2>1. o \in Orders /\ Halfway(req[s]) /\ req[s].pc = "pay order"
    BY <1>1, Serving DEF PayOrder
  <2>2. Agree(o) /\ ~PaidFor(o) /\ req[s].event = Completion(o)
    BY <2>1 DEF Halfway, PaidFor
  <2>3. recorded[o] = 0
    BY <2>1, <2>2, NothingRecorded
  <2>4. /\ req'[s].pc = "pay payment" /\ req'[s].order = o /\ req'[s].event = Completion(o)
    BY <1>1, <2>2, GotoKeeps DEF PayOrder
  <2>5. order'[o] = "paid" /\ recorded'[o] = 0 /\ \A x \in Orders \ {o} : RowsSame(x)
    BY <1>1, <2>1, <2>3 DEF PayOrder, TypeOK, RowsSame
  <2>6. \A x \in Orders : Handled(s, x) => Handled(s, x)'
    BY <1>1, HandledGoto DEF PayOrder
  <2>7. Halfway(req[s])'
    BY <2>1, <2>4, <2>5 DEF Halfway, Completion, Deciding, Settling
  <2>8. Handled(s, o)'
    BY <2>4 DEF Handled, Completion
  <2> QED
    BY <2>1, <2>4, <2>5, <2>6, <2>7, <2>8, AgreementServe
<1>2. CASE PayPayment(s)
  <2>1. o \in Orders /\ Halfway(req[s]) /\ req[s].pc = "pay payment" /\ Handled(s, o)
    BY <1>2, Serving DEF PayPayment, Halfway, PaidFor
  <2>2. order[o] = "paid" /\ recorded[o] = 0 /\ req[s].event = Completion(o)
    BY <2>1 DEF Halfway
  <2>4. /\ req'[s].pc = "confirm" /\ req'[s].order = o /\ req'[s].event = Completion(o)
    BY <1>2, <2>2, GotoKeeps DEF PayPayment
  <2>5. /\ order'[o] = "paid" /\ recorded'[o] = 0 /\ payment'[o].status = "paid"
        /\ \A x \in Orders \ {o} : RowsSame(x)
    BY <1>2, <2>1, <2>2 DEF PayPayment, TypeOK, RowsSame, Payment
  <2>6. \A x \in Orders : Handled(s, x) => Handled(s, x)'
    BY <1>2, HandledGoto DEF PayPayment
  <2>7. Halfway(req[s])'
    BY <2>1, <2>4, <2>5 DEF Halfway, Completion, Deciding, Settling
  <2> QED
    BY <2>1, <2>4, <2>5, <2>6, <2>7, AgreementServe
<1>3. CASE Confirm(s)
  <2>1. o \in Orders /\ Halfway(req[s]) /\ req[s].pc = "confirm" /\ Handled(s, o)
    BY <1>3, Serving DEF Confirm, Halfway, PaidFor
  <2>2. order[o] = "paid" /\ recorded[o] = 0 /\ req[s].event = Completion(o) /\ payment[o].status = "paid"
    BY <2>1 DEF Halfway
  <2>4. /\ req'[s].pc = "list tickets" /\ req'[s].order = o /\ req'[s].event = Completion(o)
    BY <1>3, <2>2, GotoKeeps DEF Confirm
  <2>5. /\ order'[o] = "paid" /\ recorded'[o] = 0 /\ payment'[o].status = "paid"
        /\ seat'[o] = "confirmed"
        /\ \A x \in Orders \ {o} : RowsSame(x)
    BY <1>3, <2>1, <2>2 DEF Confirm, TypeOK, RowsSame
  <2>6. \A x \in Orders : Handled(s, x) => Handled(s, x)'
    BY <1>3, HandledGoto DEF Confirm
  <2>8. Agree(o)'
    BY <2>5, TotalPositive DEF Agree
  <2>7. Halfway(req[s])'
    BY <2>1, <2>4, <2>5, <2>8 DEF Halfway, Completion, Deciding, Settling
  <2> QED
    BY <2>1, <2>4, <2>5, <2>6, <2>7, AgreementServe
<1>4. CASE ListTickets(s)
  <2>1. o \in Orders /\ Halfway(req[s]) /\ req[s].pc = "list tickets"
    BY <1>4, Serving DEF ListTickets
  <2>2. Agree(o) /\ order[o] = "paid" /\ req[s].event = Completion(o)
    BY <2>1 DEF Halfway
  <2>3. \A x \in Orders : RowsSame(x)
    BY <1>4 DEF ListTickets, db, RowsSame
  <2>4. /\ req'[s].pc \in {"record event", "issue"} /\ req'[s].order = o
        /\ req'[s].event = Completion(o)
    BY <1>4, <2>2, GotoKeeps DEF ListTickets
  <2>5. \A x \in Orders : Handled(s, x) => Handled(s, x)'
    BY <1>4, HandledGoto DEF ListTickets, db
  <2>6. Agree(o)' /\ order'[o] = "paid"
    BY <2>1, <2>2, <2>3, AgreeSame DEF RowsSame
  <2>7. Halfway(req[s])'
    BY <2>1, <2>4, <2>6 DEF Halfway, Completion, Deciding, Settling
  <2> QED
    BY <2>2, <2>3, <2>5, <2>7, AgreementMove
<1>5. CASE Issue(s)
  <2>1. o \in Orders /\ Halfway(req[s]) /\ req[s].pc = "issue" /\ Handled(s, o)
    BY <1>5, Serving DEF Issue, Halfway, PaidFor
  <2>2. Agree(o) /\ order[o] = "paid"
    BY <2>1 DEF Halfway
  <2>4. req'[s].pc = "record event"
    BY <1>5, GotoKeeps DEF Issue
  <2>5. \A x \in Orders \ {o} : RowsSame(x)
    BY <1>5, <2>1 DEF Issue, TypeOK, RowsSame
  <2>6. \A x \in Orders : Handled(s, x) => Handled(s, x)'
    BY <1>5, HandledGoto DEF Issue
  <2>8. Agree(o)'
    BY <1>5, <2>2 DEF Agree, Issue
  <2>7. Halfway(req[s])'
    BY <2>4 DEF Halfway, Deciding, Settling
  <2> QED
    BY <2>1, <2>5, <2>6, <2>7, <2>8, AgreementServe
<1>6. CASE RecordEvent(s)
  <2>1. \A x \in Orders : RowsSame(x)
    BY <1>6 DEF RecordEvent, RowsSame
  <2>2. req'[s].pc = "idle"
    BY <1>6, FinishKeeps DEF RecordEvent
  <2>3. \A x \in Orders : Handled(s, x) => Handled(s, x)'
    BY <1>6 DEF RecordEvent, Handled, Completion
  <2>4. Halfway(req[s])'
    BY <2>2 DEF Halfway, Deciding, Settling
  <2> QED
    BY <1>6, <2>1, <2>3, <2>4, AgreementMove DEF RecordEvent
<1>7. CASE CancelOrder(s)
  <2>1. o \in Orders /\ Halfway(req[s]) /\ req[s].pc = "cancel order"
    BY <1>7, Serving DEF CancelOrder
  <2>2. Agree(o) /\ ~PaidFor(o)
    BY <2>1 DEF Halfway, PaidFor
  <2>3. recorded[o] = 0
    BY <2>1, <2>2, NothingRecorded
  <2>4. /\ req'[s].pc = "fail payment" /\ req'[s].order = o
    BY <1>7, GotoKeeps DEF CancelOrder
  <2>5. order'[o] = "cancelled" /\ recorded'[o] = 0 /\ \A x \in Orders \ {o} : RowsSame(x)
    BY <1>7, <2>1, <2>3 DEF CancelOrder, TypeOK, RowsSame
  <2>6. \A x \in Orders : Handled(s, x) => Handled(s, x)'
    BY <1>7, HandledGoto DEF CancelOrder
  <2>7. Halfway(req[s])' /\ ~PaidFor(o)'
    BY <2>1, <2>4, <2>5 DEF Halfway, Deciding, Settling, PaidFor
  <2> QED
    BY <2>1, <2>4, <2>5, <2>6, <2>7, AgreementServe
<1>8. CASE FailPayment(s)
  <2>1. o \in Orders /\ Halfway(req[s]) /\ req[s].pc = "fail payment"
    BY <1>8, Serving DEF FailPayment
  <2>2. order[o] = "cancelled" /\ recorded[o] = 0
    BY <2>1 DEF Halfway
  <2>4. /\ req'[s].pc = "release" /\ req'[s].order = o
    BY <1>8, GotoKeeps DEF FailPayment
  <2>5. /\ order'[o] = "cancelled" /\ recorded'[o] = 0 /\ payment'[o].status = "failed"
        /\ \A x \in Orders \ {o} : RowsSame(x)
    BY <1>8, <2>1, <2>2 DEF FailPayment, TypeOK, RowsSame, Payment
  <2>6. \A x \in Orders : Handled(s, x) => Handled(s, x)'
    BY <1>8, HandledGoto DEF FailPayment
  <2>7. Halfway(req[s])' /\ ~PaidFor(o)'
    BY <2>1, <2>4, <2>5 DEF Halfway, Deciding, Settling, PaidFor
  <2> QED
    BY <2>1, <2>4, <2>5, <2>6, <2>7, AgreementServe
<1>9. CASE Release(s)
  <2>1. o \in Orders /\ Halfway(req[s]) /\ req[s].pc = "release"
    BY <1>9, Serving DEF Release
  <2>2. order[o] = "cancelled" /\ recorded[o] = 0 /\ payment[o].status = "failed"
    BY <2>1 DEF Halfway
  <2>4. /\ req'[s].pc \in {"next order", "record event"}
    BY <1>9, GotoKeeps DEF Release
  <2>5. /\ order'[o] = "cancelled" /\ recorded'[o] = 0 /\ payment'[o].status = "failed"
        /\ seat'[o] = "cancelled" /\ \A x \in Orders \ {o} : RowsSame(x)
    BY <1>9, <2>1, <2>2 DEF Release, TypeOK, RowsSame
  <2>6. \A x \in Orders : Handled(s, x) => Handled(s, x)'
    BY <1>9, HandledGoto DEF Release
  <2>7. Halfway(req[s])' /\ ~PaidFor(o)'
    BY <2>1, <2>4, <2>5 DEF Halfway, Deciding, Settling, PaidFor
  <2>8. Agree(o)'
    BY <2>5, TotalPositive DEF Agree
  <2> QED
    BY <2>1, <2>5, <2>6, <2>7, <2>8, AgreementServe
<1> QED
  BY <1>1, <1>2, <1>3, <1>4, <1>5, <1>6, <1>7, <1>8, <1>9

(* The statements of refundOrder: it serves an order that was paid for,    *)
(* whose completion was handled before.                                    *)
LEMMA HandledBefore ==
    ASSUME Agreement, crashes = 0, NEW s \in Slots, req[s].pc \notin Answered,
           processed' = processed
    PROVE  \A x \in Orders : /\ Handled(s, x) => Handled(s, x)'
                             /\ PaidFor(x) => Handled(s, x)'
BY DEF Agreement, Handled, Completion

(* Each of its statements.                                                 *)
LEMMA AgreementRefund ==
    ASSUME OneAtATime, TypeOK, Served, Agreement, crashes = 0,
           NEW s \in Slots, NEW o, o = req[s].order,
           \/ VoidTicket(s) \/ AskStripe(s) \/ RecordRefund(s) \/ RefundOrder(s)
           \/ RefundPayment(s) \/ VoidTickets(s) \/ ReleaseRefunded(s)
    PROVE  Agreement'
<1> USE DEF PCs, Settled, Answered, Deciding, Settling
<1>0. /\ o \in Orders /\ Halfway(req[s]) /\ Amounts(req[s]) /\ processed' = processed
      /\ req[s].pc \notin Answered
  BY Serving DEF VoidTicket, AskStripe, RecordRefund, RefundOrder, RefundPayment, VoidTickets,
     ReleaseRefunded, Served, db
<1>1. \A x \in Orders : /\ Handled(s, x) => Handled(s, x)'
                        /\ PaidFor(x) => Handled(s, x)'
  BY <1>0, HandledBefore
<1>2. /\ recorded[o] \in Nat /\ req[s].already \in Nat /\ req[s].key.amount \in Nat
      /\ tickets[o] \in Seq({"valid", "refunded"})
  BY <1>0 DEF TypeOK, Req, RefundKey
<1>3. EndRefund(s) => req'[s].pc \in {"idle", "next order"}
  BY GotoKeeps, FinishKeeps DEF EndRefund
<1>4. req'[s].pc \in {"idle", "next order"} => Halfway(req[s])'
  BY DEF Halfway
<1>5. CASE VoidTicket(s)
  <2>1. Agree(o) /\ HasMoney(order[o])
    BY <1>0, <1>5 DEF Halfway, VoidTicket
  <2>2. \A x \in Orders \ {o} : RowsSame(x)
    BY <1>0, <1>5 DEF VoidTicket, RowsSame, TypeOK
  <2>3. Agree(o)' /\ order' = order
    BY <1>5, <2>1 DEF VoidTicket, Agree, HasMoney
  <2>4. Halfway(req[s])'
    <3>1. CASE Finish(s)
      BY <1>4, <3>1, FinishKeeps
    <3>2. CASE Goto(s, "stripe")
      <4>1. req'[s].pc = "stripe" /\ req'[s].order = o
        BY <3>2, GotoKeeps
      <4> QED
        BY <1>0, <2>1, <2>3, <4>1 DEF Halfway
    <3> QED
      BY <1>5, <3>1, <3>2 DEF VoidTicket
  <2>5. PaidFor(o)
    BY <2>1 DEF HasMoney, PaidFor
  <2> QED
    BY <1>0, <1>1, <2>2, <2>3, <2>4, <2>5, AgreementServe
<1>6. CASE AskStripe(s)
  <2>1. Agree(o) /\ HasMoney(order[o])
    BY <1>0, <1>6 DEF Halfway, AskStripe
  <2>2. \A x \in Orders : RowsSame(x)
    BY <1>6 DEF AskStripe, db, RowsSame
  <2>3. Agree(o)' /\ order' = order
    BY <1>0, <1>6, <2>1, <2>2, AgreeSame DEF AskStripe, db
  <2>4. Halfway(req[s])'
    <3>1. CASE Finish(s)
      BY <1>4, <3>1, FinishKeeps
    <3>2. CASE Goto(s, "record refund")
      <4>1. req'[s].pc = "record refund" /\ req'[s].order = o
        BY <3>2, GotoKeeps
      <4> QED
        BY <1>0, <2>1, <2>3, <4>1 DEF Halfway
    <3> QED
      BY <1>6, <3>1, <3>2 DEF AskStripe
  <2> QED
    BY <1>1, <2>1, <2>2, <2>4, AgreementMove
<1>7. CASE RecordRefund(s)
  <2>1. Agree(o) /\ HasMoney(order[o])
    BY <1>0, <1>7 DEF Halfway, RecordRefund
  <2>2. \A x \in Orders \ {o} : RowsSame(x)
    BY <1>0, <1>7 DEF RecordRefund, RowsSame, TypeOK
  <2>3. order' = order /\ seat' = seat /\ seat[o] = "confirmed" /\ PaidFor(o)
    BY <1>7, <2>1 DEF RecordRefund, Agree, HasMoney, PaidFor
  <2>4. req'[s].pc = "refund order" /\ req'[s].order = o
    BY <1>7, GotoKeeps DEF RecordRefund
  <2>5. Halfway(req[s])'
    BY <1>0, <2>1, <2>3, <2>4 DEF Halfway
  <2> QED
    BY <1>0, <1>1, <2>2, <2>3, <2>4, <2>5, AgreementServe
<1>8. CASE RefundOrder(s)
  <2>1. HasMoney(order[o]) /\ seat[o] = "confirmed" /\ PaidFor(o)
    BY <1>0, <1>8 DEF Halfway, RefundOrder, HasMoney, PaidFor
  <2>2. \A x \in Orders \ {o} : RowsSame(x)
    BY <1>0, <1>8 DEF RefundOrder, RowsSame, TypeOK
  <2>3. order'[o] = Refunded(req[s]) /\ seat' = seat
    BY <1>0, <1>8 DEF RefundOrder, TypeOK
  <2>4. /\ req'[s].pc = "refund payment" /\ req'[s].order = o
        /\ Refunded(req'[s]) = Refunded(req[s])
    BY <1>8, GotoKeeps DEF RefundOrder, Refunded, Fully
  <2>5. Halfway(req[s])'
    BY <1>0, <2>1, <2>3, <2>4 DEF Halfway
  <2> QED
    BY <1>0, <1>1, <2>1, <2>2, <2>4, <2>5, AgreementServe
<1>9. CASE RefundPayment(s)
  <2>1. order[o] = Refunded(req[s]) /\ seat[o] = "confirmed" /\ PaidFor(o)
    BY <1>0, <1>9 DEF Halfway, RefundPayment, Refunded, PaidFor
  <2>2. \A x \in Orders \ {o} : RowsSame(x)
    BY <1>0, <1>9 DEF RefundPayment, RowsSame, TypeOK, Payment
  <2>3. /\ payment'[o].status = Refunded(req[s])
        /\ order' = order /\ seat' = seat /\ recorded' = recorded /\ tickets' = tickets
    BY <1>0, <1>9 DEF RefundPayment, TypeOK, Payment
  <2>4. CASE Fully(req[s])
    <3>1. /\ req'[s].pc = "void tickets" /\ req'[s].order = o
          /\ Refunded(req'[s]) = Refunded(req[s]) /\ Fully(req'[s])
      BY <1>9, <2>4, GotoKeeps DEF RefundPayment, Refunded, Fully
    <3>2. Halfway(req[s])'
      BY <1>0, <2>1, <2>3, <2>4, <3>1 DEF Halfway, Refunded
    <3> QED
      BY <1>0, <1>1, <2>1, <2>2, <3>1, <3>2, AgreementServe
  <2>5. CASE ~Fully(req[s])
    <3>1. Halfway(req[s])'
      BY <1>3, <1>4, <1>9, <2>5 DEF RefundPayment
    <3>2. order[o] = "partially_refunded"
      BY <2>1, <2>5 DEF Refunded
    <3>3. recorded[o] \in 1 .. Total - 1 /\ recorded[o] # Total
      <4>1. recorded[o] = req[s].already + req[s].key.amount /\ req[s].key.amount > 0
        BY <1>0, <1>9 DEF Amounts, RefundPayment
      <4>2. ~(req[s].already + req[s].key.amount >= Total)
        BY <2>5 DEF Fully
      <4> QED
        BY <1>2, <4>1, <4>2, TotalPositive
    <3>4. Agree(o)'
      BY <2>1, <2>3, <3>2, <3>3 DEF Agree
    <3> QED
      BY <1>0, <1>1, <2>1, <2>2, <3>1, <3>4, AgreementServe
  <2> QED
    BY <2>4, <2>5
<1>10. CASE VoidTickets(s)
  <2>1. /\ order[o] = Refunded(req[s]) /\ seat[o] = "confirmed" /\ PaidFor(o)
        /\ payment[o].status = "refunded" /\ Fully(req[s])
    BY <1>0, <1>10 DEF Halfway, VoidTickets, Refunded, PaidFor
  <2>2. \A x \in Orders \ {o} : RowsSame(x)
    BY <1>0, <1>10 DEF VoidTickets, RowsSame, TypeOK
  <2>3. /\ order' = order /\ seat' = seat /\ payment' = payment /\ AllVoid(o)'
    BY <1>0, <1>10 DEF VoidTickets, TypeOK, AllVoid
  <2>4. /\ req'[s].pc = "release refunded" /\ req'[s].order = o
        /\ Refunded(req'[s]) = Refunded(req[s]) /\ Fully(req'[s])
    BY <1>10, <2>1, GotoKeeps DEF VoidTickets, Refunded, Fully
  <2>5. Halfway(req[s])'
    BY <1>0, <2>1, <2>3, <2>4 DEF Halfway
  <2> QED
    BY <1>0, <1>1, <2>1, <2>2, <2>4, <2>5, AgreementServe
<1>11. CASE ReleaseRefunded(s)
  <2>1. /\ order[o] = "refunded" /\ payment[o].status = "refunded" /\ AllVoid(o) /\ PaidFor(o)
    BY <1>0, <1>11 DEF Halfway, ReleaseRefunded, Refunded, PaidFor
  <2>2. \A x \in Orders \ {o} : RowsSame(x)
    BY <1>0, <1>11 DEF ReleaseRefunded, RowsSame, TypeOK
  <2>3. /\ order' = order /\ payment' = payment /\ tickets' = tickets /\ recorded' = recorded
        /\ seat'[o] = "cancelled"
    BY <1>0, <1>11 DEF ReleaseRefunded, TypeOK
  <2>4. recorded[o] = Total
    <3>1. recorded[o] = req[s].already + req[s].key.amount /\ recorded[o] <= Total
      BY <1>0, <1>11 DEF Amounts, ReleaseRefunded
    <3>2. req[s].already + req[s].key.amount >= Total
      BY <1>0, <1>11 DEF Halfway, Fully, ReleaseRefunded
    <3> QED
      BY <1>2, <3>1, <3>2, TotalPositive
  <2>5. Halfway(req[s])'
    BY <1>3, <1>4, <1>11 DEF ReleaseRefunded
  <2>6. Agree(o)'
    BY <2>1, <2>3, <2>4, TotalPositive DEF Agree, AllVoid
  <2> QED
    BY <1>0, <1>1, <2>1, <2>2, <2>5, <2>6, AgreementServe
<1> QED
  BY <1>5, <1>6, <1>7, <1>8, <1>9, <1>10, <1>11

(* What takes up an order: its rows agree, no handler being at work.       *)
LEMMA AgreementStart ==
    ASSUME OneAtATime, TypeOK, Money, Served, Listed, Agreement, crashes = 0,
           NEW s \in Slots,
           Organizer(s) \/ Webhook(s) \/ ListOrders(s) \/ NextOrder(s)
    PROVE  Agreement'
<1> USE DEF PCs, Settled, Answered, Deciding, Settling
<1>1. /\ req[s] \in Req /\ UNCHANGED <<order, payment, seat, tickets, recorded, processed>>
      /\ req[s].pc \in {"idle", "list orders", "next order"}
  BY DEF Organizer, Webhook, ListOrders, NextOrder, RefundAmount, RefundRest, RefundTicket,
     CancelEvent, Deliver, db, TypeOK
<1>2. (\A x \in Orders : RowsSame(x)) /\ (\A x \in Orders : Handled(s, x) => Handled(s, x)')
  BY <1>1 DEF RowsSame, Handled, Completion
<1>3. \A x \in Orders : Agree(x) /\ Agree(x)'
  BY <1>1, <1>2, AgreeSame DEF Agreement
<1>4. Halfway(req[s])' => Agreement'
  BY <1>1, <1>2, AgreementMove
<1>5. req'[s].pc \in Settled => Agreement'
  BY <1>4 DEF Halfway
<1>6. ASSUME NEW o \in Orders, HasMoney(order[o]), req'[s].order = o, req'[s].pc \in Deciding
      PROVE  Agreement'
  <2>1. Halfway(req[s])'
    BY <1>1, <1>3, <1>6 DEF Halfway
  <2> QED
    BY <1>4, <2>1
<1>7. ASSUME NEW o \in Orders, order[o] = "pending", req'[s].order = o, req'[s].pc = "cancel order"
      PROVE  Agreement'
  <2>1. Halfway(req[s])'
    BY <1>1, <1>3, <1>7 DEF Halfway
  <2> QED
    BY <1>4, <2>1
<1>8. ASSUME NEW o \in Orders, NEW a, RefundAmount(s, o, a) PROVE Agreement'
  <2> DEFINE kind == IF a < Total - recorded[o] THEN "partial" ELSE "full"
             d == Decided(req[s], o, kind, a, 0, "stripe")
  <2>1. d.order = o /\ d.pc = "stripe"
    BY <1>1 DEF Decided, Req
  <2>2. req'[s] = d /\ HasMoney(order[o])
    BY <1>8 DEF RefundAmount, Refundable, TypeOK
  <2> HIDE DEF d
  <2> QED
    BY <1>6, <2>1, <2>2
<1>9. ASSUME NEW o \in Orders, NEW i, RefundTicket(s, o, i) PROVE Agreement'
  <2> DEFINE d == Decided(req[s], o, "individual", Price, i, "void ticket")
  <2>1. d.order = o /\ d.pc = "void ticket"
    BY <1>1 DEF Decided, Req
  <2>2. req'[s] = d /\ HasMoney(order[o])
    BY <1>9 DEF RefundTicket, Refundable, TypeOK
  <2> HIDE DEF d
  <2> QED
    BY <1>6, <2>1, <2>2
<1>10. CASE CancelEvent(s) \/ ListOrders(s)
  <2>1. req'[s].pc \in Settled
    <3>1. CASE CancelEvent(s)
      BY <1>1, <3>1 DEF CancelEvent, Req, TypeOK
    <3>2. CASE ListOrders(s)
      BY <1>1, <3>2 DEF ListOrders, Req, TypeOK
    <3> QED
      BY <1>10, <3>1, <3>2
  <2> QED
    BY <1>5, <2>1
<1>11. ASSUME NEW e \in sent, Deliver(s, e) PROVE Agreement'
  <2> DEFINE o == e.order
  <2>1. o \in Orders /\ e.type \in {"completed", "expired", "failed"} /\ e = [order |-> o, type |-> e.type]
    BY DEF TypeOK, WebhookEvent
  <2>2. req'[s].event = e /\ req'[s].order = o /\ req'[s].pc = Outcome(e)
    BY <1>11 DEF Deliver, Handling, TypeOK, Idle
  <2>3. e \notin processed /\ req[s].pc = "idle"
    BY <1>11 DEF Deliver, Seen
  <2>4. CASE e.type = "completed"
    <3>1. Completion(o) = e /\ Outcome(e) = "pay order"
      BY <2>1, <2>4 DEF Completion, Outcome
    <3>2. order[o] # "none"
      BY <2>1, <2>4 DEF Money, Captured
    <3>3. ~PaidFor(o)
      BY <2>1, <2>3, <3>1 DEF Agreement, Handled
    <3>4. order[o] \in {"pending", "cancelled"}
      BY <2>1, <3>2, <3>3 DEF TypeOK, OrderStatuses, PaidFor
    <3>5. Agree(o)' /\ order' = order
      BY <1>1, <1>3, <2>1
    <3> HIDE DEF o
    <3>6. Halfway(req[s])'
      BY <2>1, <2>2, <3>1, <3>4, <3>5 DEF Halfway, Completion
    <3> QED
      BY <1>4, <3>6
  <2>5. CASE e.type # "completed" /\ order[o] = "pending"
    BY <1>7, <2>1, <2>2, <2>5 DEF Outcome
  <2>6. CASE e.type # "completed" /\ order[o] # "pending"
    BY <1>5, <2>2, <2>6 DEF Outcome
  <2> QED
    BY <2>4, <2>5, <2>6
<1>12. CASE NextOrder(s)
  <2>1. CASE Finish(s)
    BY <1>5, <2>1, FinishKeeps
  <2>2. ASSUME NEW p \in req[s].left, NEW r \in Req, r = [req[s] EXCEPT !.left = @ \ {p}],
               req[s].pc = "next order"
        PROVE  /\ p[2] = "pending" /\ req' = [req EXCEPT ![s] =
                      [r EXCEPT !.pc = "cancel order", !.order = p[1]]] => Agreement'
               /\ Refundable(p[1]) /\ req' = [req EXCEPT ![s] =
                      Decided(r, p[1], "full", Total - recorded[p[1]], 0, "stripe")] => Agreement'
               /\ req' = [req EXCEPT ![s] = r] => Agreement'
    <3> DEFINE o == p[1]
               d == Decided(r, o, "full", Total - recorded[o], 0, "stripe")
               c == [r EXCEPT !.pc = "cancel order", !.order = o]
    <3>1. o \in Orders /\ (p[2] = "pending" => order[o] = "pending")
      <4>1. req[s].left \subseteq Orders \X OrderStatuses
        BY <1>1 DEF Req
      <4>2. p[2] = order[o] \/ p[2] = "none"
        BY DEF Listed, Loop
      <4> QED
        BY <4>1, <4>2
    <3>2. r.pc = "next order"
      BY <1>1, <2>2 DEF Req
    <3>3. c.pc = "cancel order" /\ c.order = o
      BY <2>2 DEF Req
    <3>4. d.pc = "stripe" /\ d.order = o
      BY <2>2 DEF Decided, Req
    <3>5. \A q : req' = [req EXCEPT ![s] = q] => req'[s] = q
      BY DEF TypeOK
    <3> HIDE DEF c, d, o
    <3>6. p[2] = "pending" /\ req' = [req EXCEPT ![s] = c] => Agreement'
      BY <1>7, <3>1, <3>3, <3>5
    <3>7. Refundable(o) /\ req' = [req EXCEPT ![s] = d] => Agreement'
      BY <1>6, <3>1, <3>4, <3>5 DEF Refundable
    <3>8. req' = [req EXCEPT ![s] = r] => Agreement'
      BY <1>5, <3>2, <3>5
    <3> QED
      BY <3>6, <3>7, <3>8 DEF c, d, o
  <2>3. \A p \in req[s].left : [req[s] EXCEPT !.left = @ \ {p}] \in Req
    BY <1>1 DEF Req
  <2> QED
    BY <1>12, <2>1, <2>2, <2>3 DEF NextOrder
<1> QED
  BY <1>8, <1>9, <1>10, <1>11, <1>12 DEF Organizer, Webhook, RefundRest

(* The buyer and Stripe: a purchase fills the rows of an order that had    *)
(* none, which no handler serves.                                          *)
LEMMA AgreementBuyer ==
    ASSUME OneAtATime, TypeOK, Served, Agreement, crashes = 0, NEW o \in Orders, Buyer(o)
    PROVE  Agreement'
<1>1. req' = req /\ processed' = processed /\ recorded' = recorded /\ tickets' = tickets
  BY DEF Buyer, Purchase, Decline, EndSession, db
<1>2. ASSUME NEW s \in Slots, \A x \in Orders : RowsSame(x) PROVE Halfway(req[s])'
  <2>1. Halfway(req[s]) /\ req[s].pc \in PCs
    BY DEF Agreement, TypeOK, Req
  <2>2. req[s].pc \notin Settled => RowsSame(req[s].order)
    BY <1>2, <2>1 DEF Halfway
  <2> QED
    BY <1>1, <2>1, <2>2, AgreeSame DEF Halfway, RowsSame, Settled, AllVoid, Deciding, Settling,
       Completion
<1>3. ASSUME \A x \in Orders : RowsSame(x) PROVE Agreement'
  <2>1. \A x \in Orders : Agree(x) => Agree(x)'
    BY <1>3, AgreeSame
  <2>2. \A s \in Slots, x \in Orders : /\ Handled(s, x) => Handled(s, x)'
                                       /\ PaidFor(x)' => PaidFor(x)
    BY <1>1, <1>3 DEF Handled, Completion, RowsSame, PaidFor
  <2>3. \A s \in Slots : Halfway(req[s])'
    BY <1>2, <1>3
  <2> QED
    BY <1>1, <2>1, <2>2, <2>3 DEF Agreement
<1>4. CASE Purchase(o)
  <2>1. order[o] = "none" /\ order'[o] = "pending" /\ seat'[o] = "pending"
        /\ payment'[o].status = "pending"
    BY <1>4 DEF Purchase, TypeOK
  <2>2. \A x \in Orders \ {o} : RowsSame(x)
    BY <1>4 DEF Purchase, TypeOK, RowsSame
  <2>3. ASSUME NEW s \in Slots, req[s].pc \notin Settled PROVE req[s].order \in Orders \ {o}
    <3>1. Halfway(req[s]) /\ req[s].pc \in PCs /\ req[s].order \in Orders
      BY <2>3 DEF Agreement, Halfway, TypeOK, Req
    <3> QED
      BY <2>1, <2>3, <3>1 DEF Halfway, HasMoney, Refunded, PCs, Settled, Deciding, Settling
  <2>4. ASSUME NEW s \in Slots PROVE Halfway(req[s])'
    <3>1. Halfway(req[s])
      BY DEF Agreement
    <3>2. req[s].pc \notin Settled => RowsSame(req[s].order)
      BY <2>2, <2>3
    <3> QED
      BY <1>1, <2>3, <3>1, <3>2, AgreeSame DEF Halfway, RowsSame, Settled, AllVoid, Deciding,
         Settling, Completion
  <2>5. ASSUME NEW s \in Slots PROVE Agree(o)'
    <3>1. Agree(o)
      BY <2>3 DEF Agreement
    <3>2. recorded[o] = 0
      BY <2>1, <3>1, NothingRecorded DEF PaidFor
    <3> QED
      BY <1>1, <2>1, <3>2, TotalPositive DEF Agree
  <2>6. \A x \in Orders \ {o} : Agree(x) => Agree(x)'
    BY <2>2, AgreeSame
  <2>7. \A s \in Slots, x \in Orders : /\ Handled(s, x) => Handled(s, x)'
                                       /\ PaidFor(x)' => PaidFor(x)
    BY <1>1, <2>1, <2>2 DEF Handled, Completion, RowsSame, PaidFor
  <2> QED
    BY <1>1, <2>4, <2>5, <2>6, <2>7 DEF Agreement
<1>5. ASSUME ~Purchase(o) PROVE \A x \in Orders : RowsSame(x)
  BY <1>5 DEF Buyer, Decline, EndSession, db, RowsSame
<1> QED
  BY <1>3, <1>4, <1>5

(* Every step keeps the rows in agreement.                                 *)
LEMMA AgreementStep ==
    ASSUME OneAtATime, TypeOK, Money, Served, Listed, Agreement, [Next]_vars PROVE Agreement'
<1>1. CASE crashes' # 0
  BY <1>1 DEF Agreement
<1>2. CASE crashes' = 0
  <2>1. crashes = 0
    <3>1. ASSUME NEW o \in Orders, Buyer(o) PROVE crashes' = crashes
      BY <3>1 DEF Buyer, Purchase, Decline, EndSession
    <3>2. ASSUME NEW s \in Slots, Organizer(s) \/ Webhook(s) PROVE crashes' = crashes
      BY <3>2 DEF Organizer, RefundAmount, RefundRest, RefundTicket, CancelEvent, Webhook, Deliver
    <3>3. ASSUME NEW s \in Slots, Step(s) PROVE crashes' = crashes
      BY <3>3 DEF Step, PayOrder, PayPayment, Confirm, ListTickets, Issue, RecordEvent,
         CancelOrder, FailPayment, Release, VoidTicket, AskStripe, RecordRefund, RefundOrder,
         RefundPayment, VoidTickets, ReleaseRefunded, ListOrders, NextOrder
    <3>4. ASSUME NEW s \in Slots, Crash(s) PROVE crashes' = crashes + 1
      BY <3>4 DEF Crash
    <3>5. crashes' = crashes \/ crashes' = crashes + 1
      BY <3>1, <3>2, <3>3, <3>4 DEF Next, vars
    <3> QED
      BY <1>2, <3>5 DEF TypeOK
  <2>2. CASE UNCHANGED vars
    <3>1. UNCHANGED <<order, payment, seat, tickets, recorded, processed, req, crashes>>
      BY <2>2 DEF vars, db
    <3>2. \A x : (Agree(x)' <=> Agree(x)) /\ (PaidFor(x)' <=> PaidFor(x))
      BY <3>1 DEF Agree, AllVoid, PaidFor
    <3>3. \A s, x : Handled(s, x)' <=> Handled(s, x)
      BY <3>1 DEF Handled, Completion
    <3>4. ASSUME NEW s \in Slots, Halfway(req[s]) PROVE Halfway(req[s])'
      BY <3>1, <3>2, <3>4 DEF Halfway, AllVoid, Refunded, Fully, Completion, Settled
    <3> QED
      BY <3>1, <3>2, <3>3, <3>4 DEF Agreement
  <2>3. ASSUME NEW o \in Orders, Buyer(o) PROVE Agreement'
    BY <2>1, <2>3, AgreementBuyer
  <2>4. ASSUME NEW s \in Slots, Organizer(s) \/ Webhook(s) PROVE Agreement'
    BY <2>1, <2>4, AgreementStart
  <2>5. ASSUME NEW s \in Slots, Step(s) PROVE Agreement'
    BY <2>1, <2>5, AgreementWebhook, AgreementRefund, AgreementStart DEF Step
  <2>6. ASSUME NEW s \in Slots, Crash(s) PROVE FALSE
    BY <1>2, <2>1, <2>6 DEF Crash
  <2> QED
    BY <2>2, <2>3, <2>4, <2>5, <2>6 DEF Next
<1> QED
  BY <1>1, <1>2

(* At first no order has rows.                                             *)
LEMMA InitAgreement == Init => Agreement
<1> SUFFICES ASSUME Init PROVE Agreement
  OBVIOUS
<1>1. \A o \in Orders : Agree(o) /\ ~PaidFor(o)
  BY TotalPositive DEF Init, Agree, PaidFor
<1>2. Idle.pc = "idle"
  BY DEF Idle
<1>3. Halfway(Idle)
  BY <1>2 DEF Halfway, Settled, Deciding, Settling
<1> QED
  BY <1>1, <1>3 DEF Agreement, Init

(* Where handlers take turns and none has died, whenever none is at work   *)
(* the five kinds of rows of every order tell the same story: refunds      *)
(* recorded, status of order and payment, tickets and seat, for any        *)
(* orders, prices and refunds, declined cards and failing refunds          *)
(* included.                                                               *)
THEOREM RowsAgreeInTurn ==
    ASSUME OneAtATime PROVE Spec => []RowsAgree
<1>1. Init => TypeOK /\ Events /\ Money /\ Served /\ Listed /\ Agreement
  BY InitType, InitEvents, InitMoney, InitServed, InitListed, InitAgreement
<1>2. Agreement => RowsAgree
  <2> SUFFICES ASSUME Agreement, Quiet, crashes = 0, NEW o \in Orders PROVE Agree(o)
    BY DEF RowsAgree, Agree, AllVoid
  <2>1. PICK s \in Slots : req[s].pc = "idle"
    BY DEF OneAtATime, Quiet
  <2> QED
    BY <2>1 DEF Agreement, Settled
<1>3. TypeOK /\ Events /\ Money /\ Served /\ Listed /\ Agreement /\ [Next]_vars
        => Served' /\ Listed' /\ Agreement'
  BY ServedStep, ListedStep, AgreementStep
<1> QED
  BY <1>1, <1>2, <1>3, StepType, StepMoney, PTL DEF Spec
=============================================================================
