------------------------------- MODULE Billing -------------------------------
(***************************************************************************)
(* The plan of one organization: bought at Stripe or by a charge, renewed  *)
(* by a job at the end of each period, cancelled in two requests, taken    *)
(* back by another job when a grace period ends.  Every operation works on *)
(* a copy of the subscription and saves the whole of it later; each await  *)
(* that others may see is a step.                                          *)
(***************************************************************************)
EXTENDS Naturals, FiniteSets

CONSTANTS
    Invoices,
    NoInvoice,
    Slots,       \* requests, webhooks and jobs that run at once
    Hosted,      \* whether Stripe's checkout is configured, or may be either
    Period,      \* length of a period
    Grace,       \* length of the grace period
    MaxTime,     \* bound: of the clock
    MaxCalls,    \* bound: requests and runs of the jobs
    MaxFaults    \* bound: statements that fail, processes that die

ASSUME BillingAssumption ==
    /\ NoInvoice \notin Invoices
    /\ Hosted \subseteq BOOLEAN
    /\ Period \in Nat \ {0} /\ Grace \in Nat \ {0}
    /\ MaxTime \in Nat /\ MaxCalls \in Nat /\ MaxFaults \in Nat

VARIABLES
    now,
    sub,         \* the billing_subscription row
    level,       \* the organization's functionalLevel, named by its plan
    cancellation,  \* status of the cancellation request
    invoice,     \* status and kind of each billing_invoice row
    session,     \* external: each invoice's Stripe checkout session
    seen,        \* invoices whose session's event is in stripe_webhook_event
    req,
    charged,     \* history: how often the renewal at each date was charged
    unsaved,     \* history: renewals charged that did not get to save it
    ended,       \* history: a cancellation was confirmed and nothing bought since
    promised,    \* history: the date up to which the confirmation promised the plan
    overlapped,  \* history: two operations ran at once
    calls,
    faults

rows == <<sub, level, cancellation, invoice>>
stripe == <<session, seen>>
history == <<charged, unsaved, ended, promised>>
bounds == <<calls, faults>>
vars == <<now, rows, stripe, req, history, overlapped, bounds>>

-----------------------------------------------------------------------------
Plans == {"free", "plus"}

(* graceEndsAt is 0 where it is null; pending is a downgrade to free.      *)
Sub == [plan: Plans, status: {"active", "past_due"}, end: Nat, cancel: BOOLEAN,
        pending: BOOLEAN, grace: Nat]

(* An invoice for nothing is paid when it is made, and left out.           *)
Statuses == {"none", "open", "paid", "uncollectible"}
Sessions == {"none", "open", "linked", "offered", "completed", "expired"}

PCs == {"idle", "pend", "open", "ask", "link", "note", "charge", "read", "paid",
        "apply", "level", "reread", "failing", "keep", "failed", "list", "write off",
        "drop", "notice", "confirm", "confirmed", "done"}
(* copy is the subscription as read and status that of an invoice, at when *)
(* a job began, todo the invoices it has to write off, plan the new plan.  *)
Req == [pc: PCs, copy: Sub, invoice: Invoices \cup {NoInvoice}, status: Statuses,
        at: Nat, todo: SUBSET Invoices, plan: Plans, renewal: BOOLEAN, event: BOOLEAN]

New == [plan |-> "free", status |-> "active", end |-> Period, cancel |-> FALSE,
        pending |-> FALSE, grace |-> 0]
Idle == [pc |-> "idle", copy |-> New, invoice |-> NoInvoice, status |-> "none",
         at |-> 0, todo |-> {}, plan |-> "free", renewal |-> FALSE, event |-> FALSE]

(* The organization is new or has paid before, and has no open invoice.    *)
Init ==
    /\ now = 0
    /\ level \in Plans /\ sub = [New EXCEPT !.plan = level]
    /\ cancellation = "none"
    /\ invoice = [i \in Invoices |-> "none"]
    /\ session = [i \in Invoices |-> "none"] /\ seen = {}
    /\ req = [s \in Slots |-> Idle]
    /\ charged = [t \in 0 .. MaxTime |-> 0] /\ unsaved = 0
    /\ ended = FALSE /\ promised = 0 /\ overlapped = FALSE
    /\ calls = 0 /\ faults = 0

Tick ==
    /\ now < MaxTime
    /\ now' = now + 1
    /\ UNCHANGED <<rows, stripe, req, history, overlapped, bounds>>

Busy == \E s \in Slots : req[s].pc # "idle"
Called == calls < MaxCalls /\ calls' = calls + 1 /\ UNCHANGED faults

(* An operation begins with what it has read.                              *)
Begin(s, r) ==
    /\ req[s].pc = "idle"
    /\ req' = [req EXCEPT ![s] = r]
    /\ overlapped' = (overlapped \/ Busy)
    /\ UNCHANGED <<now, rows, history>>

(* A step of the operation in s, from one await to the next; an event that *)
(* is done has yet to be recorded.                                         *)
At(s, pc) == req[s].pc = pc /\ UNCHANGED <<now, overlapped, bounds>>
Goto(s, pc) == req' = [req EXCEPT ![s].pc = pc]
Finish(s) == req' = [req EXCEPT ![s] = IF req[s].event THEN [@ EXCEPT !.pc = "done"] ELSE Idle]

SaveSub(s, row) == sub' = row /\ UNCHANGED <<level, cancellation, invoice>>
SaveInvoice(s, status) ==
    /\ invoice' = [invoice EXCEPT ![req[s].invoice] = status]
    /\ UNCHANGED <<sub, level, cancellation>>

-----------------------------------------------------------------------------
(* Plans are changed by the organization.                                  *)

(* Once the period is over an upgrade costs nothing but its add-ons; one   *)
(* that costs nothing is applied at once.                                  *)
Changes == IF sub.plan = "plus" THEN {"pend"}
           ELSE IF sub.end <= now THEN {"open", "apply"} ELSE {"open"}

StartCheckout(s) ==
    /\ Called
    /\ \E pc \in Changes : Begin(s, [Idle EXCEPT !.copy = sub, !.plan = "plus", !.pc = pc])
    /\ UNCHANGED stripe

(* A downgrade waits for the renewal.                                      *)
Pend(s) ==
    /\ At(s, "pend")
    /\ SaveSub(s, [req[s].copy EXCEPT !.pending = TRUE])
    /\ Finish(s)
    /\ UNCHANGED <<stripe, history>>

OpenInvoice(s) ==
    /\ At(s, "open")
    /\ \E i \in Invoices :
          /\ invoice[i] = "none"
          /\ invoice' = [invoice EXCEPT ![i] = "open"]
          /\ req' = [req EXCEPT ![s].invoice = i, ![s].status = "open",
                                ![s].pc = IF req[s].renewal THEN "charge" ELSE "ask"]
    /\ UNCHANGED <<sub, level, cancellation, stripe, history>>

(* Stripe's checkout if it is configured, a charge if it is not.           *)
Ask(s) ==
    /\ At(s, "ask")
    /\ \E hosted \in Hosted :
          /\ session' = IF hosted THEN [session EXCEPT ![req[s].invoice] = "open"] ELSE session
          /\ Goto(s, IF hosted THEN "link" ELSE "charge")
    /\ UNCHANGED <<rows, seen, history>>

(* The session goes into the invoice, then into the subscription, whose    *)
(* copy is saved with it, and the buyer is sent there.                     *)
Link(s) ==
    /\ At(s, "link")
    /\ SaveInvoice(s, req[s].status)
    /\ session' = [session EXCEPT ![req[s].invoice] = "linked"]
    /\ Goto(s, "note")
    /\ UNCHANGED <<seen, history>>

NoteSession(s) ==
    /\ At(s, "note")
    /\ SaveSub(s, req[s].copy)
    /\ session' = [session EXCEPT ![req[s].invoice] =
                     IF @ = "linked" THEN "offered" ELSE @]
    /\ Finish(s)
    /\ UNCHANGED <<seen, history>>

RequestCancellation ==
    /\ Called
    /\ sub.plan = "plus" /\ ~sub.cancel
    /\ cancellation # "pending"
    /\ cancellation' = "pending"
    /\ UNCHANGED <<now, sub, level, invoice, stripe, req, history, overlapped>>

ConfirmCancellation(s) ==
    /\ Called
    /\ cancellation = "pending"
    /\ Begin(s, [Idle EXCEPT !.copy = sub, !.pc = "confirm"])
    /\ UNCHANGED stripe

(* The mail that follows says until when the plan stays and that nothing   *)
(* is charged after that.                                                  *)
ConfirmSub(s) ==
    LET copy == req[s].copy IN
    /\ At(s, "confirm")
    /\ SaveSub(s, [copy EXCEPT !.cancel = TRUE])
    /\ ended' = (\A t \in Slots \ {s} : req[t].pc = "idle")
    /\ promised' = IF copy.plan = "plus" /\ copy.status = "active" THEN copy.end ELSE promised
    /\ Goto(s, "confirmed")
    /\ UNCHANGED <<stripe, charged, unsaved>>

Confirmed(s) ==
    /\ At(s, "confirmed")
    /\ cancellation' = "confirmed"
    /\ Finish(s)
    /\ UNCHANGED <<sub, level, invoice, stripe, history>>

-----------------------------------------------------------------------------
(* Stripe.                                                                 *)

Pay(i) ==
    /\ session[i] = "offered"
    /\ session' = [session EXCEPT ![i] = "completed"]
    /\ UNCHANGED <<now, rows, seen, req, history, overlapped, bounds>>

Abandon(i) ==
    /\ session[i] \in {"linked", "offered"}
    /\ session' = [session EXCEPT ![i] = "expired"]
    /\ UNCHANGED <<now, rows, seen, req, history, overlapped, bounds>>

(* handleStripeEvent, with the invoice of the session.                     *)
StripeEvent(s, i) ==
    /\ session[i] \in {"completed", "expired"} /\ i \notin seen
    /\ Begin(s, [Idle EXCEPT !.event = TRUE, !.invoice = i, !.status = invoice[i], !.plan = "plus",
                             !.pc = IF session[i] = "completed" THEN "read" ELSE "reread"])
    /\ UNCHANGED <<stripe, bounds>>

(* completeCheckout, whatever the invoice's status is.                     *)
ReadSub(s) ==
    /\ At(s, "read")
    /\ req' = [req EXCEPT ![s].copy = sub, ![s].pc = "paid"]
    /\ UNCHANGED <<rows, stripe, history>>

RecordEvent(s) ==
    /\ At(s, "done")
    /\ seen' = seen \cup {req[s].invoice}
    /\ req' = [req EXCEPT ![s] = Idle]
    /\ UNCHANGED <<rows, session, history>>

-----------------------------------------------------------------------------
(* The jobs.                                                               *)

(* processRenewals: a subscription that is past due is renewed, too.       *)
RenewAnyway(s) ==
    /\ sub.end <= now
    /\ Called
    /\ Begin(s, [Idle EXCEPT !.copy = sub, !.at = now, !.renewal = TRUE,
                             !.plan = IF sub.pending THEN "free" ELSE sub.plan,
                             !.pc = IF sub.plan = "free" \/ sub.pending THEN "apply" ELSE "open"])
    /\ UNCHANGED stripe

ProcessRenewals(s) ==
    /\ sub.end <= now
    /\ Called
    /\ LET free == sub.plan = "free" \/ sub.pending
       IN  Begin(s, [Idle EXCEPT !.copy = sub, !.at = now, !.renewal = TRUE,
                                 !.plan = IF free THEN "free" ELSE "plus",
                                 !.pc = CASE sub.cancel -> "drop"
                                          [] free /\ ~sub.cancel -> "apply"
                                          [] OTHER -> "open"])
    /\ UNCHANGED stripe

Charge(s) ==
    LET t == req[s].copy.end IN
    /\ At(s, "charge")
    /\ \/ /\ charged' = IF req[s].renewal THEN [charged EXCEPT ![t] = @ + 1] ELSE charged
          /\ Goto(s, "paid")
       \/ Goto(s, "reread") /\ UNCHANGED charged
    /\ UNCHANGED <<rows, stripe, unsaved, ended, promised>>

SavePaid(s) ==
    /\ At(s, "paid")
    /\ SaveInvoice(s, "paid")
    /\ Goto(s, "apply")
    /\ UNCHANGED <<stripe, history>>

(* applyPaidPlan; only a renewal begins a new period.                      *)
Paid(s, row) == [row EXCEPT !.plan = req[s].plan, !.status = "active", !.cancel = FALSE,
                            !.pending = FALSE, !.grace = 0]
AppliedInGrace(s, row) == [Paid(s, row) EXCEPT !.grace = row.grace]
AppliedInPlace(s, row) == Paid(s, row)
Applied(s, row) == [Paid(s, row) EXCEPT !.end = IF req[s].renewal THEN now + Period ELSE @]

Apply(s) ==
    /\ At(s, "apply")
    /\ SaveSub(s, Applied(s, req[s].copy))
    /\ ended' = (ended /\ req[s].renewal)
    /\ Goto(s, "level")
    /\ UNCHANGED <<stripe, charged, unsaved, promised>>

SyncLevel(s) ==
    /\ At(s, "level")
    /\ level' = req[s].plan
    /\ Finish(s)
    /\ UNCHANGED <<sub, cancellation, invoice, stripe, history>>

(* recordPaymentFailed, of a charge or of a session that expired.          *)
ReadFailed(s) ==
    /\ At(s, "reread")
    /\ req' = [req EXCEPT ![s].status = invoice[req[s].invoice], ![s].pc = "failing"]
    /\ UNCHANGED <<rows, stripe, history>>

ReadFailing(s) ==
    /\ At(s, "failing")
    /\ req' = [req EXCEPT ![s].copy = sub, ![s].pc = "keep"]
    /\ UNCHANGED <<rows, stripe, history>>

KeepInvoice(s) ==
    /\ At(s, "keep")
    /\ SaveInvoice(s, req[s].status)
    /\ Goto(s, "failed")
    /\ UNCHANGED <<stripe, history>>

PastDue(s) ==
    /\ At(s, "failed")
    /\ SaveSub(s, [req[s].copy EXCEPT !.status = "past_due", !.grace = now + Grace])
    /\ Finish(s)
    /\ UNCHANGED <<stripe, history>>

(* processRenewalNotices saves what it read before it mailed.              *)
ProcessRenewalNotices(s) ==
    /\ sub.status = "active" /\ sub.plan = "plus" /\ ~sub.cancel
    /\ sub.end > now
    /\ Called
    /\ Begin(s, [Idle EXCEPT !.copy = sub, !.pc = "notice"])
    /\ UNCHANGED stripe

SaveNotice(s) ==
    /\ At(s, "notice")
    /\ SaveSub(s, req[s].copy)
    /\ Finish(s)
    /\ UNCHANGED <<stripe, history>>

(* processGraceExpiry.                                                     *)
ProcessGraceExpiry(s) ==
    /\ sub.status = "past_due" /\ sub.grace <= now
    /\ Called
    /\ Begin(s, [Idle EXCEPT !.copy = sub, !.at = now, !.pc = "list"])
    /\ UNCHANGED stripe

ListOpen(s) ==
    /\ At(s, "list")
    /\ req' = [req EXCEPT ![s].todo = {i \in Invoices : invoice[i] = "open"},
                          ![s].pc = "write off"]
    /\ UNCHANGED <<rows, stripe, history>>

WriteOff(s) ==
    /\ At(s, "write off")
    /\ \/ /\ req[s].todo = {}
          /\ Goto(s, "drop")
          /\ UNCHANGED invoice
       \/ \E i \in req[s].todo :
             /\ invoice' = [invoice EXCEPT ![i] = "uncollectible"]
             /\ req' = [req EXCEPT ![s].todo = @ \ {i}]
    /\ UNCHANGED <<sub, level, cancellation, stripe, history>>

(* The plan is taken back, by either job.                                  *)
Drop(s) ==
    /\ At(s, "drop")
    /\ SaveSub(s, [New EXCEPT !.end = req[s].at + Period])
    /\ req' = [req EXCEPT ![s].plan = "free", ![s].pc = "level"]
    /\ UNCHANGED <<stripe, history>>

-----------------------------------------------------------------------------
(* A statement fails or the process dies, and what began is not resumed.   *)
Fault(s) ==
    /\ req[s].pc # "idle"
    /\ faults < MaxFaults /\ faults' = faults + 1
    /\ unsaved' = IF req[s].pc \in {"paid", "apply"} /\ req[s].renewal /\ req[s].plan = "plus"
                  THEN unsaved + 1 ELSE unsaved
    /\ req' = [req EXCEPT ![s] = Idle]
    /\ UNCHANGED <<now, rows, stripe, charged, ended, promised, overlapped, calls>>

Step(s) ==
    \/ Pend(s) \/ OpenInvoice(s) \/ Ask(s) \/ Link(s) \/ NoteSession(s)
    \/ ConfirmSub(s) \/ Confirmed(s) \/ ReadSub(s) \/ RecordEvent(s)
    \/ Charge(s) \/ SavePaid(s) \/ Apply(s) \/ SyncLevel(s)
    \/ ReadFailed(s) \/ ReadFailing(s) \/ KeepInvoice(s) \/ PastDue(s)
    \/ ListOpen(s) \/ WriteOff(s) \/ Drop(s) \/ SaveNotice(s)

Next ==
    \/ Tick \/ RequestCancellation
    \/ \E i \in Invoices : Pay(i) \/ Abandon(i)
    \/ \E s \in Slots : \/ StartCheckout(s) \/ ConfirmCancellation(s)
                        \/ ProcessRenewals(s) \/ ProcessRenewalNotices(s)
                        \/ ProcessGraceExpiry(s)
                        \/ \E i \in Invoices : StripeEvent(s, i)
                        \/ Step(s) \/ Fault(s)

Spec == Init /\ [][Next]_vars

-----------------------------------------------------------------------------
(* Every row, request and history has a value of its kind, and there is a  *)
(* grace period exactly while the subscription is past due.                *)
TypeOK ==
    /\ now \in 0 .. MaxTime
    /\ sub \in Sub /\ level \in Plans
    /\ sub.status = "past_due" <=> sub.grace > 0
    /\ cancellation \in {"none", "pending", "confirmed"}
    /\ invoice \in [Invoices -> Statuses] /\ session \in [Invoices -> Sessions]
    /\ seen \subseteq Invoices
    /\ req \in [Slots -> Req]
    /\ charged \in [0 .. MaxTime -> Nat] /\ unsaved \in Nat
    /\ ended \in BOOLEAN /\ promised \in Nat /\ overlapped \in BOOLEAN
    /\ calls \in 0 .. MaxCalls /\ faults \in 0 .. MaxFaults

(* "No further charges will be made": once a cancellation is confirmed, no *)
(* renewal is charged until a checkout is completed, whatever fails, is    *)
(* abandoned or comes late, if nothing else ran while it was confirmed.    *)
CancelHolds == [][ended => charged' = charged]_vars

(* One renewal of a period is charged, unless it could not be saved that   *)
(* it was, however often the job runs or finds the subscription past due.  *)
RenewedOnce == ~overlapped => \A t \in 0 .. MaxTime : charged[t] <= 1 + unsaved

(* "Your subscription will remain active until": what the mail of a        *)
(* confirmed cancellation promises.                                        *)
ActiveUntilEnd == now < promised => sub.plan = "plus"
=============================================================================
