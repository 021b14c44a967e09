---------------------------- MODULE BillingProofs ----------------------------
(***************************************************************************)
(* What holds of Billing for any invoices, operations in flight, periods   *)
(* and failures: a confirmed cancellation is not followed by a charge, and *)
(* a period is charged once while operations take turns.                   *)
(***************************************************************************)
EXTENDS Billing, TLAPS

-----------------------------------------------------------------------------
(* Types.                                                                  *)

(* Whoever is past due has a date at which the grace period ends.          *)
Due(row) == row.status = "past_due" <=> row.grace > 0

(* An operation that will look at its invoice or record an event has one.  *)
Good(r) ==
    /\ r \in Req /\ Due(r.copy)
    /\ (r.event \/ r.pc \in {"ask", "charge", "reread", "done"}) => r.invoice \in Invoices

Typed == TypeOK /\ \A s \in Slots : Good(req[s])

LEMMA NewType == New \in Sub /\ Due(New)
BY BillingAssumption DEF New, Sub, Plans, Due

LEMMA IdleGood == Good(Idle)
<1>1. Idle \in Req
  BY NewType DEF Idle, Req, PCs, Statuses, Plans
<1> QED
  BY <1>1, NewType DEF Good, Idle

(* An operation that looks at no invoice next may go on with any record of  *)
(* its kind.                                                               *)
LEMMA CopyGood ==
    ASSUME NEW q, Good(q), NEW row \in Sub, Due(row),
           NEW pc \in PCs \ {"ask", "charge", "reread", "done"}
    PROVE  Good([q EXCEPT !.copy = row, !.pc = pc])
<1> DEFINE r == [q EXCEPT !.copy = row, !.pc = pc]
<1>1. q \in Req /\ Due(q.copy)
  BY DEF Good
<1>2. r \in Req
  BY <1>1 DEF Req
<1>3. r.copy = row /\ r.pc = pc /\ r.invoice = q.invoice
      /\ r.event = q.event
  BY <1>1 DEF Req
<1>4. Due(r.copy)
  BY <1>1, <1>3 DEF Due
<1> HIDE DEF r
<1>5. Good(r)
  BY <1>2, <1>3, <1>4 DEF Good
<1> QED
  BY <1>5 DEF r

LEMMA StatusGood ==
    ASSUME NEW q, Good(q), NEW status \in Statuses,
           NEW pc \in PCs \ {"ask", "charge", "reread", "done"}
    PROVE  Good([q EXCEPT !.status = status, !.pc = pc])
<1> DEFINE r == [q EXCEPT !.status = status, !.pc = pc]
<1>1. q \in Req /\ Due(q.copy)
  BY DEF Good
<1>2. r \in Req
  BY <1>1 DEF Req
<1>3. r.status = status /\ r.pc = pc /\ r.invoice = q.invoice
      /\ r.event = q.event
  BY <1>1 DEF Req
<1>4. Due(r.copy)
  BY <1>1 DEF Due, Req
<1> HIDE DEF r
<1>5. Good(r)
  BY <1>2, <1>3, <1>4 DEF Good
<1> QED
  BY <1>5 DEF r

LEMMA TodoGood ==
    ASSUME NEW q, Good(q), NEW todo \in SUBSET Invoices,
           NEW pc \in PCs \ {"ask", "charge", "reread", "done"}
    PROVE  Good([q EXCEPT !.todo = todo, !.pc = pc])
<1> DEFINE r == [q EXCEPT !.todo = todo, !.pc = pc]
<1>1. q \in Req /\ Due(q.copy)
  BY DEF Good
<1>2. r \in Req
  BY <1>1 DEF Req
<1>3. r.todo = todo /\ r.pc = pc /\ r.invoice = q.invoice
      /\ r.event = q.event
  BY <1>1 DEF Req
<1>4. Due(r.copy)
  BY <1>1 DEF Due, Req
<1> HIDE DEF r
<1>5. Good(r)
  BY <1>2, <1>3, <1>4 DEF Good
<1> QED
  BY <1>5 DEF r

LEMMA PlanGood ==
    ASSUME NEW q, Good(q), NEW plan \in Plans,
           NEW pc \in PCs \ {"ask", "charge", "reread", "done"}
    PROVE  Good([q EXCEPT !.plan = plan, !.pc = pc])
<1> DEFINE r == [q EXCEPT !.plan = plan, !.pc = pc]
<1>1. q \in Req /\ Due(q.copy)
  BY DEF Good
<1>2. r \in Req
  BY <1>1 DEF Req
<1>3. r.plan = plan /\ r.pc = pc /\ r.invoice = q.invoice
      /\ r.event = q.event
  BY <1>1 DEF Req
<1>4. Due(r.copy)
  BY <1>1 DEF Due, Req
<1> HIDE DEF r
<1>5. Good(r)
  BY <1>2, <1>3, <1>4 DEF Good
<1> QED
  BY <1>5 DEF r

LEMMA InvoiceGood ==
    ASSUME NEW q, Good(q), NEW i \in Invoices, NEW pc \in PCs, NEW status \in Statuses
    PROVE  Good([q EXCEPT !.invoice = i, !.status = status, !.pc = pc])
<1> DEFINE r == [q EXCEPT !.invoice = i, !.status = status, !.pc = pc]
<1>1. q \in Req /\ Due(q.copy)
  BY DEF Good
<1>2. r \in Req
  BY <1>1 DEF Req
<1>3. r.invoice = i /\ r.pc = pc /\ r.status = status
      /\ r.event = q.event
  BY <1>1 DEF Req
<1>4. Due(r.copy)
  BY <1>1 DEF Due, Req
<1> HIDE DEF r
<1>5. Good(r)
  BY <1>2, <1>3, <1>4 DEF Good
<1> QED
  BY <1>5 DEF r

LEMMA LeftGood ==
    ASSUME NEW q, Good(q), NEW todo \in SUBSET Invoices
    PROVE  Good([q EXCEPT !.todo = todo])
<1> DEFINE r == [q EXCEPT !.todo = todo]
<1>1. q \in Req /\ Due(q.copy)
  BY DEF Good
<1>2. r \in Req
  BY <1>1 DEF Req
<1>3. r.pc = q.pc /\ r.copy = q.copy /\ r.invoice = q.invoice /\ r.event = q.event
  BY <1>1 DEF Req
<1> HIDE DEF r
<1>4. Good(r)
  BY <1>1, <1>2, <1>3 DEF Good, Due
<1> QED
  BY <1>4 DEF r

LEMMA JobGood ==
    ASSUME NEW q, Good(q), NEW row \in Sub, Due(row), NEW t \in Nat,
           NEW pc \in PCs \ {"ask", "charge", "reread", "done"}
    PROVE  Good([q EXCEPT !.copy = row, !.at = t, !.pc = pc])
<1> DEFINE r == [q EXCEPT !.copy = row, !.at = t, !.pc = pc]
<1>1. q \in Req /\ Due(q.copy)
  BY DEF Good
<1>2. r \in Req
  BY <1>1 DEF Req
<1>3. r.copy = row /\ r.pc = pc /\ r.invoice = q.invoice
      /\ r.event = q.event
  BY <1>1 DEF Req
<1>4. Due(r.copy)
  BY <1>1, <1>3 DEF Due
<1> HIDE DEF r
<1>5. Good(r)
  BY <1>2, <1>3, <1>4 DEF Good
<1> QED
  BY <1>5 DEF r

LEMMA RenewalGood ==
    ASSUME NEW q, Good(q), NEW row \in Sub, Due(row), NEW t \in Nat, NEW plan \in Plans,
           NEW pc \in PCs \ {"ask", "charge", "reread", "done"}
    PROVE  Good([q EXCEPT !.copy = row, !.at = t, !.renewal = TRUE, !.plan = plan, !.pc = pc])
<1> DEFINE r == [q EXCEPT !.copy = row, !.at = t, !.renewal = TRUE, !.plan = plan, !.pc = pc]
<1>1. q \in Req /\ Due(q.copy)
  BY DEF Good
<1>2. r \in Req
  BY <1>1 DEF Req
<1>3. r.copy = row /\ r.pc = pc /\ r.invoice = q.invoice
      /\ r.event = q.event
  BY <1>1 DEF Req
<1>4. Due(r.copy)
  BY <1>1, <1>3 DEF Due
<1> HIDE DEF r
<1>5. Good(r)
  BY <1>2, <1>3, <1>4 DEF Good
<1> QED
  BY <1>5 DEF r

(* A checkout that begins.                                                 *)
LEMMA CheckoutGood ==
    ASSUME NEW row \in Sub, Due(row), NEW pc \in {"open", "pend", "apply"}
    PROVE  Good([Idle EXCEPT !.copy = row, !.plan = "plus", !.pc = pc])
<1> DEFINE r == [Idle EXCEPT !.copy = row, !.plan = "plus", !.pc = pc]
<1>1. Idle \in Req /\ Idle.event = FALSE
  BY IdleGood DEF Good, Idle
<1>2. pc \in PCs /\ pc \notin {"ask", "charge", "reread", "done"} /\ "plus" \in Plans
  BY DEF PCs, Plans
<1>3. r \in Req
  BY <1>1, <1>2 DEF Req
<1>4. r.copy = row /\ r.pc = pc /\ r.event = FALSE
  BY <1>1 DEF Req
<1> HIDE DEF r
<1>5. Good(r)
  BY <1>2, <1>3, <1>4 DEF Good
<1> QED
  BY <1>5 DEF r

(* An event of Stripe's that is taken up.                                  *)
LEMMA EventGood ==
    ASSUME NEW i \in Invoices, NEW status \in Statuses, NEW pc \in {"read", "reread"}
    PROVE  Good([Idle EXCEPT !.event = TRUE, !.invoice = i, !.status = status, !.plan = "plus",
                             !.pc = pc])
<1> DEFINE r == [Idle EXCEPT !.event = TRUE, !.invoice = i, !.status = status, !.plan = "plus",
                             !.pc = pc]
<1>1. Idle \in Req /\ Due(Idle.copy)
  BY IdleGood DEF Good
<1>2. pc \in PCs /\ "plus" \in Plans
  BY DEF PCs, Plans
<1>3. r \in Req
  BY <1>1, <1>2 DEF Req
<1>4. r.copy = Idle.copy /\ r.invoice = i
  BY <1>1 DEF Req
<1>5. Due(r.copy)
  BY <1>1, <1>4
<1> HIDE DEF r
<1>6. Good(r)
  BY <1>3, <1>4, <1>5 DEF Good
<1> QED
  BY <1>6 DEF r

LEMMA SetGood ==
    ASSUME NEW s \in Slots, NEW r, Good(r), Typed, req' = [req EXCEPT ![s] = r]
    PROVE  req' \in [Slots -> Req] /\ \A t \in Slots : Good(req'[t])
<1>1. req \in [Slots -> Req] /\ r \in Req
  BY DEF Typed, TypeOK, Good
<1>2. \A t \in Slots : req'[t] = IF t = s THEN r ELSE req[t]
  BY <1>1
<1>3. req' \in [Slots -> Req]
  BY <1>1
<1> QED
  BY <1>2, <1>3 DEF Typed

LEMMA GotoGood ==
    ASSUME NEW s \in Slots, NEW pc \in PCs, Typed, Goto(s, pc),
           pc \in {"ask", "charge", "reread", "done"} => req[s].invoice \in Invoices
    PROVE  req' \in [Slots -> Req] /\ \A t \in Slots : Good(req'[t])
<1> DEFINE r == [req[s] EXCEPT !.pc = pc]
<1>1. req[s] \in Req /\ Good(req[s])
  BY DEF Typed, TypeOK
<1>2. Good(r)
  BY <1>1 DEF Good, Req
<1>3. req' = [req EXCEPT ![s] = r]
  BY DEF Goto
<1> HIDE DEF r
<1> QED
  BY <1>2, <1>3, SetGood

LEMMA FinishGood ==
    ASSUME NEW s \in Slots, Typed, Finish(s)
    PROVE  req' \in [Slots -> Req] /\ \A t \in Slots : Good(req'[t])
<1>1. CASE req[s].event
  <2>1. Goto(s, "done")
    BY <1>1 DEF Finish, Goto
  <2>2. req[s].invoice \in Invoices
    BY <1>1 DEF Typed, Good
  <2> QED
    BY <2>1, <2>2, GotoGood DEF PCs
<1>2. CASE ~req[s].event
  BY <1>2, IdleGood, SetGood DEF Finish
<1> QED
  BY <1>1, <1>2

(* The parts of Typed that an operation that begins, or a step of one, has *)
(* to keep.                                                                *)
LEMMA BeginType ==
    ASSUME NEW s \in Slots, NEW r, Good(r), Typed, Begin(s, r), UNCHANGED session,
           seen' = seen, calls' \in 0 .. MaxCalls, faults' \in 0 .. MaxFaults
    PROVE  Typed'
<1>1. req' \in [Slots -> Req] /\ \A t \in Slots : Good(req'[t])
  BY SetGood DEF Begin
<1>2. overlapped' \in BOOLEAN
  BY DEF Begin, Busy, Typed, TypeOK
<1> QED
  BY <1>1, <1>2 DEF Begin, Typed, TypeOK, rows, history

LEMMA StepType ==
    ASSUME Typed, UNCHANGED <<now, overlapped, bounds>>,
           req' \in [Slots -> Req], \A t \in Slots : Good(req'[t]),
           sub' \in Sub, Due(sub'), level' \in Plans,
           cancellation' \in {"none", "pending", "confirmed"},
           invoice' \in [Invoices -> Statuses], session' \in [Invoices -> Sessions],
           seen' \subseteq Invoices,
           charged' \in [0 .. MaxTime -> Nat], unsaved' \in Nat,
           ended' \in BOOLEAN, promised' \in Nat
    PROVE  Typed'
BY DEF Typed, TypeOK, bounds, Due

(* Every step keeps the types.                                             *)
LEMMA TypedStep == Typed /\ [Next]_vars => Typed'
<1> SUFFICES ASSUME Typed, [Next]_vars PROVE Typed'
  OBVIOUS
<1> USE BillingAssumption
<1>0. /\ now \in 0 .. MaxTime /\ calls \in 0 .. MaxCalls /\ faults \in 0 .. MaxFaults
      /\ sub \in Sub /\ Due(sub) /\ level \in Plans
      /\ cancellation \in {"none", "pending", "confirmed"}
      /\ invoice \in [Invoices -> Statuses] /\ session \in [Invoices -> Sessions]
      /\ seen \subseteq Invoices /\ req \in [Slots -> Req]
      /\ charged \in [0 .. MaxTime -> Nat] /\ unsaved \in Nat
      /\ ended \in BOOLEAN /\ promised \in Nat
      /\ \A s \in Slots : Good(req[s])
  BY DEF Typed, TypeOK, Due
<1>a. \A s \in Slots : /\ req[s] \in Req /\ req[s].copy \in Sub /\ Due(req[s].copy)
                       /\ req[s].status \in Statuses /\ req[s].plan \in Plans
                       /\ req[s].at \in Nat /\ req[s].renewal \in BOOLEAN
                       /\ req[s].event \in BOOLEAN /\ req[s].todo \subseteq Invoices
  BY <1>0 DEF Req, Good
<1>b. Called => calls' \in 0 .. MaxCalls /\ faults' \in 0 .. MaxFaults
  BY <1>0 DEF Called
<1>c. now \in Nat
  BY <1>0
<1>1. CASE Tick
  <2>1. now' \in 0 .. MaxTime
    BY <1>0, <1>1 DEF Tick
  <2> QED
    BY <1>0, <1>1, <2>1 DEF Tick, rows, stripe, history, bounds, Typed, TypeOK
<1>2. CASE RequestCancellation
  BY <1>0, <1>b, <1>2 DEF RequestCancellation, stripe, history, Typed, TypeOK
<1>3. ASSUME NEW i \in Invoices, Pay(i) PROVE Typed'
  BY <1>0, <1>3 DEF Pay, rows, history, bounds, Typed, TypeOK, Sessions
<1>4. ASSUME NEW i \in Invoices, Abandon(i) PROVE Typed'
  BY <1>0, <1>4 DEF Abandon, rows, history, bounds, Typed, TypeOK, Sessions
<1>5. ASSUME NEW s \in Slots, StartCheckout(s) PROVE Typed'
  <2>0. PICK pc \in {"open", "pend", "apply"} :
                Begin(s, [Idle EXCEPT !.copy = sub, !.plan = "plus", !.pc = pc])
    BY <1>5 DEF StartCheckout, Changes
  <2> DEFINE r == [Idle EXCEPT !.copy = sub, !.plan = "plus", !.pc = pc]
  <2>1. Good(r)
    BY <1>0, CheckoutGood
  <2>2. Begin(s, r)
    BY <2>0
  <2> HIDE DEF r
  <2> QED
    BY <1>b, <1>5, <2>1, <2>2, BeginType DEF StartCheckout, stripe
<1>6. ASSUME NEW s \in Slots, ConfirmCancellation(s) PROVE Typed'
  <2> DEFINE r == [Idle EXCEPT !.copy = sub, !.pc = "confirm"]
  <2>1. Good(r)
    BY <1>0, IdleGood, CopyGood DEF PCs
  <2>2. Begin(s, r)
    BY <1>6 DEF ConfirmCancellation
  <2> HIDE DEF r
  <2> QED
    BY <1>b, <1>6, <2>1, <2>2, BeginType DEF ConfirmCancellation, stripe
<1>7. ASSUME NEW s \in Slots, ProcessRenewals(s) PROVE Typed'
  <2>1. PICK plan \in Plans, pc \in {"drop", "apply", "open"} :
           Begin(s, [Idle EXCEPT !.copy = sub, !.at = now, !.renewal = TRUE,
                                 !.plan = plan, !.pc = pc])
    <3> DEFINE free == sub.plan = "free" \/ sub.pending
               plan == IF free THEN "free" ELSE "plus"
               pc == CASE sub.cancel -> "drop" [] free /\ ~sub.cancel -> "apply"
                       [] OTHER -> "open"
    <3>1. plan \in Plans /\ pc \in {"drop", "apply", "open"}
      BY DEF Plans
    <3> QED
      BY <1>7, <3>1 DEF ProcessRenewals
  <2> DEFINE r == [Idle EXCEPT !.copy = sub, !.at = now, !.renewal = TRUE,
                               !.plan = plan, !.pc = pc]
  <2>2. Good(r)
    BY <1>0, <1>c, IdleGood, RenewalGood DEF PCs
  <2>3. Begin(s, r)
    BY <2>1
  <2> HIDE DEF r
  <2> QED
    BY <1>b, <1>7, <2>2, <2>3, BeginType DEF ProcessRenewals, stripe
<1>8. ASSUME NEW s \in Slots, ProcessRenewalNotices(s) PROVE Typed'
  <2> DEFINE r == [Idle EXCEPT !.copy = sub, !.pc = "notice"]
  <2>1. Good(r)
    BY <1>0, IdleGood, CopyGood DEF PCs
  <2>2. Begin(s, r)
    BY <1>8 DEF ProcessRenewalNotices
  <2> HIDE DEF r
  <2> QED
    BY <1>b, <1>8, <2>1, <2>2, BeginType DEF ProcessRenewalNotices, stripe
<1>9. ASSUME NEW s \in Slots, ProcessGraceExpiry(s) PROVE Typed'
  <2> DEFINE r == [Idle EXCEPT !.copy = sub, !.at = now, !.pc = "list"]
  <2>1. Good(r)
    BY <1>0, <1>c, IdleGood, JobGood DEF PCs
  <2>2. Begin(s, r)
    BY <1>9 DEF ProcessGraceExpiry
  <2> HIDE DEF r
  <2> QED
    BY <1>b, <1>9, <2>1, <2>2, BeginType DEF ProcessGraceExpiry, stripe
<1>10. ASSUME NEW s \in Slots, NEW i \in Invoices, StripeEvent(s, i) PROVE Typed'
  <2> DEFINE r == [Idle EXCEPT !.event = TRUE, !.invoice = i, !.status = invoice[i], !.plan = "plus",
                               !.pc = IF session[i] = "completed" THEN "read" ELSE "reread"]
  <2>1. Good(r)
    BY <1>0, EventGood
  <2>2. Begin(s, r)
    BY <1>10 DEF StripeEvent
  <2> HIDE DEF r
  <2> QED
    BY <1>0, <1>10, <2>1, <2>2, BeginType DEF StripeEvent, stripe, bounds
<1>11. ASSUME NEW s \in Slots, Pend(s) PROVE Typed'
  <2>1. sub' \in Sub /\ Due(sub')
    BY <1>a, <1>11 DEF Pend, SaveSub, Sub, Due
  <2> QED
    BY <1>0, <1>11, <2>1, FinishGood, StepType DEF Pend, At, SaveSub, stripe, history
<1>12. ASSUME NEW s \in Slots, OpenInvoice(s) PROVE Typed'
  <2>1. PICK i \in Invoices :
           /\ invoice' = [invoice EXCEPT ![i] = "open"]
           /\ req' = [req EXCEPT ![s].invoice = i, ![s].status = "open",
                                 ![s].pc = IF req[s].renewal THEN "charge" ELSE "ask"]
    BY <1>12 DEF OpenInvoice
  <2> DEFINE r == [req[s] EXCEPT !.invoice = i, !.status = "open",
                                 !.pc = IF req[s].renewal THEN "charge" ELSE "ask"]
  <2>2. Good(r)
    <3>1. (IF req[s].renewal THEN "charge" ELSE "ask") \in PCs /\ "open" \in Statuses
      BY DEF PCs, Statuses
    <3> QED
      BY <1>0, <3>1, InvoiceGood
  <2>3. req' = [req EXCEPT ![s] = r]
    BY <1>0, <2>1 DEF Req
  <2>4. invoice' \in [Invoices -> Statuses]
    BY <1>0, <2>1 DEF Statuses
  <2> HIDE DEF r
  <2> QED
    BY <1>0, <1>12, <2>2, <2>3, <2>4, SetGood, StepType DEF OpenInvoice, At, stripe, history
<1>13. ASSUME NEW s \in Slots, Ask(s) PROVE Typed'
  <2>1. PICK pc \in {"link", "charge"} : Goto(s, pc)
    BY <1>13 DEF Ask
  <2>2. req[s].invoice \in Invoices
    BY <1>0, <1>13 DEF Ask, At, Good
  <2>3. session' \in [Invoices -> Sessions]
    BY <1>0, <1>13 DEF Ask, Sessions
  <2> QED
    BY <1>0, <1>13, <2>1, <2>2, <2>3, GotoGood, StepType DEF Ask, At, PCs, rows, history
<1>14. ASSUME NEW s \in Slots, Link(s) PROVE Typed'
  <2>1. invoice' \in [Invoices -> Statuses] /\ session' \in [Invoices -> Sessions]
    BY <1>0, <1>a, <1>14 DEF Link, SaveInvoice, Sessions
  <2> QED
    BY <1>0, <1>14, <2>1, GotoGood, StepType DEF Link, At, SaveInvoice, PCs, history
<1>15. ASSUME NEW s \in Slots, NoteSession(s) PROVE Typed'
  <2>1. session' \in [Invoices -> Sessions]
    BY <1>0, <1>15 DEF NoteSession, Sessions
  <2> QED
    BY <1>0, <1>a, <1>15, <2>1, FinishGood, StepType DEF NoteSession, At, SaveSub, history
<1>16. ASSUME NEW s \in Slots, ConfirmSub(s) PROVE Typed'
  <2>1. sub' \in Sub /\ Due(sub')
    BY <1>a, <1>16 DEF ConfirmSub, SaveSub, Sub, Due
  <2>2. promised' \in Nat
    BY <1>0, <1>a, <1>16 DEF ConfirmSub, Sub
  <2>3. ended' \in BOOLEAN
    BY <1>16 DEF ConfirmSub
  <2> QED
    BY <1>0, <1>16, <2>1, <2>2, <2>3, GotoGood, StepType DEF ConfirmSub, At, SaveSub, PCs, stripe
<1>17. ASSUME NEW s \in Slots, Confirmed(s) PROVE Typed'
  BY <1>0, <1>17, FinishGood, StepType DEF Confirmed, At, stripe, history
<1>18. ASSUME NEW s \in Slots, ReadSub(s) PROVE Typed'
  <2> DEFINE r == [req[s] EXCEPT !.copy = sub, !.pc = "paid"]
  <2>1. Good(r)
    BY <1>0, CopyGood DEF PCs
  <2>2. req' = [req EXCEPT ![s] = r]
    BY <1>0, <1>18 DEF ReadSub, Req
  <2> HIDE DEF r
  <2> QED
    BY <1>0, <1>18, <2>1, <2>2, SetGood, StepType DEF ReadSub, At, rows, stripe, history
<1>19. ASSUME NEW s \in Slots, RecordEvent(s) PROVE Typed'
  <2>1. req[s].invoice \in Invoices
    BY <1>0, <1>19 DEF RecordEvent, At, Good
  <2> QED
    BY <1>0, <1>19, <2>1, IdleGood, SetGood, StepType DEF RecordEvent, At, rows, history
<1>20. ASSUME NEW s \in Slots, Charge(s) PROVE Typed'
  <2>1. PICK pc \in {"paid", "reread"} : Goto(s, pc)
    BY <1>20 DEF Charge
  <2>2. req[s].invoice \in Invoices
    BY <1>0, <1>20 DEF Charge, At, Good
  <2>3. charged' \in [0 .. MaxTime -> Nat]
    <3>1. CASE charged' = charged
      BY <1>0, <3>1
    <3>2. CASE charged' = [charged EXCEPT ![req[s].copy.end] = @ + 1]
      <4> DEFINE t == req[s].copy.end
      <4>1. CASE t \in 0 .. MaxTime
        <5>1. charged[t] + 1 \in Nat
          BY <1>0, <4>1
        <5> QED
          BY <1>0, <3>2, <5>1
      <4>2. CASE t \notin 0 .. MaxTime
        BY <1>0, <3>2, <4>2
      <4> QED
        BY <4>1, <4>2
    <3> QED
      BY <1>20, <3>1, <3>2 DEF Charge
  <2> QED
    BY <1>0, <1>20, <2>1, <2>2, <2>3, GotoGood, StepType DEF Charge, At, PCs, rows, stripe
<1>21. ASSUME NEW s \in Slots, SavePaid(s) PROVE Typed'
  <2>1. invoice' \in [Invoices -> Statuses]
    BY <1>0, <1>21 DEF SavePaid, SaveInvoice, Statuses
  <2> QED
    BY <1>0, <1>21, <2>1, GotoGood, StepType DEF SavePaid, At, SaveInvoice, PCs, stripe, history
<1>22. ASSUME NEW s \in Slots, Apply(s) PROVE Typed'
  <2> DEFINE paid == Paid(s, req[s].copy)
  <2>1. paid \in Sub /\ Due(paid)
    <3>1. req[s].copy \in Sub /\ req[s].plan \in Plans
      BY <1>a
    <3>2. paid \in Sub
      BY <3>1 DEF Paid, Sub
    <3>3. paid.status = "active" /\ paid.grace = 0
      BY <3>1 DEF Paid, Sub
    <3> QED
      BY <3>2, <3>3 DEF Due
  <2>2. sub' = [paid EXCEPT !.end = IF req[s].renewal THEN now + Period ELSE @]
    BY <1>22 DEF Apply, SaveSub, Applied
  <2>3. now + Period \in Nat
    BY <1>0
  <2> HIDE DEF paid
  <2>4. sub' \in Sub /\ Due(sub')
    BY <2>1, <2>2, <2>3 DEF Sub, Due
  <2>5. ended' \in BOOLEAN
    BY <1>0, <1>a, <1>22 DEF Apply
  <2> QED
    BY <1>0, <1>22, <2>4, <2>5, GotoGood, StepType DEF Apply, At, SaveSub, PCs, stripe
<1>23. ASSUME NEW s \in Slots, SyncLevel(s) PROVE Typed'
  BY <1>0, <1>a, <1>23, FinishGood, StepType DEF SyncLevel, At, stripe, history
<1>24. ASSUME NEW s \in Slots, ReadFailed(s) PROVE Typed'
  <2> DEFINE r == [req[s] EXCEPT !.status = invoice[req[s].invoice], !.pc = "failing"]
  <2>1. invoice[req[s].invoice] \in Statuses
    BY <1>0, <1>24 DEF ReadFailed, At, Good
  <2>2. Good(r)
    BY <1>0, <2>1, StatusGood DEF PCs
  <2>3. req' = [req EXCEPT ![s] = r]
    BY <1>0, <1>24 DEF ReadFailed, Req
  <2> HIDE DEF r
  <2> QED
    BY <1>0, <1>24, <2>2, <2>3, SetGood, StepType DEF ReadFailed, At, rows, stripe, history
<1>25. ASSUME NEW s \in Slots, ReadFailing(s) PROVE Typed'
  <2> DEFINE r == [req[s] EXCEPT !.copy = sub, !.pc = "keep"]
  <2>1. Good(r)
    BY <1>0, CopyGood DEF PCs
  <2>2. req' = [req EXCEPT ![s] = r]
    BY <1>0, <1>25 DEF ReadFailing, Req
  <2> HIDE DEF r
  <2> QED
    BY <1>0, <1>25, <2>1, <2>2, SetGood, StepType DEF ReadFailing, At, rows, stripe, history
<1>26. ASSUME NEW s \in Slots, KeepInvoice(s) PROVE Typed'
  <2>1. invoice' \in [Invoices -> Statuses]
    BY <1>0, <1>a, <1>26 DEF KeepInvoice, SaveInvoice
  <2> QED
    BY <1>0, <1>26, <2>1, GotoGood, StepType DEF KeepInvoice, At, SaveInvoice, PCs, stripe, history
<1>27. ASSUME NEW s \in Slots, PastDue(s) PROVE Typed'
  <2>1. now + Grace \in Nat /\ now + Grace > 0
    BY <1>0
  <2>2. sub' \in Sub /\ Due(sub')
    BY <1>a, <1>27, <2>1 DEF PastDue, SaveSub, Sub, Due
  <2> QED
    BY <1>0, <1>27, <2>2, FinishGood, StepType DEF PastDue, At, SaveSub, stripe, history
<1>28. ASSUME NEW s \in Slots, ListOpen(s) PROVE Typed'
  <2> DEFINE r == [req[s] EXCEPT !.todo = {i \in Invoices : invoice[i] = "open"},
                                 !.pc = "write off"]
  <2>1. Good(r)
    BY <1>0, TodoGood DEF PCs
  <2>2. req' = [req EXCEPT ![s] = r]
    BY <1>0, <1>28 DEF ListOpen, Req
  <2> HIDE DEF r
  <2> QED
    BY <1>0, <1>28, <2>1, <2>2, SetGood, StepType DEF ListOpen, At, rows, stripe, history
<1>29. ASSUME NEW s \in Slots, WriteOff(s) PROVE Typed'
  <2>1. CASE Goto(s, "drop") /\ UNCHANGED invoice
    BY <1>0, <1>29, <2>1, GotoGood, StepType DEF WriteOff, At, PCs, stripe, history
  <2>2. ASSUME NEW i \in req[s].todo, invoice' = [invoice EXCEPT ![i] = "uncollectible"],
               req' = [req EXCEPT ![s].todo = @ \ {i}]
        PROVE  Typed'
    <3> DEFINE r == [req[s] EXCEPT !.todo = @ \ {i}]
    <3>1. req[s].todo \ {i} \in SUBSET Invoices
      BY <1>a
    <3>a. Good(r)
      BY <1>0, <3>1, LeftGood
    <3>2. req' = [req EXCEPT ![s] = r]
      BY <1>0, <2>2 DEF Req
    <3>3. invoice' \in [Invoices -> Statuses]
      BY <1>0, <1>a, <2>2 DEF Statuses
    <3> HIDE DEF r
    <3> QED
      BY <1>0, <1>29, <3>a, <3>2, <3>3, SetGood, StepType DEF WriteOff, At, stripe, history
  <2> QED
    BY <1>29, <2>1, <2>2 DEF WriteOff
<1>30. ASSUME NEW s \in Slots, Drop(s) PROVE Typed'
  <2> DEFINE r == [req[s] EXCEPT !.plan = "free", !.pc = "level"]
  <2>1. Good(r)
    BY <1>0, PlanGood DEF PCs, Plans
  <2>2. req' = [req EXCEPT ![s] = r]
    BY <1>0, <1>30 DEF Drop, Req
  <2>3. req[s].at + Period \in Nat
    BY <1>a
  <2>4. sub' \in Sub /\ Due(sub')
    BY <1>30, <2>3, NewType DEF Drop, SaveSub, Sub, Due
  <2> HIDE DEF r
  <2> QED
    BY <1>0, <1>30, <2>1, <2>2, <2>4, SetGood, StepType DEF Drop, At, SaveSub, stripe, history
<1>31. ASSUME NEW s \in Slots, SaveNotice(s) PROVE Typed'
  BY <1>0, <1>a, <1>31, FinishGood, StepType DEF SaveNotice, At, SaveSub, stripe, history
<1>32. ASSUME NEW s \in Slots, Fault(s) PROVE Typed'
  <2>1. req' \in [Slots -> Req] /\ \A t \in Slots : Good(req'[t])
    BY <1>32, IdleGood, SetGood DEF Fault
  <2>2. faults' \in 0 .. MaxFaults
    BY <1>0, <1>32 DEF Fault
  <2>3. unsaved' \in Nat
    BY <1>0, <1>32 DEF Fault
  <2> QED
    BY <1>0, <1>32, <2>1, <2>2, <2>3 DEF Fault, rows, stripe, Typed, TypeOK, Due
<1>33. CASE UNCHANGED vars
  BY <1>33 DEF vars, rows, stripe, history, bounds, Typed, TypeOK
<1> QED
  BY <1>1, <1>2, <1>3, <1>4, <1>5, <1>6, <1>7, <1>8, <1>9, <1>10, <1>11, <1>12, <1>13, <1>14,
     <1>15, <1>16, <1>17, <1>18, <1>19, <1>20, <1>21, <1>22, <1>23, <1>24, <1>25, <1>26, <1>27,
     <1>28, <1>29, <1>30, <1>31, <1>32, <1>33 DEF Next, Step

LEMMA TypedInit == Init => Typed
<1> SUFFICES ASSUME Init PROVE Typed
  OBVIOUS
<1>1. \A s \in Slots : req[s] = Idle
  BY DEF Init
<1>2. sub \in Sub /\ sub.status = "active" /\ sub.grace = 0 /\ level \in Plans
  BY NewType DEF Init, New, Sub, Plans
<1>3. req \in [Slots -> Req]
  BY IdleGood DEF Init, Good
<1>4. 0 \in 0 .. MaxTime /\ 0 \in 0 .. MaxCalls /\ 0 \in 0 .. MaxFaults
  BY BillingAssumption
<1>5. charged \in [0 .. MaxTime -> Nat]
  BY DEF Init
<1>6. /\ now = 0 /\ cancellation = "none" /\ seen = {} /\ unsaved = 0 /\ promised = 0
      /\ ended = FALSE /\ overlapped = FALSE /\ calls = 0 /\ faults = 0
  BY DEF Init
<1>7. invoice \in [Invoices -> Statuses] /\ session \in [Invoices -> Sessions]
  BY DEF Init, Statuses, Sessions
<1>8. TypeOK
  <2>1. /\ ended \in BOOLEAN /\ overlapped \in BOOLEAN /\ unsaved \in Nat /\ promised \in Nat
        /\ cancellation \in {"none", "pending", "confirmed"} /\ seen \subseteq Invoices
    BY <1>6
  <2>2. sub.status = "past_due" <=> sub.grace > 0
    BY <1>2
  <2>3. now \in 0 .. MaxTime /\ calls \in 0 .. MaxCalls /\ faults \in 0 .. MaxFaults
    BY <1>4, <1>6
  <2> QED
    BY <1>2, <1>3, <1>5, <1>7, <2>1, <2>2, <2>3 DEF TypeOK
<1> QED
  BY <1>1, <1>8, IdleGood DEF Typed

(* The rows, the operations in flight and the clock keep their types.      *)
THEOREM TypeCorrect == Spec => []TypeOK
<1>1. Typed => TypeOK
  BY DEF Typed
<1> QED
  BY <1>1, TypedInit, TypedStep, PTL DEF Spec

-----------------------------------------------------------------------------
(* A confirmed cancellation holds.  From then on the subscription shows it *)
(* or is free, and so does every copy that may still be saved; a renewal   *)
(* that has begun since takes the plan back or renews the free one.        *)
Ends(row) == row.cancel \/ row.plan = "free"

Harmless(r) ==
    /\ r.pc \in {"idle", "level", "done", "confirmed", "read", "reread", "failing"} \/ Ends(r.copy)
    /\ r.renewal => \/ r.pc \in {"idle", "level", "done", "confirmed", "drop"}
                    \/ r.pc = "apply" /\ r.plan = "free"

Inv == ended => Ends(sub) /\ \A s \in Slots : Harmless(req[s])

LEMMA IdleHarmless == Harmless(Idle)
BY DEF Harmless, Idle

(* What a step has to see to, where a cancellation holds after it.         *)
LEMMA SetHarmless ==
    ASSUME NEW s \in Slots, NEW r, Typed, Inv, req' = [req EXCEPT ![s] = r],
           ended' => ended /\ Ends(sub') /\ Harmless(r)
    PROVE  Inv'
<1>1. \A t \in Slots : req'[t] = IF t = s THEN r ELSE req[t]
  BY DEF Typed, TypeOK
<1> QED
  BY <1>1 DEF Inv

LEMMA GotoHarmless ==
    ASSUME NEW s \in Slots, NEW pc, Typed, Inv, Goto(s, pc), ended' => ended /\ Ends(sub'),
           ended => /\ \/ pc \in {"idle", "level", "done", "confirmed", "read", "reread", "failing"}
                       \/ req[s].pc \notin {"idle", "level", "done", "confirmed", "read",
                                            "reread", "failing"}
                    /\ ~req[s].renewal \/ pc \in {"level", "done", "confirmed", "drop"}
    PROVE  Inv'
<1> DEFINE r == [req[s] EXCEPT !.pc = pc]
<1>1. req[s] \in Req
  BY DEF Typed, TypeOK
<1>2. /\ r.pc = pc /\ r.copy = req[s].copy /\ r.renewal = req[s].renewal
  BY <1>1 DEF Req
<1>3. req' = [req EXCEPT ![s] = r]
  BY DEF Goto
<1> HIDE DEF r
<1>4. ended' => ended /\ Ends(sub') /\ Harmless(r)
  BY <1>2 DEF Inv, Harmless
<1> QED
  BY <1>3, <1>4, SetHarmless

LEMMA FinishHarmless ==
    ASSUME NEW s \in Slots, Typed, Inv, Finish(s), ended' => ended /\ Ends(sub')
    PROVE  Inv'
<1>1. CASE req[s].event
  <2>1. Goto(s, "done")
    BY <1>1 DEF Finish, Goto
  <2> QED
    BY <2>1, GotoHarmless
<1>2. CASE ~req[s].event
  <2>1. req' = [req EXCEPT ![s] = Idle]
    BY <1>2 DEF Finish
  <2> QED
    BY <2>1, IdleHarmless, SetHarmless
<1> QED
  BY <1>1, <1>2

(* An operation that begins has the subscription as it is.                 *)
LEMMA BeginHarmless ==
    ASSUME NEW s \in Slots, NEW r, Typed, Inv, Begin(s, r), ended => Harmless(r)
    PROVE  Inv'
BY SetHarmless DEF Begin, rows, history, Inv

LEMMA CopyHarmless ==
    ASSUME NEW s \in Slots, NEW pc, Typed, Inv, UNCHANGED <<sub, ended>>, ended => ~req[s].renewal,
           req' = [req EXCEPT ![s].copy = sub, ![s].pc = pc]
    PROVE  Inv'
<1> DEFINE r == [req[s] EXCEPT !.copy = sub, !.pc = pc]
<1>1. req[s] \in Req /\ req \in [Slots -> Req]
  BY DEF Typed, TypeOK
<1>2. r.copy = sub /\ r.renewal = req[s].renewal
  BY <1>1 DEF Req
<1>3. req' = [req EXCEPT ![s] = r]
  BY <1>1 DEF Req
<1> HIDE DEF r
<1>4. ended => Ends(sub) /\ Harmless(r)
  BY <1>2 DEF Inv, Harmless
<1> QED
  BY <1>3, <1>4, SetHarmless

LEMMA InvStep == Typed /\ Inv /\ [Next]_vars => Inv'
<1> SUFFICES ASSUME Typed, Inv, [Next]_vars PROVE Inv'
  OBVIOUS
<1>0. /\ \A s \in Slots : req[s] \in Req /\ req[s].copy \in Sub
      /\ sub \in Sub /\ req \in [Slots -> Req]
  BY DEF Typed, TypeOK, Req
<1>a. ended => Ends(sub) /\ \A s \in Slots : Harmless(req[s])
  BY DEF Inv
<1>1. CASE Tick
  BY <1>1 DEF Tick, Inv, rows, history
<1>2. CASE RequestCancellation
  BY <1>2 DEF RequestCancellation, Inv, history
<1>3. ASSUME NEW i \in Invoices, Pay(i) PROVE Inv'
  BY <1>3 DEF Pay, Inv, rows, history
<1>4. ASSUME NEW i \in Invoices, Abandon(i) PROVE Inv'
  BY <1>4 DEF Abandon, Inv, rows, history
<1>5. ASSUME NEW s \in Slots, StartCheckout(s) PROVE Inv'
  <2>0. PICK pc \in {"open", "pend", "apply"} :
                Begin(s, [Idle EXCEPT !.copy = sub, !.plan = "plus", !.pc = pc])
    BY <1>5 DEF StartCheckout, Changes
  <2> DEFINE r == [Idle EXCEPT !.copy = sub, !.plan = "plus", !.pc = pc]
  <2>1. r.copy = sub /\ ~r.renewal
    BY DEF Idle
  <2>2. Begin(s, r)
    BY <2>0
  <2> HIDE DEF r
  <2>3. ended => Harmless(r)
    BY <1>a, <2>1 DEF Harmless
  <2> QED
    BY <2>2, <2>3, BeginHarmless
<1>6. ASSUME NEW s \in Slots, ConfirmCancellation(s) PROVE Inv'
  <2> DEFINE r == [Idle EXCEPT !.copy = sub, !.pc = "confirm"]
  <2>1. r.copy = sub /\ ~r.renewal
    BY DEF Idle
  <2>2. Begin(s, r)
    BY <1>6 DEF ConfirmCancellation
  <2> HIDE DEF r
  <2>3. ended => Harmless(r)
    BY <1>a, <2>1 DEF Harmless
  <2> QED
    BY <2>2, <2>3, BeginHarmless
<1>7. ASSUME NEW s \in Slots, ProcessRenewals(s) PROVE Inv'
  <2> DEFINE free == sub.plan = "free" \/ sub.pending
             plan == IF free THEN "free" ELSE "plus"
             pc == CASE sub.cancel -> "drop" [] free /\ ~sub.cancel -> "apply"
                     [] OTHER -> "open"
             r == [Idle EXCEPT !.copy = sub, !.at = now, !.renewal = TRUE,
                               !.plan = plan, !.pc = pc]
  <2>1. r.copy = sub /\ r.plan = plan /\ r.pc = pc
    BY DEF Idle
  <2>2. Ends(sub) => \/ pc = "drop"
                     \/ pc = "apply" /\ plan = "free"
    BY DEF Ends
  <2>3. Begin(s, r)
    BY <1>7 DEF ProcessRenewals
  <2> HIDE DEF r, pc, plan
  <2>4. ended => Harmless(r)
    BY <1>a, <2>1, <2>2 DEF Harmless
  <2> QED
    BY <2>3, <2>4, BeginHarmless
<1>8. ASSUME NEW s \in Slots, ProcessRenewalNotices(s) PROVE Inv'
  <2> DEFINE r == [Idle EXCEPT !.copy = sub, !.pc = "notice"]
  <2>1. r.copy = sub /\ ~r.renewal
    BY DEF Idle
  <2>2. Begin(s, r)
    BY <1>8 DEF ProcessRenewalNotices
  <2> HIDE DEF r
  <2>3. ended => Harmless(r)
    BY <1>a, <2>1 DEF Harmless
  <2> QED
    BY <2>2, <2>3, BeginHarmless
<1>9. ASSUME NEW s \in Slots, ProcessGraceExpiry(s) PROVE Inv'
  <2> DEFINE r == [Idle EXCEPT !.copy = sub, !.at = now, !.pc = "list"]
  <2>1. r.copy = sub /\ ~r.renewal
    BY DEF Idle
  <2>2. Begin(s, r)
    BY <1>9 DEF ProcessGraceExpiry
  <2> HIDE DEF r
  <2>3. ended => Harmless(r)
    BY <1>a, <2>1 DEF Harmless
  <2> QED
    BY <2>2, <2>3, BeginHarmless
<1>10. ASSUME NEW s \in Slots, NEW i \in Invoices, StripeEvent(s, i) PROVE Inv'
  <2> DEFINE r == [Idle EXCEPT !.event = TRUE, !.invoice = i, !.status = invoice[i], !.plan = "plus",
                               !.pc = IF session[i] = "completed" THEN "read" ELSE "reread"]
  <2>1. r.pc \in {"read", "reread"} /\ ~r.renewal
    BY DEF Idle
  <2>2. Begin(s, r)
    BY <1>10 DEF StripeEvent
  <2> HIDE DEF r
  <2>3. Harmless(r)
    BY <2>1 DEF Harmless
  <2> QED
    BY <2>2, <2>3, BeginHarmless
<1>11. ASSUME NEW s \in Slots, Pend(s) PROVE Inv'
  <2>1. req[s].pc = "pend" /\ Finish(s) /\ UNCHANGED ended
        /\ sub' = [req[s].copy EXCEPT !.pending = TRUE]
    BY <1>11 DEF Pend, At, SaveSub, history
  <2>2. ended => Ends(sub')
    BY <1>0, <1>a, <2>1 DEF Harmless, Ends, Sub
  <2> QED
    BY <2>1, <2>2, FinishHarmless
<1>12. ASSUME NEW s \in Slots, OpenInvoice(s) PROVE Inv'
  <2>1. PICK i \in Invoices :
           req' = [req EXCEPT ![s].invoice = i, ![s].status = "open",
                              ![s].pc = IF req[s].renewal THEN "charge" ELSE "ask"]
    BY <1>12 DEF OpenInvoice
  <2>2. req[s].pc = "open" /\ UNCHANGED <<sub, ended>>
    BY <1>12 DEF OpenInvoice, At, history
  <2> DEFINE r == [req[s] EXCEPT !.invoice = i, !.status = "open",
                                 !.pc = IF req[s].renewal THEN "charge" ELSE "ask"]
  <2>3. r.copy = req[s].copy /\ r.renewal = req[s].renewal
    BY <1>0 DEF Req
  <2>4. req' = [req EXCEPT ![s] = r]
    BY <1>0, <2>1 DEF Req
  <2> HIDE DEF r
  <2>5. ended => Harmless(r)
    BY <1>a, <2>2, <2>3 DEF Harmless
  <2> QED
    BY <1>a, <2>2, <2>4, <2>5, SetHarmless
<1>13. ASSUME NEW s \in Slots, Ask(s) PROVE Inv'
  <2>1. PICK pc \in {"link", "charge"} : Goto(s, pc)
    BY <1>13 DEF Ask
  <2>2. req[s].pc = "ask" /\ UNCHANGED <<sub, ended>>
    BY <1>13 DEF Ask, At, rows, history
  <2>3. ended => ~req[s].renewal
    BY <1>a, <2>2 DEF Harmless
  <2> QED
    BY <1>a, <2>1, <2>2, <2>3, GotoHarmless
<1>14. ASSUME NEW s \in Slots, Link(s) PROVE Inv'
  <2>1. req[s].pc = "link" /\ UNCHANGED <<sub, ended>> /\ Goto(s, "note")
    BY <1>14 DEF Link, At, SaveInvoice, history
  <2>2. ended => ~req[s].renewal
    BY <1>a, <2>1 DEF Harmless
  <2> QED
    BY <1>a, <2>1, <2>2, GotoHarmless
<1>15. ASSUME NEW s \in Slots, NoteSession(s) PROVE Inv'
  <2>1. req[s].pc = "note" /\ UNCHANGED ended /\ Finish(s) /\ sub' = req[s].copy
    BY <1>15 DEF NoteSession, At, SaveSub, history
  <2>2. ended => Ends(sub')
    BY <1>a, <2>1 DEF Harmless
  <2> QED
    BY <2>1, <2>2, FinishHarmless
<1>16. ASSUME NEW s \in Slots, ConfirmSub(s) PROVE Inv'
  <2>1. /\ sub' = [req[s].copy EXCEPT !.cancel = TRUE]
        /\ ended' => \A t \in Slots \ {s} : req[t].pc = "idle" /\ Goto(s, "confirmed")
    BY <1>16 DEF ConfirmSub, SaveSub
  <2>2. Ends(sub')
    BY <1>0, <2>1 DEF Sub, Ends
  <2>3. /\ req'[s].pc = "confirmed" /\ \A t \in Slots \ {s} : req'[t] = req[t]
    BY <1>0, <1>16 DEF ConfirmSub, Goto, Req
  <2>4. ended' => \A t \in Slots : Harmless(req'[t])
    BY <2>1, <2>3 DEF Harmless
  <2> QED
    BY <2>2, <2>4 DEF Inv
<1>17. ASSUME NEW s \in Slots, Confirmed(s) PROVE Inv'
  <2>1. UNCHANGED <<sub, ended>> /\ Finish(s)
    BY <1>17 DEF Confirmed, history
  <2> QED
    BY <1>a, <2>1, FinishHarmless
<1>18. ASSUME NEW s \in Slots, ReadSub(s) PROVE Inv'
  <2>1. /\ req[s].pc = "read" /\ UNCHANGED <<sub, ended>>
        /\ req' = [req EXCEPT ![s].copy = sub, ![s].pc = "paid"]
    BY <1>18 DEF ReadSub, At, rows, history
  <2>2. ended => ~req[s].renewal
    BY <1>a, <2>1 DEF Harmless
  <2> QED
    BY <2>1, <2>2, CopyHarmless
<1>19. ASSUME NEW s \in Slots, RecordEvent(s) PROVE Inv'
  <2>1. UNCHANGED <<sub, ended>> /\ req' = [req EXCEPT ![s] = Idle]
    BY <1>19 DEF RecordEvent, rows, history
  <2> QED
    BY <1>a, <2>1, IdleHarmless, SetHarmless
<1>20. ASSUME NEW s \in Slots, Charge(s) PROVE Inv'
  <2>1. PICK pc \in {"paid", "reread"} : Goto(s, pc)
    BY <1>20 DEF Charge
  <2>2. req[s].pc = "charge" /\ UNCHANGED <<sub, ended>>
    BY <1>20 DEF Charge, At, rows
  <2>3. ended => ~req[s].renewal
    BY <1>a, <2>2 DEF Harmless
  <2> QED
    BY <1>a, <2>1, <2>2, <2>3, GotoHarmless
<1>21. ASSUME NEW s \in Slots, SavePaid(s) PROVE Inv'
  <2>1. req[s].pc = "paid" /\ UNCHANGED <<sub, ended>> /\ Goto(s, "apply")
    BY <1>21 DEF SavePaid, At, SaveInvoice, history
  <2>2. ended => ~req[s].renewal
    BY <1>a, <2>1 DEF Harmless
  <2> QED
    BY <1>a, <2>1, <2>2, GotoHarmless
<1>22. ASSUME NEW s \in Slots, Apply(s) PROVE Inv'
  <2>1. /\ req[s].pc = "apply" /\ Goto(s, "level")
        /\ ended' => ended /\ req[s].renewal
    BY <1>22 DEF Apply, At
  <2>2. ended' => req[s].plan = "free"
    BY <1>a, <2>1 DEF Harmless
  <2>3. sub'.plan = req[s].plan
    BY <1>0, <1>22 DEF Apply, SaveSub, Applied, Paid, Sub
  <2> QED
    BY <2>1, <2>2, <2>3, GotoHarmless DEF Ends
<1>23. ASSUME NEW s \in Slots, SyncLevel(s) PROVE Inv'
  <2>1. UNCHANGED <<sub, ended>> /\ Finish(s)
    BY <1>23 DEF SyncLevel, history
  <2> QED
    BY <1>a, <2>1, FinishHarmless
<1>24. ASSUME NEW s \in Slots, ReadFailed(s) PROVE Inv'
  <2>1. /\ req[s].pc = "reread" /\ UNCHANGED <<sub, ended>>
        /\ req' = [req EXCEPT ![s].status = invoice[req[s].invoice], ![s].pc = "failing"]
    BY <1>24 DEF ReadFailed, At, rows, history
  <2> DEFINE r == [req[s] EXCEPT !.status = invoice[req[s].invoice], !.pc = "failing"]
  <2>2. r.pc = "failing" /\ r.renewal = req[s].renewal
    BY <1>0 DEF Req
  <2>3. req' = [req EXCEPT ![s] = r]
    BY <1>0, <2>1 DEF Req
  <2> HIDE DEF r
  <2>4. ended => Harmless(r)
    BY <1>a, <2>1, <2>2 DEF Harmless
  <2> QED
    BY <1>a, <2>1, <2>3, <2>4, SetHarmless
<1>25. ASSUME NEW s \in Slots, ReadFailing(s) PROVE Inv'
  <2>1. /\ req[s].pc = "failing" /\ UNCHANGED <<sub, ended>>
        /\ req' = [req EXCEPT ![s].copy = sub, ![s].pc = "keep"]
    BY <1>25 DEF ReadFailing, At, rows, history
  <2>2. ended => ~req[s].renewal
    BY <1>a, <2>1 DEF Harmless
  <2> QED
    BY <2>1, <2>2, CopyHarmless
<1>26. ASSUME NEW s \in Slots, KeepInvoice(s) PROVE Inv'
  <2>1. req[s].pc = "keep" /\ UNCHANGED <<sub, ended>> /\ Goto(s, "failed")
    BY <1>26 DEF KeepInvoice, At, SaveInvoice, history
  <2>2. ended => ~req[s].renewal
    BY <1>a, <2>1 DEF Harmless
  <2> QED
    BY <1>a, <2>1, <2>2, GotoHarmless
<1>27. ASSUME NEW s \in Slots, PastDue(s) PROVE Inv'
  <2>1. req[s].pc = "failed" /\ Finish(s) /\ UNCHANGED ended
        /\ sub' = [req[s].copy EXCEPT !.status = "past_due", !.grace = now + Grace]
    BY <1>27 DEF PastDue, At, SaveSub, history
  <2>2. sub'.cancel = req[s].copy.cancel /\ sub'.plan = req[s].copy.plan
    BY <1>0, <2>1 DEF Sub
  <2>3. ended => Ends(sub')
    BY <1>a, <2>1, <2>2 DEF Harmless, Ends
  <2> QED
    BY <2>1, <2>3, FinishHarmless
<1>28. ASSUME NEW s \in Slots, ListOpen(s) PROVE Inv'
  <2>1. /\ req[s].pc = "list" /\ UNCHANGED <<sub, ended>>
        /\ req' = [req EXCEPT ![s].todo = {i \in Invoices : invoice[i] = "open"},
                              ![s].pc = "write off"]
    BY <1>28 DEF ListOpen, At, rows, history
  <2> DEFINE r == [req[s] EXCEPT !.todo = {i \in Invoices : invoice[i] = "open"},
                                 !.pc = "write off"]
  <2>2. r.copy = req[s].copy /\ r.renewal = req[s].renewal
    BY <1>0 DEF Req
  <2>3. req' = [req EXCEPT ![s] = r]
    BY <1>0, <2>1 DEF Req
  <2> HIDE DEF r
  <2>4. ended => Harmless(r)
    BY <1>a, <2>1, <2>2 DEF Harmless
  <2> QED
    BY <1>a, <2>1, <2>3, <2>4, SetHarmless
<1>29. ASSUME NEW s \in Slots, WriteOff(s) PROVE Inv'
  <2>1. req[s].pc = "write off" /\ UNCHANGED <<sub, ended>>
    BY <1>29 DEF WriteOff, At, history
  <2>2. ended => ~req[s].renewal
    BY <1>a, <2>1 DEF Harmless
  <2>3. CASE Goto(s, "drop")
    BY <1>a, <2>1, <2>2, <2>3, GotoHarmless
  <2>4. ASSUME NEW i \in req[s].todo, req' = [req EXCEPT ![s].todo = @ \ {i}] PROVE Inv'
    <3> DEFINE r == [req[s] EXCEPT !.todo = @ \ {i}]
    <3>1. r.pc = req[s].pc /\ r.copy = req[s].copy /\ r.renewal = req[s].renewal
      BY <1>0 DEF Req
    <3>2. req' = [req EXCEPT ![s] = r]
      BY <1>0, <2>4 DEF Req
    <3> HIDE DEF r
    <3>3. ended => Harmless(r)
      BY <1>a, <2>1, <3>1 DEF Harmless
    <3> QED
      BY <1>a, <2>1, <3>2, <3>3, SetHarmless
  <2> QED
    BY <1>29, <2>3, <2>4 DEF WriteOff
<1>30. ASSUME NEW s \in Slots, Drop(s) PROVE Inv'
  <2>1. /\ UNCHANGED ended /\ sub'.plan = "free"
        /\ req' = [req EXCEPT ![s].plan = "free", ![s].pc = "level"]
    BY <1>30 DEF Drop, SaveSub, New, history
  <2> DEFINE r == [req[s] EXCEPT !.plan = "free", !.pc = "level"]
  <2>2. r.pc = "level"
    BY <1>0 DEF Req
  <2>3. req' = [req EXCEPT ![s] = r]
    BY <1>0, <2>1 DEF Req
  <2> HIDE DEF r
  <2>4. Harmless(r)
    BY <2>2 DEF Harmless
  <2> QED
    BY <2>1, <2>3, <2>4, SetHarmless DEF Ends
<1>31. ASSUME NEW s \in Slots, SaveNotice(s) PROVE Inv'
  <2>1. req[s].pc = "notice" /\ UNCHANGED ended /\ Finish(s) /\ sub' = req[s].copy
    BY <1>31 DEF SaveNotice, At, SaveSub, history
  <2>2. ended => Ends(sub')
    BY <1>a, <2>1 DEF Harmless
  <2> QED
    BY <2>1, <2>2, FinishHarmless
<1>32. ASSUME NEW s \in Slots, Fault(s) PROVE Inv'
  <2>1. UNCHANGED <<sub, ended>> /\ req' = [req EXCEPT ![s] = Idle]
    BY <1>32 DEF Fault, rows
  <2> QED
    BY <1>a, <2>1, IdleHarmless, SetHarmless
<1>33. CASE UNCHANGED vars
  BY <1>33 DEF vars, rows, history, Inv
<1> QED
  BY <1>1, <1>2, <1>3, <1>4, <1>5, <1>6, <1>7, <1>8, <1>9, <1>10, <1>11, <1>12, <1>13, <1>14,
     <1>15, <1>16, <1>17, <1>18, <1>19, <1>20, <1>21, <1>22, <1>23, <1>24, <1>25, <1>26, <1>27,
     <1>28, <1>29, <1>30, <1>31, <1>32, <1>33 DEF Next, Step

(* Only a renewal's charge is counted, and while a cancellation holds no   *)
(* renewal gets there.                                                     *)
LEMMA NoCharge == Typed /\ Inv /\ [Next]_vars => (ended => charged' = charged)
<1> SUFFICES ASSUME Typed, Inv, [Next]_vars, ended PROVE charged' = charged
  OBVIOUS
<1>1. ASSUME NEW s \in Slots, Charge(s) PROVE charged' = charged
  <2>1. ~req[s].renewal
    BY <1>1 DEF Charge, At, Inv, Harmless
  <2> QED
    BY <1>1, <2>1 DEF Charge
<1>2. ASSUME NEW s \in Slots, Step(s), ~Charge(s) PROVE charged' = charged
  BY <1>2 DEF Step, Pend, OpenInvoice, Ask, Link, NoteSession, ConfirmSub, Confirmed, ReadSub,
     RecordEvent, SavePaid, Apply, SyncLevel, ReadFailed, ReadFailing, KeepInvoice, PastDue,
     ListOpen, WriteOff, Drop, SaveNotice, history
<1>3. ASSUME NEW s \in Slots,
             \/ StartCheckout(s) \/ ConfirmCancellation(s) \/ ProcessRenewals(s)
             \/ ProcessRenewalNotices(s) \/ ProcessGraceExpiry(s) \/ Fault(s)
             \/ \E i \in Invoices : StripeEvent(s, i)
      PROVE  charged' = charged
  BY <1>3 DEF StartCheckout, ConfirmCancellation, ProcessRenewals, ProcessRenewalNotices,
     ProcessGraceExpiry, StripeEvent, Fault, Begin, history
<1>4. CASE \/ Tick \/ RequestCancellation \/ \E i \in Invoices : Pay(i) \/ Abandon(i)
           \/ UNCHANGED vars
  BY <1>4 DEF Tick, RequestCancellation, Pay, Abandon, vars, history
<1> QED
  BY <1>1, <1>2, <1>3, <1>4 DEF Next

(* "No further charges will be made": from a cancellation that was         *)
(* confirmed while nothing else ran to the next completed checkout, no     *)
(* renewal is charged, however operations overlap, fail or come late.      *)
THEOREM CancelAlwaysHolds == Spec => CancelHolds
<1>1. Init => Inv
  BY DEF Init, Inv
<1>2. Spec => []Typed
  BY TypedInit, TypedStep, PTL DEF Spec
<1>3. Spec => []Inv
  BY <1>1, <1>2, InvStep, PTL DEF Spec
<1>4. Typed /\ Inv /\ [Next]_vars => [ended => charged' = charged]_vars
  BY NoCharge
<1> QED
  BY <1>2, <1>3, <1>4, PTL DEF Spec, CancelHolds

-----------------------------------------------------------------------------
(* One charge for each renewal.                                            *)

(* The steps whose copy ends the period where the row does; a notice, a    *)
(* cancellation and a failed charge write that date back.                  *)
Keeping == {"pend", "open", "ask", "link", "note", "charge", "paid", "apply", "confirm",
            "keep", "failed", "notice"}

(* What an operation that works alone knows of the row, whose period ends  *)
(* at end: a renewal was due, and who takes the plan back began the new    *)
(* period no earlier.                                                      *)
InStep(r, end, time) ==
    /\ r.pc \in Keeping => r.copy.end = end
    /\ r.pc \in {"list", "write off", "drop"} => r.at <= time /\ end <= r.at + Period
    /\ r.renewal /\ r.pc \in {"open", "ask", "charge", "paid", "apply"} => end <= time
    /\ r.renewal /\ r.pc \in {"open", "ask", "charge"} => r.plan = "plus"
    /\ r.pc = "read" => ~r.renewal

(* A renewal that was charged and has yet to save it.                      *)
Collected(r) == r.renewal /\ r.plan = "plus" /\ r.pc \in {"paid", "apply"}

(* Periods that the row is past are charged once, the others not at all,   *)
(* unless the renewal in hand has just charged the one that ends now.      *)
Once ==
    \A t \in 0 .. MaxTime :
       /\ charged[t] <= 1 + unsaved
       /\ t >= sub.end => charged[t] <= unsaved
                          \/ (t = sub.end /\ \E s \in Slots : Collected(req[s]))

Alone == \A s, t \in Slots : req[s].pc # "idle" /\ req[t].pc # "idle" => s = t

Turns ==
    ~overlapped =>
        /\ Alone /\ sub.end <= now + Period
        /\ \A s \in Slots : InStep(req[s], sub.end, now)
        /\ Once

LEMMA IdleInStep == \A r, end, time : r.pc = "idle" => InStep(r, end, time) /\ ~Collected(r)
BY DEF InStep, Collected, Keeping

LEMMA IdleIsIdle == Idle.pc = "idle"
BY DEF Idle

(* A step of the only operation: the row's period ends no earlier, and a   *)
(* charge in hand stays in hand until the row is past it.                  *)
LEMMA StepInTurn ==
    ASSUME Typed, Turns, ~overlapped, NEW s \in Slots, req[s].pc # "idle", NEW r,
           req' = [req EXCEPT ![s] = r],
           UNCHANGED <<now, overlapped, charged, unsaved>>,
           sub' \in Sub, sub'.end >= sub.end, sub'.end <= now + Period,
           InStep(r, sub'.end, now),
           Collected(req[s]) => Collected(r) \/ sub'.end > sub.end
    PROVE  Turns'
<1>0. /\ Alone /\ Once /\ req \in [Slots -> Req] /\ sub.end \in Nat /\ sub'.end \in Nat
      /\ unsaved \in Nat /\ charged \in [0 .. MaxTime -> Nat]
  BY DEF Turns, Typed, TypeOK, Sub
<1>1. req'[s] = r /\ \A t \in Slots \ {s} : req'[t] = req[t]
  BY <1>0
<1>2. \A t \in Slots \ {s} : req[t].pc = "idle"
  BY <1>0 DEF Alone
<1>3. Alone'
  BY <1>1, <1>2 DEF Alone
<1>4. \A t \in Slots : InStep(req'[t], sub'.end, now')
  BY <1>1, <1>2, IdleInStep
<1>5. Once'
  <2> SUFFICES ASSUME NEW t \in 0 .. MaxTime
               PROVE  /\ charged[t] <= 1 + unsaved
                      /\ t >= sub'.end =>
                            charged[t] <= unsaved
                            \/ (t = sub'.end /\ \E x \in Slots : Collected(req'[x]))
    BY DEF Once
  <2>1. charged[t] <= 1 + unsaved
    BY <1>0 DEF Once
  <2>2. CASE t >= sub'.end /\ ~(charged[t] <= unsaved)
    <3>1. t >= sub.end
      BY <1>0, <2>2
    <3>2. t = sub.end /\ \E x \in Slots : Collected(req[x])
      BY <1>0, <2>2, <3>1 DEF Once
    <3>3. Collected(req[s])
      BY <1>2, <3>2, IdleInStep
    <3>4. Collected(r) /\ t = sub'.end
      BY <1>0, <2>2, <3>2, <3>3
    <3> QED
      BY <1>1, <2>1, <3>4
  <2> QED
    BY <2>1, <2>2
<1> QED
  BY <1>3, <1>4, <1>5 DEF Turns

(* What begins alone begins from the row.                                  *)
LEMMA BeginInTurn ==
    ASSUME Typed, Turns, NEW s \in Slots, NEW r, Begin(s, r), UNCHANGED unsaved,
           ~overlapped /\ sub.end <= now + Period => InStep(r, sub.end, now)
    PROVE  Turns'
<1> SUFFICES ASSUME ~overlapped'
             PROVE  (/\ Alone /\ sub.end <= now + Period
                     /\ \A t \in Slots : InStep(req[t], sub.end, now)
                     /\ Once)'
  BY DEF Turns
<1>1. /\ UNCHANGED <<now, sub, charged>> /\ req' = [req EXCEPT ![s] = r]
      /\ ~overlapped /\ ~Busy
  BY DEF Begin, rows, history
<1>2. req \in [Slots -> Req] /\ sub.end <= now + Period /\ Once
  BY <1>1 DEF Turns, Typed, TypeOK
<1>3. \A t \in Slots : req[t].pc = "idle"
  BY <1>1 DEF Busy
<1>4. req'[s] = r /\ \A t \in Slots \ {s} : req'[t] = req[t]
  BY <1>1, <1>2
<1>5. Alone'
  BY <1>3, <1>4 DEF Alone
<1>6. \A t \in Slots : InStep(req'[t], sub'.end, now')
  BY <1>1, <1>2, <1>3, <1>4, IdleInStep
<1>7. \A t \in 0 .. MaxTime : t >= sub.end => charged[t] <= unsaved
  BY <1>2, <1>3, IdleInStep DEF Once
<1>8. Once'
  BY <1>1, <1>2, <1>7 DEF Once
<1> QED
  BY <1>1, <1>2, <1>5, <1>6, <1>8

LEMMA GotoRecord ==
    ASSUME req \in [Slots -> Req], NEW s \in Slots, NEW pc, Goto(s, pc)
    PROVE  \E r : /\ req' = [req EXCEPT ![s] = r] /\ r.pc = pc /\ r.copy = req[s].copy
                  /\ r.at = req[s].at /\ r.renewal = req[s].renewal /\ r.plan = req[s].plan
<1> DEFINE r == [req[s] EXCEPT !.pc = pc]
<1>1. req' = [req EXCEPT ![s] = r]
  BY DEF Goto, Req
<1>2. /\ r.pc = pc /\ r.copy = req[s].copy
      /\ r.at = req[s].at /\ r.renewal = req[s].renewal /\ r.plan = req[s].plan
  BY DEF Req
<1> HIDE DEF r
<1> QED
  BY <1>1, <1>2

LEMMA FinishRecord ==
    ASSUME req \in [Slots -> Req], NEW s \in Slots, Finish(s)
    PROVE  \E r : /\ req' = [req EXCEPT ![s] = r] /\ r.pc \in {"idle", "done"}
<1>1. CASE req[s].event
  <2> DEFINE r == [req[s] EXCEPT !.pc = "done"]
  <2>1. req' = [req EXCEPT ![s] = r]
    BY <1>1 DEF Finish, Req
  <2>2. r.pc = "done"
    BY DEF Req
  <2> HIDE DEF r
  <2> QED
    BY <2>1, <2>2
<1>2. CASE ~req[s].event
  BY <1>2, IdleIsIdle DEF Finish
<1> QED
  BY <1>1, <1>2

(* An operation that ends has saved what it charged.                       *)
LEMMA FinishInTurn ==
    ASSUME Typed, Turns, ~overlapped, NEW s \in Slots, req[s].pc # "idle", Finish(s),
           UNCHANGED <<now, overlapped, charged, unsaved>>,
           sub' \in Sub, sub'.end = sub.end, ~Collected(req[s])
    PROVE  Turns'
<1>0. req \in [Slots -> Req] /\ sub.end \in Nat /\ sub.end <= now + Period
  BY DEF Typed, TypeOK, Sub, Turns
<1>1. PICK r : req' = [req EXCEPT ![s] = r] /\ r.pc \in {"idle", "done"}
  BY <1>0, FinishRecord
<1>2. InStep(r, sub'.end, now)
  BY <1>1 DEF InStep, Keeping
<1>3. sub'.end >= sub.end /\ sub'.end <= now + Period
  BY <1>0
<1> QED
  BY <1>1, <1>2, <1>3, StepInTurn

LEMMA GotoInTurn ==
    ASSUME Typed, Turns, ~overlapped, NEW s \in Slots, req[s].pc # "idle", NEW pc,
           Goto(s, pc), UNCHANGED <<now, overlapped, charged, unsaved>>,
           sub' \in Sub, sub'.end >= sub.end, sub'.end <= now + Period,
           \A r : /\ r.pc = pc /\ r.copy = req[s].copy /\ r.at = req[s].at
                  /\ r.renewal = req[s].renewal /\ r.plan = req[s].plan
                  => InStep(r, sub'.end, now),
           Collected(req[s]) => pc = "apply" \/ sub'.end > sub.end
    PROVE  Turns'
<1>0. req \in [Slots -> Req]
  BY DEF Typed, TypeOK
<1>1. PICK r : /\ req' = [req EXCEPT ![s] = r] /\ r.pc = pc /\ r.copy = req[s].copy
               /\ r.at = req[s].at /\ r.renewal = req[s].renewal /\ r.plan = req[s].plan
  BY <1>0, GotoRecord
<1>2. InStep(r, sub'.end, now)
  BY <1>1
<1>3. Collected(req[s]) => Collected(r) \/ sub'.end > sub.end
  BY <1>1 DEF Collected
<1> QED
  BY <1>1, <1>2, <1>3, StepInTurn

LEMMA LaterInStep ==
    ASSUME NEW r, r.at \in Nat, NEW end \in Nat, NEW time \in Nat, InStep(r, end, time)
    PROVE  InStep(r, end, time + 1)
<1>1. (end <= time => end <= time + 1) /\ (r.at <= time => r.at <= time + 1)
  OBVIOUS
<1> QED
  BY <1>1, Zenon DEF InStep

LEMMA TurnsStep == Typed /\ Typed' /\ Turns /\ [Next]_vars => Turns'
<1> SUFFICES ASSUME Typed, Typed', Turns, [Next]_vars, ~overlapped' PROVE Turns'
  BY DEF Turns
<1> USE BillingAssumption
<1>0. /\ req \in [Slots -> Req] /\ sub \in Sub /\ sub.end \in Nat
      /\ sub' \in Sub /\ sub'.end \in Nat /\ now \in Nat /\ unsaved \in Nat
      /\ charged \in [0 .. MaxTime -> Nat]
  BY DEF Typed, TypeOK, Sub
<1>a. \A s \in Slots : /\ req[s] \in Req /\ req[s].copy \in Sub
                       /\ req[s].at \in Nat /\ req[s].renewal \in BOOLEAN
  BY <1>0 DEF Req
<1>b. ~overlapped => /\ sub.end <= now + Period /\ Alone /\ Once
                     /\ \A s \in Slots : InStep(req[s], sub.end, now)
  BY DEF Turns
<1>1. CASE Tick
  <2>1. now' = now + 1 /\ UNCHANGED <<sub, req, overlapped, charged, unsaved>>
    BY <1>1 DEF Tick, rows, history
  <2>2. sub'.end <= now' + Period
    BY <1>0, <1>b, <2>1
  <2>3. ~overlapped => \A s \in Slots : InStep(req[s], sub.end, now')
    BY <1>0, <1>a, <1>b, <2>1, LaterInStep
  <2> QED
    BY <1>b, <2>1, <2>2, <2>3 DEF Turns, Alone, Once
<1>2. CASE \/ RequestCancellation \/ UNCHANGED vars
           \/ \E i \in Invoices : Pay(i) \/ Abandon(i)
  <2>1. UNCHANGED <<now, sub, req, overlapped, charged, unsaved>>
    BY <1>2 DEF RequestCancellation, Pay, Abandon, vars, rows, history
  <2> QED
    BY <2>1 DEF Turns, Alone, Once
<1>3. ASSUME NEW s \in Slots, StartCheckout(s) PROVE Turns'
  <2>0. PICK pc \in {"open", "pend", "apply"} :
                Begin(s, [Idle EXCEPT !.copy = sub, !.plan = "plus", !.pc = pc])
    BY <1>3 DEF StartCheckout, Changes
  <2> DEFINE r == [Idle EXCEPT !.copy = sub, !.plan = "plus", !.pc = pc]
  <2>1. r.pc \in {"open", "pend", "apply"} /\ r.copy = sub /\ ~r.renewal
    BY DEF Idle
  <2>2. Begin(s, r) /\ UNCHANGED unsaved
    BY <2>0, <1>3 DEF StartCheckout, Begin, history
  <2> HIDE DEF r
  <2>3. InStep(r, sub.end, now)
    BY <2>1 DEF InStep
  <2> QED
    BY <2>2, <2>3, BeginInTurn
<1>4. ASSUME NEW s \in Slots, ConfirmCancellation(s) PROVE Turns'
  <2> DEFINE r == [Idle EXCEPT !.copy = sub, !.pc = "confirm"]
  <2>1. r.pc = "confirm" /\ r.copy = sub
    BY DEF Idle
  <2>2. Begin(s, r) /\ UNCHANGED unsaved
    BY <1>4 DEF ConfirmCancellation, Begin, history
  <2> HIDE DEF r
  <2>3. InStep(r, sub.end, now)
    BY <2>1 DEF InStep
  <2> QED
    BY <2>2, <2>3, BeginInTurn
<1>5. ASSUME NEW s \in Slots, ProcessRenewals(s) PROVE Turns'
  <2>1. PICK plan \in Plans, pc \in {"drop", "apply", "open"} :
           /\ Begin(s, [Idle EXCEPT !.copy = sub, !.at = now, !.renewal = TRUE,
                                    !.plan = plan, !.pc = pc])
           /\ pc = "open" => plan = "plus"
    <3> DEFINE free == sub.plan = "free" \/ sub.pending
               plan == IF free THEN "free" ELSE "plus"
               pc == CASE sub.cancel -> "drop" [] free /\ ~sub.cancel -> "apply"
                       [] OTHER -> "open"
    <3>1. plan \in Plans /\ pc \in {"drop", "apply", "open"} /\ (pc = "open" => plan = "plus")
      BY DEF Plans
    <3> QED
      BY <1>5, <3>1 DEF ProcessRenewals
  <2> DEFINE r == [Idle EXCEPT !.copy = sub, !.at = now, !.renewal = TRUE,
                               !.plan = plan, !.pc = pc]
  <2>2. r.pc = pc /\ r.copy = sub /\ r.at = now /\ r.plan = plan
    BY DEF Idle
  <2>3. Begin(s, r) /\ UNCHANGED unsaved /\ sub.end <= now
    BY <1>5, <2>1 DEF ProcessRenewals, Begin, history
  <2> HIDE DEF r
  <2>4. now <= now /\ sub.end <= now + Period
    BY <1>0, <2>3
  <2>a. pc = "open" => plan = "plus"
    BY <2>1
  <2>5. InStep(r, sub.end, now)
    BY <2>2, <2>3, <2>4, <2>a, Zenon DEF InStep, Keeping
  <2> QED
    BY <2>3, <2>5, BeginInTurn
<1>6. ASSUME NEW s \in Slots, ProcessRenewalNotices(s) PROVE Turns'
  <2> DEFINE r == [Idle EXCEPT !.copy = sub, !.pc = "notice"]
  <2>1. r.pc = "notice" /\ r.copy = sub
    BY DEF Idle
  <2>2. Begin(s, r) /\ UNCHANGED unsaved
    BY <1>6 DEF ProcessRenewalNotices, Begin, history
  <2> HIDE DEF r
  <2>3. InStep(r, sub.end, now)
    BY <2>1 DEF InStep
  <2> QED
    BY <2>2, <2>3, BeginInTurn
<1>7. ASSUME NEW s \in Slots, ProcessGraceExpiry(s) PROVE Turns'
  <2> DEFINE r == [Idle EXCEPT !.copy = sub, !.at = now, !.pc = "list"]
  <2>1. r.pc = "list" /\ r.at = now /\ ~r.renewal
    BY DEF Idle
  <2>2. Begin(s, r) /\ UNCHANGED unsaved
    BY <1>7 DEF ProcessGraceExpiry, Begin, history
  <2> HIDE DEF r
  <2>3. ~overlapped /\ sub.end <= now + Period => InStep(r, sub.end, now)
    BY <1>0, <2>1 DEF InStep, Keeping
  <2> QED
    BY <2>2, <2>3, BeginInTurn
<1>8. ASSUME NEW s \in Slots, NEW i \in Invoices, StripeEvent(s, i) PROVE Turns'
  <2> DEFINE r == [Idle EXCEPT !.event = TRUE, !.invoice = i, !.status = invoice[i], !.plan = "plus",
                               !.pc = IF session[i] = "completed" THEN "read" ELSE "reread"]
  <2>1. r.pc \in {"read", "reread"} /\ ~r.renewal
    BY DEF Idle
  <2>2. Begin(s, r) /\ UNCHANGED unsaved
    BY <1>8 DEF StripeEvent, Begin, history
  <2> HIDE DEF r
  <2>3. InStep(r, sub.end, now)
    BY <2>1 DEF InStep, Keeping
  <2> QED
    BY <2>2, <2>3, BeginInTurn
<1>9. ASSUME NEW s \in Slots, Pend(s) \/ NoteSession(s) \/ PastDue(s) \/ SaveNotice(s)
      PROVE  Turns'
  <2>1. /\ req[s].pc \in {"pend", "note", "failed", "notice"} /\ Finish(s)
        /\ UNCHANGED <<now, overlapped, charged, unsaved>>
    BY <1>9 DEF Pend, NoteSession, PastDue, SaveNotice, At, history
  <2>2. ~overlapped /\ req[s].copy.end = sub.end
    BY <1>b, <2>1 DEF InStep, Keeping
  <2>3. sub'.end = req[s].copy.end
    BY <1>a, <1>9 DEF Pend, NoteSession, PastDue, SaveNotice, SaveSub, Sub
  <2> QED
    BY <1>0, <2>1, <2>2, <2>3, FinishInTurn DEF Collected
<1>10. ASSUME NEW s \in Slots, Confirmed(s) \/ SyncLevel(s) PROVE Turns'
  <2>1. /\ req[s].pc \in {"confirmed", "level"} /\ Finish(s)
        /\ UNCHANGED <<now, overlapped, charged, unsaved, sub>>
    BY <1>10 DEF Confirmed, SyncLevel, At, history
  <2> QED
    BY <1>0, <2>1, FinishInTurn DEF Collected
<1>11. ASSUME NEW s \in Slots, RecordEvent(s) PROVE Turns'
  <2>1. /\ req[s].pc = "done" /\ req' = [req EXCEPT ![s] = Idle]
        /\ UNCHANGED <<now, overlapped, charged, unsaved, sub>>
    BY <1>11 DEF RecordEvent, At, rows, history
  <2>2. sub'.end >= sub.end /\ sub'.end <= now + Period /\ ~overlapped
    BY <1>0, <1>b, <2>1
  <2> QED
    BY <1>0, <2>1, <2>2, IdleInStep, IdleIsIdle, StepInTurn DEF Collected
<1>12. ASSUME NEW s \in Slots, OpenInvoice(s) PROVE Turns'
  <2>1. PICK i \in Invoices :
           req' = [req EXCEPT ![s].invoice = i, ![s].status = "open",
                              ![s].pc = IF req[s].renewal THEN "charge" ELSE "ask"]
    BY <1>12 DEF OpenInvoice
  <2> DEFINE r == [req[s] EXCEPT !.invoice = i, !.status = "open",
                                 !.pc = IF req[s].renewal THEN "charge" ELSE "ask"]
  <2>2. /\ req[s].pc = "open" /\ UNCHANGED <<now, overlapped, charged, unsaved, sub>>
    BY <1>12 DEF OpenInvoice, At, history
  <2>3. /\ r.pc \in {"charge", "ask"} /\ r.copy = req[s].copy
        /\ r.renewal = req[s].renewal /\ r.plan = req[s].plan
    BY <1>a DEF Req
  <2>4. req' = [req EXCEPT ![s] = r]
    BY <1>0, <2>1 DEF Req
  <2> HIDE DEF r
  <2>5. sub'.end >= sub.end /\ sub'.end <= now + Period /\ ~overlapped
    BY <1>0, <1>b, <2>2
  <2>6. InStep(r, sub.end, now)
    BY <1>b, <2>2, <2>3, <2>5 DEF InStep, Keeping
  <2> QED
    BY <1>0, <2>2, <2>4, <2>5, <2>6, StepInTurn DEF Collected
<1>13. ASSUME NEW s \in Slots, Ask(s) \/ Link(s) \/ KeepInvoice(s) \/ SavePaid(s) PROVE Turns'
  <2>1. PICK pc : /\ Goto(s, pc)
                  /\ \/ req[s].pc = "ask" /\ pc \in {"link", "charge"}
                     \/ req[s].pc = "link" /\ pc = "note"
                     \/ req[s].pc = "keep" /\ pc = "failed"
                     \/ req[s].pc = "paid" /\ pc = "apply"
    <3>1. CASE Ask(s)
      BY <3>1 DEF Ask, At
    <3>2. CASE Link(s) \/ KeepInvoice(s) \/ SavePaid(s)
      BY <3>2 DEF Link, KeepInvoice, SavePaid, At
    <3> QED
      BY <1>13, <3>1, <3>2
  <2>2. UNCHANGED <<now, overlapped, charged, unsaved, sub>>
    BY <1>13 DEF Ask, Link, KeepInvoice, SavePaid, SaveInvoice, At, rows, history
  <2>3. sub'.end >= sub.end /\ sub'.end <= now + Period /\ ~overlapped
    BY <1>0, <1>b, <2>2
  <2>4. \A r : /\ r.pc = pc /\ r.copy = req[s].copy /\ r.at = req[s].at
               /\ r.renewal = req[s].renewal /\ r.plan = req[s].plan
               => InStep(r, sub.end, now)
    BY <1>b, <2>1, <2>3 DEF InStep, Keeping
  <2>5. Collected(req[s]) => pc = "apply"
    BY <2>1 DEF Collected
  <2>6. req[s].pc # "idle"
    BY <2>1
  <2> QED
    BY <1>0, <2>1, <2>2, <2>3, <2>4, <2>5, <2>6, GotoInTurn
<1>14. ASSUME NEW s \in Slots, ConfirmSub(s) PROVE Turns'
  <2>1. /\ req[s].pc = "confirm" /\ Goto(s, "confirmed")
        /\ UNCHANGED <<now, overlapped, charged, unsaved>>
        /\ sub' = [req[s].copy EXCEPT !.cancel = TRUE]
    BY <1>14 DEF ConfirmSub, At, SaveSub
  <2>2. sub'.end = req[s].copy.end
    BY <1>a, <2>1 DEF Sub
  <2>3. req[s].copy.end = sub.end /\ ~overlapped
    BY <1>b, <2>1 DEF InStep, Keeping
  <2>4. sub'.end >= sub.end /\ sub'.end <= now + Period
    BY <1>0, <1>b, <2>2, <2>3
  <2>5. \A r : r.pc = "confirmed" => InStep(r, sub'.end, now)
    BY DEF InStep, Keeping
  <2> QED
    BY <1>0, <2>1, <2>3, <2>4, <2>5, GotoInTurn DEF Collected
<1>15. ASSUME NEW s \in Slots, ReadSub(s) \/ ReadFailing(s) PROVE Turns'
  <2>1. PICK pc \in {"paid", "keep"} :
           /\ req' = [req EXCEPT ![s].copy = sub, ![s].pc = pc]
           /\ \/ pc = "paid" /\ req[s].pc = "read"
              \/ pc = "keep" /\ req[s].pc = "failing"
    BY <1>15 DEF ReadSub, ReadFailing, At
  <2> DEFINE r == [req[s] EXCEPT !.copy = sub, !.pc = pc]
  <2>2. UNCHANGED <<now, overlapped, charged, unsaved, sub>>
    BY <1>15 DEF ReadSub, ReadFailing, At, rows, history
  <2>3. r.pc = pc /\ r.copy = sub /\ r.renewal = req[s].renewal
    BY <1>a DEF Req
  <2>4. req' = [req EXCEPT ![s] = r]
    BY <1>0, <2>1 DEF Req
  <2> HIDE DEF r
  <2>5. sub'.end >= sub.end /\ sub'.end <= now + Period /\ ~overlapped
    BY <1>0, <1>b, <2>2
  <2>6. InStep(r, sub.end, now)
    BY <1>b, <2>1, <2>3, <2>5 DEF InStep
  <2>7. req[s].pc # "idle" /\ ~Collected(req[s])
    BY <2>1 DEF Collected
  <2> QED
    BY <1>0, <2>2, <2>4, <2>5, <2>6, <2>7, StepInTurn
<1>16. ASSUME NEW s \in Slots, Charge(s) PROVE Turns'
  <2>1. PICK pc \in {"paid", "reread"} :
           /\ Goto(s, pc)
           /\ charged' = IF pc = "paid" /\ req[s].renewal
                         THEN [charged EXCEPT ![req[s].copy.end] = @ + 1] ELSE charged
    BY <1>16 DEF Charge
  <2>2. req[s].pc = "charge" /\ UNCHANGED <<now, overlapped, unsaved, sub>>
    BY <1>16 DEF Charge, At, rows
  <2>3. /\ sub.end <= now + Period /\ ~overlapped /\ Alone /\ Once
        /\ req[s].copy.end = sub.end
        /\ req[s].renewal => req[s].plan = "plus" /\ sub.end <= now
    BY <1>b, <2>2 DEF InStep, Keeping
  <2>4. PICK r : /\ req' = [req EXCEPT ![s] = r] /\ r.pc = pc /\ r.copy = req[s].copy
                 /\ r.at = req[s].at /\ r.renewal = req[s].renewal /\ r.plan = req[s].plan
    BY <1>0, <2>1, GotoRecord
  <2>5. InStep(r, sub.end, now)
    BY <2>3, <2>4 DEF InStep, Keeping
  <2>6. CASE charged' = charged
    <3>1. sub'.end >= sub.end /\ sub'.end <= now + Period
      BY <1>0, <2>2, <2>3
    <3> QED
      BY <1>0, <2>2, <2>3, <2>4, <2>5, <2>6, <3>1, StepInTurn DEF Collected
  <2>7. CASE /\ pc = "paid" /\ req[s].renewal
             /\ charged' = [charged EXCEPT ![sub.end] = @ + 1]
    <3>1. req'[s] = r /\ \A t \in Slots \ {s} : req'[t] = req[t]
      BY <1>0, <2>4
    <3>2. \A t \in Slots \ {s} : req[t].pc = "idle"
      BY <2>2, <2>3 DEF Alone
    <3>3. Alone'
      BY <3>1, <3>2 DEF Alone
    <3>4. \A t \in Slots : InStep(req'[t], sub'.end, now')
      BY <2>2, <2>5, <3>1, <3>2, IdleInStep
    <3>5. \A t \in Slots : ~Collected(req[t])
      BY <2>2, <3>2 DEF Collected
    <3>6. Collected(req'[s])
      BY <2>3, <2>4, <2>7, <3>1 DEF Collected
    <3>7. Once'
      <4> SUFFICES ASSUME NEW t \in 0 .. MaxTime
                   PROVE  /\ charged'[t] <= 1 + unsaved
                          /\ t >= sub.end => charged'[t] <= unsaved \/ t = sub.end
        BY <2>2, <3>6 DEF Once
      <4>1. charged[t] \in Nat /\ charged[t] <= 1 + unsaved
            /\ (t >= sub.end => charged[t] <= unsaved)
        BY <1>0, <2>3, <3>5 DEF Once
      <4>2. CASE t = sub.end
        <5>1. charged'[t] = charged[t] + 1
          BY <1>0, <2>7, <4>2
        <5> QED
          BY <1>0, <4>1, <4>2, <5>1
      <4>3. CASE t # sub.end
        BY <1>0, <2>7, <4>1, <4>3
      <4> QED
        BY <4>2, <4>3
    <3> QED
      BY <2>2, <2>3, <3>3, <3>4, <3>7 DEF Turns
  <2> QED
    BY <2>1, <2>3, <2>6, <2>7
<1>17. ASSUME NEW s \in Slots, Apply(s) PROVE Turns'
  <2>1. /\ req[s].pc = "apply" /\ Goto(s, "level")
        /\ UNCHANGED <<now, overlapped, charged, unsaved>>
        /\ sub' = Applied(s, req[s].copy)
    BY <1>17 DEF Apply, At, SaveSub
  <2>2. ~overlapped /\ req[s].copy.end = sub.end /\ (req[s].renewal => sub.end <= now)
        /\ sub.end <= now + Period
    BY <1>b, <2>1 DEF InStep, Keeping
  <2>4. sub'.end = IF req[s].renewal THEN now + Period ELSE sub.end
    BY <1>a, <2>1, <2>2 DEF Applied, Paid, Sub
  <2>5. sub'.end >= sub.end /\ sub'.end <= now + Period
        /\ (req[s].renewal => sub'.end > sub.end)
    BY <1>0, <2>2, <2>4
  <2>6. \A r : r.pc = "level" => InStep(r, sub'.end, now)
    BY DEF InStep, Keeping
  <2>7. Collected(req[s]) => sub'.end > sub.end
    BY <2>5 DEF Collected
  <2>8. req[s].pc # "idle"
    BY <2>1
  <2> QED
    BY <1>0, <2>1, <2>2, <2>5, <2>6, <2>7, <2>8, GotoInTurn
<1>18. ASSUME NEW s \in Slots, ReadFailed(s) PROVE Turns'
  <2>1. /\ req[s].pc = "reread" /\ UNCHANGED <<now, overlapped, charged, unsaved, sub>>
        /\ req' = [req EXCEPT ![s].status = invoice[req[s].invoice], ![s].pc = "failing"]
    BY <1>18 DEF ReadFailed, At, rows, history
  <2> DEFINE r == [req[s] EXCEPT !.status = invoice[req[s].invoice], !.pc = "failing"]
  <2>2. r.pc = "failing"
    BY <1>a DEF Req
  <2>3. req' = [req EXCEPT ![s] = r]
    BY <1>0, <2>1 DEF Req
  <2> HIDE DEF r
  <2>a. UNCHANGED <<now, overlapped, sub>>
    BY <2>1
  <2>4. sub'.end >= sub.end /\ sub'.end <= now + Period /\ ~overlapped
    BY <1>0, <1>b, <2>a
  <2>5. InStep(r, sub.end, now)
    BY <2>2 DEF InStep, Keeping
  <2> QED
    BY <1>0, <2>1, <2>3, <2>4, <2>5, StepInTurn DEF Collected
<1>19. ASSUME NEW s \in Slots, ListOpen(s) PROVE Turns'
  <2>1. /\ req[s].pc = "list" /\ UNCHANGED <<now, overlapped, charged, unsaved, sub>>
        /\ req' = [req EXCEPT ![s].todo = {i \in Invoices : invoice[i] = "open"},
                              ![s].pc = "write off"]
    BY <1>19 DEF ListOpen, At, rows, history
  <2> DEFINE r == [req[s] EXCEPT !.todo = {i \in Invoices : invoice[i] = "open"},
                                 !.pc = "write off"]
  <2>2. r.pc = "write off" /\ r.at = req[s].at
    BY <1>a DEF Req
  <2>3. req' = [req EXCEPT ![s] = r]
    BY <1>0, <2>1 DEF Req
  <2> HIDE DEF r
  <2>a. UNCHANGED <<now, overlapped, sub>>
    BY <2>1
  <2>4. sub'.end >= sub.end /\ sub'.end <= now + Period /\ ~overlapped
    BY <1>0, <1>b, <2>a
  <2>5. InStep(r, sub.end, now)
    BY <1>b, <2>1, <2>2, <2>4 DEF InStep, Keeping
  <2> QED
    BY <1>0, <2>1, <2>3, <2>4, <2>5, StepInTurn DEF Collected
<1>20. ASSUME NEW s \in Slots, WriteOff(s) PROVE Turns'
  <2>1. req[s].pc = "write off" /\ UNCHANGED <<now, overlapped, charged, unsaved, sub>>
    BY <1>20 DEF WriteOff, At, history
  <2>a. UNCHANGED <<now, overlapped, sub>>
    BY <2>1
  <2>2. sub'.end >= sub.end /\ sub'.end <= now + Period /\ ~overlapped
    BY <1>0, <1>b, <2>a
  <2>3. CASE Goto(s, "drop")
    <3>1. \A r : r.pc = "drop" /\ r.at = req[s].at => InStep(r, sub'.end, now)
      BY <1>b, <2>1, <2>2 DEF InStep, Keeping
    <3> QED
      BY <1>0, <2>1, <2>2, <2>3, <3>1, GotoInTurn DEF Collected
  <2>4. ASSUME NEW i \in req[s].todo, req' = [req EXCEPT ![s].todo = @ \ {i}] PROVE Turns'
    <3> DEFINE r == [req[s] EXCEPT !.todo = @ \ {i}]
    <3>1. r.pc = req[s].pc /\ r.at = req[s].at
      BY <1>a DEF Req
    <3>2. req' = [req EXCEPT ![s] = r]
      BY <1>0, <2>4 DEF Req
    <3> HIDE DEF r
    <3>3. InStep(r, sub.end, now)
      BY <1>b, <2>1, <2>2, <3>1 DEF InStep, Keeping
    <3> QED
      BY <1>0, <2>1, <2>2, <3>2, <3>3, StepInTurn DEF Collected
  <2> QED
    BY <1>20, <2>3, <2>4 DEF WriteOff
<1>21. ASSUME NEW s \in Slots, Drop(s) PROVE Turns'
  <2>1. /\ req[s].pc = "drop" /\ UNCHANGED <<now, overlapped, charged, unsaved>>
        /\ sub' = [New EXCEPT !.end = req[s].at + Period]
        /\ req' = [req EXCEPT ![s].plan = "free", ![s].pc = "level"]
    BY <1>21 DEF Drop, At, SaveSub, history
  <2> DEFINE r == [req[s] EXCEPT !.plan = "free", !.pc = "level"]
  <2>2. r.pc = "level"
    BY <1>a DEF Req
  <2>3. req' = [req EXCEPT ![s] = r]
    BY <1>0, <2>1 DEF Req
  <2> HIDE DEF r
  <2>4. sub'.end = req[s].at + Period
    BY <2>1 DEF New
  <2>5. ~overlapped /\ req[s].at <= now /\ sub.end <= req[s].at + Period
    BY <1>b, <2>1 DEF InStep
  <2>6. sub'.end >= sub.end /\ sub'.end <= now + Period
    BY <1>0, <1>a, <2>4, <2>5
  <2>7. InStep(r, sub'.end, now)
    BY <2>2 DEF InStep, Keeping
  <2> QED
    BY <1>0, <2>1, <2>3, <2>5, <2>6, <2>7, StepInTurn DEF Collected
<1>22. ASSUME NEW s \in Slots, Fault(s) PROVE Turns'
  <2>1. /\ req[s].pc # "idle" /\ req' = [req EXCEPT ![s] = Idle]
        /\ UNCHANGED <<now, overlapped, charged, sub>>
        /\ unsaved' = IF Collected(req[s]) THEN unsaved + 1 ELSE unsaved
    BY <1>22 DEF Fault, rows, Collected
  <2>2. sub.end <= now + Period /\ ~overlapped /\ Alone /\ Once
    BY <1>b, <2>1
  <2>3. CASE ~Collected(req[s])
    <3>1. sub'.end >= sub.end /\ sub'.end <= now + Period
      BY <1>0, <2>1, <2>2
    <3> QED
      BY <1>0, <2>1, <2>2, <2>3, <3>1, IdleInStep, IdleIsIdle, StepInTurn
  <2>4. CASE unsaved' = unsaved + 1
    <3>1. req'[s] = Idle /\ \A t \in Slots \ {s} : req'[t] = req[t]
      BY <1>0, <2>1
    <3>2. \A t \in Slots \ {s} : req[t].pc = "idle"
      BY <2>1, <2>2 DEF Alone
    <3>3. Alone'
      BY <3>1, <3>2, IdleIsIdle DEF Alone
    <3>4. \A t \in Slots : InStep(req'[t], sub'.end, now')
      BY <3>1, <3>2, IdleInStep, IdleIsIdle
    <3>5. \A t \in 0 .. MaxTime : charged[t] \in Nat /\ charged[t] <= 1 + unsaved
      BY <1>0, <2>2 DEF Once
    <3>6. \A t \in 0 .. MaxTime : charged[t] <= unsaved' /\ charged[t] <= 1 + unsaved'
      BY <1>0, <2>4, <3>5
    <3>7. Once'
      BY <2>1, <3>6 DEF Once
    <3> QED
      BY <2>1, <2>2, <3>3, <3>4, <3>7 DEF Turns
  <2> QED
    BY <2>1, <2>3, <2>4
<1> QED
  BY <1>1, <1>2, <1>3, <1>4, <1>5, <1>6, <1>7, <1>8, <1>9, <1>10, <1>11, <1>12, <1>13, <1>14,
     <1>15, <1>16, <1>17, <1>18, <1>19, <1>20, <1>21, <1>22 DEF Next, Step

LEMMA TurnsInit == Init => Turns
<1> SUFFICES ASSUME Init PROVE Turns
  OBVIOUS
<1>1. now = 0 /\ unsaved = 0 /\ sub.end = Period /\ \A s \in Slots : req[s] = Idle
  BY DEF Init, New
<1>2. \A t \in 0 .. MaxTime : charged[t] = 0
  BY DEF Init
<1>3. Once
  BY <1>1, <1>2 DEF Once
<1>4. \A s \in Slots : req[s].pc = "idle"
  BY <1>1, IdleIsIdle
<1> QED
  BY <1>1, <1>3, <1>4, IdleInStep, BillingAssumption DEF Turns, Alone

(* However often the job of renewals runs, and whatever fails, a period is *)
(* charged once while operations take turns, and once more for each charge *)
(* whose renewal died before it was saved.                                 *)
THEOREM RenewedOnceInTurn == Spec => []RenewedOnce
<1>1. Spec => []Typed
  BY TypedInit, TypedStep, PTL DEF Spec
<1>2. Spec => []Turns
  BY <1>1, TurnsInit, TurnsStep, PTL DEF Spec
<1>3. Turns => RenewedOnce
  BY DEF Turns, Once, RenewedOnce
<1> QED
  BY <1>2, <1>3, PTL
=============================================================================
