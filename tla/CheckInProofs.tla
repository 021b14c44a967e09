---------------------------- MODULE CheckInProofs ----------------------------
(***************************************************************************)
(* Types of CheckIn, and what holds however requests overlap and fail: a   *)
(* guest is admitted once, a threshold announced once, a scan taken        *)
(* offline kept until it is answered and its guest let in once, for any    *)
(* number of guests, requests in flight, devices and faults.               *)
(***************************************************************************)
EXTENDS CheckIn, FiniteSetTheorems, TLAPS

-----------------------------------------------------------------------------
(* Types.                                                                  *)

(* A request that is at work on a guest has one.                           *)
Serving == \A s \in Slots : req[s].pc \notin {"idle", "next"} => req[s].guest \in Guests

Typed == TypeOK /\ Serving

LEMMA IdleType == Idle \in Request
BY GuestsAssumption DEF Idle, Request, PCs, Operations, Repeatable, RowStatuses

(* A request that only moves to another pc keeps its type and guest.       *)
LEMMA GotoType ==
    ASSUME NEW s \in Slots, NEW pc \in PCs, Typed, req[s].pc # "idle",
           pc \in {"idle", "next"} \/ req[s].pc # "next", Goto(s, pc)
    PROVE  /\ req' \in [Slots -> Request]
           /\ Serving'
<1>1. req \in [Slots -> Request]
  BY DEF Typed, TypeOK
<1>2. req' \in [Slots -> Request]
  BY <1>1 DEF Goto, Request
<1>3. \A t \in Slots : req'[t].guest = req[t].guest /\ (t # s => req'[t].pc = req[t].pc)
                       /\ req'[s].pc = pc
  BY <1>1 DEF Goto, Request
<1> QED
  BY <1>2, <1>3 DEF Typed, Serving

(* A slot that is given a request of the right kind keeps its type.        *)
LEMMA SetType ==
    ASSUME NEW s \in Slots, NEW r \in Request, Typed,
           r.pc \in {"idle", "next"} \/ r.guest \in Guests,
           req' = [req EXCEPT ![s] = r]
    PROVE  /\ req' \in [Slots -> Request]
           /\ Serving'
BY DEF Typed, TypeOK, Serving

(* The tables that answering a request touches.                            *)
LEMMA AnsweredType ==
    ASSUME NEW s \in Slots, NEW status, Typed, req[s].pc \notin {"idle", "next"},
           Answered(s, status)
    PROVE  /\ req' \in [Slots -> Request] /\ Serving'
           /\ admitted' \in [Guests -> Nat]
           /\ handled' \subseteq Devices \X Guests
           /\ door' = door /\ reloaded' = reloaded
<1>1. req' \in [Slots -> Request] /\ Serving'
  BY GotoType DEF Answered, PCs
<1>2. req[s] \in Request /\ req[s].guest \in Guests
  BY DEF Typed, TypeOK, Serving
<1>3. admitted' \in [Guests -> Nat]
  <2>1. admitted \in [Guests -> Nat] /\ admitted[req[s].guest] + 1 \in Nat
    BY <1>2 DEF Typed, TypeOK
  <2>2. CASE status = "checked_in"
    BY <2>1, <2>2 DEF Answered
  <2>3. CASE status # "checked_in"
    BY <2>1, <2>3 DEF Answered
  <2> QED
    BY <2>2, <2>3
<1>4. handled' \subseteq Devices \X Guests
  BY <1>2 DEF Answered, Typed, TypeOK, Request
<1> QED
  BY <1>1, <1>3, <1>4 DEF Answered

(* A request that aborts leaves a slot idle and a device not waiting.      *)
LEMMA AbortType ==
    ASSUME NEW s \in Slots, Typed, Abort(s)
    PROVE  /\ req' \in [Slots -> Request] /\ Serving'
           /\ device' \in [Devices -> Device]
<1>1. req' \in [Slots -> Request] /\ Serving'
  BY IdleType, SetType DEF Abort, Idle
<1>2. device' \in [Devices -> Device]
  <2>1. device \in [Devices -> Device] /\ req[s].device \in Devices \cup {NoDevice}
    BY DEF Typed, TypeOK, Request
  <2>2. CASE req[s].device = NoDevice
    BY <2>1, <2>2 DEF Abort
  <2>3. CASE req[s].device # NoDevice
    <3> PICK d \in Devices : d = req[s].device
      BY <2>1, <2>3
    <3>1. device' = [device EXCEPT ![d] = [device[d] EXCEPT !.waiting = FALSE]]
      BY <2>1, <2>3 DEF Abort
    <3>2. [device[d] EXCEPT !.waiting = FALSE] \in Device
      <4>1. device[d] \in Device
        BY <2>1
      <4> QED
        BY <4>1 DEF Device
    <3> QED
      BY <2>1, <3>1, <3>2
  <2> QED
    BY <2>2, <2>3
<1> QED
  BY <1>1, <1>2

(* What the manifest shows is one of the five things a list can show.      *)
LEMMA ManifestType == Manifest \in Lists /\ Empty \in Lists
BY DEF Manifest, Show, Shown, Lists, Empty

(* Any order of a set of guests is a sequence of guests.                   *)
LEMMA OrdersAreSequences ==
    ASSUME NEW S \in SUBSET Guests, NEW f \in SetToSeqs(S)
    PROVE  f \in Seq(Guests)
<1>1. Cardinality(S) \in Nat
  BY GuestsAssumption, FS_Subset, FS_CardinalityType
<1>2. f \in [1 .. Cardinality(S) -> S]
  BY DEF SetToSeqs
<1> QED
  BY <1>1, <1>2

(* A threshold that is looked at is one of the thresholds.                 *)
LEMMA CrossedType == \A n : Crossed(n) \in SUBSET Thresholds
BY DEF Crossed

(* A page that closes only takes its device from a request.                *)
LEMMA ClosedRequests ==
    ASSUME NEW d \in Devices, ClosePage(d), req \in [Slots -> Request]
    PROVE  /\ req' \in [Slots -> Request]
           /\ \A s \in Slots :
                 /\ req[s].device # d => req'[s] = req[s]
                 /\ req[s].device = d => req'[s].device = NoDevice
                 /\ req'[s].pc = req[s].pc /\ req'[s].guest = req[s].guest
                 /\ req'[s].todo = req[s].todo
BY DEF ClosePage, Request

(* Every step keeps the types.                                             *)
LEMMA TypedStep == Typed /\ [Next]_vars => Typed'
<1> SUFFICES ASSUME Typed, [Next]_vars PROVE Typed'
  OBVIOUS
<1> USE BoundsAssumption
<1>0. /\ req \in [Slots -> Request] /\ device \in [Devices -> Device]
      /\ calls \in Nat /\ faults \in Nat
  BY DEF Typed, TypeOK
<1>1. ASSUME NEW s \in Slots, NEW g \in Guests, NEW byToken \in BOOLEAN, Scan(s, g, byToken)
      PROVE Typed'
  <2> DEFINE r == [Idle EXCEPT !.pc = "replay", !.guest = g, !.token = byToken]
  <2>1. r \in Request /\ r.guest \in Guests
    BY IdleType DEF Request, PCs
  <2>2. req' = [req EXCEPT ![s] = r]
    BY <1>1 DEF Scan, Begin
  <2>3. req' \in [Slots -> Request] /\ Serving'
    BY <2>1, <2>2, SetType
  <2>4. overlapped' \in BOOLEAN /\ calls' \in Nat
    BY <1>0, <1>1 DEF Scan, Begin, Meet, Called, Typed, TypeOK
  <2> QED
    BY <1>1, <2>3, <2>4 DEF Scan, Typed, TypeOK, server, history
<1>2. ASSUME NEW s \in Slots, BulkCheckIn(s) PROVE Typed'
  <2>1. PICK list \in SetToSeqs({g \in Guests : Eligible(row[g])}) :
           Begin(s, [Idle EXCEPT !.pc = "next", !.op = "bulk", !.left = list])
    BY <1>2 DEF BulkCheckIn
  <2> DEFINE r == [Idle EXCEPT !.pc = "next", !.op = "bulk", !.left = list]
  <2>2. list \in Seq(Guests)
    BY OrdersAreSequences
  <2>3. r \in Request /\ r.pc = "next"
    BY <2>2, IdleType DEF Request, PCs, Operations, Repeatable
  <2>4. req' = [req EXCEPT ![s] = r]
    BY <2>1 DEF Begin
  <2>5. req' \in [Slots -> Request] /\ Serving'
    BY <2>3, <2>4, SetType
  <2>6. overlapped' \in BOOLEAN /\ calls' \in Nat
    BY <1>0, <1>2, <2>1 DEF BulkCheckIn, Begin, Meet, Called, Typed, TypeOK
  <2> QED
    BY <1>2, <2>5, <2>6 DEF BulkCheckIn, Typed, TypeOK, server, history
<1>3. ASSUME NEW s \in Slots, NEW g \in Guests, WalkIn(s, g) PROVE Typed'
  <2> DEFINE r == [Idle EXCEPT !.pc = "replay", !.guest = g, !.op = "walkin"]
  <2>1. r \in Request /\ r.guest \in Guests
    BY IdleType DEF Request, PCs, Operations, Repeatable
  <2>2. req' = [req EXCEPT ![s] = r]
    BY <1>3 DEF WalkIn, Begin
  <2>3. req' \in [Slots -> Request] /\ Serving'
    BY <2>1, <2>2, SetType
  <2>4. overlapped' \in BOOLEAN /\ calls' \in Nat
    BY <1>0, <1>3 DEF WalkIn, Begin, Meet, Called, Typed, TypeOK
  <2>5. row' \in [Guests -> RowStatuses]
    BY <1>3 DEF WalkIn, Typed, TypeOK, RowStatuses
  <2> QED
    BY <1>3, <2>3, <2>4, <2>5 DEF WalkIn, Typed, TypeOK, history
<1>4. ASSUME NEW s \in Slots, Replay(s) PROVE Typed'
  <2>1. req' \in [Slots -> Request] /\ Serving'
    <3>1. CASE Known(req[s].op, req[s].guest)
      BY <1>4, <3>1, GotoType DEF Replay, PCs
    <3>2. CASE ~Known(req[s].op, req[s].guest)
      BY <1>4, <3>2, GotoType DEF Replay, PCs
    <3> QED
      BY <3>1, <3>2
  <2>2. handled' \subseteq Devices \X Guests
    <3>1. req[s] \in Request /\ req[s].guest \in Guests
      BY <1>0, <1>4 DEF Replay, Typed, Serving
    <3>2. handled \subseteq Devices \X Guests
      BY DEF Typed, TypeOK
    <3>3. req[s].device # NoDevice => <<req[s].device, req[s].guest>> \in Devices \X Guests
      BY <3>1 DEF Request
    <3> QED
      BY <1>4, <3>2, <3>3 DEF Replay
  <2> QED
    BY <1>4, <2>1, <2>2 DEF Replay, Typed, TypeOK, server, bounds
<1>5. ASSUME NEW s \in Slots, ReadRow(s) PROVE Typed'
  <2>1. CASE req[s].token /\ req[s].guest \in revoked
    <3>1. Answered(s, "revoked")
      BY <1>5, <2>1 DEF ReadRow
    <3>2. req[s].pc = "row"
      BY <1>5 DEF ReadRow
    <3> QED
      BY <1>5, <3>1, <3>2, AnsweredType DEF ReadRow, Typed, TypeOK, server, bounds
  <2>2. CASE ~(req[s].token /\ req[s].guest \in revoked)
    <3> DEFINE r == [req[s] EXCEPT !.pc = "ticket", !.copy = row[req[s].guest]]
    <3>1. req[s].guest \in Guests /\ req[s] \in Request
      BY <1>0, <1>5 DEF ReadRow, Typed, Serving
    <3>2. r \in Request /\ r.guest \in Guests
      BY <3>1 DEF Request, PCs, Typed, TypeOK
    <3>3. req' = [req EXCEPT ![s] = r]
      BY <1>5, <2>2 DEF ReadRow
    <3>4. req' \in [Slots -> Request] /\ Serving'
      BY <3>2, <3>3, SetType
    <3> QED
      BY <1>5, <2>2, <3>4 DEF ReadRow, Typed, TypeOK, server, history, bounds
  <2> QED
    BY <2>1, <2>2
<1>6. ASSUME NEW s \in Slots, ReadTicket(s) PROVE Typed'
  <2> DEFINE a == Classify(req[s].copy, ticket[req[s].guest])
  <2>0. req[s].pc = "ticket"
    BY <1>6 DEF ReadTicket
  <2>1. CASE a = "ok"
    <3>1. Goto(s, "look") /\ UNCHANGED history
      BY <1>6, <2>1 DEF ReadTicket
    <3> QED
      BY <1>6, <2>0, <3>1, GotoType DEF ReadTicket, Typed, TypeOK, PCs, server, history, bounds
  <2>2. CASE a # "ok"
    <3>1. Answered(s, a)
      BY <1>6, <2>2 DEF ReadTicket
    <3> HIDE DEF a
    <3> QED
      BY <1>6, <2>0, <3>1, AnsweredType DEF ReadTicket, Typed, TypeOK, server, bounds
  <2> QED
    BY <2>1, <2>2
<1>7. ASSUME NEW s \in Slots, Look(s) PROVE Typed'
  <2>0. req[s].pc = "look"
    BY <1>7 DEF Look
  <2>1. CASE record[req[s].guest] # "none"
    <3>1. Answered(s, "already_checked_in")
      BY <1>7, <2>1 DEF Look
    <3> QED
      BY <1>7, <2>0, <3>1, AnsweredType DEF Look, Typed, TypeOK, server, bounds
  <2>2. CASE record[req[s].guest] = "none"
    <3>1. Goto(s, "create") /\ UNCHANGED history
      BY <1>7, <2>2 DEF Look
    <3> QED
      BY <1>7, <2>0, <3>1, GotoType DEF Look, Typed, TypeOK, PCs, server, history, bounds
  <2> QED
    BY <2>1, <2>2
<1>8. ASSUME NEW s \in Slots, CreateRecord(s) PROVE Typed'
  <2>0. req[s].pc = "create"
    BY <1>8 DEF CreateRecord
  <2>1. CASE record[req[s].guest] # "none"
    <3>1. Answered(s, "already_checked_in") /\ UNCHANGED record
      BY <1>8, <2>1 DEF CreateRecord
    <3> QED
      BY <1>8, <2>0, <3>1, AnsweredType DEF CreateRecord, Typed, TypeOK, bounds
  <2>2. CASE record[req[s].guest] = "none"
    <3> DEFINE pc == IF req[s].copy = "checked_in" THEN "count" ELSE "mark"
    <3>1. Goto(s, pc) /\ UNCHANGED history
      BY <1>8, <2>2 DEF CreateRecord
    <3>2. pc \in PCs /\ pc \notin {"idle", "next"}
      BY DEF PCs
    <3> HIDE DEF pc
    <3>3. req' \in [Slots -> Request] /\ Serving'
      BY <2>0, <3>1, <3>2, GotoType
    <3>4. record' \in [Guests -> Operations \cup {"none"}]
      BY <1>0, <1>8, <2>2 DEF CreateRecord, Typed, TypeOK, Request
    <3> QED
      BY <1>8, <3>1, <3>3, <3>4 DEF CreateRecord, Typed, TypeOK, history, bounds
  <2> QED
    BY <2>1, <2>2
<1>9. ASSUME NEW s \in Slots, Mark(s) PROVE Typed'
  <2>1. req' \in [Slots -> Request] /\ Serving'
    BY <1>9, GotoType DEF Mark, PCs
  <2>2. row' \in [Guests -> RowStatuses]
    BY <1>9 DEF Mark, Typed, TypeOK, RowStatuses
  <2> QED
    BY <1>9, <2>1, <2>2 DEF Mark, Typed, TypeOK, history, bounds
<1>10. ASSUME NEW s \in Slots, Count(s) PROVE Typed'
  <2> DEFINE n == Cardinality(Recorded)
             r == [req[s] EXCEPT !.pc = "find", !.todo = Crossed(n)]
  <2>1. r \in Request /\ r.guest \in Guests
    BY <1>0, <1>10, CrossedType DEF Count, Typed, Serving, Request, PCs
  <2>2. req' = [req EXCEPT ![s] = r]
    BY <1>10 DEF Count
  <2>3. req' \in [Slots -> Request] /\ Serving'
    BY <2>1, <2>2, SetType
  <2> QED
    BY <1>10, <2>3 DEF Count, Typed, TypeOK, server, history, bounds
<1>11. ASSUME NEW s \in Slots, FindAlert(s) PROVE Typed'
  <2>0. req[s].pc = "find" /\ req[s].guest \in Guests /\ req[s] \in Request
    BY <1>0, <1>11 DEF FindAlert, Typed, Serving
  <2>1. ASSUME Goto(s, "answer") \/ Goto(s, "announce")
        PROVE  req' \in [Slots -> Request] /\ Serving'
    BY <2>0, <2>1, GotoType DEF PCs
  <2>2. ASSUME NEW t, req' = [req EXCEPT ![s].todo = @ \ {t}]
        PROVE  req' \in [Slots -> Request] /\ Serving'
    <3> DEFINE r == [req[s] EXCEPT !.todo = @ \ {t}]
    <3>1. r \in Request /\ r.guest \in Guests
      BY <2>0 DEF Request
    <3>2. req' = [req EXCEPT ![s] = r]
      BY <2>2
    <3> QED
      BY <3>1, <3>2, SetType
  <2>3. req' \in [Slots -> Request] /\ Serving'
    <3>1. CASE req[s].todo = {} /\ Goto(s, "answer")
      BY <2>1, <3>1
    <3>2. ASSUME NEW t \in Lowest(req[s].todo),
                 req' = IF t \in alerts THEN [req EXCEPT ![s].todo = @ \ {t}]
                        ELSE [req EXCEPT ![s].pc = "announce"]
          PROVE  req' \in [Slots -> Request] /\ Serving'
      BY <2>1, <2>2, <3>2 DEF Goto
    <3> QED
      BY <1>11, <3>1, <3>2 DEF FindAlert
  <2> QED
    BY <1>11, <2>3 DEF FindAlert, Typed, TypeOK, server, history, bounds
<1>12. ASSUME NEW s \in Slots, CreateAlert(s) PROVE Typed'
  <2>0. req[s].pc = "announce" /\ req[s] \in Request
    BY <1>0, <1>12 DEF CreateAlert
  <2>1. PICK t \in Lowest(req[s].todo) :
           \/ t \in alerts /\ Abort(s) /\ UNCHANGED alerts
           \/ /\ t \notin alerts /\ alerts' = alerts \cup {t}
              /\ Goto(s, "notify") /\ UNCHANGED device
    BY <1>12 DEF CreateAlert
  <2>2. t \in Thresholds
    BY <2>0, <2>1 DEF Lowest, Request
  <2>3. /\ req' \in [Slots -> Request] /\ Serving'
        /\ device' \in [Devices -> Device] /\ alerts' \subseteq Thresholds
    <3>1. CASE t \in alerts /\ Abort(s) /\ UNCHANGED alerts
      BY <3>1, AbortType DEF Typed, TypeOK
    <3>2. CASE /\ t \notin alerts /\ alerts' = alerts \cup {t}
               /\ Goto(s, "notify") /\ UNCHANGED device
      BY <1>0, <2>0, <2>2, <3>2, GotoType DEF Typed, TypeOK, PCs
    <3> QED
      BY <2>1, <3>1, <3>2
  <2> QED
    BY <1>12, <2>3 DEF CreateAlert, Typed, TypeOK, history, bounds
<1>13. ASSUME NEW s \in Slots, Notify(s) PROVE Typed'
  <2>0. req[s].guest \in Guests /\ req[s] \in Request
    BY <1>0, <1>13 DEF Notify, Typed, Serving
  <2>1. PICK t \in Lowest(req[s].todo) :
          /\ notices' = [notices EXCEPT ![t] = @ + 1]
          /\ req' = [req EXCEPT ![s].pc = "find", ![s].todo = @ \ {t}]
    BY <1>13 DEF Notify
  <2> DEFINE r == [req[s] EXCEPT !.pc = "find", !.todo = @ \ {t}]
  <2>2. r \in Request /\ r.guest \in Guests
    BY <2>0 DEF Request, PCs
  <2>3. req' = [req EXCEPT ![s] = r]
    BY <2>1
  <2>4. req' \in [Slots -> Request] /\ Serving'
    BY <2>2, <2>3, SetType
  <2>5. notices' \in [Thresholds -> Nat]
    <3>1. t \in Thresholds /\ notices \in [Thresholds -> Nat]
      BY <2>0, <2>1 DEF Lowest, Request, Typed, TypeOK
    <3>2. notices[t] + 1 \in Nat
      BY <3>1
    <3> QED
      BY <2>1, <3>1, <3>2
  <2> QED
    BY <1>13, <2>4, <2>5 DEF Notify, Typed, TypeOK, history, bounds
<1>14. ASSUME NEW s \in Slots, Answer(s) PROVE Typed'
  BY <1>14, AnsweredType DEF Answer, Typed, TypeOK, server, bounds
<1>15. ASSUME NEW s \in Slots, NextGuest(s) PROVE Typed'
  <2>1. ASSUME req[s].left # <<>>, NEW byToken \in BOOLEAN,
               req' = [req EXCEPT ![s] =
                 [req[s] EXCEPT !.pc = "replay", !.guest = Head(req[s].left),
                                !.token = byToken, !.left = Tail(req[s].left)]]
        PROVE  req' \in [Slots -> Request] /\ Serving'
    <3>1. req[s] \in Request /\ req[s].left \in Seq(Guests)
      BY <1>0 DEF Request
    <3>2. Head(req[s].left) \in Guests /\ Tail(req[s].left) \in Seq(Guests)
      BY <2>1, <3>1
    <3> DEFINE r == [req[s] EXCEPT !.pc = "replay", !.guest = Head(req[s].left),
                                   !.token = byToken, !.left = Tail(req[s].left)]
    <3>3. r \in Request /\ r.guest \in Guests
      BY <3>1, <3>2 DEF Request, PCs
    <3> HIDE DEF r
    <3> QED
      BY <2>1, <3>3, SetType DEF r
  <2>2. ASSUME req' = [req EXCEPT ![s] = Idle]
        PROVE  req' \in [Slots -> Request] /\ Serving'
    BY <2>2, IdleType, SetType DEF Idle
  <2>3. req' \in [Slots -> Request] /\ Serving'
    BY <1>15, <2>1, <2>2 DEF NextGuest
  <2> QED
    BY <1>15, <2>3 DEF NextGuest, Typed, TypeOK, server, history, bounds
<1>16. ASSUME NEW s \in Slots, NewManifest(s) PROVE Typed'
  <2>1. req' \in [Slots -> Request] /\ Serving'
    BY <1>16, IdleType, SetType DEF NewManifest, Idle
  <2>2. device' \in [Devices -> Device]
    <3> DEFINE d == req[s].device
    <3>1. d \in Devices
      BY <1>0, <1>16 DEF NewManifest, Request
    <3>2. device' = [device EXCEPT ![d] =
                       [device[d] EXCEPT !.list = Manifest, !.queue = <<>>, !.waiting = FALSE]]
      BY <1>0, <1>16, <3>1 DEF NewManifest
    <3>3. [device[d] EXCEPT !.list = Manifest, !.queue = <<>>, !.waiting = FALSE] \in Device
      <4>1. <<>> \in Seq(Guests) /\ device[d] \in Device
        BY <1>0, <3>1
      <4> DEFINE empty == <<>>
                 list == Manifest
      <4>2. empty \in Seq(Guests) /\ list \in Lists
        BY <4>1, ManifestType
      <4> HIDE DEF empty, list
      <4>3. [device[d] EXCEPT !.list = list, !.queue = empty, !.waiting = FALSE] \in Device
        BY <4>1, <4>2 DEF Device
      <4> QED
        BY <4>3 DEF empty, list
    <3> QED
      BY <1>0, <3>1, <3>2, <3>3
  <2> QED
    BY <1>16, <2>1, <2>2 DEF NewManifest, Typed, TypeOK, server, history, bounds
<1>17. ASSUME NEW s \in Slots, Fault(s) PROVE Typed'
  BY <1>0, <1>17, AbortType DEF Fault, Typed, TypeOK, server, history
<1>18. ASSUME NEW s \in Slots, NEW d \in Devices, PostQueue(s, d) PROVE Typed'
  <2> DEFINE r == [Idle EXCEPT !.pc = "next", !.op = d, !.left = device[d].queue,
                               !.device = d]
  <2>1. device[d].queue \in Seq(Guests)
    BY <1>0 DEF Device
  <2>2. r \in Request /\ r.pc = "next"
    BY <2>1, IdleType DEF Request, PCs, Operations, Repeatable
  <2>3. req' = [req EXCEPT ![s] = r]
    BY <1>18 DEF PostQueue, Begin
  <2>4. req' \in [Slots -> Request] /\ Serving'
    BY <2>2, <2>3, SetType
  <2>5. overlapped' \in BOOLEAN /\ device' \in [Devices -> Device]
    <3>1. device' = [device EXCEPT ![d] = [device[d] EXCEPT !.due = FALSE, !.waiting = TRUE]]
      BY <1>0, <1>18 DEF PostQueue
    <3>2. [device[d] EXCEPT !.due = FALSE, !.waiting = TRUE] \in Device
      <4>1. device[d] \in Device
        BY <1>0
      <4> QED
        BY <4>1 DEF Device
    <3>3. overlapped' \in BOOLEAN
      BY <1>18 DEF PostQueue, Begin, Meet, Typed, TypeOK
    <3> QED
      BY <1>0, <3>1, <3>2, <3>3
  <2> QED
    BY <1>18, <2>4, <2>5 DEF PostQueue, Typed, TypeOK, server, history, bounds
<1>19. ASSUME NEW d \in Devices, Connect(d) \/ Page(d) PROVE Typed'
  <2>0. device[d] \in Device /\ Manifest \in Lists /\ Empty \in Lists
    BY <1>0, ManifestType
  <2>1. device' \in [Devices -> Device]
    <3>1. ASSUME NEW x \in Device, device' = [device EXCEPT ![d] = x]
          PROVE  device' \in [Devices -> Device]
      BY <1>0, <3>1
    <3>2. CASE GoOffline(d) \/ PostFails(d) \/ PressSync(d) \/ OpenPage(d)
      <4>1. /\ [device[d] EXCEPT !.online = FALSE] \in Device
            /\ [device[d] EXCEPT !.due = FALSE] \in Device
            /\ [device[d] EXCEPT !.due = TRUE, !.left = FALSE] \in Device
            /\ [device[d] EXCEPT !.open = TRUE] \in Device
        BY <2>0 DEF Device
      <4> QED
        BY <1>0, <3>1, <3>2, <4>1 DEF GoOffline, PostFails, PressSync, OpenPage
    <3>3. CASE GoOnline(d)
      <4> DEFINE due == device[d].open /\ device[d].queue # <<>>
                 left == device[d].left /\ ~device[d].open
      <4>1. due \in BOOLEAN /\ left \in BOOLEAN
        BY <2>0 DEF Device
      <4>2. device' = [device EXCEPT ![d] =
                         [device[d] EXCEPT !.online = TRUE, !.due = due, !.left = left]]
        BY <1>0, <3>3 DEF GoOnline
      <4> HIDE DEF due, left
      <4>3. [device[d] EXCEPT !.online = TRUE, !.due = due, !.left = left] \in Device
        BY <2>0, <4>1 DEF Device
      <4> QED
        BY <3>1, <4>2, <4>3
    <3>4. CASE FetchManifest(d)
      <4> DEFINE fetch == IF device[d].queue = <<>> THEN "fresh" ELSE "stale"
                 list == Manifest
      <4>1. fetch \in {"none", "fresh", "stale"} /\ list \in Lists
        BY <2>0
      <4>2. device' = [device EXCEPT ![d] = [device[d] EXCEPT !.fetched = list, !.fetch = fetch]]
        BY <1>0, <3>4 DEF FetchManifest
      <4> HIDE DEF fetch, list
      <4>3. [device[d] EXCEPT !.fetched = list, !.fetch = fetch] \in Device
        BY <2>0, <4>1 DEF Device
      <4> QED
        BY <3>1, <4>2, <4>3
    <3>5. CASE StoreManifest(d)
      <4>1. device' = [device EXCEPT ![d] = [device[d] EXCEPT !.list = device[d].fetched,
                                                !.fetch = "none", !.fetched = Empty]]
        BY <1>0, <3>5 DEF StoreManifest
      <4>2. [device[d] EXCEPT !.list = device[d].fetched,
                              !.fetch = "none", !.fetched = Empty] \in Device
        BY <2>0 DEF Device
      <4> QED
        BY <3>1, <4>1, <4>2
    <3>6. CASE ClosePage(d)
      <4> DEFINE left == device[d].left \/ device[d].queue # <<>>
                 x == [device[d] EXCEPT
                          !.open = FALSE, !.due = FALSE, !.waiting = FALSE,
                          !.fetch = "none", !.fetched = Empty, !.left = left]
      <4>1. left \in BOOLEAN
        BY <2>0 DEF Device
      <4>2. device' = [device EXCEPT ![d] = x]
        BY <1>0, <3>6 DEF ClosePage
      <4> HIDE DEF left
      <4>3. x \in Device
        BY <2>0, <4>1 DEF Device
      <4> HIDE DEF x
      <4> QED
        BY <3>1, <4>2, <4>3
    <3> QED
      BY <1>19, <3>2, <3>3, <3>4, <3>5, <3>6 DEF Connect, Page
  <2>2. req' \in [Slots -> Request] /\ Serving'
    <3>1. CASE UNCHANGED req
      BY <1>0, <3>1 DEF Typed, Serving
    <3>2. CASE ClosePage(d)
      BY <1>0, <3>2, ClosedRequests DEF Typed, Serving
    <3> QED
      BY <1>19, <3>1, <3>2
      DEF Connect, Page, GoOffline, GoOnline, PostFails, PressSync, OpenPage, FetchManifest,
          StoreManifest
  <2>3. UNCHANGED <<server, admitted, door, handled, overlapped, bounds>>
    BY <1>19 DEF Connect, Page, GoOffline, GoOnline, PostFails, PressSync, ClosePage, OpenPage,
                 FetchManifest, StoreManifest, history
  <2>4. reloaded' \in BOOLEAN
    BY <1>19 DEF Connect, Page, GoOffline, GoOnline, PostFails, PressSync, ClosePage, OpenPage,
                 FetchManifest, StoreManifest, history, Typed, TypeOK
  <2> QED
    BY <2>1, <2>2, <2>3, <2>4 DEF Typed, TypeOK, server, bounds
<1>20. ASSUME NEW d \in Devices, NEW g \in Guests, ScanOffline(d, g) PROVE Typed'
  <2>1. Append(device[d].queue, g) \in Seq(Guests)
    BY <1>0 DEF Device
  <2>2. device' \in [Devices -> Device]
    <3> DEFINE fetch == Outdated(device[d].fetch)
               list == [device[d].list EXCEPT ![g] = "checked_in"]
               queue == Append(device[d].queue, g)
    <3>1. device[d] \in Device /\ fetch \in {"none", "fresh", "stale"} /\ list \in Lists
      BY <1>0 DEF Device, Outdated, Lists, Shown
    <3>2. device' = [device EXCEPT ![d] =
                       [device[d] EXCEPT !.queue = queue, !.list = list, !.fetch = fetch]]
      BY <1>0, <1>20 DEF ScanOffline, QueueOp, Device
    <3> HIDE DEF fetch, list, queue
    <3>3. [device[d] EXCEPT !.queue = queue, !.list = list, !.fetch = fetch] \in Device
      BY <2>1, <3>1 DEF Device, queue
    <3> QED
      BY <1>0, <3>2, <3>3
  <2>3. overlapped' \in BOOLEAN
    BY <1>0, <1>20 DEF ScanOffline, Meet, Typed, TypeOK, Device
  <2> QED
    BY <1>20, <2>2, <2>3 DEF ScanOffline, Typed, TypeOK, Serving, server, bounds
<1>21. ASSUME NEW g \in Guests, Others(g) PROVE Typed'
  <2>1. /\ row' \in [Guests -> RowStatuses] /\ ticket' \in [Guests -> TicketStatuses]
        /\ revoked' \subseteq Guests
    BY <1>21 DEF Others, RevokePass, RefundTicket, Release, ExpireOffer, Typed, TypeOK,
                 RowStatuses, TicketStatuses
  <2>2. overlapped' \in BOOLEAN /\ calls' \in Nat
    <3>1. Called /\ Meet(Busy)
      BY <1>21 DEF Others, RevokePass, RefundTicket, Release, ExpireOffer
    <3> QED
      BY <1>0, <3>1 DEF Called, Meet, Typed, TypeOK
  <2>3. UNCHANGED <<record, alerts, notices, req, device, history, faults>>
    BY <1>21 DEF Others, RevokePass, RefundTicket, Release, ExpireOffer
  <2> QED
    BY <2>1, <2>2, <2>3 DEF Typed, TypeOK, Serving, history
<1>22. CASE UNCHANGED vars
  BY <1>22 DEF vars, Typed, TypeOK, Serving, server, history, bounds
<1> QED
  BY <1>1, <1>2, <1>3, <1>4, <1>5, <1>6, <1>7, <1>8, <1>9, <1>10, <1>11, <1>12, <1>13,
     <1>14, <1>15, <1>16, <1>17, <1>18, <1>19, <1>20, <1>21, <1>22
     DEF Next, Start, Step

(* The initial state has the types.                                        *)
LEMMA TypedInit == Init => Typed
<1> SUFFICES ASSUME Init PROVE Typed
  OBVIOUS
<1>1. row \in [Guests -> RowStatuses] /\ ticket \in [Guests -> TicketStatuses]
  <2>1. PICK start \in [Guests -> Starts] :
           /\ row = [g \in Guests |-> start[g][1]]
           /\ ticket = [g \in Guests |-> start[g][2]]
    BY DEF Init
  <2>2. \A g \in Guests : start[g] \in Registered
    BY StartsAssumption
  <2> QED
    BY <2>1, <2>2 DEF Registered, RowStatuses, TicketStatuses
<1>2. req \in [Slots -> Request] /\ Serving
  BY IdleType DEF Init, Serving, Idle
<1>3. device \in [Devices -> Device]
  <2>1. NewDevice \in Device
    BY DEF NewDevice, Empty, Device, Lists, Shown
  <2> QED
    BY <2>1 DEF Init
<1> QED
  BY <1>1, <1>2, <1>3 DEF Init, Typed, TypeOK

(* Type correctness of CheckIn: rows, records, requests in flight, device  *)
(* stores and histories keep their types.                                  *)
THEOREM TypeCorrect == Spec => []TypeOK
<1>1. Init => Typed
  BY TypedInit
<1>2. Typed /\ [Next]_vars => Typed'
  BY TypedStep
<1>3. Typed => TypeOK
  BY DEF Typed
<1> QED
  BY <1>1, <1>2, <1>3, PTL DEF Spec
-----------------------------------------------------------------------------
(* Admissions and announcements.  A request that has created the record of *)
(* a guest is the only one that may still answer checked_in for the guest; *)
(* one that has created the alert row of a threshold is the only one that  *)
(* may still announce it.                                                  *)

After == {"mark", "count", "find", "announce", "notify", "answer"}
Admitting(s, g) == req[s].pc \in After /\ req[s].guest = g
Announcing(s, t) == req[s].pc = "notify" /\ t \in Lowest(req[s].todo)

AdmissionOf(g) ==
    /\ admitted[g] \in {0, 1}
    /\ record[g] = "none" => admitted[g] = 0
    /\ record[g] = "none" \/ admitted[g] = 1 => \A s \in Slots : ~Admitting(s, g)
    /\ \A s, u \in Slots : Admitting(s, g) /\ Admitting(u, g) => s = u
Admission == \A g \in Guests : AdmissionOf(g)

AlertOf(t) ==
    /\ notices[t] \in {0, 1}
    /\ t \notin alerts => notices[t] = 0
    /\ t \notin alerts \/ notices[t] = 1 => \A s \in Slots : ~Announcing(s, t)
    /\ \A s, u \in Slots : Announcing(s, t) /\ Announcing(u, t) => s = u
Alert == \A t \in Thresholds : AlertOf(t)

(* A step after which nobody more is being admitted or announced.          *)
CalmRequests ==
    /\ \A s \in Slots, g \in Guests : Admitting(s, g)' => Admitting(s, g)
    /\ \A s \in Slots, t \in Thresholds : Announcing(s, t)' => Announcing(s, t)

LEMMA CalmKeepsAdmission ==
    ASSUME Admission, CalmRequests, record' = record, admitted' = admitted
    PROVE  Admission'
BY DEF Admission, AdmissionOf, CalmRequests

LEMMA CalmKeepsAlert ==
    ASSUME Alert, CalmRequests, alerts' = alerts, notices' = notices
    PROVE  Alert'
BY DEF Alert, AlertOf, CalmRequests

(* One slot changes, and it neither becomes admitting nor announcing.      *)
LEMMA CalmSlot ==
    ASSUME NEW s \in Slots, \A u \in Slots \ {s} : req'[u] = req[u],
           req'[s].pc \notin After \/ (req[s].pc \in After /\ req'[s].guest = req[s].guest),
           req'[s].pc # "notify"
    PROVE  CalmRequests
BY DEF CalmRequests, Admitting, Announcing

LEMMA CalmGoto ==
    ASSUME NEW s \in Slots, NEW pc \in PCs, Typed, Goto(s, pc), pc # "notify",
           pc \notin After \/ req[s].pc \in After
    PROVE  CalmRequests
<1>1. /\ \A u \in Slots \ {s} : req'[u] = req[u]
      /\ req'[s].pc = pc /\ req'[s].guest = req[s].guest
  BY DEF Goto, Typed, TypeOK, Request
<1> QED
  BY <1>1, CalmSlot

LEMMA CalmAbort ==
    ASSUME NEW s \in Slots, Typed, req' = [req EXCEPT ![s] = Idle]
    PROVE  CalmRequests
<1>1. /\ \A u \in Slots \ {s} : req'[u] = req[u]
      /\ req'[s].pc = "idle"
  BY DEF Typed, TypeOK, Idle
<1> QED
  BY <1>1, CalmSlot DEF After

LEMMA CalmUnchanged == ASSUME UNCHANGED req PROVE CalmRequests
BY DEF CalmRequests, Admitting, Announcing

(* A new request is at its beginning.                                      *)
LEMMA CalmBegin ==
    ASSUME NEW s \in Slots, NEW r, Typed, Begin(s, r), r.pc \notin After
    PROVE  CalmRequests
<1>1. /\ \A u \in Slots \ {s} : req'[u] = req[u]
      /\ req'[s] = r
  BY DEF Begin, Typed, TypeOK
<1> QED
  BY <1>1, CalmSlot DEF After

(* Every step but four is calm and leaves the tables in question alone.    *)
Calm ==
    /\ CalmRequests
    /\ record' = record /\ admitted' = admitted /\ alerts' = alerts /\ notices' = notices

LEMMA CalmAnswered ==
    ASSUME NEW s \in Slots, NEW status, Typed, Answered(s, status), status # "checked_in"
    PROVE  CalmRequests /\ admitted' = admitted
BY CalmGoto DEF Answered, PCs, After

LEMMA CalmStart == ASSUME NEW s \in Slots, Typed, Start(s) PROVE Calm
<1>1. ASSUME NEW g \in Guests, NEW byToken \in BOOLEAN, Scan(s, g, byToken) PROVE Calm
  <2> DEFINE r == [Idle EXCEPT !.pc = "replay", !.guest = g, !.token = byToken]
  <2>1. r.pc = "replay"
    BY DEF Idle
  <2>2. Begin(s, r)
    BY <1>1 DEF Scan
  <2> HIDE DEF r
  <2>3. CalmRequests
    BY <2>1, <2>2, CalmBegin DEF After
  <2> QED
    BY <1>1, <2>3 DEF Scan, Calm, server, history
<1>2. ASSUME BulkCheckIn(s) PROVE Calm
  <2>1. PICK list \in SetToSeqs({g \in Guests : Eligible(row[g])}) :
           Begin(s, [Idle EXCEPT !.pc = "next", !.op = "bulk", !.left = list])
    BY <1>2 DEF BulkCheckIn
  <2> DEFINE r == [Idle EXCEPT !.pc = "next", !.op = "bulk", !.left = list]
  <2>2. r.pc = "next" /\ Begin(s, r)
    BY <2>1 DEF Idle
  <2> HIDE DEF r
  <2>3. CalmRequests
    BY <2>2, CalmBegin DEF After
  <2> QED
    BY <1>2, <2>3 DEF BulkCheckIn, Calm, server, history
<1>3. ASSUME NEW g \in Guests, WalkIn(s, g) PROVE Calm
  <2> DEFINE r == [Idle EXCEPT !.pc = "replay", !.guest = g, !.op = "walkin"]
  <2>1. r.pc = "replay" /\ Begin(s, r)
    BY <1>3 DEF WalkIn, Idle
  <2> HIDE DEF r
  <2>2. CalmRequests
    BY <2>1, CalmBegin DEF After
  <2> QED
    BY <1>3, <2>2 DEF WalkIn, Calm, history
<1> QED
  BY <1>1, <1>2, <1>3 DEF Start

(* The steps before the record, and those that only look.                  *)
LEMMA CalmSteps ==
    ASSUME NEW s \in Slots, Typed,
           Replay(s) \/ ReadRow(s) \/ ReadTicket(s) \/ Look(s) \/ Mark(s) \/ Count(s)
           \/ FindAlert(s) \/ NextGuest(s) \/ NewManifest(s) \/ Fault(s)
    PROVE  Calm
<1>0. req \in [Slots -> Request]
  BY DEF Typed, TypeOK
<1>1. CASE Replay(s)
  BY <1>1, CalmGoto DEF Replay, PCs, After, Calm, server
<1>2. CASE ReadRow(s)
  <2>1. CASE req[s].token /\ req[s].guest \in revoked
    BY <1>2, <2>1, CalmAnswered DEF ReadRow, Calm, server
  <2>2. CASE ~(req[s].token /\ req[s].guest \in revoked)
    <3>1. /\ req' = [req EXCEPT ![s].pc = "ticket", ![s].copy = row[req[s].guest]]
          /\ UNCHANGED history
      BY <1>2, <2>2 DEF ReadRow
    <3>2. req'[s].pc = "ticket" /\ \A u \in Slots \ {s} : req'[u] = req[u]
      BY <1>0, <3>1 DEF Request
    <3>3. CalmRequests
      BY <3>2, CalmSlot DEF After
    <3> QED
      BY <1>2, <3>1, <3>3 DEF ReadRow, Calm, server, history
  <2> QED
    BY <2>1, <2>2
<1>3. CASE ReadTicket(s)
  <2>1. PICK answer : /\ answer = Classify(req[s].copy, ticket[req[s].guest])
                      /\ IF answer = "ok" THEN Goto(s, "look") /\ UNCHANGED history
                         ELSE Answered(s, answer)
    BY <1>3 DEF ReadTicket
  <2>2. answer # "checked_in"
    BY <2>1 DEF Classify
  <2>3. CASE answer = "ok"
    BY <1>3, <2>1, <2>3, CalmGoto DEF ReadTicket, PCs, After, Calm, server, history
  <2>4. CASE answer # "ok"
    BY <1>3, <2>1, <2>2, <2>4, CalmAnswered DEF ReadTicket, Calm, server
  <2> QED
    BY <2>3, <2>4
<1>4. CASE Look(s)
  <2>1. CASE record[req[s].guest] # "none"
    <3>1. CalmRequests /\ admitted' = admitted
      BY <1>4, <2>1, CalmAnswered DEF Look
    <3> QED
      BY <1>4, <3>1 DEF Look, Calm, server
  <2>2. CASE record[req[s].guest] = "none"
    BY <1>4, <2>2, CalmGoto DEF Look, PCs, After, Calm, server, history
  <2> QED
    BY <2>1, <2>2
<1>5. CASE Mark(s)
  BY <1>5, CalmGoto DEF Mark, PCs, After, Calm, history
<1>6. CASE Count(s)
  <2>1. req' = [req EXCEPT ![s].pc = "find", ![s].todo = Crossed(Cardinality(Recorded))]
    BY <1>6 DEF Count
  <2>2. /\ req'[s].pc = "find" /\ req'[s].guest = req[s].guest
        /\ \A u \in Slots \ {s} : req'[u] = req[u]
    BY <1>0, <2>1 DEF Request
  <2>3. CalmRequests
    BY <1>6, <2>2, CalmSlot DEF Count, After
  <2> QED
    BY <1>6, <2>3 DEF Count, Calm, server, history
<1>7. CASE FindAlert(s)
  <2>1. CASE Goto(s, "answer")
    BY <1>7, <2>1, CalmGoto DEF FindAlert, PCs, After, Calm, server, history
  <2>2. CASE \E t \in Lowest(req[s].todo) :
                req' = IF t \in alerts THEN [req EXCEPT ![s].todo = @ \ {t}]
                       ELSE [req EXCEPT ![s].pc = "announce"]
    <3>1. PICK t \in Lowest(req[s].todo) :
                req' = IF t \in alerts THEN [req EXCEPT ![s].todo = @ \ {t}]
                       ELSE [req EXCEPT ![s].pc = "announce"]
      BY <2>2
    <3>2. /\ req'[s].pc \in {"find", "announce"} /\ req'[s].guest = req[s].guest
          /\ \A u \in Slots \ {s} : req'[u] = req[u]
      BY <1>0, <1>7, <3>1 DEF FindAlert, Request
    <3>3. CalmRequests
      BY <1>7, <3>2, CalmSlot DEF FindAlert, After
    <3> QED
      BY <1>7, <3>3 DEF FindAlert, Calm, server, history
  <2> QED
    BY <1>7, <2>1, <2>2 DEF FindAlert
<1>8. CASE NextGuest(s)
  <2>1. /\ req'[s].pc \in {"replay", "idle"}
        /\ \A u \in Slots \ {s} : req'[u] = req[u]
    <3>1. PICK r : req' = [req EXCEPT ![s] = r] /\ r.pc \in {"replay", "idle"}
      <4>1. CASE req' = [req EXCEPT ![s] = Idle]
        <5>1. Idle.pc = "idle"
          BY DEF Idle
        <5> QED
          BY <4>1, <5>1
      <4>2. CASE \E byToken \in BOOLEAN :
                   req' = [req EXCEPT ![s] =
                      [req[s] EXCEPT !.pc = "replay", !.guest = Head(req[s].left),
                                     !.token = byToken, !.left = Tail(req[s].left)]]
        <5>1. PICK byToken \in BOOLEAN :
                   req' = [req EXCEPT ![s] =
                      [req[s] EXCEPT !.pc = "replay", !.guest = Head(req[s].left),
                                     !.token = byToken, !.left = Tail(req[s].left)]]
          BY <4>2
        <5> DEFINE n == [req[s] EXCEPT !.pc = "replay", !.guest = Head(req[s].left),
                                       !.token = byToken, !.left = Tail(req[s].left)]
        <5>2. n.pc = "replay"
          BY <1>0 DEF Request
        <5> QED
          BY <5>1, <5>2
      <4> QED
        BY <1>8, <4>1, <4>2 DEF NextGuest
    <3> QED
      BY <1>0, <3>1
  <2>2. CalmRequests
    BY <2>1, CalmSlot DEF After
  <2> QED
    BY <1>8, <2>2 DEF NextGuest, Calm, server, history
<1>9. CASE NewManifest(s)
  <2>1. CalmRequests
    BY <1>9, CalmAbort DEF NewManifest
  <2> QED
    BY <1>9, <2>1 DEF NewManifest, Calm, server, history
<1>10. CASE Fault(s)
  <2>1. CalmRequests
    BY <1>10, CalmAbort DEF Fault, Abort
  <2> QED
    BY <1>10, <2>1 DEF Fault, Calm, server, history
<1> QED
  BY <1>1, <1>2, <1>3, <1>4, <1>5, <1>6, <1>7, <1>8, <1>9, <1>10

(* What a device does but for closing its page, scanning and posting.      *)
Still(d) ==
    \/ GoOffline(d) \/ GoOnline(d) \/ PostFails(d) \/ PressSync(d) \/ OpenPage(d)
    \/ FetchManifest(d) \/ StoreManifest(d)

LEMMA CalmDevices ==
    ASSUME NEW d \in Devices, Typed,
           \/ Connect(d) \/ Page(d)
           \/ \E g \in Guests : ScanOffline(d, g)
           \/ \E s \in Slots : PostQueue(s, d)
    PROVE  Calm
<1>1. ASSUME NEW s \in Slots, PostQueue(s, d) PROVE Calm
  <2> DEFINE r == [Idle EXCEPT !.pc = "next", !.op = d, !.left = device[d].queue, !.device = d]
  <2>1. r.pc = "next" /\ Begin(s, r)
    BY <1>1 DEF PostQueue, Idle
  <2> HIDE DEF r
  <2>2. CalmRequests
    BY <2>1, CalmBegin DEF After
  <2> QED
    BY <1>1, <2>2 DEF PostQueue, Calm, server, history
<1>2. CASE Still(d) \/ \E g \in Guests : ScanOffline(d, g)
  <2>1. UNCHANGED <<req, server, admitted>>
    BY <1>2 DEF Still, GoOffline, GoOnline, PostFails, PressSync, OpenPage, FetchManifest,
                StoreManifest, ScanOffline, history
  <2> QED
    BY <2>1, CalmUnchanged DEF Calm, server
<1>3. CASE ClosePage(d)
  <2>1. \A s \in Slots : /\ req'[s].pc = req[s].pc /\ req'[s].guest = req[s].guest
                         /\ req'[s].todo = req[s].todo
    BY <1>3, ClosedRequests DEF Typed, TypeOK
  <2>2. CalmRequests
    BY <2>1 DEF CalmRequests, Admitting, Announcing
  <2> QED
    BY <1>3, <2>2 DEF ClosePage, Calm, server, history
<1> QED
  BY <1>1, <1>2, <1>3 DEF Connect, Page, Still

LEMMA CalmOthers == ASSUME NEW g \in Guests, Others(g) PROVE Calm
<1>1. UNCHANGED <<req, record, alerts, notices, admitted>>
  BY DEF Others, RevokePass, RefundTicket, Release, ExpireOffer, history
<1> QED
  BY <1>1, CalmUnchanged DEF Calm
(* The record makes its request the admitting one.                         *)
LEMMA CreateRecordKeeps ==
    ASSUME NEW s \in Slots, Typed, Admission, Alert, CreateRecord(s)
    PROVE  Admission' /\ Alert'
<1>0. req \in [Slots -> Request] /\ req[s].pc = "create" /\ req[s].guest \in Guests
  BY DEF Typed, TypeOK, Serving, CreateRecord
<1>1. CASE record[req[s].guest] # "none"
  <2>1. Answered(s, "already_checked_in") /\ UNCHANGED <<record, alerts, notices>>
    BY <1>1 DEF CreateRecord
  <2>2. CalmRequests /\ admitted' = admitted
    BY <2>1, CalmAnswered
  <2> QED
    BY <2>1, <2>2, CalmKeepsAdmission, CalmKeepsAlert
<1>2. CASE record[req[s].guest] = "none"
  <2> PICK h \in Guests : req[s].guest = h
    BY <1>0
  <2> DEFINE pc == IF req[s].copy = "checked_in" THEN "count" ELSE "mark"
  <2>1. /\ record' = [record EXCEPT ![h] = req[s].op] /\ Goto(s, pc)
        /\ UNCHANGED <<alerts, notices, admitted>>
    BY <1>2 DEF CreateRecord, history
  <2>2. req[s].op # "none"
    BY <1>0, GuestsAssumption DEF Request, Operations, Repeatable
  <2>3. /\ record'[h] # "none"
        /\ \A g \in Guests \ {h} : record'[g] = record[g]
    BY <1>0, <2>1, <2>2 DEF Typed, TypeOK
  <2>4. /\ \A u \in Slots \ {s} : req'[u] = req[u]
        /\ req'[s].pc \in {"count", "mark"} /\ req'[s].guest = h
    BY <1>0, <2>1 DEF Goto, Request
  <2>5. \A u \in Slots, t \in Thresholds : Announcing(u, t)' => Announcing(u, t)
    BY <2>4 DEF Announcing
  <2>6. Alert'
    BY <2>1, <2>5 DEF Alert, AlertOf
  <2>7. \A u \in Slots, g \in Guests : Admitting(u, g)' => Admitting(u, g) \/ (u = s /\ g = h)
    BY <2>4 DEF Admitting
  <2>8. ASSUME NEW g \in Guests PROVE AdmissionOf(g)'
    <3>1. AdmissionOf(g)
      BY DEF Admission
    <3>2. CASE g # h
      BY <2>1, <2>3, <2>7, <3>1, <3>2 DEF AdmissionOf
    <3>3. CASE g = h
      <4>1. admitted[g] = 0 /\ \A u \in Slots : ~Admitting(u, g)
        BY <1>2, <3>1, <3>3 DEF AdmissionOf
      <4> QED
        BY <2>1, <2>3, <2>7, <3>3, <4>1 DEF AdmissionOf
    <3> QED
      BY <3>2, <3>3
  <2> QED
    BY <2>6, <2>8 DEF Admission
<1> QED
  BY <1>1, <1>2

(* The answer ends the admission.                                          *)
LEMMA AnswerKeeps ==
    ASSUME NEW s \in Slots, Typed, Admission, Alert, Answer(s)
    PROVE  Admission' /\ Alert'
<1>0. /\ req \in [Slots -> Request] /\ admitted \in [Guests -> Nat]
      /\ req[s].pc = "answer" /\ req[s].guest \in Guests
  BY DEF Typed, TypeOK, Serving, Answer
<1> PICK h \in Guests : req[s].guest = h
  BY <1>0
<1>1. /\ UNCHANGED <<record, alerts, notices>> /\ Goto(s, "next")
      /\ admitted' = [admitted EXCEPT ![h] = admitted[h] + 1]
  BY DEF Answer, Answered, server
<1>2. CalmRequests
  BY <1>1, CalmGoto DEF PCs, After
<1>3. Admitting(s, h) /\ ~Admitting(s, h)'
  BY <1>0, <1>1 DEF Admitting, After, Goto, Request
<1>4. admitted[h] = 0 /\ record[h] # "none"
      /\ \A u \in Slots : Admitting(u, h) => u = s
  BY <1>0, <1>3 DEF Admission, AdmissionOf
<1>5. admitted'[h] = 1 /\ \A g \in Guests \ {h} : admitted'[g] = admitted[g]
  <2>1. admitted'[h] = admitted[h] + 1 /\ \A g \in Guests \ {h} : admitted'[g] = admitted[g]
    BY <1>0, <1>1
  <2>2. admitted[h] + 1 = 1
    BY <1>4
  <2> QED
    BY <2>1, <2>2
<1>6. ASSUME NEW g \in Guests PROVE AdmissionOf(g)'
  <2>0. AdmissionOf(g) /\ \A u \in Slots : Admitting(u, g)' => Admitting(u, g)
    BY <1>2 DEF Admission, CalmRequests
  <2>1. CASE g # h
    <3>1. admitted'[g] = admitted[g] /\ record' = record
      BY <1>1, <1>5, <2>1
    <3> QED
      BY <2>0, <3>1 DEF AdmissionOf
  <2>2. CASE g = h
    <3>1. \A u \in Slots : ~Admitting(u, g)'
      BY <1>0, <1>3, <1>4, <2>0, <2>2
    <3>2. admitted'[g] = 1 /\ record'[g] # "none"
      BY <1>1, <1>4, <1>5, <2>2
    <3> QED
      BY <3>1, <3>2 DEF AdmissionOf
  <2> QED
    BY <2>1, <2>2
<1> QED
  BY <1>1, <1>2, <1>6, CalmKeepsAlert DEF Admission

(* Of a set of numbers one is the lowest.                                  *)
LEMMA LowestIsOne ==
    ASSUME NEW todo \in SUBSET Thresholds, NEW t \in Lowest(todo), NEW u \in Lowest(todo)
    PROVE  t = u /\ t \in Thresholds
<1>1. t \in Nat /\ u \in Nat /\ t <= u /\ u <= t
  BY BoundsAssumption DEF Lowest
<1>2. t = u
  BY <1>1
<1> QED
  BY <1>2 DEF Lowest

(* The alert row makes its request the announcing one.                     *)
LEMMA CreateAlertKeeps ==
    ASSUME NEW s \in Slots, Typed, Admission, Alert, CreateAlert(s)
    PROVE  Admission' /\ Alert'
<1>0. /\ req \in [Slots -> Request] /\ req[s].pc = "announce"
      /\ req[s].todo \in SUBSET Thresholds
      /\ UNCHANGED <<record, notices, admitted>>
  BY DEF Typed, TypeOK, CreateAlert, Request, history
<1>1. PICK t \in Lowest(req[s].todo) :
          \/ /\ t \in alerts
             /\ Abort(s)
             /\ UNCHANGED alerts
          \/ /\ t \notin alerts
             /\ alerts' = alerts \cup {t}
             /\ Goto(s, "notify")
  BY DEF CreateAlert
<1>2. CASE Abort(s) /\ UNCHANGED alerts
  <2>1. CalmRequests
    BY <1>2, CalmAbort DEF Abort
  <2> QED
    BY <1>0, <1>2, <2>1, CalmKeepsAdmission, CalmKeepsAlert
<1>3. CASE t \notin alerts /\ alerts' = alerts \cup {t} /\ Goto(s, "notify")
  <2>1. /\ \A u \in Slots \ {s} : req'[u] = req[u]
        /\ req'[s].pc = "notify" /\ req'[s].guest = req[s].guest
        /\ req'[s].todo = req[s].todo
    BY <1>0, <1>3 DEF Goto, Request
  <2>2. \A u \in Slots, g \in Guests : Admitting(u, g)' => Admitting(u, g)
    BY <1>0, <2>1 DEF Admitting, After
  <2>3. Admission'
    BY <1>0, <2>2 DEF Admission, AdmissionOf
  <2>4. ASSUME NEW u \in Slots, NEW v \in Thresholds, Announcing(u, v)'
        PROVE  Announcing(u, v) \/ (u = s /\ v = t)
    <3>1. CASE u # s
      BY <2>1, <2>4, <3>1 DEF Announcing
    <3>2. CASE u = s
      <4>1. v \in Lowest(req[s].todo)
        BY <2>1, <2>4, <3>2 DEF Announcing
      <4>2. v = t
        BY <1>0, <1>1, <4>1, LowestIsOne
      <4> QED
        BY <3>2, <4>2
    <3> QED
      BY <3>1, <3>2
  <2>5. ASSUME NEW v \in Thresholds PROVE AlertOf(v)'
    <3>1. AlertOf(v)
      BY DEF Alert
    <3>2. CASE v # t
      BY <1>0, <1>3, <2>4, <3>1, <3>2 DEF AlertOf
    <3>3. CASE v = t
      <4>1. notices[v] = 0 /\ \A u \in Slots : ~Announcing(u, v)
        BY <1>3, <3>1, <3>3 DEF AlertOf
      <4> QED
        BY <1>0, <1>3, <2>4, <3>3, <4>1 DEF AlertOf
    <3> QED
      BY <3>2, <3>3
  <2> QED
    BY <2>3, <2>5 DEF Alert
<1> QED
  BY <1>1, <1>2, <1>3

(* The announcement is made once.                                          *)
LEMMA NotifyKeeps ==
    ASSUME NEW s \in Slots, Typed, Admission, Alert, Notify(s)
    PROVE  Admission' /\ Alert'
<1>0. /\ req \in [Slots -> Request] /\ req[s].pc = "notify"
      /\ req[s].todo \in SUBSET Thresholds /\ notices \in [Thresholds -> Nat]
      /\ UNCHANGED <<record, alerts, admitted>>
  BY DEF Typed, TypeOK, Notify, Request, history
<1>1. PICK t \in Lowest(req[s].todo) :
          /\ notices' = [notices EXCEPT ![t] = notices[t] + 1]
          /\ req' = [req EXCEPT ![s].pc = "find", ![s].todo = req[s].todo \ {t}]
  BY <1>0 DEF Notify
<1>2. t \in Thresholds
  BY <1>0 DEF Lowest
<1>3. /\ \A u \in Slots \ {s} : req'[u] = req[u]
      /\ req'[s].pc = "find" /\ req'[s].guest = req[s].guest
  BY <1>0, <1>1 DEF Request
<1>4. CalmRequests
  BY <1>0, <1>3, CalmSlot DEF After
<1>5. Announcing(s, t) /\ \A v \in Thresholds : ~Announcing(s, v)'
  BY <1>0, <1>3 DEF Announcing
<1>6. notices[t] = 0 /\ t \in alerts /\ \A u \in Slots : Announcing(u, t) => u = s
  BY <1>2, <1>5 DEF Alert, AlertOf
<1>7. notices'[t] = 1 /\ \A v \in Thresholds \ {t} : notices'[v] = notices[v]
  <2>1. notices'[t] = notices[t] + 1 /\ \A v \in Thresholds \ {t} : notices'[v] = notices[v]
    BY <1>0, <1>1, <1>2
  <2>2. notices[t] + 1 = 1
    BY <1>6
  <2> QED
    BY <2>1, <2>2
<1>8. ASSUME NEW v \in Thresholds PROVE AlertOf(v)'
  <2>1. CASE v # t
    BY <1>0, <1>4, <1>7, <2>1 DEF Alert, AlertOf, CalmRequests
  <2>2. CASE v = t
    <3>1. \A u \in Slots : ~Announcing(u, t)'
      BY <1>2, <1>4, <1>5, <1>6 DEF CalmRequests
    <3> QED
      BY <1>0, <1>6, <1>7, <2>2, <3>1 DEF AlertOf
  <2> QED
    BY <2>1, <2>2
<1> QED
  BY <1>0, <1>4, <1>8, CalmKeepsAdmission DEF Alert

Door == Typed /\ Admission /\ Alert

LEMMA DoorInit == Init => Door
<1> SUFFICES ASSUME Init PROVE Admission /\ Alert
  BY TypedInit DEF Door
<1>1. \A s \in Slots, g \in Guests : ~Admitting(s, g)
  BY DEF Init, Admitting, After, Idle
<1>2. \A s \in Slots, t \in Thresholds : ~Announcing(s, t)
  BY DEF Init, Announcing, Idle
<1> QED
  BY <1>1, <1>2 DEF Init, Admission, AdmissionOf, Alert, AlertOf

LEMMA DoorStep == Door /\ [Next]_vars => Door'
<1> SUFFICES ASSUME Typed, Admission, Alert, [Next]_vars PROVE Admission' /\ Alert'
  BY TypedStep DEF Door
<1>1. ASSUME Calm PROVE Admission' /\ Alert'
  BY <1>1, CalmKeepsAdmission, CalmKeepsAlert DEF Calm
<1>2. ASSUME NEW s \in Slots, Start(s) \/ Step(s) \/ Fault(s) PROVE Admission' /\ Alert'
  <2>1. CASE Start(s)
    BY <1>1, <2>1, CalmStart
  <2>2. CASE Fault(s)
    BY <1>1, <2>2, CalmSteps
  <2>3. CASE CreateRecord(s)
    BY <2>3, CreateRecordKeeps
  <2>4. CASE Answer(s)
    BY <2>4, AnswerKeeps
  <2>5. CASE CreateAlert(s)
    BY <2>5, CreateAlertKeeps
  <2>6. CASE Notify(s)
    BY <2>6, NotifyKeeps
  <2>7. CASE Replay(s) \/ ReadRow(s) \/ ReadTicket(s) \/ Look(s) \/ Mark(s) \/ Count(s)
             \/ FindAlert(s) \/ NextGuest(s) \/ NewManifest(s)
    BY <1>1, <2>7, CalmSteps
  <2> QED
    BY <1>2, <2>1, <2>2, <2>3, <2>4, <2>5, <2>6, <2>7 DEF Step
<1>3. ASSUME NEW d \in Devices,
             \/ Connect(d) \/ Page(d)
             \/ \E g \in Guests : ScanOffline(d, g)
             \/ \E s \in Slots : PostQueue(s, d)
      PROVE Admission' /\ Alert'
  BY <1>1, <1>3, CalmDevices
<1>4. ASSUME NEW g \in Guests, Others(g) PROVE Admission' /\ Alert'
  BY <1>1, <1>4, CalmOthers
<1>5. CASE UNCHANGED vars
  BY <1>1, <1>5, CalmUnchanged DEF vars, server, history, Calm
<1> QED
  BY <1>2, <1>3, <1>4, <1>5 DEF Next

(* However many scans, batches, walk-ins and syncs overlap and fail, the   *)
(* server answers checked_in at most once for a guest: only the request    *)
(* that created the guest's record is still to answer so.                  *)
THEOREM AdmittedOnceAlways == Spec => []AdmittedOnce
<1>1. Door => AdmittedOnce
  BY DEF Door, Admission, AdmissionOf, AdmittedOnce
<1> QED
  BY <1>1, DoorInit, DoorStep, PTL DEF Spec

(* Organizers are told of a capacity threshold at most once, although the  *)
(* count that crosses it is read by several requests.                      *)
THEOREM AlertedOnceAlways == Spec => []AlertedOnce
<1>1. Door => AlertedOnce
  BY DEF Door, Alert, AlertOf, AlertedOnce
<1> QED
  BY <1>1, DoorInit, DoorStep, PTL DEF Spec

-----------------------------------------------------------------------------
(* Offline scans.  A queued scan waits for the request that sends it, or   *)
(* the server has answered it; and whom the server has answered for, no    *)
(* guest list shows as eligible any more.                                  *)

Queued(d, g) == \E i \in DOMAIN device[d].queue : device[d].queue[i] = g

(* The request still has the guest to answer for.                          *)
Awaits(s, g) ==
    \/ req[s].pc # "next" /\ req[s].guest = g
    \/ \E i \in DOMAIN req[s].left : req[s].left[i] = g

(* At most one request sends a device's queue, and the device waits for it.*)
Sending == \A s \in Slots, d \in Devices : req[s].device = d =>
    /\ req[s].pc # "idle"
    /\ device[d].waiting
    /\ \A t \in Slots : req[t].device = d => t = s
    /\ \A g \in Guests : Queued(d, g) => overlapped \/ Awaits(s, g) \/ <<d, g>> \in handled

(* Registered once, and never again on a list as eligible.                 *)
Settled(g) == row[g] # "none" /\ Show(g) # "eligible"

(* What a request has found out about its guest still holds.               *)
Informed(s) ==
    /\ req[s].pc = "ticket" /\ ~Eligible(req[s].copy) => Settled(req[s].guest)
    /\ req[s].pc \in After => record[req[s].guest] # "none"

Listed == \A d \in Devices, g \in Guests :
    /\ device[d].list[g] = "eligible" \/ Queued(d, g) \/ <<d, g>> \in door => row[g] # "none"
    /\ <<d, g>> \in handled => Settled(g)
    /\ <<d, g>> \in door => device[d].list[g] # "eligible" \/ reloaded \/ overlapped
Told == \A s \in Slots : req[s].device # NoDevice =>
    /\ \A g \in Guests : Awaits(s, g) => row[g] # "none"
    /\ Informed(s)

(* A list that is not stored yet shows nobody as eligible whom the device  *)
(* let in before, unless it is marked stale.                               *)
Fetched == \A d \in Devices : device[d].fetched # Empty =>
    device[d].fetch # "none" /\ \A g \in Guests :
        /\ device[d].fetched[g] = "eligible" => row[g] # "none"
        /\ <<d, g>> \in door =>
              device[d].fetched[g] # "eligible" \/ device[d].fetch = "stale" \/ overlapped

Scanned == Typed /\ Sending /\ ScansAreKept /\ Listed /\ Told /\ Fetched

-----------------------------------------------------------------------------
(* What the server knows of a guest stays known.                           *)
Remembered == \A g \in Guests :
    /\ row[g] # "none" => row'[g] # "none"
    /\ record[g] # "none" => record'[g] # "none"
    /\ Settled(g) => Settled(g)'

LEMMA SameRemembered == ASSUME UNCHANGED <<row, ticket, revoked, record>> PROVE Remembered
BY DEF Remembered, Settled, Show

LEMMA ServerRemembers == Typed /\ [Next]_vars => Remembered
<1> SUFFICES ASSUME Typed, [Next]_vars PROVE Remembered
  OBVIOUS
<1>0. /\ row \in [Guests -> RowStatuses] /\ ticket \in [Guests -> TicketStatuses]
      /\ record \in [Guests -> Operations \cup {"none"}] /\ req \in [Slots -> Request]
      /\ "none" \notin Operations
  BY GuestsAssumption DEF Typed, TypeOK, Operations, Repeatable
<1>1. ASSUME NEW s \in Slots, Start(s) PROVE Remembered
  <2>1. CASE \E g \in Guests, byToken \in BOOLEAN : Scan(s, g, byToken)
    BY <2>1, SameRemembered DEF Scan, server
  <2>2. CASE BulkCheckIn(s)
    BY <2>2, SameRemembered DEF BulkCheckIn, server
  <2>3. ASSUME NEW g \in Guests, WalkIn(s, g) PROVE Remembered
    BY <1>0, <2>3 DEF WalkIn, Remembered, Settled, Show
  <2> QED
    BY <1>1, <2>1, <2>2, <2>3 DEF Start
<1>2. ASSUME NEW s \in Slots, CreateRecord(s) PROVE Remembered
  <2>1. /\ UNCHANGED <<row, ticket, revoked>>
        /\ \A g \in Guests : record[g] # "none" => record'[g] # "none"
    BY <1>0, <1>2 DEF CreateRecord, Request
  <2> QED
    BY <2>1 DEF Remembered, Settled, Show
<1>3. ASSUME NEW s \in Slots, Mark(s) PROVE Remembered
  BY <1>0, <1>3 DEF Mark, Remembered, Settled, Show
<1>4. ASSUME NEW s \in Slots, Step(s), ~CreateRecord(s), ~Mark(s) PROVE Remembered
  <2>1. UNCHANGED <<row, ticket, revoked, record>>
    BY <1>4 DEF Step, Replay, ReadRow, ReadTicket, Look, Count, FindAlert, CreateAlert, Notify,
                Answer, NextGuest, NewManifest, server
  <2> QED
    BY <2>1, SameRemembered
<1>5. ASSUME NEW s \in Slots, Fault(s) \/ \E d \in Devices : PostQueue(s, d) PROVE Remembered
  BY <1>5, SameRemembered DEF Fault, PostQueue, server
<1>6. ASSUME NEW d \in Devices,
             Connect(d) \/ Page(d) \/ \E g \in Guests : ScanOffline(d, g)
      PROVE  Remembered
  BY <1>6, SameRemembered
  DEF Connect, Page, GoOffline, GoOnline, PostFails, PressSync, ClosePage, OpenPage,
      FetchManifest, StoreManifest, ScanOffline, server
<1>7. ASSUME NEW g \in Guests, RevokePass(g) PROVE Remembered
  BY <1>7 DEF RevokePass, Remembered, Settled, Show
<1>8. ASSUME NEW g \in Guests, RefundTicket(g) PROVE Remembered
  BY <1>0, <1>8 DEF RefundTicket, Remembered, Settled, Show
<1>9. ASSUME NEW g \in Guests, Release(g) \/ ExpireOffer(g) PROVE Remembered
  BY <1>0, <1>9 DEF Release, ExpireOffer, Remembered, Settled, Show
<1>10. CASE UNCHANGED vars
  BY <1>10, SameRemembered DEF vars, server
<1> QED
  BY <1>1, <1>2, <1>3, <1>4, <1>5, <1>6, <1>7, <1>8, <1>9, <1>10 DEF Next, Others

-----------------------------------------------------------------------------
(* A request at work: it answers for guests it awaited.                    *)
Works(s) ==
    /\ \A t \in Slots \ {s} : req'[t] = req[t]
    /\ req'[s].device = req[s].device
    /\ handled \subseteq handled'
    /\ \A d \in Devices, g \in Guests : <<d, g>> \in handled' => <<d, g>> \in handled \/ Settled(g)'
    /\ req[s].device # NoDevice =>
          /\ req'[s].pc # "idle"
          /\ \A g \in Guests : Awaits(s, g)' => Awaits(s, g)
          /\ \A g \in Guests : Awaits(s, g) => Awaits(s, g)' \/ <<req[s].device, g>> \in handled'
          /\ Informed(s)'

(* Requests of nobody's queue do nothing to it.                            *)
LEMMA OnlineWorks ==
    ASSUME NEW s \in Slots, handled' = handled, req[s].device = NoDevice, req'[s].device = NoDevice,
           \A t \in Slots \ {s} : req'[t] = req[t]
    PROVE  Works(s)
BY DEF Works

LEMMA GotoWorks ==
    ASSUME Scanned, NEW s \in Slots, NEW pc \in PCs \ {"idle", "next", "ticket"}, Goto(s, pc),
           req[s].pc \notin {"idle", "next"}, handled' = handled,
           pc \in After => record'[req[s].guest] # "none"
    PROVE  Works(s)
<1>1. req \in [Slots -> Request]
  BY DEF Scanned, Typed, TypeOK
<1>2. /\ \A t \in Slots \ {s} : req'[t] = req[t]
      /\ req'[s].device = req[s].device /\ req'[s].guest = req[s].guest
      /\ req'[s].left = req[s].left /\ req'[s].pc = pc
  BY <1>1 DEF Goto, Request
<1>3. \A g \in Guests : Awaits(s, g)' <=> Awaits(s, g)
  BY <1>2 DEF Awaits
<1>4. Informed(s)'
  BY <1>2 DEF Informed
<1> QED
  BY <1>2, <1>3, <1>4 DEF Works

LEMMA AnsweredWorks ==
    ASSUME Scanned, NEW s \in Slots, NEW status, Answered(s, status),
           req[s].pc \notin {"idle", "next"},
           req[s].device # NoDevice => Settled(req[s].guest)'
    PROVE  Works(s)
<1>1. req \in [Slots -> Request] /\ req[s].guest \in Guests
  BY DEF Scanned, Typed, TypeOK, Serving
<1>2. /\ \A t \in Slots \ {s} : req'[t] = req[t]
      /\ req'[s].device = req[s].device /\ req'[s].guest = req[s].guest
      /\ req'[s].left = req[s].left /\ req'[s].pc = "next"
  BY <1>1 DEF Answered, Goto, Request
<1>3. handled' = IF req[s].device = NoDevice THEN handled
                 ELSE handled \cup {<<req[s].device, req[s].guest>>}
  BY DEF Answered
<1>4. \A g \in Guests : Awaits(s, g)' => Awaits(s, g)
  BY <1>2 DEF Awaits
<1>5. \A g \in Guests : Awaits(s, g) => Awaits(s, g)' \/ g = req[s].guest
  BY <1>2 DEF Awaits
<1>6. Informed(s)'
  BY <1>2 DEF Informed, After
<1>7. \A d \in Devices, g \in Guests : <<d, g>> \in handled' => <<d, g>> \in handled \/ Settled(g)'
  <2> TAKE d \in Devices, g \in Guests
  <2> HAVE <<d, g>> \in handled'
  <2>1. CASE req[s].device = NoDevice
    BY <1>3, <2>1
  <2>2. CASE req[s].device # NoDevice
    <3>1. <<d, g>> \in handled \/ g = req[s].guest
      BY <1>3, <2>2
    <3>2. CASE g = req[s].guest
      <4>1. Settled(req[s].guest)'
        BY <2>2
      <4>2. req'[s].guest = g
        BY <1>2, <3>2
      <4> QED
        BY <1>2, <3>2, <4>1 DEF Settled, Show
    <3> QED
      BY <3>1, <3>2
  <2> QED
    BY <2>1, <2>2
<1> QED
  BY <1>2, <1>3, <1>4, <1>5, <1>6, <1>7 DEF Works

(* Of a sequence that is not empty each member is its head or in its tail. *)
LEMMA HeadOrTail ==
    ASSUME NEW q \in Seq(Guests), q # <<>>, NEW g
    PROVE  (\E i \in DOMAIN q : q[i] = g)
               <=> (Head(q) = g \/ \E i \in DOMAIN Tail(q) : Tail(q)[i] = g)
<1>1. /\ Len(q) \in Nat /\ Len(q) >= 1 /\ DOMAIN q = 1 .. Len(q) /\ Head(q) = q[1]
      /\ DOMAIN Tail(q) = 1 .. (Len(q) - 1)
      /\ \A i \in 1 .. (Len(q) - 1) : Tail(q)[i] = q[i + 1]
  OBVIOUS
<1>2. ASSUME NEW i \in DOMAIN q, q[i] = g, i # 1 PROVE i - 1 \in DOMAIN Tail(q) /\ Tail(q)[i - 1] = g
  BY <1>1, <1>2
<1>3. ASSUME NEW i \in DOMAIN Tail(q), Tail(q)[i] = g PROVE i + 1 \in DOMAIN q /\ q[i + 1] = g
  BY <1>1, <1>3
<1>4. 1 \in DOMAIN q
  BY <1>1
<1> QED
  BY <1>1, <1>2, <1>3, <1>4

(* Every step of a request but the last works.                             *)
LEMMA StepWorks ==
    ASSUME Scanned, Remembered, NEW s \in Slots,
           \/ Replay(s) \/ ReadRow(s) \/ ReadTicket(s) \/ Look(s) \/ CreateRecord(s)
           \/ Mark(s) \/ Count(s) \/ FindAlert(s) \/ Notify(s) \/ Answer(s) \/ NextGuest(s)
    PROVE  Works(s)
<1>0. /\ req \in [Slots -> Request] /\ req[s] \in Request
      /\ req[s].pc \notin {"idle", "next"} => req[s].guest \in Guests
      /\ "none" \notin Operations
      /\ record \in [Guests -> Operations \cup {"none"}]
  BY GuestsAssumption DEF Scanned, Typed, TypeOK, Serving, Operations, Repeatable
<1>a. ASSUME req[s].device # NoDevice, req[s].pc # "next" PROVE row[req[s].guest] # "none"
  <2>1. req[s].pc # "idle"
    BY <1>0, <1>a DEF Scanned, Sending, Request
  <2>2. req[s].guest \in Guests /\ Awaits(s, req[s].guest)
    BY <1>0, <1>a, <2>1 DEF Awaits
  <2> QED
    BY <1>a, <2>2 DEF Scanned, Told
<1>b. req[s].device # NoDevice => Informed(s)
  BY DEF Scanned, Told
<1>c. ASSUME req[s].pc \notin {"idle", "next"}, UNCHANGED server,
             req'[s].guest = req[s].guest, Settled(req[s].guest)
      PROVE  Settled(req[s].guest)'
  BY <1>c DEF Settled, Show, server
<1>d. ASSUME NEW status, Answered(s, status) PROVE req'[s].guest = req[s].guest
  BY <1>0, <1>d DEF Answered, Goto, Request
<1>1. CASE Replay(s)
  <2>1. CASE Known(req[s].op, req[s].guest)
    <3> PICK g \in Guests : g = req[s].guest
      BY <1>0, <1>1 DEF Replay
    <3>1. record[g] # "none"
      BY <1>0, <2>1 DEF Known, Operations
    <3>2. /\ \A t \in Slots \ {s} : req'[t] = req[t]
          /\ req'[s].device = req[s].device /\ req'[s].guest = g
          /\ req'[s].left = req[s].left /\ req'[s].pc = "next" /\ req[s].pc = "replay"
      BY <1>0, <1>1, <2>1 DEF Replay, Goto, Request
    <3>3. handled' = IF req[s].device = NoDevice THEN handled
                     ELSE handled \cup {<<req[s].device, g>>}
      BY <1>1, <2>1 DEF Replay
    <3>4. req[s].device # NoDevice => Settled(g)'
      <4>1. req[s].device # NoDevice => Settled(g)
        BY <1>a, <3>1, <3>2 DEF Settled, Show
      <4> QED
        BY <4>1 DEF Remembered
    <3>5. \A h \in Guests : Awaits(s, h) => Awaits(s, h)' \/ h = g
      BY <3>2 DEF Awaits
    <3>6. (\A h \in Guests : Awaits(s, h)' => Awaits(s, h)) /\ Informed(s)'
      BY <3>2 DEF Awaits, Informed, After
    <3>7. \A d \in Devices, h \in Guests :
             <<d, h>> \in handled' => <<d, h>> \in handled \/ Settled(h)'
      BY <3>3, <3>4
    <3> QED
      BY <3>2, <3>3, <3>5, <3>6, <3>7 DEF Works
  <2>2. CASE ~Known(req[s].op, req[s].guest)
    BY <1>1, <2>2, GotoWorks DEF Replay, PCs, After
  <2> QED
    BY <2>1, <2>2
<1>2. CASE ReadRow(s)
  <2>1. CASE req[s].token /\ req[s].guest \in revoked
    <3>1. req[s].device # NoDevice => Settled(req[s].guest)
      BY <1>2, <1>a, <2>1 DEF ReadRow, Settled, Show
    <3>2. Answered(s, "revoked") /\ req[s].pc = "row" /\ UNCHANGED server
      BY <1>2, <2>1 DEF ReadRow
    <3> QED
      BY <1>c, <1>d, <3>1, <3>2, AnsweredWorks
  <2>2. CASE ~(req[s].token /\ req[s].guest \in revoked)
    <3> PICK g \in Guests : g = req[s].guest
      BY <1>0, <1>2 DEF ReadRow
    <3>1. /\ req' = [req EXCEPT ![s].pc = "ticket", ![s].copy = row[g]]
          /\ UNCHANGED history /\ req[s].pc = "row" /\ UNCHANGED server
      BY <1>2, <2>2 DEF ReadRow
    <3>2. /\ \A t \in Slots \ {s} : req'[t] = req[t]
          /\ req'[s].device = req[s].device /\ req'[s].guest = g
          /\ req'[s].left = req[s].left /\ req'[s].pc = "ticket" /\ req'[s].copy = row[g]
      BY <1>0, <3>1 DEF Request
    <3>3. req[s].device # NoDevice => Informed(s)'
      <4>1. req[s].device # NoDevice /\ ~Eligible(row[g]) => Settled(g)
        BY <1>a, <3>1 DEF Settled, Show, Eligible
      <4>2. Settled(g) => Settled(g)'
        BY DEF Remembered
      <4> QED
        BY <3>2, <4>1, <4>2 DEF Informed, After
    <3>4. \A h \in Guests : Awaits(s, h)' <=> Awaits(s, h)
      BY <3>1, <3>2 DEF Awaits
    <3> QED
      BY <3>1, <3>2, <3>3, <3>4 DEF Works, history
  <2> QED
    BY <2>1, <2>2
<1>3. CASE ReadTicket(s)
  <2>0. req[s].pc = "ticket" /\ UNCHANGED server
    BY <1>3 DEF ReadTicket
  <2>1. PICK answer : /\ answer = Classify(req[s].copy, ticket[req[s].guest])
                      /\ IF answer = "ok" THEN Goto(s, "look") /\ UNCHANGED history
                         ELSE Answered(s, answer)
    BY <1>3 DEF ReadTicket
  <2>2. CASE answer = "ok"
    BY <2>0, <2>1, <2>2, GotoWorks DEF PCs, After, history
  <2>3. CASE answer # "ok"
    <3>1. ~Eligible(req[s].copy) \/ ticket[req[s].guest] = "refunded"
      BY <2>1, <2>3 DEF Classify, Eligible
    <3>2. req[s].device # NoDevice => Settled(req[s].guest)
      BY <1>a, <1>b, <2>0, <3>1 DEF Informed, Settled, Show
    <3> QED
      BY <1>c, <1>d, <2>0, <2>1, <2>3, <3>2, AnsweredWorks
  <2> QED
    BY <2>2, <2>3
<1>4. CASE Look(s)
  <2>0. req[s].pc = "look" /\ UNCHANGED server
    BY <1>4 DEF Look
  <2>1. CASE record[req[s].guest] # "none"
    <3>1. req[s].device # NoDevice => Settled(req[s].guest)
      BY <1>a, <2>0, <2>1 DEF Settled, Show
    <3>2. Answered(s, "already_checked_in")
      BY <1>4, <2>1 DEF Look
    <3> QED
      BY <1>c, <1>d, <2>0, <3>1, <3>2, AnsweredWorks
  <2>2. CASE record[req[s].guest] = "none"
    BY <1>4, <2>2, GotoWorks DEF Look, PCs, After, history
  <2> QED
    BY <2>1, <2>2
<1>5. CASE CreateRecord(s)
  <2>0. req[s].pc = "create" /\ UNCHANGED <<row, ticket, revoked, alerts, notices>>
    BY <1>5 DEF CreateRecord
  <2>1. CASE record[req[s].guest] # "none"
    <3>1. req[s].device # NoDevice => Settled(req[s].guest)
      BY <1>a, <2>0, <2>1 DEF Settled, Show
    <3>2. Answered(s, "already_checked_in") /\ UNCHANGED record
      BY <1>5, <2>1 DEF CreateRecord
    <3> QED
      BY <1>c, <1>d, <2>0, <3>1, <3>2, AnsweredWorks DEF server
  <2>2. CASE record[req[s].guest] = "none"
    <3>1. /\ record' = [record EXCEPT ![req[s].guest] = req[s].op]
          /\ Goto(s, IF req[s].copy = "checked_in" THEN "count" ELSE "mark")
          /\ UNCHANGED history
      BY <1>5, <2>2 DEF CreateRecord
    <3>2. record'[req[s].guest] # "none"
      BY <1>0, <2>0, <3>1 DEF Request
    <3> QED
      BY <2>0, <3>1, <3>2, GotoWorks DEF PCs, history
  <2> QED
    BY <2>1, <2>2
<1>6. CASE Mark(s) \/ Count(s) \/ FindAlert(s) \/ Notify(s)
  <2>1. req[s].pc \in After \ {"answer"} /\ handled' = handled /\ UNCHANGED record
    BY <1>6 DEF Mark, Count, FindAlert, Notify, After, history, server
  <2>2. \A t \in Slots \ {s} : req'[t] = req[t]
    BY <1>0, <1>6 DEF Mark, Count, FindAlert, Notify, Goto
  <2>3. /\ req'[s].device = req[s].device /\ req'[s].guest = req[s].guest
        /\ req'[s].left = req[s].left /\ req'[s].pc \in After
    <3>1. CASE Mark(s) \/ Count(s)
      BY <1>0, <3>1 DEF Mark, Count, Goto, Request, After
    <3>2. CASE FindAlert(s)
      BY <1>0, <3>2 DEF FindAlert, Goto, Request, After
    <3>3. CASE Notify(s)
      <4> PICK t : req' = [req EXCEPT ![s].pc = "find", ![s].todo = @ \ {t}]
        BY <3>3 DEF Notify
      <4> QED
        BY <1>0 DEF Request, After
    <3> QED
      BY <1>6, <3>1, <3>2, <3>3
  <2>4. \A g \in Guests : Awaits(s, g)' <=> Awaits(s, g)
    BY <2>1, <2>3 DEF Awaits, After
  <2>5. req[s].device # NoDevice => Informed(s)'
    BY <1>b, <2>1, <2>3 DEF Informed, After
  <2> QED
    BY <2>1, <2>2, <2>3, <2>4, <2>5 DEF Works, After
<1>7. CASE Answer(s)
  <2>0. req[s].pc = "answer" /\ UNCHANGED server /\ Answered(s, "checked_in")
    BY <1>7 DEF Answer
  <2>1. req[s].device # NoDevice => Settled(req[s].guest)
    BY <1>a, <1>b, <2>0 DEF Informed, After, Settled, Show
  <2> QED
    BY <1>c, <1>d, <2>0, <2>1, AnsweredWorks
<1>8. CASE NextGuest(s)
  <2>0. req[s].pc = "next" /\ handled' = handled
    BY <1>8 DEF NextGuest, history
  <2>1. CASE req[s].left = <<>>
    <3>1. req[s].device = NoDevice /\ req' = [req EXCEPT ![s] = Idle]
      BY <1>8, <2>1 DEF NextGuest
    <3>2. req'[s].device = NoDevice /\ \A t \in Slots \ {s} : req'[t] = req[t]
      BY <1>0, <3>1 DEF Idle
    <3> QED
      BY <2>0, <3>1, <3>2, OnlineWorks
  <2>2. CASE req[s].left # <<>>
    <3>1. PICK byToken \in BOOLEAN :
             req' = [req EXCEPT ![s] =
                      [req[s] EXCEPT !.pc = "replay", !.guest = Head(req[s].left),
                                     !.token = byToken, !.left = Tail(req[s].left)]]
      BY <1>8, <2>2 DEF NextGuest
    <3>2. /\ \A t \in Slots \ {s} : req'[t] = req[t]
          /\ req'[s].device = req[s].device /\ req'[s].guest = Head(req[s].left)
          /\ req'[s].left = Tail(req[s].left) /\ req'[s].pc = "replay"
      BY <1>0, <3>1 DEF Request
    <3>3. req[s].left \in Seq(Guests)
      BY <1>0 DEF Request
    <3>4. ASSUME NEW g \in Guests PROVE Awaits(s, g)' <=> Awaits(s, g)
      <4>1. (\E i \in DOMAIN req[s].left : req[s].left[i] = g)
               <=> (Head(req[s].left) = g
                    \/ \E i \in DOMAIN Tail(req[s].left) : Tail(req[s].left)[i] = g)
        BY <2>2, <3>3, HeadOrTail
      <4> QED
        BY <2>0, <3>2, <4>1 DEF Awaits
    <3>5. Informed(s)'
      BY <3>2 DEF Informed, After
    <3> QED
      BY <2>0, <3>2, <3>4, <3>5 DEF Works
  <2> QED
    BY <2>1, <2>2
<1> QED
  BY <1>1, <1>2, <1>3, <1>4, <1>5, <1>6, <1>7, <1>8

-----------------------------------------------------------------------------
(* What each kind of step does to the scans.                               *)
ScanInv == Sending /\ ScansAreKept /\ Listed /\ Told

LEMMA WorksKeeps ==
    ASSUME Scanned, Typed', Remembered, NEW s \in Slots, Works(s),
           UNCHANGED <<device, door, reloaded>>, overlapped => overlapped'
    PROVE  ScanInv'
<1>1. \A d \in Devices, g \in Guests : Queued(d, g)' <=> Queued(d, g)
  BY DEF Queued
<1>2. \A t \in Slots \ {s} : req'[t] = req[t] /\ \A g : Awaits(t, g)' <=> Awaits(t, g)
  BY DEF Works, Awaits
<1>3. Sending'
  <2> SUFFICES ASSUME NEW t \in Slots, NEW d \in Devices, req'[t].device = d
               PROVE  /\ req'[t].pc # "idle" /\ device'[d].waiting
                      /\ \A u \in Slots : req'[u].device = d => u = t
                      /\ \A g \in Guests : Queued(d, g)' =>
                            overlapped' \/ Awaits(t, g)' \/ <<d, g>> \in handled'
    BY DEF Sending
  <2>1. \A u \in Slots : req'[u].device = req[u].device
    BY DEF Works
  <2>2. /\ req[t].pc # "idle" /\ device[d].waiting
        /\ \A u \in Slots : req[u].device = d => u = t
        /\ \A g \in Guests : Queued(d, g) => overlapped \/ Awaits(t, g) \/ <<d, g>> \in handled
    BY <2>1 DEF Scanned, Sending
  <2>3. d # NoDevice
    BY GuestsAssumption
  <2>4. CASE t = s
    <3>1. /\ req'[t].pc # "idle"
          /\ \A g \in Guests : Awaits(t, g) => Awaits(t, g)' \/ <<d, g>> \in handled'
          /\ handled \subseteq handled'
      BY <2>1, <2>3, <2>4 DEF Works
    <3> QED
      BY <1>1, <2>1, <2>2, <3>1
  <2>5. CASE t # s
    <3>1. req'[t] = req[t] /\ \A g \in Guests : Awaits(t, g)' <=> Awaits(t, g)
      BY <1>2, <2>5
    <3>2. handled \subseteq handled'
      BY DEF Works
    <3> QED
      BY <1>1, <2>1, <2>2, <3>1, <3>2
  <2> QED
    BY <2>4, <2>5
<1>4. ScansAreKept'
  BY DEF Scanned, ScansAreKept, Works
<1>5. Listed'
  BY <1>1 DEF Scanned, Listed, Works, Remembered
<1>6. Told'
  <2> SUFFICES ASSUME NEW t \in Slots, req'[t].device # NoDevice
               PROVE  (\A g \in Guests : Awaits(t, g)' => row'[g] # "none") /\ Informed(t)'
    BY DEF Told
  <2>1. req[t].device # NoDevice
    BY DEF Works
  <2>2. (\A g \in Guests : Awaits(t, g) => row[g] # "none") /\ Informed(t)
    BY <2>1 DEF Scanned, Told
  <2>3. CASE t = s
    BY <2>1, <2>2, <2>3 DEF Works, Remembered
  <2>4. CASE t # s
    <3>1. req'[t] = req[t] /\ \A g \in Guests : Awaits(t, g)' <=> Awaits(t, g)
      BY <1>2, <2>4
    <3>2. req[t].pc \in {"ticket"} \cup After => req[t].guest \in Guests
      BY DEF Scanned, Typed, Serving, After
    <3>3. Informed(t)'
      BY <2>2, <3>1, <3>2 DEF Informed, Remembered
    <3> QED
      BY <2>2, <3>1, <3>3 DEF Remembered
  <2> QED
    BY <2>3, <2>4
<1> QED
  BY <1>3, <1>4, <1>5, <1>6 DEF ScanInv

(* A request that ends unanswered leaves the queue as it was.              *)
LEMMA AbortKeeps ==
    ASSUME Scanned, Typed', Remembered, NEW s \in Slots, Abort(s),
           UNCHANGED <<door, handled, reloaded, overlapped>>
    PROVE  ScanInv'
<1>1. /\ req'[s] = Idle /\ \A t \in Slots \ {s} : req'[t] = req[t]
      /\ Idle.device = NoDevice /\ NoDevice \notin Devices
  BY GuestsAssumption DEF Abort, Scanned, Typed, TypeOK, Idle
<1>2. \A d \in Devices : /\ device'[d].queue = device[d].queue /\ device'[d].list = device[d].list
                         /\ d # req[s].device => device'[d] = device[d]
  BY DEF Abort, Scanned, Typed, TypeOK, Device
<1>3. \A d \in Devices, g \in Guests : Queued(d, g)' <=> Queued(d, g)
  BY <1>2 DEF Queued
<1>4. \A t \in Slots \ {s} : \A g \in Guests : Awaits(t, g)' <=> Awaits(t, g)
  BY <1>1 DEF Awaits
<1>5. Sending'
  <2> SUFFICES ASSUME NEW t \in Slots, NEW d \in Devices, req'[t].device = d
               PROVE  /\ req'[t].pc # "idle" /\ device'[d].waiting
                      /\ \A u \in Slots : req'[u].device = d => u = t
                      /\ \A g \in Guests : Queued(d, g)' =>
                            overlapped' \/ Awaits(t, g)' \/ <<d, g>> \in handled'
    BY DEF Sending
  <2>1. t # s /\ req'[t] = req[t] /\ req[t].device = d
    BY <1>1
  <2>2. /\ req[t].pc # "idle" /\ device[d].waiting
        /\ \A u \in Slots : req[u].device = d => u = t
        /\ \A g \in Guests : Queued(d, g) => overlapped \/ Awaits(t, g) \/ <<d, g>> \in handled
    BY <2>1 DEF Scanned, Sending
  <2>3. d # req[s].device
    BY <2>1, <2>2
  <2>4. \A u \in Slots : req'[u].device = d => u = t
    BY <1>1, <2>2
  <2> QED
    BY <1>2, <1>3, <1>4, <2>1, <2>2, <2>3, <2>4
<1>6. ScansAreKept'
  BY <1>2 DEF Scanned, ScansAreKept
<1>7. Listed'
  BY <1>2, <1>3 DEF Scanned, Listed, Remembered
<1>8. Told'
  <2> SUFFICES ASSUME NEW t \in Slots, req'[t].device # NoDevice
               PROVE  (\A g \in Guests : Awaits(t, g)' => row'[g] # "none") /\ Informed(t)'
    BY DEF Told
  <2>1. t # s /\ req'[t] = req[t] /\ req[t].device # NoDevice
    BY <1>1
  <2>2. (\A g \in Guests : Awaits(t, g) => row[g] # "none") /\ Informed(t)
    BY <2>1 DEF Scanned, Told
  <2>3. req[t].pc \in {"ticket"} \cup After => req[t].guest \in Guests
    BY DEF Scanned, Typed, Serving, After
  <2>4. Informed(t)'
    BY <2>1, <2>2, <2>3 DEF Informed, Remembered
  <2> QED
    BY <1>4, <2>1, <2>2, <2>4 DEF Remembered
<1> QED
  BY <1>5, <1>6, <1>7, <1>8 DEF ScanInv

(* Requests as they were, and a device that keeps its queue, its list and  *)
(* whether it waits, or has them changed as told.                          *)
LEMMA RequestsKept ==
    ASSUME Scanned, Remembered, UNCHANGED <<req, handled>>
    PROVE  Told' /\ \A t \in Slots, g \in Guests : Awaits(t, g)' <=> Awaits(t, g)
<1>1. \A t \in Slots, g \in Guests : Awaits(t, g)' <=> Awaits(t, g)
  BY DEF Awaits
<1>2. Told'
  <2> SUFFICES ASSUME NEW t \in Slots, req'[t].device # NoDevice
               PROVE  (\A g \in Guests : Awaits(t, g)' => row'[g] # "none") /\ Informed(t)'
    BY DEF Told
  <2>2. (\A g \in Guests : Awaits(t, g) => row[g] # "none") /\ Informed(t)
    BY DEF Scanned, Told
  <2>3. req[t].pc \in {"ticket"} \cup After => req[t].guest \in Guests
    BY DEF Scanned, Typed, Serving, After
  <2>4. Informed(t)'
    BY <2>2, <2>3 DEF Informed, Remembered
  <2> QED
    BY <1>1, <2>2, <2>4 DEF Remembered
<1> QED
  BY <1>1, <1>2

LEMMA QueuesKept ==
    ASSUME Scanned, Remembered, UNCHANGED <<req, handled, door, reloaded>>,
           overlapped => overlapped',
           \A d \in Devices : /\ device'[d].queue = device[d].queue
                              /\ device'[d].list = device[d].list
                              /\ device'[d].waiting = device[d].waiting
    PROVE  ScanInv'
<1>1. \A d \in Devices, g \in Guests : Queued(d, g)' <=> Queued(d, g)
  BY DEF Queued
<1>2. Told' /\ \A t \in Slots, g \in Guests : Awaits(t, g)' <=> Awaits(t, g)
  BY RequestsKept
<1>3. Sending'
  BY <1>1, <1>2 DEF Scanned, Sending
<1>4. ScansAreKept'
  BY DEF Scanned, ScansAreKept
<1>5. Listed'
  BY <1>1 DEF Scanned, Listed, Remembered
<1> QED
  BY <1>2, <1>3, <1>4, <1>5 DEF ScanInv

(* A sync that ends has left no guest of the queue unanswered.             *)
LEMMA NewManifestKeeps ==
    ASSUME Scanned, NEW s \in Slots, NewManifest(s)
    PROVE  ScanInv'
<1> PICK d \in Devices : d = req[s].device
  BY DEF NewManifest, Scanned, Typed, TypeOK, Request
<1>0. NoDevice \notin Devices /\ Idle.device = NoDevice
  BY GuestsAssumption DEF Idle
<1>1. /\ req'[s] = Idle /\ \A t \in Slots \ {s} : req'[t] = req[t]
      /\ req[s].pc = "next" /\ req[s].left = <<>>
      /\ UNCHANGED <<row, ticket, revoked, record, door, handled, reloaded, overlapped>>
  BY DEF NewManifest, Scanned, Typed, TypeOK, server, history
<1>2. /\ device'[d].queue = <<>> /\ device'[d].list = Manifest
      /\ \A e \in Devices \ {d} : device'[e] = device[e]
  BY DEF NewManifest, Scanned, Typed, TypeOK, Device
<1>3. \A g \in Guests : ~Awaits(s, g)
  BY <1>1 DEF Awaits
<1>4. \A t \in Slots \ {s} : req[t].device # d /\ \A g \in Guests : Awaits(t, g)' <=> Awaits(t, g)
  BY <1>1 DEF Scanned, Sending, Awaits
<1>5. \A e \in Devices \ {d}, g \in Guests : Queued(e, g)' <=> Queued(e, g)
  BY <1>2 DEF Queued
<1>6. \A g \in Guests : ~Queued(d, g)'
  BY <1>2 DEF Queued
<1>7. \A g \in Guests : <<d, g>> \in door /\ ~overlapped => <<d, g>> \in handled
  BY <1>3 DEF Scanned, Sending, ScansAreKept, Queued
<1>8. Sending'
  BY <1>0, <1>1, <1>2, <1>4, <1>5 DEF Scanned, Sending
<1>9. ScansAreKept'
  BY <1>1, <1>2, <1>7 DEF Scanned, ScansAreKept
<1>10. Listed'
  <2> SUFFICES ASSUME NEW e \in Devices, NEW g \in Guests
               PROVE  /\ device'[e].list[g] = "eligible" \/ Queued(e, g)' \/ <<e, g>> \in door'
                             => row'[g] # "none"
                      /\ <<e, g>> \in handled' => Settled(g)'
                      /\ <<e, g>> \in door' =>
                             device'[e].list[g] # "eligible" \/ reloaded' \/ overlapped'
    BY DEF Listed
  <2>1. /\ device[e].list[g] = "eligible" \/ Queued(e, g) \/ <<e, g>> \in door => row[g] # "none"
        /\ <<e, g>> \in handled => Settled(g)
        /\ <<e, g>> \in door => device[e].list[g] # "eligible" \/ reloaded \/ overlapped
    BY DEF Scanned, Listed
  <2>2. Settled(g)' <=> Settled(g)
    BY <1>1 DEF Settled, Show
  <2>3. CASE e # d
    BY <1>1, <1>2, <1>5, <2>1, <2>2, <2>3
  <2>4. CASE e = d
    <3>1. device'[e].list[g] = "eligible" => row[g] # "none" /\ ~Settled(g)
      BY <1>2, <2>4 DEF Manifest, Show, Settled
    <3> QED
      BY <1>1, <1>6, <1>7, <2>1, <2>2, <2>4, <3>1
  <2> QED
    BY <2>3, <2>4
<1>11. Told'
  <2> SUFFICES ASSUME NEW t \in Slots, req'[t].device # NoDevice
               PROVE  (\A g \in Guests : Awaits(t, g)' => row'[g] # "none") /\ Informed(t)'
    BY DEF Told
  <2>1. t # s /\ req'[t] = req[t]
    BY <1>0, <1>1
  <2>2. (\A g \in Guests : Awaits(t, g) => row[g] # "none") /\ Informed(t)
    BY <2>1 DEF Scanned, Told
  <2>3. Informed(t)'
    BY <1>1, <2>1, <2>2 DEF Informed, Settled, Show
  <2> QED
    BY <1>1, <1>4, <2>1, <2>2, <2>3
<1> QED
  BY <1>8, <1>9, <1>10, <1>11 DEF ScanInv

(* A device that is not waiting has no request; the one that begins awaits *)
(* the whole queue.                                                        *)
LEMMA PostQueueKeeps ==
    ASSUME Scanned, NEW s \in Slots, NEW d \in Devices, PostQueue(s, d)
    PROVE  ScanInv'
<1> DEFINE r == [Idle EXCEPT !.pc = "next", !.op = d, !.left = device[d].queue, !.device = d]
<1>0. /\ r.pc = "next" /\ r.device = d /\ r.left = device[d].queue /\ d # NoDevice
      /\ req \in [Slots -> Request]
  BY GuestsAssumption DEF Idle, Scanned, Typed, TypeOK
<1>1. req' = [req EXCEPT ![s] = r] /\ req[s].pc = "idle" /\ ~device[d].waiting
  BY DEF PostQueue, Begin
<1> HIDE DEF r
<1>2. req'[s] = r /\ \A t \in Slots \ {s} : req'[t] = req[t]
  BY <1>0, <1>1
<1>3. /\ UNCHANGED <<row, ticket, revoked, record, door, handled, reloaded>>
      /\ overlapped => overlapped'
  BY DEF PostQueue, Begin, Meet, server, history
<1>4. \A e \in Devices : /\ device'[e].queue = device[e].queue /\ device'[e].list = device[e].list
                         /\ device'[e].waiting <=> (e = d \/ device[e].waiting)
  BY DEF PostQueue, Scanned, Typed, TypeOK, Device
<1>5. \A e \in Devices, g \in Guests : Queued(e, g)' <=> Queued(e, g)
  BY <1>4 DEF Queued
<1>6. \A g \in Guests : Awaits(s, g)' <=> Queued(d, g)
  BY <1>0, <1>2 DEF Awaits, Queued
<1>7. \A t \in Slots \ {s} : req[t].device # d /\ \A g \in Guests : Awaits(t, g)' <=> Awaits(t, g)
  BY <1>1, <1>2 DEF Scanned, Sending, Awaits
<1>8. Sending'
  <2> SUFFICES ASSUME NEW t \in Slots, NEW e \in Devices, req'[t].device = e
               PROVE  /\ req'[t].pc # "idle" /\ device'[e].waiting
                      /\ \A u \in Slots : req'[u].device = e => u = t
                      /\ \A g \in Guests : Queued(e, g)' =>
                            overlapped' \/ Awaits(t, g)' \/ <<e, g>> \in handled'
    BY DEF Sending
  <2>1. CASE t = s
    BY <1>0, <1>2, <1>4, <1>5, <1>6, <1>7, <2>1
  <2>2. CASE t # s
    <3>1. req[t].device = e /\ e # d
      BY <1>2, <1>7, <2>2
    <3>2. /\ req[t].pc # "idle" /\ device[e].waiting
          /\ \A u \in Slots : req[u].device = e => u = t
          /\ \A g \in Guests : Queued(e, g) => overlapped \/ Awaits(t, g) \/ <<e, g>> \in handled
      BY <3>1 DEF Scanned, Sending
    <3>3. \A u \in Slots : req'[u].device = e => u = t
      BY <1>0, <1>2, <3>1, <3>2
    <3> QED
      BY <1>2, <1>3, <1>4, <1>5, <1>7, <2>2, <3>2, <3>3
  <2> QED
    BY <2>1, <2>2
<1>9. ScansAreKept'
  BY <1>3, <1>4 DEF Scanned, ScansAreKept
<1>10. Listed'
  <2>1. \A g \in Guests : Settled(g)' <=> Settled(g)
    BY <1>3 DEF Settled, Show
  <2> QED
    BY <1>3, <1>4, <1>5, <2>1 DEF Scanned, Listed
<1>11. Told'
  <2> SUFFICES ASSUME NEW t \in Slots, req'[t].device # NoDevice
               PROVE  (\A g \in Guests : Awaits(t, g)' => row'[g] # "none") /\ Informed(t)'
    BY DEF Told
  <2>1. CASE t = s
    <3>1. \A g \in Guests : Awaits(s, g)' => row'[g] # "none"
      BY <1>3, <1>6 DEF Scanned, Listed
    <3> QED
      BY <1>0, <1>2, <2>1, <3>1 DEF Informed, After
  <2>2. CASE t # s
    <3>1. (\A g \in Guests : Awaits(t, g) => row[g] # "none") /\ Informed(t)
      BY <1>2, <2>2 DEF Scanned, Told
    <3>2. Informed(t)'
      BY <1>2, <1>3, <2>2, <3>1 DEF Informed, Settled, Show
    <3> QED
      BY <1>3, <1>7, <2>2, <3>1, <3>2
  <2> QED
    BY <2>1, <2>2
<1> QED
  BY <1>8, <1>9, <1>10, <1>11 DEF ScanInv

(* A scan taken while the device waits overlaps; any other only grows a    *)
(* queue that nobody is sending.                                           *)
LEMMA ScanOfflineKeeps ==
    ASSUME Scanned, Remembered, NEW d \in Devices, NEW g \in Guests, ScanOffline(d, g)
    PROVE  ScanInv'
<1>1. /\ UNCHANGED <<req, row, ticket, revoked, record, handled, reloaded>>
      /\ door' = door \cup {<<d, g>>} /\ device[d].list[g] = "eligible"
      /\ overlapped' = (overlapped \/ device[d].waiting)
  BY DEF ScanOffline, Meet, server
<1>2. /\ device'[d].queue = Append(device[d].queue, g)
      /\ device'[d].list = [device[d].list EXCEPT ![g] = "checked_in"]
      /\ device'[d].waiting = device[d].waiting
      /\ \A e \in Devices \ {d} : device'[e] = device[e]
      /\ device[d].queue \in Seq(Guests) /\ device[d].list \in Lists
  <2>1. device \in [Devices -> Device] /\ device[d] \in Device
    BY DEF Scanned, Typed, TypeOK
  <2> DEFINE x == [device[d] EXCEPT !.queue = Append(device[d].queue, g),
                        !.list = [device[d].list EXCEPT ![g] = "checked_in"],
                        !.fetch = Outdated(device[d].fetch)]
  <2>2. device' = [device EXCEPT ![d] = x]
    BY <2>1 DEF ScanOffline, QueueOp
  <2>3. /\ x.queue = Append(device[d].queue, g) /\ x.waiting = device[d].waiting
        /\ x.list = [device[d].list EXCEPT ![g] = "checked_in"]
    BY <2>1 DEF Device
  <2>4. device[d].queue \in Seq(Guests) /\ device[d].list \in Lists
    BY <2>1 DEF Device
  <2> HIDE DEF x
  <2>5. device'[d] = x /\ \A e \in Devices \ {d} : device'[e] = device[e]
    BY <2>1, <2>2
  <2> QED
    BY <2>3, <2>4, <2>5
<1>3. \A h \in Guests : Queued(d, h)' <=> Queued(d, h) \/ h = g
  <2> DEFINE old == device[d].queue
             new == device'[d].queue
  <2>1. /\ new = Append(old, g) /\ old \in Seq(Guests)
    BY <1>2
  <2> HIDE DEF old, new
  <2>2. /\ DOMAIN new = DOMAIN old \cup {Len(old) + 1} /\ new[Len(old) + 1] = g
        /\ \A i \in DOMAIN old : new[i] = old[i]
    BY <2>1
  <2>3. \A h \in Guests : (\E i \in DOMAIN new : new[i] = h)
                         <=> (\E i \in DOMAIN old : old[i] = h) \/ h = g
    BY <2>2
  <2> QED
    BY <2>3 DEF Queued, old, new
<1>4. \A e \in Devices \ {d}, h \in Guests : Queued(e, h)' <=> Queued(e, h)
  BY <1>2 DEF Queued
<1>5. Told' /\ \A t \in Slots, h \in Guests : Awaits(t, h)' <=> Awaits(t, h)
  BY <1>1, RequestsKept
<1>6. Sending'
  <2> SUFFICES ASSUME NEW t \in Slots, NEW e \in Devices, req'[t].device = e
               PROVE  /\ req'[t].pc # "idle" /\ device'[e].waiting
                      /\ \A u \in Slots : req'[u].device = e => u = t
                      /\ \A h \in Guests : Queued(e, h)' =>
                            overlapped' \/ Awaits(t, h)' \/ <<e, h>> \in handled'
    BY DEF Sending
  <2>1. /\ req[t].pc # "idle" /\ device[e].waiting
        /\ \A u \in Slots : req[u].device = e => u = t
        /\ \A h \in Guests : Queued(e, h) => overlapped \/ Awaits(t, h) \/ <<e, h>> \in handled
    BY <1>1 DEF Scanned, Sending
  <2>2. CASE e = d
    BY <1>1, <1>2, <2>1, <2>2
  <2>3. CASE e # d
    BY <1>1, <1>2, <1>4, <1>5, <2>1, <2>3
  <2> QED
    BY <2>2, <2>3
<1>7. ScansAreKept'
  <2>1. \A e \in Devices, h \in Guests : <<e, h>> \in door /\ ~overlapped =>
            Queued(e, h) \/ <<e, h>> \in handled
    BY DEF Scanned, ScansAreKept, Queued
  <2>2. \A e \in Devices, h \in Guests : <<e, h>> \in door' /\ ~overlapped' =>
            Queued(e, h)' \/ <<e, h>> \in handled'
    BY <1>1, <1>3, <1>4, <2>1
  <2> QED
    BY <2>2 DEF ScansAreKept, Queued
<1>8. Listed'
  <2> SUFFICES ASSUME NEW e \in Devices, NEW h \in Guests
               PROVE  /\ device'[e].list[h] = "eligible" \/ Queued(e, h)' \/ <<e, h>> \in door'
                             => row'[h] # "none"
                      /\ <<e, h>> \in handled' => Settled(h)'
                      /\ <<e, h>> \in door' =>
                             device'[e].list[h] # "eligible" \/ reloaded' \/ overlapped'
    BY DEF Listed
  <2>1. /\ device[e].list[h] = "eligible" \/ Queued(e, h) \/ <<e, h>> \in door => row[h] # "none"
        /\ <<e, h>> \in handled => Settled(h)
        /\ <<e, h>> \in door => device[e].list[h] # "eligible" \/ reloaded \/ overlapped
    BY DEF Scanned, Listed
  <2>2. Settled(h)' <=> Settled(h)
    BY <1>1 DEF Settled, Show
  <2>3. CASE e # d
    BY <1>1, <1>2, <1>4, <2>1, <2>2, <2>3
  <2>4. CASE e = d
    <3>1. device'[d].list[h] = IF h = g THEN "checked_in" ELSE device[d].list[h]
      BY <1>2 DEF Lists
    <3> QED
      BY <1>1, <1>3, <2>1, <2>2, <2>4, <3>1
  <2> QED
    BY <2>3, <2>4
<1> QED
  BY <1>5, <1>6, <1>7, <1>8 DEF ScanInv

(* A list that is stored shows nobody let in as eligible unless it was     *)
(* stale.                                                                  *)
LEMMA StoreManifestKeeps ==
    ASSUME Scanned, Remembered, NEW d \in Devices, StoreManifest(d)
    PROVE  ScanInv'
<1>1. /\ UNCHANGED <<req, row, ticket, revoked, record, door, handled, overlapped>>
      /\ reloaded' = (reloaded \/ device[d].fetch = "stale")
  BY DEF StoreManifest, server
<1>2. /\ device'[d].list = device[d].fetched
      /\ \A e \in Devices : /\ device'[e].queue = device[e].queue
                            /\ device'[e].waiting = device[e].waiting
                            /\ e # d => device'[e] = device[e]
  BY DEF StoreManifest, Scanned, Typed, TypeOK, Device
<1>3. \A e \in Devices, g \in Guests : Queued(e, g)' <=> Queued(e, g)
  BY <1>2 DEF Queued
<1>4. Told' /\ \A t \in Slots, g \in Guests : Awaits(t, g)' <=> Awaits(t, g)
  BY <1>1, RequestsKept
<1>5. Sending'
  BY <1>1, <1>2, <1>3, <1>4 DEF Scanned, Sending
<1>6. ScansAreKept'
  BY <1>1, <1>2 DEF Scanned, ScansAreKept
<1>7. Listed'
  <2> SUFFICES ASSUME NEW e \in Devices, NEW g \in Guests
               PROVE  /\ device'[e].list[g] = "eligible" \/ Queued(e, g)' \/ <<e, g>> \in door'
                             => row'[g] # "none"
                      /\ <<e, g>> \in handled' => Settled(g)'
                      /\ <<e, g>> \in door' =>
                             device'[e].list[g] # "eligible" \/ reloaded' \/ overlapped'
    BY DEF Listed
  <2>1. /\ device[e].list[g] = "eligible" \/ Queued(e, g) \/ <<e, g>> \in door => row[g] # "none"
        /\ <<e, g>> \in handled => Settled(g)
        /\ <<e, g>> \in door => device[e].list[g] # "eligible" \/ reloaded \/ overlapped
    BY DEF Scanned, Listed
  <2>2. Settled(g)' <=> Settled(g)
    BY <1>1 DEF Settled, Show
  <2>3. CASE e # d
    BY <1>1, <1>2, <1>3, <2>1, <2>2, <2>3
  <2>4. CASE e = d
    <3>1. /\ device[d].fetched[g] = "eligible" => row[g] # "none"
          /\ <<d, g>> \in door =>
                device[d].fetched[g] # "eligible" \/ device[d].fetch = "stale" \/ overlapped
      BY DEF Scanned, Fetched, Empty
    <3> QED
      BY <1>1, <1>2, <1>3, <2>1, <2>2, <2>4, <3>1
  <2> QED
    BY <2>3, <2>4
<1> QED
  BY <1>4, <1>5, <1>6, <1>7 DEF ScanInv

(* A page that closes leaves its request to itself, and the store as it is.*)
LEMMA ClosePageKeeps ==
    ASSUME Scanned, NEW d \in Devices, ClosePage(d)
    PROVE  ScanInv'
<1>1. UNCHANGED <<row, ticket, revoked, record, door, handled, reloaded, overlapped>>
  BY DEF ClosePage, server, history
<1>2. \A e \in Devices : /\ device'[e].queue = device[e].queue
                         /\ device'[e].list = device[e].list
                         /\ e # d => device'[e] = device[e]
  BY DEF ClosePage, Scanned, Typed, TypeOK, Device
<1>3. NoDevice \notin Devices
  BY GuestsAssumption
<1>4. \A t \in Slots : req'[t].device # NoDevice => req'[t] = req[t] /\ req'[t].device # d
  BY <1>3, ClosedRequests DEF Scanned, Typed, TypeOK
<1>5. \A e \in Devices, g \in Guests : Queued(e, g)' <=> Queued(e, g)
  BY <1>2 DEF Queued
<1>6. ASSUME NEW t \in Slots, req'[t].device # NoDevice, NEW g \in Guests
      PROVE  Awaits(t, g)' <=> Awaits(t, g)
  BY <1>4, <1>6 DEF Awaits
<1>7. Sending'
  <2> SUFFICES ASSUME NEW t \in Slots, NEW e \in Devices, req'[t].device = e
               PROVE  /\ req'[t].pc # "idle" /\ device'[e].waiting
                      /\ \A u \in Slots : req'[u].device = e => u = t
                      /\ \A g \in Guests : Queued(e, g)' =>
                            overlapped' \/ Awaits(t, g)' \/ <<e, g>> \in handled'
    BY DEF Sending
  <2>1. e # NoDevice /\ e # d /\ req'[t] = req[t] /\ req[t].device = e
    BY <1>3, <1>4
  <2>2. /\ req[t].pc # "idle" /\ device[e].waiting
        /\ \A u \in Slots : req[u].device = e => u = t
        /\ \A g \in Guests : Queued(e, g) => overlapped \/ Awaits(t, g) \/ <<e, g>> \in handled
    BY <2>1 DEF Scanned, Sending
  <2>3. \A u \in Slots : req'[u].device = e => u = t
    BY <1>4, <2>1, <2>2
  <2> QED
    BY <1>1, <1>2, <1>5, <1>6, <2>1, <2>2, <2>3
<1>8. ScansAreKept'
  BY <1>1, <1>2 DEF Scanned, ScansAreKept
<1>9. \A g \in Guests : Settled(g)' <=> Settled(g)
  BY <1>1 DEF Settled, Show
<1>10. Listed'
  BY <1>1, <1>2, <1>5, <1>9 DEF Scanned, Listed
<1>11. Told'
  <2> SUFFICES ASSUME NEW t \in Slots, req'[t].device # NoDevice
               PROVE  (\A g \in Guests : Awaits(t, g)' => row'[g] # "none") /\ Informed(t)'
    BY DEF Told
  <2>1. req'[t] = req[t] /\ req[t].device # NoDevice
    BY <1>4
  <2>2. (\A g \in Guests : Awaits(t, g) => row[g] # "none") /\ Informed(t)
    BY <2>1 DEF Scanned, Told
  <2>3. Informed(t)'
    BY <1>1, <2>1, <2>2 DEF Informed, Settled, Show
  <2> QED
    BY <1>1, <1>6, <2>2, <2>3
<1> QED
  BY <1>7, <1>8, <1>10, <1>11 DEF ScanInv

-----------------------------------------------------------------------------
(* Lists on their way to a page.                                           *)
SameFetches == \A d \in Devices : /\ device'[d].fetch = device[d].fetch
                                 /\ device'[d].fetched = device[d].fetched

LEMMA SameFetched ==
    ASSUME Scanned, Remembered, door' = door, overlapped => overlapped', SameFetches
    PROVE  Fetched'
BY DEF Scanned, Fetched, Remembered, SameFetches, Empty

LEMMA FetchedStep == Scanned /\ [Next]_vars => Fetched'
<1> SUFFICES ASSUME Scanned, [Next]_vars PROVE Fetched'
  OBVIOUS
<1>0. /\ Remembered /\ device \in [Devices -> Device] /\ req \in [Slots -> Request]
      /\ Empty' = Empty
  BY ServerRemembers DEF Scanned, Typed, TypeOK, Empty
<1>1. ASSUME NEW s \in Slots, Start(s) \/ Step(s) \/ Fault(s) PROVE Fetched'
  <2>1. door' = door /\ (overlapped => overlapped')
    <3>1. CASE Start(s)
      BY <3>1 DEF Start, Scan, BulkCheckIn, WalkIn, Begin, Meet, history
    <3>2. CASE Replay(s) \/ Mark(s) \/ Count(s)
      BY <3>2 DEF Replay, Mark, Count, history
    <3>3. CASE NextGuest(s)
      BY <3>3 DEF NextGuest, history
    <3>4. CASE NewManifest(s) \/ Fault(s)
      BY <3>4 DEF NewManifest, Fault, history
    <3>5. CASE FindAlert(s) \/ CreateAlert(s) \/ Notify(s)
      BY <3>5 DEF FindAlert, CreateAlert, Notify, history
    <3>6. CASE ReadRow(s) \/ ReadTicket(s) \/ Look(s) \/ CreateRecord(s) \/ Answer(s)
      BY <3>6 DEF ReadRow, ReadTicket, Look, CreateRecord, Answer, Answered, history
    <3> QED
      BY <1>1, <3>1, <3>2, <3>3, <3>4, <3>5, <3>6 DEF Step
  <2>2. CASE UNCHANGED device
    BY <1>0, <2>1, <2>2, SameFetched DEF SameFetches
  <2>3. CASE Abort(s)
    <3>1. SameFetches
      BY <1>0, <2>3 DEF Abort, SameFetches, Device
    <3> QED
      BY <1>0, <2>1, <3>1, SameFetched
  <2>4. CASE NewManifest(s)
    <3>1. SameFetches
      BY <1>0, <2>4 DEF NewManifest, SameFetches, Device
    <3> QED
      BY <1>0, <2>1, <3>1, SameFetched
  <2>5. UNCHANGED device \/ Abort(s) \/ NewManifest(s)
    BY <1>1 DEF Start, Scan, BulkCheckIn, WalkIn, Step, Replay, ReadRow, ReadTicket, Look,
                CreateRecord, Mark, Count, FindAlert, CreateAlert, Notify, Answer, NextGuest, Fault
  <2> QED
    BY <2>2, <2>3, <2>4, <2>5
<1>2. ASSUME NEW s \in Slots, NEW d \in Devices, PostQueue(s, d) PROVE Fetched'
  <2>1. SameFetches /\ door' = door /\ (overlapped => overlapped')
    BY <1>0, <1>2 DEF PostQueue, Begin, Meet, SameFetches, Device, history
  <2> QED
    BY <1>0, <2>1, SameFetched
<1>3. ASSUME NEW d \in Devices, GoOffline(d) \/ GoOnline(d) \/ PostFails(d)
                               \/ PressSync(d) \/ OpenPage(d)
      PROVE  Fetched'
  <2>1. door' = door /\ overlapped' = overlapped
    BY <1>3 DEF GoOffline, GoOnline, PostFails, PressSync, OpenPage, history
  <2>2. SameFetches
    <3>1. CASE GoOffline(d)
      BY <1>0, <3>1 DEF GoOffline, SameFetches, Device
    <3>2. CASE GoOnline(d)
      BY <1>0, <3>2 DEF GoOnline, SameFetches, Device
    <3>3. CASE PostFails(d)
      BY <1>0, <3>3 DEF PostFails, SameFetches, Device
    <3>4. CASE PressSync(d)
      BY <1>0, <3>4 DEF PressSync, SameFetches, Device
    <3>5. CASE OpenPage(d)
      BY <1>0, <3>5 DEF OpenPage, SameFetches, Device
    <3> QED
      BY <1>3, <3>1, <3>2, <3>3, <3>4, <3>5
  <2> QED
    BY <1>0, <2>1, <2>2, SameFetched
<1>4. ASSUME NEW d \in Devices, ClosePage(d) \/ StoreManifest(d) PROVE Fetched'
  <2>1. /\ device'[d].fetched = Empty /\ \A e \in Devices \ {d} : device'[e] = device[e]
        /\ UNCHANGED <<row, door, overlapped>>
    <3>1. CASE ClosePage(d)
      BY <1>0, <3>1 DEF ClosePage, Device, server, history
    <3>2. CASE StoreManifest(d)
      BY <1>0, <3>2 DEF StoreManifest, Device, server
    <3> QED
      BY <1>4, <3>1, <3>2
  <2> QED
    BY <1>0, <2>1 DEF Scanned, Fetched
<1>5. ASSUME NEW d \in Devices, FetchManifest(d) PROVE Fetched'
  <2>1. /\ device'[d].fetched = Manifest
        /\ device'[d].fetch = IF device[d].queue = <<>> THEN "fresh" ELSE "stale"
        /\ \A e \in Devices \ {d} : device'[e] = device[e]
        /\ UNCHANGED <<row, door, overlapped>>
    BY <1>0, <1>5 DEF FetchManifest, Device, server, history
  <2>2. ASSUME NEW g \in Guests, Manifest[g] = "eligible"
        PROVE  /\ row[g] # "none" /\ ~Settled(g)
               /\ <<d, g>> \notin handled
    <3>1. Show(g) = "eligible" /\ row[g] # "none"
      BY <2>2 DEF Manifest, Show
    <3>2. <<d, g>> \in handled => Settled(g)
      BY DEF Scanned, Listed
    <3> QED
      BY <3>1, <3>2 DEF Settled
  <2>3. ASSUME NEW g \in Guests, Manifest[g] = "eligible", <<d, g>> \in door
        PROVE  overlapped \/ device[d].queue # <<>>
    BY <2>2, <2>3 DEF Scanned, ScansAreKept
  <2>4. device'[d].fetch # "none"
    BY <2>1
  <2>5. \A g \in Guests :
           /\ device'[d].fetched[g] = "eligible" => row'[g] # "none"
           /\ <<d, g>> \in door' =>
                 device'[d].fetched[g] # "eligible" \/ device'[d].fetch = "stale" \/ overlapped'
    BY <2>1, <2>2, <2>3
  <2>6. \A e \in Devices \ {d} : device'[e].fetched # Empty =>
           device'[e].fetch # "none" /\ \A g \in Guests :
             /\ device'[e].fetched[g] = "eligible" => row'[g] # "none"
             /\ <<e, g>> \in door' =>
                   device'[e].fetched[g] # "eligible" \/ device'[e].fetch = "stale" \/ overlapped'
    BY <2>1 DEF Scanned, Fetched
  <2> QED
    BY <1>0, <2>4, <2>5, <2>6 DEF Fetched
<1>6. ASSUME NEW d \in Devices, NEW g \in Guests, ScanOffline(d, g) PROVE Fetched'
  <2>1. /\ \A e \in Devices : device'[e].fetched = device[e].fetched
        /\ \A e \in Devices \ {d} : device'[e].fetch = device[e].fetch
        /\ device'[d].fetch = IF device[d].fetch = "none" THEN "none" ELSE "stale"
    BY <1>0, <1>6 DEF ScanOffline, QueueOp, Outdated, Device
  <2>2. /\ row' = row /\ door' = door \cup {<<d, g>>}
        /\ overlapped => overlapped'
    BY <1>6 DEF ScanOffline, Meet, server
  <2>3. ASSUME NEW e \in Devices, device'[e].fetched # Empty
        PROVE  device'[e].fetch # "none" /\ \A h \in Guests :
                 /\ device'[e].fetched[h] = "eligible" => row'[h] # "none"
                 /\ <<e, h>> \in door' =>
                       device'[e].fetched[h] # "eligible" \/ device'[e].fetch = "stale" \/ overlapped'
    <3>1. device[e].fetch # "none" /\ \A h \in Guests :
             /\ device[e].fetched[h] = "eligible" => row[h] # "none"
             /\ <<e, h>> \in door =>
                   device[e].fetched[h] # "eligible" \/ device[e].fetch = "stale" \/ overlapped
      BY <2>1, <2>3 DEF Scanned, Fetched
    <3>2. CASE e = d
      BY <2>1, <2>2, <3>1, <3>2
    <3>3. CASE e # d
      BY <2>1, <2>2, <3>1, <3>3
    <3> QED
      BY <3>2, <3>3
  <2> QED
    BY <1>0, <2>3 DEF Fetched
<1>7. ASSUME NEW g \in Guests, Others(g) PROVE Fetched'
  <2>1. UNCHANGED <<device, door>> /\ (overlapped => overlapped')
    BY <1>7 DEF Others, RevokePass, RefundTicket, Release, ExpireOffer, Meet, history
  <2> QED
    BY <1>0, <2>1, SameFetched DEF SameFetches
<1>8. CASE UNCHANGED vars
  <2>1. UNCHANGED <<device, door, overlapped>>
    BY <1>8 DEF vars, history
  <2> QED
    BY <1>0, <2>1, SameFetched DEF SameFetches
<1> QED
  BY <1>1, <1>2, <1>3, <1>4, <1>5, <1>6, <1>7, <1>8 DEF Next, Connect, Page

-----------------------------------------------------------------------------
LEMMA ScannedInit == Init => Scanned
<1> SUFFICES ASSUME Init PROVE Scanned
  OBVIOUS
<1>1. \A d \in Devices : /\ device[d].list = Empty /\ device[d].queue = <<>>
                         /\ device[d].fetched = Empty
  BY DEF Init, NewDevice
<1>2. \A s \in Slots : req[s].device = NoDevice /\ NoDevice \notin Devices
  BY GuestsAssumption DEF Init, Idle
<1>3. door = {} /\ handled = {}
  BY DEF Init
<1>4. Sending /\ ScansAreKept /\ Told
  BY <1>2, <1>3 DEF Sending, ScansAreKept, Told
<1>5. Listed
  BY <1>1, <1>3 DEF Listed, Queued, Empty
<1>6. Fetched
  BY <1>1 DEF Fetched
<1> QED
  BY <1>4, <1>5, <1>6, TypedInit DEF Scanned

LEMMA ScannedStep == Scanned /\ [Next]_vars => Scanned'
<1> SUFFICES ASSUME Scanned, [Next]_vars PROVE ScanInv'
  BY TypedStep, FetchedStep DEF Scanned, ScanInv
<1>t. Typed /\ Typed' /\ Remembered
  BY TypedStep, ServerRemembers DEF Scanned
<1>r. req \in [Slots -> Request] /\ NoDevice \notin Devices
  BY <1>t, GuestsAssumption DEF Typed, TypeOK
<1>1. ASSUME NEW s \in Slots, Start(s) PROVE ScanInv'
  <2>1. PICK r : Begin(s, r) /\ r.device = NoDevice
    <3>1. CASE \E g \in Guests, byToken \in BOOLEAN : Scan(s, g, byToken)
      <4> PICK g, byToken : Scan(s, g, byToken)
        BY <3>1
      <4> DEFINE r == [Idle EXCEPT !.pc = "replay", !.guest = g, !.token = byToken]
      <4>1. r.device = NoDevice /\ Begin(s, r)
        BY DEF Scan, Idle
      <4> QED
        BY <4>1
    <3>2. CASE BulkCheckIn(s)
      <4> PICK list : Begin(s, [Idle EXCEPT !.pc = "next", !.op = "bulk", !.left = list])
        BY <3>2 DEF BulkCheckIn
      <4> DEFINE r == [Idle EXCEPT !.pc = "next", !.op = "bulk", !.left = list]
      <4>1. r.device = NoDevice /\ Begin(s, r)
        BY DEF Idle
      <4> QED
        BY <4>1
    <3>3. ASSUME NEW g \in Guests, WalkIn(s, g) PROVE \E r : Begin(s, r) /\ r.device = NoDevice
      <4> DEFINE r == [Idle EXCEPT !.pc = "replay", !.guest = g, !.op = "walkin"]
      <4>1. r.device = NoDevice /\ Begin(s, r)
        BY <3>3 DEF WalkIn, Idle
      <4> QED
        BY <4>1
    <3> QED
      BY <1>1, <3>1, <3>2, <3>3 DEF Start
  <2>2. req[s].device = NoDevice
    <3>1. req[s].pc = "idle" /\ req[s].device \in Devices \cup {NoDevice}
      BY <1>r, <2>1 DEF Begin, Request
    <3> QED
      BY <3>1 DEF Scanned, Sending
  <2>3. req'[s].device = NoDevice /\ \A t \in Slots \ {s} : req'[t] = req[t]
    BY <1>r, <2>1 DEF Begin
  <2>4. /\ UNCHANGED <<device, door, handled, reloaded>>
        /\ overlapped => overlapped'
    BY <1>1, <2>1 DEF Begin, Meet, Start, Scan, BulkCheckIn, WalkIn, history
  <2>5. Works(s)
    BY <2>2, <2>3, <2>4, OnlineWorks
  <2> QED
    BY <1>t, <2>4, <2>5, WorksKeeps
<1>2. ASSUME NEW s \in Slots, Step(s) PROVE ScanInv'
  <2>1. CASE \/ Replay(s) \/ ReadRow(s) \/ ReadTicket(s) \/ Look(s) \/ CreateRecord(s)
             \/ Mark(s) \/ Count(s) \/ FindAlert(s) \/ Notify(s) \/ Answer(s) \/ NextGuest(s)
    <3>1. Works(s)
      BY <1>t, <2>1, StepWorks
    <3>2. UNCHANGED <<device, door, reloaded, overlapped>>
      <4>1. CASE Replay(s) \/ Mark(s) \/ Count(s) \/ FindAlert(s) \/ Notify(s) \/ NextGuest(s)
        BY <4>1 DEF Replay, Mark, Count, FindAlert, Notify, NextGuest, history
      <4>2. CASE ReadRow(s) \/ ReadTicket(s) \/ Look(s) \/ CreateRecord(s) \/ Answer(s)
        BY <4>2 DEF ReadRow, ReadTicket, Look, CreateRecord, Answer, Answered, history
      <4> QED
        BY <2>1, <4>1, <4>2
    <3> QED
      BY <1>t, <3>1, <3>2, WorksKeeps
  <2>2. CASE CreateAlert(s)
    <3>1. UNCHANGED <<door, handled, reloaded, overlapped>>
      BY <2>2 DEF CreateAlert, history
    <3>2. CASE Abort(s)
      BY <1>t, <3>1, <3>2, AbortKeeps
    <3>3. CASE Goto(s, "notify") /\ UNCHANGED device
      <4>1. req[s].pc = "announce" /\ UNCHANGED record
        BY <2>2 DEF CreateAlert
      <4>2. req[s].device # NoDevice => record[req[s].guest] # "none"
        BY <4>1 DEF Scanned, Told, Informed, After
      <4>3. CASE req[s].device = NoDevice
        <5>1. req'[s].device = NoDevice /\ \A t \in Slots \ {s} : req'[t] = req[t]
          BY <1>r, <3>3, <4>3 DEF Goto, Request
        <5>2. Works(s)
          BY <3>1, <4>3, <5>1, OnlineWorks
        <5> QED
          BY <1>t, <3>1, <3>3, <5>2, WorksKeeps
      <4>4. CASE req[s].device # NoDevice
        <5>1. Works(s)
          BY <3>1, <3>3, <4>1, <4>2, <4>4, GotoWorks DEF PCs
        <5> QED
          BY <1>t, <3>1, <3>3, <5>1, WorksKeeps
      <4> QED
        BY <4>3, <4>4
    <3> QED
      BY <2>2, <3>2, <3>3 DEF CreateAlert
  <2>3. CASE NewManifest(s)
    BY <2>3, NewManifestKeeps
  <2> QED
    BY <1>2, <2>1, <2>2, <2>3 DEF Step
<1>3. ASSUME NEW s \in Slots, Fault(s) PROVE ScanInv'
  BY <1>3, <1>t, AbortKeeps DEF Fault, history
<1>4. ASSUME NEW s \in Slots, NEW d \in Devices, PostQueue(s, d) PROVE ScanInv'
  BY <1>4, PostQueueKeeps
<1>5. ASSUME NEW d \in Devices, StoreManifest(d) \/ ClosePage(d) PROVE ScanInv'
  BY <1>5, <1>t, StoreManifestKeeps, ClosePageKeeps
<1>6. ASSUME NEW d \in Devices, NEW g \in Guests, ScanOffline(d, g) PROVE ScanInv'
  BY <1>6, <1>t, ScanOfflineKeeps
<1>7. ASSUME NEW d \in Devices, Still(d), ~StoreManifest(d)
      PROVE  ScanInv'
  <2>1. UNCHANGED <<req, handled, door, reloaded, overlapped>>
    BY <1>7 DEF Still, GoOffline, GoOnline, PressSync, PostFails, OpenPage, FetchManifest, history
  <2>2. \A e \in Devices : /\ device'[e].queue = device[e].queue
                           /\ device'[e].list = device[e].list
                           /\ device'[e].waiting = device[e].waiting
    <3>1. device \in [Devices -> Device]
      BY <1>t DEF Typed, TypeOK
    <3>2. CASE GoOffline(d)
      BY <3>1, <3>2 DEF GoOffline, Device
    <3>3. CASE GoOnline(d)
      BY <3>1, <3>3 DEF GoOnline, Device
    <3>4. CASE PressSync(d)
      BY <3>1, <3>4 DEF PressSync, Device
    <3>5. CASE PostFails(d)
      BY <3>1, <3>5 DEF PostFails, Device
    <3>6. CASE OpenPage(d)
      BY <3>1, <3>6 DEF OpenPage, Device
    <3>7. CASE FetchManifest(d)
      BY <3>1, <3>7 DEF FetchManifest, Device
    <3> QED
      BY <1>7, <3>2, <3>3, <3>4, <3>5, <3>6, <3>7 DEF Still
  <2> QED
    BY <1>t, <2>1, <2>2, QueuesKept
<1>8. ASSUME NEW g \in Guests, Others(g) PROVE ScanInv'
  <2>1. UNCHANGED <<req, handled, door, reloaded, device>> /\ (overlapped => overlapped')
    BY <1>8 DEF Others, RevokePass, RefundTicket, Release, ExpireOffer, Meet, history
  <2> QED
    BY <1>t, <2>1, QueuesKept
<1>9. CASE UNCHANGED vars
  <2>1. UNCHANGED <<req, handled, door, reloaded, device, overlapped>>
    BY <1>9 DEF vars, history
  <2> QED
    BY <1>t, <2>1, QueuesKept
<1> QED
  BY <1>1, <1>2, <1>3, <1>4, <1>5, <1>6, <1>7, <1>8, <1>9 DEF Next, Connect, Page, Still

(* While no scan is taken during a post, a guest let in offline is in the  *)
(* device's queue until the server has answered for the guest, however     *)
(* posts fail, answers are lost and requests of others interleave.         *)
THEOREM ScansAlwaysKept == Spec => []ScansAreKept
<1>1. Scanned => ScansAreKept
  BY DEF Scanned
<1> QED
  BY <1>1, ScannedInit, ScannedStep, PTL DEF Spec

(* A device lets a guest in once: unless it stores a list made before the  *)
(* server knew of its scans, its list shows nobody it let in as eligible,  *)
(* before the server answers and after, however often its page is closed.  *)
THEOREM LetInOnceAlways == Spec => LetInOnce
<1> DEFINE Again(d, g) ==
        /\ Len(device'[d].queue) > Len(device[d].queue)
        /\ device'[d].queue[Len(device'[d].queue)] = g
        /\ <<d, g>> \in door
<1>1. ASSUME Scanned, [Next]_vars, NEW d \in Devices, NEW g \in Guests, Again(d, g)
      PROVE  reloaded \/ overlapped'
  <2>0. /\ device \in [Devices -> Device] /\ device[d] \in Device
        /\ \A e \in Devices : Len(device[e].queue) \in Nat
    <3>1. device \in [Devices -> Device]
      BY <1>1 DEF Scanned, Typed, TypeOK
    <3>2. \A e \in Devices : device[e].queue \in Seq(Guests)
      BY <3>1 DEF Device
    <3> QED
      BY <3>1, <3>2
  <2>1. ASSUME NEW e \in Devices, NEW h \in Guests, ScanOffline(e, h)
        PROVE  reloaded \/ overlapped'
    <3>1. /\ device' = [device EXCEPT ![e].queue = Append(@, h), ![e].list[h] = "checked_in",
                                      ![e].fetch = Outdated(@)]
          /\ device[e].list[h] = "eligible"
          /\ overlapped => overlapped'
      BY <2>1 DEF ScanOffline, QueueOp, Meet
    <3>2. e = d
      BY <1>1, <2>0, <3>1
    <3>3. device[d].queue \in Seq(Guests) /\ device'[d].queue = Append(device[d].queue, h)
      BY <2>0, <3>1, <3>2 DEF Device
    <3>4. h = g
      BY <1>1, <3>3
    <3> QED
      BY <1>1, <3>1, <3>2, <3>4 DEF Scanned, Listed
  <2>2. ASSUME NEW s \in Slots, Start(s) \/ Step(s) \/ Fault(s) PROVE FALSE
    <3>1. CASE UNCHANGED device
      BY <1>1, <2>0, <3>1
    <3>2. CASE Abort(s)
      BY <1>1, <2>0, <3>2 DEF Abort, Device
    <3>3. CASE NewManifest(s)
      <4>1. device'[d].queue = device[d].queue \/ device'[d].queue = <<>>
        BY <2>0, <3>3 DEF NewManifest, Device
      <4> QED
        BY <1>1, <2>0, <4>1
    <3>4. \/ UNCHANGED device \/ Abort(s) \/ NewManifest(s)
      BY <2>2 DEF Start, Scan, BulkCheckIn, WalkIn, Step, Replay, ReadRow, ReadTicket, Look,
                  CreateRecord, Mark, Count, FindAlert, CreateAlert, Notify, Answer, NextGuest, Fault
    <3> QED
      BY <3>1, <3>2, <3>3, <3>4
  <2>3. ASSUME NEW e \in Devices,
               Connect(e) \/ Page(e) \/ \E s \in Slots : PostQueue(s, e)
        PROVE  FALSE
    <3>1. device'[d].queue = device[d].queue
      <4>1. CASE FetchManifest(e)
        BY <2>0, <4>1 DEF FetchManifest, Device
      <4>2. CASE GoOffline(e)
        BY <2>0, <4>2 DEF GoOffline, Device
      <4>3. CASE GoOnline(e)
        BY <2>0, <4>3 DEF GoOnline, Device
      <4>4. CASE PressSync(e)
        BY <2>0, <4>4 DEF PressSync, Device
      <4>6. CASE PostFails(e)
        BY <2>0, <4>6 DEF PostFails, Device
      <4>5. CASE \E s \in Slots : PostQueue(s, e)
        BY <2>0, <4>5 DEF PostQueue, Device
      <4>7. CASE StoreManifest(e)
        BY <2>0, <4>7 DEF StoreManifest, Device
      <4>8. CASE ClosePage(e)
        BY <2>0, <4>8 DEF ClosePage, Device
      <4>9. CASE OpenPage(e)
        BY <2>0, <4>9 DEF OpenPage, Device
      <4> QED
        BY <2>3, <4>1, <4>2, <4>3, <4>4, <4>5, <4>6, <4>7, <4>8, <4>9 DEF Connect, Page
    <3> QED
      BY <1>1, <2>0, <3>1
  <2>4. ASSUME UNCHANGED device PROVE FALSE
    BY <1>1, <2>0, <2>4
  <2>5. ASSUME NEW h \in Guests, Others(h) PROVE FALSE
    BY <2>4, <2>5 DEF Others, RevokePass, RefundTicket, Release, ExpireOffer
  <2> QED
    BY <1>1, <2>1, <2>2, <2>3, <2>4, <2>5 DEF Next, vars
<1>2. Scanned /\ [Next]_vars =>
        [\A d \in Devices, g \in Guests : Again(d, g) => reloaded \/ overlapped']_vars
  BY <1>1
<1> QED
  BY <1>2, ScannedInit, ScannedStep, PTL DEF Spec, LetInOnce
=============================================================================
