------------------------------- MODULE CheckIn -------------------------------
(***************************************************************************)
(* The door of one event.  checkIn resolves a guest, creates the unique    *)
(* check-in record, saves its copy of the registration as checked_in and   *)
(* announces capacity thresholds; each await is a step of its own, so      *)
(* scans, batches, walk-ins and refunds interleave.  A scanner that is     *)
(* offline decides by the guest list it stored, queues what it let in and  *)
(* sends the queue when its page sees it come back online.                 *)
(***************************************************************************)
EXTENDS Integers, Sequences, SequencesExt, FiniteSets

CONSTANTS
    Guests,
    NoGuest,
    Devices,     \* scanners that may be offline
    NoDevice,    \* the caller of a request that came from no offline queue
    Slots,       \* requests that can be in flight at once
    Capacity,    \* of the event; its guests are of one seat each
    Thresholds,  \* percentages of the capacity that are announced
    Starts,      \* the registrations and tickets guests may begin with
    MaxQueue,    \* bound: scans a device holds
    MaxCalls,    \* bound: requests at the door and calls of other services
    MaxFaults    \* bound: requests that fail or die, answers that are lost

ASSUME GuestsAssumption ==
    /\ IsFiniteSet(Guests) /\ NoGuest \notin Guests
    /\ {NoDevice, "none"} \cap Devices = {}
ASSUME BoundsAssumption ==
    /\ Capacity \in Nat \ {0} /\ Thresholds \subseteq Nat
    /\ MaxQueue \in Nat /\ MaxCalls \in Nat /\ MaxFaults \in Nat

VARIABLES
    row,         \* status of each guest's event_registration row
    ticket,      \* status of each guest's issued ticket
    revoked,     \* guests whose check_in_pass is revoked
    record,      \* the operation of each guest's check_in_record, or "none"
    alerts,      \* the check_in_capacity_alert rows
    notices,     \* external: how often each threshold was announced
    req,         \* requests in flight
    device,      \* each scanner: its store, its page and whether it is online
    admitted,    \* history: how often each guest was answered checked_in
    door,        \* history: guests a device let in while offline
    handled,     \* history: queued scans the server has answered
    overlapped,  \* history: two services or a sync and a scan overlapped
    reloaded,    \* history: a list that did not know of queued scans was stored
    calls,       \* requests and calls so far
    faults

server == <<row, ticket, revoked, record, alerts, notices>>
history == <<admitted, door, handled, reloaded>>
bounds == <<calls, faults>>
vars == <<server, req, device, history, overlapped, bounds>>

-----------------------------------------------------------------------------
RowStatuses == {"none", "waitlisted", "pending", "offered", "confirmed",
                "checked_in", "cancelled", "expired"}
(* refunded stands for void, too.                                          *)
TicketStatuses == {"none", "valid", "refunded"}

(* Operations: a scan's identifier is new each time, the others name their *)
(* guest or are stored with the queued scan and come again.                *)
Repeatable == {"bulk", "walkin"} \cup Devices
Operations == {"scan"} \cup Repeatable

(* copy is the status of the row as read, todo the thresholds left to look *)
(* at, left the rest of the batch, device whose queue it is.               *)
PCs == {"idle", "replay", "row", "ticket", "look", "create", "mark", "count",
        "find", "announce", "notify", "answer", "next"}
Request == [pc: PCs, guest: Guests \cup {NoGuest}, op: Operations, token: BOOLEAN,
            copy: RowStatuses, todo: SUBSET Thresholds, left: Seq(Guests),
            device: Devices \cup {NoDevice}]
Idle == [pc |-> "idle", guest |-> NoGuest, op |-> "scan", token |-> FALSE,
         copy |-> "none", todo |-> {}, left |-> <<>>, device |-> NoDevice]

Shown == {"absent", "revoked", "checked_in", "eligible", "pending"}
Lists == [Guests -> Shown]
Empty == [g \in Guests |-> "absent"]

(* list and queue are stored in the browser and outlive the page.  fetch   *)
(* says whether the page awaits a list, and if scans are queued of which   *)
(* it may not know.  left: the page was closed over queued scans, and      *)
(* nothing asked for a sync since.                                         *)
Device == [online: BOOLEAN, open: BOOLEAN, list: Lists, queue: Seq(Guests),
           due: BOOLEAN, waiting: BOOLEAN, left: BOOLEAN,
           fetch: {"none", "fresh", "stale"}, fetched: Lists]
NewDevice == [online |-> TRUE, open |-> TRUE, list |-> Empty, queue |-> <<>>,
              due |-> FALSE, waiting |-> FALSE, left |-> FALSE,
              fetch |-> "none", fetched |-> Empty]

(* Registered with or without a ticket, waiting for an answer to an offer, *)
(* awaiting approval, on the waitlist, or not registered at all.           *)
Registered == {<<"none", "none">>, <<"waitlisted", "none">>, <<"pending", "none">>,
               <<"offered", "none">>, <<"confirmed", "none">>, <<"confirmed", "valid">>}

ASSUME StartsAssumption == Starts \subseteq Registered

Init ==
    /\ \E start \in [Guests -> Starts] :
          /\ row = [g \in Guests |-> start[g][1]]
          /\ ticket = [g \in Guests |-> start[g][2]]
    /\ revoked = {}
    /\ record = [g \in Guests |-> "none"]
    /\ alerts = {}
    /\ notices = [t \in Thresholds |-> 0]
    /\ req = [s \in Slots |-> Idle]
    /\ device = [d \in Devices |-> NewDevice]
    /\ admitted = [g \in Guests |-> 0]
    /\ door = {} /\ handled = {}
    /\ overlapped = FALSE /\ reloaded = FALSE
    /\ calls = 0 /\ faults = 0

Busy == \E s \in Slots : req[s].pc # "idle"
Meet(busy) == overlapped' = (overlapped \/ busy)

Called == calls < MaxCalls /\ calls' = calls + 1

-----------------------------------------------------------------------------
(* Requests begin.                                                         *)

Goto(s, pc) == req' = [req EXCEPT ![s].pc = pc]

Begin(s, r) ==
    /\ req[s].pc = "idle"
    /\ req' = [req EXCEPT ![s] = r]
    /\ Meet(Busy)

(* checkIn for one guest: by the token of a pass, by the list or a code.   *)
Scan(s, g, byToken) ==
    /\ Called
    /\ row[g] # "none"
    /\ Begin(s, [Idle EXCEPT !.pc = "replay", !.guest = g, !.token = byToken])
    /\ UNCHANGED <<server, device, history, faults>>

(* checkAllIn lists the eligible, in any order; bulkCheckIn takes a list.  *)
Eligible(status) == status \in {"confirmed", "checked_in", "offered"}

BulkCheckIn(s) ==
    /\ Called
    /\ \E list \in SetToSeqs({g \in Guests : Eligible(row[g])}) :
          /\ list # <<>>
          /\ Begin(s, [Idle EXCEPT !.pc = "next", !.op = "bulk", !.left = list])
    /\ UNCHANGED <<server, device, history, faults>>

(* A free walk-in is registered, which may only put it on the waitlist or  *)
(* leave it to be approved, and checked in.                                *)
WalkIn(s, g) ==
    /\ Called
    /\ row[g] = "none"
    /\ \E status \in {"confirmed", "waitlisted", "pending"} : row' = [row EXCEPT ![g] = status]
    /\ Begin(s, [Idle EXCEPT !.pc = "replay", !.guest = g, !.op = "walkin"])
    /\ UNCHANGED <<ticket, revoked, record, alerts, notices, device, history, faults>>

-----------------------------------------------------------------------------
(* checkIn.                                                                *)

(* An operation that has a record already is answered without a look at    *)
(* the guest.                                                              *)
Known(op, g) == op \in Repeatable /\ record[g] = op

Replay(s) ==
    /\ req[s].pc = "replay"
    /\ Goto(s, IF Known(req[s].op, req[s].guest) THEN "next" ELSE "row")
    /\ handled' = IF Known(req[s].op, req[s].guest) /\ req[s].device # NoDevice
                  THEN handled \cup {<<req[s].device, req[s].guest>>} ELSE handled
    /\ UNCHANGED <<server, device, admitted, door, reloaded, overlapped, bounds>>

(* The end of one guest's check-in, whatever it was.                       *)
Answered(s, status) ==
    LET g == req[s].guest
    IN  /\ admitted' = IF status = "checked_in" THEN [admitted EXCEPT ![g] = @ + 1] ELSE admitted
        /\ handled' = IF req[s].device = NoDevice THEN handled
                      ELSE handled \cup {<<req[s].device, g>>}
        /\ Goto(s, "next")
        /\ UNCHANGED <<door, reloaded>>

(* resolveGuest: the pass, if it is a token, and the registration, then    *)
(* the ticket.                                                             *)
ReadRow(s) ==
    /\ req[s].pc = "row"
    /\ LET g == req[s].guest
       IN  IF req[s].token /\ g \in revoked
           THEN Answered(s, "revoked")
           ELSE /\ req' = [req EXCEPT ![s].pc = "ticket", ![s].copy = row[g]]
                /\ UNCHANGED history
    /\ UNCHANGED <<server, device, overlapped, bounds>>

Classify(status, tkt) ==
    IF status \in {"none", "cancelled", "expired", "waitlisted"} THEN "not_on_list"
    ELSE IF tkt = "refunded" THEN "revoked"
    ELSE IF Eligible(status) THEN "ok" ELSE "not_on_list"

ReadTicket(s) ==
    /\ req[s].pc = "ticket"
    /\ LET answer == Classify(req[s].copy, ticket[req[s].guest])
       IN  IF answer = "ok"
           THEN Goto(s, "look") /\ UNCHANGED history
           ELSE Answered(s, answer)
    /\ UNCHANGED <<server, device, overlapped, bounds>>

(* applyCheckIn looks for a record of the operation or of the guest.       *)
Look(s) ==
    /\ req[s].pc = "look"
    /\ IF record[req[s].guest] # "none"
       THEN Answered(s, "already_checked_in")
       ELSE Goto(s, "create") /\ UNCHANGED history
    /\ UNCHANGED <<server, device, overlapped, bounds>>

(* The unique indexes refuse a second record; the catch answers with the   *)
(* first.                                                                  *)
CreateRecordAgain(s) ==
    /\ req[s].pc = "create"
    /\ record' = [record EXCEPT ![req[s].guest] = req[s].op]
    /\ Goto(s, IF req[s].copy = "checked_in" THEN "count" ELSE "mark")
    /\ UNCHANGED <<row, ticket, revoked, alerts, notices, device, history, overlapped, bounds>>
CreateRecord(s) ==
    /\ req[s].pc = "create"
    /\ IF record[req[s].guest] # "none"
       THEN Answered(s, "already_checked_in") /\ UNCHANGED record
       ELSE /\ record' = [record EXCEPT ![req[s].guest] = req[s].op]
            /\ Goto(s, IF req[s].copy = "checked_in" THEN "count" ELSE "mark")
            /\ UNCHANGED history
    /\ UNCHANGED <<row, ticket, revoked, alerts, notices, device, overlapped, bounds>>

(* The copy of the row is saved as checked_in, whatever the row is now.    *)
Mark(s) ==
    /\ req[s].pc = "mark"
    /\ row' = [row EXCEPT ![req[s].guest] = "checked_in"]
    /\ Goto(s, "count")
    /\ UNCHANGED <<ticket, revoked, record, alerts, notices, device, history, overlapped, bounds>>

(* publishCounter and maybeAlert.                                          *)
Recorded == {g \in Guests : record[g] # "none"}
Crossed(n) == {t \in Thresholds : 100 * n >= t * Capacity}

Count(s) ==
    /\ req[s].pc = "count"
    /\ req' = [req EXCEPT ![s].pc = "find", ![s].todo = Crossed(Cardinality(Recorded))]
    /\ UNCHANGED <<server, device, history, overlapped, bounds>>

(* The crossed thresholds are looked up in ascending order until one has   *)
(* no alert.                                                               *)
Lowest(todo) == {t \in todo : \A u \in todo : t <= u}

FindAlert(s) ==
    /\ req[s].pc = "find"
    /\ \/ req[s].todo = {} /\ Goto(s, "answer")
       \/ \E t \in Lowest(req[s].todo) :
             req' = IF t \in alerts THEN [req EXCEPT ![s].todo = @ \ {t}]
                    ELSE [req EXCEPT ![s].pc = "announce"]
    /\ UNCHANGED <<server, device, history, overlapped, bounds>>

(* A request that throws is over, with the rest of its batch.              *)
Abort(s) ==
    /\ req' = [req EXCEPT ![s] = Idle]
    /\ device' = IF req[s].device = NoDevice THEN device
                 ELSE [device EXCEPT ![req[s].device].waiting = FALSE]

(* The unique index on the threshold refuses a second alert, and nothing   *)
(* catches that.                                                           *)
CreateAlertAgain(s) ==
    /\ req[s].pc = "announce"
    /\ \E t \in Lowest(req[s].todo) : alerts' = alerts \cup {t}
    /\ Goto(s, "notify")
    /\ UNCHANGED <<row, ticket, revoked, record, notices, device, history, overlapped, bounds>>
CreateAlert(s) ==
    /\ req[s].pc = "announce"
    /\ \E t \in Lowest(req[s].todo) :
          \/ /\ t \in alerts
             /\ Abort(s)
             /\ UNCHANGED alerts
          \/ /\ t \notin alerts
             /\ alerts' = alerts \cup {t}
             /\ Goto(s, "notify")
             /\ UNCHANGED device
    /\ UNCHANGED <<row, ticket, revoked, record, notices, history, overlapped, bounds>>

Notify(s) ==
    /\ req[s].pc = "notify"
    /\ \E t \in Lowest(req[s].todo) :
          /\ notices' = [notices EXCEPT ![t] = @ + 1]
          /\ req' = [req EXCEPT ![s].pc = "find", ![s].todo = @ \ {t}]
    /\ UNCHANGED <<row, ticket, revoked, record, alerts, device, history, overlapped, bounds>>

Answer(s) ==
    /\ req[s].pc = "answer"
    /\ Answered(s, "checked_in")
    /\ UNCHANGED <<server, device, overlapped, bounds>>

(* The next guest of the batch, or the end of the request.  A queued scan  *)
(* holds the token or the list entry it was made with.  A sync ends with   *)
(* the manifest, and that is NewManifest below.                            *)
NextGuest(s) ==
    /\ req[s].pc = "next"
    /\ \/ /\ req[s].left # <<>>
          /\ \E byToken \in BOOLEAN :
                /\ byToken => req[s].op \in Devices
                /\ req' = [req EXCEPT ![s] =
                      [req[s] EXCEPT !.pc = "replay", !.guest = Head(req[s].left),
                                     !.token = byToken, !.left = Tail(req[s].left)]]
       \/ /\ req[s].left = <<>> /\ req[s].device = NoDevice
          /\ req' = [req EXCEPT ![s] = Idle]
    /\ UNCHANGED <<server, device, history, overlapped, bounds>>

-----------------------------------------------------------------------------
(* The scanner.                                                            *)

(* manifest: what the list shows of a guest.                               *)
ShowStatus(g) ==
    IF row[g] \notin {"confirmed", "checked_in", "offered", "pending"} THEN "absent"
    ELSE IF g \in revoked \/ ticket[g] = "refunded" THEN "revoked"
    ELSE row[g]
Show(g) ==
    IF row[g] \notin {"confirmed", "checked_in", "offered", "pending"} THEN "absent"
    ELSE IF g \in revoked \/ ticket[g] = "refunded" THEN "revoked"
    ELSE IF record[g] # "none" \/ row[g] = "checked_in" THEN "checked_in"
    ELSE IF Eligible(row[g]) THEN "eligible" ELSE "pending"
Manifest == [g \in Guests |-> Show(g)]

(* The page is closed: what it awaits is not for it any more, the request  *)
(* goes on at the server.  The store stays.                                *)
ClosePage(d) ==
    /\ device[d].open
    /\ device' = [device EXCEPT ![d] = [device[d] EXCEPT
                     !.open = FALSE, !.due = FALSE, !.waiting = FALSE, !.fetch = "none",
                     !.fetched = Empty, !.left = device[d].left \/ device[d].queue # <<>>]]
    /\ req' = [s \in Slots |-> IF req[s].device = d
                               THEN [req[s] EXCEPT !.device = NoDevice] ELSE req[s]]
    /\ UNCHANGED <<server, history, overlapped, bounds>>

(* Opened again, here or in another tab, it asks for the list and no more: *)
(* what the store has queued waits for an online event or for the button.  *)
OpenPage(d) ==
    /\ ~device[d].open
    /\ device' = [device EXCEPT ![d].open = TRUE]
    /\ UNCHANGED <<server, req, history, overlapped, bounds>>

(* loadManifest, when the page opens, after each scan online and by a sync *)
(* of nothing: the server makes the list, and the page stores it when it   *)
(* arrives, with the queue that is stored by then.  Of two lists that are  *)
(* awaited the first is the one that fails.                                *)
FetchManifest(d) ==
    /\ device[d].open /\ device[d].online
    /\ device' = [device EXCEPT ![d].fetched = Manifest,
                     ![d].fetch = IF device[d].queue = <<>> THEN "fresh" ELSE "stale"]
    /\ UNCHANGED <<server, req, history, overlapped, bounds>>

StoreManifest(d) ==
    /\ device[d].fetch # "none"
    /\ device' = [device EXCEPT ![d].list = device[d].fetched,
                                ![d].fetch = "none", ![d].fetched = Empty]
    /\ reloaded' = (reloaded \/ device[d].fetch = "stale")
    /\ UNCHANGED <<server, req, admitted, door, handled, overlapped, bounds>>

GoOffline(d) ==
    /\ device[d].online
    /\ device' = [device EXCEPT ![d].online = FALSE]
    /\ UNCHANGED <<server, req, history, overlapped, bounds>>

(* The online event calls syncQueue, if the page is there to hear it.      *)
GoOnlineSilently(d) ==
    /\ ~device[d].online
    /\ device' = [device EXCEPT ![d].online = TRUE]
    /\ UNCHANGED <<server, req, history, overlapped, bounds>>
GoOnline(d) ==
    /\ ~device[d].online
    /\ device' = [device EXCEPT ![d].online = TRUE,
                     ![d].due = (device[d].open /\ device[d].queue # <<>>),
                     ![d].left = (@ /\ ~device[d].open)]
    /\ UNCHANGED <<server, req, history, overlapped, bounds>>

(* So does the button, if the queue was not sent or the answer was lost.   *)
PressSync(d) ==
    /\ device[d].open /\ device[d].online /\ ~device[d].due /\ ~device[d].waiting
    /\ device[d].queue # <<>>
    /\ device' = [device EXCEPT ![d].due = TRUE, ![d].left = FALSE]
    /\ UNCHANGED <<server, req, history, overlapped, bounds>>

(* evaluateOffline lets in whom the stored list shows as eligible, and     *)
(* queueOp shows the guest as checked in.                                  *)
Outdated(fetch) == IF fetch = "none" THEN fetch ELSE "stale"

QueueOpUnmarked(d, g) ==
    device' = [device EXCEPT ![d].queue = Append(@, g), ![d].fetch = Outdated(@)]
QueueOp(d, g) ==
    device' = [device EXCEPT ![d].queue = Append(@, g), ![d].list[g] = "checked_in",
                             ![d].fetch = Outdated(@)]

ScanOffline(d, g) ==
    /\ device[d].open /\ ~device[d].online
    /\ device[d].list[g] = "eligible"
    /\ Len(device[d].queue) < MaxQueue
    /\ QueueOp(d, g)
    /\ door' = door \cup {<<d, g>>}
    /\ Meet(device[d].waiting)
    /\ UNCHANGED <<server, req, admitted, handled, reloaded, bounds>>

(* syncQueue posts the queue as it is.                                     *)
PostQueue(s, d) ==
    /\ device[d].due /\ ~device[d].waiting /\ device[d].online
    /\ Begin(s, [Idle EXCEPT !.pc = "next", !.op = d, !.left = device[d].queue, !.device = d])
    /\ device' = [device EXCEPT ![d].due = FALSE, ![d].waiting = TRUE]
    /\ UNCHANGED <<server, history, bounds>>

(* Offline, the post fails at once.                                        *)
PostFails(d) ==
    /\ device[d].due /\ ~device[d].online
    /\ device' = [device EXCEPT ![d].due = FALSE]
    /\ UNCHANGED <<server, req, history, overlapped, bounds>>

(* The answer of sync: the stored list is replaced and the queue emptied.  *)
NewManifest(s) ==
    LET d == req[s].device
    IN  /\ req[s].pc = "next" /\ req[s].left = <<>> /\ d # NoDevice
        /\ device[d].online
        /\ req' = [req EXCEPT ![s] = Idle]
        /\ device' = [device EXCEPT ![d].list = Manifest, ![d].queue = <<>>,
                                    ![d].waiting = FALSE]
        /\ UNCHANGED <<server, history, overlapped, bounds>>

-----------------------------------------------------------------------------
(* Faults and the other services.                                          *)

(* A statement of the request fails or its process dies, at any step; the  *)
(* device sees an answer that is not ok, or none, and keeps its queue.     *)
FaultEmptying(s) ==
    /\ req[s].pc # "idle"
    /\ faults < MaxFaults
    /\ faults' = faults + 1
    /\ req' = [req EXCEPT ![s] = Idle]
    /\ device' = IF req[s].device = NoDevice THEN device
                 ELSE [device EXCEPT ![req[s].device].waiting = FALSE,
                                     ![req[s].device].queue = <<>>]
    /\ UNCHANGED <<server, history, overlapped, calls>>
Fault(s) ==
    /\ req[s].pc # "idle"
    /\ faults < MaxFaults
    /\ faults' = faults + 1
    /\ Abort(s)
    /\ UNCHANGED <<server, history, overlapped, calls>>

(* revokePass.                                                             *)
RevokePass(g) ==
    /\ row[g] # "none" /\ g \notin revoked
    /\ Called
    /\ revoked' = revoked \cup {g}
    /\ Meet(Busy)
    /\ UNCHANGED <<row, ticket, record, alerts, notices, req, device, history, faults>>

(* Payments: a ticket is refunded, and a full refund cancels the row, as   *)
(* does a payment that failed.                                             *)
RefundTicket(g) ==
    /\ ticket[g] = "valid"
    /\ Called
    /\ ticket' = [ticket EXCEPT ![g] = "refunded"]
    /\ Meet(Busy)
    /\ UNCHANGED <<row, revoked, record, alerts, notices, req, device, history, faults>>

Release(g) ==
    /\ row[g] \in {"pending", "confirmed", "checked_in"} /\ ticket[g] # "valid"
    /\ Called
    /\ row' = [row EXCEPT ![g] = "cancelled"]
    /\ Meet(Busy)
    /\ UNCHANGED <<ticket, revoked, record, alerts, notices, req, device, history, faults>>

(* Registrations: an offer expires.                                        *)
ExpireOffer(g) ==
    /\ row[g] = "offered"
    /\ Called
    /\ row' = [row EXCEPT ![g] = "expired"]
    /\ Meet(Busy)
    /\ UNCHANGED <<ticket, revoked, record, alerts, notices, req, device, history, faults>>

-----------------------------------------------------------------------------
Step(s) ==
    \/ Replay(s) \/ ReadRow(s) \/ ReadTicket(s) \/ Look(s) \/ CreateRecord(s)
    \/ Mark(s) \/ Count(s) \/ FindAlert(s) \/ CreateAlert(s) \/ Notify(s)
    \/ Answer(s) \/ NextGuest(s) \/ NewManifest(s)

Start(s) ==
    \/ \E g \in Guests, byToken \in BOOLEAN : Scan(s, g, byToken)
    \/ BulkCheckIn(s)
    \/ \E g \in Guests : WalkIn(s, g)

Others(g) == RevokePass(g) \/ RefundTicket(g) \/ Release(g) \/ ExpireOffer(g)

Connect(d) == GoOffline(d) \/ GoOnline(d) \/ PostFails(d)
Page(d) ==
    \/ ClosePage(d) \/ OpenPage(d) \/ FetchManifest(d) \/ StoreManifest(d)
    \/ PressSync(d)

Next ==
    \/ \E s \in Slots : Start(s) \/ Step(s) \/ Fault(s)
    \/ \E s \in Slots, d \in Devices : PostQueue(s, d)
    \/ \E d \in Devices : Connect(d) \/ Page(d)
    \/ \E d \in Devices, g \in Guests : ScanOffline(d, g)
    \/ \E g \in Guests : Others(g)

Spec == Init /\ [][Next]_vars

(* Requests go on; a device that is offline is online again some time, and *)
(* stays so long enough, some time, for a post and its answer.             *)
FairSpec ==
    /\ Spec
    /\ \A s \in Slots : SF_vars(Step(s))
    /\ \A d \in Devices :
          WF_vars(GoOnline(d)) /\ SF_vars(\E s \in Slots : PostQueue(s, d))
-----------------------------------------------------------------------------
(* Properties.                                                             *)

(* Type correctness of rows, records, requests and what devices store.     *)
TypeOK ==
    /\ row \in [Guests -> RowStatuses] /\ ticket \in [Guests -> TicketStatuses]
    /\ revoked \subseteq Guests /\ record \in [Guests -> Operations \cup {"none"}]
    /\ alerts \subseteq Thresholds /\ notices \in [Thresholds -> Nat]
    /\ req \in [Slots -> Request] /\ device \in [Devices -> Device]
    /\ admitted \in [Guests -> Nat]
    /\ door \subseteq Devices \X Guests /\ handled \subseteq Devices \X Guests
    /\ overlapped \in BOOLEAN /\ reloaded \in BOOLEAN
    /\ calls \in Nat /\ faults \in Nat

(* However scans, batches, walk-ins and syncs of several devices overlap   *)
(* and fail, the server answers checked_in once for a guest.               *)
AdmittedOnce == \A g \in Guests : admitted[g] <= 1

(* ... and a threshold is announced to the organizers once.                *)
AlertedOnce == \A t \in Thresholds : notices[t] <= 1

Undisturbed == ~overlapped /\ faults = 0

(* A guest let in offline stays in the device's queue until the server has *)
(* answered for it, although posts fail half-way and answers are lost; a   *)
(* scan taken while a post is in flight may be wiped with the queue.       *)
ScansAreKept == \A d \in Devices, g \in Guests : <<d, g>> \in door /\ ~overlapped =>
    (\E i \in DOMAIN device[d].queue : device[d].queue[i] = g) \/ <<d, g>> \in handled

(* A device lets a guest in once, whatever the server did with the scan,   *)
(* unless it stored a list that was made when the server did not know of   *)
(* all the device had let in.                                              *)
LetInOnce == [][\A d \in Devices, g \in Guests :
    /\ Len(device'[d].queue) > Len(device[d].queue)
    /\ device'[d].queue[Len(device'[d].queue)] = g
    /\ <<d, g>> \in door
    => reloaded \/ overlapped']_vars

(* All that a device let in offline is answered for by the server, if      *)
(* nothing fails and its page stays open: a page that is opened again      *)
(* sends nothing by itself.                                                *)
Unanswered(d) == {g \in Guests : <<d, g>> \in door \ handled}
ScansArrive == \A d \in Devices :
    Unanswered(d) # {} ~> Unanswered(d) = {} \/ ~Undisturbed \/ device[d].left
==============================================================================
