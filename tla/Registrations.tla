--------------------------- MODULE Registrations ---------------------------
(***************************************************************************)
(* Free registration, the waitlist and its timed offers for one event, as  *)
(* the registration service runs them: every repository call is one        *)
(* atomic database statement (createIfCapacity one transaction), and a     *)
(* handler that awaits between two of them holds a copy of the row it read *)
(* and later writes the WHOLE copy back.                                   *)
(*                                                                         *)
(* The table event_registration is UNIQUE(event_id, email), so the state   *)
(* is one row per guest; "none" stands for no row.                         *)
(***************************************************************************)
EXTENDS Naturals, FiniteSets

CONSTANTS
    Guests,        \* the e-mail addresses that may register
    NoGuest,       \* "this handler serves no guest" and "no job"
    Slots,         \* handlers that can be in flight at once
    MaxQuantity,   \* bound: seats one registration may ask for
    Capacities,    \* the capacities the organizer may set
    Quota,         \* registrants per event the plan allows
    OfferTicks,    \* WAITLIST_OFFER_MS in clock ticks
    MaxTime        \* bound of the clock

ASSUME GuestsAssumption == IsFiniteSet(Guests) /\ NoGuest \notin Guests
ASSUME BoundsAssumption ==
    /\ MaxQuantity \in Nat \ {0}
    /\ OfferTicks \in Nat \ {0}
    /\ MaxTime \in Nat
    /\ Quota \in Nat
ASSUME CapacitiesAssumption == Capacities # {} /\ Capacities \subseteq Nat

VARIABLES
    event,    \* the event row: capacity, waitlistEnabled, approval mode
    row,      \* the registration row of each guest
    job,      \* the waitlist.expire job of each registration
    req,      \* the handlers in flight, each with its copies of rows
    now,      \* the clock
    offered,  \* history: guests that were ever offered a seat
    maxCap    \* history: the greatest capacity the event ever had

vars == <<event, row, job, req, now, offered, maxCap>>

-----------------------------------------------------------------------------
(* Rows, jobs and handlers.                                                *)

Event == [capacity: Nat, waitlist: BOOLEAN, approval: BOOLEAN]

Statuses == {"none", "pending", "confirmed", "waitlisted", "offered",
             "cancelled", "expired"}

Row == [status: Statuses, qty: 0 .. MaxQuantity, pos: Nat, until: Nat, created: Nat]
NoRow == [status |-> "none", qty |-> 0, pos |-> 0, until |-> 0, created |-> 0]

Job == [state: {"none", "pending", "processing", "completed"}, at: Nat]
NoJob == [state |-> "none", at |-> 0]

PCs == {"idle", "reserve", "position", "enlist", "confirm",
        "expire", "list", "offer", "schedule"}

(* A copy of a registration row held by a handler.                         *)
Held == [guest: Guests, row: Row]

(* event is the copy of the event row, guest and row the registration in   *)
(* hand, due the rows an expiry still has to save, job the job it runs for.*)
Req == [pc: PCs, event: Event, guest: Guests \cup {NoGuest}, row: Row,
        due: SUBSET Held, job: Guests \cup {NoGuest}]
NoEvent == [capacity |-> 0, waitlist |-> FALSE, approval |-> FALSE]
Idle == [pc |-> "idle", event |-> NoEvent, guest |-> NoGuest, row |-> NoRow,
         due |-> {}, job |-> NoGuest]

(* ACTIVE_REGISTRATION, the statuses that hold seats; checked_in belongs   *)
(* to the check-in desk and holds the seats of its confirmed row.          *)
ActiveForgettingOffers == {"pending", "confirmed"}
Active == {"pending", "confirmed", "offered"}

(* The seats held by the guests of G, as pairs <<guest, seat number>>.     *)
SeatsOf(G) == {p \in Guests \X (1 .. MaxQuantity) :
                  p[1] \in G /\ p[2] <= row[p[1]].qty}
ActiveGuests == {g \in Guests : row[g].status \in Active}
Taken == Cardinality(SeatsOf(ActiveGuests))

Init ==
    /\ event \in [capacity: Capacities, waitlist: BOOLEAN, approval: BOOLEAN]
    /\ row = [g \in Guests |-> NoRow]
    /\ job = [g \in Guests |-> NoJob]
    /\ req = [s \in Slots |-> Idle]
    /\ now = 0
    /\ offered = {}
    /\ maxCap = event.capacity

-----------------------------------------------------------------------------
(* register: reads, then one transaction, then the waitlist.               *)

Goto(s, pc) == req' = [req EXCEPT ![s].pc = pc]
Finish(s) == req' = [req EXCEPT ![s] = Idle]

InitialStatusUnknown(e) == IF e.approval THEN "approval" ELSE "confirmed"
InitialStatus(e) == IF e.approval THEN "pending" ELSE "confirmed"

(* The reads of register: event, existing row, plan quota.  A guest whose  *)
(* row is live, or who exceeds the plan, is refused and leaves no trace.   *)
BeginRegister(s, g, q) ==
    /\ req[s].pc = "idle"
    /\ row[g].status \in {"none", "cancelled", "expired"}
    /\ Taken + q <= Quota
    /\ req' = [req EXCEPT ![s] = [Idle EXCEPT
                 !.pc = "reserve", !.event = event, !.guest = g,
                 !.row = [status |-> InitialStatus(event), qty |-> q,
                          pos |-> 0, until |-> 0, created |-> now]]]
    /\ UNCHANGED <<event, row, job, now, offered, maxCap>>

HasRoomOffByOne(cap, q) == Taken < cap
HasRoomForgettingOffers(cap, q) ==
    Cardinality(SeatsOf({g \in Guests : row[g].status \in ActiveForgettingOffers})) + q <= cap
HasRoom(cap, q) == Taken + q <= cap

(* An insert for a guest that has a row, cancelled and expired ones        *)
(* included, hits the unique index and the handler throws.                 *)
Insert(g, r) == row' = IF row[g].status = "none" THEN [row EXCEPT ![g] = r] ELSE row

(* createIfCapacity, under the event's row lock, with the capacity read    *)
(* before the lock.                                                        *)
Reserve(s) ==
    /\ req[s].pc = "reserve"
    /\ \/ /\ HasRoom(req[s].event.capacity, req[s].row.qty)
          /\ Insert(req[s].guest, req[s].row)
          /\ Finish(s)
       \/ /\ ~HasRoom(req[s].event.capacity, req[s].row.qty)
          /\ IF req[s].event.waitlist THEN Goto(s, "position") ELSE Finish(s)
          /\ UNCHANGED row
    /\ UNCHANGED <<event, job, now, offered, maxCap>>

(* nextWaitlistPosition.                                                   *)
TakePosition(s) ==
    /\ req[s].pc = "position"
    /\ LET queue == {g \in Guests : row[g].status \in {"waitlisted", "offered"}}
       IN  req' = [req EXCEPT ![s].pc = "enlist",
                              ![s].row.status = "waitlisted",
                              ![s].row.pos = Cardinality(queue) + 1]
    /\ UNCHANGED <<event, row, job, now, offered, maxCap>>

Enlist(s) ==
    /\ req[s].pc = "enlist"
    /\ Insert(req[s].guest, req[s].row)
    /\ Finish(s)
    /\ UNCHANGED <<event, job, now, offered, maxCap>>

-----------------------------------------------------------------------------
(* acceptOffer.                                                            *)

(* The read and the checks; an offer found out of date is expired here.    *)
Lapsed(r) == now > r.until

BeginAccept(s, g) ==
    /\ req[s].pc = "idle"
    /\ row[g].status = "offered"
    /\ req' = [req EXCEPT ![s] =
                 IF Lapsed(row[g])
                 THEN [Idle EXCEPT !.pc = "expire",
                                   !.due = {[guest |-> g, row |-> row[g]]}]
                 ELSE [Idle EXCEPT !.pc = "confirm", !.guest = g, !.row = row[g]]]
    /\ UNCHANGED <<event, row, job, now, offered, maxCap>>

(* The save: the whole copy, confirmed.                                    *)
Confirm(s) ==
    /\ req[s].pc = "confirm"
    /\ row' = [row EXCEPT ![req[s].guest] =
                 [req[s].row EXCEPT !.status = "confirmed", !.pos = 0, !.until = 0]]
    /\ Finish(s)
    /\ UNCHANGED <<event, job, now, offered, maxCap>>

-----------------------------------------------------------------------------
(* expireDueOffers, run by the worker for the job of guest g; expireOffer  *)
(* for each due row; promoteWaitlist after each.                           *)

DueStrictly(r) == r.status = "offered" /\ r.until < now
Due(r) == r.status = "offered" /\ r.until <= now

DueRows == {[guest |-> g, row |-> row[g]] : g \in {h \in Guests : Due(row[h])}}

(* An expiry with no row left to save ends, and its job with it.           *)
JobDone(g) == IF g = NoGuest THEN job ELSE [job EXCEPT ![g].state = "completed"]

BeginExpireDue(s, g) ==
    /\ req[s].pc = "idle"
    /\ job[g].state = "pending"
    /\ job[g].at <= now
    /\ IF DueRows = {}
       THEN job' = JobDone(g) /\ UNCHANGED req
       ELSE /\ job' = [job EXCEPT ![g].state = "processing"]
            /\ req' = [req EXCEPT ![s] = [Idle EXCEPT !.pc = "expire", !.due = DueRows,
                                                      !.job = g]]
    /\ UNCHANGED <<event, row, now, offered, maxCap>>

ExpireOne(s) ==
    /\ req[s].pc = "expire"
    /\ \E d \in req[s].due :
          /\ row' = [row EXCEPT ![d.guest] = [d.row EXCEPT !.status = "expired"]]
          /\ req' = [req EXCEPT ![s].pc = "list", ![s].due = @ \ {d}]
    /\ UNCHANGED <<event, job, now, offered, maxCap>>

(* promoteWaitlist called on its own, which asks for no free seat.         *)
BeginPromote(s) ==
    /\ req[s].pc = "idle"
    /\ req' = [req EXCEPT ![s] = [Idle EXCEPT !.pc = "list"]]
    /\ UNCHANGED <<event, row, job, now, offered, maxCap>>

(* Back to the caller's loop over the due rows.                            *)
Continue(s) ==
    IF req[s].due # {}
    THEN Goto(s, "expire") /\ UNCHANGED job
    ELSE Finish(s) /\ job' = JobDone(req[s].job)

Waiting == {g \in Guests : row[g].status = "waitlisted"}
(* sort by waitlistPosition, then createdAt; the rest is left to the rows' *)
(* order in the table.                                                     *)
Before(r, t) == r.pos < t.pos \/ (r.pos = t.pos /\ r.created < t.created)
HeadOfQueue(g) == g \in Waiting /\ \A h \in Waiting : ~Before(row[h], row[g])

ListWaitlist(s) ==
    /\ req[s].pc = "list"
    /\ \/ /\ Waiting = {}
          /\ Continue(s)
       \/ \E g \in Waiting :
             /\ HeadOfQueue(g)
             /\ req' = [req EXCEPT ![s].pc = "offer", ![s].guest = g, ![s].row = row[g]]
             /\ UNCHANGED job
    /\ UNCHANGED <<event, row, now, offered, maxCap>>

(* The save: the whole copy, offered for OfferTicks.  No capacity check.   *)
Offer(s) ==
    /\ req[s].pc = "offer"
    /\ row' = [row EXCEPT ![req[s].guest] =
                 [req[s].row EXCEPT !.status = "offered", !.until = now + OfferTicks]]
    /\ offered' = offered \cup {req[s].guest}
    /\ req' = [req EXCEPT ![s].pc = "schedule", ![s].row.until = now + OfferTicks]
    /\ UNCHANGED <<event, job, now, maxCap>>

(* scheduleOfferExpiry: the job's idempotency key is the registration, so  *)
(* a second job for the same row is never created.                         *)
Enqueue(g, at) == IF job[g].state = "none"
                  THEN [job EXCEPT ![g] = [state |-> "pending", at |-> at]]
                  ELSE job

Schedule(s) ==
    /\ req[s].pc = "schedule"
    /\ LET scheduled == Enqueue(req[s].guest, req[s].row.until) IN
       IF req[s].due # {}
       THEN Goto(s, "expire") /\ job' = scheduled
       ELSE /\ Finish(s)
            /\ job' = IF req[s].job = NoGuest THEN scheduled
                      ELSE [scheduled EXCEPT ![req[s].job].state = "completed"]
    /\ UNCHANGED <<event, row, now, offered, maxCap>>

-----------------------------------------------------------------------------
(* The rest of the system.                                                 *)

(* A seat is given back: the payment service cancels the registration.     *)
Release(g) ==
    /\ row[g].status \in ActiveForgettingOffers
    /\ row' = [row EXCEPT ![g].status = "cancelled"]
    /\ UNCHANGED <<event, job, req, now, offered, maxCap>>

(* updateEvent: the organizer edits capacity and waitlist, whatever is     *)
(* taken already.                                                          *)
UpdateEvent(c, w) ==
    /\ event' = [event EXCEPT !.capacity = c, !.waitlist = w]
    /\ event' # event
    /\ maxCap' = IF c > maxCap THEN c ELSE maxCap
    /\ UNCHANGED <<row, job, req, now, offered>>

Tick ==
    /\ now < MaxTime
    /\ now' = now + 1
    /\ UNCHANGED <<event, row, job, req, offered, maxCap>>

Request(s) ==
    \/ \E g \in Guests, q \in 1 .. MaxQuantity : BeginRegister(s, g, q)
    \/ \E g \in Guests : BeginAccept(s, g)
    \/ BeginPromote(s)

Step(s) ==
    \/ Reserve(s) \/ TakePosition(s) \/ Enlist(s) \/ Confirm(s)
    \/ ExpireOne(s) \/ ListWaitlist(s) \/ Offer(s) \/ Schedule(s)

Work(s) == \E g \in Guests : BeginExpireDue(s, g)

Next ==
    \/ \E s \in Slots : Request(s) \/ Step(s) \/ Work(s)
    \/ \E g \in Guests : Release(g)
    \/ \E c \in Capacities, w \in BOOLEAN : UpdateEvent(c, w)
    \/ Tick

Spec == Init /\ [][Next]_vars

(* A handler that started runs to its end, time passes, and the worker's   *)
(* poll loop takes a due job sooner or later although requests compete     *)
(* with it for the process.  Nothing obliges a guest to do anything.       *)
FairSpec ==
    /\ Spec
    /\ WF_vars(Tick)
    /\ \A s \in Slots : WF_vars(Step(s)) /\ SF_vars(Work(s))
-----------------------------------------------------------------------------
(* Properties.                                                             *)

(* Type correctness of every row, job and copy.                            *)
TypeOK ==
    /\ event \in Event
    /\ row \in [Guests -> Row]
    /\ job \in [Guests -> Job]
    /\ req \in [Slots -> Req]
    /\ now \in Nat
    /\ offered \subseteq Guests
    /\ maxCap \in Nat

(* The seats of guests admitted without an offer never exceed the greatest *)
(* capacity the event ever had, whatever registrations, offers, expiries   *)
(* and capacity edits overlap: the check and the insert of                 *)
(* createIfCapacity are one transaction.  What offers take comes on top.   *)
WalkUpsFit == Cardinality(SeatsOf(ActiveGuests \ offered)) <= maxCap

(* With handlers that do not overlap: every held seat is accepted or       *)
(* expires, if its end lies within the clock's bound.                      *)
HoldEnds == \A g \in Guests :
    (row[g].status = "offered" /\ row[g].until <= MaxTime) ~> (row[g].status # "offered")

(* The seats in use fit the greatest capacity the event ever had, held     *)
(* ones included.  True of handlers that do not overlap and registrations  *)
(* of one seat; beyond that an offer ("A seat is reserved for you until    *)
(* ...") may have no seat behind it.                                       *)
OfferBacksASeat == Taken <= maxCap
=============================================================================
