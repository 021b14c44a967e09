------------------------ MODULE RegistrationsProofs ------------------------
(***************************************************************************)
(* Proofs about Registrations: its types, that walk-up admissions fit the  *)
(* capacity for any number of guests, handlers, seats and ticks, and that  *)
(* an offer has a seat behind it while handlers take turns.                *)
(***************************************************************************)
EXTENDS MCRegistrations, FiniteSetTheorems, TLAPS

(* The rows every handler starts from and ends with are well typed.        *)
LEMMA Blanks == NoRow \in Row /\ NoJob \in Job /\ Idle \in Req /\ NoEvent \in Event
BY BoundsAssumption DEF NoRow, Row, Statuses, NoJob, Job, Idle, Req, PCs, NoEvent, Event

(* Inserting a well-typed row keeps the table well typed.                  *)
LEMMA InsertType ==
    ASSUME TypeOK, NEW g, NEW r \in Row, g \in Guests, Insert(g, r)
    PROVE  row' \in [Guests -> Row]
BY DEF TypeOK, Insert

(* Handlers in the middle of a registration or an offer name a guest.      *)
Serving == \A s \in Slots :
    req[s].pc \in {"reserve", "position", "enlist", "confirm", "offer", "schedule"}
        => req[s].guest \in Guests

(* Types are preserved by every action; Serving is needed where a handler  *)
(* writes the row of the guest it serves.                                  *)
TypeInv == TypeOK /\ Serving

LEMMA TypeStep == TypeInv /\ [Next]_vars => TypeInv'
<1> SUFFICES ASSUME TypeInv, [Next]_vars PROVE TypeInv'
  OBVIOUS
<1> USE Blanks DEF TypeInv
<1>1. ASSUME NEW s \in Slots, NEW g \in Guests, NEW q \in 1 .. MaxQuantity, BeginRegister(s, g, q)
      PROVE TypeInv'
  <2> DEFINE r == [status |-> InitialStatus(event), qty |-> q, pos |-> 0, until |-> 0, created |-> now]
  <2>1. r \in Row
    BY BoundsAssumption DEF Row, Statuses, TypeOK, InitialStatus
  <2>2. [Idle EXCEPT !.pc = "reserve", !.event = event, !.guest = g, !.row = r] \in Req
    BY <2>1 DEF Idle, Req, PCs, TypeOK
  <2> QED
    BY <1>1, <2>2 DEF BeginRegister, TypeOK, Serving, Req
<1>2. ASSUME NEW s \in Slots, Reserve(s) PROVE TypeInv'
  BY <1>2, InsertType DEF Reserve, TypeOK, Serving, Req, Finish, Goto, PCs, Idle
<1>3. ASSUME NEW s \in Slots, TakePosition(s) PROVE TypeInv'
  <2> DEFINE queue == {g \in Guests : row[g].status \in {"waitlisted", "offered"}}
             r == [req[s].row EXCEPT !.status = "waitlisted", !.pos = Cardinality(queue) + 1]
  <2>1. Cardinality(queue) \in Nat
    BY GuestsAssumption, FS_Subset, FS_CardinalityType
  <2> HIDE DEF queue
  <2>2. req[s] \in Req /\ req[s].row \in Row /\ req[s].guest \in Guests
    BY <1>3 DEF TakePosition, TypeOK, Serving, Req
  <2>3. r \in Row
    <3> DEFINE old == req[s].row
               n == Cardinality(queue) + 1
    <3>1. old \in Row /\ n \in Nat
      BY <2>1, <2>2
    <3> HIDE DEF old, n
    <3>2. [old EXCEPT !.status = "waitlisted", !.pos = n] \in Row
      BY <3>1 DEF Row, Statuses
    <3> QED
      BY <3>2 DEF old, n
  <2>4. req' = [req EXCEPT ![s] = [req[s] EXCEPT !.pc = "enlist", !.row = r]]
    BY <1>3, <2>2 DEF TakePosition, TypeOK, queue, Req, Row
  <2> HIDE DEF r
  <2>5. [req[s] EXCEPT !.pc = "enlist", !.row = r] \in Req
    BY <2>2, <2>3 DEF Req, PCs
  <2>6. req' \in [Slots -> Req] /\ Serving'
    BY <2>2, <2>4, <2>5 DEF TypeOK, Serving, Req
  <2> QED
    BY <1>3, <2>6 DEF TakePosition, TypeOK
<1>4. ASSUME NEW s \in Slots, Enlist(s) PROVE TypeInv'
  BY <1>4, InsertType DEF Enlist, TypeOK, Serving, Req, Finish, Idle
<1>5. ASSUME NEW s \in Slots, NEW g \in Guests, BeginAccept(s, g) PROVE TypeInv'
  <2> DEFINE held == {[guest |-> g, row |-> row[g]]}
  <2>a. held \subseteq Held
    BY DEF Held, TypeOK
  <2> HIDE DEF held
  <2>1. [Idle EXCEPT !.pc = "expire", !.due = held] \in Req
    BY <2>a DEF Req, PCs
  <2>2. [Idle EXCEPT !.pc = "confirm", !.guest = g, !.row = row[g]] \in Req
    BY DEF Idle, Req, PCs, TypeOK
  <2> QED
    BY <1>5, <2>1, <2>2 DEF BeginAccept, TypeOK, Serving, Idle, held
<1>6. ASSUME NEW s \in Slots, Confirm(s) PROVE TypeInv'
  BY <1>6 DEF Confirm, TypeOK, Serving, Req, Finish, Idle, Row, Statuses
<1>7. ASSUME NEW s \in Slots, NEW g \in Guests, BeginExpireDue(s, g) PROVE TypeInv'
  <2>1. DueRows \subseteq Held
    BY DEF DueRows, Held, TypeOK
  <2> DEFINE rec == [Idle EXCEPT !.pc = "expire", !.due = DueRows, !.job = g]
  <2>2. rec \in Req
    BY <2>1 DEF Req, PCs
  <2>5. rec.pc = "expire" /\ (UNCHANGED req \/ req' = [req EXCEPT ![s] = rec])
    BY <1>7 DEF BeginExpireDue, Idle
  <2> HIDE DEF rec
  <2>3. req' \in [Slots -> Req] /\ Serving'
    BY <2>2, <2>5 DEF TypeOK, Serving
  <2>4. job' \in [Guests -> Job]
    BY <1>7 DEF BeginExpireDue, TypeOK, JobDone, Job
  <2> QED
    BY <1>7, <2>3, <2>4 DEF BeginExpireDue, TypeOK
<1>8. ASSUME NEW s \in Slots, ExpireOne(s) PROVE TypeInv'
  BY <1>8 DEF ExpireOne, TypeOK, Serving, Req, PCs, Held, Row, Statuses
<1>9. ASSUME NEW s \in Slots, BeginPromote(s) PROVE TypeInv'
  BY <1>9 DEF BeginPromote, TypeOK, Serving, Req, Idle, PCs
<1>10. ASSUME NEW s \in Slots, ListWaitlist(s) PROVE TypeInv'
  <2>1. CASE Continue(s)
    <3>1. req' \in [Slots -> Req] /\ Serving'
      BY <2>1 DEF Continue, Goto, Finish, TypeOK, Serving, Req, Idle, PCs
    <3>2. job' \in [Guests -> Job]
      BY <2>1 DEF Continue, JobDone, TypeOK, Serving, Job
    <3> QED
      BY <1>10, <3>1, <3>2 DEF ListWaitlist, TypeOK
  <2>2. ASSUME NEW g \in Guests, UNCHANGED job,
               req' = [req EXCEPT ![s].pc = "offer", ![s].guest = g, ![s].row = row[g]]
        PROVE TypeInv'
    <3>1. "offer" \in PCs /\ row[g] \in Row
      BY DEF PCs, TypeOK
    <3> DEFINE r == [req[s] EXCEPT !.pc = "offer", !.guest = g, !.row = row[g]]
    <3>2. r \in Req /\ r.guest = g
      BY <3>1 DEF TypeOK, Req
    <3>3. req' = [req EXCEPT ![s] = r]
      BY <2>2
    <3> HIDE DEF r
    <3>4. req' \in [Slots -> Req] /\ Serving'
      BY <3>2, <3>3 DEF TypeOK, Serving
    <3> QED
      BY <1>10, <2>2, <3>4 DEF ListWaitlist, TypeOK
  <2> QED
    BY <1>10, <2>1, <2>2 DEF ListWaitlist, Waiting
<1>11. ASSUME NEW s \in Slots, Offer(s) PROVE TypeInv'
  <2>1. /\ req[s] \in Req /\ req[s].row \in Row /\ req[s].guest \in Guests
        /\ now + OfferTicks \in Nat
    BY <1>11, BoundsAssumption DEF Offer, TypeOK, Serving, Req
  <2>2. [req[s].row EXCEPT !.status = "offered", !.until = now + OfferTicks] \in Row
    BY <2>1 DEF Row, Statuses
  <2>3. row' \in [Guests -> Row]
    BY <1>11, <2>2 DEF Offer, TypeOK
  <2>4. [req[s].row EXCEPT !.until = now + OfferTicks] \in Row
    BY <2>1 DEF Row
  <2>5. [req[s] EXCEPT !.pc = "schedule",
                       !.row = [req[s].row EXCEPT !.until = now + OfferTicks]] \in Req
    BY <2>1, <2>4 DEF Req, PCs
  <2>6. req' \in [Slots -> Req] /\ Serving'
    BY <1>11, <2>1, <2>5 DEF Offer, TypeOK, Serving, Req
  <2> QED
    BY <1>11, <2>1, <2>3, <2>6 DEF Offer, TypeOK
<1>12. ASSUME NEW s \in Slots, Schedule(s) PROVE TypeInv'
  <2>1. req' \in [Slots -> Req] /\ Serving'
    BY <1>12 DEF Schedule, Goto, Finish, TypeOK, Serving, Req, Idle, PCs
  <2>2. req[s].row.until \in Nat
    BY DEF TypeOK, Req, Row
  <2>3. Enqueue(req[s].guest, req[s].row.until) \in [Guests -> Job]
    BY <2>2 DEF Enqueue, TypeOK, Job
  <2>4. job' \in [Guests -> Job]
    BY <1>12, <2>3 DEF Schedule, TypeOK, Job
  <2> QED
    BY <1>12, <2>1, <2>4 DEF Schedule, TypeOK
<1>13. ASSUME NEW g \in Guests, Release(g) PROVE TypeInv'
  BY <1>13 DEF Release, TypeOK, Serving, Row, Statuses
<1>14. ASSUME NEW c \in Capacities, NEW w \in BOOLEAN, UpdateEvent(c, w) PROVE TypeInv'
  BY <1>14, CapacitiesAssumption DEF UpdateEvent, TypeOK, Serving, Event
<1>15. CASE Tick
  BY <1>15 DEF Tick, TypeOK, Serving
<1>16. CASE UNCHANGED vars
  BY <1>16 DEF vars, TypeOK, Serving
<1> QED
  BY <1>1, <1>2, <1>3, <1>4, <1>5, <1>6, <1>7, <1>8, <1>9, <1>10, <1>11, <1>12, <1>13,
     <1>14, <1>15, <1>16 DEF Next, Request, Step, Work

(* Every row, job and copy of a handler keeps its type.                    *)
THEOREM TypeCorrect == Spec => []TypeOK
<1>1. Init => TypeInv
  BY Blanks, CapacitiesAssumption
  DEF Init, TypeInv, TypeOK, Serving, Idle, Event
<1>2. TypeInv => TypeOK
  BY DEF TypeInv
<1> QED
  BY <1>1, <1>2, TypeStep, PTL DEF Spec

-----------------------------------------------------------------------------
(* Walk-up admissions fit the capacity.                                    *)

(* The strengthening: capacities in hand are no greater than maxCap, and   *)
(* whoever holds or is about to be given an offered seat is in offered.    *)
OfferedKnown ==
    /\ \A g \in Guests : row[g].status = "offered" => g \in offered
    /\ \A s \in Slots : req[s].pc = "confirm" => req[s].guest \in offered
CapsKnown ==
    /\ event.capacity <= maxCap
    /\ \A s \in Slots : req[s].event.capacity <= maxCap
Candidates == \A s \in Slots :
    /\ req[s].pc = "reserve" => req[s].row.status \in {"pending", "confirmed"}
    /\ req[s].pc = "enlist" => req[s].row.status = "waitlisted"

IInv == TypeInv /\ OfferedKnown /\ CapsKnown /\ Candidates /\ WalkUpsFit

(* Seats are finitely many, so their number is a natural number.           *)
LEMMA SeatsFinite ==
    ASSUME NEW G
    PROVE  IsFiniteSet(SeatsOf(G)) /\ Cardinality(SeatsOf(G)) \in Nat
<1>1. IsFiniteSet(1 .. MaxQuantity)
  BY BoundsAssumption, FS_Interval
<1>2. IsFiniteSet(Guests \X (1 .. MaxQuantity))
  BY <1>1, GuestsAssumption, FS_Product
<1>3. SeatsOf(G) \subseteq Guests \X (1 .. MaxQuantity)
  BY DEF SeatsOf
<1> QED
  BY <1>2, <1>3, FS_Subset, FS_CardinalityType

(* A step that admits nobody without an offer leaves room as it was.       *)
LEMMA NobodyWalksUp ==
    ASSUME IInv, maxCap' \in Nat, maxCap <= maxCap', offered \subseteq offered',
           \A g \in Guests : row'[g].status \in Active /\ g \notin offered'
               => row[g].status \in Active /\ row'[g].qty = row[g].qty
    PROVE  WalkUpsFit'
<1> DEFINE S == SeatsOf(ActiveGuests \ offered)
<1>1. S' \subseteq S
  BY DEF SeatsOf, ActiveGuests
<1>2. IsFiniteSet(S) /\ Cardinality(S) \in Nat
  BY SeatsFinite
<1>3. Cardinality(S') <= Cardinality(S) /\ Cardinality(S') \in Nat
  BY <1>1, <1>2, FS_Subset, FS_CardinalityType
<1>4. Cardinality(S) <= maxCap /\ maxCap \in Nat
  BY DEF IInv, WalkUpsFit, TypeInv, TypeOK
<1>5. Cardinality(S') <= maxCap'
  <2> HIDE DEF S
  <2> QED
    BY <1>2, <1>3, <1>4
<1> QED
  BY <1>5 DEF WalkUpsFit

(* The reservation transaction admits a guest only into free seats.        *)
LEMMA ReserveFits ==
    ASSUME IInv, NEW s \in Slots, Reserve(s), row' # row
    PROVE  WalkUpsFit'
<1> DEFINE g == req[s].guest
           q == req[s].row.qty
           A == SeatsOf(ActiveGuests)
           N == {g} \X (1 .. q)
           W == SeatsOf(ActiveGuests \ offered)
<1>1. /\ g \in Guests /\ q \in 0 .. MaxQuantity /\ q \in Nat
      /\ row \in [Guests -> Row] /\ maxCap \in Nat
  BY BoundsAssumption DEF IInv, TypeInv, TypeOK, Serving, Reserve, Req, Row
<1>2. /\ Cardinality(A) + q <= req[s].event.capacity
      /\ row' = [row EXCEPT ![g] = req[s].row]
      /\ UNCHANGED <<offered, maxCap>>
  BY DEF Reserve, HasRoom, Taken, Insert
<1>3. req[s].event.capacity <= maxCap /\ req[s].event.capacity \in Nat
  BY DEF IInv, CapsKnown, TypeInv, TypeOK, Req, Event
<1>4. W' \subseteq A \cup N
  BY <1>1, <1>2 DEF SeatsOf, ActiveGuests
<1>5. IsFiniteSet(N) /\ Cardinality(N) = q
  <2>1. IsFiniteSet(1 .. q) /\ Cardinality(1 .. q) = q
    <3>1. q \in Nat
      BY <1>1
    <3> HIDE DEF q
    <3> QED
      BY <3>1, FS_Interval
  <2>2. IsFiniteSet({g}) /\ Cardinality({g}) = 1
    BY FS_Singleton
  <2> QED
    BY <2>1, <2>2, <1>1, FS_Product
<1>6. IsFiniteSet(A) /\ Cardinality(A) \in Nat
  BY SeatsFinite
<1>7. IsFiniteSet(A \cup N) /\ Cardinality(A \cup N) <= Cardinality(A) + q
  <2> HIDE DEF A, N
  <2>0. A \cap N \in SUBSET A
    OBVIOUS
  <2>a. IsFiniteSet(A \cap N)
    BY <2>0, <1>6, FS_Subset
  <2>1. Cardinality(A \cap N) \in Nat
    BY <2>a, FS_CardinalityType
  <2>2. /\ IsFiniteSet(A \cup N)
        /\ Cardinality(A \cup N) = Cardinality(A) + Cardinality(N) - Cardinality(A \cap N)
    BY <1>5, <1>6, FS_Union
  <2> QED
    BY <2>1, <2>2, <1>5, <1>6, <1>1
<1>8. Cardinality(W') <= Cardinality(A \cup N) /\ Cardinality(W') \in Nat
      /\ Cardinality(A \cup N) \in Nat
  BY <1>4, <1>7, FS_Subset, FS_CardinalityType
<1>9. Cardinality(W') <= maxCap'
  <2> HIDE DEF W, A, N, q
  <2> QED
    BY <1>1, <1>2, <1>3, <1>6, <1>7, <1>8
<1> QED
  BY <1>9 DEF WalkUpsFit
LEMMA SeatStep == IInv /\ [Next]_vars => IInv'
<1> DEFINE Rest == OfferedKnown /\ CapsKnown /\ Candidates
<1> SUFFICES ASSUME IInv, [Next]_vars PROVE Rest' /\ WalkUpsFit'
  BY TypeStep DEF IInv
<1>t. TypeOK /\ TypeOK' /\ Serving
  BY TypeStep DEF IInv, TypeInv
<1> USE DEF OfferedKnown, CapsKnown, Candidates
<1>r. Rest
  BY DEF IInv
<1>n. maxCap \in Nat /\ maxCap' \in Nat
  BY <1>t DEF TypeOK
<1>i. Idle.pc = "idle" /\ Idle.event.capacity <= maxCap
  BY <1>n DEF Idle, NoEvent
<1>1. ASSUME NEW s \in Slots, NEW g \in Guests, NEW q \in 1 .. MaxQuantity, BeginRegister(s, g, q)
      PROVE Rest' /\ WalkUpsFit'
  <2>1. WalkUpsFit'
    BY <1>1, <1>n, NobodyWalksUp DEF BeginRegister
  <2> QED
    BY <1>1, <1>r, <1>t, <2>1 DEF BeginRegister, TypeOK, Idle, InitialStatus
<1>2. ASSUME NEW s \in Slots, Reserve(s) PROVE Rest' /\ WalkUpsFit'
  <2>1. WalkUpsFit'
    <3>1. CASE row' # row
      BY <1>2, <3>1, ReserveFits
    <3>2. CASE row' = row
      BY <1>2, <3>2, <1>n, NobodyWalksUp DEF Reserve
    <3> QED
      BY <3>1, <3>2
  <2>2. \A t \in Slots : \/ req'[t] = req[t] \/ req'[t] = Idle
                         \/ req'[t].pc = "position" /\ req'[t].event = req[t].event
    BY <1>2, <1>t DEF Reserve, TypeOK, Finish, Goto, Req
  <2>a. \A g \in Guests : row'[g] = row[g] \/ row'[g].status # "offered"
    BY <1>2, <1>r, <1>t DEF Reserve, TypeOK, Insert
  <2>3. OfferedKnown'
    BY <1>2, <1>r, <1>i, <2>2, <2>a DEF Reserve
  <2>4. CapsKnown' /\ Candidates'
    BY <1>2, <1>r, <1>i, <2>2 DEF Reserve
  <2> QED
    BY <2>1, <2>3, <2>4
<1>3. ASSUME NEW s \in Slots, TakePosition(s) PROVE Rest' /\ WalkUpsFit'
  <2>1. WalkUpsFit'
    BY <1>3, <1>n, NobodyWalksUp DEF TakePosition
  <2> QED
    BY <1>3, <1>r, <1>t, <2>1 DEF TakePosition, TypeOK, Req, Row
<1>4. ASSUME NEW s \in Slots, Enlist(s) PROVE Rest' /\ WalkUpsFit'
  <2>1. req[s].row.status = "waitlisted" /\ req[s].guest \in Guests
    BY <1>4, <1>r, <1>t DEF Enlist, Serving
  <2>2. WalkUpsFit'
    BY <1>4, <1>n, <1>t, <2>1, NobodyWalksUp DEF Enlist, Insert, Active, TypeOK
  <2> QED
    BY <1>4, <1>r, <1>t, <1>i, <2>1, <2>2 DEF Enlist, TypeOK, Finish, Insert
<1>5. ASSUME NEW s \in Slots, NEW g \in Guests, BeginAccept(s, g) PROVE Rest' /\ WalkUpsFit'
  <2>1. WalkUpsFit'
    BY <1>5, <1>n, NobodyWalksUp DEF BeginAccept
  <2> QED
    BY <1>5, <1>r, <1>t, <1>n, <2>1 DEF BeginAccept, TypeOK, Idle, NoEvent
<1>6. ASSUME NEW s \in Slots, Confirm(s) PROVE Rest' /\ WalkUpsFit'
  <2>1. req[s].guest \in offered /\ req[s].guest \in Guests
    BY <1>6, <1>r, <1>t DEF Confirm, Serving
  <2>2. WalkUpsFit'
    BY <1>6, <1>n, <1>t, <2>1, NobodyWalksUp DEF Confirm, TypeOK
  <2> QED
    BY <1>6, <1>r, <1>t, <1>i, <2>1, <2>2 DEF Confirm, TypeOK, Finish
<1>7. ASSUME NEW s \in Slots, NEW g \in Guests, BeginExpireDue(s, g) PROVE Rest' /\ WalkUpsFit'
  <2>1. WalkUpsFit'
    BY <1>7, <1>n, NobodyWalksUp DEF BeginExpireDue
  <2> QED
    <3>1. \A t \in Slots : \/ req'[t] = req[t]
                           \/ req'[t].pc = "expire" /\ req'[t].event = NoEvent
      <4> DEFINE rec == [Idle EXCEPT !.pc = "expire", !.due = DueRows, !.job = g]
      <4>1. rec.pc = "expire" /\ rec.event = NoEvent
        BY DEF Idle
      <4>2. UNCHANGED req \/ req' = [req EXCEPT ![s] = rec]
        BY <1>7 DEF BeginExpireDue
      <4>3. req \in [Slots -> Req]
        BY <1>t DEF TypeOK
      <4> HIDE DEF rec
      <4>4. ASSUME NEW t \in Slots
            PROVE  req'[t] = req[t] \/ req'[t] = rec
        BY <4>2, <4>3, <4>4
      <4> QED
        BY <4>1, <4>4
    <3>2. NoEvent.capacity <= maxCap
      BY <1>n DEF NoEvent
    <3> QED
      BY <1>7, <1>r, <2>1, <3>1, <3>2 DEF BeginExpireDue
<1>8. ASSUME NEW s \in Slots, ExpireOne(s) PROVE Rest' /\ WalkUpsFit'
  <2> PICK d \in req[s].due :
        /\ row' = [row EXCEPT ![d.guest] = [d.row EXCEPT !.status = "expired"]]
        /\ req' = [req EXCEPT ![s].pc = "list", ![s].due = @ \ {d}]
    BY <1>8 DEF ExpireOne
  <2>1. d \in Held
    BY <1>t DEF TypeOK, Req
  <2>2. \A g \in Guests : row'[g] = row[g] \/ row'[g].status = "expired"
    BY <1>t, <2>1 DEF TypeOK, Held, Row
  <2>3. WalkUpsFit'
    BY <1>8, <1>n, <2>2, NobodyWalksUp DEF ExpireOne, Active
  <2> QED
    BY <1>8, <1>r, <1>t, <2>2, <2>3 DEF ExpireOne, TypeOK
<1>9. ASSUME NEW s \in Slots, BeginPromote(s) PROVE Rest' /\ WalkUpsFit'
  <2>1. WalkUpsFit'
    BY <1>9, <1>n, NobodyWalksUp DEF BeginPromote
  <2> QED
    BY <1>9, <1>r, <1>t, <1>n, <2>1 DEF BeginPromote, TypeOK, Idle, NoEvent
<1>10. ASSUME NEW s \in Slots, ListWaitlist(s) PROVE Rest' /\ WalkUpsFit'
  <2>1. WalkUpsFit'
    <3>1. UNCHANGED <<event, row, offered, maxCap>>
      BY <1>10 DEF ListWaitlist
    <3> QED
      BY <3>1, <1>n, NobodyWalksUp
  <2>2. \A t \in Slots : \/ req'[t] = req[t] \/ req'[t] = Idle
                         \/ req'[t].pc \in {"expire", "offer"} /\ req'[t].event = req[t].event
    <3>1. CASE Continue(s)
      BY <3>1, <1>t DEF TypeOK, Continue, Goto, Finish, Req
    <3>2. CASE \E g \in Waiting :
                 req' = [req EXCEPT ![s].pc = "offer", ![s].guest = g, ![s].row = row[g]]
      BY <3>2, <1>t DEF TypeOK, Req
    <3> QED
      BY <1>10, <3>1, <3>2 DEF ListWaitlist
  <2> QED
    BY <1>10, <1>r, <1>i, <2>1, <2>2 DEF ListWaitlist
<1>11. ASSUME NEW s \in Slots, Offer(s) PROVE Rest' /\ WalkUpsFit'
  <2>1. WalkUpsFit'
    BY <1>11, <1>n, <1>t, NobodyWalksUp DEF Offer, TypeOK
  <2> QED
    BY <1>11, <1>r, <1>t, <2>1 DEF Offer, TypeOK, Serving
<1>12. ASSUME NEW s \in Slots, Schedule(s) PROVE Rest' /\ WalkUpsFit'
  <2>1. WalkUpsFit'
    BY <1>12, <1>n, NobodyWalksUp DEF Schedule
  <2> QED
    <3>1. \A t \in Slots : \/ req'[t] = req[t] \/ req'[t] = Idle
                           \/ req'[t].pc = "expire" /\ req'[t].event = req[t].event
      BY <1>12, <1>t DEF Schedule, TypeOK, Goto, Finish, Req
    <3> QED
      BY <1>12, <1>r, <1>i, <2>1, <3>1 DEF Schedule
<1>13. ASSUME NEW g \in Guests, Release(g) PROVE Rest' /\ WalkUpsFit'
  <2>1. WalkUpsFit'
    BY <1>13, <1>n, <1>t, NobodyWalksUp DEF Release, TypeOK, Active
  <2> QED
    BY <1>13, <1>r, <1>t, <2>1 DEF Release, TypeOK, Row
<1>14. ASSUME NEW c \in Capacities, NEW w \in BOOLEAN, UpdateEvent(c, w) PROVE Rest' /\ WalkUpsFit'
  <2>1. c \in Nat /\ maxCap <= maxCap' /\ c <= maxCap'
    BY <1>14, <1>n, CapacitiesAssumption DEF UpdateEvent
  <2>2. WalkUpsFit'
    BY <1>14, <1>n, <2>1, NobodyWalksUp DEF UpdateEvent
  <2>3. \A s \in Slots : req[s].event.capacity \in Nat
    BY <1>t DEF TypeOK, Req, Event
  <2> QED
    BY <1>14, <1>n, <1>r, <1>t, <2>1, <2>2, <2>3 DEF UpdateEvent, TypeOK, Event
<1>15. CASE Tick
  <2>1. WalkUpsFit'
    BY <1>15, <1>n, NobodyWalksUp DEF Tick
  <2> QED
    BY <1>15, <1>r, <2>1 DEF Tick
<1>16. CASE UNCHANGED vars
  BY <1>16, <1>r DEF vars, IInv, WalkUpsFit, SeatsOf, ActiveGuests
<1> QED
  BY <1>1, <1>2, <1>3, <1>4, <1>5, <1>6, <1>7, <1>8, <1>9, <1>10, <1>11, <1>12, <1>13,
     <1>14, <1>15, <1>16 DEF Next, Request, Step, Work

LEMMA SeatInit == Init => IInv
<1> SUFFICES ASSUME Init PROVE IInv
  OBVIOUS
<1>1. event \in Event /\ event.capacity \in Nat /\ maxCap = event.capacity
  BY CapacitiesAssumption DEF Init, Event
<1>2. TypeInv
  BY <1>1, Blanks DEF Init, TypeInv, TypeOK, Serving, Idle
<1>3. OfferedKnown /\ CapsKnown /\ Candidates
  BY <1>1 DEF Init, Idle, NoEvent, NoRow, OfferedKnown, CapsKnown, Candidates
<1>4. SeatsOf(ActiveGuests \ offered) = {}
  BY DEF Init, SeatsOf, ActiveGuests, NoRow, Active
<1>5. WalkUpsFit
  BY <1>1, <1>4, FS_EmptySet DEF WalkUpsFit
<1> QED
  BY <1>2, <1>3, <1>5 DEF IInv

(* Whatever registrations, offers, acceptances, expiries, refunds and      *)
(* edits of the capacity overlap, guests admitted without an offer hold no *)
(* more seats than the greatest capacity the event ever had.               *)
THEOREM WalkUpsAlwaysFit == Spec => []WalkUpsFit
<1>1. IInv => WalkUpsFit
  BY DEF IInv
<1> QED
  BY <1>1, SeatInit, SeatStep, PTL DEF Spec

-----------------------------------------------------------------------------
(* An offer has a seat behind it while handlers take turns.                *)

(* At most one handler is under way, and a registration asks for one seat. *)
InTurn == \A s, t \in Slots : s = t \/ req[s].pc = "idle" \/ req[t].pc = "idle"
OneSeatEach ==
    /\ \A g \in Guests : row[g].qty <= 1
    /\ \A s \in Slots : req[s].row.qty <= 1

(* What the handler under way holds is what the table holds: the offers it *)
(* is about to confirm or expire, and the waiting guest it is about to     *)
(* offer the seat it knows to be free.                                     *)
Fresh(r) ==
    /\ r.pc \in {"reserve", "position", "enlist"} => r.row.qty >= 1
    /\ r.pc = "confirm" => row[r.guest] = r.row /\ r.row.status = "offered"
    /\ \A d \in r.due : row[d.guest] = d.row /\ d.row.status = "offered"
    /\ r.pc = "offer" => row[r.guest] = r.row /\ r.row.status = "waitlisted"
    /\ r.pc \in {"list", "offer"} => Taken < maxCap

Seated == \A g \in Guests : row[g].status # "none" => row[g].qty >= 1
AllFresh == \A s \in Slots : req[s].pc # "idle" => Fresh(req[s])

OfferInv == IInv /\ Seated /\ AllFresh /\ OfferBacksASeat

(* No seat is taken by a step that makes no row active.                    *)
LEMMA NoSeatTaken ==
    ASSUME \A g \in Guests : row'[g].status \in Active
               => row[g].status \in Active /\ row'[g].qty = row[g].qty
    PROVE  Taken' \in Nat /\ Taken \in Nat /\ Taken' <= Taken
<1> DEFINE A == SeatsOf(ActiveGuests)
<1>1. A' \subseteq A
  BY DEF SeatsOf, ActiveGuests
<1>2. IsFiniteSet(A) /\ Cardinality(A) \in Nat
  BY SeatsFinite
<1>3. Cardinality(A') <= Cardinality(A) /\ Cardinality(A') \in Nat
  BY <1>1, <1>2, FS_Subset, FS_CardinalityType
<1> QED
  BY <1>2, <1>3 DEF Taken

(* One guest of one seat made active takes at most one seat.               *)
LEMMA SeatGiven ==
    ASSUME TypeOK, TypeOK', NEW g \in Guests, row'[g].qty <= 1,
           \A h \in Guests \ {g} : row'[h] = row[h]
    PROVE  Taken' \in Nat /\ Taken \in Nat /\ Taken' <= Taken + 1
<1> DEFINE A == SeatsOf(ActiveGuests)
           seat == <<g, 1>>
<1>1. A' \subseteq A \cup {seat}
  <2> SUFFICES ASSUME NEW p \in A', p # seat PROVE p \in A
    OBVIOUS
  <2>1. /\ p \in Guests \X (1 .. MaxQuantity) /\ p[1] \in ActiveGuests'
        /\ p[2] <= row'[p[1]].qty
    BY DEF SeatsOf
  <2>2. p[1] # g
    <3>1. p[1] \in Guests /\ p[2] \in 1 .. MaxQuantity /\ p = <<p[1], p[2]>>
      BY <2>1
    <3>2. SUFFICES ASSUME p[1] = g PROVE FALSE
      OBVIOUS
    <3>3. p[2] <= 1 /\ p[2] \in Nat /\ p[2] >= 1
      <4>1. row'[g].qty \in Nat
        BY BoundsAssumption DEF TypeOK, Row
      <4> QED
        BY <2>1, <3>1, <3>2, <4>1, BoundsAssumption
    <3>4. p[2] = 1
      BY <3>3
    <3> QED
      BY <3>1, <3>2, <3>4
  <2>3. row'[p[1]] = row[p[1]]
    BY <2>1, <2>2
  <2> QED
    BY <2>1, <2>3 DEF SeatsOf, ActiveGuests
<1>2. IsFiniteSet(A) /\ Cardinality(A) \in Nat
  BY SeatsFinite
<1> HIDE DEF A, seat
<1>3. /\ IsFiniteSet(A \cup {seat})
      /\ Cardinality(A \cup {seat}) \in {Cardinality(A), Cardinality(A) + 1}
  BY <1>2, FS_AddElement
<1>4. Cardinality(A') <= Cardinality(A \cup {seat}) /\ Cardinality(A') \in Nat
  BY <1>1, <1>3, FS_Subset, FS_CardinalityType
<1> QED
  BY <1>2, <1>3, <1>4 DEF Taken, A

(* A guest that held a seat and is active no more frees one.               *)
LEMMA SeatFreed ==
    ASSUME TypeOK, NEW g \in Guests, row[g].status \in Active, row[g].qty >= 1,
           row'[g].status \notin Active, \A h \in Guests \ {g} : row'[h] = row[h]
    PROVE  Taken' \in Nat /\ Taken \in Nat /\ Taken' + 1 <= Taken
<1> DEFINE A == SeatsOf(ActiveGuests)
           seat == <<g, 1>>
<1>1. A' \subseteq A \ {seat}
  BY DEF SeatsOf, ActiveGuests
<1>2. seat \in A
  BY BoundsAssumption DEF SeatsOf, ActiveGuests
<1>3. IsFiniteSet(A) /\ Cardinality(A) \in Nat
  BY SeatsFinite
<1> HIDE DEF A, seat
<1>4. IsFiniteSet(A \ {seat}) /\ Cardinality(A \ {seat}) = Cardinality(A) - 1
  BY <1>2, <1>3, FS_RemoveElement
<1>5. /\ Cardinality(A') <= Cardinality(A \ {seat})
      /\ Cardinality(A') \in Nat /\ Cardinality(A \ {seat}) \in Nat
  BY <1>1, <1>4, FS_Subset, FS_CardinalityType
<1> QED
  BY <1>3, <1>4, <1>5 DEF Taken, A

(* The handler that steps is the only one under way, before and after.     *)
LEMMA OnlyOne ==
    ASSUME TypeOK, TypeOK', InTurn, NEW s \in Slots, req[s].pc # "idle",
           \A t \in Slots \ {s} : req'[t] = req[t],
           req'[s].pc # "idle" => Fresh(req[s])'
    PROVE  AllFresh'
BY DEF AllFresh, InTurn

LEMMA OnlyNew ==
    ASSUME InTurn', NEW s \in Slots, req'[s].pc # "idle", Fresh(req[s])'
    PROVE  AllFresh'
BY DEF AllFresh, InTurn

(* promoteWaitlist is called once a seat is free.                          *)
SeatFirst == \A s \in Slots : req[s].pc = "idle" /\ req'[s].pc = "list" => Taken < event.capacity

LEMMA OfferStep ==
    /\ OfferInv /\ InTurn /\ InTurn' /\ OneSeatEach /\ OneSeatEach'
    /\ [Next]_vars /\ [SeatFirst]_vars
    => OfferInv'
<1> SUFFICES ASSUME OfferInv, InTurn, InTurn', OneSeatEach, OneSeatEach',
                    [Next]_vars, [SeatFirst]_vars
             PROVE  Seated' /\ AllFresh' /\ OfferBacksASeat'
  BY SeatStep DEF OfferInv
<1>i. IInv /\ IInv'
  BY SeatStep DEF OfferInv
<1>t. TypeOK /\ TypeOK' /\ Serving /\ CapsKnown /\ Candidates
  BY <1>i DEF IInv, TypeInv
<1>m. maxCap \in Nat /\ maxCap' \in Nat
  BY <1>t DEF TypeOK
<1>n. /\ maxCap \in Nat /\ maxCap' \in Nat
      /\ \A g \in Guests : row[g] \in Row /\ row'[g] \in Row
                           /\ row[g].qty \in Nat /\ row'[g].qty \in Nat
  BY <1>t, BoundsAssumption DEF TypeOK, Row
<1>o. Seated /\ AllFresh /\ Taken <= maxCap
  BY DEF OfferInv, OfferBacksASeat
<1>k. Taken \in Nat
  BY SeatsFinite DEF Taken
<1>s. ASSUME NEW s \in Slots
      PROVE  /\ req[s] \in Req /\ req[s].row \in Row /\ req[s].row.qty \in Nat
             /\ req[s].row.qty <= 1 /\ req[s].due \subseteq Held
             /\ req[s].pc # "idle" => Fresh(req[s])
  <2>1. req[s] \in Req /\ req[s].row \in Row
    BY <1>t, <1>s DEF TypeOK, Req
  <2> QED
    BY <1>s, <1>o, <2>1, BoundsAssumption DEF Req, Row, OneSeatEach, AllFresh
<1>u. ASSUME UNCHANGED row PROVE Taken' = Taken /\ Seated'
  BY <1>u, <1>o DEF Taken, SeatsOf, ActiveGuests, Seated
<1>1. ASSUME NEW s \in Slots, NEW g \in Guests, NEW q \in 1 .. MaxQuantity, BeginRegister(s, g, q)
      PROVE Seated' /\ AllFresh' /\ OfferBacksASeat'
  <2>1. /\ UNCHANGED <<row, maxCap>>
        /\ req'[s].pc = "reserve" /\ req'[s].row.qty = q /\ req'[s].due = {}
    BY <1>1, <1>t DEF BeginRegister, TypeOK, Idle
  <2>2. q >= 1
    BY BoundsAssumption
  <2>3. Fresh(req[s])'
    BY <2>1, <2>2 DEF Fresh
  <2> QED
    BY <1>o, <1>u, <2>1, <2>3, OnlyNew DEF OfferBacksASeat
<1>2. ASSUME NEW s \in Slots, Reserve(s) PROVE Seated' /\ AllFresh' /\ OfferBacksASeat'
  <2>0. req[s].pc = "reserve" /\ req[s].guest \in Guests /\ Fresh(req[s]) /\ maxCap' = maxCap
    BY <1>2, <1>s, <1>t DEF Reserve, Serving
  <2>f. AllFresh'
    <3>1. /\ \A t \in Slots \ {s} : req'[t] = req[t]
          /\ req'[s].pc \in {"idle", "position"} /\ req'[s].row.qty \in {req[s].row.qty, 0}
          /\ req'[s].pc = "position" => /\ req'[s].row = req[s].row
                                        /\ req'[s].due = req[s].due /\ UNCHANGED row
      BY <1>2, <1>t DEF Reserve, Goto, Finish, TypeOK, Idle, NoRow, Req
    <3>2. req'[s].pc # "idle" => Fresh(req[s])'
      BY <2>0, <3>1 DEF Fresh
    <3> QED
      BY <2>0, <3>1, <3>2, <1>t, OnlyOne
  <2>1. CASE row' = row
    BY <2>0, <2>1, <2>f, <1>o, <1>u DEF OfferBacksASeat
  <2>2. CASE row' # row
    <3>1. /\ Taken + req[s].row.qty <= req[s].event.capacity
          /\ row' = [row EXCEPT ![req[s].guest] = req[s].row]
      BY <1>2, <2>2 DEF Reserve, HasRoom, Insert
    <3>2. req[s].row.qty = 1
      BY <1>s, <2>0 DEF Fresh
    <3>3. /\ row'[req[s].guest] = req[s].row
          /\ \A h \in Guests \ {req[s].guest} : row'[h] = row[h]
      BY <2>0, <3>1, <1>t DEF TypeOK
    <3>4. Taken' <= Taken + 1 /\ Taken' \in Nat
      BY <2>0, <3>2, <3>3, <1>t, SeatGiven
    <3>5. req[s].event.capacity <= maxCap /\ req[s].event.capacity \in Nat
      BY <1>s, <1>t DEF CapsKnown, Req, Event
    <3>6. Taken' <= maxCap'
      BY <1>k, <1>n, <2>0, <3>1, <3>2, <3>4, <3>5
    <3>7. Seated'
      BY <1>o, <3>2, <3>3 DEF Seated
    <3> QED
      BY <2>f, <3>6, <3>7 DEF OfferBacksASeat
  <2> QED
    BY <2>1, <2>2
<1>3. ASSUME NEW s \in Slots, TakePosition(s) PROVE Seated' /\ AllFresh' /\ OfferBacksASeat'
  <2>1. /\ UNCHANGED <<row, maxCap>> /\ req[s].pc = "position"
        /\ \A t \in Slots \ {s} : req'[t] = req[t]
        /\ req'[s].pc = "enlist" /\ req'[s].row.qty = req[s].row.qty
        /\ req'[s].due = req[s].due
    BY <1>3, <1>t, <1>s DEF TakePosition, TypeOK, Req, Row
  <2>2. Fresh(req[s])'
    BY <2>1, <1>s DEF Fresh
  <2> QED
    BY <1>o, <1>u, <1>t, <2>1, <2>2, OnlyOne DEF OfferBacksASeat
<1>4. ASSUME NEW s \in Slots, Enlist(s) PROVE Seated' /\ AllFresh' /\ OfferBacksASeat'
  <2>1. /\ req[s].pc = "enlist" /\ req[s].row.status = "waitlisted" /\ req[s].guest \in Guests
        /\ Fresh(req[s])
        /\ maxCap' = maxCap /\ \A t \in Slots \ {s} : req'[t] = req[t]
        /\ req'[s].pc = "idle"
    BY <1>4, <1>s, <1>t DEF Enlist, Candidates, Serving, Finish, Idle, TypeOK
  <2>2. \A g \in Guests : row'[g] = row[g] \/ row'[g] = req[s].row
    BY <1>4, <1>t DEF Enlist, Insert, TypeOK
  <2>3. Taken' <= Taken /\ Taken' \in Nat
    BY <2>1, <2>2, NoSeatTaken DEF Active
  <2>4. Seated'
    BY <1>o, <2>1, <2>2 DEF Seated, Fresh
  <2> QED
    BY <1>o, <1>k, <1>n, <1>t, <2>1, <2>3, <2>4, OnlyOne DEF OfferBacksASeat
<1>5. ASSUME NEW s \in Slots, NEW g \in Guests, BeginAccept(s, g)
      PROVE Seated' /\ AllFresh' /\ OfferBacksASeat'
  <2>1. UNCHANGED <<row, maxCap>> /\ row[g].status = "offered"
    BY <1>5 DEF BeginAccept
  <2>2. \/ /\ req'[s].pc = "expire" /\ req'[s].due = {[guest |-> g, row |-> row[g]]}
        \/ /\ req'[s].pc = "confirm" /\ req'[s].guest = g /\ req'[s].row = row[g]
           /\ req'[s].due = {}
    BY <1>5, <1>t DEF BeginAccept, TypeOK, Idle
  <2>3. req'[s].pc # "idle" /\ Fresh(req[s])'
    BY <2>1, <2>2 DEF Fresh
  <2> QED
    BY <1>o, <1>u, <2>1, <2>3, OnlyNew DEF OfferBacksASeat
<1>6. ASSUME NEW s \in Slots, Confirm(s) PROVE Seated' /\ AllFresh' /\ OfferBacksASeat'
  <2>1. /\ req[s].pc = "confirm" /\ req[s].guest \in Guests /\ Fresh(req[s])
        /\ maxCap' = maxCap /\ \A t \in Slots \ {s} : req'[t] = req[t]
        /\ req'[s].pc = "idle"
    BY <1>6, <1>s, <1>t DEF Confirm, Serving, Finish, Idle, TypeOK
  <2>2. row[req[s].guest] = req[s].row /\ req[s].row.status = "offered"
    BY <2>1 DEF Fresh
  <2>3. \A g \in Guests :
           row'[g] = row[g] \/ (row[g].status = "offered" /\ row'[g].qty = row[g].qty)
    BY <1>6, <1>t, <1>n, <2>2 DEF Confirm, TypeOK, Row
  <2>4. Taken' <= Taken /\ Taken' \in Nat
    BY <2>3, NoSeatTaken DEF Active
  <2>5. Seated'
    BY <1>o, <2>3 DEF Seated
  <2> QED
    BY <1>o, <1>k, <1>n, <1>t, <2>1, <2>4, <2>5, OnlyOne DEF OfferBacksASeat
<1>7. ASSUME NEW s \in Slots, NEW g \in Guests, BeginExpireDue(s, g)
      PROVE Seated' /\ AllFresh' /\ OfferBacksASeat'
  <2>1. UNCHANGED <<row, maxCap>>
    BY <1>7 DEF BeginExpireDue
  <2>2. CASE UNCHANGED req
    BY <1>o, <1>u, <2>1, <2>2 DEF AllFresh, Fresh, OfferBacksASeat
  <2>3. CASE req' = [req EXCEPT ![s] = [Idle EXCEPT !.pc = "expire", !.due = DueRows, !.job = g]]
    <3>1. req'[s].pc = "expire" /\ req'[s].due = DueRows
      BY <2>3, <1>t DEF TypeOK, Idle
    <3>2. \A d \in DueRows : row[d.guest] = d.row /\ d.row.status = "offered"
      BY DEF DueRows, Due
    <3>3. Fresh(req[s])'
      BY <2>1, <3>1, <3>2 DEF Fresh
    <3> QED
      BY <1>o, <1>u, <2>1, <3>1, <3>3, OnlyNew DEF OfferBacksASeat
  <2> QED
    BY <1>7, <2>2, <2>3 DEF BeginExpireDue
<1>8. ASSUME NEW s \in Slots, ExpireOne(s) PROVE Seated' /\ AllFresh' /\ OfferBacksASeat'
  <2> PICK d \in req[s].due :
        /\ row' = [row EXCEPT ![d.guest] = [d.row EXCEPT !.status = "expired"]]
        /\ req' = [req EXCEPT ![s].pc = "list", ![s].due = @ \ {d}]
    BY <1>8 DEF ExpireOne
  <2>1. d \in Held /\ d.guest \in Guests /\ d.row \in Row
    BY <1>s DEF Held
  <2>2. /\ req[s].pc = "expire" /\ Fresh(req[s]) /\ maxCap' = maxCap
        /\ \A t \in Slots \ {s} : req'[t] = req[t]
        /\ req'[s].pc = "list" /\ req'[s].due = req[s].due \ {d}
    BY <1>8, <1>s, <1>t DEF ExpireOne, TypeOK, Req
  <2>3. row[d.guest] = d.row /\ d.row.status = "offered"
    BY <2>2 DEF Fresh
  <2>4. /\ row'[d.guest].status = "expired" /\ row'[d.guest].qty = row[d.guest].qty
        /\ \A h \in Guests \ {d.guest} : row'[h] = row[h]
    BY <1>t, <2>1, <2>3 DEF TypeOK, Row
  <2>5. row[d.guest].qty >= 1
    BY <1>o, <2>1, <2>3 DEF Seated
  <2>6. Taken' + 1 <= Taken /\ Taken' \in Nat
    BY <1>t, <2>1, <2>3, <2>4, <2>5, SeatFreed DEF Active
  <2>7. Seated'
    BY <1>o, <2>4, <2>5 DEF Seated
  <2>8. \A e \in req'[s].due : row'[e.guest] = e.row /\ e.row.status = "offered"
    <3> TAKE e \in req'[s].due
    <3>1. e \in req[s].due /\ e # d
      BY <2>2
    <3>2. e \in Held /\ row[e.guest] = e.row /\ e.row.status = "offered"
      BY <1>s, <2>2, <3>1 DEF Fresh
    <3>3. e.guest # d.guest
      BY <2>1, <2>3, <3>1, <3>2 DEF Held
    <3> QED
      BY <2>4, <3>2, <3>3 DEF Held
  <2>9. Taken' < maxCap' /\ Taken' <= maxCap'
    BY <1>k, <1>n, <1>o, <2>2, <2>6
  <2>10. Fresh(req[s])'
    BY <2>2, <2>8, <2>9 DEF Fresh
  <2> QED
    BY <1>t, <2>2, <2>7, <2>9, <2>10, OnlyOne DEF OfferBacksASeat
<1>9. ASSUME NEW s \in Slots, BeginPromote(s) PROVE Seated' /\ AllFresh' /\ OfferBacksASeat'
  <2>0. /\ UNCHANGED <<row, maxCap>> /\ req[s].pc = "idle"
        /\ req'[s].pc = "list" /\ req'[s].due = {}
    BY <1>9, <1>t DEF BeginPromote, TypeOK, Idle
  <2>1. Taken < event.capacity
    BY <2>0 DEF SeatFirst, vars
  <2>2. event.capacity \in Nat /\ event.capacity <= maxCap
    BY <1>t DEF TypeOK, Event, CapsKnown
  <2>3. Taken' < maxCap'
    BY <1>k, <1>n, <1>u, <2>0, <2>1, <2>2
  <2>4. Fresh(req[s])'
    BY <2>0, <2>3 DEF Fresh
  <2> QED
    BY <1>o, <1>u, <2>0, <2>4, OnlyNew DEF OfferBacksASeat
<1>10. ASSUME NEW s \in Slots, ListWaitlist(s) PROVE Seated' /\ AllFresh' /\ OfferBacksASeat'
  <2>1. UNCHANGED <<row, maxCap>> /\ req[s].pc = "list" /\ Fresh(req[s])
    BY <1>10, <1>s DEF ListWaitlist
  <2>2. Taken' < maxCap'
    BY <1>u, <2>1 DEF Fresh
  <2>3. \/ req'[s].pc = "idle"
        \/ req'[s].pc = "expire" /\ req'[s].due = req[s].due
        \/ /\ req'[s].pc = "offer" /\ req'[s].due = req[s].due
           /\ row[req'[s].guest] = req'[s].row /\ req'[s].row.status = "waitlisted"
    <3>1. CASE Continue(s)
      BY <3>1, <1>t DEF Continue, Goto, Finish, TypeOK, Idle, Req
    <3>2. ASSUME NEW g \in Waiting,
                 req' = [req EXCEPT ![s].pc = "offer", ![s].guest = g, ![s].row = row[g]]
          PROVE  /\ req'[s].pc = "offer" /\ req'[s].due = req[s].due
                 /\ row[req'[s].guest] = req'[s].row /\ req'[s].row.status = "waitlisted"
      BY <3>2, <1>t DEF TypeOK, Req, Waiting
    <3> QED
      BY <1>10, <3>1, <3>2 DEF ListWaitlist
  <2>4. req'[s].pc # "idle" => Fresh(req[s])'
    BY <2>1, <2>2, <2>3 DEF Fresh
  <2>5. \A t \in Slots \ {s} : req'[t] = req[t]
    BY <1>10, <1>t DEF ListWaitlist, Continue, Goto, Finish, TypeOK
  <2> QED
    BY <1>o, <1>u, <1>t, <2>1, <2>4, <2>5, OnlyOne DEF OfferBacksASeat
<1>11. ASSUME NEW s \in Slots, Offer(s) PROVE Seated' /\ AllFresh' /\ OfferBacksASeat'
  <2>1. /\ req[s].pc = "offer" /\ req[s].guest \in Guests /\ Fresh(req[s])
        /\ maxCap' = maxCap /\ \A t \in Slots \ {s} : req'[t] = req[t]
        /\ req'[s].pc = "schedule" /\ req'[s].due = req[s].due
    BY <1>11, <1>s, <1>t DEF Offer, Serving, TypeOK, Req
  <2>2. /\ row[req[s].guest] = req[s].row /\ req[s].row.status = "waitlisted"
        /\ Taken < maxCap
    BY <2>1 DEF Fresh
  <2>3. /\ row'[req[s].guest].qty = req[s].row.qty
        /\ \A h \in Guests \ {req[s].guest} : row'[h] = row[h]
    BY <1>11, <1>s, <1>t, <2>1 DEF Offer, TypeOK, Row
  <2>4. Taken' <= Taken + 1 /\ Taken' \in Nat
    BY <1>s, <1>t, <2>1, <2>3, SeatGiven
  <2>5. Seated'
    BY <1>o, <2>1, <2>2, <2>3 DEF Seated
  <2>6. \A d \in req'[s].due : row'[d.guest] = d.row /\ d.row.status = "offered"
    <3> TAKE d \in req'[s].due
    <3>1. d \in Held /\ row[d.guest] = d.row /\ d.row.status = "offered"
      BY <1>s, <2>1 DEF Fresh
    <3>2. d.guest # req[s].guest
      BY <2>2, <3>1
    <3> QED
      BY <2>3, <3>1, <3>2 DEF Held
  <2>7. Fresh(req[s])'
    BY <2>1, <2>6 DEF Fresh
  <2>8. Taken' <= maxCap'
    BY <1>k, <1>n, <2>1, <2>2, <2>4
  <2> QED
    BY <1>t, <2>1, <2>5, <2>7, <2>8, OnlyOne DEF OfferBacksASeat
<1>12. ASSUME NEW s \in Slots, Schedule(s) PROVE Seated' /\ AllFresh' /\ OfferBacksASeat'
  <2>1. /\ UNCHANGED <<row, maxCap>> /\ req[s].pc = "schedule"
        /\ \A t \in Slots \ {s} : req'[t] = req[t]
        /\ req'[s].pc = "idle" \/ (req'[s].pc = "expire" /\ req'[s].due = req[s].due)
    BY <1>12, <1>t DEF Schedule, Goto, Finish, TypeOK, Idle, Req
  <2>2. req'[s].pc # "idle" => Fresh(req[s])'
    BY <1>s, <2>1 DEF Fresh
  <2> QED
    BY <1>o, <1>u, <1>t, <2>1, <2>2, OnlyOne DEF OfferBacksASeat
<1>13. ASSUME NEW g \in Guests, Release(g) PROVE Seated' /\ AllFresh' /\ OfferBacksASeat'
  <2>1. /\ row[g].status \in {"pending", "confirmed"} /\ req' = req /\ maxCap' = maxCap
        /\ row'[g].status = "cancelled" /\ row'[g].qty = row[g].qty
        /\ \A h \in Guests \ {g} : row'[h] = row[h]
    BY <1>13, <1>t DEF Release, TypeOK, Row, ActiveForgettingOffers
  <2>2. Taken' <= Taken /\ Taken' \in Nat
    BY <2>1, NoSeatTaken DEF Active
  <2>3. Seated'
    BY <1>o, <2>1 DEF Seated
  <2>r. Taken < maxCap => Taken' < maxCap'
    BY <1>k, <1>m, <2>1, <2>2
  <2>4. ASSUME NEW s \in Slots, req[s].pc # "idle" PROVE Fresh(req[s])'
    <3>1. req'[s] = req[s] /\ req[s].due \subseteq Held /\ Fresh(req[s])
      BY <1>s, <2>1, <2>4
    <3>2. \A d \in req[s].due : row'[d.guest] = d.row
      BY <2>1, <3>1 DEF Fresh, Held
    <3>3. req[s].pc \in {"confirm", "offer"} => row'[req[s].guest] = req[s].row
      BY <2>1, <3>1, <1>t, <2>4 DEF Fresh, Serving
    <3>4. req[s].pc \in {"list", "offer"} => Taken' < maxCap'
      BY <2>r, <3>1 DEF Fresh
    <3> QED
      BY <2>1, <3>1, <3>2, <3>3, <3>4 DEF Fresh
  <2>5. AllFresh'
    BY <2>1, <2>4 DEF AllFresh
  <2> QED
    BY <1>k, <1>n, <1>o, <2>1, <2>2, <2>3, <2>5 DEF OfferBacksASeat
<1>14. ASSUME NEW c \in Capacities, NEW w \in BOOLEAN, UpdateEvent(c, w)
       PROVE Seated' /\ AllFresh' /\ OfferBacksASeat'
  <2>1. UNCHANGED <<row, req>> /\ maxCap <= maxCap'
    BY <1>14, <1>n, CapacitiesAssumption DEF UpdateEvent
  <2>2. Taken' = Taken
    BY <1>u, <2>1
  <2>3. \A k \in Nat : k <= maxCap => k <= maxCap'
    BY <1>n, <2>1
  <2>4. ASSUME NEW s \in Slots, req[s].pc # "idle" PROVE Fresh(req[s])'
    <3>1. Taken < maxCap => Taken' < maxCap'
      BY <1>k, <1>m, <2>1, <2>2
    <3> QED
      BY <1>s, <2>1, <2>4, <3>1 DEF Fresh
  <2>5. AllFresh'
    BY <2>1, <2>4 DEF AllFresh
  <2> QED
    BY <1>k, <1>o, <1>u, <2>1, <2>2, <2>3, <2>5 DEF OfferBacksASeat
<1>15. CASE Tick
  BY <1>15, <1>o, <1>u DEF Tick, AllFresh, Fresh, OfferBacksASeat
<1>16. CASE UNCHANGED vars
  BY <1>16, <1>o, <1>u DEF vars, AllFresh, Fresh, OfferBacksASeat
<1> QED
  BY <1>1, <1>2, <1>3, <1>4, <1>5, <1>6, <1>7, <1>8, <1>9, <1>10, <1>11, <1>12, <1>13,
     <1>14, <1>15, <1>16 DEF Next, Request, Step, Work

LEMMA OfferInit == Init => OfferInv
<1> SUFFICES ASSUME Init PROVE OfferInv
  OBVIOUS
<1>1. IInv
  BY SeatInit
<1>2. Taken = 0
  <2>1. SeatsOf(ActiveGuests) = {}
    BY DEF Init, SeatsOf, ActiveGuests, NoRow, Active
  <2> QED
    BY <2>1, FS_EmptySet DEF Taken
<1>3. maxCap \in Nat
  BY <1>1 DEF IInv, TypeInv, TypeOK
<1>4. Seated /\ AllFresh
  BY DEF Init, Seated, AllFresh, NoRow, Idle
<1> QED
  BY <1>1, <1>2, <1>3, <1>4 DEF OfferInv, OfferBacksASeat

(* While handlers take turns, registrations ask for one seat and           *)
(* promoteWaitlist is called once a seat is free, the seats in use,        *)
(* offered ones included, fit the greatest capacity the event ever had,    *)
(* for any number of guests and handlers: whoever is told that a seat is   *)
(* reserved has one.                                                       *)
THEOREM OffersFitInTurn ==
    Spec /\ [](InTurn /\ OneSeatEach) /\ [][SeatFirst]_vars => []OfferBacksASeat
<1>1. OfferInv => OfferBacksASeat
  BY DEF OfferInv
<1> QED
  BY <1>1, OfferInit, OfferStep, PTL DEF Spec

(* In the turns of the checked instance only the handler one ever runs,    *)
(* and what OffersFitInTurn assumes of handlers holds.                     *)
OnlyOneRuns ==
    /\ \A s \in Slots \ {one} : req[s] = Idle
    /\ OneSeatEach
Turns == scene = "turns" => OfferInv /\ OnlyOneRuns

LEMMA OneInTurn == OnlyOneRuns => InTurn
BY DEF OnlyOneRuns, InTurn, Idle

LEMMA TurnsStep == ASSUME Guests = MCGuests PROVE Turns /\ [MCNext]_mcVars => Turns'
<1> SUFFICES ASSUME Turns, [MCNext]_mcVars, scene' = "turns" PROVE OfferInv' /\ OnlyOneRuns'
  BY DEF Turns
<1>1. scene = "turns" /\ [Next]_vars
  BY DEF MCNext, mcVars, RequestMC, StepMC, WorkMC, TickMC, InScene, Next, vars
<1>2. OfferInv /\ OnlyOneRuns /\ TypeOK
  BY <1>1 DEF Turns, OfferInv, IInv, TypeInv
<1>3. \A s \in Slots \ {one} : req'[s] = Idle
  <2> SUFFICES ASSUME NEW s \in Slots, s # one PROVE req'[s] = Idle
    OBVIOUS
  <2>1. req[s] = Idle
    BY <1>2 DEF OnlyOneRuns
  <2>2. ASSUME NEW t \in Slots, t = one \/ Step(t), Request(t) \/ Step(t) \/ Work(t)
        PROVE  req'[s] = req[s]
    <3>1. t # s
      <4>1. Step(t) => req[t].pc # "idle"
        BY DEF Step, Reserve, TakePosition, Enlist, Confirm, ExpireOne, ListWaitlist,
               Offer, Schedule
      <4> QED
        BY <2>1, <2>2, <4>1 DEF Idle
    <3>2. CASE Request(t)
      BY <3>1, <3>2, <1>2 DEF Request, BeginRegister, BeginAccept, BeginPromote, TypeOK
    <3>3. CASE Step(t)
      <4>1. req' = [req EXCEPT ![t] = req'[t]]
        BY <3>3, <1>2 DEF Step, Reserve, TakePosition, Enlist, Confirm, ExpireOne, ListWaitlist,
                     Offer, Schedule, Continue, Goto, Finish, TypeOK
      <4> QED
        BY <4>1, <3>1, <1>2 DEF TypeOK
    <3>4. CASE Work(t)
      BY <3>1, <3>4, <1>2 DEF Work, BeginExpireDue, TypeOK
    <3> QED
      BY <2>2, <3>2, <3>3, <3>4
  <2>3. CASE UNCHANGED mcVars
    BY <2>1, <2>3 DEF mcVars, vars
  <2>4. ASSUME NEW t \in Slots, (t \in MayBegin /\ RequestMC(t)) \/ StepMC(t) \/ WorkMC(t)
        PROVE  req'[s] = req[s]
    BY <1>1, <2>2, <2>4 DEF MayBegin, RequestMC, StepMC, WorkMC
  <2>5. ASSUME NEW g \in Guests, Release(g) PROVE req'[s] = req[s]
    BY <2>5 DEF Release
  <2>6. ASSUME NEW c \in Capacities, NEW w \in BOOLEAN, UpdateEvent(c, w) PROVE req'[s] = req[s]
    BY <2>6 DEF UpdateEvent
  <2>7. CASE TickMC
    BY <2>1, <2>7 DEF TickMC, Tick
  <2> QED
    BY <2>1, <2>3, <2>4, <2>5, <2>6, <2>7 DEF MCNext
<1>4. OneSeatEach'
  <2>1. InScene \/ UNCHANGED <<row, req>>
    BY DEF MCNext, RequestMC, StepMC, WorkMC, TickMC, Tick, mcVars, vars
  <2>2. CASE InScene
    <3>1. /\ \A g \in Guests : row'[g].qty <= 1
          /\ req'[one].row.qty <= 1
      BY <2>2, <1>1 DEF InScene, MCGuests
    <3> QED
      BY <3>1, <1>3 DEF OneSeatEach, Idle, NoRow
  <2>3. CASE UNCHANGED <<row, req>>
    BY <2>3, <1>2 DEF OnlyOneRuns, OneSeatEach
  <2> QED
    BY <2>1, <2>2, <2>3
<1>5. OnlyOneRuns'
  BY <1>3, <1>4 DEF OnlyOneRuns
<1>6. InTurn /\ InTurn'
  <2>1. OnlyOneRuns => InTurn
    BY OneInTurn
  <2>2. InTurn'
    BY <1>5 DEF OnlyOneRuns, InTurn, Idle
  <2> QED
    BY <1>2, <2>1, <2>2
<1>7. [SeatFirst]_vars
  <2> SUFFICES ASSUME NEW s \in Slots, req[s].pc = "idle", req'[s].pc = "list"
               PROVE  Taken < event.capacity
    BY DEF SeatFirst
  <2>1. ASSUME NEW t \in Slots, RequestMC(t) PROVE Taken < event.capacity
    <3>1. t = s
      BY <1>2, <2>1 DEF RequestMC, Request, BeginRegister, BeginAccept, BeginPromote, TypeOK
    <3> QED
      BY <1>1, <2>1, <3>1 DEF RequestMC
  <2>2. ASSUME NEW t \in Slots, Step(t) PROVE FALSE
    <3>1. req[t].pc # "idle"
      BY <2>2 DEF Step, Reserve, TakePosition, Enlist, Confirm, ExpireOne, ListWaitlist,
                  Offer, Schedule
    <3>2. req' = [req EXCEPT ![t] = req'[t]]
      BY <2>2, <1>2 DEF Step, Reserve, TakePosition, Enlist, Confirm, ExpireOne, ListWaitlist,
                   Offer, Schedule, Continue, Goto, Finish, TypeOK
    <3> QED
      BY <1>2, <3>1, <3>2 DEF TypeOK
  <2>3. ASSUME NEW t \in Slots, Work(t) PROVE FALSE
    BY <1>2, <2>3 DEF Work, BeginExpireDue, Idle, TypeOK
  <2>4. CASE UNCHANGED req
    BY <2>4
  <2> QED
    BY <2>1, <2>2, <2>3, <2>4 DEF MCNext, StepMC, WorkMC, TickMC, Tick, Release, UpdateEvent,
                                  mcVars, vars
<1> QED
  BY <1>1, <1>2, <1>4, <1>5, <1>6, <1>7, OfferStep DEF OnlyOneRuns

(* The turns of the checked instance are such turns: its invariant         *)
(* OffersFit holds whatever the bounds on seats, time and capacities.      *)
THEOREM OffersFitChecked == ASSUME Guests = MCGuests PROVE MCSpec => []OffersFit
<1>1. MCInit => Turns
  BY OfferInit DEF MCInit, Turns, OnlyOneRuns, OneSeatEach, Init, Idle, NoRow
<1>2. Turns => OffersFit
  BY DEF Turns, OfferInv, OffersFit
<1> QED
  BY <1>1, <1>2, TurnsStep, PTL DEF MCSpec
=============================================================================
