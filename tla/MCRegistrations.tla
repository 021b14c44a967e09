-------------------------- MODULE MCRegistrations --------------------------
(***************************************************************************)
(* An instance of Registrations for TLC, in one of two scenarios chosen    *)
(* once: two handlers overlap at every statement, for two guests of one or *)
(* two seats; or one handler runs at a time, for three guests of one seat  *)
(* while the organizer edits the capacity, and promoteWaitlist is called   *)
(* once a seat is free.                                                    *)
(***************************************************************************)
EXTENDS Registrations

CONSTANTS first, second, third, one, other

VARIABLE scene

MCGuests == {first, second, third}
MCSlots == {one, other}

MCInit == /\ Init /\ scene \in {"overlap", "turns"}
          /\ scene = "overlap" => event.capacity = 2 /\ ~event.approval

InScene ==
    /\ IF scene = "overlap"
       THEN event'.capacity = 2
       ELSE \A g \in MCGuests : row'[g].qty <= 1 /\ req'[one].row.qty <= 1
    /\ UNCHANGED scene

(* Guests that left no trace, and handlers that run nothing, are alike:    *)
(* the first of them begins.                                               *)
Present(g) == row[g] # NoRow \/ \E s \in MCSlots : req[s].guest = g
MayRegister == IF ~Present(first) THEN {first}
               ELSE {first, second} \cup
                    (IF scene = "turns" /\ Present(second) THEN {third} ELSE {})
MayBegin == IF req[one].pc = "idle" THEN {one}
            ELSE IF scene = "turns" THEN {} ELSE {other}

RequestMC(s) == /\ Request(s)
                /\ req'[s].pc = "reserve" => req'[s].guest \in MayRegister
                /\ scene = "turns" /\ req'[s].pc = "list" => Taken < event.capacity
                /\ InScene
StepMC(s) == Step(s) /\ InScene
WorkMC(s) == s \in MayBegin /\ Work(s) /\ InScene
TickMC == Tick /\ UNCHANGED scene

MCNext ==
    \/ \E s \in Slots : (s \in MayBegin /\ RequestMC(s)) \/ StepMC(s) \/ WorkMC(s)
    \/ \E g \in Guests : Release(g) /\ InScene
    \/ \E c \in Capacities, w \in BOOLEAN : UpdateEvent(c, w) /\ InScene
    \/ TickMC

mcVars == <<vars, scene>>

MCSpec ==
    /\ MCInit /\ [][MCNext]_mcVars
    /\ WF_mcVars(TickMC)
    /\ \A s \in Slots : WF_mcVars(StepMC(s)) /\ SF_mcVars(WorkMC(s))

(* While handlers take turns, the seats in use, held ones included, fit    *)
(* the capacity: an offer has a seat behind it.                            *)
OffersFit == scene = "turns" => OfferBacksASeat

(* While handlers take turns, a held seat is accepted or expires.          *)
HoldsEnd == [](scene = "turns") => HoldEnds
=============================================================================
