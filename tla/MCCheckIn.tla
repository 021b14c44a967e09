------------------------------ MODULE MCCheckIn ------------------------------
(***************************************************************************)
(* An instance of CheckIn for TLC, in one of three scenarios chosen once:  *)
(* at the entrance requests overlap each other; at the desk requests,      *)
(* refunds and expiries take turns; a scanner that goes on- and offline,   *)
(* and whose page is closed and opened, takes turns with one of those or   *)
(* meets one fault.                                                        *)
(***************************************************************************)
EXTENDS CheckIn

VARIABLE scene

MCStarts == {<<"confirmed", "valid">>, <<"confirmed", "none">>,
             <<"offered", "none">>, <<"none", "none">>}

(* Tickets matter at the desk, where they are refunded, and scanners let   *)
(* in only those on the list.                                              *)
MCInit == /\ Init /\ scene \in {"entrance", "desk", "scanner"}
          /\ scene # "desk" => \A g \in Guests : ticket[g] = "none"
          /\ scene = "scanner" => \A g \in Guests : row[g] = "confirmed"

Same == UNCHANGED scene

(* Where services take turns one slot is enough.                           *)
First == CHOOSE s \in Slots : TRUE
Used == IF scene = "entrance" THEN Slots ELSE {First}
InTurn == /\ scene # "entrance" => ~overlapped'
          /\ scene = "entrance" => calls' <= 2
          /\ scene = "entrance" => \A g \in Guests : ticket[g] = "none"
          /\ scene = "desk" => calls' + faults' <= 3
          /\ scene = "scanner" => calls' + faults' <= 1

(* Closing a page with nothing queued only gives up a list it awaits, and  *)
(* of the online calls a scan stands for a batch here.  They and the other *)
(* services concern one of the guests.                                     *)
One == CHOOSE g \in Guests : TRUE
Concerned == IF scene = "scanner" THEN {One} ELSE Guests

(* Most statements of a request do not concern the device: it acts before  *)
(* the row is saved and between two guests, or when there is no request.   *)
Between == \A s \in Slots : req[s].pc \in {"idle", "mark", "next"}

PageMC(d) ==
    /\ scene = "scanner" /\ Between
    /\ Page(d)
    /\ device[d].open /\ device[d].queue = <<>> => device'[d].open
StartMC(s) ==
    IF scene = "scanner" THEN Scan(s, One, FALSE) ELSE Start(s)

StepMC(s) == Step(s) /\ Same
OnlineMC(d) == GoOnline(d) /\ Same
PostMC(d) == (\E s \in Used : PostQueue(s, d)) /\ InTurn /\ Same

MCNext ==
    \/ \E s \in Used : StartMC(s) /\ InTurn /\ Same
    \/ \E s \in Slots : StepMC(s)
    \/ \E s \in Slots : Fault(s) /\ InTurn /\ Same
    \/ \E d \in Devices : PostMC(d) \/ OnlineMC(d)
    \/ \E d \in Devices : PageMC(d) /\ Same
    \/ \E d \in Devices : scene = "scanner" /\ ((Between /\ GoOffline(d)) \/ PostFails(d)) /\ Same
    \/ \E d \in Devices, g \in Guests : Between /\ ScanOffline(d, g) /\ InTurn /\ Same
    \/ \E g \in Concerned : scene # "entrance" /\ Others(g) /\ InTurn /\ Same

mcVars == <<vars, scene>>

(* The posts of the scanner use the first slot.                            *)
MCSpec ==
    /\ MCInit /\ [][MCNext]_mcVars
    /\ SF_mcVars(StepMC(First))
    /\ \A d \in Devices : WF_mcVars(OnlineMC(d)) /\ SF_mcVars(PostMC(d))
=============================================================================
