--------------------------- MODULE MCNotifications ---------------------------
(***************************************************************************)
(* An instance of Notifications for TLC: a member is due a reminder,       *)
(* somebody without an account a text, and both a newsletter.  Either      *)
(* dispatches overlap and meet a fault, or people change their mind.       *)
(***************************************************************************)
EXTENDS Notifications, TLC

CONSTANTS member, guest

VARIABLE scene

MCPeople == {member, guest}
MCMembers == {member}
MCMessages == {[to |-> member, kind |-> "reminder"], [to |-> guest, kind |-> "text"],
               [to |-> member, kind |-> "newsletter"], [to |-> guest, kind |-> "newsletter"]}
MCInit ==
    /\ Init /\ scene \in {"faults", "minds"}
    /\ wanted \subseteq {<<member, "reminder">>, <<member, "newsletter">>}
    /\ consent \subseteq {guest}

(* Where people change their mind, one dispatch runs at a time.            *)
InScene ==
    /\ scene = "minds" => /\ calls' + faults' <= 3
                          /\ \E s \in Slots : \A t \in Slots \ {s} : req'[t] = Idle
    /\ scene = "faults" => /\ <<wanted, suppressed, consent, stopping>>' = person
                           /\ calls' <= 2 /\ faults' <= 1
    /\ UNCHANGED scene

MCNext ==
    \/ \E p \in People : /\ \/ \E m \in Messages : m.to = p /\ SetPreference(p, m.kind)
                            \/ SuppressEmail(p) \/ OptInSms(p) \/ HandleStop(p)
                            \/ SuppressSms(p) \/ StopDies(p)
                         /\ InScene
    \/ \E m \in Messages : Enqueue(m) /\ InScene
    \/ \E s \in Slots, m \in Messages : Claim(s, m) /\ InScene
    \/ \E s \in Slots : /\ \/ SendNewsletter(s) \/ NextRecipient(s) \/ SaveSent(s)
                           \/ CompleteJob(s) \/ Dispatch(s)
                           \/ Fails(s) \/ AnswerLost(s) \/ Dies(s)
                        /\ InScene

MCSpec == MCInit /\ [][MCNext]_<<vars, scene>>

Twins == Permutations(Slots)
=============================================================================
