------------------------- MODULE NotificationsProofs -------------------------
(***************************************************************************)
(* What holds of Notifications for any people, messages, dispatches in     *)
(* flight and failures: a key is sent once, a suppressed address gets      *)
(* nothing, and what is reported done was done for everyone.               *)
(***************************************************************************)
EXTENDS Notifications, TLAPS

-----------------------------------------------------------------------------
(* Types.  A job that waits has an attempt left.                           *)
TriesLeft == \A m \in Messages : /\ job[m] = "none" => tries[m] = 0
                                 /\ job[m] = "pending" => tries[m] < MaxTries

Typed == TypeOK /\ TriesLeft

(* A dispatch that is at work has a message.                               *)
Serving == \A s \in Slots : req[s].pc \notin {"idle", "next"} => req[s].message \in Messages

LEMMA IdleType == Idle \in Req
BY DEF Idle, Req, PCs

(* A slot that is given a dispatch of the right kind keeps its type.       *)
LEMMA SetType ==
    ASSUME NEW s \in Slots, NEW r \in Req, Typed,
           r.pc \in {"idle", "next"} \/ r.message \in Messages,
           req' = [req EXCEPT ![s] = r]
    PROVE  req' \in [Slots -> Req] /\ Serving'
BY DEF Typed, TypeOK, Serving

LEMMA GotoType ==
    ASSUME NEW s \in Slots, NEW pc \in PCs, Typed, req[s].pc \notin {"idle", "next"}, Goto(s, pc)
    PROVE  req' \in [Slots -> Req] /\ Serving'
<1> DEFINE r == [req[s] EXCEPT !.pc = pc]
<1>1. req[s] \in Req /\ req[s].message \in Messages
  BY DEF Typed, TypeOK
<1>2. r \in Req /\ r.message \in Messages
  BY <1>1 DEF Req
<1>3. req' = [req EXCEPT ![s] = r]
  BY DEF Goto
<1> QED
  BY <1>2, <1>3, SetType

LEMMA BarredType == \A m : Barred(m) \in BOOLEAN
BY DEF Barred

(* A dispatch that begins is that of a message.                            *)
LEMMA BeginType ==
    ASSUME NEW s \in Slots, NEW m \in Messages, NEW r \in Req, Typed, Begin(s, m, r)
    PROVE  req' \in [Slots -> Req] /\ Serving'
<1> DEFINE q == [r EXCEPT !.pc = "find", !.message = m, !.barred = Barred(m)]
<1>1. q \in Req /\ q.message \in Messages
  BY BarredType DEF Req, PCs
<1>2. req' = [req EXCEPT ![s] = q]
  BY DEF Begin
<1> QED
  BY <1>1, <1>2, SetType

(* What a dispatch that throws leaves: an idle slot, and a job that has an *)
(* attempt left or is dead.                                                *)
LEMMA ThrowType ==
    ASSUME NEW s \in Slots, Typed, Throw(s), req[s].pc \notin {"idle", "next"}, tries' = tries
    PROVE  /\ req' \in [Slots -> Req] /\ Serving'
           /\ job' \in [Messages -> {"none", "pending", "processing", "completed", "dead"}]
           /\ TriesLeft'
<1>1. req' \in [Slots -> Req] /\ Serving'
  BY IdleType, SetType DEF Throw, Idle
<1>2. PICK m \in Messages : req[s].message = m
  BY DEF Typed, TypeOK
<1>3. job' = job \/ job' = [job EXCEPT ![m] = IF tries[m] >= MaxTries THEN "dead" ELSE "pending"]
  BY <1>2 DEF Throw
<1>4. tries \in [Messages -> 0 .. MaxTries] /\ MaxTries \in Nat
  BY BoundsAssumption DEF Typed, TypeOK
<1>5. job' \in [Messages -> {"none", "pending", "processing", "completed", "dead"}]
  BY <1>3 DEF Typed, TypeOK
<1>6. TriesLeft'
  BY <1>3, <1>4 DEF Typed, TypeOK, TriesLeft
<1> QED
  BY <1>1, <1>5, <1>6

LEMMA LoseType ==
    ASSUME NEW s \in Slots, Typed, Lose(s)
    PROVE  lost' \in [Messages -> Nat]
<1>1. CASE req[s].pc = "record"
  <2>1. PICK m \in Messages : req[s].message = m
    BY <1>1 DEF Typed, TypeOK
  <2>2. lost \in [Messages -> Nat] /\ lost[m] + 1 \in Nat
    BY DEF Typed, TypeOK
  <2> QED
    BY <1>1, <2>1, <2>2 DEF Lose
<1>2. CASE req[s].pc # "record"
  BY <1>2 DEF Lose, Typed, TypeOK
<1> QED
  BY <1>1, <1>2

(* The parts of Typed that a step of dispatch keeps.                       *)
LEMMA KeptType ==
    ASSUME Typed, UNCHANGED <<person, queue, letter>>,
           req' \in [Slots -> Req], Serving',
           delivery' \in [Messages -> {"none", "sent", "suppressed"}],
           mailed' \in [Messages -> Nat], lost' \in [Messages -> Nat],
           doubled' \subseteq Messages, calls' = calls, faults' = faults
    PROVE  Typed'
BY DEF Typed, TypeOK, TriesLeft, Serving, person, queue

(* Every step keeps the types.                                             *)
LEMMA TypedStep == Typed /\ [Next]_vars => Typed'
<1> SUFFICES ASSUME Typed, [Next]_vars PROVE Typed'
  OBVIOUS
<1> USE BoundsAssumption, MessagesAssumption
<1>0. /\ req \in [Slots -> Req] /\ calls \in 0 .. MaxCalls /\ faults \in 0 .. MaxFaults
      /\ tries \in [Messages -> 0 .. MaxTries] /\ mailed \in [Messages -> Nat]
      /\ lost \in [Messages -> Nat] /\ Serving
  BY DEF Typed, TypeOK, Serving
<1>1. ASSUME NEW p \in People, NEW kind \in Kinds, SetPreference(p, kind) PROVE Typed'
  <2>1. wanted' \subseteq Members \X Kinds
    BY <1>1 DEF SetPreference, Typed, TypeOK
  <2>2. calls' \in 0 .. MaxCalls
    BY <1>0, <1>1 DEF SetPreference, Called
  <2> QED
    BY <1>1, <2>1, <2>2 DEF SetPreference, Asked, Typed, TypeOK, TriesLeft, queue, history
<1>2. ASSUME NEW p \in People, SuppressEmail(p) PROVE Typed'
  <2>1. calls' \in 0 .. MaxCalls
    BY <1>0, <1>2 DEF SuppressEmail, Called
  <2> QED
    BY <1>2, <2>1 DEF SuppressEmail, Asked, Typed, TypeOK, TriesLeft, queue, history
<1>3. ASSUME NEW p \in People, OptInSms(p) PROVE Typed'
  <2>1. calls' \in 0 .. MaxCalls
    BY <1>0, <1>3 DEF OptInSms, Called
  <2> QED
    BY <1>3, <2>1 DEF OptInSms, Asked, Typed, TypeOK, TriesLeft, queue, history
<1>4. ASSUME NEW p \in People, HandleStop(p) PROVE Typed'
  <2>1. calls' \in 0 .. MaxCalls
    BY <1>0, <1>4 DEF HandleStop, Called
  <2> QED
    BY <1>4, <2>1 DEF HandleStop, Asked, Typed, TypeOK, TriesLeft, queue, history
<1>5. ASSUME NEW p \in People, SuppressSms(p) PROVE Typed'
  BY <1>5 DEF SuppressSms, Asked, Typed, TypeOK, TriesLeft, queue, history
<1>6. ASSUME NEW p \in People, StopDies(p) PROVE Typed'
  <2>1. faults' \in 0 .. MaxFaults
    BY <1>0, <1>6 DEF StopDies
  <2> QED
    BY <1>6, <2>1 DEF StopDies, Typed, TypeOK, TriesLeft, queue, history
<1>7. ASSUME NEW m \in Messages, Enqueue(m) PROVE Typed'
  <2>1. TriesLeft'
    BY <1>0, <1>7 DEF Enqueue, Typed, TypeOK, TriesLeft
  <2> QED
    BY <1>7, <2>1 DEF Enqueue, Typed, TypeOK, person, history, bounds
<1>8. ASSUME NEW s \in Slots, NEW m \in Messages, Claim(s, m) PROVE Typed'
  <2>1. req' \in [Slots -> Req] /\ Serving'
    BY <1>8, IdleType, BeginType DEF Claim
  <2>2. tries[m] + 1 \in 0 .. MaxTries
    BY <1>0, <1>8 DEF Claim, Typed, TriesLeft
  <2>3. tries' \in [Messages -> 0 .. MaxTries] /\ TriesLeft'
    BY <1>0, <1>8, <2>2 DEF Claim, Typed, TypeOK, TriesLeft
  <2> QED
    BY <1>8, <2>1, <2>3 DEF Claim, Typed, TypeOK, Serving, person, history, bounds
<1>9. ASSUME NEW s \in Slots, SendNewsletter(s) PROVE Typed'
  <2> DEFINE r == [Idle EXCEPT !.pc = "next", !.letter = TRUE, !.left = Letters]
  <2>1. r \in Req /\ r.pc = "next"
    BY IdleType DEF Req, PCs, Letters
  <2>2. req' = [req EXCEPT ![s] = r] /\ calls' \in 0 .. MaxCalls
    BY <1>0, <1>9 DEF SendNewsletter, Called
  <2> HIDE DEF r
  <2>3. req' \in [Slots -> Req] /\ Serving'
    BY <2>1, <2>2, SetType
  <2> QED
    BY <1>9, <2>2, <2>3 DEF SendNewsletter, Typed, TypeOK, TriesLeft, Serving, person, queue, history
<1>10. ASSUME NEW s \in Slots, NextRecipient(s) PROVE Typed'
  <2>1. PICK m \in req[s].left : Begin(s, m, [req[s] EXCEPT !.left = @ \ {m}])
    BY <1>10 DEF NextRecipient
  <2> DEFINE r == [req[s] EXCEPT !.left = @ \ {m}]
  <2>2. r \in Req /\ m \in Messages
    <3>1. req[s] \in Req
      BY <1>0
    <3>2. req[s].left \subseteq Messages
      BY <3>1 DEF Req
    <3>3. r \in Req
      BY <3>1, <3>2 DEF Req
    <3> QED
      BY <2>1, <3>2, <3>3
  <2>3. req' \in [Slots -> Req] /\ Serving'
    BY <2>1, <2>2, BeginType
  <2> QED
    BY <1>10, <2>3 DEF NextRecipient, Typed, TypeOK, TriesLeft, Serving, person, queue, history, bounds
<1>11. ASSUME NEW s \in Slots, SaveSent(s) PROVE Typed'
  <2>1. req' \in [Slots -> Req] /\ Serving'
    BY <1>11, IdleType, SetType DEF SaveSent, Idle
  <2> QED
    BY <1>11, <2>1 DEF SaveSent, Typed, TypeOK, TriesLeft, Serving, person, queue, history, bounds
<1>12. ASSUME NEW s \in Slots, CompleteJob(s) PROVE Typed'
  <2>1. req' \in [Slots -> Req] /\ Serving'
    BY <1>12, IdleType, SetType DEF CompleteJob, Idle
  <2>2. TriesLeft' /\ job' \in [Messages -> {"none", "pending", "processing", "completed", "dead"}]
    BY <1>12 DEF CompleteJob, Typed, TypeOK, TriesLeft
  <2> QED
    BY <1>12, <2>1, <2>2 DEF CompleteJob, Typed, TypeOK, Serving, person, history, bounds
<1>13. ASSUME NEW s \in Slots, FindByKey(s) PROVE Typed'
  <2>1. PICK pc \in PCs : Goto(s, pc)
    BY <1>13 DEF FindByKey, PCs
  <2>2. req' \in [Slots -> Req] /\ Serving'
    BY <1>13, <2>1, GotoType DEF FindByKey
  <2>3. doubled' \subseteq Messages
    BY <1>0, <1>13 DEF FindByKey, Typed, TypeOK, Serving
  <2> QED
    BY <1>0, <1>13, <2>2, <2>3, KeptType DEF FindByKey, bounds, Typed, TypeOK
<1>14. ASSUME NEW s \in Slots, ReadPreferences(s) PROVE Typed'
  <2> DEFINE prefers == <<req[s].message.to, req[s].message.kind>> \in wanted
  <2>0. prefers \in BOOLEAN
    OBVIOUS
  <2>2. req' = [req EXCEPT ![s].pc = "suppression", ![s].prefers = prefers]
    BY <1>14 DEF ReadPreferences
  <2> HIDE DEF prefers
  <2> DEFINE r == [req[s] EXCEPT !.pc = "suppression", !.prefers = prefers]
  <2>3. req[s] \in Req /\ req[s].message \in Messages
    BY <1>0, <1>14 DEF ReadPreferences, Serving
  <2>4. r \in Req /\ r.message \in Messages
    BY <2>0, <2>3 DEF Req, PCs
  <2>5. req' = [req EXCEPT ![s] = r]
    BY <1>0, <2>2, <2>3 DEF Req
  <2> HIDE DEF r
  <2>6. req' \in [Slots -> Req] /\ Serving'
    BY <2>4, <2>5, SetType
  <2> QED
    BY <1>0, <1>14, <2>6, KeptType DEF ReadPreferences, bounds, history, Typed, TypeOK
<1>15. ASSUME NEW s \in Slots, ReadSuppression(s) PROVE Typed'
  <2> DEFINE blocked == Barred(req[s].message)
  <2>0. blocked \in BOOLEAN
    BY BarredType
  <2> HIDE DEF blocked
  <2>1. PICK pc \in {"consent", "send", "refuse"} :
           req' = [req EXCEPT ![s].blocked = blocked, ![s].pc = pc]
    BY <1>15 DEF ReadSuppression, Decide, blocked
  <2> DEFINE r == [req[s] EXCEPT !.blocked = blocked, !.pc = pc]
  <2>2. r \in Req /\ r.message \in Messages /\ req' = [req EXCEPT ![s] = r]
    BY <1>0, <1>15, <2>0, <2>1 DEF ReadSuppression, Serving, Req, PCs
  <2> HIDE DEF r
  <2>3. req' \in [Slots -> Req] /\ Serving'
    BY <2>2, SetType
  <2> QED
    BY <1>0, <1>15, <2>3, KeptType DEF ReadSuppression, bounds, history, Typed, TypeOK
<1>16. ASSUME NEW s \in Slots, ReadConsent(s) PROVE Typed'
  <2>1. PICK pc \in PCs : Goto(s, pc)
    BY <1>16 DEF ReadConsent, Decide, PCs
  <2>2. req' \in [Slots -> Req] /\ Serving'
    BY <1>16, <2>1, GotoType DEF ReadConsent
  <2> QED
    BY <1>0, <1>16, <2>2, KeptType DEF ReadConsent, bounds, history, Typed, TypeOK
<1>17. ASSUME NEW s \in Slots, Send(s) PROVE Typed'
  <2>1. req' \in [Slots -> Req] /\ Serving'
    BY <1>17, GotoType DEF Send, PCs
  <2>2. req[s].message \in Messages /\ mailed[req[s].message] + 1 \in Nat
    BY <1>0, <1>17 DEF Send, Serving
  <2>3. mailed' \in [Messages -> Nat]
    BY <1>0, <1>17, <2>2 DEF Send
  <2> QED
    BY <1>0, <1>17, <2>1, <2>3, KeptType DEF Send, bounds, Typed, TypeOK
<1>18. ASSUME NEW s \in Slots, Record(s) \/ Refuse(s) PROVE Typed'
  <2>1. PICK status \in {"sent", "suppressed"} : Create(s, status)
    BY <1>18 DEF Record, Refuse
  <2>2. req' \in [Slots -> Req] /\ Serving'
    BY <1>18, <2>1, GotoType DEF Record, Refuse, Create, PCs
  <2>3. delivery' \in [Messages -> {"none", "sent", "suppressed"}]
    BY <2>1 DEF Create, Typed, TypeOK
  <2> QED
    BY <1>0, <2>1, <2>2, <2>3, KeptType DEF Create, bounds, history, Typed, TypeOK
<1>19. ASSUME NEW s \in Slots, Rejected(s) PROVE Typed'
  <2>1. /\ req' \in [Slots -> Req] /\ Serving' /\ TriesLeft'
        /\ job' \in [Messages -> {"none", "pending", "processing", "completed", "dead"}]
    BY <1>19, ThrowType DEF Rejected
  <2>2. lost' \in [Messages -> Nat]
    BY <1>19, LoseType DEF Rejected
  <2> QED
    BY <1>19, <2>1, <2>2 DEF Rejected, Typed, TypeOK, Serving, person, bounds
<1>20. ASSUME NEW s \in Slots, Fails(s) PROVE Typed'
  <2>1. /\ req' \in [Slots -> Req] /\ Serving' /\ TriesLeft'
        /\ job' \in [Messages -> {"none", "pending", "processing", "completed", "dead"}]
    BY <1>20, ThrowType DEF Fails
  <2>2. lost' \in [Messages -> Nat]
    BY <1>20, LoseType DEF Fails
  <2>3. faults' \in 0 .. MaxFaults
    BY <1>0, <1>20 DEF Fails
  <2> QED
    BY <1>20, <2>1, <2>2, <2>3 DEF Fails, Typed, TypeOK, Serving, person
<1>21. ASSUME NEW s \in Slots, AnswerLost(s) PROVE Typed'
  <2>1. /\ req' \in [Slots -> Req] /\ Serving' /\ TriesLeft'
        /\ job' \in [Messages -> {"none", "pending", "processing", "completed", "dead"}]
    BY <1>21, ThrowType DEF AnswerLost
  <2>2. PICK m \in Messages : req[s].message = m
    BY <1>0, <1>21 DEF AnswerLost, Serving
  <2>3. mailed[m] + 1 \in Nat /\ lost[m] + 1 \in Nat
    BY <1>0
  <2>4. mailed' \in [Messages -> Nat] /\ lost' \in [Messages -> Nat]
    BY <1>0, <1>21, <2>2, <2>3 DEF AnswerLost
  <2>5. faults' \in 0 .. MaxFaults
    BY <1>0, <1>21 DEF AnswerLost
  <2> QED
    BY <1>21, <2>1, <2>4, <2>5 DEF AnswerLost, Typed, TypeOK, Serving, person
<1>22. ASSUME NEW s \in Slots, Dies(s) PROVE Typed'
  <2>1. req' \in [Slots -> Req] /\ Serving'
    BY <1>22, IdleType, SetType DEF Dies, Idle
  <2>2. lost' \in [Messages -> Nat] /\ faults' \in 0 .. MaxFaults
    BY <1>0, <1>22, LoseType DEF Dies
  <2> QED
    BY <1>22, <2>1, <2>2 DEF Dies, Typed, TypeOK, TriesLeft, Serving, person, queue
<1>23. CASE UNCHANGED vars
  BY <1>23 DEF vars, person, queue, history, bounds, Typed, TypeOK, TriesLeft
<1> QED
  BY <1>1, <1>2, <1>3, <1>4, <1>5, <1>6, <1>7, <1>8, <1>9, <1>10, <1>11, <1>12, <1>13, <1>14,
     <1>15, <1>16, <1>17, <1>18, <1>19, <1>20, <1>21, <1>22, <1>23 DEF Next, Dispatch

LEMMA TypedInit == Init => Typed
BY IdleType, BoundsAssumption DEF Init, Typed, TypeOK, TriesLeft, Idle

(* Rows, jobs, dispatches in flight and histories keep their types, and no *)
(* job is claimed more often than it may be.                               *)
THEOREM TypeCorrect == Spec => []TypeOK
<1>1. Spec => []Typed
  BY TypedInit, TypedStep, PTL DEF Spec
<1>2. Typed => TypeOK
  BY DEF Typed
<1> QED
  BY <1>1, <1>2, PTL
-----------------------------------------------------------------------------
(* What a suppressed address gets.                                         *)

(* An address that was suppressed when its dispatch began is so still, and *)
(* the dispatch, once it has read that, will not send.                     *)
Spared == \A s \in Slots : req[s].barred /\ req[s].pc \notin {"idle", "next"} =>
    /\ Barred(req[s].message)
    /\ req[s].pc \notin {"send", "record"}
    /\ req[s].pc = "consent" => req[s].blocked

LEMMA BlockedIsRefused == \A m, prefers : ~Allowed(m, prefers, TRUE)
BY DEF Allowed

(* Suppressions are never taken back.                                      *)
LEMMA SuppressedStays == [Next]_vars => \A m : Barred(m) => Barred(m)'
<1> SUFFICES ASSUME [Next]_vars PROVE suppressed \subseteq suppressed'
  BY DEF Barred
<1> QED
  BY DEF Next, vars, SetPreference, SuppressEmail, OptInSms, HandleStop, SuppressSms, StopDies,
         Enqueue, Claim, SendNewsletter, NextRecipient, SaveSent, CompleteJob, Dispatch,
         FindByKey, ReadPreferences, ReadSuppression, ReadConsent, Send, Record, Refuse, Create,
         Rejected, Fails, AnswerLost, Dies, person

LEMMA SparedStep == Typed /\ Spared /\ [Next]_vars => Spared'
<1> SUFFICES ASSUME Typed, Spared, [Next]_vars PROVE Spared'
  OBVIOUS
<1>0. req \in [Slots -> Req]
  BY DEF Typed, TypeOK
<1>a. \A m : Barred(m) => Barred(m)'
  BY SuppressedStays
<1>b. CASE UNCHANGED req
  BY <1>a, <1>b DEF Spared
<1>c. ASSUME NEW s \in Slots, NEW r \in Req, req' = [req EXCEPT ![s] = r],
             r.barred /\ r.pc \notin {"idle", "next"} =>
                /\ Barred(r.message)'
                /\ r.pc \notin {"send", "record"}
                /\ r.pc = "consent" => r.blocked
      PROVE Spared'
  <2>1. req'[s] = r /\ \A t \in Slots \ {s} : req'[t] = req[t]
    BY <1>0, <1>c
  <2> QED
    BY <1>a, <1>c, <2>1 DEF Spared
<1>d. ASSUME NEW s \in Slots, NEW m \in Messages, NEW r \in Req, Begin(s, m, r),
             UNCHANGED suppressed
      PROVE Spared'
  <2> DEFINE q == [r EXCEPT !.pc = "find", !.message = m, !.barred = Barred(m)]
  <2>1. q \in Req /\ q.message = m /\ q.pc = "find" /\ q.barred = Barred(m)
    BY BarredType DEF Req, PCs
  <2>2. req' = [req EXCEPT ![s] = q]
    BY <1>d DEF Begin
  <2> HIDE DEF q
  <2> QED
    BY <1>a, <1>c, <2>1, <2>2
<1>e. ASSUME NEW s \in Slots, req' = [req EXCEPT ![s] = Idle] PROVE Spared'
  BY <1>c, <1>e, IdleType DEF Idle
<1>f. ASSUME NEW s \in Slots, NEW pc \in PCs, Goto(s, pc), req[s].pc \notin {"idle", "next"},
             pc \in {"send", "record", "consent"} => ~req[s].barred
      PROVE Spared'
  <2> DEFINE q == [req[s] EXCEPT !.pc = pc]
  <2>1. q \in Req /\ q.message = req[s].message /\ q.pc = pc /\ q.barred = req[s].barred
    BY <1>0 DEF Req
  <2>2. req' = [req EXCEPT ![s] = q]
    BY <1>f DEF Goto
  <2> HIDE DEF q
  <2> QED
    BY <1>a, <1>c, <1>f, <2>1, <2>2 DEF Spared
<1>1. ASSUME NEW p \in People, NEW kind \in Kinds,
             \/ SetPreference(p, kind) \/ SuppressEmail(p) \/ OptInSms(p)
             \/ HandleStop(p) \/ SuppressSms(p) \/ StopDies(p)
      PROVE Spared'
  BY <1>1, <1>b DEF SetPreference, SuppressEmail, OptInSms, HandleStop, SuppressSms, StopDies, Asked
<1>2. ASSUME NEW m \in Messages, Enqueue(m) PROVE Spared'
  BY <1>2, <1>b DEF Enqueue
<1>3. ASSUME NEW s \in Slots, NEW m \in Messages, Claim(s, m) PROVE Spared'
  BY <1>3, <1>d, IdleType DEF Claim, person
<1>4. ASSUME NEW s \in Slots, SendNewsletter(s) PROVE Spared'
  <2> DEFINE r == [Idle EXCEPT !.pc = "next", !.letter = TRUE, !.left = Letters]
  <2>1. r \in Req /\ r.pc = "next"
    BY IdleType DEF Req, PCs, Letters
  <2>2. req' = [req EXCEPT ![s] = r]
    BY <1>4 DEF SendNewsletter
  <2> HIDE DEF r
  <2> QED
    BY <2>1, <2>2, <1>c
<1>5. ASSUME NEW s \in Slots, NextRecipient(s) PROVE Spared'
  <2>1. PICK m \in req[s].left : Begin(s, m, [req[s] EXCEPT !.left = @ \ {m}])
    BY <1>5 DEF NextRecipient
  <2>2. [req[s] EXCEPT !.left = @ \ {m}] \in Req /\ m \in Messages
    BY <1>0, <2>1 DEF Req
  <2> QED
    BY <1>5, <2>1, <2>2, <1>d DEF NextRecipient, person
<1>6. ASSUME NEW s \in Slots,
             \/ SaveSent(s) \/ CompleteJob(s) \/ Rejected(s) \/ Fails(s)
             \/ AnswerLost(s) \/ Dies(s)
      PROVE Spared'
  BY <1>6, <1>e DEF SaveSent, CompleteJob, Rejected, Fails, AnswerLost, Dies, Throw
<1>7. ASSUME NEW s \in Slots, FindByKey(s) PROVE Spared'
  <2>1. PICK pc \in {"next", "preference", "suppression"} : Goto(s, pc)
    BY <1>7 DEF FindByKey
  <2> QED
    BY <1>7, <2>1, <1>f DEF FindByKey, PCs
<1>8. ASSUME NEW s \in Slots, ReadPreferences(s) PROVE Spared'
  <2>1. /\ req'[s].message = req[s].message /\ req'[s].barred = req[s].barred
        /\ req'[s].pc = "suppression" /\ \A t \in Slots \ {s} : req'[t] = req[t]
    BY <1>0, <1>8 DEF ReadPreferences, Req
  <2> QED
    BY <1>a, <1>8, <2>1 DEF ReadPreferences, Spared
<1>9. ASSUME NEW s \in Slots, ReadSuppression(s) PROVE Spared'
  <2>1. /\ req'[s].message = req[s].message /\ req'[s].barred = req[s].barred
        /\ req'[s].blocked = Barred(req[s].message)
        /\ req'[s].pc \in {"consent", "send", "refuse"}
        /\ req'[s].pc = "send" => Allowed(req[s].message, req[s].prefers, Barred(req[s].message))
        /\ \A t \in Slots \ {s} : req'[t] = req[t]
    BY <1>0, <1>9 DEF ReadSuppression, Req, Decide
  <2>2. CASE req[s].barred
    <3>1. Barred(req[s].message) = TRUE
      BY <1>9, <2>2, BarredType DEF ReadSuppression, Spared
    <3> QED
      BY <1>a, <2>1, <3>1, BlockedIsRefused DEF Spared
  <2>3. CASE ~req[s].barred
    BY <1>a, <2>1, <2>3 DEF Spared
  <2> QED
    BY <2>2, <2>3
<1>10. ASSUME NEW s \in Slots, ReadConsent(s) PROVE Spared'
  <2>1. PICK pc \in {"send", "refuse"} :
           /\ Goto(s, pc)
           /\ pc = "send" => Allowed(req[s].message, req[s].prefers, req[s].blocked)
    BY <1>10 DEF ReadConsent, Decide
  <2>2. req[s].barred => req[s].blocked = TRUE
    BY <1>0, <1>10 DEF ReadConsent, Spared, Req
  <2> QED
    BY <1>10, <2>1, <2>2, <1>f, BlockedIsRefused DEF ReadConsent, PCs
<1>11. ASSUME NEW s \in Slots, Send(s) PROVE Spared'
  BY <1>11, <1>f DEF Send, Spared, PCs
<1>12. ASSUME NEW s \in Slots, Record(s) \/ Refuse(s) PROVE Spared'
  BY <1>12, <1>f DEF Record, Refuse, Create, PCs
<1>13. CASE UNCHANGED vars
  BY <1>13, <1>b DEF vars
<1> QED
  BY <1>1, <1>2, <1>3, <1>4, <1>5, <1>6, <1>7, <1>8, <1>9, <1>10, <1>11, <1>12, <1>13
     DEF Next, Dispatch, Kinds
(* Only what is handed to the provider counts as mailed, by a dispatch     *)
(* that is about to send.                                                  *)
LEMMA MailedBySending ==
    ASSUME Typed, [Next]_vars
    PROVE  \/ mailed' = mailed
           \/ \E s \in Slots : /\ req[s].pc = "send"
                               /\ \A t \in Slots \ {s} : req'[t] = req[t]
<1>1. ASSUME NEW s \in Slots, Send(s) \/ AnswerLost(s)
      PROVE  req[s].pc = "send" /\ \A t \in Slots \ {s} : req'[t] = req[t]
  BY <1>1 DEF Send, AnswerLost, Goto, Throw, Typed, TypeOK
<1> QED
  BY <1>1 DEF Next, vars, SetPreference, SuppressEmail, OptInSms, HandleStop, SuppressSms, StopDies,
         Asked, Enqueue, Claim, SendNewsletter, NextRecipient, SaveSent, CompleteJob, Dispatch,
         FindByKey, ReadPreferences, ReadSuppression, ReadConsent, Record, Refuse, Create,
         Rejected, Fails, Dies, history

(* Nothing goes to an address by a dispatch that began after the address   *)
(* was suppressed, whatever preferences, consents and decisions overlap.   *)
THEOREM OptOutAlwaysHolds == Spec => OptOutHolds
<1>1. Init => Spared
  BY DEF Init, Spared, Idle
<1>2. Spec => [](Typed /\ Spared)
  BY TypedInit, TypedStep, <1>1, SparedStep, PTL DEF Spec
<1>3. Typed /\ Spared /\ [Next]_vars =>
         [\A s \in Slots : (req[s].barred /\ req'[s] # req[s]) => mailed' = mailed]_vars
  BY MailedBySending DEF Spared
<1> QED
  BY <1>2, <1>3, PTL DEF Spec, OptOutHolds

-----------------------------------------------------------------------------
(* Nobody is skipped.                                                      *)

(* A dispatch that is over has left a row, and so has every recipient that *)
(* a newsletter has gone past.                                             *)
Reached == \A s \in Slots :
    /\ req[s].pc = "next" /\ ~req[s].letter =>
          req[s].message \in Messages /\ delivery[req[s].message] # "none"
    /\ req[s].letter => \A m \in Letters \ req[s].left :
          delivery[m] # "none" \/ (m = req[s].message /\ req[s].pc # "next")

LEMMA ReachedStep == Typed /\ Reached /\ NobodySkipped /\ [Next]_vars => Reached' /\ NobodySkipped'
<1> SUFFICES ASSUME Typed, Reached, NobodySkipped, [Next]_vars PROVE Reached' /\ NobodySkipped'
  OBVIOUS
<1>0. /\ req \in [Slots -> Req] /\ delivery \in [Messages -> {"none", "sent", "suppressed"}]
      /\ job \in [Messages -> {"none", "pending", "processing", "completed", "dead"}]
      /\ Letters \subseteq Messages /\ Queued \subseteq Messages
  BY DEF Typed, TypeOK, Letters, Queued
<1>a. CASE /\ UNCHANGED <<req, delivery, letter>>
           /\ \A m \in Queued : job'[m] = "completed" => job[m] = "completed"
  BY <1>a DEF Reached, NobodySkipped
<1>b. ASSUME NEW s \in Slots, NEW r \in Req, req' = [req EXCEPT ![s] = r], UNCHANGED delivery,
             r.pc = "next" => r.letter,
             r.letter => \A m \in Letters \ r.left :
                delivery[m] # "none" \/ (m = r.message /\ r.pc # "next")
      PROVE  Reached'
  <2>1. req'[s] = r /\ \A t \in Slots \ {s} : req'[t] = req[t]
    BY <1>0, <1>b
  <2> QED
    BY <1>b, <2>1 DEF Reached
<1>c. ASSUME NEW s \in Slots, UNCHANGED <<letter, job>>,
             \A t \in Slots \ {s} : req'[t] = req[t],
             req'[s].letter = req[s].letter, req'[s].left = req[s].left,
             req'[s].message = req[s].message, req[s].pc # "next",
             \A m \in Messages : delivery[m] # "none" => delivery'[m] # "none",
             req'[s].pc = "next" => req[s].message \in Messages /\ delivery'[req[s].message] # "none"
      PROVE  Reached' /\ NobodySkipped'
  <2>1. NobodySkipped'
    BY <1>0, <1>c DEF NobodySkipped
  <2>2. ASSUME NEW t \in Slots \ {s}
        PROVE  /\ req'[t].pc = "next" /\ ~req'[t].letter =>
                      req'[t].message \in Messages /\ delivery'[req'[t].message] # "none"
               /\ req'[t].letter => \A m \in Letters \ req'[t].left :
                      delivery'[m] # "none" \/ (m = req'[t].message /\ req'[t].pc # "next")
    BY <1>0, <1>c, <2>2 DEF Reached
  <2>3. req'[s].letter => \A m \in Letters \ req'[s].left :
           delivery'[m] # "none" \/ (m = req'[s].message /\ req'[s].pc # "next")
    BY <1>0, <1>c DEF Reached
  <2> QED
    BY <1>c, <2>1, <2>2, <2>3 DEF Reached, Letters
<1>d. ASSUME NEW s \in Slots, NEW m \in Messages, NEW r \in Req, Begin(s, m, r), UNCHANGED delivery,
             r.letter => \A n \in Letters \ r.left : n = m \/ delivery[n] # "none"
      PROVE  Reached'
  <2> DEFINE q == [r EXCEPT !.pc = "find", !.message = m, !.barred = Barred(m)]
  <2>1. /\ q \in Req /\ q.message = m /\ q.pc = "find"
        /\ q.letter = r.letter /\ q.left = r.left
    BY BarredType DEF Req, PCs
  <2>2. req' = [req EXCEPT ![s] = q]
    BY <1>d DEF Begin
  <2> HIDE DEF q
  <2> QED
    BY <1>b, <1>d, <2>1, <2>2
<1>e. ASSUME NEW s \in Slots, NEW pc, Goto(s, pc), UNCHANGED <<letter, job>>, req[s].pc # "next",
             \A m \in Messages : delivery[m] # "none" => delivery'[m] # "none",
             pc = "next" => req[s].message \in Messages /\ delivery'[req[s].message] # "none"
      PROVE  Reached' /\ NobodySkipped'
  <2>1. /\ req'[s].message = req[s].message /\ req'[s].letter = req[s].letter
        /\ req'[s].left = req[s].left /\ req'[s].pc = pc
        /\ \A t \in Slots \ {s} : req'[t] = req[t]
    BY <1>0, <1>e DEF Goto, Req
  <2> QED
    BY <1>c, <1>e, <2>1
<1>f. ASSUME NEW s \in Slots, Throw(s), UNCHANGED <<delivery, letter>>
      PROVE  Reached' /\ NobodySkipped'
  <2>1. Reached'
    BY <1>b, <1>f, IdleType DEF Throw, Idle
  <2>2. \A m \in Queued : job'[m] = "completed" => job[m] = "completed"
    BY <1>0, <1>f DEF Throw
  <2> QED
    BY <1>f, <2>1, <2>2 DEF NobodySkipped
<1>1. ASSUME NEW p \in People, NEW kind \in Kinds,
             \/ SetPreference(p, kind) \/ SuppressEmail(p) \/ OptInSms(p)
             \/ HandleStop(p) \/ SuppressSms(p) \/ StopDies(p)
      PROVE  Reached' /\ NobodySkipped'
  BY <1>1, <1>a DEF SetPreference, SuppressEmail, OptInSms, HandleStop, SuppressSms, StopDies,
                    Asked, queue
<1>2. ASSUME NEW m \in Messages, Enqueue(m) PROVE Reached' /\ NobodySkipped'
  BY <1>0, <1>2, <1>a DEF Enqueue
<1>3. ASSUME NEW s \in Slots, NEW m \in Messages, Claim(s, m) PROVE Reached' /\ NobodySkipped'
  <2>1. Reached'
    BY <1>3, <1>d, IdleType DEF Claim, Idle
  <2>2. NobodySkipped'
    BY <1>0, <1>3 DEF Claim, NobodySkipped
  <2> QED
    BY <2>1, <2>2
<1>4. ASSUME NEW s \in Slots, SendNewsletter(s) PROVE Reached' /\ NobodySkipped'
  <2> DEFINE r == [Idle EXCEPT !.pc = "next", !.letter = TRUE, !.left = Letters]
  <2>1. r \in Req /\ r.letter /\ r.left = Letters
    BY IdleType DEF Req, PCs, Letters, Idle
  <2>2. req' = [req EXCEPT ![s] = r]
    BY <1>4 DEF SendNewsletter
  <2> HIDE DEF r
  <2>3. Reached'
    BY <1>4, <2>1, <2>2, <1>b DEF SendNewsletter
  <2> QED
    BY <1>4, <2>3 DEF SendNewsletter, NobodySkipped, queue
<1>5. ASSUME NEW s \in Slots, NextRecipient(s) PROVE Reached' /\ NobodySkipped'
  <2>1. PICK m \in req[s].left : Begin(s, m, [req[s] EXCEPT !.left = @ \ {m}])
    BY <1>5 DEF NextRecipient
  <2> DEFINE r == [req[s] EXCEPT !.left = @ \ {m}]
  <2>2. r \in Req /\ m \in Messages /\ r.letter = req[s].letter /\ r.left = req[s].left \ {m}
    BY <1>0, <2>1 DEF Req
  <2>3. \A n \in Letters \ r.left : n = m \/ delivery[n] # "none"
    BY <1>5, <2>2 DEF NextRecipient, Reached
  <2>4. Begin(s, m, r) /\ UNCHANGED delivery
    BY <1>5, <2>1 DEF NextRecipient
  <2> HIDE DEF r
  <2>5. Reached'
    BY <2>2, <2>3, <2>4, <1>d
  <2> QED
    BY <1>5, <2>5 DEF NextRecipient, NobodySkipped, queue
<1>6. ASSUME NEW s \in Slots, SaveSent(s) PROVE Reached' /\ NobodySkipped'
  <2>1. Reached'
    BY <1>6, <1>b, IdleType DEF SaveSent, Idle
  <2>2. \A m \in Letters : delivery[m] # "none"
    BY <1>6 DEF SaveSent, Reached
  <2> QED
    BY <1>6, <2>1, <2>2 DEF SaveSent, NobodySkipped, queue
<1>7. ASSUME NEW s \in Slots, CompleteJob(s) PROVE Reached' /\ NobodySkipped'
  <2>1. Reached'
    BY <1>7, <1>b, IdleType DEF CompleteJob, Idle
  <2>2. req[s].message \in Messages /\ delivery[req[s].message] # "none"
    BY <1>7 DEF CompleteJob, Reached
  <2> QED
    BY <1>0, <1>7, <2>1, <2>2 DEF CompleteJob, NobodySkipped
<1>8. ASSUME NEW s \in Slots, FindByKey(s) PROVE Reached' /\ NobodySkipped'
  <2>1. PICK pc \in {"next", "preference", "suppression"} :
           Goto(s, pc) /\ (pc = "next" => delivery[req[s].message] # "none")
    BY <1>8 DEF FindByKey, Found
  <2>2. req[s].message \in Messages
    BY <1>8 DEF FindByKey, Typed, TypeOK
  <2> QED
    BY <1>8, <2>1, <2>2, <1>e DEF FindByKey, queue
<1>9. ASSUME NEW s \in Slots, ReadPreferences(s) \/ ReadSuppression(s) PROVE Reached' /\ NobodySkipped'
  <2>1. /\ req'[s].message = req[s].message /\ req'[s].letter = req[s].letter
        /\ req'[s].left = req[s].left /\ req'[s].pc # "next" /\ req[s].pc # "next"
        /\ \A t \in Slots \ {s} : req'[t] = req[t]
    BY <1>0, <1>9 DEF ReadPreferences, ReadSuppression, Decide, Req
  <2> QED
    BY <1>9, <2>1, <1>c DEF ReadPreferences, ReadSuppression, queue
<1>10. ASSUME NEW s \in Slots, ReadConsent(s) \/ Send(s) PROVE Reached' /\ NobodySkipped'
  <2>1. PICK pc \in {"send", "refuse", "record"} : Goto(s, pc) /\ req[s].pc # "next"
    BY <1>10 DEF ReadConsent, Send, Decide
  <2> QED
    BY <1>10, <2>1, <1>e DEF ReadConsent, Send, queue
<1>11. ASSUME NEW s \in Slots, Record(s) \/ Refuse(s) PROVE Reached' /\ NobodySkipped'
  <2>1. PICK status \in {"sent", "suppressed"} : Create(s, status) /\ req[s].pc \in {"record", "refuse"}
    BY <1>11 DEF Record, Refuse
  <2>2. req[s].message \in Messages
    BY <2>1 DEF Typed, TypeOK
  <2>3. /\ \A m \in Messages : delivery[m] # "none" => delivery'[m] # "none"
        /\ delivery'[req[s].message] # "none"
    BY <1>0, <2>1, <2>2 DEF Create
  <2> QED
    BY <2>1, <2>2, <2>3, <1>e DEF Create, queue
<1>12. ASSUME NEW s \in Slots, Rejected(s) \/ Fails(s) \/ AnswerLost(s)
       PROVE Reached' /\ NobodySkipped'
  BY <1>12, <1>f DEF Rejected, Fails, AnswerLost
<1>13. ASSUME NEW s \in Slots, Dies(s) PROVE Reached' /\ NobodySkipped'
  <2>1. Reached'
    BY <1>13, <1>b, IdleType DEF Dies, Idle
  <2> QED
    BY <1>13, <2>1 DEF Dies, NobodySkipped, queue
<1>14. CASE UNCHANGED vars
  BY <1>14, <1>a DEF vars, queue
<1> QED
  BY <1>1, <1>2, <1>3, <1>4, <1>5, <1>6, <1>7, <1>8, <1>9, <1>10, <1>11, <1>12, <1>13, <1>14
     DEF Next, Dispatch, Kinds

(* A job that is completed, or a newsletter shown as sent, left nobody     *)
(* out, whatever failed, died or was sent by two requests at once.         *)
THEOREM NobodyIsSkipped == Spec => []NobodySkipped
<1>1. Init => Reached /\ NobodySkipped
  BY DEF Init, Reached, NobodySkipped, Idle, Queued
<1>2. Spec => [](Typed /\ Reached /\ NobodySkipped)
  BY TypedInit, TypedStep, <1>1, ReachedStep, PTL DEF Spec
<1> QED
  BY <1>2, PTL
-----------------------------------------------------------------------------
(* A message goes out once for each key.                                   *)

(* Dispatches that have looked the message up and not answered it.         *)
Sending(m) == {s \in Slots : req[s].message = m /\ req[s].pc \notin {"idle", "find", "next"}}

(* At most one dispatch is at work on a message, none if it has its row,   *)
(* and every time the provider took it was either lost, recorded, or is    *)
(* about to be recorded.                                                   *)
Answer(m) == delivery[m] = "sent" \/ \E s \in Sending(m) : req[s].pc = "record"
Counted(m) ==
    /\ \A s, t \in Sending(m) : s = t
    /\ delivery[m] # "none" => Sending(m) = {}
    /\ mailed[m] = lost[m] + (IF Answer(m) THEN 1 ELSE 0)
AllCounted == \A m \in Messages \ doubled : Counted(m)

(* A step of a slot that does not send a message leaves its count alone.   *)
LEMMA Elsewhere ==
    ASSUME NEW s \in Slots, NEW m \in Messages, Counted(m),
           \A t \in Slots \ {s} : req'[t] = req[t],
           s \notin Sending(m), s \notin Sending(m)',
           delivery'[m] = delivery[m], mailed'[m] = mailed[m], lost'[m] = lost[m]
    PROVE  Counted(m)'
<1>1. Sending(m)' = Sending(m) /\ \A t \in Sending(m) : req'[t] = req[t]
  BY DEF Sending
<1>2. Answer(m)' <=> Answer(m)
  BY <1>1 DEF Answer
<1> QED
  BY <1>1, <1>2 DEF Counted

(* The one that sends it is alone.                                         *)
LEMMA Alone ==
    ASSUME NEW m \in Messages, Counted(m), NEW s \in Sending(m)
    PROVE  /\ Sending(m) = {s} /\ delivery[m] = "none"
           /\ mailed[m] = lost[m] + (IF req[s].pc = "record" THEN 1 ELSE 0)
BY DEF Counted, Answer

(* It leaves the count right if it goes with the message recorded or lost. *)
LEMMA Leaving ==
    ASSUME NEW m \in Messages, Counted(m), NEW s \in Sending(m),
           \A t \in Slots \ {s} : req'[t] = req[t], s \notin Sending(m)',
           mailed'[m] = lost'[m] + (IF delivery'[m] = "sent" THEN 1 ELSE 0)
    PROVE  Counted(m)'
<1>1. Sending(m)' = {}
  BY Alone DEF Sending
<1> QED
  BY <1>1 DEF Counted, Answer

(* It stays with nothing recorded yet.                                     *)
LEMMA Staying ==
    ASSUME NEW m \in Messages, Counted(m), NEW s \in Sending(m),
           \A t \in Slots \ {s} : req'[t] = req[t], s \in Sending(m)',
           delivery'[m] = delivery[m],
           mailed'[m] = lost'[m] + (IF req'[s].pc = "record" THEN 1 ELSE 0)
    PROVE  Counted(m)'
<1>1. Sending(m)' = {s} /\ delivery'[m] = "none"
  BY Alone DEF Sending
<1>2. Answer(m)' <=> req'[s].pc = "record"
  BY <1>1 DEF Answer
<1> QED
  BY <1>1, <1>2 DEF Counted

LEMMA CountedStep == Typed /\ AllCounted /\ [Next]_vars => AllCounted'
<1> SUFFICES ASSUME Typed, AllCounted, [Next]_vars, NEW m \in Messages, m \notin doubled'
             PROVE  Counted(m)'
  BY DEF AllCounted
<1>0. /\ req \in [Slots -> Req] /\ delivery \in [Messages -> {"none", "sent", "suppressed"}]
      /\ mailed \in [Messages -> Nat] /\ lost \in [Messages -> Nat]
      /\ \A s \in Slots : req[s].pc \notin {"idle", "next"} => req[s].message \in Messages
  BY DEF Typed, TypeOK
<1>a. m \notin doubled => Counted(m)
  BY DEF AllCounted
<1>b. CASE UNCHANGED <<req, delivery, mailed, lost, doubled>>
  BY <1>a, <1>b DEF Counted, Answer, Sending
<1>c. ASSUME NEW s \in Slots, req[s].pc \in {"idle", "find", "next"},
             req'[s].pc \in {"idle", "find", "next"}, \A t \in Slots \ {s} : req'[t] = req[t],
             UNCHANGED <<delivery, mailed, lost, doubled>>
      PROVE  Counted(m)'
  BY <1>a, <1>c, Elsewhere DEF Sending
<1>d. ASSUME NEW s \in Slots, req[s].message # m, req'[s].message = req[s].message,
             \A t \in Slots \ {s} : req'[t] = req[t], m \notin doubled,
             delivery'[m] = delivery[m], mailed'[m] = mailed[m], lost'[m] = lost[m]
      PROVE  Counted(m)'
  BY <1>a, <1>d, Elsewhere DEF Sending
<1>1. ASSUME NEW p \in People, NEW kind \in Kinds,
             \/ SetPreference(p, kind) \/ SuppressEmail(p) \/ OptInSms(p)
             \/ HandleStop(p) \/ SuppressSms(p) \/ StopDies(p)
      PROVE  Counted(m)'
  BY <1>1, <1>b DEF SetPreference, SuppressEmail, OptInSms, HandleStop, SuppressSms, StopDies,
                    Asked, history
<1>2. ASSUME NEW n \in Messages, Enqueue(n) PROVE Counted(m)'
  BY <1>2, <1>b DEF Enqueue, history
<1>3. ASSUME NEW s \in Slots, NEW n \in Messages, Claim(s, n) PROVE Counted(m)'
  BY <1>0, <1>3, <1>c, IdleType DEF Claim, Begin, Idle, Req, history
<1>4. ASSUME NEW s \in Slots, SendNewsletter(s) PROVE Counted(m)'
  BY <1>0, <1>4, <1>c DEF SendNewsletter, Idle, history
<1>5. ASSUME NEW s \in Slots, NextRecipient(s) PROVE Counted(m)'
  BY <1>0, <1>5, <1>c DEF NextRecipient, Begin, Req, history
<1>6. ASSUME NEW s \in Slots, SaveSent(s) \/ CompleteJob(s) PROVE Counted(m)'
  BY <1>0, <1>6, <1>c DEF SaveSent, CompleteJob, Idle, history
<1>7. ASSUME NEW s \in Slots, FindByKey(s) PROVE Counted(m)'
  <2>0. PICK pc \in {"next", "preference", "suppression"} :
           Goto(s, pc) /\ (pc # "next" => ~Found(req[s].message))
    BY <1>7 DEF FindByKey
  <2>1. /\ req'[s].pc = pc /\ req'[s].message = req[s].message
        /\ \A t \in Slots \ {s} : req'[t] = req[t]
    BY <1>0, <2>0 DEF Goto, Req
  <2>2. /\ req[s].pc = "find" /\ m \notin doubled /\ s \notin Sending(m)
        /\ UNCHANGED <<delivery, mailed, lost>>
    BY <1>7 DEF FindByKey, Sending
  <2>3. CASE pc = "next" \/ req[s].message # m
    BY <1>a, <2>1, <2>2, <2>3, Elsewhere DEF Sending
  <2>4. CASE pc # "next" /\ req[s].message = m
    <3>1. Others(s) = {} /\ delivery[m] = "none"
      BY <1>7, <2>0, <2>4 DEF FindByKey, Found
    <3>2. Sending(m) = {} /\ Sending(m)' = {s}
      BY <2>0, <2>1, <2>2, <2>4, <3>1 DEF Sending, Others
    <3>3. ~Answer(m) /\ ~Answer(m)'
      BY <2>0, <2>1, <2>2, <3>1, <3>2 DEF Answer
    <3> QED
      BY <1>a, <2>2, <3>1, <3>2, <3>3 DEF Counted
  <2> QED
    BY <2>3, <2>4
<1>8. ASSUME NEW s \in Slots, ReadPreferences(s) \/ ReadSuppression(s) \/ ReadConsent(s)
      PROVE  Counted(m)'
  <2>1. /\ req'[s].message = req[s].message /\ \A t \in Slots \ {s} : req'[t] = req[t]
        /\ req[s].pc \in {"preference", "suppression", "consent"}
        /\ req'[s].pc \in {"suppression", "consent", "send", "refuse"}
        /\ UNCHANGED <<delivery, mailed, lost, doubled>>
    BY <1>0, <1>8 DEF ReadPreferences, ReadSuppression, ReadConsent, Goto, Decide, Req, history
  <2>2. CASE req[s].message # m
    BY <1>d, <2>1, <2>2
  <2>3. CASE req[s].message = m
    BY <1>a, <2>1, <2>3, Alone, Staying DEF Sending
  <2> QED
    BY <2>2, <2>3
<1>9. ASSUME NEW s \in Slots, Send(s) PROVE Counted(m)'
  <2>1. /\ req'[s].message = req[s].message /\ \A t \in Slots \ {s} : req'[t] = req[t]
        /\ req[s].pc = "send" /\ req'[s].pc = "record"
        /\ UNCHANGED <<delivery, lost, doubled>>
    BY <1>0, <1>9 DEF Send, Goto, Req
  <2>2. CASE req[s].message # m
    <3>1. mailed'[m] = mailed[m]
      BY <1>0, <1>9, <2>2 DEF Send
    <3> QED
      BY <1>d, <2>1, <2>2, <3>1
  <2>3. CASE req[s].message = m
    <3>1. mailed'[m] = mailed[m] + 1
      BY <1>0, <1>9, <2>3 DEF Send
    <3>2. s \in Sending(m) /\ s \in Sending(m)'
      BY <2>1, <2>3 DEF Sending
    <3>3. mailed[m] = lost[m] + 0
      BY <1>a, <2>1, <3>2, Alone
    <3>4. mailed'[m] = lost'[m] + 1
      BY <1>0, <2>1, <3>1, <3>3
    <3> QED
      BY <1>a, <2>1, <3>2, <3>4, Staying
  <2> QED
    BY <2>2, <2>3
<1>10. ASSUME NEW s \in Slots, NEW status \in {"sent", "suppressed"}, Create(s, status),
              req[s].pc = IF status = "sent" THEN "record" ELSE "refuse"
       PROVE  Counted(m)'
  <2>1. /\ req'[s].message = req[s].message /\ \A t \in Slots \ {s} : req'[t] = req[t]
        /\ req'[s].pc = "next" /\ UNCHANGED <<mailed, lost, doubled>>
    BY <1>0, <1>10 DEF Create, Goto, Req, history
  <2>2. CASE req[s].message # m
    <3>1. delivery'[m] = delivery[m]
      BY <1>0, <1>10, <2>2 DEF Create
    <3> QED
      BY <1>d, <2>1, <2>2, <3>1
  <2>3. CASE req[s].message = m
    <3>1. delivery'[m] = status
      BY <1>0, <1>10, <2>3 DEF Create
    <3>2. s \in Sending(m) /\ s \notin Sending(m)'
      BY <1>10, <2>1, <2>3 DEF Sending
    <3>3. mailed[m] = lost[m] + (IF status = "sent" THEN 1 ELSE 0)
      BY <1>10, <1>a, <2>1, <3>2, Alone
    <3> QED
      BY <1>a, <2>1, <3>1, <3>2, <3>3, Leaving
  <2> QED
    BY <2>2, <2>3
<1>e. ASSUME NEW s \in Slots, req' = [req EXCEPT ![s] = Idle], Lose(s),
             UNCHANGED <<delivery, mailed, doubled>>
      PROVE  Counted(m)'
  <2>1. /\ req'[s].pc = "idle" /\ \A t \in Slots \ {s} : req'[t] = req[t]
        /\ s \notin Sending(m)'
    BY <1>0, <1>e DEF Idle, Sending
  <2>2. CASE s \notin Sending(m)
    <3>1. lost'[m] = lost[m]
      BY <1>0, <1>e, <2>2 DEF Lose, Sending
    <3> QED
      BY <1>a, <1>e, <2>1, <2>2, <3>1, Elsewhere
  <2>3. CASE s \in Sending(m)
    <3>1. /\ mailed[m] = lost[m] + (IF req[s].pc = "record" THEN 1 ELSE 0)
          /\ delivery'[m] = "none" /\ mailed'[m] = mailed[m]
      BY <1>a, <1>e, <2>3, Alone
    <3>2. lost'[m] = lost[m] + (IF req[s].pc = "record" THEN 1 ELSE 0)
      BY <1>0, <1>e, <2>3 DEF Lose, Sending
    <3> QED
      BY <1>0, <1>a, <1>e, <2>1, <2>3, <3>1, <3>2, Leaving
  <2> QED
    BY <2>2, <2>3
<1>11. ASSUME NEW s \in Slots, Rejected(s) \/ Fails(s) \/ Dies(s) PROVE Counted(m)'
  BY <1>11, <1>e DEF Rejected, Fails, Dies, Throw
<1>12. ASSUME NEW s \in Slots, AnswerLost(s) PROVE Counted(m)'
  <2>1. /\ req[s].pc = "send" /\ \A t \in Slots \ {s} : req'[t] = req[t]
        /\ s \notin Sending(m)' /\ UNCHANGED <<delivery, doubled>>
    BY <1>0, <1>12 DEF AnswerLost, Throw, Idle, Sending
  <2>2. CASE req[s].message # m
    <3>1. mailed'[m] = mailed[m] /\ lost'[m] = lost[m] /\ s \notin Sending(m)
      BY <1>0, <1>12, <2>2 DEF AnswerLost, Sending
    <3> QED
      BY <1>a, <2>1, <3>1, Elsewhere
  <2>3. CASE req[s].message = m
    <3>1. mailed'[m] = mailed[m] + 1 /\ lost'[m] = lost[m] + 1 /\ s \in Sending(m)
      BY <1>0, <1>12, <2>3 DEF AnswerLost, Sending
    <3>2. mailed[m] = lost[m] + 0 /\ delivery'[m] = "none"
      BY <1>a, <2>1, <3>1, Alone
    <3>3. mailed'[m] = lost'[m] + 0
      BY <1>0, <3>1, <3>2
    <3> QED
      BY <1>a, <2>1, <3>1, <3>2, <3>3, Leaving
  <2> QED
    BY <2>2, <2>3
<1>13. CASE UNCHANGED vars
  BY <1>13, <1>b DEF vars, history
<1> QED
  BY <1>1, <1>2, <1>3, <1>4, <1>5, <1>6, <1>7, <1>8, <1>9, <1>10, <1>11, <1>12, <1>13
     DEF Next, Dispatch, Record, Refuse, Kinds

(* Through jobs tried again, newsletters sent again and failures at every  *)
(* step, a message goes out once for its key, and besides only when it was *)
(* taken and no row could be written or two dispatches sent it at once.    *)
THEOREM SentOnceAlways == Spec => []SentOnce
<1>1. Init => AllCounted
  BY DEF Init, AllCounted, Counted, Answer, Sending, Idle
<1>2. Spec => [](Typed /\ AllCounted)
  BY TypedInit, TypedStep, <1>1, CountedStep, PTL DEF Spec
<1>3. Typed /\ AllCounted => SentOnce
  <2> SUFFICES ASSUME Typed, AllCounted, NEW m \in Messages \ doubled
               PROVE  mailed[m] <= lost[m] + (IF delivery[m] = "suppressed" THEN 0 ELSE 1)
    BY DEF SentOnce
  <2>1. Counted(m) /\ mailed[m] \in Nat /\ lost[m] \in Nat
    BY DEF AllCounted, Typed, TypeOK
  <2>2. delivery[m] = "suppressed" => ~Answer(m)
    BY <2>1 DEF Counted, Answer
  <2> QED
    BY <2>1, <2>2 DEF Counted
<1> QED
  BY <1>2, <1>3, PTL
=============================================================================
