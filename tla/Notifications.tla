---------------------------- MODULE Notifications ----------------------------
(***************************************************************************)
(* Messages to people.  dispatch looks the message's key up, reads what    *)
(* the person wants, decides, hands the message to the provider and        *)
(* records a delivery; each await is a step of its own.  Reminders and     *)
(* texts come from the job queue, a newsletter from an organizer's request *)
(* that goes through its recipients.  Meanwhile people change their mind.  *)
(***************************************************************************)
EXTENDS Naturals, FiniteSets

CONSTANTS
    People,
    Members,     \* people with an account, who have preferences
    Messages,    \* one for each idempotency key
    NoMessage,
    Slots,       \* requests and jobs that run at once
    MaxTries,    \* maxAttempts of a job
    MaxCalls,    \* bound: newsletters sent and changes of mind
    MaxFaults    \* bound: statements and providers that fail, processes that die

Kinds == {"reminder", "text", "newsletter"}

ASSUME MessagesAssumption ==
    /\ Members \subseteq People
    /\ Messages \subseteq [to: People, kind: Kinds]
    /\ NoMessage \notin Messages
ASSUME BoundsAssumption ==
    MaxTries \in Nat \ {0} /\ MaxCalls \in Nat /\ MaxFaults \in Nat

VARIABLES
    wanted,      \* the enabled notification_preference rows, by kind
    suppressed,  \* the notification_suppression rows
    consent,     \* people whose sms_consent is opted_in
    stopping,    \* people whose STOP is being handled
    delivery,    \* status of each message's notification_delivery row
    job,         \* status of each message's job
    tries,       \* attempts of each message's job
    letter,      \* status of the newsletter
    req,         \* dispatches in flight
    mailed,      \* external: how often the provider took each message
    lost,        \* history: how often a message was taken and no row written
    doubled,     \* history: messages that two dispatches sent at the same time
    calls,
    faults

person == <<wanted, suppressed, consent, stopping>>
queue == <<job, tries>>
history == <<mailed, lost, doubled>>
bounds == <<calls, faults>>
vars == <<person, delivery, queue, letter, req, history, bounds>>

-----------------------------------------------------------------------------
Letters == {m \in Messages : m.kind = "newsletter"}
Queued == Messages \ Letters
Channel(m) == IF m.kind = "text" THEN "sms" ELSE "email"

PCs == {"idle", "find", "preference", "suppression", "consent", "refuse", "send",
        "record", "next"}
(* What the dispatch has read so far; barred is history: the address was   *)
(* suppressed when the dispatch began.  left is the rest of a newsletter.  *)
Req == [pc: PCs, message: Messages \cup {NoMessage}, prefers: BOOLEAN,
        blocked: BOOLEAN, barred: BOOLEAN, letter: BOOLEAN, left: SUBSET Messages]
Idle == [pc |-> "idle", message |-> NoMessage, prefers |-> FALSE, blocked |-> FALSE,
         barred |-> FALSE, letter |-> FALSE, left |-> {}]

Init ==
    /\ wanted \in SUBSET (Members \X Kinds) /\ consent \in SUBSET People
    /\ suppressed = {} /\ stopping = {}
    /\ delivery = [m \in Messages |-> "none"]
    /\ job = [m \in Messages |-> "none"]
    /\ tries = [m \in Messages |-> 0]
    /\ letter = "draft"
    /\ req = [s \in Slots |-> Idle]
    /\ mailed = [m \in Messages |-> 0]
    /\ lost = [m \in Messages |-> 0]
    /\ doubled = {}
    /\ calls = 0 /\ faults = 0

Called == calls < MaxCalls /\ calls' = calls + 1

-----------------------------------------------------------------------------
(* People change their mind.                                               *)

Asked == UNCHANGED <<delivery, queue, letter, req, history, faults>>

SetPreference(p, kind) ==
    /\ Called
    /\ p \in Members
    /\ wanted' = IF <<p, kind>> \in wanted THEN wanted \ {<<p, kind>>}
                                           ELSE wanted \cup {<<p, kind>>}
    /\ UNCHANGED <<suppressed, consent, stopping>> /\ Asked

(* An unsubscribe link, a bounce or a complaint.                           *)
SuppressEmail(p) ==
    /\ Called
    /\ suppressed' = suppressed \cup {<<p, "email">>}
    /\ UNCHANGED <<wanted, consent, stopping>> /\ Asked

(* It leaves a suppression where it is.                                    *)
OptInSms(p) ==
    /\ Called
    /\ consent' = consent \cup {p}
    /\ UNCHANGED <<wanted, suppressed, stopping>> /\ Asked

(* A STOP takes the consent back, then suppresses the number.              *)
HandleStop(p) ==
    /\ Called
    /\ p \notin stopping
    /\ consent' = consent \ {p}
    /\ stopping' = stopping \cup {p}
    /\ UNCHANGED <<wanted, suppressed>> /\ Asked

SuppressSms(p) ==
    /\ p \in stopping
    /\ suppressed' = suppressed \cup {<<p, "sms">>}
    /\ stopping' = stopping \ {p}
    /\ UNCHANGED <<wanted, consent, calls>> /\ Asked

StopDies(p) ==
    /\ p \in stopping
    /\ faults < MaxFaults /\ faults' = faults + 1
    /\ stopping' = stopping \ {p}
    /\ UNCHANGED <<wanted, suppressed, consent, delivery, queue, letter, req, history, calls>>

-----------------------------------------------------------------------------
(* Where dispatches come from.                                             *)

(* One job for each key.                                                   *)
Enqueue(m) ==
    /\ m \in Queued
    /\ job[m] = "none"
    /\ job' = [job EXCEPT ![m] = "pending"]
    /\ UNCHANGED <<person, delivery, tries, letter, req, history, bounds>>

Barred(m) == <<m.to, Channel(m)>> \in suppressed

Begin(s, m, r) ==
    req' = [req EXCEPT ![s] = [r EXCEPT !.pc = "find", !.message = m, !.barred = Barred(m)]]

Claim(s, m) ==
    /\ req[s].pc = "idle"
    /\ job[m] = "pending"
    /\ job' = [job EXCEPT ![m] = "processing"]
    /\ tries' = [tries EXCEPT ![m] = @ + 1]
    /\ Begin(s, m, Idle)
    /\ UNCHANGED <<person, delivery, letter, history, bounds>>

(* An organizer sends the newsletter, sent before or not.                  *)
SendNewsletter(s) ==
    /\ Called
    /\ req[s].pc = "idle"
    /\ Letters # {}
    /\ req' = [req EXCEPT ![s] = [Idle EXCEPT !.pc = "next", !.letter = TRUE, !.left = Letters]]
    /\ UNCHANGED <<person, delivery, queue, letter, history, faults>>

NextRecipient(s) ==
    /\ req[s].pc = "next" /\ req[s].letter
    /\ \E m \in req[s].left : Begin(s, m, [req[s] EXCEPT !.left = @ \ {m}])
    /\ UNCHANGED <<person, delivery, queue, letter, history, bounds>>

SaveSent(s) ==
    /\ req[s].pc = "next" /\ req[s].letter
    /\ req[s].left = {}
    /\ letter' = "sent"
    /\ req' = [req EXCEPT ![s] = Idle]
    /\ UNCHANGED <<person, delivery, queue, history, bounds>>

CompleteJob(s) ==
    /\ req[s].pc = "next" /\ ~req[s].letter
    /\ job' = [job EXCEPT ![req[s].message] = "completed"]
    /\ req' = [req EXCEPT ![s] = Idle]
    /\ UNCHANGED <<person, delivery, tries, letter, history, bounds>>

-----------------------------------------------------------------------------
(* dispatch.                                                               *)

Goto(s, pc) == req' = [req EXCEPT ![s].pc = pc]

(* Others that have looked the same message up and not answered it yet.    *)
Others(s) == {t \in Slots \ {s} : /\ req[t].message = req[s].message
                                  /\ req[t].pc \notin {"idle", "find", "next"}}

FoundSent(m) == delivery[m] = "sent"
Found(m) == delivery[m] # "none"
FindByKey(s) ==
    LET m == req[s].message IN
    /\ req[s].pc = "find"
    /\ \/ Found(m) /\ Goto(s, "next") /\ UNCHANGED doubled
       \/ /\ ~Found(m)
          /\ Goto(s, IF m.to \in Members THEN "preference" ELSE "suppression")
          /\ doubled' = IF Others(s) = {} THEN doubled ELSE doubled \cup {m}
    /\ UNCHANGED <<person, delivery, queue, letter, mailed, lost, bounds>>

ReadPreferences(s) ==
    LET m == req[s].message IN
    /\ req[s].pc = "preference"
    /\ req' = [req EXCEPT ![s].pc = "suppression",
                          ![s].prefers = <<m.to, m.kind>> \in wanted]
    /\ UNCHANGED <<person, delivery, queue, letter, history, bounds>>

(* canSend, but for the consent: a suppression beats all; newsletters, and *)
(* whatever goes to a member, must be wanted, and one without an account   *)
(* wants none.                                                             *)
AllowedUnlessMember(m, prefers, blocked) ==
    (m.kind = "newsletter" \/ m.to \in Members) => prefers
Allowed(m, prefers, blocked) ==
    /\ ~blocked
    /\ (m.kind = "newsletter" \/ m.to \in Members) => prefers

Decide(allowed) == IF allowed THEN "send" ELSE "refuse"

ReadSuppression(s) ==
    LET m == req[s].message IN
    /\ req[s].pc = "suppression"
    /\ req' = [req EXCEPT ![s].blocked = Barred(m),
                          ![s].pc = IF Channel(m) = "sms" THEN "consent"
                                    ELSE Decide(Allowed(m, req[s].prefers, Barred(m)))]
    /\ UNCHANGED <<person, delivery, queue, letter, history, bounds>>

ReadConsent(s) ==
    LET m == req[s].message IN
    /\ req[s].pc = "consent"
    /\ Goto(s, Decide(m.to \in consent /\ Allowed(m, req[s].prefers, req[s].blocked)))
    /\ UNCHANGED <<person, delivery, queue, letter, history, bounds>>

Send(s) ==
    /\ req[s].pc = "send"
    /\ mailed' = [mailed EXCEPT ![req[s].message] = @ + 1]
    /\ Goto(s, "record")
    /\ UNCHANGED <<person, delivery, queue, letter, lost, doubled, bounds>>

(* The delivery's row; the key is unique.                                  *)
Create(s, status) ==
    LET m == req[s].message IN
    /\ delivery[m] = "none"
    /\ delivery' = [delivery EXCEPT ![m] = status]
    /\ Goto(s, "next")
    /\ UNCHANGED <<person, queue, letter, history, bounds>>

Record(s) == req[s].pc = "record" /\ Create(s, "sent")
Refuse(s) == req[s].pc = "refuse" /\ Create(s, "suppressed")

-----------------------------------------------------------------------------
(* What goes wrong.                                                        *)

(* A dispatch that throws ends the newsletter; a job is tried again until  *)
(* its attempts are used up.                                               *)
ThrowOn(s) == Goto(s, "next") /\ UNCHANGED job
ThrowAgain(s) ==
    /\ req' = [req EXCEPT ![s] = Idle]
    /\ job' = IF req[s].letter THEN job ELSE [job EXCEPT ![req[s].message] = "pending"]
Throw(s) ==
    LET m == req[s].message IN
    /\ req' = [req EXCEPT ![s] = Idle]
    /\ job' = IF req[s].letter THEN job
              ELSE [job EXCEPT ![m] = IF tries[m] >= MaxTries THEN "dead" ELSE "pending"]

Lose(s) == lost' = IF req[s].pc = "record" THEN [lost EXCEPT ![req[s].message] = @ + 1]
                                           ELSE lost

(* Another dispatch has written the row.                                   *)
Rejected(s) ==
    /\ req[s].pc \in {"record", "refuse"}
    /\ delivery[req[s].message] # "none"
    /\ Throw(s) /\ Lose(s)
    /\ UNCHANGED <<person, delivery, tries, letter, mailed, doubled, bounds>>

(* A statement, the provider or its rate limit.                            *)
Fails(s) ==
    /\ req[s].pc \in PCs \ {"idle", "next"}
    /\ faults < MaxFaults /\ faults' = faults + 1
    /\ Throw(s) /\ Lose(s)
    /\ UNCHANGED <<person, delivery, tries, letter, mailed, doubled, calls>>

(* The provider took the message and its answer was lost.                  *)
AnswerLost(s) ==
    LET m == req[s].message IN
    /\ req[s].pc = "send"
    /\ faults < MaxFaults /\ faults' = faults + 1
    /\ mailed' = [mailed EXCEPT ![m] = @ + 1]
    /\ lost' = [lost EXCEPT ![m] = @ + 1]
    /\ Throw(s)
    /\ UNCHANGED <<person, delivery, tries, letter, doubled, calls>>

(* The process: its job stays processing.                                  *)
Dies(s) ==
    /\ req[s].pc # "idle"
    /\ faults < MaxFaults /\ faults' = faults + 1
    /\ Lose(s)
    /\ req' = [req EXCEPT ![s] = Idle]
    /\ UNCHANGED <<person, delivery, queue, letter, mailed, doubled, calls>>

-----------------------------------------------------------------------------
Dispatch(s) ==
    \/ FindByKey(s) \/ ReadPreferences(s) \/ ReadSuppression(s) \/ ReadConsent(s)
    \/ Send(s) \/ Record(s) \/ Refuse(s) \/ Rejected(s)

Next ==
    \/ \E p \in People : \/ \E kind \in Kinds : SetPreference(p, kind)
                         \/ SuppressEmail(p) \/ OptInSms(p) \/ HandleStop(p)
                         \/ SuppressSms(p) \/ StopDies(p)
    \/ \E m \in Messages : Enqueue(m)
    \/ \E s \in Slots, m \in Messages : Claim(s, m)
    \/ \E s \in Slots : \/ SendNewsletter(s) \/ NextRecipient(s) \/ SaveSent(s)
                        \/ CompleteJob(s) \/ Dispatch(s)
                        \/ Fails(s) \/ AnswerLost(s) \/ Dies(s)

Spec == Init /\ [][Next]_vars

-----------------------------------------------------------------------------
(* Every row, request and history has a value of its kind.                 *)
TypeOK ==
    /\ wanted \subseteq Members \X Kinds
    /\ suppressed \subseteq People \X {"email", "sms"}
    /\ consent \subseteq People /\ stopping \subseteq People
    /\ delivery \in [Messages -> {"none", "sent", "suppressed"}]
    /\ job \in [Messages -> {"none", "pending", "processing", "completed", "dead"}]
    /\ tries \in [Messages -> 0 .. MaxTries]
    /\ letter \in {"draft", "sent"}
    /\ req \in [Slots -> Req]
    /\ \A s \in Slots : req[s].pc \notin {"idle", "next"} => req[s].message \in Messages
    /\ mailed \in [Messages -> Nat] /\ lost \in [Messages -> Nat]
    /\ doubled \subseteq Messages
    /\ calls \in 0 .. MaxCalls /\ faults \in 0 .. MaxFaults

(* A message goes out once for each key, through jobs tried again and      *)
(* newsletters sent again: more often only when the provider took it and   *)
(* no row could be written, or when two newsletters sent it at once; and   *)
(* one recorded as suppressed never went out otherwise.                    *)
SentOnce ==
    \A m \in Messages \ doubled :
        mailed[m] <= lost[m] + (IF delivery[m] = "suppressed" THEN 0 ELSE 1)

(* Nothing goes to an address by a dispatch that began after the address   *)
(* was suppressed, by an unsubscribe, a bounce, a complaint or a STOP.     *)
OptOutHolds ==
    [][\A s \in Slots : (req[s].barred /\ req'[s] # req[s]) => mailed' = mailed]_vars

(* What is reported done was done for everyone: a completed job's message  *)
(* has its row, and so has every recipient's of a newsletter shown as sent.*)
NobodySkipped ==
    /\ \A m \in Queued : job[m] = "completed" => delivery[m] # "none"
    /\ letter = "sent" => \A m \in Letters : delivery[m] # "none"
=============================================================================
