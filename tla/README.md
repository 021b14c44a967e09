# Verification of the event platform

This directory holds TLA+ models of the platform's server side, the TLC configurations that
check them on small instances, and TLAPS proofs about them for every instance. Paths below are
relative to the repository; the code modelled is in `src/src`.

1. [The system](#the-system)
2. [Modules](#modules-and-how-they-follow-the-code)
3. [Runs](#runs)
4. [Bounds](#bounds)
5. [Fairness](#fairness)
6. [Proofs](#proofs)
7. [Where code and documentation disagree](#where-code-and-documentation-disagree)
8. [Not modelled](#not-modelled)
9. [Plan](#plan)

## The system

The platform sells and gives out places at events. Its server side is one Next.js application
(`app/api/v1`, thin route handlers over services) and one or more worker processes
(`jobs/worker.ts`), all of them on one Postgres database. Three things shape every model here:

- **Services read, decide and write.** A service method under `domain/` is a sequence of awaited
  repository calls, and a repository call is one SQL statement. Between two of them any other
  handler may run. The one transaction of the core is `createIfCapacity`
  (`db/repositories/event-commerce-repo.ts:142`), which locks the event's row.
- **`save` writes the whole row.** It takes the object the service read, changed in memory, and
  updates all columns. A handler that overlaps another can therefore undo what the other wrote,
  including columns it never meant to touch.
- **Much of it is retried.** Stripe repeats an event until it is acknowledged, the job queue
  repeats a handler that threw, a webhook delivery repeats its post, organizers press buttons
  twice. What makes a repetition harmless is, each time, a lookup, a unique index or a key.

### Components

| Component | State | Operations | Hard about it | What makes it correct |
|---|---|---|---|---|
| Registrations, waitlist, offers (`domain/event/registration-service.ts`) | `event_registration` rows, one per event and e-mail; `waitlist.expire` jobs | `register`, `acceptOffer`, `promoteWaitlist`, `expireOffer`, `expireDueOffers`, status changes by the organizer | promotion and expiry against registration; stale saves; an offer's expiry job and the offer are two statements | capacity; an offer has a seat behind it and ends; a row follows its life cycle |
| Checkout (same file, `coupons.ts`) | orders, items, pending registrations, coupon and add-on counters | `quote`, `purchase` | seat reserved before Stripe is asked, released if asking fails; counters written from a copy; repeated checkout by key | what is reserved is sold or given back; counters count |
| Payments (`domain/payments/service.ts`) | `checkout_payment`, `payment_refund`, `issued_ticket`, `stripe_webhook_event`, order and seat status | Stripe webhooks, refund by amount, by ticket, of a cancelled event, Connect onboarding | events repeated and reordered; a refund is Stripe's side effect between database statements; five rows per order with no transaction | nothing for free; paid means served, once; refunds agree with the money |
| Job queue (`jobs/queue.ts`, `jobs/job-repo.ts`) | `job` rows | `enqueue`, `processNext` (claim, run, complete, retry or bury) | claiming is a select and a conditional update; a crash leaves a job processing | a job is leased to one worker; attempts are bounded; a key makes one job |
| Worker (`jobs/worker.ts`) | none of its own | tick: process due jobs, sleep, repeat | an error outside a handler ends the process | polls for ever |
| Public webhooks (`domain/public-api/service.ts`) | `public_webhook_delivery` rows, `webhook.deliver` jobs | `emit`, `attemptDelivery`, `retryDelivery`, endpoint management | manual retry against worker; the chain of jobs is keyed by a counter in the row | every delivery ends; a success is reported as such |
| Event lifecycle (`domain/event/service.ts`, `lifecycle.ts`) | event rows | create, update, publish, cancel, archive | cancellation is followed by a loop of refunds and notices | status graph; cancellation leaves nobody charged |
| Check-in (`domain/checkin/service.ts`, `ui/check-in-scanner.tsx`) | check-in records, passes, capacity alerts; registration rows; each scanner's stored guest list and queue | check in by code, list or offline batch; walk-up; sync; revoke a pass | a registration row read before several awaits is written back; alerts under a unique index; a scanner decides on a stored list and its sync may fail half-way | admitted once; a scan taken offline reaches the server; each threshold announced once |
| Billing (`domain/billing`) | subscription, invoices, cancellation request, the organization's level | checkout, Stripe's events, renewals, notices, failures, grace period, cancellation | whole subscriptions written back; four jobs and two kinds of request on one row; charges without a key | a period is charged once; a cancellation holds; what was promised stays |
| Notifications (`domain/notification`) | preferences, suppressions, consents, delivery rows, newsletters | `dispatch` by key, from jobs and from newsletters; unsubscribe, bounce, STOP | the message is sent before its row exists; a decision taken from three reads; a newsletter's loop ends at the first error | sent once for a key; nobody skipped; an opt-out is honoured |
| Organizations and memberships (`domain/membership`) | members, invitations | invite, accept, change role, remove | two owners act on each other | an organization keeps an owner |
| Support desk, calendars, newsletters, imports, referrals, privacy, chat, integrations | rows of their own | one row per request, mostly | little shared state | see [Not modelled](#not-modelled) |
| Composition root (`server/container.ts`) | none | wires services to each other: `scheduleOfferExpiry`, `refundEventCancellation`, notification keys | what key a job or a notice gets is decided here | a key names exactly one intent |

### Interactions

Registrations, payments and check-in all write `event_registration` rows; payments releases a
seat on a failed payment or a full refund. Registrations schedules jobs through
the composition root, and the worker calls back `expireDueOffers`. The event service cancels and
then calls payments' `refundEventCancellation`. Most services emit public webhooks at their end;
`emit` swallows its errors, so a delivery never breaks the operation it reports. Rows are the
only shared state: processes share no memory that matters to these components.

`PROJECT.json` lists under `hazards` every place in this code where an order of steps, a crash or a
repetition could do harm and a test would hardly see it, with the properties that catch it going wrong, or a note
that says why none does: several are races that the code does lose.

## Modules and how they follow the code

A handler in flight is a record in `req` (`attempt`, `worker`, `call`) of one of a few *slots*: a
program counter, and the copies of rows it holds. Each database statement is an action; the
in-memory code between two awaits belongs to the statement before it. A handler that returns or throws gives
its slot back. With one slot, handlers run one after the other; with two, they overlap at every
pair of statements. The number of slots is a constant, so the same module answers both questions,
and several `MC` modules choose between them once, in their initial state: handlers that overlap, or
that take turns on longer histories. Properties that need turns say so (`~overlapped`, `scene`).

Three kinds of variable are told apart in every module: rows of the database; *external*, what
Stripe or a provider did; and *history*, what the properties need to remember and no action reads.

### Registrations

One event, its guests, the waitlist and timed offers.

| TLA+ | Code |
|---|---|
| `event`, `row`, `job` | the event row's capacity, waitlist and approval columns; one `event_registration` row per guest (the unique index on event and e-mail); the `waitlist.expire` job of a registration |
| `BeginRegister`, `Reserve`, `TakePosition`, `Enlist` | `register`: the reads and the plan's quota; `createIfCapacity` as one step; `nextWaitlistPosition`; the insert as waitlisted |
| `BeginAccept`, `Confirm` | `acceptOffer`: read and check, then the save of the whole copy; an offer found lapsed is expired instead |
| `BeginExpireDue`, `ExpireOne` | the worker's job: `expireDueOffers` lists due rows and `expireOffer` saves each as expired |
| `BeginPromote`, `ListWaitlist`, `Offer`, `Schedule` | `promoteWaitlist`: list, sort, save as offered, `scheduleOfferExpiry` with the registration as the job's key. It does not ask whether a seat is free, nor does `BeginPromote` |
| `Release`, `UpdateEvent`, `Tick` | payments gives a seat back; the organizer edits capacity and waitlist; time |

`offered` and `maxCap` are history: who was ever offered a seat, and the greatest capacity the
event had. They let `WalkUpsFit` say precisely what the lock in `createIfCapacity` buys. A
registration that is checked in holds the seats of its confirmed row and is not told apart.

### JobQueue and JobLeases

`JobLeases` is the promise: a job is queued, taken by one free worker, and handed back or finished by that
worker, or abandoned if the worker dies. `JobQueue` is `queue.ts` and `job-repo.ts`:
`Lookup`/`Insert` are `enqueue` with its unique index, `Select`/`Claim` the two statements of
`claimNext` (the update's condition is the status alone; the attempts written are the selected
row's plus one), `Bury`/`Complete`/`Fail` the three ends of `processNext`, `Crash` a process
that dies at any point, a failing database call outside the handler included. `wait` is `availableAt` as remaining ticks of
500 ms, so `Backoff` is `backoffMs` in that unit; `MCJobQueue` assumes, and TLC evaluates, that the
two agree. A job's `handled` is chosen at insertion: two of the
job types have no handler in `worker.ts` and are buried at their first claim.

`Leases == INSTANCE JobLeases WITH ...` is the refinement: the phase of a job is read off its status,
the lease off which worker runs it.

### Payments

Orders of one event after checkout. `Purchase` stands for a checkout that went through.

| TLA+ | Code |
|---|---|
| `order`, `payment`, `seat`, `tickets`, `recorded`, `processed` | status of the order, payment and registration rows; issued tickets; the sum of the refund rows; handled Stripe events |
| `stripe`, `sent` (external) | session state, refund keys seen, money moved back; events Stripe has to deliver, any number of times in any order |
| `Deliver` and the steps to `RecordEvent` | `handleStripeWebhook`: lookup, `markPaid` (order, payment, seat, `issueTickets` as list and create) or `markFailed` (order, payment, seat), the event recorded last |
| `RefundAmount`, `RefundRest`, `RefundTicket`, `VoidTicket`, `AskStripe`, `RecordRefund` ... `ReleaseRefunded` | `refundOrder` statement by statement; the kind and amount make Stripe's idempotency key |
| `CancelEvent`, `ListOrders`, `NextOrder` | `cancelEvent` and `refundEventCancellation`, which decides by the status each order had in its list |

The payments service writes columns it sets and leaves the others as read; the columns modelled
here are all set by name at each write, which is why a handler's copy matters only
where the handler decides (`already`, `left`, the outcome of an event). Money is counted in units; Stripe moves
no more than it captured and answers a key it knows as it did before.

### WebhookDeliveries

One delivery. `EmitCreate`/`EmitEnqueue` are `emit`; `TakeJob` is the worker; `Retry`/`Reset` are
`retryDelivery`; `Find`, `Bury`, `Post`, `SaveDelivered`, `SaveFailed` and `Chain` are `attemptDelivery` up to
the enqueue of the next job, whose key is the delivery and its attempts counter; `Done` completes
the job. `Find` buries a delivery whose endpoint is gone or inactive. `Post` has three outcomes: the endpoint takes
the delivery, refuses it, or takes it and the answer is lost on its way (`lost`), which the `catch` cannot tell from a
refusal: it saves the row as failed and chains another post. `Fault` is a statement that fails (the worker puts the job back) or a process that
dies (the job stays leased). The jobs are what `JobQueue` is shown to provide: a key makes one
job, a lease is exclusive, an abandoned lease stays. Here the row is copied at `Find` and the copy
written back at the end, so overlapping attempts do overwrite each other.

### Checkout

One event, its buyers and the carts they may buy. The rows of `purchase` are those of one address:
the unique index allows one registration row for it.

| TLA+ | Code |
|---|---|
| `seat`, `order`, `payment`, `tickets` | the buyer's registration row, order, payment; how often tickets were issued |
| `used`, `stock`, `connected` | `usedCount` of the coupon, the add-on's inventory, whether the organizer's Stripe account may charge |
| `session`, `sessions`, `url` (external) | the Stripe session, how many there were, who was sent to theirs |
| `Quote`, `FindOrder`, `Reserve`, `CountCoupon`, `RequireAccount`, `AskStripe`, `Release`, `CreateOrder`, `CreatePayment`, `TakeAddOn`, `SaveSeat`, `IssueTickets` | `purchase`, statement by statement: the copies of the counters, the idempotency key, `createIfCapacity` with its count by ticket type, the check of the account outside the `try`, the seat released when Stripe refuses or its answer is lost (the session it opened then runs out unpaid), the last save of the registration as it was reserved |
| `Completed`, `Expired`, `AccountUpdated` | the webhooks, each whole; `Payments` takes them apart |

### CheckIn

One event's door, and scanners that go offline.

| TLA+ | Code |
|---|---|
| `row`, `ticket`, `revoked`, `record`, `alerts` | registration and ticket status, revoked passes, the unique check-in record with the operation that made it, the alert rows |
| `device` | what `check-in-scanner.tsx` keeps: the stored list and queue (`list`, `queue`), whether the page is open and online, a sync that is due or waiting for its answer (`due`, `waiting`), a list that is awaited (`fetch`, `fetched`), and scans left by a closed page that nothing asked to send since (`left`) |
| `Replay` ... `Answer` | `checkIn`: replay by operation, `resolveGuest`, the classification, `applyCheckIn` with the refused insert, the save of the copy, `maybeAlert` |
| `BulkCheckIn`, `WalkIn`, `PostQueue`, `NextGuest`, `NewManifest` | batches, a walk-in's registration and check-in, `sync` with one check-in per scan and the manifest at its end |
| `FetchManifest`, `StoreManifest` | `loadManifest`: the list is made at the server, and stored when it arrives with the queue as it is by then |
| `OpenPage`, `ClosePage` | the page's effect, which loads the list and listens for the online event, and its end |
| `ScanOffline`, `GoOffline`, `GoOnline`, `PressSync`, `PostFails` | `evaluateOffline` with `queueOp`; the online event, which an open page answers with a sync; the button; a post without a network |
| `RefundTicket`, `Release`, `ExpireOffer`, `RevokePass` | what payments, registrations and organizers do to the same rows |

A page awaits one list at a time and a device has one page open; the answer of a sync is received and stored in one
step, and a scan taken while it is under way counts as an overlap (`overlapped`).

### Notifications

The people, messages (one for each idempotency key), preferences, suppressions and consents of one
newsletter and some reminders and texts. `Claim` and `Throw` are the job queue as `JobQueue` shows it to be;
`FindByKey` ... `Record`/`Refuse` are `dispatch` with each read a step; `Fails`, `AnswerLost` and `Dies` are
a statement, a provider and a process that fail. `HandleStop` and `SuppressSms` are the two statements of
an incoming STOP.

### Billing

One organization, a free and a paid plan. `copy` is the subscription as an operation read it, saved whole
later. `StartCheckout` ... `NoteSession` are `startCheckout`, with the upgrade after the period's end that costs
nothing and is applied without a charge (`Changes`); `ReadSub` ... `SyncLevel` are `completeCheckout`
and `applyPaidPlan`; `ReadFailed` ... `PastDue` are `recordPaymentFailed`; `ProcessRenewals`,
`ProcessRenewalNotices` and `ProcessGraceExpiry` are the jobs; `ConfirmCancellation` the second request of a
cancellation. Time is counted in units of which a period has two or three and the grace period one.

## Runs

| Run | What it shows |
|---|---|
| `registrations` | Handlers overlap at every statement: registrations of one or two seats admitted without an offer never exceed the greatest capacity (`WalkUpsFit`), which is what the row lock is for. Handlers take turns while the capacity is edited and seats are given back, and `promoteWaitlist` is called once a seat is free: seats in use, held ones included, fit (`OffersFit`), and every hold is accepted or expires (`HoldsEnd`). |
| `queue` | One or two workers, two enqueue calls, a crash: one job per key, no job left processing but by a crash, every job not orphaned ends, the queue refines `JobLeases`; and with one worker a handler is started at most `MaxAttempts` times (`LimitKeptByOne`). |
| `payments_race` | Webhooks, refunds and a cancellation overlapping, declined cards, Stripe unavailable: no ticket, confirmed seat or refund without captured money (`NothingForFree`). |
| `payments_seq` | Two orders for one seat, handlers that do not overlap but may die at any statement while Stripe repeats its events: tickets are issued once, refunds stay within the total, a cancellation that came through leaves no order paid, who paid gets tickets; and, as long as none died, order, payment, seat, tickets and refunds agree (`RowsAgree`). |
| `payments_key` | *Violation.* A second refund of the same amount is recorded without money moved. |
| `deliveries` | Attempts overlapping with a manual retry and a fault: the endpoint accepts at most once plus once per retry, fault and lost answer (`AcceptedOnce`), and without manual retries a delivered row is never overwritten (`DeliveredIsFinal`). Attempts in turn: every delivery is delivered or given up (`EveryDeliveryEnds`). |
| `checkin` | Requests that overlap and fail, and requests in turn with refunds and expiries: a guest is admitted once (`AdmittedOnce`), a threshold announced once (`AlertedOnce`). A scanner that goes offline and back, whose page is closed and opened, posts that fail half-way, answers that are lost, lists that arrive late: a scan stays in the queue until the server answered it (`ScansAreKept`), all scans do reach the server unless a closed page left them behind (`ScansArrive`), and the device lets its guest in once (`LetInOnce`). |
| `checkout` | Purchases that overlap and die: an address is given one session to pay (`ChargedOnce`), seats fit the capacity (`SeatsWithinCapacity`). Purchases, webhooks and account changes in turn: coupon and add-on keep count (`CountersHold`), a taken seat has its order and a paid order its seat and tickets (`TablesAgree`), a seat that waits is sold or given back (`SeatsSettle`). |
| `checkout_types` | *Violation.* A mixed order and a single one sell the last ticket of a type twice. |
| `notifications` | Dispatches of jobs and newsletters that overlap, fail and die, or run one at a time while people change their mind: a key is sent once (`SentOnce`), nobody is skipped (`NobodySkipped`), an address suppressed before a dispatch gets nothing from it (`OptOutHolds`). |
| `billing` | Operations that overlap, or take turns and fail, over two periods: a period is renewed once (`RenewedOnce`), a confirmed cancellation is followed by no charge (`CancelHolds`). |
| `billing_promise` | *Violation.* The plan is taken back before the date up to which a confirmed cancellation promised it. |

What the properties set apart is part of what they say. `AcceptedOnce` allows for each answer that was lost; `OffersFit` is about promotions called once a seat is free; `SentOnce` allows for each message the provider
took and nobody recorded, and for two newsletters sent at once; `SeatsWithinCapacity` for a webhook that met
its own purchase; `SeatsSettle` and `TablesAgree` for purchases that met an account that may not charge;
`LetInOnce` for a list stored that did not know of queued scans and a scan taken during a post; `ScansArrive` for the
queue a closed page left, until the button or an online event sends it; `CancelHolds` for a cancellation confirmed while something
else ran. Each of these exceptions is a defect the models contain, listed [below](#where-code-and-documentation-disagree), and the
property says that it is the only one.

`CHECK_DEADLOCK FALSE` is set throughout because each model does come to rest: the clock reaches
its bound, every guest is served, every job is finished. That nothing stops *too early* is the
business of the liveness properties.

Every property of a passing run has a mutant in `PROJECT.json`: the definition it would catch, changed
the way a plausible edit of the code would change it (a dropped term of a capacity check, a strict
comparison of times, a forgotten release). The mutated forms stand beside the
originals in the modules.

## Bounds

| Constant | Value | Why it is enough |
|---|---|---|
| `Slots` | 1 or 2 | every hazard listed is between two handlers; with two, each pair of statements interleaves |
| `Guests`, `Capacities`, `MaxQuantity` | overlapping: 2 guests of up to 2 seats against capacity 2; in turn: 3 guests against 1 and 2 | one who holds, one who is refused or waits, one who is promoted; a registration that fits only in part |
| `OfferTicks`, `MaxTime` | 1, 1 | before, at and, for an offer made at once, past the end of its hold; `HoldEnds` speaks of holds that end within the clock |
| `Jobs`, `Keys`, `Workers`, `Producers` | 2, 1, 2, 2 | two jobs compete for workers, two calls for a key |
| `MaxAttempts`, `MaxTries`, `Delays` | 2; 2; 0 or 1 tick | an attempt that is not the last and one that is; a job due and one not due |
| `MaxCrashes`, `MaxFaults` | 0, 1 or 2 | the properties allow for a crash by counting it; one at every statement covers each point of failure |
| `Orders`, `Quantity`, `Price`, `Partials` | 1 order raced, 2 in sequence; 2 tickets of price 1; 1 | partial refund, second partial refund that completes the total, refund of the rest; a second order for a seat given back |
| `Window`, `Cap`, `MaxKey`, `MaxRetries`, `MaxLost` | 3, 2, 6, 1, 1 | backoff below, at and above the cap; the window closes after several attempts; more keys than attempts fit, so `Enqueued` never lacks a key; retry, lost answer and fault two at a time (`MaxTroubles`) |
| `Quota` | all seats any guest may ask for | the plan's limit does not hide what capacity alone must stop |
| `Buyers`, `Carts`, `Capacity`, `TypeCapacity`, `UsageLimit`, `Inventory`, `MaxCalls` of `Checkout` | 2 buyers and 2 purchases overlapping, 3 and 3 in turn; four carts; 3, 2, 1, 1 | the last seat, the last use of the coupon and the last add-on are all fought for; a repeated checkout and one of another cart |
| `Guests`, `Devices`, `Thresholds`, `MaxQueue`, `MaxCalls` of `CheckIn` | 2, 1, 50 and 100 %, 2, at most 3 | one guest crosses the first threshold and two the second; a queue of two is answered in part; one scanner disagrees with the server, and the online door stands for the others. Where the scanner is at work, guests start confirmed and the other services act on one of them; one request, call or fault comes beside the posts, and the page acts before the row is saved or between two guests, the other statements of a request reading and writing nothing of the device |
| `People`, `Messages`, `MaxCalls` of `Notifications` | a member and a guest; reminder, text, a newsletter to both; 2 or 3 | each branch of the consent policy; a newsletter that fails between its recipients, and is sent again |
| `Invoices`, `Period`, `Grace`, `MaxTime`, `MaxCalls` of `Billing` | 2, 2 (3), 1, 4, 4 or 6 | one invoice paid and one abandoned, or an upgrade and its renewal; two renewals; a grace period that ends within a period |

Symmetry is used in `payments_race`, `notifications` and the two billing runs, which check no liveness property.

## Fairness

- *Handlers run on* (weak fairness of a slot's steps): an awaited statement returns or throws. A
  crash gives the slot up, and is never fair.
- *The worker takes due jobs* (`Work`): the poll loop of `worker.ts` never ends while the
  process lives, and sleeps a second when idle. Strong fairness is used where requests compete
  with the worker for the model's slots, since the slot is a device of the model: in the code
  the worker does not wait for requests to end. In `JobQueue`, where a worker has its own slot,
  weak fairness of each worker suffices. There is none on *which* due job is selected: the query has
  `LIMIT 1` and no order. Jobs end nonetheless, because each claim spends an attempt.
- *Stripe repeats* (strong fairness of delivering an event): Stripe repeats an event until it is
  acknowledged; assuming that it stops would make `PaymentIsHonoured` depend on Stripe's patience.
- *Stripe ends sessions* (strong fairness, for each session, of `Completed` and `Expired` in `MCCheckout`): a session is paid or runs
  out after a day, and its event comes.
- *A scanner comes back* (weak fairness of `GoOnline`, strong fairness of posting its queue): a device that stays
  offline for ever sends nothing, and one that is online only while it cannot post sends nothing
  either. A page posts by itself only if it is open when the online event comes; nothing obliges anybody to
  open a page or to press its button.
- *Time passes* (weak fairness of `Tick`).
- Guests, buyers, organizers and recipients are under no obligation, nor is an endpoint to accept.

## Proofs

The `*Proofs` modules hold what TLAPS checks, for every number of guests, slots, jobs,
workers, orders, amounts and bounds that meets the named `...Assumption`s: finite
sets, natural bounds, and the "no such thing" constants outside the sets they complement. Those are
properties of how the constants stand for the code and restrict nothing it can do.

| Module | Theorem | Argument |
|---|---|---|
| `RegistrationsProofs` | `TypeCorrect` | with `Serving`: a handler that will write a guest's row serves a guest |
| | `WalkUpsAlwaysFit`, `OffersFitInTurn`, `OffersFitChecked` | below |
| `JobQueueProofs` | `TypeCorrect`, `HolderIsUnique` | together, since an attempts counter stays in range only because a row that is pending is run by nobody (`Inv`) |
| | `OneJobPerKeyAlways`, `OrphansAreFew` | from `Effect`, the list of what a step can do to one job |
| | `QueueImplementsLeases` | initial state to initial state, each `Effect` to a `JobLeases` action or a stutter |
| | `LimitKeptInTurn`, `LimitAlwaysKeptByOne` | below |
| `PaymentsProofs` | `TypeCorrect` | with `Events`: a handler that answers an event holds one that was sent |
| | `NoTicketUnpaid` | below |
| | `IssuedOnceInTurn`, `RefundsFitInTurn`, `CancellationRefundsInTurn`, `RowsAgreeInTurn` | below, for one handler at a time |
| `WebhookDeliveriesProofs` | `TypeCorrect` | type preservation, action by action |
| | `AcceptedIsBounded`, `DeliveredIsAlwaysFinal` | below |
| `CheckInProofs` | `TypeCorrect` | with `Serving` |
| | `AdmittedOnceAlways`, `AlertedOnceAlways`, `ScansAlwaysKept`, `LetInOnceAlways` | below |
| `CheckoutProofs` | `TypeCorrect` | with `Serving` |
| | `ChargedOnceAlways`, `SeatsAlwaysFit`, `TablesAgreeAlways`, `CountersAlwaysHold` | below |
| `NotificationsProofs` | `TypeCorrect` | with `TriesLeft`: a job that waits has an attempt left |
| | `OptOutAlwaysHolds`, `NobodyIsSkipped`, `SentOnceAlways` | below |
| `BillingProofs` | `TypeCorrect` | with `Good`: a copy that may be saved has a grace period exactly when it is past due, and an operation that will look at its invoice has one |
| | `CancelAlwaysHolds`, `RenewedOnceInTurn` | below |

**`WalkUpsAlwaysFit`.** `WalkUpsFit` alone is not inductive: a handler in flight may carry a
capacity or a status that breaks it later. `IInv` adds that every capacity in a copy is at most
`maxCap` (`CapsKnown`), that a handler about to confirm serves someone who was offered a seat, so
that its save adds nothing to the walk-ups (`OfferedKnown`), and that what the two inserts carry
has the status they are for (`Candidates`). The one step that adds walk-up seats is `Reserve`;
there, the seats of active guests not offered are some of those counted under the
lock, and the sum fits the copy's capacity. The cardinalities are those of a set of pairs (guest,
seat number), so no fold needs to be reasoned about.

**`OffersFitInTurn`, `OffersFitChecked`.** `OfferInv` adds to `IInv` what the handler under way knows of the
table (`Fresh`): the offer it will accept or expire is still one, the guest it will promote still waits,
and the room it saw is still there. Two handlers can break each of these, so the theorem speaks of
behaviours in which at most one is under way (`InTurn`) and registrations ask for one seat
(`OneSeatEach`): a promotion is called for one free seat, whatever the size of the party it is offered to. `promoteWaitlist` itself never
looks at the seats in use, so that a seat is free when it is called, which the expiry that calls it has just seen to,
is an assumption about any other caller (`SeatFirst`). With these it takes no seat there is not. `OffersFitChecked` says that the scene the run
calls *turns* is of this kind (`OnlyOneRuns`), for any bounds on seats, time and capacities; it
keeps the run's guests (`Guests = MCGuests`), since the scene names its two actors.

**`LimitKeptInTurn`, `LimitAlwaysKeptByOne`.** `Counted`: the attempts of a row are the times its handler was
started, and the copy a worker holds is the row. The first theorem speaks of any number of workers that never
hold rows at the same time (`OneAtWork`); the second of the instance the run checks, in which one worker is deployed
(`MCSpec`, `Undeployed`). That two workers do break the limit is one of the defects below.

**`AcceptedIsBounded`.** Acceptances cannot be bounded by looking at the row, which attempts overwrite. `Budget` counts
instead what could still lead to one: acceptances so far, queued jobs, handlers that may yet post
or chain, and the delivery's birth, and says the sum is at most one plus retries, faults and lost answers. The limit is one per answer received: a
post whose answer is lost is paid for by `lost`, since the `catch` chains another.
Each action moves a unit from one place to the next, drops one, or pays for a new one with
a retry, a fault or a lost answer.

**`DeliveredIsAlwaysFinal`.** The sum of `Budget` does not do here, since a fault pays for a post and must not pay
for a second writer. `OneWriter` says that without manual retries one attempt or one queued job, never two,
may still write the row, and nothing may once it is delivered. A statement that fails and a process that dies
leave the chain to the job queue, which keeps the number.

**`NoTicketUnpaid`.** `Events` says which events handlers answer; `Money` says that a completed
event was sent only for a captured session, that an order with a status money implies, a
confirmed seat, tickets or recorded refunds is captured, and that a handler on its way to give one
of these serves a captured order. A captured session stays so, because a session ends only once. The proof
covers any number of crashes, overlapping handlers and cancellations.

**Payments in turn.** TLC finds each of these four properties violated when two handlers overlap,
and they are proved where one is at work at a time: `OneAtATime` says that there is one slot,
and leaves orders, prices, quantities, crashes and repeated events free. Each has an invariant of its own, of
what the handler has read and not yet written.
- `IssuedOnceInTurn` and `RefundsFitInTurn` share `Served`: an order has no tickets or all of them, and a handler
  about to issue some saw none; what a refund read as refunded already is what is recorded, and the
  two amounts together are at most the total, from the decision to the record.
- `CancellationRefundsInTurn` has `Listed`: while a cancellation works through its list, an order
  with money is on the list with its present status, or is in hand and its whole rest is being refunded. An attempt
  that dies starts again with a new list.
- `RowsAgreeInTurn` has `Agreement`: every order but the one in hand agrees with its payment, seat, tickets and
  refunds; `Halfway` says, for each place of a handler, how far the order in hand has got. An order that was
  paid for has had its completion handled (`Handled`), so a repeated event never makes a refunded one paid. It
  holds while none died: a completion that died after paying the order is what breaks it.

**`AdmittedOnceAlways`, `AlertedOnceAlways`.** For each guest, `Admission` says that at most one request is
past the insert of the record, that none is and nobody was admitted while there is no record, and that
a request past the insert and an admission exclude each other. `Alert` says the same of a threshold, its row
and the announcement. A request that answers `already_checked_in`, replays or dies only leaves these sets,
which is what the many steps called *calm* have in common; only the two inserts and the two ends need
an argument of their own.

**`ScansAlwaysKept`, `LetInOnceAlways`.** `Scanned` follows a guest let in offline from the device to the answer.
A request that serves a device carries what is in its queue (`Sending`); a guest in a device's list or queue has
a row (`Listed`), so the server cannot answer that it knows no such guest and strike the scan; a guest the
server answered for has been checked in or lost the ticket (`Settled`), so no list made later shows it as eligible; and a list on its way to the page (`Fetched`) shows nobody as eligible
whom the device let in, unless it is marked stale. That the server forgets none of this is `ServerRemembers`. Neither theorem
makes an exception of faults: an answer that is lost leaves the scan in the queue and the guest marked. The
exceptions that remain, `reloaded` and `overlapped`, are cases the page does get wrong.

**`ChargedOnceAlways`, `SeatsAlwaysFit`.** `Ordered` says that only a buyer with
an order pays or is sent to Stripe, a session whose answer was lost being nobody's. `Sold` says that a buyer without a row has no purchase past
the reservation and no session, that at most one purchase is past it, and that one on its way to Stripe has no
session yet; the unique index is used at one step, `Reserve`. `Kept` says that a buyer whose purchase is past
the reservation, or who may still pay, has an active row: the last save and the webhook of a payment, which make a row active whatever
it was, then add no seat. `Kept` holds until a webhook meets its own purchase (`early`), and no longer.

**`TablesAgreeAlways`, `CountersAlwaysHold`.** Of purchases that did not overlap or die, `Tables` tells for every
buyer whom no purchase serves that the rows fit (`Settled`), and for the one served how far they have
got at each statement (`Placed`). `Counters` says that coupon and add-on stand in the counters at least as
often as in orders that are not cancelled; a purchase has used the coupon some statements before its order stands, and takes the
add-on some statements after (`Quoted`, `Untaken`), so the sums are off by one in between, each its own way.
No counter is ever given back, so equality does not hold and is not claimed.

**`OptOutAlwaysHolds`.** `Spared`: a dispatch whose address was suppressed when it began is not about to
send, and has seen the suppression once it reads the consent. It rests on suppressions never being lifted
(`SuppressedStays`), opt-in by SMS included.

**`NobodyIsSkipped`.** `Reached`: a dispatch that is over has its row, and of a newsletter in hand each recipient
not left over has a row, or is the one being served.

**`SentOnceAlways`.** `Counted`: of a message that was not sent by two at once, at most one dispatch is
past the lookup, none if there is a row, and it was mailed as often as it was lost, and once more if it is
recorded as sent or about to be.

**`CancelAlwaysHolds`.** `Ends`: a subscription that shows the cancellation, or is free. From the confirmation on
the row ends, and so does every copy that may still be saved (`Harmless`), so no stale save revives it;
and a renewal in flight is one that takes the plan back or renews the free one. Only a completed
checkout leaves this state.

**`RenewedOnceInTurn`.** `Turns` ties the charges to the date on the row: a period that ended before it is charged once,
the one that ends on it or later not at all, unless the renewal in hand has just charged it and not saved
(`Collected`). It needs that a renewal in hand was due and that its copy ends where the row does (`InStep`), and
that the row never ends more than one period ahead. A renewal that dies between charge and save
leaves a charge the row does not know of; `unsaved` counts these, and the next renewal charges once more.

Every invariant and every action property of a passing run is stated by one of these theorems, some for
handlers that take turns, as the table says.

Only model-checked: all liveness (`HoldsEnd`, `EveryJobEnds`, `PaymentIsHonoured`,
`EveryDeliveryEnds`, `ScansArrive`, `SeatsSettle`), which rests on fairness and is out of the prover's reach;
and that the properties of the three violation runs fail, which is a matter of a counterexample. No module with
a theorem declares a recursive operator.

## Where code and documentation disagree

Three disagreements are shown by runs and listed under `findings`:

- **A refund without money** (`payments_key`). The idempotency key is the order, kind and amount,
  so a second partial refund of the same amount receives Stripe's first answer and is recorded and announced.
- **More tickets of a type than there are** (`checkout_types`). The registration of an order of several types has
  no `ticketTypeId`, and `createIfCapacity` counts a type by that column.
- **A paid plan taken back** (`billing_promise`). Of two checkouts of one upgrade, the one that was abandoned
  expires and makes the subscription past due, although the other was paid; the grace job then takes the
  plan back.

Others came up while reading and modelling. The models contain them, and the properties are stated
so as not to claim otherwise.

Registrations and offers:

- `promoteWaitlist` does not look at the seats in use: two promotions, or an expiry's promotion and a
  registration, take the same free seat, and one called when no seat is free offers one there is not.
- Nothing in production makes a first offer: `promoteWaitlist` is called after an expiry only, and
  an expiry needs an offer. A seat freed by a cancellation goes to whoever registers next.
- A handler that read an offer may save over another's change: an accepted seat can be expired by a
  worker that listed it before, and `acceptOffer` revives an offer that expired meanwhile.
- A guest whose row is cancelled or expired passes `register`'s check for a live registration and is then
  refused by the unique index, with a database error.

Checkout and payments:

- A buyer whose checkout was cancelled, ran out or died can never try again, for the same reason.
- `requireConnectedAccount` throws after the seat is reserved and outside the `try`: the seat stays taken. So does the
  seat of a purchase that dies between the session and the order.
- The last statement of `purchase` saves the registration as it was reserved: it takes back the seat of
  a card that was declined meanwhile, or makes a confirmed one pending.
- The coupon's and the add-on's counters are written from the copy read at the quote: two checkouts count once.
- Two overlapping deliveries of one Stripe event both find no tickets and both issue them.
- A ticket refunded on its own is marked refunded before the amount is checked and Stripe is asked. The
  second partial refund of one amount is not mailed either, its key being the same.
- A completed event handled again after a crash marks a refunded order as paid.
- `purchase` does not ask for the event's status, so a cancelled event can still be bought,
  and nothing refunds what is paid after the cancellation's loop. Free registrations of a cancelled
  event stay confirmed.
- The payment intent a refund needs is stored at checkout only, if Stripe names it then.

Jobs and deliveries:

- A repeated job under two workers may start its attempts over: the claim writes the counter it
  selected plus one. The limit on the counter holds, the limit on runs does not.
- Some types of job have no handler and die at their first claim.
- `processNext` returns the promise of its last save without awaiting it inside its `try`, so a
  failure of that statement ends the worker process and leaves the job processing for ever.
- A manual retry that overlaps an attempt lowers the attempts counter; the key of the next job was used before,
  `enqueue` returns the old job, and the delivery is never tried again. Nor is one whose `emit` died
  before its first job.
- A webhook whose answer is lost counts as failed and is posted again, at every attempt: the endpoint may take one
  delivery many times.

Check-in:

- A check-in saves the registration it read: a refund in between is undone, and record and registration
  disagree. One that dies between the record and the save is never repaired.
- Two check-ins that cross two thresholds together lose the second announcement: the insert of the alert
  throws, and what follows in the batch is not done.
- Scans queued while a sync is in flight are wiped with the queue, and the page ignores what the sync answers for
  each scan. A list loaded over queued scans, or made before a scan and stored after it, shows guests as eligible
  whom the device let in.
- A page opened anew while the browser is online loads the list and leaves the stored queue unsent, until somebody
  presses the button or the browser goes offline and comes back.
- A revoked pass stops the token, not the list or a code.

Notifications:

- The provider is asked before the row exists: a crash in between, or two newsletters sent at once, mail twice.
- An opt-in by SMS after a STOP leaves the suppression in place, and nothing lifts it.
- Newsletters go to no one without an account, whose preference is never looked up and counts as off.

Billing:

- An abandoned second checkout makes a paid plan past due and then free. Each failed renewal extends the grace period.
- A session opened for the rest of a period can be paid in the next one, at the old price.
- A completed event handled twice, or a renewal in flight, wipes a cancellation confirmed meanwhile.
- `completeCheckout` does not look at the invoice's status.
- `container.ts` configures no charger, so renewals fail in production, and enqueues none of the billing jobs.

Elsewhere: two owners of an organization can remove each other, the count of owners being read before
either is removed (`domain/membership/service.ts:241`).

## Not modelled

- **Data.** Names, texts, e-mails, translations, layouts and amounts beyond small units: the arithmetic
  of `quote`, of fees, taxes and proration.
- **Organizations and memberships.** One rule is worth a model, that an organization keeps an owner; it is
  three statements without a lock, and the defect above is read off them.
- **Refunds, credits, add-ons and usage of billing**, and its further plans: each is one save of an
  invoice or a counter beside the subscription.
- **Event lifecycle.** Cancellation, capacity and waitlist are in `Payments` and `Registrations`. The status
  graph of `lifecycle.ts` is a table, and its other edges change nothing the modelled components read.
- **Connect onboarding, API keys, endpoint management, plans' feature flags.** Single-row
  updates that share no row with the operations modelled.
- **Sessions, roles and access.** Predicates over a role and a row, or a library's flows; every
  action here is one that its caller was allowed to make.
- **Read models.** Discovery, home feed, analytics, SEO, embeds, audit log: they change nothing the
  modelled components read.
- **One row per request.** Onboarding, profiles, moderation, calendars, press, enterprise
  domains, mobile devices, chat, referrals, imports, support: no interleaving with the core.
- **Integrations with other providers** repeat the shape of `WebhookDeliveries`.
- **External services.** Stripe is modelled as far as payments, checkout and billing rely on it, a mail or SMS provider as
  one that takes a message or fails; push, storage and AI are not.
- **User interface**, but for the scanner's stored list and queue.

Most of the source is of these kinds: translations and pages are the larger half of it. The map covers the
code where state is shared and order matters, and little beside.

Postgres is taken to execute each statement atomically and to enforce unique indexes, and
a transaction holding the event's row lock to exclude others that take it.

## Plan

In place: `Registrations`, `JobQueue` refining `JobLeases`, `Payments`, `WebhookDeliveries`, `CheckIn`,
`Checkout`, `Notifications` and `Billing`, each with its proofs. In this order, what would come next:

1. `Seats`: an abstract specification of one event's seats (free, held, sold, used) that
   `Registrations`, `Checkout` and `CheckIn` are shown to implement where handlers do not overlap.
2. `Payments` and `Checkout` composed: webhooks statement by statement beside `purchase`.
3. `Memberships`: the last owner. `EventLifecycle`: the status graph with cancellation and publication
   racing updates.
4. Pure algorithms against reference definitions: fees and proration, coupon discounts, recurrence.

Proofs to follow: `OffersFit` without naming the guests of the run, parties of more than one seat included where
they wait alone; and, with `Seats`, its refinement.
