# GamePay event engine: a TLA+ model

The engine takes payments and subscriptions over an HTTP API, keeps them in
MySQL, records every change as an event, maintains a read model from the events
and renews subscriptions through BullMQ jobs; a console of four pages shows and
changes them. Its single Node process runs any
number of asynchronous calls at once; between two awaits of one call every other
call may run, a statement may fail, a reply may be lost and the process may die.
These modules model the calls await by await and check what holds of rows,
events, keys, jobs and statistics when they overlap and fail. Every safety
property the runs check is also proved, for every number of callers, orders,
subscriptions, jobs and keys.

File paths below are those of the repository.

## 1. Inventory

| Part | State | Operations | Correct when |
|---|---|---|---|
| Event bus, event store (`src/events/EventBus.ts`, `EventStoreRepository.ts`, `db/init.sql`) | rows of `event_store`, unique on (aggregate_id, version) | `publish`: read the latest version, INSERT the next, run the handlers | histories have no hole and no repeated version, only grow at the end; nothing is dispatched or acknowledged that is not stored |
| Payments (`src/handlers/PaymentHandler.ts`, `PaymentRepository.ts`) | rows of `payments`, Redis idempotency keys, jobs of `payment-processing` | create, complete, fail, refund | nothing is announced that did not happen to the row; only what was paid is refunded; a payment leaves PENDING for good; an acknowledged call is stored; a key names an order that exists |
| Read model (`src/workers/PaymentSummaryProjector.ts`) | `payment_summary` | one handler per event type | counts no event that is not stored, none twice, and misses one only by a fault |
| Billing calendar (`calculateEndDate`, `calculateNewEndDate`) | start and end date | add a month or a year | renewals neither drift nor shorten a period |
| Subscriptions (`src/handlers/SubscriptionHandler.ts`, `SubscriptionRepository.ts`) | rows of `subscriptions` | create, cancel | one active subscription per user; a cancellation turns auto_renew off for good |
| Autopay worker (`src/workers/AutopayWorker.ts`) | jobs of `subscription-renewal` and `dead-letter`, the places of running jobs | scan, renew, expire, dead-letter | no extension without a payment; no worker takes up the renewal of what was cancelled; no job is lost; what is due is decided in the end |
| Job queues (`src/queues/QueueManager.ts`, BullMQ) | waiting, active and failed jobs | add, deliver, retry, stall | delivery at least once |
| Redis client, database pool (`src/config/`) | connections | get, set; query, execute | - |
| HTTP API (`src/controllers/`, `src/routes/`, `src/app.ts`) | none | one handler call per request | - |
| Dashboard (`dashboard/app`, `dashboard/lib/api.ts`) | what the mounted page shows; the requests it awaits | search, filter, create, cancel, open another page | shows what was asked for last; does not offer what is done; loads only while it waits |
| Startup, configuration | none | - | - |

How they interact: a controller awaits a handler; a handler awaits repository
statements, Redis commands and `EventBus.publish`; `publish` awaits the
projector's handlers; the autopay worker awaits the payment handler, the
subscription repository and `publish`; a dashboard page awaits `fetch`. There is no transaction anywhere
(`DatabaseConnectionPool.transaction` has no caller), so every await is a point
where other calls interleave and where the call may be cut off.

What is hard: check-then-act across an await (the idempotency key, the payment's
status, the active subscription, the renewal's `endDate`); row and event written
by two statements; the read model updated only by the process that published;
retries of a renewal that got half way; two jobs of one subscription; a
cancellation during a renewal; a batch that is full of subscriptions that fail;
the last days of a month; answers to a page that come in another order than its
requests, or to a page that is gone. PROJECT.json lists each hazard at its line with
the properties that watch it.

## 2. The modules

| Module | Models | How it corresponds |
|---|---|---|
| `EventLog` | what the event store promises | abstract: one log per aggregate, `Record` appends one event |
| `EventBus` | `publish` over `event_store` | `pub[c]` is the publish caller `c` is in; `GetLatestVersion`, `AppendEvent`, `AppendIsDuplicate`, `Dispatch`, `Resume` are its awaits; `QueryFails`, `AppendReplyLost`, `BusCrash` its failures |
| `PaymentSummaryProjector` | the projector's SQL | pure operators: what an event does to a row of counters |
| `PaymentHandler` | the four payment operations | `call[c].pc` is the await that call `c` is at; extends `EventBus`, and joins the projector's effect to `Dispatch` |
| `SubscriptionHandler` | create and cancel | `subCall[c].pc` likewise; `now` is a clock in plan periods |
| `AutopayWorker` | scan, renewal, queue | extends both handlers; worker `w` runs its payment calls as the caller `w`, so a renewal is made of the same steps as a client's requests |
| `BillingCalendar` | the two date calculations | `InYear` is what `setMonth` and `setFullYear` do with a day the month has not; `CreateSubscription` and `RenewSubscription` add the first and every later period |
| `Dashboard` | the four pages | extends `SubscriptionHandler`; `view` is the state of the mounted page, `asks[c]` the request it awaits on connection `c`, which the API serves as the caller `c`; `Settle` is the code after an await, up to the next one |
| `EventBusProofs`, `EventLogProofs`, `PaymentHandlerProofs`, `SubscriptionHandlerProofs`, `DashboardProofs`, `BillingCalendarProofs`, `PaymentCountingProofs`, `AutopayWorkerProofs` | theorems | see section 5 |
| `MC*` | constants for TLC | users, keys, the days of three years, symmetry |

An action is the code from one await to the next: `SetKey`, for instance, is the
Redis SET together with the call of `publish` that follows it, up to the
`SELECT MAX(version)` that publish first awaits. A statement takes effect at one
moment; its failure is `rejected` (no effect, the await throws) or `replyLost`
(effect, the await throws). The constant `DbFault` says which may happen in a
run. Redis commands do not fail: `config/redis.ts` sets
`maxRetriesPerRequest: null`, so the client waits for Redis without limit. A
crash empties the calls and leaves MySQL and Redis as they are.

Definitions called `Mut...` are plausible bugs (a dropped check, a swapped order,
a missing reset). No specification uses them; each property is shown to fail
when its bug stands in place of the definition after it.

What is abstracted:

- Amounts, currencies, texts and transaction ids. A payment's row keeps its
  status and whether `paid_at` and `refunded_at` are set.
- One date of `payment_summary`; the money columns sum the events the counters
  count.
- Ids: `Fresh` draws an order number nobody has used, as `uuidv4` does.
- A plan's length is `Period[s]` time units in the operations; `BillingCalendar`
  takes the dates by themselves, without the time of day, which both calculations
  keep.
- Of what a page shows, whose data it is and the status of a subscription. A list
  is not read entry by entry. When another page is opened the answers to the one
  before are forgotten (React ignores their updates), while a call that the API
  has accepted goes on, and a request it accepts later is one it accepted before; a page that is reloaded is one that is opened. `trail`
  records, for the properties only, what the page was asked for last and whether
  its requests overlapped or failed. No renewal runs in that module: a
  cancellation overwritten by one is the run `AutopayRevived`.
- Delays: a backoff is a job that waits for any time. The documents and the code
  differ on its length (2 s in README.md:141, 5 s in AutopayWorker.ts:149), which
  no property depends on.
- BullMQ, which is external: a job is delivered to one worker at a time, in the
  order of arrival but for retried and stalled ones; a throwing processor uses an
  attempt; the job of a dead process is delivered again, `MaxStalled` times. The
  repeated scan job runs one at a time and behind the jobs of the scan before. Not
  modelled: a scan that takes longer than five minutes and overlaps the next one,
  and a job that is delivered again because its lock ran out while its processor
  still runs. What both can lead to, two jobs or two workers for one subscription at
  once, is the run `AutopayRace`. A scan starts when `JobId` has room for its batch
  (`FreeJobs`), which is a bound of the model: the queue has none.
- `failPayment` is a public operation without a caller in `src/`, and nothing else
  publishes PAYMENT_FAILED: what the properties say of failures is about the
  operation, if somebody calls it. `payment-processing` has no worker: its jobs are
  a set.
- `event_store` is a set of events: two equal rows would be one. The unique index
  admits none; without it the read model would count the second delivery, and
  `ReadModelNeverAhead` fail.

## 3. The runs

| Run | Question | Bounds |
|---|---|---|
| `PaymentKeys` | Are histories contiguous, do they implement an append-only log, are acknowledgements durable, and do keys and jobs stand for payments, while calls overlap, fail, crash and keys expire? | 2 callers, 2 orders of one key, create and complete, histories up to 2 when a call begins |
| `PaymentHistory` | Is what an event leaves for good (`paid_at`, `refunded_at`, no longer PENDING) in the row, whichever call overwrites the status, and does the read model follow the events, over a payment's whole life; is an event missing only by a fault, and does the total miss one failure at most? | 2 callers, 1 order, all operations, all faults, crashes, histories up to 3 when a call begins |
| `PaymentOneAtATime` | Without overlap, through faults, lost replies and crashes, is a payment completed and refunded once, does a key admit one job, does only a fault leave a history that does not replay to the status, and does every call end? | 1 caller, 2 orders of one key, histories up to 3, fairness |
| `SubscriptionSafety` | Does an acknowledged cancellation turn `auto_renew` off through overlap, faults and crashes, and does only overlap repeat what should happen once? | 2 callers, 3 subscriptions of a user, all faults, crashes |
| `AutopayRace` | Do two workers, and a client that pays under the same key, keep extensions paid? | 2 workers, 2 jobs, 3 orders, expiring key |
| `AutopayFaults` | Is a job lost, do dead letters and the end of the retries go together, do retries extend more than was paid, does a worker take up the renewal of a cancelled subscription, and is what is due decided? | 1 worker, 1 client that subscribes and cancels, 1 failure of either kind, 2 crashes, fairness |
| `AutopayBatch` | When statements stop failing and keys expire, is every due subscription renewed, though a batch has room for one only and a failed job is not retried? | 1 worker, 2 subscriptions, batches of 1, 1 attempt for a job, 1 failure, 2 orders for each, fairness |
| `BillingCalendar` | Do renewals drift, shorten or skip a period? | both plans, from any day of 2023, 2024 and 2099, 24 periods |
| `Dashboard` | Does a page show what it was asked for last, is "Loading" shown only while an answer is awaited, and is a cancelled subscription offered again only beside an error or an overlap? | 2 connections, 2 subscriptions, all faults, crashes, lost requests and answers |

The bounds are the smallest in which the hazards occur: two calls for every race
of two, three for a history two publishes extend while a third fails, two orders
of one key for a duplicate, three orders where an interrupted attempt uses one up,
two crashes for a job that stalls past `MaxStalled`, two subscriptions for a batch
that leaves one out, two connections for answers out of order. In `AutopayBatch`
one attempt for a job makes a job fail for good with one failed statement (with
three, the retries are refused as duplicates and fail as well); 2 orders suffice
there, since a subscription is renewed again only after one failure or one
conflict of versions. The 24 years from 2023, 2024 and 2099 hold leap years and
the year 2100, which is none. `MaxVersion` stops calls
from beginning on a full history; those under way go on past it. In the autopay
runs `MaxFailures` and `MaxCrashes` bound the faults in a behaviour. Deadlock
checking is off because each model stops when its histories and clock are full.

In the autopay runs a client creates payments (`AutopayRace`) but does not complete
or refund the renewal's own: `PaymentOp` admits it, but with two workers the states
are too many for a run of minutes.

What overlap leaves of "once" is stated as a bound, at most one for each caller
(`RepeatsOnlyByOverlap`, `ActiveOnlyByOverlap`, `CancelledOnlyByOverlap`); with
one caller it is "once". `RefundedOnce` has no such bound: a completion that
overlaps a refund makes the payment refundable again. `PaymentOneAtATime` states
it, and `CompletedOnce` with longer histories, for requests that do not overlap.

Runs in which TLC finds a violation state what a document, comment or test says
and the code does not do; PROJECT.json quotes the line.

| Run | What happens |
|---|---|
| `PaymentDuplicateOrder` | two identical requests at once make two payments |
| `AutopayOneFailure` | one failure uses up all attempts, because retries are refused as duplicates |
| `AutopayRevived` | a cancelled subscription becomes active again |

Consequences of the code that the models include and no run is about:

- Two completions of a payment at once are both announced and counted, and two
  subscriptions of a user created at once are both active: check and write are
  separate statements, as in `PaymentDuplicateOrder`.
- A completion that overlaps the creation can store its event first, or lose it to
  the unique index, so the last event need not give the row's status.
- Nothing delivers an event to the read model a second time: a crash between the
  event's INSERT and the projector's statement leaves it short.
- The first event of a day, if a failure, is not counted in `total_transactions`,
  later ones are (`PaymentSummaryProjector.ts:60`, `:64`); `TotalsMissAtMostOne`
  bounds the difference. A failure is counted on its UTC date, a completion on the
  date of `paidAt`.
- A creation whose publish fails leaves a key that refuses the client's retries
  for an hour.
- With two jobs of one subscription the second is refused by the first one's key
  on all its attempts and ends as a dead letter though nothing failed. A job whose
  attempts fail in the SELECT before the try block leaves none.
- When the extension fails after the payment was completed, the period is charged
  and the retries do not add it.
- A subscription made on January 31 runs to March 3, one made on February 1 only
  to March 1; from then on the first keeps the 3rd. `RollsOverOnce` says that this
  happens once.
- A payments or events page whose search fails keeps the list of the search
  before; the events page labels it with what is in the input now. Two overlapping
  searches leave the answer that came last, and the first answer ends "Loading".
  Nothing in a page keeps a form from being sent twice.
- A revived subscription has `auto_renew` off, so no scan selects it and it stays
  active past its end.

## 4. Fairness

`PaymentFairSpec` has weak fairness of each call's next step: Node's event loop
resumes a call whose statement has returned. Neither clients nor faults are fair:
nobody has to call, and nothing has to fail. `AutopayFairSpec` has the same for
calls and renewals; strong fairness of the scan and of the delivery of each job,
since BullMQ repeats the scan every five minutes and delivers in order of
arrival, so that none is passed over for ever though other jobs keep a worker
busy at times; and weak fairness of the stalled check, which BullMQ runs on a
timer, and of the expiry of a key, where keys expire in a run, since Redis keeps
each for an hour. `DueIsServed` needs the last: a renewal whose attempt failed
after its key was set is refused until the key is gone. The dashboard's properties
are invariants; its module has no fairness, since an answer may never come.

## 5. Proofs

`EventBusProofs` proves `BusSpec => []BusInv`, which has type correctness,
contiguity, durability and the unique versions as parts; the last is what the
index says and has no theorem of its own. What makes them inductive is
`AppendFollows`: the versions before the one a publish is about to insert are in
the store. They stay there because rows are never changed, so the insert leaves
no hole; the unique index does the rest. One lemma for each operation; two carry
the work, `AppendStep` for a step that adds a row and `QuietStep` for the others.

`EventLogProofs` proves `BusSpec => ImplementsEventLog`: under the invariant a
history, read as a function of its versions, is a sequence, and a step of the bus
either appends one event to one sequence or changes none.

`PaymentHandlerProofs` proves `PaymentSpec => []PayInv` and, from it, the
theorems for `PaymentTypeOK`, `EventsFollowRows`, `AcknowledgedIsDurable`,
`KeyNamesItsOrder`, `JobsAreLogged` and the action property
`PendingIsLeftForGood`. `PayInv` adds to `BusInv` what is true of each call at
each of its awaits (`CallInv`: the operation, the publish in progress, the row and
the event it relies on), that an order number about to be inserted is one call's
alone (`OrdersAreFresh`, without which an INSERT could undo a row), that a
refunded or completed row was paid (`RowsAreEarned`) and that every stored event
shows in its row (`EventsShow`). What shows is what the event leaves for good: a
stale completion, or a failure, may overwrite the status itself. The argument rests on `Grows`: rows, what they
bear, events and jobs are never taken back, so a call's facts survive the steps
of every other call (`OtherCallKept`), and each action has to establish those of
its own caller only. Before it was proved, `PayInv` was checked as an invariant in
the bounds of `PaymentKeys` and `PaymentHistory`.

It also proves that `PaymentSpec` implements the event log.

`PaymentCountingProofs` has the properties that count. Each adds to `PayInv` one
invariant of its own:

- `RepeatsOnlyByOverlap`: the completions stored, and the calls that may still store
  one (`Flying`), are together at most the callers. A call begins to fly by finding
  the payment PENDING, and then none is stored yet: an event marks its row, and a
  PENDING row is not paid. `CompletedOnce` is the case of one caller. `RefundedOnce`
  needs more than the count, since what it checks (COMPLETED) can be entered again:
  a sole call that is about to refund finds the row as it checked it.
- `ReadModelNeverAhead` and `LostOnlyByFault`: no step makes `Missed` less, and only
  a fault or a crash makes it more; an append and the delivery it begins move two of
  its terms at once.
- `TotalsMissAtMostOne`: the row that does not exist counts nothing.
- `OneJobPerKey`: for one caller and keys that do not expire (`KeyHeld`), an order with
  a job stays the one under its key; a creation inserts and sets its key only while the
  key is free, and from its publish until its job is added the key is its own.
- `ReplayBrokenOnlyByFault`: a sole publish inserts behind everything in its history,
  and the row keeps the status it publishes.

The last two and "once" are about requests that do not overlap. They are stated for
`Caller = {c}`, and `OneJobPerKey` also for `~KeyExpires`: what their names say and
their run checks.

`SubscriptionHandlerProofs` proves `SubSpec => []SubInv` along the same argument as
`PaymentHandlerProofs` and, from it, the theorems for `SubTypeOK`,
`SubAcknowledgedIsDurable` and the event log, and that `auto_renew` stays off once a
subscription was cancelled (`RenewalStaysOff`). A row is
written by two statements only: the INSERT, of an id that is one call's alone
(`SubIdsAreFresh`), and the UPDATE of a cancellation, so that a CANCELLED row stays
CANCELLED (`SubGrows`). `ActiveOnlyByOverlap` and `CancelledOnlyByOverlap` count the
calls that have passed the check together with what is already there, as for
completions.

`AutopayWorkerProofs` is about everything at once: clients, workers, payments,
subscriptions and the queue. `AutopayInv` joins `PayInv` and `SubInv` by what ties the
three kinds of caller together: a worker has a payment call exactly while it awaits
one, with the operation and the key of the subscription it renews (`WorkerCall`);
whoever publishes a renewal's event is a worker at that place (`PubOfRun`); a worker
in `processRenewal` has its job to itself (`WorkerJob`); a queued job has attempts
left and a subscription that exists (`JobStands`). One lemma for each kind of step
says what it leaves of the others (`PaymentStepsStayApart`,
`SubscriptionStepsStayApart`, `RenewalStaysApart`). From `AutopayInv` follow
`AutopayTypeOK`, `JobsAreNotLost`, the payments' and the histories' safety in the
whole system, and that the system implements the event log. `CancelledStopsRenewal`
follows from `RenewalStaysOff`, which holds in the whole system: renewals and
expiries overwrite the status, as the run `AutopayRevived` shows, but never set
`auto_renew`; and a worker comes to renew by the SELECT that finds it on, or goes on
with a renewal it has (`WorkersMove`). `DeadLettersHaveFailed` is inductive beside
`AutopayInv`: while a worker awaits, nobody else touches its job
(`ThrowingStays`), so the attempts the code has counted are those BullMQ counts. The counts of the payments
hold there too: each step of the system is one of `PaymentNext` or leaves payment
rows, events and statistics alone (`PaymentOrForeign`).

`ExtensionsArePaid` needs `ExtensionInv` beside it, since a worker extends by what it
read before it paid. With P(s) the completed orders of a subscription's key, and
End(s, n) the start and n periods:

- workers await different orders (`OrdersAreOwn`: `uuidv4`);
- the `endDate` a worker read is within End(s, 1 + the orders of P(s) but the one it
  awaits), so that the awaited payment, whenever it completes, leaves a period for
  it; once the call has returned, that period is its own (`ReadIsPaid`);
- the row is within End(s, 1 + |P(s)|), whichever worker wrote last;
- the renewals announced and those still to be announced are at most the orders of
  P(s) that nobody awaits any more.

A retry, a stalled job that runs twice and a crash only add to P(s) without extending.
`AutopayInv` and `ExtensionInv` were checked as invariants in the bounds of
`AutopayFaults`, `AutopayRace` and `AutopayBatch` before they were proved.

`DashboardProofs` first proves `DashSpec => SubSpec`: what the pages do to the
operations is what any client may do, so `SubInv` holds behind them. On top of it
`DashInv` is inductive, which gives the theorems for all four properties of the
pages. As long as requests do not overlap (`Unraced`), one at most is awaited that
changes the page, it is about what was asked last, and what it finds was read after
every cancellation the page was told of; an answered cancellation is one whose row
is CANCELLED (`CancelIsServed`), and `CancellationStays`. `DashInv` was checked as
an invariant in the bounds of the run `Dashboard` before it was proved.

`BillingCalendarProofs` proves `CalendarSpec => []CalendarInv` and, from it, the
theorems for all four properties of the calendar. `CalendarInv` says how the end
can stand to the start: on the same day, the months that were paid for later, or
in the first three days of the month after because one renewal, from the 29th or
later, rolled over. It is inductive because a day up to the 28th never rolls
over. The lengths of periods are counted by `DayNumber`, which knows nothing of
`DaysIn`: the lemmas `CountMonth` and `CountYear` show that the count grows by
the length of the month and the year, and `CalendarInvNeverShort` compares the
two cases with the anniversary.

The theorems assume `BusAssumption`, `CallerAssumption`, `PaymentAssumption`,
`SubscriptionAssumption`, `AutopayAssumption` and `CalendarAssumption`: types of the
constants, that orders and subscriptions are different aggregates, that workers are
callers, that start dates exist, and that a process serves finitely many calls at
once, without which nothing could be counted for each caller. The bounds
(`MaxVersion`, `MaxFailures`, `MaxCrashes`) may be any numbers, and orders,
subscriptions, keys and jobs need not be finite.

Only model-checked: liveness (`CallsReturn`, `DueIsDecided`, `DueIsServed`), which the
provers do not reach, and the runs in which TLC finds a violation. Every invariant
and action property that a passing run checks has a theorem.

## 6. Not modelled

- The database pool's waiting line, which is the driver's. A statement holds its
  connection only while it runs (`transaction` has no caller), so no call waits
  for another that waits for it, and a refused statement is one that fails without
  effect, at any await (`DbFault`).
- Queries that no page sends, paging, HTTP routing and error formatting.
- The payments form of the dashboard and the texts its pages show.
- Startup and configuration, which keep no state; `QueueManager.closeAll` and
  `DatabaseConnectionPool.close`, which have no caller.

## 7. Plan

In order of importance; the first part of each line is done.

1. `EventBus`, `EventLog`: model, refinement, proofs. Done.
2. `PaymentHandler`, `PaymentSummaryProjector`: model and proofs, of the counts too.
   Done.
3. `SubscriptionHandler`: model and proofs, of the counts too. Done.
4. `AutopayWorker`: model, a run with more due subscriptions than a batch takes, and
   proofs for the composed system. Done.
5. `BillingCalendar`: model and proofs. Done.
6. `Dashboard`: model and proofs. Done.
7. `RenewalQueue`: the promise of a job queue (at least once, at most `Attempts`
   times) as an abstract specification that `AutopayWorker` implements.
8. Several dates in the read model, with the date of a refund that differs from
   that of its payment.
