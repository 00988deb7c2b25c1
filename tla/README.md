# CabFleet in TLA+

CabFleet is a taxi-dispatch product: a Next.js application on serverless
functions, a PostgreSQL database behind Prisma, Razorpay for online payments,
Supabase for accounts, files and broadcasts, and a set of cron routes. This
directory holds the specifications kept beside that code: TLA+ modules of its
stateful parts, TLC configurations that check them on small instances, and
proofs that hold for instances of any size.

Paths below are relative to the repository root; the application lives in
`src/` there.

## 1. What makes this system hard

Every request is an independent serverless invocation. It reads rows in one
database round trip, often waits for another service, and writes in a later
round trip; PostgreSQL runs at READ COMMITTED. So

* any other handler may run between a read and the write that relies on it;
* an invocation may be killed (timeout, frozen function) between any two round
  trips, and nothing but a cron will ever continue its work;
* webhooks arrive late, twice, out of order, or never;
* crons run every minute or every quarter of an hour and may overlap.

The code answers with four devices: an optimistic `version` on bookings,
`SELECT ... FOR UPDATE (SKIP LOCKED)`, conditional `updateMany ... WHERE status`,
and unique keys. The models are about whether each device covers what it is
used for. In every model **one database round trip is one step, one
`$transaction` is one step** (unless it only locks what it reads later), and a
call of an outside service is a step of its own.

## 2. Inventory

| Component | State it keeps | Operations that change state | Hard because | What makes it correct | Modelled in |
|---|---|---|---|---|---|
| Booking lifecycle (`modules/bookings`, `api/v1/trips`, `cron/promote-hybrid`) | `Booking` (status, version, claimedBy, driver, vehicle, fare), `AuditLog`, `AssignmentHistory`, outbox inserts | create, edit, assign, claim, staff/driver/customer transitions, soft delete, promotion | validation, snapshot and transaction are three round trips; drivers race for claims; the cron races with all | one audit row per version forming a legal path; one claimer and one crew, as the history says; notifications exactly of what was committed | `BookingLifecycle` |
| Live tracking (`modules/tracking`, `cron/prune-trip-locations`) | `TripLocation`, `Booking.suspiciousLocationCount`, `locationConsentAt` | ingest a batch, review, consent, deletion of points, broadcast | its writes are on the booking row but outside the optimistic lock; overlapping posts are judged against one last point | points only with consent and of an owner; the completion gate; the map draws what was reported | `TripTracking`, `LiveMap` |
| Payments (`modules/payments`, `webhooks/razorpay`, `cron/reconcile-payments`, `lib/webhooks`) | `Payment`, `WebhookEvent` | checkout, desk payment, webhook capture/failure/refund, reconcile | two writers act on stale reads of one row; delivery is unreliable | recorded as captured iff the gateway has the money | `Payments` |
| Refunds (`refund.service`, webhook `refund.processed`) | `Refund`, `Payment.status` | request, approve, reject, settle | the gateway's call is between two transactions; its event may overtake the answer | requests fit the payment; four eyes; REFUNDED means all given back | `Refunds` |
| Notification outbox (`modules/notifications`, `cron/drain-notifications`, `cron/prune-notifications`) | `NotificationOutbox`, `NotificationLog` | enqueue, claim, send, back off, dead-letter, prune | overlapping drains; kill after claim | one sender per row at a time; no early dead letter; nothing lost but by a kill | `NotificationOutbox`, `MailQueue` |
| Invoices (`modules/invoices`) | `Invoice`, file storage | generate, re-issue, void | file upload inside a transaction, an advisory lock | a number bills one booking; the stored PDF is the invoice's | `Invoices` |
| Request handling (`lib/auth/withApiHandler`, `lib/idempotency`, `lib/rate-limit`) | key/value store, counters | look up, run, store; count | check-then-act on a shared store | repeats take effect at most as often as they overlap; bursts bounded | `DriverApi`, `RateLimit` |
| Dispatch policy (`modules/dispatch`) | `DispatchRule` | create, delete, resolve | empty string, null and absent are three things | the first rule that applies decides | `DispatchPolicy` |
| Fares, GST (`modules/pricing`, `invoices/gst`) | `FareRule`, `Booking` fares, the tax rate | compute, at four places | the rate and the row change between two computations | all places say the same sum | `FareRules` |
| Desk registers (vehicles, drivers, branches, organisations, types, rules, shifts, costs, pairings) | a table each | create, edit, delete, through a page, a form, an action and a service each | checks before the transaction, unique indexes over deleted and foreign rows | codes freed, checks foresee the index, pairings few | `Registers` |
| Accounts (`modules/customers`, `staff`, `profile`, drivers' invitations, `dsr`) | Supabase users, `Profile`, `Customer`, `Staff`, `Driver` | find-or-create, sign up, claim, invite, update, terminate, erase | two stores, no common transaction; a trigger between them that may be late | owners can sign in; roles follow rows; rows have profiles and profiles accounts | `Accounts` |
| Attendance (`modules/attendance`) | `Attendance` | check in, check out, mark absent | phone and desk write one row | a day's row tells one story | `DriverApi` |
| Erasure (`modules/dsr`) | across the above | erase | concurrent drains and ingests | nothing personal is sent afterwards | `TripTracking`, `NotificationOutbox`, `Accounts` |
| Authentication, roles, set-up (`middleware`, layouts, auth forms) | session, role, factor, install row | redirect, follow a link, sign in, enrol, set up | five places redirect without knowing of each other; a layout is not asked again for a link below it | no circle; visits end where they belong | `FrontDoor` |
| Screens (`app/`, `components/`) | what is on a page | render, click, ask, page through | a page is old when it is clicked | offered exactly if accepted; answers fit the form; lists show every row once | `TripScreens`, `BookingForms`, `Lists`, `LiveMap` |
| Tenancy (`lib/db`, `lib/tenant`) | async context | filter, stamp | filters meet indexes that are global | see `Registers`, `Invoices` | partly there |
| Reports, geocoding, themes, dashboards | none | read | nothing shared | out of scope, see 8 | - |

How they interact: a transition of a booking inserts into the outbox in its own
transaction and, once COMPLETED, triggers invoice generation after it; tracking
gates COMPLETED and writes columns of the booking row; checkout reads the fare
of the booking and the captured payments; refunds read and the refund webhook
writes payments; erasure deletes from tracking and from the outbox; every page
shows rows the others write and calls actions that check them again.

## 3. Modules

```
BookingRules                transition tables, who may target what       (pure)
  BookingLifecycle          the handlers, the cron, the tables
    BookingImplementsTrip   refinement mapping  --INSTANCE-->  TripStateMachine
    BookingLifecycle_proofs the inductive invariant and the theorems
    TripTracking            BookingLifecycle composed with live location
      TripTracking_proofs
  TripScreens               the pages of one trip and the actions behind them
  DispatchPolicy            rules, their form, the resolver
Payments                    checkout, webhooks, cron, gateway
  Payments_proofs
  MCLiveness                Payments beside an INSTANCE of BookingLifecycle, fair
Refunds                     one captured payment and its refunds
  Refunds_proofs
NotificationOutbox          --INSTANCE-->  MailQueue
  NotificationOutbox_proofs the invariant and the refinement
Invoices
  Invoices_proofs
DriverApi   RateLimit   Registers   FareRules   BookingForms   Lists   LiveMap
MCBackOffice                these, with Invoices, TripScreens and DispatchPolicy
  BackOffice_proofs         over its OfficeSpec; uses Invoices_proofs
Accounts   FrontDoor
MCFrontDoor                 both
  FrontDoor_proofs          over its Spec
MCBookingLifecycle, MCTripTracking, MCPayments, MCRefunds,
MCNotificationOutbox               instances for TLC
```

**BookingRules** holds the tables of `prisma/schema.prisma` and
`booking.constants.ts`: the statuses, `ALLOWED_TRANSITIONS`, the targets staff
and drivers may request.

**BookingLifecycle** keeps one record per `Booking` row (`row`), the request
each handler is serving (`req`), and the three tables a transition writes. A
handler is idle, *checked* (its validation read is done), or *ready* (it holds
the snapshot `TxCurrentBooking`). `CreateBooking`, `AssignDriverToBooking`,
`DriverTransition`, `CancelOwnBooking`, `StaffTransition`, `EnsureCanClaim`,
`ReadForEdit`, `ReadForDelete` and `PromoteHybrid` are the read halves of the
services of the same names; `LoadTransition` is the snapshot read of
`transitionBookingStatus`; `CommitTransition`, `ClaimBooking`, `CommitEdit` and
`CommitDelete` are the transactions. `ClaimBooking` reads under
`FOR UPDATE SKIP LOCKED`, so its read and write are one step, and `SkipLocked`
is the answer of a driver who found the row locked. `Crash` kills a handler
between two steps; `ExpireClaimTimeout` is the clock. A price is a model value
`[base, extras]`; the final fare is its sum.

**TripStateMachine** is the abstract specification: one booking is a status, a
claimer and a crew, and moves by atomic, legal steps. It has no handlers, no
versions, no snapshots. `BookingImplementsTrip` maps every row to it.

**TripTracking** adds the suspicious counter, consent, stored points and their
handlers (read half, transaction half), and lets the counter decide the
completion gate that `BookingLifecycle` leaves open. How many points of a batch
are implausible is a choice there; `LiveMap` computes it. `flaggedEver`,
`reviewed` and `lateBatches` are history variables.

**Payments** keeps the gateway's view of each order (external), the events it
emits, the `Payment` rows, the `WebhookEvent` rows, and three kinds of handler:
checkouts (`createCustomerCheckout` and the gateway half of `createPayment`:
read the outstanding amount, look for a pending order, create the order, insert
the row), webhook deliveries (`withIdempotency` around
`recordPaymentFromWebhook`: insert the event row, read the payment, write it)
and reconcilers (one row of the cron's batch: list, fetch, write). A delivered
event stays in `emitted`, so it may be delivered any number of times, in any
order, or never. `rank` stands for `createdAt`, `age` for the 30-minute and
72-hour windows. Orders may belong to several bookings as far as the cron is
concerned; the checkout part is one booking's.

**Refunds** has one captured payment. A request is one transaction under the
payment's row lock; an approval claims its row, calls the gateway, and stores
the gateway's id in a later transaction, and either answer may be lost or the
worker killed; a rejection checks and writes in two steps; `refund.processed`
is taken in two steps of one transaction (the refund row, then the sum over the
others), because at READ COMMITTED two such transactions do not see each other.
The gateway also refunds from its own dashboard. `lateRejections` is history.

**NotificationOutbox** has writers (resolve the recipient, insert one row per
channel in the transaction), drains (one row of one invocation's batch: list,
claim, skip or dispatch, log, finish), the provider, back-off, kills, both
prunings and the erasure, which deletes what it matches. `delivered`,
`failures`, `lostLogs`, `touched` and `inFlight` are history. **MailQueue** is
what it promises per message: taken by one at a time, at most one copy handed
over per taking, then put back, closed or *abandoned*; the drain that dies after
its claim is an `Abandon` step, and the refinement shows that nothing else
loses a message.

**Invoices** has generators (read the booking, lock and number, insert or
re-issue, upload, commit) and voiders (read, update WHERE id), a clock of
months, and a scope per generator: whose rows its query may see.

**DriverApi** is `withApiHandler` round the attendance routes: look up the
idempotency key, run the handler, store the answer, at one of several instances
whose memory is the store when Redis is not configured, with requests repeated
by phones that got no answer; the desk marks absence beside it. **RateLimit** is
the in-memory window.

**TripScreens** keeps the trip as its pages see it and the set of controls
somebody has on a screen (`intended`), which may be of any earlier rendering; a
click is judged by the action's own rules. `Offers` is translated from the
pages, `Accepts` and `Effects` from the actions. **BookingForms** has the forms
that ask the server while they are filled, with answers in flight. **Lists** has
eighteen queries and nineteen pages, each a choice of how rows arrive, leave,
move and tie; one reader walks one of them. **LiveMap** has posts that overlap,
what `plausibility.ts` flags on a line, the broadcast, and the customer's map
from its rendering through subscription and load.

**Registers** is one model of the twelve tables built alike; a kind chosen in the
initial state says which operations there are, who may call them, what the
service compares with and whether a deletion frees the code. Its clerks go from
list to form to request to check to transaction. **FareRules** has one booking's
money: estimate, final fare, GST, balance, queue, invoice, each by the code that
computes it. **DispatchPolicy** has the rules as the form submits them and the
resolver.

**Accounts** has three stores and the services that write them, Supabase first;
a worker may stop between any two calls. The trigger that writes a new user's
`Profile` is installed AFTER INSERT, in the auth user's transaction
(`prisma/sql/01_profile_sync.sql:44-47`, body in `13_...sql`), while
`driver.service.ts:71-72` provides for one that "has not fired yet (it fires
asynchronously)" and `session.ts:35` and `auth/callback/route.ts:82` for a user
without a profile. `CreateAuthUser` has both: the trigger runs with the insert,
or is `owed` and fires later (`TriggerFires`) or never; it inserts a CUSTOMER or,
on conflict, writes the address alone. `UpsertProfile` is the services' upsert
with both its branches. `getOrCreateCustomer` is a look-up and an insert
(`ReadOwnCustomer`, `InsertOwnCustomer`), since the portal's layout and its pages
call it side by side. Where the optional `on_auth_user_updated` is installed, a
claimed account's new address reaches the Profile at once.

**FrontDoor** has one browser, and the answers of middleware, landing page,
set-up, layouts and pages to the path it asks for; session, role, factor and
install change meanwhile. A path is typed, or asked for by a link of the page
(`inApp`). For a link to a page below the layout that is shown, the App Router
renders the page and keeps the layout (`LayoutKept`, external): role, set-up and
second factor are then not asked, only what the page asks itself (`DeskPage`,
`DriverPage`, `PortalPage`). `letIn` remembers for which role the layout was
rendered. A redirect met on the way stays a request of the router.

Operators marked *wrong variant* are plausible mistakes. No specification uses
them; each breaks the property it is listed with in `PROJECT.json`, which is how
we know that the property can fail.

## 4. Runs and what they show

Passing runs:

| Run | Instance | Shows |
|---|---|---|
| `booking` | 1 booking, 2 drivers, 2 handlers, 1 cron, 1 crash | audit rows form one path; row, history and audit agree on claimer and crew; outbox matches audit; at most one transition after a delete; drivers advance only own trips; refinement of `TripStateMachine` |
| `tracking` | 2 drivers, 1 handler, 1 tracker, 2 posts | consent and ownership of stored points; late batches bounded; the lifecycle is implemented by the composition |
| `payments` | 1 cron and a batch of 1 beside either 2 deliveries, 2 orders and one checkout at a time, or 2 checkouts racing over 3 orders (`MCPayments`) | a capture is recorded only for money taken; an event is never processed twice at once; two checkouts may both find no pending order and both create one, but a booking never has more pending orders than checkouts that raced |
| `refunds` | 3 refunds, 2 gateway refunds, 2 admins, 2 decisions and 2 deliveries at a time, amount 2 | four eyes; one gateway call per refund at a time; requests fit the payment unless a late rejection overwrote a row; REFUNDED means all given back |
| `outbox` | 2 messages, 2 drains, 1 writer, 2 attempts, 1 lost log write | one sender per message; a second copy only for a lost log row; no early dead letter; the reach of an erasure; refinement of `MailQueue` |
| `backOffice` | ten components, below | numbers and PDFs of invoices; repeated requests, attendance and bursts; pages, forms, lists and the map; registers; bills |
| `frontDoor` | 2 users, 1 phone, 2 addresses, 2 workers; one browser | rows have profiles and profiles auth users, with a trigger that is early, late or never; owners can sign in; roles follow rows; no redirect loop; visits end where they belong, as far as a layout is asked, and in the area it let in where a link keeps it |
| `liveness` | payments: 1 order, 2 deliveries, 2 crons; bookings: 1 driver, 1 handler, 1 cron, 2 crashes; fair | an expired HYBRID booking leaves PENDING; a captured order ends up, and stays, recorded |

Three runs hold several components: those of `backOffice`, of `frontDoor` and
of `liveness` share no state and call nothing of each other, so each behaviour
is of one of them, chosen in the initial state, and the others stay where they
began. Each behaviour of a component alone is thus a behaviour of the run, and
no product of them is built.

| In `backOffice` | Instance |
|---|---|
| `Invoices` | 2 bookings, 2 generators, 1 voider, 2 months, numbers to 2 |
| `DriverApi` | 1 driver, 1 key, 2 workers at one or two instances or Redis |
| `RateLimit` | window of 3 ticks, limit 2, clock to 8 |
| `TripScreens` | every initial consent, standing and serviceability; 2 intended clicks, review threshold 2 |
| `Registers` | each of 12 kinds, 2 rows (3 pairings), 2 codes, 2 clerks, 3 staffings |
| `FareRules` | 2 rules, extras 0 or 40, tax 0 or 5 per cent |
| `BookingForms` | each of 3 forms, 2 trips, 2 numbers, 3 drivers, 3 questions in flight |
| `Lists` | each of the lists, 3 rows, pages of 1, one change under the reader |
| `LiveMap` | 2 posts of at most 2 points, 3 ticks, map of 2 points |
| `DispatchPolicy` | 2 rules at a time; only its type invariant, its property is violated |

Runs that end in a violation, each a disagreement between the code and what the
repository says of it (the quotes and the lines are in `PROJECT.json` under
`findings`):

| Run | What TLC finds |
|---|---|
| `NoUnreviewedCompletion` | the completion gate reads the counter outside the transaction, the counter's writers leave the version alone, and a review clears what it has not read: a trip completes with unreviewed flagged points |
| `RecordedCapturesStay` | a `payment.failed` delivery that read PENDING overwrites CAPTURED with FAILED; the cron repairs it at its next tick |
| `BranchRulesComeFirst` | `branchId desc` puts nulls first in PostgreSQL, so a rule of every branch beats the branch's own |
| `BlankMeansAny` | a segment left blank is saved as the empty string, which is neither null nor any segment: no rule made by the form ever decides a mode |

### Divergences without a run of their own

A run tells one disagreement; these were met while modelling (several had a run
of their own before), are visible in the models as a named exception, a history
variable or a comment, and need no more states to be seen:

* `updatePendingBooking` checks PENDING, then geocodes and estimates, then
  updates by id alone: it re-prices a booking that was assigned, or completed,
  meanwhile (`editedLate` in `FareRules`).
* Killed between insert and open, a CLAIM booking stays PENDING: it has no claim
  timeout, so the cron never sees it.
* The claimer of a trip can still advance it after another driver was assigned;
  CLAIMED may be cancelled, which the diagram of `docs/architecture.md` lacks.
* Driver and vehicle are validated before the transition and not again
  (`booking.service.ts:342`).
* Rows that stay FAILED fill the reconciliation batch, oldest first; a younger
  captured order whose webhook was lost is then never fetched.
* A duplicate webhook is recognised by `P2002` in the error's message
  (`webhooks.ts:122`). Nothing bounds the sum captured: a desk payment beside a
  pending order, or a late capture of an abandoned one, can exceed the fare.
* The gateway refunds but its answer is lost: the row is open again, and a
  second approval pays a second time. A rejection may overwrite a row that was
  approved after its check (`lateRejections`). A payment given back in full by
  two overlapping `refund.processed` may never be marked REFUNDED.
* A drain that dies after its claim strands its row in PROCESSING
  (`MailQueue!Abandon`). Points accepted before an erasure are stored after it.
* The query for an invoice's last number runs under the tenant filter, the index
  is global (`generateInvoice.ts:107`): a second tenant starts each month with
  number 1, which the first has taken, and its generation fails.
* Register checks run under the filter as well: codes of other organisations are
  met only as an error of the index, and rows a SUPER_ADMIN makes have no `orgId`.
* The comment of `driver.service.ts:71-72` has the Profile's trigger fire
  asynchronously; `prisma/sql` installs it in the auth user's transaction. Both
  are in `Accounts`, and its properties hold of either.
* `docs/architecture.md:118` asks for `aal2` on staff and admin routes. The code
  asks in the layout of the desk ((admin)/layout.tsx:41-49), which a link between
  two of its pages does not render again, also one from `/profile/account`, which
  is exempt; what holds in either case is `VisitsEndWhereTheyBelong`.
* A role that changes under a rendered layout is met by the pages of one role
  alone: the other pages of the desk and of the drivers ask for a session at
  most, until the layout is rendered again (`StaysWhereLetIn`).
* The button for a manual override is shown to STAFF, who lack BOOKING_OVERRIDE
  (`booking.constants.ts:105`).
* Desk form: the name of an earlier caller stays, a late pairing overwrites a
  vehicle chosen by hand, a number shortened again shows the old caller.
* Totals of the payments, invoices and expenses pages are sums of the page
  shown; a page number beyond the end shows an empty table; ties swap rows
  between two pages.
* Map: a post heard between rendering and subscription is lost; the last update
  may go back in time; one spike is counted as two flagged points
  (`recordLocation.ts:170-171` says one).

### Bounds, and why they are enough

* One booking, payment, trip or list: no action relates two, so a second one
  adds only interleavings of independent rows. (The theorems are for any
  number.) Invoices have two bookings, since numbers relate them.
* Two handlers of a kind: a race needs two; a third contender for an optimistic
  lock, a claim or a unique key meets the same losing branch.
* `MaxCrashes` bounds kills; a killed handler leaves what it committed and is
  as good as new, so more kills repeat the same states later. The newer modules
  have no such bound: a kill there only frees the worker.
* One vehicle and one or two prices: the properties only compare them.
* `MaxBatch`, `MaxPosts`, `Threshold = 1`: the first flagged point already
  closes the gate; two posts suffice for one to land during a review.
* `MaxOrders`, `Due`, `MaxDesk`, `BatchSize`: with two orders and a batch of one
  the batch is full of other rows, the interesting case for 25. `MCPayments`
  starts in one of two scenarios and keeps `Payments`' steps in it. Deliveries
  race over two orders, with one checkout under way at a time. Or two checkouts
  race over three orders, so that a third is asked for after two are pending,
  each for what a payment at the desk has left of the fare; no event is delivered
  then, but the cron settles orders and frees the way for new ones. The product
  of the two scenarios is left to the theorems, which have no such bound.
* `liveness` has one order, so the batch always has room: that is the
  hypothesis of the property it checks. The batch that older rows fill is a
  divergence above and no property's.
* `MaxRefunds = 3`, `MaxRefs = 2`, `Amount = 2`: two refunds of one half each
  cover the payment, the third row is what must not fit; one of the gateway's
  may be the dashboard's.
* `MaxAttempts = 2`, `MaxFailures = 3`: a dead letter after the second failure,
  and one failure more than that for a stale count to lose.
* `LastNumber = 2`, `LastMonth = 2`: two bookings or one re-issue in a month, and
  one turn of the month, which may come while a transaction that has computed its
  prefix waits for that month's lock.
* `MaxChanges = 1` in `Lists`: the exceptions of its property are stated per
  change; `PageSize = 1` puts every boundary between two rows.
* `MaxSpeed = 1`, spots 0 and 2: a jump is one that no driver makes in a tick,
  and one he makes in two.
* `MaxIntended = 2`, `MaxAsked = 3`: one control that is old and one that is
  fresh; more questions than kinds of question.

Deadlock is not checked: a system nobody sends a request to may rest, and
terminal bookings stay as they are.

### Fairness

* A handler that was started takes its next step unless it is killed: weak
  fairness of the transaction halves. Starting a request is never fair; nobody
  is obliged to book, claim, pay or review.
* The crons are fair because the platform starts them on schedule
  (`vercel.json`): `PromoteHybrid` weakly. For reconciliation the assumption is
  strong fairness per order: a row that is again and again among the batch is
  again and again listed, fetched and written, that is, the gateway is not down
  on every attempt and the cron is not killed on each tick at the same place.
* The clock is fair (`ExpireClaimTimeout`, `Age`).
* Deliveries of webhooks are *not* fair. A webhook may be lost for good.
* The outbox has no liveness property: a killed drain abandons its row for good,
  so no fairness makes every message arrive; `MailQueue` says what remains. The
  same holds of refunds whose answer is lost and of half-made accounts.

## 5. What is proved

Every invariant and every action property of a passing run, and both
refinements, are theorems that TLAPS checks for every value of the constants.
The assumptions are the `ASSUME`s of the modules, and TLC evaluates them on the
runs:

* constants that serve as markers (`None`, `Nobody`, `NoPath`, `Nothing`,
  `Never`, `NoBucket`, `NoOne`, `NoPoint`, `Unread`, ...) differ from the data
  they stand beside, and the names of actors from ids;
* prices, spots, times and bounds are naturals, a limit or a page is not zero;
* the sets counted or ordered (trackers, checkouts, API workers, clerks, posts,
  list rows) are finite;
* nobody types a tombstone as a code (it ends in the id of its own row).

**BookingLifecycle_proofs.** `Invariance` proves the inductive invariant `IInv`:
the type invariant, the five other checked invariants, `RequestsAgree`, and
`RowsAreConsistent` (version 0 means nobody moved it; no claimer before CLAIMED; no crew before ASSIGNED).
None is inductive alone. The heart is `RequestsAgree`: what a handler holds is
true or its version is behind. A commit whose version matches therefore acts on
the truth, appends exactly the next audit row, and makes every other snapshot of
that booking detectably stale. The proof sorts the steps into three kinds: read
steps (change one handler's memory), apply steps
(`ApplyBookingTransitionTx` on a true snapshot), and steps that touch a row
without moving its status or version; each kind preserves each conjunct.
`TypeCorrect`, `AuditTrail`, `OneClaimer`, `Outbox`, `LateTransitions`,
`OwnTrips`, `HandlersAgree` follow, and `Refinement` shows that every step is a
step of `TripStateMachine` or leaves the mapped state alone.

**TripTracking_proofs.** `TrackingRefinement`: each step of the composition is a
lifecycle step or stutters, so all theorems above hold of it. `StoredPoints`:
points need consent and an owner although both were read earlier, because
consent is never withdrawn and claimer and crew are set once (`OwnersStay`,
itself a consequence of the lifecycle's invariant). `LateBatches` counts: the
batches stored late and the posts still in flight are together at most the
handlers, and nothing is late while the trip lives; a trip that has ended lets no
further post in.

**Payments_proofs.** `CapturesAreBacked` needs `HandlersBacked`: the events in
flight and the verdicts held by crons are backed by the gateway, which never
un-captures (a refund is another state), so writing one late is harmless to
this property. `DeliveriesExclude` needs that an event in process is in the
seen table. `PendingOrdersStayBounded` needs the budget *pending orders +
checkouts that have passed the lookup ≤ checkouts*: a lookup only passes when
nothing is pending, each insert turns one ready checkout into one pending order,
and nobody else makes a row PENDING. `PaymentsTypeCorrect` is the type invariant.

**Refunds_proofs.** `OneCall` rests on the claim: while a call is out its row is
PROCESSING and no second decider holds it. `AskedForFits` adds up the open rows
of a table: the first part of the module proves what it needs of sums over finite
sets (adding, removing, changing a row), each by a smallest set for which the
fact fails, since the library's induction theorems take an operator and cannot be
used. The strengthening relates rows, calls, webhook transactions and what the
gateway has made (`CallsFit`, `GatewayFits`, `RowsFit`, `HooksFit`).

**NotificationOutbox_proofs.** The invariant bounds the attempts a drain
remembers, and those a waiting row keeps, by what has really failed
(`DrainsCount`, `RowsCount`), from which a dead letter has used its attempts; it
says that a message which may still be sent has no copy but for lost logs, and
after an erasure was in flight when it happened. `Refinement` maps each step to one of
`MailQueue` or to none; that a message is taken by one at a time is the
invariant's `OneSenderPerMessage`.

**Invoices_proofs.** A transaction holds its month's lock, so its number is above
those of its month that it can see; the row of a booking carries its last number,
unless that came after the month was over; of two transactions on one booking
both are recorded, and one alone has row and file to itself. The maximum of a
finite set is again taken by well-foundedness.

**FrontDoor_proofs.** `Rank` says how many answers a path is away from a page, for
this session, role, factor and install, an upper bound that holds whether or not
the layout is asked; every redirect goes down, and what was asked before lies
above (`NoRedirectLoop`). `VisitsEndWhereTheyBelong` is an action property of two
cases. Where the layout is asked, the reader's role and level at that moment
decide (`LayoutAdmits`). Where it is kept, `LetInFits` says the page shown before
lies in the area of the role its layout was rendered for, in an install that is
set up for good, and a shared layout has one area (`SameArea`); of the present
role only the pages that ask themselves know. For the accounts, `JobsFit` is what
a request that has been begun still knows of its person, across the calls no
transaction spans: a Profile that was there is still there, a driver keeps a row, a guest
being created is no crew's. With it every way a Profile comes about, by the
trigger at once (`Creates`), by a late one (`TriggerKeeps`) or by a service's
upsert (`UpsertEffect`), leaves `PeopleHaveAccounts` and `RolesFollowRows`.

**BackOffice_proofs** is about `OfficeSpec`: a step of the office is a step of
one component and leaves the others (`OfficeStepOf...`), so each component has an
invariant of its own, and `OfficeInvariance` has the ten together.

* *Fares* (`FInv`): a bill that was drafted or issued is that of the row as long
  as nothing moved; completing takes the extras in, and every reader takes them
  out again.
* *Registers* (`RInv`): a row's code was typed or is its own tombstone; what a
  clerk has checked is true or the row was written since; every open pairing has
  a clerk of its own who made it, and a clerk about to make another will close
  it. The bound on pairings is then a pigeonhole.
* *Requests* (`AInv`, `LimInv`): the effects of a key and the workers that may
  still cause one are together at most the workers; the first requests of the
  limiter's windows are a window apart, and twice the limit of consecutive
  requests contains two of them.
* *Pages* (`SInv`): a control somebody still intends is one that viewer's pages can
  offer; the tables of pages and services agree case by case.
* *Forms* (`FormInv`): the last question of a kind that is still open is about
  what is in the field; where none is open, what is shown is, unless its answer
  was a failure or the vehicle was chosen by hand.
* *Lists* (`LInv`): a row that is not tied has as many rows before it as its
  position; rows not shown yet lie behind the page, rows shown do not; counts are
  those of one read.
* *Live map* (`MInv`): rows come from stored posts, one point a time; a message is
  of a post of its own; a jump is flagged because what its post was judged
  against is in the table still.

Proving `JumpsAreFlagged` corrected the model's statement of it. With three
posts, two may be judged against different points of one instant, since
`recordLocation.ts` reads the newest row and several may be newest; the step from
the other one then goes unflagged. The run's two posts could not show it; the
exception is now part of `Unaware` in `LiveMap`.

Only model-checked: the liveness properties `HybridBookingsOpen` and
`CapturesAreRecorded` (fairness and ENABLED are beyond the prover), and the four
violations. The pure operators of the models are non-recursive; nothing is
claimed of recursive definitions.

## 6. Abstractions to keep in mind

* A transaction is atomic. Where the code relies on row locks inside one, the
  model takes the transaction as one step, in lock order. The exceptions, where
  what a transaction reads first and writes last matters, are the numbering and
  the upload in `Invoices` and the settlement in `Refunds`.
* Ids, prices and templates are model values; audit rows keep version, from, to
  and actor, not the full diff.
* The gateway makes one failed attempt and then possibly a capture per order.
  An order can be paid only when its row exists, since browsers learn it from
  the row.
* The amount and currency checks of `applyCaptured` always pass: an order is
  captured with the amount it was created with.
* In `Payments` a full refund is one step of the gateway and one of the program;
  its rows are `Refunds`.
* `TripScreens` takes each action of the server as one step; what happens inside
  is in the modules of the services.
* A list is a set of rows in places; what a search or filter leaves out is not
  in the set. A page of a list and its count are two reads.
* Space has one dimension in `LiveMap`; the property is about which pairs of
  points are compared, not about the globe.
* Supabase does what the code calls it for, at once, or not at all; its trigger
  runs with the insert, later or never.
* That a link below a layout does not render it again is the documented
  behaviour of the Next.js App Router, of which the repository holds only the
  uses (`AppSidebar.tsx:175`, `profile/account/page.tsx:51`). The model lets every
  page link to every page of its layout; what a router cache would answer without
  the server is left out, it shows what was answered before.

## 7. Plan

Done: the lifecycle, tracking, payments, refunds, outbox, invoices, requests,
screens, registers, fares, accounts, front door and dispatch are modelled and
checked; every safety property, the action properties and both refinements of the
runs are proved.

Left, in this order:

1. The death of a process between the insert of a CLAIM booking and its opening
   (`booking.service.ts:183`) has no property: the code has no answer to it (see
   the divergences of section 4), and what could be stated is only that somebody
   at the desk may assign the booking.
2. An abstract specification of a refund, as `TripStateMachine` is one of a
   booking: asked, decided, given back.
3. Several bookings of one payment batch in `liveness`, where strong fairness per
   order is what the batch of 25 must still justify.

## 8. Not modelled, and why

* Signatures, source addresses, tokens and the crons' bearer: stateless checks
  before a handler; models start with the actors they let through.
* Tenancy, beyond where its filter meets a global index: a filter on every
  query; the other models have one organisation.
* Redis' sliding window and the rate limits' wiring: a library's.
* Rendering, e-mail templates, PDF layout, geocoding, reports, dashboards,
  menus, themes: no state that outlives a request or a rendering.
* Avatars, locale and notification preferences: independent columns.
* Schema migrations, scripts and load tests: not part of the running program
  (the seed is where `DispatchPolicy` starts).

## 9. Running the checks

```
tlc -workers 2 -config BookingLifecycle.cfg MCBookingLifecycle.tla
tlc -workers 2 -config BackOffice.cfg MCBackOffice.tla
tlc -workers 2 -config BlankMeansAny.cfg DispatchPolicy.tla
tlapm BookingLifecycle_proofs.tla
tlapm BackOffice_proofs.tla
```

and likewise the other modules whose names end in `_proofs`.

`backOffice` takes about three minutes, every other run at most one or so. Run
names, modules, cfg files, mutants, the map from definitions to source lines,
the hazards and the theorems are in `PROJECT.json`.
