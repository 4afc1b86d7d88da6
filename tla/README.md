# TLA+ models of the Vendure server core

This directory holds TLA+ modules for the parts of the server
(`packages/core`) whose correctness depends on sequences of operations, on
several processes, or on failures: the life of an order, its prices and its
payments, the stock that orders hold, whose cart is whose, sessions and their
cache, events of transactions, scheduled tasks, and the job queue kept in the
database. TLC checks them on small instances; TLAPS proves the most important properties for all
values of the constants. `PROJECT.json` lists components, runs, hazards and
theorems, and the source lines behind every definition.

Paths below are relative to `src/packages/core/src/` unless they start with
`src/`.

## 1. Inventory of the system

### Components modelled

**Orders** (`service/services/order.service.ts`,
`config/order/default-order-process.ts`, `service/helpers/order-modifier`).
State: the `Order` row (state, `active`, `orderPlacedAt`, lines, shipping
lines) and its `OrderModification`s. Operations: add and adjust items, set the
shipping method, state transitions, modification, cancellation. A transition
runs a *process*: a table of next states, `onTransitionStart` checks and
`onTransitionEnd` effects (placing, deactivating, allocating stock). Hard
about it: whether an order is placed, active and allocated is decided by
three strategies that look at the same transition and by four operations that
change lines later; operations that return an error result commit what they
had already written. Correct when these agree over any sequence of operations
and a placed order never becomes a cart again.

**Payments and refunds** (`service/services/payment.service.ts`,
`config/payment`, `config/refund`). State: `Payment` and `Refund` rows, each
with a state machine. Payment operations call back into the order: the
payment process asks for the order's next state and ignores a refusal. Hard:
payments that settle, fail or are cancelled at any time; refunds spread over
several payments; partial failure in the middle of a refund. Correct when the
checkout completes exactly with the covering payment, no payment is refunded
beyond its amount (and what was taken back from it), and money goes missing
only for a stated reason.

**Stock and fulfillment** (`service/services/stock-movement.service.ts`,
`stock-level.service.ts`, `fulfillment.service.ts`,
`config/catalog/multi-channel-stock-location-strategy.ts`,
`config/fulfillment/default-fulfillment-process.ts`,
`service/helpers/utils/order-utils.ts`). State: a `StockLevel` row
(on hand, allocated) per variant and location, a history of
`StockMovement`s per order line, and `Fulfillment`s. Orders call it when they
are placed, fulfilled, modified and cancelled; fulfillments call back into
the order's state. Hard: what is still allocated or fulfilled of a line is
recomputed from its history; lines of the same variant share one level;
an allocation may get less than it asks for. Correct when levels and movements
agree, what has to be fulfilled is allocated as far as there was stock, and an
order is Shipped or Delivered only in full.

**Job queue** (`job-queue/polling-job-queue-strategy.ts`, `job-queue/job.ts`,
`plugin/default-job-queue-plugin/sql-job-queue-strategy.ts`). State: a
`JobRecord` row per job, and in every worker process the list of active jobs
with `Job` objects of their own, the poll in progress, updates under way.
Hard: workers race for rows; progress updates are not awaited; cancellation
races completion; queries fail; workers shut down with a timeout, or die.
Correct when one worker has a job, outcomes are final, concurrency is
respected, and every job is settled at last.

**Scheduled tasks** (`scheduler/scheduler.service.ts`,
`plugin/default-scheduler-plugin`). State: a `ScheduledTaskRecord` per task,
whose `lockedAt` is the lock that all workers share; in each worker the cron
jobs, the polled manual triggers and `runningTasks`. Hard: workers fire at the
same time; a task may outlive its interval, and others call its lock stale; a
worker dies with the lock, or shuts down while running. Correct when one
worker runs the task at a time, and no lock is left for ever.

**Event bus and transactions** (`event-bus/event-bus.ts`,
`connection/transaction-subscriber.ts`, `transaction-wrapper.ts`,
`transactional-connection.ts`). State: the query runner of each request, with
the depth of its transactions, and the events that wait for it. Services call
`publish` inside transactions; subscribers run after the commit that the
subscriber of TypeORM reports. Hard: transactions within transactions
(savepoints), transactions started and ended by hand, errors that callers
catch. Correct when subscribers hear of exactly what was committed, and no
connection goes back to the pool in a transaction.

**Sessions and their cache** (`service/services/session.service.ts`,
`config/session-cache`). State: the `Session` row and its serialized copy in a
cache that may fail, be late or lose anything. Every request looks its
session up; setters, sign-outs and changes of roles write to both. Hard: a
slow write arrives after a deletion; a setter writes back an expiry that
another request has extended. Correct when what is served is at most
`sessionCacheTTL` old, and a session in use does not expire.

**Prices** (`service/helpers/order-calculator`, `entity/order-line`,
`entity/promotion`). State: the adjustments of each line, their sum per order,
coupon codes, surcharges. Every change of an order calculates all prices
again. Hard: discounts on discounts, distribution of an amount to the cent,
units cancelled from discounted lines, conditions that depend on the totals
they change. Correct when discounts are what the promotions gave, totals add
up, prices are not negative, and an unchanged order has unchanged prices.

**Active orders and sign-in** (`config/order/default-active-order-strategy.ts`,
`service/helpers/active-order`, `service/helpers/order-merger`,
`service/services/auth.service.ts`, `api/resolvers/shop/shop-order.resolver.ts`).
State: orders, the order each session refers to, and the session each request
under way was handed by the cache. Hard: a request acts on a session that
another request has changed meanwhile; at sign-in two orders become one, and
the other is deleted or, if it has payments, cancelled. Correct when a
customer has one cart, guests have their own, no session refers to what was
deleted, a placed order is left alone, and nothing in the carts is lost unless the shop
refuses it.

### How they interact

Shop mutations (`ActiveOrders`) find the order that `OrderPrices`,
`OrderPayments` and `StockControl` look at in detail, each by what it needs of
it. They run in a request's transaction (`EventBusTransactions`), with a
session from the cache (`SessionCache`), which in `ActiveOrders` is the session
row as it was when the request came. Subscribers of events add jobs
(`JobQueue`); the scheduler (`Scheduler`) adds the job that removes expired
sessions (`Expire` in `ActiveOrders`, `BeginChange("remove")` in
`SessionCache`). Data shared by models is abstracted differently in each, and
no module composes all of them: the composition would be out of TLC's reach.

### Components not modelled

| component | why |
|---|---|
| in-memory job queue | the same polling over the `Job` objects of one process, nothing is stored |
| job buffer | two statements each; the race of `flush` is plain from them (section 4) |
| caches other than the session cache | a cache may lose what it was given, and is modelled so by `SessionCache`; tags and self-refreshing caches are not |
| two requests for one order at the same time | nothing in the code keeps them apart under the default isolation, see section 6 |
| several stock locations, locations of other channels, order splitting by seller | loops over the steps modelled, with strategies of the shop's own |
| BullMQ and Pub/Sub queues, search engines, asset, e-mail and payment services | the protocol is in a service outside the repository |
| catalog, customers, API, configuration, CLI, user interfaces, docs | single transactions, I/O or clients; most of the repository's lines, generated types and translations included |

## 2. Modules

| module | what it is | composed with |
|---|---|---|
| `OrderStates` | states and transition tables of orders, payments, refunds, fulfillments | used by the two modules of orders |
| `Sums` | the sum of a function over a finite set (`summate`) | used by `OrderPayments`, `StockControl`, `OrderPrices`, `ActiveOrders` |
| `SumTheorems` | what such a sum is, for every finite set | extends `Sums` |
| `OrderPayments` | one order with payments, refunds, modifications | |
| `OrderPayments_proofs` | its types, placing, checkout, refunds | extends `OrderPayments`, `SumTheorems` |
| `StockControl` | one order's lines, fulfillments, and the stock of their variant | |
| `StockControl_proofs` | its invariant, the ledger, complete shipments, the cart | extends `StockControl`, `SumTheorems` |
| `JobLifecycle` | abstract specification of a job queue | implemented by `JobQueue` |
| `JobQueue` | workers polling the database queue | instance of `JobLifecycle` under a refinement mapping |
| `JobQueue_proofs` | exclusivity, finality of outcomes, places of a worker, and that `JobQueue` implements `JobLifecycle` | extends `JobQueue` |
| `Scheduler` | one scheduled task on several workers | |
| `EventBusTransactions` | transactions of requests and the events published in them | |
| `Background_proofs` | what no request waits for: exclusion of scheduled runs, how old a lock gets, events after the commit | extends `Scheduler`, `EventBusTransactions` |
| `SessionCache` | one session, its row and its copy in the cache | |
| `SessionCache_proofs` | its invariant, the two promises of the cache | extends `SessionCache` |
| `OrderPrices` | prices and discounts of one order | |
| `OrderPrices_proofs` | its invariant, that discounts are distributed in full, and that prices settle | extends `OrderPrices`, `SumTheorems` |
| `ActiveOrders` | orders, sessions and requests of a shop's clients, signing in and out | |
| `ActiveOrders_proofs` | its invariant, and what a merge keeps | extends `ActiveOrders`, `SumTheorems` |
| `MC_*` | instances for TLC: symmetry sets, values of constants | |

Definitions whose comment begins with "Faulty" or "Mutant of" are
altered copies of the definition they precede. They are used by nothing: they
are the plausible mistakes by which each property is shown to be violable.

### OrderPayments

One action is one API mutation, which the server runs in one database
transaction. A mutation that *throws* is rolled back: a disabled action. One
that *returns* an error result commits what it wrote before: `CancelOrder`
takes the lines off even if `Cancelled` is then refused; a refund whose state
machine refuses the handler's answer stays in the table. The callbacks of the
state machines are operators: `MayEnter` is `onTransitionStart`, `Entered` is
`onTransitionEnd`, `AfterPayment` is the payment process that moves the order
along. Handlers of payments are outside the code: every answer the state
machines know is possible, and an authorized amount may be part of what was
asked for. A refund is of any amount in `RefundAmounts`, which may be negative:
the API's `Money` has a sign, `createRefund` checks only that an amount is not
above what its payment has left, and a refund of a negative total makes more of
that payment refundable, even before it is paid in. A modification's refund is
of the amount the caller names, or of the decrease; of several refunds in one
input the model makes the first, as `RefundOrder` can make the others.

Abstracted: the quantities of all lines are one number, a unit costs 1,
shipping costs 1, no taxes and discounts; stock and fulfillments (a fulfilled
state is simply possible). `claimed` counts the units for which an allocation
was requested and not taken back, which is what the order side of stock
control amounts to.

### StockControl

All lines hold the same variant (they differ in custom fields), because that
is where lines interact; with different variants they do not. Movements are
added up per line, which is all the code looks at. The locations are found by
the default `MultiChannelStockLocationStrategy`, of which there is one, of the
active channel: `Granted` is its `forAllocation`, which gives an allocation
no more than is available at a level that is read once per request, so that
every row finds the same; `Located` is `getLocationsBasedOnAllocations`, which
caps sales, releases and cancellations by the allocations of the line; and
`Recorded` is the quantity written into these movements (no cap). `missing`
counts what allocations did not get, and what cancellations gave back beyond
the units they cancelled; no action looks at it.

The rows of a fulfillment or a cancellation may name a line once more: a row
of `units` comes first, one of `again` second, and which of the two the code
looks at differs (`CreateFulfillment`, `Undo`, `CancelLines`). Rows of zero or
a negative number of units are left out, as are fulfillments of orders that
were not placed, `orderItemsLimit`, and modifications of several lines
at once. Payments are in order throughout: `Place` is the settling payment.
Assumed: inventory is tracked, the `StockLevel` row exists; one transaction at
a time.

### JobQueue

Every query of the strategy is a step of its own, except that `next` reads
and marks a row in one (the code locks the row: `TakeNext`). `next` resolves
with the job before its transaction is committed, and rejecting the promise
afterwards has no effect: when the commit fails the worker goes on with a job
whose row still waits (`TakeNextUncommitted`), and another worker, or the same
one, takes the row again. `uncommitted` remembers such jobs until somebody
takes them whom nobody else competes with. Since a worker may so have two `Job`
objects of one row, what a worker does is kept by object (`Objects`: the job,
and one of the worker's places). `pc[w][o]` follows
`runNextJobs` for an object in `activeJobs`: `claimed` (before the `update` after
`next`), `processing`, `ended` (before `onFailOrComplete` has stored the
outcome), `leaked` (a failed `update` left it there for ever). `budget` is what
is left of the `for` loop of a poll, computed once at its start, as in the
code. `copy` are the contents of the objects, `reports` the progress updates
that were sent without being awaited, `orphans` the process functions that
run on after `STOP_SIGNAL` won the race. Rows are numbered by `createdAt`.
The backoff is a choice: a retried job may be passed over.

`JobLifecycle` is what callers rely on: jobs have a state and are held by at
most one worker; a waiting job is claimed only if nobody holds it, or if an
earlier claim was lost (`LoseClaim`); letting go of it stores its outcome
unless it was settled before. Under the refinement mapping the state is the
row's, the holders are the workers that have it in `activeJobs`, and the lost
claims are those that were not committed. `LoseClaim` and `Overtake` are in the
abstract queue because the code does them: a late progress update, or the
first update of a claim that was not committed, marks a waiting job as running.

### Scheduler

Every query is a step. `pc` of a run (of a worker, for its cron job or a manual
trigger) follows `executeTask`: `fetch` and `clear` are StaleTaskService,
`take` is the update with `lockedAt IS NULL`, `executing` the race with the
timeout, then the outcome is stored and the task taken off `runningTasks`.
Time is a counter, and `Prompt` says what does not take long: queries, timers,
and a task beyond its timeout. Of `lastExecutedAt` the model keeps whether it
is after the last scheduled time. As in the code, a stored outcome and a
shutdown give back the lock by task, whoever has it; a task that timed out
goes on unobserved; neither the cron job nor the poll for triggers waits for
the task, so that the runs of one worker overlap (`Slots`, `MaxRuns`) when the
task takes longer than its interval, and nothing relates the timeout of a task
(60 seconds by default) to its schedule. `overran` records that a lock was
cleared as stale while a run was busy. A trigger taken while the lock is held is lost, and two
workers may see the same trigger; `preventOverlap` has no effect, since the
callback of the cron job returns at once. Assumed: the row exists. Left out:
reports, `lastResult`.

### EventBusTransactions

A request has one query runner; `depth` is TypeORM's count of transactions,
savepoints included, and a row is withdrawn when the savepoint it was saved
after is rolled back to. `Commit` and `Rollback` do nothing without an active
transaction, as TransactionWrapper asks first; a commit that fails ends like a
rollback. `Heard` is `awaitCommit`: the next outcome of the same query runner
after which no transaction is active. Left out: retries (`retryWhen` subscribes
again to a promise that has already failed, so that nothing runs twice), a
second query runner after release, inner transactions in parallel.

### SessionCache

`pc[r]` follows `getSessionFromToken` and then one of the setters. Any write
may reach the cache late (`withTimeout` stops waiting for it), or never; any
lookup may fail. `change` is an open transaction that saves roles or removes
the session; the cache is told before it commits. Row locks are the guards on
`change`. Of the data, only a version is modelled. Setters commit at once.

### OrderPrices

One action is one operation followed by what it does to prices;
`ApplyPriceAdjustments` is the whole of `OrderCalculator` for an order without
tax, with each loop over lines or promotions as a function of how far it has
come (`LinePromotions`, `ItemPromotions`, `OrderPromotions`), since their order
matters. Money is rounded where the code rounds; the fractions in between are
exact. `given` and `raised` are history: what order actions took off, and
lines that were given more units than were placed.

### ActiveOrders

A request first gets a copy of its session (`Receive`), then does one thing and
ends; others go on in between, so that the copy is stale. What a request does
is one step: its transaction. `Refer` is what ActiveOrderService and
DefaultActiveOrderStrategy do to the session on the way. `SignIn` is the
deletion of sessions, the merge and the new session together. There is one
customer who can sign in, since two of them only share what guests share.

At a merge `LinesToMerge` are the lines whose quantity the guest's is to replace,
and `Answers` what the rest of the shop says to them: how much of each is
saleable, which an interceptor refuses, and in which order they are asked.
`Refused` are the lines that `addItemsToOrder` and `adjustOrderLines` do not take,
for the order's state, `orderItemsLimit` with the lines as they are by then
(`OverItemsLimit`), or an interceptor; the others are cut to what is saleable
(`MergedLines`): to nothing for an insertion, and for a modification, which
removes the customer's own line. A variant that was deleted or disabled since
makes `addItemsToOrder` throw, which is `Fail`. A request adds one unit; custom
fields and with them two lines of one variant, `adjustOrderLine`, strategies
other than MergeOrdersStrategy, assignments by administrators, and the
registration of a guest's customer are left out.

## 3. Runs

| run | question | bounds | result |
|---|---|---|---|
| `OrderPayments_lifecycle` | do placed, active and allocated agree, is placing final, does the covering payment complete the checkout, are refunds within payments, is an order underpaid only for a reason | 1 item, 2 payments, 2 refunds of 2 or -1, 1 modification | holds, 1 302 000 states |
| `StockControl_lines` | ledger, allocation of what is left to fulfill, cart, complete shipments | 2 lines of 2, stock 2 which adjustments may take away, 2 fulfillments with 1 unit named again, 2 units allocated per line | holds, 552 000 states |
| `JobQueue_exclusive` | one worker per job, outcomes final, abstract queue implemented | 1 job, 2 workers, 1 retry, all events | holds, 490 000 states |
| `JobQueue_settle` | is every job settled, within the concurrency | 2 jobs, 2 workers, 1 retry, fairness | holds, 35 000 states |
| `Scheduler_lock` | one run at a time, no lock left | 2 workers, 3 runs at a time, interval 1, timeout 3, time 4, 1 crash or shutdown | holds, 3 100 000 states |
| `Scheduler_once` | is a task run once per scheduled time | 2 workers | **violated** |
| `EventBusTransactions_delivery` | events after the commit, all of them, nothing left open | 2 requests, 3 events, fairness | holds |
| `SessionCache_recent` | is what is served recent, is a used session extended | 2 requests, duration 6, TTL 1, time 6, 2 versions, 1 late write | holds |
| `OrderPrices_prices` | distribution, totals, negative prices, stability | 2 lines of 2, prices 5 and 8, 4 promotions, surcharges -6 and 9 | holds |
| `OrderPrices_settled` | stability with conditional promotions of lines | the same | **violated** |
| `ActiveOrders_cart` | one cart, guests' carts, deleted and placed orders, merging | 2 sessions, 2 requests, 2 variants, 2 orders, 2 units in an order and in a line | holds, 896 000 states |
| `ActiveOrders_merged` | merging whatever the state of the customer's order | the same | **violated** |

**Why the bounds are enough.** Two payments are what it takes to spread a
refund, to pay in part, and to lose one payment of two; two refunds to have a
pending one beside another, and to refund what a negative one, that then fails,
had made refundable; one modification to pass through both after-sales
states. What depends on the number of items is also proved without bounds. In
`StockControl` two lines share a level, and two fulfillments can split a line,
be cancelled and follow each other; with stock taken away before an order is
placed, or before a fulfillment is cancelled, allocations are cut; one unit
named again over-fulfills a line and makes its allocation negative. In
`JobQueue` a race needs two workers and one job
(that a worker with several places holds a job twice is in the theorems only);
exceeding a worker's places needs a job more than those; one retry separates
the first, the repeated and the last attempt. `Scheduler` gets to the third
scheduled time, when a lock of the first is stale; the timeout is longer than
the interval, so that a lock is cleared under the run that has it, and three
runs are one that has the lock and two that clear it. The theorems are about
any timeout. Three events in two requests meet
before, inside and after an inner transaction. In `SessionCache` the duration
is long enough for half of it to be more than the TTL, and two requests are a
setter against an extension. The prices and promotions of `OrderPrices` are
chosen so that shares do not come out even, minima are crossed by discounts,
and a discount can exceed a line. Two orders are a guest's and a customer's;
numbers of deleted orders are not used again, so that a run has two orders in
all; two requests are one that changes what the other was handed. With two units
in an order, lines are refused by the limit, cut by stock, inserted and changed;
each excuse in `SignInKeepsBoth`, taken out, has a counterexample. Bounds
are on the counters named as CONSTANTS only.

**Deadlock.** A cancelled order is final, bounded time runs out and requests
end, so the runs of orders, prices, stock, events and the session cache allow
the system to stop. The job queue polls for ever, the scheduler can always be
enabled or disabled, and clients can always come back (`ActiveOrders`): their
runs check that the system never gets stuck.

**Fairness** (`FairSpec`). The poll timer is set again after each poll (weak
fairness of `Poll`), awaited queries return (`NothingNext`, `Launch`,
`StoreOutcome`, `StoreReport`), process functions end (`Outcome`, stated of
each job; a process that never ends would hold its place for ever), a shutdown
completes and the worker is started again by whoever runs it (`Stopped`,
`Exit`, `Restart`). Strong fairness of taking a job says that the backoff of a
retried job elapses while polls go on: `next` looks at the waiting rows at
each poll. Nothing is assumed of callers, failures, crashes or the shutdown
timeout. `JobsSettle` excludes crashes, failing queries, shutdowns and
progress reports (`Events = {}`): after a crash or a failed update a row
stays RUNNING for ever, a deferred job starts again with no attempts, and
a late report can leave a retried job RUNNING (section 4).
`EventBusTransactions` assumes that timers fire (`Deliver`), not that
requests end.

## 4. Where code and documentation disagree

Three are runs that TLC ends with a counterexample:

- **Scheduled tasks may run twice for one scheduled time** (`Scheduler_once`):
  the lock is given back when the task is done
  (`default-scheduler-strategy.ts:112`), and a worker whose timer fires, or
  whose query comes, after that finds none. The documentation promises "a
  single time per scheduled execution".
- **Prices of an unchanged order change** (`OrderPrices_settled`): promotions
  of lines are tested on totals that still contain the discounts of the last
  calculation (`order-calculator.ts:198`), although "all promotions must be
  revalidated".
- **A guest's items are lost at sign-in** (`ActiveOrders_merged`) when the
  customer's order is in ArrangingPayment: the guest's order is deleted first,
  then its lines are refused, and the errors ignored
  (`order.service.ts:1937`).

Others were seen in these models and are described only:

- Cancelling from ArrangingAdditionalPayment skips the check that all items
  are cancelled (`default-order-process.ts:283`), and with it the release of
  stock.
- Manual payments are refused by an assertion (`order.service.ts:1448`) once
  the amount due is not the sum of the unsettled modifications, for example
  after an earlier payment was cancelled.
- A payment that settles while its order is back in AddingItems does not place
  it (`default-payment-process.ts:82`).
- Partial cancellation of a partly fulfilled line returns and releases the
  same units (`order-modifier.ts:303`): cancelling one makes two saleable.
- A line that two rows of a fulfillment name is fulfilled, and sold, beyond its
  quantity: each row is compared with what is left as if it were the only one
  (`order.service.ts:1571`). Cancelling that fulfillment returns the first row
  to stock (`stock-movement.service.ts:276`) and allocates both
  (`default-fulfillment-process.ts:99`). A cancellation that names a line twice
  gives back the first row, and takes the second off the line
  (`order-modifier.ts:332`).
- Units of a placed order may be allocated to nobody, and nothing says so: an
  allocation is cut to what is available
  (`multi-channel-stock-location-strategy.ts:123`).
- Lines of one variant are checked against the stock one at a time on the way
  to payment and on fulfillment, so that stock on hand may become negative
  (`default-order-process.ts:332`, `order.service.ts:1607`); cancelling a
  fulfillment of a cancelled order allocates its units again
  (`default-fulfillment-process.ts:100`); an order whose lines were all
  cancelled counts as entirely shipped (`order-utils.ts:103`).
- Two workers process one job after a commit of `next` failed
  (`sql-job-queue-strategy.ts:110`, against `:101`): the promise is resolved
  inside the transaction.
- A stopped queue takes one more job if its poll was waiting for `next`
  (`polling-job-queue-strategy.ts:102`); a job forced to stop at the shutdown
  timeout goes on running while another worker starts it again (`:198`); a
  retried job that reported progress can be marked RUNNING by the late update
  (`:106`), and is then never retried.
- A task whose timeout is longer than its interval is run by two workers at
  once (`stale-task.service.ts:95`, against `scheduler-strategy.ts:32`): its
  lock is stale after one interval, even if the task goes on; and the run whose
  lock was cleared gives back the lock of the next (`OneRunAtATime` without its
  second condition is violated).
- An event is delivered after the outermost commit although its row was
  rolled back to a savepoint before (`event-bus.ts:326`, against `:127`);
  duplicators and the deletion of an order at sign-in use savepoints.
- Raising the quantity of a discounted line above what was placed can make its
  price negative (`order-line.entity.ts:426`, against `:351`); a surcharge
  counts in the subtotal of a discount but is given no share of it.
- A session extended after half its duration is in use for at most half of it
  less the TTL before it is certain to be extended again: a client that comes
  back later may find it expired.
- In AddingItems, too, a guest's lines are lost when both orders have more units
  than `orderItemsLimit`, when the variant is not saleable or when an interceptor
  refuses them (`order.service.ts:1935`, against `merge-orders-strategy.ts:9`);
  and a line of the customer's own order is removed when the guest brings another
  quantity of a variant that has sold out (`:821`). `SignInKeepsBoth` states these as
  its conditions.
- A guest order that already has a customer is not merged at sign-in, and no
  session refers to it any more; `setCustomerForOrder` of a guest, under way
  while the guest signs in, takes the order away from the customer again.
- `flush` of the job buffer selects rows, then deletes all of them, in two
  statements: a job added in between is lost
  (`sql-job-buffer-storage-strategy.ts:70`).

## 5. What is proved

TLAPS proves these for all values of the constants under `BoundsAssumption`,
`ConstantsAssumption` and `TXAssumption`, which only say that bounds are natural
numbers, the lines of an order and the variants finitely many, and the
concurrency positive. One theorem has a hypothesis of its own, given below.

**Sums.** The levels, totals and amounts of orders are sums over finite sets,
which the library folds with a recursive function. `SumTheorems` proves that
the function exists and that it does not matter which element is added first,
and from these what proofs cite (`SumInsert`, `SumUpdate`, `SumAdd`,
`SumMonotone`, `SumNatural`...). An induction principle that takes a property as
an operator cannot be used, but one that takes the *set* of those that have it
can: `SubsetInduction`, `ElementInduction` and, for numbers, `NumberInduction`.

- `PlacedTogether`, `PlacedForever` (`OrderPayments_proofs`). The property
  alone is inductive but for two things, which `Consistent` adds: the order's
  type, and that no order is left in `Created`. Every action changes
  the order by one of `Entered`, `Recharged`, `WithUnits` and `WithoutUnits`;
  one lemma for each says that it keeps a consistent order consistent and
  a placed order placed. `Entered` is the interesting one: the
  transition table, the placing strategy and the allocation strategy meet
  there.
- `PaymentTypes`, `CoveredMeansSettled`, `NeverUnderpaidByItself`, of any number
  of payments, refunds and modifications. `PaymentsInv` is `Consistent` with the
  types; that an amount may be negative, and a refund be of a payment that is
  there, is what makes it inductive. The amount due is a sum over payments and
  their refunds; one lemma for each operation says which of its terms the operation changes: settling adds a payment that covers,
  a lost payment or a settled refund takes one away, and everything else leaves
  the sum alone.
- `RefundsStayWithin`: the refunds of a payment that have not failed exceed
  it at most by what failed refunds of a negative total had made refundable
  again. A refund may be spread over several payments, each answered by its
  handler, and a failed answer is a gap that the next payment fills:
  `CreatedWithin` follows the loop of `createRefund` along the payments it
  takes, each of them once and no more than it has left. What is left counts
  failed refunds of either sign as nothing, `Refunded` only the positive ones
  (`RefundedBelowTotal`), which is what makes the property survive the
  failure of a negative refund (`RefundMovesDown`). There is no hypothesis on
  payments: after a modification has made an order cheaper,
  `addManualPaymentToOrder` creates one of the negative amount due
  (`order.service.ts:1443`), which can be refunded nothing, but lowers
  `refundMax` and so may turn a refund of another payment negative
  (`payment.service.ts:315`). That refunds can exceed the payment at all is not
  what a reader of `RefundAmountError` expects: with a payment of 1, a refund of
  -1 makes 2 refundable; when it fails after the 2 were refunded, nothing
  brings the 1 back.
- `StockTypes`, `LevelIsTheLedger`, `LeftToFulfillIsAllocated`,
  `ShippedMeansInFull`, `CartStaysSaleable` (`StockControl_proofs`), for any
  number of lines, fulfillments, units and rows that name a line again. `StockInv`
  says that after the checkout every unit of a line was allocated at some time,
  and those not fulfilled still are, but for what is `missing` and what rows named
  again (`LineBacked`), that no row of a fulfillment has more of a line than
  was ever allocated to it or is missing (`RowsBacked`), and that the level is the
  sum of the movements while nothing is missing (`Ledger`): only then does the
  cap of `Located` not cut what `Recorded` writes down. What a cut allocation
  gets and what it lacks add up to what was asked for (`GrantedAndCut`), and an
  allocation, a sale, a return and a release have a lemma each on movements and
  level together. The
  states the code looks at and the quantities it looks at are put together by
  `AllItemsInFull`.
- `QueueTyped`, `OneWorkerHolds`, `SettledForever` (`JobQueue_proofs`).
  That no two workers have a job does not follow from itself: a row could be
  made to wait while somebody holds it. `Consistent` says that a held job does not
  wait unless its claim was not committed, that no object a worker or a report
  may still store before the outcome
  waits (`RunningOK`), that an outcome is fit to be stored or the row is
  settled, that rows are settled when they say so, and that a poll claims one
  job at a time. One lemma per action keeps it.
- `WithinConcurrency` (`JobQueue_proofs`). A poll counts the free places
  once, before its awaits. `PlacesOK` says why that is enough: the places taken
  and the iterations left of the poll together never exceed the concurrency,
  but for the job just taken, which still has its iteration.
- `QueueImplementsLifecycle` (`JobQueue_proofs`). With the invariant, and
  `ReportsExist` (only jobs there are are reported on), each step is a step of
  the abstract queue or leaves it alone: one lemma per kind of step, over
  lemmas on what taking and letting go of an object does to the holders.

- `SchedulerTyped`, `OneRunHolds` (`Background_proofs`), for any timeout and
  interval. Exclusion does not follow from itself: a lock is cleared by whoever
  once judged it stale. `LockInv` says that, until a lock is cleared under a
  busy run, a busy run has the lock, no older than its timeout, that a run about
  to clear a lock has seen one older than the interval, and that one run is
  busy; so the lock it clears is that of a busy run only if the timeout is longer
  than the interval.
- `NoLockForever` (`Background_proofs`), for any timeout and interval. A lock is
  left behind by a crash or a shutdown, or by a task that goes on, and cleared
  by the next run that fetches it when it is stale; but that run may crash as
  well. `ClearedInTime` says by when: a lock that no busy run holds, if the
  timeout does not exceed the interval, was left by a failure
  (`HeldUnlessFailed`), the next timer of a worker finds it stale, and each
  further failure costs one more interval at most.
- `TransactionsTyped`, `SeenAfterCommitHolds`, `NothingIsLeftOpen`
  (`Background_proofs`), for any number of requests and events.
  `TransactionInv` says how deep the transaction of a request is, by where its
  code is, that a waiting event has an active transaction and a row that is
  not yet saved, and that a request that is done has released its
  query runner.
- `ServedIsRecentHolds`, `InUseIsExtendedHolds`, `SessionTyped`
  (`SessionCache_proofs`), for any latency, whereas the run has calls that
  take no time. `RecentInv` dates everything back to the reading of the row it
  came from: `EntryOK` says that an entry of the cache, or on its way there,
  becomes stale no later than TTL and latency after its data was replaced;
  `Backs` that the row still has the expiry date it had when it was read, or a later
  one, unless a setter saved it since. `RowStep` is what every step does to
  the row, and `StepKeeps` leaves to each action only what it changes.
- `OneCart`, `GuestsApart`, `NoneDangles`, `PlacedForGood`, `NothingIsLost`,
  `CartsTyped` (`ActiveOrders_proofs`). The properties do not follow from themselves:
  a session is read when a request comes and used later, so `CartInv` adds what
  stays true of the copy (its kind, as long as the session is there), that an
  order has a customer once it is in `ArrangingPayment`, so that a guest's cart
  without one was not placed, and that no order is there before its number.
  Six mutations of the shop are then one kind of step, `ShopStep`: one order that
  the request can reach may change or be created, and its session may refer to
  it. Signing in has lemmas of its own, on which orders `Merge` leaves
  and deletes, and what `Reconciled` makes of them and their lines. What
  the shop answered is not in the state, so `NothingIsLost` is said of every answer
  that explains the step. That the limit refuses no line of two orders that
  fit into one is `FitsTogether`: whatever was merged before, a line has at most
  the units it had in either. `MergeKeeps` follows a variant from there
  into the cart.

- `PricesTyped`, `SubTotalIsSum`, `PricesNotNegative`, `DiscountOnLines`,
  `PricesAreSettled` (`OrderPrices_proofs`), for any lines, prices, promotions
  and surcharges. The run has two lines and four promotions; what could go wrong
  is arithmetic, of which it sees a few numbers.
  - The three loops of the calculation are functions that are defined by what
    they are one step earlier. `StepsExist` shows once that such a function
    exists, and `LinePromotionsAre`, `ItemPromotionsAre` and
    `OrderPromotionsAre` follow each loop with the set of orders it stays in
    (`LineOrders`, `ItemOrders`, `DiscountOrders`).
  - Prices are not negative because `Worth`, what the units that share the
    adjustments cost less these, is not: `Limited` takes no more than the prorated
    price, and rounding a part of something leaves it between nothing and
    all of it (`RoundPart`). Placing and cancelling leave `Units` alone
    (`SameUnits`), unless a modification raised the line.
  - Discounts are distributed in full because `prorate` loses nothing:
    what rounding down leaves over is between 0 and the number of lines
    (`MissingIs`), the order of the errors is strict (`SoonerIsOrder`), so
    that exactly as many lines are among the first (`FirstOnes`), each of which
    gets one. And `addAdjustment` cuts nothing off, because no share is more than
    its line (`ShareWithinLine`). This needs the hypothesis
    `PercentagesAreParts`, that no percentage of an order promotion is above 100.
    The argument is a plain number that nothing limits
    (`order-percentage-discount-action.ts:8`); with 120, the shares pass the
    prices of the lines, and what is above them is dropped.
  - Prices settle because a line is cleared first and then discounted by what
    it has itself (`SameLineApplied`), so that two orders that differ only in
    adjustments are calculated alike (`SamePrices`). A condition breaks
    this, as `OrderPrices_settled` shows, since it looks at the totals.

  `PricesInv` joins these with what an operation relies on: lines that are not in
  the order have no units and no adjustments (`Clean`), and before an
  order is placed no line has placed units.

Hypothesis of a single theorem: `DiscountOnLines` (percentages).

Only model-checked: `JobsSettle` and `CommittedIsDelivered`, which are
liveness under fairness and need `ENABLED`, out of the prover's reach. Every
other property of a passing run is that of a theorem. Theorems that take an operator
as a parameter cannot be used, so that each recursive definition needs an
induction of its own; what `RefundedAfter`, `SumOf` and the three loops of
`OrderPrices` compute is proved in this way.

## 6. Not modelled

- **Two mutations of one order at the same time.** Under READ COMMITTED, the
  default of the databases supported, nothing keeps them apart: two payments
  may both ask for the whole amount (`order.service.ts:1373`), two refunds
  find the same payment refundable, two orders pass the stock check before
  either allocates, updates of a `StockLevel` get lost
  (`stock-level.service.ts:134`), two first requests create two orders. None
  of the invariants above holds of such a model, and one that restated the
  races would show nothing else; the models take transactions one at a time
  instead, which is what SERIALIZABLE gives.
- **SQLite's `next`**, which has no lock (`sql-job-queue-strategy.ts:95`), and
  `removeSettledJobs`.
- **Retries of transactions** (`transaction-wrapper.ts:50`) and blocking event
  handlers, for the reasons of section 2.
- **Taxes, shipping prices, currencies**: `OrderPrices` has none, and
  so does not see the rounding of gross and net prices.
- **Search, catalog, plugins, user interfaces**: section 1.

Worth adding next: a composition of `OrderPayments` and `StockControl` in which
`claimed` is what the lines really have allocated; the other merge strategies.
