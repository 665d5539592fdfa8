# Verification of the distributed order processing system

TLA+ models, TLC runs and TLAPS proofs about the order saga of this repository:
`order-service` orchestrates, `inventory-service` and `payment-service` execute
commands, RabbitMQ carries commands and events, and each service owns a MySQL
database. All paths below are relative to the repository root, `src/`.

## 1. The system

### Components

| Component | State it keeps | Operations | Correct when |
|---|---|---|---|
| Saga orchestrator (`order-service/.../saga_orchestrator.go`, `saga_repository.go`) | `orders.status`; `saga_states.status`, `current_step`; `processed_events` | `StartSaga`; `HandleEvent` -> one of three `Commit*` transactions, then the publication of the next command; `RecoverInProgressSagas` at start and every 30 s, in every replica | the order's status is true of the other databases; a saga follows its diagram unless a commit acts on an outdated snapshot; every saga that follows it ends |
| `POST /orders` (`order_handler.go`) | - | insert order, insert saga, publish: three separate effects | no order without a saga |
| Inventory command handler (`inventory_command_handler.go`, `inventory_repository.go`, `inventory_log_repository.go`) | `inventories(available_qty, reserved_qty, version)`; `inventory_logs`, unique on `(order_id, action)` | `handleReserve` (log check, read, conditional UPDATE + log, retried up to `INVENTORY_RESERVE_MAX_RETRIES`), `handleRelease` (log check, UPDATE + log), `POST /inventory`, `PUT /inventory/:id` | `reserved_qty` is what the log says is held; stock is conserved and never oversold |
| Payment command handler (`payment_command_handler.go`, `payment_repository.go`) | `payments`, unique on `order_id`; `processed_events` | `handleProcess` (fast path, look-up, insert), `POST /payments` | one outcome per order, told alike by every answer |
| Consumer pool (`messaging/consumer.go`, one copy per service) | unacknowledged deliveries, work channel | receive, dispatch, ack, copy to the retry queue, dead-letter, requeue, reconnect | every delivery is settled once, none is lost |
| Publisher (`messaging/publisher.go`) | its channel | publish with confirm, three attempts | a confirmed message is in its queue |
| Retry policy (`shared/amqpretry`) | `x-retry-count` of a message | `Decide` | at most `RETRY_MAX_ATTEMPTS` retries, then the DLQ |
| Topology (`messaging/topology.go`), redrive (`scripts/redrive-dlq.sh`) | exchanges, queues, DLQs | `Setup` at the first start, routing, dead-lettering, redrive | a redriven message is handled again; a command published before its queue exists is sent again |
| MQ connection (`messaging/mq.go`) | connection under a mutex | dial, watch, `Channel` | consumers and publishers get a channel again; the process ends only over an outage |
| Start-up and shutdown (`cmd/main.go`) | - | start, SIGTERM, return of `main` | what a process held when it ended comes back |
| Sampler, admin, GETs, observability, configuration, deployment | - | read-only | - |

The consumer, publisher, topology and mq files of the three services are copies
of each other (the publishers differ in a comment), so each is modelled once.

### Interaction

`POST /orders` publishes `inventory.reserve`; inventory answers
`inventory.reserved`; the orchestrator commits the answer and publishes
`payment.process`; payment answers `payment.processed`; on success the order is
CONFIRMED, otherwise `inventory.release` is published and
`inventory.released` ends the saga. A database commit and the publication that
follows it are never atomic (no outbox): the recovery loop is the repair, it
re-publishes the command of a saga's current step with a **new** message id, so
the `processed_events` fast paths do not recognise the copy.

### What is hard

* Sixteen workers per process handle messages of the same order concurrently,
  in any order, more than once, and arbitrarily late.
* The orchestrator's state guard reads a transaction snapshot; its UPDATEs do
  not repeat the guard.
* Commit and publish are two steps; a crash, a lost connection or a failing
  call may fall between any two statements of a handler.
* Recovery runs by the clock, also while messages are on their way: it re-publishes
  commands that are still being handled, and acts on a list of sagas that may be
  stale by the time it publishes.
* The optimistic lock of inventory may be lost until its attempts run out.
* `handleRelease` checks neither that the order reserved nor that it was not
  charged: it relies on which release commands can exist.
* Errors are retried a bounded number of times, then dead-lettered: progress
  then rests on the recovery loop alone.
* A lost connection invalidates every delivery the process has in its stream,
  its work channel and its workers; they are delivered again while they are
  still handled, and settling them has no effect.
* The watcher redials with the write lock held while the distributor and the
  workers wait for a channel, the distributor may wait on a full work channel,
  and the broker waits for acknowledgements: nobody may wait for ever.
* Publishing does not set `mandatory`: the broker confirms and drops a command
  whose queue its consumer has not yet declared.

PROJECT.json lists these as hazards, each at its line.

## 2. Modules

```
Messages                     the broker as a saga sees it, settlement, faults, redrive
  +- Inventory               inventory-service: one step per database statement
  |    +- InventoryService   ... alone, under the most general caller
  |         +- MCInventoryService
  +- Payment                 payment-service
  +- Orchestrator            order-service
OrderSystem = Inventory + Payment + Orchestrator around the broker
  |    Contract == INSTANCE OrderContract (abstract specification)
  +- MCOrderSystem           values for TLC
  +- SagaHistory             remembers which sagas have left README's diagram
       +- OrderLiveness      fairness and liveness
            +- MCOrderLiveness

Connection                   the connection under its mutex, the publisher's attempts
  +- Consumer                distributor, work channel, workers, prefetch, process
       |    Promise == INSTANCE AtLeastOnce (abstract specification)
       +- MCConsumer

InventoryLemmas              proofs: broker and inventory keep their types; sums of
  |                          quantities, and what each step does to row and log
  +- InventoryServiceProofs  proofs: theorems of InventoryService
  +- OrderSystemCausality    proofs: types and causality, service by service
       +- OrderSystemProofs  proofs: invariants and refinement
            +- ProductProofs     proofs: products without a row, products sold out
            +- LifecycleProofs   proofs: sagas and their diagram (with SagaHistory)
ConsumerProofs               proofs: messages, outages and refinement of Consumer
  +- DeliveryProofs          proofs: where each delivery is
```

### How state and actions correspond to the code

* **Messages.** A message is `[key, order, ok, n, tries]`: routing key, the
  order its payload is about (product, quantity and amount are functions of the
  order), the `Success` flag of an event, the number that stands for the UUID
  of its publication (`Id(m)` is `message_id`) and `x-retry-count`. `queue` is a
  *set*: with sixteen workers per process, retry TTLs and redeliveries no order
  of delivery can be relied on. A worker that takes a message holds it in its
  own state until it settles it: `HandlerError` is `dispatchMsg` with
  `amqpretry.Decide`, `Requeue` is an unsettled delivery, `Abort` a handler cut
  short (a failing call or a crash) and `Duplicate` a second delivery of a message
  that is still held. `Redrive` is one message of `redrive-dlq.sh`, `RedriveDies`
  one that the script had taken off the queue and never published. `declared`
  holds the queues that `Setup` of their consumer has declared: a publication is
  `Routed` or dropped. `DeclaredBefore` are those of an earlier start (queues are
  durable); `OrderSystem!FirstStart` is the first start of another service, whose
  workers take nothing before it.
* **Inventory.** `iw[w].pc` is the statement a worker of the pool executes next:
  `TakeReserve` (`ExistsReserve`), `ReadInventory`/`ReadMissing`
  (`GetByProductID`), `ReserveAtomic`/`ReserveDuplicate`/`ReserveConflict` (the
  outcomes of the transaction), `InvReply`. `TakeRelease`, `ReleaseAtomic`,
  `ReleaseRefused`, `ReleaseFails` likewise. `CreateSKU` and
  `UpdateAvailableQty` are the REST requests; PUT does not bump `version`.
* **Payment.** `TakeProcess` (fast path), `LookupPayment`,
  `CreatePaymentWithEvent`/`CreateDuplicate`, `PayReply`; `CreatePayment` is
  `POST /payments`, which inserts a PENDING row.
* **Orchestrator.** `CreateOrder`, `StartSaga`, `StartSagaPublish` are one
  request; `RequestFails` lets it die in between. `TakeEvent` reads the snapshot
  and evaluates the guards of `Commit*`; the three `Commit*` actions write what
  the UPDATEs write, whatever is committed by then; `CommitDuplicate` is the
  rollback when the event id is already there; `PublishNext` follows the commit.
  `ListInProgress`, `ListCompensating`, `Republish`, `PassOver`, `RecoveryDone`
  and `RecoveryFails` are the recovery loop of each replica. InnoDB's default
  isolation, REPEATABLE READ, is assumed: neither the services nor the
  deployment change it.
* **SagaHistory** adds one history variable. `strayed` holds the orders whose saga
  has made a move that is no edge of README's diagram; it restricts nothing.
* **OrderLiveness** adds fairness, and the counter `hasty` of what `MaxDisturbed`
  bounds besides faults: recovery runs that start while messages are handled, and
  requests served before every service was started once.
* **Connection** is `mq.go` and the attempts of `publisher.go`. `watch` holds the
  lock from `Notice` (the close notification) until `DialSucceeds`; `Channel` is
  `HasChannel`, an error (`NoChannel`) or a wait (neither enabled). One attempt
  to publish is `Confirmed`, `Unsent` (no channel) or `Unconfirmed` (nack,
  timeout, a dropped channel or `ctx.Done()`: the message may be there or not).
  `left` counts the faults down by kind.
* **Consumer** is one process that answers commands, with its queue. A *copy* of
  a message is in `ready` or in `unacked`; a *delivery* is a copy with the number
  of the channel it came on, and moves from `stream` (the client library) through
  the distributor and `work` (the buffered channel) to a worker. `Settle` has an
  effect only while that channel is open; `Return` is the broker's requeue of what
  a closed channel held. `dist.pc` is `select`, `handoff` (the send on a full
  `work`), `reconnect` or `done`; `worker[w].pc` follows `dispatchMsg`: `handle`,
  `publish`, `retry` or `bury` (`PublishRaw` to the retry queue or the dead-letter
  queue), then `ack`, `requeue` or `reject`. What a worker does first depends on
  `recorded`, the messages that `processed_events` or the unique `inventory_logs`
  hold (`Begins`): inventory-service answers such a command again, payment-service
  acknowledges it *without an answer* (payment_command_handler.go:62-70). The
  commands of payment-service are in the constant `Silent`. A handler's later
  statements may fail with or without its record kept, the COMMIT included
  (`HandlerFails`), or collide with another delivery's insert (`HandlerCollides`).
  An attempt to reopen the channel fails for lack of a connection or because `Qos`
  or `Consume` fails on one that is up (`NotReopened`). `Dies` is every end of the process:
  `Crash`, `WatchPanics`, `DistributorPanics`, and `Exit`, the return of `main`
  some time after `Stop` (SIGTERM) cancelled the context of all handlers.
* **AtLeastOnce** is what a consumer promises: each message is answered or
  becomes a dead letter before it is forgotten. Of a `Silent` message it promises
  less: to be on record is enough, so the answer may be missing, and only a command
  that recovery re-publishes under a new id brings it. (`Liveness` has that part.)
* **OrderContract** is what the saga promises about the goods and the money of
  each order: stock is reserved once, the payment is decided once and only over
  held stock, stock is returned once and only when no charge can succeed.
  `stockOf` and `moneyOf` map the `inventory_logs` and `payments` rows to it.

Definitions that are *mutants* (commented as such) are plausible bugs; each
property of a passing run is violated when one of them replaces the definition
it follows.

### Abstractions

* Log lines, metrics, trace headers, bodies and JSON are left out; every service
  publishes bodies that parse, so `Permanent` errors do not occur.
* In the saga modules the three attempts of `Publisher.Publish` are one. A
  publication that reached the broker without its confirm is a `Duplicate` of the
  command (whose handler then errs or goes on) together with the answer. In
  `Consumer` the attempts are steps of their own.
* In the saga modules a process is not crashed as a whole: each held message may
  be cut short at each statement, which is the same state per message and allows
  more. That messages are only lost from a consumer in these ways, and are
  handled twice only after a fault, is what `Consumer` shows (`NothingLost`,
  `ExactlyOnce`).
* `Consumer` keeps no order in its buffers, and a copy in the retry queue is
  ready at once. A body that does not parse is a member of `Poison`, a kind of
  error the saga modules do without because the services publish none.
* `Consumer` assumes one thing about time: a goroutine that sleeps before its
  next attempt (half a second at least) does not find the *same* lost connection
  still unnoticed by the watcher, which only has to wake up
  (`NoChannel(seen)`). Without it, attempts could run out with no time passing.
* `initProducts` of inventory-service (the seeded stock) has run in the initial
  state; nothing reads it before that service's `FirstStart`.
* Message ids never collide.
* The redrive script moves one message at a time.

## 3. Runs

All bounds are CONSTANTS in the cfg. `MaxFaults` bounds injected faults,
`MaxRepublish` the commands of the recovery loops, `MaxPuts` operator requests,
`MaxCommands` the commands of the environment of `InventoryService`, `MaxDisturbed`
the faults, hasty recovery runs and hasty requests of `OrderLiveness` together. In the runs of
`Consumer` each kind of fault has its bound (`MaxDrop` lost connections, `MaxDial`
failed dials, `MaxConsume` failures of `Qos` or `Consume`, `MaxConfirm` lost confirmations, `MaxError` handler errors and
panics, `MaxCrash`, `MaxStop`), and `MaxAny` bounds all together.

| Run | Checks | Shows |
|---|---|---|
| `OneOrder` | `TypeOK`, `ChargedKeepsStock`, `ReleasedOnlyUnpaid`, `StatusIsTrue`, `PaymentAnswersAgree`, `Causality`, `ImplementsContract` | one order, two workers in every pool, a client's own payment, one fault anywhere, one re-published command |
| `Lifecycle` | `OrderMatchesSaga`, `SagaLifecycle`, `UnknownProductWaits` | with one event handled at a time, the saga follows README's diagram and `orders.status` agrees with it, through two faults, a retry and a re-published command; payment-service may be started for the first time at any moment; the order's product has no row until an operator creates it, and until then the order is neither rejected nor charged |
| `TwoOrders` | `NoOversell` | two orders never both get the last unit, with two replicas of `order-service` whose recovery loops list the same sagas |
| `Liveness` | `SagaEnds`, `DecidedIsSettled`, `StraysOnlyOnStaleSnapshot`, `DisagreesOnlyAstray` | two event workers and one disturbance: a fault, a recovery run amid messages, or a request before inventory-service and payment-service were ever started. Every saga that does not stray ends and its decided payment is confirmed or given back; a saga strays only through a commit on an outdated snapshot |
| `InventoryDuplicates` | `ServiceTypeOK`, `ReservedIsHeld`, `StockConserved`, `ReportedIsReserved`, `RejectedOnlyWhenShort` | row, log and answers agree under duplicated commands of two orders, three workers, a row that an operator creates and overwrites, and a fault; contention alone rejects nobody |
| `ConsumerFaults` | `ConsumerTypeOK`, `NothingLost`, `NoLeak`, `NeverStarved`, `ExactlyOnce`, `OutageIsMasked`, `DownOnlyAfterOutage`, `KeepsPromise` | payment-service: two workers, a command that parses and one that does not, any two faults: no message is forgotten unless it is answered, dead or on record, no delivery leaks, without a fault of delivery each is handled once, an outage shorter than the attempts costs no retry and does not end the process |
| `ConsumerDrains` | `QueueDrains` | inventory-service: after any two faults every message is dealt with and every delivery settled: nobody waits for ever |
| `RejectedLeak`, `ChargedFailed`, `ReleaseRace`, `LostOrder`, `StuckSaga` | one property each, violated | the findings of section 6 |

**Workers.** The code runs sixteen workers per pool. `OneOrder`, `ChargedFailed`,
`Liveness` and `StuckSaga` have two event workers; what two can do to one saga
(outdate each other's snapshot) more can do no worse, and the theorems hold for any
number. `Lifecycle`, `TwoOrders`, `RejectedLeak`, `ReleaseRace` and `LostOrder` have
one: for the last three that makes the finding stronger, `NoOversell` of `TwoOrders` is
proved for any number, and of `Lifecycle` the first two properties are
*conditional* on one event at a time: with two event workers they are false
(section 6), and `SagaHistory` says what is left of them. `Liveness` and `StuckSaga`
have one inventory and one payment worker.

**Why the bounds are enough.** The hazards are races of *two*: two workers on one
order, a command and its copy, a message and the fault that repeats it, two
orders on one row. One re-published command already yields two messages of each
following kind with different ids; one fault yields a copy with the same id.
`ReserveMaxRetries = 2` reaches lost locks and exhaustion with one competitor;
`InventoryDuplicates` gives a worker seven attempts, one more than the writes that
may come between (two by the commands of each order and two operator requests),
which is what `ContentionNeverRejects` asks for; the deployed value is 50.
`MaxRetries` is 0 (the first error dead-letters) except in `Lifecycle` and the
`Consumer` runs, where a message is retried once first.

In `ConsumerFaults` two workers with `Prefetch = 2` fill every stage (a delivery
in each worker, or one in `work` and one in the distributor after a
reconnection), and two faults give each pair of kinds: a second drop
while the first is redialed, a crash after a lost confirmation, a shutdown
during a handler. The attempts are scaled down (`DialAttempts`,
`PublishAttempts`, `ReopenAttempts` are 2 for 5, 3 and 5) so that two faults can
exhaust each of them; `ConsumerDrains` has one worker, which is what makes the
distributor wait at `handoff`, and one dial attempt, so that a drop and a
failed dial end the process.

`InventoryDuplicates` turns deadlock checking off because its environment stops
after `MaxCommands`, and the `Consumer` runs because the system stops when the
queue is empty; in the others the recovery loop ticks for ever. The runs
without liveness use the symmetry of the workers of a pool and of the replicas (`ConsumerFaults`
also that of the messages that parse); `Liveness` and `ConsumerDrains` use none.

**Fairness** (`OrderLiveness`). One `WF` on the goroutines of the pools and of the
recovery loops together (some goroutine that can take a step takes one; which, is not
assumed), and one on `FirstStart` (every service of the deployment is started some
day, in no particular order). That is less than the scheduler gives: the only thing
that can go on for ever is a recovery loop that ticks in a quiet system. Nothing is
assumed of clients, operators or faults. Recovery runs when it likes, messages in
flight or not, as `RecoverInProgressSagas` does at startup and by its ticker. Each
run may re-publish a command, so with a bounded `MaxRepublish` the runs that waste
one must be bounded too: `MaxDisturbed` counts those that start amid messages, and
it counts them together with the faults. `Liveness` has one such disturbance, of any
kind, which is where `MaxRepublish = 2` suffices. One fault *and* one hasty run
together are beyond an exhaustive liveness check (over four million states);
`StuckSaga` has them (`MaxDisturbed = 2`) and finds the saga that never ends. With
that saga strayed, `SagaEnds` says nothing of it: that an unstrayed saga always has
a step that recovery knows a command for follows from `DisagreesOnlyAstray`, which
is proved for any number of disturbances. A re-publication that is not routed is not
counted, for any number of ticks may pass before a service is first started.
A saga is what progress is promised for: an order whose request died before
`StartSaga` has none (section 6). `Consumer!Fairness`: the goroutines run (`WF` on
each worker, the distributor, the watcher, and the return of `main` after a
signal), the broker delivers and requeues, and a process that is down is started
again some time. The last is the operator's part: docker-compose gives no restart
policy, and without a new start a queue cannot drain. `Liveness` takes it for
granted in the fairness of its pools.

## 4. Proofs

TLAPS proves, for any number of orders, products, messages, workers, replicas,
retries, faults and re-publications:

| Module | Theorem | Statement |
|---|---|---|
| `OrderSystemProofs` | `TypeCorrect` | `Spec => []TypeOK` |
| | `CausalityHolds` | `Spec => []Causality` |
| | `ChargedStockIsKept` | `Spec => []ChargedKeepsStock` |
| | `ReleaseIsForTheUnpaid` | `Spec => []ReleasedOnlyUnpaid` |
| | `StatusCanBeTrusted` | `Spec => []StatusIsTrue` |
| | `AnswersAgree` | `Spec => []PaymentAnswersAgree` |
| | `ContractImplemented` | `Spec => ImplementsContract`, i.e. `OrderSystem` implements `OrderContract` |
| `ProductProofs` | `UnknownProductIsWaitedFor` | `Spec => []UnknownProductWaits` |
| | `NothingIsOversold` | `Spec => []NoOversell` |
| `LifecycleProofs` | `OrderStaysWithSaga` | `HistSpec => []DisagreesOnlyAstray` |
| | `SagaStraysOnlyOnStaleSnapshot` | `HistSpec => StraysOnlyOnStaleSnapshot` |
| `InventoryServiceProofs` | `ServiceTypes` | `Spec => []ServiceTypeOK` |
| | `ReportsAreTrue` | `Spec => []ReportedIsReserved` |
| | `ReservedIsWhatIsHeld` | `Spec => []ReservedIsHeld` |
| | `StockIsConserved` | `Spec => StockConserved` |
| | `ContentionNeverRejects` | with `EnoughAttempts`, `Spec => RejectedOnlyWhenShort` |
| `ConsumerProofs` | `ConsumerTypeCorrect` | `Spec => []ConsumerTypeOK` |
| | `NoMessageLost` | `Spec => []NothingLost` |
| | `PromiseKept` | `Spec => KeepsPromise`, i.e. `Consumer` implements `AtLeastOnce` |
| | `OutageEndsProcess` | `Spec => []DownOnlyAfterOutage` |
| | `ShortOutageIsMasked` | `Spec => []OutageIsMasked` |
| `DeliveryProofs` | `NoDeliveryLeaks` | `Spec => []NoLeak` |
| | `WorkersNeverStarve` | with `PrefetchCoversWorkers`, `Spec => []NeverStarved` |
| | `HandledExactlyOnce` | `Spec => []ExactlyOnce` |

They rest on the named assumptions about the constants only:
`MessagesAssumption`, `InventoryAssumption`, `PaymentAssumption`,
`OrchestratorAssumption`, `ConnectionAssumption`, `ConsumerAssumption`,
`NoDeliveryAssumption` (the empty hand of a worker is no delivery). Two
hypotheses are stated with the theorems that need them:

* `EnoughAttempts` (`ContentionNeverRejects`): finitely many orders, and more
  attempts than two per order of a product and the operator's requests. The
  deployed 50 attempts meet it for up to 24 orders that compete for a product and
  one request; beyond that the code promises nothing, and an order may be rejected
  for contention alone. `Orders` are all orders of
  a behaviour, so the theorem is about a burst of them.
* `PrefetchCoversWorkers` (`WorkersNeverStarve`): `consumerWorkers = 16`,
  `consumerPrefetch = 32` (consumer.go).

**The argument for the saga.** The inductive invariant is `IInv == TypeOK /\ Causality`.
`ChargedKeepsStock` and its like are not inductive: whether a release may hit a
charged order depends on which release commands exist, which depends on the
events that were handled, on the answers that caused those, on what each worker
remembers and on what a recovery loop listed some time ago. `Causality` says of
every one of these carriers that it claims no more than the database rows it was
derived from: a release command, wherever it waits, is for an order with a
`RESERVE` row whose payment is PENDING or FAILED; a positive answer of payment
is for a row that is SUCCESS; and so on. It survives duplication, reordering and
staleness because the facts it refers to are never undone: log rows are never
deleted and a payment row is never updated. `OrderSystemCausality` proves that
first (`Monotone` and the stability lemmas), so that what concerns the other
messages and workers in a step is one lemma, and then what each action newly
claims, one lemma per service; it begins with the type invariant. `OrderSystemProofs` puts them together and derives the
theorems; for the refinement, `InitInvariant` gives the initial state and every
step is `Reserve`, `Decide`, `Block`, `Return` or a stutter, where `Return`'s
guard is the part that needs `Causality`.

*Products.* `ProductsKnown` says that whoever has an answer of inventory, or acts
on one, concerns a product whose row exists: an answer, a rejection included,
comes only after the row was read, and rows are never deleted (`RowsStay`). The
saga of an order without a row has therefore not left its first step, and by
`Causality` its payment cannot have been decided.

*Sagas and their diagram.* `HistSpec` implies `Spec` (the history variable restricts
nothing), so `IInv` is at hand. `InStep` adds to `DisagreesOnlyAstray` what of a
worker's snapshot no other worker can outdate (`SeenPast`: a saga, once started, stays
started and does not go back to reserving), and that a request has a saga only after
committing one. A commit writes the order and the saga from its event, whatever they
are by then: what it writes agrees whenever the move is an edge (`CommitInStep`), and
the move is an edge whenever the guard still holds. The one case that needs
`SeenPast` is a failed release, which leaves `orders.status` as it finds it.

*The books.* `ReservedIsHeld` equates `reserved_qty` with a sum over the orders that
the log says hold stock. The sum is the number of units `<<o, n>>` of these orders
(`UnitsOf`, `Qty`), so that the library's facts about cardinalities apply and no
induction is needed: taking an order in adds its quantity (`QtyAdd`), a subset has
no more (`QtyMonotone`). `InventoryLemmas` says what each step does to the pair of
row and log (`ReservesMoves`, `ReleasesMoves`, `BooksStay`) once for both
specifications. The invariant adds `LogSound`: no order has a release
row without a reserve row. Nothing in `handleRelease` sees to that; it needs
`ReleaseBacked`, that a worker releases only what was reserved. In `OrderSystem`
this follows from `Causality`; `InventoryService` alone has it from its environment,
which commands no other release. So `GREATEST(reserved_qty - qty, 0)` never has to cut anything off,
which is `StockConserved`. `NoOversell` follows in `OrderSystem` from `Sales` (while
nobody overwrites the row it counts at most the seeded stock) and from `Causality`
(who is charged holds stock).

*Attempts.* `AttemptInv` is a balance: an attempt is lost only to a write that the
row's `version` or a PUT counts (`AttemptsPaid`), `VersionCounts` says that versions
count log rows, and the unique index allows two of these per order. A worker that
has lost `ReserveMaxRetries` attempts has met as many writes (`RejectionPaid`).

*Inventory alone.* `SIInv`: every positive answer, and every worker about to give
one, is in the log, which only grows. `ServiceTypes` includes `available_qty >= 0`:
the conditional UPDATE decrements what it compares in the same statement, so no
overwrite in between can take it below zero.

**The argument for the consumer.** `NothingLost` is not inductive: a worker that
acknowledges removes a copy. The invariant adds `Evidence`: it has an answer, a
dead letter, the record of a payment command, or a copy of the same message *with a higher retry count* to rest
on. The count matters: without it two workers that handle the same message twice
could rely on each other's copy and acknowledge both. `Holding` says that who is
at work holds a delivery and that a retry has retries left, `Finite` that the
broker's sets are finite, so that a number for a fresh copy exists. Refinement
then follows step by step: what a worker removes is answered, dead or, if `Silent`, on record
(`NothingLost'`), and a copy that comes back is of a message that was owed or
had been settled (`NothingLost`).

*Outages.* `Paid` is a balance: every failed attempt is paid for by a fault of its
own. A failed dial is one; so is a failed `Qos` or `Consume`; an attempt of the distributor, or of
`Publish`, that finds no channel has met a lost connection it had not seen before
(`UnseenDrop`, which is where the assumption about time is used); an unconfirmed one has lost a
confirmation. Whoever has run out of attempts has therefore met as many faults.

*Deliveries.* `NoLeak` is inductive only together with the rest of `DeliveryInv`: idle
hands are empty (`EmptyHands`), a delivery is in one place of the process
(`OnePlace`), a copy is at the broker once, ready or unacknowledged on one channel
(`OneCopy`, which is where the numbers of copies matter: a copy for the retry queue
is new), and no delivery is from a channel to come (`Numbered`, so that a channel
just opened starts with nothing outstanding). `NeverStarved` then counts: the
outstanding deliveries are what the other workers hold, at most one each, and
these are fewer than the prefetch.

*Exactly once.* While there was no fault of delivery, the system is `Calm`: one
channel, all deliveries of that channel. Only then does what a worker holds agree
with what the broker waits for (`CalmHeld`), so that a settlement always counts. `Trail`
follows one message: nothing is owed of it when it is answered or dead, otherwise
exactly one copy is, and a worker that answers, buries or re-queues it holds that
copy (`OwesOne`).

**What only TLC checks.** Liveness (`SagaEnds`, `DecidedIsSettled`, `QueueDrains`): it
rests on fairness and `ENABLED`, which are out of the prover's reach.
`OrderMatchesSaga` and `SagaLifecycle`, which hold only while one event is handled at
a time: what is true of sixteen workers is proved instead (`LifecycleProofs`). And the
findings: a run that violates a property is its own evidence. Every other property of
a run is the statement of a theorem.

## 5. Not modelled

* The sampler, the admin and GET endpoints, observability, configuration,
  the wiring of start-up and the database connection, demos, deployment, load
  tests: they change no state of the saga.
* More than one re-published command with two replicas of `order-service` (in a
  run; the theorems hold for any set of `Replicas` and any `MaxRepublish`).
* order-service's consumer in `Consumer`: its handler publishes the next command
  where the others publish an answer, by the same code, and skips an event on record
  as payment-service does its commands. In the saga modules it is modelled in full.
* Database failover and anything a committed transaction could lose.

## 6. Findings

* **`RejectedLeak`**: a rejected reservation is not recorded. A recovery run lists the
  saga, the rejection is committed and the saga ends FAILED, an operator adds stock,
  and the re-published reserve command finds no log row and reserves; nothing
  releases that stock. One inventory worker suffices.
* **`ChargedFailed`**: check-then-act, twice. Two copies of a reserve command pass
  `ExistsReserve` together; one takes the last unit and the other then reads too
  little in `GetByProductID`, so the order is answered "reserved" and "rejected". Two
  event workers that read the same snapshot both pass the state guard, and the order
  ends FAILED with its payment taken, without a fault. The second race lets a saga
  leave its diagram, which is why `Lifecycle` has one event worker and `Liveness` is
  about sagas that have not strayed.
* **`StuckSaga`**: an answer "reserved", committed on an outdated snapshot, moves
  `current_step` of a saga that has meanwhile ended or compensates back to
  PROCESSING_PAYMENT and leaves `status` alone. If the handler dies before it
  publishes, the event is on record and skipped when redelivered, and recovery does
  not list ended sagas and passes over such a step of a compensating one: the saga
  never ends. In the trace the customer was charged and the order, once CONFIRMED,
  stays INVENTORY_RESERVED.
* **`ReleaseRace`**: two concurrent release commands; the one that loses the unique
  index reports a failed release, and the saga ends FAILED (manual
  intervention) although the stock was given back.
* **`LostOrder`**: the order and its saga are two commits; a request that dies in
  between leaves a PENDING order that no recovery looks for.

One divergence has no run of its own, because a single step shows it (`Redrive`): a
dead letter carries the name of its dead-letter queue as routing key, under which
`scripts/redrive-dlq.sh` (line 32) publishes it, so that commands are routed nowhere
and events are skipped, while its header (lines 2-3) promises "their original routing
key".

## 7. Plan

Done: the modules of section 2, their runs and the theorems of section 4.

1. An abstract account of a product's stock (units free, held and gone) that
   `InventoryService` refines.
