# Formal model of the order and payment services

TLA+ modules for the three services of this repository, TLC configurations that check
them on small instances, and TLAPS proofs of what matters most for every instance.
File references are relative to the repository root; line references are in
`PROJECT.json` (`map`).

## 1. The system

| part | code | state it keeps | operations |
|---|---|---|---|
| order service | `internal/order/{usecase,repository,transport/http,domain}` | table `orders` (unique index on `idempotency_key`) | `Create` (with `resumeExistingOrder`, `reconcilePayment`), `Cancel`, reads, revenue |
| payment clients | `internal/order/paymentclient/{grpc,http}`, `internal/platform/grpcx/client.go` | the attempts of one call, its deadline | `Authorize`: over gRPC up to 3 attempts, retried on `Unavailable`; over HTTP one |
| payment service | `internal/payment/...` | table `payments` (primary key `order_id`) | `Authorize` over gRPC (`ProcessPayment`) and HTTP (`POST /payments`), reads, `ListPayments` |
| message bus | `internal/platform/messagebus/nats.go` | stream `PAYMENTS` with a 24 h duplicate window, the durable consumer | `publish`, the consumer loop with Ack, Nak and dead letters |
| notification service | `internal/notification/...` | table `processed_messages` | `HandlePaymentCompleted` |
| update stream | `internal/order/stream`, `internal/order/transport/grpc`, migration 0003 | the listener's connection, the broker's map of channels (one update each) | `Subscribe`, `Publish`, reconnection with snapshots, `SubscribeToOrderUpdates` |
| console | `order/src` | the browser's store | create, look up, cancel, revenue, payments |
| migrations | `internal/platform/migrate` | table `schema_migrations`, the schema | `Run`, at every start of a service |
| metrics | `internal/platform/metrics` | counters and histograms, one lock each | `Add`, `Observe`, `Handler` |
| process | `cmd/*/main.go` | what is accepted and not answered yet | start, serve, shut down within 10 s |
| the rest | configuration, generated code, stream client, JSON helpers | - | - |

How they interact: an HTTP request runs `Create` in the order service, which commits a
Pending row and calls the payment service over gRPC; that service commits a decision,
publishes `payment.completed` to JetStream, and only then answers; the order service
writes the decision into its row, which a trigger turns into a notification for the
update stream. The notification service consumes the events from JetStream. Every
process migrates its database before it serves, and drains its servers before it ends.

No two of these steps share a transaction and no handler takes a lock. What makes the
system correct is a unique index, a primary key, a message id and a table of processed
ids, each with a "read, try, read again" protocol around it. The behaviours that are hard
are therefore: requests that interleave between two database statements; operations whose
result is unknown to the caller (a commit whose acknowledgement is lost); calls that time
out and go on; retries that meet the first attempt; crashes between two stores;
redelivery to a second process; counters at their limit (`MaxDeliver`); channels that hold
one update and are closed by one goroutine while another sends; a subscription that begins
between two updates; answers that reach the browser in another order than they were asked
for; two processes that migrate one database; a page of metrics written while handlers
observe; a shutdown that meets requests in flight.

What makes each part correct:

* *order service* - one order per idempotency key; a request is answered only with an
  order it asked for; the row is stored before the payment is asked for; Paid and Failed
  come only from a decision the payment service made; a retry settles what is Pending.
* *payment service* - one final decision per order, whatever races; every caller is told
  the stored one; an event announces only committed payments and precedes every answer.
* *the two together* - one charge per key through timeouts, gRPC retries and crashes; an
  outcome that follows from the order's amount; a revenue that was charged.
* *message bus and notification service* - nobody is notified twice, no event is
  acknowledged without a trace, none blocks the others, at most one notification goes
  missing per failure.
* *update stream* - publishing never sends to a closed channel and never waits for a slow
  subscriber; a stream that stays open ends with the order's last state.
* *console* - one submission at a time, no panel that hangs, shown outcomes are stored ones,
  an unsettled order keeps its idempotency key.
* *process* - every migration file is applied once, in order, when it is recorded; a page of
  metrics adds up; what was accepted is answered before an orderly shutdown ends.

The list `hazards` of `PROJECT.json` names what can go wrong, the line where it bites, and
the properties that watch it.

## 2. The modules

```
PaymentLedger   what the payment service promises: decide, announce, tell
   ^      ^
   |      `-- Orders          the order service in front of the ledger
Payments          ^           (OrdersProofs)
(PaymentsProofs)  |
   ^              |
   `-- Checkout --'           both services joined by a payment client
       (CheckoutProofs: rests on OrdersProofs and PaymentsProofs)

Notifications                 the durable consumer and its processes
(NotificationsProofs)
OrderStream                   trigger, listener, broker, stream server
(OrderStreamProofs)
Console                       the browser's store in front of the order service
(ConsoleProofs)
Service                       the life of a process of the order service, of which
(ServiceProofs)               Migrations (migrate.Run) and Metrics are parts

DataLemmas                    induction over numbers and finite sets, sums: for
                              CheckoutProofs and ConsoleProofs
```

`MC<module>.tla` adds the symmetry sets of TLC; each `.cfg` is one run.

**PaymentLedger** is abstract: `decision`, `announced`, `told`, with `Decide`, `Announce`
and `Tell`. It is the interface between the two services.

**Payments** has one action per statement of `Authorize`: `Receive` (transport checks),
`Load`, `Insert`, `InsertDuplicate` (SQLSTATE 23505), `InsertFails` (any other error, with
or without the row committed), `Reload`, `Publish`, `PublishFails` (stored or not), `Reply`,
and `Crash`. `Expire` lets a message id leave the duplicate window. `pc[c]`, `payment[c]`
and `created[c]` are the handler's position and local variables; a transaction id is the
identity of the call that drew it, as `uuid.NewString()` never repeats. gRPC trims the
order id and HTTP does not (`Rejected`); the two differ in `PublishFailedCode`.

**Orders** has one action per statement of `Create` and `Cancel`: `Lookup` and `Reload`
(both through `Resume`, which compares fingerprints), `Insert`, `InsertDuplicate`,
`InsertFails`, `Authorize`, the three outcomes of the call (`PaymentAnswers`,
`PaymentUnavailable`, `PaymentErrors`), `Settle`, `CancelRead`, `CancelUpdate`, and the
failures of each. The two updates write what `repository.go` writes: `UpdatePaymentStatus`
status and transaction, `UpdateStatus` the status alone, both by id whatever the row is by
now. The payment service is an instance of `PaymentLedger` and acts by itself
(`PaymentDecides`, `PaymentAnnounces`) for ids in `asked`, also after the caller gave up. A
payload stands for what the fingerprint covers (customer, item, amount).

**Checkout** instantiates `Orders` and `Payments` over one state and replaces the ledger's
steps by a client, one of the two that the repository has (`client`, fixed when the service
is built; `main.go` builds the gRPC one): `Send`, `Resend` (after what the client takes for
no answer, `Unanswered`), `ConnectionLost` (the next attempt goes out while the last may
still be running or arrive later), `AnswerArrives`, `TimesOut`, `GivesUp`, `ErrorArrives`.
`Decided`, `Announced` and `Told` are the refinement mapping by which the pair implements
`Orders!Spec`. `WindowPasses` is the duplicate window of an event passing while its order is
still asked for. `Revenue` is the query of `GET /orders/revenue`.

**Notifications** models JetStream as the consumer's configuration asks of it - explicit
Ack, `MaxDeliver`, `AckWait`, `MaxAckPending` 1 - and the processes statement by statement:
`Fetch`, `Reject` (malformed or incomplete event), `Mark` (`INSERT ... ON CONFLICT DO
NOTHING`), `Notify`, `Ack`, and in `handleFailure` `Retry` or `DeadLetter`, with the failure
of each. JetStream itself is external and modelled from how `nats.go` uses it.

**OrderStream** is about one order, as orders do not meet in this part; subscribers do, at the
broker's lock. `log` is the sequence of committed versions, each with what it says and
`NOW()` of its transaction, that is the time the transaction began (`Begin`, `Commit`). The
trigger's notifications go into `inbox` while the connection listens. The listener is one
goroutine with `lpc` as its position: `ReadNotification`, `ReadFails`, `Reconnect`,
`OrderIDs`, `LoadSnapshot`, `SnapshotFails` (which only logs: `unheard` keeps the versions
whose notification reached nobody). `Publish` takes the read lock (`Locked`) and serves
the subscribers one by one, in any order, and `sendLatest` in its three steps (`Send`,
`DropOldest`, `SendAgain`), between which the subscriber may take an update. `Subscribe`,
`Unsubscribe` and `CloseBroker` need the write lock. A subscriber runs
`SubscribeToOrderUpdates`: `Subscribe`, `GetByID`, `DrainLatest`, `SendInitial`, `SendUpdate`,
`EndOfUpdates`, and `Leave` at any point.

**Console** has the store's `createResult`, `selectedOrder`, `recentOrders`, the form's key and
the loading flags of the revenue and payment panels, and one action for the part of each
operation before its `await` and for each way on after it. The guards are the conditions
under which `App.tsx` enables the buttons (`Enabled`: "Load customer revenue" has none). The
server is what the console sees of `Orders`: since a key has one order at most, an order goes
by its key; Paid and Failed are one outcome, as the store only asks whether an order is
Pending. `Reload` loads the page again.

**Service** follows `main` of the order service: `Start`, the steps of `Migrations`, `Serve`,
`Accept`, the steps of a handler through `Metrics`, `Answer`, and on a signal the shutdown in
its order - the HTTP server drains (`Shutdown`), then the gRPC server (`Stopped`), under one
limit (`LimitPasses`). Several processes share a database, as when one replaces another.
**Migrations** has one action per statement of `migrate.Run` (`CreateTable`, `Check`, `Apply`,
`Record`, `Commit`, `Conflict` on the primary key, `Fail`); a file is its place in the order.
**Metrics** has the critical sections of `CounterVec.Add` and of `HistogramVec.Observe` (two
steps, `Observe` for count and sum and `FillBuckets`, under the lock), the observations that each kind of
request makes (`Plan`), and `Scrape`, which copies one vector after the other.

### Abstractions

* A failed operation (`Fault`) covers a lost connection, an expired context and an error of
  the server. Where the statement writes, both outcomes are possible. A write that becomes
  visible only after a later statement of the same request has already read is left out.
* Delays (`NakWithDelay`, retry back-off, time-outs) are left to the order of steps: a
  time-out may strike at any moment.
* `occurred_at`, e-mail addresses, item names and log output carry no property.
* A crash of a service cuts off all its requests; pgx and gRPC leave nothing of them behind
  but what was committed. Outside `Service`, a shutdown that runs into its time limit is such
  a crash.
* The time a request took is one whole number for all its observations; sums of such times
  are exact, where those of the code's `float64` are rounded.
* Each migration file can be executed on a schema that has it already (they say `IF NOT
  EXISTS` or `OR REPLACE`), and of two transactions that run the same file one waits for the
  other; both are properties of these files and of PostgreSQL.

## 3. The runs

All bounds are constants named `Max...`, or the size of a set of names. Every run has a
finite supply of requests, each answered once, so the system really stops and the runs do
not check for deadlock; what has to happen is stated as a liveness property instead.

| run | instance | shows |
|---|---|---|
| `payments_safety` | 3 calls, 2 order ids (one blank), amounts 0, limit, limit + 1, 1 fault, 1 crash, 1 expiry | `RepliesAgree`, `EventsAgree`, `PublishedBeforeReply`, `OncePerWindow`, `OneCreator`, `DecisionIsFinal`; `Payments` implements `PaymentLedger` |
| `payments_event_lost` | 3 calls, 1 fault, nobody has to retry | violation, see below |
| `orders_safety` | 3 creations, 1 cancellation, 2 keys, 2 payloads, 1 fault, 1 crash | `OneOrderPerKey`, `AnswersMatchRequest`, `SuccessesAgree`, `OutcomesAreBacked`, `RowsMoveForward` |
| `orders_cancelled_charged` | 2 creations, 1 cancellation, no failure at all | violation, see below |
| `checkout_safety` | 2 requests, one key, 2 amounts, either client, 2 attempts, a cancellation; lost connections, time-outs, faults and crashes on either side, 1 expiry of the duplicate window, at most `MaxDisturbances` = 2 of all these in one behaviour | `OneChargePerKey`, `OutcomeMatchesPayment`, `RevenueIsCharged`; the pair implements `Orders` |
| `checkout_retry` | 2 requests, one amount, the same clients and disturbances, no cancellation | `OrderIsSettled`: the order is settled and its event stored |
| `notifications` | 2 processes, 2 ids, 2 events, `MaxDeliver` 3, 1 fault, 1 crash | `NotifiedOnce`, `AckedIsSettled`, `LostPerFailure`, `DeadAfterRetries`; well-formed events are recorded (`AcceptedIsProcessed`), every event is finished with (`EveryEventIsFinished`) |
| `notifications_exhausted` | the same without crashes | violation, see below |
| `stream_fair` | 1 subscriber, 2 concurrent updates, 2 points in time, 1 lost connection, 1 failed snapshot, a shutdown | `SendsAreSafe`, `NothingMissed`; `CaughtUp`: an open stream ends with the last state |
| `stream_stale` | the same without losses and faults | violation, see below |
| `console_safety` | 2 requests at once, 3 keys, `MaxRecent` 1, 2 changes of the key or page reloads | `OneSubmission`, `LoadingIsBacked`, `OutcomesAreStored`, `PendingIsKept` |
| `service` | 2 processes with 2 starts together, 2 migration files, 2 requests of any kind, 2 durations on either side of a bucket's bound, 1 failure | `MigratedInOrder`, `PagesAddUp`, `AcceptedIsAnswered` |

Every run of one of the modules also checks its `TypeOK`, except those for a violation or
for liveness alone.

Why these bounds are enough to be interesting: the races of `Create` and `Authorize` need
two requests for one key, and a third to see what they left; one fault or crash at any
statement leaves every kind of half-done work, and a second one meets the repair; three
deliveries are the code's default, so a retry, a last delivery and an expiry all occur;
two attempts are the least at which one overtakes the other. One subscriber is enough for
`CaughtUp`, as subscribers only meet at the lock, and `SendsAreSafe` is proved for any number;
two updates are what it takes to fill a channel twice and to invert two timestamps. Two
requests of the console are what can overtake each other; the third key is the one an
abandoned form goes on with; a list of one recent order is cut by the second. Two files are
what it takes to be out of order, two processes to collide on one, and of two requests one
can be in the middle of an observation while the other is counted. `NoTransaction`, `NoOrder`
and the like are model values for absent rows and values.

### Disagreements found

* **`payments_event_lost`** - nothing survives a failure between the commit of the payment
  and its publication; unless somebody asks for the payment again no event is ever stored,
  against README.md:12. With retries the service repairs itself (`checkout_retry`).
* **`orders_cancelled_charged`** - `Cancel` checks the status it read and then updates by id:
  an order that becomes Paid in between ends as Cancelled, charged, and out of the revenue.
  "Cancelled before payment" (App.tsx:32) does not hold, without any failure. It fails in a
  second way when failures are allowed: an order whose payment was authorized but whose
  answer timed out is still Pending and can be cancelled.
* **`notifications_exhausted`** - if the dead letter of the last delivery cannot be published,
  the event is dropped without one. The property leaves aside what a process still works on
  (`Held`), and the run has no crashes: its trace is an event that fails three times and then
  fails to be dead-lettered, is Nak'ed with no delivery left, and is dropped.
* **`stream_stale`** - `isNewerUpdate` compares start times of transactions. Of two updates that
  overlap, the one committed last can carry the older time; a subscriber that read the row in
  between drops it as stale, against the intent of the test
  `...PrefersBufferedUpdateOverStaleSnapshot` (server_test.go:119), and keeps the overwritten
  state until the order changes again. `CaughtUp` excludes exactly this case (`Outdated`).

What the models also show, though nothing in the repository says otherwise: a payment that was
under way when its order was cancelled makes the order Paid or Failed after the customer was
told that it is cancelled, as the update at service.go:177 is unconditional too; a stream may
step back for a moment (its first message is the row, and notifications older than the row
may still be on their way); a snapshot that fails on a working connection leaves
subscribers behind until the next change (`CaughtUp` excludes such a version only while
nothing later was heard of); in the console a late answer may show as Pending an order whose
cancellation was shown already, and the first of two revenue lookups ends the loading state
of both; of two processes that start together on a new database one may end with
`log.Fatalf` on the primary key of `schema_migrations`, and has to be started again.

One disagreement has no model, as it is between two strings: the alerts
(monitoring/prometheus/rules/alerts.yml:77-136, slo-rules.yml:26-32) watch the payment
client's series with `route="/payments"`, while the gRPC client that `main.go` wires in
observes under the name of its method (client.go:84), so they never fire.

## 4. Fairness

* `Payments!FairSpec`: weak fairness of `Progress(c)`: the Go scheduler runs a handler that
  was entered, and the database and the broker answer. Failures, crashes, expiries and
  arrivals are never forced.
* `Checkout!RetrySpec`: both services run, what was sent arrives, a caller whose attempt
  failed is told, and a client repeats its request, as README.md:7-8 has it do. A lost answer
  is never forced to be found out by anything but a retry.
* `Notifications!FairSpec`: each process runs its loop, `AckWait` expires and the broker
  drops what has used up its deliveries.
* `OrderStream!FairSpec`: the goroutines run - listener, stream handlers, and the main goroutine
  that closes the broker once it is told to stop. That `Reconnect` happens means the database
  can be reached again after a while: `reconnect` tries every second for ever. Updates,
  lost connections, failures, subscribers and the shutdown are never forced.
* `Console` has safety properties only: `fetch` has no time limit, so nothing in the code makes
  an answer arrive. `Service` too: a stream may last as long as its client, and the shutdown is
  bounded by its time limit alone.

## 5. What is proved

The proofs hold for every number of calls, orders, keys, amounts, attempts, processes, events,
subscribers, files, faults and crashes, from the assumptions on the constants that the modules
name (`ConstantsAssumption`, `ServiceAssumption`, `NullsAssumption` and the like: bounds are
numbers, sets that are counted are finite, a null is not a value). TLC evaluates them in every
run.

**Payments.** `TypeOK` is inductive by itself. `RepliesAgree` is not: it needs to know what
the calls in flight hold. `IInv` adds: a call that has passed the load holds either the
stored row (`LocalAgrees`) or, before its insert, a draft nobody else sees; what is in the
duplicate window was stored (`WindowStored`); a call about to answer has its event in the
stream (`Announced`); a call marked as creator inserted the row (`Creators`); and the copies of an
event are counted by the expiries of its id (`Counted`). From it follow `RepliesAgree`,
`EventsAgree`, `PublishedBeforeReply`, `OncePerWindow`, `OneCreator`, the action property
`DecisionIsFinal`, and `Refinement`: each action maps to `Decide` (an insert, also one whose
answer is lost), `Announce` (a publication that is stored), `Tell` (`Reply`), or a stutter.

**Orders.** `IInv` strengthens the properties with: the local copy of a request carries its own
key and payload and names a stored row (`LocalMatches`); an id was inserted by
its own request (`Own`, from which one `created` per key follows); a verdict in hand was
announced and is the ledger's decision (`VerdictAnnounced`); a row's transaction id is the
decided one (`TxBacked`); and what a request saw of its order, the row has not taken back
(`Told`: it stays settled, and keeps its transaction). From it follow `OneOrderPerKey`,
`AnswersMatchRequest`, `OutcomesAreBacked`, and the action property `RowsMoveForward`, which
holds although both updates are unconditional, because everybody who settles an order
writes the one final decision. It also bounds what a settled answer may overwrite: a
cancellation, but only for a request that read the order before it was cancelled; as nobody
begins to settle an order that is not Pending (`PaidStep`), a cancellation is final once those
requests have ended (`FinalStep`). As there is one final decision, requests that succeed under
one key also agree (`SuccessesAgree`), though they may have settled the order one after the
other. A part of the invariant worth a name of its own is `PersistedBeforePayment`: nobody asks
for a payment of an order that is not stored. No run lists it, as in the pair `OneChargePerKey`
cannot hold without it.

**Checkout.** The proof is compositional: `CheckoutProofs` instantiates `OrdersProofs` and
`PaymentsProofs` under the substitutions of `Checkout` and takes their inductive invariants
and the lemmas that steps keep them. What is left to show is that each step of the pair is a
step of either component or a stutter (`PaymentSees`, `OrderSees`), for which `Inv` ties them
together: an attempt at the payment service was sent, for the order its sender still holds
(`Linked`, `Sending`); nobody has a verdict before an answer (`Undecided`); and a payment, or a
draft of one, has the amount of its order and the decision that follows from it (`Charged`,
`Charging`). From it follow `Refinement` - in the service as it is deployed, the payment
service is the ledger that `Orders` is proved with - and `OneChargePerKey`,
`OutcomeMatchesPayment` and `RevenueIsCharged`. `OrdersHoldsOfBoth` is the use of the refinement:
the safety properties proved of `Orders` hold of the two services behind their client;
`PaymentsHoldsOfBoth` says the same of `Payments` and its events: an order may be retried after
the duplicate window of its event has passed, and the event is then stored again, but never
twice in one window (`OncePerWindow`).
`RevenueIsCharged` compares two sums. The orders that are Paid are among those charged, each
with its own amount (`PaidIsCharged`); at any time there are finitely many payments
(`FinitelyMany`, as a step adds at most one), though the requests may be infinitely many; and
`SumsGrow` of `DataLemmas` says that then the first sum is at most the second.

Such facts about data are proved by induction. The library states it for a predicate given as
an operator, which the provers cannot instantiate; `DataLemmas` states it for sets
(`NumberInduction`: a set with 0 and, with each number, the next, has all numbers;
`SubsetInduction` alike for the subsets of a finite set), derived from the library's
well-founded orderings, and a proof applies it to the set of the numbers, or subsets, for which
its claim holds.

**Notifications.** `NotifiedOnce` needs `Claims`: a process about to notify has the id alone,
and it is recorded and not notified yet. `AckedIsSettled` needs `Traces`: who is about to
acknowledge has left a record or a dead letter. `DeadAfterRetries` needs `Exhausted`: what a
process believes is the delivery of its message is not ahead of the broker's count. For
`LostPerFailure` each step adds at most one id to those that are recorded, not notified and in
nobody's hand, and only where it counts a fault or a crash.

**OrderStream.** `SendsAreSafe` needs `Publishing`: outside the read lock nothing is left to
serve, and the subscriber whose channel was emptied is one of those still to be served. Then
`Subscribe`, `Unsubscribe` and `CloseBroker`, which need the lock, cannot take a channel away from
under `Publish`, and as only the listener publishes, a channel that was emptied stays empty
until the second send. The mutant that closes without the lock breaks it.

`NothingMissed` is what is safe of `CaughtUp`: a stream with nothing left to deliver to it shows
the last state, so that `CaughtUp` needs only that what is queued gets delivered. Its invariant
(`SInv`, which TLC checked first) has two main parts. `InOrder`: as long as the connection
stands, the last notification to be read of an order is the one of its row, so what is older is
followed by the row, and what a lost connection swallowed is made up for by the snapshot that
reconnecting queues. `Informed`: for each subscriber the row is on its way - in the log, in the
listener's hands, in the subscriber's channel, due with the next snapshot - or it has arrived,
or one of the two cases that `CaughtUp` excepts has come up. A full channel gives up the older
of two updates, never the newer, and `IsNewerUpdate` chooses between the row that a subscription
read at its start and the update that was buffered meanwhile.

**Console.** `Waits` ties the buttons to the requests the page waits for: a disabled create form
has one submission under way, a loading slice a request that will end its loading, and the
create panel shows nothing while it is loading, which is why the refresh after a cancellation
cannot end that state. From it follow `OneSubmission` and `LoadingIsBacked`. `PendingIsKept`
is a bound on a number, and is proved with a potential (`Risked`): the orders that are, or may
still become, Pending under a key the form has left, and the present key while a submission
under an older one is about to succeed and replace it. Only an edit adds to them, and only
one; a payment that settles an abandoned order swaps it for the present key.

What the page holds is a second invariant, `Known`: an order in a panel, in the list of recent
orders, in a reply on its way or saved by a cancellation that may yet be undone is one the
server has stored, with its outcome unless it says Pending. It is kept because a row only grows
(`Grows`: from none to Pending to an outcome), so that what was true when the server answered is
true when the answer arrives, however late. For the list, `WithoutKeeps` says by induction what
the filter of `mergeRecentOrders` keeps - orders that were there, without the one to be added,
none of them twice - from which follow `TypeOK`, `OutcomesAreStored` and `RecentDistinct`.

**Service.** `MigratedInOrder` needs that a process past a file found it recorded (`Passed`,
`Places`) and that one with a file in its transaction is alone with it (`Alone`).
`AcceptedIsAnswered` needs that after the HTTP server has drained only streams are in flight
(`Stopping`). `PagesAddUp` needs who holds a lock (`Locks`) and that a vector counts what was
observed and, while it is locked, what is being observed (`Totals`, and `Times` for the sums; that
a sum over a set of requests does not depend on their order is `SumsUnique` of `DataLemmas`).

Only model-checked: the liveness properties `OrderIsSettled`, `AcceptedIsProcessed`,
`EveryEventIsFinished` and `CaughtUp` (fairness and ENABLED are beyond the prover's backends
here), and the violations, which are facts about one instance.

## 6. What is not modelled

* Reads without a decision behind them (order by id over HTTP, payment by order id,
  `ListPayments` with its range of amounts): one SELECT each, and a definition would only
  restate its WHERE clause.
* The console's text fields and its banner: the former only feed the next request, nothing
  reads the latter.
* Of the metrics the gauges, which read the runtime, and the text format.
* Of the message bus the creation and update of the stream and of the consumer at start-up,
  whose configuration `Notifications` takes as given.
* `main` of the payment and notification services: the former has the shape of the order
  service's without the broker, the latter only the loop that `Notifications` has.
* Configuration, JSON helpers, generated code, the stream client, deployment: no state of
  their own that a property is about.

## 7. What could follow

1. The composition of `Payments`' stream with `Notifications`: a committed payment, asked for
   until it is answered, is notified once.
2. The composition of `Orders`' rows with `OrderStream`'s log, so that what a stream shows is
   an outcome that is backed.
3. `Orders` with updates that are conditional on the status they read, as a fix for
   `orders_cancelled_charged`: `RowsMoveForward` could then forbid any change of an outcome.
