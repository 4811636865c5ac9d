# Formal models of walletService

TLA+ models of the services of this repository, the TLC runs that check them on
small instances and TLAPS proofs for every size. `PROJECT.json` maps each
definition to the lines it models and lists runs, mutants, findings, hazards and
theorems. Definitions keep the names of the Go functions they stand for.

## 1. The system

| Component | State | Operations | Modelled in |
|---|---|---|---|
| **gw-currency-wallet** handlers and `AuthRepo` | PostgreSQL tables `users`, `wallets`, `balances` | register, login, balance, deposit, withdraw, exchange | `Money`, `WalletLedger` |
| its large-transaction `Publisher` | none of its own; copies inside the Kafka writer | `Publish` | `LargeTransactionPublisher`, its outcomes in `WalletLedger` |
| its exchanger client | rates, time of the last fetch, an RWMutex | `GetAllRates`, `GetRateWithSource`, called by `HandleExchange`, `HandleExchangeRates`, `HandleHealth` | `RateCache` |
| **gw-exchanger** | table `currency_rates` | two read-only queries over gRPC | as the answers in `RateCache` |
| **gw-notification** | MongoDB documents, offset in MongoDB or at the broker | fetch, insert with retry, record offset | `NotificationConsumer`; with the publisher in `LargeTransactionPipeline` |
| **pv-producer** | shared batch, mode, ticker, goroutines | `Send`, `Flush`, `flushLoop`, `UpdateConfig`, `Close` | `PageViewProducer` |
| its generator | mode, rate, ticker, burst counters | `runGenerator`, `GetInterval`, `SetMode`, `SetRPS` | `PageViewGenerator` |
| **pv-aggregator** | buffer, batches in flight, group offset, ClickHouse tables, DLQ | `Run`, `flushLoop`, `flush`, `handleErrorWithRetry`, `Close` | `PageViewAggregator` |

Interactions: the wallet calls the exchanger over gRPC while it handles an
exchange and publishes large operations to Kafka, from where gw-notification
stores them in MongoDB. The producer writes page views to Kafka; the aggregator
reads them, stores them in ClickHouse and sends what is invalid to a DLQ topic
and to `processing_errors`. Between components there is only gRPC and Kafka.
`LargeTransactionPipeline` composes the wallet's publisher and gw-notification
through the topic they share; the other components are modelled one by one, with
the other side as an environment.

What is hard in this code:

* requests that race for one `balances` row, row locks taken in opposite orders,
  and a transaction of two statements that can stop between them;
* a registration of five statements without a transaction;
* replies that are lost although the statement took effect;
* a cache whose lock is held during a remote call with a time-out;
* consumers that crash or are rebalanced between storing a message and
  recording its offset, and a batch that is flushed by several goroutines;
* retries of a message whose first copy is still under way, and a service that
  dies while it holds the only copy of an event;
* goroutines that wait on a ticker which a reconfiguration has replaced, and a
  generator whose mode and rate are changed without a lock between its reads.

Properties that make each part correct are listed with the runs in section 3;
every hazard is in `PROJECT.json` at its line, with the properties aimed at it.

## 2. The modules

**`Money`**: amounts. Requests carry thousandths ("mills"), the column
`NUMERIC(18,2)` holds cents, and PostgreSQL rounds the new value of the row
half away from zero. `HandleExchange` rounds the product of amount and rate to
cents first (`handler_exchange.go:118`).

**`WalletLedger`**: each request slot has a `pc` naming the call its handler
makes next. `amount` is the committed value of a row, `dirty` the version written
by the transaction that holds its `lock`. Every statement can succeed, fail
without effect (`DBError`), or take effect and lose its reply (`GotoOrLost`,
`MovedOrLost`). `DeadlockAbort` is PostgreSQL's deadlock detector, `Crash` the
death of the service. A waiting UPDATE sees the version committed last, as READ
COMMITTED evaluates the WHERE clause again. `posted`, `wrote` and `event` are
history variables.

**`AtomicLedger`**: what the service promises. A request moves its money in
one step or not at all; "ok" only after it has, "refused" only if it never will,
"unknown" (an HTTP 500) promises nothing. `WalletLedger!Atomic` instantiates it:
open accounts are the rows, a request is applied once it has committed a leg, and
status codes map to answers (`AnswerOf`). The action `ExchangeUncredited` is the
hole of finding 1, confined to users whose registration had not completed when
the service started.

**`RateCache`**: discrete time. A caller wants one pair (`HandleExchange`) or
the whole table (`HandleExchangeRates`, `HandleHealth`). Handlers look under the read lock, then under
the write lock, which is kept during the call; a call reads the exchanger's table
at some moment before its time-out. `lastSeen`, `fetchedAt` and `blocked` are
history: when each value was last in the table, when the cache was filled, and how
long a caller has waited for the lock. A client without an address is not modelled:
`main` never makes one (`cmd/app/main.go:45`).

**`NotificationConsumer`**: one partition, in simple or group mode. Producers
append messages (transaction ids and unparsable ones) at any time (`Produce`), so
the consumer reads a partition that grows.

**`LargeTransactionPublisher`**: the loop of `Publish` for several operations at
once. `phase` says whether an attempt or a back-off is under way, `tries` counts
attempts, `late` the copies that attempts which timed out have left in the writer.
The writer is kafka-go's and external: it may append the copy of an attempt
(`Land`), report an error although it has, write it again when an answer is lost
(`Rewrite`), write it after its attempt has ended or drop it. The client may go
away (`gone`: only the back-off looks at it, an attempt just fails) and the service
may die. There is no clock; `waited` adds up the durations. `waited` and `acked`, the
operations whose write was acknowledged, are history.

**`LargeTransactionPipeline`**: publisher and consumer on one `log`, which is all
they share. Events that are not followed in detail, and messages that are no
events, come from `OthersProduce`. `AckedNotLost` and `EndToEnd` relate the
publisher's `acked` to the consumer's documents and offset.

**`PageViewAggregator`**: one partition of valid and invalid messages; three
goroutines that can flush (`run`, `loop`, `close`), retries, DLQ path, commits,
shutdown, restart, rebalance.

**`PageViewProducer`**: the generator goroutine, one `flushLoop` per ticker,
the goroutines of `sendAsync`, `POST /control` and shutdown. The unsynchronised
read of `sendMode` may be a torn value during the write (between modes of
different length), which takes `Send`'s default. A loop remembers the ticker it waits
on; a ticker that has been stopped leaves no tick behind (since Go 1.23, and `go.mod`
asks for 1.25). Kafka's writer is external: it writes the messages of a call under
way, may write those of a failed call later or never, and may write a message again
when the broker's answer is lost. `written` is therefore a set, the events that are
in the topic at least once. `given`, `refused` and `largest` are history: events of
calls that have returned, of those that returned an error, and the largest batch size
configured so far. `Interrupted` are the events in calls of `flushLoop`s and of
`sendAsync`'s goroutines, for which `Close` does not wait.

**`PageViewGenerator`**: `runGenerator` with its local variables, and
`GetInterval` in the steps in which it reads and writes `g.mode` and `g.rps`,
between which `HandleControl` may run. `mode` is "torn" while it is being
overwritten by a string of another length; such a value takes the default branch.
`pace` is the ticker's interval in ms, the only time that is modelled. `sent` and
`ticks` count what the current burst has sent and the ticks it took.

`MC*` modules define the workloads, partitions and requests of the runs.

## 3. Runs

| Run | Shows | Bounds |
|---|---|---|
| `ledger` | `NoOverdraft`, `NoLostUpdate`, `BooksBalance`, `AnswersAreTrue`, `EventsAreTrue`, `RegisteredIsComplete`, refinement of `AtomicLedger` | 3 requests out of 12 kinds, 1 crash, balances up to 9 cents |
| `ledger_live` | `EveryRequestEnds` | 3 requests whose locks form cycles of 2 and 3 |
| `rates` | `FetchedOncePerTTL`, `RateWasCurrent`, `WaitBounded`, `EveryCallReturns` | 2 handlers, each for a pair or for all rates, TTL 2, time-out 1, time up to 5, one change of the table |
| `notification` | `OneDocument`, `OffsetCovered`, `EverythingSettled` | both modes, up to 4 messages of 2 transactions and unparsable ones, appended at any time, 2 attempts, 2 crashes, 2 reconnects |
| `pipeline` | `TimeBounded`, `AckedNotLost`, `EndToEnd` | one operation followed in detail and events of another one, 3 attempts, 2 messages, both modes, a death of the wallet, a crash of the consumer |
| `aggregator` | `NothingDropped`, `CommitCovered`, `SingleCustody`, `StoredWhereMeant`, `EverythingStored` | DLQ on and off, partitions of 3 messages with one invalid message in each place, batches of 2, 2 attempts, a restart, a rebalance |
| `producer` | `NothingDropped`, `SentOnce`, `BatchBounded`, `ShutdownFlushed`, `BatchDelivered`, `ShutdownSendsAll` | each start mode, 3 events, batches of 2, a reconfiguration (batches of 1 or 3, a refused interval, a negative size) |
| `generator` | `PaceSafe`, `BurstSchedule`, `PaceFollows`, `GeneratorReturns` | each start mode, rates 0 to 2000, bursts of 3 and 4 events in slices of 2, two requests |

Why the bounds are enough. Row locks are pairwise and the longest cycle over
three currencies has three requests; the amounts are chosen so that each is
covered once but not twice, one overflows and some lie below half a cent. Three
messages with batches of two give a full batch, a rest and a second flusher; two
attempts give a first and a last one; two crashes give one during recovery.
Three events overfill a batch of two, and one reconfiguration from each start mode
gives every change of mode, with a loop on the old ticker beside a loop on the new
one; batches of three make the batch grow beyond its first size. Three attempts are
the default of `Publish` and the fewest with two different back-offs; two messages
are two copies of the event, or one and an event of another operation that moves the
offset past it. Bursts of three and four in slices of two end inside a slice and
at its end, and two requests leave a burst and come back to it. The theorems below
remove the bounds where they exist.

Fairness. `ledger_live`: a goroutine that can run does, and PostgreSQL resolves
deadlocks (a documented service of the database). `rates`: goroutines run;
calls end by the time-out of their context. `notification`: the consumer
runs, which includes that every call to MongoDB returns, although the consumer gives
its calls no deadline (`consumer.go:227`); nothing is assumed of their success.
`pipeline`: the same, and an attempt ends by its time-out if by nothing else; nothing
is assumed of the success of a write to Kafka, so that `EndToEnd` speaks of events
whose write was acknowledged. `aggregator`: goroutines run, and an
insert or send that is retried for ever succeeds at some time (strong fairness:
the backends come back), which is the situation README.md of the repository
describes. `producer`: goroutines run, tickers tick, `WriteMessages` returns, a
shutdown that has begun goes on, and `select` does not pass `ctx.Done` over for ever
(strong fairness of `GeneratorStops`); no one is obliged to stop the service.
`generator`: goroutines run,
the ticker fires and `time.Sleep` ends; Go's `select` chooses at random among ready
cases, so `ctx.Done` is not passed over for ever (strong fairness of `Stops`).

Deadlock is checked in every run; the stuttering steps `AllEnded`, `AllDone`,
`AtEnd`, `AllQuiet`, `Exited` and `Stopped` are the regular ends of the models.

### Findings

Runs that are expected to be violated state a sentence of the repository's own
documentation:

1. `exchange_uncredited`: an exchange into a currency whose row is missing
   commits the debit, credits nothing and answers 200 (`repo_auth.go:173`).
2. `unpublished`: a large exchange is committed but never published when the
   read of the balances after COMMIT fails (`repo_auth.go:187`).
3. `notification_lost`: an event given up on after five attempts lies below the
   next recorded offset (`gw-notification` `consumer.go:210`).
4. `aggregator_lost`: the commit of an invalid message covers buffered valid ones
   (`pv-aggregator` `consumer.go:167`); a restart loses them.

More remarks from modelling, without a run of their own:

* A registration that stops half-way leaves a user without a wallet and the name
  taken, the start of finding 1 (`handler_auth.go:59`; `003_wallets.sql:1` says
  "one per user").
* Overlapping flushes commit past a batch that is still being retried, as in
  finding 4 but with valid messages only (`consumer.go:297`).
* The writer of pv-producer balances with `LeastBytes`, which ignores the key, so
  the strategy `key` keeps no order (`producer.go:115`).
* Leaving batch mode stops the ticker and leaves messages in the batch until batch
  mode returns or the service stops (`producer.go:277`); a negative `flush_ms` enters
  batch mode without a loop (`producer.go:281`). `BatchDelivered` therefore ends with
  the ticker; `ShutdownSendsAll` says that such messages are sent at the shutdown.
* `Close` waits neither for the `flushLoop`s nor for `sendAsync`'s goroutines: what
  they are writing when `main` returns can be lost without an error or a count
  (`producer.go:296`). `NothingDropped` and `ShutdownSendsAll` confine the loss to
  these calls (`Interrupted`).
* `SentOnce` is about the calls of `WriteMessages`. The topic may hold a message
  twice, because the writer repeats it when an answer is lost (`MaxAttempts` is left at
  kafka-go's default); `README.md:299` of the repository expects that.
* The bound of `TimeBounded` with the defaults, 3 attempts of 2000 ms and back-offs
  of 200 and 400 ms, is 6600 ms. The wallet's server has a `WriteTimeout` of five
  seconds (`cmd/app/main.go:69`), so with Kafka down the answer to a committed large
  operation can be lost, although `gw-currency-wallet/README.md:139` says that it
  does not depend on Kafka. The connection is not modelled. The comment at `publisher.go:36` gives the back-off as
  `backoff*2^attempt`; the code starts at `backoff`.
* `EndToEnd` has two exceptions besides an error of Publish that is logged: the
  wallet dies in it, or the consumer gives the event up (finding 3). An event is
  nowhere but in the wallet's memory between COMMIT and the acknowledged write
  (`handler_exchange.go:132`), so no property can promise more; finding 2 is the
  failed read before Publish, not the death.
* A burst sends ten events per tick and the ticker keeps the interval it had, so a
  burst of 100 to 1000 events takes 10 to 100 ticks, not the two seconds of
  `README.md:205`.
* `GetInterval` replaces a missing rate by writing `g.rps = 5` (`generator.go:124`),
  also over a rate that a request has set since it was read.
* The percentile of the producer's metrics is taken from an unsorted copy, where
  the comment says "sort" (`producer.go:79`).

## 4. Proofs

| Module | Theorems |
|---|---|
| `WalletLedgerProofs` | `Invariance`, `TypeCorrect`, `NeverOverdrawn`, `UpdatesKept`, `BooksAlwaysBalance`, `AnswersAlwaysTrue`, `EventsAlwaysTrue`, `RegistrationsComplete` |
| `WalletRefinementProofs` | `ImplementsAtomicLedger` |
| `RateCacheProofs` | `CacheTypeCorrect`, `OneFetchPerTTL`, `RatesAreCurrent`, `WaitIsBounded` |
| `NotificationConsumerProofs` | `NotificationInvariance`, `NotificationTypeCorrect`, `NeverTwoDocuments`, `OffsetAlwaysCovered` |
| `LargeTransactionPipelineProofs` | `PipelineOneDocument`, `PipelineOffsetCovered`, `PipelineTypeCorrect`, `PublishTimeBounded`, `AcknowledgedNeverLost` |
| `PageViewProducerProofs` | `ProducerTypeCorrect`, `NoEventDropped`, `NoEventSentTwice`, `BatchAlwaysBounded`, `BatchFlushedAtExit` |
| `PageViewGeneratorProofs` | `GeneratorTypeCorrect`, `PaceAlwaysSafe`, `BurstsOnSchedule` |
| `PageViewAggregatorProofs` | `AggregatorInvariance`, `AggregatorTypeCorrect`, `NothingEverDropped`, `CommitsAlwaysCovered`, `AlwaysStoredWhereMeant`, `AlwaysSingleCustody` |

Every invariant of a passing run, the refinement of `AtomicLedger` and the action
property `FetchedOncePerTTL` are theorems. Assumptions are the named ASSUMEs of the
modules: sizes and durations are natural numbers, requests have the fields the
handlers decode, `Logs` of the aggregator holds partitions. No bound on the number
of users, requests, callers, messages, attempts or crashes.

*Wallet.* `NoOverdraft` is not inductive: a rollback restores `amount`, but a
commit installs `dirty`. `IInv` adds that unlocked rows are clean and locked ones
differ by the holder's own posting (`RowInv`), that a request in `credit` or
`commit` holds the row it debits and that this row still covers the debit
(`HoldInv`), and what each `pc` says about `wrote`, `event` and `resp`
(`RequestInv`). There is one lemma per action. The refinement uses the
same invariant: only `CreateBalance`, `Deposit`, `Withdraw`, `Commit` and the
answers change the abstract state. `EventsAreTrue` is inductive given `IInv`; its
proof sorts the actions into those that move no money, those that just have, and
`Publish` (`ActionFate`). `RegisteredIsComplete` needs `RegInv`: a request between
two inserts has made all those before it (`Inserted`), and of the requests past the
first insert no two have the same name (`Sole`), which is what the UNIQUE
constraint gives.

*Rate cache.* A caller that holds the lock found the cache expired, and it still is
when the caller fills it (`FetchInv`): hence one fetch per TTL. For
`RateWasCurrent`, `SeenInv` says that the present rates were seen now, `CallInv`
that a call is over at its deadline, and `FreshInv` carries the age of a value from
the exchanger's reply to the cache and from there to the caller. `WaitInv` charges
a waiting caller's time to the callers that have had the lock, one time-out each
(`Past`), and to the present holder (`Held`); a caller that has returned the lock
does not come back for it, which makes the bound the number of other callers.

*Aggregator.* `AInv` says where each fetched message is: with `Run`, in the
buffer, in the batch of a flusher that is not idle, or stored; that a batch about
to be committed is in ClickHouse; and that the DLQ path writes
`processing_errors` after the DLQ. `SingleCustody` needs `CustodyInv`: without a
rebalance the reader stands at the highest offset fetched, so the next message is
held nowhere, and no batch has a message twice, or `PutBack` would give it twice to
the buffer.

*Notification.* `OffsetCovered` needs that everything an open reader has passed
is settled, except the message being saved (`PositionInv`), and, because a
rebalance may move the reader away from it, that everything before that message
is settled too (`CurrentInv`).

*Pipeline.* A step of a publisher appends one message or leaves the partition alone,
so a behaviour of the composition is one of the consumer beside producers
(`PipelineIsConsumer`, a lemma that holds by the shape of the composition), and the
consumer's theorems hold of it. `AckedNotLost` adds that an acknowledged event is in
the partition (`AckInv`): the attempt that `Publish` takes for a success has landed.
`TimeBounded` says what all attempts take; `TimeInv` bounds what the first n take
(`Allowance`), and that this grows with n (`MoreTakesLonger`) gives the bound for a
`Publish` that ends early.

*Producer.* `TypeInv` adds to the types at which statements each goroutine can be
and that no loop runs beyond the last ticker. `ShutdownFlushed` needs that the
generator has stopped when `Close` begins and that the batch stays empty behind
`Close`'s flush (`ShutInv`); with it `NothingDropped`, which is inductive while the
process runs (`Held`), holds at its end too: what is held then is held by calls nobody
waits for (`ExitHands`). `BatchBounded` needs that outside the flush which its append
requires the batch is below the largest size so far (`BoundInv`). `SentOnce` is
inductive once it is known that nothing is anywhere that has not been generated
(`OnceInv`).

*Generator.* `PaceSafe` is inductive once the request `HandleControl` works on is
known to be one (`PaceInv`): no request sets a rate that is not positive, so the
division is safe without a lock. `BurstSchedule` needs what a burst has sent inside
a slice, between slices and after the last one (`BurstInv`).

Induction. `TwoTo`, the doubling of the back-off, is a recursive function over
`Nat`. The library's induction theorems take an operator as a parameter, which the
provers cannot instantiate. `SetInduction` is an induction over a *set* of numbers,
from the well-foundedness of `<` on `Nat`; with it the lemmas show that a function
with the recursive equations exists, that `TwoTo` therefore satisfies them and that
it is positive. The largest offset of a batch (`LastOfIsElem`) comes from
well-foundedness in the same way.

Only model-checked: the liveness properties (`EveryRequestEnds`,
`EveryCallReturns`, `EverythingSettled`, `EndToEnd`, `EverythingStored`,
`BatchDelivered`, `ShutdownSendsAll`, `PaceFollows`, `GeneratorReturns`), because the prover does not
handle fairness and ENABLED; and the four findings, which are counterexamples. That
TLC checks each theorem's property as well guards against a theorem that holds only
because its hypotheses are too strong: its mutants in `PROJECT.json` are violated.

## 5. Not modelled

* Configuration, start-up, topic creation, health and metrics endpoints: sequential
  I/O, or counters that no decision reads.
* Password hashing and the contents of JWTs: cryptography; a token is a member of a
  set.
* Generated gRPC code and `kdiag`.
* The legacy wallet operations: `RegisterRoutes` does not route them.
* The contents of generated page views and their duplicates: random data of one
  goroutine.
* The ClickHouse materialised views: SQL that the database evaluates inside an
  insert.

Kafka, PostgreSQL, MongoDB and ClickHouse are external and appear only through what
the code relies on. Messages of one topic partition are modelled where offsets
matter: offsets of different partitions do not meet in this code.

## 6. Plan

Done, in this order: `WalletLedger` with its abstract specification and proofs,
`PageViewAggregator` with proofs, `NotificationConsumer` with proofs, `RateCache`,
`PageViewProducer`, `LargeTransactionPublisher` and its composition with the consumer
with proofs, `PageViewGenerator` with proofs, proofs of `RateCache` and
`PageViewProducer`, and the remaining invariants of the others.

Next:

1. Theorems beyond the properties of the runs: what a stored view implies for the
   aggregator's offset after a restart, and that the answers of the rate cache
   implement an atomic read of the exchanger's table.
2. `PageViewPipeline`: producer, topic and aggregator together, refining "an event
   is stored at least once unless reported".
3. The rollups against a reference sum, as pure operators.
