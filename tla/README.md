# Formal models of gosoline

TLA+ modules for the concurrent and distributed core of gosoline, TLC configurations that check them on small instances,
and proofs that TLAPS checks for every value of the constants. `PROJECT.json` maps every definition to the lines of code
it stands for and lists the runs, the mutants that show that each property can fail, the hazards of the code, the
findings and the theorems.

    tlc -config MCKernel.cfg MCKernel      # any run of PROJECT.json
    tlapm KernelProofs.tla                 # any module *Proofs

## The system

gosoline is a framework for Go services. An application is a set of modules. The kernel boots them stage by stage,
watches their health, and stops them in reverse order; most modules consume messages from queues and streams, hand them
to callbacks, write to stores and publish messages through producers. Everything below runs in goroutines of one process
(coffins tie their errors and contexts together) and meets other processes through DynamoDB, SQS, Kinesis and Kafka.

### Inventory

| component | state | operations | interacts with | what is hard |
|---|---|---|---|---|
| kernel (`pkg/kernel`) | stages with coffin and error, counter of foreground modules, exit code, kill timer | Run, Stop, runModule, stopWait, forceExit, exit | every module, coffin, SignalOnce | module errors racing with Stop; Stop during boot; forced and graceful exit at once |
| coffin (`pkg/coffin`) | number of goroutines, tomb, first kill reason | Go, Kill, Wait | kernel and most components | only the first reason is kept; Go on a dead coffin panics |
| stream consumer (`pkg/stream/consumer*.go`) | messages under way, runners, aggregate in work | readData, process, Acknowledge, retry, stopIncomingData | inputs, retry handler, callback | part of an aggregate fails; redelivery; shutdown with messages in channels |
| SQS input and retry handler (`input_sqs.go`, `retry_sqs.go`) | received messages | runLoop, Ack, Put | SQS | visibility timeout against work in progress |
| producer daemon (`producer_daemon*.go`) | aggregate per bucket, batch, output channel, ticker | Write, tickerLoop, outputLoop, Run, close | writers, an output | a bounded channel behind a lock; flush order at the stop |
| shard reader (`pkg/cloud/aws/kinesis`) | checkpoint record, checkpoint object, iterator | AcquireShard, iterateRecords, Persist, Release | DynamoDB, Kinesis, kinsumer | read-then-write on the record; two goroutines with one checkpoint; takeover |
| kinsumer | client list, shard list, finished shards, readers | Run, refreshShards, startConsumers, RegisterClient, Stop | metadata repository, shard readers, Kinesis | clients see each other, splits and finished shards late; Stop before Run is ready |
| batch consumer (`consumer_batch.go`) | open batch, ticker | readFromInput, processBatch, Acknowledge, retry | inputs, retry handler, batch callback | one result per message of a batch; a batch open at the stop |
| kafka consumer (`pkg/kafka/consumer`) | map of partitions, their goroutines and channels, stopping flag | Run, Handle, OnPartitionsAssigned, OnPartitionsLostOrRevoked, Stop | franz-go, message handler | callbacks of the client against the poll loop and the stop |
| distributed lock (`pkg/conc/ddb`) | item with token and ttl, expiry of the lock object | Acquire, Renew, Release | DynamoDB | clocks, whole seconds, lost answers |
| leader election (`pkg/conc/ddb`) | item with member and lease | IsLeader, Resign | DynamoDB | a lease without a margin for clocks |
| task runner (`pkg/conc/task_runner`) | bounded channel, done flag | Provide, RunTask, Run | kernel | blocking send under a lock |
| job scheduler (`pkg/conc/scheduler`) | work queue, open batch, ticker, batch queue | ScheduleJob, createBatches, executeBatches | batch runner | ticker state over several branches; stop with callers waiting |
| backoff executor (`pkg/exec`) | attempts, delayed contexts | Execute | all clients | a late cancel against the last attempt |
| circuit breaker (`pkg/http`) | number of failures and time of the next try, two atomics | Get, Post, ... through doRequest | http client | concurrent requests without a lock; a probe that is canceled |
| metric daemon (`pkg/metric`) | batches per interval | Run, Write, flush | metric writers | flush at the stop |
| chained kvstore (`pkg/kvstore`) | stores, missing-value cache | Get, Put, Delete | stores | cached absence after a Put |

The other parts (configuration, logging, tracing, http and grpc servers, repositories, redis and blob clients, fixtures,
test suite, cli) are adapters, sequential data conversion or set-up code; `PROJECT.json` lists each with the reason.

What makes the modelled parts correct:

- kernel: the exit code says whether a module failed; lower stages outlive higher ones; nothing keeps a kernel running
  that has nothing left to do; every stop ends in an exit;
- consumer: no payload disappears without an acknowledgement, a retry or an error; nothing is deleted before it is
  consumed; a stop drains the channels;
- producer: messages leave once, in order, in bounded batches, and all of them before the daemon reports that it stopped;
- shard reader: at least once (the record never is ahead of the handler), one reader at a time, takeover after a crash;
- kafka consumer: at least once per partition, nothing in work after a partition was given away, Stop ends Run;
- kinsumer: parents before children, each shard with one reader once the clients agree, and with some reader in the end;
- lock: one owner at a time, and no lease without an end: a lock with leases;
- circuit breaker: one request at a time while it is open, spaced by the delay; it opens and closes with the other side;
- task runner and scheduler: what was accepted is run, callers get one answer, a stop ends Run.

## Modules

One module per component with its state as VARIABLES and one action per step of a goroutine. A step ends where another
goroutine or another process can see a difference: at a channel operation, a lock, an atomic, a call to a store. Every
`MC*` module instantiates one component for TLC. `*Proofs` modules hold theorems. Definitions whose comment starts with
"Mutant:" are faulty variants of the definition after them; no specification uses them.

### Kernel

`runPc`/`cur` is the goroutine in `Run` with the loop of `runStages`, `spawner` the goroutine of `stage.run`, `phase` and
`outcome` a module's goroutine (`runModule`, the coffin function around it, its unwinding), `stopIdx`/`stopPc` the
goroutine that `Stop` starts, `timer` the goroutine of `killIfNotStopped`, `sigPc` the signal goroutine. `dying` and
`tombErr` are a stage's coffin: the first non-nil kill reason is kept (`Kill`) and `Wait` returns when no goroutine is
left (`Drained`). `ModuleExited` is `runModule` after the module has returned: essential, failing and last foreground
modules stop the kernel. `StopKill` and `StopCollect` are `stage.stopWait`. A module ends with nil, an error,
`context.Canceled` or through `Goexit`, at any time: nothing is assumed of it, except by `StopDrains`, which is about
modules that heed their context. A panic of a module is an error, as the coffin makes it one. The exit handler is not
the end of the behaviour: an application can install one that returns.

### StreamConsumer

A message carries units (payloads), one or several in an aggregate. `Receive`, `PumpEnds` are an input's loop, `Shovel`,
`IngestEnds` the goroutine per source of `ingestData`, `Take` the handover to a runner, `Process*` the outcomes of
`process` for one unit (acknowledged, not acknowledged, panic, not decodable, shutting down), `Acknowledge` the end of a
message. A message that cannot be disaggregated ends in the handover (`DisaggregateFails`), and the acknowledgement before
the callbacks may fail. Channels are unbuffered, so a step hands over a message. `settings` chooses an SQS input, which redelivers, or
one that does not, and the aggregate mode. `RedeliverIdle` is the visibility timeout of a message nobody works on,
`RedeliverEarly` that of one still in work. `reported` are units given up with an error in the log.

### BatchConsumer

Extends `StreamConsumer`: inputs, shoveler, retry and stop are the same, and `settings.batch` chooses who takes messages
from the data channel, so one run has both consumers. `Collect` appends the parts of a message to `batch`; a full batch,
the ticker or the closed channel pass it to the callback (`taken`), which answers per message; in one batch some may be dropped
as not decodable, some refused, which go to the retry handler, and the rest is acknowledged in one call. There is one runner, the default of `RunnerCount`: more of them share
the slice and the ticker without a lock, and the code gives no meaning to that.

### ProducerDaemon

`job` is the work of the holder of `d.lck`. `Write` takes the lock with a number of messages, `ApplyAggregation` takes
them one by one (`PassOn` without aggregation, `Aggregate` in the aggregator of the message's bucket, which may flush
before and after it), `AppendItem` gives the items to the batcher (`BatcherAppend` with its two flushes), `FlushBatch` and
`Output` (blocking on the full channel) follow, `Unlock` ends. `Tick` and `Close` flush with the same steps. Messages are
numbered as `Write` accepts them, and have a size and a bucket of the partitioned aggregator (one bucket is the plain
one). The buffer of an aggregator is its messages and its length in bytes; brackets, separators and the encoding around an
aggregate count as in the code, and each entry of a batch records the batcher's size after it (`total`). A batch that
`Write` flushes resets the ticker: it is `postponed` until the interval after it is over (`Rearm`). `BusyWrite` is a Write of
messages that are not counted and fill aggregates and a batch of their own: the traffic that can reset the ticker without end. `late` are
messages accepted after the channel was closed, which the code drops or keeps for a restart. `AggregationSize` is chosen
in `Init`, so that one run sees the daemon with and without aggregation.

### ShardReader

Two goroutines per client: reader (`pc`) and persister (`ppc`), one checkpoint (`cp`) behind an atomic `slot`. `AcquireGet`
and `AcquirePut` are separate: what was read may be outdated when it is written, except for what the condition of the
PutItem excludes. A shard iterator is a position; one that has expired is replaced by that of the checkpoint in the slot
(`IteratorExpires`). Sequence numbers count from the initial position on, `TRIM_HORIZON` or a timestamp. Time is relative
(`age` of the record, `getAge` of a client's copy). `Timely` are the clients that persist within the timeout while they
are alive; any other one can be overtaken while it goes on reading.

### Kinsumer

The group above the shard readers. `Register`, `CountClients` and `ListShards` are the three parts of `refreshShards`, with
other clients, splits and crashes between them; `view` is the `runtimeContext` that decides whether readers are restarted,
`Assigned` the stride of `startConsumers`. `IsShardFinished` reads without consistency: a stale read is a fault, and a
client then misses finished shards. `stop` is `setStop` and `Stop`, whichever comes first. A reader is what
`ShardReader` shows of one: it asks for a shard that nobody owns (`GetShard`, the GetItem), acquires it (`Acquire`, the
PutItem, a step of its own), finishes it, or gives it back; `OwnerExpires` is the takeover. The condition of the PutItem is
about the owner only, so a late one takes back the `finishedAt` another client has written: `finished` is what the table
says, `consumed` what really has been read to its end. Splits and merges, retention, expiring client records and crashes are actions of the environment.

### KafkaConsumer

`run` is the poll loop, `gor` a partition's goroutine, `cb` the callback that franz-go executes, `group` who has a
partition. While records are between a poll and `AllowRebalance` no callback starts (`RebalanceBlocked`); the callbacks
take several steps and interleave with the poll loop, the goroutines and the stop. Another member may take, consume and
leave a free partition. A commit may fail, the context may end before the callbacks have been waited for. `pos` is where
the client fetches next. A poll that brings an error beside records moves it on as well, and its records are `dropped`:
by `PollAgain` where the code retries, by `PollFails` where it ends Run. `HandleRecords` may panic after any record of its batch;
the rest of the batch is dropped, too, and all of it is committed, as in `handleWithRecovery`.

### DdbLock

True time in ticks, a clock per client that is ahead by `skew`, the ttl in whole seconds as in the code. Reading the
clock and applying the conditional write are separate steps, so calls arrive late; `AcquireError` and `RenewError` lose
the answer of a call that was applied or not. `TtlDelete` is DynamoDB's own deletion. A crash forgets the lock object.
`LeaseLock` is the abstract lock that callers rely on: at most one client has a lease, it is bounded, it is renewed, given
up or runs out. `ImplementsLease` maps what is left of a client's lease to its lock object and its own clock.

### CircuitBreaker

Each atomic operation of `isCircuitOpen` and `doRequest` is a step: load of the failures, load of `nextRetryAt`,
compare-and-swap, store, add. Time is relative to now (`wait`), and `mine` is the time a goroutine has computed and not yet
written, so a goroutine may stall between reading the clock and writing, by up to `MaxStall`. `remote` is what becomes of a
request: a response with a status, an error, or nothing until the deadline of the request, which counts as a canceled
request. `expected` is `ExpectedStatuses`, `{}` its default, with which a response of any status is a success. A request that
cannot be assembled (`BuildFails`) counts like a failure of the other side, as `isRemoteFailure` sees only the error.

### TaskRunner and Scheduler

`TaskRunner`: the channels (`Provide` replaces the channel of the shared runner), the lock, one caller per task and the
goroutine of `Run`, which may prefer a done context to a pending task, as Go's select does. `Scheduler`: `createBatches`
with its open batch, ticker and three branches, the two queues at capacity `RunnerCount`, the runners with a verdict per
batch and the callers that wait for one answer each.

## Runs

TLC checks all of these completely. A bound named `Max*` limits how often something happens, not what may happen.

| run | bounds | shows |
|---|---|---|
| `kernel` | two stages; a foreground module in the first, in the second a foreground one and an essential background one; two of the four endings each (an error and a cancellation meet in the second stage); the first stage may miss its health timeout; two signals | exit codes, shutdown order, when the kernel stops, that a stop exits and drains |
| `producer` | one writer, any busy traffic beside it, two runners, three messages in calls of up to two, two buckets, sizes that leave room, fill an aggregate or fill a batch, channel for one batch, two items per batch, one or two messages per aggregate, one restart | order within a bucket, completeness at the stop, bounds of batches, delivery, return of Run |
| `consumer` | an aggregate of two and a single, one fault (failure, panic, redelivery, failing call, a message that cannot be disaggregated); two runners with an SQS input, one with an input without redelivery, and the batch consumer with batches of two on both | nothing lost or deleted early, all consumed, drained |
| `consumer_lost` | SQS input, mode `atLeastOnce`, one aggregate | a part is lost (violation) |
| `shard` | two clients, one of which may be late to persist, two records, batches of up to two, timeout of two ticks, one fault (crash, cancellation, failing read, expired iterator) | at least once, finished shards, one reader, progress |
| `kinsumer` | two clients, a shard that is split into two, one fault (crash, failing call, failing reader, stale read, lost registration) | parents first, the split of the shards, every shard served, Stop ends Run |
| `kinsumer_merge` | two shards that are merged | the child is read before its second parent (violation) |
| `task_runner` | four tasks; a channel with room, one that runs full, one that is replaced | nothing is sent on a closed channel; accepted tasks run, but for two named states |
| `scheduler` | four jobs, two runners, batches of two | every job in one place, answered, Run returns |
| `ddb_lock` | two clients with clocks apart by the margin, eight ticks of half a second, two locks each, one fault; clients are symmetric | exclusion, coverage, bounded leases, and that the lock implements `LeaseLock` |
| `kafka` | a partition of two records and one of one, batches of up to two, three rebalances, failing polls and commits, panics of the handler, the end of the context | nothing is skipped but what the code throws away, revoked means finished, no panic in the stop, Run returns unless it is blocked on a goroutine that is gone |
| `circuit_breaker` | three concurrent requests, two statuses, the default settings and one expected status, a limit of two failures, a delay of three ticks, stalls of one, one request that is canceled or cannot be assembled | probes are spaced, the circuit opens and closes |

Why these bounds: the properties speak of two stages, two clients, two partitions or two neighbouring messages, and each
queue or channel can be empty, full and in between. Two stages give a lower and a higher one, and the theorems cover any
number; two foreground modules that are not essential have the counter come down to the last of them, the background module
stops the kernel by being essential. Two units in an aggregate give a part before and a part after the one that fails. Four jobs fill the open batch,
both queues and a runner. Three messages in two buckets leave one aggregate open while another is full, and three items
are one more than a batch takes. Two clients and a split give each order of registration, listing and finishing. One fault can come at any step. `MaxRebalances = 3` lets a partition be assigned, revoked and assigned again. Eight ticks hold a
lease, the margin after it and a second lease. Deadlock is not checked where the system may rest: a consumer without messages, a scheduler
without jobs, a group whose clients have ended, a bounded clock. It is checked in `kernel`,
where `Left` is the application that has ended, and in `shard`, where clients come back and time goes on.

### Fairness

- Goroutines that can run do: weak fairness per goroutine, for the consumer and the producer's output loops even only
  that some of them runs while one can. A goroutine with several ways to go on has one condition for
  all of them, so the choice of a select is never fair, except for the scheduler's `Leave` and `BatchTick` (strong: a select
  that always finds a done context or a tick among its ready cases takes it at some time, as Go chooses at random) and
  the task runner's lock (strong: Go mutexes hand over to a waiter after a millisecond).
- Timers that run fire: the kill timer, the tickers (the producer's only while Write does not reset it: `EventuallySent` has
  the hypothesis that this comes to an end), the time of DynamoDB and the visibility timeout of a queue.
- Callbacks and outputs return. Nothing is assumed of modules, of callers of Stop or Write, of signals or of faults.
  `StopDrains` of the kernel assumes modules that return once their context is done, as `kernel/module.go` asks of them.
- Shard readers come back after they ended (`Restart`). `kinsumer` starts its consumers again when a refresh shows a change
  of the clients or the shards, and a reader that fails ends Run, so that the process is started again; the fairness
  stands for either, and `Kinsumer` has the first of them, with the case in which nothing changes (`Abandoned`).
- Kafka: the poll loop, the callbacks, the goroutines; a closed client leaves its group.
- Kinsumer: each client goes on once it has started (its `discoverTicker` fires), some reader goes on while one can, client
  and ownership records expire, and only finitely many reads of the checkpoint table are stale. Nobody has to start, split or crash.
- Circuit breaker: requests keep coming in every goroutine and time passes; `Opens` and `Closes` are about another side
  that has changed for the last time.

What is sent, consumed or stopped stays so; the properties that these eventually happen are therefore written as `[]<>`,
which says the same as `~>` or `<>` here and which TLC checks in one pass.

The type invariants are checked in `kernel` and otherwise proved, or kept as the documentation of the state.

## Proofs

For every value of the constants, under the ASSUME of the component's module only, unless said otherwise.

**KernelProofs.** Any number of stages, any finite set of modules in any of them, any combination of essential and
background modules and any endings. `KernelInv` is the inductive invariant: stages that `runStages` has not come to
have no spawner (`BootInv`); a stage that signals running has started all of its modules (`SpawnInv`); the stop goroutine is at stage
`stopIdx`, all stages above are terminated and have only dead modules, below none is (`StopInv`); the error kept by a
terminated stage tells exactly whether one of its modules failed (`ErrInv`); the exit code, the code loaded and the code
reported follow from it (`ExitInv`). `ReverseShutdown`, `VerdictExact` and `CleanExit` are not inductive: what a coffin
keeps says nothing by itself, since `ErrKernelStopping` may have been first; only the collection in `stopWait` after
`Wait` has the stage's own error. `ModulesStopKernel` and the type of the counter rest on `CountInv`: the counter is
the number of foreground modules that are essential or have not exited (a cardinality), and a module between its exit
and its call of Stop accounts for every moment at which the kernel should stop but has not.

**ShardReaderProofs.** Any number of clients, any shard and batch length, any of them persisting in time or not (`Timely`),
any number of faults: the persisted sequence number is never ahead of the handler (`CheckpointCovered`), and
a finished shard is a handled one. `ShardInv` adds for each client that everything up to the number it has read, its
checkpoint, its iterator and its place within the batch has been handled. Takeover needs no ownership: a
client that lost the shard can only write what has been handled, which is why these proofs do not depend on time.
`ReadIsExclusive` does: it has the hypothesis `MaxStall < Timeout` (a PutItem that takes as long as the timeout
stores an `updatedAt` that is outdated at once, and the next client may take over). `HoldInv` says that a timely client that
has acquired the shard, or reads it and is not canceled, is the owner in the record; this needs that it has not timed out
(`FreshInv`) and that a persister gives the shard back only when its reader is past the end or canceled (`PhaseInv`).

**KinsumerProofs.** Any number of clients, any tree of shards, any number of faults. `SplitsInOrder` is `ParentFirst`
where no shard has an `AdjacentParentShardId` (with one it is false, see the findings). It is not inductive: a client owns
a shard because of a list it made long ago. `OrderInv` says of everything in a view, in a reader or in the table that it
is a shard of the stream whose parent is consumed or not listed (the table's `finishedAt` would not do: it can be taken back); that this lasts needs `Family`: the parents of a shard
the stream has ever had are closed, so a parent that was trimmed is never listed again. `AgreedPartition` is `Partition`:
`ReadersInv` ties the readers of a client to its view between restarts (up to shards that are consumed), and `PlaceTaken`
shows that the places in a sorted list are exactly the numbers below its length, each taken once, by cardinalities of
finite sets; so each residue of the stride has one client.

**CircuitBreakerProofs.** `ProbesSpaced` for any number of goroutines, limit, delay and stall. `BreakerInv`: what a
goroutine is about to write is a fresh time (`Fresh`); a failure that is not yet counted has its time in place already
(`StoredFirst`, which is why the store has to come before the count); whoever may still win the swap has seen the time
that is in place, and it is past (`SwapIsDue`); waiting time and time since the last probe or failure add up to the delay,
up to two stalls (`Spaced`).

**StreamConsumerProofs.** Both consumers, for any units, aggregates, runners, batch sizes and number of faults.
`OnlyConsumedAreDeleted` is the action property `DeletedWereConsumed`, for all settings. `NoUnitDisappears` is
`NoneLostInBatch` under `SafeSettings`, which excludes exactly the combination of the first finding: aggregates of an input
that redelivers, acknowledged last, with the plain consumer. Neither follows from itself. `ConsumerInv` says of every
message that some goroutine has in its hands (`InHand`: in a loop's channel, with a runner, in a batch) that the queue still has
it if it can redeliver it, or that it is consumed, or an aggregate of the plain consumer (`KeptInv`), so that a unit that is not
put into retry because it "comes again" really does; that a verdict to acknowledge came from the callback (`AckInv`); that
only one runner has a batch (`RunnerInv`); and what the input and the retry handler make of units (`ShapeInv`: a single
message has one unit, which is why deleting the message of a consumed unit deletes nothing else). `QueueStep`, `HandStep` and
`DeleteStep` say once what any step does to the queue and the messages in hand. That no unit is lost then has one lemma
per place a unit can be in.

**KafkaConsumerProofs.** Any number of partitions, records, rebalances and failing commits. `KafkaInv` has the state of
the poll loop and of Run's end (`LoopInv`), what a callback has done so far and whom it still waits for (`CallbackInv`), which
partitions are in the map while a goroutine or a callback has them (`MapInv`), and that the records up to the committed
offset, those up to the offset a goroutine is about to commit, and those before what was fetched last are handled or dropped
(`OffsetInv`; while a goroutine is within a batch, that holds of the parts before and after what is left of it).
`RevokedAreFinished` and `NeverPanics` follow from who may have a partition when; `CommittedWereHandled` needs `OffsetInv`,
since the record handled last and the offset committed later are steps apart, with a rebalance possible in between. A
record is dropped only by `PollAgain`, `PollFails` and a panic in `HandleRecords`: the theorem says that nothing else skips one.

**ProducerDaemonProofs.** Any number of writers, runners, buckets, messages and restarts, any message sizes and limits,
writes before Run included. Five invariants, each with one lemma per action:

- `TypeInv`: the types, and that what is left of a call of Write fits the bound on messages;
- `BoundInv`, for `BatchBounded`: an open batch always has room for one more message and is below the byte limit up to its
  last entry, whose total is the size the batcher keeps (`OpenOK`); `OpenAppend` says what adding an entry does to such a
  batch. Aggregators have room for another message, so without aggregation they are empty;
- `ControlInv`: only Run closes the channel, at the end of its flush; a runner leaves when the closed channel is empty, and
  Run returns after the last of them. A restart therefore throws no batch away;
- `OrderInv`, for `InOrderOnce`: the six stages a message passes through, each before those after it in the order of every
  bucket (`Chain`), and the messages of an aggregator are all of its bucket (`BucketOrder`). The second is what makes
  the first inductive: when a full aggregate is flushed it overtakes the other buckets (`TakeBucket`), and the message that
  made it full stays behind or goes along (`AddToBucket`). That no message is in two places follows, since none is before
  itself. `BeforeParts`, `OrderAppend`, `OrderTail`, `ChanAppend` and `ChanTail` are the lemmas on sets and sequences;
- `SentInv`, for `StoppedMeansSent`: once the channel is closed, all that is still collected was written late; what was read
  has been sent or is in a runner's hands; and when Run has finished its flush, which it does in one hold of the lock,
  aggregators and batcher are empty.

**ConcProofs.** TaskRunner, for any number of tasks, channels and any capacity: `PendingIsKept` needs `SenderInv`: who holds
the lock has looked at `done` under it, so the channel it sends to is open, and only Run closes the channel the runner
points to.

Scheduler, for any number of callers and runners and any batch size: `WaitingOnce` is inductive once the lists are taken
apart. `SchedulerInv` says that no list has a job twice (`OnceInv`), that the lists of createBatches, the queued batches
and the runners share no job (`ApartInv`), and that the callers waiting are those whose job is in one of them (`WaitInv`).
Each action then takes a job or a batch from one end of a list to another list; taking the first batch also renumbers
the queue. `SchedulerTypes` adds the bounds: no batch, in the making, queued or in work, exceeds `MaxBatchSize`, and neither
queue holds more entries than there are runners.

DdbLock: exclusion (`LockExcludes`), coverage (`OwnerCovered`), bounded leases (`LeaseEnds`) and types
(`TypesHold`) for any number of clients, tick length, lock time and margin, under `Trusted`: clocks differ by no more
than the margin (five seconds in the code), and Renew is not called with less than the lock time. The second is needed:
`Renew` replaces the lease, so a shorter one makes the ttl run out before the expiry the lock object had. `LockInv` is
coverage with `LeasesEnd`: a call in progress carries a time that has passed, and no lease ends later than one renewed
at that time. The arithmetic of whole seconds is in `UnixBounds`, `UnixShift` and `UnixMonotone`. `LockIsLease` is the
refinement: every step is a step of `LeaseLock` or leaves what is left of the leases alone. The interesting steps are a
renewal of a lease that has run out, which is an Acquire of the abstract lock and needs that nobody else owns it, and a
PutItem whose answer comes after the lease it has granted.

**Only model-checked.** All liveness properties: the prover does not handle fairness and ENABLED. Every invariant, action
property and refinement that a run checks is also a theorem; those with a hypothesis say so above (`SplitsInOrder`,
`NoUnitDisappears`, `ReadIsExclusive`, and the lock under `Trusted`), and the runs with an expected violation show why two
of them need it.

## Findings

Two runs end in a violation of what the code's comments say; `PROJECT.json` quotes them.

1. `consumer_lost`: with `atLeastOnce` and an input that retries by itself, the result of a part of an aggregate is
   dropped and the aggregate is acknowledged: a part that failed or met the shutdown is gone.
2. `kinsumer_merge`: `listShardIds` looks at `ParentShardId` only; the child of two merged shards is read as soon as the
   first of them is finished, although `KeepShardOrder` is set.

Met while modelling, described here and kept in the models as the code has it:

- `stream/producer_daemon.go:276`: a Write before Run that fills the output channel blocks with the lock that Run needs to
  start (`EarlyWrites`, off in `producer`). Messages written after the channel is closed and before Run returns stay in
  the aggregator or are dropped, and Write reports success (`late`; known to the code, `output_channel.go:42`).
- `stream/producer_daemon.go:304`: Write resets the ticker with every batch it flushes, so a bucket that fills batches faster
  than the interval keeps the messages of another bucket waiting, without an end; the comment at 71-76 has their time
  bounded by `Interval` (`postponed`, and the hypothesis of `EventuallySent`).
- `conc/task_runner/task_runner.go:133`: a caller blocked on the full channel holds the lock that Run needs to close it
  (`Deadlocked` in `PromiseKept`).
- `kafka/consumer/partition_manager.go:145`: after a failed commit the partition's goroutine is gone but its channel is
  still in the map; the poll loop blocks on it and Stop has no effect (`HandleBlocked` in `ReturnsUnlessBlocked`).
- `kafka/consumer/consumer.go:170`: a poll that brings an error of the connection beside records is polled again; the
  client's position has moved on, so those records are skipped and a later commit goes over them (`PollAgain`).
- `kafka/consumer/partition_consumer.go:105`: a panic of the message handler is recovered, the rest of the batch is not passed
  on, and the batch is committed (`HandleRecords`).
- `conc/scheduler/scheduler.go:89`: ScheduleJob does not look at its context; a job that is in the work queue when Run
  ends, or comes later, blocks its caller.
- `stream/consumer_batch.go:143`: with `RunnerCount` above one the runners share batch and ticker without a lock.
- `stream/input_sqs.go:239`: the parts of an SQS aggregate have no receipt handle, so the aggregate is never deleted by
  the batch consumer and comes again (`Deletable`; the run has no aggregates for that input). A panic of the
  callback drops the whole batch of an input without redelivery, with an error in the log.
- `http/circuit_breaker.go:131`: without `ExpectedStatuses`, the default, no response is a failure: another side that answers
  each request with a 500 never opens the circuit (`IsRemoteFailure`; `Closes` has it closed then).
- `http/circuit_breaker.go:128`: a request that ends at its own deadline counts as canceled, so another side that hangs
  never opens the circuit ("hung" in `CircuitBreaker`; `Opens` is about one that fails).
- `exec/executor_backoff.go:142`: `attempts > MaxAttempts` is never true, since line 109 stops at `>=`;
  `ErrAttemptsExceeded` is not returned.
- `conc/ddb/ddb_lock_provider.go:166`: a renewal that DynamoDB applies after its caller has given up, and after a later
  renewal, would set the ttl back; the model has no such write.
- `kernel/stage.go:94`: a stage counts as booted when its modules report healthy; modules without a health check may not
  have run yet when the next stage starts (`kernel/module.go:142`: "Modules with a smaller stage index are booted sooner").
- `kernel/kernel.go:297`: the graceful exit reads the code before a concurrent `forceExit` stores its own, so the forced
  code is not "sticky" (comment at 290) for it.
- `kernel/stage.go:187`: after a health timeout the stop waits for stages that were never run; lower stages keep running
  until the kill timer ends the process (`BootCutShort` in `StopDrains`).
- `stream/producer_daemon_batcher.go:102`: a message that reaches the size limit by itself is put together with the batch
  before it, and exceeds the limit (`BatchBounded` therefore speaks of a batch without its last item).
- `cloud/aws/kinesis/metadata_repository.go:319`: the condition of the PutItem does not look at `finishedAt`; a shard
  that was finished after the GetItem can be acquired again, and is read once more from its last position. If the client
  that did this leaves before it has finished the shard again, the others have the shard in their lists already, see no
  change (`kinsumer.go:265`), start no reader, and its children wait (`Abandoned` in `EventuallyServed`).
- `cloud/aws/kinesis/shard_reader.go:292`: the persister may have loaded a checkpoint that the reader releases; the
  poisoned lock makes its Persist fail and the reader's Run return an error.
- `cloud/aws/kinesis/shard_reader.go:413`: `time.Duration(millisecondsBehind)` compares milliseconds as nanoseconds
  (a matter of waiting times, which are not modelled).
- `conc/task_runner/task_runner.go:112`: the range reads `s.pendingTasks` without the lock; a Provide in between replaces
  it by a channel that nobody closes (`RangesOverOpen`), and tasks sent to the other one are not run (`Stranded`).
- `conc/ddb/ddb_lock_provider.go:160`: Renew may shorten a lease, `conc/distributed_lock.go:36` says "extends".
- `kafka/consumer/partition_manager.go:145` and `:85`: once the context has ended, Stop does not wait for the callbacks;
  an assignment that passed the check of `stopping` then calls Go on a dead coffin, which panics (`NeverPanics` is
  stated for a context that goes on).

## Not modelled

- Kernel: the blueprint, factories and middleware that run before or around `Run`, the config and health servers.
- Consumer: disabled retries, ignorable errors, health timers, inputs other than SQS and one without
  redelivery (the Kinesis and Kafka inputs have modules of their own), a batch consumer with several runners. Producer:
  compression (a size stands for it), panics of the output.
- Kinsumer: metrics and health, the time between refreshes, failures to read which leave a reader's shard untouched.
- Circuit breaker: which errors count (one kind of each is modelled), retries of the client below it.
- Shard reader: waiting times; the iterator saved beside the sequence number, which goes back by at most a batch; `LATEST`
  as the initial position, which is another place each time it is asked for.
- Kafka: the consumer without a group, partitions that are lost instead of revoked (another member may have them before
  the callback runs), retry intervals of a poll.
- Lock: an UpdateItem that DynamoDB applies after its client has given up on it; the watcher, which only logs.
- Metrics, logs, traces everywhere.

## Plan

1. `ShardReader` as an implementation of the reader in `Kinsumer`.
2. The chained key value store: a Get that found nothing against a Put (the missing-value cache), and against a Delete
   (the lower levels are filled again); leader election beside `DdbLock`, without a margin for clocks.
3. `Coffin` as an abstract specification for what `Kernel`, `KafkaConsumer` and `TaskRunner` assume of it.
4. The backoff executor, metric daemon and the record writer of Kinesis.
