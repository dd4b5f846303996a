# A TLA+ model of LogForge

LogForge takes batches of log records over HTTP and stores them by hour. In
version 1 (direct mode) `ProcessBatch` writes to the repository itself. In
version 2 (queue mode) it hands the batch to a producer that publishes to
Kafka, and consumers of the same process persist what they fetch. A background
goroutine summarises the stored hours.

    HTTP handler -> IngestionService -> ProducerService -> Kafka
                         |                                   |
                    (version 1)                       consume goroutines
                         |                                   |
                         v                          consumerBatchWriter -> DLQ
                    Repository (files or MinIO) <------------+
                         |
                    aggregation -> analytics summaries

This directory holds the specifications (`*.tla`), their small instances for
TLC (`MC*.tla` with `*.cfg`) and proofs checked by TLAPS (`*Proofs.tla` and
`ConsumerInv.tla`). `PROJECT.json` lists components, runs, the map from
definitions to source lines, findings, hazards and theorems.

## Inventory

| Part | Source | State it keeps | Module |
| --- | --- | --- | --- |
| Consume goroutines | `internal/queue/kafka_queue_consumer.go` | `activeConsumers`, the reader's position, the message in hand | `Consumer` |
| Batch writer | `service/consumer.go` | `pending`, its context, `done`; batches being persisted | `Consumer` |
| Producer | `service/producer.go` | `workCh`, `started`, `closed`, the two atomics of the circuit breaker | `Producer` |
| Ingestion | `service/ingestion.go` | `closed` | `Producer` (queue mode), `DirectServer` (direct mode) |
| HTTP handler | `internal/http/handler.go` | none: decisions about one request | `Handler` |
| Lifecycle | `cmd/bootstrap/app.go`, `cmd/main.go` | how far `Run` has come, the requests being handled | `Server` |
| File repository | `repo/file_repo.go` | `fileLocks`, the hourly files | `FileRepo` |
| File aggregation | `service/aggregation.go` | the summaries and both modification times | `Aggregation` |
| MinIO repository and aggregation | `repo/minio_repo.go`, `service/minio_aggregation.go` | `objectSeq`, `writerID`, the bucket, the summaries | `MinIO` |
| Kafka health | `internal/queue/kafka_queue.go` | the up gauge, `kafkaDown`, `lastWriterLogNs` | `KafkaHealth` |
| Retry delays | `util/retry.go` | none: functions | `Retry` |
| Metrics, configuration, logging, profiling | | nothing the pipeline reads | not modelled |

How the modules use one another (an arrow is `EXTENDS`):

    Handler <- Server <-+- QueueServer  -> Producer      requests to the topic
                        +- DirectServer -> FileRepo      requests to the files
    FileRepo <- Aggregation                              files to summaries
    Consumer <- ConsumerDelivery (implements Delivery)   topic to the repository
    Retry <- KafkaHealth
    MinIO

and the proofs, each module extending the one before it and what it is about:

    Consumer <- ConsumerInv <- ConsumerProofs
    Producer <- ProducerProofs <- QueueServerProofs
    FileRepo <- FileRepoProofs <- FilePipelineProofs (DirectServer, Aggregation)
    MinIO <- MinIOProofs
    KafkaHealth <- KafkaHealthProofs

## The modules

**Consumer.** Every goroutine has a program counter: the readers run `consume`
and, through the handler, `Add`; `Flusher` is `flushLoop`. One action is one
step between points where another goroutine can interfere: `AddAppend` is the
part of `Add` under the mutex; `SaveBegins`, `SaveSucceeds`/`SaveFails`,
`WriteDLQ` and `CommitNext` are the stages of `persist`, which both kinds of
goroutine can be in at once. A failed `SaveBatch` may have stored any part of
the batch. `committed` is the broker's offset: committing a message sets it to
the offset after the message, whatever it was. A commit that reports an error
may have been applied. `Crash`, or `CloseReturns` after `Sigterm`, ends the
process; `Restart` resumes at the committed offsets. The variables under
"History" are not in the code and no guard reads them, except that the number
of restarts is bounded. Partition assignment is fixed (no rebalancing within a
process's life).

**Delivery** is what the consumer promises, with one variable: the place of
each well-formed message, which is `queued`, `held`, `flushing`, `settled` or
`lost`. A message moves forward only. The end of a process gives what it held
back to the queue, and only a message in a batch at that moment may be lost.
`ConsumerDelivery` reads the place of a message off the state of `Consumer`
(the mapping is `PlaceOf`) and states that `Consumer` implements `Delivery`.

**Producer.** Calls and workers share `tryEnqueueWithRetry`. Loads and stores
of `consecutiveFailures` and `circuitOpenUntilNs` are separate steps, as are
the check of `closed` and the send. `stage` is the progress of shutdown in the
order of the cleanups of `BuildApp`. A publish that fails may have reached the
broker. The Kafka writer is synchronous (`kafka.async: false`, the shipped
configuration); whole batches are written or not.

**Handler** has the decisions of `handleLogs` as operators. `Refusal` is the
status before `ProcessBatch`, from the method, the key, the decoders and
`validate`; `StatusOf` is the status for what `ProcessBatch` returns. A record
keeps what the decoders look at, namely whether its time is set and whether its
path and user agent are blank. Rows of a CSV body also have a width.

**Server** is `Run`: building, serving, draining (`server.Shutdown`, with its
ten seconds), closing (the cleanups) and exited, beside the requests that
net/http is handling. `expired` records that Shutdown gave up on some of them.

**QueueServer** composes `Server` with `Producer`. `BuildApp` starts the workers
before the server listens; a request is one call of `ProcessBatch`, whose return
is the response; the cleanups are the `Shutdown` of `Producer`, and a request
that outlived the deadline goes on beside them until the process exits. The last
cleanup is the consumer's `Close`, which waits for `w.done` with no limit. Of the
consumer only that is here: `writerDone`, set by `FlushLoopEnds` when `flushLoop`
has made its final flush. `Run` exits after it.

**DirectServer** composes `Server` with `FileRepo`: the response is what
`SaveBatch` returned. The process may be killed in the middle of a write
(`CallsDie`) and be started again on the files it left.

**FileRepo.** Calls of `SaveBatch` group their records, then take one path
after the other, in any order. A record is its call and its position in the
batch; of a group, the set `rest` is still to write, `Earliest` first. A file is
a sequence of chunks, one per `Write`; a failing `Write` may leave a line cut
short or without its newline, and whatever follows continues that line. The end
of the process may do the same to the line being written (`Torn`). `Readable` is
what a line scanner and `json.Unmarshal` get out of the file.

**Aggregation** extends `FileRepo`: the same calls, with the files' modification
times, beside the aggregation goroutine. `Scan` is one step because files only
grow: a scan has counted what the file held when it met its end.
`os.WriteFile` is two steps, `Truncate` and `Fill`. Several writes may fall in
one tick of the clock.

**MinIO.** Replicas put shard objects whose keys hold the hour, the writer and a
sequence number. The aggregation of one replica lists, parses keys
(`parseHourFromObjectKey`), tests and counts. The listing comes in pages: it has
every log that was there when it began (`ListBegins`) and any of those put until
it ended (`ListLogObjects`), or it fails on the way. A key is its path and the
stem of its name, whose parts are dates, hours or something else. The bucket may
hold shards of earlier processes, objects of the former layout, one per hour,
and foreign ones. `MinIOAssumption` says of them that no earlier process had the
writer ID of a later one, as the ID has the process's number and start time in
it, and that what lies where an hour's logs lie (`LogOf`) holds that hour's
records. The store's clock differs from the replica's by `Skew`, zero in the
run. A call that has only grouped its records has done nothing others can see,
so `Restart` leaves it to start in the new process.

**KafkaHealth.** Consume loops, readiness checks and the Kafka client's error
callbacks update the gauge, the flag and the stamp of the writer's log; each
access to an atomic is a step. `streak` counts failed fetches in a row and is
not in the code. `Retry` has `NextRetryDelay` and `JitterRetryDelay` on integers
that wrap around past `MaxDuration`.

Definitions described as faulty in their comment are variants of the definition
that follows them with one plausible mistake. No specification uses them; each
shows that some property would notice that mistake.

## What TLC checks

| Run | Instance | Shows |
| --- | --- | --- |
| `consumer_crash` | 1 reader, 4 messages (one malformed), flushSize 2, 1 restart | commits follow persistence, what is fetched or committed is accounted for, one process stores a message at most once, `Consumer` implements `Delivery` |
| `consumer_two` | 2 readers and partitions, 2 messages each | batches stay within flushSize, `activeConsumers` is exact; shutdown ends and a fetched message is settled, unless the disk never answers |
| `queue_async` | 2 requests, 2 workers, buffer 1 | accepted batches are never lost and are delivered, refused ones never published, after Close all are settled; a shutdown within its deadline is invisible to requests; no 500; requests are answered; SIGTERM ends the process unless a file operation hangs |
| `queue_sync` | 4 requests, threshold 2 | the breaker's counter cannot stick, the circuit closes only for a reason, and the same of shutdown |
| `direct_append` | 2 requests, 2 hours, opposite orders, a kill and a restart | groups are contiguous and in order, a 202 means written, a torn line ends its request, all formats decode alike, requests are answered |
| `aggregation_passes` | 2 calls, 2 hours, 2 ticks, 1 fault | summaries hold their own hour's records; a stale summary is refreshed, except for records of the scan-to-write window |
| `minio_replicas` | 2 replicas, 2 calls, an older shard, a legacy and a foreign object, 2 ticks, 1 fault | objects are never overwritten, saved records stay stored once, summaries hold their own hour's records, an hour with a newer object is summarised again |
| `kafka_health` | 2 readers, 2 writers, 1 probe, 2 brokers, 4 failures | waits follow the number of failures, log lines are spaced, gauge and flag recover after an outage |

Four more runs show the code doing something other than what a document or
comment says; `findings` in `PROJECT.json` quotes both sides.

| Run | What happens |
| --- | --- |
| `consumer_gated` | `Add` commits a batch past an older one that `flushLoop` is still saving; a crash then loses the older one |
| `consumer_dlq` | messages sent to the DLQ are committed by a later batch of their partition |
| `queue_panic` | a request that outlived Shutdown's deadline, past the `closed` check, sends on the closed channel |
| `aggregation_race` | a record appended between scan and summary write is not counted by later passes |

The models also have behaviours the code does not guard against and about which
no property is stated:

- A slow success closes a circuit that opened meanwhile.
- In synchronous mode a batch may be published although its request was
  answered 503: the write timed out after it reached the broker.
- Half a line left by a failed or interrupted write swallows the next record of
  the file. That record's request is answered 202, as its own write succeeded.
- A summary cut short by a crash is newer than its log and is not rewritten
  until the log grows.
- A store whose clock is behind can make the MinIO pass skip a new object.
- When `ListenAndServe` fails, `Fatal` ends the process without the cleanups.
- The gauge and `kafkaDown` disagree for a while when a failed and a successful
  fetch overlap, and the two log lines about them may come in either order.

One more disagreement between a document and the code is about configuration,
which is not modelled. `docs/pipeline_flow.md:7` names
`ingestion.producerMaxRetries`, but `BuildApp` (`app.go:274-281`) leaves
`MaxRetries` at zero and `NewProducerService` takes zero as set, so the shipped
program makes one attempt. `MaxRetries` is a parameter of `Producer`; the runs
use both 0 and 1.

**Bounds.** `LogEnd`, `MaxRestarts`, `MaxTime`, `MaxFaults` and `MaxBatch` are
the only artificial ones. Four messages with flushSize 2 let two batches overlap
and a third follow; one restart shows redelivery, and the proofs cover the rest.
A buffer of one with two requests makes the channel full; `MaxRetries` 1 has
both a retry and a last attempt. `queue_async` uses threshold 1 so that the
second request meets an open circuit; `queue_sync` uses threshold 2, and its
four requests are what it takes to count below the threshold, open the circuit,
see the deadline pass and open it again under a check in progress. In
`direct_append` the two batches write the two hours in opposite orders, so that
they can meet on either lock; decoders are compared on all batches of up to two
records, enough for a header and a first record to be confused. Two ticks give a
summary before, at and after a log's modification time. In `kafka_health`
`MaxDuration` is 31 and the backoffs are 5 and 18: doubling passes the maximum
once without and once with overflow. The program's own backoffs, 250 ms doubling
up to 5 s, are nowhere near the largest duration and never overflow. Four
failures give the two writers and the two readers one each, or one reader a
streak that reaches the maximum. Requests are interchangeable; `queue_sync`,
which has no liveness property, uses that symmetry. In `queue_async` the clock
ticks once, so the circuit it opens expires once and may open again; expiring
twice is in `queue_sync`. In `minio_replicas` both calls are of one replica and
the aggregation of the other, with one fault: that two calls of a process get
different keys is what the run tests, and that replicas do not meet on a key
either is left to `ObjectsNeverChange` and `SavedStaysStored`, which hold for
any number of replicas and faults. Deadlock is checked where the system runs for
ever (aggregation, MinIO, Kafka health); the other processes may be down for
good.

**Fairness.** Weak fairness, with one exception. Consumer: the handling of a
fetched message, the steps of `persist` that do not wait for the disk, the flush
loop with its ticker, and `main` after `Close`. Nothing is assumed of the broker,
signals, crashes or the disk. Servers: the goroutine of a request runs, the body
is read or times out, a publish returns within `writeTimeout`, Shutdown's
deadline fires and a shutdown that began goes on. Nothing is assumed of clients,
SIGTERM, kills or the clock, nor of `writeDLQ` in `QueueServer`. `DirectServer`
does assume that a disk operation returns: `FileRepo` does not look at the
context, so a request that waits for the disk is not answered before it.
Aggregation: the one goroutine runs and its ticker fires. Kafka health: a
goroutine goes on with what it began, and readiness checks are repeated, as an
orchestrator does. The exception is strong fairness of seeing Kafka work: an
outage ends, so among attempts made again and again one succeeds.

`docs/remaining_gaps.md:5` says that "a stuck `SaveBatch` can block shutdown
indefinitely", since `Close` waits for `done`. Its advice to bound the forced
flush has been followed, as `persist` now passes a context with `persistTimeout`
(`consumer.go:230`), and MinIO's `PutObject` heeds it. The sentence remains true of
`FileRepo`, which takes its mutex and writes without looking at the context, and
of `writeDLQ`, which has none. So `ShutdownCompletes`, `FetchedIsSettled`,
`AcceptedIsDelivered` and `ExitsAfterSigterm` have as premise that the goroutine
in question is not on the disk for ever. Without it TLC refutes
`ShutdownCompletes` with the hang the document describes.

## What is proved

Every theorem holds for all values of the constants that satisfy the modules'
assumptions: any number of readers, partitions, requests, workers, calls, hours
and replicas, any buffer, threshold and limit. Each is also checked by a run,
except where the list says otherwise.

**Consumer** (`ConsumerProofs`, from `ConsumerAssumption`):

- `TypeCorrect`: `TypeOK` always holds;
- `CommitsStayBehind`: `CommitBehindUnflushed`;
- `CommitsFollowPersist`: `CommitOnlyPersisted`;
- `CommittedIsAccountedFor`: `CommittedAccountedFor`;
- `FetchedIsNotForgotten`: `NothingForgotten`;
- `ConsumerImplementsDelivery`: `Consumer` implements `Delivery`.

None of these is inductive by itself. That a commit does not pass a buffered
message rests on an order the code never states: for each partition, the
message in the reader's hand is the newest fetched, everything in the buffer is
older than it, and everything in a batch is older than everything in the
buffer. The inductive invariant `IInv` is the conjunction of

- `BatchInv`: only a goroutine that is persisting has a batch, and it has one;
- `HandInv`: a reader that is adding holds one well-formed message of a
  partition it owns;
- `OrderInv`: batch before buffer before hand before the fetch position, with
  dropped messages newer than any batch;
- `CommitInv`: commits stay below the fetch position, behind what is unflushed,
  and just after a stored message; a batch being committed is stored;
- `AccountInv`: what was fetched or committed is somewhere.

`ConsumerInv` defines `IInv`, proves it of the initial states (`InitIInv`),
proves that every step keeps the types, and has a lemma for each step of
`consume`, for the steps that move the buffer, where both ways of draining it
share `DrainStep`, and for the stages of `persist`. `ConsumerProofs` adds the
steps of the process, combines them (`StepIInv`, `Invariance`) and draws the
theorems.

For the refinement, steps are grouped by what they do to the predicates settled,
flushing and waiting (`DrainRefines`, `PersistRefines`, `FetchRefines`,
`EndRefines`); each group is one move of `Delivery`. Beyond `IInv` this needs
`ResumeInv`: what a process has in memory lies above the offset it resumed at,
so its commits never go back behind that offset. Without it a message lost with
a crash could return to the topic, which `Delivery` rules out.

**Counts of the consumer** (also in `ConsumerProofs`, from `ReadersFinite` as
well: `StartConsumers` starts a configured number of goroutines):

- `StoredOnce`: `StoredOncePerProcess`. The counter says nothing about why a
  second save cannot happen, so `OnceInv` adds that two goroutines never have a
  message in both their batches, and that a message the running process has not
  saved yet was stored by earlier processes only, once each. `HandsOn` says what
  any step of a goroutine may do with messages; every step of a reader, of the
  flush loop and of `persist` is shown to be of that form, and `OnceInv` is
  preserved by all steps of that form at once. It holds for a fixed assignment
  of partitions: after a rebalance a process can be given a partition back and
  fetch again what it has stored but not committed;
- `BatchesAreBounded`: `BatchWithinFlushSize`, inductive with `IInv`: `Add` takes
  the buffer as soon as it is full, in the same critical section;
- `ActiveIsExact`: `ActiveCountsHandlers`. The counter equals the cardinality of
  the set `Busy`, and each step adds or removes one reader.

**Producer** (`ProducerProofs`, from `ProducerAssumption`, in both modes):

- `ProducerTypes`: `TypeOK`, checked by TLC as part of `QueueTypeOK`;
- `AcceptedNeverLost`: `AcceptedIsHeld`;
- `RefusedMayBeResent`: `RefusedIsUnpublished`;
- `CloseSettles`: `ClosedMeansSettled`;
- `CircuitNotClosedByOldDeadline`: the action property `CircuitClosesForCause`.

The inductive invariant is `ProducerInv`. Close settles what was accepted because
a worker exits only when the channel is closed and empty, Close waits for all of
them, and a worker between two batches has delivered the last one (`WorkerInv`,
`DoneInv`). This needs a worker to exist when there is a channel, which
`ProducerAssumption` states and `NewProducerService` ensures by its default. A
refused batch is not published because whatever is in the channel, with a worker
or in the topic was accepted or is being published by its own call (`SourceInv`,
`CallInv`). `RetryInv` bounds the attempts. The circuit's deadline is cleared
with the value that was read, and a value about to be cleared has passed
(`DeadlineInv`). The module first says where the steps of each goroutine
lead, so that the proofs of the conjuncts need not open the actions again.

**Queue pipeline** (`QueueServerProofs`, adding `QueueServerAssumption`):

- `PipelineRunsProducer`: every step of the composition is one of `Producer` or
  leaves it alone, so `QueueSpec` implies the `Spec` of `Producer`. No run
  checks this as a property;
- `PipelineKeepsPromises`: hence the producer's properties hold behind the server;
- `CounterAlwaysReset`: `CounterNeverStuck`, for the producer by itself. A step
  changes the set of goroutines between their increment and their reset by one
  goroutine, in step with the counter;
- `PipelineTypes`: `QueueTypeOK`;
- `ShutdownIsGraceful`: `GracefulShutdown`;
- `NeverInternalError`: `NoInternalError`.

`PipelineInv` relates the two components. The producer runs, and in asynchronous
mode is started, in every phase in which requests are handled; no request is
handled once the cleanups began, unless Shutdown gave up (`PhaseInv`); and every
call under way belongs to a request being handled (`RequestInv`).

**Direct pipeline** (`FilePipelineProofs`, from `FileRepoAssumption` and the
assumptions of `DirectServer`):

- `LinesStayTogether`: `GroupsContiguous`;
- `LinesAreAPrefix`: `FileHoldsPrefix`;
- `AcceptedStaysWritten`: `AcceptedIsWritten`;
- `TornWritesAreLast`: `TornWriteIsLast`;
- `FilesOnlyGrow`: no step changes or removes what a file holds. No run checks
  this as a property;
- `DecodersAgree`: for any number of records, every body that carries them is
  decoded to what `validate` makes of the records. No run checks this as a
  property;
- `FormatsAlwaysAgree`: `FormatsAgree`, from `DecodersAgree`.

The argument about files is in `FileRepoProofs`, for any specification whose
steps are those of `FileRepo` (`RepoStep`: a step of a call, the end of the
process, or none), so the direct pipeline and the aggregation share it. Its
inductive invariant `RepoInv` adds to the two properties of the files

- `CallInv` and `LockInv`: a call that writes has one path and holds that path's
  mutex, and nobody else does;
- `ProgressInv`: a call has written exactly the records of the groups it is done
  with, and of the current group those that are not in `rest`;
- `TornInv`: a torn chunk is the last its call wrote in the file, and the call
  has failed.

Lines stay together because the call that extends a file either wrote its last
chunk or has written nothing to it: the holder of the mutex keeps it from its
first record to its last, and no call comes back to a path. `DirectInv` adds
that a request is answered 202 only when its `SaveBatch` returned nil (`HttpInv`).

**File aggregation** (`FilePipelineProofs`, adding `AggregationAssumption`):

- `AggregationTypes`: `TypeOK`;
- `SummariesMatchHours`: `SummaryOfItsHour`;
- `LogsOnlyGrow`: files only grow here too, which is what justifies `Scan` as one
  step. No run checks this as a property.

`AggInv` adds to `RepoInv` that what was counted is in the file being visited
(`CountedInv`) and what a summary holds is in its hour's (`SummaryInv`). That the
records of a file are of its hour is `FileHoldsPrefix`.

**MinIO** (`MinIOProofs`, from `MinIOAssumption`, for any `Skew`):

- `BucketTypes`: `TypeOK`;
- `SavedStaysStored`: `SavedIsStored`;
- `ObjectsNeverChange`: the action property `ObjectsImmutable`;
- `SummariesOfTheirHour`: `SummaryOfItsHour`.

A put replaces what its key held, so that objects never change means that no put
meets an object. A key names its writer and a number. Every shard in the bucket
is an earlier process's, or has a number its writer has given out, at most
`objectSeq` (`WriterInv`). The next key is therefore in nobody's hands and not in
the bucket, and stays so until it is put (`KeyInv`). `StoredInv` then keeps
track of where the records of a call are: those of the hours written in exactly
one object, the others in none. `HourInv` says that an object whose key parses
to an hour holds that hour's records, for which `parseHourFromObjectKey` is shown
to give an hour only to keys of the two layouts (`LogOf`). `CountedInv` and
`SummaryInv` carry this through a pass. Their conjunction with the types is
`BucketInv`.

**Kafka health and retry delays** (`KafkaHealthProofs`, from
`KafkaHealthAssumption` and `DurationAssumption`):

- `DoublesToMaximum`: `NextRetryDelay` is the double or the maximum, whichever
  is less, although the double may overflow. An overflown double of a delay is
  negative (`WrapDouble`), which is the code's test `next < current`. This is about
  the function for any `MaxDuration`; no run checks it as a property;
- `JitterWithinFifth`: a jittered delay is positive and within a fifth, likewise;
- `HealthTypes`: `TypeOK`, with retry delays within their bounds, likewise;
- `WriterLogsAreSpaced`: the action property `WriterLogsSpaced`. The inductive
  invariant adds to the types that a call about to swap has passed the interval
  test (`PassedTest`); the swap succeeds only on the stamp that was tested.
- `WaitsFollowStreaks`: `WaitFollowsStreak`, for streaks of any length, from the
  arithmetic fact `PowersDouble`. The invariant `StreakInv` ties a loop's delay to
  its streak at every point of the loop: the failure that leads to a wait is
  counted before the wait and doubles the delay after it.

TLC finds these invariants to hold on small instances: `IInv` on that of
`consumer_crash` (879,178 states), `OnceInv` there and on `consumer_two`,
`ProducerInv` and `PipelineInv` on that of `queue_async` (89,166 states) and on
that of `queue_sync` with three requests (189,475 states), `DirectInv` on that
of `direct_append` (44,092 states), `AggInv` on that of `aggregation_passes`
(346,181 states), the conjuncts of `BucketInv` on that of `minio_replicas`
(71,158 states, and 322,675 with a second fault) and `StreakInv` on that of
`kafka_health` (594,347 states).

**Only model-checked.** Every liveness property: fairness is beyond the prover.
Every invariant and action property of a passing run is stated by a theorem.

**Taken as a hypothesis.** The provers have no rule for `^`, and proving one
needs induction. That `2^(n + 1)` is `2 * 2^n`, as module `Naturals` defines it,
is therefore the hypothesis `PowersDouble` of `WaitsFollowStreaks`, and of no
other theorem.

## Not modelled

- Configuration (`config/config.go`): read once; its values are the constants.
- Metrics: written and never read. The queue-depth gauge among them can show an
  old depth, since reading the length and setting the gauge are two steps.
- The throttled warnings of ingestion, handler, producer and `markKafkaDown`.
  They use the same load, test and compare-and-swap as `logWriterError`, which
  is modelled; the last one also stores its stamp without a test when Kafka
  becomes unavailable, so its lines need not be an interval apart.
- `AggregateHour` and `parseHourFromPath` of the file aggregation: one is called
  by tests only; the other parses the paths `SaveBatch` makes, and the model has
  no other files in the logs directory.
- A machine failure: files are not synced, so the models' files survive the
  process and not the machine.
- Rebalancing of consumer groups, and the asynchronous mode of the Kafka writer.
- Profiling, logging, environment and the stateless endpoints.
- Producer and consumer in one state space: they meet only at the topic and at
  shutdown, where the cleanups close them one after the other. `QueueServer` has
  of the consumer that `Close` waits for it, `Consumer` has the rest.
- What two sentences of the documents say of earlier code: the second half of
  `docs/remaining_gaps.md:5` (see Fairness), and "Only processes the current UTC
  hour" in `README.md:53`, which `README.md:22` and `docs/remaining_gaps.md:12`
  supersede. `AggregateAll` visits every hour, and so do the models.
