# A TLA+ verification of streaming-feature-store

The repository is a Kafka feature pipeline in Python. This directory holds TLA+
modules translated from its source, TLC configurations that check them on small
instances, and TLAPS proofs for every value of the constants. Paths below are
relative to `src/src/streaming_feature_store/` unless they start with `docs/` or
`scripts/`, which are under `src/`.

## 1. Inventory

```
feeder --> e-commerce-events-feed --> validator --> validated-events --> sliding consumer --> sliding-features(-late)
                                         |               |                     |
                                         +-> dead-letter-queue                 +-> Redis hash per user --> serving API
                                                         +-> Postgres sink
```

Processes share no memory: they meet in Kafka topics, in consumer group offsets
and (transactional mode) in the transaction coordinator. Nothing in the
repository restarts a process; the design documents assume a supervisor.

| Component | State | Operations | Hard behaviour | What makes it correct |
|---|---|---|---|---|
| Validator, transactional (`validate/runner.py`, `eos/`) | consumer positions, batch, open transaction; broker: epochs, offsets | init_transactions, subscribe, poll_batch, begin, handle, send offsets, commit, abort | zombies, timeouts, aborts, rebalances inside a poll, crashes | one atomic relay per batch; nothing twice, nothing lost, nothing going back but by a known race |
| Validator, at least once (same runner, `AtLeastOnceCommit`) | positions, batch, two producer queues | poll, handle, flush both, commit, drain, close | asynchronous delivery, flush timeouts, unknown commits, evictions | no offset ahead of an undelivered record |
| Validation pipeline, DLQ (`validate/pipeline.py`, `validators.py`, `dlq.py`) | none but the wall clock it looks at | decode, six validators, build a record | order of the checks, validation again after a crash | one verdict per event, the documented rules, stable in time |
| Sliding windows (`sliding/panes.py`, `watermark.py`) | panes per user and resolution, emission cursors, `emission_seq`, dirty set, watermark | add, mark late, emit due windows, collect, drop partitions | late and out-of-order events, idleness, lateness tail, revocation | emissions agree with the panes; `emission_seq` orders them; windows close |
| Sliding consumer (`sliding/consumer.py`) | positions, batch or transaction, panes | fold, emit and sink, async commit or transaction, seek back | revocation inside a poll, Redis after the commit, crash and warm-up | replay produces no double count, no lost emission |
| Sinks and online store (`sliding/sinks.py`, `serving/`) | Redis hash per user with one TTL | write, expire, read | re-fires after newer windows, omitted fields, lag | a read returns the newest window's values, as long as they are due |
| Postgres sink (`sink/`) | batch, connection, offsets | append, flush with retry, commit | crash between insert and commit, lost connection, undecodable stretches | effectively once per event id |
| Load harness and feeder (`load/`, `feeder/`) | in-flight accounting, token bucket, threads | pace, produce with retry, wait, stop | threads, callbacks, full queues | the books follow the queue; the rate is kept; the run ends |
| Consume benchmark (`consume/`) | deadline, lag, counters | poll, process, commit, stop | rebalances between poll and commit, lag before assignment | nothing committed uncounted; stops when caught up |
| Multi-process harnesses (`load_mp/`, `consume_mp/`, `validate_mp/`), topic admin (`admin/`) | plan of workers, reports; the topic | ensure topic, plan, spawn, aggregate | races on the topic, failed and killed children | the parent returns; the sum is right |
| Schemas (`schemas/`, `scripts/run_schema_evolution.py`) | subject versions, records on the topic | mutate, register, produce, read, clean up | failed or skipped cleanup, other producers | drills stay compatible, the topic readable |
| Validator accounting, config, reports, other scripts | counters | rendering, wiring | - | - |

`PROJECT.json` lists the components with their status and the hazards at their
lines.

## 2. Modules

| Module | Role |
|---|---|
| `ValidatorEos` | the transactional validator: processes, group, coordinator |
| `AtomicRelay` | what it promises to a `read_committed` reader |
| `ValidatorEosProofs` | its theorems, the refinement of `AtomicRelay` among them |
| `ValidatorAlo`, `ValidatorAloProofs` | the default validator and its theorems |
| `Validation` | the verdict on one message |
| `EventProofs` | theorems of `Validation` and of `SchemaEvolution` |
| `SlidingWindows`, `SlidingWindowsProofs` | windowing in one process and its theorems |
| `SlidingConsumer`, `SlidingConsumerProofs` | the loop around it: group, offsets, transaction, sinks, crashes; its theorems |
| `OnlineStore`, `OnlineStoreProofs` | a user's Redis hash, its expiry and the serving read; its theorems |
| `SinkRunner` | the Postgres sink: processes, group, connection, table |
| `IdempotentSink` | what it promises to a reader of `raw_events` |
| `SinkRunnerProofs` | its theorems, the refinement among them |
| `LoadRunner` | the load run's threads, the feeder, accountant and bucket |
| `DeliveryLedger` | what the accountant promises of the deliveries |
| `Fleet` | the multi-process harnesses, with the consume benchmark as their child |
| `HarnessProofs` | theorems of `LoadRunner` and of `Fleet`, the refinement of `DeliveryLedger` among them |
| `SchemaEvolution` | the schema driver, the registry, the topic and its other users |
| `MC*` | constants for TLC; one `.cfg` per run |

Every module keeps its mutants (definitions headed "Mutant of ...") beside the
definition they change: a mutant is a plausible bug, and under it TLC finds the
property violated that the run checks.

How the parts compose. The verdict of a message is an input of the two validator
modules and is what `Validation` computes. `SlidingWindows` decides which windows
fire, with what contents; `SlidingConsumer` takes any choice of due partitions and
asks what becomes of the records among topic, offsets, Redis and the replay;
`OnlineStore` takes the windows of one user in full and asks what a read returns.
`Fleet` has the life of every harness' children, and the loop of the benchmark
inside them; what a load child does is `LoadRunner`.

`EventProofs` and `HarnessProofs` each extend two machines that share no variable, so the
schema driver and the load run have names of their own for what other modules call `Spec`,
`Init` and `Next` (`DriverSpec`, `RunSpec`, ...); every theorem is about one of the two.

### ValidatorEos

| Model | Code |
|---|---|
| `pc` | where `ValidatorRunner.run` is: `down`, `started` (after `strategy.init()`), `polling` (inside `poll_batch`), `routing` (after `begin()`), `sent` (between the two calls of `TransactionalCommit.commit`) |
| `position`, `assigned`, `insync` | the confluent consumer: next offset, `assignment()`, whether it holds the group's generation |
| `batch`, `collected`, `out` | the poll batch not yet handled, its length so far, the records produced in the open transaction |
| `epoch`, `pepoch` | producer epoch at the coordinator and in the process |
| `owner`, `member` | assignment by static member; which process the group knows under an id |
| `committed`, `copies` | group offsets; what a `read_committed` reader sees |
| `InitTransactions`, `Join` | `strategy.init()`; `subscribe()` and the first poll |
| `PollMessage`, `PollUndecodable`, `InstanceFenced` | one step of `_poll_messages`; an exception there leaves `run` |
| `HandleMsg`, `SendOffsets`, `CommitTransaction` | `_handle_msg`; the two calls of `commit` |
| `AbortableError`, `OffsetsRefused` -> `Abort` | `requires_abort(exc)` and the early return of `_process_batch`: positions stay |
| `Fenced`, `Crash`, `TransactionTimeout` | fatal errors, process death, the coordinator's timeout |

A batch is polled one message at a time since a rebalance may complete between
two messages. A transaction's records become visible in `CommitTransaction`
only. Shutdown is covered by `Crash`: `TransactionalCommit.finalize` does nothing.

A rebalance may complete at any step, also between `send_offsets` and
`commit_transaction`. Every validator reads at `AvroEventConsumer`'s default, `read_uncommitted`
(`consumer/avro_consumer.py:185`, `validate_mp/worker_entry.py:211`;
`docs/design/week2_03_exactly_once_transactions.md:713` has the default change to
`read_committed`), so an assignment does not wait for offsets that another transaction holds
(`Pending`). The history variable `raced` has, per process, the partitions that changed hands
that way: lost after it sent their offsets, or given to it while another member's were pending.
Of two transactions that hold offsets of a partition the last to end decides; a broker that
goes by when the offsets were sent moves them back in fewer cases.

### ValidatorAlo

The same loop with `AtLeastOnceCommit`. `queue` holds what the two producers have
not delivered; `Deliver` and `DeliveryFailed` are librdkafka's background work.
`Flush` is the case where both flushes find empty queues, `FlushTimeout` the one
where the result that nobody looks at is not zero. `CommitOffsets`,
`CommitRefused` and `CommitError` are the outcomes of the synchronous commit:
done; refused, because the member was evicted or because a rebalance inside the
poll took back what there was to commit (librdkafka then raises, as for any
commit of nothing); unknown. The refusal ends the process. A rebalance that
disturbs a batch counts as a fault: processes that restart after a refused commit
would otherwise disturb one another for ever, and no liveness holds. `Shutdown`, `Finalize`, `Close` are
the way out of the loop in the order of the code: drain, consumer, producers.
The history variable `givenUp` remembers the records that a failed delivery or a
timed-out flush gave up, so that `AtLeastOnce` says exactly how far the loop's
promise reaches. What a process had queued when it crashed is *not* in it: those
messages must be read again.

### Validation

| Model | Code |
|---|---|
| `Event`, `Payload` | a decoded message, reduced to what a check can tell apart; event type and payload record vary independently, for nothing in the schema ties them |
| `Coerce`, `PayloadModel`, `EventModel` | `avro_dict_to_event` under `_decode`: what raises, and which class `_decode` gives it |
| `RequiredFields` ... `TimestampRange` | the six validators; `Purchase` is the filter of `_applies` and of the price and quantity validators |
| `Stages`, `Outcome` | `default_validators` and `ValidationPipeline.validate` |
| `HandleMsg`, `Tick` | the message is handled again, after a crash, abort or rebalance, by a later clock |

### SinkRunner

| Model | Code |
|---|---|
| `pc` | where `SinkRunner.run` is: `polling` (inside `poll_batch`), `flushing` (inside `_flush_with_retry`), `inserted` (between `PostgresWriter.flush` and `consumer.commit`) |
| `batch`, `collected`, `tried`, `fresh` | `Batch`, messages of the current poll, failed attempts, `BatchInsertResult.inserted` |
| `conn` | `PostgresWriter._conn`: `none`, `open`, or `broken` (kept although it is gone) |
| `tally` | the counters of `SinkAccountant`, which `Count` and `RecordFlush` move |
| `table`, `committed` | event ids in `raw_events`; group offsets |
| `PollMessage` | one step of `_poll_messages` and, for that message, `_record_message` |
| `PollReturns`, `BeginFlush` | `_maybe_flush`: the row cap and the age cap (any event gets old) |
| `Insert`, `DatabaseError`, `ConnectionLost`, `ConnectionDead` | outcomes of one `PostgresWriter.flush`; `AttemptFails` is the retry loop around it |
| `CommitOffsets`, `CommitRefused`, `CommitError` | outcomes of `consumer.commit()` |
| `Shutdown` | `request_shutdown` seen at the top of the loop: a last flush, then `run` ends |

The insert is one step, since the database makes it one; a connection that goes,
or a process that dies, while it is under way may or may not have inserted. A
batch lives across polls and so across rebalances: what a process inserts may
come from partitions that others have by then. `BooksBalance` says of the counters
without a sum over processes that no row is credited twice: some assignment of the
rows to processes accounts for every process's `inserted` (`CreditedOnce`); rows of a
process that died before it counted them belong to nobody.

### SlidingWindows

| Model | Code |
|---|---|
| `maxTs`, `lastEvent`, `Watermark` | `WatermarkTracker`, the idleness fallback included |
| `panes`, `users` | `PanedSlidingWindow._panes`, `_users`: how often each event is folded |
| `cursor`, `seq`, `dirty` | `_EmissionCursor.next_end_ms`, `_seq`, `_dirty` |
| `Add`, `SendLate` | `_fold_message`: observe, watermark, then `add` or the late sink |
| `Emit` | `emit_due_windows`: due windows, then dirty ones, then `_gc` |
| `Drop` | `_on_revoke` -> `drop_partitions`, the partition read again when it comes back |
| `offset`, `read` | the log order, and what has been read since the last assignment |

A pane is the bag of the events folded into it: the aggregators add and merge,
and a bag is what decides whether two records are equal. Arithmetic is the code's
floor division. Abstractions: one tick drives the monotonic and the wall clock;
an iteration of the loop takes no time; a returning partition is read again from
its start, which stands for the hour of the seek-back.

### SlidingConsumer

| Model | Code |
|---|---|
| `eos` | whether the group was given a transactional producer |
| `pc` | `poll` (in `_poll_once` or `_poll_batch_eos`), `commit` (`_commit_batch_txn`), `cache` (the Redis writes), `publish` (features sink, then the asynchronous commit) |
| `from`, `pos`, `joined` | where the member started and has got to on each partition; the generation it knows |
| `panes`, `pending` | how often each message is folded; the records of this iteration |
| `topic`, `redis` | the last record of a partition's user in either place |
| `Revoke`, `Assign` | `_on_revoke`, `_on_assign` with `_apply_warmup_seek_back`, both inside a poll; the lookup may fail |
| `SeekBack`, `Resume` | the offset an hour ago when it is not negative; else where the group resumes |
| `Fold` | `_fold_message` of the batch, `emit_due_windows` |
| `CommitTransaction`, `AbortTransaction` | the transaction; an error aborts it and leaves `run` |
| `WriteRedis`, `Publish` | the two orders of the sinks: after the commit, or before the topic |
| `Crash`, `Shutdown` | a crash loses everything in memory; `_shutdown_sinks` flushes and commits |

The history variables name the openings the code has, so that each property says
exactly how far its promise reaches: `straddled` (messages polled before a revocation
in the same batch), `torn` (a record caught between Redis and the topic), `skipped`
(what an assignment jumped over), `cold` (a failed lookup). Abstractions: every event
counts for one user of its partition, and lateness is left to `SlidingWindows`.

### OnlineStore

| Model | Code |
|---|---|
| `watermark` | how far windows have fired: the emission cursors, which only advance |
| `base` | `max_event_ts - skew`: the tracker's watermark once an event has ended an idle spell |
| `Add` | `_fold_message`: observe, then `add` and `_mark_late_refires`, judged by the tracker's watermark (`mark`) |
| `Emit` | `emit_due_windows`, then `_emit_dirty` in the order of the enum's values (1h, 24h, 5m) |
| `Write` | one `RedisHashSink.write`: HSET and EXPIRE in one pipeline |
| `Read` | `RedisFeatureReader.read`, with `FeatureVector`'s zero for every absent field |

`base` also rises with the events of other users, which `Add` lets raise its `mark`. `Emit`
may go up to the clock (idle) or stop earlier, and never
takes the cursors back. The history variables `missed` and `outrun` name what the fallback
opens: windows that the idle clock had fired and an event was then folded into without marking
them, and how far windows had fired when an event came under a lower mark. The loop emits
at any time up to `MaxLag` after the clock, so that a write may be late; an event is at
most `MaxDelay` old when it is folded. Resolutions slide, as in the code, by the size of the one
before. `Ascending` is the one order both emissions use, of two orders of the resolutions
(`Rank`, `Before`, `Place`): the `n`-th window is the one with `n` windows no later than it.

### LoadRunner, DeliveryLedger

| Model | Code |
|---|---|
| `kind` | a `LoadRunner` with its threads, or a `FeederRunner` with one loop |
| `pc`, `left`, `tries` | where each thread is in `_worker_loop` and `_produce_with_retry` |
| `tokens`, `idle` | the bucket, and the time since its last refill |
| `transit`, `reports` | librdkafka's queue: on the way, and reported but not served |
| `produced`, `acked`, `failed` | the three counters of `DeliveryAccountant` |
| `Poll`, `Count` | `poll(0)` inside `produce`, then `record_produced`: in this order |
| `EndWait` | `wait_for_in_flight_below` returns, below its threshold or after its timeout |

`DeliveryLedger` is the abstract specification: a record accepted is settled at most
once, until the books are closed. It is refined with `accepted` mapped to what the
producer has taken, `produced` plus the threads between `produce` and
`record_produced`.

### Fleet

`Look` and `Create` are `ensure_topic` for two processes that race; `Plan` is the CPU
budget, the cap and the `ValueError` of the three planners; `Start`, `Work`, `Return`,
`Raise`, `Kill` the life of the pool. `Top`, `PollMessage`, `EndPoll`, `ProcessBatch`,
`Commit`, `SampleLag`, `Close` are `ConsumeRunner.run`. `Revoke` and `Assign` are the
group's: the consumer has no callback, so they happen between any two steps.
`Fetched` are the partitions with a position, the ones `commit` and `consumer_lag`
see, and `Lag` counts the records they have left. A validator child is started and never
ends, as in the code: no signal handler, no duration.

`counted` (history) is the set of records some member's accountant has counted. That a
report adds up to them is said without a sum over members: some crediting of records to
members gives no member more than it `consumed` (`Creditable`). `blind` and `orphaned`
(history) are the two ways in which a member may leave records unread without having met
its deadline: its lag was 0 because it had nothing assigned or nothing fetched yet, or
a rebalance gave it a partition after it had left its loop and before it closed.

### SchemaEvolution

A composite schema is a function from record and field to a type and whether there
is a default. `add_optional_field`, `remove_field` and `promote_field_type` are the
code's mutations, `Drills` the three of `build_drill_specs`. `CanRead` and
`Compatible` are Avro's and the registry's (external): the registry finds an equal
live schema before it checks compatibility. `Register`, `Produce`, `Consume`, `Delete`,
`Restore`, `Report` are a run of the driver; `RegisterBaseline`, `LiveStart` and
`LiveProduce` the other users of the subject. `DecodesEvent` is `avro_dict_to_event` on
a dict of a given writer's schema.

## 3. Runs

| Run | Instance | Checks | Result |
|---|---|---|---|
| `eos_zombie` | 2 processes with one id, 2 partitions of 2 messages (one undecodable), 2 faults, epochs to 3, fixed assignment | `TypeOK`, `AtMostOnce`, `AtomicallyRelayed` (refinement) | holds, about 505 000 states |
| `eos_group` | 2 members, one partition, one fault, 2 rebalances, fairness | `NoSilentLoss`, `OffsetsRegressOnlyIfRaced`, `EveryMessageSettled` | holds, about 255 000 states |
| `eos_abort` | one process | `AbortedBatchReplays` | violated |
| `alo_group` | 2 members, 3 faults, one outage, fairness | `TypeOK`, `AtLeastOnce`, `OffsetsNeverRegress`, `EveryMessageRouted` | holds, about 109 000 states |
| `verdicts` | every message, 4 quantities, 5 prices, 4 days | `VerdictMatchesRules`, `RejectionsStand` | holds, about 225 000 states |
| `sink_rows` | 2 sinks, a log of 4 (one dropped, one repeated event), row cap 2, polls of 2, 2 attempts, 2 faults, fairness | `TypeOK`, `BooksBalance`, `EffectivelyOnce` (refinement), `EveryEventStored` | holds, about 56 000 states |
| `sliding_windows` | 3 events of a user in every log order, windows 1/2 and 2/4 ticks, one revocation | `DirtyLive`, `EmittedFresh`, `SeqOrdersContents`, `EventuallyEmitted` | holds, about 7 300 states |
| `sliding_loop` | 2 consumers, both modes, one partition of 2 messages, one move, one fault, fairness | `TypeOK`, `PanesRebuilt`, `FoldedOnce`, `OutputWithOffsets`, `RedisShowsTopic`, `EveryMessageRead` | holds, about 299 000 states |
| `online_store` | windows 1/3, 3/6 and 6/12 ticks, 2 events at ticks 0 to 4 and at most 3 old, lateness 2, lag 1, clock to 38 | `TypeOK`, `KeepsOwnTtl`, `FreshestServed`, `GoneInTime` | holds, about 548 000 states |
| `load_threads` | 2 threads or a feeder, batches of 2, in-flight limit 1, queue of 5, 2 attempts, 3 batches, one failed delivery, fairness | `InFlightIsQueue`, `RateKept`, `LedgerKept` (refinement), `RunEnds` | holds, about 70 000 states |
| `fleet` | the three harnesses, topics of 0 to 2 partitions, 3 records, at most 2 consume members, one fault, fairness | `TypeOK`, `CommittedWasCounted`, `DrainedUnlessBlind`, `RunReturns` | holds, about 644 000 states |
| `schema_drill` | 3 runs of any drills, one fault | `DrillsAccepted`, `TopicStaysReadable` | holds, about 127 000 states |

Why the bounds are enough:

* **eos_zombie.** Fencing concerns a pair: a stalled process and its successor.
  `MaxEpoch = 3` admits both initialisations and either a timeout or a second
  restart; two partitions let a transaction cover more than one offset, and
  `MaxBatch = 2` lets a batch have a proper part.
* **eos_group, alo_group.** Two members are enough for an eviction, a hand-over
  and a return, at any step of either; two messages and `MaxBatch = 2` give a full batch, two partial
  ones, and batches read again, with one message for each route. The second
  rebalance of `eos_group` gives a partition back to the member that lost it.
* **verdicts.** Each range has a value below, at and above each of its ends; four
  days around an age limit of two and a skew of one let a message be ahead of the
  clock, then current, then too old.
* **sink_rows.** Two sinks are one that is evicted and one that takes over; row
  cap 2 and polls of 2 let a batch overshoot its cap; the repeated event makes a
  batch hold one id twice; two faults admit a lost insert and an unknown commit of
  the same events, by either process.
* **sliding_windows.** Event times 2, 3 and 7 in every order give an on-time, a
  late and a very late event; `Lateness = 3` spans a window that has been
  fired; the two geometries have windows that overlap twice, with different
  alignment; `MaxNow = 11` is past the end of the last window by the skew and the
  idleness.
* **sliding_loop.** Two messages are one that is committed and one that is not, or
  a batch and its proper part; one move takes the partition away inside a batch,
  between commit and Redis, or between Redis and the topic; with one fault before
  or after it the partition is read three times.
* **online_store.** Two events are an early and a late one of the same or of
  neighbouring windows; the clock runs until every window and TTL they can cause
  is over; a lateness of two slides lets one event re-open two windows of a resolution,
  so that their order matters. `KeepsOwnTtl` fails with `MaxLag = 2`, and with
  `MaxDelay = 4`: see `ShortLag` in section 5. Events 3 ticks old come after the idle clock has
  fired their smallest windows: without its exceptions for the counts and for the newest window
  `FreshestServed` is violated. The one for the average needs an event older than the slide of
  the largest resolution, which `KeepsOwnTtl` does not bear; it was seen with windows 1/3 and
  3/6 and `MaxDelay = 5`.
* **load_threads.** With one record in flight allowed and batches of two each thread
  meets a full window; the queue of five overflows with two threads in it.
* **fleet.** Partitions of one and two records give a member with work left when
  the other is done; a topic of another layout than the planned one appears by race. With
  two members a rebalance never gives records to a member that has left its loop; the
  invariants were looked at with three members and three partitions too (18.8 million states,
  too many for a regular run), where it does.
* **schema_drill.** Three runs are one that leaves a mess, one in it, and one after it.

Deadlock is not checked where the model ends by running out of messages, runs
or clock; each `.cfg` says which.

### Fairness

`ValidatorEos`: weak fairness of each process's own steps (`Run`: its loop polls on; a
supervisor restarts it). Rebalances are bounded there and none need happen.
`ValidatorAlo`, `SinkRunner`: the same (in `SinkRunner` a batch also gets old), weak
fairness of delivery, and strong fairness of `Balance`, because a process may be in and out
of poll while the group waits for it, and the coordinator then completes the join in one of
those polls. `SlidingWindows`: weak fairness of `Emit`, which each iteration
runs because poll has a timeout, and of the clock. `SlidingConsumer`: weak
fairness of a restart, of folding what was polled and of the steps after it; strong
fairness of what happens inside a poll, for a process comes back to its poll between
any two emissions. `LoadRunner`: threads are scheduled and time passes; deliveries
are *not* fair, so `RunEnds` holds with a broker that never answers. `Fleet`: the
processes run and deadlines pass; the group need not settle. Faults, moves of
partitions and the arrival of events are never fair.

## 4. What the runs show

**The violation.** After an abortable error `_process_batch` returns
(`validate/runner.py:373`) with the consumer's positions past the batch, and
nothing seeks back. The next transaction commits those positions, and the aborted
messages are in no topic (`eos_abort`).
`docs/design/week2_03_exactly_once_transactions.md:395` asks for the opposite
("Abort must re-process, not skip"). `NoSilentLoss` holds: this is the only way a
message is skipped.

**Where the promises stop.** Each of the following is a history variable, a
guard or a bound in a property above, and is the reason it is there.

* *Validator, at least once.* The value of `flush` is dropped
  (`eos/commit_strategy.py:114`) and a failed delivery is only logged, so offsets may
  pass unacknowledged records
  (`docs/design/week2_01_validation_layer_and_dlq.md:468`); `AckedWithoutOutages`
  proves it is the only way. Undecodable bytes raise inside `poll`
  (`consumer/avro_consumer.py:313`), before `_decode` could classify them. The process ends,
  and so does each that reads the message after it, while line 1071 of the same document expects
  "DLQ receives 1 `DESERIALIZE_FAILURE` record, runner does not crash". The model raises there
  too (`PollRaises`); `EveryMessageRouted` therefore speaks of logs in which every message
  decodes, and the log of `alo_group` is one. `AtLeastOnce` and its theorem cover any log: no
  offset passes such a message.
* *Validator, transactional.* Where a partition changes hands between
  `send_offsets` and `commit_transaction` (`eos/commit_strategy.py:172`), the old owner's
  commit and the new one's both stand, in either order: messages are relayed twice, and
  the committed offset goes back when the lower of the two comes later.
  `OffsetsRegressOnlyIfRaced` excepts such partitions (`raced`) and nothing else;
  `AtMostOnce` speaks of a fixed assignment.
* *Verdicts.* A quantity below 1 or a negative price is `NULL_REQUIRED_FIELD` of the
  Pydantic adapter, not `OUT_OF_RANGE`
  (`docs/design/week2_01_validation_layer_and_dlq.md:1008`); an unknown event type is
  `DESERIALIZE_FAILURE`; `RequiredFieldsValidator` and `UNKNOWN_EVENT_TYPE` are
  never reached. A purchase with a click's payload is valid, and makes the sliding
  aggregator raise (`sliding/aggregators.py:77`).
* *Sliding windows.* The watermark falls back after an idle spell
  (`sliding/watermark.py:79`); a late event for a window that the clock had fired is
  then folded but not marked (`sliding/panes.py:293`): `EmittedFresh` excepts it. A
  revocation drops panes but not the watermark, so a replay after the partition
  comes back to the same process is very late (`sliding/panes.py:255`) and goes to the late topic.
* *Sliding consumer.* A batch collected across a revocation is folded after the drop
  and counted by two processes (`straddled`). A crash, a failed delivery or a move
  between the sinks leaves Redis and the topic apart until the next emission (`torn`). A
  seek-back to an hour ago also jumps *forward* over committed-but-unread older messages
  (`skipped`; `docs/design/week2_03_exactly_once_transactions.md:406` describes a
  resumption at the committed offset). The group's script joins its workers
  and returns 0 even when they died
  (`scripts/run_sliding_features_consumer.py:507`); `--group-instance-id` gives all
  workers one static id (line 363).
* *Online store.* The key has one TTL, that of the last write: a day's fields live
  as long as the writes of smaller windows keep coming, or their own TTL. `KeepsOwnTtl`
  holds while the loop lags by no more than half of the smallest window (2.5 minutes in the
  code) and folds no event older than that window (5 minutes); with more of either it fails
  (`docs/design/week2_02_sliding_window_features_plain_consumer.md:512`). Fields of a
  small window are served past their own TTL. Under EOS a batch may re-fire an
  older window after a newer one: the hash then shows the older. After an idle spell the
  watermark an event is judged by falls back (`sliding/watermark.py:79`), while the windows the clock
  had fired stay fired. An event folded into one of these does not mark it
  (`sliding/panes.py:293`), so the hash keeps the short count with nothing pending (`missed`); and
  what the event does mark is an older window, which then overwrites the newer one's fields
  (`outrun`).
* *Postgres sink.* When the connection is lost, the rollback of `flush` raises
  too (`sink/postgres_writer.py:265`) and `_conn` is kept, so the retry runs on the
  dead connection and the process ends; only its restart reconnects
  (`docs/design/week1_06_postgres_sink_and_continuous_feeder.md:542` says the
  connection is clean for the next attempt). A crash makes up to `batch_max_rows +
  poll_max_records - 1` events be read again (`BatchCapped`), not `batch_max_rows`
  (line 280).
* *Load harness.* A thread waits for in-flight records without serving callbacks
  (`load/accountant.py:197`): when it is the only one, its retries after a full queue
  cannot succeed and each waits for the whole timeout; `RunEnds` holds thanks to it. A
  feeder's full queue ends the run without a snapshot (`feeder/feeder_runner.py:209`).
* *Harnesses.* `until_caught_up` ends a member that has nothing assigned, or nothing
  fetched (`blind`); with three members, a rebalance can hand a partition to one that has left its
  loop and not closed yet, and the run reports records unread (`orphaned`); a rebalance between poll and commit makes `commit` raise; a killed
  child hangs the parent, and `validate_mp` children are never asked to stop
  (`validate_mp/worker_entry.py:235`). Plans trust `KafkaConfig.num_partitions`, not
  the topic, and a `MISMATCH` is only logged.
* *Schemas.* Cells of drill 3 read what earlier drills left on the topic
  (`scripts/run_schema_evolution.py:313`). With `--keep-subject` a later run may have
  a drill rejected: `DrillsAccepted` speaks of runs begun on a clean subject. The baseline
  is not readable as its own reader schema for drill 3's records; no service reads that way.

## 5. Theorems

All are theorems of the specifications for every value of the constants that
satisfies the modules' `ConstantsOK`, `LimitsOK`, `GeometryOK`, `FleetConstants` and `BoundsOK` (verdicts and log lengths of
the right kind, a positive batch size, a slide that divides its size, resolutions each of
which slides by the size of the one before). Three theorems have a hypothesis of their own,
and say so: `RelaysAtomically` (no rebalance), `AckedWithoutOutages` (no outage) and
`OwnTtlKept` (a short lag). No other assumption is made.

**ValidatorEosProofs.** `TypeCorrect`. `NothingLostSilently` rests on `LossInv`:
`NoSilentLoss` is not inductive since `CommitTransaction` moves offsets to
positions; one must know that a message between the committed offset and the
position of a process that `MayCommit` is in its batch, in its transaction or
among the aborted (`Covered`), that unfenced processes of an id have the
coordinator's epoch (`Epochs`). `OffsetsAdvance` rests on `RaceInv`: a process that may
commit is alone (`Sole`) with every partition of its assignment that is not in its `raced`;
it owns it, nobody else may commit it, and its position is not below the committed offset.
Whoever gets a partition that another may still commit gets it raced, and whoever loses one it
may still commit has it raced from then on (`AssignKeepsRace`, `RaceStep`). So only a commit of
a raced partition can go back. `NothingTwice` adds an upper side (`OnceInv`): what a process holds
lies in the window from committed to position (`Window`), each message once
(`Routed`), and nothing at or above the committed offset is visible.
`RelaysAtomically`: with a fixed assignment every step
of `ValidatorEos` is one of `AtomicRelay` or a stutter; only `CommitTransaction` moves
its variables (`CommitIsRelayBatch`), and `OnceInv` and `LossInv` together say
that its batch is exactly the stretch it covers.

**ValidatorAloProofs.** `TypeCorrect`; `NothingSkipped` and `OffsetsAdvance` from
`AloInv`: everything below a position is committed, in the batch, queued,
delivered or given up (`Accounted`), and after the flush the batch is empty and
the queue holds nothing but what was given up (`FlushedClean`). `AckedWithoutOutages`
adds that `givenUp` stays empty without outages.

**SinkRunnerProofs.** `TypeCorrect`, with the fact that an insert writes at most
as many rows as the batch has events (`FreshRows`), without which `skipped` could go
negative. `BatchCapped` from `BatchInv`: a poll begins below the cap.
`ImplementsIdempotentSink`, from `SinkInv`: what a member has read past the
committed offsets is dropped or in its batch (`Tracked`), after the insert the rows
of the batch are in the table (`Written`), and what lies below the committed offsets
is settled (`Settled`). Only `Insert`, a lost insert and the commit move the
abstract state: `StoreStep`, `CommitStep`. `BooksAlwaysBalance` from `BooksInv`: the
table is finite and `fresh` is zero but between an insert and its count. An insert
credits its new rows to the process that made it (`CreditGained`), which it alone can
count later; every other step keeps the credit as it is (`CreditKept`), a crash too,
whose process counts from zero again.

**SlidingWindowsProofs.** `TypeCorrect`, in which the alignment of the cursors to
their slide is the part with arithmetic (`ExactDivision`, `CursorMoves`).
`RefireFindsPane` proves what the notes of `_emit_dirty` claim, `DirtyLive`: `Add`
establishes it because the window ends of an event and the pane range of a window
agree (`EndsContain`), `Drop` and `Emit` restore it.
`SeqOrders` and `RefiredWhenChanged` rest on `WindowsInv`: what was emitted lies behind
its cursor (`PassedInv`), an iteration sees the watermark of its last event and marks
nothing beyond it (`IterationInv`), and the counter of a window that can still fire is
past all its emissions, whose events are all in the panes yet (`Counted` in `OpenInv`).
The last is why `_gc` may drop counters and panes: it does so of windows that the watermark
has closed for good. It is stated until the watermark falls behind a fired window
(`slipped`, which idleness and revocations cause), when the properties themselves end.

**SlidingConsumerProofs.** `TypeCorrect`. `HourRebuilt`: in the panes or the batch of a
process is every message between the hour of a partition and its position (`Rebuilt`);
the hour only moves on, and `Assign` starts at or below it. `CountedOnce` needs the other
direction: what a process has of a message lies between where its assignment started and its
position, in the batch or the panes but never both (`ReadOnce`), and a member that takes part in
the current generation owns what it is assigned (`Membership`). `CommittedTogether`
needs only that a record shows events of the panes and that each mode takes its own way
through the loop (`ShownInv`), and `ReadOnce`, by which these lie below the positions that
`_commit_batch_txn` sends. `StoresAgree` from `StoresInv`: whoever stands between the two
stores holds the record that the first of them shows (`Halfway`), is of the current generation,
and nobody else has that partition in hand; `Agree` says the rest.

**OnlineStoreProofs.** The part about lists is `AscendingIsList`: a finite set of windows,
taken by rank and end, comes as a sequence that has each once, in order; `EmitQueues` says
what that makes of an emission. The part with arithmetic is `EndsAre` (the ends of an
event's windows are the slide boundaries after it, a window away at most) and `NextEnd`.
`TypeCorrect`. `AlwaysFreshest` from `FreshInv`: a field whose count is not that of its window
is pending, dirty or queued, or its window was missed (`Counted`); a window fires again with
every newer one of its resolution, unless its event came under an outrun mark (`DirtyUp`), so
that, at least once, the queue holds a newer window behind each older one (`QueueUp`) and what
is newer than a field is pending or at most `outrun` (`Latest`, `LatestAverage`). Under EOS the
last three are not invariant, and the theorem claims the counts only. `AddMarks` says what an
event marks and misses. `NeverKeptForGood` from `GoneInv`: every window to write has an
event less than its size and the lag ago, or no older than `MaxDelay` (`Soon`). `OwnTtlKept`
from `KeepsInv`: either no field's TTL reaches beyond
the key's (`Covered`), or a window is due that will be written before the key expires
(`Due`); while an emission is under way this holds of its last record. The step is
`EmitKeeps`: if the last record is not of the largest resolution, then the next larger one has
a window that ends within the slide it shares with that record's size (`SoonDue`), or has just
closed, in which case it would have come later in the emission. It holds under
`ShortLag`: the lag is at most half of the smallest window, and no event is older than that
window when it is folded. TLC shows that neither half can be dropped (section 3).

**EventProofs.** Of `Validation`: `OutcomeIsFirstFault` unfolds the pipeline, `StageFindings` says
what each stage can find and `StagesClear` when it finds nothing. `VerdictsAreRight`
follows: nine clear stages are the rules (`ClearIsAcceptable`), and a stage that is
reached has sound ones before it (`ReachedFault`). `VerdictsStand` holds because only
the last stage looks at the clock (`ClockFreeStages`) and time moves one way
(`OutcomeOverTime`). The invariant, `IInv`, ties the outcome held to the clock it was
decided by.

Of `SchemaEvolution`: `DrillsAreAccepted` and `TopicIsReadable` rest on `EvolutionInv`. The
subject and the producer's cache only ever hold four schemas, and every schema a record was written
with is one the registry still serves by its id, deleted or not (`Served`); a run has drills left
where it needs one (`Agenda`). The registry compares a candidate with the *latest* live version, which an
earlier drill or run may have set, or another process. `Backward`: the baseline and every
drill's schema read what any of the four writes but the last drill's, whose promoted field the others
cannot read. So what matters is where that one may be live: in a run begun clean only when no drill
follows it (`LastIsLast`). `Decodable`: each of the four yields an event.

**HarnessProofs.** Of `LoadRunner`: `TypeCorrect` needs `Paces`: attempts and events a thread has left
at each place of its loop, and that nothing is half done before the threads start and
after they end. `RateRespected` rests on `Dripped`, which counts the tokens still in the
bucket and the time since its last refill. `CountedOnce` and `ImplementsLedger` go over
the five effects a step can have on queue and books (`StepEffects`); the refinement uses
`InFlightIsQueue` to know that no more is settled than is outstanding.

Of `Fleet`: `FleetTyped` (its `TypeOK`) with `Spawned`: no child but the planned ones, and a report
only when all of those are done. The difficulty of `CommittedIsCounted` is that the group may move a
partition between any two steps of its reader, and that `commit` sends whatever positions
there are by then. `Tracked` is what survives: behind a committed offset every record is counted;
behind a position it is counted, or in the batch of the member that owns the partition. `Booked`
credits each counted record to a member within what that one consumed: processing a batch extends the
crediting by those records of it that nobody had counted. `ReportsAreDrained` adds `Sync`
(outside its batch a member has committed what it fetched, so that leaving loses nothing) and
`DrainInv`: while records of a partition are left, its owner is in its loop, or it has no owner and a
member that owns nothing is in the loop or yet to enter it, or an error or a kill precludes a
report. A member that ends with a lag of 0 sees no record left, and what it does not see has
another attendant unless the member was blind; a rebalance keeps the attendant unless it
orphans records. These two are what the history variables record, and with the deadline (`cut`) they
are all there is: the theorem says that no report leaves records behind in any other way.

**Only model-checked.** Liveness (`EveryMessageSettled`, `EveryMessageRouted`,
`EveryMessageRead`, `EventuallyEmitted`, `EveryEventStored`, `RunEnds`, `RunReturns`):
fairness and ENABLED are out of the prover's reach. Every invariant and every other action
property or refinement a run checks is a theorem. No module declares
a RECURSIVE operator, so that each can be proved about.

## 6. Not modelled

Serialization and the bytes of records, logging, reports, the validator's counters and
reservoirs, percentiles and skew computations, splitting of rates and seeds among
processes, synthetic payloads, configuration. Of the serving API, routing and health
checks. The Kafka brokers, librdkafka, Redis, Postgres and the Schema Registry are
modelled from the calls the code makes. `PROJECT.json` gives the reason for every
component that is left out or partly modelled, and for the hazards no property covers.

## 7. Plan

What is left:

1. `SlidingWindows` and `OnlineStore` together: that the windows `Emit` of `OnlineStore`
   fires are those `SlidingWindows` fires for one user.
2. The hazards in `PROJECT.json` that no property covers: a watermark and an emission cursor
   that outlive a revocation, an `emission_seq` that begins again after a restart, and a
   stretch of messages that nothing can decode in front of the sink.
