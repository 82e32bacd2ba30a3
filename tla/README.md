# bqlite in TLA+

TLA+ models of bqlite, an embedded columnar event store written in Rust, with
TLC configurations that check them on small instances and TLAPS proofs of the
properties that matter most. Paths below are relative to the repository
(`src/crates/...`).

## Contents

| Module | Models | Checked by | Proved in |
|---|---|---|---|
| `EventTable` | what one table promises its clients | as `ImplementsTable` of `TableStore` | `TableStoreProofs` |
| `TableStore` | manifest, segment files, tombstones; DDL, INSERT, DELETE, compaction, crash, recovery | `table_store*.cfg` (module `MCTableStore`) | `TableStoreProofs` |
| `CoreBudget` | the FIFO counting semaphore | `core_budget.cfg` | `CoreBudgetProofs` |
| `CompactionScheduler` | background compaction: clients, queue, workers, budget | `scheduler*.cfg` | `CompactionSchedulerProofs` |
| `EnginePool` | queries on the worker pool: permits, morsels, errors, cancellation, timeout, outcome | `engine_pool.cfg` | `EnginePoolProofs` |
| `SegmentScan` | one segment's scan: zone maps, tombstone wrapper, filters | `operators.cfg`, `segment_scan_drift.cfg` | `OperatorsProofs` |
| `StatelessPlan` | lowering, pushdown and execution of WHERE, SELECT, LIMIT, SAMPLE, cohorts | `operators.cfg` | – |
| `PatternCompiler`, `SequenceMatcher` | MATCH: the pattern's automaton, the NFA and the step counter | `operators.cfg` | – |
| `EntityAdapter`, `Sessionize`, `EventSelect`, `Attribute` | the operators over one entity's rows and the adapter that feeds them | `operators.cfg` | `StreamingProofs`, `OperatorsProofs` |
| `ExternalSort` | ORDER BY under a memory budget, with spilled runs | `operators.cfg` | `StreamingProofs`, `OperatorsProofs` |
| `HashAggregate` | STATS per shard and the merge | `operators.cfg` | `GroupingProofs`, `OperatorsProofs` |
| `IngestPartitioner` | INSERT from events to row groups, with spilled runs | `operators.cfg` | `GroupingProofs`, `OperatorsProofs` |
| `ColumnChunk` | integer column chunks: codecs, nulls, zone maps | `operators.cfg` | – |
| `Operators` | the composition of the components above, from `SegmentScan` on | `operators.cfg`, `segment_scan_drift.cfg` (module `MCOperators`) | `OperatorsProofs` |

`FiniteFacts` holds the lemmas that the proofs share: extremal elements and sums
over finite sets, induction over an interval and over the subsets of a set, places
in a total order, and the uniqueness of a flattened sequence.

How they compose:

* `TableStore` is shown to implement `EventTable`.
* `CompactionScheduler` and `EnginePool` instantiate `CoreBudget` for their
  permits and use it through its own operations. `CompactionScheduler` keeps only
  the number of segments per bucket; what a compaction does to them is in
  `TableStore`.
* `EntityAdapter` instantiates `Sessionize`, `EventSelect` and `Attribute`, of
  which it runs one; `SequenceMatcher` extends `PatternCompiler`.
* `Operators` drives the sequential components, which do not interact: the
  initial state chooses one of them and one of its jobs, and the component keeps
  the shared variables `job`, `state` and `out` to itself. Its constants are the
  sets of jobs; `MCOperators` gives those that TLC checks. Each of these modules
  has its own `Init`, `Next` and `Spec` and can be checked alone.
* What a module hands to the next is not checked end to end: `IngestPartitioner`
  ends with the row groups that `ColumnChunk` writes and `SegmentScan` reads, and
  `TableStore` takes a segment as the set of its rows.

To run one: `tlc -config table_store.cfg MCTableStore` (the module of each
configuration is given below); `tlapm CoreBudgetProofs.tla`.

## Inventory of the system

### Table storage (`bqlite-storage`: `database.rs`, `manifest.rs`, `writer.rs`, `tombstone.rs`, `tombstone_scan.rs`, `segment/cleanup.rs`)

*State.* `manifest.json`: per table the schema, three counters (`segment_id`,
`__seq_id`, `__batch_id`), and the segments by time window and shard, each with
row count, id range, `ts_range`. On disk: one `.seg` file per segment, one
`tombstones.json` per (window, shard).
*Operations.* create, drop, alter; allocate ids; add, replace, remove segments;
open with reconciliation; snapshot the tombstones for a query.
*Hard.* Every statement is several durable steps (each an atomic rename) with
failures and crashes in between; ids must not come back; a compaction changes
the identity of rows while tombstones name them.
*Correct when* listed segments are readable, ids are unique, a query returns
the committed rows that no DELETE removed, and nothing else is observable.

### INSERT and DELETE (`bqlite-engine`: `ingest.rs`, `delete.rs`)

INSERT partitions rows by (window, shard) and publishes one segment per bucket;
DELETE writes tombstones (by row id, batch id, entity, time range, or by
scanning for a predicate) to each (window, shard) that may hold matches.
*Hard.* Both may stop half-way; targeting must not skip a match.

### Compaction of a bucket (`compaction.rs`: `compact_one`)

Merges all segments of a (window, shard), leaving out tombstoned rows, under
new ids; publishes, unlinks the inputs, and reclaims the tombstones that were
applied. *Hard.* The set of tombstones applied must be the set reclaimed.

### CoreBudget and compaction scheduler (`compaction.rs`)

A semaphore with ticketed head-of-line FIFO; a worker pool with a priority
heap, an `in_flight` set, cooldowns after failures, shutdown by flag and
condition variable. Clients call `notify_table` after ingests. *Hard.* Lost
wakeups, overtaking, starvation, leaked `in_flight` entries, races between the
database mutex and the queue mutex, shutdown while workers sleep or wait.

### Segment scan (`segment/reader.rs`, `zone_map.rs`, `tombstone_scan.rs`, `encoded_tombstone.rs`)

Reads row groups, pruned by zone maps; the tombstone wrapper derives a row's
`__seq_id` from the offset of the rows it has seen. *Hard.* Offsets under
pruning; null and type-mixed zone maps. *Correct when* a scan with pruning
returns what a scan without it, filtered, returns.

### Ingest partitioner and merges (`ingest/partitioner.rs`, `segment/merge.rs`)

Buffers rows per bucket within a byte budget, spills sorted runs, merges runs;
k-way merges segments. *Hard.* Budget boundary, failed spills, truncated runs.
*Correct when* the drain is the sorted multiset of the rows pushed.

### Query execution (`bqlite-engine/src/scheduler`, `bqlite-core`: `memory.rs`, `spill.rs`)

A pool whose workers claim morsels (shards of a query), each with an operator
pipeline and a reservation of the query's memory budget; the accumulators of
the workers are combined at the end. *Hard.* Worker failure or cancellation
while others run, accumulators lent out and returned, spill files cleaned up on
each path. *Correct when* each morsel contributes exactly once and every
reservation is returned.

### Operators and matcher (`bqlite-operators`)

Streaming operators over batches sorted by (entity, time): sort, distinct,
sessionize, event_select, attribute, cohort, aggregate; the sequence matcher as
an NFA with a step-counter fast path. *Hard.* State carried across batch
boundaries; two matchers that must agree. *Correct when* the output does not
depend on how the input is cut into batches, and equals the declarative meaning.

### Planner, parser, CLI, encodings, readers

Pure functions on trees, text or bytes; see *Not modelled*.

## TableStore

### State and actions

| Module | Code |
|---|---|
| `hasTable, segs, nextSegment, nextSeq, nextBatch` | `TableEntry` in `manifest.json` |
| `files` | the `.seg` files: path to rows |
| `tombs` | `tombstones.json` of each (window, shard) |
| `phase`, `job` | the running statement: where it is, its local variables |
| `nextKey, committed, condemned` | observation only: the rows inserted, ever published, named by a DELETE |
| `CreateTable`, `DropTable` | `Database::create_table`, `drop_table` (files stay) |
| `Ingest*` | `execute_insert_from`, `SegmentWriter::write_bucket`, `Manifest::add_segment`: batch id; then per bucket segment id, sequence ids, file, publish |
| `Compact*` | `compact_one`: merge, three allocations, file, publish, unlink, reclaim; `CompactDrop` when no row survives |
| `DeleteBy*`, `DeleteWrite`, `DeleteFinish` | `execute_cheap_delete`, `execute_allow_scan_delete`, `write_shard_tombstone` |
| `IngestFail`, `CompactFail`, `DeleteFail` | the error returns, with the best-effort removals they make |
| `Crash`, `Open`, `OpenFail` | process death between any two durable steps; `Database::open` and `reconcile_segments` |

All statements take `&mut Database`, so only one runs at a time; what
interleaves with its steps is failures, crashes and restarts. A file or manifest
write is a write to a temporary file and a rename, hence one step; an orphaned
temporary file is swept by `open` and cannot be observed otherwise.

Abstractions: a row is an entity, a timestamp and a ghost key (the other
columns play no part); a segment file is the set of its rows, ordered by entity,
time and arrival as the partitioner's stable sort leaves them, so a row's
`__seq_id` is its rank plus the segment's first one. Half-open and open time
bounds of a DELETE are rounded to closed ones over the finite set of times.
An entity term next to row or
batch ids only picks the shard (`Targetings`), so such a DELETE names those ids'
rows of every entity there, as `deletes.md` §3.2 documents.
Queries read whole segments; row groups and zone maps belong to `SegmentScan`.

### What is checked

* `TypeOK` – shape of manifest, directory and statement locals.
* `RefsHaveFiles` – every listed segment is on disk with all its rows.
* `IdsUnique` – no segment, sequence or batch id is handed out again while a
  listed segment carries it.
* `DeleteComplete` – once the tombstones of a DELETE are written, no row it
  matched is visible.
* `TimePruningSound` – a time-bounded query returns exactly the visible rows in
  its bounds.
* `TombstonesHitOnlyPresentRows` – a tombstone never hides a row that no DELETE
  found; so one that outlives the compaction that remapped its ids hits nothing.
* `ImplementsTable` – refinement of `EventTable`: rows appear bucket by bucket,
  and a row disappears only by a DELETE that matched it or by a DROP;
  compaction, failures, crashes and restarts are stuttering steps, and a row
  that is gone stays gone.

| Run | Instance | Shows |
|---|---|---|
| `table_store` (MCTableStore) | 2 entities on 2 shards, 2 times in 2 windows, 3 rows, 4 segments, one DELETE by row, batch or scan, one crash | `RefsHaveFiles`, `IdsUnique`, `TombstonesHitOnlyPresentRows`, `ImplementsTable` |
| `table_store_sticky` (MCTableStore) | 3 times in 2 windows, DELETE by entity or time range, one crash | `TypeOK`, `DeleteComplete`, `TimePruningSound`, `ImplementsTable` |
| `table_store_recreate` (MCTableStore) | 2 times in 1 window, DELETE by entity or time range, one DROP and recreation over the files left behind, one crash | `RefsHaveFiles`, `ImplementsTable` |
| `table_store_shared_shard` (MCTableStore) | two entities in one shard | `TimePruningSound` is violated |
| `table_store_reingest` (MCTableStore) | an entity DELETE, then an INSERT | `TombstonesHitOnlyPresentRows` is violated |

The bounds suffice for the cases that matter: a segment of several rows, a
bucket with two segments to merge and one to spare, a compaction that drops
some or all rows, a compaction of an output, an INSERT over two buckets, a
DELETE over two cells, and one crash or failure at every step of each. One
DELETE at a time is enough because tombstones of two DELETEs only accumulate.
The passing runs give every entity a shard of its own: where entities share one,
as the hash of the code makes them do, `TimePruningSound` and `DeleteComplete` of
a time range fail (first finding). What holds of shared shards is proved
(`PruningSound`, `DeletesComplete`).

An entity or time-range tombstone outlives its DELETE and covers later rows;
`EventTable` allows this when `StickyDeletes` is TRUE, which is set exactly for
the instances that have such DELETEs.

### What is proved (`TableStoreProofs`)

`StoreInvariant`, and from it `StoreTypeCorrect`, `ListedSegmentsReadable` and
`IdsNeverReused`, for all entities, times, shards, window widths and bounds
that satisfy `StoreAssumption`. `RefsHaveFiles` and `IdsUnique` speak of listed
segments only, so they are not inductive: a step that lists a new segment
preserves them because of what the statement holds at that point. `IInv` adds
it, by control point: the pending and bucket rows are not empty (`HoldsRows`);
the segment id is above every listed one (`HoldsId`); the sequence range is
above every listed one and below the counter (`HoldsSeqs`); the batch id is
allocated (`HoldsBatch`); the file at the job's path holds the job's rows
(`HoldsFile`); a compaction's inputs are still listed before the publish, and
share no path with a listed segment after it (`HoldsInputs`). The sets of rows
are finite (`FiniteData`), which the choice of first, last, least and greatest
row needs (`MinimalExists`: a strict order on
a finite set has a minimal element, from the library's well-foundedness of the
strict subset order).

### What is proved about rows and queries

Three invariants on top of `IInv`, each inductive given the ones before it:

* `RowInv` (theorem `RowsInPlace`, no hypothesis): a key is in one listed
  segment, of its own cell (`KeysOnce`, `Placed`); a compaction that has not
  published yet holds exactly the rows that are visible in its inputs, which are
  still all the segments of its cell (`Merging`); a dropped table leaves no
  statement behind (`NoTable`).
* `RangesMissOnlyDisorder` (no hypothesis): a row outside its segment's `ts_range`
  is out of time order with a row of another entity in that segment – it is earlier
  than a row of a smaller entity, or later than one of a greater entity
  (`OutOfTimeOrder`). The first and the last row of an INSERT's segment are those by
  entity and time, so they are its earliest and latest but for such pairs
  (`IngestRange`); a compaction takes least and greatest. If no two entities share a
  shard (`ShardsApart`) there are no such pairs, and a `ts_range` covers its segment's
  rows (`RangesCover`).
* `VisInv` (theorem `TombstonesNameOldIds`): tombstones by id name ids below the
  counters, and below those that a running statement has taken for its output
  (`OldTombs`); after a compaction's publish no tombstone of its cell hides
  anything, so that reclaiming them shows nothing (`Reclaimable`); what a
  running DELETE will still hide, it found when it began (`Intended`).

From them, for all values of the constants:

| Theorem | Under | States |
|---|---|---|
| `PruningSound` | – | `PruningMissesOnlyDisorder`, and `TimePruningSound` while no segment has rows of two entities out of time order |
| `DeletesComplete` | `ShardsApart`, if there is DELETE by time range | `DeleteComplete` |
| `NoLaterRowHidden` | `OldIdsOnly`, no sticky DELETE | `TombstonesHitOnlyPresentRows` |
| `StoreImplementsTable` | `OldIdsOnly` | `ImplementsTable` |

`PruningMissesOnlyDisorder` says how far the first finding goes: a time-bounded
query returns no row that a full scan would not, and misses one only where the
row's segment has it out of time order with another entity's row. Shards may be
shared at will. With one entity per shard, or where an INSERT's later entities have the later
events, nothing is missed.

`DeletesComplete` rests on `Targeted`: a row that a DELETE found and that is
still visible is in a cell still to be written, in the tombstone planned for it.
The lemmas on `Plan` show it of each kind of DELETE when it begins: the cells
chosen from the manifest's metadata miss no match. No compaction comes between,
as the DELETE holds the database.

`StoreImplementsTable` goes by what a step shows: one that leaves segments,
their files and the tombstones alone (`View`) is a stutter or the start or end
of a DELETE; a publish by an INSERT adds its bucket's rows and hides none, since
its ids are above all that a tombstone names (an entity or time-range tombstone
may hide them, which `EventTable` allows); a compaction's publish keeps the
visible rows; a tombstone written takes rows of the DELETE, a DROP all of them.

The hypotheses are needed. `table_store_shared_shard` violates `TimePruningSound`
by a segment with rows out of time order; a DELETE by time range goes by the same
`ts_range`; and `table_store_reingest` violates
`TombstonesHitOnlyPresentRows` with sticky DELETEs. `OldIdsOnly` excludes a DELETE
that names ids of the future (`AnyId`), and dropping a table that has tombstones
by id: they stay on disk, the new table hands out the same ids, and they hide its
rows (`table_store_recreate` with `DeleteKinds = {"row"}` shows this). It holds of
the passing runs.

## CoreBudget

State: `available`, `waiters` as in `CoreBudgetState`; `status` and `held` are
the threads' program counters and guards. `Acquire` is the first turn of
`acquire_inner`'s loop, `Recheck` a later one after `cv.wait` returned,
`Release` the drop of a guard. A thread is in at most one call, so it stands for
its ticket. `notify_all` makes every parked thread "woken", and
`SpuriousWakeup` does it for any single one at any time.

`core_budget.cfg` (CoreBudget): 4 threads, 3 permits, demands 1 to 3: a large
waiter behind and before small ones, several holders, a queue of three.
Deadlock is checked. `PermitsConserved`: no permit is lost or made up.
`QueueExact`: the queue is exactly the threads inside `acquire_inner`.
`NoLostWakeup`: the head never sleeps while it could go. `GrantedInOrder`: no
overtaking. `EveryWaiterServed`: no starvation.

Fairness: weak fairness of `Recheck` (a woken thread gets the mutex some time)
and `Release` (work under a permit ends). Nobody is obliged to acquire, and
spurious wakeups need not happen. `EveryWaiterServed` therefore rests on
notifications alone. Demands are at most `Permits`: a larger one blocks for
ever, with everyone behind it, which `acquire_n` does not exclude.

Proved in `CoreBudgetProofs` for any set of threads, demands and permits:
`BudgetInv` (types, `QueueExact`, `NoLostWakeup`) is inductive, which gives
`BudgetTypeCorrect`, `QueueIsExact` and `WakeupsNeverLost`, and from it the action property
`GrantsAreInOrder`. `NoLostWakeup` needs `QueueExact`, because a thread that
parks must know whether the head is itself or another. `PermitsAreConserved` is
`PermitsConserved` for finitely many threads: `GuardsOnly` says that a thread
without a guard counts for nothing, and `OneGuardMoves` that a step of one thread
changes the sum by its own share. `EveryWaiterServed` stays with TLC.

## CompactionScheduler

State: `heap, inFlight, cooldown, shutdown` as in `SchedulerQueue`; `l0, upper`
count the level-0 and compacted segments per bucket; `at, job` are the workers'
control points and popped jobs, `client, found` those of notifying clients; the
rest is the core budget. One action per critical section: `NotifyScan` under
the database mutex and `NotifyEnqueue` under the queue mutex, with other threads
in between; `Pop`, `Sleep`, `Exit` under the queue mutex; `AcquirePermit`;
`CompactOne`, `CompactTooFew`, `CompactFails` under the database mutex; `Done`,
`Failed`; `ReleasePermit`. `CompactNow` is `run_compact_now`, which bypasses the
queue.

Left out: the trigger by bytes and priority by bytes (jobs of equal count are
popped in any order), the backlog metric, panics. The time of a cooldown is
abstracted: it may end any time after it began.

| Run (module CompactionScheduler) | Instance | Shows |
|---|---|---|
| `scheduler` | 2 workers, 2 clients, 2 buckets, 1 permit, 4 ingests, 1 failure | `SchedulerTypeOK`, `InFlightExact`, `NoJobSleptThrough`, `JobsRun`, `RetriedWhenNotified`, `ShutdownTerminates` |
| `scheduler_reevaluation` | 1 worker, 1 bucket | `EligibleGetsCompacted` is violated |
| `scheduler_stale_notify` | 1 worker, 1 bucket, no failures | `CooldownOnlyAfterFailure` is violated |

With one permit for two workers, a worker waits for the budget while the other
compacts; four ingests let a bucket become eligible again after it was
compacted. Ingests and failures are bounded and the scheduler shuts down, so the
system may stop: deadlock is not checked. A notification may be repeated without
an ingest, any number of times.

`InFlightExact`: a bucket is in flight exactly while it is queued or with a worker,
and it is there once. `NoJobSleptThrough`: while a worker sleeps, every queued job
has another worker on its way to the queue. `JobsRun`: a queued job is worked off. `RetriedWhenNotified`: a failed bucket is put
off, not out – one that notifications keep finding eligible gets compacted, whether
they fall into its cooldown, which drops them (`compaction.rs:1285`), into a running
job, which drops them too, or between. Nothing else retries it, so the property
asks for repeated notifications. `ShutdownTerminates`: every worker exits.

Fairness: every worker runs (weak fairness of its next step; it needs nothing
stronger, as a mutex is free again after every action), a client that ingested
notifies and completes its call, and a cooldown runs out as time passes
(`retry_cooldown` is a duration). Nothing in the repository calls
`notify_table` outside tests yet; the documented use is after each ingest.
Repeated notifications and shutdown need not happen.

Proved in `CompactionSchedulerProofs` for any workers, clients, buckets,
permits and trigger: `BudgetOfScheduler` – every step of the scheduler is a
step of the budget or leaves it alone, so `BudgetInv` holds inside it;
`InFlightIsExact` and `SchedulerTypeCorrect`, from `SchedulerInv`, which adds to
`InFlightExact` that a worker carries a job exactly at the control points where
it should (`JobsAtWork`) and that a client's list names each bucket once
(`FoundOnce`). `JobsNeverSleptThrough` is by counting, for finitely many workers
and buckets: a push wakes a sleeper for each job or leaves none asleep, a worker
that goes to work takes a job along, and one falls asleep only before an empty
heap; that the jobs counted are finite rests on `InFlightExact` and `FoundOnce`
(one job for each bucket). Liveness is model-checked only.

## EnginePool

### State and actions

| Module | Code |
|---|---|
| `available, waiters, status, held` | the core budget, as in `CoreBudget`; the threads are the queries |
| `populated, queue, slots, outstanding` | `run_per_shard`: the shards with a segment, the `MorselQueue`, the accumulators parked on their handles, the morsels in flight |
| `worker` | each pool thread: at the top of its loop, at work on a morsel, about to report an error |
| `firstError, result, phase` | the error slot, the outcome, the coordinator's place in `query_with_options` |
| `token, cancelled, reason, firing` | `CancellationToken`, `CancelReason` and the timer between its two steps |
| `foreign`, `faults` | observation: someone else set the query's token; bound on faults |
| `Submit`, `Reacquire`, `SpuriousWakeup` | `acquire_n(query_threads)`; its condition variable may wake without a notification |
| `Dispatch`, `DispatchSingle` | `run_per_shard` and `submit` up to the spawning of the workers |
| `PullOrExit`, `Drain`, `SeeCancelled`, `Fail`, `Complete`, `Report` | the worker loop: pull, drain on a cancelled token, the check between batches, an error or a caught panic, the accumulator's return, publication of the error and setting of the token |
| `Join`, `CheckAndMerge`, `Collect`, `Return` | join of the scope and release of the permits, the token check before the merge, the mapping of `Cancelled` to `Timeout`, the drop of the timer |
| `CallerCancels`, `TimerFires`, `TimerSetsToken` | the caller's `cancel()`; `cancel_with_reason(Timeout)` in its two stores |

A thread's step between two looks at shared state is one action. The data of a
morsel is left out: an accumulator is either on its handle or not. The morsels
are all queued before a worker starts, so no worker ever parks on the queue.
A caller may give one token to several queries, and a set token stays set.

### What is checked

* `PoolTypeOK`.
* `NoPartialResult` – a query that succeeds has the accumulator of every shard.
  `run_per_shard` itself returns Ok when it drained its queue after a
  cancellation, so this rests on the check that follows it.
* `AccountingBalanced` – when the workers are joined no morsel is queued or
  counted as outstanding, on the error and cancellation paths too.
* `RootCauseReported` – a query reports `Cancelled` only if someone else set its
  token: the token that its own failing worker sets to stop the peers does not
  hide the error, whatever the peers do in between, and that of its timer makes
  it a timeout.
* `WorkersWithinPermits` – all running workers are covered by permits.
* `EveryQueryReturns` – liveness.

`engine_pool` (EnginePool): 2 queries, 2 shards, one token for both, 2 workers
per query, 2 permits, 1 fault per query. Two queries compete for the permits of
one; two workers of a query fail, drain, complete and see cancellations in every
order; a shared token lets one query's failure cancel the other. A query may
start again only as a new one, so all may have returned: deadlock is not checked.

Fairness: weak fairness of the coordinator's and of each worker's next step, of
a woken thread's turn in the budget, and of the second step of a timer that took
the first. Nobody need submit, cancel or fail, and no timer need fire. The code
justifies it: each of these is a running thread that waits for nothing but
mutexes that are free again after every action.

Not claimed: that a panic wins over every other cause. `query.rs:399` says so,
but a worker's panic that comes after a peer's `Cancelled` loses the error slot,
and the query reports a timeout or a cancellation somebody else asked for.

### What is proved (`EnginePoolProofs`)

For all queries, shards, tokens, workers and permits of `PoolAssumption`:
`PoolTypeCorrect`, `AccountingIsBalanced`, `NeverPartialResult` and
`RootCauseIsReported`, from one inductive invariant `PoolInv`, and
`BudgetOfPool`. None of the properties is inductive: they speak of a query whose
workers are joined, and say nothing while they run. `QueryInv` says it, of each
query on its own:

* `Quiet` – outside the running phase there are no workers and no queue;
* `Owned` – a morsel is in the queue or with exactly one worker, whose guard is
  the only one counted;
* `Staffed` – while the queue is not empty, a worker is there to empty it;
* `Located` – no populated shard is forgotten: it is in the queue, at a worker
  or parked, unless the token is set or an error is published;
* `Joined` – what `run_per_shard` returned and the check after it established;
* `Caused` – a set token has someone to blame (another thread or the timer) or
  the query's own error, which a worker publishes in the step that sets it.

`Elsewhere` is the argument for the other queries: a step touches those of other
threads only by setting tokens.

`WorkersStayWithinPermits` is `WorkersWithinPermits` for finitely many queries.
A query whose workers run holds its permits (`Funded`), the budget's
`PermitsAreConserved` holds inside the pool, and the sum over the queries of
their running workers is at most the sum of the permits they hold. Only
model-checked: `EveryQueryReturns`.

## The sequential components

All run in `operators` (`Operators` with the jobs of `MCOperators`), each from start to end; where the code
takes its input in batches or sub-batches, the cuts are a choice of the actions,
so that each property says that cuts do not matter. The components end, so
deadlock is not checked, and the properties speak of finished jobs (some of
unfinished ones too). The right-hand side of each property is a direct
definition over the whole input, without the state the code keeps.

### SegmentScan (`segment/reader.rs`, `zone_map.rs`, `tombstone_scan.rs`, `encoded_tombstone.rs`, `scan.rs`)

State: the next row group, the wrapper's `next_row_offset`, the positions of the
rows that left the scan (a set: the reader only moves forward, so their order is
that of the positions). `SkipRowGroup` is the reader's loop over groups that zone maps or the
sample rule out, `ReadRowGroup` a batch through wrapper and filters, `Exhaust`
the end. A job is a file, a tombstone file, pushed-down conditions and a sample,
on the materialized or the encoded path, with `__seq_id` projected or not.
`ScanExact`: a scan returns the rows that no tombstone hides and that satisfy
the filters. It does not hold (finding 5; run `segment_scan_drift`);
`ScanExactWithoutDrift` is the same for scans in which no row is read behind a
skipped group with its id to be derived and a row tombstone to meet.
Bounds: three rows in two groups, values 1, 2 or null, all cuts, eight shapes of
conditions, each kind of tombstone.

Proved in `OperatorsProofs`, on the instance `Scan`: `OperatorsScan`, which is
`ScanExactWithoutDrift` for any file, tombstones, conditions and sample that
satisfy `ScanInputs` (rows of integers and nulls, conditions of the kinds the
planner pushes down; `OperatorsAssumption` says it of the jobs of `Operators`,
where TLC evaluates it).
`ZoneBounds` says that a zone map bounds the values that are not null and counts
those that are; `ConditionPruned`, by cases of the operator, that a group whose
zone map a condition rules out has no row that satisfies it, nor does a group of
one entity outside the sample. `ScanInv` says of the groups passed that exactly
their wanted rows are out, and that the wrapper's count is that of the rows before
the group, unless a group was skipped.

### StatelessPlan (`logical.rs`, `physical.rs`, `opt/*`, `bind.rs`, `fused_segment.rs`)

`LowerPhysical` makes segments, samples and cohort filters of a query's stages;
`Optimize` runs sample pushdown, predicate pushdown and the coalescing of IN
lists in the optimizer's order; `PendingPushdowns` is the cohort pushdown of the
bind step. `SkipRowGroup`, `NextBatch` and `EndOfStream` pull the scan's batches
through. `PlanExact`: the rows and their order are those of the stages taken one
after the other. Bounds: all queries of one to three of ten stages, five rows in
three row groups. `Covered` names the plans for which the code gives another
result; see *Observations*.

### PatternCompiler and SequenceMatcher (`compile.rs`, `matcher/*`)

`Compile` builds the automaton with its epsilon transitions removed and the
poisoned types of each state. The matcher's state holds the tracks (one for each
binding; the automaton's have a deque of candidates per state, the step
counter's one candidate), the step counter's backlog, completions and partials.
`ProcessSubBatch` takes the next n events, `FinishEntity` drains. `Event` is one
event: session boundary, relevance, then `NfaEvent`, `NfaEventWithBindings` or
`CounterEvent` by strategy.
`MatchesExact` compares with a dynamic program over pairs of step and start
(`Chains`, `Matches`) that knows nothing of candidates. `EntriesAccountedOnce`:
with EMIT ALL each entry is accounted for once, as complete or as its farthest
partial. Bounds: eleven patterns of one to three steps with repetition,
alternation, exclusion and variables; three or four events of three types with
equal and distinct times, no window or one of 2, two sessions. `Covered`
names what the code does otherwise.

### EntityAdapter, Sessionize, EventSelect, Attribute (`bind.rs`, `sessionize.rs`, `event_select.rs`, `attribute.rs`)

The adapter holds the current entity and its operator state, cuts each batch of
its child at entity boundaries (`ProcessChildBatch`), and finishes an entity when
another begins or the child ends. `Sessionize` keeps an open session as slices
of sub-batches, `EventSelect` a row and a count, `Attribute` a capped deque of
touchpoints. `SessionsExact`, `SelectionExact` and `AttributionExact` compare
with the sessions, selections and pairs defined over an entity's rows.
Bounds: four rows of one or two entities, gaps, ties, end events, caps of one,
two and more.

Proved in `StreamingProofs`: `EventSelectsItsRow`, `SessionsFollowGaps` and
`AttributionIsComplete`, which are these three properties for any entities, rows,
cuts into batches and parameters that satisfy `EntityInputs`; `OperatorsSelection`,
`OperatorsSessions` and `OperatorsAttribution` carry them over to `Operators`.
`EntityInputs` says what the child and the planner hand over: the rows of an entity
are contiguous and in the order of time, no row's entity or position is null, times
are numbers (and the model's `Null` is none), gap, window (`attribute.rs:172`) and
bounds are not negative, and a session may hold at least one row. It is part of
`OperatorsAssumption`, so TLC evaluates it on the jobs it runs.

The proof has two layers.

* The adapter, for any operator that keeps four promises (`OperatorCorrect`): a new
  state summarises no rows (`CreateSummarises`), a sub-batch takes a summary of an
  entity's first rows to one of more of them (`SubBatchSummarised`), from a summary
  of all of them the result is read off (`FinishReturnsResult`), and results are
  sequences (`ResultsAreSequences`). `AdapterInv` is the inductive invariant: of the
  rows seen, `Reached` says that the results of all entities before the current one
  are out, in their order (`FlatUpTo`), and that the adapter's state summarises the
  current entity's rows so far. `RunReached` and `BatchReached` take it over the runs of
  a batch, wherever the batch begins and ends; `EntityRowsAre` says that a run that
  ends is all that the entity has, which needs that its rows are contiguous.
* The promises, by what `Summarises` means of each operator. EVENT: the row found is
  the one of those so far that is wanted, and whether more rows matter
  (`SelSummarises`). SESSIONIZE: the completed rows are annotated as by the
  definition, the open session begins where the last one ended, and its rows are
  held, those of the current sub-batch as a slice not yet copied (`OpenFrom`,
  `SessLoop`); a session exceeds the cap in the state exactly if it does by the
  definition (`Over`). ATTRIBUTE: the deque holds exactly the touchpoints within the
  window of the last row, in their order (`Holds`, `Recent`). A row prunes it to
  those in its own window (`PrunedHolds`, which needs the order of time), and the
  pairs emitted from it are those of the definition, which counts places in a set
  (`EmittedIs`, by the enumerations of `EnumerationCounts`).

For EVENT the property and the proof are about jobs in which no row's predicate
fails (`Claimed`).

### ExternalSort (`sort.rs`, `memory.rs`)

State: the buffered batches, `used` bytes of the tracker, the spilled runs and
the merge's cursors, a result. `Pull`, `PullSpilling` and `SpillFails` are the
turns of the accumulating loop with their reservation; `BuildMerger`,
`MergeBatch`, `ReadFails`; `Cancel` at any time; `CloseAndDrop`. `SortExact`: what is emitted is sorted, each
row at most once, and no row that is left precedes one that is out; all rows
are out if there was no error. `BudgetExact`: the tracker holds what the buffer
holds, never more than the budget, and ends where it began – except for a sort
that failed while accumulating or was cancelled. Bounds: four rows with keys 1,
2 or null in two or three batches; budgets that hold all, some or hardly any.

Proved in `StreamingProofs`: `SortReturnsItsRows` and `SortStaysInBudget`, which
are these two properties for any batches, direction, budget, row cap and batch
size that satisfy `SortInputs` (a child's rows are told apart by their position,
and the tracker is not overdrawn at the start; part of `OperatorsAssumption`).
`OperatorsSort` and `OperatorsBudget` carry them over to `Operators`. `SortInv` adds to them

* `Budgeted`, `Emptied` – what the tracker counts, and from which point on
  nothing is buffered;
* `Held` – runs and buffer hold the rows read so far, each once, every run sorted;
* `MergeInv` – all rows are in runs, and `Merged`: what is out is what the
  cursors have passed, in order, and no row behind a cursor precedes a row that
  is out. `PopKeeps` shows this of one row from the heap, which has a head
  (`HeadExists`) as its order is total on the runs.

`FlattenSeq` and `FoldLeft` are defined by recursion. Their lemmas (`FlatIs`,
`FoldSteps`) show by induction over the prefixes of the sequence at hand that the
recursion has one solution, which is the one that the definition chooses.

### HashAggregate (`aggregate/mod.rs`)

State: an accumulator for each shard. `UpdateBatch` takes a shard's next batch
by row or, for COUNT over a dictionary, by slot; `MergeAndFinish` merges in
shard order, finalizes and sorts. `AggregateExact`: groups and values are those
of all rows, integers wrapped at `Width` bits, and the query fails exactly if
there are more groups than allowed. An untyped sum of floats is excluded
(*Observations*). Bounds: two shards, dictionaries with a null and with a
value twice, 3-bit integers, limits of one to three groups.

Proved in `GroupingProofs` and carried over to `Operators` by `OperatorsAggregate`: `AggregateExact` for
all shards, batches, dictionaries, functions, limits and integer widths, under
`AggInputs` (part of `OperatorsAssumption`): a batch's codes are of its dictionary,
values are integers or null, a function's input is of the job's type or untyped,
`Null` is no number, and 2^(w-1) is half of 2^w and positive (tlapm knows no powers;
TLC evaluates it).

* The invariant (`Accumulated`): while the query runs, every shard's accumulator
  *describes* the rows of the batches that the shard has taken, and is not full.
  `Describes(acc, R)` says that the accumulator has the keys of `R`, each with the
  state in which every function has seen the rows of `R` of that key; or that it is
  full and `R` has more keys than the limit. When the query is done, its output is
  `Result`, read off the states of all rows.
* The invariant is stronger than the property, which is about the end only: it is
  what batches and merges add up to. A state is described by a set of rows
  (`StateOf`), not by the order in which they came, so the order of batches, slots,
  groups and shards cannot matter. The sum of a set of integers is `Total`.
* Functions: one row more (`StateUpdated`), two disjoint sets of rows
  (`StatesMerged`), no row (`StateAtFirst`) and the end (`StateFinalized`). A sum
  that is wrapped at each step is the wrapped sum (`WrappedEarly`).
* Steps: a group is found, inserted, or refused at the limit (`GroupFound`), and
  grows by rows of its key (`GroupGrows`). Batches by row (`RowsSeen`), by slot
  (`SlotsSeen`, where the slots that are null or a null's share a key), merges
  (`AccumulatorsMerged`, `ShardsMerged`): each is a fold, which goes up through the
  subsets of what it folds over (`AggFoldSteps`), and `SubsetInduction` follows it.
* The end: `AllAggregated`, with the default group of a query without GROUP BY,
  and `ResultIsAggregate`.

### IngestPartitioner (`ingest/partitioner.rs`, `writer.rs`)

State: the buckets and their bytes, the runs of each key, the segments written.
`Push`, `SpillBucket`, `SpillFails`, `PushRefused`; `WriteBucket` merges the runs
and the rest and cuts row groups; `Written`. `IngestExact`: each window and shard
gets its events in the order of entity, time and source, in row groups that
split an entity only where it fills one; the count of bytes is right and within
the budget; an event is refused only if no budget or window can take it. Bounds:
five events, three entities, two shards, two windows, a budget of two bytes
(a spill at almost every event).

Proved in `GroupingProofs`: `InsertIsExact`, which is `IngestExact` for
any events, shards, window, budget and row-group size that satisfy `IngestInputs`
(times and entities are numbers, every entity has a shard; `build` refuses a window
or a budget of zero, and a writer's row groups hold at least a row; part of
`OperatorsAssumption`). `OperatorsIngest` carries it over to `Operators`. The
property speaks of finished INSERTs, so the invariant `IngestGood` says of every
state:

* `Buffering` – each key's runs and bucket hold exactly the key's events read so
  far (`BucketHolds`): every run is in order, a later run and the bucket have only
  later events of the source, which is why equal events may be merged by the
  number of their run; and the count of bytes is the `Load` of the buckets;
* `Draining` – the segments written are those of the keys drained, in order of
  their keys, and each is exact (`SegmentExact`).

`StablySortedIs` says that a sort by rank is a stable one, from `EventOrder` (the
order of entity, time and source is total) and `PlacesAreDistinct`. `MergeIs`
follows the heap pop by pop: `IngestPopKeeps` is one pop, and `PopsMerge` the
induction over their number, which ends with the heap empty since each pop takes
one of the events left (`InOrderCounts`). `GroupsAre` is the cut into row groups:
`StartsReach` says where the groups found so far begin and end, `GroupEndIs` that
one of them cuts an entity only if it holds nothing else. The bytes are counted in
units (`Units`), so that a bucket that is spilled takes its own with it (`LoadSplit`).

### ColumnChunk (`encoding/*`, `segment/writer.rs`, `segment/materialize.rs`)

`WriteChunk` encodes a row group by any codec whose guard passes, `RefuseNull`
fails a null in a NOT NULL column, `ReadChunks` decodes. `ColumnExact`: values
and nulls come back, and zone maps, also aggregated, are exact extremes. The
choice among codecs and among PFOR's widths goes by sizes in bytes, which are
left out, so the property holds for any choice. Bounds: 4-bit integers, blocks
of two values, up to eight values.

## All runs

| Run | Module | Expect |
|---|---|---|
| `table_store`, `table_store_sticky`, `table_store_recreate` | MCTableStore | pass |
| `table_store_shared_shard`, `table_store_reingest` | MCTableStore | violation (findings 1, 2) |
| `core_budget` | CoreBudget | pass |
| `scheduler` | CompactionScheduler | pass |
| `scheduler_reevaluation`, `scheduler_stale_notify` | CompactionScheduler | violation (findings 3, 4) |
| `engine_pool` | EnginePool | pass |
| `operators` | MCOperators | pass |
| `segment_scan_drift` | MCOperators | violation (finding 5) |

## Findings

1. *`ts_range` of an ingested segment* (`table_store_shared_shard`).
   `writer.rs:416` takes the timestamps of the first and the last event of a
   slice sorted by (entity, time). `manifest.rs:237` documents the range across
   every event. With two entities in a bucket (entity 0 at time 1, entity 1 at
   time 0) the range is wrong, a time-bounded query prunes the segment, and a
   time-range DELETE skips the window. Compaction computes the range correctly.
2. *Re-ingest after an entity DELETE* (`table_store_reingest`).
   `deletes.md:61` says rows ingested after the DELETE are not affected; the
   filter has no cut-off, so they are hidden until a compaction reclaims the
   tombstone – and dropped for good if the compaction merges them.
3. *No re-evaluation on completion* (`scheduler_reevaluation`).
   `compaction-concurrency.md:89`: a notification during a job is dropped, and
   the worker does not look at the bucket again when it is done.
4. *Stale notification* (`scheduler_stale_notify`). Eligibility is read under one
   mutex and used under another; a bucket compacted in between is queued again,
   refused, and put in a cooldown that is meant for failures.
5. *Row offsets behind a skipped row group* (`segment_scan_drift`). The reader
   skips row groups by their zone maps, the tombstone wrapper counts only the rows
   it is handed (`tombstone_scan.rs:138`, `encoded_tombstone.rs` alike). A row
   tombstone behind a skipped group then hides another row, and the deleted one
   is returned. `scan.rs:940` says the wrapper "sees every row group and its
   `next_row_offset` accumulator stays in lockstep with the on-disk layout".

## Observations

Where a property excludes inputs, the code answers them as described here. No
run shows these; the excluding operators are named.

* *Plans* (`Covered` in `StatelessPlan`). Two LIMITs in one segment share one
  count (`bind.rs:1228`, `fused_segment.rs:160`), so `LIMIT 5 | LIMIT 5` returns
  nothing. `x IN (1,2) AND x IN (2,3)` is coalesced to the union. A
  cohort's entities skip row groups below a LIMIT that should have counted their
  rows. A cohort or a sample above a renaming SELECT is pushed down by name.
* *Float sums* (`FloatSumUntyped` in `HashAggregate`). Accumulators created
  without input types, as the adapters of `bind.rs` do for fused aggregates,
  start SUM as an integer and ignore floats.
* *Sort* (`BudgetExact`). The tracker owns the spill handler, the handler shares
  the buffer, the buffer's reservations own the tracker; after an error or a
  cancellation `close` finds the phase Done and does nothing, and the cycle keeps
  the bytes. `docs/design/engine/cancellation.md:299` says a cancelled query releases them.
* *EVENT* (`SelectionExact`). A predicate that fails on one row drops every row
  of the sub-batch, so the result depends on the cuts.
* *Matcher* (`Covered` in `SequenceMatcher`). The step counter starts again only
  from entries up to the track's last step: with `A THEN B WITHIN 3`, the events
  A(1) A(3) B(5) have no match. On the automaton, candidates of equal anchor
  keep the later last step, so events of equal times can lose a match. With
  MATCH FIRST, variables and sessions, a boundary clears finished tracks and a
  key may complete twice.
* *DROP and CREATE* (`OldIdsOnly` in `TableStoreProofs`). `drop_table`
  (`database.rs:764`) leaves the tombstones behind; a new table of that name starts
  its ids at zero, and tombstones by id of the old one hide its rows.
* *Pool*. A worker's panic does not always win over a timeout (see `EnginePool`);
  a failing query, or its timer, sets the caller's token and so cancels the
  caller's other queries with that token.

## Plan

Done: `EventTable`, `TableStore`, `CoreBudget`, `CompactionScheduler` with the
proofs above; `EnginePool` over `CoreBudget`; `SegmentScan`, `StatelessPlan`,
the matcher, the entity operators, `ExternalSort`, `HashAggregate`,
`IngestPartitioner`, `ColumnChunk`.

Proved of the sequential components: the scan, the sort, SESSIONIZE, EVENT and
ATTRIBUTE, INSERT, STATS.

Left:

1. Proofs: `StatelessPlan`, a stage may be moved below another that keeps its
   columns; `ColumnChunk`, a codec gives back what it was given; the matcher.
2. `distinct`, the k-way merge of segments, percentiles.

## Not modelled

* ALTER TABLE, `create_with_shards`, catalog queries: no interaction with the
  statements above beyond the manifest's atomic update.
* `rows_affected`: a report computed before the tombstones are written.
* `run_compact_now` bucket by bucket: it holds the database throughout, so
  `CompactNow` is one step. An error in the middle of it, after which buckets are
  left as they were, is not taken.
* Errors of a sort's child (`sort.rs:270`): the sort returns them as they are, and
  `close` then empties its buffer. Errors of the coordinator's merge and finish
  (`query.rs:949`, `query.rs:962`): they come when all workers are joined and the
  permits returned, and become the query's outcome.
* Parser, type checking, rendering, and the optimizer's passes other than those
  of `StatelessPlan`: pure functions on large trees.
* Strings and floats in column chunks (FSST, LZ4, ALP), the byte layout of
  segments, runs and manifests, CSV, JSON and Parquet readers: byte-level codecs,
  covered by the repository's round-trip tests.
* Expression arithmetic and the kernels over encoded columns: row-wise functions.
* `distinct`, `materialize`, percentiles, the k-way merge of segments.
* In MATCH: IMMEDIATELY, step predicates and brackets (part of an event's type),
  caps on candidates, the recording of matched events.
* CLI, FFI, benchmarks: input and output.
* Panics and mutex poisoning outside the query pool: errors are returned as
  `Result` on the paths modelled. In the pool, a caught panic is an error.

## What the prover cannot reach

Liveness under fairness and ENABLED. Induction over data in general: the library's
induction theorems take an operator as a parameter. Induction over an interval of
numbers can be had with a set in the place of the predicate (`UpTo` and `DownFrom`
in `FiniteFacts`), over the subsets of a set likewise (`SubsetInduction`); the sort,
the entity operators, INSERT and STATS use them. RECURSIVE operators, of which there are
none here; `SelectSeq` and TLC's `Permutations`, of which the provers know nothing,
so the modules proved about do without.

All liveness properties stay with TLC, and of the safety properties of `Operators`
`MatchesExact`, `EntriesAccountedOnce`, `PlanExact` and `ColumnExact`: their references are recursive over a list of stages, a pattern or a
sequence of codes, and each needs its own induction over that data.
