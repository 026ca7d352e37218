# Solana realtime indexer: models and proofs

TLA+ models of the indexer in `src/`, checked with TLC, and theorems about them checked with
TLAPS. Every definition is a translation of the Rust source; `PROJECT.json` maps each one to
the lines it stands for (`map`), and lists the runs, the theorems, the findings and the
hazards the properties are aimed at.

Paths below are relative to `src/`, the repository: `src/writer.rs` is the crate's file
`src/src/writer.rs` of `PROJECT.json`.

## 1. The system

The indexer subscribes to the pump.fun and PumpSwap programs over Yellowstone gRPC, decodes
the instructions in a Carbon pipeline and stores events and trades in Postgres. One binary,
several commands: `live`, `recover`, `backfill`, `repair`, `replay`, `capture`, `bench`,
`verify`, `serve`. Nothing keeps two of them from running on one database at once.

```
  Yellowstone / RPC / file          (data sources: Carbon, backfill.rs, replay.rs)
        | updates, channel of 10,000, Carbon discards when full
        v
  processors (pumpfun.rs, pumpswap.rs), one instruction at a time
        |--- check_slot ---> gap channel (64, try_send) ---> gap recorder ---> stream_gaps
        |--- resolve -----> lookup channel (1,000, try_send) -> pool worker -> cache, pools
        |--- send, waits -> write channel (10,000) ----------> writer task --> events, trades,
                                                                ingestion_checkpoints,
                                                                dead_letters
  recover : reads stream_gaps, runs a backfill pipeline per gap, updates the gap's status
  repair  : reads events without a trade and pools, inserts the trades it can rebuild
```

### Inventory

| Component | State | Operations | Talks to | What is hard | What makes it correct |
|---|---|---|---|---|---|
| Batch writer (`writer.rs`, `db.rs`) | channel, batch, open transaction, gauge; tables `events`, `trades`, `ingestion_checkpoints`, `dead_letters` | send, receive, tick, flush (four statements and a COMMIT in a timeout), park, stop | processors, Postgres, metrics | failure between statements, a COMMIT whose answer is late or lost, kill, quiet stream, shutdown, two processes | no row silently gone; event and trade together; progress only for what is stored; every row settles; a stopped task has drained; it implements an atomic store |
| recover command (`recover.rs`) | gaps read, ranges covered; `stream_gaps.status` | read, skip, mark, run the pipeline, close | backfill, writer, Postgres | overlapping padded ranges, errors and kills between marking and closing, two runs at once | the transactions of a closed gap are accounted for; a tried gap never looks untried; gaps only move forward; a run ends |
| Block backfill (`datasources/backfill.rs`) | slots left, attempts | list blocks, fetch with retries, cancel | RPC node, Carbon | a block refused for good, blocks and transactions passed over in silence, cancellation between blocks | what it was asked for is sent, or known not to be |
| Gap monitor (`gaps.rs`) | watermark, channel, report at hand | check a slot, report, record | processors, Carbon's client, Postgres | slots out of order, full channel, failing insert, restart | nothing longer than the tolerance passes in silence; a stretch is claimed once; reports settle |
| Pool resolver (`pools.rs`, `processors/pumpswap.rs`) | cache, requested pools with time, channel, worker; table `pools` | prime, resolve, request, look up, insert, save | RPC node, Postgres, processor | dropped lookups, answers later than the creation event, several processes on one table | the table never forgets; what is cached is saved; who asked gets an answer |
| Trade processors | none of their own but `requested` | decode, check slot, resolve, orient, send | all of the above | they wait for the writer's channel and for the save of a created pool | live and repair build the same trade |
| Pipeline and shutdown (`pipeline.rs`, `main.rs`) | handles, tasks | assemble, run, drop, await the writer | all | what is awaited and what is not; backpressure up to Carbon's discards | a graceful stop loses no decoded row |
| Lag gauge, histograms (`metrics.rs`) | atomics | observe, summary, lag | exporter, bench | reads of several atomics, bucket boundaries, zero that means two things | bounds on what a reader sees |
| repair command (`repair.rs`) | pools, page of events | load, build, insert in batches of 100 | Postgres beside live | a page filled by events that cannot be repaired, trades written meanwhile | repeated runs repair what can be repaired |
| Replay, paced replay (`replay.rs`, `bench.rs`) | pass, lines, channel of one | pass, skip, pace, verdict | Carbon | closing a channel with a blocked producer | both futures end |
| verify (`verify.rs`, `identity.rs`) | sets of identities | fetch, compare | Postgres beside live | the table changes between fetch and query | no false pass |
| Query API, capture, command line, configuration, Carbon itself, dashboards and scripts | | | | | not modelled, see section 8 |

## 2. Plan

All of it is done, in this order:

1. `EventRows`, `AtomicStore`, `Writer`, `WriterProofs`: the write path and what it promises;
2. `Recovery`, `RecoveryProofs`: gaps and backfill;
3. `GapMonitor`, `GapMonitorProofs`: detection and recording;
4. `PoolResolver`, `PoolResolverProofs`: cache and lookups;
5. `Trades`, `Repair`, `RepairProofs`: the row of an event, and repair beside the writers;
6. `Pipeline`, `Live`, `PipelineProofs`: Carbon's channel, the processors and the writer's channel
   composed, the order of a shutdown, and the client that discards in front of them;
7. `Replay`, `Bench`, `WaitingSource`: the same pipeline behind a paced replay, which
   implements a source that waits; proved in `PipelineProofs` too, as both commands share the
   pipeline's lemmas;
8. `Verify`, `VerifyProofs`: expected against stored rows while the database is written to;
9. `Metrics`, `MetricsProofs`: the gauges and the histogram, read while they are written.

What would be worth adding: the reporter task of `metrics.rs`.

## 3. Modules

| Module | Models | Built on |
|---|---|---|
| `EventRows` | identities, rows, marks and staged transactions; primary keys of the schema | |
| `AtomicStore` | abstract specification of the write path | `EventRows` |
| `Writer` | `writer.rs` with its statements in `db.rs` | `EventRows`; instances `AtomicStore` as `Store` |
| `Recovery` | `recover.rs`, `backfill.rs`, `open_gaps` and `mark_gap` of `db.rs` | |
| `GapMonitor` | `gaps.rs`, `write_gap` of `db.rs`, the call sites in the processors | |
| `PoolResolver` | `pools.rs`, `resolve` and the creation branch of `pumpswap.rs`, `write_pool` | |
| `Trades` | what an event means and the row it becomes: `orient`, the two processors, `build` of `repair.rs` | |
| `Repair` | `run_repair`, `load_unrepaired`, `write_repaired`, beside writers and other repairs | `Trades` |
| `Pipeline` | `run_pipeline`, `process` of both processors, the waits between the channels | |
| `Live` | the live command of `main.rs` | `Pipeline` |
| `WaitingSource` | abstract specification of a data source that waits | |
| `Replay` | `replay.rs` | |
| `Bench` | `bench.rs` | `Pipeline`; instances `Replay`, and `WaitingSource` as `Source` |
| `Metrics` | `metrics.rs`: gauges, `observe`, a scrape, `percentile_upper_ms` | |
| `Verify` | `verify.rs` | |
| `WriterProofs`, `RecoveryProofs`, `GapMonitorProofs`, `PoolResolverProofs`, `RepairProofs`, `VerifyProofs`, `MetricsProofs` | theorems | the module and `TLAPS` |
| `PipelineProofs` | theorems about both commands that run the pipeline | `Live`, `Bench` and `TLAPS` |
| `MCWriter`, `MCRecovery`, `MCGapMonitor`, `MCPoolResolver`, `MCRepair`, `MCLive`, `MCBench`, `MCMetrics`, `MCVerify` | small instances for TLC | the module |

Each module has a short section of *mistakes*: mutated forms of an operation (a guard dropped,
a statement run outside the transaction, an off-by-one) that stand for plausible bugs. None is
part of a specification; each names the property that tells it from the code.

### Writer

`pc[w]` is where the writer task of process `w` awaits: `select`, one of the awaits of
`write_batch` (`begin`, `events`, `trades`, `checkpoint`, `commit`, `ack`), or the two awaits
of `write_dead_letters` (`park` for a connection, `insert` for the statement). An action is
the code between two awaits.

* `Recv`, `RecvNone`, `Tick` are the branches of the `select!`; a full batch flushes in the
  step that received it. Statements stage into `tx[w]`; only `Commit` touches the tables.
* A COMMIT is two steps, `Commit` on the server and `FlushOk` on the client, so that
  `FlushFails`, which stands for every error and for `FLUSH_TIMEOUT`, may come between. If it
  gives up while the COMMIT is with the server, the transaction becomes an *orphan*, which
  the server applies or aborts at any later time.
* `Parked` and `ParkFails` end a failed flush; after either the batch is cleared, as in
  `flush`. An insert whose answer is lost may have been applied (`MayPark`).
* `Crash` drops the memory of a process at any point. `Spawn` starts a pipeline again, in the
  same process (gauge kept) or in a new one.
* `accepted`, `lost`, `sends`, `crashes` are history: what the channel took, what the two
  admitted losses dropped, and two bounds.

The payload is left out, since nothing branches on it. Row locks are left out, since they
delay a statement and do not change what it stores.

### Recovery

A transaction stands for the events in it. `Record` is the live process adding a gap; `Start`
reads the open gaps; `Skip`, `Claim`, `Close`, `Finish` are the loop of `run_recover`,
`Abandon` its `?`s, `pipeline.run` included; `List` and the `Fetch` actions are the backfill.
`AnswersOf` is what an answer of the node may hold of what there is: `getBlocks` may not have
every block of the range yet, or any more, and `FetchOk` passes over, without a line in the
log, a block that comes without its transactions and every transaction that does not decode,
has no metadata or none that can be converted, or no signature. The write path behind is its
promise (`Store`): what was sent is stored batch by batch, or fails and is reported.
`RpcMayFail`, `MayLack`, `MayInterrupt` and `DbMayFail` switch the faults on; a process may be
killed at any time (`Kill`). `missed` is history: the transactions of a range that a run has
gone past without sending them, because the node refused their block or the listing, because
its answer lacked them or held nothing the code can use, or because Ctrl+C ended the backfill.

### GapMonitor

`CheckSlot` is `check_slot` whole: `fetch_max` on the watermark, the jump test, and the
`try_send` that drops the report when the channel is full. Carbon calls processors one
instruction at a time, so it is one step. `CarbonReports` is the client's own report of an
outage. The recorder takes, inserts (`ON CONFLICT DO NOTHING` on the range), and drops a
report whose insert fails. `Stop` drops what is in the channel: nothing awaits the recorder.

### PoolResolver

What a pool entry knows is `absent`, `mints` or `full` (with decimals); the mints of a pool
never change. `Trade` is a miss in `resolve`; `Expire` is `POOL_RETRY_AFTER` passing;
`Create` and `CreateSaved` are the two sides of the await in `insert`; `Take`, `Answer`,
`AnswerFails`, `AnswerSaved` are the worker between its awaits. `Upsert` keeps decimals the
row has, as the `COALESCE` of `write_pool` does.

### Trades and Repair

`Trades` has two sides. `Flow` is the reference: what an event did to the user's holdings,
read from the event and the mints of its pool. `TradeOf` is the program: `orient` and the
rows of the processors. `RowFlow` reads a row of `trades` back as such a change, so that
`TradesAreTrue` compares the two. Both ways a row is built, when the event arrives and by
repair from the stored payload, are in it; trader and fee are copies and are left out.

`Repair` has one process per run. `LoadPools`, `LoadPage`, `WriteChunk`, `Finish` are the
statements of `run_repair`, in that order; `Abort` is a failed statement or a kill, with what
it was at applied or not. `Lowest` is `ORDER BY slot LIMIT n`, where equal slots come in any
order. Which events of a page get a row is settled when the page is read, since the loop looks
at nothing that changes. `Record` and `SavePool` are the other processes: the promise of
`Writer` (an event appears with the trade that came with it) and of `PoolResolver`.

### Pipeline and Live

`stage` is where the one task of the pipeline is: in Carbon's loop (`run`), awaiting the
statement that saves a created pool (`saving`), awaiting room in the writer's channel
(`sending`), awaiting the writer task (`closing`), or out, with or without an error. An
update is a sequence of instructions; `hand` is what is left of the one being processed. A row
is an instruction of an update, so two updates of one event are two rows and one identity.

* `Offer` is a send into Carbon's channel that completes; `Live` adds `Arrive` (there is
  room) and `Discard` (there is none, and the client does not wait).
* `Decode` counts the event and notes it in the `EventLog` before `Send`, which waits.
  `SavePool` and `PoolSaved` are the two sides of the await in `PoolResolver::insert`.
* The writer task is the promise of `Writer` (`TradesMatchEvents`, `Accounted`, `StoreSpec`):
  the rows of a batch settle together, stored (`FlushOk`) or given up and reported
  (`FlushFails`, after which they may be stored all the same).
* `Close` is `pipeline.run` returning and `drop(pipeline)`, `Return` the end of
  `task.await`. `RunFails` is the `?` on `pipeline.run`.
* `Interrupt` is Ctrl+C as Carbon handles it: the source is cancelled, what is pending is
  processed. Between two updates only, so a processor that waits holds it up.

### Replay, Bench and WaitingSource

`Replay` is `consume` at four places: before a pass, before a line, awaiting room, and out.
`Bench` joins it over a channel of one with the forwarder (`recv`, `sleep`, `send`, `done`),
whose sends are `Offer`s of `Pipeline`; `SourceReturns` is the `join!`. An update is a line
with the number of updates sent before, from which `UniqueSig` makes its signature:
exclusive or with the salt plus that number, wrapping at `Words`, 2^64 in the program. The
exclusive or itself is the constant `XorBits`, of which `XorAssumption` says all that is used:
it stays within a word, and applied twice it gives back what it was given. `MCBench` takes it
from `Bitwise`. `SentAssumption` ties the updates of `Pipeline` to the lines of the files.
`Judge` is the verdict; the counters it reads are the cardinalities of `decoded`, `flushed`
and `failed`, and what else it reads (pace, pool cache) can only turn it to `behind`.

`WaitingSource` promises that the items of a script are delivered in order, none twice, none
left out, and that a source that was not cut short ends after the last. The refinement
mapping of `Bench`: the script is the good lines of the file `Repeat` times over, delivered is
what Carbon's channel took, cut is a cancellation, an error of the file or a closed receiver.

### Metrics

Each atomic is a variable, or a cell of `buckets`. `Observe` and `Observed` are the two
additions of `observe` in either order; a scrape (`BeginRead`, `Load`) loads the cells one by
one in any order, since they are relaxed and nothing orders them. `SetHead` comes before the
row of a slot goes to the writer, `SetCommitted` after it was committed, so a slot must be in
`seen` to be committed. `before` and `observed` are history: what was true when the read
began, and what was begun by now. `Running` is the loop `running += value` of both readers,
as a recursive function; buckets are counted from 0, as in the code.

### Verify

One module for both commands, which differ in the source and in the `WHERE` clause. `Fetch`
is a line, or a block, decoded into the log; `FetchPart` a block some transactions of which are
passed over in silence, as in `Recovery`; `SkipUnit` one the source passes over; `CutShort`
a source that ends early, for which the pipeline returns `Ok` all the same. `Query`
compares, `Report` returns the result. `Store` and `SlotPasses` go on throughout: the live
command beside it, the benchmark with its made-up signatures, and the chain. The initial
table is arbitrary. `settled` and `queried` are history.

## 4. Runs

Passing runs:

| Run | Instance | Checks |
|---|---|---|
| `writer` | two writers, channel 1, batch 2, two sends, one kill | types and bounds, `Accounted`, `TradesMatchEvents`, `DrainedBeforeStop`, `ProgressIsStored`; `StoreSpec`: the tables change by whole units only; with fairness `EveryRowSettles` and `ShutdownCompletes` |
| `recovery` | two recover processes, three gaps, every fault, kills at any time | `ClosedIsAccounted`, `StuckIsVisible` |
| `recover_once` | one process, every fault on | types, `GapNeverReopens`, `RecoverTerminates` |
| `gap_monitor` | five slots, tolerance 1, channel 1, one outage, two runs of the process | types, `HolesAreReported`, `ClaimedOnce`, `ReportsSettle` |
| `pools` | two pools, two processes, channel 1, node may fail; symmetric | types, `CachedIsSaved`, `StoredNeverForgets` |
| `pools_live` | two pools, one process, statements may fail | `RequestedResolves` |
| `repair` | two repairs, five events, three pools, page of three, chunks of two, one abort | types and the page's limit, `TradesAreTrue`, `RunIsComplete`, `RepairedInTheEnd` |
| `live` | three updates of seven instructions, channels of one, batch 2, Ctrl+C, failing flushes, failing `pipeline.run` | types and bounds, `EventsAccounted`, `StopLosesNothing`; with fairness `TakenSettles` and `InterruptEnds` |
| `bench` | three files, two passes, channels of one, cancellation and errors at any point | types, `VerdictIsHonest`; `SourceSpec`: the refinement of `WaitingSource`; with fairness `BenchEnds` |
| `metrics` | three slots, two edges, two observations on top of four starting contents | `LagIsBracketed`, `ScrapeIsBracketed`, `PercentilesAreRanks` |
| `verify` | both commands, seven identities, a range of two slots out of four, any table | types, `CleanIsExact`, `DifferencesAreReal` |

`recover_skips` shows where the program and its documents disagree (section 7).

### Bounds and why they are enough

* Writer. Three identities in two slots, two of them of one transaction and one slot, one
  that comes with and without its trade: ties for the checkpoint, newer and older rows, a row
  sent twice and with other contents all occur. Batch 2 and two sends give a full flush by
  size, a partial flush by the interval and one at shutdown. Two writers need only a batch
  each to overwrite one another's checkpoint and to leave orphans.
* Recovery. Gap 2's padded range lies within gap 1's, gap 3's overlaps it and is not covered;
  gap 1 starts at slot 0, where the subtraction saturates; some slots have no block. One
  process runs with a block in each part of the ranges; two processes, which are
  interchangeable, with a block that every gap pads out to and one of the last gap alone. The
  latter holds two transactions, so that a part of it can be lost, and by each process another
  part. Two attempts stand for four: first and last are told apart, and the bound is in `TypeOK`.
* GapMonitor. Five slots and tolerance 1 give jumps below, at and above the tolerance, two
  disjoint holes, late slots inside a claimed hole, and a second report while the first is in
  a channel of one.
* PoolResolver. Two pools compete for one place in the channel, so lookups are dropped; two
  processes are enough for one to save `mints` after the other saved `full`.
* Repair. A normal pool, an inverted one and one without wrapped SOL, a buy and a sell, two
  events no run has a row for in a page of three, so that what can be repaired has to pass
  through the one place left; pages that end on a chunk and pages that do not.
* Live. Updates with two events, with a creation before a trade, and with a failed
  instruction. With channels of one a processor waits at its first row while the second is in
  the channel and a third with the task, so that every wait in the chain is entered while the
  one behind it is, and the client discards.
* Bench. A file that is good, one with a broken line and one that is empty: passes with
  nothing to send, a skipped line between two others, and a verdict spoilt by each. A salt of
  63 in 6 bits wraps at the second update. Two passes tell the last one from the others.
* Metrics. Durations up to `Longest`: below, on and beyond each of two edges. The starting contents lie just
  before the rank of the 50th, 95th and 99th percentile moves to another bucket, so that one
  observation more, or rounding the other way, changes what is shown.
* Verify. A transaction with two events, a line that is there twice and one without events,
  rows on either side of the range, a made-up row of a transaction of the file and one of a
  transaction nobody knows. Every table these allow is a starting point.

`MaxSends`, `MaxCrashes`, `MaxOutages`, `MaxRuns`, `MaxAborts`, `MaxSent`,
`MaxObserved`, `Longest` and `LastSlot` bound the models only; the program has no such counters. Deadlock
is checked in every run but `gap_monitor`, where the process stays down after the last of its
`MaxRuns` runs. In `Live` and `Bench` a command that has ended stutters (`LiveOver`, `Over`), so a deadlock
there would be tasks waiting for one another.

## 5. Fairness

Weak fairness of an action is assumed only where something in the code or the runtime makes
it happen.

* `Writer!TaskFairness`: tokio polls a ready task (`Recv`, `RecvNone`), its interval fires
  (`Tick`), `FLUSH_TIMEOUT` elapses at any await of the transaction (`FlushFails`), and sqlx
  gives up on a connection after its acquire timeout (`park`). None of this needs the database
  to answer. `FairSpec` adds `ParkAnswers`: the database answers the insert of dead letters,
  well or badly. No timeout in the code bounds that await, so this one is an assumption about
  the database; without it a hung database holds the writer (section 7). No fairness is
  assumed for `Send`, `CloseSenders`, `Spawn`, or the success of any statement.
* `Recovery!FairSpec`: a command that runs keeps running, and its awaits end. The node may
  refuse forever; termination comes from the bound on the attempts.
* `GapMonitor!FairSpec`: the recorder is polled and an insert ends, well or badly.
* `PoolResolver!FairSpec`: the worker is polled and its requests end (the RPC client has a
  timeout), time passes, and statements end. Strong fairness of `Trade` per pool is the
  document's own premise, "the pool trades again within seconds" (`DESIGN.md`, Two queues, two
  policies): trades of a pool keep reaching the processor among the creations of others.
  `RequestedResolves` is checked with a node that answers: a node that refuses each lookup
  resolves nothing, and the code claims no more.
* `Repair!FairSpec`: the operator runs repair again and again, which is how the command is
  meant, and its statements end. `RepairedInTheEnd` also needs `Limit` to be larger than the
  number of events no run has a row for: those stay in the page for good, because nothing
  marks them, and once they fill it nothing behind them is reached. With as many as `Limit`
  TLC finds that counterexample; the default of the command line is 100,000 (`cli.rs`).
* `Pipeline!PipelineFairness`: the task of the pipeline and the writer task are polled when
  they are ready, and the statement of a created pool and a flush end, well or badly: the
  flush by `FLUSH_TIMEOUT` and `ParkAnswers`, the statement by assumption, as it has no
  timeout either. No fairness is assumed for Ctrl+C, for a failing `pipeline.run`, for what the
  node sends, or for a flush to succeed.
* `LiveFairSpec` adds that the client stops once it is cancelled or its receiver is gone. Not
  that it ends otherwise: a live command that nobody interrupts runs on.
* `Bench!FairSpec` adds that both futures of the source are polled, that a sleep ends, and that
  `run_benchmark` goes on to its verdict.

## 6. Theorems

All proofs are checked to the last leaf, for every value of the constants that satisfies the
named assumptions in the modules (sizes are positive, slots are natural numbers, rows name
known identities). Where a theorem has a further hypothesis it is stated with
`ASSUME ... PROVE`.

* `WriterProofs`. `Inv1` is the type invariant with `LoopInv`: outside `select` the batch is
  not empty, in `select` it has room, a stopped task holds nothing, a task told to break sees
  no more rows. It yields `TypeCorrect` and `Drained`. `TypeOK` alone is not inductive: the
  bound of the batch needs that `select` is entered with room. `Inv2` adds what an open
  transaction has staged at each point (`TxInv`), that held rows come from the channel
  (`HeldInv`) and that an orphan is a whole unit (`OrphanInv`). With them every step is a step
  of `AtomicStore` or a stutter: `ImplementsStore`. Since a step of the store keeps the
  checkpoint and the trades honest (`UnitKeepsTables`), `ProgressStored` and `TradesMatch`
  follow from the refinement, with a small invariant of its own for the gauge.
  `RowsAccounted` is proved from the same invariants, action by action.
  `WriterNeverStandsStill` is what the flush relies on without saying so: the foreign key never
  refuses the trades of a batch, since `TxInv` has their events staged, and a batch always has a
  row for `max_by_key` and hence a mark for the gauge (`LastLargest`). `ClosingApproachesItsEnd`
  and `FlushApproachesItsEnd` are the other half of `ShutdownCompletes` and `EveryRowSettles`.
* `RecoveryProofs`. `TypeCorrect`. `ClosedAccounted`, with every fault on: the transactions of
  a closed gap are stored, or were parked or gone past. `ProgressInv` says that those of the
  range at hand are in a block still to be fetched, on their way, or dealt with, and that covered
  ranges are dealt with; `CoveredBlocks` is the arithmetic of a range within another.
  `ClosedRecovered` is its corollary for a node that answers in full and nobody who interrupts
  (`~RpcMayFail`, `~MayLack`, `~MayInterrupt`): nothing is gone past then (`NothingMissed`).
  `StuckVisible`, without hypotheses.
  `NeverReopens`, for at most one recover process. `RunsApproachTheirEnd` and
  `RunsNeverStandStill` are what `RecoverTerminates` rests on (see below).
* `GapMonitorProofs`. `WatermarkInv`: the watermark is the largest slot seen, so a slot beyond
  it closes the only stretch not examined yet, and one below it splits no claim. It yields
  `HolesReported` and `ClaimedByOne`. `WrittenIsRecorded`: what counts as written has its range
  in the table, although the insert may have done nothing. `ReportsAdvance` and
  `RecorderNeverStandsStill`: no report overtakes another, goes missing with the process up, or
  is left in the channel of a process that is down.
* `PoolResolverProofs`. `TypeCorrect`; `NeverForgets`, from the effect of `Upsert`;
  `CacheSaved`, under `~DbMayFail`, from `SavedInv`, which adds to the property that what the
  worker is saving is the `mints` it has cached itself. `LookupsKept`: what the channel took is
  with the worker or on its way there until the pool is known or the node fails, so a lookup is
  lost before the channel or to the node and nowhere else. `WorkerNeverStandsStill`.
* `RepairProofs`. `OrientTrue` and `CurveTrue` compare a row with its event, case by case;
  with `Insert`, which replaces nothing, every step keeps the table honest (`TradesTrue`).
  `RunInv` says that each event of a page that is being written has its trade, or is ready,
  or has no row; it yields `RunsComplete`, whatever the writers do beside the run.
  `TypeCorrect` needs `LowestBounded` for the limit of the page. `LowestExists` adds that a query
  with a limit has an answer, by induction over the limit; with it come `RepairNeverStandsStill`
  and `RepairApproachesItsEnd`. `PagesWorthwhile` is a count: a page that is not everything has
  `Limit` events, more than are beyond repair, so one of them has a row to insert.
* `PipelineProofs`. The pipeline first, behind any source (`PipelineStep`): `EventsAccounted`,
  action by action, with the moves between channels reduced to lemmas about `Range`, `Append`
  and `Tail`. It is not inductive alone: that `PoolSaved` drops no trade needs `StageInv`, which
  says what the parts hold in each stage of a run and of its end. Where a run has returned there
  is no place left for a row to wait in. For the live command that gives `TypeCorrect`,
  `Accounted` and `StopLoses`; for the benchmark `BenchTypeCorrect` and `BenchLosesNothing`.
  * `ReplayIsWaitingSource` is the refinement `SourceSpec`, step by step. `SourceInv` says that
    what was sent, what the forwarder carries, what is in the channel and what the reader has
    gone past are one after the other the script. Which place of the script a line has is a
    matter of counting: the lines `Gone` before the reader's place number as many as are sent or
    on their way. `EndInv` says why either future is over.
  * `HonestVerdict`: `PlacedInv` says that a row that was counted is with the processor, in the
    channel, with the writer, or settled, and that the table is what was flushed while no batch
    was given up; `VerdictInv` what the counters were when the run was judged, and that it is
    over. The signatures make two rows of one event impossible (`RowsDiffer`, from
    `XorAssumption` and `SignatureAssumption`), so rows and events are as many (`AsManyRows`).
  * `LiveApproachesItsEnd` and `LiveNeverStandsStill`, `BenchApproachesItsEnd` and
    `BenchNeverStandsStill` (see below). `JoinInv`, that a forwarder which is over has closed
    its channel or had its end, is why the two joined futures do not wait for each other.
* `VerifyProofs`. `LogInv`: the log has all that the units read whole decode to, and nothing the
  source does not hold. `TableInv`: the table
  only grows, so it still holds at the query what it held while the source was read.
  `ResultInv`: the two differences are of one log and one state of the table. They yield
  `CleanExact` and `DifferencesReal` for any chain, file and range, whatever is written
  meanwhile.
* `MetricsProofs`. A running count is proved about by induction. The library states induction
  over a predicate, which the provers cannot instantiate; `NatSetInd` states it over a set, and
  follows from the least element of a non-empty set of numbers (`NatLeast`). Three lemmas carry
  the rest: an observation adds one to the running counts from its duration on, hence one to the
  cell of its bucket and to no other (`Observing`); smaller cells have smaller running counts
  (`RunningMonotone`); the cells of some counts run to the number of those at most as long as
  the edge (`Telescope`). `CellInv` says that the cells hold what was observed but for the
  addition that is left, `BeforeInv` that they lost nothing since the read began, `CellsRead`
  and `GaugesRead` that each loaded cell had its value between then and now; for the gauges,
  `GaugeInv` adds that what is committed was seen. They yield `LagBracketed`, `ScrapeBracketed`
  and, with `PercentileIsRank`, `PercentilesRank`.

That something ends is proved as far as it is safety. Of the writer, the recover command, the
repair command, the live command and the benchmark each step leaves less than there was, in the
order of a measure that is spelled out (`Nearer`, `FlushNearer`, `LiveNearer`, `BenchNearer`)
and well-founded: finite sets and sequences that shrink, attempts, passes and lines that are
bounded, places that come one after the other. Of the gap recorder and the pool worker, which
serve a channel for as long as the process is up, it is the report or the lookup that advances
(`ReportsProceed`, `LookupKept`). And while there is something to do some step is open that owes
nothing to a failure or to the operator (`CanMove`, `RecorderCanMove`, `WorkerCanMove`,
`PipelineCanMove`, `BenchCanMove`, disjuncts of guards); the writer may wait for rows and the
live command for the node, and for nothing else. What is missing from liveness is the fairness
that an open step is taken, and that the measure runs out; both are TLC's part.

Only model-checked: the liveness properties (`EveryRowSettles`, `ShutdownCompletes`,
`RecoverTerminates`, `ReportsSettle`, `RequestedResolves`, `RepairedInTheEnd`, `TakenSettles`,
`InterruptEnds`, `BenchEnds`), which depend on fairness and are out of the prover's reach.
Every other property of a passing run is stated by a theorem.

## 7. Where the code and its documents disagree

`recover_skips`: a block the node refuses four times is skipped, a listing it refuses ends the
backfill, and the gap is closed as recovered. `ClosedIsRecovered` therefore needs
`~RpcMayFail`. It also needs `~MayLack`: a block the node does not list, one that comes without
its transactions, and a transaction that does not decode, has no usable metadata or no
signature are passed over (`backfill.rs` 66 to 85 print nothing of it), and the gap is closed
over them. And it needs `~MayInterrupt`: Ctrl+C ends the backfill between two blocks,
`run_pipeline` returns `Ok`, and the gap is closed. No other way leaves a hole behind a closed
gap: `ClosedIsAccounted` holds with every fault on, and `ClosedRecovered` is proved without these
three. A refusal, a lack and an interruption leave the same trace in the table, which is none.

Read in the code while modelling, and not the subject of a run:

* The checkpoint "records the highest slot known to be fully processed" (`DESIGN.md`, The
  checkpoint). `flush` clears a failed batch, and the next batch moves the checkpoint past its
  rows. What does hold, and is proved, is weaker: the checkpoint names a stored event
  (`ProgressIsStored`).
* "A failed transaction rolls back" (`DESIGN.md`, Dead letters). One whose COMMIT outlives
  `FLUSH_TIMEOUT`, or the connection, may be applied after its rows were parked; hence the
  orphans of `Writer` and the second branch of `FlushFails` in `Pipeline`.
* The flush has a timeout so that a hung database cannot hold the writer and the shutdown
  (`DESIGN.md`, Writes are batched). The insert of dead letters that follows has none;
  `EveryRowSettles`, `ShutdownCompletes`, `TakenSettles` and `InterruptEnds` need `ParkAnswers`.
* "The processor now performs no waits at all", and its queue "never overflows" (`DESIGN.md`,
  What changed, and Two queues, two policies). It awaits room in the
  writer's channel (`Writer::send`) and the statement of a created pool
  (`PoolResolver::insert`), and Carbon's channel fills up behind it. `EventsAccounted` shows that
  nothing else is lost in silence.
* The pool worker checks the cache, asks the node, then overwrites the entry (`Answer`),
  decimals from a creation event included, although `DESIGN.md` says that pools found through
  `CreatePoolEvent` have correct decimals. The table keeps them (`StoredNeverForgets`), and a
  restart heals the cache.
* `verify` "answers one question. Does the database hold exactly what a file decodes to"
  (`DESIGN.md`, Knowing nothing was lost). It reports no difference as well when its source was
  cut short, could not be read, or skipped a block or a transaction of one: `CleanIsExact` needs `fetched = Units`.
* The lag is 0 until the first commit, as it is for a healthy pipeline (`commit_lag_slots`;
  compare `DESIGN.md`, Lag is counted in slots, not seconds). `LagIsBracketed` speaks of what is
  shown after it.

The models also carry restrictions in their hypotheses that a reader of the documents
would not expect: `GapNeverReopens` needs a single recover process, because `mark_gap` does
not look at the status it replaces; `HolesAreReported` speaks of one run, because the watermark
starts empty after a restart, and a report in the channel is dropped with the process;
`ReportsSettle` speaks of reports whose insert succeeded, not of rows, because the range is
unique and the second detector's row is dropped; `RepairedInTheEnd` needs a page larger than
the events that cannot be repaired; `RequestedResolves` needs `Expire`, because a lookup the
full channel drops stays marked as asked for until `POOL_RETRY_AFTER`; `EventsAccounted` and
`StopLosesNothing` except a run that ends in an error, because `run_pipeline` then returns
before the writer is awaited; and `VerdictIsHonest` needs that two lines of a file are not the
salt apart (`SignatureAssumption`), which holds of random signatures with overwhelming probability.

## 8. Not modelled

* `api.rs`: read-only handlers, one query each. `capture.rs`: bytes to a file. `cli.rs`,
  `config.rs`: arguments and constants (the constants are parameters of the modules).
* Carbon and the Yellowstone client are not in the repository. What the program relies on is
  external to the models: one instruction at a time, cancellation on Ctrl+C, outage reports,
  discarding when its channel is full, an error of a source that is reported and not returned.
* Of `metrics.rs` the text of the exporter, its HTTP server, the rate the reporter prints and
  the counters that are only added to. Of `bench.rs` the clock and the report's layout: whether
  a run kept its pace is a choice.
* Column types, indexes, formatting and logging. Forks: the program follows confirmed slots
  and does not claim to handle a transaction that moves (`DESIGN.md`, What this does not do).
* The deployment files, dashboards, scripts and recorded evidence.
