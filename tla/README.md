# DatabaseBenchmark: specification and proofs

TLA+ models of the benchmark in `src/src`, their TLC configurations, and
machine-checked proofs. All paths below are relative to the repository's
checkout `src/`, so `src/main.rs` is `src/src/main.rs` in PROJECT.json.

## 1. The system

The program measures thirteen combinations of a driver or ORM with SQLite or
PostgreSQL. It is one process and, in the program itself, one thread of
control; the async suites block on each statement. What makes it hard to get
right is not concurrency inside the process but what the database remembers:
one PostgreSQL database is used by five suites in turn and by every later
process, a SQLite file may survive `remove_file`, and a run can end anywhere.
The benchmark is only meaningful if every suite nevertheless starts from the
same rows and does the same work.

| Component | Source | State | Operations |
|---|---|---|---|
| Schema and seed | `suites/mod.rs` 19-29, 101-190 | constants | `ddl`, `seed_sql`, `target_id`, `delete_id` |
| `Suite` contract | `suites/mod.rs` 35-61 | - | `setup`, seven operations, `teardown`, `read_only` |
| SQLite file suites | `suites/{rusqlite,sqlx,diesel,diesel_async,seaorm}_sqlite.rs` | connection or one-connection pool, the file | the contract |
| Read-only suite | `suites/rusqlite_sqlite_readonly.rs` | immutable connection | reads; writes `bail!` |
| In-memory suites | `suites/{rusqlite,diesel}_sqlite_memory.rs` | `:memory:` copy of a seeded file | the contract |
| PostgreSQL suites | `suites/{tokio_postgres_pg,sqlx_postgres,diesel_postgres,diesel_async_postgres,seaorm_postgres}.rs` | connection; the shared database | the contract |
| Harness | `harness.rs` | samples of one operation | `from_env`, `run_op`, `percentile` |
| Suite loop | `main.rs` 86-97, 107-137 | results so far | `setup`, `run_suite`, `teardown` per suite |
| Process | `main.rs` 28-85, 98-105, 139-142 | database files, `RESULTS.md` | probe, construct all suites, write the report |
| Report | `main.rs` 144-349 | - | `ranking_table`, `render_report` |

How they interact: `main` builds all suites (removing each SQLite file first),
then for each one calls `setup(delete_rows)`, hands it to `run_suite`, and
calls `teardown`. `run_suite` calls `run_op` once per operation with a closure;
`run_op` calls it `warmup` times and then `iters` times with a running index,
from which `target_id` and `delete_id` derive the row to use. `seed_sql` must
have created exactly the rows those ids name, so `main`'s `delete_rows`, the
seed, the index of `run_op` and the id functions have to agree. Every `Err`
travels by `?` up to `main`, which ends: no suite after it runs and nothing is
written.

What makes each component correct:

- *Schema and seed*: from any earlier content, `setup` ends in the same rows
  ("byte-identical state", mod.rs 127-128), with sequences past every id used
  (174-175); no statement of it is refused; nothing dangles in between.
- *Operations*: a read or update always finds its row, a delete always finds a
  victim ("guaranteed to exist", 27-28) and only victims disappear; default
  inserts do not collide; a bulk insert is visible as a whole or not at all.
- *Suite loop*: a finished suite has done all of its calls; a read-only suite
  is sent no write.
- *Opening a file*: the mode a suite is documented to run in holds on every
  connection it uses; the immutable reader misses nothing the writer wrote.
- *In-memory suites*: the copy is the whole seed of this process, and the file
  stays a seeded database.
- *Harness*: the indices of the calls are those of the seeded victims; median
  and p95 are what their names say, for any number of samples.
- *Process*: an interrupted run does not keep a later one from finishing; a
  PostgreSQL that is not there does not cost the SQLite results; a `RESULTS.md`
  is complete, and an older one survives a run that fails.
- *Report*: every `unwrap` has something to unwrap, `sort_by` can compare, and
  every suite is listed where it competed, never behind one it beats.

The hazards list in PROJECT.json names, line by line, where these could fail.

## 2. Modules

Nine modules model code; they build on each other like this:

    Suites -- SuiteRun -- SuiteRefinement -- MemorySuite (two instances)
      |                        |
      |                   SuiteContract (abstract)
      +-- SqliteFile
      +-- Benchmark            Harness            Report

`SuiteRun`, `MemorySuite` and `SqliteFile` look at what one suite does to its
database, `Benchmark` at the process around all suites, `Harness` at one
`run_op`, `Report` at what is made of the results. Each has an `MC...` module
that gives its constants small values; the proofs are in `..._proofs`, which
EXTENDS it: `SuiteRun_proofs`, on it `SuiteWork_proofs` and
`SuiteRefinement_proofs`, on an instance of that `MemorySuite_proofs`, and
`Harness_proofs`, `Report_proofs`, `Benchmark_proofs`, `SqliteFile_proofs`.
What a module assumes of its constants are its named `ASSUME`s.

**`Suites`** is the catalogue of the thirteen suites and the order in which
`main` builds and runs them. All suites send the same SQL; a record keeps what
tells their behaviour apart: the dialect, where the rows live and how long,
whether writes are allowed, and whether `insert_bulk` is one statement or a
transaction of single inserts (`rusqlite_sqlite.rs` 46-63,
`rusqlite_sqlite_memory.rs`, `diesel_async_sqlite.rs` 70-92; all others send
one statement).

**`SuiteRun`** is the life of one database: the processes that come to it and
the suites each runs on it. A step is one statement that the database commits
or refuses.

| Variable | In the code |
|---|---|
| `suite`, `cfg` | the element of `all_suites`; the process's `BenchConfig` |
| `stage` | `ddl`, `users`, `posts`, `setval` (in `setup`), `ops` (in `run_suite`), `teardown`, then `finished`, or `aborted` after an `Err` or an interruption |
| `op`, `k` | the entry of the `vec![]` in `run_suite`; loop counter of `run_op` (calls) or of `setup` (statements of `ddl`, rows of `seed_sql`) |
| `tables`, `users`, `posts` | what is committed; a row keeps its name's kind and the columns queries filter on |
| `users_seq`, `posts_seq` | PostgreSQL's sequences |
| `row`, `pending` | the open transaction of a row-by-row `insert_bulk` |
| `failure` | why the process ended: `outside`, a refused `statement`, an `ensure!`/`bail!` of the `suite`, or `none` |
| `runs`, `outages` | how much of the bounds is used up |

One action per statement: `DropPosts`, `DropUsers`, `CreateUsers`,
`CreatePosts` (SQLite, which commits each by itself) or `DdlBatch` (PostgreSQL,
one implicit transaction for the batch); `SeedUsers` and `SeedPosts`, a chunk
each; `SetvalUsers`, `SetvalPosts`; `InsertOne`, `InsertBulk` or `BulkBegin`/
`BulkRow`/`BulkCommit`, `FetchById`, `FetchPage`, `JoinQuery`, `UpdateOne`,
`DeleteOne`. `EndOfSetupLoop`, `EndOfOp` and `Teardown` move on; `NextSuite` is
`main`'s loop, `Rerun` a new process (perhaps with another `BENCH_ITERS`, and
with the SQLite file removed or not, since `sqlite_db` ignores the error), and
`Outage` anything outside that ends the process at any point. `Settle` is what
`?` does: an `Err` ends the process, an `Ok` lets the loop go on.

Databases are modelled from how the code uses them: default ids (`LastId`: the
largest rowid plus one, or the sequence, which a refused insert does not give
back), primary keys, foreign keys, rollback of an open transaction. Whether
SQLite checks foreign keys is the constant `SqliteForeignKeys`: no suite sets
`PRAGMA foreign_keys`, so the linked build decides. u32 sums wrap at `U32` and
`as i32` reinterprets (`Wrap32`, `AsI32`).

**`SuiteContract`** is the abstract specification: what the `Suite` trait
(`mod.rs` 33-61) promises `main`, whatever is behind it. `Setup` is one step
to the seed; `insert_one` ... `delete_one` are one step each, always succeed,
and come in the order of `OPS`, `Total` times each; `Die` is the outside world.
There are no statements, sequences, transactions, chunks or leftovers in it,
and no state for a failure the program itself causes.

**`SuiteRefinement`** maps `SuiteRun` to it. The four stages of `setup` are the
contract's `"setup"`; its tables are `SuiteRun`'s during `ops`, `teardown` and
`finished` and empty otherwise (`Visible`), since nobody looks at them while
they are set up; `row` and `pending` do not appear, so a transaction is seen
when it commits; `op` and `k` become `op` and `calls` during `ops`. A process
that ended for `"outside"` is `"dead"`; one that ended for a cause of its own is
`"failed"`, a phase the contract does not have. So `KeepsContract` contains
that nothing is refused. `GetsDone` is the contract's fairness, which the
fairness of `SuiteRun` has to imply.

**`MemorySuite`** composes two instances of `SuiteRefinement` that share the
control of one suite: `Disk`, with the tables of the file, runs `ddl` and
`seed_sql`; `Mem`, with the tables in memory, runs everything after the load.
The load stands in the place of stage `"setval"`, which SQLite does not need:
`Backup` (rusqlite) or `MemoryDdl`, `CopyUsers`, `CopyPosts` (Diesel, which
attaches the file), any of which can be refused. The file survives a process,
the memory does not (`Forget`). The in-memory suites are shown to implement the
same contract, through `Mem`. The `ASSUME`s repeat those of `SuiteRun`, which
an instance does not bring along, for the constants of this module;
`SuitesAssumption` of `SuiteRun` admits the in-memory suites for the sake of
the instances.

**`SqliteFile`** is how a suite opens its file and in which mode it works.
`journal` is the journal mode in the file's header, `synchronous` the setting
of the connection, `in_file` and `in_wal` where the commits of this process
are, `seen` what the immutable connection reads. `Open` is `new()`, `Pragmas`
the PRAGMAs (or SQLx's `SqliteConnectOptions`), `TurnComes` the time until the
suite's turn, `Commit`, `WorkDone` (the read-only suite drops its writer),
`Reopen` (`immutable=1`, which reads the file alone). From outside:
`Checkpoint`, `PoolReplaces` (`Pooled`: an SQLx or SeaORM pool closes its one
connection, which was idle or alive for too long, and opens another), `Kill`,
`Rerun` on a file that was removed or not. The first process may find a file in
either journal mode as well (`Init`): a database called `rusqlite_ro.db` that
`remove_file` could not remove need not come from this suite.

**`Harness`** is `harness.rs`: `from_env` over all values of `BENCH_ITERS` and
`BENCH_QUICK` (a negative number stands for a text that is no u32, or for
none), the two loops of `run_op` with the indices they pass (`WarmupCall`,
`StartTiming`, `TimedCall`, `CallFails`, `Return`), and `percentile` as an
operator on the sorted samples, in exact hundredths. `Entries` are the kinds of
call `run_suite` makes; `DeleteRows` is what `main` seeds. Both sums of u32,
that one (main.rs 86) and the index of a timed call (harness.rs 74), wrap
(`Wrap32`).

**`Report`** is `ranking_table` and `render_report`. `stats` has a median or
`None` for each suite and operation, `Sections` the tables in their order,
`Group` the suites a table lists, `Ranking` the stable sort. The code writes
down three lists of operations independently of each other, and so does the
module, with the numbers of the source: `READ_OPS` (main.rs 20), what
`run_suite` makes only `if writes` (`IfWrites`), and what it times `cfg.iters`
times (`IterOps`, main.rs 111-134). `StatsOf` goes by the last two, `Group` by
the first. The code sorts by
a geometric mean of ratios to the best of the group; the bests are common to
the group, so products of medians give the same order. `Table` renders one
table or panics: on a `None` that is unwrapped, or a NaN that is compared.

**`Benchmark`** is `main`. `server` is PostgreSQL: down, accepting connections
without a login, or ready. `Probe` is `postgres_reachable` (a TCP connect),
`Build` one `new()` of `all_suites`, `SetupSuite` and `RunSuite` the loop body,
`LoopEnds` the `drop`, `RenderPanics` a `render_report` that does not return,
`OpenReport` and `WriteReport` the two halves of `fs::write` after one that
does. `connected` are the suites whose connection is alive; a change of
the server cuts all, and only pools replace them (`Reconnects`). `report` is
`RESULTS.md`, which is there from one process to the next; `cfg` is the
process's `BenchConfig`. What a suite does to its database is not repeated
here, but every way for it to fail is: for want of the server (`LosesServer`),
by the one statement that `SuiteRun` finds refused, the default insert that
meets a victim (`InsertRefused`, on PostgreSQL, when the victims reach the value
of the sequences; within `SafeSizes` there is none, by `NoRefusals`), and by the
one panic that `Report` finds (`NoSamples`, by `OnlyNaNPanics`).

## 3. Runs

| Run | Question | States |
|---|---|---|
| `suite_run` | All eleven suites whose operations run on the database they seeded. `SeededIdentically`: does every `setup` reach the same state, whatever was left? `OnlyOutsideFailures`: is a statement ever refused, an `ensure!` ever violated? `BulkAllOrNothing`, `OnlyVictimsVanish`, `FinalContents`: do the operations do their work and nothing else? | 23948 |
| `unenforced` | `ReferentialIntegrity` on a SQLite that does not check foreign keys: does the order of statements suffice? One suite of each kind | 11459 |
| `refinement` | `KeepsContract`: does each kind of suite implement the contract, step by step? `GetsDone`, `RecoversAfterOutage`: does a suite get done unless interrupted, and one that starts once interruptions are over always finish? | 11459 |
| `memory` | `KeepsContract`, `GetsDone` for the in-memory suites; `FileKeepsSeed`: is the file exactly the seeded database, victims included, while they run and after a process died in them? | 4090 |
| `harness` | `VictimsMatchCalls`: do the calls of `delete_one` aim at the seeded victims, each once, for every environment? `MedianIsMiddle`, `TailBeginsAtP95`: the percentiles against definitions that count samples | 9710 |
| `report` | `EveryoneListed`, `BetterIsAhead`: are the tables complete, and in an order that respects dominance? `PanicsOnlyWithoutSamples`: does an `unwrap` ever miss, that is, does `READ_OPS` agree with `run_suite`? | 171126 |
| `benchmark` | The process with all thirteen suites. `ReportIsComplete`, `EarlierReportKept`: what can be in `RESULTS.md`? `SqliteOnlyIfNotFound`: does a run without PostgreSQL depend on it? `RunsToReport`: does an undisturbed run end with its report, for every configuration that can be reported? | 108466 |
| `sqlite_file` | `ReaderSeesSeed`: does the immutable connection open, and miss nothing? `RunsWalNormal`: WAL and `synchronous=NORMAL` on every connection of the suites that set both per connection or hold one | 412 |
| `collision`, `no_samples`, `unreachable`, `pool` | What comments and README say where the code does otherwise (section 5) | - |

Bounds.

- *`SuiteRun`, `SuiteRefinement`, `MemorySuite`.* The sizes are scaled down and
  keep their relations: five users and two or six victims in chunks of three
  put a chunk across the boundary between the two; seven posts and seven or
  eleven rows end in partial chunks; `PAGE_SIZE` equals the active users, so a
  row too few is noticed; six victims end exactly at the value the sequences
  are set to (16); six warmup calls exceed the `min(5)` of `insert_bulk`; one
  configuration has `iters = 0`. `MaxRuns = 2` gives a third suite or process
  on the same database, enough for an interruption, an interruption of what
  repairs it, and an undisturbed run; `MaxOutages = 2` interrupts two of them
  anywhere. `Ids = 1..40` is above all ids the instances give out. `U32 = 64`
  is above all sums: no run checks wrapped arithmetic (the theorems state the
  bound instead). `MCSuiteRun` and `MCMemory` assert `SafeSizes`, what the theorems
  assume, of their instances.
- *`Harness`.* `U32 = 16`; no sum wraps (`SafeCounts`, asserted in `MCHarness`),
  but 16 itself is a text that is no u32. Up to five samples of four durations give every shape of a
  sorted sequence, ties included, for odd and even lengths; with five, the rank
  of p95 lies between two samples, near the upper one, so that interpolating
  from the wrong end shows. `BENCH_ITERS` is unusable, 0, 1, 2 or 5;
  the quick configuration's warmup (6) is above the cap of bulk inserts (5).
- *`Report`.* The seven operations of `OPS`. Suites differ in the medians (1, 2
  or 3) of a write, of a read timed `BENCH_ITERS` times and of one that is not;
  in the other operations they are equal, and all of the four that
  `BENCH_ITERS` counts may be without samples. Lineups of two writers and a
  reader, and of PostgreSQL with one suite in a ranking.
- *`Benchmark`.* No sizes are scaled: thirteen suites, `DELETE_BASE` and the
  sequences as in mod.rs, and four configurations: the default, `BENCH_ITERS=0`,
  and the last number of iterations that leaves the sequences room (99970, with
  30 warmup calls) with the one after it. Three processes, two kills, three
  changes of the server are enough for a server that goes away and comes back
  within one run after a killed one; each process may have another
  configuration.
- *`SqliteFile`.* Three commits (some before and some after a checkpoint or
  replaced connection), two replaced connections, a second process on the file,
  which the first may find in either journal mode.

All runs say `CHECK_DEADLOCK FALSE`: behaviours end, when a process has ended and the bounds are used up, when
`run_op` has returned, or when the report is rendered or has panicked. That
nothing stops before that is what `GetsDone`, `RecoversAfterOutage` and
`RunsToReport` say.

Fairness. `FairSpec` is weak fairness of the program as a whole
(`WF_vars(Program)`, `WF_vars(Main)`): a step of the program that can be taken
is taken. `main` has one thread and never waits for anything but the answer to
its statement, and the model assumes that the database answers. The code does
not enforce that (no timeouts); it is an assumption about the server. Nothing
is assumed about interruptions, new processes or the server's coming and going.
`RunsToReport` therefore speaks only of runs once the bounds of those are used
up and the server is not stuck between down and ready. It asks besides that the
configuration is `Reportable`: with `BENCH_ITERS=0` the run panics, and with
too many victims it fails if PostgreSQL takes part, as `no_samples` and
`collision` show. It does not ask that for a run on SQLite alone, nor anything
of the runs before.

Each property of each passing run has a mutant of the code that violates it: a
`BulkRow` past the last row or without the transaction, writes sent to a
read-only suite, a missing `setval`, a `target_id` that skips the last user, a
`delete_id` one too high, users dropped before posts or nothing dropped at all,
a partial chunk never sent; a copy of posts before users, operations on the file
instead of the copy; timed calls that start again at index 0, a percentile
rounded down or interpolated from the wrong end; a `READ_OPS` one too high, a
ranking sorted by its last operation; PostgreSQL suites built without a probe or
expected without one, a report written after a suite has failed, a `RESULTS.md`
truncated at the start; a writer left in the mode the file was found in, a pool
without its options.

## 4. Proofs

All theorems hold for every value of the constants within the named
assumptions, for any number of processes, interruptions and changes of the
server: the bounds on those are constants too.

| Module | Theorem | States |
|---|---|---|
| `SuiteRun_proofs` | `TypeCorrect` | `Spec => []TypeOK` |
| | `NoRefusals` | `Spec => []OnlyOutsideFailures` |
| | `NoCollisions` | `Spec => []DefaultInsertsDoNotCollide` |
| | `NothingDangles` | `Spec => []ReferentialIntegrity` |
| | `SameStart` | `Spec => []SeededIdentically` |
| | `DeletesOnlyVictims` | `Spec => OnlyVictimsVanish` |
| `SuiteWork_proofs` | `BulkIsAtomic` | `Spec => []BulkAllOrNothing` |
| | `WorkIsExact` | `Spec => []FinalContents` |
| `SuiteRefinement_proofs` | `SuitesKeepContract` | `Spec => KeepsContract` |
| `MemorySuite_proofs` | `TypeCorrect` | `Spec => []TypeOK` |
| | `FileIsLeftAlone` | `Spec => []FileKeepsSeed` |
| | `MemoryKeepsContract` | `Spec => KeepsContract` |
| `Harness_proofs` | `TypeCorrect` | `Spec => []TypeOK` |
| | `DeletesMatchVictims` | `Spec => []VictimsMatchCalls` |
| | `MedianInTheMiddle` | `Spec => []MedianIsMiddle` |
| | `TailBeginsThere` | `Spec => []TailBeginsAtP95` |
| `Report_proofs` | `TypeCorrect` | `Spec => []TypeOK` |
| | `OnlyNaNPanics` | `Spec => []PanicsOnlyWithoutSamples` |
| | `AllListed` | `Spec => []EveryoneListed` |
| | `BestComesFirst` | `Spec => []BetterIsAhead` |
| `Benchmark_proofs` | `TypeCorrect` | `Spec => []TypeOK` |
| | `ReportsAreComplete` | `Spec => []ReportIsComplete` |
| | `NotFoundNotNeeded` | `Spec => []SqliteOnlyIfNotFound` |
| | `EarlierReportSurvives` | `Spec => EarlierReportKept` |
| `SqliteFile_proofs` | `TypeCorrect`, `ReaderMissesNothing`, `PragmasLast` | `Spec => []TypeOK`, `[]ReaderSeesSeed`, `[]RunsWalNormal` |

*Assumptions.* The theorems about `SuiteRun` and `MemorySuite` assume
`SafeSizes`: a page of seeded rows exists, `DELETE_BASE + warmup + iters` stays below 2^31, and
victims and posts end at or below the value the sequences are set to. The
`collision` run shows that the last is needed. `MCSuiteRun` and `MCMemory`
assert `SafeSizes` of their instances. `SuitesKeepContract` and
`MemoryKeepsContract` assume besides that every positive number is in `Ids`,
the ids a new row may get. `DeletesMatchVictims` assumes `SafeCounts`: `warmup +
iters` of no configuration the environment can ask for reaches 2^32. `Report`
assumes that a timed call takes time (`RowsAssumption`), `Benchmark` that no
victim's id passes 2^31 (`ConfigsAssumption`). `PragmasLast` assumes that
SeaORM's suite is not considered; the `pool` run shows why.

*`SuiteRun`.* None of these is inductive. That no statement is refused depends
on what each stage knows of the ones before it, so the invariant `IInv` says it
stage by stage: `DdlInv` (what the batch has already dropped; nothing is known
of what it has not), `SeedUsersInv` and `SeedPostsInv` (the tables hold exactly
the first `k` rows of the seed), `SetvalInv` (all of it), `OpsInv` (seeded
users are there and active as seeded; the victims above `DELETE_BASE +
Deleted` are there and no others; on PostgreSQL the sequence is past all ids;
on SQLite a largest id exists, and until the deletes begin all victims are
below it) and `TxInv` (a transaction is open only inside a row-by-row bulk
insert, and its rows are neither seeded users nor victims). Each action has a
lemma that it preserves `IInv`; `FreshIds`, the argument that new ids hit
neither victims nor seeded users, and `InsertPreserves` serve the four inserting
actions; `PageIsFull` and `JoinIsFull` carry the cardinalities for the
`ensure!`s of the page queries. `StartOver` shows why interruptions do not
matter: `DdlInv` asks nothing of the database when `stage = "ddl"` and `k = 0`,
except that no post dangles, which every stage preserves.

*`SuiteWork`.* `OpsInv` says which ids are there, not how many of the others
and not what they are called. `Work` adds it: with `Done(o)` the calls of
operation `o` that have returned, there are `Done` new users, `BULK_SIZE` times
`Done` bulk users, and the renamed users are the targets of the updates so far.
`WholeBulks` turns the count into `BulkAllOrNothing`; at `finished` every
`Done(o)` is the total, which is `FinalContents`. The cardinalities rest on the
`FS_` theorems of the library.

*Refinement.* Each action of `SuiteRun` is shown to be a step of the contract
or a stutter, under `RInv`: `IInv`, that `setup` ends in the seed exactly
(`SeededIdentically`, which the contract's `Setup` needs at the moment the last
stage of it ends), that an `aborted` process has a cause (`WhyAborted`), that
`setup` leaves the position at the first operation (`FirstOp`), and that the
rows of an open transaction follow the last id of the table (`OpenRows`, which lets
`BulkCommit` be one `insert_bulk`).

*In-memory suites.* `MemorySuite_proofs` does not prove the statements a second
time. It takes a third instance, `V`, of `SuiteRefinement_proofs`, whose tables
are the file's while it is set up and loaded and those in memory from
`UseMemory` on (`OnMemory`): a state function, no new variable. A step of
`Disk` or `Mem` is the step of `V` of the same name, the load is a stutter of
`V`, and `UseMemory` is its last step of `setup()`, because by then the copy
equals the file (`LoadInv`: what each step of the load has put into memory).
The inductive invariant `MInv` is `V!RInv` with `DiskSound` (no post of the
file dangles, whatever ended when), `DiskSeeded` (from then on, and after a process died there, the file is the
seed exactly) and `LoadInv`. `SameView` says that the contract sees the same
through `V` and through `Mem`, which gives `MemoryKeepsContract`.

*`Harness`.* `DeletesMatchVictims` needs that the indices so far are `0..n-1`
in order across both loops (`InOrder`, `Progress`); that covers `from_env`,
since `DeleteRows` is computed from the same `cfg`. Under `SafeCounts` neither
sum wraps (`CallsAreFew`); without it the seed has fewer rows than there are
calls. For the statistics,
`Measured` adds that there is one sample for each timed call.
`Ranked(s, p, v)` says by counting that `v` belongs at place `p`: such a value
exists (`ValueAt`: the least number that `p` samples do not exceed), only one
does (`OneValueAt`), and it grows with `p` (`PlacesGrow`), so `Sorted` is a
sorted sequence. `AtLeastBelow(half)` and `AtLeastAbove(half)`, counted from
either end, are the values at places `half` and `n + 1 - half`, and the
arithmetic of `percentile` (`Places`, `Between`) puts the median half way
between them. For p95 the two counts come from `Ranked` at the places on both
sides of its rank; the median is not above it because the upper place of the
one is not above the lower of the other, except for two samples, where both lie
between the same two. Where exactly p95 lies between its neighbours is
`PlaceOfP95`.

*`Report`.* The invariant is that every table rendered so far is the `Ranking`
of its section's `Group`, that nothing in it compared a NaN (`Rendered`), and
that `stats` has a `None` only for a writing operation of a read-only suite
(`StatsType`). `Before` (smaller product, ties by position) is a strict total
order of the group (`BeforeIsOrder`), so no two suites have the same number of
suites ahead of them, and since there are as many places as suites, every place
is taken (`EveryPlaceTaken`): a ranking lists its group once each
(`RankingOrders`). `ProductGrows`: a suite nowhere slower and somewhere faster
has the smaller product if the slower one has no median of 0; had it one,
sorting would have panicked (`NoZeroRanked`). Everything that depends on which
operations are in which list rests on two lemmas about the numbers themselves:
`Lists`, and `ListsAgree` (an operation is in `READ_OPS` or in `IfWrites`, and
in one of them only). `OnlyNaNPanics` and `AllListed` would be false without
the second.

*Induction.* What `Product` computes over `OPS`, and that samples have a bound,
is proved by induction on a set of numbers instead of an operator: `NatMin` (a
non-empty set of natural numbers has a least element, from the library's
theorems on well-founded relations), and `Induction` from it.

*The others.* `Benchmark_proofs` carries that `built` is a prefix of `Wanted`
and `results` one of `built`, complete from `"report"` on (`OrderInv`), and what
a report may hold (`ReportInv`); its `TypeCorrect` adds `RestOK`, that only
suites that were built are connected. `NotFoundNotNeeded` covers the refused
statement too, which only suites on the server meet (`Turns`).
`SqliteFile_proofs` needs that the read-only suite works in mode DELETE and
never has a commit in the log, whatever mode the file was found in
(`ReaderInv`), that nothing is committed before a suite works (`NothingYet`),
and that once the PRAGMAs have run the connection of a writing suite has both
(`Prepared`).

The invariants `MInv` and the `IInv` of `Harness` and `Report` hold on the
instances of the runs as well, where TLC checked them before they were proved.
Every invariant and every action property that a passing run checks is proved.
Only model-checked are `GetsDone`, `RecoversAfterOutage` and `RunsToReport`:
liveness under fairness, and the ENABLED in it, is outside the prover's reach.
(`KeepsContract` is the contract's `Init` and steps, without its fairness.)

## 5. Findings

`collision`: `seed_sql` moves the sequences to the constant 200000 while the
number of victims, from 100001 on, follows `BENCH_ITERS`. With
`warmup + iters > 100000` the first `insert_one` on PostgreSQL draws an id a
victim has, and the whole run fails, after the SQLite suites have passed. The
comment "move them past every seeded id so later default inserts cannot
collide" (mod.rs 174-175) holds exactly within `SafeSizes` (`NoCollisions`).

`no_samples`: with `BENCH_ITERS=0` four operations have no samples;
`percentile` answers 0.0, `ranking_table` divides 0.0 by 0.0, and
`partial_cmp().unwrap()` (main.rs 172) panics on the NaN, after every suite has
run and before anything is printed or written. By `OnlyNaNPanics` this is the
only way rendering can panic. `Benchmark` has it as an action (`RenderPanics`).

`unreachable`: the probe (main.rs 139-142) opens a TCP port and no more. A port
that accepts connections without a server one can log in to (a forwarded port,
a server starting up) makes `TokioPostgres::new()` fail before the first SQLite
suite has run, although README 85 says "If Postgres isn't reachable the suite
automatically runs SQLite-only". If the probe finds nothing, that is true
(`NotFoundNotNeeded`).

`pool`: the SeaORM suite runs its PRAGMAs once on its pool
(seaorm_sqlite.rs 24). `synchronous` belongs to the connection: when the pool
has replaced it, the suite works with FULL and not with "WAL +
`synchronous=NORMAL`" (README 68-69). The other suites are safe
(`PragmasLast`): one connection, or options of every connection.

Not a finding, but shown by `Benchmark`: `fs::write` truncates before it
writes, so a process killed in between leaves a `RESULTS.md` cut short
(`whole = FALSE`). It is the only moment at which an older report can be lost
(`EarlierReportKept`).

## 6. Not modelled

- The mean and `ops_per_sec`: single divisions. Rounding of f64 in percentiles
  and scores: the models compute exactly, so two suites whose scores differ by
  less than a rounding error may be listed the other way round.
- The table of code sizes, the trophy, layout and wording of the report.
- `diesel_schema.rs`, `seaorm_entities.rs`: declarations that restate `ddl`.
- Two processes at the same time on one PostgreSQL database or temporary
  directory. Nothing in the code prevents it and nothing is meant to survive it.
- Hot journals, and a `-wal` removed without its database or the reverse
  (`sqlite_db` removes them one by one): a file is there whole, or not.
- Power loss. `synchronous=NORMAL` may lose commits when the machine, not the
  process, dies; `Outage` and `Kill` end the process or its connection only.
- A statement still running on the PostgreSQL server when its client dies: it
  is taken as committed or rolled back before the next process starts.
- A server that neither answers nor closes: there is no timeout in the code
  (`tokio_postgres_pg.rs` 29) whose effect could be modelled.
- u32 overflow of `warmup + iters` (main.rs 86, harness.rs 74). `SuiteRun` and
  `Harness` compute with wrapped values (`Wrap32`), the theorems about them
  exclude it (`SafeSizes`, `SafeCounts`), and so does `Benchmark` by its
  assumption. No run reaches it: four billion victims would have to be seeded.
- PostgreSQL's `int4` range for default ids; more than 2^31 inserts are out of
  any run's reach.
- `CREATE INDEX` is part of `CREATE TABLE posts`: the index goes with its table
  and no query depends on it. Preparing statements (`tokio_postgres_pg.rs`
  58-97) leaves the rows as they are.
- Timing, formatting, texts, e-mail addresses and ages.

## 7. What could follow

Every component that keeps state is modelled, and all of its safety properties
are proved. Left to TLC is liveness. What could be proved towards it without
ENABLED is that every step of the program between two interruptions comes
nearer to the end of its work (a measure over `suite`, `stage`, `op` and `k`
that decreases), and that a process that has not ended has a step whose guard
holds; fairness would only have to join the two.
