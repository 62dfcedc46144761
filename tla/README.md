# A TLA+ model of air-elt

air-elt copies rows from sources (PostgreSQL and CockroachDB, MySQL and MariaDB,
MongoDB, MongoDB change streams) to sinks (the same databases, ClickHouse, QuestDB,
Redis).  A *flow* connects one source to one sink.  Its position is a cursor (the
values of the cursor columns of the last row) or a resume token, kept in a storage
(PostgreSQL, MySQL or MongoDB).  One process runs many flows; they share connection
pools.

Paths below are relative to `src/crates/`.

## 1. Parts of the system

| Part | State | What is hard | Module |
|------|-------|--------------|--------|
| Flow runner `core/src/flow/runner.rs` | contexts, derived plan, cursor in memory, backoff, shutdown receiver | a crash between write and save; a call given up on that takes effect; columns that change between two builds; shutdown during any wait | `FlowRunner`, `AtLeastOnce` |
| Flow engine, permits `core/src/flow/engine.rs`, `core/src/util/concurrency.rs` | task handles, first error, a fair semaphore per component | tasks end in any order, with errors or panics; flows waiting for each other; lost permits | `FlowEngine` |
| Pull sources `sources/{postgres,mysql,mongodb}` | none | keyset predicates with NULLs and descending order | `CursorScan` |
| Change stream source `sources/mongo-cdc` | the open stream | look-ups newer than their event; batches without a row; a dropped collection | `MongoCdc` |
| Sinks `sinks/*` | the target table | one batch, several statements; partial effects and writing again; the same key twice | `SinkWrite` |
| Types and conversion `types/src`, `commons/*` | - | widths, saturation, comparison across types | `Values`, `DataTypes`, `Conversion`, `TypeSystem` |
| Expressions `expr/*` | the program being compiled | every rewrite keeps the meaning; precedence, nesting limits | `Func*`, `Expr*` |
| Configuration, mapping, transform, validation `core/src/{config,mapping,transform,validation}` | loaded files, assembled flows, plans | probes that end in any order; a plan derived twice; values moved out of a row | `ConfigLoad`, `Transform`, `FlowPlan`, `Validation` |
| Bounded cache `commons/caching` | map and queue under a lock | two misses of one key | `FifoCache` |
| Monitoring `monitoring/src` | slots, gauges, sliding windows | a page is read slot by slot while slots are written | `Metrics` |
| Application, storages, retries `app/src`, `storages/*`, `core/src/util/retry.rs` | memoised assembly, validation and migration; cursor tables; metrics manager | callers at the same time, one of which fails; transient errors | `AppLifecycle` |

How they interact: the configuration is loaded, the flows are assembled, validated
and their storages migrated, each once for all the commands of the process.  The
engine then spawns one runner per flow.  A runner takes the permit of one component
at a time, calls source, sink and storage in turn, and gives the permit back.  Rows
pass through the plan: mapping, expressions, conversion.  A signal becomes the shutdown
message that every runner watches.  Recorders measure flows and permits for the metrics
page.

`PROJECT.json` lists every part with its files, every hazard with its line, and for
every definition the lines it models.  A definition that only helps one other is listed
with that other one: the lines then are those of both.

## 2. Modules

**AtLeastOnce** is what a flow promises to someone who sees only the source, the sink
and the persisted cursor: rows reach the sink, and the cursor moves only over rows that
have.

**FlowRunner.**  A row is a key; its position is the cursor value of its latest version,
so an update moves a row past the cursor.  `pc` is where the loop of `run` stands:
`jitter`, `idle` and `backoff` (sleeping), `build` (`ensure_built`), `load`, `read`, `write`,
`save` (the four calls of `tick`), `done`, and `down` (no process).  `stored` is the
cursor in the storage, `cursor` the one in memory, `batch` and `next` what `read_batch`
returned, `lateWrites` and `lateSaves` the calls the runner gave up on that a detached
task may still apply.  A failed call may or may not have taken effect.  `srcCtx`,
`sinkCtx`, `ctxCols`, `ctxSchema` and `plan` are the contexts and the derived plan, as
sets of columns.  `horizon` is a history variable: the highest position when the last
read was made.  `conf` is the configuration of the flow.

**FlowEngine.**  `phase` is the I/O unit a flow is at; `free`, `permits` and `queue` are
tokio's fair semaphore (external, modelled from its documented behaviour: first come,
first served), `MaxConnections` the permits of a component.  `Await` is the loop over
the handles in their order.

**CursorScan.**  A flow gives dialect, order, width and nullable columns.  The clause
is built per dialect, as the three sources build it, with SQL's three-valued logic,
the missing parentheses where they are missing, and the bind list beside the
placeholders.  `Before` is the order of the sort, the reference to compare with.

**MongoCdc.**  `log` is the oplog of one collection, `docs` the collection, `token` and
`stored` the token in memory and in the storage, `start` the position of the first
stream.  `OpenStream`, `DrainStream`, `BuildRows`, `WriteBatch` and `SaveToken` are the
steps of one tick; documents change between them, so a look-up may find a newer
document or none.  `Bootstrapped` says whether the flow begins with a stored token.
`detaches` are the parts of the flow (sink, storage) whose calls may still land after the
runner gave up on them; `lateWrites` and `lateSaves` are those calls.  `regressed` is a
history variable: the keys last written by a batch that ends before a token already
reached.

**SinkWrite.**  A value is a number, 0 for no row, 1 for the row from before the batch
and i + 1 for the batch's i-th row.  `Statement` is what one statement (a chunk, a
pipeline, a bulk write) applies, `Partial` what a failed one may leave behind.

**Values, DataTypes, Conversion, TypeSystem.**  Values and types as tuples, the custom
types of the connectors, the conversion of one value with saturation, and a state
machine over the life of a column: declared, validated against the matrix, its rows
converted; keys compared; cursor values saved and read back; sampled types merged.
Integer and float widths are constants: TLC's integers have 32 bits, so an instance
scales the widths and keeps their order.

**FuncsNumeric, FuncsData, FuncRegistry, FuncCalls.**  Every builtin as one operator that
answers what the `ExprFunction` trait is asked (arity, purity, fallibility, result type,
value), and the life of a call site: bound, typed, checked on its constants, evaluated
on rows of two batches.  Digests, regular expressions and transcendental functions are
external functions of their arguments; the calendar has short months.

**ExprParser, ExprEval, ExprRules, ExprTyped, ExprOptimizer.**  Lexer and recursive
descent with an explicit stack, the depth counter of its guard beside it, one counter for each
of the sources that are nested by interpolation; the tree
evaluator and the evaluator of the compiled program with its registers; every rewrite
rule, the fixpoint driver, type checker, typed rules, guard propagation, lowering and
static checks.  A step is one pass, and `base` and `now_gives` are what the
source program and the program as it stands give on the rows of the job.

**ConfigLoad, Transform, FlowPlan, Validation.**  Loading and merging files, secrets,
environment references and scripts (a text is a sequence of words, and `Evaluated` says which
texts are expressions and what they give; references are expanded before that is asked);
the expansion of wildcards; the derived plan of
a flow; assembly, the concurrent probes with their ordered verdict, the plan derived
again at the first tick, and rows mapped by it with values moved out at their last use.

**FifoCache.**  A value is a function of its key, so the map is the set of its keys;
`want` holds the key a thread has missed and builds without a lock.

**Metrics.**  One step is one visit to one slot, since every slot has a mutex of its
own.  `summaries` and `gauges` are the slots, found through `flow_cache` and `lock_cache`;
`flows` and `callers` are the recorders' users; `conns`, `updates` and `counts` a MongoDB
pool, its event handlers under way and the counts they keep, `misread` the connections whose
close was subtracted from the wrong count (each at most once); `scrape` and `served` the
pages being read and those delivered.  `observed` and `spent` are history variables: every
sample made, and the time callers really spent in a level.

**AppLifecycle.**  The tasks of a process call the methods of one `App`; a method is the
list of its steps, a step what runs between two awaits.  `assembled` and `validated` are
the once-cells, `migrated` and `migrate_lock` the flag and the lock of `migrate`,
`monitoring` the metrics manager in its slot or lent to an assembly, `storages` the cursor
tables with their migrations and, for MongoDB, the sentinel row its access probe writes and
deletes, `tasks` who is where, `ghost` what was done, acknowledged and
reported.

`MC*` are the instances TLC checks; `DataLemmas` and `*_proofs` hold the theorems of
section 5.

## 3. Runs

A run checks a module, or several that share no state, over all its configurations: the
configuration (mode, dialect, strategy, deployment, ...) is chosen in `Init` and does not
change.

Passing:

| Run | Shows |
|-----|-------|
| `runner` | Five configurations of a flow: a daemon, the same flow under `run --once`, a raw passthrough (no cursor, plain insert), a wildcard flow over a table that gains and loses a column, a daemon whose sink may apply a write late; with failures, lost replies, late saves, crashes, restarts, a shutdown. The persisted cursor is never ahead of the sink (`NoLoss`), a successful one-shot run has drained (`OnceDrains`), no error ends a daemon (`DaemonOutlivesFailure`), a batch is written in the shape it was read in (`NoMixedShapes`); with late writes a committed row may be an old version but is never missing (`NeverMissing`). |
| `runner_live` | The runner implements `AtLeastOnce`; a daemon catches up once faults end (`Converges`), stops when told, and a one-shot run returns (`RunnerExits`). |
| `engine` | Permits are neither lost nor made and a flow has at most the one its I/O unit needs (`PermitsSound`); waiters wait for flows that wait for nobody (`WaitsForRunning`) and are served (`Served`); `run()` returns the first error in the order of the flows (`ReturnsFirstError`), and returns after a shutdown (`ShutdownReturns`). |
| `scan` | Over all tables of pairs over two values and NULL: the predicate selects every row after the cursor (`FilterSound`) and nothing is skipped (`NothingSkipped`). For the *exact* flows (ascending, or over NOT NULL columns, or over one SQL column) it selects no other row, the cursor only moves forward (`CursorAdvances`) and the scan ends (`Drains`). |
| `cdc` | With failures, replays, restarts and calls that land late, no change between first stream and token is passed over, but for keys an overtaken batch wrote last (`ChangesDelivered`); the token stops before a drop (`DropStops`); with post-images the sink becomes equal to the collection (`PostImagesCatchUp`). |
| `sink_write` | A batch reported as written is in the table (`Applied`); the report accounts for each row (`Reported`); a batch that is not refused as such gets written (`Written`). |
| `data` | What the compatibility matrix promises of a column, its rows keep (`ColumnLaws`); keys are an order consistent with their hash and cursors survive a restart (`KeysKept`); merged types cover what was sampled, in any order (`UnionLaws`); a call returns a value of the type, size and nullability its signature says (`ResultConforms`), and what the compiler was told of it (pure, refused for its constants, cannot fail) holds for every row (`CompileTimeHonest`). |
| `expr` | Every pass keeps what a program gives, lowering included (`CompilerFaithful`), and none makes it larger but the one that copies a value to several keys (`NeverGrows`); the parser gives the tree that was meant within the stack its guard counts (`ParserSound`). |
| `plan` | A configuration that loads was read whole and once, and each expression in its settings, after references are expanded, evaluated once (`LoadedFaithfully`); what validation established of a flow holds when it runs, for whatever order the probes end in (`ValidatedHolds`). |
| `ops` | The cache is bounded, its queue and map agree under racing misses and failed builds leave nothing (`CacheSound`); a page of metrics holds windows and totals that were true, and no series falls from one page to the next (`PagesHonest`); lock gauges are exact, and pool counts as long as no close is misread (`LevelsExact`); assembly, validation and migration are shared and the metrics manager is never lost (`StartShared`); an acknowledged save is stored and transient errors surface only after the last attempt (`StorageHonest`); the process ends (`Exits`). |

Violations, each against a sentence of the repository (`findings` in `PROJECT.json`
quotes it):

| Run | What happens |
|-----|--------------|
| `scan_desc_postgres` | Descending cursor, nullable first column: missing parentheses select rows again, for ever. |
| `cdc_lookup_stuck` | A batch of updates of deleted documents has no row, so its token is not saved and it is read for ever. |

Other disagreements met while modelling.  The models have them; each is the reason for
a condition in a property, and removing the condition, or setting the constant, makes
TLC find it:

* `ensure_built` builds the source context from the plan in force before the new one is
  derived (`runner.rs:238`), so after a column is added the first rebuilt context still
  reads the old columns, where the comment at `runner.rs:673` expects the new shape.  The
  tick then fails and the next one has it: `NoMixedShapes` says that nothing is written
  meanwhile, and excepts identity plans.
* A one-shot raw-passthrough flow over more rows than one batch reads and inserts the
  same documents again and ends in a duplicate key (`runner.rs:592`), though `--once` is
  described as a drain.  `OnceDrains` speaks of runs that succeed; this one does not.
* A descending MongoDB cursor over a nullable field never selects the rows where it is
  null (`mongo_source.rs:460`): `Covers`.
* A descending MySQL cursor that stopped at a NULL in its second column binds more
  values than the statement has places (`sources/mysql/src/sql_statements.rs:157`):
  `BindsMatch` without `Exact`.
* Before the first saved token, changes between two idle reads of a change stream are
  lost (`runner.rs:481`): `PostImagesCatchUp` without `token # {}`.
* A token save that took effect though it was reported as failed, a shorter replay and
  a restart leave an old version in the sink (`runner.rs:586`), and so does a write that
  lands late (`mongo_sink.rs:327`, `task.rs:38`): `ChangesDelivered` without `regressed`.
* Two rows of one conflict key in a batch are one statement, which PostgreSQL refuses on
  every tick (`pg_sink.rs:275`): `Written` without `Refused`.
* MySQL reports an overwritten row twice (`mysql_sink.rs:298`): `Reported` without its
  factor.
* A change stream with `ignore` into MongoDB is accepted and stuck at its first delete
  (`mongo_sink.rs:374`): `Written` without `NoDeletePlan`.
* A conflict block on ClickHouse is accepted and has no effect
  (`clickhouse_sink.rs:123`): its rows are appended, and `Keyed` does not count it.
* The depth units of an operator chain are returned when its call ends (`parser.rs:342`),
  so they bound the stack of the parser; the tree may be deeper, where the comment at
  `parser.rs:334` says it is bounded too.  `GuardCoversStack` is about the stack.
* An interpolated source is parsed inside the outer parse with a depth that starts at 0
  again (`parser.rs:1072`), where the test at `parser.rs:1872` says that every deepening point
  "is charged to the depth guard", so that input of any shape is refused in time.  `GuardCoversStack` holds for each of the nested parses by
  itself; how many there are is bounded by the length of the source.
* An interpolated source is parsed with the runtime grammar also in a configuration, so
  that `field()` is accepted there against `parser.rs:16`; and a backslash before a character
  outside ASCII makes the lexer panic (`lexer.rs:270`): `KnownOtherwise` of `ExprParser`.
* `SwitchLower` copies the value of a branch to every key of an `or` condition
  (`switch_lower.rs:128`), so a round may grow the program, where `optimizer.rs:191` says that
  "Every pass leaves it non-increasing": `NeverGrows` without `Spread`.  The fixpoint still
  ends: a conditional is lowered only once.
* A lookup evaluates all its keys, a chain of `k1 == a && k2 == b` the second only where the
  first matches: a second key that fails now fails the row, where `or_membership.rs:14` says
  that an error "surfaces identically": `PassesPreserveMeaning` without `KeyEvaluated`.
* `x = add(a, 1); 1` fails on a text before the unread binding is dropped and gives 1 after
  (`register_pruner.rs:51`), as does an unread member of an object literal.  `add` says that it
  cannot fail, which `signature.rs:168` means of well-typed arguments; the rows of an untyped
  flow are not: `PassesPreserveMeaning` without `ErrorUnread`.
* Some builtins promise more than they keep.  A null seed, path, key or index gives null
  where the type says otherwise, a member is returned as it is stored, and three functions
  hand the standard library a range it refuses with a panic (`NullAnyway`, `KindAnyway`,
  `PanicAnyway`); the text of a float, day or instant may be longer than the size the cast
  declares (`cast.rs:94`, `LongAnyway`); the absolute value and the negation of the least
  integer are a BigInt under the type of the argument (`WideAnyway`); and `add`, `subtract`,
  `multiply`, `min` and `max` say they cannot fail and refuse two different number types
  (`arithmetic.rs:84` and `:192`, `FailsAnyway`).
* The order of keys is called total (`key.rs:223`) and is not transitive where an integer
  beyond the significand of a float meets floats (`key.rs:366`): `KeyLaws` without
  `MeetInexact`.
* A close that the driver reports with an error, of a connection that was never ready or is
  back in the pool, is taken off the active count (`client.rs:108`, `pool_stats_reader.rs:47`):
  `LevelsExact` without `misread = {}`.
* References are expanded in the text of a file before it is parsed (`loader.rs:54`), and a
  text of a component's settings is an expression when it looks like one (`detect.rs:30`): a
  secret with `=` or `{` in it is evaluated or refused, though secrets are called literals
  (`env_expand.rs:25`), and `$${VAR}`, which is documented to stand for `${VAR}`
  (`env_expand.rs:30`), is interpolated.  `ScriptsEvaluatedOnce` is about the expanded text.

Deadlock is checked except in the `FlowRunner` runs, where a runner that returned with
no restart left and a source that changes no more is the intended end, and in `data` and
`ops`, whose behaviours end when their column, call, deployment or process has.  `runner`
uses the symmetry of the keys, which are only compared; it checks no liveness.

**Bounds.**  `MaxPos` (versions), `MaxFaults` (failed calls), `MaxRuns` (process starts),
`MaxLog` (changes), `MaxRows`, `ChunkRows`, `MaxVal`; in a deployment of `Metrics` `maxTime`,
`maxRuns`, `maxScrapes`.  One key more than the batch limit gives a full batch, a short
one and an empty one; two faults give a failure during the recovery from another; two
runs give a restart from every persisted state; three rows and chunks of two give a chunk
committed before one that fails; two cursor columns over two values and NULL give every
combination the clauses tell apart.  A window of two ticks and a clock of four let a
sample enter, age and leave it; two scrapes give a page to compare with the one before;
three threads and four keys over a cache of two give a miss of a key that another thread
is inserting and a third evicts.  In `data`, `expr` and `plan` the inputs are enumerated:
values at both ends of every range for every pair of types; expressions built from every
node and every rule's pattern, with nulls, NaN and values of the wrong type in the rows, keys that fail second and first, and
branch values long enough for a lookup to outgrow its conditions;
every pair of operators in a chain, every text of three characters around a quote, counts
around every limit, strings nested in strings past the depth limit; references whose value is
plain, an expression or one that fails; every form of mapping between typed and schemaless sides.

**Fairness.**  Weak fairness of the runner, of a flow's steps, of the engine's await and
of the tasks of the process: tokio polls a task that can run, sleeps end, and the calls of
a tick end because `with_timeout` bounds them.  `build_context` and the wait for a permit
have no such bound; that they end is an assumption on the backend.  A process that died is
started again (the operator's supervisor).  Faults are finite in number, which is what
"eventually catches up" assumes.  The environment (changes, crashes, shutdown, late
effects) is never fair.

## 4. What is not modelled, and why

* Time: a sleep ends some time, a call times out at any time.  A call that blocks past
  its timeout is therefore not seen (`mongo-cdc` awaits its pinned poll once more after
  the deadline), nor is the arithmetic of the tick grid.  `Metrics` has a clock, in ticks.
* Transactions of a source that commit a lower cursor value later: the cursor column
  must grow in commit order, which is the operator's contract.
* MongoDB comparison across BSON types, and the order in which an unordered bulk write
  applies two rows of one key.
* The syntax of TOML and YAML, the wire encodings of the drivers and of ClickHouse's
  RowBinary, introspection queries: data conversion without control.  References stand in
  the settings of components, and no value that replaces one holds a quote or a line end,
  which would change the syntax of the file.
* Sketches: a bucket is the set of its samples, so what a quantile's error bound says is
  not modelled; nor are the memory gauges of the process collector.
* A poisoned lock in the cache: a reader that panics does not poison a `std::sync::RwLock`,
  whatever the comment on `with_or_try_insert_with` says, and nothing panics under the
  write lock.

## 5. What is proved

For every value of the constants that satisfies the named assumptions of the modules
(finite key sets, positive limits and permit counts, well-formed configurations), and for
any number of steps.  An invariant is seldom inductive as it stands; each group below names
the strengthening, which was model-checked before it was proved.

* **`FlowRunner_proofs`**: `TypeCorrect`, `CursorSafetyHolds`, `NoLossHolds`,
  `OnceDrainsHolds`, `DaemonOutlivesFailureHolds`, `NoMixedShapesHolds`, `NeverMissingHolds`,
  `Refinement`.  `NoLoss` needs `CursorSafety`: a batch on its way holds every row between
  the cursor and its end, rows changed since the read lie beyond `horizon`, and every
  cursor value that may still reach the storage is already covered.  These and `OnceDrains`
  speak of flows whose sink applies no call that was given up on
  (`"sink" \notin Detaches`), and `Refinement` assumes that all configurations are of that
  kind.  A MongoDB sink is not, and `NeverMissing` says what is left then: `PresentInv`
  follows presence instead of versions, for the stored, the current and every late cursor.
  `NoMixedShapes` needs `ShapeInv`: the columns of a built context are in its plan and its
  schema, and a batch past the drift check has a plan with no other column.
* **`FlowEngine_proofs`**: `EngineTypeCorrect`, `PermitsSoundHolds`, `WaitsForRunningHolds`,
  `ReturnsFirstErrorHolds`, from `LockInv` (types, one permit, conservation, nobody queued
  twice).
* **`CursorScan_proofs`**: `FilterSoundHolds`, `NothingSkippedHolds`, `CursorAdvancesHolds`.
  The clause of each dialect is shown equal to the lexicographic order for any width, by
  induction on the first column where two keys differ; `ScanInv` adds that the cursor is a
  row of the table.
* **`MongoCdc_proofs`**: `ChangesDeliveredHolds`, `DropStopsHolds`, from `CdcInv`: the
  collection is what the log left, a batch is the deduplicated stretch of the log from the
  token on, a row of a document whose last change is in it holds the document, and the sink
  has the stretch up to every token that was reached, stored or still to be saved late
  (`Reached`), but for the regressed keys; the rows of a late write are those of its batch
  (`LateInv`).
* **`SinkWrite_proofs`**: `AppliedHolds` from `SinkInv` (what a key may hold while the batch
  is under way, how often an element may have been appended after so many failures) and
  `ReportedHolds` from `ReportInv` (what has been counted so far).
* **`Ops_proofs`**: `CacheSoundHolds` and `EvictsOldestHolds` from `CacheInv` (no key is queued
  twice); `LevelsExactHolds` from `LockInv` and `PoolRead` (a close was misread, or `PoolInv`).  `LockInv`: every lock has its own
  slots, the last value of a gauge is the number of callers at that place of their code,
  and its integral carried on to now is the time they spent there.  `PoolInv`: an event
  handler under way has at most one decrement and one increment left, and a connection
  counts where it was until the first of them is done.
* **`AppLifecycle_proofs`**: `StartSharedHolds`, `StorageHonestHolds` from `AppInv` and
  `HonestInv`.  A task's remaining steps are the whole of its future, so the invariant is
  about lists: in which order steps may be left (`Shape`), that only the holder of a cell or
  of the lock has steps inside it, that what is left of a migration and what is migrated make
  up all flows, and that exactly one of slot, guard and server has the metrics manager.

`DataLemmas` has what they share: queues without duplicates, finite sets of functions, and
induction over numbers in the form of a fact about sets (`NatMin`, `NatAll`), which the
provers can use where an induction theorem with an operator parameter cannot be
instantiated.

Only model-checked:

* liveness (`Converges`, `RunnerExits`, `Served`, `ShutdownReturns`, `Drains`,
  `PostImagesCatchUp`, `Written`, `Exits`): the prover handles neither fairness nor `ENABLED`;
* everything in `data`, `expr` and `plan`: their modules are recursive over values, trees and
  files, and what a recursive definition computes for every input needs an induction over
  data that the prover cannot make;
* `PagesHonest`: its invariant has to say of every slot of every rolling window which
  seconds it still holds, while a scrape reads the series one by one and the flows go on
  writing them; it is checked on the small instance of `ops` and is not proved.

A step of a proof that names no prover is tried with the provers of the `USE` line at the
head of its module, in that order.
