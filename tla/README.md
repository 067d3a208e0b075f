# Specifications of Dataform

TLA+ models of the parts of Dataform in which order, failure and concurrency
matter: from the files of a project to the last row written to the warehouse.
Every definition is translated from the TypeScript source named in
`PROJECT.json` ("map"); TLC checks the models on small instances and TLAPS
checks proofs for all of them.

## The system

| Component | State it keeps | Operations | What is hard | What makes it correct |
|---|---|---|---|---|
| **Run executor** `api/commands/run.ts` | pending actions, names executed and succeeded, the run result, flags `stopped`, `cancelled`, `timedOut`, the timer | `run`, `stop`, `cancel`, timer, `result`; per action: client lock, tasks, retries, metadata | every action is its own chain of continuations; they interleave at each `await` with cancel, stop and the timer; a stopped run is resumed from its result | dependencies first; skips have a cause; results are final and true; the run settles |
| **Run cache** `run.ts` (`shouldCacheSkip`), `build.ts`, `state.ts` | warehouse metadata when the graph was built, updated by each action; inputs and timestamps recorded per execution | snapshot, decide, record | decisions compare timestamps of different ages while others write | only what is up to date is skipped; what is unchanged is skipped |
| **Builder** `build.ts`, `core/adapters/*`, `core/tasks.ts` | none | tasks of each action, from its type and from what the dataset was | tasks fail half-way, are repeated, and meet what earlier runs left; datasets change their type | the tasks make the dataset the action describes, and lose nothing on the way |
| **Pruning** `api/commands/prune.ts` | none | selection by name and tag, with dependencies, dependents and assertions | several closures added in turns to one set | exactly the requested closure is kept |
| **Compiler session** `core/session.ts`, the builders of `core/*.ts` | actions, tests, configuration, errors | define, call builders, run queries, qualify, rename, check | queries call back into builders that are changed at the same time; inline tables; affixes | graphs without errors are sound; texts name their dependencies |
| **SQLX** `sqlx/*.ts`, `core/compilers.ts` | stacks of the lexer and of the tree | lex, compile, format | SQL in template strings in SQL; comments, escapes, blocks anywhere | what is compiled is what was written; formatting does not change it |
| **Compilation process** `api/commands/compile.ts`, `sandbox/vm` | a forked process | fork, message, timeout | message, error, exit and timeout race | settles once, the child is gone |
| **Query command** `api/commands/query.ts`, `utils/cancellable_promise.ts` | handlers, flag | compile, execute, cancel | a cancel at any moment | nothing goes on after it |
| **Warehouse drivers** `api/dbadapters/*` (`execute`) | a pool of statements, jobs, streams | execute, limit, cancel, repeat | two libraries' callbacks and a cancel race; the limit ends a stream early | whole results; final cancels; every statement ends |
| **Adapter calls** `api/dbadapters/*` (the others) | none | tables, table, search, preview, schemas, setMetadata, evaluate | several requests answered in any order while others change datasets | answers were true at some moment; descriptions arrive |
| **Postgres/Redshift pool** `api/utils/postgres.ts` | pooled clients | lock, query, release, close | errors release a client inside its lock | released once, not shared, not lost |
| **SSH tunnel** `api/ssh_tunnel_proxy.ts` | connections | create, accept, close | it accepts before it is ready | close ends |
| **Redis cache client** `redis/client.ts` | a remote cache | get, invalidate | the lookup races the calculation; the write-back is not awaited | get answers whatever the cache does |
| **Unit tests of SQL** `api/commands/test.ts` | none | execute two queries, compare rows | cases, missing columns, null | passed means equal |
| **Test framework** `testing/` | suites, contexts, results | hooks, tests, timeouts, retries | an attempt that timed out goes on | green means that everything passed |

How they interact: the compiler session, in its own process, evaluates the
files that `Sqlx` compiled to JavaScript and produces a compiled graph.
`build()` prunes it, reads the warehouse's state through an adapter and makes an
execution graph of actions and tasks. `run()` executes that graph on clients
that the adapter lends, and returns a result; the caller may keep the executed
actions for the run cache, or a partial result to resume. Cancel travels from
the CLI's SIGINT handler to `Runner.cancel()` and from there through an event
emitter to the handlers that the adapters registered.

## Modules

| Module | Models | Composed by |
|---|---|---|
| `DagExecution` | what a run promises its caller (abstract specification) | refined by `Runner` |
| `Runner` | class `Runner` | `MCRunner` |
| `RunnerProofs`, `RunnerRefinement` | theorems about `Runner` | |
| `RunCache`, `RunCacheProofs` | `shouldCacheSkip`, transitive inputs, tasks by the dataset found, snapshot and records; theorems | `MCRunCache` |
| `PublishTasks`, `PublishProofs` | tasks of each type and warehouse, executed over several runs; theorems | `MCPublish` |
| `Session` | definition and compilation of a project | `Prune` |
| `Prune` | `prune()` and `build()` on what `Session` compiled | `MCProject` |
| `ProjectProofs` | theorems about `Session` and `Prune` | |
| `SqlxLexer`, `LexerProofs` | lexer and syntax tree; theorems | `Sqlx` |
| `Sqlx` | compilation and formatting | `MCProject` |
| `QueryDriver` | what `execute()` of all adapters has in common | the four drivers |
| `BigQueryDriver`, `SnowflakeDriver`, `SqlDwDriver`, `PrestoDriver` | each client library's steps (they extend `QueryDriver`) | `MCWarehouse` |
| `PgPool` | `PgPoolExecutor` | `MCWarehouse` |
| `AdapterCalls` | the other calls of all adapters | `MCWarehouse` |
| `WarehouseTypes` | `convertFieldType()` of all adapters | `MCWarehouse` |
| `WarehouseProofs` | theorems about the drivers, the pool, the calls and the types | |
| `RedisCache` | `Cache` and `promiseAny()` | `MCServices` |
| `QueryCommand` | `query.run()`, the forked compiler, `CancellablePromise` | `MCServices` |
| `SshTunnel` | `SSHTunnelProxy` | `MCServices` |
| `TestRun` | `src/testing` | `MCServices` |
| `TestCommand` | `runTest()` | `MCServices` |
| `ServicesProofs` | theorems about the cache, the query, the test framework and unit tests | |

`Runner` and `RunCache` share the executor's source. `Runner` has all of its
control and leaves open which actions the cache may skip (`CacheCandidates`);
`RunCache` decides that from timestamps and reduces scheduling to one task per
action. `PublishTasks` follows one action through its tasks, where `Runner`
leaves open what a task does. `Prune` extends `Session`: what is pruned is what
the session compiled. `MCWarehouse`, `MCProject` and `MCServices` hold parts that
do not interact; the variable `part`, chosen in the initial state, says which of
them takes part in a behaviour.

A helper's mutants (see Runs) stand next to it, with a comment "Mutant: ...".

### Runner

The code is single-threaded; what is atomic is everything between two awaits.
`pc[a]` says at which await `executeAction(a)` is:

| `pc[a]` | in `run.ts` |
|---|---|
| `lock` | waiting in `withClientLock` (360) |
| `loop` | at the head of the loop over tasks (362) |
| `queued`, `running` | in `client.execute`, before and after the adapter registered its cancel handler (444-450) |
| `unlocked` | the lock was given back (386) |
| `metadata`, `table` | in `setMetadata` (399), in `table` (405) |
| `finish` | at 411, before the final status |
| `returned`, `joined` | the action returned; its continuation (306-312) is due, is done |
| `threw` | `executeAction` rejected |

`status[a]` and `tasks[a]` are a's entry in `runResult.actions`; `extra` holds
the actions that have a second entry, which happens when a stopped action is
cache-skipped on resumption. `pending`, `executed`, `succeeded` and the flags
are the fields of the class. `Pass` is
`executeAllActionsReadyForExecution()` up to its awaits: one synchronous step
that classifies all pending actions and runs `executeAction` of each ready one
up to its first await. The recursion after skips (300-303) finds the sets as
they were, so it adds no step.

`Cancel`, `Stop` and `TimerFires` may come between any two steps until the run
has a verdict, also while schemas are made and after the run was rejected.
`Resume` is a new `Runner` on the partial result of a stopped run: the flags
start over, entries that are `RUNNING` are taken up, all others count as done.
The adapter may reject every call. It is assumed to reject a query whose cancel
handler it was given and that was called (`heard`): for the drivers this is
`HeardCancelIsFinal`, modelled in `QueryDriver`. Postgres and Redshift register no
handler; their queries never leave `queued` for `running`. Listeners are assumed not to call back into the runner.

History variables: `tries` (every statement sent), `aborted` (a cancel at any
time, before a resumption too).

Not in the model: wording of errors, timings, the throttling of change
notifications, labels and row limits.

### DagExecution

Each action goes from no outcome to a final one. A start needs every dependency
successful in the state before the step; a skip needs a cancel or a dependency
that failed or was skipped; a verdict comes once, with nothing in progress, and
agrees with the outcomes. `Runner` refines it under `Outcome` and `Verdict`
(`RunsTheDag`). A verdict does not require that every action has an outcome,
because the executor does not give one to each (see Findings).

### RunCache

Timestamps are what the executor sees; contents are what they stand for. Every
write takes the next value of `clock` as the new contents (`stamp`) and the new
timestamp (`mtime`) of its target; streamed rows change the contents only, and
put the target in `buffered`. `basis[a]` is from which definition, by which tasks and
from which contents a's dataset was made, `asView` which datasets are views, right or
wrong. `snap` is the graph's warehouse state, `known` the runner's copy of it, `rec`
what this run records and `prev` what earlier ones recorded. Sources may be written at
any time, datasets of actions by others only between runs, as tables or views.

`SameExecutionAction` is the comparison of execution actions. What was compiled is a
version number (`def`); the tasks are those that `PublishTasks` made when the run was
built, from the dataset that it found and `--full-refresh`: whether one of the other
type is dropped, and whether the query's rows are inserted or replace everything. An
insert or merge also names the columns of the table, which is left out: they do not
change while the table has the timestamp that was recorded. Views have a
timestamp like tables; where the warehouse gives none, the case is the one
without metadata (`Forget`). `Sees` is an independent definition of what a query
reads, the least set that is closed under views; `Inputs` is the recursion of the
code's `computeAllTransitiveInputs`. `SkipsAreFresh` demands that a skipped dataset has
its action's type, was made by its definition, and rebuilt if it would be rebuilt now;
and it compares the contents that it was made from with the oldest a run may use
(`least`), except for inputs that are being executed at that moment (see Known
deviations).

`trying` and `steady` are history variables: a run of everything goes on without
disturbance; and the actions that such a run left so that the next one would make the
same tasks of them and of all they read (`Settled`), until something happens.

### PublishTasks

A statement is reduced to what it does to the target, to the table beside it
(`<name>_temp`) and to the temporary table of its session; rows are pairs of a
key and a version. `Build` is `build()` of one action: it reads the metadata and
chooses the tasks, once. Then `StatementDone`, `StatementRefused`
(what the warehouse must refuse, see `Runs`) and `StatementLost` (a statement, or
only its answer after it had its effect) execute them, with the retries of
`Runner`. `undo` is the transaction of a session. Between runs the
source changes, and the author changes the type.

What the user's own statements do is left out (`User`), except for the query of
an incremental table, which is the recommended one: what is not in the table yet.

### Session, Prune

A project is a sequence of at most `MaxSteps` files and calls on builders. A
builder's `config()` is one operator for each kind of action (`TableConfig`,
`OperationConfig`, `AssertionConfig`, `DeclarationConfig`), with the calls in the
order of the code, because `schema()` before `assertions()` is not the same as
after; options that are only stored are names in `props`, and what a kind of action
does not take are `ExcessProperties`. The queries of actions are sequences of
calls on their context (`ref`, `resolve`, `config`, `disabled`, ...), executed by
`CompileAction` in the order of `compile()`: tables, operations, assertions,
declarations. Then
dependencies are qualified, names altered, the graph checked, one phase after the
other, as in the code. The code pushes what an inline table depends on to the list
that it is going through; `Expanded` is what the list holds in the end, counted in
rounds (`Reached`), each of which comes to another inline table. `thrown` holds actions whose query
threw; `phase` is `"crashed"` where `compile()` itself throws and `"endless"`
where it does not end. `moved` is a history: it remembers tables whose name changed
in their own query, or after they had made assertions. `Prune` then selects, by names as the code does (of actions
with one name the last is found); its walks take one step for each name of the
queue. A graph with errors may be pruned too, as the API allows.

A text is what its calls return: a sequence of names, and brackets for inline
tables.

### SqlxLexer, Sqlx

Code is a sequence of symbols, each the text of one rule of the lexer, or a word.
`NextToken` gives the rule that matches in each state of the lexer, in the order
in which moo tries them; `LexToken` takes one token and keeps the stack of states
and the stack of nodes, which the code keeps apart. `LexStep` reads a token and
`NextFile` begins with another file (the rewritten one, in `Sqlx`); in the code a
node is in its parent from the start, here it is given to it when it is closed, and
`TreeOf` gives those that are still open. `Trees` are the trees of each depth, over
which `Concatenation` is defined, so that it is a function and not a recursive
operator. `ExtractSqlxParts` finds the
blocks of the tree, `CreateEscapedStatements` is what each template string
contains; the properties read those as JavaScript does (`Evaluate`).
`FormatFile` rewrites the code, and the result is lexed and compiled again. It is
not enabled where `formatFile()` refuses a file.

### QueryDriver and the four drivers

`at[s]` is the await at which `execute()` of statement s is, `job[s]` what the
warehouse does, which goes on by itself; `flag[s]` is the driver's own
`isCancelled` (Snowflake: a cancel request is under way). `outcome` is the
promise, which settles once. BigQuery creates a job again after an internal
error; Snowflake and SQL Data Warehouse stream; Presto polls.

### PgPool

`lock[l]` is a call of `withClientLock`, `client[l]` what it was given. Errors of
a query release the client at once with the error, which closes it, and the
lock's end releases it again (`AfterRelease`). `ClientErrors` is the breaking of
a client's connection; `Close` ends the pool.

### AdapterCalls

A call has stages; the requests of one stage are under way together, and each
sees the dataset at the moment of its answer (`answers`). `during` collects all
states of the dataset during the call: what a call returns must have been true
of one of them, or, for calls of several queries, each part of some.

### The others

`RedisCache` is one key; each process has a connection that executes in order
(`wire`) and fails what is unanswered when it breaks. `QueryCommand` is one
query with the compiler's process, whose events reach the parent in order, and
any adapter. `SshTunnel` is one tunnel with its sockets. `TestRun` keeps every
attempt of each test (`place[t][i]`), because attempts that timed out go on.
`TestCommand` is one unit test over rows of a few columns and values.
`WarehouseTypes` has each adapter's table of types; a column is read from several
warehouses.

## Runs

| Run | Instance | Shows |
|---|---|---|
| `runner` | 4 actions, one waiting for the other three, one dependency outside the graph; a two-task action the cache may skip, an assertion, an operation, a disabled action; two schemas, 1 retry, 2 clients, timer, 2 resumptions | types, dependencies first, success means that the tasks succeeded, order and number of attempts, skips have causes, verdicts are truthful, nothing left running, schemas first, results are frozen, `DagExecution` |
| `runner_settles` | 3 actions, 1 client, 1 resumption, fairness | `result()` settles |
| `run_cache` | source (streaming), view or incremental table, table on it; 3 runs with or without full refresh, 5 writes, 1 edit | only the fresh is skipped, records are conservative, the unchanged is skipped if its tasks are the same again |
| `publish` | one action that changes its type, in BigQuery, Redshift, Snowflake, SQL Data Warehouse; 2 keys, 2 versions, 3 runs, 1 retry | datasets hold what the project says; no rows lost or doubled; what is left half-way does no harm; assertions tell the truth |
| `warehouse` | 2 statements for one place in each driver; 2 callbacks for one client; each longer call of each adapter with one change by others; a column of each type | whole results, final cancels, clients not shared or lost, true metadata, descriptions, evaluations, types; everything settles |
| `project` | up to 3 files and calls of a menu of 27 and 8, with and without affixes; 6 selections; every text of up to 3 of 13 symbols and 19 longer ones | sound graphs, texts, generated assertions, closed selections; tree, statements, formatting |
| `services` | 2 calls of the cache by 2 processes; one query; 2 sockets; 2 suites of 2 tests with 1 retry; pairs of results of up to 2 rows | get answers, nothing outlives a query, green means passed, verdicts of tests; everything settles |
| `runner_skip_lost`, `runner_cancel_skips`, `cache_resumed`, `publish_sqldw_view`, `redis_error` | the smallest that show it | violations, see Findings |

`CHECK_DEADLOCK FALSE` everywhere: runs, calls and compilations end, and the
bounds end everything else.

Each property of a passing run has a mutant, listed in `PROJECT.json`: a variant of one modelled
definition, beside it in the module, under which TLC finds the property violated.

### What the properties say

The comment above each property states it; these are the less obvious ones.

* `CleanGraphsAreSound`: a compiled graph without errors has no cycle, no two
  actions of one name, and only dependencies that are actions of the graph.
  `TextNamesDependencies`: every name in a text is that of a dependency, after
  all renaming.
* `SelectionIsClosed` compares the walks of `prune()` with a closure defined
  independently.
* `TreeIsTheCode`: the tree's leaves, in order, are the code, and the node that is
  open is always one that the lexer's state is about; blocks of SQL are children of
  the root, the condition under which `create()` does not throw. `StatementsEvaluate`:
  what a template string evaluates to is the SQL that stood in the file, for the query
  and the pre-operations; other blocks go through the same function.
  `FormattingKeepsMeaning`: the formatted code compiles to the same parts.
* `UndisturbedRunsSucceed`: whatever earlier runs left, a run in which the
  warehouse loses no statement succeeds. With one loss in a run and one retry, it is
  Postgres' and Redshift's scripts that runs leave half-way. `SuccessGivesTheQuery`: after success the
  dataset is what its query gives.
* `WholeResults`: a resolved call has all rows, or as many as the limit.
  `HeardCancelIsFinal`: a call whose cancel handler ran while it was pending
  does not resolve.
* `MetadataWasTrue`: each part of an answer was true at some moment of the call. Of
  Presto's `table()` it only says that there was a dataset, and with columns if it
  tells of fields: these are not its columns (see Known deviations).
* `UnchangedIsSkipped` is about the actions in `steady`. It says nothing of an
  incremental table that the last run created or fully refreshed, nor of a dataset
  that it gave another type: these are executed once more, against what the
  documentation says (see Known deviations).
* `GreenMeansAllPassed`: exit code 0 means that every test that matched has
  passed, in its last attempt, whatever hooks before it did.

### Bounds

Three actions are enough for every shape the classification looks at: no, one,
several dependencies, a dependency of a dependency, and one outside the graph; the
fourth of `runner` is disabled. Two resumptions are the fewest in which an action
is stopped, taken up, stopped and taken up again; one retry separates first,
repeated and last attempts; one client makes actions wait for each other and two
let them overlap. `MaxResumes` is the only bound in the guards of `Runner`; what
the theorems say of it holds for every bound. In `RunCache` five writes
(`MaxWrites`) suffice for a first run, a foreign write, and a second run that
executes again; three runs (`MaxRuns`) are the fewest in which a cache-skip is
followed by another decision; `MaxEdits` is one. In `PublishTasks` three runs
(`MaxRuns`) are a good run, one that breaks, and one that meets what it left;
two versions (`MaxVersion`) tell updated rows from new ones, and a third change
removes the row. Stops are left out for the projects whose tasks share a
session's state (see Known deviations).

Two statements and one place are the fewest in which one waits for the other to
settle; a limit of one row is met, missed and exceeded with results of up to two
rows (`MaxRows`, `RowLimit`). One change by others (`MaxChanges`) at every moment
of a call tears every pair of its requests. Two calls of `get()` from different
processes let a write-back cross an invalidation (`MaxInvalidations`), and one
break (`MaxBreaks`) fails whatever is unanswered.

Three steps (`MaxSteps`) make a chain of inline tables with its user, two actions
of one name, or an action, its assertion and a late call. `MaxNesting`, a guard of
`LexStep`, lets six nodes be open at a time; no text of the run opens more than four
at once. Texts of three symbols
contain every pair of rules with something between; longer texts were chosen for
each construct of the lexer and each branch of the compiler and formatter.

### Fairness

`FairSpec` (`Runner`): the event loop runs each continuation that is due, and
adapters answer every call: `CreateSchema`, `SchemasReady`, `RejectRun`,
`FinishRun` and `Continue(a)`. Nothing is assumed of cancel, stop, the timer, of
failures, or of the adapter ever starting a queued query in time to register its
handler. `AcquireLock` needs no strong fairness: each waiting action asks for a
client at most once per run, and a client that is given back stays free until
somebody takes it.

`FairWarehouseSpec` (`MCWarehouse`): the warehouse goes on with what it runs and
the client libraries call back (weak, per statement); the pool gives a free client
to each waiting call in the end (strong, per call: pg serves its queue in order,
the model any order).

`FairServicesSpec` (`MCServices`): Redis answers or its connection breaks,
calculations that began end, timers fire, the parent hears its child, the server
closes when it has no connections, hooks and tests end or time out. Compilers,
bodies of tests, sockets, and callers of `cancel()` and `get()` may do nothing.

## Proofs

All theorems hold for every value of the constants under the named assumptions of
the modules; TLC evaluates those on each instance.

| Assumption | Says | Used for |
|---|---|---|
| `GraphAssumption` | a finite set of actions; dependencies, types of tasks, schemas | all of `Runner` |
| `ConfigAssumption` | retries and clients are numbers | all of `Runner` |
| `AcyclicAssumption` | no actions wait for each other in a circle (`checkCircularity` in `session.ts`) | `VerdictsAreTruthful`, `ImplementsTheDag` |
| `ProjectAssumption` | finitely many sources, which no action writes; dependencies among targets; some actions are incremental tables, some hermetic | all of `RunCache` |
| `AcyclicAssumption` (of `RunCache`) | the same of its actions | all of `RunCacheProofs` |
| `DriverAssumption` | numbers: places, attempts, rows, a limit of at least one row | the drivers |
| `PoolAssumption` | finite sets of calls and clients; bounds are numbers | `PgPool` |
| `CallAssumption` | paths are sequences of names and not empty; calls are calls of an adapter | `AdapterCalls` |
| `RedisAssumption` | each call has a process; versions are numbers | `RedisCache` |
| `TestAssumption` | each test is in a suite, and no suite in itself | `TestRun` |
| `TestCaseAssumption` | rows of one result have the same columns, whose names differ (they are keys of an object) | `TestCommand` |
| `LexerAssumption` | at least one node may be open | `SqlxLexer` |
| `SessionAssumption` | parts of names, the databases and schemas that are given among them, are sequences, and files have names (`compilers.ts:131`); configs have their fields and queries are sequences of calls | `ProjectProofs` |
| `PublishAssumption` | finitely many keys; bounds are numbers; some session; projects are records of the six warehouses | `PublishTasks` |

Some theorems have hypotheses about the constants, each where the code does not
deliver the property otherwise; the instances of the runs satisfy them:

| Hypothesis | Says | Because |
|---|---|---|
| `PathsAreDistinct` | no two columns' paths join to the same name | BigQuery matches columns by joined paths |
| `MergesAreNotStopped` | no stops where Postgres or Redshift merge | a merge may be resumed in a session without its temporary table |
| `SqlDwHasNoViews` | no views in SQL Data Warehouse | finding 4 |
| `SqlDwHasNoKeys` | no unique keys in SQL Data Warehouse | it inserts without looking at them; `session.ts:654-663` refuses them only beside options of that warehouse |
| `AssertionsAreApart` | an action that is an assertion stays one | assertions have a schema of their own; one that had the name of a dataset would meet it |
| `PrestoHasNoDatasets` | no datasets in Presto | it creates tables only if there are none, and keeps old rows |
| `PlainQueries` | no query refers to an assertion that a table makes, makes a table inline or an inline table another; and if a query sets the type of a table, no later call on a builder makes a table inline | such an assertion may be made by a query that runs later: until then its name resolves to one in the default schema, while the dependency finds the assertion in the end. What refers to a table pastes its text or names it as the type is then |

| Theorem | Module | Property |
|---|---|---|
| `TypeCorrect` | `RunnerProofs` | `TypeOK` |
| `DependenciesComeFirst` | `RunnerProofs` | `DependenciesFirst` |
| `SkipsHaveCauses` | `RunnerProofs` | `SkipHasCause` |
| `SchemasComeFirst` | `RunnerProofs` | `SchemasBeforeActions` |
| `NothingIsLeftRunning` | `RunnerProofs` | `NothingLeftRunning` |
| `SuccessIsEarned` | `RunnerProofs` | `SuccessMeansTasksDone` |
| `ResultsAreFinal` | `RunnerProofs` | `ResultsFrozen` |
| `VerdictsAreTruthful` | `RunnerRefinement` | `VerdictTruthful` |
| `ImplementsTheDag` | `RunnerRefinement` | `RunsTheDag` |
| `TriesAreOrdered` | `RunnerRefinement` | `TasksTriedInOrder` |
| `RecordsErrSafely` | `RunCacheProofs` | `RecordsAreConservative` |
| `SkippedIsFresh` | `RunCacheProofs` | `SkipsAreFresh` |
| `UnchangedIsNotRun` | `RunCacheProofs` | `UnchangedIsSkipped` |
| `UndisturbedRunsDo` | `PublishProofs` | `UndisturbedRunsSucceed` (`MergesAreNotStopped`, `SqlDwHasNoViews`, `AssertionsAreApart`) |
| `AssertionsAreTruthful` | `PublishProofs` | `AssertionsTellTheTruth` (`AssertionsAreApart`) |
| `SuccessIsTheQuery` | `PublishProofs` | `SuccessGivesTheQuery` (`PrestoHasNoDatasets`) |
| `RowsAreKept` | `PublishProofs` | `RowsSurvive` (`MergesAreNotStopped`) |
| `KeysAreUnique` | `PublishProofs` | `OneRowPerKey` (`MergesAreNotStopped`, `SqlDwHasNoKeys`) |
| `BigQueryIsRight`, `SnowflakeIsRight`, `SqlDwIsRight` | `WarehouseProofs` | `HeardCancelIsFinal`, `ResultsAreWhole` |
| `PrestoIsRight` | `WarehouseProofs` | `HeardCancelIsFinal` |
| `ClientsServeOneCallback` | `WarehouseProofs` | `ClientsAreNotShared` |
| `ClientsComeBack` | `WarehouseProofs` | `NoClientIsLost` |
| `AnswersWereTrue` | `WarehouseProofs` | `MetadataWasTrue` (of Presto's fields only whether there are any) |
| `EveryQueryIsEvaluated` | `WarehouseProofs` | `EvaluationsMatch` |
| `DescriptionsAreWritten` | `WarehouseProofs` | `DescriptionsArrive` (`PathsAreDistinct`) |
| `NamesMeanTheSame` | `WarehouseProofs` | `TypesAgree` |
| `WarehousesAreRight` | `WarehouseProofs` | `WholeResults` and all of these for `MCWarehouse`'s composition (`PathsAreDistinct`) |
| `NothingIsLeftBehind` | `ServicesProofs` | `NothingOutlivesAQuery` |
| `GreenIsEarned` | `ServicesProofs` | `GreenMeansAllPassed` |
| `CacheIsNotNoticed` | `ServicesProofs` | `AnswersDespiteCache` |
| `VerdictsAreTables` | `ServicesProofs` | `TestVerdicts` |
| `ServicesAreRight` | `ServicesProofs` | these four for `MCServices`' composition |
| `SelectionsAreClosed` | `ProjectProofs` | `SelectionIsClosed` |
| `GraphsWithoutErrorsAreSound` | `ProjectProofs` | `CleanGraphsAreSound` |
| `AssertionsFollowTables` | `ProjectProofs` | `AssertionsFollowTheirTable` |
| `TextsNameDependencies` | `ProjectProofs` | `TextNamesDependencies` (`PlainQueries`) |
| `TreesAreTheCode` | `LexerProofs` | `TreeIsTheCode` |
| `TokensAdvance` | `LexerProofs` | |

So every safety property of the runs `runner`, `run_cache`, `publish`, `services`
and `warehouse` is proved, too; of `project`, all but the two on what compiled and
formatted SQLX means.

**Dependencies first** (`RunnerProofs`). The property alone is not inductive: an
action may be started because a name is in `succeeded`, and nothing in the
property says that such names are of actions that succeeded and stay so. `DepsInv`
adds

* `SucceededTrue`: names in `succeeded` belong to actions that did succeed;
* `PendingFresh`: what is pending has no successful entry, so a pass overwrites
  no success;
* `QueriesOfRunning`: only actions at a query or before it in their own chain
  have their status changed by the end of a task;
* `ExtraHasEntry`: second entries belong to actions that had a first one.

A pass preserves it because it starts only what `succeeded` allows
(`StartReadyDeps`, `PassDeps`); the end of a task or of an action changes only an
entry that is in progress, whose dependencies are successful and final
(`EndingStepDeps`); other steps change neither (`QuietStepDeps`).

**Results** (`RunnerProofs`). `ResultsInv` extends `DepsInv` by what an entry may
be at each place of its action's chain:

* `Entries`: status and tasks fit the program counter (`EntryOK`); in particular
  an entry that is `RUNNING` while nothing runs is a second entry or one that a
  stop left, and without a cancel an action that has left its loop has one result
  for each task. This is what makes a success mean something, and a resumption
  take up no finished action.
* `ExecutedEnded`, `NothingForgotten`: the sets of names agree with the entries.
  What has no entry is still pending, which is why nothing is lost when a pass
  partitions the pending actions.
* `PassedOver`: between two passes no pending action could start. The end of an
  action makes a pass, so this is preserved although `succeeded` grows.
* `VerdictLast`, `Flags`, `SchemasFirst`, and the property `SkipHasCause`.

Each step has one of four shapes: `Quiet` (names, results and program counters
stay), `Advance(a)` (one action goes on), `Sweep` (a pass: each action is kept,
skipped or started) and `Restart` (a resumption). Lemmas show that each shape
preserves `ResultsInv` and freezes what was final, and that each action of
`Next` has one of the shapes.

**Verdicts and refinement** (`RunnerRefinement`). That a run which saw no failure
executed everything needs `AcyclicAssumption`: of the actions that did not succeed
one waits for none of them, and by `PassedOver` a pass would have started it
(`AllSucceed`). With `VerdictTruthful` added to the invariant, initial states map to
initial states of `DagExecution`, and each shape to one of its steps or a stutter.

**Tries** (`RunnerRefinement`). `TriesInv` counts the statements sent for the task under
way: as many as there were attempts. Counts of appended sequences come from the
library's facts about finite sets.

**Run cache** (`RunCacheProofs`). The code's recursion over views is the least
closed set (`InputsAreSeen`): both satisfy the same equation, and among the
actions on which two solutions differ one would depend on none of them. `CacheInv`
then relates timestamps of different ages:

* `Times`: a timestamp is never ahead of the contents it stands for nor of the
  clock, and only a streaming buffer keeps it behind;
* `Recorded`: what an action recorded of its inputs is no newer than what its
  query reads, then than what it has read, by the tasks of this run, into a dataset of
  its type;
* `Knowledge`: the runner's copy is true of tables that were not executed yet,
  and of the others no older than what counts for this run, unless the run was
  resumed, where finding 3 breaks it;
* `RecordsAreConservative` itself, which a write by anybody keeps because the
  write takes a timestamp that no record has.

A skip compares equal timestamps, so by these the contents are fresh. The
record's tasks are those of the dataset's `basis`, so equal tasks mean that it would be
written the same way.

For `UnchangedIsSkipped`, `CalmInv` adds what is known while a run of everything has
met no disturbance (`Trying`: inputs of what was taken up are recorded and will
not be written again) and after it (`Steady`: each steady action is `Recognized`, its
record is about what the warehouse holds and has the tasks that a run would make). Steady
actions read only steady actions and declared tables (`SettledReads`, `SteadyReads`), so
no step of another action, of a stop or of a resumption touches what makes them
recognizable (`StaysRecognized`), and what is recognized is skipped (`SteadySkips`).

**Tasks** (`PublishProofs`). The invariants follow a run through its statements.
`Plan` says that what is left to execute is what `publishTasks()` makes of the
type, the refresh and the dataset found; `Written` counts the statements that write,
so that the others can say what holds before each. `Ways` tells the seven forms
such statements have, `StatementIs` which statement comes at each place, and
`EffectAt` what it leaves of each object.

* `Transactions`, `Apart`: only the session of a merge has a transaction open,
  from its third statement to its sixth; the temporary objects are never views.
  With these, what others see is known in every state (`SeenNow`).
* `Prepared`: before each statement of an undisturbed run, its objects are of the
  kind it needs. It does not mention earlier runs: whatever they left, `build()`
  finds the kind of the target and the first statements remove the rest
  (`Prepares`), so that the warehouse has nothing to refuse (`NothingRefused`).
* `Contents`: what a run that is not stopped has written so far: the rebuilt table
  beside the old one, the session's new rows, or the result.
* `Kept` and `Unique`: between `begin` and `end` every key others see is in the target
  or in the session's table, and after the `delete` in one of them only.
* `AssertionPrepared`: the same for an assertion's view.

`SuccessIsTheQuery` and `RowsAreKept` are action properties: the invariants give
the state before the step, `SeenNext` what others see after it.

**Drivers** (`WarehouseProofs`). One invariant for each. All count what was seen of a
result (`Counted`), and say where the call is while the promise is pending. They
differ in what makes a cancel final: BigQuery looks at no attempt after its flag
is set; Snowflake rejects only when the warehouse answers, so a cancelled statement
that is pending has been stopped and still waits for "complete"; in SQL Data
Warehouse it was not sent or can only end with an error; Presto's client polls no
more. Each theorem is about a driver's own `Next`; `WarehousesAreRight` is about
`MCWarehouse`'s choice of one of them, or of the pool, or of a call.

**Pool.** A client that is out has a call that holds it, and only one. A release by
an error closes the client, so the second release at the lock's end finds nothing
to give back.

**Calls.** `MetadataInv`: each answer was true of a state during the call, and what
the present stage needs is answered or on its way. `EvaluationInv`: which queries
were sent when a stage begins. `DescriptionInv`: as long as nobody else changes the
dataset, answers are what it is now, requests on their way describe only what was
asked for (`Fits`), and each description that is wanted is there or on its way
(`Brings`); so requests may arrive in any order, although BigQuery writes whole
schemas.

**Services** (`ServicesProofs`). *Query:* the statement runs exactly while the promise
waits for it; a handler is registered only before a cancel; one that was called
has stopped the statement. *Tests:* `SuiteOK`: a suite that is over has run its
parts or has a failed hook on record; `TestOK`: a test that is over has a failure on
record, or its last attempt has passed. Late ends of attempts only add results.
*Cache:* each command on a wire belongs to one call that waits for it
(`WiresOK`), what is in Redis or on its way there was calculated (`Left`), and a
race ends with its first value or when both have failed (`GetOK`). *Unit tests:*
`SameColumns`, which looks for each column of one side on the other, is equality of
the sets of names because both have as many (`ColumnsCorrespond`).

**Session** (`ProjectProofs`). A graph without errors has been through every phase
without one, so `SessionInv` says for each phase what those before it have made:

* while actions are defined and compiled, `Sound`: whatever was called in whatever
  order, an assertion that a table made refers to the table (`MadeBy`), is disabled
  with it and has its name, if it was not moved. The lemmas on configs and calls
  (`AddedTo` to `Went`) show it for one call and then, call by call, for a query
  (`QueryRounds`); what one action's query leaves of the others is what `Extends`
  and `Went` say, so assertions may be compiled after their tables.
* `Referred`: such an assertion, once compiled, depends on its parent; compiled or
  thrown are all actions when `compile()` goes on, and what was thrown is an error.
* `Aimed`: qualified dependencies are targets of one action each, which is not
  inline (`QualifiedAreTargets`). `Waited`: an assertion still depends on its table
  (`QualifiedKeeps`), which an ambiguous name would undo; then there is an error.
* `Resolved` and `Followed`: the same with the new names. Where two targets are one
  their new names are, too, so that what was found by a name still is.
* `Unique`, and no action is `Cyclic`: what the checks leave when they find nothing.
  A circle would be found: of the actions in it one reaches the fewest, reaches just
  what another of them reaches, and so is reached by it (`NoCircle`). This needs
  what an action reaches to be the least closed set (`LeadsTo`): a set that is not
  closed grows in every round, and there are as many rounds as actions.

**Texts** (`ProjectProofs`). `TextInv`, beside `SessionInv`, says for each phase what the
texts are made of:

* while actions are defined, there are no texts, and queries are `Plain`: they are
  as `PlainQueries` says, or they are those of the assertions that tables make. A call
  that says nothing leaves texts, queries and types as they are (`Calm`).
* while queries run and until names are qualified, `Explained`: each reference in a
  text comes from a dependency of its action (`Explains`): if one action alone is
  found by that dependency, the reference is its final name, or, where it is an inline
  table, a text whose references the table's text has, too. An action that is added
  later does not undo this, because its name is an assertion's and no `ref()` has
  been to it before (`ExplainsStill`).
* then `Attributed`: the references of a text, and those in the texts in it, are
  within a set each of whose names is the final name of a dependency
  (`TextIsAttributed`). Errors apart, each of the names gone through finds one
  action, and what is gone through is closed under going through inline tables
  (`ExpandedIsClosed`): a round that adds anything has come to another inline table,
  and there are no more of them than actions.
* then `Told`: those names are dependencies. Renaming gives a dependency the name
  that `ref()` has foretold: that with the affixes, or a declaration's own.

`Named`, which follows texts in texts as often as there are actions, stays within any
set that is closed (`NamedAreInside`). TLC has checked `TextInv` on the instance of
`project` before it was proved, and checks `PlainQueries` of that instance.

**Selection** (`ProjectProofs`). In the middle of a walk (`Walking`) nothing is included
that a closed set could do without, and what leads out of the set is still in
the queue; so when the queue is empty the set is the least closed one, whatever
the order in which names were taken (`WalkTurns`, `WalkEnds`). The second walk begins
with the result of the first. There are finitely many names because actions are
compiled one at a time, and the graph stays as it is once it is compiled.

**Types** (`WarehouseProofs`). A name that several adapters know is one primitive
everywhere (`PrimitiveOf`); each conversion, name by name, gives that one, "UNKNOWN"
or, before a column is read, nothing (`Agrees`), so two that are known agree.

**Syntax trees** (`LexerProofs`). `LexInv` says of a file that is half read:

* `Texted`: what the open nodes hold, from the root on, is the code before the
  lexer. Adding a text or a whole node, opening a node and closing one each append
  the code of the token (`Added`, `Started`, `Ended`), also where `push()` joins two
  texts (`PushConcatenates`), because what `concatenate()` gives of a list is what
  it gives of its parts, in order (`TextedAppend`).
* `Stack`: the k-th open node is a tree that may be put into the one before it.
  `concatenate()` of a tree does not depend on how deep the tree is taken to be
  (`TreesConcatenate`), so all depths up to `MaxNesting`, any number, are one.
* `Nested`: there is one open node for each state but those of template strings,
  and its type is one of that state's; only the first state is `"sql"`. So a node
  can be closed only when it is not the root, and a block of SQL begins only in it.

What the tokens may do (`Allowed`) is shown rule by rule: each has a symbol at least,
none goes beyond the code, and those that begin a node push a state of its type, and
those that end one pop it (`TokensAllowed`). The prover cannot instantiate the
library's induction, so each recursive function is followed by the least number for
which it would not be what its equation says (`FlatRounds`, `TreesRounds`,
`ConcatenationRounds`, `TreeRounds`). `TreesAreTheCode` is about `LexSpec`, files of
any symbols and any length; in `Sqlx`, each step that changes the code or the lexer is
`LexStep` (`ReadToken`) or a `NextFile` (`FormatFile`).

Only model-checked:

* liveness, which with ENABLED is beyond the prover; `SshTunnel` has a liveness
  property only;
* `StatementsEvaluate` and `FormattingKeepsMeaning`, which lex what was compiled or
  formatted once more, with operators that are recursive over its symbols
  (`LexFrom`, `EvaluateFrom`); the prover does without `RECURSIVE`.

## Findings

Each is a run that TLC finds violated; `PROJECT.json` quotes what is promised.

1. *Skips are not passed on* (`runner_skip_lost`, `run.ts:290`). Skipped actions are
   never added to `executedActionNames`, so actions that wait for them are neither
   executable nor skippable: in a chain a, b, c with a failing, c has no result at
   all. A resumed runner does count skipped actions as executed.
2. *Cancelled actions are reported successful* (`runner_cancel_skips`, `run.ts:420`).
   An action that finds the run cancelled at the head of its loop marks its tasks
   `SKIPPED`, keeps its own status `RUNNING` and is then set to `SUCCESSFUL`.
3. *Resumed runs decide on old timestamps* (`cache_resumed`, `run.ts:80`). A resumed
   runner starts from the graph's warehouse state, so an action whose input was
   rebuilt before the stop is cache-skipped.
4. *A table does not become a view in SQL Data Warehouse* (`publish_sqldw_view`,
   `core/adapters/sqldatawarehouse.ts:102`). The table is dropped, then the view altered, because
   metadata was found.
5. *The lookup's error wins* (`redis_error`, `redis/client.ts:104`). `promiseAny()`
   throws the error that came last, not the first promise's.

Because of 1, `VerdictTruthful` and `DagExecution` speak of the results that
exist; because of 2, `SuccessMeansTasksDone` is about runs that were never
cancelled and `DagExecution` lets an aborted run end in success; because of 3,
`SkipsAreFresh` is about runs that were not resumed; because of 4, `publish` has no
views in SQL Data Warehouse.

### Known deviations

Noticed while modelling. The models follow the code in all of them; where that
would break a property, the property or the instance leaves the case out, as
said here.

*Executor.* Cancelled queries of tasks that may be repeated are retried
(`run.ts:444`), and the new attempt's handler is registered after the cancel
(447). The timer may fire between an action's end and the verdict (132). A stopped
action that is cache-skipped on resumption has two entries (340). A negative
`idempotentActionRetries` makes no attempt at all (451); the models take natural
numbers. The last change before a pause is not notified (159).

*Run cache.* A table may be read through a view that was not selected. Then there is
no order between the rebuilding of the table and the actions that read the view:
such an action may be cache-skipped while its input is being rebuilt
(`run.ts:526`, 263; `InProgress` leaves these inputs out).
Unmodified datasets are run again: `configuration.md:99` promises that the cache
does not run a dataset whose definition and dependencies are unmodified. But it
compares tasks, too (`run.ts:498`), which are made from the dataset found at build
time (`build.ts:118-120`, `bigquery.ts:26-56`, `snowflake.ts:28-56`). The run that
creates an incremental table records 'create or replace', the next one makes an
insert or merge, finds it different and executes it; and a dataset that replaced one
of the other type had a drop among its tasks, which the next run does not make. The
model does the same (`PublishTasks`, `SameExecutionAction`), and `UnchangedIsSkipped`
is about the actions whose tasks, and those of all they read, would be made the same
again (`Settled`). The project's setting decides what is learned after an action
(`run.ts:403`), the run's whether it may be skipped (476); the model has both on.

*Tasks.* SQL Data Warehouse inserts without looking at the unique key, so its
projects have none. Presto's create-if-not-exists keeps the
old rows, so Presto is not an instance of `publish`. Redshift's merge is several
tasks on one session: resumed in another session it misses its temporary table,
so these projects are not stopped. Operations become tasks of type `statement`
and are repeated.

*Drivers and calls.* Presto resolves at the first page and takes it for one row
(`presto.ts:68-71`; `WholeResults` leaves Presto out). Its `table()` therefore reads a
page of columns as one column, against its own comment that "columns are structured
[column name, type (primitive), extra, comment]" (176): a dataset with columns has one
field, named by the first of them and described by the fourth, if there is one
(`PrestoTable`). `MetadataWasTrue` only demands of these fields that there are some when
the dataset has columns. A retry on a Postgres client that an error closed always fails. SQL Data
Warehouse's `evaluate()` pairs results with the wrong queries when one is empty
(`api/dbadapters/sqldatawarehouse.ts:95`, 98;
`EvaluationsMatch` leaves it out). BigQuery compares
column paths joined without a separator (`addDescriptionToMetadata`), so `a`/`bc`
and `ab`/`c` collide; the paths of the instance do not. `table()` may combine two
states of a dataset. Postgres' `setMetadata` on a missing table fails after it sent a
comment; `search()` can return null entries.

*Session.* An inline table defined after its user gives empty text (the TODO at
`session.ts:229`). Inline tables that lead to each other are expanded for ever
(`phase = "endless"`). A query that throws, with affixes, makes `compile()` throw.
`schema()` or `database()` after `assertions()`, or in a query, leaves assertions
with an old parent (`moved` leaves these out of the properties). A second
`assertions()` overwrites the row conditions. `database()` gives the canonical target
the overridden default schema. Tests of one name replace each other. `toResolvable`
reverses its argument in place (`utils.ts:115`). Pre-operations called in an
incremental query are added twice. With both flags, `prune()` does not include the
other dependencies of dependents.

*SQLX.* `${` in a double-quoted string is no placeholder (`lexer.ts:366`); an escaped
`\${` needs a backtick after it (306). A backslash before a backtick, or `\u`, in a
comment breaks the template string; comments with backslashes are left out of
`StatementsEvaluate`. `format.ts:243` interprets `$` patterns in replacements. A block
that is not closed loses its last character; unclosed comments are left out of the
texts. Formatting trims lines inside strings and comments and collapses blank
lines, which is whitespace, hence not seen by `FormattingKeepsMeaning`. Of several
config, pre- or post-operations blocks the last wins.

*Services.* A write-back of the cache can re-install a value after `invalidate()` and
renews its time to live; the callbacks for hit and miss are swapped; without
callbacks every lookup throws and the cache never answers; a forced `get()` rejects
when Redis is down. A failed set-up of a test suite only leaves its tests out
(`suite.ts:95`); a passed retry does not erase failed hooks of earlier attempts;
timed-out attempts go on. A failed `create()` of the tunnel leaves its server
listening, and sockets accepted before it is ready can hold `close()` for ever
(`ServicesSettle` leaves these out: `Untracked`). `dataform test` compares results
that were cut at a megabyte.

## Not modelled

* *Executor:* wording, timing, throttled notifications.
* *Run cache:* what was compiled of an action is a version number, and the columns
  in inserts and merges are left out; operations and assertions, whose tasks do not
  depend on the warehouse, behave like datasets without an incremental query; views without
  a timestamp and failed lookups are one case; a cache that is on in the project or
  for the run only.
* *Compilation:* `checkDataformJsonValidity`, a check of one file's text; the
  virtual machine; what column descriptors contain; self-dependencies, which the graph library
  decides.
* *Promise utilities:* `runWithTimeout()` and sleeping, which nothing modelled calls.
* *Adapters:* `error_parsing.ts`, which finds line numbers in the text of errors; byte
  limits, which act as row limits do.
* *SQLX:* the older `.sql` files (one regular expression), stand-alone queries,
  what js-beautify and sql-formatter do to whitespace.
* *Other commands:* single sequences of file or adapter calls without state.
* *Command line:* parsing and printing; its SIGINT handler and its use of
  `result()` are the environment of `Runner`.
* *Strings, protos and errors:* pure conversions; targets are model values.
* *Server, web application, proxy, editor extension:* request plumbing and user
  interface.
* *Generators, build and deployment tools, examples, documentation sites.*
