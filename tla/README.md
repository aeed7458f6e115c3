# Releem agent: formal models, checks and proofs

This directory holds TLA+ models of the Releem agent (the Go program in the root of the
repository), TLC configurations that check them on small instances, and TLAPS proofs.
Line numbers and file names below are relative to the repository root.

## The system

The agent is one process. `main.go` loads the configuration, opens the database, builds
lists of gatherers and starts `metrics.RunWorker`, a `select` loop over timers. Every tick
re-arms its timer and starts a goroutine, so collections overlap each other and the tasks
the server sends. There is one mutex per shared object and no global lock.

| Component | State | Operations | Interacts with | What is hard, and what makes it correct |
|---|---|---|---|---|
| Database connection pool, `utils/database_connection_pool.go` | map and LRU list of entries; reference count, evicted, pinned; closed | Acquire, Pin, release, Close | every PostgreSQL gatherer, EXPLAIN state, main | connects happen outside the mutex; eviction of handles in use; Close against late arrivals. A leased handle stays open, nothing leaks, nothing is closed twice |
| EXPLAIN collection state, `utils/explain_collection_state.go` | attempted keys, failed databases, current lease, pinned session and its default schema | Connection, Session, ResetSession, TryBeginAttempt, Close | pool, query collectors | a session that is replaced under a `USE`; retries. EXPLAIN runs in the query's schema, no text of it more than twice per pass, within quota |
| Snapshot caches, `utils/cache/cache.go`, `metrics/tablesize/` | snapshot, expiry, refresh mutex | GetOrRefresh, Peek | table size gatherers of the configuration and the metrics loops | time read before the lock, refresh errors, size categories. No stale value after expiry unless the refresh failed; Peek never waits |
| PostgreSQL capabilities, `metrics/postgresql/capabilities.go` | resolved capabilities, version | Resolve, Invalidate | query collectors | double-checked locking against invalidation |
| Worker loop, `metrics/runner.go` | timers, configuration result channel | ticks, one-shot modes, termination | gatherers, repeaters, tasks | overlapping goroutines, panics, termination, one result per one-shot run |
| Tasks, `tasks/tasks.go` | server-side task and status | ProcessTask: get, start, execute, final status | worker, repeaters, executors | a lost response, a panic, a crash between start and final status. A success is earned, and whatever was started reports its end or dies with the process |
| Local configuration apply, `tasks/task_apply_local.go`, `tasks/utils.go`, `releem.sh` | staging file, live file, `.bkp` file, server | download, automatic and manual apply, rollback | server, the daemon's own configuration download | two processes write one staging file; a crash or failed restart between backup and restore. Until the next attempt overwrites the only backup, the replaced file survives and a rollback brings it back; what is installed is a whole file |
| AWS RDS apply, `tasks/task_apply_aws.go`, `awsrds/` | parameter groups, instance and cluster status | plan, modify in batches of 20, wait, audit | RDS API | partial batches, time-outs, instances that change under the plan |
| Google Cloud SQL and Azure apply, `tasks/task_apply_gcp.go`, `tasks/task_apply_azure.go` | flags and parameters of the server | read, merge, patch, wait, restart | cloud APIs | flags that must not be lost; operations with no deadline |
| Schema changes, `tasks/tasks.go`, `task-automator/pkg/phase2/` | table, scratch copy, backup, session settings | validate, back up, online DDL or pt-online-schema-change | MySQL, external tools | a connection lost in the middle of DDL; clean-up on every path; several statements of which one fails |
| Query EXPLAIN tasks, `tasks/task_custom_QO.go` | one query | EXPLAIN and report | tasks | time-outs |
| Gatherers, `metrics/mysql/`, `metrics/postgresql/`, `metrics/system/` | none between passes, but for caches | collect | databases, cloud APIs | a section that fails must not discard the others |
| Repeater, `repeater/` | none | HTTP requests | releem server | time-outs, empty bodies |
| Configuration file, installers, service wrapper | files | load, install | operating system | input and output only |

Memory: everything but files, the server's tasks and the databases is lost when the process
ends. There is no local journal.

## Modules

| Module | Models | Composition |
|---|---|---|
| `HandleLease` | what any pool of handles promises | abstract specification |
| `ConnectionPool` | the pool | implements `HandleLease` (`Lease == INSTANCE ...`, `ImplementsHandleLease`) |
| `TaskLifecycle` | hand-over of tasks, ProcessTask, all handlers as steps | the applying steps stand for `ConfigApply`, `CloudApply` and `SchemaChange` |
| `ConfigApply` | files and server under releem.sh, the task's download, the daemon's download | |
| `ExplainPass` | both rankings of a collection pass, MySQL session, PostgreSQL lease | uses leases as `HandleLease` promises them |
| `SnapshotCache` | cache and table-size policy | |
| `OrderedChanges` | what a task of several table changes promises | abstract specification |
| `SchemaChange` | a task of type 6, from its payload to its last statement | implements `OrderedChanges` (`Ordered == INSTANCE ...`, `ImplementsOrderedChanges`) |
| `CloudProvider` | a managed database and the state of a task on it | the part shared by the next three |
| `AwsApply`, `GcpApply`, `AzureApply` | the three handlers of configuration tasks | each EXTENDS `CloudProvider` |
| `CloudApply` | the agent's switch over the provider, two tasks in a row | EXTENDS the three handlers |
| `Capabilities` | the cache of what pg_stat_statements looks like | |
| `WorkerLoop` | command line, select loop, collections, exit code | EXTENDS `Capabilities`: collections of a PostgreSQL server use it |
| `*Proofs` | theorems and proofs of the module they are named after | EXTENDS it and TLAPS |
| `MC*` | constants for TLC | EXTENDS it |

Operators whose comment starts with "Broken" or "Mutant" are wrong versions of the definition
that follows them. They are used by no specification; put in place of it they show that a
property notices.

### ConnectionPool

Each section of the code under `pool.mu` is one action: `AcquireHit` and `AcquireMiss` are the
first section of Acquire, `ConnectedClosed`, `ConnectedLate` and `ConnectedFirst` the second,
`MarkPinned` and `ReleasePin` the rest of Pin, `Release` the release function, `ClosePool`
Close. `connect()` runs between them, in any order and for any time (`ConnectFails`,
`ConnectSucceeds`). An entry of the pool wraps one handle, so entry fields are functions of
the handle; `order` is the LRU list as a relation. `Spec` lets everybody do everything at any
time, `AgentSpec` starts gatherers after Pin has returned, as `main.go` does. Fairness: a
connect returns because it has a timeout, a goroutine goes on to its next section, and every
user defers its release. Nobody is obliged to call Acquire or Close.

### TaskLifecycle

A run is one goroutine of ProcessTask; `Runs` bounds how many overlap. `heard` is what the
server knows, `late` the status requests that were given up and may still arrive, in any
order. `FirstStep` is the switch over the task type, each handler one or more steps with the
exit codes and statuses of the code, and `did` records which effects the run's own requests
and commands had, so that a property can compare them with the reported status. `Crash` ends
the process at any step. `FairSpec` assumes that each run goes on: HTTP requests time out
after ten minutes and releem.sh bounds its waits by 1200 seconds; that a cloud operation or a
DDL statement ends is assumed of the service.

### ConfigApply

`staging`, `live`, `bkp` are the three files, `server` what the server loaded last. Writing
and copying take two steps, the first of which leaves the file `Torn`; copies may fail half
way and `Kill` may end releem.sh anywhere. Runs follow each other; the daemon's own download
(`GenerateBegin`, `GenerateEnd`) interleaves with them. `run.before` is the file a rollback is
due to bring back and `run.marks` what went wrong since the last success; both are history
that the properties need and no guard reads.

### ExplainPass

The MySQL half models `Session`, `useExplainSchema` and the two attempts of an EXPLAIN on one
connection that the server may drop at any time (`Drop`); `selected` is the schema the agent
remembers, `conn.db` the one the server has. `ExecuteExplain` tries three texts (`text`: the
statement, then with single quotes and with backquotes for double ones): a denied permission or a plan
ends it (`Executed`), any other error, the loss of the connection included, leads to the next text
(`Respell`), and a connection that is still lost at the last one to the retry (`ExecuteLost`). The
texts count as three also when the statement has no double quote, as the code sends them then too;
`sent` counts the EXPLAINs issued for each text, on a lost connection too.
The PostgreSQL half models the lease, the prepared EXPLAIN with its deferred clean-up, and the
fallback without PREPARE; `conn.left` is what the session carries. Both share the rankings, the quota, attempted keys and failed
databases. A plan is the database it was made in. Digests are those that pass the text
filters. Fairness: the pass is one goroutine and each command ends with an answer or with the
loss of the connection.

### SnapshotCache

Each call is `Call` (the time is read), `Enter` (under `refreshMu`: reuse, or start a refresh)
and one of `Succeed`, `Fail`, `Panic`; a minute report is `Look` and `Peek`. A snapshot has
the serial number of its refresh, so that order is a comparison of numbers. `Eligible` is the
policy in arithmetic of `0..MaxUint`. Fairness: a goroutine that can peek does, and a Go mutex
that becomes free again and again goes to each waiter (its starvation mode); nothing is
assumed of the end of a refresh, and `CallsEnd` has it as its premise.

### SchemaChange

One statement after the other goes through `Check`, `Validate`, `CheckCapacity`, the backup
(`PrepareBackup`, then `Dump`, or `Copy` and `Prepare`) and `ChooseMethod`; then either the
session (`Pin` to the release of the connection: shortened `lock_wait_timeout`, clone, preflight
on the clone, production DDL, and the deferred clean-up in its order) or pt-online-schema-change
(`dryrun`, `execute`), also as the fallback from the first to the second. A command is answered
(`Answers`), refused (`Refuses`) or loses its connection (`Loses`); after a loss the database may
still carry out what it was sent (`pending`). `place` and `wait` say of each connection of
`models.DB` whether it is in the pool, lent or pinned, and which lock wait timeout it has. A
statement is a record of what the scanners of the SQL text find; `BuildOnlineDDL`, `BuildPTOSC` and
`PlanIsValid` decide on it as the code does. `applied` counts how often a change took effect.
`doubtful` is history. `OrderedChanges` is the promise in four variables: changes are made in
order, each begun when the one before it is known to be made, and after a failure only the one
that failed is in doubt. A change that was applied twice is none of the abstract changes, so that
the refinement includes that each is made once at most. Fairness: the run is one goroutine and its
commands, queries and tools end; what other goroutines and the database do on their own is free.

### CloudProvider, AwsApply, GcpApply, AzureApply, CloudApply

A parameter has the value the provider stores, the one its API shows and the one the database
runs with. The provider's side (`Propagate`, `Settle`, `OperationEnds`, `Reboot`,
`OperatorEdits`) is external, modelled from what the handlers read and wait for. The agent's side:
`AwsDiscover`, the two listings, `BuildApplyPlan` with `Route` and `BuildScopeParameter`,
`AwsModify` in batches with the scopes in turn, and the wait (`AwsObserve`, `AwsDescribe`, `AwsSleep`,
`Deadline`); for Google reading, filtering and merging the flags, the patch of the whole list
and the wait; for Azure listing, batch update, wait, and the restart by the agent. Each call may
fail before or after it took effect. `accepted`, `quiet` and `touched` are history: what the
provider took from this task, whether nothing was in flight when the task looked, and which flags
were edited by hand after it looked.

### Capabilities and WorkerLoop

`Resolve` and `Lock` are the two halves of the double-checked locking, `Lookup` and
`InspectColumns` the detection under the write lock, `Query` what a collector makes of its
snapshot, `Invalidate` the drop of the cache; `Change` moves, upgrades or drops the extension.
A snapshot is `old` once the cache was invalidated after its detection began. `WorkerLoop` starts at
the command line (`Launch`, with `SelectedMode` and `RunsOneShot` decided apart, as in `main.go`),
enters the select loop (`Tick`, `Signal`, `Terminate`, `TakeResult`) and runs each collection as a job with
its steps; `err` is the error its deferred send would report, `asked` and `seen` say what the
collection knew of sample queries. `exit` is the exit code.

## Runs

| Run | Instance and bounds | Shows |
|---|---|---|
| `pool_agent` | main and 2 gatherers, 3 databases, 4 handles, limit 2 | nothing leaks, the pinned handle lives until Close, the limit holds, Close drains, `HandleLease` is implemented |
| `task_agents` | 2 runs of one task of seven types, local with DDL and RDS without | reports match effects; every run reports or dies with the process |
| `task_gcp_panic` | violation: 1 run on Cloud SQL | a panic skips the final status |
| `config_apply` | 3 contents | the replaced file survives and is restored; the selected one is applied |
| `config_torn` | violation | a torn staging file is installed |
| `config_restore` | violation | a torn backup replaces an intact file |
| `explain_pass` | 3 statements (2 siblings), 2 databases, quota 1, both engines | plans in their databases, no text EXPLAINed a third time (six EXPLAINs of a MySQL statement at most), one dropped connection is no loss, nothing leaks, every statement answered (siblings alike) |
| `snapshot_cache` | 2 goroutines, 3 kinds of input, 2 summaries, 4 instants, 3 refreshes | freshness, order, shared refreshes, exact category; calls end and Peek never waits |
| `schema_change` | tasks of 0 to 3 statements, 21 variants of one statement, 4 machines, 2 connections | `OrderedChanges` is implemented; backups first, allowed methods only, sessions and clones cleaned up or reported |
| `schema_mismatch` | violation: the same instance | a payload with two schema names is executed |
| `cloud_apply` | 2 parameters, every pair of 14 kinds; 5 topologies at AWS; batches of 1; 2 tasks, 1 restart and 1 edit by hand | success means values in use, all that was modified is in the result, only own groups and recommended parameters change, dynamic mode never needs a restart if nothing was in flight, tasks at AWS end if each API call answers |
| `worker` | every command line, both engines, 2 collections at a time, 1 change of the extension | an accepted collection exits with 0, and code 0 without one follows only a signal or a panic at start-up; one-shot runs and signalled runs end, samples reach the report, the cache heals and keeps nothing invalidated |

Why the bounds suffice. Pool: two gatherers already meet at the mutex, and with main's pinned
entry the third database makes eviction hit a handle in use while another connects; handles are
used once, so four leave room for a reconnect. Tasks: runs interact only through the server's
status, so two on one task cover every order. Configurations: three contents tell the replaced,
the selected and the generated file apart. EXPLAIN: quota 1 and three statements let a ranking
stop early, hit a sibling and change the database; a connection may be lost at each text of each round
and in each `USE`. Cache: a third refresh lets an older one end between two others; words of 3 bits and
factors of 3 overflow. Schema changes: what one statement leaves to the next is the pool, the free
space and the result, so that pairs, and one triple, show it; a second connection is what another
goroutine may be lent. Each variant is what one decision of the code looks at. Cloud: parameters
meet in the batches, in the two scopes and in what waits for a restart, so that pairs cover it;
batches of 1 make two parameters two batches; the second task is the retry. Worker: the loop
keeps nothing per collection, and two of them race for the lock, for the channel and for the
sample map; each later change of the extension starts from what the first one left.

Bounds in guards: `MaxClock` and `MaxRefreshes` (SnapshotCache), the saturating counters `drops` (2)
and `sent` (3) of ExplainPass, `MaxTasks`, `MaxEdits` and `MaxReboots` (CloudProvider), `MaxChanges`
(Capabilities). Runs whose configuration allows deadlock are those in which everything may end:
pools that are closed or out of handles, passes and tasks that are over, clocks at their bound,
a process that has exited.

No run checks a type invariant: types are proved for all values of the constants (below). What a
bounded instance shows besides is stated by the properties of the runs.

Fairness, and why the code justifies it. A goroutine that can take its next step takes it (the
Go scheduler is fair to runnable goroutines; a mutex that becomes free again and again goes to
each waiter, its starvation mode; select chooses among ready cases at random and so does not pass
over one for ever). Connects, HTTP requests and waits of releem.sh have time-outs. Beyond
that: `SchemaChange` assumes that statements and tools end, `CloudApply` that the agent goes on, that
each call to the provider answers with a result or an error (the calls before the AWS wait have no
deadline) and that the timer of the AWS wait fires; that a change ever
takes effect is not assumed. `WorkerLoop` assumes that `GenerateTimer` fires and that each step of a collection ends; `SnapshotCache` assumes nothing of
the end of a refresh, and `CallsEnd` has it as its premise.

## What is proved

TLAPS proves for every value of the constants, under the assumptions named in the modules
(`PoolAssumption`, `TypesAssumption`, ...): they say that sets are disjoint or finite and numbers
natural, lifetimes positive (configuration defaults replace others), values that stand for
"none" different from the rest, and, for SnapshotCache, that `MaxUint` is any natural number.
`KindsAssumption` of CloudProvider also says that a parameter no group holds has no stored value.
Every safety invariant and action property of the passing runs is a theorem, and so are both
refinements.

- `ConnectionPoolProofs`: `TypeCorrect`, `InUseStaysOpen`, `NothingLeaks`,
  `NothingClosedTwice`, `SharedPerDatabase`. The invariant (`InductiveInvariant`) ties map,
  list and entries together, equates `refs` with the number of lessees, and says of each
  handle whether it is unknown, connected, pooled, evicted and in use, or closed once. None of
  the properties is inductive without the equation of counts and lessees. `LimitKept` shows that
  `evictOverLimit` always finds an entry to evict while the pool is over its limit; the oldest entry
  exists because positions in the list are natural numbers (`LeastNatural`, from the library's
  well-founded induction). `LeasesImplemented` is the refinement of `HandleLease`: the lessee of a
  handle is the caller whose release is due, and every section under `pool.mu` is a step of the
  lease or none. `PinnedStaysOpen` is about `AgentSpec` and assumes one pinner: `main.run` has the
  only call of Pin (`main.go:260`). With two callers in Pin and a limit of one TLC finds it false,
  because the other caller's insertion evicts the entry before it is marked.
- `TaskLifecycleProofs`: `TaskTypes`, `SuccessEarned`, `RollBackNeverHides`, `FetchedFirst`.
  The invariant (`TaskInvariant`) gives, for each step of a run, the effects it must have had
  by then; the theorems hold for any number of tasks and runs and any exit codes of commands.
- `ConfigApplyProofs`: `ConfigTypes`, `FailureKeepsPrevious`, `RollBackRestoresReplaced`. The
  invariant (`ConfigInvariant`) says at each step of releem.sh which of `live` and `bkp` is known to
  be the replaced file. `TaskAppliesItsSelection` follows the selected file from the staging file to
  the live one (`Selected`), while nobody else writes the staging file.
- `ExplainPassProofs`: `TypeCorrect`, `PlansInTheirDatabase`, `SessionsStayClean`,
  `LeasesGivenBack`. The invariant `Sound` relates remembered schema and connection (MySQL), lease,
  connection and statement (PostgreSQL), and bounds at each step what is left to undo. `Tracked` adds
  what the pass has done: `SentTracked` counts the EXPLAINs of each text against the step, the
  text and the round (`NoThirdExplain`); `DropsTracked` charges every retry of MySQL, and a loss it has not
  noticed, to a dropped connection of its own (`OneDropIsNotALoss`, an action property); `Told` says
  that an attempted key has a result or its database is out, and that a visited statement is answered
  or its sibling is, across the change of ranking (`NoneForgotten`). `EveryStepAdvances` is the
  safety half of `PassEnds`: each step goes to the next ranking, to a statement fewer, or lowers
  `StepsLeft`, and a dropped connection sets nothing back; what it leaves to TLC is that a step is
  always enabled, and fairness.
- `SnapshotCacheProofs`: `CacheTypes`, `PolicyIsExact` (from a lemma on quotients, for any
  word size), `LifetimesEarned`, and three action properties, `FreshIsFresh`,
  `SizesMoveForward`, `RefreshesAreShared`, from the invariant that refreshes are numbered in
  the order of the mutex.
- `SchemaChangeProofs`: `TypeCorrect`, `OnceEach`, `BackupsComeFirst`, `PoolKeepsTimeouts`,
  `MethodsAllowed`. `EffectsTracked` says at each step whether the statement may have taken effect (it
  may not when pt-online-schema-change begins), `BackupsTracked` which backup exists by then,
  `SessionsTracked` that a shortened timeout is on the pinned connection only and marks where the
  clean-up is, `MethodsTracked` what validation has established. `NoHiddenClones` needs
  `ClonesTracked` (which clones may exist and why). `OrderIsKept` is the refinement of
  `OrderedChanges`, from `EffectsTracked` and `ResultTracked`: a step of the run makes the next change
  known, ends the task or is invisible, and a late end of a lost DDL is the doubtful change.
  `EveryStepAdvances` is the safety half of `TaskEnds`.
- `CloudApplyProofs`: `CloudTypes`, `OwnGroups`, `Reported`, `OthersAreKept`. `RoutesTracked`
  gives what discovery and the two listings have established by each step of the AWS handler,
  `ResultTracked` that what the service took is in the result and that a ready scope showed all of
  its values, `OthersTracked` that what is sent for a parameter nobody recommended is what the
  provider keeps, unless it was edited since. For any number of parameters and any batch size.
  `DynamicIsQuiet` (about tasks that found nothing in flight) needs what a task in dynamic mode may
  have planned and sent (`PlanTracked`, `PlansTracked`, `CalmTracked`) and that nothing at the provider waits for a restart because of it
  (`ProviderTracked`, `RestartTracked`). `SuccessEffective` adds `EffectTracked`: for each provider,
  how far a due value has come (stored, shown, in use) at each step of the handler, and that the look
  which ends the wait saw it there.
- `WorkerLoopProofs`: `WorkerTypesHold`, `NothingInvalidatedIsCached`, `Honest`, `Stays`,
  `SamplesAreReported`. `CapTracked` places every detection under the lock; `RunTracked` says that a
  one-shot run has one configuration, which is waited for, under way, in the channel or taken,
  and that the error it carries agrees with what the repeater accepted; `EndTracked` gives the codes of
  the other ends (`Honest` needs both); `SamplesTracked` follows
  the sample queries. `Stays` (a daemon never returns with the result of a collection) and the type
  theorems state what no run checks.

Only model-checked: liveness (`CloseDrains`, `StartedIsReported`, `PassEnds`, `CallsEnd`,
`TaskEnds`, `AwsTaskEnds`, `RunEnds`, `CapabilitiesHeal`), which needs fairness and ENABLED and is
beyond the prover.

## Where the code differs from its text

- `task_gcp_panic`: a numeric recommendation on Cloud SQL panics, and the final status that
  the comment in `tasks/tasks.go:189` calls a must is not sent.
- `config_torn`: the race described in `tasks/utils.go:54` may install a part of a file, not
  only the latest file.
- `config_restore`: a backup that was cut short is restored over an intact live file, and the
  script reports success.
- `schema_mismatch`: the document of schema changes says that a payload whose `schema_name`
  differs from the analysed schema is rejected; the code compares nothing.

What the properties leave out, because the code promises nothing there: `Pin` marks the entry its
database has when it looks again, so that with other callers at work the handle it returns may be
evicted (`pool_agent` starts them after Pin, as `main.go` does); `SuccessIsEffective` holds
for tasks that found nothing in flight (`quiet`; AWS is asked for the status before the values);
`OthersKept` leaves out flags of Cloud SQL edited after they were read (the list is written
back whole); nothing is said of the room on the data filesystem after the check, which a backup on the
same filesystem may use up; `ExitIsHonest` states two ways to code 0 with nothing accepted: a signal
the worker caught, and a panic at start-up, which `HandlePanic` recovers in `main.run` (`main.go:90`) or
`RunWorker` (`metrics/runner.go:31`), so that releem.sh takes either for success.

## Not modelled

In the modules above:
- releem.sh: runs that overlap each other, a restart that takes effect after the steps that follow
  its time-out, `releem.sh -i`, the skip of a retry whose files are identical (its documented
  shortcut), and the Windows scripts, which mirror releem.sh;
- a dynamic local application: the comparison of values and units;
- the cache: deep copies of cached maps (a snapshot is a value);
- EXPLAIN: which statements are eligible and how their parameters are replaced;
- schema changes: the SQL scanners character by character (their findings are the features of a
  statement), panics of the session's callback, and how the backup tools are called;
- cloud: the audit log, the mode that applies pending restarts only, errors of serialization;
  AWS shows a change and leaves "in-sync" in one step; a value of Azure that needs no restart is
  in use as soon as it is stored, and none is in use without
  being stored; values other than the recommended, the previous and one set by hand;
- the worker: tasks a metrics answer hands over are in TaskLifecycle only; the server version is a
  constant of Capabilities, and a PostgreSQL worker behaves alike with and without
  QueryOptimization; which statements the sample map holds; the unsynchronised reads of the
  collection strategy by running collections; start-up is one step.

Components without a module, with the reason: the gatherers are loops of queries that keep no
state between passes; the configuration file is parsed once at the start; installers,
containers and the service wrapper are input and output. The version cache of the installer scripts
and the payloads of the repeater are data.

## Plan

Done: every component that keeps state has its module and, but for the pieces named above, its
proofs. Next:

1. The safety halves of the other liveness properties, as `EveryStepAdvances` of ExplainPass and
   SchemaChange: what decreases with each step of a cloud task between two looks at the provider, of a
   one-shot run of the worker, and of the callers that `CloseDrains` waits for.
2. An abstract specification of a task as the server sees it (taken, started, one final status), and
   `TaskLifecycle` shown to implement it.
3. Two overlapping runs of releem.sh over one backup, and the skip of an identical retry, as a
   second specification over the files of `ConfigApply`.
