# Verification of the background machinery of Gitness

TLA+ models, TLC runs and TLAPS proofs for the parts of Gitness that work in
the background and concurrently: the job scheduler and the lock it relies on,
the event streams, the pipelines, and the caches with the publish/subscribe
service that evicts them. Every definition is translated from the Go source;
`PROJECT.json` maps each to its lines.

Contents: [the system](#the-system), [modules](#modules),
[runs](#runs-what-tlc-checks), [findings](#findings),
[what does not hold](#what-does-not-hold), [proofs](#proofs),
[only model-checked](#only-model-checked), [not modelled](#not-modelled).

## The system

Gitness is one server binary, of which several instances may share a database,
a redis and a disk. Its concurrent parts, with the state they own and what makes
them hard:

| Part | State | Operations | What is hard |
|---|---|---|---|
| Job scheduler (`job`) | rows of the `jobs` table, `cancelJobMap` per instance | run, cancel, purge, execute, retry, reclaim | several instances, one lock with a lease, crashes, late goroutines, lost updates |
| Scheduler loop (`job/scheduler.go`, `job/timer.go`) | timer, edgy flag, signal channel | tick, signal, reset | lost wake-ups, failing calls, panics |
| Lock (`lock`) | key, token and validity | lock, unlock, retry | expiry against a late unlock |
| In-memory stream (`stream/memory_*.go`) | queue per group, inner queue, workers, retry timers | send, read, handle, retry, shut down | full queues, duplicates, retry against a slow handler, shutdown |
| Redis stream (`stream/redis_*.go`) | pending entries in redis, queue and workers per consumer | send, read, claim, acknowledge | crashes, lost answers, slow handlers, trimming |
| Pipelines (`app/pipeline`) | executions and stages with versions, waiting runners | trigger, request, accept, set up, tear down, cancel | the same stage handed out twice, stale copies of rows, dependencies, limits |
| Pub/sub (`pubsub`) | registry of subscribers with channels | publish, subscribe, close | dropped messages, closing against publishing |
| Caches (`cache`, `app/store/cache`) | entries with an age | get, put, evict, purge | an old value put back after its eviction, dropped evictions |

How they interact. The services register recurring jobs before `Scheduler.Run`;
API calls create, cancel and purge jobs. Each instance runs one loop, which
takes the global lock `jobs`, lists the ready rows, marks them as running and
starts a goroutine for each. The goroutine registers a cancel function, calls
the handler, takes the lock again and updates the row. Two jobs are built in:
*overdue* fails rows whose deadline has passed, *purge* deletes old completed
rows. A cancel updates the row and calls the cancel function, or publishes the
UID for the instance that has it. The lock is the in-memory manager or redsync.

Events go through the in-memory or the redis stream. Some of them trigger
pipelines: an execution with its stages is created, the queue of a server hands
pending stages to the runners that wait, a runner accepts a stage, runs it and
reports its end, and the end of a stage skips or schedules those that depend on
it. Requests that change a repository or a space publish the change, and the
subscribers evict what the caches hold of it.

What has to be right: no more running jobs than the limit and no more executions
than the retries allow; every job ends, and what has ended stays ended; the loop
wakes up for every job; the lock excludes within its leases; a stream loses no
message and repeats none too often; a stage has one runner, starts when its
requirements are met, and ends; a cached value is never older than it may be.
`PROJECT.json` lists the hazards at the lines where they bite.

## Modules

| Module | Models | Extended by |
|---|---|---|
| `JobScheduler` | the scheduler on several instances | `MCJobScheduler`, `JobSchedulerProofs`, `JobSchedulerLimitProofs` |
| `SchedulerLoop` | the loop of `Run`, its timer and signals on one instance | `MCSchedulerLoop`, `SchedulerLoopProofs` |
| `LeaseLock` | what a `lock.MutexManager` promises (abstract) | instantiated by `InMemoryMutex` |
| `InMemoryMutex` | `lock/memory.go` | `MCInMemoryMutex`, `InMemoryMutexProofs` |
| `MemoryStream` | `stream/memory_*.go` | `MCMemoryStream`, `MemoryStreamProofs` |
| `RedisStream` | `stream/redis_*.go` over the commands of redis | `MCRedisStream` |
| `BuildStages` | the tables of executions and stages, the dependency graph, the triggerer | `BuildQueue` |
| `BuildQueue` | `app/pipeline/scheduler/queue.go` | `PipelineManager` |
| `PipelineManager` | manager, runners and canceler, composed with the two above | `MCPipelineManager`, `PipelineManagerProofs`, `PipelineQueueProofs` |
| `PubSub` | `pubsub/inmem.go` | `CacheEviction` |
| `CacheEviction` | the TTL cache of repositories, its evictor and the requests that change rows, composed with `PubSub` | `MCCacheEviction`, `CacheEvictionProofs` |

Definitions whose comment begins with *Variant* are mutated forms of the
definition that follows: plausible slips that the properties have to notice.
Nothing else refers to them.

### JobScheduler

State: `jobs` (the table, one row or `None` per UID), `lock` (owner of the
global lock), and per instance `mode`, `batch` (rows listed and not yet
started), `cancelJobMap`, `cancel` (a `CancelJob` call in progress). `exec`
holds the goroutines, `inbox` the cancel messages in flight. A row keeps its
state and its two counters. Its three times are flags: `due` (scheduled time
reached), `late` (deadline passed), `old` (older than the retention time). Time
sets a flag at any moment, so all durations, cron strings and clock differences
are covered. Counters of recurring jobs decide nothing and are not kept.

| Action | Code |
|---|---|
| `Start`, `createNecessaryJobs`, `Upsert` | `Run` up to its loop |
| `Stop`, `Exit`, `Crash` | end of the context, `WaitJobsDone`, sudden end |
| `processReadyJobs`, `runJob`, `skipJob` | lock, count, list; then row by row |
| `doExec`, `HandlerReturns` | register the cancel function, the handler |
| `OverdueHandle`, `Reclaim`, `ReclaimFails` | `jobOverdue.Handle`, row by row |
| `PurgeHandle` | `jobPurge.Handle` |
| `FindExecuted`, `UpdateExecuted` | the second half of `runJob`'s goroutine |
| `CancelJob`, `CancelUpdate`, `CancelSignal`, `handleCancelJob` | the cancel call and its message |
| `RunJob`, `PurgeJobByUID` | callers |

Each read and each write of the table is a step of its own wherever another
actor can come in between. A critical section that does one thing only
(`createNecessaryJobs`, the purge job) is one step, taken when the lock is free.
`Faults` says what may go wrong: `lease` (a lease runs out under a live holder),
`lock` (taking it fails), `db` (an update is lost, or applied and reported as
failed), `pubsub` (a message is lost), `upgrade` (a new version changes a
recurring job), `crash`, `slow` (a built-in job misses its five seconds),
`delete` (callers purge jobs). A run switches on those its question needs.

`lock` is the abstract lock: an owner, who keeps it until it unlocks or its
lease is over. That is `LeaseLock` with one key and the clock left out, and
`InMemoryMutex` implements `LeaseLock`.

### SchedulerLoop

Time is a number, rows are reduced to state and scheduled time, and an update of
a row is one step. `timer` is the `schedulerTimer` with the `time.Timer` in it
(running, fired, or idle), `signal` the channel of capacity one, `senders` the
goroutines of `scheduleProcessing` that wait to send, `loop` the position and
the locals of `Run`. The pass of the loop is split where others can act:
list, read the next time, start row by row, reset the timer. Initially a mode of
faults is chosen: none, failing calls and deleted rows, or panics. One
nanosecond (`timerMinDur`) counts as no time.

The comment of `ResetAt` says that a zero time schedules for the maximal
duration; the code (and `timer_test.go`) gives the minimal one. `Run` never
passes a zero time, so the model has no such case.

### LeaseLock and InMemoryMutex

`InMemoryMutex` has the map of keys, and for each mutex object `isHeld`, the
attempt its `Lock` call has reached, and whether its caller is inside. The
refinement mapping takes an entry that is still valid as the lease, and the
callers that are inside as they are. A mutex whose lease was lost keeps
`isHeld` and cannot be locked again, as in the code. `MutexAssumption` takes
`Tries` to be positive. The default is eight; the setting (`GITNESS_LOCK_TRIES`)
may be zero, and then `Lock` fails at once and nothing here is of interest.

### MemoryStream

One stream, a broker queue per group, and per group a consumer with reader,
inner queue, workers and the goroutines that put a message back. `accepted`,
`started`, `attempts` and `outcome` are history. `messages` is a step of its
own: the group exists only once its reader goroutine has run. A panic of a
handler is a return without error, as the recover makes it. `Cancel` ends the
context: reader and workers leave when they next look at it, and the channels
are closed after the last of them.

### RedisStream

Redis is modelled from how the code uses it: the entries of the streams, the
group with the ID last delivered, the pending entries with consumer and number
of deliveries. Messages are numbered in the order they are sent. The only time
that matters is the idle time of a pending entry; `fresh` lists the entries
below it in the order of their delivery, and `IdleTimeout` lets the oldest pass.
A consumer has a reader (history of its name first, then new messages), a
reclaimer (XPENDING, then XCLAIM or XACK entry by entry), a bounded queue and
workers. `Crash` loses its memory and `Start` brings it back under its name; an
answer may be lost after redis has acted; an XACK may fail, in each of the three
places that send one; `RemoveGroup` is what makes the code create the group again.
A consumer that starts first runs `removeStaleConsumers`: XINFO and each XGROUP
DELCONSUMER are steps of their own (`XInfo`, `DelConsumer`), since an instance may
come back in between. `ClaimTrimmed` has both answers that versions of redis give
to the XCLAIM of a message that left its stream.

`base`, `called`, `handled`, `exhausted`, `removed`, `missed` and `starts` are
history. They are written where redis or a handler acts, never where an entry
leaves the pending list, so `NothingLost` compares the list with them.

### BuildStages, BuildQueue and PipelineManager

`BuildStages` has the rows of executions and stages with their versions: an
update is refused when the version of the caller's copy is not the one of the
row. `Trigger` creates an execution with its stages from a configuration. The
cycle detection and the dependencies through skipped stages are the algorithms of
`dag.go`, as recursive functions; `OrderKept` checks them against reachability.
The linter has refused unknown dependencies before, which is why the
configurations of the model have none.

`BuildQueue` is one queue per server: waiting runners, the token that wakes the
loop, the list it works on and the lock that the servers share. The listing and
the handing out are two steps. A signal that cannot get the lock or the list
(`SignalFails`) has already taken the token, and `start` only logs the error:
`missed` records that until a signal succeeds. `PipelineManager` has the runners,
each with its copies of the stage, of the execution and of the list of stages, and
the canceler. Every read and every write of a row is a step of its own.

| Action | Code |
|---|---|
| `Trigger` | `triggerer.Trigger`: the transaction and `Schedule` |
| `RequestStage`, `SignalList`, `SignalHand`, `SignalFails` | `Request`, `start`, `signal` |
| `AcceptFind`, `AcceptUpdate`, `DetailsFails` | `Manager.Accept`, `Details` |
| `SetupStage`, `SetupExecution` | `setup.do` |
| `TeardownFind`, `TeardownStage`, `TeardownList` | `teardown.do`, its first half |
| `CancelDownstream`, `ScheduleDownstream`, `Resync`, `Complete` | its second half, one stage at a time |
| `CancelExecution`, `CancelList`, `CancelStage` | `canceler.Cancel` |

### PubSub and CacheEviction

`PubSub` is the in-memory service: a goroutine per message and subscriber, which
sends, times out, or panics on a closed channel. `CacheEviction` composes it
with the cache: calls of `Get` and `Map` that look up, find and put in separate
steps, the purger, and the requests that change rows and publish the change. They
do so in different orders, and `then` says where a request goes on after `Publish`:

| Action | Order in the code |
|---|---|
| `UpdateRepo` | the row, then the publication |
| `UpdateFails` | the row, then an error: nothing is published (`repo.go:339-342`) |
| `DeleteImporting`, `PurgeNoAuth` | the publication, then the row (`soft_delete.go:111-114`) |
| `MoveSpace`, `Commit` | the publication within the transaction, then the commit |
| `SoftDeleteSpace`, `SoftDeleteNoAuth`, `CommitDelete` | each repository is published within the transaction, the space after the commit |

With SQLite (`needsLocking`) the lock of `dbtx` makes readers wait for the end of
a transaction. The value of a row is the number of its changes, and `replaced`
remembers when each value was replaced. `excused` and `overtaken` are history: they
mark values whose eviction was dropped, or came while the value was on its way into
the cache, and values of a row that was changed with no eviction to follow.

## Runs: what TLC checks

| Run | Properties | Instance |
|---|---|---|
| `safety` | `TypeOK`, `RunningHasExecution`, `CancelMapExact`, `RecurringStays`, `CompletedIsFinal` | two instances, a job with one retry, the overdue job, two slots, one stop, deletes, slow handlers, upgrades, lost messages |
| `faults` | `AttemptsBounded`, `RunningWithinLimit` | two instances, a job, the overdue and the purge job, two slots; locking and updates fail |
| `live` | `EveryJobCompletes`, `OrphansReclaimed` | one instance that may crash once, two slots |
| `slots_stuck` | `OrphansReclaimed` is violated | the same with one slot |
| `loop` | `TypeOK`, `TimerRuns`, `WakesInTime`, `ReadyJobStarts` | a created job, a recurring one and a row of another instance, two slots; no faults, failing calls, panics |
| `lease` | `TypeOK`, `ExclusiveWithinLease`, `ImplementsLeaseLock` | three mutexes on one key, one on another, leases of two ticks |
| `stream` | `TypeOK`, `NothingLost`, `AttemptsBounded`, `Delivered`, `ShutdownEnds` | two messages, queues of length one, two workers, two retries, a shutdown |
| `stream_retry` | `FailedIsRetried` is violated | one message, one worker |
| `pipeline` | `TypeOK`, `OneRunner`, `AcceptedOnce`, `OrderKept`, `StartsAsRequired`, `EndsWithItsStages`, `WithinLimits`, `NoLostWakeup`, `StagesEnd` | two runners, two executions of up to three stages: join, fork with a stage on failure, a skipped bridge that may be canceled, a shared limit, cycles |
| `redis` | `TypeOK`, `NothingLost`, `Recovered`, `RetriesBounded`, `MessagesEnd` | two consumers and a message, or one consumer and two; one crash, lost answer or removed group |
| `reclaim_start` | `StartCoversIdle` is violated | one consumer, two messages, no fault |
| `cache` | `TypeOK`, `FreshEnough`, `StaleIsEvicted` | a reader of two keys, a publisher, three subscribers with channels of length one |

Why the bounds are enough to be interesting. In the scheduler two instances and
two goroutines give every pairwise race of batch, execution, cancel and reclaim;
one retry is the smallest number for which an off-by-one shows in both directions;
a job whose execution is reclaimed and retried while the first handler still runs
needs just two goroutines. One slot makes the limit bind, two let the overdue job
run beside a job. In `loop` a time of two ticks is the longest sleep, so that a
wake-up can come too late. In `lease`, expiry 2 with a clock to 4 lets a lease run
out, a second one begin and the late unlock of the first come in. Queues of length
one are full at once, so blocking, rejection and retries mix with two messages. In
`pipeline` two runners meet on one stage and end two stages of one execution at
the same time; three stages make the smallest join and the smallest bridge. In
`redis` the second consumer is the one that claims from the first or comes back
while the first deletes it, or the second message the one behind which the first
is skipped. In `cache` maxAge is one tick and the clock has two, so that an entry
can be too old. `MaxStops`, `Execs`, `MaxTime`, `MaxStages`, `MaxMessages`,
`MaxConsumers`, `MaxLoad`, `MaxFaults`, `MaxChanges` and `MaxSteps` are named
bounds. Instances, goroutines and mutexes are symmetric, and so are the keys of
`cache`; runs with liveness use no symmetry. The largest runs have 191 thousand
(`pipeline`), 242 thousand (`redis`) and 1.3 million (`cache`) distinct states.

Deadlock is not checked: every model may stop rightly. Callers owe nothing,
clocks end, instances may be down for good, messages and stages are used up. That
nothing waits for ever while it should go on is what the liveness properties say.

Fairness, and why the code justifies it:

* goroutines, timers and the steps after a lock has been taken are weakly fair:
  the Go runtime schedules them, and the timer of the loop is armed (shown by
  `TimerRuns`); the loop of the build queue has a timer of its own;
* taking the global lock of the scheduler is strongly fair: it is held for short
  sections and waiters poll it eight times by default, and the loop and the
  built-in jobs try again for ever. A waiter that gives up is the fault `lock`,
  which the liveness runs leave out. In `SchedulerLoop` the same holds for the
  end of an execution;
* handlers and builds return: the context of a handler has a deadline. A handler
  that ignores its context for ever is outside of what the code can promise;
* time passes, a lease whose holder is gone ends, a server that is down is
  started again; in `RedisStream` the number of faults is bounded;
* nothing is assumed of callers: no job, message or execution need be created,
  canceled or purged.

## Findings

Each is a statement of the repository that a run shows not to hold.

1. `slots_stuck`: `job/job_overdue.go:47-49` says that overdue jobs are
   reclaimed after "the server suddenly terminates". The overdue job needs a
   slot (`availableSlots`, `job/scheduler.go:404`). If the server ends with all
   slots taken, no job is ever started again.
2. `stream_retry`: `stream/memory_consumer.go:200-201`, "If the original
   execution errors out, we rely on the timeout to retry". `handlingErr` is
   passed to the deferred function when it is deferred, so it is always nil and
   the retry is always canceled.
3. `reclaim_start`: `stream/redis_consumer.go:382`, "It's safe to change start of
   the requested range for the next iteration to oldest message". The list holds
   the messages that are idle at that time. One that was claimed a moment before
   is not among them; when a newer one is, `start` moves past the older one, which
   this reclaimer never retries or discards.

## What does not hold

Limits that the models show and no property claims. The properties are worded
around them, and the hazards in `PROJECT.json` name them.

* Scheduler. A crash during the overdue job leaves its own row running for good
  (the liveness properties exempt it). A lease that runs out in a batch can
  exceed the limit (`LimitHolds` excludes it). Between the update to running and
  the registration in `cancelJobMap` a cancel finds nobody, and the handler runs
  on with a live context (`job/scheduler.go:228-231`). A panic in
  `processReadyJobs` is recovered after the tick was consumed and before
  `ResetAt`, which leaves the timer idle until an earlier time is scheduled
  (`job/scheduler.go:119`; `TimerRuns` exempts panics).
* In-memory stream. A reader that the workers leave behind in front of a full
  inner queue keeps `wg.Wait` from returning (`ShutdownEnds` names this one case).
* Redis stream. The time in the queue counts as idle time, so a message may be
  claimed while it waits. When the group is gone it is created again with "$":
  what was not acknowledged is dropped (`base` moves past it). The comment of
  `removeStaleConsumers`, "Delete old consumers, but only if they don't have pending
  messages.", speaks of the time of XINFO: an instance that comes back before the
  XGROUP DELCONSUMER and reads a message loses it (`NothingLost` exempts what is in
  `removed`). An XACK that fails leaves the message pending, and it is handled again.
* Pipelines. `cancelDownstream` walks the stages by ID, so a stage that depends on
  a skipped one with a higher ID is scheduled. An `Accept` that comes after a
  cancel makes the skipped stage pending again, and its end may overwrite the
  killed execution; the properties about order and ends exempt canceled
  executions. A teardown that loses the version check of the execution does not
  complete it. The limit is exceeded when a stage with a lower ID becomes pending
  after a later one was handed out (`queue.go:264`); `WithinLimits` counts stages
  without dependencies. A runner that fails to get the details of an accepted
  stage drops it for good (`StagesEnd` exempts it). `Schedule` wakes the queue of
  its own server only. A signal that fails has consumed its token, so a stage may
  wait for the timer of the queue (`NoLostWakeup` exempts `missed`). Nothing calls
  `Cancel` of the scheduler, so `Watch` never returns.
* Caches. With Postgres `MoveSpace` publishes before it commits, and a reader may
  fill the cache with the old row again: `StaleIsEvicted` holds with SQLite only.
  With either, an outdated value stays until it is too old (`FreshEnough` bounds it)
  in four cases, which `StaleIsEvicted` exempts: its eviction was dropped; it was on
  its way into the cache when the eviction came; the repository was being imported,
  where the deletion evicts first and purges the row afterwards; or an update changed
  the row and then failed to find the path, and so published nothing.
* Pub/sub. `Publish` reads the registry without the mutex, closed subscribers
  never leave it, and a send on a closed channel panics. `Unsubscribe`, which has
  no caller, is left out.

## Proofs

TLAPS checks every step of every proof. The theorems hold for every value of the
constants that satisfies the named assumptions, which only give the constants
their kind (finite sets of jobs and stages, positive capacities and durations,
`None` different from everything else, a configuration that speaks of the stages
of its execution): `ConstantsAssumption`, `LoopAssumption`, `MutexAssumption`,
`StreamAssumption`, `StagesAssumption`, `ConfigsAssumption`, `QueueAssumption`,
`ManagerAssumption`, `PubSubAssumption`, `CacheAssumption`. TLC evaluates all of
them. So there may be any number of instances, goroutines, runners, messages,
keys and subscribers, any retry limits, capacities and ages, and, unless the third
column says otherwise, any choice of faults. Bounds such as `MaxTime` are constants
too: they may be as large as one likes.

| Theorem | Says | Assumes | Invariant |
|---|---|---|---|
| **`JobSchedulerProofs`** | | | |
| `TypeInvariant` | `[]TypeOK` | | `TypeInv` |
| `AttemptsAreBounded` | `[]AttemptsBounded` | | `RowInv` |
| `RecurringAlwaysStays` | `RecurringStays` | | `RowInv` |
| `CancelMapIsExact` | `[]CancelMapExact` | | `MapInv` |
| `CompletedStaysFinal` | `CompletedIsFinal` | no `lease`, no `lock` fault | `LockInv`, `Fresh` |
| **`JobSchedulerLimitProofs`** | | | |
| `LimitHolds` | `[]RunningWithinLimit` | no `lease` fault | `LockInv`, `LimitInv` |
| **`SchedulerLoopProofs`** | | | |
| `LoopTypes`, `TimerAlwaysRuns` | `[]TypeOK`, `[]TimerRuns` | | `Types` |
| `AlwaysWakesInTime` | `[]WakesInTime` | | `WakeInv` |
| **`InMemoryMutexProofs`** | | | |
| `MutexTypes`, `Exclusion` | `[]TypeOK`, `[]ExclusiveWithinLease` | | `LeaseInv` |
| `Implementation` | `InMemoryMutex` implements `LeaseLock` | | `LeaseInv` |
| **`MemoryStreamProofs`** | | | |
| `StreamTypes` | `[]TypeOK` | | `Types`, `Bounds` |
| `AlwaysAttemptsBounded` | `[]AttemptsBounded` | | `AllTokens` |
| `AlwaysNothingLost` | `[]NothingLost` | | `AllInOrder` |
| **`PipelineManagerProofs`** | | | |
| `OneRunnerHolds`, `StageIsAcceptedOnce` | `[]OneRunner`, `AcceptedOnce` | | `IInv` |
| `PipelineTypes` | `[]TypeOK` | | `IInv`, `TInv` |
| `ExecutionEndsWithItsStages` | `[]EndsWithItsStages` | | `IInv`, `EInv` |
| **`PipelineQueueProofs`** | | | |
| `WakeupsAreKept` | `[]NoLostWakeup`, which exempts `missed` | one server | `IInv`, `QInv` |
| **`CacheEvictionProofs`** | | | |
| `CacheTypeCorrect`, `CallsAreFreshEnough` | `[]TypeOK`, `[]FreshEnough` | | `Types`, `Fresh` |
| `StaleEntriesAreEvicted` | `[]StaleIsEvicted`, with its four exceptions | `needsLocking` | `Types`, `Evictions` |

`TypeCorrect`, `RowsGood`, `SectionsAreLocked` and `LeasesKept` state invariants of
the last column as theorems of their own.

### The arguments

Scheduler.

* `TypeInv` adds to the types that a cancel call or a goroutine at work holds a
  job and, where it will write, the row to base the write on. Without it the new
  row is not known to be a row.
* `RowInv`. A write may come from a stale copy, so the invariant speaks of every
  copy: in the table, in a batch, in a goroutine, in a cancel call. A scheduled
  row has as many executions as failures, a running one has one more, and neither
  has more failures than retries. `preExec` and `postExec` turn good copies into
  good rows whatever the table holds by then, which is why no fault matters.
* `MapInv` is `CancelMapExact` said of one goroutine and one entry at a time. The
  early return of `doExec` on a UID that is taken is what keeps it.
* `LockInv`: whoever is inside a section owns the lock. `LimitInv` counts the
  running rows together with those an instance has listed and not yet started.
  The number is within the limit when the batch is listed, and only the owner of
  the batch makes rows running.
* `Fresh`: the row that a section was entered for is still open when the section
  writes it, or was deleted and created again. Nobody without the lock closes a
  row. `lock` has to be excluded: `runJob` updates the row even when it did not
  get the lock.

Loop. `WakeInv` has a part for each position of `Run`. Where it waits after a pass
that got all jobs, the timer is in time for every scheduled job, or the job is
announced: a time that is early enough is in the channel or with a goroutine about
to send it. After a pass that did not (the timer is edgy), no slot has become free
since, or whoever frees one sends a signal (`SelectInv`). Inside of a pass the same
is said of the time that `ResetAt` will be given (`NextInv`, `StartInv`).
`WakesInTime` speaks of the mode without faults; `TimerRuns` needs the types only.

Lock. `LeaseInv`: a caller inside whose lease still runs has its entry in the map.
Each action then is a step of `LeaseLock`, or a stutter.

In-memory stream. `AllTokens` counts attempts: a message whose handler may be
called again is in one place only, and once (the broker queue, the reader, the
inner queue, a requeue goroutine, or a worker whose timer still runs: `Distinct`,
`OnlyPlace`), and the number it carries there is the number of calls so far
(`Counted`). `AllInOrder` says what the sequence of accepted messages is made of:
those started, the first attempts in the inner queue, the one in the reader's
hands, the broker queue, in this order. Retries in the inner queue are passed over
by counting the first attempts up to each position; lemmas say what a step at
either end of the queue does to that count.

Pipelines.

* `IInv`: every copy of a stage row that somebody may still write back is older
  than the row or has its machine (`Copy`). A write that is not refused therefore
  never takes a machine away (`Grow`), and of two runners that hold the same stage
  one was refused.
* `TInv`: a runner that is handed a stage has an empty list, so that its list is
  always of its own execution.
* `EInv`: unless the execution is canceled, a copy that says that a stage has ended
  is right (`Seen`), since nobody can still write the row of such a stage: it is
  neither held nor waiting, and was handed to somebody only if it was pending
  (`Picked`). A runner in its teardown has a copy of every row (`WalkInv`). So what
  `isexecutionComplete` concludes from copies is true of the table, and remains so
  (`EndInv`).
* `QInv`: a free stage without a limit has a token in the channel, is at hand of
  somebody, is in the list of the signal in progress, or no waiting runner matches
  it (`Covered`), unless a failed signal has taken a token and none has succeeded
  since; the next one that succeeds lists everything again. A row becomes free
  only when it is created or stops waiting, and both come with a token
  (`Written`): a stage that was handed out waits for nothing (`Past`), and the
  write of a copy that still says so is refused (`Follows`). The runner that gives
  up a stage has lost it to a machine or to a newer version. With several servers
  the theorem is false: `Schedule` wakes its own server only.

Caches. `Fresh`: a value was current at the time its entry carries, or later,
because `Get` and `Map` take the time before they look into the database.
`Evictions` follows an outdated value: whoever holds it, the cache or a call about
to put it there, there is a request about to publish, a message on its way,
or the value is excused. A value that a transaction will replace without publishing
afterwards counts as outdated from the start (`Doomed`); the deletion of a space is
not such a transaction, since it publishes the space after its commit. A change that
nothing is published for excuses what is cached or found of its row, except where an
eviction is still under way (`ChangeUnannounced`). The theorem needs `needsLocking`:
otherwise a reader may find the old row between the publication and the commit of
`MoveSpace`.

## Only model-checked

* Liveness (`EveryJobCompletes`, `OrphansReclaimed`, `ReadyJobStarts`, `Delivered`,
  `ShutdownEnds`, `StagesEnd`, `MessagesEnd`): fairness and ENABLED are beyond the
  prover.
* `OrderKept`: what the recursive functions of the dependency graph compute needs
  an induction over the graph, which the prover cannot do.
* `StartsAsRequired` and `WithinLimits` hold for the configurations of the run,
  not for all. A stage that depends on one with a higher ID that is skipped in the
  same pass is scheduled, and an execution may have stages of one name with
  different limits.
* `NoLostWakeup` with more than one server, which does not hold.
* All of `RedisStream`. Its queues and its entries below the idle time are
  sequences from which elements are selected and removed at any position, and the
  theorems about such selections need an induction over sequences.
* `RunningHasExecution`: no proof was attempted. It would have to exclude crashes
  and failing updates, locks and leases.

## Not modelled

Progress reports, results and the texts of errors of a job decide nothing.
`UpdateDefinition` and `UpdateProgress` touch columns of the jobs table that the
model does not keep. redsync, redis, SQL and the `time` package are external:
their behaviour is the one the code relies on (a lease, an unreliable channel,
atomic statements, a timer with a channel of capacity one). `MemoryStream` has one
stream; the send of a retry goroutine on a channel that was closed is left out, so
its step is disabled there. In the pipelines the steps of a stage, its logs and
the status checks of commits are left out, and so is the limit per repository,
which nothing sets. The database calls of a teardown succeed unless the version
check refuses them; one that fails otherwise ends the teardown early, and nothing
repeats it, so `StagesEnd` is a statement about a database that answers.
`CacheEviction` has the cache of repositories by ID; the caches of paths and of
spaces are evicted in the same way. The remaining parts of the server are listed
in `PROJECT.json` under `components` with the reason: I/O (git, blobs, SSH),
sequential request handling (API, authorization), wrappers of libraries, or parts
that nothing modelled depends on (live logs, gitspaces, the registry).
