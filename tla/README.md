# A TLA+ model of gojek/work

gojek/work runs background jobs from Redis. Enqueuers push jobs; worker pools
in many processes take them, run a handler and end them; requeuers bring back
what is scheduled or retried; periodic enqueuers schedule what recurs; reapers
clean up after pools that died; an operator retries, deletes and pauses through
`Client`. Processes coordinate through Redis alone, in Lua scripts, `MULTI/EXEC`
transactions and single commands; inside a process, goroutines meet on
channels. This project models both, checks them with TLC on small instances,
and proves the safety properties that matter most with TLAPS for all instances.

## Parts of the system

| Part | Source | Module | State |
|---|---|---|---|
| Redis keys, Lua scripts | `redis.go` | `RedisStore`; scripts also in `Requeuer`, `Client`, `UniqueJobs`, `EnqueueCalls`, `DeadJobs` | modelled |
| Enqueue, EnqueueIn/At | `enqueue.go` | `Enqueuer`, `EnqueueCalls` | modelled |
| Unique jobs | `enqueue.go`, `worker.go`, `client.go` | `UniqueJobs`, `EnqueueCalls` | modelled |
| BulkEnqueue | `enqueue.go` | `EnqueueCalls` | modelled |
| Worker | `worker.go`, `job.go` | `Worker`, `WorkerLoop`, `UniqueJobs` | modelled |
| Priority sampler | `priority_sampler.go` | `PrioritySampler` | modelled |
| Worker pool: Start, Stop, Drain | `worker_pool.go` | `WorkerPool`, `WorkerLoop` | modelled |
| Heartbeater | `heartbeater.go` | `WorkerPool` | modelled |
| Dead pool reaper | `dead_pool_reaper.go` | `DeadPoolReaper` | modelled |
| Retrier, scheduler | `requeuer.go` | `Requeuer` | partly: not its stop and drain channels |
| Client commands | `client.go` | `Client`, `DeadJobs`, `UniqueJobs` | modelled |
| Client inspection | `client.go` | `DeadJobs` (pages), `Observer` (WorkerObservations) | partly: what only reads and formats is left out |
| Periodic enqueuer | `periodic_enqueuer.go` | `PeriodicEnqueuer` | modelled |
| Observer | `observer.go` | `Observer`, `WorkerLoop` | modelled |
| Validation, middleware, arguments | `worker_pool.go`, `run.go`, `job.go` | - | not modelled |
| Web UI, commands, benchmarks, utilities | `webui/`, `cmd/`, `benches/`, `time.go`, ... | - | not modelled |

`PROJECT.json` has the same list with reasons, the map from every definition
to the lines it models, and the hazards of the code line by line.

## Modules

The whole system, of which each other model takes one part to a finer grain:

- `RedisStore`: the keys as variables and the scripts as operators. A list is
  a sequence with its left end first (`LPUSH` is `Cons`, `RPOP` takes `Last`),
  a sorted set is the set of its members, a job's JSON is its ID and its
  failure count. `lock` and `lockInfo` are the two counters behind
  `MaxConcurrency`; they are integers, since the code can drive them below 0.
  `enqueued`, `settled` and `unlimited` are history variables: the jobs handed in,
  the jobs that were ended and kept nowhere, and the names whose limit some
  `Start` failed to write.
- `Enqueuer`, `Worker`, `Requeuer`, `Client`, `DeadPoolReaper`, `WorkerPool`:
  one action per handler or per Redis call. What Redis does atomically is one
  step; what the code sends as separate commands is separate steps. So `reap`
  is `ReapStart`, `FindHeartbeat`, `FindJobNames`, `ReapNext`, `ReapRequeue`,
  `ReapDel`, `ReapSrem`, `ReapClean`, and `Stop` is `Stop`, `StopWorker`,
  `StopWait`, `StopRequeue`, `StopClean`, `StopSrem`, `StopDel`, `StopRest`.
  `Start` goes on when a SET of `max_concurrency` fails, for any of its names. The
  SADD and HMSET of a heartbeat are one step, `Heartbeat`, unless another client's
  command falls between them, which is the fault `split_beat`.
- `WorkSystem`: the composition, its faults, its fairness and its properties.
  `Env` names what the environment may do, `MaxFaults` how often in all.
- `JobLifecycle`: the abstract specification: where a job can be and how it
  moves, with no pools, lists or locks. `WorkRefinement` maps `WorkSystem` to
  it: the status of a job is the key that has it.

Models of their own, which need more detail of their part and nothing of locks,
heartbeats or reapers:

- `UniqueJobs`: one unique key, the calls that share it, and the workers and
  the client that delete it, with GET and DEL as steps and the arguments of
  jobs. `byKey` says whether the key is made of the arguments or of a keyMap. The
  caller of `DeleteScheduledJob` may be gone before its DEL (`cut_off`).
- `EnqueueCalls`: the calls of one `Enqueuer` in several goroutines, command by
  command: the pipelines of `BulkEnqueue` with the second one after NOSCRIPT,
  the cache of known names, WAIT. Redis is what enough replicas have (`stored`)
  and the writes after that (`pending`), of which a failover drops a tail.
- `DeadJobs`: the dead set with its scores and its order. What `RetryDeadJob`
  and `RetryAllDeadJobs` read (names, time) and the script that uses it are
  separate steps, and so is what an operator has seen on a page. `MaxBatches` is
  the cap of 1000 batches.
- `PeriodicEnqueuer`: a clock, the timers of the pools, `shouldEnqueue`, a pass
  of `enqueue` with one ZADD per step, and the scheduler that moves what is due.
  Each pool has its own periodic jobs; they share `last_periodic_enqueue`.
- `WorkerLoop` and `Observer`: the goroutines of one pool: the loop of each
  worker with its select, the steps of `processJob`, the goroutines of `Stop`
  and `Drain` for each worker, and the loop of the observer with its buffered
  channel. A send and its receive on an unbuffered channel are one step of both.
- `PrioritySampler`: `add`, and `sample` turn by turn, on the slice that the
  last call left behind.

`MCWorkSystem`, `MCEnqueueCalls`, `MCPeriodicEnqueuer` and `MCDeadJobs` have the
functions that the configurations choose from. `JobProofs`, `WorkSystemProofs`,
`ReaperProofs`, `LockProofs`, `EnqueueCallsProofs`, `OnceProofs`, `DeadJobsProofs` and
`WorkerLoopProofs` are the proofs. Properties of jobs and locks are stated in
`Worker`, those of pools in `WorkSystem`.

Operators called a "Faulty variant" are not part of the model. Each is a
definition with a plausible bug, to show that a property depends on the code.

### What is abstracted

In `WorkSystem`, scores and clocks: any member of a set may be due, any
heartbeat may be found old once its pool is gone, and a live pool's only as a
`late_beat` fault. The order of queues that the sampler produces: any. A job has
a fixed name, so a script finds the queue of a job by `NameOf`. The batches of
`RetryAllDeadJobs` and `DeleteAllDeadJobs` act on one job after the other, which
allows more interleavings than the code does. A handler succeeds or fails. A
failed job that cannot be serialized any more, say for what its handler put in its
arguments, is logged and dropped by `terminateAndRetry` and `terminateAndDead`; it
takes the way of one that succeeded (`finished`), so `settled` counts it and
`NoJobLost` and `EveryJobEnds` promise nothing for it. Pools
that die do not come back under their ID (a new process makes a new one); pools
that are stopped may be started again, as `Start` allows.

In `EnqueueCalls`, queues and the scheduled set are one set, and Redis executes
a command when its reply is read, which puts the commands of one pipeline apart
as a busy Redis would. In `DeadJobs`, jobs that run, wait or have succeeded are
one set. In `PeriodicEnqueuer` all pools have the same time. In `UniqueJobs` a set
has each job once: with a keyMap a worker may run, in place of its own job, the
arguments of one that is in Redis as well, and if that handler fails the retry is a
second copy. Such failures are left out; all others happen. In
`WorkerLoop` a job that fails leaves the pool like one that succeeds, the waits
between fetches have no length, and two calls of `Drain` do not overlap. That the
hash of an observer expires after a day is left out.

## What the runs check

Passing runs (the first five have two pools with a worker each, if nothing else
is said; `p2` stays up in all but `crash_recovery`):

| Run | Setting | Properties |
|---|---|---|
| `crash_recovery` | 2 jobs, limit 1; `p1` dies at any time, both may stop; 2 lost replies, transactions or writes of a limit | `TypeOK`, `InProgressRecoverable`, `LocksCountInProgress`, `ConcurrencyLimit`, `OnePlaceOneWorker`, `RunningJobHeld`, `StoppedPoolIsClean` |
| `two_reapers` | 3 pools, 2 reapers, 2 names of which the reapers handle one, a scheduled job; a failed reaper call, lost reply or lost transaction | `InProgressRecoverable`, `LocksCountInProgress`, `OnePlaceOneWorker` |
| `any_fault` | 1 job, any two faults of any kind, an operator | `NoJobLost` |
| `lifecycle` | 2 jobs, one scheduled, 2 attempts, a crash, a lost reply or transaction, an operator | `DeadOnlyWhenExhausted`, `ImplementsLifecycle` |
| `every_job_ends` | 2 jobs, one scheduled, 2 attempts; `p1` stops or dies | `EveryJobEnds`, `LeavingPoolIsEmptied` |
| `unique_keys` | 3 calls, 2 workers, keys of both kinds; retries, expiry, crashes, deletions that may be cut off, Redis errors | `UniqueTypeOK`, `KeyHasPendingJob`, `OneJobPerKey`, `LastArgumentsKept` |
| `enqueue_calls` | a plain, a unique and a bulk call at once, sharing names and a key; any 2 errors, failovers or script flushes; an expiring cache | `CallsTypeOK`, `AckedJobsAreThere`, `AckedNamesAreKnown` |
| `dead_jobs` | 3 jobs of 2 names, batches and pages of 2; at most 3 batches; an operator who picks jobs from pages and retries or deletes all, jobs that die, names that become known | `DeadTypeOK`, `EachJobOnce`, `RetryAllIsComplete`, `PagesShowEachOnce` |
| `periodic` | 2 pools, 2 periodic jobs of which one pool has both, 7 seconds; a late pass, an error, stop or crash | `PeriodicTypeOK`, `NoInstanceMissed`, `OnceUnlessLate` |
| `worker_loop` | 2 workers, one with its observer and a buffer of 1; Start, Stop and Drain in any order but one at a time; blocked queues, a failing fetch or write | `LoopTypeOK`, `DrainedJobsHaveEnded`, `CheckinsFindTheirJob`, `NothingLeftToWrite`, `StoppedObserverShowsNothing`, `DrainEnds`, `StopEnds` |
| `priority_sampler` | up to 4 queues, priorities up to 3, any number of samples | `SamplerTypeOK`, `DrawsFollowPriorities`, `DrawnQueuesStay` |

Several properties have a condition. It names exactly what the code does not
protect against. `ConcurrencyLimit` leaves out the names whose limit some `Start`
failed to write. `KeyHasPendingJob` ends with a failed GET or DEL of the key, a
deletion that was cut off, or one of a job with a keyMap. `OneJobPerKey` ends with a
retry, a requeue or the expiry of the key. `OnceUnlessLate` counts the passes that
were late. `NoInstanceMissed` is about instances of a pool's own jobs, and a pool
that leaves out a pass for one of a pool that lacks some of them starts anew.
`DrainEnds` needs a pool that is started. `RetryAllIsComplete` needs fewer than a
batch of jobs without a queue, and a call that did not use up its batches.
`AckedNamesAreKnown` ends with a failover. Each condition is needed: see the list
below.

One run refutes something a document says:

| Run | Refutes | Because |
|---|---|---|
| `unregistered_crash` | a crashed pool's jobs are requeued (`README.md:332`) | workers fetch before the first heartbeat |

More is refuted by the same modules with other constants or without a condition.
These have no configuration of their own; the change given here to the one named
gives the trace.

- `crash_recovery.cfg` with `Env = {"split_beat"}`: `ConcurrencyLimit`
  (`README.md:282`) fails. A reaper looks between SADD and HMSET of a first
  heartbeat (`heartbeater.go:96`) and gives back the locks of a live pool.
- `crash_recovery.cfg` with `Env = {"late_beat"}`: `ConcurrencyLimit` fails. A
  pool that is only late is reaped while its handler runs. The README of the
  repository warns that a job may run more than once; the limit is a separate
  promise. The clamp at 0 (`redis.go:213`) then parts `lock` from `lock_info`.
- `crash_recovery.cfg` with `Env = {"restart"}`: `ConcurrencyLimit` fails.
  `findDeadPools` saw the pool while it was stopping, without a heartbeat;
  `reap` cleans its locks after it was started again.
- `crash_recovery.cfg` with `ConcurrencyLimit` for all names, also those in
  `unlimited`, fails: `Start` only logs a failed SET (`worker_pool.go:321`), and
  until some pool writes the limit a name has none.
- `lifecycle.cfg` with `Names = {a, b}`, `NameOf <- J1AJ2B` and
  `Handles <- P1A_P2B`: `DeadOnlyWhenExhausted` (`README.md:353`) fails. A
  requeuer buries jobs of names its pool does not handle (`redis.go:240`).
- `unregistered_crash.cfg` with `Env = {"redis_error", "exec_failed"}`, `p1`
  stoppable and two faults: `LeavingPoolIsEmptied` fails, and so does
  `InProgressRecoverable` in `crash_recovery.cfg` with this `Env`. `Stop` logs that
  requeueing failed and then removes the heartbeat a reaper would need
  (`worker_pool.go:243`).
- `unique_keys.cfg` without the conditions: `KeyHasPendingJob` fails when a job
  with a keyMap is deleted, as `client.go:503` computes the key from the
  arguments and not from `UniqueKey`, when the caller of `DeleteScheduledJob` is
  gone before its DEL (`client.go:511`), and after an error of GET or DEL
  (`worker.go:240`). `OneJobPerKey` fails when a retried job deletes the key of a
  fresh one, and a second fresh one gets in, which the comment on
  `EnqueueUnique` admits. `LastArgumentsKept` (`README.md:262`) fails when a call
  comes between GET and DEL of a worker (`worker.go:246`).
- `periodic.cfg` with `EnqueuedOnce`, which is "all coordinate and only enqueue
  your job once" (`worker_pool.go:181`), fails: a pass that is late adds an
  instance again that the scheduler has already moved to its queue.
- `periodic.cfg` with `SeesTo(p)` for `LeavesOut(p)`: `NoInstanceMissed` fails. A
  pool leaves out its pass because one with other periodic jobs has just set
  `last_periodic_enqueue` (`periodic_enqueuer.go:122`).
- `worker_loop.cfg` with `ShownCheckinIsOfShownJob` ("a snapshot", `README.md:386`)
  fails: HMSET leaves the check-in of the job before in the hash when nothing
  was written between the two jobs (`observer.go:224`).
- `worker_loop.cfg` with `"overlap"` in `Env`: `DrainEnds` fails. `Stop` can end a
  loop before it has received from `drainChan` or answered it, and `Drain` waits
  for ever (`worker.go:95`). The invariants hold with `"overlap"` too.
- `worker_loop.cfg` with `Draining ~> ~Draining` for `DrainEnds`: fails, since `Drain`
  of a pool that is not started waits for a loop that nobody runs, until the pool is
  started (`worker_pool.go:260`).
- `dead_jobs.cfg` with `RetryAllRequeuesAll` ("requeues all dead jobs",
  `client.go:428`) fails: a batch of jobs without a queue ends the loop, and those
  behind it stay (`client.go:466`). `RetryAllIsComplete` fails without `left > 0`: the
  call also returns without error when its batches are used up.

### Bounds

Two pools are enough for one to reap the other; three for two reapers of one
pool. With limit 1 two jobs make the limit bite. One job is enough for
`NoJobLost`, which speaks of one job at a time (and is proved for any number);
two faults let one fault meet the consequence of another.
`MaxFails` 2 gives a retry and a last attempt. `MaxFaults` bounds the
counters of the locks, which drift without end if pools are reaped alive again
and again. `JobSymmetry` is used only where all jobs are alike, and for invariants
only.

Three calls on a unique key are the least that give an old job and two fresh
ones. In `enqueue_calls` the bulk call has a unique job whose key another call
wants and a plain one whose name another call makes known; two faults give a
failover in the second pipeline after a script flush. In `dead_jobs` three jobs
and batches of two give a second batch, and two names a job without a queue. Two
seconds let a job die again within the second that `RetryAllDeadJobs` has read, and
after it, so that the cap of three batches is reached. In `periodic` the sleep, jitter,
horizon and delay are in the proportion of the code
(2 + 1 + 1 + 0 < 5, for 120 + 29 + 88 + 2 < 240 seconds), and the horizon ends
between the instances. In `worker_loop` a buffer of 1 makes the worker
wait for its observer at every observation. The number of times that pools start,
stop and drain, or that a slice is sampled, is not bounded.

Deadlock is checked wherever a pool stays up. Where all pools may have stopped
or died (`crash_recovery`), where the calls run out (`unique_keys`,
`enqueue_calls`) and where the time is over (`periodic`), the system really ends.

### Fairness

`FairSpec` has weak fairness for each worker, requeuer, heartbeater, reaper,
for `Start` and for the calls of `Stop`: each is a goroutine in a loop around
a timer, or straight-line code, and a Redis call returns. It also has weak
fairness for the ageing of a heartbeat nobody renews: time passes. Handlers
return. Nothing is assumed about enqueueing, `Stop`, crashes, faults and
operators. `EveryJobEnds` is checked without an operator: one who deletes and
retries for ever, or who leaves a queue paused, keeps a job from ending.

`FairLoopSpec` has weak fairness for the loop of each worker and for the return
of `Stop` and `Drain`: goroutines that can run do run, and handlers return. It
has strong fairness for those that a select must choose to receive from (the
observer, and for each worker the goroutines of `Stop` and `Drain`, of which one at
least goes on): Go picks among ready cases at random, so a case that is ready again
and again is taken some time. Nothing
is assumed about the ticker, enqueueing or who calls what. As there are
finitely many jobs, `DrainEnds` is not about jobs that come faster than they are worked off,
which `Drain` warns of.

## What is proved

The theorems hold for all values of the constants that fulfil the assumptions
in the modules: finite sets, functions of the right type, placeholders outside
the sets they stand beside, and what is said below.

**The whole system**, for every set of pools, workers, jobs and names and all
limits. The proofs come in layers, each in a module that extends the one before:

- `JobProofs` starts with the Redis list commands (what is in a list after LPUSH,
  RPOP and LREM). It then defines `JobStep`, all that a step may do to jobs and
  locks: bring a new job, fetch one, take one back from an in-progress list, end
  one, give back the locks of a pool, drop, bury or revive a member of a sorted
  set. Its parameters say which workers may fetch, and from which pools jobs and
  locks may be taken. What follows from a `JobStep` is proved here once.
- `WorkSystemProofs` shows that each step of `WorkSystem` is a `JobStep`, and adds
  the pools. For every `Env` and `MaxFaults`, `TypeOK` is inductive (`TypeCorrect`),
  and so is `NoJobLost` with it (`JobsAreNotLost`): what leaves one key enters
  another in the same step or is settled. `PoolInv` adds what else holds whatever
  happens: only a pool that serves has working workers, a pool that has departed
  has no heartbeater, the limits are written before anyone fetches, except for the
  names in `unlimited`, jobs are filed
  under their own names. `StopLeavesNothing` says that what a call of `Stop` has
  cleared stays clear, from which `StopCleansUp` follows. `DeadAreExhausted`: only
  `jobFate` makes a job dead, and only at its last failure.
- `ReaperProofs`: a reaper takes only departed pools for dead (`ReapsDeparted`,
  through everything it has read before), and removes the traces of a pool only
  when that has no job in progress any more (`ReapsEmptied`). The second is needed
  since two reapers may be at one pool, each at another call. `NoJobStranded`
  follows from both; `RunningJobStays` from the first with `SinglePlace`: each job
  is in one place and with one worker, and is in the list of that worker's pool.
- `LockProofs`: `OnePlaceAtATime` from the same invariant. For `LocksAreExact` and
  `LimitIsKept`, `LockInv` adds that `lock` counts the positions of the in-progress
  lists, that each pool's field of `lock_info` counts its own, and that `lock` is
  within the limit for every name outside `unlimited`, a set that never shrinks. A lock is given back only for a pool with empty lists, hence
  changes nothing; every other step moves one entry and one unit of the lock.

Four hypotheses stand in some of these theorems. What they exclude are the cases
of the refutations above, in which such a conclusion is false:

| Hypothesis | Says | Needed by |
|---|---|---|
| `Timely` | no late heartbeat, no reaper between SADD and HMSET of the first one, no second `Start` of a pool | `NoJobStranded`, `RunningJobStays`, `OnePlaceAtATime`, `LocksAreExact`, `LimitIsKept` |
| `StopCallsSucceed` | no Redis call of `Stop` fails | `StopCleansUp`, `NoJobStranded`, `LocksAreExact`, `LimitIsKept` |
| `DiesRegistered` | no pool dies between `Start` and its first heartbeat | `NoJobStranded` |
| `PoolsAgree` | all pools have registered the names of all jobs | `DeadAreExhausted` |

Crashes, lost replies, failed transactions, failing reapers and operators are
allowed in all of them, in any number.

**Enqueueing** (`EnqueueCallsProofs`), for any number of calls of any kind, jobs
per call, sharing of names and keys, and faults:

- `CallsTypeCorrect`: `Orderly` says what the pipelines of a call look like.
- `AckedJobsStay`: `JobsKept` says that a job is new to Redis until its call sends
  it, also when the script has to be sent again, and is then in Redis or behind an
  earlier job of its key, unless the call ends with an error.
- `AckedNamesStay`: `NamesKept` says that a cached name is in `known_jobs`, and so is
  the name of a job whose call need not send it any more.

**Unique and periodic jobs** (`OnceProofs`). Unique jobs, for any number of calls
and workers:

- `UniqueTypeCorrect`: no worker runs the value "1" of a key in place of a job.
- `KeyIsFreed`: `KeyHasPendingJob` is inductive with the fact that the DEL of
  `DeleteScheduledJob` only comes after its script.
- `OneJobForOneKey`: `OneJobPerKey` counts too little to be inductive. `OneClaim`
  says that at most one thing at a time has a claim on the key: a queued job, a
  worker that has not deleted the key yet, or a deletion under way.
- `ArgumentsAreKept`: `KeyIsLatest` adds that the key holds the last call or
  nothing, and that a worker about to delete it has read the last call.

Periodic jobs, for any number of pools, whichever have which jobs, any schedules and
any times with
sleep + jitter + delay + window < horizon:

- `PeriodicTypeCorrect`, and `PeriodicOnceUnlessLate`: an instance is only moved
  to its queue when it is due, so only one added late can be moved again.
- `PeriodicNoInstanceMissed`: `CoverInv` says that a pass sees to all instances
  up to its horizon, that `last_periodic_enqueue` is the time of a pass all of
  whose instances are there, and that everything up to the time at which a pool
  comes back at the latest is seen to, whether or not it skips its next pass.

**The dead set** (`DeadJobsProofs`), for any number of jobs and any size of
batches and pages:

- `DeadTypeCorrect`, and `DeadJobsAreKept`: `EachJobOnce` is inductive.
- `RetryAllCompletes`: a due job that is not in the batch is behind a full one
  (`FullBatch`, from the rank of a least element), a batch that requeues nothing
  is all junk, and no command gives a job a score below the one it had
  (`ScoreInv`), so that no junk appears unnoticed. It is about calls that end before
  their cap of batches, whatever the cap.
- `PagesPartition`: a rank is below the number of jobs and so on exactly one page.

**Workers and observers** (`WorkerLoopProofs`), for any non-empty set of workers,
any set of observers, every size of the buffer and every `Env`, so also when
`Stop` and `Drain` overlap:

- `LoopTypeCorrect`: `LoopInv` adds that no two workers have one job and how
  `started` and the goroutines of `Stop` go together.
- `DrainSeesToAll`: `DrainInv` adds that an owed job in progress is with a worker
  that has not reported, and that no owed job waits once one worker has reported.
- `CheckinsAreNotDropped`: `BeliefInv` says that what the observer will believe
  after its buffer is what the worker has told, at every place of the buffer.
- `AllIsWritten`, and `StoppedShowsNothing`: `IdleInv` follows the observer from
  the end of its drain, through `stop`, to where it is off.

Only model-checked: `ImplementsLifecycle`, for which the status that `WorkRefinement`
computes would have to be followed through every `JobStep`; `PrioritySampler`, whose
sums are folds over data and would need an induction that the prover cannot do; and
all liveness properties (`EveryJobEnds`, `LeavingPoolIsEmptied`, `DrainEnds`, `StopEnds`), as the prover has no rules for fairness and `ENABLED`.

## Not modelled

- Arguments of jobs (`job.go`): conversions of single values by reflection, on a
  job that one goroutine has.
- Validation of handlers and middleware (`worker_pool.go`, `run.go`): it panics
  before `Start`, or runs inside one `RunJob` step, which succeeds or fails.
- The stop and drain channels of requeuers: `Stop` of a requeuer is one step,
  and only tests drain one.
- How long a worker sleeps and how long a retry waits: the models let any time
  pass.
- `WorkerPoolHeartbeats` and the counts and latencies of `Queues`: they read Redis
  and format what they find. The same is so for the web UI, whose handlers call
  one method of `Client` each.
- Commands, benchmarks and utilities: programs around the library, a clock that
  tests can set, random identifiers, logging.
