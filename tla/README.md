# Verification of resource-forecaster

TLA+ models of the resource-forecaster service, the TLC runs that check them and
the TLAPS proofs about them. Everything is read from the Go source; paths below
are relative to the repository. (As committed the repository does not build:
`forecaster.Engine`, the telemetry package and some methods of the storage
client are used but not there. Where such code matters it is treated as
external, by how the present code calls it.)

## 1. The system

| Component | State | Operations | Talks to |
|---|---|---|---|
| **Job scheduler** `internal/scheduler/jobs.go` | cron entries, `consecutiveFailures` (plain map), gauge `activeJobs` | `Start`, `executeWithRetry`, `healthCheck`, `Stop` | starts a goroutine per firing; calls the collector, the engine and the storage; `main` waits for `Stop` before closing the pool |
| **Collector** `internal/collector/collector.go` | per call: WaitGroup, `resultsCh`, `errorsCh` | `Collect`, `mergeMetrics` | one goroutine per gatherer, then `StoreMetrics` |
| **Storage client** `internal/storage/timescale/client.go` | the pool; the database's tables and rows | `NewClient` (5 attempts), `RunMigrations`, `StoreMetrics` (one transaction), `GetHistoricalMetrics`, `Close` | PostgreSQL |
| **Ensemble** `internal/forecaster/models/ensemble.go` | what each model was trained on, `weights`, `mu` (RWMutex) | `TrainAll`, `Predict`, `adjustWeights`, `EvaluateModels` | shared by the advisor, the handler and the scheduler |
| **Advisor** `pkg/cloud/aws/auto_scaling_advisor.go` | none | `AnalyzeASG`: `TrainAll`, `Predict`, sizing | ensemble, CloudWatch |
| **Rate limiter** `internal/api/middleware/rate_limiter.go` | local buckets (RWMutex), a Redis sorted set per key | `checkLocalLimit`, `checkRedisRateLimit`, `cleanupLoop` | Redis, shared by all replicas |
| **Router and middlewares** `internal/api/router.go`, `middleware/auth.go`, `middleware/tracing.go` | gauge of active requests, counter of requests by status, the status a wrapper remembers | `Trace`, `Recoverer`, `RateLimit`, `Timeout`, `Authenticate`, `RequireRole` around each request | handlers; may be mounted below another router (`MountRoutes`) |
| **Health handler** `internal/api/handlers/health_handler.go` | `isReady`, `lastChecks` | probes | database, Redis, S3 |
| **Forecast handler** `internal/api/handlers/forecast_handler.py` (Go, in spite of its name) | counters of forecasts and of errors | `GenerateForecast`: validate, fetch, train, forecast, answer | engine, storage |
| **Azure monitor** `pkg/cloud/azure/monitor.go`, **GPU gatherer** `internal/collector/gpu.go`, **configuration** `internal/config/config.go` | none that changes after the start | read a cloud API, `nvidia-smi`, files and the environment | |
| **main** `cmd/forecaster/main.go` | order of start and shutdown | | everything |

What is hard about it: goroutines of overlapping cron firings over a map without a
lock; channels that are drained only after everyone has sent; a read lock held
across a call that takes the write lock; two calls that belong together and are not
one critical section; a transaction whose failures are partly ignored; pipelines of
several replicas that Redis interleaves; a token bucket that is used outside the
lock under which it is deleted; metrics that depend on the order in which
middlewares wrap one another, panics and missed deadlines included; retries after a
reply that was lost; and shutdown, which waits for all of that. `PROJECT.json` lists
each of these hazards at its line with the properties aimed at it.

### What makes each component correct

- *Scheduler*: every failure of a job is counted before its next attempt, a
  success resets the count, and a run that gives up raises an alert exactly if 3 *
  maxRetries attempts have failed in a row; the gauge counts runs; nothing runs once
  `Stop` has returned; `Stop` returns, unless a ping without a deadline never does.
- *Collector and storage*: a sample is stored whole, but perhaps for its GPU rows,
  or not at all, with all that was gathered and has a table; success means stored,
  and failure that a call to the database failed, the deadline passed or a table is
  missing; a firing stores one sample; the call returns.
- *Ensemble*: calls return and give back their lock; no goroutine outlives its
  call; the verdict of `TrainAll` is right; a forecast is one of the caller's
  own history, and lies between the answers it combines.
- *Advisor*: the sizes it recommends make a group: at least one instance, the
  maximum not below the minimum, and the desired size between them, up to an error
  of rounding, if an int32 holds them.
- *Rate limiter*: a request whose pipeline was executed counts for a window; none is
  refused for the past; a window admits by count no more than the limit and one for
  each further client (requests let through as Redis failed are not counted); an
  address has one bucket, admits its burst and a request per tick, and nothing
  is granted twice by the cleanup.
- *Router, middlewares, forecast handler*: the gauge counts the requests in
  progress; the counters agree with the statuses net/http was given; a forecast
  request counts once; who holds an allowed role is served.
- *main*: it starts or gives up; what it serves has a pool and a scheduler; jobs
  keep the pool to their end; a process told to end ends, and leaves no pool.
  Starting and ending rest on calls without a deadline: a database that hangs for
  ever can keep `main`.

## 2. Modules

| Module | Models | Kind |
|---|---|---|
| `Scheduler` | `Start`, cron, `executeWithRetry`, `healthCheck`, `Stop` | component |
| `FailureStreak` | what `executeWithRetry` promises of one job | abstract specification, implemented by `Scheduler` |
| `JobService` | what `main` may expect of the scheduler: jobs run between `Start` and `Stop` | abstract specification, implemented by `Scheduler`, part of `Lifecycle` |
| `SchedulerProofs` | theorems about `Scheduler` | proofs |
| `Ensemble` | `TrainAll`, `Predict`, their lock, and callers like `AnalyzeASG` | component |
| `EnsembleProofs` | theorems about `Ensemble` | proofs |
| `Recommendation` | the combination of `Predict`, `generateRecommendation`, loop by loop | component |
| `RecommendationProofs` | theorems about the combination and the sizes | proofs |
| `Collection` | `RunMigrations`, `Collect`, `StoreMetrics` under the retries of `executeWithRetry` | composes collector, storage and retry loop |
| `SampleStore` | what `Collect` and `StoreMetrics` promise together: whole samples, stored at once | abstract specification, implemented by `Collection` |
| `CollectionProofs` | theorems about `Collection` | proofs |
| `RequestChain` | `NewRouter`'s middlewares, authentication and handlers around a request | composes router, tracing, limiter, authentication, health and forecast handlers |
| `RequestChainProofs` | theorems about `RequestChain` | proofs |
| `SlidingWindow` | `checkRedisRateLimit` of all replicas on one key | component |
| `SlidingWindowProofs` | theorems about `SlidingWindow` | proofs |
| `LocalLimiter` | `checkLocalLimit` and `cleanupLoop` | component |
| `LocalLimiterProofs` | theorems about `LocalLimiter` | proofs |
| `Lifecycle` | `main`, `NewClient`, `Close`, the readiness check, and the users of the pool | composes start, server, scheduler (as `JobService`) and pool |
| `LifecycleProofs` | theorems about `Lifecycle` | proofs |
| `MC_*` | model values, small sets, symmetry | instances for TLC |

Definitions marked "Mutant" are plausible bugs in the definition below them.
None is part of a specification; each belongs to a property (see
`PROJECT.json`), which TLC finds violated when the mutant takes the place of the
real definition.

### Scheduler

A member of `Runs` is a goroutine cron starts for a firing. `pc` follows it
through `executeWithRetry`: `spawned`, `calling` (inside `jobFunc`), then either
`reset` (line 192) and `leaving`, or `read`, `write` (the two halves of
`consecutiveFailures[jobName]++`, line 217), `backoff` or `exhausted` (line 249),
and `leaving` (the deferred decrement of line 183). `Overlapping` are the jobs
whose interval is shorter than their longest run. cron is created without
`SkipIfStillRunning` (line 85), and three attempts of 60 s with back-offs of 30 s
and 60 s take 270 s, so `metric_collection` at its default interval of 60 s is
one. Two goroutines inside the map, one of them writing, are a data race: the
runtime may notice and kill the process (`FatalMapAccess`, after which nothing
moves), or the accesses take effect in some order. A torn map is not modelled.
`failedInARow` and `alerts` are history variables. `HealthCheck` is a job outside
`executeWithRetry`, whose ping runs under `context.Background()` (lines 107, 400):
it may return and need not.

`FailureStreak` sees a job as obligations. An attempt leaves something `due`
(`count`, `reset`), a failure that exhausts the run leaves `give up`, and nothing
else happens to the job before that is done, with an alert exactly when
the streak has reached 3 * MaxRetries. So a count that is lost or repeated, a reset
that is missed, and an alert that is early, late or missing are no steps of it.
`ImplementsStreak` maps the map's entry to `streak`, the point of the job's goroutine
to `due`, and its loop variable to `tries`.

### Ensemble

A caller does what `AnalyzeASG` does: `TrainAll` with its own history and, if
that returns no error, `Predict`. `fitted[m]` is whose history model `m` was last
trained on; `working[c]` are the goroutines of `c` that have not reached
`wg.Done`. `readers` and `pending` are the RWMutex as Go implements it: a `Lock`
that finds readers blocks later `RLock`s until the readers have left. The
`ForecastingModel` implementations are not in the repository; a model keeps what
its last successful `Train` gave it, and an untrained one returns an error.

### Collection

One replica: the process migrates the database, cron fires, `Collect` runs its
gatherers, merges and stores; on an error `executeWithRetry` calls it again from
its start. Gathering and storing share the context of 60 s that `collectMetrics`
makes for the call (jobs.go:260): `Expire` may come at any point of it, and then
every call to the database fails, a commit perhaps after it has taken place. A sample
is the set of parts that gatherers have supplied, and a row is a pair of sample and
table; a part without a table, such as the container statistics, is merged and never
stored. PostgreSQL is external: a statement fails if its table is missing, if the
transaction is already aborted, if the time is up, or by a fault; a commit may
fail, or take place and lose its reply. The failure of a GPU insert is only logged:
it leaves the transaction aborted or, if the client refused the statement itself,
open and without those rows. `todo` are the statements still to
execute, `Upcoming` the first of them in the `Order` of the code. `Databases` are
the sets of tables there may be before `RunMigrations`, which creates one of the
six. `faultsBefore` tells the faults of this attempt from those of earlier ones.

`ImplementsSampleStore` maps this to `SampleStore`: the call is `working` from the
first goroutine to the end of `StoreMetrics`, and the rows of the six inserts come
into the database in one step, when the transaction commits, with all that this
call's gatherers have supplied and that has a table (`Stored`), but perhaps what may
be left out (`Optional`, the GPU's). Success means that they came; a failure leaves
it open, because of the commit whose reply is lost.

### Recommendation

The models answer or fail one after the other, an answer may be shorter than the
horizon, and the forecast is the average of those who answered for a step, or the
answer of one model. The loops of `weightedAverage` (over steps, and over answers
within a step) and of `generateRecommendation` (over the forecast) are steps, with
`at` and `seen` as their indices, so that what they accumulate has an invariant. `Sizes` is `generateRecommendation`'s arithmetic: the lowest
value scales the minimum, the mean the desired size, the peak with a margin of
20 per cent the maximum; each is rounded up, minimum and desired are raised to 1,
the maximum to the minimum. A float64 is an integer in units of 1/`Scale` per cent
(`Scale` is divisible by every number of answers there can be, so that a mean is an
integer too), or `NotFinite`, which stands for NaN and the infinities: arithmetic
keeps it, and a comparison with it may go either way (`Less`). Of the error of
floating point the model keeps where it matters: a quotient that is an integer may
come out a little higher and be rounded up to the next (`RoundedUp`). The conversion
to int32 (`Int32`) keeps an integer in its range; of any other, which Go leaves to the
implementation, it makes the least int32, as amd64 does, or the nearest, as arm64
does, and of NaN the least one or 0. Each size is an independent choice among what
these allow. The error of the mean itself, in its last digits, is not modelled. Weights are equal, as `NewEnsemble` sets
them: the one place that changes them never returns (`ensemble_dynamic`).

### RequestChain

`pc` follows a request inwards through the handlers as `NewRouter` nests them:
`trace`, `limit` (inside `Trace` and `Recoverer`), `route` (inside `Timeout`),
`authenticate`, `role`, `handler`, and `fetch`, `train`, `predict` of
`GenerateForecast`; and outwards through `leave` or `panicking` (`Timeout`'s
deferred function), `recover` and `record` (the rest of `Trace`). `header` is the
first status that net/http is given, which is the one it sends; `statusCode` what
the wrapper of `Trace` remembers, the last. The deadline may pass at any point
inside `Timeout`; chi's middleware only cancels the context, so that the handler
goes on and 504 is written after its answer. The `WriteTimeout` of the server is as
long (main.go:112) and starts before, so that what is written past the deadline
never reaches the client: `forecast` follows what becomes of an answer with a
forecast, `written` into net/http's buffer, or `lost` as it cannot be encoded, and
in the end `received` or `lost` (`Flush`; the client may also be gone). A path or
method without a handler gets 404 or 405, and a preflight is answered by the CORS
middleware, behind the limiter and before any route. A handler may panic before or
after its status was written.

The context a request comes with, its id and claims, is an input, because
`MountRoutes` hangs this router below another one, which may have set them.
`NewRouter` itself sets neither where `Trace` and `RequireRole` look: `Trace`
asserts a string under its own key (`TracePanics`, outside `Recoverer`), and
`validateJWT` stores the claims in a copy of the request. A stand-alone router
thus serves no request at all; the input `id` is TRUE for those that came through
a router that sets it. The handlers of metrics and of administration are not in
the repository; they answer or panic.

### SlidingWindow

A client is a goroutine of any replica that serves a request. Each command of its
pipeline (`RemoveExpired`, `Count`, `Add`, `Expire`) is one step, as a pipeline is
not a transaction. The member of the sorted set is what `time.Now()` gives on
arrival, a tick and a nanosecond in it (`stamp`), and not unique: two requests of
one nanosecond share their entry. Its tick is the score. Each client takes it from
its own replica's clock, which is `Ahead` of the slowest by at most `MaxSkew`. The
request may then wait up to `MaxDelay` ticks, a bound of the model that may be
longer than the window, before it begins its pipeline; a pipeline that has begun is
executed within a tick, and one that was given up no further. go-redis may send all
of it again when a reply is lost (`Resend`), with the same stamp, after any number
of commands; so a request may find its own entry. `Exec` may fail at any point
(`ExecFails`): the request is let through all the same (fail open), and `failedOpen`
records those.

### LocalLimiter

A request looks for its address's bucket under the read lock (`Lookup`), makes one
under the write lock after a second look (`Create`), then, without a lock, writes
`lastUsed` (`Touch`) and takes a token (`Allow`); `Cleanup` deletes stale buckets
under the write lock at any time. A bucket, once made, keeps its number, so that a
request can hold one that the map no longer has. Three history variables are there
for the properties: `deletedInUse` has, by address, each request whose bucket was
deleted while it held it, with that bucket; `admitted` counts admissions, and
`before` is what it was when each tick began.
`golang.org/x/time/rate` is external. A tick is the time in which a bucket gains a
token, and a request is held up between two steps by at most `MaxDelay` ticks.
`RefillAssumption` says of the code's numbers that a stale bucket had time to
fill within the 15 minutes of the code: the rate is in requests per second, so it
holds for any burst below 900 times the rate.

### Lifecycle

`main` holds the call `main` is about to make, or how the process ended (`clean`,
`fatal` for `log.Fatal` and a runtime error, `killed`). The users of the pool are
cron jobs, requests and the goroutine of `NewHealthHandler`; each is `off`,
`busy`, in a `query` (it holds a connection) or has it `answered`. The scheduler
takes part through the actions of `JobService`, with its running goroutines mapped
to the jobs in use; so what `Lifecycle` assumes of it is what `Scheduler` is
checked and proved to do. pgxpool, net/http and Kubernetes are external: a closing
pool hands out nothing and waits for what it has lent; `Shutdown` closes the
listener and waits for requests in progress; SIGTERM before `signal.Notify`, or
SIGKILL after the grace period, end the process at once. Time is left out, but for
one order: `Shutdown` gives up after 30 s, before the grace period of 60 s ends. The
database is `up`, `down` (it refuses) or `hung` (it takes a connection and does not
answer). A call with a deadline fails when it is hung; three callers have none
and wait: `RunMigrations` (client.go:358), the readiness check
(health_handler.go:88) and the job `healthCheck` (jobs.go:400). A server may fail at
any time after its start (`log.Fatal` in its goroutine), a migration by its SQL or
permissions too, and an attempt of `NewClient` before there is a pool.
`checkAllDependencies` fails exactly when the database does not answer: the other
two dependencies are not critical. Router construction does nothing else to this
state.

## 3. Runs

| Run | Instance | Shows |
|---|---|---|
| `scheduler` | 2 goroutines, 3 jobs (one overlapping, one alone, the health check), 2 attempts, 4 firings | all properties of the scheduler, for jobs that never overlap themselves next to one that does, and the refinements of `FailureStreak` and `JobService` |
| `scheduler_alert` | the same, with symmetry | **violation**: the same claim about the overlapping job |
| `ensemble` | 2 callers, 2 models, three strategies | locks, joins, verdict, own forecasts of calls not overlapped, calls return |
| `ensemble_dynamic` | dynamic strategy only | **violation**: `Predict` never returns |
| `collection` | gatherers for the disk, the GPU and containers, 2 attempts, 3 calls of `Collect`, 1 fault; a complete database, one without the GPU table, a fresh one | the refinement of `SampleStore`, whole samples, attempts justified, one sample per firing, calls return |
| `recommendation` | 3 models, horizon 2, 4 levels and not finite, 5 groups, greatest int32 7, average and best model, models symmetric | forecasts lie between the answers, sizes are in order |
| `requests` | 2 requests, 16 arrivals, symmetric | gauge and counters agree with the statuses given, forecasts are counted once |
| `requests_role` | the same | **violation**: a valid token of an allowed role gets 403 |
| `sliding_window` | 2 clients, one a tick ahead, limit 1, window 3, delay 1, 3 requests, 7 ticks of 3 nanoseconds, symmetric | counting for a window, bounded overshoot, justified refusals |
| `local_limiter` | 3 requests of one address, symmetric, burst 2, stale after 3 ticks, delay 1, 7 ticks, 2 buckets | one bucket, a forgotten bucket is full, the burst is respected |
| `lifecycle` | 2 jobs, one a health check, 2 requests, 5 attempts, the database (up, down or hung) changes twice | start decides, requests and jobs keep the pool, one pool, termination unless the database hangs for ever |
| `lifecycle_ready` | no jobs or requests | **violation**: unready for ever |

**Why the bounds are enough.** *Scheduler*: an alert takes 3 * MaxRetries = 6
failures, that is 3 runs of 2 attempts; the 4 firings leave one for a run that
succeeds in between, or for a run that alerts again. The lost update needs 2
goroutines. *Ensemble*: two callers are what interference needs, two models what a
partial failure needs; the calls of a caller are not bounded. *Collection*: one
firing uses up its 2 attempts and a second one starts; one fault and the deadline of
each call allow a lost reply and a further failure. The gatherers are those that
tell parts apart: `disk` is inserted when it was supplied, `gpu` fails without an
error, `containers` has no table; the tables written unconditionally need no
gatherer. *Recommendation*: three models give full, short and missing answers in one
forecast; the levels are a value below zero, idle, the target of 65 and far above
it, and one that is not finite; the groups are empty, of one, wide, and two near the
greatest int32 of the instance, so that quotients fall below, on and above it, with
and without their error. A model's name matters to its goroutine only, hence the
symmetry. *RequestChain*: the arrivals take every branch of the chain
(`MC_RequestChain` lists them); two requests share the metrics, and no step depends
on a third. *SlidingWindow*: limit 1 is reached, passed by the race and reached
again in a later window (7 ticks hold two windows of 3 and the expiry of 6); 3
requests are one more than limit plus overshoot, and 3 nanoseconds let all of them
differ or share one; the delay and the skew of a tick each leave one tick of the
window for the overshoot. *LocalLimiter*: the race for a first bucket takes two
requests of one address, and three let two of them hold a bucket that is deleted
while the third has its successor made; 7 ticks let a bucket get stale, be deleted
in use and be replaced. *Lifecycle*: the attempts are those of the code; two changes
let the database fail during the start and come back, or come up and fail later;
with two jobs and two requests one can hang or hold the pool while another ends, and
each is used again without bound.

`CHECK_DEADLOCK FALSE` is set everywhere: a system whose firings, samples,
requests or ticks are used up, which has stopped, or whose process is dead really
rests.

**Fairness.** A goroutine that can run does (weak fairness of each goroutine's
step). For the scheduler this includes the return of a `jobFunc` of
`executeWithRetry`, as each of those runs under a context with a timeout, and the
end of a sleep. Nothing is assumed of the health check, whose ping has no deadline:
`RunReturns` leaves its runs out, and `StopReturns` holds unless one of them hangs
for ever. Nothing forces cron to fire or `main` to call `Stop`. For the ensemble it
is weak fairness of a caller with its goroutines; readers do not exclude one
another, so `RLock` needs no more. For `Collection` the calls return under the 60 s
context. `SlidingWindow`, `LocalLimiter`, `RequestChain` and `Recommendation` state
no liveness: their steps wait for nothing but locks held for a step, and handlers
run without a timeout of their own. For `Lifecycle` `main` goes on where a step of
it is possible, which a call without a deadline is not while the database hangs; so
do jobs and the readiness check, and the query of a request comes back. A request
may hang otherwise, the database may stay down, and nothing forces a signal or the
kill. `StartDecides` and `TermEnds` hold without them, unless the database hangs for
ever (`HangsForEver`); that alternative is real, as the code has nothing against it.

**Disagreements found.** Four runs end in a violation; `PROJECT.json` "findings"
quotes what each contradicts.
1. `scheduler_alert`: an alert about "failing consistently" although a success
   lies in between, by a lost update on `consecutiveFailures`.
2. `ensemble_dynamic`: the dynamic strategy deadlocks with itself.
3. `lifecycle_ready`: readiness is decided by one check, and a service whose
   database comes back a moment later never takes traffic.
4. `requests_role`: the claims of a token do not reach `RequireRole`.

**Known behaviour** that the properties of passing runs allow for, and that a
reader might not expect:
- The migrations create one of six tables; on a fresh database every attempt to
  store fails, as `AttemptJustified` admits for a missing table.
- The warning about a failed GPU insert hides an aborted transaction, whose commit
  then fails: the whole sample is lost (`WholeSamples`, `AttemptJustified`). If
  the client itself refused the statement, the sample is stored without those rows.
- A slow gatherer uses up the 60 s that storing shares with it, and the sample is lost
  with the database in good health (`AttemptJustified`).
- Container statistics are gathered and merged and never stored
  (`ImplementsSampleStore` asks for parts with a table).
- A database that hangs keeps for ever what waits for it without a deadline: `main` in
  `RunMigrations`, and `Stop` or `Close` in a health check or the readiness check
  (`StopReturns`, `StartDecides`, `TermEnds`).
- A commit whose reply is lost makes the retry store a second sample of the same
  firing (`StoredOncePerFiring`).
- `TrainAll` and `Predict` are not one critical section, so that calls that overlap
  may get a mixture, and a model whose training failed answers from an older fit:
  `OwnForecastAlone` speaks of calls that no other overlapped, and of the models they
  have trained.
- The pipeline meant to be atomic is not: a window, less the delay and the skew of the
  clocks, may admit by count one request more than the limit for each further client
  (`OvershootBounded`). Requests of one nanosecond count as one, and while Redis fails
  all are let through: neither has a bound.
- A request whose pipeline was sent again counts itself, and may be refused with one
  other request less than the limit in its window (`RefusalJustified`). A delay and
  a skew that add up to more than the window can also put older requests into a count.
- A request whose bucket is deleted while it holds it may be admitted on top of what
  burst and rate allow its address (`BurstRespected`).
- A request with two statuses, as its deadline passed or it panicked after its answer,
  counts as 504 or 500 whatever net/http was given first (`CountersMatchAnswers`). Past
  the deadline neither the answer nor the 504 reaches the client, as the server's
  `WriteTimeout` has passed before.
- Any number of a forecast that is NaN or infinite, such as the anomaly scores of a
  flat history, loses its JSON; the status is 200, and it counts as a success, as does
  one whose client is gone (`ForecastsCountedOnce`). The help text of the counter,
  "Total number of forecast requests" (forecast_handler.py:93), is wider than what it
  counts, the successes.
- By an error of rounding the recommended minimum may be one above the desired size,
  in a group that had as many instances as its minimum: for a constant forecast of
  75.4 per cent and 50 instances float64 gives 59 and 58 (`SizesOrdered`).
- A size that no int32 holds, or of NaN, becomes 1 (or the maximum the minimum) on
  amd64 and the greatest int32 on arm64; the desired size can then be above the maximum
  or below the minimum (`SizesOrdered` asks otherwise only if the quotients are
  `Representable`).

## 4. Proofs

`tlapm` checks every theorem, for every value of the constants. The assumptions
are those named in the modules (finite sets, positive bounds, `NoJob` and
`Nobody` outside the sets they extend, jobs, requests and the readiness check
different from one another, clocks at most `MaxSkew` ahead, a bucket that refills
before it is stale, `NotFinite` that is no integer, a `Scale` divisible by every number
of answers). Every safety invariant and every action property of the passing runs,
and every refinement, is a theorem.

**SchedulerProofs.** `TypeCorrect` needs the strengthening that an attempt at
`calling` to `backoff` lies in `1..MaxRetries` and that at `backoff` it is below
MaxRetries. `GaugeCorrect` follows step by step from a lemma that moving one
goroutine across the border of `Counted` changes the cardinality by one.
`CountCorrect` is the heart: `CountExactAlone` says what the map holds only when
no goroutine is in between, so it is not inductive. `CountInv` adds `AloneOnce`
(a job that does not overlap has one goroutine at most, from the guard of `Fire`)
and `Settled` (what a goroutine owes to the map at each point, including that the
value it has read is still the value in the map). From it follow `AlertCorrect`
and `SchedulerImplementsStreak`: a `jobFunc` that returns maps to `Attempt`, the write
to the map to `Count`, the reset to `Reset`, the check of the threshold to `GiveUp`,
and all else, the steps of other jobs included, to a stutter. As a job that is alone
has one goroutine at most (`RunAlone`), where that one is says what is due.

`SchedulerImplementsJobService` is the link to `Lifecycle`: a goroutine leaves
`InFlight` only by `HealthCheck` or `Leave`, and enters it only by `Fire`.

`RunsRunOut` is what `RunReturns` and `StopReturns` rest on: `StepsLeft` bounds the
steps of a goroutine by its attempts, each of its steps lowers that number, and no
step of another goroutine changes it. That the ping of a health check is ever answered
is no part of it.

**EnsembleProofs.** `Inductive` adds to the checked invariants `Tally` (while
training, errors + models learnt + goroutines at work = models), which gives both
the verdict and that a send on `errCh` never blocks; and that a pending lock
belongs to a reader, so that no `RUnlock` ever hands it over. `SelfDeadlock` says
from the same invariant that a caller in `adjustWeights` stays there, for any
number of callers and any schedule. `OnlyDynamicWaits` says the rest of the lock: with
another strategy no `RLock` ever waits, since only `adjustWeights` asks for the write
lock (`NoLockAsked`). `PredChSuffices` does for `predCh` what `ErrChSuffices` does for
`errCh`, from `RoomForAnswers`: models at work and answers in the channel are
together at most the models. `CallsRunOut` bounds the steps of a call by the number
of models. `AloneCorrect` needs `AloneInv`: while a call
is alone all others are outside, and the models it has trained hold its history.

**LifecycleProofs.** None of the checked invariants is inductive: whether a job
loses the pool depends on where `main` stands. `Position` says what that decides
(pool, scheduler, server), `Progress` where requests and jobs may still be in use;
with `OnePool` and the two properties about `lost` they are inductive, one lemma
for each of starting, ending, platform and users. `ServedIsWired` follows.
`MainRunsOut` says that `main` never goes back: `MainLeft` counts three steps for
each attempt of `NewClient` that is left and one for each later call, every step of
`main` lowers it and no other step raises it.

**CollectionProofs.** `GatherInv` says that what was supplied is in the channel or
merged, wherever `Collect` stands, and that nobody is at work once the channels are
closed; `ContentInv` carries this to the end of the call: what is stored is what was
gathered. `FiringInv` adds that before a success a firing has as many commits as
lost replies. The other two are not inductive, since a half-done transaction is in
no property: `StoreInv` adds `TransactionInv` (an open transaction holds exactly the
rows of the statements that are done, but perhaps the GPU's), `RowsInv` (no row of a
sample before its commit) and `ReasonInv` (an aborted transaction has its reason, a
fault, a missing table or the deadline, which the attempt inherits when it fails).
`CollectImplementsSampleStore` needs both (`PromiseInv`): from what was gathered to
the content of the sample, and from its content to the rows of the commit. Only a
commit changes the committed rows, and `CommitIsStore` shows that it adds all of the
sample's that have a table at once.

`NoSendBlocks` comes from `RoomInv`: a result or an error takes the place of the
goroutine that sends it, so that neither channel, both of the size of the set of
gatherers, is ever full for a sender. `CallRunsOut` bounds the steps of a call by
its gatherers and the six tables. All of this holds for every set of gatherers and
of databases.

**RequestChainProofs.** `StepLocal` and `StepAside` say that a step of one request
changes nothing of another; what is left is arithmetic on one request. `GaugeInv`
follows from moving one request across the border of `InTrace`. `AnswerInv` adds
that a request has no status until it has its answer, that from then on net/http and
the wrapper have the same one, and that behind `Timeout` and `Recoverer` they differ
only for requests that may have been given two (`Twice`); with it each counter is what
`Trace` recorded. `ForecastInv` adds that only an accepted request is in the middle of
`GenerateForecast`, and that only one answered with 200 has a forecast; each step then
either counts its request as what it is answered or leaves its answer alone.

**SlidingWindowProofs.** `ReqInv` says that requests are stamped by their client's
clock, which is between the slowest one and `MaxSkew` ahead, that no two clients
serve the same one, how late one can be, and that an entry of the set is the stamp
of a request whose ZADD was executed. `KeepInv` says that what was added stays for a
window, although delayed clients remove by older clocks, those ahead by later ones,
and the key has an expiry: the expiry set last is not before the end of the window
of anything added before it. `RefusalInv` bounds a count already taken by the
arrivals up to the `Horizon`, which only grow, and by the request itself if it was
sent again. The horizon is a window, or further if one request may be added late
while another counts. `OvershootInv` counts the stamps of the requests that pass,
admitted by count or going to be, in windows shortened by the delay and the skew: a
client that reads a count below the limit has all of them in its count except those
of the other clients that are in their pipelines, hence limit plus clients minus
one. No relation between delay, skew and window is assumed.

**LocalLimiterProofs.** `BucketInv` adds to `OneBucketPerIP` that who holds a bucket
holds one that was made, and that only such buckets were deleted.
`CleanupForgetsNothing` needs both sides of the race: `FreshInv` (who is about to
take a token has written `lastUsed` in its last step, at most `MaxDelay` ago) and
`RefillInv` (a bucket that is not full has gained a token for every tick since
`lastUsed` but `MaxDelay`). The mutant that omits the write of `lastUsed` breaks
exactly this.

`BurstCorrect` needs more than the bucket in the map. `MapInv` says that no two
addresses share a bucket, that a deleted one never comes back, and that a request
keeps none once it has returned. `BurstInv` counts what an address still has in its
bucket (or would have in a new one) as admitted, and a deletion only when its
request has returned: what is admitted from a deleted bucket is paid for by
this return (`Paid`, step by step), a deletion changes nothing as what it forgets is
full, and a tick adds at most one. The bound of one for each request, and not one
in all, is what the proof asked for, and with three requests TLC shows that a
smaller one is false.

**RecommendationProofs.** Neither property holds of a half-done loop.
`CombinationCorrect` needs `SumInv`, the invariant of `weightedAverage`'s inner loop
(the sum so far is between two of the answers it contains, times their number, or is
0 as none had the step), with `SumGrows` for one more answer; the exact division by
the number of answers, which `ScaleAssumption` allows, then gives a mean between
the two, as far as they are finite. `SizesCorrect` needs `ScanInv`, that the sum of the
values seen, if finite, is between their lowest and the peak times their number. With
this `SizesMakeAGroup` applies: rounding up is monotone (`CeilMonotone`), the error of a
quotient is worth one instance at most (`CeilError`), and what is not above the
greatest int32 is converted as it is, as far as a clamp to 1 can tell
(`Int32Value`, `CapacityValue`). The margin of 20 per cent then makes up for the error
between desired size and maximum (`BufferSuffices`); between minimum and desired size
nothing does unless the group had more instances than its minimum
(`MinimumBelowDesired`). That there is at least one instance and no maximum below the
minimum needs none of this (`SizesAtLeastOne`). Both theorems hold for any models,
horizon, levels, groups and greatest int32.

`StoppedIsQuiet`, `NoJobAfterStop` and `CountExactAlone` of `Scheduler` are proved
(`StopWaits`, `StopIsFinal`, `CountCorrect`) and are not among the properties of a
run, where `ImplementsJobService` and `AlertExactAlone` say more.

**Only model-checked** is liveness, which is out of this prover's reach, as is
ENABLED. Of each such property its core is proved: how many steps can be left is a
natural number that the process's own steps lower, and no send or lock keeps it.

| Liveness, checked by TLC | Proved core |
|---|---|
| `RunReturns`, `StopReturns` | `RunsRunOut`, `StopWaits` |
| `CallReturns` | `CallsRunOut`, `OnlyDynamicWaits`, `ErrChSuffices`, `PredChSuffices` |
| `CollectReturns` | `CallRunsOut`, `NoSendBlocks` |
| `StartDecides`, `TermEnds` | `MainRunsOut` |

What TLC adds on its instances is that a step is enabled as long as some are left,
that weak fairness then takes it, and, for `TermEnds`, that the users of the pool
give back what `main` waits for.

## 5. Not modelled

- The Azure monitor: queries of a cloud API, without state. The CloudWatch half of
  the advisor likewise.
- Configuration: values are read once and given to the models as constants; `Load`
  fails or not before `Lifecycle` begins. That secrets are put in with `Set`, which
  in viper outranks the environment, is a matter of precedence without states or
  steps.
- The GPU gatherer's parsing: in `Collection` it supplies its part or nothing.
- `EvaluateModels`, `RequirePermission` and `GenerateToken`, which nothing in the
  repository calls.
- The loops of `trainModels` and `evaluateModels` and `enforceDataRetention`: they
  call an engine and methods that are not in the repository. In `Scheduler` they are
  a `jobFunc` that succeeds or fails. `trainModels` returns nil whatever its hosts
  do, so that a training run in which all hosts failed counts as a success; a
  property of the loop could only restate that.
- CORS but for the answer to a preflight, logging, otelchi, response headers, spans
  and histograms: output only.
- Formatting of recommendations, the forecasts' own arithmetic beyond their
  combination, and the cost estimate.
- Deployment, Terraform, CI and the load test; the grace period of the deployment is
  the `Kill` of `Lifecycle`.

## 6. Plan

Done: the scheduler and its two abstract specifications, the ensemble, collection
and storage, both tiers of the rate limiter, start and shutdown, the request
chain, the combination of forecasts and the sizes; the safety of each and the
three refinements for every instance.

Left:
1. An abstract counter that `SlidingWindow` implements up to its overshoot, and an
   instance of `RequestChain` whose refusals are those of `LocalLimiter`.
2. `Lifecycle` with several replicas, so that the limiter's clients come and go.
3. `trainModels` over hosts, once the engine it calls is in the repository.
