----------------------------- MODULE Scheduler -----------------------------
(***************************************************************************)
(* The job scheduler, internal/scheduler/jobs.go: the cron entries of      *)
(* Start, the retry loop of executeWithRetry, the shared map               *)
(* consecutiveFailures and the gauge activeJobs, and Stop.                 *)
(*                                                                         *)
(* cron v3 starts one goroutine per firing and, as the scheduler installs  *)
(* neither SkipIfStillRunning nor DelayIfStillRunning, a job whose         *)
(* interval is shorter than its longest run overlaps itself.  A member of  *)
(* Runs is such a goroutine; it is reused when its job has returned.       *)
(*                                                                         *)
(* consecutiveFailures is a plain Go map touched by all of them without a  *)
(* lock.  m[k]++ is a map read followed by a map write, so it is two steps *)
(* here; and the runtime may notice two goroutines inside the map, one of  *)
(* them writing, and kill the process (FatalMapAccess).                    *)
(***************************************************************************)
EXTENDS Integers, FiniteSets

CONSTANTS
    Jobs,          \* the names given to the cron entries of Start
    PlainJobs,     \* entries that do not go through executeWithRetry
    Overlapping,   \* jobs whose interval is shorter than their longest run
    Runs,          \* goroutines started by cron
    MaxRetries,    \* JobScheduler.maxRetries
    MaxFires,      \* bound: how often cron fires in a behaviour
    NoJob

ASSUME JobsAssumption == PlainJobs \subseteq Jobs /\ Overlapping \subseteq Jobs
ASSUME NoJobAssumption == NoJob \notin Jobs
ASSUME RunsAssumption == IsFiniteSet(Runs)
ASSUME RetriesAssumption == MaxRetries \in Nat \ {0}
ASSUME FiresAssumption == MaxFires \in Nat

VARIABLES
    cron,                 \* "new", "running", "stopping", "stopped" or "dead"
    job,                  \* the entry a goroutine runs
    pc,                   \* where it is in executeWithRetry
    attempt,              \* its loop variable
    seen,                 \* the count it read from the map
    consecutiveFailures,  \* JobScheduler.consecutiveFailures
    activeJobs,           \* JobScheduler.activeJobs
    fires,                \* how often cron has fired
    failedInARow,         \* history: failures of a job since it last succeeded
    alerts                \* history: the alerts logged for a job

vars == << cron, job, pc, attempt, seen, consecutiveFailures, activeJobs,
           fires, failedInARow, alerts >>

Points == {"idle", "spawned", "calling", "reset", "read", "write", "backoff",
           "exhausted", "leaving"}

\* The points between the two activeJobs.Add of executeWithRetry.
Counted == Points \ {"idle", "spawned"}

\* The points at which the next step is an access to consecutiveFailures.
MapWrites == {"reset", "write"}
MapAccesses == MapWrites \union {"read", "exhausted"}

AlertThreshold == MaxRetries * 3

InFlight == {r \in Runs : pc[r] # "idle"}

RunsOf(j) == {r \in InFlight : job[r] = j}

Init ==
    /\ cron = "new"
    /\ job = [r \in Runs |-> NoJob]
    /\ pc = [r \in Runs |-> "idle"]
    /\ attempt = [r \in Runs |-> 0]
    /\ seen = [r \in Runs |-> 0]
    /\ consecutiveFailures = [j \in Jobs |-> 0]
    /\ activeJobs = 0
    /\ fires = 0
    /\ failedInARow = [j \in Jobs |-> 0]
    /\ alerts = [j \in Jobs |-> 0]

-----------------------------------------------------------------------------
\* cron

Start ==
    /\ cron = "new"
    /\ cron' = "running"
    /\ UNCHANGED << job, pc, attempt, seen, consecutiveFailures, activeJobs,
                    fires, failedInARow, alerts >>

Fire(r, j) ==
    /\ cron = "running"
    /\ fires < MaxFires
    /\ pc[r] = "idle"
    /\ j \in Overlapping \/ RunsOf(j) = {}
    /\ job' = [job EXCEPT ![r] = j]
    /\ pc' = [pc EXCEPT ![r] = "spawned"]
    /\ fires' = fires + 1
    /\ UNCHANGED << cron, attempt, seen, consecutiveFailures, activeJobs,
                    failedInARow, alerts >>

\* cron.Stop(): no entry is started any more ...
Stop ==
    /\ cron = "running"
    /\ cron' = "stopping"
    /\ UNCHANGED << job, pc, attempt, seen, consecutiveFailures, activeJobs,
                    fires, failedInARow, alerts >>

\* Mutant: Stop does not wait for ctx.Done().
StopWithoutWaiting ==
    /\ cron = "stopping"
    /\ cron' = "stopped"
    /\ UNCHANGED << job, pc, attempt, seen, consecutiveFailures, activeJobs,
                    fires, failedInARow, alerts >>

\* ... and <-ctx.Done() returns when every started goroutine has returned.
StopDone ==
    /\ cron = "stopping"
    /\ InFlight = {}
    /\ cron' = "stopped"
    /\ UNCHANGED << job, pc, attempt, seen, consecutiveFailures, activeJobs,
                    fires, failedInARow, alerts >>

\* "fatal error: concurrent map writes" and its kin: the process exits.
FatalMapAccess ==
    /\ cron # "dead"
    /\ \E r, q \in Runs : r # q /\ pc[r] \in MapWrites /\ pc[q] \in MapAccesses
    /\ cron' = "dead"
    /\ UNCHANGED << job, pc, attempt, seen, consecutiveFailures, activeJobs,
                    fires, failedInARow, alerts >>

-----------------------------------------------------------------------------
\* One goroutine

At(r, point) == cron # "dead" /\ pc[r] = point

\* healthCheck: one Ping, logged; neither retried nor counted.  The context of
\* the Ping has no deadline (jobs.go:107), so it may be answered at any time or
\* never.
HealthCheck(r) ==
    /\ At(r, "spawned")
    /\ job[r] \in PlainJobs
    /\ pc' = [pc EXCEPT ![r] = "idle"]
    /\ job' = [job EXCEPT ![r] = NoJob]
    /\ UNCHANGED << cron, attempt, seen, consecutiveFailures, activeJobs,
                    fires, failedInARow, alerts >>

Enter(r) ==
    /\ At(r, "spawned")
    /\ job[r] \notin PlainJobs
    /\ activeJobs' = activeJobs + 1
    /\ attempt' = [attempt EXCEPT ![r] = 1]
    /\ pc' = [pc EXCEPT ![r] = "calling"]
    /\ UNCHANGED << cron, job, seen, consecutiveFailures, fires,
                    failedInARow, alerts >>

\* jobFunc returns nil.
JobFuncOk(r) ==
    /\ At(r, "calling")
    /\ pc' = [pc EXCEPT ![r] = "reset"]
    /\ failedInARow' = [failedInARow EXCEPT ![job[r]] = 0]
    /\ UNCHANGED << cron, job, attempt, seen, consecutiveFailures, activeJobs,
                    fires, alerts >>

\* Mutant: the decrement is not deferred, and the early return skips it.
ReturnWithoutDefer(r) ==
    /\ At(r, "reset")
    /\ consecutiveFailures' = [consecutiveFailures EXCEPT ![job[r]] = 0]
    /\ pc' = [pc EXCEPT ![r] = "idle"]
    /\ job' = [job EXCEPT ![r] = NoJob]
    /\ attempt' = [attempt EXCEPT ![r] = 0]
    /\ UNCHANGED << cron, seen, activeJobs, fires, failedInARow, alerts >>

\* Mutant: the loop goes on after a success.
NoReturn(r) ==
    /\ At(r, "reset")
    /\ consecutiveFailures' = [consecutiveFailures EXCEPT ![job[r]] = 0]
    /\ pc' = [pc EXCEPT ![r] = "calling"]
    /\ UNCHANGED << cron, job, attempt, seen, activeJobs, fires,
                    failedInARow, alerts >>

\* Mutant: a success that needed a retry does not start the count again.
ResetAtFirstAttempt(r) ==
    /\ At(r, "reset")
    /\ consecutiveFailures' = IF attempt[r] = 1
                                THEN [consecutiveFailures EXCEPT ![job[r]] = 0]
                                ELSE consecutiveFailures
    /\ pc' = [pc EXCEPT ![r] = "leaving"]
    /\ UNCHANGED << cron, job, attempt, seen, activeJobs, fires,
                    failedInARow, alerts >>

ResetFailures(r) ==
    /\ At(r, "reset")
    /\ consecutiveFailures' = [consecutiveFailures EXCEPT ![job[r]] = 0]
    /\ pc' = [pc EXCEPT ![r] = "leaving"]
    /\ UNCHANGED << cron, job, attempt, seen, activeJobs, fires,
                    failedInARow, alerts >>

\* jobFunc returns an error.
JobFuncErr(r) ==
    /\ At(r, "calling")
    /\ pc' = [pc EXCEPT ![r] = "read"]
    /\ failedInARow' = [failedInARow EXCEPT ![job[r]] = @ + 1]
    /\ UNCHANGED << cron, job, attempt, seen, consecutiveFailures, activeJobs,
                    fires, alerts >>

\* consecutiveFailures[jobName]++, its read ...
ReadFailures(r) ==
    /\ At(r, "read")
    /\ seen' = [seen EXCEPT ![r] = consecutiveFailures[job[r]]]
    /\ pc' = [pc EXCEPT ![r] = "write"]
    /\ UNCHANGED << cron, job, attempt, consecutiveFailures, activeJobs, fires,
                    failedInARow, alerts >>

\* Mutant: the loop bound is off by one.
OneRetryTooMany(r) ==
    /\ At(r, "write")
    /\ consecutiveFailures' = [consecutiveFailures EXCEPT ![job[r]] = seen[r] + 1]
    /\ pc' = [pc EXCEPT ![r] =
                IF attempt[r] <= MaxRetries THEN "backoff" ELSE "exhausted"]
    /\ UNCHANGED << cron, job, attempt, seen, activeJobs, fires,
                    failedInARow, alerts >>

\* ... and its write, then the test that decides on a further attempt.
WriteFailures(r) ==
    /\ At(r, "write")
    /\ consecutiveFailures' = [consecutiveFailures EXCEPT ![job[r]] = seen[r] + 1]
    /\ pc' = [pc EXCEPT ![r] =
                IF attempt[r] < MaxRetries THEN "backoff" ELSE "exhausted"]
    /\ UNCHANGED << cron, job, attempt, seen, activeJobs, fires,
                    failedInARow, alerts >>

\* time.Sleep returns.
BackoffDone(r) ==
    /\ At(r, "backoff")
    /\ attempt' = [attempt EXCEPT ![r] = @ + 1]
    /\ pc' = [pc EXCEPT ![r] = "calling"]
    /\ UNCHANGED << cron, job, seen, consecutiveFailures, activeJobs, fires,
                    failedInARow, alerts >>

\* Mutant: > for >=.
CheckAlertLate(r) ==
    /\ At(r, "exhausted")
    /\ alerts' = IF consecutiveFailures[job[r]] > AlertThreshold
                   THEN [alerts EXCEPT ![job[r]] = @ + 1]
                   ELSE alerts
    /\ pc' = [pc EXCEPT ![r] = "leaving"]
    /\ UNCHANGED << cron, job, attempt, seen, consecutiveFailures, activeJobs,
                    fires, failedInARow >>

CheckAlert(r) ==
    /\ At(r, "exhausted")
    /\ alerts' = IF consecutiveFailures[job[r]] >= AlertThreshold
                   THEN [alerts EXCEPT ![job[r]] = @ + 1]
                   ELSE alerts
    /\ pc' = [pc EXCEPT ![r] = "leaving"]
    /\ UNCHANGED << cron, job, attempt, seen, consecutiveFailures, activeJobs,
                    fires, failedInARow >>

\* The deferred activeJobs.Add(ctx, -1), and the goroutine is done.
Leave(r) ==
    /\ At(r, "leaving")
    /\ activeJobs' = activeJobs - 1
    /\ pc' = [pc EXCEPT ![r] = "idle"]
    /\ job' = [job EXCEPT ![r] = NoJob]
    /\ attempt' = [attempt EXCEPT ![r] = 0]
    /\ seen' = [seen EXCEPT ![r] = 0]
    /\ UNCHANGED << cron, consecutiveFailures, fires, failedInARow, alerts >>

ExecuteWithRetry(r) ==
    \/ Enter(r)
    \/ JobFuncOk(r)
    \/ ResetFailures(r)
    \/ JobFuncErr(r)
    \/ ReadFailures(r)
    \/ WriteFailures(r)
    \/ BackoffDone(r)
    \/ CheckAlert(r)
    \/ Leave(r)

Step(r) == HealthCheck(r) \/ ExecuteWithRetry(r)

Next ==
    \/ Start
    \/ \E r \in Runs, j \in Jobs : Fire(r, j)
    \/ Stop
    \/ StopDone
    \/ FatalMapAccess
    \/ \E r \in Runs : Step(r)

Spec == Init /\ [][Next]_vars

(***************************************************************************)
(* A goroutine of executeWithRetry keeps running: the sleeps end, and a    *)
(* jobFunc returns since each one works under a context with a timeout     *)
(* (60s, 10min, 5min, 30min).  Nothing is assumed of healthCheck, whose    *)
(* Ping has no deadline, and nothing makes cron fire or main call Stop.    *)
(***************************************************************************)
Fairness == WF_vars(StopDone) /\ \A r \in Runs : WF_vars(ExecuteWithRetry(r))

FairSpec == Spec /\ Fairness

-----------------------------------------------------------------------------
\* Properties

\* The type invariant.
TypeOK ==
    /\ cron \in {"new", "running", "stopping", "stopped", "dead"}
    /\ job \in [Runs -> Jobs \union {NoJob}]
    /\ pc \in [Runs -> Points]
    /\ attempt \in [Runs -> 0..MaxRetries]
    /\ seen \in [Runs -> Nat]
    /\ consecutiveFailures \in [Jobs -> Nat]
    /\ activeJobs \in Int
    /\ fires \in Nat
    /\ failedInARow \in [Jobs -> Nat]
    /\ alerts \in [Jobs -> Nat]
    /\ \A r \in Runs : (pc[r] = "idle") <=> (job[r] = NoJob)

\* The gauge scheduler_active_jobs (jobs.go:182-183) is the number of
\* goroutines inside executeWithRetry, whichever way they leave it: so it is
\* never negative and is zero again once the scheduler has stopped.
GaugeCountsRuns == activeJobs = Cardinality({r \in Runs : pc[r] \in Counted})

\* Stop (jobs.go:162-169) returns only when no job runs: main closes the
\* database pool right after it.
StoppedIsQuiet == cron = "stopped" => InFlight = {}

\* After Stop was called no job is started, and none is called again once
\* Stop has returned.
NoJobAfterStop ==
    [][\A r \in Runs :
          /\ cron \in {"stopping", "stopped"} => ~(pc[r] = "idle" /\ pc'[r] # "idle")
          /\ cron = "stopped" => ~(pc[r] # "calling" /\ pc'[r] = "calling")]_vars

\* What a goroutine that still runs a job owes to the map: a failure not yet
\* added, or a success not yet recorded.
CountOf(j) ==
    IF \E r \in RunsOf(j) : pc[r] \in {"read", "write"}
      THEN failedInARow[j] - 1
      ELSE failedInARow[j]

\* For a job that never overlaps itself the map holds the number of failures
\* in a row (jobs.go:192, 217), whatever the other jobs do to the same map.
CountExactAlone ==
    \A j \in Jobs \ Overlapping :
        (\A r \in RunsOf(j) : pc[r] # "reset") =>
            consecutiveFailures[j] = CountOf(j)

\* A job logs an alert exactly when it gives up and its last 3 * maxRetries
\* attempts have all failed (jobs.go:248-254).
AlertStep(j) ==
    \E r \in RunsOf(j) : pc[r] = "exhausted" /\ pc'[r] = "leaving"

AlertExact(S) ==
    \A j \in S :
        alerts'[j] # alerts[j] <=>
            AlertStep(j) /\ failedInARow[j] >= AlertThreshold

AlertExactAlone == [][AlertExact(Jobs \ Overlapping)]_vars

\* "ALERT: Job has been failing consistently" (jobs.go:254): no alert about a
\* job whose last 3 * maxRetries attempts include a success, unless that
\* success is still on its way to the map.  Claimed of every job.
AlertMeansConsistentFailure ==
    [][\A j \in Jobs :
          alerts'[j] # alerts[j] =>
            \/ failedInARow[j] >= AlertThreshold
            \/ \E r \in RunsOf(j) : pc[r] = "reset"]_vars

\* The jobs that never overlap themselves keep the promise of FailureStreak:
\* the map is their streak, and where their goroutine is says what the last
\* attempt has left to be done.
Alone == Jobs \ Overlapping

RunAt(j, points) == \E r \in RunsOf(j) : pc[r] \in points

Due(j) ==
    CASE RunAt(j, {"read", "write"}) -> "count"
      [] RunAt(j, {"reset"}) -> "reset"
      [] RunAt(j, {"exhausted"}) -> "give up"
      [] OTHER -> "nothing"

\* The attempts of its run that have failed and are counted.
Tried(r) ==
    CASE pc[r] \in {"calling", "reset", "read", "write"} -> attempt[r] - 1
      [] pc[r] \in {"backoff", "exhausted"} -> attempt[r]
      [] OTHER -> 0

TriesOf(j) ==
    IF RunsOf(j) = {} THEN 0 ELSE Tried(CHOOSE r \in RunsOf(j) : TRUE)

Streak == INSTANCE FailureStreak
            WITH Jobs <- Alone,
                 streak <- [j \in Alone |-> consecutiveFailures[j]],
                 tries <- [j \in Alone |-> TriesOf(j)],
                 due <- [j \in Alone |-> Due(j)],
                 alerts <- [j \in Alone |-> alerts[j]]

\* Seen through that mapping, every behaviour of the scheduler is one of
\* FailureStreak: whatever the other jobs do to the map, an attempt is counted
\* once or starts the count again before the next one, a run gives up after
\* MaxRetries failures, and then alerts exactly if it must (jobs.go:187-256).
ImplementsStreak == Streak!Spec

\* The part of the scheduler that main relies on: a goroutine is running from
\* its firing until it returns.
Service == INSTANCE JobService WITH running <- InFlight

\* Every behaviour of the scheduler is one of JobService, which Lifecycle
\* builds on: jobs run between Start and Stop only, and Stop (jobs.go:162-169)
\* returns after the last of them.
ImplementsJobService == Service!Spec

\* Every run of a job that goes through executeWithRetry returns
\* (jobs.go:187-256): the retry loop ends, unless the process dies.
RunReturns ==
    \A r \in Runs :
        pc[r] # "idle" /\ job[r] \notin PlainJobs ~> (pc[r] = "idle" \/ cron = "dead")

\* A health check whose Ping is not answered.
HealthCheckHangs == \E r \in InFlight : job[r] \in PlainJobs

\* Stop returns (jobs.go:165-166) once the runs under way have retried and left,
\* unless the process dies; only a health check that is never answered can keep
\* it for ever.
StopReturns ==
    \/ cron = "stopping" ~> cron \in {"stopped", "dead"}
    \/ <>[]HealthCheckHangs
=============================================================================
