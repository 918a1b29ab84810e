------------------------------ MODULE Lifecycle ------------------------------
(***************************************************************************)
(* The process from its start to its end: main (cmd/forecaster/main.go),   *)
(* the connection attempts of NewClient and the closing of its pool        *)
(* (internal/storage/timescale/client.go), the readiness check that        *)
(* NewHealthHandler starts, and the users of the pool: cron jobs, requests *)
(* and that check.  The jobs are those of JobService, which Scheduler      *)
(* implements.                                                             *)
(*                                                                         *)
(* Time is left out.  What remains of it: Shutdown gives up after 30 s, so *)
(* that it has returned when the grace period of 60 s ends and the process *)
(* can be killed (deployment.yaml, terminationGracePeriodSeconds); and a   *)
(* call without a deadline waits as long as the database is "hung", which  *)
(* takes a connection and does not answer.  Three callers have none:       *)
(* RunMigrations, the readiness check and the job healthCheck.             *)
(*                                                                         *)
(* A user needs the pool once: several queries one after the other meet    *)
(* the pool as several users do.                                           *)
(***************************************************************************)
EXTENDS Integers, FiniteSets

CONSTANTS
    Jobs,           \* goroutines started by cron
    HealthChecks,   \* those that run healthCheck
    Requests,       \* connections that carry a request
    Readiness,      \* the goroutine of NewHealthHandler
    MaxAttempts,    \* NewClient's maxRetries
    MaxChanges      \* bound: how often the database goes down, hangs or comes back

ASSUME UsersAssumption ==
    /\ HealthChecks \subseteq Jobs
    /\ Jobs \intersect Requests = {}
    /\ Readiness \notin Jobs \union Requests
ASSUME AttemptsAssumption == MaxAttempts \in Nat \ {0}
ASSUME ChangesAssumption == MaxChanges \in Nat

Users == Jobs \union Requests \union {Readiness}

\* The users that query under context.Background().
Patient == HealthChecks \union {Readiness}

VARIABLES
    main,         \* the call main is about to make, or how the process ended
    attempt,      \* NewClient's attempts so far
    pool,         \* "none", "open", "closing" or "closed"
    openPools,    \* pools that were created and not closed
    db,           \* the database is "up", "down" (refuses) or "hung"
    changes,      \* how often that has changed
    api,          \* the API server: "none", "starting", "listening", "closed"
    cron,         \* the scheduler, see JobService
    term,         \* SIGTERM was sent
    ready,        \* HealthHandler.isReady
    use,          \* what each user of the pool does
    lost,         \* history: users that found the pool closed
    timedOut      \* history: Shutdown returned with requests in progress

clientVars == << attempt, pool, openPools >>
dbVars == << db, changes >>
useVars == << use, lost, ready >>
vars == << main, clientVars, dbVars, api, cron, term, useVars, timedOut >>

Starting == {"connect", "ping", "backoff", "migrate", "schedule", "route",
             "servers", "notify"}
Ending == {"drain", "stop", "stopping", "close", "closing"}
Exited == {"clean", "fatal", "killed"}

DatabaseStates == {"up", "down", "hung"}

Alive == main \notin Exited

InUse(S) == {u \in S : use[u] # "off"}

\* The scheduler: a job is running while it is in use.
J == INSTANCE JobService WITH Runs <- Jobs, running <- InUse(Jobs)

Init ==
    /\ main = "connect"
    /\ attempt = 0
    /\ pool = "none"
    /\ openPools = 0
    /\ db \in DatabaseStates
    /\ changes = 0
    /\ api = "none"
    /\ cron = "new"
    /\ term = FALSE
    /\ ready = FALSE
    /\ use = [u \in Users |-> "off"]
    /\ lost = {}
    /\ timedOut = FALSE

-----------------------------------------------------------------------------
\* main, starting

Go(from, to) == main = from /\ main' = to

\* Mutant: the loop does not count its attempts.
ConnectUncounted ==
    /\ Go("connect", "ping")
    /\ pool' = "open"
    /\ openPools' = openPools + 1
    /\ UNCHANGED << attempt, dbVars, api, cron, term, useVars, timedOut >>

\* pgxpool.NewWithConfig; it makes no connection yet.
Connect ==
    /\ Go("connect", "ping")
    /\ attempt' = attempt + 1
    /\ pool' = "open"
    /\ openPools' = openPools + 1
    /\ UNCHANGED << dbVars, api, cron, term, useVars, timedOut >>

\* ParseConfig, before the loop, refuses the connection string: log.Fatal.
ConfigRejected ==
    /\ attempt = 0
    /\ Go("connect", "fatal")
    /\ UNCHANGED << clientVars, dbVars, api, cron, term, useVars, timedOut >>

\* NewWithConfig fails: an attempt without a pool.
ConnectFails ==
    /\ main = "connect"
    /\ attempt' = attempt + 1
    /\ main' = IF attempt' < MaxAttempts THEN "backoff" ELSE "fatal"
    /\ UNCHANGED << pool, openPools, dbVars, api, cron, term, useVars, timedOut >>

PingOk ==
    /\ Go("ping", "migrate")
    /\ db = "up"
    /\ UNCHANGED << clientVars, dbVars, api, cron, term, useVars, timedOut >>

\* Mutant: the pool of a failed attempt is left open.
PingFailsKeepsPool ==
    /\ main = "ping"
    /\ db # "up"
    /\ pool' = "none"
    /\ main' = IF attempt < MaxAttempts THEN "backoff" ELSE "fatal"
    /\ UNCHANGED << attempt, openPools, dbVars, api, cron, term, useVars, timedOut >>

\* Mutant: the bound of the loop is off by one.
OneAttemptMore ==
    /\ main = "ping"
    /\ db # "up"
    /\ pool' = "none"
    /\ openPools' = openPools - 1
    /\ main' = IF attempt <= MaxAttempts THEN "backoff" ELSE "fatal"
    /\ UNCHANGED << attempt, dbVars, api, cron, term, useVars, timedOut >>

\* An error, or none within 5 s: pool.Close(), then another attempt or log.Fatal
\* in main.
PingFails ==
    /\ main = "ping"
    /\ db # "up"
    /\ pool' = "none"
    /\ openPools' = openPools - 1
    /\ main' = IF attempt < MaxAttempts THEN "backoff" ELSE "fatal"
    /\ UNCHANGED << attempt, dbVars, api, cron, term, useVars, timedOut >>

\* time.Sleep returns.
Backoff ==
    /\ Go("backoff", "connect")
    /\ UNCHANGED << clientVars, dbVars, api, cron, term, useVars, timedOut >>

\* RunMigrations executes its statements without a deadline: it waits for a hung
\* database.
Migrate ==
    /\ Go("migrate", "schedule")
    /\ db = "up"
    /\ UNCHANGED << clientVars, dbVars, api, cron, term, useVars, timedOut >>

\* No connection, or a statement is refused: log.Fatal.
MigrateFails ==
    /\ Go("migrate", "fatal")
    /\ db # "hung"
    /\ UNCHANGED << clientVars, dbVars, api, cron, term, useVars, timedOut >>

StartScheduler ==
    /\ Go("schedule", "route")
    /\ UNCHANGED << clientVars, dbVars, api, term, useVars, timedOut >>
    /\ J!Start

\* NewHealthHandler starts the goroutine that will check the dependencies.
NewRouter ==
    /\ Go("route", "servers")
    /\ use' = [use EXCEPT ![Readiness] = "busy"]
    /\ UNCHANGED << clientVars, dbVars, api, cron, term, ready, lost, timedOut >>

StartServers ==
    /\ Go("servers", "notify")
    /\ api' = "starting"
    /\ UNCHANGED << clientVars, dbVars, cron, term, useVars, timedOut >>

Notify ==
    /\ Go("notify", "serve")
    /\ UNCHANGED << clientVars, dbVars, api, cron, term, useVars, timedOut >>

-----------------------------------------------------------------------------
\* main, ending

\* Mutant: the scheduler is stopped before the server.
QuitSchedulerFirst ==
    /\ term
    /\ Go("serve", "drain")
    /\ UNCHANGED << clientVars, dbVars, api, term, useVars, timedOut >>
    /\ J!Stop

\* <-quit, and srv.Shutdown closes the listener (if it is there already).
Quit ==
    /\ term
    /\ Go("serve", "drain")
    /\ api' = "closed"
    /\ UNCHANGED << clientVars, dbVars, cron, term, useVars, timedOut >>

\* Mutant: Shutdown does not wait for the requests in progress.
DrainAtOnce ==
    /\ Go("drain", "stop")
    /\ UNCHANGED << clientVars, dbVars, api, cron, term, useVars, timedOut >>

\* Shutdown returns when no request is in progress ...
Drained ==
    /\ InUse(Requests) = {}
    /\ Go("drain", "stop")
    /\ UNCHANGED << clientVars, dbVars, api, cron, term, useVars, timedOut >>

\* Mutant: Shutdown is given a context without a deadline.
NoDeadline == FALSE /\ UNCHANGED vars

\* ... or when its context of 30 s is over; the requests go on.
DrainTimesOut ==
    /\ InUse(Requests) # {}
    /\ Go("drain", "stop")
    /\ timedOut' = TRUE
    /\ UNCHANGED << clientVars, dbVars, api, cron, term, useVars >>

Stop ==
    /\ Go("stop", "stopping")
    /\ UNCHANGED << clientVars, dbVars, api, term, useVars, timedOut >>
    /\ J!Stop

\* Mutant: main does not wait for the jobs.
StopAtOnce ==
    /\ Go("stopping", "close")
    /\ cron' = "stopped"
    /\ UNCHANGED << clientVars, dbVars, api, term, useVars, timedOut >>

StopDone ==
    /\ Go("stopping", "close")
    /\ UNCHANGED << clientVars, dbVars, api, term, useVars, timedOut >>
    /\ J!StopDone

\* pool.Close(): from now on no connection is handed out ...
Close ==
    /\ Go("close", "closing")
    /\ pool' = "closing"
    /\ UNCHANGED << attempt, openPools, dbVars, api, cron, term, useVars, timedOut >>

\* ... and it returns when all of them have been given back.  main ends; its
\* deferred tsClient.Close() finds the pool closed.
CloseDone ==
    /\ Go("closing", "clean")
    /\ \A u \in Users : use[u] # "query"
    /\ pool' = "closed"
    /\ openPools' = openPools - 1
    /\ UNCHANGED << attempt, dbVars, api, cron, term, useVars, timedOut >>

Main ==
    \/ ConfigRejected \/ Connect \/ ConnectFails \/ PingOk \/ PingFails
    \/ Backoff \/ Migrate \/ MigrateFails
    \/ StartScheduler \/ NewRouter \/ StartServers \/ Notify
    \/ Quit \/ Drained \/ DrainTimesOut \/ Stop \/ StopDone
    \/ Close \/ CloseDone

-----------------------------------------------------------------------------
\* The servers and the platform

Listen ==
    /\ Alive
    /\ api = "starting"
    /\ api' = "listening"
    /\ UNCHANGED << main, clientVars, dbVars, cron, term, useVars, timedOut >>

\* ListenAndServe of either server fails, at the start or later: log.Fatal in its
\* goroutine.
ServerFails ==
    /\ Alive
    /\ api # "none"
    /\ main' = "fatal"
    /\ UNCHANGED << clientVars, dbVars, api, cron, term, useVars, timedOut >>

\* SIGTERM.  Before signal.Notify it ends the process.
Terminate ==
    /\ Alive
    /\ ~term
    /\ term' = TRUE
    /\ main' = IF main \in Starting THEN "killed" ELSE main
    /\ UNCHANGED << clientVars, dbVars, api, cron, useVars, timedOut >>

\* SIGKILL at the end of the grace period, after Shutdown has returned.
Kill ==
    /\ main \in Ending \ {"drain"}
    /\ main' = "killed"
    /\ UNCHANGED << clientVars, dbVars, api, cron, term, useVars, timedOut >>

DatabaseChanges ==
    /\ Alive
    /\ changes < MaxChanges
    /\ changes' = changes + 1
    /\ db' \in DatabaseStates \ {db}
    /\ UNCHANGED << main, clientVars, api, cron, term, useVars, timedOut >>

-----------------------------------------------------------------------------
\* The users of the pool

Uses(u, from, to) ==
    /\ Alive
    /\ use[u] \in from
    /\ use' = [use EXCEPT ![u] = to]
    /\ UNCHANGED << main, clientVars, dbVars, api, term, timedOut >>

FireJob(j) == Uses(j, {"off"}, "busy") /\ J!Fire(j) /\ UNCHANGED << lost, ready >>

JobReturns(j) ==
    Uses(j, {"busy", "answered"}, "off") /\ J!Return(j) /\ UNCHANGED << lost, ready >>

\* The runtime finds two jobs in the scheduler's map.
JobDies ==
    /\ Alive
    /\ main' = "fatal"
    /\ UNCHANGED << clientVars, dbVars, api, term, useVars, timedOut >>
    /\ J!Die

Arrive(r) ==
    /\ api = "listening"
    /\ Uses(r, {"off"}, "busy")
    /\ UNCHANGED << cron, lost, ready >>

RequestEnds(r) ==
    Uses(r, {"busy", "answered"}, "off") /\ UNCHANGED << cron, lost, ready >>

Query(u) ==
    /\ pool = "open"
    /\ Uses(u, {"busy"}, "query")
    /\ UNCHANGED << cron, lost, ready >>

\* "closed pool"
PoolClosed(u) ==
    /\ pool \in {"closing", "closed"}
    /\ Uses(u, {"busy"}, "answered")
    /\ lost' = lost \union {u}
    /\ UNCHANGED << cron, ready >>

\* With a result or with an error, its deadline among them; either way the
\* connection is given back.  The readiness check asks once, and records only
\* success.
QueryReturns(u) ==
    /\ db = "hung" => u \notin Patient
    /\ Uses(u, {"query"}, "answered")
    /\ ready' = (ready \/ (u = Readiness /\ db = "up"))
    /\ UNCHANGED << cron, lost >>

Work(u) == Query(u) \/ PoolClosed(u) \/ QueryReturns(u)

Next ==
    \/ Main
    \/ Listen
    \/ ServerFails
    \/ Terminate
    \/ Kill
    \/ DatabaseChanges
    \/ JobDies
    \/ \E j \in Jobs : FireJob(j) \/ JobReturns(j)
    \/ \E r \in Requests : Arrive(r) \/ RequestEnds(r)
    \/ \E u \in Users : Work(u)

Spec == Init /\ [][Next]_vars

(***************************************************************************)
(* main goes on, and so do jobs and the readiness check, but for a call    *)
(* without a deadline while the database is hung.  A query of a request    *)
(* comes back, under the deadline of the router's Timeout (30 s) if not    *)
(* before; what else a request waits for may not.  Nothing forces a        *)
(* signal, a firing or a change of the database, nor that the process is   *)
(* killed.                                                                 *)
(***************************************************************************)
Fairness ==
    /\ WF_vars(Main)
    /\ \A j \in Jobs : WF_vars(Work(j) \/ JobReturns(j))
    /\ WF_vars(Work(Readiness))
    /\ \A r \in Requests : WF_vars(QueryReturns(r))

FairSpec == Spec /\ Fairness

-----------------------------------------------------------------------------
\* Properties

\* The type invariant.
TypeOK ==
    /\ main \in Starting \union {"serve"} \union Ending \union Exited
    /\ attempt \in 0..MaxAttempts
    /\ pool \in {"none", "open", "closing", "closed"}
    /\ openPools \in Nat
    /\ db \in DatabaseStates
    /\ changes \in Nat
    /\ api \in {"none", "starting", "listening", "closed"}
    /\ cron \in {"new", "running", "stopping", "stopped", "dead"}
    /\ term \in BOOLEAN
    /\ ready \in BOOLEAN
    /\ use \in [Users -> {"off", "busy", "query", "answered"}]
    /\ lost \subseteq Users
    /\ timedOut \in BOOLEAN

\* No job ever finds the pool closed: main closes it only when Stop has waited
\* for every job (main.go:149-153).
JobsKeepPool == lost \intersect Jobs = {}

\* A request in progress finds the pool closed only if Shutdown gave up on it
\* (main.go:145-147).
RequestsLoseOnlyByTimeout == lost \intersect Requests # {} => timedOut

\* NewClient's attempts leave no pool behind (client.go:79), and a clean exit
\* leaves none open.
OnePool == openPools = IF pool \in {"open", "closing"} THEN 1 ELSE 0

\* While a request is served, until Shutdown gives up on it, it finds both the
\* pool open and the scheduler running: requests start last and end first.
ServedIsWired ==
    Alive /\ InUse(Requests) # {} /\ ~timedOut => pool = "open" /\ cron = "running"

\* The database takes connections and never answers again.
HangsForEver == <>[](db = "hung")

\* A process that was sent SIGTERM ends by itself, even if a request never
\* does and the process is not killed (main.go:141), unless the database hangs
\* for ever: Stop and Close wait for pings without a deadline (jobs.go:400,
\* health_handler.go:88).
TermEnds == (term ~> ~Alive) \/ HangsForEver

\* The process serves or ends, however the database comes and goes: the
\* attempts of NewClient are counted and each has a deadline (client.go:68-71).
\* Only RunMigrations waits for a database that hangs for ever (client.go:358).
StartDecides == <>(main \notin Starting) \/ HangsForEver

\* "Set ready after dependencies are verified" (health_handler.go:85): a
\* process that goes on serving with its database up becomes ready.
ReadyWhenDependenciesAre == <>[](main = "serve" /\ db = "up") => <>ready
=============================================================================
