----------------------------- MODULE Collection -----------------------------
(***************************************************************************)
(* One replica's path from a cron firing to rows in TimescaleDB:           *)
(* RunMigrations and StoreMetrics of internal/storage/timescale/client.go, *)
(* Collect of internal/collector/collector.go, and around them the retries *)
(* of executeWithRetry, which call Collect from its start.                 *)
(*                                                                         *)
(* A sample is the set of parts the gatherers have supplied.  One "disk"   *)
(* or "gpu" statement stands for the statements of all mounts or devices;  *)
(* a part that is no table, the container statistics, is merged and never  *)
(* stored.  The gatherers and the database share the 60s of one context.   *)
(*                                                                         *)
(* External: PostgreSQL.  A statement it fails aborts its transaction,     *)
(* after which every statement and the commit fail; one the client refuses *)
(* does not.  The reply to a commit may be lost after it has taken place.  *)
(***************************************************************************)
EXTENDS Integers, FiniteSets

CONSTANTS
    Gatherers,        \* Collector.gatherers, named for the part each supplies
    Databases,        \* the tables there may be before RunMigrations
    MaxAttempts,      \* JobScheduler.maxRetries
    MaxSamples,       \* bound: calls of Collect in a behaviour
    MaxFaults         \* bound: faults of the database in a behaviour

Tables == {"cpu", "memory", "disk", "network", "gpu", "load"}

\* The order of the statements in StoreMetrics
Order == [cpu |-> 1, memory |-> 2, disk |-> 3, network |-> 4, gpu |-> 5, load |-> 6]

\* Executed whether or not a gatherer has supplied the values.
Unconditional == {"cpu", "memory", "network", "load"}

ASSUME GatherersAssumption == IsFiniteSet(Gatherers)
ASSUME DatabasesAssumption == Databases \subseteq SUBSET Tables
ASSUME BoundsAssumption ==
    MaxAttempts \in Nat \ {0} /\ MaxSamples \in Nat /\ MaxFaults \in Nat

VARIABLES
    tables,        \* the tables of the database
    rows,          \* the committed rows
    process,       \* "starting", "up" or "exited"
    pc,            \* where the collection job is
    attempt,       \* executeWithRetry's loop variable
    sample,        \* the number of this call of Collect
    expired,       \* the 60s context of this call is past its deadline
    working,       \* gatherers whose goroutine has not called wg.Done
    failing,       \* those of them that are about to send an error
    resultsCh, errorsCh, closed,
    aggregated,
    todo,          \* the statements still to execute
    tx,            \* "none", "open" or "aborted"
    txRows,        \* the uncommitted rows
    faults,        \* history: faults of the database so far
    faultsBefore,  \* history: those before this attempt
    gathered,      \* history: what the gatherers of this call have supplied
    content,       \* history: what each sample consisted of when stored
    storedNow,     \* history: commits during this firing
    lostNow        \* history: commits during this firing with a lost reply

gatherVars == << working, failing, resultsCh, errorsCh, closed, aggregated, gathered >>
storeVars == << todo, tx, txRows >>
dbVars == << tables, rows, content, storedNow >>
faultVars == << faults, faultsBefore, lostNow >>
vars == << process, expired, pc, attempt, sample, gatherVars, storeVars, dbVars, faultVars >>

Points == {"idle", "merging", "draining", "begin", "insert", "commit", "ok", "failed"}

\* What is executed for these parts.
Statements(parts) == Unconditional \union (parts \intersect Tables)

\* The statement that is executed next.
Upcoming == CHOOSE t \in todo : \A u \in todo : Order[t] <= Order[u]

Init ==
    /\ tables \in Databases
    /\ rows = {}
    /\ process = "starting"
    /\ pc = "idle"
    /\ attempt = 0
    /\ sample = 0
    /\ expired = FALSE
    /\ working = {}
    /\ failing = {}
    /\ resultsCh = {}
    /\ errorsCh = 0
    /\ closed = FALSE
    /\ aggregated = {}
    /\ todo = {}
    /\ tx = "none"
    /\ txRows = {}
    /\ faults = 0
    /\ faultsBefore = 0
    /\ gathered = {}
    /\ content = [s \in 1..MaxSamples |-> {}]
    /\ storedNow = 0
    /\ lostNow = 0

\* A call to the database that fails though it should not: in the database, on
\* the way or in the client.
Fault ==
    /\ faults < MaxFaults
    /\ faults' = faults + 1
    /\ UNCHANGED faultsBefore

-----------------------------------------------------------------------------
\* Start of the process

\* RunMigrations creates cpu_metrics; all else it does only warns on failure.
RunMigrations ==
    /\ process = "starting"
    /\ process' = "up"
    /\ tables' = tables \union {"cpu"}
    /\ UNCHANGED << pc, expired, attempt, sample, gatherVars, storeVars, rows, content,
                    storedNow, faultVars >>

\* log.Fatal in main.
MigrationsFail ==
    /\ process = "starting"
    /\ Fault
    /\ process' = "exited"
    /\ UNCHANGED << pc, expired, attempt, sample, gatherVars, storeVars, dbVars, lostNow >>

-----------------------------------------------------------------------------
\* Collect

\* Mutant: the loop bound is off by one.
CollectOnceMore ==
    /\ process = "up"
    /\ pc = "idle" \/ (pc = "failed" /\ attempt <= MaxAttempts)
    /\ sample < MaxSamples
    /\ sample' = sample + 1
    /\ attempt' = IF pc = "idle" THEN 1 ELSE attempt + 1
    /\ pc' = "merging"
    /\ working' = Gatherers
    /\ failing' = {}
    /\ resultsCh' = {}
    /\ errorsCh' = 0
    /\ closed' = FALSE
    /\ aggregated' = {}
    /\ gathered' = {}
    /\ storedNow' = IF pc = "idle" THEN 0 ELSE storedNow
    /\ lostNow' = IF pc = "idle" THEN 0 ELSE lostNow
    /\ faultsBefore' = faults
    /\ expired' = FALSE
    /\ UNCHANGED << process, storeVars, tables, rows, content, faults >>

\* A firing, or a retry after a failure.
Collect ==
    /\ process = "up"
    /\ pc = "idle" \/ (pc = "failed" /\ attempt < MaxAttempts)
    /\ sample < MaxSamples
    /\ sample' = sample + 1
    /\ attempt' = IF pc = "idle" THEN 1 ELSE attempt + 1
    /\ pc' = "merging"
    /\ working' = Gatherers
    /\ failing' = {}
    /\ resultsCh' = {}
    /\ errorsCh' = 0
    /\ closed' = FALSE
    /\ aggregated' = {}
    /\ gathered' = {}
    /\ storedNow' = IF pc = "idle" THEN 0 ELSE storedNow
    /\ lostNow' = IF pc = "idle" THEN 0 ELSE lostNow
    /\ faultsBefore' = faults
    /\ expired' = FALSE
    /\ UNCHANGED << process, storeVars, tables, rows, content, faults >>

\* make(chan *ResourceMetrics, len(c.gatherers))
ResultsCapacity == Cardinality(Gatherers)

\* Mutant: errorsCh is unbuffered, and drained only after resultsCh.
ErrorsUnbuffered == 0

\* make(chan error, len(c.gatherers))
ErrorsCapacity == Cardinality(Gatherers)

\* The deadline passes, whoever has used up the time.
Expire ==
    /\ pc \in {"merging", "draining", "begin", "insert", "commit"}
    /\ ~expired
    /\ expired' = TRUE
    /\ UNCHANGED << process, pc, attempt, sample, gatherVars, storeVars, dbVars, faultVars >>

\* Gather returns no error; a disabled or absent device supplies nothing.
Gather(g) ==
    /\ g \in working \ failing
    /\ Cardinality(resultsCh) < ResultsCapacity
    /\ \E part \in {{g}, {}} : /\ resultsCh' = resultsCh \union {<< g, part >>}
                               /\ gathered' = gathered \union part
    /\ working' = working \ {g}
    /\ UNCHANGED << process, expired, pc, attempt, sample, failing, errorsCh, closed, aggregated,
                    storeVars, dbVars, faultVars >>

\* Gather returns an error ...
GatherFails(g) ==
    /\ g \in working \ failing
    /\ failing' = failing \union {g}
    /\ UNCHANGED << process, expired, pc, attempt, sample, working, resultsCh, errorsCh,
                    closed, aggregated, gathered, storeVars, dbVars, faultVars >>

\* ... and the send blocks while errorsCh is full.
SendError(g) ==
    /\ g \in failing
    /\ errorsCh < ErrorsCapacity
    /\ errorsCh' = errorsCh + 1
    /\ working' = working \ {g}
    /\ failing' = failing \ {g}
    /\ UNCHANGED << process, expired, pc, attempt, sample, resultsCh, closed, aggregated,
                    gathered, storeVars, dbVars, faultVars >>

\* Mutant: the channels are closed without wg.Wait.
CloseEarly ==
    /\ pc = "merging"
    /\ ~closed
    /\ closed' = TRUE
    /\ UNCHANGED << process, expired, pc, attempt, sample, working, failing, resultsCh, errorsCh,
                    aggregated, gathered, storeVars, dbVars, faultVars >>

\* The goroutine that waits for the others and closes both channels.
CloseChannels ==
    /\ pc = "merging"
    /\ working = {}
    /\ ~closed
    /\ closed' = TRUE
    /\ UNCHANGED << process, expired, pc, attempt, sample, working, failing, resultsCh, errorsCh,
                    aggregated, gathered, storeVars, dbVars, faultVars >>

\* for metrics := range resultsCh
MergeMetrics ==
    /\ pc = "merging"
    /\ \E r \in resultsCh : /\ resultsCh' = resultsCh \ {r}
                            /\ aggregated' = aggregated \union r[2]
    /\ UNCHANGED << process, expired, pc, attempt, sample, working, failing, errorsCh, closed,
                    gathered, storeVars, dbVars, faultVars >>

ResultsDone ==
    /\ pc = "merging"
    /\ closed /\ resultsCh = {}
    /\ pc' = "draining"
    /\ UNCHANGED << process, expired, attempt, sample, gatherVars, storeVars, dbVars, faultVars >>

\* for err := range errorsCh: logged, whatever failed.
DrainErrors ==
    /\ pc = "draining"
    /\ errorsCh' = 0
    /\ pc' = "begin"
    /\ UNCHANGED << process, expired, attempt, sample, working, failing, resultsCh, closed,
                    aggregated, gathered, storeVars, dbVars, faultVars >>

-----------------------------------------------------------------------------
\* StoreMetrics

\* Return an error: the deferred Rollback drops what was not committed.
Fail ==
    /\ pc' = "failed"
    /\ tx' = "none"
    /\ txRows' = {}
    /\ todo' = {}

\* A call fails by a fault, or because the time is up.
CallFails == Fault \/ (expired /\ UNCHANGED << faults, faultsBefore >>)

Begin ==
    /\ pc = "begin"
    /\ ~expired
    /\ pc' = "insert"
    /\ tx' = "open"
    /\ todo' = Statements(aggregated)
    /\ content' = [content EXCEPT ![sample] = aggregated]
    /\ UNCHANGED << process, expired, attempt, sample, gatherVars, txRows, tables, rows,
                    storedNow, faultVars >>

BeginFails ==
    /\ pc = "begin"
    /\ CallFails
    /\ Fail
    /\ UNCHANGED << process, expired, attempt, sample, gatherVars, dbVars, lostNow >>

AfterInsert ==
    /\ todo' = todo \ {Upcoming}
    /\ pc' = IF todo' = {} THEN "commit" ELSE "insert"

\* Mutant: statements run on the pool instead of the transaction.
InsertAutocommitted ==
    /\ pc = "insert"
    /\ tx = "open"
    /\ Upcoming \in tables
    /\ rows' = rows \union {<< sample, Upcoming >>}
    /\ AfterInsert
    /\ UNCHANGED << process, expired, attempt, sample, gatherVars, tx, txRows, tables,
                    content, storedNow, faultVars >>

Insert ==
    /\ pc = "insert"
    /\ tx = "open" /\ ~expired
    /\ Upcoming \in tables
    /\ txRows' = txRows \union {<< sample, Upcoming >>}
    /\ AfterInsert
    /\ UNCHANGED << process, expired, attempt, sample, gatherVars, tx, dbVars, faultVars >>

\* A statement fails when its table is missing, when the transaction is
\* aborted, when the time is up, or by a fault.
StatementFails ==
    \/ /\ Upcoming \notin tables \/ tx = "aborted" \/ expired
       /\ UNCHANGED << faults, faultsBefore >>
    \/ /\ Upcoming \in tables /\ tx = "open" /\ ~expired
       /\ Fault

\* Every insert but those of GPU metrics returns the error ...
InsertFails ==
    /\ pc = "insert"
    /\ Upcoming # "gpu"
    /\ StatementFails
    /\ Fail
    /\ UNCHANGED << process, expired, attempt, sample, gatherVars, dbVars, lostNow >>

\* ... and those log a warning and go on: in a transaction that is lost, or, if
\* only the client refused the statement, in one without those rows.
InsertGpuFails ==
    /\ pc = "insert"
    /\ Upcoming = "gpu"
    /\ StatementFails
    /\ tx' = "aborted" \/ (tx' = "open" /\ faults' > faults)
    /\ AfterInsert
    /\ UNCHANGED << process, expired, attempt, sample, gatherVars, txRows, dbVars, lostNow >>

\* What a commit does to the database.
Committed ==
    /\ rows' = rows \union txRows
    /\ storedNow' = storedNow + 1
    /\ UNCHANGED << tables, content >>

Commit ==
    /\ pc = "commit"
    /\ tx = "open" /\ ~expired
    /\ Committed
    /\ pc' = "ok"
    /\ tx' = "none"
    /\ txRows' = {}
    /\ UNCHANGED << process, expired, attempt, sample, gatherVars, todo, faultVars >>

\* Mutant: the error of Commit is not looked at.
CommitErrorIgnored ==
    /\ pc = "commit"
    /\ CallFails
    /\ pc' = "ok"
    /\ tx' = "none"
    /\ txRows' = {}
    /\ UNCHANGED << process, expired, attempt, sample, gatherVars, todo, dbVars, lostNow >>

CommitFails ==
    /\ pc = "commit"
    /\ CallFails
    /\ Fail
    /\ UNCHANGED << process, expired, attempt, sample, gatherVars, dbVars, lostNow >>

\* The commit takes place and Collect is told that it failed, as the reply is
\* lost or comes after the deadline.
CommitReplyLost ==
    /\ pc = "commit"
    /\ tx = "open" /\ ~expired
    /\ \/ Fault /\ expired' = expired
       \/ expired' = TRUE /\ UNCHANGED << faults, faultsBefore >>
    /\ Committed
    /\ lostNow' = lostNow + 1
    /\ Fail
    /\ UNCHANGED << process, attempt, sample, gatherVars >>

\* Mutant: a run goes on to a further attempt after a success.
FinishAndRepeat ==
    /\ pc = "ok" \/ (pc = "failed" /\ attempt = MaxAttempts)
    /\ pc' = IF pc = "ok" THEN "failed" ELSE "idle"
    /\ UNCHANGED << process, expired, attempt, sample, gatherVars, storeVars, dbVars, faultVars >>

\* The run of executeWithRetry ends, with a success or out of attempts.
Finish ==
    /\ pc = "ok" \/ (pc = "failed" /\ attempt = MaxAttempts)
    /\ pc' = "idle"
    /\ UNCHANGED << process, expired, attempt, sample, gatherVars, storeVars, dbVars, faultVars >>

-----------------------------------------------------------------------------

Step ==
    \/ \E g \in Gatherers : Gather(g) \/ GatherFails(g) \/ SendError(g)
    \/ CloseChannels \/ MergeMetrics \/ ResultsDone \/ DrainErrors
    \/ Begin \/ BeginFails
    \/ Insert \/ InsertFails \/ InsertGpuFails
    \/ Commit \/ CommitFails \/ CommitReplyLost
    \/ Finish

Next == RunMigrations \/ MigrationsFail \/ Collect \/ Expire \/ Step

Spec == Init /\ [][Next]_vars

(***************************************************************************)
(* Goroutines that can run do, and a Gather and a database call return, as *)
(* they run under the 60s context of collectMetrics.  Nothing makes cron   *)
(* fire; a retry is only a Collect, so it is not asked for either.         *)
(***************************************************************************)
FairSpec == Spec /\ WF_vars(Step)

-----------------------------------------------------------------------------
\* Properties

\* The type invariant.
TypeOK ==
    /\ tables \in SUBSET Tables
    /\ rows \in SUBSET ((1..MaxSamples) \X Tables)
    /\ process \in {"starting", "up", "exited"}
    /\ pc \in Points
    /\ attempt \in 0..MaxAttempts
    /\ sample \in 0..MaxSamples
    /\ expired \in BOOLEAN
    /\ working \in SUBSET Gatherers
    /\ failing \in SUBSET working
    /\ resultsCh \in SUBSET (Gatherers \X SUBSET Gatherers)
    /\ errorsCh \in 0..Cardinality(Gatherers)
    /\ closed \in BOOLEAN
    /\ aggregated \in SUBSET Gatherers
    /\ todo \in SUBSET Tables
    /\ tx \in {"none", "open", "aborted"}
    /\ txRows \in SUBSET ((1..MaxSamples) \X Tables)
    /\ faults \in 0..MaxFaults
    /\ faultsBefore \in 0..faults
    /\ gathered \in SUBSET Gatherers
    /\ content \in [1..MaxSamples -> SUBSET Gatherers]
    /\ storedNow \in Nat
    /\ lostNow \in Nat

TablesOf(s) == {t \in Tables : << s, t >> \in rows}

\* "Use transaction for atomic multi-table insert" (client.go:120): a sample
\* is in the database with all of its rows or with none; only the GPU's, whose
\* failure is logged, may be left out of it (client.go:252-254).
WholeSamples ==
    \A s \in 1..MaxSamples :
        LET all == Statements(content[s])
        IN  TablesOf(s) \in {{}, all, all \ {"gpu"}}

\* An attempt ends with its sample in the database, or for a reason of its own:
\* a call to the database failed during it, a table is missing, or its 60s are
\* over, which slow gatherers may have used up.  An error that a gatherer
\* returns, and what earlier attempts have met or left behind, cannot fail it.
AttemptJustified ==
    /\ pc = "ok" => TablesOf(sample) # {}
    /\ pc = "failed" =>
          \/ faults > faultsBefore
          \/ expired
          \/ ~ Statements(content[sample]) \subseteq tables

\* A firing stores one sample, and a further one only for a commit whose
\* reply was lost, as the retry collects and stores anew (jobs.go:188-189).
StoredOncePerFiring == storedNow <= lostNow + 1

Samples == INSTANCE SampleStore WITH
    Parts <- Gatherers,
    Always <- Unconditional,
    Stored <- Tables,
    Optional <- {"gpu"},
    supplied <- gathered,
    call <- IF pc \in {"idle", "ok", "failed"} THEN pc ELSE "working"

\* Collect implements SampleStore: its rows are stored in one step and with all
\* that the gatherers have supplied for a table, but perhaps the GPU's, in
\* whatever order they return, whoever of them fails (collector.go:194-215) and
\* whichever statement does.
ImplementsSampleStore == Samples!Spec

\* Collect returns, with a sample stored or an error: no goroutine of it
\* blocks for ever on a channel.
CollectReturns == pc = "merging" ~> pc \in {"ok", "failed"}
=============================================================================
