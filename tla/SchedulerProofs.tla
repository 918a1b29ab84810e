-------------------------- MODULE SchedulerProofs --------------------------
(***************************************************************************)
(* Theorems about Scheduler, for any set of jobs, any number of goroutines *)
(* and any maxRetries.                                                     *)
(***************************************************************************)
EXTENDS Scheduler, FiniteSetTheorems, TLAPS

-----------------------------------------------------------------------------
\* Type correctness

\* A goroutine sleeps only when it has an attempt left.
BackoffInv == \A r \in Runs : pc[r] = "backoff" => attempt[r] < MaxRetries

TypeInv == TypeOK /\ BackoffInv

\* The steps of one goroutine keep the types of its state.
LEMMA TypeStep ==
    ASSUME TypeInv, NEW r \in Runs, Step(r)
    PROVE  TypeInv'
<1> USE JobsAssumption, NoJobAssumption, RetriesAssumption
    DEF TypeInv, TypeOK, BackoffInv, Points, At
<1>1. CASE HealthCheck(r)  BY <1>1 DEF HealthCheck
<1>2. CASE Enter(r)  BY <1>2 DEF Enter
<1>3. CASE JobFuncOk(r)  BY <1>3 DEF JobFuncOk
<1>4. CASE ResetFailures(r)  BY <1>4 DEF ResetFailures
<1>5. CASE JobFuncErr(r)  BY <1>5 DEF JobFuncErr
<1>6. CASE ReadFailures(r)  BY <1>6 DEF ReadFailures
<1>7. CASE WriteFailures(r)  BY <1>7 DEF WriteFailures
<1>8. CASE BackoffDone(r)  BY <1>8 DEF BackoffDone
<1>9. CASE CheckAlert(r)
  <2>1. job[r] \in Jobs  BY <1>9 DEF CheckAlert
  <2>2. alerts' \in [Jobs -> Nat]  BY <1>9, <2>1 DEF CheckAlert
  <2> QED  BY <1>9, <2>2 DEF CheckAlert
<1>10. CASE Leave(r)  BY <1>10 DEF Leave
<1> QED  BY <1>1, <1>2, <1>3, <1>4, <1>5, <1>6, <1>7, <1>8, <1>9, <1>10 DEF Step, ExecuteWithRetry

\* Every step of the scheduler keeps the types.
LEMMA TypeNext == TypeInv /\ [Next]_vars => TypeInv'
<1> SUFFICES ASSUME TypeInv, [Next]_vars PROVE TypeInv'  OBVIOUS
<1> USE DEF TypeInv, TypeOK, BackoffInv
<1>1. CASE Start  BY <1>1 DEF Start
<1>2. ASSUME NEW r \in Runs, NEW j \in Jobs, Fire(r, j) PROVE TypeInv'
      BY <1>2, NoJobAssumption DEF Fire, Points
<1>3. CASE Stop  BY <1>3 DEF Stop
<1>4. CASE StopDone  BY <1>4 DEF StopDone
<1>5. CASE FatalMapAccess  BY <1>5 DEF FatalMapAccess
<1>6. ASSUME NEW r \in Runs, Step(r) PROVE TypeInv'  BY <1>6, TypeStep
<1>7. CASE UNCHANGED vars  BY <1>7 DEF vars
<1> QED  BY <1>1, <1>2, <1>3, <1>4, <1>5, <1>6, <1>7 DEF Next

\* The types hold at first.
LEMMA TypeInit == Init => TypeInv
BY RetriesAssumption DEF Init, TypeInv, TypeOK, BackoffInv, Points

\* Every variable keeps its type; in particular no loop variable passes
\* maxRetries, and a goroutine has a job exactly when it is running one.
THEOREM TypeCorrect == Spec => []TypeOK
<1>1. TypeInv => TypeOK  BY DEF TypeInv
<1> QED  BY <1>1, TypeInit, TypeNext, PTL DEF Spec

-----------------------------------------------------------------------------
\* The gauge

CountedRuns == {r \in Runs : pc[r] \in Counted}

\* Sets of goroutines are finite, so that they can be counted.
LEMMA CountedFinite == ASSUME NEW S \in SUBSET Runs
                       PROVE  IsFiniteSet(S) /\ Cardinality(S) \in Nat
BY RunsAssumption, FS_Subset, FS_CardinalityType

\* A step of a goroutine that stays on its side of the two Adds.
LEMMA GaugeStays ==
    ASSUME TypeOK, NEW r \in Runs, NEW point, GaugeCountsRuns,
           pc' = [pc EXCEPT ![r] = point],
           pc[r] \in Counted <=> point \in Counted,
           activeJobs' = activeJobs
    PROVE  GaugeCountsRuns'
<1>1. CountedRuns' = CountedRuns  BY DEF CountedRuns, TypeOK
<1> QED  BY <1>1 DEF GaugeCountsRuns, CountedRuns

\* A step of a goroutine moves the gauge as it moves the goroutine.
LEMMA GaugeStep ==
    ASSUME TypeOK, GaugeCountsRuns, NEW r \in Runs, Step(r)
    PROVE  GaugeCountsRuns'
<1> USE DEF At, Counted, Points
<1>1. CASE HealthCheck(r)  BY <1>1, GaugeStays DEF HealthCheck
<1>2. CASE Enter(r)
  <2>1. r \notin CountedRuns  BY <1>2 DEF Enter, CountedRuns
  <2>2. CountedRuns' = CountedRuns \union {r}
        BY <1>2 DEF Enter, CountedRuns, TypeOK
  <2>3. Cardinality(CountedRuns') = Cardinality(CountedRuns) + 1
        BY <2>1, <2>2, CountedFinite, FS_AddElement DEF CountedRuns
  <2> QED  BY <1>2, <2>3 DEF Enter, GaugeCountsRuns, CountedRuns
<1>3. CASE JobFuncOk(r)  BY <1>3, GaugeStays DEF JobFuncOk
<1>4. CASE ResetFailures(r)  BY <1>4, GaugeStays DEF ResetFailures
<1>5. CASE JobFuncErr(r)  BY <1>5, GaugeStays DEF JobFuncErr
<1>6. CASE ReadFailures(r)  BY <1>6, GaugeStays DEF ReadFailures
<1>7. CASE WriteFailures(r)
  <2>1. PICK p \in {"backoff", "exhausted"} : pc' = [pc EXCEPT ![r] = p]
        BY <1>7 DEF WriteFailures
  <2> QED  BY <1>7, <2>1, GaugeStays DEF WriteFailures
<1>8. CASE BackoffDone(r)  BY <1>8, GaugeStays DEF BackoffDone
<1>9. CASE CheckAlert(r)  BY <1>9, GaugeStays DEF CheckAlert
<1>10. CASE Leave(r)
  <2>1. r \in CountedRuns  BY <1>10 DEF Leave, CountedRuns
  <2>2. CountedRuns' = CountedRuns \ {r}
        BY <1>10 DEF Leave, CountedRuns, TypeOK
  <2>3. Cardinality(CountedRuns') = Cardinality(CountedRuns) - 1
        BY <2>1, <2>2, CountedFinite, FS_RemoveElement DEF CountedRuns
  <2> QED  BY <1>10, <2>3 DEF Leave, GaugeCountsRuns, CountedRuns
<1> QED  BY <1>1, <1>2, <1>3, <1>4, <1>5, <1>6, <1>7, <1>8, <1>9, <1>10 DEF Step, ExecuteWithRetry

\* Every step keeps the gauge right.
LEMMA GaugeNext == TypeOK /\ GaugeCountsRuns /\ [Next]_vars => GaugeCountsRuns'
<1> SUFFICES ASSUME TypeOK, GaugeCountsRuns, [Next]_vars PROVE GaugeCountsRuns'
    OBVIOUS
<1>1. CASE pc' = pc /\ activeJobs' = activeJobs
  <2>1. CountedRuns' = CountedRuns  BY <1>1 DEF CountedRuns
  <2> QED  BY <1>1, <2>1 DEF GaugeCountsRuns, CountedRuns
<1>2. ASSUME NEW r \in Runs, NEW j \in Jobs, Fire(r, j) PROVE GaugeCountsRuns'
      BY <1>2, GaugeStays DEF Fire, Counted, Points
<1>3. ASSUME NEW r \in Runs, Step(r) PROVE GaugeCountsRuns'
      BY <1>3, GaugeStep
<1> QED  BY <1>1, <1>2, <1>3
         DEF Next, Start, Stop, StopDone, FatalMapAccess, vars

\* No goroutine is counted at first.
LEMMA GaugeInit == Init => GaugeCountsRuns
<1> SUFFICES ASSUME Init PROVE GaugeCountsRuns  OBVIOUS
<1>1. {r \in Runs : pc[r] \in Counted} = {}  BY DEF Init, Counted
<1> QED  BY <1>1, FS_EmptySet DEF Init, GaugeCountsRuns

\* scheduler_active_jobs is the number of goroutines inside executeWithRetry.
THEOREM GaugeCorrect == Spec => []GaugeCountsRuns
BY GaugeInit, GaugeNext, TypeCorrect, PTL DEF Spec

-----------------------------------------------------------------------------
\* Stop

\* No goroutine starts between the end of the wait of Stop and the end.
LEMMA QuietNext == TypeOK /\ StoppedIsQuiet /\ [Next]_vars => StoppedIsQuiet'
<1> SUFFICES ASSUME TypeOK, StoppedIsQuiet, [Next]_vars PROVE StoppedIsQuiet'
    OBVIOUS
<1> USE DEF StoppedIsQuiet, InFlight
<1>1. ASSUME NEW r \in Runs, Step(r) PROVE StoppedIsQuiet'
  <2>1. pc[r] # "idle" /\ cron' = cron
        BY <1>1 DEF Step, ExecuteWithRetry, At, HealthCheck, Enter, JobFuncOk, ResetFailures,
                JobFuncErr, ReadFailures, WriteFailures, BackoffDone,
                CheckAlert, Leave
  <2> QED  BY <2>1
<1>2. ASSUME NEW r \in Runs, NEW j \in Jobs, Fire(r, j) PROVE StoppedIsQuiet'
      BY <1>2 DEF Fire
<1> QED  BY <1>1, <1>2
         DEF Next, Start, Stop, StopDone, FatalMapAccess, vars

\* When Stop has returned no job is running.
THEOREM StopWaits == Spec => []StoppedIsQuiet
<1>1. Init => StoppedIsQuiet  BY DEF Init, StoppedIsQuiet
<1> QED  BY <1>1, QuietNext, TypeCorrect, PTL DEF Spec

\* Only cron, while it is running, takes a goroutine from idle.
LEMMA NoJobStep ==
    ASSUME TypeOK, StoppedIsQuiet, [Next]_vars
    PROVE  \A r \in Runs :
          /\ cron \in {"stopping", "stopped"} => ~(pc[r] = "idle" /\ pc'[r] # "idle")
          /\ cron = "stopped" => ~(pc[r] # "calling" /\ pc'[r] = "calling")
<1>1. ASSUME NEW q \in Runs, Step(q), NEW r \in Runs
      PROVE  pc[q] # "idle" /\ (pc[r] = "idle" => pc'[r] = "idle")
      BY <1>1 DEF TypeOK, Step, ExecuteWithRetry, At, HealthCheck, Enter, JobFuncOk, ResetFailures,
              JobFuncErr, ReadFailures, WriteFailures, BackoffDone, CheckAlert, Leave
<1> QED  BY <1>1 DEF TypeOK, StoppedIsQuiet, InFlight, Next, Start, Fire, Stop,
                 StopDone, FatalMapAccess, vars

\* Once Stop was called no job is started, and once it has returned none is
\* called.
THEOREM StopIsFinal == Spec => NoJobAfterStop
<1>1. TypeOK /\ StoppedIsQuiet /\ [Next]_vars =>
        [\A r \in Runs :
          /\ cron \in {"stopping", "stopped"} => ~(pc[r] = "idle" /\ pc'[r] # "idle")
          /\ cron = "stopped" => ~(pc[r] # "calling" /\ pc'[r] = "calling")]_vars
      BY NoJobStep
<1> QED  BY <1>1, TypeCorrect, StopWaits, PTL DEF Spec, NoJobAfterStop

-----------------------------------------------------------------------------
\* The failure counts of the jobs that never overlap themselves

AloneOnce ==
    \A r, q \in Runs : job[r] \in Alone /\ job[r] = job[q] => r = q

\* What goroutine r still owes to the map, by where it is.
Settled(r) ==
    LET j == job[r]
    IN  /\ pc[r] \in {"read", "write"} =>
                consecutiveFailures[j] = failedInARow[j] - 1
        /\ pc[r] = "write" => seen[r] = consecutiveFailures[j]
        /\ pc[r] = "reset" => failedInARow[j] = 0
        /\ pc[r] \notin {"read", "write", "reset"} =>
                consecutiveFailures[j] = failedInARow[j]

CountInv ==
    /\ AloneOnce
    /\ \A r \in Runs : job[r] \in Alone => Settled(r)
    /\ \A j \in Alone : (\A r \in Runs : job[r] # j) =>
            consecutiveFailures[j] = failedInARow[j]

\* A step of r touches the counts of no job but its own.
LEMMA OwnCountsOnly ==
    ASSUME TypeOK, NEW r \in Runs, Step(r)
    PROVE  /\ \A j \in Jobs : j # job[r] =>
                /\ consecutiveFailures'[j] = consecutiveFailures[j]
                /\ failedInARow'[j] = failedInARow[j]
           /\ \A q \in Runs : q # r => /\ job'[q] = job[q]
                                       /\ pc'[q] = pc[q]
                                       /\ seen'[q] = seen[q]
           /\ job[r] \in Jobs
           /\ job'[r] = job[r] \/ (pc[r] \notin {"read", "write", "reset"}
                                     /\ job'[r] = NoJob
                                     /\ UNCHANGED << consecutiveFailures, failedInARow >>)
BY DEF TypeOK, Step, ExecuteWithRetry, At, HealthCheck, Enter, JobFuncOk, ResetFailures,
       JobFuncErr, ReadFailures, WriteFailures, BackoffDone, CheckAlert, Leave

\* A step of r leaves r settled.
LEMMA SettledStep ==
    ASSUME TypeOK, NEW r \in Runs, Step(r), job'[r] = job[r], Settled(r)
    PROVE  Settled(r)'
<1> USE DEF TypeOK, At, Settled
<1>1. CASE HealthCheck(r)  BY <1>1, NoJobAssumption DEF HealthCheck
<1>2. CASE Enter(r)  BY <1>2 DEF Enter
<1>3. CASE JobFuncOk(r)  BY <1>3 DEF JobFuncOk
<1>4. CASE ResetFailures(r)  BY <1>4 DEF ResetFailures
<1>5. CASE JobFuncErr(r)  BY <1>5 DEF JobFuncErr
<1>6. CASE ReadFailures(r)  BY <1>6 DEF ReadFailures
<1>7. CASE WriteFailures(r)  BY <1>7 DEF WriteFailures
<1>8. CASE BackoffDone(r)  BY <1>8 DEF BackoffDone
<1>9. CASE CheckAlert(r)  BY <1>9 DEF CheckAlert
<1>10. CASE Leave(r)  BY <1>10 DEF Leave
<1> QED  BY <1>1, <1>2, <1>3, <1>4, <1>5, <1>6, <1>7, <1>8, <1>9, <1>10 DEF Step, ExecuteWithRetry

\* A step of a goroutine keeps the counts of the jobs that are alone.
LEMMA CountStep ==
    ASSUME TypeOK, CountInv, NEW r \in Runs, Step(r)
    PROVE  CountInv'
<1>1. AloneOnce'
      BY OwnCountsOnly, NoJobAssumption DEF CountInv, AloneOnce, Alone
<1>2. ASSUME NEW q \in Runs, job'[q] \in Alone PROVE Settled(q)'
  <2>1. CASE q = r
    <3>1. job'[r] = job[r]
          BY <1>2, <2>1, OwnCountsOnly, NoJobAssumption DEF Alone
    <3> QED  BY <1>2, <2>1, <3>1, SettledStep DEF CountInv
  <2>2. CASE q # r
    <3>1. job[q] # job[r]
          BY <1>2, <2>2, OwnCountsOnly DEF CountInv, AloneOnce
    <3>2. Settled(q)  BY <1>2, <2>2, OwnCountsOnly DEF CountInv
    <3> QED  BY <1>2, <2>2, <3>1, <3>2, OwnCountsOnly DEF Settled, Alone
  <2> QED  BY <2>1, <2>2
<1>3. ASSUME NEW j \in Alone, \A q \in Runs : job'[q] # j
      PROVE  consecutiveFailures'[j] = failedInARow'[j]
  <2>1. CASE job[r] = j
        BY <1>3, <2>1, OwnCountsOnly DEF CountInv, Settled
  <2>2. CASE job[r] # j
    <3>1. \A q \in Runs : job[q] # j  BY <1>3, <2>2, OwnCountsOnly
    <3> QED  BY <2>2, <3>1, OwnCountsOnly DEF CountInv, Alone
  <2> QED  BY <2>1, <2>2
<1> QED  BY <1>1, <1>2, <1>3 DEF CountInv

\* A firing keeps the counts: it is the only goroutine of a job alone.
LEMMA CountFire ==
    ASSUME TypeOK, CountInv, NEW r \in Runs, NEW j \in Jobs, Fire(r, j)
    PROVE  CountInv'
<1>1. /\ job[r] = NoJob /\ job'[r] = j /\ pc'[r] = "spawned"
      /\ \A q \in Runs : q # r => job'[q] = job[q] /\ pc'[q] = pc[q]
      /\ UNCHANGED << seen, consecutiveFailures, failedInARow >>
      BY DEF Fire, TypeOK
<1>2. j \in Alone => \A q \in Runs : job[q] # j
      BY NoJobAssumption DEF Fire, RunsOf, InFlight, TypeOK, Alone
<1>3. AloneOnce'  BY <1>1, <1>2 DEF CountInv, AloneOnce
<1>4. ASSUME NEW q \in Runs, job'[q] \in Alone PROVE Settled(q)'
      BY <1>1, <1>2, <1>4 DEF CountInv, Settled
<1>5. ASSUME NEW i \in Alone, \A q \in Runs : job'[q] # i
      PROVE  consecutiveFailures'[i] = failedInARow'[i]
      BY <1>1, <1>5, NoJobAssumption DEF CountInv, Alone
<1> QED  BY <1>3, <1>4, <1>5 DEF CountInv

\* Every step keeps the counts.
LEMMA CountNext == TypeOK /\ CountInv /\ [Next]_vars => CountInv'
<1> SUFFICES ASSUME TypeOK, CountInv, [Next]_vars PROVE CountInv'  OBVIOUS
<1>1. CASE UNCHANGED << job, pc, seen, consecutiveFailures, failedInARow >>
      BY <1>1 DEF CountInv, AloneOnce, Settled
<1> QED  BY <1>1, CountStep, CountFire
         DEF Next, Start, Stop, StopDone, FatalMapAccess, vars

\* All counts are zero at first.
LEMMA CountInit == Init => CountInv
BY NoJobAssumption DEF Init, CountInv, AloneOnce, Settled, Alone

\* The inductive invariant implies the property of the map.
LEMMA CountImplies == TypeOK /\ CountInv => CountExactAlone
<1> SUFFICES ASSUME TypeOK, CountInv, NEW j \in Alone,
                    \A r \in RunsOf(j) : pc[r] # "reset"
             PROVE  consecutiveFailures[j] = CountOf(j)
    BY DEF CountExactAlone, Alone
<1>1. CASE \E r \in Runs : job[r] = j
  <2>1. PICK r \in Runs : job[r] = j  BY <1>1
  <2>2. RunsOf(j) = {r}
        BY <2>1, NoJobAssumption DEF CountInv, AloneOnce, RunsOf, InFlight, TypeOK, Alone
  <2>3. Settled(r)  BY <2>1 DEF CountInv
  <2> QED  BY <2>1, <2>2, <2>3 DEF CountOf, Settled
<1>2. CASE \A r \in Runs : job[r] # j
  <2>1. RunsOf(j) = {}  BY <1>2 DEF RunsOf, InFlight
  <2>2. consecutiveFailures[j] = failedInARow[j]  BY <1>2 DEF CountInv
  <2> QED  BY <2>1, <2>2 DEF CountOf
<1> QED  BY <1>1, <1>2

\* The counts are settled in every state.
LEMMA CountAlways == Spec => []CountInv
BY CountInit, CountNext, TypeCorrect, PTL DEF Spec

\* For a job that never overlaps itself consecutiveFailures is exactly its
\* number of failures in a row, although the map is shared with every other
\* job and has no lock.
THEOREM CountCorrect == Spec => []CountExactAlone
BY CountAlways, CountImplies, TypeCorrect, PTL

\* Only the last step of a run that has given up touches the alerts, and what
\* it compares with the threshold is the number of failures in a row.
LEMMA AlertNext ==
    TypeOK /\ CountInv /\ [Next]_vars => [AlertExact(Alone)]_vars
<1> SUFFICES ASSUME TypeOK, CountInv, [Next]_vars, NEW j \in Alone
             PROVE  alerts'[j] # alerts[j] <=>
                        AlertStep(j) /\ failedInARow[j] >= AlertThreshold
    BY DEF AlertExact
<1> USE DEF TypeOK, AlertStep, RunsOf, InFlight, Alone
<1>1. ASSUME NEW r \in Runs, CheckAlert(r)
      PROVE  alerts'[j] # alerts[j] <=>
                 AlertStep(j) /\ failedInARow[j] >= AlertThreshold
  <2>1. AlertStep(j) <=> job[r] = j
        BY <1>1 DEF CheckAlert, At
  <2>2. job[r] = j => consecutiveFailures[j] = failedInARow[j]
        BY <1>1 DEF CheckAlert, At, CountInv, Settled
  <2>3. CASE job[r] # j  BY <1>1, <2>1, <2>3 DEF CheckAlert
  <2>4. CASE job[r] = j
    <3>1. consecutiveFailures[j] >= AlertThreshold =>
            alerts' = [alerts EXCEPT ![j] = @ + 1]  BY <1>1, <2>4 DEF CheckAlert
    <3>2. ~(consecutiveFailures[j] >= AlertThreshold) => alerts' = alerts
          BY <1>1, <2>4 DEF CheckAlert
    <3>3. alerts[j] \in Nat  OBVIOUS
    <3> QED  BY <2>1, <2>2, <2>4, <3>1, <3>2, <3>3
  <2> QED  BY <2>3, <2>4
<1>2. ASSUME NEW r \in Runs, Step(r), ~CheckAlert(r)
      PROVE  alerts' = alerts /\ ~AlertStep(j)
      BY <1>2 DEF Step, ExecuteWithRetry, At, HealthCheck, Enter, JobFuncOk, ResetFailures, JobFuncErr,
                  ReadFailures, WriteFailures, BackoffDone, Leave
<1>3. ASSUME ~\E r \in Runs : Step(r)
      PROVE  alerts' = alerts /\ ~AlertStep(j)
      BY <1>3 DEF Next, Start, Fire, Stop, StopDone, FatalMapAccess, vars
<1> QED  BY <1>1, <1>2, <1>3

\* A job that never overlaps itself is reported exactly when it has failed
\* 3 * maxRetries times in a row and gives up.
THEOREM AlertCorrect == Spec => AlertExactAlone
<1>1. TypeOK /\ CountInv /\ [Next]_vars =>
        [AlertExact(Jobs \ Overlapping)]_vars  BY AlertNext DEF Alone
<1> QED  BY <1>1, TypeCorrect, CountAlways, PTL DEF Spec, AlertExactAlone

-----------------------------------------------------------------------------
\* The refinement of FailureStreak

\* What the goroutine r has left to be done.
DueAt(r) ==
    CASE pc[r] \in {"read", "write"} -> "count"
      [] pc[r] \in {"reset"} -> "reset"
      [] pc[r] \in {"exhausted"} -> "give up"
      [] OTHER -> "nothing"

SeenThroughRun ==
    \A r \in Runs, j \in Alone : job[r] = j =>
        TriesOf(j) = Tried(r) /\ Due(j) = DueAt(r)

NothingWithoutRun ==
    \A j \in Jobs : (\A r \in Runs : job[r] # j) =>
        TriesOf(j) = 0 /\ Due(j) = "nothing"

\* A job alone is seen through its one goroutine.
LEMMA RunAlone == TypeOK /\ AloneOnce => SeenThroughRun
<1> SUFFICES ASSUME TypeOK, AloneOnce, NEW r \in Runs, NEW j \in Alone, job[r] = j
             PROVE  TriesOf(j) = Tried(r) /\ Due(j) = DueAt(r)
    BY DEF SeenThroughRun
<1>1. RunsOf(j) = {r}
      BY NoJobAssumption DEF AloneOnce, RunsOf, InFlight, TypeOK, Alone
<1>2. TriesOf(j) = Tried(r)  BY <1>1 DEF TriesOf
<1>3. \A points : RunAt(j, points) <=> pc[r] \in points  BY <1>1 DEF RunAt
<1> QED  BY <1>2, <1>3 DEF Due, DueAt

\* A job without a goroutine has nothing left to be done.
LEMMA RunNone == NothingWithoutRun
<1> SUFFICES ASSUME NEW j \in Jobs, \A r \in Runs : job[r] # j
             PROVE  TriesOf(j) = 0 /\ Due(j) = "nothing"
    BY DEF NothingWithoutRun
<1>1. RunsOf(j) = {}  BY DEF RunsOf, InFlight
<1> QED  BY <1>1 DEF TriesOf, Due, RunAt

\* Both hold after a step as well.
LEMMA RunAfter ==
    (TypeOK' /\ AloneOnce' => SeenThroughRun') /\ NothingWithoutRun'
BY RunAlone, RunNone, PTL

\* Goroutines of other jobs do not matter to job i.
LEMMA RunsElsewhere ==
    ASSUME NEW i \in Jobs, NEW r \in Runs, job[r] # i, job'[r] # i,
           \A q \in Runs \ {r} : /\ job'[q] = job[q] /\ pc'[q] = pc[q]
                                 /\ attempt'[q] = attempt[q]
    PROVE  TriesOf(i)' = TriesOf(i) /\ Due(i)' = Due(i)
<1>1. RunsOf(i)' = RunsOf(i)  BY DEF RunsOf, InFlight
<1>2. \A q \in RunsOf(i) : q \in Runs \ {r}  BY DEF RunsOf, InFlight
<1>3. \A q \in RunsOf(i) : Tried(q)' = Tried(q)  BY <1>2 DEF Tried
<1>4. Due(i)' = Due(i)  BY <1>1, <1>2 DEF Due, RunAt
<1>5. TriesOf(i)' = TriesOf(i)
  <2>1. CASE RunsOf(i) = {}  BY <1>1, <2>1 DEF TriesOf
  <2>2. CASE RunsOf(i) # {}
    <3>1. (CHOOSE q \in RunsOf(i) : TRUE) \in RunsOf(i)  BY <2>2
    <3> QED  BY <1>1, <1>3, <2>2, <3>1 DEF TriesOf
  <2> QED  BY <2>1, <2>2
<1> QED  BY <1>4, <1>5

\* The mapping takes the initial state to one of FailureStreak.
LEMMA StreakInit == Init => Streak!Init
<1> SUFFICES ASSUME Init PROVE Streak!Init  OBVIOUS
<1>1. \A j \in Alone : TriesOf(j) = 0 /\ Due(j) = "nothing"
      BY RunNone, NoJobAssumption DEF Init, NothingWithoutRun, Alone
<1> QED  BY <1>1 DEF Init, Streak!Init, Alone

\* What a step of r does to the job it runs, seen through the mapping.
LEMMA StreakOwn ==
    ASSUME TypeOK, CountInv, NEW r \in Runs, Step(r), NEW j, j = job[r], j \in Alone,
           job'[r] = j
    PROVE  \/ /\ UNCHANGED << consecutiveFailures, alerts >>
              /\ Tried(r)' = Tried(r)
              /\ \/ DueAt(r)' = DueAt(r)
                 \/ DueAt(r) = "nothing" /\ DueAt(r)' \in {"count", "reset"}
           \/ /\ DueAt(r) = "count"
              /\ consecutiveFailures' =
                    [consecutiveFailures EXCEPT ![j] = consecutiveFailures[j] + 1]
              /\ Tried(r)' = Tried(r) + 1
              /\ DueAt(r)' = IF Tried(r) + 1 = MaxRetries THEN "give up" ELSE "nothing"
              /\ UNCHANGED alerts
           \/ /\ DueAt(r) = "reset"
              /\ consecutiveFailures' = [consecutiveFailures EXCEPT ![j] = 0]
              /\ Tried(r)' = 0 /\ DueAt(r)' = "nothing"
              /\ UNCHANGED alerts
           \/ /\ DueAt(r) = "give up"
              /\ alerts' = IF consecutiveFailures[j] >= 3 * MaxRetries
                             THEN [alerts EXCEPT ![j] = alerts[j] + 1] ELSE alerts
              /\ Tried(r)' = 0 /\ DueAt(r)' = "nothing"
              /\ UNCHANGED consecutiveFailures
<1> USE RetriesAssumption DEF TypeOK, At, Tried, DueAt
<1>1. CASE HealthCheck(r)  BY <1>1, NoJobAssumption DEF HealthCheck, Alone
<1>2. CASE Enter(r)  BY <1>2 DEF Enter
<1>3. CASE JobFuncOk(r)  BY <1>3 DEF JobFuncOk
<1>4. CASE ResetFailures(r)  BY <1>4 DEF ResetFailures
<1>5. CASE JobFuncErr(r)  BY <1>5 DEF JobFuncErr
<1>6. CASE ReadFailures(r)  BY <1>6 DEF ReadFailures
<1>7. CASE WriteFailures(r)
  <2>1. seen[r] = consecutiveFailures[j]
        BY <1>7 DEF CountInv, Settled, WriteFailures
  <2>2. attempt[r] \in Nat /\ attempt[r] <= MaxRetries /\ MaxRetries \in Nat  OBVIOUS
  <2>3. /\ pc[r] = "write" /\ attempt'[r] = attempt[r] /\ UNCHANGED alerts
        /\ consecutiveFailures' =
             [consecutiveFailures EXCEPT ![j] = consecutiveFailures[j] + 1]
        /\ pc'[r] = IF attempt[r] < MaxRetries THEN "backoff" ELSE "exhausted"
        BY <1>7, <2>1 DEF WriteFailures
  <2>4. DueAt(r) = "count" /\ Tried(r) = attempt[r] - 1  BY <2>3
  <2>5. Tried(r)' = attempt[r]  BY <2>3
  <2>6. DueAt(r)' = IF attempt[r] < MaxRetries THEN "nothing" ELSE "give up"
        BY <2>3
  <2> HIDE DEF DueAt, Tried, TypeOK
  <2>7. (Tried(r) + 1 = MaxRetries) <=> ~(attempt[r] < MaxRetries)  BY <2>2, <2>4
  <2>8. DueAt(r)' = IF Tried(r) + 1 = MaxRetries THEN "give up" ELSE "nothing"
        BY <2>6, <2>7
  <2>9. Tried(r)' = Tried(r) + 1  BY <2>2, <2>4, <2>5
  <2> QED  BY <2>3, <2>4, <2>8, <2>9
<1>8. CASE BackoffDone(r)  BY <1>8 DEF BackoffDone
<1>9. CASE CheckAlert(r)  BY <1>9 DEF CheckAlert, AlertThreshold
<1>10. CASE Leave(r)  BY <1>10, NoJobAssumption DEF Leave, Alone
<1> QED  BY <1>1, <1>2, <1>3, <1>4, <1>5, <1>6, <1>7, <1>8, <1>9, <1>10
         DEF Step, ExecuteWithRetry

\* A step of r touches no goroutine but its own, and no alert of other jobs.
LEMMA OwnRunOnly ==
    ASSUME TypeOK, NEW r \in Runs, Step(r)
    PROVE  /\ \A q \in Runs \ {r} : /\ job'[q] = job[q] /\ pc'[q] = pc[q]
                                     /\ attempt'[q] = attempt[q]
           /\ \A i \in Jobs : i # job[r] => alerts'[i] = alerts[i]
           /\ job'[r] \in {job[r], NoJob}
           /\ job'[r] = NoJob => /\ pc[r] \in {"spawned", "leaving"}
                                 /\ UNCHANGED << consecutiveFailures, alerts >>
BY NoJobAssumption
   DEF TypeOK, Step, ExecuteWithRetry, At, HealthCheck, Enter, JobFuncOk,
       ResetFailures, JobFuncErr, ReadFailures, WriteFailures, BackoffDone,
       CheckAlert, Leave

\* A step of a goroutine is one of FailureStreak, or a stutter.
LEMMA StreakStep ==
    ASSUME TypeOK, CountInv, TypeOK', CountInv', NEW r \in Runs, Step(r),
           NEW j, j = job[r]
    PROVE  Streak!Next \/ UNCHANGED Streak!vars
<1>1. \A i \in Alone : i # j =>
        /\ consecutiveFailures'[i] = consecutiveFailures[i]
        /\ alerts'[i] = alerts[i]
        /\ TriesOf(i)' = TriesOf(i) /\ Due(i)' = Due(i)
  <2> SUFFICES ASSUME NEW i \in Alone, i # j
               PROVE  /\ consecutiveFailures'[i] = consecutiveFailures[i]
                      /\ alerts'[i] = alerts[i]
                      /\ TriesOf(i)' = TriesOf(i) /\ Due(i)' = Due(i)
      OBVIOUS
  <2>1. i \in Jobs /\ i # NoJob  BY NoJobAssumption DEF Alone
  <2>2. job'[r] # i  BY <2>1, OwnRunOnly
  <2>3. TriesOf(i)' = TriesOf(i) /\ Due(i)' = Due(i)
        BY <2>1, <2>2, OwnRunOnly, RunsElsewhere
  <2> QED  BY <2>1, <2>3, OwnCountsOnly, OwnRunOnly
<1>2. consecutiveFailures \in [Jobs -> Nat] /\ alerts \in [Jobs -> Nat]
      /\ Alone \subseteq Jobs  BY DEF TypeOK, Alone
<1>3. CASE j \notin Alone  BY <1>1, <1>3 DEF Streak!vars
<1>4. ASSUME j \in Alone, job'[r] = NoJob PROVE UNCHANGED Streak!vars
  <2>1. TriesOf(j) = 0 /\ Due(j) = "nothing"
        BY <1>4, RunAlone, OwnRunOnly DEF CountInv, SeenThroughRun, Tried, DueAt
  <2>2. \A q \in Runs : job'[q] # j
        BY <1>4, OwnRunOnly, NoJobAssumption DEF CountInv, AloneOnce, Alone
  <2>3. TriesOf(j)' = 0 /\ Due(j)' = "nothing"  BY <1>2, <1>4, <2>2, RunAfter DEF NothingWithoutRun
  <2>4. UNCHANGED << consecutiveFailures, alerts >>  BY <1>4, OwnRunOnly
  <2> QED  BY <1>1, <2>1, <2>3, <2>4 DEF Streak!vars
<1>5. ASSUME j \in Alone, job'[r] = j
      PROVE  Streak!Next \/ UNCHANGED Streak!vars
  <2>1. TriesOf(j) = Tried(r) /\ Due(j) = DueAt(r)
        BY <1>5, RunAlone DEF CountInv, SeenThroughRun
  <2>2. TriesOf(j)' = Tried(r)' /\ Due(j)' = DueAt(r)'
        BY <1>5, RunAfter DEF CountInv, SeenThroughRun
  <2>3. CASE UNCHANGED << consecutiveFailures, alerts >> /\ Tried(r)' = Tried(r)
             /\ DueAt(r)' = DueAt(r)
        BY <1>1, <2>1, <2>2, <2>3 DEF Streak!vars
  <2>4. CASE UNCHANGED << consecutiveFailures, alerts >> /\ Tried(r)' = Tried(r)
             /\ DueAt(r) = "nothing" /\ DueAt(r)' \in {"count", "reset"}
    <3>1. Streak!Attempt(j)
          BY <1>1, <1>5, <2>1, <2>2, <2>4 DEF Streak!Attempt
    <3> QED  BY <1>5, <3>1 DEF Streak!Next
  <2>5. CASE /\ DueAt(r) = "count"
             /\ consecutiveFailures' =
                    [consecutiveFailures EXCEPT ![j] = consecutiveFailures[j] + 1]
             /\ Tried(r)' = Tried(r) + 1
             /\ DueAt(r)' = IF Tried(r) + 1 = MaxRetries THEN "give up" ELSE "nothing"
             /\ UNCHANGED alerts
    <3>1. [i \in Alone |-> Due(i)]' =
            [[i \in Alone |-> Due(i)] EXCEPT
                ![j] = IF TriesOf(j) + 1 = MaxRetries THEN "give up" ELSE "nothing"]
          BY <1>1, <1>5, <2>1, <2>2, <2>5
    <3>2. [i \in Alone |-> TriesOf(i)]' =
            [[i \in Alone |-> TriesOf(i)] EXCEPT ![j] = @ + 1]
          BY <1>1, <1>5, <2>1, <2>2, <2>5
    <3>3. [i \in Alone |-> consecutiveFailures[i]]' =
            [[i \in Alone |-> consecutiveFailures[i]] EXCEPT ![j] = @ + 1]
          BY <1>1, <1>2, <1>5, <2>5
    <3>4. [i \in Alone |-> TriesOf(i)][j] = TriesOf(j)  BY <1>5
    <3>5. [i \in Alone |-> Due(i)][j] = "count"  BY <1>5, <2>1, <2>5
    <3>6. Streak!Count(j)
          BY <2>5, <3>1, <3>2, <3>3, <3>4, <3>5 DEF Streak!Count
    <3> QED  BY <1>5, <3>6 DEF Streak!Next
  <2>6. CASE /\ DueAt(r) = "reset"
             /\ consecutiveFailures' = [consecutiveFailures EXCEPT ![j] = 0]
             /\ Tried(r)' = 0 /\ DueAt(r)' = "nothing"
             /\ UNCHANGED alerts
    <3>1. Streak!Reset(j)
          BY <1>1, <1>2, <1>5, <2>1, <2>2, <2>6 DEF Streak!Reset
    <3> QED  BY <1>5, <3>1 DEF Streak!Next
  <2>7. CASE /\ DueAt(r) = "give up"
             /\ alerts' = IF consecutiveFailures[j] >= 3 * MaxRetries
                            THEN [alerts EXCEPT ![j] = alerts[j] + 1] ELSE alerts
             /\ Tried(r)' = 0 /\ DueAt(r)' = "nothing"
             /\ UNCHANGED consecutiveFailures
    <3>1. Streak!GiveUp(j)
          BY <1>1, <1>2, <1>5, <2>1, <2>2, <2>7 DEF Streak!GiveUp
    <3> QED  BY <1>5, <3>1 DEF Streak!Next
  <2> QED  BY <1>5, <2>3, <2>4, <2>5, <2>6, <2>7, StreakOwn
<1> QED  BY <1>3, <1>4, <1>5, OwnRunOnly

\* A firing is a stutter: a run that starts has nothing left to be done.
LEMMA StreakFire ==
    ASSUME TypeOK, CountInv, TypeOK', CountInv', NEW r \in Runs, NEW j \in Jobs, Fire(r, j)
    PROVE  UNCHANGED Streak!vars
<1>1. /\ job[r] = NoJob /\ job'[r] = j /\ pc'[r] = "spawned"
      /\ \A q \in Runs \ {r} : /\ job'[q] = job[q] /\ pc'[q] = pc[q]
                                 /\ attempt'[q] = attempt[q]
      /\ UNCHANGED << consecutiveFailures, alerts >>
      BY DEF Fire, TypeOK
<1>2. ASSUME NEW i \in Alone PROVE TriesOf(i)' = TriesOf(i) /\ Due(i)' = Due(i)
  <2>1. i \in Jobs /\ i # NoJob  BY NoJobAssumption DEF Alone
  <2>2. CASE i # j  BY <1>1, <2>1, <2>2, RunsElsewhere
  <2>3. CASE i = j
    <3>1. \A q \in Runs : job[q] # i
          BY <1>2, <2>1, <2>3 DEF Fire, RunsOf, InFlight, TypeOK, Alone
    <3>2. TriesOf(i) = 0 /\ Due(i) = "nothing"  BY <2>1, <3>1, RunNone DEF NothingWithoutRun
    <3>3. TriesOf(i)' = Tried(r)' /\ Due(i)' = DueAt(r)'
          BY <1>1, <1>2, <2>3, RunAfter DEF CountInv, SeenThroughRun
    <3>4. Tried(r)' = 0 /\ DueAt(r)' = "nothing"  BY <1>1 DEF Tried, DueAt
    <3> QED  BY <3>2, <3>3, <3>4
  <2> QED  BY <2>2, <2>3
<1> QED  BY <1>1, <1>2 DEF Streak!vars

\* The mapping takes a step to a step of FailureStreak, or to a stutter.
LEMMA StreakNext ==
    TypeOK /\ CountInv /\ TypeOK' /\ CountInv' /\ [Next]_vars =>
        [Streak!Next]_(Streak!vars)
<1> SUFFICES ASSUME TypeOK, CountInv, TypeOK', CountInv', [Next]_vars
             PROVE  Streak!Next \/ UNCHANGED Streak!vars
    OBVIOUS
<1>1. CASE UNCHANGED << job, pc, attempt, consecutiveFailures, alerts >>
      BY <1>1 DEF Streak!vars, TriesOf, Due, Tried, RunAt, RunsOf, InFlight
<1>2. CASE \E r \in Runs, j \in Jobs : Fire(r, j)  BY <1>2, StreakFire
<1>3. CASE \E r \in Runs : Step(r)  BY <1>3, StreakStep
<1> QED  BY <1>1, <1>2, <1>3 DEF Next, Start, Stop, StopDone, FatalMapAccess, vars

\* The jobs that never overlap themselves keep the promise of FailureStreak.
THEOREM SchedulerImplementsStreak == Spec => ImplementsStreak
BY StreakInit, StreakNext, TypeCorrect, CountAlways, PTL
   DEF Spec, ImplementsStreak, Streak!Spec

-----------------------------------------------------------------------------
\* JobService

\* A goroutine that moves between two points outside "idle" keeps running.
LEMMA StillRunning ==
    ASSUME TypeOK, NEW r \in Runs, NEW p \in Points \ {"idle"},
           pc[r] # "idle", pc' = [pc EXCEPT ![r] = p]
    PROVE  InFlight' = InFlight
BY DEF TypeOK, InFlight

\* A goroutine that goes back to "idle" is running no more.
LEMMA RunsNoMore ==
    ASSUME TypeOK, NEW r \in Runs, cron # "dead", UNCHANGED cron,
           pc[r] # "idle", pc' = [pc EXCEPT ![r] = "idle"]
    PROVE  Service!Return(r)
BY DEF TypeOK, InFlight, Service!Return

\* A step of a goroutine ends its run or leaves it running.
LEMMA ServiceStep ==
    ASSUME TypeOK, NEW r \in Runs, Step(r)
    PROVE  Service!Return(r) \/ UNCHANGED << cron, InFlight >>
<1> USE DEF At
<1>1. CASE HealthCheck(r)  BY <1>1, RunsNoMore DEF HealthCheck
<1>2. CASE Leave(r)  BY <1>2, RunsNoMore DEF Leave
<1>3. CASE Enter(r)  BY <1>3, StillRunning DEF Enter, Points
<1>4. CASE JobFuncOk(r)  BY <1>4, StillRunning DEF JobFuncOk, Points
<1>5. CASE ResetFailures(r)  BY <1>5, StillRunning DEF ResetFailures, Points
<1>6. CASE JobFuncErr(r)  BY <1>6, StillRunning DEF JobFuncErr, Points
<1>7. CASE ReadFailures(r)  BY <1>7, StillRunning DEF ReadFailures, Points
<1>8. CASE WriteFailures(r)
  <2>1. CASE attempt[r] < MaxRetries
        BY <1>8, <2>1, StillRunning DEF WriteFailures, Points
  <2>2. CASE ~(attempt[r] < MaxRetries)
        BY <1>8, <2>2, StillRunning DEF WriteFailures, Points
  <2> QED  BY <2>1, <2>2
<1>9. CASE BackoffDone(r)  BY <1>9, StillRunning DEF BackoffDone, Points
<1>10. CASE CheckAlert(r)  BY <1>10, StillRunning DEF CheckAlert, Points
<1> QED  BY <1>1, <1>2, <1>3, <1>4, <1>5, <1>6, <1>7, <1>8, <1>9, <1>10 DEF Step, ExecuteWithRetry

\* Each step of the scheduler is one of JobService, or a stutter.
LEMMA ServiceNext == TypeOK /\ [Next]_vars => [Service!Next]_(Service!vars)
<1> SUFFICES ASSUME TypeOK, [Next]_vars
             PROVE  Service!Next \/ UNCHANGED << cron, InFlight >>
    BY DEF Service!vars
<1>1. CASE Start  BY <1>1 DEF Start, InFlight, Service!Next, Service!Start
<1>2. ASSUME NEW r \in Runs, NEW j \in Jobs, Fire(r, j)
      PROVE  Service!Fire(r)
      BY <1>2 DEF TypeOK, Fire, InFlight, Service!Fire
<1>3. CASE Stop  BY <1>3 DEF Stop, InFlight, Service!Next, Service!Stop
<1>4. CASE StopDone
      BY <1>4 DEF StopDone, InFlight, Service!Next, Service!StopDone
<1>5. CASE FatalMapAccess
  <2>1. InFlight # {}  BY <1>5 DEF FatalMapAccess, InFlight, MapWrites
  <2> QED  BY <1>5, <2>1 DEF FatalMapAccess, InFlight, Service!Next, Service!Die
<1>6. CASE \E r \in Runs : Step(r)  BY <1>6, ServiceStep DEF Service!Next
<1>7. CASE UNCHANGED vars  BY <1>7 DEF vars, InFlight
<1> QED  BY <1>1, <1>2, <1>3, <1>4, <1>5, <1>6, <1>7 DEF Next, Service!Next

\* At the start no job runs.
LEMMA ServiceInit == Init => Service!Init
BY DEF Init, InFlight, Service!Init

\* The scheduler keeps the promise of JobService.
THEOREM SchedulerImplementsJobService == Spec => ImplementsJobService
BY ServiceInit, ServiceNext, TypeCorrect, PTL
   DEF Spec, ImplementsJobService, Service!Spec

-----------------------------------------------------------------------------
\* A run comes to its end

\* How many steps a goroutine can still take, at most: four for each attempt
\* that is left, and two to leave.
StepsLeft(r) ==
    LET retries == 4 * (MaxRetries - attempt[r])
    IN  CASE pc[r] = "spawned" -> 4 * MaxRetries + 2
          [] pc[r] = "calling" -> retries + 5
          [] pc[r] = "read" -> retries + 4
          [] pc[r] = "write" -> retries + 3
          [] pc[r] = "backoff" -> retries + 2
          [] pc[r] \in {"reset", "exhausted"} -> 2
          [] pc[r] = "leaving" -> 1
          [] pc[r] = "idle" -> 0

StepsLeftNumbers == \A r \in Runs : StepsLeft(r) \in Nat

\* Each step of a goroutine leaves it fewer, and touches no other: only cron
\* can start a run, and nobody can prolong one.
RunsEnd ==
    [][\A r \in Runs :
          Step(r) => /\ StepsLeft(r)' < StepsLeft(r)
                     /\ \A q \in Runs \ {r} : StepsLeft(q)' = StepsLeft(q)]_vars

\* What the retries that are left allow is a number.
LEMMA RetriesLeft ==
    ASSUME TypeOK, NEW r \in Runs
    PROVE  4 * (MaxRetries - attempt[r]) \in Nat
BY RetriesAssumption DEF TypeOK

\* The steps that are left are a number.
LEMMA StepsLeftTyped == TypeOK => StepsLeftNumbers
<1> SUFFICES ASSUME TypeOK, NEW r \in Runs PROVE StepsLeft(r) \in Nat
    BY DEF StepsLeftNumbers
<1> DEFINE retries == 4 * (MaxRetries - attempt[r])
<1>1. retries \in Nat  BY RetriesLeft
<1>2. pc[r] \in Points  BY DEF TypeOK
<1>3. MaxRetries \in Nat  BY RetriesAssumption
<1> HIDE DEF retries
<1>4. CASE pc[r] \in {"calling", "read", "write", "backoff"}
      BY <1>1, <1>4 DEF StepsLeft, retries
<1>5. CASE pc[r] \in {"spawned", "reset", "exhausted", "leaving", "idle"}
      BY <1>3, <1>5 DEF StepsLeft
<1> QED  BY <1>2, <1>4, <1>5 DEF Points

\* A step of one goroutine.
LEMMA StepsLeftStep ==
    ASSUME TypeInv, NEW r \in Runs, Step(r)
    PROVE  /\ StepsLeft(r)' < StepsLeft(r)
           /\ \A q \in Runs \ {r} : StepsLeft(q)' = StepsLeft(q)
<1> DEFINE left == MaxRetries - attempt[r]
<1>0. TypeOK  BY DEF TypeInv
<1>1. left \in Nat /\ MaxRetries \in Nat \ {0} /\ MaxRetries' = MaxRetries
      BY <1>0, RetriesAssumption DEF TypeOK
<1>2. pc \in [Runs -> Points] /\ attempt \in [Runs -> 0..MaxRetries]  BY <1>0 DEF TypeOK
<1>a. ASSUME NEW p, NEW n, pc' = [pc EXCEPT ![r] = p],
             attempt' = [attempt EXCEPT ![r] = n]
      PROVE  /\ pc'[r] = p /\ attempt'[r] = n
             /\ \A q \in Runs \ {r} : pc'[q] = pc[q] /\ attempt'[q] = attempt[q]
      BY <1>2, <1>a
<1>b. ASSUME NEW p, pc' = [pc EXCEPT ![r] = p], UNCHANGED attempt
      PROVE  /\ pc'[r] = p /\ attempt'[r] = attempt[r]
             /\ \A q \in Runs \ {r} : pc'[q] = pc[q] /\ attempt'[q] = attempt[q]
      BY <1>2, <1>b
<1>3. \A q \in Runs \ {r} : pc'[q] = pc[q] /\ attempt'[q] = attempt[q]
  <2>1. CASE HealthCheck(r) \/ JobFuncOk(r) \/ ResetFailures(r) \/ JobFuncErr(r)
             \/ ReadFailures(r) \/ WriteFailures(r) \/ CheckAlert(r)
        BY <2>1, <1>b DEF HealthCheck, JobFuncOk, ResetFailures, JobFuncErr, ReadFailures,
                          WriteFailures, CheckAlert
  <2>2. CASE Enter(r) \/ BackoffDone(r) \/ Leave(r)
        BY <2>2, <1>a DEF Enter, BackoffDone, Leave
  <2> QED  BY <2>1, <2>2 DEF Step, ExecuteWithRetry
<1>4. \A q \in Runs \ {r} : StepsLeft(q)' = StepsLeft(q)  BY <1>3 DEF StepsLeft
<1>5. StepsLeft(r)' < StepsLeft(r)
  <2>1. CASE HealthCheck(r)
    <3>1. pc[r] = "spawned" /\ pc'[r] = "idle"  BY <2>1, <1>b DEF HealthCheck, At
    <3>2. StepsLeft(r) = 4 * MaxRetries + 2 /\ StepsLeft(r)' = 0  BY <3>1 DEF StepsLeft
    <3> QED  BY <1>1, <3>2
  <2>2. CASE Enter(r)
    <3>1. pc[r] = "spawned" /\ pc'[r] = "calling" /\ attempt'[r] = 1
          BY <2>2, <1>a DEF Enter, At
    <3>2. StepsLeft(r) = 4 * MaxRetries + 2 /\ StepsLeft(r)' = 4 * (MaxRetries - 1) + 5
          BY <3>1 DEF StepsLeft
    <3> QED  BY <1>1, <3>2
  <2>3. CASE JobFuncOk(r)
    <3>1. pc[r] = "calling" /\ pc'[r] = "reset"  BY <2>3, <1>b DEF JobFuncOk, At
    <3>2. StepsLeft(r) = 4 * left + 5 /\ StepsLeft(r)' = 2  BY <3>1 DEF StepsLeft
    <3> QED  BY <1>1, <3>2
  <2>4. CASE JobFuncErr(r)
    <3>1. pc[r] = "calling" /\ pc'[r] = "read" /\ attempt'[r] = attempt[r]
          BY <2>4, <1>b DEF JobFuncErr, At
    <3>2. StepsLeft(r) = 4 * left + 5 /\ StepsLeft(r)' = 4 * left + 4
          BY <3>1 DEF StepsLeft
    <3> QED  BY <1>1, <3>2
  <2>5. CASE ReadFailures(r)
    <3>1. pc[r] = "read" /\ pc'[r] = "write" /\ attempt'[r] = attempt[r]
          BY <2>5, <1>b DEF ReadFailures, At
    <3>2. StepsLeft(r) = 4 * left + 4 /\ StepsLeft(r)' = 4 * left + 3
          BY <3>1 DEF StepsLeft
    <3> QED  BY <1>1, <3>2
  <2>6. CASE WriteFailures(r)
    <3>1. pc[r] = "write" /\ pc'[r] \in {"backoff", "exhausted"} /\ attempt'[r] = attempt[r]
          BY <2>6, <1>b DEF WriteFailures, At
    <3>2. StepsLeft(r) = 4 * left + 3 /\ StepsLeft(r)' \in {4 * left + 2, 2}
          BY <3>1 DEF StepsLeft
    <3> QED  BY <1>1, <3>2
  <2>7. CASE BackoffDone(r)
    <3>1. pc[r] = "backoff" /\ pc'[r] = "calling" /\ attempt'[r] = attempt[r] + 1
          BY <2>7, <1>a DEF BackoffDone, At
    <3>2. StepsLeft(r) = 4 * left + 2
          /\ StepsLeft(r)' = 4 * (MaxRetries - (attempt[r] + 1)) + 5
          BY <3>1 DEF StepsLeft
    <3>3. attempt[r] \in Nat  BY <1>2
    <3> QED  BY <1>1, <3>2, <3>3
  <2>8. CASE ResetFailures(r) \/ CheckAlert(r)
    <3>1. pc[r] \in {"reset", "exhausted"} /\ pc'[r] = "leaving"
          BY <2>8, <1>b DEF ResetFailures, CheckAlert, At
    <3> QED  BY <3>1 DEF StepsLeft
  <2>9. CASE Leave(r)
    <3>1. pc[r] = "leaving" /\ pc'[r] = "idle"  BY <2>9, <1>a DEF Leave, At
    <3> QED  BY <3>1 DEF StepsLeft
  <2> QED  BY <2>1, <2>2, <2>3, <2>4, <2>5, <2>6, <2>7, <2>8, <2>9 DEF Step, ExecuteWithRetry
<1> QED  BY <1>4, <1>5

\* However its attempts fail and whatever the other goroutines do, a run ends
\* after a number of its own steps that its retries bound; so Stop, which waits
\* for the runs that were started, waits for a bounded number of steps.  That a
\* step is taken at all is no part of this: a Ping may be left unanswered.
THEOREM RunsRunOut == Spec => []StepsLeftNumbers /\ RunsEnd
<1>1. TypeInv /\ [Next]_vars =>
        [\A r \in Runs :
            Step(r) => /\ StepsLeft(r)' < StepsLeft(r)
                       /\ \A q \in Runs \ {r} : StepsLeft(q)' = StepsLeft(q)]_vars
      BY StepsLeftStep
<1>2. Spec => []TypeInv  BY TypeInit, TypeNext, PTL DEF Spec
<1> QED  BY <1>1, <1>2, TypeCorrect, StepsLeftTyped, PTL DEF Spec, RunsEnd
=============================================================================
