--------------------------- MODULE LifecycleProofs ---------------------------
(* Theorems about Lifecycle, for any jobs, requests and number of attempts. *)
EXTENDS Lifecycle, TLAPS

(***************************************************************************)
(* The inductive invariant.  While the process lives, main's position      *)
(* decides the pool, the scheduler and the server; requests and jobs are   *)
(* in progress only where it lets them be.                                 *)
(***************************************************************************)
Connecting == {"connect", "ping", "backoff", "migrate", "schedule"}

Position ==
    Alive =>
        /\ pool = IF main \in {"connect", "backoff"} THEN "none"
                    ELSE IF main = "closing" THEN "closing" ELSE "open"
        /\ cron = IF main \in Connecting THEN "new"
                    ELSE IF main = "stopping" THEN "stopping"
                    ELSE IF main \in {"close", "closing"} THEN "stopped"
                    ELSE "running"
        /\ api \in {"starting", "listening"} => main \in {"notify", "serve"}
        /\ main \in {"connect", "backoff"} => attempt < MaxAttempts

Progress ==
    Alive =>
        /\ InUse(Requests) # {} => main \in {"notify", "serve", "drain"} \/ timedOut
        /\ main \in {"close", "closing"} => InUse(Jobs) = {}

Inv ==
    /\ TypeOK
    /\ OnePool
    /\ Position
    /\ Progress
    /\ JobsKeepPool
    /\ RequestsLoseOnlyByTimeout

-----------------------------------------------------------------------------
\* Starting: no user of the pool but the readiness check is at work.
LEMMA StartKeepsInv ==
    ASSUME Inv,
           \/ ConfigRejected \/ Connect \/ ConnectFails \/ PingOk \/ PingFails
           \/ Backoff \/ Migrate \/ MigrateFails \/ StartScheduler \/ NewRouter \/ StartServers
           \/ Notify
    PROVE  Inv'
<1> USE AttemptsAssumption, UsersAssumption
    DEF Inv, TypeOK, OnePool, Position, Progress, JobsKeepPool,
        RequestsLoseOnlyByTimeout, Alive, Exited, Starting, Ending, Connecting,
        Go, InUse, clientVars, dbVars, useVars
<1>a. CASE ConfigRejected  BY <1>a DEF ConfigRejected
<1>b. CASE ConnectFails  BY <1>b DEF ConnectFails
<1>1. CASE Connect  BY <1>1 DEF Connect
<1>2. CASE PingOk  BY <1>2 DEF PingOk
<1>3. CASE PingFails  BY <1>3 DEF PingFails
<1>4. CASE Backoff  BY <1>4 DEF Backoff
<1>5. CASE Migrate  BY <1>5 DEF Migrate
<1>6. CASE MigrateFails  BY <1>6 DEF MigrateFails
<1>7. CASE StartScheduler  BY <1>7 DEF StartScheduler, J!Start
<1>8. CASE NewRouter  BY <1>8 DEF NewRouter, Users
<1>9. CASE StartServers  BY <1>9 DEF StartServers
<1>10. CASE Notify  BY <1>10 DEF Notify
<1> QED  BY <1>a, <1>b, <1>1, <1>2, <1>3, <1>4, <1>5, <1>6, <1>7, <1>8, <1>9, <1>10

\* Ending: each step is taken when what it waits for has come to an end.
LEMMA EndKeepsInv ==
    ASSUME Inv,
           \/ Quit \/ Drained \/ DrainTimesOut \/ Stop \/ StopDone
           \/ Close \/ CloseDone
    PROVE  Inv'
<1> USE UsersAssumption
    DEF Inv, TypeOK, OnePool, Position, Progress, JobsKeepPool,
        RequestsLoseOnlyByTimeout, Alive, Exited, Starting, Ending, Connecting,
        Go, InUse, clientVars, dbVars, useVars
<1>1. CASE Quit  BY <1>1 DEF Quit
<1>2. CASE Drained  BY <1>2 DEF Drained
<1>3. CASE DrainTimesOut  BY <1>3 DEF DrainTimesOut
<1>4. CASE Stop  BY <1>4 DEF Stop, J!Stop
<1>5. CASE StopDone  BY <1>5 DEF StopDone, J!StopDone
<1>6. CASE Close  BY <1>6 DEF Close
<1>7. CASE CloseDone  BY <1>7 DEF CloseDone
<1> QED  BY <1>1, <1>2, <1>3, <1>4, <1>5, <1>6, <1>7

\* The servers, the platform and a job that takes the process down.
LEMMA PlatformKeepsInv ==
    ASSUME Inv,
           \/ Listen \/ ServerFails \/ Terminate \/ Kill
           \/ DatabaseChanges \/ JobDies
    PROVE  Inv'
<1> USE UsersAssumption
    DEF Inv, TypeOK, OnePool, Position, Progress, JobsKeepPool,
        RequestsLoseOnlyByTimeout, Alive, Exited, Starting, Ending, Connecting,
        InUse, clientVars, dbVars, useVars
<1>1. CASE Listen  BY <1>1 DEF Listen
<1>2. CASE ServerFails  BY <1>2 DEF ServerFails
<1>3. CASE Terminate  BY <1>3 DEF Terminate
<1>4. CASE Kill  BY <1>4 DEF Kill
<1>5. CASE DatabaseChanges  BY <1>5 DEF DatabaseChanges, DatabaseStates
<1>6. CASE JobDies  BY <1>6 DEF JobDies, J!Die
<1> QED  BY <1>1, <1>2, <1>3, <1>4, <1>5, <1>6

\* Users of the pool.  Only the clauses about them can be disturbed: a job
\* fires while the scheduler runs, a request arrives while the server listens,
\* and who finds the pool closed does so while main closes it.
LEMMA UsersKeepInv ==
    ASSUME Inv,
           \/ \E j \in Jobs : FireJob(j) \/ JobReturns(j)
           \/ \E r \in Requests : Arrive(r) \/ RequestEnds(r)
           \/ \E u \in Users : Work(u)
    PROVE  Inv'
<1> USE UsersAssumption DEF Inv, TypeOK, OnePool, Position, Progress,
        JobsKeepPool, RequestsLoseOnlyByTimeout, Alive, Exited, Connecting,
        Uses, InUse, Users, clientVars, dbVars
<1>1. ASSUME NEW j \in Jobs, FireJob(j) PROVE Inv'
      BY <1>1 DEF FireJob, J!Fire
<1>2. ASSUME NEW j \in Jobs, JobReturns(j) PROVE Inv'
      BY <1>2 DEF JobReturns, J!Return
<1>3. ASSUME NEW r \in Requests, Arrive(r) PROVE Inv'
      BY <1>3 DEF Arrive
<1>4. ASSUME NEW r \in Requests, RequestEnds(r) PROVE Inv'
      BY <1>4 DEF RequestEnds
<1>5. ASSUME NEW u \in Users, Query(u) PROVE Inv'
      BY <1>5 DEF Query
<1>6. ASSUME NEW u \in Users, PoolClosed(u) PROVE Inv'
      BY <1>6 DEF PoolClosed
<1>7. ASSUME NEW u \in Users, QueryReturns(u) PROVE Inv'
      BY <1>7 DEF QueryReturns
<1> QED  BY <1>1, <1>2, <1>3, <1>4, <1>5, <1>6, <1>7 DEF Work

\* Every step keeps the invariant.
LEMMA InvNext == Inv /\ [Next]_vars => Inv'
<1> SUFFICES ASSUME Inv, [Next]_vars PROVE Inv'
    OBVIOUS
<1>1. CASE Main  BY <1>1, StartKeepsInv, EndKeepsInv DEF Main
<1>2. CASE UNCHANGED vars
      BY <1>2 DEF Inv, TypeOK, OnePool, Position, Progress, JobsKeepPool,
         RequestsLoseOnlyByTimeout, Alive, InUse, vars, clientVars, dbVars, useVars
<1> QED  BY <1>1, <1>2, PlatformKeepsInv, UsersKeepInv DEF Next

\* The process starts in it.
LEMMA InvInit == Init => Inv
<1> SUFFICES ASSUME Init PROVE Inv
    OBVIOUS
<1> USE DEF Init
<1>1. TypeOK
  <2>1. main \in Starting  BY DEF Starting
  <2>2. use \in [Users -> {"off", "busy", "query", "answered"}]  OBVIOUS
  <2>3. attempt \in 0..MaxAttempts  BY AttemptsAssumption
  <2> QED  BY <2>1, <2>2, <2>3 DEF TypeOK, DatabaseStates
<1>2. Position
      BY AttemptsAssumption DEF Position, Connecting
<1>3. InUse(Requests) = {}  BY DEF InUse, Users
<1>4. Progress  BY <1>3 DEF Progress
<1>5. OnePool /\ JobsKeepPool /\ RequestsLoseOnlyByTimeout
      BY DEF OnePool, JobsKeepPool, RequestsLoseOnlyByTimeout
<1> QED  BY <1>1, <1>2, <1>4, <1>5 DEF Inv

\* The invariant holds in every reachable state.
LEMMA InvAlways == Spec => []Inv
BY InvInit, InvNext, PTL DEF Spec

-----------------------------------------------------------------------------
\* The types, with the bound on NewClient's attempts.
THEOREM TypeCorrect == Spec => []TypeOK
BY InvAlways, PTL DEF Inv

\* No job ever finds the pool closed.
THEOREM JobsPoolCorrect == Spec => []JobsKeepPool
BY InvAlways, PTL DEF Inv

\* A request finds the pool closed only if Shutdown gave up on it.
THEOREM RequestsPoolCorrect == Spec => []RequestsLoseOnlyByTimeout
BY InvAlways, PTL DEF Inv

\* No attempt of NewClient and no clean exit leaves a pool open.
THEOREM OnePoolCorrect == Spec => []OnePool
BY InvAlways, PTL DEF Inv

\* A request in progress has the pool and the scheduler, until Shutdown has
\* given up on it.
THEOREM ServedCorrect == Spec => []ServedIsWired
<1>1. Inv => ServedIsWired
      BY DEF Inv, Position, Progress, ServedIsWired, Connecting
<1> QED  BY <1>1, InvAlways, PTL

-----------------------------------------------------------------------------
\* main comes to its end

\* How many steps main can still take, at most: three for each attempt of
\* NewClient that is left, and one for each call after it.
MainLeft ==
    LET retries == 3 * (MaxAttempts - attempt)
    IN  CASE main = "ping" -> retries + 13
          [] main = "backoff" -> retries + 12
          [] main = "connect" -> retries + 11
          [] main = "migrate" -> 12
          [] main = "schedule" -> 11
          [] main = "route" -> 10
          [] main = "servers" -> 9
          [] main = "notify" -> 8
          [] main = "serve" -> 7
          [] main = "drain" -> 6
          [] main = "stop" -> 5
          [] main = "stopping" -> 4
          [] main = "close" -> 3
          [] main = "closing" -> 2
          [] main \in Exited -> 0

MainLeftIsNumber == MainLeft \in Nat

\* Each step of main leaves it fewer, and no other step of the process, of the
\* platform or of the database leaves it more: main never goes back.
MainAdvances ==
    [][MainLeft' <= MainLeft /\ (Main => MainLeft' < MainLeft)]_vars

\* The steps that are left are a number.
LEMMA MainLeftTyped == TypeOK => MainLeftIsNumber
<1> SUFFICES ASSUME TypeOK PROVE MainLeft \in Nat  BY DEF MainLeftIsNumber
<1> DEFINE retries == 3 * (MaxAttempts - attempt)
<1>1. retries \in Nat  BY AttemptsAssumption DEF TypeOK
<1> HIDE DEF retries
<1>2. CASE main \in {"connect", "ping", "backoff"}
      BY <1>1, <1>2 DEF MainLeft, retries
<1>3. CASE main \notin {"connect", "ping", "backoff"}
      BY <1>3 DEF MainLeft, TypeOK, Starting, Ending, Exited
<1> QED  BY <1>2, <1>3

\* A step of main.
LEMMA MainStep == Inv /\ Main => MainLeft' < MainLeft
<1> SUFFICES ASSUME Inv, Main PROVE MainLeft' < MainLeft  OBVIOUS
<1> DEFINE left == MaxAttempts - attempt
<1>1. /\ attempt \in Nat /\ MaxAttempts \in Nat /\ left \in Nat
      BY AttemptsAssumption DEF Inv, TypeOK
<1> USE DEF Go, Exited
<1>2. CASE Connect
  <2>1. main = "connect" /\ main' = "ping" /\ attempt' = attempt + 1
        BY <1>2 DEF Connect
  <2>2. MainLeft = 3 * left + 11 /\ MainLeft' = 3 * (MaxAttempts - (attempt + 1)) + 13
        BY <2>1 DEF MainLeft
  <2> QED  BY <1>1, <2>2
<1>a. CASE ConfigRejected
  <2>1. main = "connect" /\ main' = "fatal"  BY <1>a DEF ConfigRejected
  <2>2. MainLeft = 3 * left + 11 /\ MainLeft' = 0  BY <2>1 DEF MainLeft
  <2> QED  BY <1>1, <2>2
<1>b. CASE ConnectFails
  <2>1. main = "connect" /\ main' \in {"backoff", "fatal"} /\ attempt' = attempt + 1
        BY <1>b DEF ConnectFails
  <2>2. /\ MainLeft = 3 * left + 11
        /\ MainLeft' \in {3 * (MaxAttempts - (attempt + 1)) + 12, 0}
        BY <2>1 DEF MainLeft
  <2> QED  BY <1>1, <2>2
<1>3. CASE PingOk
  <2>1. main = "ping" /\ main' = "migrate"  BY <1>3 DEF PingOk
  <2>2. MainLeft = 3 * left + 13 /\ MainLeft' = 12  BY <2>1 DEF MainLeft
  <2> QED  BY <1>1, <2>2
<1>4. CASE PingFails
  <2>1. main = "ping" /\ main' \in {"backoff", "fatal"} /\ attempt' = attempt
        BY <1>4 DEF PingFails
  <2>2. MainLeft = 3 * left + 13 /\ MainLeft' \in {3 * left + 12, 0}
        BY <2>1 DEF MainLeft
  <2> QED  BY <1>1, <2>2
<1>5. CASE Backoff
  <2>1. main = "backoff" /\ main' = "connect" /\ attempt' = attempt
        BY <1>5 DEF Backoff, clientVars
  <2>2. MainLeft = 3 * left + 12 /\ MainLeft' = 3 * left + 11  BY <2>1 DEF MainLeft
  <2> QED  BY <1>1, <2>2
<1>6. CASE Migrate \/ MigrateFails \/ StartScheduler \/ NewRouter \/ StartServers
           \/ Notify
      BY <1>6 DEF MainLeft, Migrate, MigrateFails, StartScheduler, NewRouter, StartServers,
                  Notify
<1>7. CASE Quit \/ Drained \/ DrainTimesOut \/ Stop \/ StopDone \/ Close \/ CloseDone
      BY <1>7 DEF MainLeft, Quit, Drained, DrainTimesOut, Stop, StopDone, Close, CloseDone
<1> QED  BY <1>a, <1>b, <1>2, <1>3, <1>4, <1>5, <1>6, <1>7 DEF Main

\* A step of anyone else ends the process or leaves main where it is.
LEMMA OthersStep == Inv /\ [Next]_vars /\ ~Main => MainLeft' <= MainLeft
<1> SUFFICES ASSUME Inv, [Next]_vars, ~Main PROVE MainLeft' <= MainLeft  OBVIOUS
<1>1. MainLeft \in Nat  BY MainLeftTyped DEF Inv, MainLeftIsNumber
<1>2. main' \in Exited \/ UNCHANGED << main, attempt >>
  <2>1. CASE Listen \/ ServerFails \/ Terminate \/ Kill \/ DatabaseChanges \/ JobDies
        BY <2>1 DEF Listen, ServerFails, Terminate, Kill, DatabaseChanges, JobDies,
                    clientVars, Exited
  <2>2. CASE \/ \E j \in Jobs : FireJob(j) \/ JobReturns(j)
             \/ \E r \in Requests : Arrive(r) \/ RequestEnds(r)
             \/ \E u \in Users : Work(u)
        BY <2>2 DEF FireJob, JobReturns, Arrive, RequestEnds, Work, Query, PoolClosed,
                    QueryReturns, Uses, clientVars
  <2>3. CASE UNCHANGED vars  BY <2>3 DEF vars, clientVars
  <2> QED  BY <2>1, <2>2, <2>3 DEF Next
<1>3. CASE main' \in Exited
  <2>1. MainLeft' = 0  BY <1>3 DEF MainLeft, Exited
  <2> QED  BY <1>1, <2>1
<1>4. CASE UNCHANGED << main, attempt >>
  <2>1. MainLeft' = MainLeft  BY <1>4 DEF MainLeft
  <2> QED  BY <1>1, <2>1
<1> QED  BY <1>2, <1>3, <1>4

\* Whatever the database, the users of the pool and the platform do, main
\* takes a bounded number of steps: it serves or gives up, and once told to
\* end it only goes towards the end.  (A database that hangs can keep it from
\* taking the next one.)
THEOREM MainRunsOut == Spec => []MainLeftIsNumber /\ MainAdvances
<1>1. Inv /\ MainLeftIsNumber /\ MainLeftIsNumber' /\ [Next]_vars =>
        [MainLeft' <= MainLeft /\ (Main => MainLeft' < MainLeft)]_vars
  <2> SUFFICES ASSUME Inv, MainLeftIsNumber, MainLeftIsNumber', [Next]_vars
               PROVE  MainLeft' <= MainLeft /\ (Main => MainLeft' < MainLeft)
      OBVIOUS
  <2>1. CASE Main
    <3>1. MainLeft' < MainLeft  BY <2>1, MainStep
    <3> QED  BY <3>1 DEF MainLeftIsNumber
  <2>2. CASE ~Main  BY <2>2, OthersStep
  <2> QED  BY <2>1, <2>2
<1>2. Inv => TypeOK  BY DEF Inv
<1> QED  BY <1>1, <1>2, InvAlways, MainLeftTyped, PTL DEF Spec, MainAdvances
=============================================================================
