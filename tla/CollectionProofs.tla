-------------------------- MODULE CollectionProofs --------------------------
(***************************************************************************)
(* Theorems about Collection, for any gatherers, any tables there may be   *)
(* at first, and any number of attempts, samples and faults.               *)
(***************************************************************************)
EXTENDS Collection, FiniteSetTheorems, TLAPS

-----------------------------------------------------------------------------
\* Type correctness

\* There are finitely many tables and gatherers.
LEMMA GatherersFinite ==
    /\ IsFiniteSet(Gatherers) /\ Cardinality(Gatherers) \in Nat
    /\ IsFiniteSet(Tables)
<1>1. IsFiniteSet({"cpu"})  BY FS_Singleton
<1>2. IsFiniteSet({"cpu"} \union {"memory"})  BY <1>1, FS_AddElement
<1>3. IsFiniteSet({"cpu", "memory"} \union {"disk"})  BY <1>2, FS_AddElement
<1>4. IsFiniteSet({"cpu", "memory", "disk"} \union {"network"})  BY <1>3, FS_AddElement
<1>5. IsFiniteSet({"cpu", "memory", "disk", "network"} \union {"gpu"})
      BY <1>4, FS_AddElement
<1>6. IsFiniteSet({"cpu", "memory", "disk", "network", "gpu"} \union {"load"})
      BY <1>5, FS_AddElement
<1>7. Tables = {"cpu", "memory", "disk", "network", "gpu"} \union {"load"}  BY DEF Tables
<1> QED  BY <1>6, <1>7, GatherersAssumption, FS_Subset, FS_CardinalityType

\* While a call of Collect runs the process is up and the sample has a number.
RunInv == pc # "idle" => process = "up" /\ sample \in 1..MaxSamples

\* A statement is executed only while there is one.
TodoInv == pc = "insert" => todo # {}

TypeInv == TypeOK /\ RunInv /\ TodoInv

\* There is a first of the statements that are left.
LEMMA UpcomingInTodo == ASSUME TypeInv, todo # {} PROVE Upcoming \in todo
<1>1. \A t \in todo : Order[t] \in 1..6  BY DEF TypeInv, TypeOK, Tables, Order
<1>2. \E t \in todo : \A u \in todo : Order[t] <= Order[u]
  <2>1. todo \subseteq Tables  BY DEF TypeInv, TypeOK
  <2>2. CASE "cpu" \in todo
    <3>1. Order["cpu"] = 1  BY DEF Order
    <3> QED  BY <1>1, <2>2, <3>1
  <2>3. CASE todo \subseteq Tables \ {"cpu"} /\ "memory" \in todo
    <3>1. \A u \in todo : Order["memory"] <= Order[u]  BY <2>3 DEF Order, Tables
    <3> QED  BY <2>3, <3>1
  <2>4. CASE todo \subseteq {"disk", "network", "gpu", "load"} /\ "disk" \in todo
    <3>1. \A u \in todo : Order["disk"] <= Order[u]  BY <2>4 DEF Order
    <3> QED  BY <2>4, <3>1
  <2>5. CASE todo \subseteq {"network", "gpu", "load"} /\ "network" \in todo
    <3>1. \A u \in todo : Order["network"] <= Order[u]  BY <2>5 DEF Order
    <3> QED  BY <2>5, <3>1
  <2>6. CASE todo \subseteq {"gpu", "load"} /\ "gpu" \in todo  BY <2>6 DEF Order
  <2>7. CASE todo \subseteq {"load"}
    <3>1. todo = {"load"}  BY <2>7
    <3>2. \A u \in todo : Order["load"] <= Order[u]  BY <1>1, <3>1
    <3> QED  BY <3>1, <3>2
  <2> QED  BY <2>1, <2>2, <2>3, <2>4, <2>5, <2>6, <2>7 DEF Tables
<1> QED  BY <1>2 DEF Upcoming

\* The steps of the gatherers and of the merge.
LEMMA TypeGather ==
    ASSUME TypeInv,
           \/ \E g \in Gatherers : Gather(g) \/ GatherFails(g) \/ SendError(g)
           \/ CloseChannels \/ MergeMetrics \/ ResultsDone \/ DrainErrors
    PROVE  TypeInv'
<1> USE GatherersFinite, BoundsAssumption
    DEF TypeInv, TypeOK, RunInv, TodoInv, Points, storeVars, dbVars, faultVars, gatherVars
<1>1. ASSUME NEW g \in Gatherers, Gather(g) PROVE TypeInv'
  <2>1. resultsCh' \in SUBSET (Gatherers \X SUBSET Gatherers)
        /\ gathered' \in SUBSET Gatherers
        BY <1>1 DEF Gather
  <2> QED  BY <1>1, <2>1 DEF Gather
<1>2. ASSUME NEW g \in Gatherers, GatherFails(g) PROVE TypeInv'  BY <1>2 DEF GatherFails
<1>3. ASSUME NEW g \in Gatherers, SendError(g) PROVE TypeInv'
      BY <1>3 DEF SendError, ErrorsCapacity
<1>4. CASE CloseChannels  BY <1>4 DEF CloseChannels
<1>5. CASE MergeMetrics
  <2>1. PICK r \in resultsCh : /\ resultsCh' = resultsCh \ {r}
                               /\ aggregated' = aggregated \union r[2]
        BY <1>5 DEF MergeMetrics
  <2>2. r[2] \subseteq Gatherers  BY <2>1
  <2> QED  BY <1>5, <2>1, <2>2 DEF MergeMetrics
<1>6. CASE ResultsDone  BY <1>6 DEF ResultsDone
<1>7. CASE DrainErrors  BY <1>7 DEF DrainErrors
<1> QED  BY <1>1, <1>2, <1>3, <1>4, <1>5, <1>6, <1>7

\* The steps of StoreMetrics.
LEMMA TypeStore ==
    ASSUME TypeInv,
           \/ Begin \/ BeginFails \/ Insert \/ InsertFails \/ InsertGpuFails
           \/ Commit \/ CommitFails \/ CommitReplyLost
    PROVE  TypeInv'
<1> USE GatherersAssumption, BoundsAssumption
    DEF TypeInv, TypeOK, RunInv, TodoInv, Points, storeVars, dbVars, faultVars, gatherVars
<1>1. CASE Begin
  <2>1. todo' \in SUBSET Tables /\ todo' # {}
        BY <1>1 DEF Begin, Statements, Unconditional, Tables
  <2>2. content' \in [1..MaxSamples -> SUBSET Gatherers]  BY <1>1 DEF Begin
  <2> QED  BY <1>1, <2>1, <2>2 DEF Begin
<1>2. CASE BeginFails  BY <1>2 DEF BeginFails, CallFails, Fault, Fail
<1>3. CASE Insert
  <2>1. Upcoming \in todo /\ sample \in 1..MaxSamples
        BY <1>3, UpcomingInTodo DEF Insert
  <2>2. txRows' \in SUBSET ((1..MaxSamples) \X Tables)  BY <1>3, <2>1 DEF Insert
  <2> QED  BY <1>3, <2>2 DEF Insert, AfterInsert
<1>4. CASE InsertFails  BY <1>4 DEF InsertFails, StatementFails, Fault, Fail
<1>5. CASE InsertGpuFails
  <2>1. faults' \in 0..MaxFaults /\ faultsBefore' \in 0..faults'
        BY <1>5 DEF InsertGpuFails, StatementFails, Fault
  <2>2. /\ pc' \in {"insert", "commit"} /\ (pc' = "insert" => todo' # {})
        /\ tx' \in {"open", "aborted"} /\ todo' \in SUBSET Tables
        BY <1>5 DEF InsertGpuFails, AfterInsert
  <2> QED  BY <1>5, <2>1, <2>2 DEF InsertGpuFails
<1>6. CASE Commit  BY <1>6 DEF Commit, Committed
<1>7. CASE CommitFails  BY <1>7 DEF CommitFails, CallFails, Fault, Fail
<1>8. CASE CommitReplyLost
  <2>1. rows' \in SUBSET ((1..MaxSamples) \X Tables) /\ storedNow' \in Nat
        /\ UNCHANGED << tables, content >>
        BY <1>8 DEF CommitReplyLost, Committed
  <2>2. faults' \in 0..MaxFaults /\ faultsBefore' \in 0..faults' /\ lostNow' \in Nat
        BY <1>8 DEF CommitReplyLost, Fault
  <2>4. expired' \in BOOLEAN
    <3>1. expired \in BOOLEAN /\ (expired' = expired \/ expired' = TRUE)
          BY <1>8 DEF CommitReplyLost
    <3> QED  BY <3>1, Zenon
  <2>3. pc' = "failed" /\ tx' = "none" /\ txRows' = {} /\ todo' = {}
        BY <1>8 DEF CommitReplyLost, Fail
  <2> QED  BY <1>8, <2>1, <2>2, <2>3, <2>4 DEF CommitReplyLost
<1> QED  BY <1>1, <1>2, <1>3, <1>4, <1>5, <1>6, <1>7, <1>8

\* Every step.
LEMMA TypeNext == TypeInv /\ [Next]_vars => TypeInv'
<1> SUFFICES ASSUME TypeInv, [Next]_vars PROVE TypeInv'  OBVIOUS
<1> USE BoundsAssumption
    DEF TypeInv, TypeOK, RunInv, TodoInv, Points, storeVars, dbVars, faultVars, gatherVars
<1>1. CASE RunMigrations  BY <1>1 DEF RunMigrations, Tables
<1>2. CASE MigrationsFail  BY <1>2 DEF MigrationsFail, Fault
<1>3. CASE Collect
  <2>1. /\ attempt' \in 0..MaxAttempts /\ sample' \in 1..MaxSamples
        /\ storedNow' \in Nat /\ lostNow' \in Nat /\ faultsBefore' \in 0..faults
        BY <1>3 DEF Collect
  <2>9. expired' \in BOOLEAN
    <3>1. expired' = FALSE  BY <1>3 DEF Collect
    <3> QED  BY <3>1, Zenon
  <2>2. /\ working' \in SUBSET Gatherers /\ failing' \in SUBSET working'
        /\ resultsCh' \in SUBSET (Gatherers \X SUBSET Gatherers)
        /\ errorsCh' \in 0..Cardinality(Gatherers) /\ closed' \in BOOLEAN
        /\ aggregated' \in SUBSET Gatherers /\ gathered' \in SUBSET Gatherers
    <3>1. /\ working' = Gatherers /\ failing' = {} /\ resultsCh' = {} /\ errorsCh' = 0
          /\ closed' = FALSE /\ aggregated' = {} /\ gathered' = {}
          BY <1>3 DEF Collect
    <3>2. 0 \in 0..Cardinality(Gatherers)  BY GatherersFinite
    <3> QED  BY <3>1, <3>2
  <2>3. pc' = "merging" /\ UNCHANGED << process, storeVars, tables, rows, content, faults >>
        BY <1>3 DEF Collect
  <2>4. process' = "up"  BY <1>3 DEF Collect
  <2>5. tables' \in SUBSET Tables /\ process' \in {"starting", "up", "exited"}
        /\ rows' \in SUBSET ((1..MaxSamples) \X Tables)
        /\ content' \in [1..MaxSamples -> SUBSET Gatherers]
        BY <2>3, <2>4
  <2>6. todo' \in SUBSET Tables /\ tx' \in {"none", "open", "aborted"}
        /\ txRows' \in SUBSET ((1..MaxSamples) \X Tables) /\ faults' \in 0..MaxFaults
        BY <2>3
  <2>7. faultsBefore' \in 0..faults' /\ sample' \in 0..MaxSamples  BY <2>1, <2>3
  <2>8. pc' \in Points /\ RunInv' /\ TodoInv'  BY <2>1, <2>3, <2>4
  <2> QED  BY <2>1, <2>2, <2>5, <2>6, <2>7, <2>8, <2>9
<1>4. CASE Finish  BY <1>4 DEF Finish
<1>5. CASE UNCHANGED vars  BY <1>5 DEF vars
<1>6. CASE Expire  BY <1>6 DEF Expire
<1> QED  BY <1>1, <1>2, <1>3, <1>4, <1>5, <1>6, TypeGather, TypeStore DEF Next, Step

\* The types hold at first.
LEMMA TypeInit == Init => TypeInv
<1> SUFFICES ASSUME Init PROVE TypeInv  OBVIOUS
<1>1. tables \in SUBSET Tables  BY DatabasesAssumption DEF Init
<1>2. resultsCh = {} /\ failing = {} /\ working = {} /\ errorsCh \in 0..Cardinality(Gatherers)
      BY GatherersFinite DEF Init
<1>3. /\ attempt \in 0..MaxAttempts /\ sample \in 0..MaxSamples
      /\ faults \in 0..MaxFaults /\ faultsBefore \in 0..faults
      /\ storedNow \in Nat /\ lostNow \in Nat
      BY BoundsAssumption DEF Init
<1> QED  BY <1>1, <1>2, <1>3 DEF Init, TypeInv, TypeOK, RunInv, TodoInv, Points

\* Every variable keeps its type; in particular no channel is sent more than
\* it holds, and no job makes more than its attempts.
THEOREM TypeCorrect == Spec => []TypeOK
<1>1. TypeInv => TypeOK  BY DEF TypeInv
<1> QED  BY <1>1, TypeInit, TypeNext, PTL DEF Spec
-----------------------------------------------------------------------------
\* Nothing gathered is lost

\* What has been merged, and what waits in resultsCh.
Supplied == aggregated \union UNION {r[2] : r \in resultsCh}

\* The channels are closed only when no goroutine works, and Collect goes on
\* only when the results are merged.
GatherInv ==
    /\ TypeInv
    /\ pc # "merging" \/ closed => working = {}
    /\ pc = "merging" => gathered = Supplied
    /\ pc \in {"draining", "begin", "insert", "commit"} => aggregated = gathered

\* Every step.
LEMMA GatherNext == GatherInv /\ [Next]_vars => GatherInv'
<1> SUFFICES ASSUME GatherInv, [Next]_vars PROVE GatherInv'  OBVIOUS
<1>0. TypeInv /\ TypeInv'  BY TypeNext DEF GatherInv
<1>a. ASSUME UNCHANGED gatherVars,
             \/ pc # "merging" /\ pc' \notin {"merging", "draining", "begin"}
                /\ (pc' \in {"insert", "commit"} => pc \in {"begin", "insert", "commit"})
      PROVE  GatherInv'
      BY <1>0, <1>a DEF GatherInv, gatherVars
<1>1. ASSUME NEW g \in Gatherers, Gather(g) PROVE GatherInv'
  <2>1. PICK part \in {{g}, {}} : /\ resultsCh' = resultsCh \union {<< g, part >>}
                                  /\ gathered' = gathered \union part
        BY <1>1 DEF Gather
  <2>2. pc = "merging" /\ ~closed /\ working' \subseteq working
        /\ UNCHANGED << pc, closed, aggregated >>
        BY <1>0, <1>1 DEF Gather, GatherInv, TypeInv, TypeOK
  <2>3. {r[2] : r \in resultsCh'} = {r[2] : r \in resultsCh} \union {part}
    <3> DEFINE new == << g, part >>
    <3>1. new[2] = part  OBVIOUS
    <3>2. resultsCh' = resultsCh \union {new}  BY <2>1
    <3> HIDE DEF new
    <3> QED  BY <3>1, <3>2
  <2> QED  BY <1>0, <2>1, <2>2, <2>3 DEF GatherInv, Supplied
<1>2. ASSUME NEW g \in Gatherers, GatherFails(g) PROVE GatherInv'
      BY <1>0, <1>2 DEF GatherFails, GatherInv, Supplied
<1>3. ASSUME NEW g \in Gatherers, SendError(g) PROVE GatherInv'
      BY <1>0, <1>3 DEF SendError, GatherInv, Supplied
<1>4. CASE CloseChannels  BY <1>0, <1>4 DEF CloseChannels, GatherInv, Supplied
<1>5. CASE MergeMetrics
  <2>1. PICK r \in resultsCh : /\ resultsCh' = resultsCh \ {r}
                               /\ aggregated' = aggregated \union r[2]
        BY <1>5 DEF MergeMetrics
  <2>2. UNION {x[2] : x \in resultsCh} = r[2] \union UNION {x[2] : x \in resultsCh'}
        BY <2>1
  <2>3. pc = "merging" /\ UNCHANGED << pc, working, closed, gathered >>
        BY <1>5 DEF MergeMetrics
  <2> QED  BY <1>0, <2>1, <2>2, <2>3 DEF GatherInv, Supplied
<1>6. CASE ResultsDone
  <2>1. Supplied = aggregated  BY <1>6 DEF ResultsDone, Supplied
  <2> QED  BY <1>0, <1>6, <2>1 DEF ResultsDone, GatherInv, gatherVars
<1>7. CASE DrainErrors  BY <1>0, <1>7 DEF DrainErrors, GatherInv
<1>8. CASE Begin  BY <1>8, <1>a DEF Begin
<1>9. CASE BeginFails  BY <1>9, <1>a DEF BeginFails, Fail
<1>10. CASE Insert  BY <1>10, <1>a DEF Insert, AfterInsert
<1>11. CASE InsertFails  BY <1>11, <1>a DEF InsertFails, Fail
<1>12. CASE InsertGpuFails  BY <1>12, <1>a DEF InsertGpuFails, AfterInsert
<1>13. CASE Commit  BY <1>13, <1>a DEF Commit
<1>14. CASE CommitFails  BY <1>14, <1>a DEF CommitFails, Fail
<1>15. CASE CommitReplyLost  BY <1>15, <1>a DEF CommitReplyLost, Fail
<1>16. CASE Finish  BY <1>16, <1>a DEF Finish
<1>17. CASE Collect
  <2>1. pc' = "merging" /\ closed' = FALSE /\ resultsCh' = {} /\ gathered' = {}
        /\ aggregated' = {}
        BY <1>17 DEF Collect
  <2>2. UNION {r[2] : r \in resultsCh'} = {}  BY <2>1
  <2> QED  BY <1>0, <2>1, <2>2 DEF GatherInv, Supplied
<1>18. CASE RunMigrations  BY <1>0, <1>18 DEF RunMigrations, GatherInv, Supplied, gatherVars
<1>19. CASE MigrationsFail
       BY <1>0, <1>19 DEF MigrationsFail, GatherInv, Supplied, gatherVars
<1>20. CASE UNCHANGED vars  BY <1>0, <1>20 DEF vars, gatherVars, GatherInv, Supplied
<1>21. CASE Expire  BY <1>0, <1>21 DEF Expire, gatherVars, GatherInv, Supplied
<1> QED  BY <1>1, <1>2, <1>3, <1>4, <1>5, <1>6, <1>7, <1>8, <1>9, <1>10, <1>11, <1>12,
            <1>13, <1>14, <1>15, <1>16, <1>17, <1>18, <1>19, <1>20, <1>21 DEF Next, Step

\* At first nothing is gathered.
LEMMA GatherInit == Init => GatherInv
<1>1. Init => TypeInv  BY TypeInit
<1> QED  BY <1>1 DEF Init, GatherInv

-----------------------------------------------------------------------------
\* Each firing stores once

\* An attempt starts with as many commits as lost replies, and the first
\* commit that is known ends the run.
FiringInv ==
    /\ TypeOK
    /\ storedNow <= lostNow + 1
    /\ pc \notin {"idle", "ok"} => storedNow = lostNow

\* Every step.
LEMMA FiringNext == FiringInv /\ TypeOK' /\ [Next]_vars => FiringInv'
<1> SUFFICES ASSUME FiringInv, TypeOK', [Next]_vars PROVE FiringInv'  OBVIOUS
<1>a. storedNow \in Nat /\ lostNow \in Nat  BY DEF FiringInv, TypeOK
<1>b. ASSUME UNCHANGED << storedNow, lostNow >>,
             pc \in {"idle", "ok"} => pc' \in {"idle", "ok"}
      PROVE  FiringInv'
      BY <1>b DEF FiringInv
<1>1. CASE \E g \in Gatherers : Gather(g) \/ GatherFails(g) \/ SendError(g)
      BY <1>1, <1>b DEF Gather, GatherFails, SendError, dbVars, faultVars
<1>2. CASE CloseChannels \/ MergeMetrics \/ ResultsDone \/ DrainErrors
      BY <1>2, <1>b DEF CloseChannels, MergeMetrics, ResultsDone, DrainErrors, dbVars, faultVars
<1>3. CASE Begin \/ BeginFails \/ Insert \/ InsertFails
      BY <1>3, <1>b DEF Begin, BeginFails, Insert, InsertFails, Fail, AfterInsert, dbVars, faultVars
<1>4. CASE InsertGpuFails \/ CommitFails \/ RunMigrations \/ MigrationsFail
      BY <1>4, <1>b DEF InsertGpuFails, CommitFails, RunMigrations, MigrationsFail, Fail,
                        AfterInsert, dbVars, faultVars
<1>5. CASE Commit  BY <1>5, <1>a DEF Commit, Committed, faultVars, FiringInv
<1>6. CASE CommitReplyLost
      BY <1>6, <1>a DEF CommitReplyLost, Committed, Fail, FiringInv
<1>7. CASE Finish
  <2>1. pc' = "idle" /\ UNCHANGED << storedNow, lostNow >>
        BY <1>7 DEF Finish, dbVars, faultVars
  <2> QED  BY <1>b, <2>1
<1>8. CASE Collect  BY <1>8, <1>a DEF Collect, FiringInv
<1>9. CASE Expire \/ UNCHANGED vars  BY <1>9, <1>b DEF Expire, vars, dbVars, faultVars
<1> QED  BY <1>1, <1>2, <1>3, <1>4, <1>5, <1>6, <1>7, <1>8, <1>9 DEF Next, Step

\* However its attempts fail, a firing stores one sample, and one more for
\* every commit that took place and was reported as failed.
THEOREM StoredOnce == Spec => []StoredOncePerFiring
<1>1. Init => FiringInv
  <2>1. Init => TypeOK  BY TypeInit DEF TypeInv
  <2> QED  BY <2>1 DEF Init, FiringInv
<1>2. FiringInv => StoredOncePerFiring  BY DEF FiringInv, StoredOncePerFiring
<1> QED  BY <1>1, <1>2, TypeCorrect, FiringNext, PTL DEF Spec
-----------------------------------------------------------------------------
\* A sample is stored whole

InStore == {"insert", "commit"}
BeforeCommit == {"merging", "draining", "begin"} \union InStore

\* The rows of the statements of sample j that are done, but for some left out.
DoneWithout(j, left) ==
    {<< j, t >> : t \in (Statements(content[j]) \ todo) \ left}

\* The transaction holds the rows of the statements that are done, all for
\* this sample and perhaps without the GPU's, unless it is aborted; elsewhere
\* there is none.
TransactionInv ==
    /\ pc \notin InStore => tx = "none" /\ txRows = {}
    /\ pc = "commit" => todo = {}
    /\ pc \in InStore => todo \subseteq Statements(content[sample])
    /\ tx = "open" =>
          \E left \in SUBSET ({"gpu"} \ todo) : txRows = DoneWithout(sample, left)

\* There are no rows of a sample before its commit.
RowsInv ==
    /\ WholeSamples
    /\ \A s \in 1..MaxSamples : s > sample => TablesOf(s) = {}
    /\ pc \in BeforeCommit => TablesOf(sample) = {}

\* An attempt, or its transaction, that has failed had a reason to.
ReasonInv ==
    /\ pc = "ok" => TablesOf(sample) # {}
    /\ pc = "failed" \/ tx = "aborted" =>
          \/ faults > faultsBefore \/ expired
          \/ ~ Statements(content[sample]) \subseteq tables

StoreInv == TypeInv /\ TransactionInv /\ RowsInv /\ ReasonInv

\* The statements of a sample are of the tables there may be.
LEMMA StatementsInTables ==
    ASSUME TypeInv, NEW s \in 1..MaxSamples
    PROVE  Statements(content[s]) \subseteq Tables /\ Statements(content[s]) # {}
BY DEF TypeInv, TypeOK, Statements, Unconditional, Tables

\* A step outside of StoreMetrics and not at its end.
LEMMA StoreAside ==
    ASSUME StoreInv, TypeInv', UNCHANGED << sample, storeVars, rows, content >>,
           UNCHANGED tables \/ pc = "idle", UNCHANGED << faults, faultsBefore >> \/ pc = "idle",
           pc \notin InStore, pc' \notin InStore, pc' \notin {"ok", "failed"},
           pc' \in BeforeCommit => pc \in BeforeCommit
    PROVE  StoreInv'
<1>1. \A s : TablesOf(s)' = TablesOf(s)  BY DEF TablesOf
<1>2. TransactionInv'  BY DEF StoreInv, TransactionInv, InStore, storeVars
<1>3. RowsInv'  BY <1>1 DEF StoreInv, RowsInv, WholeSamples
<1>4. ReasonInv'  BY DEF StoreInv, ReasonInv, TransactionInv, storeVars
<1> QED  BY <1>2, <1>3, <1>4 DEF StoreInv

\* A return with an error, for a reason and with no rows but whole samples.
LEMMA StoreFails ==
    ASSUME StoreInv, TypeInv', Fail, UNCHANGED << sample, content, tables >>,
           faults' > faultsBefore' \/ expired' \/ ~ Statements(content[sample]) \subseteq tables,
           RowsInv'
    PROVE  StoreInv'
<1>1. pc' = "failed" /\ tx' = "none" /\ txRows' = {}  BY DEF Fail
<1>2. TransactionInv'  BY <1>1 DEF TransactionInv, InStore
<1>3. ReasonInv'  BY <1>1 DEF ReasonInv
<1> QED  BY <1>2, <1>3 DEF StoreInv

\* A step that commits nothing.
LEMMA RowsStay ==
    ASSUME StoreInv, UNCHANGED << sample, rows, content >>,
           pc' \in BeforeCommit => pc \in BeforeCommit
    PROVE  RowsInv'
<1>1. \A s : TablesOf(s)' = TablesOf(s)  BY DEF TablesOf
<1> QED  BY <1>1 DEF StoreInv, RowsInv, WholeSamples

\* A commit adds the rows of all statements of the sample.
LEMMA CommitStores ==
    ASSUME StoreInv, pc = "commit", tx = "open", Committed, UNCHANGED sample,
           pc' \notin BeforeCommit
    PROVE  RowsInv' /\ TablesOf(sample)' # {}
<1>0. sample \in 1..MaxSamples
      BY DEF StoreInv, TypeInv, RunInv
<1>1. PICK left \in SUBSET {"gpu"} :
          rows' = rows \union {<< sample, t >> : t \in Statements(content[sample]) \ left}
      BY DEF Committed, StoreInv, TransactionInv, DoneWithout
<1>2. Statements(content[sample]) \subseteq Tables /\ Statements(content[sample]) # {}
      BY <1>0, StatementsInTables DEF StoreInv
<1>3. TablesOf(sample) = {}  BY DEF StoreInv, RowsInv, BeforeCommit, InStore
<1>4. TablesOf(sample)' = Statements(content[sample]) \ left
      BY <1>1, <1>2, <1>3 DEF TablesOf
<1>a. Statements(content[sample]) \ left # {}  BY DEF Statements, Unconditional
<1>b. left = {} \/ left = {"gpu"}  OBVIOUS
<1>5. \A s \in 1..MaxSamples : s # sample => TablesOf(s)' = TablesOf(s)
      BY <1>1 DEF TablesOf
<1>6. content' = content  BY DEF Committed
<1>7. WholeSamples'
  <2> SUFFICES ASSUME NEW s \in 1..MaxSamples
               PROVE  TablesOf(s)' \in {{}, Statements(content[s]), Statements(content[s]) \ {"gpu"}}
      BY <1>6 DEF WholeSamples
  <2>1. CASE s = sample  BY <1>4, <1>b, <2>1
  <2>2. CASE s # sample  BY <1>5, <2>2 DEF StoreInv, RowsInv, WholeSamples
  <2> QED  BY <2>1, <2>2
<1>8. \A s \in 1..MaxSamples : s > sample => TablesOf(s)' = {}
  <2>1. \A s \in 1..MaxSamples : s > sample => s # sample  BY <1>0
  <2> QED  BY <1>5, <2>1 DEF StoreInv, RowsInv
<1> QED  BY <1>4, <1>a, <1>7, <1>8 DEF RowsInv

\* The steps of StoreMetrics.
LEMMA StoreStep ==
    ASSUME StoreInv, TypeInv',
           \/ Begin \/ BeginFails \/ Insert \/ InsertFails \/ InsertGpuFails
           \/ Commit \/ CommitFails \/ CommitReplyLost
    PROVE  StoreInv'
<1>0. TypeInv /\ TypeInv'  BY DEF StoreInv
<1>a. faults \in Nat /\ faultsBefore \in Nat /\ faultsBefore <= faults
      BY <1>0, BoundsAssumption DEF TypeInv, TypeOK
<1>b. Fault => faults' > faultsBefore'  BY <1>a DEF Fault
<1>d. CallFails /\ expired' = expired => faults' > faultsBefore' \/ expired'
      BY <1>b DEF CallFails
<1>c. pc # "idle" => sample \in 1..MaxSamples  BY <1>0 DEF TypeInv, RunInv
<1>1. CASE Begin
  <2>1. /\ pc = "begin" /\ pc' = "insert" /\ tx' = "open" /\ txRows' = txRows
        /\ todo' = Statements(aggregated)
        /\ content' = [content EXCEPT ![sample] = aggregated]
        /\ UNCHANGED << sample, rows, tables, faults, faultsBefore >>
        BY <1>1 DEF Begin, faultVars
  <2>2. content'[sample] = aggregated /\ txRows = {}
        BY <1>0, <1>c, <2>1 DEF TypeInv, TypeOK, StoreInv, TransactionInv, InStore
  <2>3. TransactionInv'
    <3>1. DoneWithout(sample, {})' = {}  BY <2>1, <2>2 DEF DoneWithout
    <3> QED  BY <2>1, <2>2, <3>1 DEF TransactionInv, InStore
  <2>4. \A s : TablesOf(s)' = TablesOf(s)  BY <2>1 DEF TablesOf
  <2>5. TablesOf(sample) = {}  BY <2>1 DEF StoreInv, RowsInv, BeforeCommit
  <2>6. \A s \in 1..MaxSamples : s # sample => content'[s] = content[s]
        BY <1>0, <2>1 DEF TypeInv, TypeOK
  <2>7. RowsInv'
        BY <2>1, <2>4, <2>5, <2>6 DEF StoreInv, RowsInv, WholeSamples, BeforeCommit
  <2>8. ReasonInv'  BY <2>1 DEF ReasonInv
  <2> QED  BY <1>0, <2>3, <2>7, <2>8 DEF StoreInv
<1>2. CASE BeginFails
  <2>1. RowsInv'
        BY <1>2, RowsStay DEF BeginFails, Fail, dbVars, BeforeCommit, InStore
  <2> QED  BY <1>2, <1>d, <2>1, StoreFails DEF BeginFails, dbVars
<1>3. CASE Insert
  <2>1. /\ pc = "insert" /\ tx = "open" /\ tx' = tx /\ todo' = todo \ {Upcoming}
        /\ txRows' = txRows \union {<< sample, Upcoming >>}
        /\ pc' \in InStore /\ (pc' = "commit" => todo' = {})
        /\ UNCHANGED << sample, rows, content, tables, faults, faultsBefore >>
        BY <1>3 DEF Insert, AfterInsert, dbVars, faultVars, InStore
  <2>2. Upcoming \in todo  BY <1>0, <2>1, UpcomingInTodo DEF TypeInv, TodoInv
  <2>3. todo \subseteq Statements(content[sample])
        BY <2>1 DEF StoreInv, TransactionInv, InStore
  <2>a. PICK left \in SUBSET ({"gpu"} \ todo) : txRows = DoneWithout(sample, left)
        BY <2>1 DEF StoreInv, TransactionInv
  <2>4. txRows' = DoneWithout(sample, left)'
    <3>1. (Statements(content[sample]) \ todo') \ left
             = ((Statements(content[sample]) \ todo) \ left) \union {Upcoming}
          BY <2>1, <2>2, <2>3
    <3>2. DoneWithout(sample, left)'
             = {<< sample, t >> : t \in (Statements(content[sample]) \ todo') \ left}
          BY <2>1 DEF DoneWithout, Statements
    <3> QED  BY <2>1, <2>a, <3>1, <3>2 DEF DoneWithout
  <2>5. TransactionInv'
    <3>1. left \in SUBSET ({"gpu"} \ todo')  BY <2>1
    <3> QED  BY <2>1, <2>3, <2>4, <3>1 DEF TransactionInv, InStore
  <2>6. RowsInv'  BY <2>1, RowsStay DEF BeforeCommit, InStore
  <2>7. ReasonInv'  BY <2>1 DEF ReasonInv, InStore
  <2> QED  BY <1>0, <2>5, <2>6, <2>7 DEF StoreInv
<1>4. CASE InsertFails
  <2>0. pc = "insert" /\ UNCHANGED << sample, rows, content, tables >>
        BY <1>4 DEF InsertFails, dbVars
  <2>1. RowsInv'
        BY <1>4, <2>0, RowsStay DEF InsertFails, Fail, BeforeCommit, InStore
  <2>2. Upcoming \in Statements(content[sample])
        BY <1>0, <2>0, UpcomingInTodo DEF TypeInv, TodoInv, StoreInv, TransactionInv, InStore
  <2>3. faults' > faultsBefore' \/ expired' \/ ~ Statements(content[sample]) \subseteq tables
    <3>1. CASE Upcoming \notin tables  BY <2>2, <3>1
    <3>2. CASE (tx = "aborted" \/ expired) /\ UNCHANGED << faults, faultsBefore, expired >>
          BY <3>2 DEF StoreInv, ReasonInv
    <3>3. CASE Fault  BY <1>b, <3>3
    <3> QED  BY <1>4, <3>1, <3>2, <3>3 DEF InsertFails, StatementFails
  <2> QED  BY <1>4, <2>0, <2>1, <2>3, StoreFails DEF InsertFails
<1>5. CASE InsertGpuFails
  <2>0. /\ pc = "insert" /\ tx' \in {"open", "aborted"} /\ todo' = todo \ {Upcoming}
        /\ pc' \in InStore /\ (pc' = "commit" => todo' = {})
        /\ UNCHANGED << sample, rows, content, tables >>
        BY <1>5 DEF InsertGpuFails, AfterInsert, dbVars, InStore
  <2>1. RowsInv'  BY <2>0, RowsStay DEF BeforeCommit, InStore
  <2>2. Upcoming \in Statements(content[sample])
        BY <1>0, <2>0, UpcomingInTodo DEF TypeInv, TodoInv, StoreInv, TransactionInv, InStore
  <2>3. faults' > faultsBefore' \/ expired' \/ ~ Statements(content[sample]) \subseteq tables
    <3>1. CASE Upcoming \notin tables  BY <2>2, <3>1
    <3>2. CASE (tx = "aborted" \/ expired) /\ UNCHANGED << faults, faultsBefore, expired >>
          BY <3>2 DEF StoreInv, ReasonInv
    <3>3. CASE Fault  BY <1>b, <3>3
    <3> QED  BY <1>5, <3>1, <3>2, <3>3 DEF InsertGpuFails, StatementFails
  <2>6. Upcoming = "gpu" /\ Upcoming \in todo /\ txRows' = txRows
        BY <1>0, <1>5, <2>0, UpcomingInTodo DEF InsertGpuFails, TypeInv, TodoInv
  <2>9. todo' \subseteq Statements(content'[sample'])
        BY <2>0 DEF StoreInv, TransactionInv, InStore
  <2>7. ASSUME tx' = "aborted" PROVE TransactionInv'
    <3>1. tx' # "open"  BY <2>7
    <3> QED  BY <2>0, <2>9, <3>1 DEF TransactionInv
  <2>8. ASSUME tx' = "open" PROVE TransactionInv'
    <3>1. tx = "open"
          BY <1>5, <1>a, <2>8 DEF InsertGpuFails, StatementFails
    <3>2. PICK left \in SUBSET ({"gpu"} \ todo) : txRows = DoneWithout(sample, left)
          BY <3>1 DEF StoreInv, TransactionInv
    <3>3. left = {}  BY <2>6, <3>2
    <3>4. (Statements(content[sample]) \ todo') \ {"gpu"} = Statements(content[sample]) \ todo
          BY <2>0, <2>6
    <3>5. DoneWithout(sample, {"gpu"})'
             = {<< sample, t >> : t \in (Statements(content[sample]) \ todo') \ {"gpu"}}
          BY <2>0 DEF DoneWithout, Statements
    <3>6. txRows' = DoneWithout(sample, {"gpu"})'
          BY <2>6, <3>2, <3>3, <3>4, <3>5 DEF DoneWithout
    <3>7. {"gpu"} \in SUBSET ({"gpu"} \ todo')  BY <2>0, <2>6
    <3>8. \E l \in SUBSET ({"gpu"} \ todo') : txRows' = DoneWithout(sample, l)'
          BY <3>6, <3>7
    <3> QED  BY <2>0, <2>9, <3>8 DEF TransactionInv
  <2>4. TransactionInv'  BY <2>0, <2>7, <2>8
  <2>5. ReasonInv'  BY <2>0, <2>3 DEF ReasonInv, InStore
  <2> QED  BY <1>0, <2>1, <2>4, <2>5 DEF StoreInv
<1>6. CASE Commit
  <2>1. /\ pc = "commit" /\ tx = "open" /\ Committed /\ pc' = "ok"
        /\ tx' = "none" /\ txRows' = {} /\ UNCHANGED sample
        BY <1>6 DEF Commit
  <2>2. RowsInv' /\ TablesOf(sample)' # {}
        BY <2>1, CommitStores DEF BeforeCommit, InStore
  <2>3. TransactionInv'  BY <2>1 DEF TransactionInv, InStore
  <2>4. ReasonInv'  BY <2>1, <2>2 DEF ReasonInv
  <2> QED  BY <1>0, <2>2, <2>3, <2>4 DEF StoreInv
<1>7. CASE CommitFails
  <2>1. RowsInv'
        BY <1>7, RowsStay DEF CommitFails, Fail, dbVars, BeforeCommit, InStore
  <2> QED  BY <1>7, <1>d, <2>1, StoreFails DEF CommitFails, dbVars
<1>8. CASE CommitReplyLost
  <2>1. RowsInv'
        BY <1>8, CommitStores DEF CommitReplyLost, Fail, BeforeCommit, InStore
  <2>2. faults' > faultsBefore' \/ expired'  BY <1>8, <1>b DEF CommitReplyLost
  <2> QED  BY <1>8, <2>1, <2>2, StoreFails DEF CommitReplyLost, Committed
<1> QED  BY <1>1, <1>2, <1>3, <1>4, <1>5, <1>6, <1>7, <1>8

\* Every step.
LEMMA StoreNext == StoreInv /\ [Next]_vars => StoreInv'
<1> SUFFICES ASSUME StoreInv, [Next]_vars PROVE StoreInv'  OBVIOUS
<1>0. TypeInv /\ TypeInv'  BY TypeNext DEF StoreInv
<1>a. ASSUME UNCHANGED << pc, sample, storeVars, dbVars, faults, faultsBefore >>,
             expired => expired'
      PROVE  StoreInv'
  <2>1. TransactionInv'
        BY <1>a DEF StoreInv, TransactionInv, DoneWithout, Statements, storeVars, dbVars
  <2>2. RowsInv'
        BY <1>a DEF StoreInv, RowsInv, WholeSamples, TablesOf, dbVars
  <2>3. ReasonInv'
        BY <1>a DEF StoreInv, ReasonInv, TablesOf, storeVars, dbVars
  <2> QED  BY <1>0, <2>1, <2>2, <2>3 DEF StoreInv
<1>1. CASE \E g \in Gatherers : Gather(g) \/ GatherFails(g) \/ SendError(g)
      BY <1>1, <1>a DEF Gather, GatherFails, SendError, faultVars
<1>2. CASE CloseChannels \/ MergeMetrics
      BY <1>2, <1>a DEF CloseChannels, MergeMetrics, faultVars
<1>3. CASE ResultsDone \/ DrainErrors
      BY <1>0, <1>3, StoreAside
         DEF ResultsDone, DrainErrors, dbVars, faultVars, BeforeCommit, InStore
<1>4. CASE Finish
      BY <1>0, <1>4, StoreAside DEF Finish, dbVars, faultVars, BeforeCommit, InStore
<1>5. CASE RunMigrations \/ MigrationsFail
  <2>1. pc = "idle" /\ pc' = "idle" /\ UNCHANGED << sample, storeVars, rows, content >>
        BY <1>0, <1>5 DEF RunMigrations, MigrationsFail, dbVars, TypeInv, RunInv
  <2> QED  BY <1>0, <2>1, StoreAside DEF BeforeCommit, InStore
<1>6. CASE Collect
  <2>1. /\ pc \in {"idle", "failed"} /\ pc' = "merging" /\ sample' = sample + 1
        /\ sample' \in 1..MaxSamples /\ UNCHANGED << storeVars, tables, rows, content >>
        BY <1>0, <1>6 DEF Collect, TypeInv, RunInv
  <2>2. \A s : TablesOf(s)' = TablesOf(s)  BY <2>1 DEF TablesOf
  <2>3. sample \in Nat  BY <1>0, BoundsAssumption DEF TypeInv, TypeOK
  <2>4. TransactionInv'  BY <2>1 DEF StoreInv, TransactionInv, InStore, storeVars
  <2>5. RowsInv'
    <3>1. sample' > sample  BY <2>1, <2>3
    <3>2. \A s \in 1..MaxSamples : s > sample' => s > sample  BY <2>1, <2>3
    <3> QED  BY <2>1, <2>2, <3>1, <3>2 DEF StoreInv, RowsInv, WholeSamples
  <2>6. ReasonInv'  BY <2>1 DEF StoreInv, TransactionInv, ReasonInv, InStore, storeVars
  <2> QED  BY <1>0, <2>4, <2>5, <2>6 DEF StoreInv
<1>7. CASE Expire \/ UNCHANGED vars  BY <1>7, <1>a DEF Expire, vars, faultVars
<1> QED  BY <1>0, <1>1, <1>2, <1>3, <1>4, <1>5, <1>6, <1>7, StoreStep DEF Next, Step

\* At first nothing is stored.
LEMMA StoreInit == Init => StoreInv
<1> SUFFICES ASSUME Init PROVE StoreInv  OBVIOUS
<1>1. TypeInv  BY TypeInit
<1>2. \A s : TablesOf(s) = {}  BY DEF Init, TablesOf
<1> QED  BY <1>1, <1>2 DEF Init, StoreInv, TransactionInv, RowsInv, ReasonInv,
                           WholeSamples, InStore, BeforeCommit

\* A sample is in the database with the rows of all its statements, perhaps but
\* the GPU's, or with none: an aborted transaction is never committed.
THEOREM SamplesWhole == Spec => []WholeSamples
<1>1. StoreInv => WholeSamples  BY DEF StoreInv, RowsInv
<1> QED  BY <1>1, StoreInit, StoreNext, PTL DEF Spec

\* An attempt that reports a success has stored its sample, and one that
\* reports a failure had a call that failed, a missing table or no time left.
THEOREM AttemptsJustified == Spec => []AttemptJustified
<1>1. StoreInv => AttemptJustified
      BY DEF StoreInv, ReasonInv, AttemptJustified
<1> QED  BY <1>1, StoreInit, StoreNext, PTL DEF Spec
-----------------------------------------------------------------------------
\* The refinement of SampleStore

\* The sample that is stored consists of all that was gathered.
ContentInv == pc \in InStore => content[sample] = gathered

PromiseInv == GatherInv /\ StoreInv /\ ContentInv

\* Every step.
LEMMA ContentNext == PromiseInv /\ [Next]_vars => ContentInv'
<1> SUFFICES ASSUME PromiseInv, [Next]_vars PROVE ContentInv'  OBVIOUS
<1>0. TypeInv  BY DEF PromiseInv, GatherInv
<1>a. ASSUME pc' \notin InStore PROVE ContentInv'  BY <1>a DEF ContentInv
<1>b. ASSUME UNCHANGED << pc, content, sample, gathered >> PROVE ContentInv'
      BY <1>b DEF ContentInv, PromiseInv
<1>1. CASE RunMigrations \/ MigrationsFail
      BY <1>1, <1>b DEF RunMigrations, MigrationsFail, gatherVars, dbVars
<1>2. CASE Collect \/ ResultsDone \/ DrainErrors \/ Finish
      BY <1>2, <1>a DEF Collect, ResultsDone, DrainErrors, Finish, InStore
<1>3. CASE \E g \in Gatherers : Gather(g)
  <2>1. pc = "merging" /\ pc' = pc
        BY <1>3, <1>0 DEF Gather, PromiseInv, GatherInv, TypeInv, TypeOK
  <2> QED  BY <2>1, <1>a DEF InStore
<1>4. CASE \E g \in Gatherers : GatherFails(g) \/ SendError(g)
      BY <1>4, <1>b DEF GatherFails, SendError, dbVars
<1>5. CASE CloseChannels \/ MergeMetrics
      BY <1>5, <1>b DEF CloseChannels, MergeMetrics, dbVars
<1>6. CASE Begin
  <2>1. /\ pc = "begin" /\ content' = [content EXCEPT ![sample] = aggregated]
        /\ UNCHANGED << sample, gathered >>
        BY <1>6 DEF Begin, gatherVars
  <2>2. sample \in DOMAIN content  BY <1>0, <2>1 DEF TypeInv, TypeOK, RunInv
  <2>3. aggregated = gathered  BY <2>1 DEF PromiseInv, GatherInv
  <2> QED  BY <2>1, <2>2, <2>3 DEF ContentInv
<1>7. CASE Insert \/ InsertGpuFails
  <2>1. pc \in InStore /\ UNCHANGED << content, sample, gathered >>
        BY <1>7 DEF Insert, InsertGpuFails, InStore, gatherVars, dbVars
  <2> QED  BY <2>1 DEF ContentInv, PromiseInv
<1>8. CASE BeginFails \/ InsertFails \/ CommitFails \/ CommitReplyLost \/ Commit
      BY <1>8, <1>a DEF BeginFails, InsertFails, CommitFails, CommitReplyLost, Commit,
                        Fail, InStore
<1>9. CASE Expire \/ UNCHANGED vars  BY <1>9, <1>b DEF Expire, vars, dbVars, gatherVars
<1> QED  BY <1>1, <1>2, <1>3, <1>4, <1>5, <1>6, <1>7, <1>8, <1>9 DEF Next, Step

\* Every behaviour keeps what the refinement needs.
LEMMA PromiseAlways == Spec => []PromiseInv
<1>1. Init => ContentInv  BY DEF Init, ContentInv, InStore
<1>2. PromiseInv => GatherInv /\ StoreInv  BY DEF PromiseInv
<1>3. GatherInv /\ StoreInv /\ ContentInv => PromiseInv  BY DEF PromiseInv
<1> QED  BY <1>1, <1>2, <1>3, GatherInit, GatherNext, StoreInit, StoreNext, ContentNext, PTL
         DEF Spec

\* What a commit adds are the rows that SampleStore asks for.
LEMMA CommitIsStore ==
    ASSUME PromiseInv, pc = "commit", tx = "open", Committed
    PROVE  Samples!Store
<1>1. PICK left \in SUBSET {"gpu"} :
          txRows = {<< sample, t >> : t \in Statements(content[sample]) \ left}
      BY DEF PromiseInv, StoreInv, TransactionInv, DoneWithout
<1>2. Statements(content[sample]) = Unconditional \union (gathered \intersect Tables)
      BY DEF PromiseInv, ContentInv, InStore, Statements
<1>3. rows' = rows \union txRows  BY DEF Committed
<1>4. txRows = {sample} \X ((Unconditional \union (gathered \intersect Tables)) \ left)
      BY <1>1, <1>2
<1> QED  BY <1>1, <1>3, <1>4 DEF Samples!Store

\* A step that SampleStore does not see.
LEMMA PromiseStutter ==
    ASSUME UNCHANGED << sample, gathered, rows >>,
           \/ pc' = pc
           \/ pc \notin {"idle", "ok", "failed"} /\ pc' \notin {"idle", "ok", "failed"}
    PROVE  UNCHANGED Samples!vars
BY DEF Samples!vars

\* Each step is one of SampleStore, or a stutter.
LEMMA PromiseNext == PromiseInv /\ [Next]_vars => [Samples!Next]_(Samples!vars)
<1> SUFFICES ASSUME PromiseInv, [Next]_vars
             PROVE  Samples!Next \/ UNCHANGED Samples!vars
    OBVIOUS
<1>0. TypeInv  BY DEF PromiseInv, GatherInv
<1>1. CASE RunMigrations \/ MigrationsFail
      BY <1>1, PromiseStutter DEF RunMigrations, MigrationsFail, gatherVars, dbVars
<1>2. CASE Collect
  <2>1. Samples!Start  BY <1>2 DEF Collect, Samples!Start
  <2> QED  BY <2>1 DEF Samples!Next
<1>3. ASSUME NEW g \in Gatherers, Gather(g)
      PROVE  Samples!Next \/ UNCHANGED Samples!vars
  <2>1. pc = "merging"
        BY <1>0, <1>3 DEF Gather, PromiseInv, GatherInv, TypeInv, TypeOK
  <2>2. PICK part \in {{g}, {}} : gathered' = gathered \union part  BY <1>3 DEF Gather
  <2>3. UNCHANGED << pc, sample, rows >>  BY <1>3 DEF Gather, dbVars
  <2>4. CASE part = {g}
    <3>1. Samples!Supply(g)  BY <2>1, <2>2, <2>3, <2>4 DEF Samples!Supply
    <3> QED  BY <3>1 DEF Samples!Next
  <2>5. CASE part = {}  BY <2>2, <2>3, <2>5, PromiseStutter
  <2> QED  BY <2>4, <2>5
<1>4. CASE \E g \in Gatherers : GatherFails(g) \/ SendError(g)
      BY <1>4, PromiseStutter DEF GatherFails, SendError, dbVars
<1>5. CASE CloseChannels \/ MergeMetrics \/ ResultsDone \/ DrainErrors
      BY <1>5, PromiseStutter
         DEF CloseChannels, MergeMetrics, ResultsDone, DrainErrors, dbVars, gatherVars
<1>6. CASE Begin \/ Insert \/ InsertGpuFails
  <2>1. /\ pc \notin {"idle", "ok", "failed"} /\ pc' \notin {"idle", "ok", "failed"}
        /\ UNCHANGED << sample, gathered, rows >>
        BY <1>6 DEF Begin, Insert, InsertGpuFails, AfterInsert, dbVars, gatherVars
  <2> QED  BY <2>1, PromiseStutter
<1>7. CASE BeginFails \/ InsertFails \/ CommitFails
  <2>1. /\ pc \in {"begin", "insert", "commit"} /\ pc' = "failed"
        /\ UNCHANGED << sample, gathered, rows >>
        BY <1>7 DEF BeginFails, InsertFails, CommitFails, Fail, dbVars, gatherVars
  <2>2. Samples!Fail  BY <2>1 DEF Samples!Fail
  <2> QED  BY <2>2 DEF Samples!Next
<1>8. CASE Commit
  <2>1. Samples!Store  BY <1>8, CommitIsStore DEF Commit
  <2>2. Samples!Succeed  BY <1>8, <2>1 DEF Commit, Samples!Succeed, gatherVars
  <2> QED  BY <2>2 DEF Samples!Next
<1>9. CASE CommitReplyLost
  <2>1. Samples!Store  BY <1>9, CommitIsStore DEF CommitReplyLost
  <2>2. Samples!Fail
        BY <1>9, <2>1 DEF CommitReplyLost, Samples!Fail, Fail, gatherVars
  <2> QED  BY <2>2 DEF Samples!Next
<1>10. CASE Finish
  <2>1. Samples!Return  BY <1>10 DEF Finish, Samples!Return, gatherVars, dbVars
  <2> QED  BY <2>1 DEF Samples!Next
<1>11. CASE Expire \/ UNCHANGED vars
       BY <1>11, PromiseStutter DEF Expire, vars, gatherVars, dbVars
<1> QED  BY <1>1, <1>2, <1>3, <1>4, <1>5, <1>6, <1>7, <1>8, <1>9, <1>10, <1>11
         DEF Next, Step

\* Collect implements SampleStore: in whatever order the gatherers return, and
\* whoever of them and whichever statement fails, a sample comes into the
\* database in one step and with all that was supplied for a table, perhaps but
\* the GPU's, or not at all.
THEOREM CollectImplementsSampleStore == Spec => ImplementsSampleStore
<1>1. Init => Samples!Init  BY DEF Init, Samples!Init
<1> QED  BY <1>1, PromiseAlways, PromiseNext, PTL
         DEF Spec, ImplementsSampleStore, Samples!Spec

-----------------------------------------------------------------------------
\* A call comes to its end

\* A result or an error takes the place of the goroutine that sends it.
RoomInv ==
    Cardinality(resultsCh) + errorsCh + Cardinality(working) <= Cardinality(Gatherers)

\* The sets that the channels and the WaitGroup stand for are finite.
LEMMA CountsAreNumbers ==
    ASSUME TypeOK
    PROVE  /\ IsFiniteSet(resultsCh) /\ Cardinality(resultsCh) \in Nat
           /\ IsFiniteSet(working) /\ Cardinality(working) \in Nat
           /\ IsFiniteSet(failing) /\ Cardinality(failing) \in Nat
           /\ IsFiniteSet(working \ failing) /\ Cardinality(working \ failing) \in Nat
           /\ IsFiniteSet(todo) /\ Cardinality(todo) \in Nat
           /\ errorsCh \in Nat
<1>1. IsFiniteSet(Gatherers \X SUBSET Gatherers)
      BY GatherersFinite, FS_SUBSET, FS_Product
<1>2. resultsCh \subseteq Gatherers \X SUBSET Gatherers  BY DEF TypeOK
<1>3. working \subseteq Gatherers /\ failing \subseteq Gatherers /\ errorsCh \in Nat
      BY GatherersFinite DEF TypeOK
<1>4. IsFiniteSet(todo)
  <2>1. IsFiniteSet(Tables)  BY GatherersFinite
  <2> QED  BY <2>1, FS_Subset DEF TypeOK
<1>5. IsFiniteSet(resultsCh) /\ IsFiniteSet(working) /\ IsFiniteSet(failing)
      BY <1>1, <1>2, <1>3, GatherersFinite, FS_Subset
<1>6. IsFiniteSet(working \ failing)  BY <1>5, FS_Subset
<1> QED  BY <1>3, <1>4, <1>5, <1>6, FS_CardinalityType

\* Every step.
LEMMA RoomNext == TypeInv /\ RoomInv /\ [Next]_vars => RoomInv'
<1> SUFFICES ASSUME TypeInv, RoomInv, [Next]_vars PROVE RoomInv'  OBVIOUS
<1>0. TypeOK  BY DEF TypeInv
<1>a. ASSUME UNCHANGED << working, resultsCh, errorsCh >> PROVE RoomInv'
      BY <1>a DEF RoomInv
<1>1. ASSUME NEW g \in Gatherers, Gather(g) PROVE RoomInv'
  <2>1. g \in working /\ working' = working \ {g} /\ errorsCh' = errorsCh
        BY <1>1 DEF Gather
  <2>2. PICK part : resultsCh' = resultsCh \union {<< g, part >>}
        BY <1>1 DEF Gather
  <2>3. Cardinality(working') = Cardinality(working) - 1
        BY <1>0, <2>1, CountsAreNumbers, FS_RemoveElement
  <2>4. \/ Cardinality(resultsCh') = Cardinality(resultsCh)
        \/ Cardinality(resultsCh') = Cardinality(resultsCh) + 1
        BY <1>0, <2>2, CountsAreNumbers, FS_AddElement
  <2> QED  BY <1>0, <2>1, <2>3, <2>4, CountsAreNumbers, GatherersFinite DEF RoomInv
<1>2. ASSUME NEW g \in Gatherers, SendError(g) PROVE RoomInv'
  <2>1. g \in working /\ working' = working \ {g} /\ errorsCh' = errorsCh + 1
        /\ resultsCh' = resultsCh
        BY <1>0, <1>2 DEF SendError, TypeOK
  <2>2. Cardinality(working') = Cardinality(working) - 1
        BY <1>0, <2>1, CountsAreNumbers, FS_RemoveElement
  <2> QED  BY <1>0, <2>1, <2>2, CountsAreNumbers, GatherersFinite DEF RoomInv
<1>3. CASE MergeMetrics
  <2>1. PICK r \in resultsCh : resultsCh' = resultsCh \ {r}  BY <1>3 DEF MergeMetrics
  <2>2. Cardinality(resultsCh') = Cardinality(resultsCh) - 1
        BY <1>0, <2>1, CountsAreNumbers, FS_RemoveElement
  <2>3. UNCHANGED << working, errorsCh >>  BY <1>3 DEF MergeMetrics
  <2> QED  BY <1>0, <2>2, <2>3, CountsAreNumbers, GatherersFinite DEF RoomInv
<1>4. CASE DrainErrors
  <2>1. errorsCh' = 0 /\ UNCHANGED << working, resultsCh >>  BY <1>4 DEF DrainErrors
  <2> QED  BY <1>0, <2>1, CountsAreNumbers, GatherersFinite DEF RoomInv
<1>5. CASE Collect
  <2>1. working' = Gatherers /\ resultsCh' = {} /\ errorsCh' = 0  BY <1>5 DEF Collect
  <2> QED  BY <2>1, FS_EmptySet, GatherersFinite DEF RoomInv
<1>6. CASE \/ \E g \in Gatherers : GatherFails(g)
           \/ CloseChannels \/ ResultsDone \/ RunMigrations \/ MigrationsFail \/ Expire
      BY <1>6, <1>a DEF GatherFails, CloseChannels, ResultsDone, RunMigrations,
                        MigrationsFail, Expire, gatherVars
<1>7. CASE \/ Begin \/ BeginFails \/ Insert \/ InsertFails \/ InsertGpuFails
           \/ Commit \/ CommitFails \/ CommitReplyLost \/ Finish
      BY <1>7, <1>a DEF Begin, BeginFails, Insert, InsertFails, InsertGpuFails, Commit,
                        CommitFails, CommitReplyLost, Finish, gatherVars
<1>8. CASE UNCHANGED vars  BY <1>8, <1>a DEF vars, gatherVars
<1> QED  BY <1>1, <1>2, <1>3, <1>4, <1>5, <1>6, <1>7, <1>8 DEF Next, Step

\* No goroutine of a gatherer ever waits for room in a channel: errorsCh is
\* drained only when all of them are done, so one that waited would wait for
\* ever, and Collect with it (collector.go:170-215).
SendsNeverBlock ==
    working # {} => Cardinality(resultsCh) < ResultsCapacity /\ errorsCh < ErrorsCapacity

\* With room in each channel for every gatherer no send blocks, whichever of
\* the gatherers fail and however slowly Collect reads.
THEOREM NoSendBlocks == Spec => []SendsNeverBlock
<1>1. Init => RoomInv
  <2> SUFFICES ASSUME Init PROVE RoomInv  OBVIOUS
  <2>1. working = {} /\ resultsCh = {} /\ errorsCh = 0  BY DEF Init
  <2>2. Cardinality({}) = 0  BY FS_EmptySet
  <2> QED  BY <2>1, <2>2, GatherersFinite DEF RoomInv
<1>2. TypeInv /\ RoomInv => SendsNeverBlock
  <2> SUFFICES ASSUME TypeInv, RoomInv, working # {}
               PROVE  /\ Cardinality(resultsCh) < Cardinality(Gatherers)
                      /\ errorsCh < Cardinality(Gatherers)
      BY DEF SendsNeverBlock, ResultsCapacity, ErrorsCapacity
  <2>1. TypeOK  BY DEF TypeInv
  <2>2. Cardinality(working) # 0  BY <2>1, CountsAreNumbers, FS_EmptySet
  <2> QED  BY <2>1, <2>2, CountsAreNumbers, GatherersFinite DEF RoomInv
<1> QED  BY <1>1, <1>2, TypeInit, TypeNext, RoomNext, PTL DEF Spec

\* A gatherer has to fail and to send, or to send and be merged.
LeftToMerge ==
    3 * Cardinality(working \ failing) + 2 * Cardinality(failing) + Cardinality(resultsCh)
    + (IF closed THEN 0 ELSE 1)

\* How many steps a call and its job can still take, at most.
Left ==
    CASE pc = "merging" -> 20 + LeftToMerge
      [] pc = "draining" -> 19
      [] pc = "begin" -> 18
      [] pc = "insert" -> 3 + Cardinality(todo)
      [] pc = "commit" -> 3
      [] pc \in {"ok", "failed"} -> 1
      [] pc = "idle" -> 0

LeftIsNumber == Left \in Nat

\* Each step of a job leaves it fewer.
StepsRunOut == [][Step => Left' < Left]_vars

\* There is never more than one statement for each table.
LEMMA FewStatements == TypeOK => Cardinality(todo) \in 0..6
<1> SUFFICES ASSUME TypeOK PROVE Cardinality(todo) \in 0..6  OBVIOUS
<1>1. Cardinality(Tables) = 6
  <2>1. /\ IsFiniteSet({}) /\ Cardinality({}) = 0
        BY FS_EmptySet
  <2>2. /\ IsFiniteSet({} \union {"cpu"}) /\ Cardinality({} \union {"cpu"}) = 1
        BY <2>1, FS_AddElement
  <2> DEFINE A == {} \union {"cpu"}
             B == A \union {"memory"}
             C == B \union {"disk"}
             D == C \union {"network"}
             E == D \union {"gpu"}
             F == E \union {"load"}
  <2>3. /\ "memory" \notin A /\ "disk" \notin B /\ "network" \notin C
        /\ "gpu" \notin D /\ "load" \notin E
        OBVIOUS
  <2>10. F = Tables  BY DEF Tables
  <2>4. IsFiniteSet(A) /\ Cardinality(A) = 1  BY <2>2
  <2> HIDE DEF A
  <2>5. IsFiniteSet(B) /\ Cardinality(B) = 2  BY <2>3, <2>4, FS_AddElement
  <2> HIDE DEF B
  <2>6. IsFiniteSet(C) /\ Cardinality(C) = 3  BY <2>3, <2>5, FS_AddElement
  <2> HIDE DEF C
  <2>7. IsFiniteSet(D) /\ Cardinality(D) = 4  BY <2>3, <2>6, FS_AddElement
  <2> HIDE DEF D
  <2>8. IsFiniteSet(E) /\ Cardinality(E) = 5  BY <2>3, <2>7, FS_AddElement
  <2> HIDE DEF E
  <2>9. Cardinality(F) = 6
    <3>1. Cardinality(E \union {"load"}) = Cardinality(E) + 1
          BY <2>3, <2>8, FS_AddElement, Zenon
    <3> QED  BY <2>8, <3>1
  <2> QED  BY <2>9, <2>10
<1>2. Cardinality(todo) <= Cardinality(Tables)
      BY GatherersFinite, FS_Subset DEF TypeOK
<1> QED  BY <1>1, <1>2, CountsAreNumbers

\* The values of Left.
LEMMA LeftValues ==
    ASSUME TypeOK
    PROVE  /\ Left \in Nat
           /\ LeftToMerge \in Nat
           /\ pc = "merging" => Left = 20 + LeftToMerge
           /\ pc = "draining" => Left = 19
           /\ pc = "begin" => Left = 18
           /\ pc = "insert" => Left = 3 + Cardinality(todo)
           /\ pc = "commit" => Left = 3
           /\ pc \in {"ok", "failed"} => Left = 1
           /\ pc = "idle" => Left = 0
<1>1. pc \in Points  BY DEF TypeOK
<1>2. LeftToMerge \in Nat
  <2>1. (IF closed THEN 0 ELSE 1) \in Nat  OBVIOUS
  <2> QED  BY <2>1, CountsAreNumbers DEF LeftToMerge
<1>3. CASE pc = "insert"  BY <1>2, <1>3, CountsAreNumbers DEF Left
<1>4. CASE pc \in Points \ {"insert"}  BY <1>2, <1>4 DEF Left, Points
<1> QED  BY <1>1, <1>3, <1>4

\* The steps of the gatherers and of the merge.
LEMMA LeftGather ==
    ASSUME TypeInv, pc = "merging", pc' = pc,
           \/ \E g \in Gatherers : Gather(g) \/ GatherFails(g) \/ SendError(g)
           \/ CloseChannels \/ MergeMetrics
    PROVE  Left' < Left
<1> DEFINE idle == Cardinality(working \ failing)
           bad == Cardinality(failing)
           sent == Cardinality(resultsCh)
           rest == IF closed THEN 0 ELSE 1
<1>0. TypeOK  BY DEF TypeInv
<1>1. idle \in Nat /\ bad \in Nat /\ sent \in Nat /\ rest \in Nat
      BY <1>0, CountsAreNumbers
<1>2. Left = 20 + LeftToMerge /\ LeftToMerge = 3 * idle + 2 * bad + sent + rest
      BY DEF Left, LeftToMerge
<1>3. Left' = 20 + LeftToMerge' /\ LeftToMerge' = 3 * idle' + 2 * bad' + sent' + rest'
  <2>1. Left' = 20 + LeftToMerge'  BY DEF Left
  <2> QED  BY <2>1 DEF LeftToMerge
<1>4. IsFiniteSet(working \ failing) /\ IsFiniteSet(failing) /\ IsFiniteSet(resultsCh)
      BY <1>0, CountsAreNumbers
<1>5. ASSUME NEW g \in Gatherers, Gather(g)
      PROVE  idle' = idle - 1 /\ bad' = bad /\ sent' \in {sent, sent + 1} /\ rest' = rest
  <2>1. /\ g \in working \ failing /\ working' \ failing' = (working \ failing) \ {g}
        /\ UNCHANGED << failing, closed >>
        BY <1>5 DEF Gather
  <2>2. PICK part : resultsCh' = resultsCh \union {<< g, part >>}  BY <1>5 DEF Gather
  <2>3. idle' = idle - 1  BY <1>4, <2>1, FS_RemoveElement
  <2>4. sent' \in {sent, sent + 1}  BY <1>4, <2>2, FS_AddElement
  <2> QED  BY <2>1, <2>3, <2>4
<1>6. ASSUME NEW g \in Gatherers, GatherFails(g)
      PROVE  idle' = idle - 1 /\ bad' = bad + 1 /\ sent' = sent /\ rest' = rest
  <2>1. /\ g \in working \ failing /\ working' \ failing' = (working \ failing) \ {g}
        /\ failing' = failing \union {g} /\ UNCHANGED << resultsCh, closed >>
        BY <1>6 DEF GatherFails
  <2>2. idle' = idle - 1  BY <1>4, <2>1, FS_RemoveElement
  <2>3. bad' = bad + 1  BY <1>4, <2>1, FS_AddElement
  <2> QED  BY <2>1, <2>2, <2>3
<1>7. ASSUME NEW g \in Gatherers, SendError(g)
      PROVE  idle' = idle /\ bad' = bad - 1 /\ sent' = sent /\ rest' = rest
  <2>1. /\ g \in failing /\ working' \ failing' = working \ failing
        /\ failing' = failing \ {g} /\ UNCHANGED << resultsCh, closed >>
        BY <1>7 DEF SendError
  <2>2. bad' = bad - 1  BY <1>4, <2>1, FS_RemoveElement
  <2> QED  BY <2>1, <2>2
<1>8. ASSUME CloseChannels
      PROVE  idle' = idle /\ bad' = bad /\ sent' = sent /\ rest = 1 /\ rest' = 0
      BY <1>8 DEF CloseChannels
<1>9. ASSUME MergeMetrics
      PROVE  idle' = idle /\ bad' = bad /\ sent' = sent - 1 /\ rest' = rest
  <2>1. PICK r \in resultsCh : resultsCh' = resultsCh \ {r}  BY <1>9 DEF MergeMetrics
  <2>2. sent' = sent - 1  BY <1>4, <2>1, FS_RemoveElement
  <2>3. UNCHANGED << working, failing, closed >>  BY <1>9 DEF MergeMetrics
  <2> QED  BY <2>2, <2>3
<1> HIDE DEF idle, bad, sent, rest
<1> QED  BY <1>1, <1>2, <1>3, <1>5, <1>6, <1>7, <1>8, <1>9

\* Every step.
LEMMA LeftStep == GatherInv /\ (Cardinality(todo) \in 0..6)' /\ Step => Left' < Left
<1> SUFFICES ASSUME GatherInv, (Cardinality(todo) \in 0..6)', Step PROVE Left' < Left  OBVIOUS
<1>0. TypeInv /\ TypeOK  BY DEF GatherInv, TypeInv
<1>1. CASE \E g \in Gatherers : Gather(g) \/ GatherFails(g) \/ SendError(g)
  <2>1. pc = "merging" /\ pc' = pc
        BY <1>0, <1>1 DEF Gather, GatherFails, SendError, GatherInv, TypeOK
  <2> QED  BY <1>0, <1>1, <2>1, LeftGather
<1>2. CASE CloseChannels \/ MergeMetrics
  <2>1. pc = "merging" /\ pc' = pc  BY <1>2 DEF CloseChannels, MergeMetrics
  <2> QED  BY <1>0, <1>2, <2>1, LeftGather
<1>3. CASE ResultsDone
  <2>1. pc = "merging" /\ pc' = "draining"  BY <1>3 DEF ResultsDone
  <2>2. Left' = 19  BY <2>1 DEF Left
  <2> QED  BY <1>0, <2>1, <2>2, LeftValues
<1>4. CASE DrainErrors
  <2>1. pc = "draining" /\ pc' = "begin"  BY <1>4 DEF DrainErrors
  <2> QED  BY <2>1 DEF Left
<1>5. CASE Begin
  <2>1. pc = "begin" /\ pc' = "insert"  BY <1>5 DEF Begin
  <2>2. Left' = 3 + Cardinality(todo)'  BY <2>1 DEF Left
  <2>3. Cardinality(todo)' \in 0..6  OBVIOUS
  <2> QED  BY <1>0, <2>1, <2>2, <2>3, LeftValues
<1>6. CASE Insert \/ InsertGpuFails
  <2>1. /\ pc = "insert" /\ todo' = todo \ {Upcoming}
        /\ pc' = IF todo' = {} THEN "commit" ELSE "insert"
        BY <1>6 DEF Insert, InsertGpuFails, AfterInsert
  <2>2. Upcoming \in todo  BY <1>0, <2>1, UpcomingInTodo DEF TypeInv, TodoInv
  <2>3. Cardinality(todo') = Cardinality(todo) - 1 /\ Cardinality(todo) \in Nat
        BY <1>0, <2>1, <2>2, CountsAreNumbers, FS_RemoveElement
  <2>4. Left = 3 + Cardinality(todo)  BY <2>1 DEF Left
  <2>5. CASE todo' = {}
    <3>1. Left' = 3 /\ Cardinality(todo') = 0  BY <2>1, <2>5, FS_EmptySet DEF Left
    <3> QED  BY <2>3, <2>4, <3>1
  <2>6. CASE todo' # {}
    <3>1. Left' = 3 + Cardinality(todo')  BY <2>1, <2>6 DEF Left
    <3> QED  BY <2>3, <2>4, <3>1
  <2> QED  BY <2>5, <2>6
<1>7. CASE BeginFails \/ InsertFails \/ Commit \/ CommitFails \/ CommitReplyLost
  <2>1. pc \in {"begin", "insert", "commit"} /\ pc' \in {"ok", "failed"}
        BY <1>7 DEF BeginFails, InsertFails, Commit, CommitFails, CommitReplyLost, Fail
  <2>2. Left' = 1  BY <2>1 DEF Left
  <2>3. Left \in Nat /\ Left >= 3  BY <1>0, <2>1, LeftValues, CountsAreNumbers
  <2> QED  BY <2>2, <2>3
<1>8. CASE Finish
  <2>1. pc \in {"ok", "failed"} /\ pc' = "idle"  BY <1>8 DEF Finish
  <2> QED  BY <2>1 DEF Left
<1> QED  BY <1>1, <1>2, <1>3, <1>4, <1>5, <1>6, <1>7, <1>8 DEF Step

\* A call that has started, and the run of its job after it, are over after a
\* bounded number of steps, in whatever order these are taken.
THEOREM CallRunsOut == Spec => []LeftIsNumber /\ StepsRunOut
<1>1. TypeOK => LeftIsNumber  BY LeftValues DEF LeftIsNumber
<1>2. GatherInv /\ (Cardinality(todo) \in 0..6)' /\ [Next]_vars => [Step => Left' < Left]_vars
      BY LeftStep
<1>3. Spec => []GatherInv  BY GatherInit, GatherNext, PTL DEF Spec
<1> QED  BY <1>1, <1>2, <1>3, FewStatements, TypeCorrect, PTL DEF Spec, StepsRunOut
=============================================================================
