--------------------------- MODULE EnsembleProofs ---------------------------
(***************************************************************************)
(* Theorems about Ensemble, for any number of callers and models and for   *)
(* every strategy.  Inductive is the bookkeeping of the calls; AloneInv    *)
(* adds whose data the models hold while a call is not overlapped.         *)
(***************************************************************************)
EXTENDS Ensemble, FiniteSetTheorems, TLAPS

\* The sets that are counted are finite.
LEMMA ModelsCount ==
    /\ Cardinality(Models) \in Nat \ {0}
    /\ \A S \in SUBSET Models : IsFiniteSet(S) /\ Cardinality(S) \in Nat
BY ModelsAssumption, FS_CardinalityType, FS_EmptySet, FS_Subset

\* Putting a new element into a set of models, and taking one out.
LEMMA CountOneMore ==
    ASSUME NEW S \in SUBSET Models, NEW m \in Models
    PROVE  /\ m \notin S => Cardinality(S \union {m}) = Cardinality(S) + 1
           /\ m \in S => Cardinality(S \ {m}) = Cardinality(S) - 1
BY ModelsCount, FS_AddElement, FS_RemoveElement

-----------------------------------------------------------------------------
\* The invariant

\* In TrainAll every model is being trained, has been trained by this call,
\* or has left one error in errCh.
Tally(c) ==
    /\ learnt[c] \intersect working[c] = {}
    /\ errCh[c] + Cardinality(learnt[c]) + Cardinality(working[c])
            = Cardinality(Models)

\* A pending Lock is one that adjustWeights has asked for.
PendingIsLocking == \A c \in Callers : pending = c => pc[c] = "locking"

\* predCh holds something only inside Predict.
PredChOfPredict == \A c \in Callers : pc[c] \notin InPredict => predCh[c] = {}

Inductive ==
    /\ TypeOK
    /\ JoinedBeforeUse
    /\ VerdictIsRight
    /\ ReadLockHeldInPredict
    /\ PendingIsLocking
    /\ PredChOfPredict
    /\ \A c \in Callers : pc[c] = "training" => Tally(c)

\* The last RUnlock never finds a Lock to hand over to: who waits for the
\* write lock is a reader itself.
LEMMA NothingHandedOver ==
    ASSUME Inductive, NEW c \in Callers, RUnlock(c)
    PROVE  /\ pc' = [pc EXCEPT ![c] = "idle"]
           /\ pending' = pending
<1>1. pending \in Callers => pending \in readers' /\ pending # c
  BY DEF Inductive, TypeOK, PendingIsLocking, ReadLockHeldInPredict, InPredict, RUnlock
<1>2. \A d \in Callers : d # c => pc'[d] = pc[d]
  BY <1>1 DEF Inductive, TypeOK, RUnlock
<1>3. pending' = pending
  BY <1>1 DEF Inductive, TypeOK, RUnlock
<1>4. pc'[c] = "idle" /\ pc' = [d \in Callers |-> pc'[d]]
  BY DEF RUnlock
<1> QED
  BY <1>2, <1>3, <1>4 DEF Inductive, TypeOK

\* What a step leaves alone of the callers that do not take it.
LEMMA OthersKeep ==
    ASSUME Inductive, NEW c \in Callers, RejectInput(c) \/ StartTraining(c) \/ Step(c),
           NEW d \in Callers, d # c
    PROVE  /\ pc'[d] = pc[d]
           /\ working'[d] = working[d]
           /\ errCh'[d] = errCh[d]
           /\ learnt'[d] = learnt[d]
           /\ predCh'[d] = predCh[d]
BY NothingHandedOver
   DEF Inductive, TypeOK, RejectInput, StartTraining, Step, TrainModel, TrainModelFails, SendError,
       TrainAllReturns, GiveUp, RLock, PredictModel, PredictModelFails,
       CollectPredictions, Lock, Combine, RUnlock

\* The invariant holds at first.
LEMMA InitInductive == Init => Inductive
BY ModelsCount, NobodyAssumption
   DEF Init, Inductive, TypeOK, Points, InPredict, JoinedBeforeUse, VerdictIsRight,
       ReadLockHeldInPredict, PendingIsLocking, PredChOfPredict, lockVars

\* Types are kept.
LEMMA TypeStep ==
    ASSUME Inductive, NEW c \in Callers, RejectInput(c) \/ StartTraining(c) \/ Step(c)
    PROVE  TypeOK'
<1> USE DEF Points, lockVars
<1>1. CASE RejectInput(c)
  BY <1>1 DEF Inductive, TypeOK, RejectInput
<1>2. CASE StartTraining(c)
  BY <1>2, ModelsCount DEF Inductive, TypeOK, StartTraining
<1>3. ASSUME NEW m \in Models, TrainModel(c, m) PROVE TypeOK'
  BY <1>3 DEF Inductive, TypeOK, TrainModel
<1>4. ASSUME NEW m \in Models, SendError(c, m) PROVE TypeOK'
  <2>1. errCh'[c] \in 0..Cardinality(Models)
    BY <1>4, ModelsCount DEF Inductive, TypeOK, SendError, ErrChCapacity
  <2> QED
    BY <1>4, <2>1 DEF Inductive, TypeOK, SendError
<1>5. CASE TrainAllReturns(c)
  BY <1>5, ModelsCount DEF Inductive, TypeOK, TrainAllReturns
<1>6. CASE GiveUp(c)
  BY <1>6 DEF Inductive, TypeOK, GiveUp
<1>7. CASE RLock(c)
  BY <1>7 DEF Inductive, TypeOK, RLock
<1>8. ASSUME NEW m \in Models, PredictModel(c, m) PROVE TypeOK'
  <2>1. [model |-> m, fit |-> fitted[m]] \in Predictions
    BY <1>8 DEF Inductive, TypeOK, PredictModel, Predictions
  <2> QED
    BY <1>8, <2>1 DEF Inductive, TypeOK, PredictModel
<1>9. ASSUME NEW m \in Models, PredictModelFails(c, m) PROVE TypeOK'
  BY <1>9 DEF Inductive, TypeOK, PredictModelFails
<1>10. CASE CollectPredictions(c)
  BY <1>10 DEF Inductive, TypeOK, CollectPredictions
<1>11. CASE Lock(c)
  BY <1>11 DEF Inductive, TypeOK, Lock
<1>12. CASE Combine(c)
  BY <1>12 DEF Inductive, TypeOK, Combine
<1>13. CASE RUnlock(c)
  BY <1>13, NothingHandedOver DEF Inductive, TypeOK, RUnlock
<1>14. ASSUME NEW m \in Models, TrainModelFails(c, m) PROVE TypeOK'
  BY <1>14 DEF Inductive, TypeOK, TrainModelFails
<1> QED
  BY <1>1, <1>2, <1>3, <1>4, <1>5, <1>6, <1>7, <1>8, <1>9, <1>10, <1>11, <1>12, <1>13, <1>14
     DEF Step

\* The other parts are kept.  Each is about one caller, so of those who do
\* not take the step it is enough to know that OthersKeep.
LEMMA RestStep ==
    ASSUME Inductive, NEW c \in Callers, RejectInput(c) \/ StartTraining(c) \/ Step(c)
    PROVE  Inductive'
<1> USE DEF InPredict, lockVars
<1> DEFINE Good(d) ==
      /\ pc[d] \notin {"training", "predicting"} => working[d] = {}
      /\ pc[d] = "trained" => learnt[d] # {}
      /\ pc[d] = "trainFailed" => learnt[d] = {}
      /\ pc[d] \notin InPredict => predCh[d] = {}
      /\ pc[d] = "training" => Tally(d)
<1> DEFINE Mover ==
      /\ Good(c)'
      /\ c \in readers' <=> pc'[c] \in InPredict
      /\ \A d \in Callers : d # c => (d \in readers' <=> d \in readers)
      /\ pending' = pending \/ (pending' = c /\ pc'[c] = "locking")
      /\ pc[c] # "locking"
<1>1. TypeOK /\ TypeOK'
  BY TypeStep DEF Inductive
<1>2. \A d \in Callers : Good(d)
  BY DEF Inductive, JoinedBeforeUse, VerdictIsRight, PredChOfPredict
<1>3. \A d \in Callers : d # c => Good(d)'
  BY <1>2, OthersKeep DEF Tally
<1>4. Mover
  <2> USE <1>1, <1>2 DEF TypeOK
  <2>0. c \in readers <=> pc[c] \in InPredict
    BY DEF Inductive, ReadLockHeldInPredict
  <2>1. CASE RejectInput(c)
    BY <2>1, <2>0 DEF RejectInput
  <2>2. CASE StartTraining(c)
    <3>1. Tally(c)'
      BY <2>2, ModelsCount, FS_EmptySet DEF StartTraining, Tally
    <3> QED
      BY <2>2, <2>0, <3>1 DEF StartTraining
  <2>3. ASSUME NEW m \in Models, TrainModel(c, m) PROVE Mover
    <3>1. Tally(c) /\ m \in working[c] /\ m \notin learnt[c]
      BY <2>3 DEF TrainModel, Tally
    <3>2. /\ Cardinality(learnt[c] \union {m}) = Cardinality(learnt[c]) + 1
          /\ Cardinality(working[c] \ {m}) = Cardinality(working[c]) - 1
      BY <3>1, CountOneMore
    <3>3. Tally(c)'
      BY <2>3, <3>1, <3>2, ModelsCount DEF TrainModel, Tally
    <3> QED
      BY <2>3, <2>0, <3>3 DEF TrainModel
  <2>4. ASSUME NEW m \in Models, SendError(c, m) PROVE Mover
    <3>1. Tally(c) /\ m \in working[c]
      BY <2>4 DEF SendError, Tally
    <3>2. Cardinality(working[c] \ {m}) = Cardinality(working[c]) - 1
      BY <3>1, CountOneMore
    <3>3. Tally(c)'
      BY <2>4, <3>1, <3>2, ModelsCount DEF SendError, Tally
    <3> QED
      BY <2>4, <2>0, <3>3 DEF SendError
  <2>5. CASE TrainAllReturns(c)
    <3>1. errCh[c] + Cardinality(learnt[c]) = Cardinality(Models)
      BY <2>5, ModelsCount, FS_EmptySet DEF TrainAllReturns, Tally
    <3>2. AllModelsFailed(c) <=> learnt[c] = {}
      BY <3>1, ModelsCount, FS_EmptySet DEF AllModelsFailed
    <3> QED
      BY <2>5, <2>0, <3>2 DEF TrainAllReturns
  <2>6. CASE GiveUp(c)
    BY <2>6, <2>0 DEF GiveUp
  <2>7. CASE RLock(c)
    BY <2>7, <2>0 DEF RLock
  <2>8. ASSUME NEW m \in Models, PredictModel(c, m) PROVE Mover
    BY <2>8, <2>0 DEF PredictModel
  <2>9. ASSUME NEW m \in Models, PredictModelFails(c, m) PROVE Mover
    BY <2>9, <2>0 DEF PredictModelFails
  <2>10. CASE CollectPredictions(c)
    BY <2>10, <2>0 DEF CollectPredictions
  <2>11. CASE Lock(c)
    BY <2>11, <2>0 DEF Lock
  <2>12. CASE Combine(c)
    BY <2>12, <2>0 DEF Combine
  <2>13. CASE RUnlock(c)
    BY <2>13, <2>0, NothingHandedOver DEF RUnlock
  <2>14. ASSUME NEW m \in Models, TrainModelFails(c, m) PROVE Mover
    BY <2>14, <2>0 DEF TrainModelFails, Tally
  <2> QED
    BY <2>1, <2>2, <2>3, <2>4, <2>5, <2>6, <2>7, <2>8, <2>9, <2>10, <2>11, <2>12, <2>13, <2>14
       DEF Step
<1>5. ReadLockHeldInPredict'
  BY <1>1, <1>4, OthersKeep DEF Inductive, ReadLockHeldInPredict, TypeOK
<1>6. PendingIsLocking'
  BY <1>4, OthersKeep DEF Inductive, PendingIsLocking
<1> QED
  BY <1>1, <1>3, <1>4, <1>5, <1>6
     DEF Inductive, JoinedBeforeUse, VerdictIsRight, PredChOfPredict

-----------------------------------------------------------------------------
\* Theorems

\* Inductive is an invariant.
LEMMA AlwaysInductive == Spec => []Inductive
<1>1. Inductive /\ UNCHANGED vars => Inductive'
  BY DEF Inductive, TypeOK, JoinedBeforeUse, VerdictIsRight, ReadLockHeldInPredict,
         PendingIsLocking, PredChOfPredict, Tally, vars, lockVars
<1>2. Inductive /\ [Next]_vars => Inductive'
  BY <1>1, RestStep DEF Next
<1> QED
  BY <1>2, InitInductive, PTL DEF Spec

\* The type invariant.
THEOREM TypeCorrect == Spec => []TypeOK
BY AlwaysInductive, PTL DEF Inductive

\* No goroutine outlives the WaitGroup of its call.
THEOREM JoinCorrect == Spec => []JoinedBeforeUse
BY AlwaysInductive, PTL DEF Inductive

\* TrainAll fails exactly when no model was trained.
THEOREM VerdictCorrect == Spec => []VerdictIsRight
BY AlwaysInductive, PTL DEF Inductive

\* Every return of Predict gives back the read lock it has taken.
THEOREM ReadLockCorrect == Spec => []ReadLockHeldInPredict
BY AlwaysInductive, PTL DEF Inductive

\* errCh has room for every error still to come, so that wg.Done is reached.
SendsNeverBlock ==
    \A c \in Callers, m \in Models :
        pc[c] = "training" /\ m \in working[c] => errCh[c] < ErrChCapacity

\* A send on errCh never blocks a goroutine of TrainAll (ensemble.go:102).
THEOREM ErrChSuffices == Spec => []SendsNeverBlock
<1>1. Inductive => SendsNeverBlock
  <2> SUFFICES ASSUME Inductive, NEW c \in Callers, NEW m \in Models,
                      pc[c] = "training", m \in working[c]
               PROVE  errCh[c] < ErrChCapacity
    BY DEF SendsNeverBlock
  <2>1. Tally(c) /\ TypeOK
    BY DEF Inductive
  <2>2. Cardinality(working[c]) = Cardinality(working[c] \ {m}) + 1
    BY <2>1, ModelsCount, CountOneMore DEF TypeOK
  <2> QED
    BY <2>1, <2>2, ModelsCount DEF Tally, TypeOK, ErrChCapacity
<1> QED
  BY <1>1, AlwaysInductive, PTL

\* A caller waiting for the write lock goes on waiting.
LockingForEver == \A c \in Callers : pc[c] = "locking" => pc'[c] = "locking"

\* With the dynamic strategy the Lock of adjustWeights (ensemble.go:260) is
\* never granted, whatever the number of callers: who asks for it holds the
\* read lock (ensemble.go:149), and no step of anyone takes it further.
THEOREM SelfDeadlock == Spec => [][LockingForEver]_vars
<1>1. Inductive /\ [Next]_vars => [LockingForEver]_vars
  <2> SUFFICES ASSUME Inductive, NEW c \in Callers,
                      RejectInput(c) \/ StartTraining(c) \/ Step(c),
                      NEW d \in Callers, pc[d] = "locking"
               PROVE  pc'[d] = "locking"
    BY DEF Next, LockingForEver
  <2>1. CASE d = c
    BY <2>1 DEF RejectInput, StartTraining, Step, TrainModel, TrainModelFails, SendError,
                TrainAllReturns, GiveUp, RLock, PredictModel, PredictModelFails,
                CollectPredictions, Lock, Combine, RUnlock
  <2>2. CASE d # c
    BY <2>2, OthersKeep
  <2> QED
    BY <2>1, <2>2
<1> QED
  BY <1>1, AlwaysInductive, PTL DEF Spec

-----------------------------------------------------------------------------
\* Calls that are not overlapped

\* Callers that train or predict nothing.
Quiet == {"idle", "trainFailed"}

\* While a call is alone the others are quiet, and the models it has trained
\* hold its history.
AloneInv ==
    \A c \in Callers :
        alone[c] /\ pc[c] \notin Quiet =>
            /\ \A d \in Callers : d # c => pc[d] \in Quiet
            /\ \A m \in learnt[c] : fitted[m] = c

\* AloneInv, with the property it is for, is kept.
LEMMA AloneStep ==
    ASSUME Inductive, AloneInv, OwnForecastAlone, NEW c \in Callers,
           RejectInput(c) \/ StartTraining(c) \/ Step(c)
    PROVE  AloneInv' /\ OwnForecastAlone'
<1> USE DEF lockVars, Quiet, InPredict
<1> DEFINE Own(d) ==
      /\ alone[d] /\ pc[d] \notin Quiet =>
            /\ \A e \in Callers : e # d => pc[e] \in Quiet
            /\ \A m \in learnt[d] : fitted[m] = d
      /\ \A p \in predCh[d] : alone[d] /\ p.model \in learnt[d] => p.fit = d
<1>1. TypeOK /\ \A d \in Callers : Own(d)
  BY DEF Inductive, AloneInv, OwnForecastAlone
<1>2. predCh[c] = {} \/ pc[c] \in InPredict
  BY DEF Inductive, PredChOfPredict
<1> SUFFICES ASSUME NEW d \in Callers PROVE Own(d)'
  BY DEF AloneInv, OwnForecastAlone
<1> USE <1>1, <1>2 DEF TypeOK
<1>3. d # c => /\ pc'[d] = pc[d] /\ learnt'[d] = learnt[d] /\ predCh'[d] = predCh[d]
               /\ \A e \in Callers : e # c => pc'[e] = pc[e]
  BY OthersKeep
<1>4. CASE RejectInput(c)
  BY <1>3, <1>4 DEF RejectInput
<1>5. CASE StartTraining(c)
  BY <1>3, <1>5 DEF StartTraining
<1>6. ASSUME NEW m \in Models, TrainModel(c, m) PROVE Own(d)'
  BY <1>3, <1>6 DEF TrainModel
<1>7. ASSUME NEW m \in Models, TrainModelFails(c, m) PROVE Own(d)'
  BY <1>3, <1>7 DEF TrainModelFails
<1>8. CASE TrainAllReturns(c)
  BY <1>3, <1>8 DEF TrainAllReturns
<1>9. CASE GiveUp(c)
  BY <1>3, <1>9 DEF GiveUp
<1>10. CASE RLock(c)
  BY <1>3, <1>10 DEF RLock
<1>11. ASSUME NEW m \in Models, PredictModel(c, m) PROVE Own(d)'
  BY <1>3, <1>11 DEF PredictModel
<1>12. ASSUME NEW m \in Models, PredictModelFails(c, m) PROVE Own(d)'
  BY <1>3, <1>12 DEF PredictModelFails
<1>13. CASE CollectPredictions(c)
  BY <1>3, <1>13 DEF CollectPredictions
<1>14. CASE Lock(c)
  BY <1>3, <1>14 DEF Lock
<1>15. CASE Combine(c)
  BY <1>3, <1>15 DEF Combine
<1>16. CASE RUnlock(c)
  BY <1>3, <1>16, NothingHandedOver DEF RUnlock
<1>17. ASSUME NEW m \in Models, SendError(c, m) PROVE Own(d)'
  BY <1>3, <1>17 DEF SendError
<1> QED
  BY <1>4, <1>5, <1>6, <1>7, <1>8, <1>9, <1>10, <1>11, <1>12, <1>13, <1>14, <1>15, <1>16, <1>17
     DEF Step

\* A call that is not overlapped gets the forecasts of its own history.
THEOREM AloneCorrect == Spec => []OwnForecastAlone
<1>1. Init => AloneInv /\ OwnForecastAlone
  BY DEF Init, AloneInv, OwnForecastAlone, Quiet
<1>2. Inductive /\ AloneInv /\ OwnForecastAlone /\ [Next]_vars
        => AloneInv' /\ OwnForecastAlone'
  <2>1. AloneInv /\ OwnForecastAlone /\ UNCHANGED vars => AloneInv' /\ OwnForecastAlone'
    BY DEF AloneInv, OwnForecastAlone, vars, lockVars
  <2> QED
    BY <2>1, AloneStep DEF Next
<1> QED
  BY <1>1, <1>2, AlwaysInductive, PTL DEF Spec

-----------------------------------------------------------------------------
\* Calls come to their end

\* With another strategy than the dynamic one nobody asks for the write lock.
NoLockAsked ==
    strategy # Dynamic =>
        pending = Nobody /\ \A c \in Callers : pc[c] \notin {"lock", "locking"}

\* Every step.
LEMMA NoLockNext == Inductive /\ NoLockAsked /\ [Next]_vars => NoLockAsked'
<1> SUFFICES ASSUME Inductive, NoLockAsked, [Next]_vars, strategy' # Dynamic
             PROVE  pending' = Nobody /\ \A d \in Callers : pc'[d] \notin {"lock", "locking"}
    BY DEF NoLockAsked
<1>1. strategy' = strategy
  BY DEF Next, RejectInput, StartTraining, Step, TrainModel, TrainModelFails, SendError,
         TrainAllReturns, GiveUp, RLock, PredictModel, PredictModelFails, CollectPredictions,
         Lock, Combine, RUnlock, vars
<1>2. pending = Nobody /\ \A d \in Callers : pc[d] \notin {"lock", "locking"}
  BY <1>1 DEF NoLockAsked
<1>3. CASE UNCHANGED vars
  BY <1>2, <1>3 DEF vars, lockVars
<1>4. ASSUME NEW c \in Callers, RejectInput(c) \/ StartTraining(c) \/ Step(c)
      PROVE  pending' = Nobody /\ \A d \in Callers : pc'[d] \notin {"lock", "locking"}
  <2>1. \A d \in Callers : d # c => pc'[d] = pc[d]
    BY <1>4, OthersKeep
  <2>2. pending' = Nobody
    BY <1>2, <1>4, NothingHandedOver
       DEF RejectInput, StartTraining, Step, TrainModel, TrainModelFails, SendError,
           TrainAllReturns, GiveUp, RLock, PredictModel, PredictModelFails,
           CollectPredictions, Lock, Combine, RUnlock, lockVars
  <2>3. pc'[c] \notin {"lock", "locking"}
    <3>1. CASE CollectPredictions(c)
      BY <1>1, <3>1 DEF CollectPredictions, Inductive, TypeOK
    <3>2. CASE Lock(c)
      BY <1>2, <3>2 DEF Lock
    <3>3. CASE RUnlock(c)
      BY <3>3, NothingHandedOver DEF Inductive, TypeOK
    <3>4. CASE \/ RejectInput(c) \/ StartTraining(c) \/ TrainAllReturns(c) \/ GiveUp(c)
               \/ RLock(c) \/ Combine(c)
               \/ \E m \in Models : \/ TrainModel(c, m) \/ TrainModelFails(c, m)
                                    \/ SendError(c, m) \/ PredictModel(c, m)
                                    \/ PredictModelFails(c, m)
      BY <1>2, <3>4 DEF RejectInput, StartTraining, TrainAllReturns, GiveUp, RLock, Combine,
                        TrainModel, TrainModelFails, SendError, PredictModel,
                        PredictModelFails, Inductive, TypeOK
    <3> QED
      BY <1>4, <3>1, <3>2, <3>3, <3>4 DEF Step
  <2> QED
    BY <1>2, <2>1, <2>2, <2>3
<1> QED
  BY <1>3, <1>4 DEF Next

\* The lock of the ensemble can make a caller wait only with the dynamic
\* strategy: otherwise every RLock is granted at once (ensemble.go:149).
RLockNeverWaits == strategy # Dynamic => pending = Nobody

THEOREM OnlyDynamicWaits == Spec => []RLockNeverWaits
<1>1. Init => NoLockAsked
  BY DEF Init, NoLockAsked
<1>2. NoLockAsked => RLockNeverWaits
  BY DEF NoLockAsked, RLockNeverWaits
<1> QED
  BY <1>1, <1>2, AlwaysInductive, NoLockNext, PTL DEF Spec

\* In Predict every model is still at work or has left at most one answer.
Answers(c) ==
    /\ IsFiniteSet(predCh[c])
    /\ pc[c] = "predicting" =>
            Cardinality(predCh[c]) + Cardinality(working[c]) <= Cardinality(Models)

RoomForAnswers == \A c \in Callers : Answers(c)

\* A step of a caller and its own answers.
LEMMA AnswersStep ==
    ASSUME Inductive, NEW c \in Callers, Answers(c),
           RejectInput(c) \/ StartTraining(c) \/ Step(c)
    PROVE  Answers(c)'
<1>0. /\ working[c] \in SUBSET Models /\ IsFiniteSet(working[c])
      /\ Cardinality(working[c]) \in Nat /\ Cardinality(Models) \in Nat
  BY ModelsCount DEF Inductive, TypeOK
<1>1. IsFiniteSet(predCh[c]) /\ Cardinality(predCh[c]) \in Nat
  BY FS_CardinalityType DEF Answers
<1>2. ASSUME NEW m \in Models, PredictModel(c, m) PROVE Answers(c)'
  <2>1. pc[c] = "predicting" /\ m \in working[c] /\ working'[c] = working[c] \ {m}
    BY <1>2 DEF PredictModel, Inductive, TypeOK
  <2> DEFINE answer == [model |-> m, fit |-> fitted[m]]
  <2>2. predCh'[c] = predCh[c] \union {answer}
    BY <1>2 DEF PredictModel, Inductive, TypeOK
  <2> HIDE DEF answer
  <2>3. Cardinality(working'[c]) = Cardinality(working[c]) - 1
    <3>1. Cardinality(working[c] \ {m}) = Cardinality(working[c]) - 1
      BY <1>0, <2>1, CountOneMore
    <3> QED
      BY <2>1, <3>1
  <2>4. /\ IsFiniteSet(predCh'[c])
        /\ \/ Cardinality(predCh'[c]) = Cardinality(predCh[c])
           \/ Cardinality(predCh'[c]) = Cardinality(predCh[c]) + 1
    <3>1. /\ IsFiniteSet(predCh[c] \union {answer})
          /\ \/ Cardinality(predCh[c] \union {answer}) = Cardinality(predCh[c])
             \/ Cardinality(predCh[c] \union {answer}) = Cardinality(predCh[c]) + 1
      BY <1>1, FS_AddElement
    <3> QED
      BY <2>2, <3>1
  <2> QED
    BY <1>0, <1>1, <2>1, <2>3, <2>4 DEF Answers
<1>3. ASSUME NEW m \in Models, PredictModelFails(c, m) PROVE Answers(c)'
  <2>1. /\ pc[c] = "predicting" /\ m \in working[c] /\ working'[c] = working[c] \ {m}
        /\ predCh'[c] = predCh[c]
    BY <1>3 DEF PredictModelFails, Inductive, TypeOK
  <2>2. Cardinality(working'[c]) = Cardinality(working[c]) - 1
    <3>1. Cardinality(working[c] \ {m}) = Cardinality(working[c]) - 1
      BY <1>0, <2>1, CountOneMore
    <3> QED
      BY <2>1, <3>1
  <2> QED
    BY <1>0, <1>1, <2>1, <2>2 DEF Answers
<1>4. CASE RLock(c)
  <2>1. predCh[c] = {} /\ predCh'[c] = {} /\ working'[c] = Models
    BY <1>4 DEF RLock, Inductive, TypeOK, PredChOfPredict, InPredict
  <2> QED
    BY <1>0, <2>1, FS_EmptySet DEF Answers
<1>5. CASE RUnlock(c)
  <2>1. predCh'[c] = {} /\ pc'[c] = "idle"
    BY <1>5, NothingHandedOver DEF RUnlock, Inductive, TypeOK
  <2> QED
    BY <2>1, FS_EmptySet DEF Answers
<1>6. CASE \/ RejectInput(c) \/ StartTraining(c) \/ TrainAllReturns(c) \/ GiveUp(c)
           \/ CollectPredictions(c) \/ Lock(c) \/ Combine(c)
           \/ \E m \in Models : TrainModel(c, m) \/ TrainModelFails(c, m) \/ SendError(c, m)
  <2>1. predCh'[c] = predCh[c] /\ pc'[c] # "predicting"
    BY <1>6 DEF RejectInput, StartTraining, TrainAllReturns, GiveUp, CollectPredictions, Lock,
                Combine, TrainModel, TrainModelFails, SendError, Inductive, TypeOK
  <2> QED
    BY <2>1 DEF Answers
<1> QED
  BY <1>2, <1>3, <1>4, <1>5, <1>6 DEF Step

\* Every step.
LEMMA AnswersNext == Inductive /\ RoomForAnswers /\ [Next]_vars => RoomForAnswers'
<1> SUFFICES ASSUME Inductive, RoomForAnswers, [Next]_vars, NEW d \in Callers
             PROVE  Answers(d)'
  BY DEF RoomForAnswers
<1>1. Answers(d)
  BY DEF RoomForAnswers
<1>2. ASSUME UNCHANGED << predCh[d], pc[d], working[d] >> PROVE Answers(d)'
  BY <1>1, <1>2 DEF Answers
<1>3. CASE UNCHANGED vars
  BY <1>2, <1>3 DEF vars
<1>4. ASSUME NEW c \in Callers, RejectInput(c) \/ StartTraining(c) \/ Step(c)
      PROVE  Answers(d)'
  <2>1. CASE c = d
    BY <1>1, <1>4, <2>1, AnswersStep
  <2>2. CASE c # d
    BY <1>2, <1>4, <2>2, OthersKeep
  <2> QED
    BY <2>1, <2>2
<1> QED
  BY <1>3, <1>4 DEF Next

\* predCh has room for every answer still to come.
AnswersNeverBlock ==
    \A c \in Callers, m \in Models :
        pc[c] = "predicting" /\ m \in working[c] =>
            Cardinality(predCh[c]) < PredChCapacity

\* A send on predCh never blocks a goroutine of Predict (ensemble.go:156): it
\* is drained only when all of them are done.
THEOREM PredChSuffices == Spec => []AnswersNeverBlock
<1>1. Init => RoomForAnswers
  BY FS_EmptySet DEF Init, RoomForAnswers, Answers
<1>2. Inductive /\ RoomForAnswers => AnswersNeverBlock
  <2> SUFFICES ASSUME Inductive, RoomForAnswers, NEW c \in Callers, NEW m \in Models,
                      pc[c] = "predicting", m \in working[c]
               PROVE  Cardinality(predCh[c]) < Cardinality(Models)
    BY DEF AnswersNeverBlock, PredChCapacity
  <2>1. working[c] \in SUBSET Models /\ Cardinality(Models) \in Nat
    BY ModelsCount DEF Inductive, TypeOK
  <2>2. Cardinality(working[c]) \in Nat /\ Cardinality(working[c]) # 0
    BY <2>1, ModelsCount, FS_EmptySet
  <2>3. IsFiniteSet(predCh[c]) /\ Cardinality(predCh[c]) \in Nat
    BY FS_CardinalityType DEF RoomForAnswers, Answers
  <2> QED
    BY <2>1, <2>2, <2>3 DEF RoomForAnswers, Answers
<1> QED
  BY <1>1, <1>2, AlwaysInductive, AnswersNext, PTL DEF Spec

\* How many steps a call can still take, at most: in TrainAll a model has to
\* be trained, or to fail and to send its error; in Predict it has to answer.
CallLeft(c) ==
    LET training == 2 * Cardinality(working[c] \ failing[c])
                    + Cardinality(working[c] \intersect failing[c])
    IN  CASE pc[c] = "training" -> training + Cardinality(Models) + 8
          [] pc[c] = "trained" -> Cardinality(Models) + 7
          [] pc[c] = "predicting" -> Cardinality(working[c]) + 6
          [] pc[c] = "lock" -> 5
          [] pc[c] = "locking" -> 4
          [] pc[c] = "combine" -> 3
          [] pc[c] = "unlock" -> 2
          [] pc[c] = "trainFailed" -> 1
          [] pc[c] = "idle" -> 0

CallLeftNumbers == \A c \in Callers : CallLeft(c) \in Nat

\* Each step of a call leaves it fewer, and leaves the other calls what they
\* have.
CallsEnd ==
    [][\A c \in Callers :
          Step(c) => /\ CallLeft(c)' < CallLeft(c)
                     /\ \A d \in Callers \ {c} : CallLeft(d)' = CallLeft(d)]_vars

\* The models at work, by whether they have failed.
LEMMA WorkingCounts ==
    ASSUME TypeOK, NEW c \in Callers
    PROVE  /\ Cardinality(working[c] \ failing[c]) \in Nat
           /\ Cardinality(working[c] \intersect failing[c]) \in Nat
           /\ Cardinality(working[c]) \in Nat
           /\ Cardinality(Models) \in Nat
BY ModelsCount DEF TypeOK

\* The steps that are left are a number.
LEMMA CallLeftTyped == TypeOK => CallLeftNumbers
<1> SUFFICES ASSUME TypeOK, NEW c \in Callers PROVE CallLeft(c) \in Nat
  BY DEF CallLeftNumbers
<1> DEFINE good == Cardinality(working[c] \ failing[c])
           bad == Cardinality(working[c] \intersect failing[c])
           all == Cardinality(working[c])
<1>1. good \in Nat /\ bad \in Nat /\ all \in Nat /\ Cardinality(Models) \in Nat
  BY WorkingCounts
<1>2. CASE pc[c] = "training"
  <2>1. CallLeft(c) = 2 * good + bad + Cardinality(Models) + 8
    BY <1>2 DEF CallLeft
  <2> HIDE DEF good, bad
  <2> QED
    BY <1>1, <2>1
<1>3. CASE pc[c] \in {"trained", "predicting"}
  BY <1>1, <1>3 DEF CallLeft
<1>4. CASE pc[c] \in Points \ {"training", "trained", "predicting"}
  BY <1>4 DEF CallLeft, Points
<1> QED
  BY <1>2, <1>3, <1>4 DEF TypeOK, Points

\* The steps of TrainAll's goroutines.
LEMMA TrainingLeft ==
    ASSUME Inductive, NEW c \in Callers, NEW m \in Models,
           TrainModel(c, m) \/ TrainModelFails(c, m) \/ SendError(c, m)
    PROVE  CallLeft(c)' < CallLeft(c)
<1> DEFINE G == working[c] \ failing[c]
           B == working[c] \intersect failing[c]
           G1 == working'[c] \ failing'[c]
           B1 == working'[c] \intersect failing'[c]
           n == Cardinality(Models)
<1>0. TypeOK
  BY DEF Inductive
<1>1. /\ Cardinality(G) \in Nat /\ Cardinality(B) \in Nat /\ n \in Nat
      /\ G \in SUBSET Models /\ B \in SUBSET Models
  BY <1>0, WorkingCounts DEF TypeOK
<1>2. pc[c] = "training" /\ pc'[c] = "training"
  BY DEF TrainModel, TrainModelFails, SendError
<1>3. CallLeft(c) = 2 * Cardinality(G) + Cardinality(B) + n + 8
  BY <1>2 DEF CallLeft
<1>4. CallLeft(c)' = 2 * Cardinality(G1) + Cardinality(B1) + n + 8
  BY <1>2 DEF CallLeft
<1>5. CASE TrainModel(c, m)
  <2>1. m \in G /\ G1 = G \ {m} /\ B1 = B
    BY <1>0, <1>5 DEF TrainModel, TypeOK
  <2> HIDE DEF G, B, G1, B1, n
  <2>2. Cardinality(G \ {m}) = Cardinality(G) - 1
    BY <1>1, <2>1, CountOneMore
  <2> QED
    BY <1>1, <1>3, <1>4, <2>1, <2>2
<1>6. CASE TrainModelFails(c, m)
  <2>1. m \in G /\ G1 = G \ {m} /\ B1 = B \union {m} /\ m \notin B
    BY <1>0, <1>6 DEF TrainModelFails, TypeOK
  <2> HIDE DEF G, B, G1, B1, n
  <2>2. Cardinality(G \ {m}) = Cardinality(G) - 1
    BY <1>1, <2>1, CountOneMore
  <2>3. Cardinality(B \union {m}) = Cardinality(B) + 1
    BY <1>1, <2>1, CountOneMore
  <2> QED
    BY <1>1, <1>3, <1>4, <2>1, <2>2, <2>3
<1>7. CASE SendError(c, m)
  <2>1. m \in B /\ G1 = G /\ B1 = B \ {m}
    BY <1>0, <1>7 DEF SendError, TypeOK
  <2> HIDE DEF G, B, G1, B1, n
  <2>2. Cardinality(B \ {m}) = Cardinality(B) - 1
    BY <1>1, <2>1, CountOneMore
  <2> QED
    BY <1>1, <1>3, <1>4, <2>1, <2>2
<1> QED
  BY <1>5, <1>6, <1>7

\* The steps of a caller, its goroutines included.
LEMMA CallLeftStep ==
    ASSUME Inductive, NEW c \in Callers, Step(c)
    PROVE  CallLeft(c)' < CallLeft(c)
<1> DEFINE n == Cardinality(Models)
           all == Cardinality(working[c])
           good == Cardinality(working[c] \ failing[c])
           bad == Cardinality(working[c] \intersect failing[c])
<1>0. TypeOK
  BY DEF Inductive
<1>1. n \in Nat /\ all \in Nat /\ good \in Nat /\ bad \in Nat
  BY <1>0, WorkingCounts
<1>2. CASE \E m \in Models : TrainModel(c, m) \/ TrainModelFails(c, m) \/ SendError(c, m)
  BY <1>2, TrainingLeft
<1>3. CASE \E m \in Models : PredictModel(c, m) \/ PredictModelFails(c, m)
  <2>1. PICK m \in Models : PredictModel(c, m) \/ PredictModelFails(c, m)
    BY <1>3
  <2>2. /\ pc[c] = "predicting" /\ pc'[c] = "predicting" /\ m \in working[c]
        /\ working'[c] = working[c] \ {m} /\ working[c] \in SUBSET Models
    BY <1>0, <2>1 DEF PredictModel, PredictModelFails, TypeOK
  <2>3. Cardinality(working[c] \ {m}) = all - 1
    BY <2>2, CountOneMore
  <2>4. CallLeft(c) = all + 6 /\ CallLeft(c)' = Cardinality(working'[c]) + 6
    BY <2>2 DEF CallLeft
  <2> HIDE DEF all
  <2> QED
    BY <1>1, <2>2, <2>3, <2>4
<1>4. CASE TrainAllReturns(c)
  <2>1. pc[c] = "training" /\ pc'[c] \in {"trainFailed", "trained"}
    BY <1>0, <1>4 DEF TrainAllReturns, TypeOK
  <2>2. CallLeft(c) = 2 * good + bad + n + 8 /\ CallLeft(c)' \in {1, n + 7}
    BY <2>1 DEF CallLeft
  <2> HIDE DEF n, good, bad
  <2> QED
    BY <1>1, <2>2
<1>5. CASE RLock(c)
  <2>1. pc[c] = "trained" /\ pc'[c] = "predicting" /\ working'[c] = Models
    BY <1>0, <1>5 DEF RLock, TypeOK
  <2>2. CallLeft(c) = n + 7 /\ CallLeft(c)' = n + 6
    BY <2>1 DEF CallLeft
  <2> HIDE DEF n
  <2> QED
    BY <1>1, <2>2
<1>6. CASE CollectPredictions(c)
  <2>1. pc[c] = "predicting" /\ pc'[c] \in {"unlock", "lock", "combine"}
    BY <1>0, <1>6 DEF CollectPredictions, TypeOK
  <2>2. CallLeft(c) = all + 6 /\ CallLeft(c)' \in {2, 5, 3}
    BY <2>1 DEF CallLeft
  <2> HIDE DEF all
  <2> QED
    BY <1>1, <2>2
<1>7. CASE Lock(c) \/ Combine(c) \/ GiveUp(c)
  BY <1>0, <1>7 DEF Lock, Combine, GiveUp, CallLeft, TypeOK
<1>8. CASE RUnlock(c)
  <2>1. pc[c] = "unlock" /\ pc'[c] = "idle"
    BY <1>0, <1>8 DEF RUnlock, TypeOK
  <2> QED
    BY <2>1 DEF CallLeft
<1> QED
  BY <1>2, <1>3, <1>4, <1>5, <1>6, <1>7, <1>8 DEF Step

\* What a step takes off its own call it leaves the others.
LEMMA OthersLeft ==
    ASSUME Inductive, NEW c \in Callers, Step(c), NEW d \in Callers \ {c}
    PROVE  CallLeft(d)' = CallLeft(d)
<1>1. pc'[d] = pc[d] /\ working'[d] = working[d]
  BY OthersKeep
<1>2. failing'[d] = failing[d]
  BY DEF Inductive, TypeOK, Step, TrainModel, TrainModelFails, SendError, TrainAllReturns,
         GiveUp, RLock, PredictModel, PredictModelFails, CollectPredictions, Lock, Combine,
         RUnlock
<1> QED
  BY <1>1, <1>2 DEF CallLeft

\* A call returns after a number of its own steps that the number of models
\* bounds, whatever the other callers do: what can keep it from returning is
\* only to wait for the lock.
THEOREM CallsRunOut == Spec => []CallLeftNumbers /\ CallsEnd
<1>1. Inductive /\ [Next]_vars =>
        [\A c \in Callers :
            Step(c) => /\ CallLeft(c)' < CallLeft(c)
                       /\ \A d \in Callers \ {c} : CallLeft(d)' = CallLeft(d)]_vars
  BY CallLeftStep, OthersLeft
<1>2. Inductive => TypeOK
  BY DEF Inductive
<1> QED
  BY <1>1, <1>2, AlwaysInductive, CallLeftTyped, PTL DEF Spec, CallsEnd
=============================================================================
