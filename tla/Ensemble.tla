------------------------------ MODULE Ensemble ------------------------------
(***************************************************************************)
(* The model ensemble, internal/forecaster/models/ensemble.go, shared by   *)
(* callers that do what AnalyzeASG (pkg/cloud/aws/auto_scaling_advisor.go) *)
(* does: TrainAll with their own history, then Predict.                    *)
(*                                                                         *)
(* TrainAll and Predict start one goroutine per model, wait for them with  *)
(* a WaitGroup, close the channel and only then drain it.  Predict runs    *)
(* under e.mu.RLock; the dynamic strategy takes e.mu.Lock further down.    *)
(*                                                                         *)
(* External: sync.RWMutex.  A Lock that finds readers is pending until the *)
(* last of them leaves, and meanwhile no RLock is granted.  External too:  *)
(* the ForecastingModel implementations, which the repository does not     *)
(* hold: a model keeps what its last successful Train gave it.             *)
(***************************************************************************)
EXTENDS Integers, FiniteSets

CONSTANTS
    Callers,      \* goroutines that share one Ensemble
    Models,       \* Ensemble.models
    Strategies,   \* the strategies NewEnsemble may be given
    Nobody

Dynamic == "dynamic_weights"

ASSUME ModelsAssumption == IsFiniteSet(Models) /\ Models # {}
ASSUME NobodyAssumption == Nobody \notin Callers

VARIABLES
    strategy,   \* Ensemble.strategy
    fitted,     \* whose data a model was last trained on
    readers,    \* e.mu: the callers that hold RLock
    pending,    \* e.mu: the caller whose Lock waits for the readers
    pc,         \* where a caller is
    working,    \* its goroutines that have not called wg.Done
    failing,    \* those of them that are about to send an error
    errCh,      \* TrainAll's errCh: how many errors it holds
    predCh,     \* Predict's predCh, then predictions
    learnt,     \* history: the models its TrainAll has trained
    alone       \* history: no other call has overlapped its call

lockVars == << readers, pending >>
vars == << strategy, fitted, lockVars, pc, working, failing, errCh, predCh, learnt, alone >>

Points == {"idle", "training", "trainFailed", "trained", "predicting",
           "lock", "locking", "combine", "unlock"}

\* Between RLock and RUnlock.
InPredict == {"predicting", "lock", "locking", "combine", "unlock"}

Predictions == [model : Models, fit : Callers]

Init ==
    /\ strategy \in Strategies
    /\ fitted = [m \in Models |-> Nobody]
    /\ readers = {}
    /\ pending = Nobody
    /\ pc = [c \in Callers |-> "idle"]
    /\ working = [c \in Callers |-> {}]
    /\ failing = [c \in Callers |-> {}]
    /\ errCh = [c \in Callers |-> 0]
    /\ predCh = [c \in Callers |-> {}]
    /\ learnt = [c \in Callers |-> {}]
    /\ alone = [c \in Callers |-> TRUE]

-----------------------------------------------------------------------------
\* TrainAll

\* Too few points, a NaN, or timestamps out of order: nothing happens.
RejectInput(c) ==
    /\ pc[c] = "idle"
    /\ pc' = [pc EXCEPT ![c] = "trainFailed"]
    /\ learnt' = [learnt EXCEPT ![c] = {}]
    /\ UNCHANGED << strategy, fitted, lockVars, working, failing, errCh, predCh, alone >>

StartTraining(c) ==
    /\ pc[c] = "idle"
    /\ pc' = [pc EXCEPT ![c] = "training"]
    /\ working' = [working EXCEPT ![c] = Models]
    /\ failing' = [failing EXCEPT ![c] = {}]
    /\ errCh' = [errCh EXCEPT ![c] = 0]
    /\ learnt' = [learnt EXCEPT ![c] = {}]
    /\ alone' = [d \in Callers |-> IF d = c THEN \A e \in Callers : pc[e] = "idle"
                                            ELSE FALSE]
    /\ UNCHANGED << strategy, fitted, lockVars, predCh >>

\* Mutant: a model that was trained before is taken as trained.
TrainModelOnce(c, m) ==
    /\ pc[c] = "training"
    /\ m \in working[c] \ failing[c]
    /\ fitted' = [fitted EXCEPT ![m] = IF @ = Nobody THEN c ELSE @]
    /\ learnt' = [learnt EXCEPT ![c] = @ \union {m}]
    /\ working' = [working EXCEPT ![c] = @ \ {m}]
    /\ UNCHANGED << strategy, lockVars, pc, failing, errCh, predCh, alone >>

TrainModel(c, m) ==
    /\ pc[c] = "training"
    /\ m \in working[c] \ failing[c]
    /\ fitted' = [fitted EXCEPT ![m] = c]
    /\ learnt' = [learnt EXCEPT ![c] = @ \union {m}]
    /\ working' = [working EXCEPT ![c] = @ \ {m}]
    /\ UNCHANGED << strategy, lockVars, pc, failing, errCh, predCh, alone >>

\* Mutant: an unbuffered errCh, with nobody receiving before wg.Wait returns.
ErrChUnbuffered == 0

\* make(chan error, len(e.models))
ErrChCapacity == Cardinality(Models)

\* Train returns an error ...
TrainModelFails(c, m) ==
    /\ pc[c] = "training"
    /\ m \in working[c] \ failing[c]
    /\ failing' = [failing EXCEPT ![c] = @ \union {m}]
    /\ UNCHANGED << strategy, fitted, lockVars, pc, working, errCh, predCh, learnt, alone >>

\* ... and the send blocks while errCh is full.
SendError(c, m) ==
    /\ pc[c] = "training"
    /\ m \in working[c] \intersect failing[c]
    /\ errCh[c] < ErrChCapacity
    /\ errCh' = [errCh EXCEPT ![c] = @ + 1]
    /\ working' = [working EXCEPT ![c] = @ \ {m}]
    /\ failing' = [failing EXCEPT ![c] = @ \ {m}]
    /\ UNCHANGED << strategy, fitted, lockVars, pc, predCh, learnt, alone >>

\* Mutant: any error fails TrainAll.
AnyModelFailed(c) == errCh[c] > 0

\* len(errors) == len(e.models)
AllModelsFailed(c) == errCh[c] = Cardinality(Models)

\* Mutant: TrainAll does not wait for its goroutines.
TrainAllNoWait(c) ==
    /\ pc[c] = "training"
    /\ errCh' = [errCh EXCEPT ![c] = 0]
    /\ pc' = [pc EXCEPT ![c] =
                IF AllModelsFailed(c) THEN "trainFailed" ELSE "trained"]
    /\ UNCHANGED << strategy, fitted, lockVars, working, failing, predCh, learnt, alone >>

\* wg.Wait returns; the errors are drained and counted.
TrainAllReturns(c) ==
    /\ pc[c] = "training"
    /\ working[c] = {}
    /\ errCh' = [errCh EXCEPT ![c] = 0]
    /\ pc' = [pc EXCEPT ![c] =
                IF AllModelsFailed(c) THEN "trainFailed" ELSE "trained"]
    /\ UNCHANGED << strategy, fitted, lockVars, working, failing, predCh, learnt, alone >>

\* The caller returns the error of TrainAll; Predict is not called.
GiveUp(c) ==
    /\ pc[c] = "trainFailed"
    /\ pc' = [pc EXCEPT ![c] = "idle"]
    /\ UNCHANGED << strategy, fitted, lockVars, working, failing, errCh, predCh, learnt, alone >>

-----------------------------------------------------------------------------
\* Predict

RLock(c) ==
    /\ pc[c] = "trained"
    /\ pending = Nobody
    /\ readers' = readers \union {c}
    /\ pc' = [pc EXCEPT ![c] = "predicting"]
    /\ working' = [working EXCEPT ![c] = Models]
    /\ UNCHANGED << strategy, fitted, pending, failing, errCh, predCh, learnt, alone >>

\* make(chan *ForecastResult, len(e.models))
PredChCapacity == Cardinality(Models)

\* Mutant: a model that was never trained answers.
PredictUntrained(c, m) ==
    /\ pc[c] = "predicting"
    /\ m \in working[c]
    /\ Cardinality(predCh[c]) < PredChCapacity
    /\ predCh' = [predCh EXCEPT ![c] = @ \union {[model |-> m, fit |-> fitted[m]]}]
    /\ working' = [working EXCEPT ![c] = @ \ {m}]
    /\ UNCHANGED << strategy, fitted, lockVars, pc, failing, errCh, learnt, alone >>

\* A model answers with what it was last trained on.
PredictModel(c, m) ==
    /\ pc[c] = "predicting"
    /\ m \in working[c]
    /\ fitted[m] # Nobody
    /\ Cardinality(predCh[c]) < PredChCapacity
    /\ predCh' = [predCh EXCEPT ![c] = @ \union {[model |-> m, fit |-> fitted[m]]}]
    /\ working' = [working EXCEPT ![c] = @ \ {m}]
    /\ UNCHANGED << strategy, fitted, lockVars, pc, failing, errCh, learnt, alone >>

PredictModelFails(c, m) ==
    /\ pc[c] = "predicting"
    /\ m \in working[c]
    /\ working' = [working EXCEPT ![c] = @ \ {m}]
    /\ UNCHANGED << strategy, fitted, lockVars, pc, failing, errCh, predCh, learnt, alone >>

\* Mutant: RUnlock is not deferred, and the error return skips it.
CollectWithoutDefer(c) ==
    /\ pc[c] = "predicting"
    /\ working[c] = {}
    /\ pc' = [pc EXCEPT ![c] =
                CASE predCh[c] = {} -> "idle"
                  [] predCh[c] # {} /\ strategy = Dynamic -> "lock"
                  [] OTHER -> "combine"]
    /\ UNCHANGED << strategy, fitted, lockVars, working, failing, errCh, predCh, learnt, alone >>

\* wg.Wait returns and predCh is drained: no answer at all is an error.
CollectPredictions(c) ==
    /\ pc[c] = "predicting"
    /\ working[c] = {}
    /\ pc' = [pc EXCEPT ![c] =
                CASE predCh[c] = {} -> "unlock"
                  [] predCh[c] # {} /\ strategy = Dynamic -> "lock"
                  [] OTHER -> "combine"]
    /\ UNCHANGED << strategy, fitted, lockVars, working, failing, errCh, predCh, learnt, alone >>

\* adjustWeights: e.mu.Lock().  Found free, it is taken and the weights are
\* changed and released at once; otherwise it is pending.
Lock(c) ==
    /\ pc[c] = "lock"
    /\ pending = Nobody
    /\ pending' = IF readers = {} THEN Nobody ELSE c
    /\ pc' = [pc EXCEPT ![c] = IF readers = {} THEN "combine" ELSE "locking"]
    /\ UNCHANGED << strategy, fitted, readers, working, failing, errCh, predCh, learnt, alone >>

\* weightedAverage or bestModel.  bestModel dereferences nil when no accuracy
\* is above -1, NaN included; the deferred RUnlock runs all the same.
Combine(c) ==
    /\ pc[c] = "combine"
    /\ pc' = [pc EXCEPT ![c] = "unlock"]
    /\ UNCHANGED << strategy, fitted, lockVars, working, failing, errCh, predCh, learnt, alone >>

\* The deferred e.mu.RUnlock(): the last reader hands over to a pending Lock.
RUnlock(c) ==
    /\ pc[c] = "unlock"
    /\ readers' = readers \ {c}
    /\ LET granted == IF readers' = {} THEN {pending} ELSE {}
       IN  /\ pending' = IF pending \in granted THEN Nobody ELSE pending
           /\ pc' = [d \in Callers |-> IF d = c THEN "idle"
                                       ELSE IF d \in granted THEN "combine"
                                       ELSE pc[d]]
    /\ predCh' = [predCh EXCEPT ![c] = {}]
    /\ UNCHANGED << strategy, fitted, working, failing, errCh, learnt, alone >>

-----------------------------------------------------------------------------

Step(c) ==
    \/ \E m \in Models : \/ TrainModel(c, m)
                         \/ TrainModelFails(c, m)
                         \/ SendError(c, m)
                         \/ PredictModel(c, m)
                         \/ PredictModelFails(c, m)
    \/ TrainAllReturns(c)
    \/ GiveUp(c)
    \/ RLock(c)
    \/ CollectPredictions(c)
    \/ Lock(c)
    \/ Combine(c)
    \/ RUnlock(c)

Next == \E c \in Callers : RejectInput(c) \/ StartTraining(c) \/ Step(c)

Spec == Init /\ [][Next]_vars

(***************************************************************************)
(* A goroutine that can run does.  RLock is waited for by a caller while   *)
(* others take it too, but readers do not exclude one another, so weak     *)
(* fairness is enough.  Nothing makes a caller call again.                 *)
(***************************************************************************)
Fairness == \A c \in Callers : WF_vars(Step(c))

FairSpec == Spec /\ Fairness

-----------------------------------------------------------------------------
\* Properties

\* The type invariant.
TypeOK ==
    /\ strategy \in Strategies
    /\ fitted \in [Models -> Callers \union {Nobody}]
    /\ readers \in SUBSET Callers
    /\ pending \in Callers \union {Nobody}
    /\ pc \in [Callers -> Points]
    /\ working \in [Callers -> SUBSET Models]
    /\ failing \in [Callers -> SUBSET Models]
    /\ errCh \in [Callers -> 0..Cardinality(Models)]
    /\ predCh \in [Callers -> SUBSET Predictions]
    /\ learnt \in [Callers -> SUBSET Models]
    /\ alone \in [Callers -> BOOLEAN]

\* The read lock is held exactly by the callers inside Predict, whichever of
\* its returns, or its panic, they leave by (ensemble.go:149-150).
ReadLockHeldInPredict == readers = {c \in Callers : pc[c] \in InPredict}

\* No goroutine is left behind to send on a closed channel or to train a
\* model behind the caller's back (ensemble.go:125-126, 173-174).
JoinedBeforeUse ==
    \A c \in Callers : pc[c] \notin {"training", "predicting"} => working[c] = {}

\* TrainAll returns an error exactly when it has trained no model at all
\* (ensemble.go:134-142), although errors are counted through a channel.
VerdictIsRight ==
    \A c \in Callers :
        /\ pc[c] = "trained" => learnt[c] # {}
        /\ pc[c] = "trainFailed" => learnt[c] = {}

\* A call that no other call has overlapped gets, from each model it has
\* trained, the forecast of its own history.
OwnForecastAlone ==
    \A c \in Callers : \A p \in predCh[c] :
        alone[c] /\ p.model \in learnt[c] => p.fit = c

\* A call returns, unless it needs the write lock under its own read lock or
\* waits for such a one.
CallReturns ==
    \A c \in Callers :
        strategy # Dynamic /\ pc[c] # "idle" ~> pc[c] = "idle"

\* "Ensemble combines multiple forecasting models with dynamic weight
\* adjustment" (ensemble.go:38): with that strategy Predict returns too.
DynamicPredictReturns ==
    \A c \in Callers : pc[c] = "predicting" ~> pc[c] = "idle"
=============================================================================
