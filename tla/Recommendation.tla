--------------------------- MODULE Recommendation ---------------------------
(***************************************************************************)
(* From the models' answers to the sizes of an auto scaling group: the     *)
(* second half of Predict in internal/forecaster/models/ensemble.go, and   *)
(* generateRecommendation of pkg/cloud/aws/auto_scaling_advisor.go.  The   *)
(* loops of both are steps.                                                *)
(*                                                                         *)
(* A float64 is an integer in units of 1/Scale per cent, so that the mean  *)
(* of any number of the models' values is an integer too, or NotFinite,    *)
(* which stands for NaN and both infinities.  The error of floating point  *)
(* matters where a quotient is rounded up, and the width of an int32 where *)
(* it becomes one: see Ceil and Int32.  The models have equal weights, as  *)
(* NewEnsemble gives them: adjustWeights never returns (see Ensemble).     *)
(***************************************************************************)
EXTENDS Integers, Sequences, FiniteSets

CONSTANTS
    Models,
    Horizon,      \* hours asked for
    Levels,       \* the finite values models predict, in per cent
    NotFinite,    \* NaN, +Inf or -Inf
    Scale,
    MaxInt,       \* the greatest int32
    Groups,       \* the sizes of groups: minimum, desired and maximum
    Strategies    \* of "weighted_average", "stacking", "best_model"

ASSUME ModelsAssumption == IsFiniteSet(Models) /\ Models # {}
ASSUME HorizonAssumption == Horizon \in Nat \ {0}
ASSUME LevelsAssumption == Levels \subseteq Int /\ NotFinite \notin Int
ASSUME MaxIntAssumption == MaxInt \in Nat \ {0}
ASSUME ScaleAssumption ==
    /\ Scale \in Nat \ {0}
    /\ \A n \in 1..Cardinality(Models) : Scale % n = 0
ASSUME GroupsAssumption ==
    \A g \in Groups :
        /\ g \in [min : Nat, desired : Nat, max : Nat]
        /\ g.min <= g.desired /\ g.desired <= g.max

VARIABLES
    strategy,
    pc,
    running,       \* models whose goroutine has not called wg.Done
    predictions,   \* what was received from predCh
    forecast,      \* ForecastResult.PredictedValues
    at, seen,      \* how far the loops over steps and over answers are
    sum,           \* weightedSum, and the sum of the forecast
    weight,        \* totalWeight, counted in models
    low, peak,     \* minForecast and max
    rec            \* the recommended sizes

loopVars == << at, seen, sum, weight, low, peak >>
vars == << strategy, pc, running, predictions, forecast, loopVars, rec >>

\* A model may answer with fewer steps than the horizon, but not with none:
\* Predict reads the last timestamp of the first answer.
Answers == UNION {[1..n -> Levels \union {NotFinite}] : n \in 1..Horizon}

NoSizes == [min |-> 0, desired |-> 0, max |-> 0, current |-> [min |-> 0, desired |-> 0, max |-> 0]]

\* Arithmetic and comparison of float64: what is not finite stays so, and may
\* be on either side of a number, or on none.
Plus(a, b) == IF NotFinite \in {a, b} THEN NotFinite ELSE a + b
Scaled(a) == IF a = NotFinite THEN a ELSE Scale * a
Over(a, n) == IF a = NotFinite THEN a ELSE a \div n
Less(a, b) == IF NotFinite \in {a, b} THEN BOOLEAN ELSE {a < b}

Init ==
    /\ strategy \in Strategies
    /\ pc = "predict"
    /\ running = Models
    /\ predictions = << >>
    /\ forecast = << >>
    /\ at = 0 /\ seen = 0 /\ sum = 0 /\ weight = 0 /\ low = 0 /\ peak = 0
    /\ rec = NoSizes

-----------------------------------------------------------------------------
\* Predict

PredictModel(m) ==
    /\ m \in running
    /\ running' = running \ {m}
    /\ \E answer \in Answers : predictions' = Append(predictions, answer)
    /\ UNCHANGED << strategy, pc, forecast, loopVars, rec >>

PredictModelFails(m) ==
    /\ m \in running
    /\ running' = running \ {m}
    /\ UNCHANGED << strategy, pc, predictions, forecast, loopVars, rec >>

Joined == pc = "predict" /\ running = {}

NoModelPredicted ==
    /\ Joined /\ predictions = << >>
    /\ pc' = "failed"
    /\ UNCHANGED << strategy, running, predictions, forecast, loopVars, rec >>

\* Any of the answers may be the most accurate, and is returned as it is.
BestModel ==
    /\ Joined
    /\ strategy = "best_model"
    /\ \E k \in DOMAIN predictions :
          forecast' = [i \in DOMAIN predictions[k] |-> Scaled(predictions[k][i])]
    /\ pc' = "returned"
    /\ UNCHANGED << strategy, running, predictions, loopVars, rec >>

-----------------------------------------------------------------------------
\* weightedAverage

\* The body of the outer loop starts for step i.
StartStep(i) ==
    /\ at' = i /\ seen' = 0
    /\ sum' = 0 /\ weight' = 0
    /\ UNCHANGED << low, peak >>

Combine ==
    /\ Joined /\ predictions # << >>
    /\ strategy # "best_model"
    /\ forecast' = [i \in 1..Horizon |-> 0]
    /\ pc' = "combine"
    /\ StartStep(1)
    /\ UNCHANGED << strategy, running, predictions, rec >>

\* Mutant: every answer has its weight, also one that is too short.
AddAnswerWeighAll ==
    /\ pc = "combine" /\ seen < Len(predictions)
    /\ seen' = seen + 1
    /\ sum' = IF at \in DOMAIN predictions[seen'] THEN Plus(sum, predictions[seen'][at]) ELSE sum
    /\ weight' = weight + 1
    /\ UNCHANGED << strategy, pc, running, predictions, forecast, at, low, peak, rec >>

\* The inner loop: an answer that is too short is passed over.
AddAnswer ==
    /\ pc = "combine" /\ seen < Len(predictions)
    /\ seen' = seen + 1
    /\ IF at \in DOMAIN predictions[seen']
         THEN /\ sum' = Plus(sum, predictions[seen'][at])
              /\ weight' = weight + 1
         ELSE UNCHANGED << sum, weight >>
    /\ UNCHANGED << strategy, pc, running, predictions, forecast, at, low, peak, rec >>

\* A step without weights stays 0.
EndStep ==
    /\ pc = "combine" /\ seen = Len(predictions)
    /\ forecast' = IF weight > 0
                     THEN [forecast EXCEPT ![at] = Over(Scaled(sum), weight)]
                     ELSE forecast
    /\ IF at < Horizon
         THEN StartStep(at + 1) /\ UNCHANGED pc
         ELSE pc' = "returned" /\ UNCHANGED loopVars
    /\ UNCHANGED << strategy, running, predictions, rec >>

-----------------------------------------------------------------------------
\* generateRecommendation

\* max is 0 at first, minForecast is the first value.
Analyze ==
    /\ pc = "returned"
    /\ pc' = "statistics"
    /\ at' = 0 /\ sum' = 0 /\ peak' = 0 /\ low' = forecast[1]
    /\ UNCHANGED << strategy, running, predictions, forecast, seen, weight, rec >>

\* One round of its two loops over the forecast, taken together.
ScanValue ==
    /\ pc = "statistics" /\ at < Len(forecast)
    /\ at' = at + 1
    /\ sum' = Plus(sum, forecast[at'])
    /\ \E higher \in Less(peak, forecast[at']) : peak' = IF higher THEN forecast[at'] ELSE peak
    /\ \E lower \in Less(forecast[at'], low) : low' = IF lower THEN forecast[at'] ELSE low
    /\ UNCHANGED << strategy, pc, running, predictions, forecast, seen, weight, rec >>

TargetUtilization == 65

\* The least integer that is not below a / b, for b > 0.
Ceil(a, b) == -((-a) \div b)

AtLeast(n, x) == IF x < n THEN n ELSE x

\* math.Ceil((v / 65) * size): the quotient has an error, so that one that is
\* an integer may come out above it and be rounded up to the next.
RoundedUp(v, size, d) ==
    IF v = NotFinite THEN {v} ELSE {Ceil(v * size, d), Ceil(v * size + 1, d)}

\* What a float64 that is an integer becomes as an int32.  Go leaves out of
\* range to the implementation: the least int32 on amd64, the nearest one on
\* arm64, and there 0 for NaN.
Int32(x) ==
    CASE x = NotFinite -> {-MaxInt - 1, 0, MaxInt}
      [] x # NotFinite /\ x > MaxInt -> {-MaxInt - 1, MaxInt}
      [] x # NotFinite /\ x < -MaxInt - 1 -> {-MaxInt - 1}
      [] OTHER -> {x}

Capacity(v, size, d) == UNION {Int32(x) : x \in RoundedUp(v, size, d)}

Unit == Scale * TargetUtilization

\* Mutant: the maximum is not raised to the recommended minimum.
SizesUnraised(lowest, total, n, highest, g) ==
    {[min |-> AtLeast(1, a), desired |-> AtLeast(1, b), max |-> c, current |-> g] :
        a \in Capacity(lowest, g.min, Unit), b \in Capacity(total, g.desired, n * Unit),
        c \in Capacity(highest, 12 * g.max, 10 * Unit)}

\* The sizes that may be recommended for a forecast of n values with this
\* lowest value, sum and peak.
Sizes(lowest, total, n, highest, g) ==
    {[min |-> AtLeast(1, a), desired |-> AtLeast(1, b),
      max |-> AtLeast(AtLeast(1, a), c), current |-> g] :
        a \in Capacity(lowest, g.min, Unit), b \in Capacity(total, g.desired, n * Unit),
        c \in Capacity(highest, 12 * g.max, 10 * Unit)}

\* The group is an argument of AnalyzeASG, first read here.
Recommend ==
    /\ pc = "statistics" /\ at = Len(forecast)
    /\ \E g \in Groups : rec' \in Sizes(low, sum, Len(forecast), peak, g)
    /\ pc' = "done"
    /\ UNCHANGED << strategy, running, predictions, forecast, loopVars >>

-----------------------------------------------------------------------------

Next ==
    \/ \E m \in Models : PredictModel(m) \/ PredictModelFails(m)
    \/ NoModelPredicted \/ BestModel
    \/ Combine \/ AddAnswer \/ EndStep
    \/ Analyze \/ ScanValue \/ Recommend

Spec == Init /\ [][Next]_vars

-----------------------------------------------------------------------------
\* Properties

\* The answers that have a step i.
Answering(i) == {k \in DOMAIN predictions : i \in DOMAIN predictions[k]}

\* All of them are finite.
Finite(i) == \A k \in Answering(i) : predictions[k][i] # NotFinite

\* Whoever fails or answers short, a step that some models predicted, and all
\* of these as a finite value, lies between the values of two of them as soon
\* as it is combined (ensemble.go:218-239), up to the error of the mean.
CombinationWithinModels ==
    \A i \in DOMAIN forecast :
        Answering(i) # {} /\ Finite(i) /\ (pc = "combine" => i < at)
            => \E lo, hi \in Answering(i) :
                   /\ forecast[i] # NotFinite
                   /\ Scale * predictions[lo][i] <= forecast[i]
                   /\ forecast[i] <= Scale * predictions[hi][i]

\* The forecast is finite, and the greatest quotient is an int32.
Representable ==
    /\ NotFinite \notin {low, sum, peak}
    /\ Ceil(peak * (12 * rec.current.max) + 1, 10 * Unit) <= MaxInt

\* The sizes are computed one by one (auto_scaling_advisor.go:162-183).  There
\* is at least one instance, and the maximum is not below the minimum, even
\* for a forecast of NaN or one that no int32 holds.  The desired size is
\* between them if the quotients can be represented, but for one case: if the
\* group had as many instances as its minimum, the minimum may be rounded up
\* once more than the desired size.
SizesOrdered ==
    pc = "done" =>
        /\ 1 <= rec.min /\ rec.min <= rec.max /\ 1 <= rec.desired
        /\ Representable =>
              /\ rec.desired <= rec.max
              /\ \/ rec.min <= rec.desired
                 \/ rec.current.min = rec.current.desired /\ rec.min = rec.desired + 1
=============================================================================
