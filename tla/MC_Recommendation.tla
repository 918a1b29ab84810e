------------------------- MODULE MC_Recommendation -------------------------
(* Instances of Recommendation for TLC. *)
EXTENDS Recommendation, TLC

CONSTANTS arima, prophet, lstm

MCModels == {arima, prophet, lstm}

\* An idle host, one at its target and one far above; a model may also
\* extrapolate below zero.
MCLevels == {-10, 0, 65, 98}

Group(min, desired, max) == [min |-> min, desired |-> desired, max |-> max]

\* Far enough from 7, the greatest int32 here, and beyond it.
MCGroups == {Group(0, 0, 0), Group(1, 1, 1), Group(1, 3, 10), Group(4, 4, 5), Group(5, 5, 6)}

MCStrategies == {"weighted_average", "best_model"}

\* A model's name matters to its goroutine alone.
ModelSymmetry == Permutations(Models)
=============================================================================
