---------------------------- MODULE MC_Ensemble ----------------------------
(* Instances of Ensemble for TLC. *)
EXTENDS Ensemble, TLC

CONSTANTS handler, advisor, arima, prophet, lstm

MCCallers == {handler, advisor}
MCModels == {arima, prophet}
AllStrategies == {"weighted_average", "best_model", Dynamic}
OnlyDynamic == {Dynamic}
=============================================================================
