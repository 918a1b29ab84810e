CONSTANTS
    handler = handler
    advisor = advisor
    arima = arima
    prophet = prophet
    lstm = lstm
    Nobody = Nobody
    Callers <- MCCallers
    Models <- MCModels
    Strategies <- OnlyDynamic
SPECIFICATION FairSpec
PROPERTY DynamicPredictReturns
CHECK_DEADLOCK FALSE
