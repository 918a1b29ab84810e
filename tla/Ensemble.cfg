CONSTANTS
    handler = handler
    advisor = advisor
    arima = arima
    prophet = prophet
    lstm = lstm
    Nobody = Nobody
    Callers <- MCCallers
    Models <- MCModels
    Strategies <- AllStrategies
SPECIFICATION FairSpec
INVARIANTS
    TypeOK
    ReadLockHeldInPredict
    JoinedBeforeUse
    VerdictIsRight
    OwnForecastAlone
PROPERTY CallReturns
CHECK_DEADLOCK FALSE
