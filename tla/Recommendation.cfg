CONSTANTS
    arima = arima
    prophet = prophet
    lstm = lstm
    Models <- MCModels
    Horizon = 2
    Levels <- MCLevels
    NotFinite = NotFinite
    Scale = 6
    MaxInt = 7
    Groups <- MCGroups
    Strategies <- MCStrategies
SPECIFICATION Spec
SYMMETRY ModelSymmetry
INVARIANTS
    CombinationWithinModels
    SizesOrdered
CHECK_DEADLOCK FALSE
