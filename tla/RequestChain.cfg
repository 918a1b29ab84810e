CONSTANTS
    q1 = q1
    q2 = q2
    Requests <- MCRequests
    Inputs <- MCInputs
SPECIFICATION Spec
SYMMETRY RequestSymmetry
INVARIANTS
    TypeOK
    GaugeCountsActive
    CountersMatchAnswers
    ForecastsCountedOnce
CHECK_DEADLOCK FALSE
