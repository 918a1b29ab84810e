CONSTANTS
    Gatherers <- MCGatherers
    Databases <- MCDatabases
    MaxAttempts = 2
    MaxSamples = 3
    MaxFaults = 1
SPECIFICATION FairSpec
INVARIANTS
    TypeOK
    WholeSamples
    AttemptJustified
    StoredOncePerFiring
PROPERTIES
    CollectReturns
    ImplementsSampleStore
CHECK_DEADLOCK FALSE
