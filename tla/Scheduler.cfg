CONSTANTS
    collect = collect
    train = train
    health = health
    r1 = r1
    r2 = r2
    r3 = r3
    NoJob = NoJob
    Jobs <- MCJobs
    PlainJobs <- MCPlain
    Overlapping <- MCOverlap
    Runs <- MCRuns
    MaxRetries = 2
    MaxFires = 4
SPECIFICATION FairSpec
INVARIANTS
    TypeOK
    GaugeCountsRuns
PROPERTIES
    AlertExactAlone
    ImplementsStreak
    ImplementsJobService
    RunReturns
    StopReturns
CHECK_DEADLOCK FALSE
