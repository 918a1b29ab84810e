CONSTANTS
    collect = collect
    train = train
    health = health
    r1 = r1
    r2 = r2
    r3 = r3
    NoJob = NoJob
    Jobs <- MCJobs
    PlainJobs <- MCPlain
    Overlapping <- MCOverlap
    Runs <- MCRuns
    MaxRetries = 2
    MaxFires = 4
SPECIFICATION Spec
SYMMETRY RunSymmetry
PROPERTY AlertMeansConsistentFailure
CHECK_DEADLOCK FALSE
