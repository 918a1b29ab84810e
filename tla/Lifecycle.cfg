CONSTANTS
    job1 = job1
    job2 = job2
    req1 = req1
    req2 = req2
    Readiness = Readiness
    Jobs <- MCJobs
    HealthChecks <- MCHealthChecks
    Requests <- MCRequests
    MaxAttempts = 5
    MaxChanges = 2
SPECIFICATION FairSpec
INVARIANTS
    TypeOK
    JobsKeepPool
    RequestsLoseOnlyByTimeout
    OnePool
    ServedIsWired
PROPERTIES
    TermEnds
    StartDecides
CHECK_DEADLOCK FALSE
