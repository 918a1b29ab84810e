CONSTANTS
    job1 = job1
    job2 = job2
    req1 = req1
    req2 = req2
    Readiness = Readiness
    Jobs <- NoneAtAll
    HealthChecks <- NoneAtAll
    Requests <- NoneAtAll
    MaxAttempts = 5
    MaxChanges = 2
SPECIFICATION FairSpec
PROPERTY ReadyWhenDependenciesAre
CHECK_DEADLOCK FALSE
