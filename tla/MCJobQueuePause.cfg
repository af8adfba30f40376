SPECIFICATION Spec
CONSTANTS
    j1 = j1
    j2 = j2
    c1 = c1
    JobIDs <- MCJobIDs
    Callers <- MCCallers
    Errors <- MCErrors
    RetryBudgets <- MCRetryBudgets
    WorkerID = "worker"
    NoJob = NoJob
    NoCall = NoCall
    LeaseTTL = 1
    MaxTime = 1
    MaxRevivals = 1
PROPERTIES
    PauseHolds
