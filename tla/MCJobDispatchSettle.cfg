SPECIFICATION FairDispatch
CONSTANTS
    j1 = j1
    c1 = c1
    c2 = c2
    JobIDs <- MCJobIDs
    Callers <- MCCallers
    Errors <- MCErrors
    RetryBudgets <- MCRetryBudgets
    WorkerID = "worker"
    NoJob = NoJob
    NoCall = NoCall
    NoID = NoID
    LeaseTTL = 1
    MaxTime = 1
    MaxRevivals = 1
    StoreErrors = FALSE
    Disconnects = FALSE
    HostFailures = FALSE
INVARIANTS
    RunningIsExecuted
PROPERTIES
    JobsSettle
