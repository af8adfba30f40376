SPECIFICATION Spec
CONSTANTS
    s1 = s1
    c1 = c1
    c2 = c2
    Sessions <- MCSessions
    MaxRuns = 1
    Callers <- MCCallers
    Steps <- MCSteps
    Faults = FALSE
INVARIANTS
    OutcomeResumesWorkflow
CHECK_DEADLOCK FALSE
