SPECIFICATION SchedulerSpec
CONSTANTS
    s1 = s1
    s2 = s2
    ScheduleIDs <- MCOneID
    Plans <- MCPlans
    CronNext <- MCCronNext
    NoPlan = NoPlan
    NoItem = NoItem
    HandlerErrors = FALSE
    MaxTime = 2
    MaxRegistrations = 2
    MaxFaults = 0
INVARIANTS
    RemovedOnlyAfterDispatch
CHECK_DEADLOCK FALSE
