SPECIFICATION FairScheduler
CONSTANTS
    s1 = s1
    s2 = s2
    ScheduleIDs <- MCOneID
    Plans <- MCPlans
    CronNext <- MCCronNext
    NoPlan = NoPlan
    NoItem = NoItem
    HandlerErrors = TRUE
    MaxTime = 2
    MaxRegistrations = 2
    MaxFaults = 2
INVARIANTS
    PlansMatchTable
    ClaimsAreLive
    CancelledInTime
    SchedulerInvariant
PROPERTIES
    OncePerLife
    PlansAreTaken
    ImplementsAgenda
CHECK_DEADLOCK FALSE
