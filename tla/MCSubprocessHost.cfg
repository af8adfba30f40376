SPECIFICATION Host
CONSTANTS
    echo = echo
    admin = admin
    primary = primary
    adminHost = adminHost
    c1 = c1
    c2 = c2
    Callers = {c1, c2}
    Plugins = {echo, admin}
    Hosts = {primary, adminHost}
    Route <- MCRoute
    EventPlugins = {echo}
    Admin = {admin}
    Definitions <- MCDefinitions
    Plain <- MCPlain
    Free = Free
    NoProcess = NoProcess
    RestartBudget = 2
    MaxRequests = 2
    MaxFaults = 1
INVARIANTS
    AnswersMatch
    HandledAtMostTwice
    BudgetHolds
    ConfigsSound
PROPERTIES
    Returns
CHECK_DEADLOCK FALSE
