SPECIFICATION Ingress
CONSTANTS
    p1 = p1
    p2 = p2
    m1 = m1
    c1 = c1
    c2 = c2
    Callers = {c1, c2}
    Order <- MCOrder
    Handles <- MCHandles
    Declares <- MCDeclares
    Scopes <- MCScopes
    MessageIDs <- MCMessageIDs
    NoID = NoID
    NoPlugin = NoPlugin
    NoSnapshot = NoSnapshot
    Messages <- MCMessages
    Direct <- MCDirect
    Grantings <- MCGrantings
    MaxRequests = 2
    MaxChanges = 1
    MaxFaults = 1
SYMMETRY MCCallerSymmetry
INVARIANTS
    KeysAreEarned
    AnsweredIsFinal
    CalledWhileAllowed
    SnapshotsAreSound
    ReplaysAreTrue
CHECK_DEADLOCK FALSE
