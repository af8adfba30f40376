SPECIFICATION Control
CONSTANTS
    echo = echo
    admin = admin
    job = job
    op = op
    keeper = keeper
    b1 = b1
    b2 = b2
    b3 = b3
    v0 = v0
    v1 = v1
    c1 = c1
    c2 = c2
    None = None
    Builds = {b1, b2, b3}
    Contracts = {v0, v1}
    Contract <- MCContract
    Calls = {c1, c2}
    Plugins = {echo, admin}
    Admin = admin
    Candidates = {echo}
    Resources = {job}
    Actors = {op}
    Roles = {keeper}
    Configurations <- MCConfigurations
    Requests <- MCRequests
    MaxRequests = 3
    Releases <- MCReleases
    MaxEvents = 4
SYMMETRY MCSymmetry
INVARIANTS
    RolloutsAreSound
    AuditsAreTrue
    RevocationsHold
PROPERTIES
    ActivatedAsPrepared
CHECK_DEADLOCK FALSE
