\* One replica that is deployed again and again, with one invite and one user.
SPECIFICATION DeploySpec
CONSTANTS
    r1 = r1
    u1 = u1
    ann = ann
    amy = amy
    None = None
    UID <- OneInvite
    Email <- OneEmail
    EmailKey <- OneKey
    User <- OneUser
    Replica <- OneReplica
    Process <- OneReplica
    RequestDays <- OneDay
    DefaultDays = 1
    MaxDays = 1
    Leeway = 0
    MaxAttempts = 1
    MaxTime = 0
    Faults = TRUE
    StaleReads = FALSE
    Crashes = TRUE
INVARIANTS
    DeployInv
    AllOrNothing
PROPERTIES
    NothingLeaks
    TeardownInOrder
    ServiceSpec
    DeploymentSettles
