SPECIFICATION Spec
CONSTANTS
    r1 = r1
    r2 = r2
    u1 = u1
    u2 = u2
    ann = ann
    Ann = Ann
    amy = amy
    bob = bob
    None = None
    UID <- OneInvite
    Email <- OneEmail
    EmailKey <- OneKey
    User <- OneUser
    Replica <- OneReplica
    RequestDays <- OneDay
    DefaultDays = 1
    MaxDays = 2
    Leeway = 1
    MaxAttempts = 3
    MaxTime = 1
    Faults = FALSE
    StaleReads = FALSE
    Crashes = FALSE

PROPERTY
    AcceptedIsKept
