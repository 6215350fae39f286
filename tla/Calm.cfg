SPECIFICATION FairSpec
CONSTANTS
    r1 = r1
    r2 = r2
    u1 = u1
    u2 = u2
    ann = ann
    Ann = Ann
    amy = amy
    bob = bob
    None = None
    UID <- OneInvite
    Email <- OneEmail
    EmailKey <- OneKey
    User <- TwoUsers
    Replica <- TwoReplicas
    RequestDays <- OneDay
    DefaultDays = 1
    MaxDays = 1
    Leeway = 1
    MaxAttempts = 3
    MaxTime = 1
    Faults = FALSE
    StaleReads = FALSE
    Crashes = FALSE
INVARIANTS
    AcceptedIsAnnounced
PROPERTIES
    DroppedMeansPending
    AcceptanceAnnounced
