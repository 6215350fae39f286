\* One invite, two replicas, two users; the bucket may fail, time out and apply
\* a write late, and the replicas may stop at any point.
SPECIFICATION Spec
CONSTANTS
    r1 = r1
    r2 = r2
    u1 = u1
    u2 = u2
    ann = ann
    Ann = Ann
    amy = amy
    bob = bob
    None = None
    UID <- OneInvite
    Email <- OneEmail
    EmailKey <- OneKey
    User <- TwoUsers
    Replica <- TwoReplicas
    RequestDays <- OneDay
    DefaultDays = 2
    MaxDays = 2
    Leeway = 1
    MaxAttempts = 3
    MaxTime = 1
    Faults = TRUE
    StaleReads = FALSE
    Crashes = TRUE
SYMMETRY ReplicaSymmetry
INVARIANTS
    Inv
    ServiceInv
    FailClosedPersist
    
    AtMostOneAnnouncement
    AnnouncementCarriesWinner
    AcceptedWithEvidence
PROPERTIES
    WithdrawnStaysGone
    FirstAcceptanceWins
    LedgerSpec
