SPECIFICATION ReadsSpec
CONSTANTS
    r1 = r1
    u1 = u1
    u2 = u2
    ann = ann
    Ann = Ann
    amy = amy
    None = None
    UID <- TwoInvites
    Email <- TwoEmails
    EmailKey <- TwoKeys
    User <- NoUser
    Replica <- OneReplica
    RequestDays <- OneDay
    DefaultDays = 1
    MaxDays = 1
    Leeway = 1
    MaxAttempts = 3
    MaxTime = 0
    Faults = TRUE
    StaleReads = FALSE
    Crashes = FALSE
SYMMETRY InviteSymmetry
INVARIANTS
    QueryInv
    AcknowledgedIsReadable
    AnswerIsCurrent
