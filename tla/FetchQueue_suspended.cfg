SPECIFICATION Spec
CONSTANTS
    p1 = p1
    p2 = p2
    r1 = r1
    w1 = w1
    w2 = w2
    PullTask <- OnePull
    ReindexTask <- NoReindex
    Worker <- TwoWorkers
    NoTask = NoTask
    MaxAttempts = 3
    TaskTimeout = 2
    StaleAfter = 3
    ReplyDelay = 1
    SettleDelay = 1
    Prompt = FALSE
    MaxFaults = 2
    MaxRefetches = 2
    MaxClaims = 4
SYMMETRY Symmetry
INVARIANTS
    TypeOK
    AttemptsAgreeWithStatus
    ClaimsAreUnique
PROPERTIES
    RefetchIsNotLost
    OnlyNewestClaimSettles
