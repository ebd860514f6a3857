SPECIFICATION FairSpec
CONSTANTS
    p1 = p1
    p2 = p2
    r1 = r1
    w1 = w1
    w2 = w2
    PullTask <- OnePull
    ReindexTask <- OneReindex
    Worker <- TwoWorkers
    NoTask = NoTask
    MaxAttempts = 2
    TaskTimeout = 2
    StaleAfter = 4
    ReplyDelay = 1
    SettleDelay = 1
    Prompt = TRUE
    MaxFaults = 1
    MaxRefetches = 1
    MaxClaims = 10
INVARIANTS
    OverlapOnlyByRefetch
PROPERTIES
    ImplementsBoard
    EveryTaskSettles
