SPECIFICATION FairSpec
CONSTANTS
    r1 = r1
    r2 = r2
    p1 = p1
    p2 = p2
    Replica <- OneReplica
    Package <- OnePackage
    NoReplica = NoReplica
    NoPackage = NoPackage
    MaxAttempts = 1
    RefetchFlag = FALSE
    Retry = 1
    Interval = 2
    WorkMax = 1
    DbMax = 1
    MaxQueueErrors = 1
    MaxMissing = 0
    MaxFaults = 0
    MaxCrashes = 1
    MaxNotifies = 0
PROPERTIES
    DiscoveryOncePerInterval
