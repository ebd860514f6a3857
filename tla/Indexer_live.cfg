SPECIFICATION FairSpec
CONSTANTS
    r1 = r1
    r2 = r2
    p1 = p1
    p2 = p2
    Replica <- TwoReplicas
    Package <- OnePackage
    NoReplica = NoReplica
    NoPackage = NoPackage
    MaxAttempts = 2
    RefetchFlag = TRUE
    Retry = 1
    Interval = 2
    WorkMax = 1
    DbMax = 0
    MaxQueueErrors = 1
    MaxMissing = 0
    MaxFaults = 1
    MaxCrashes = 1
    MaxNotifies = 0
INVARIANTS
    SingleIndexer
PROPERTIES
    IndexStaysFresh
    EveryVersionSettles
    DiscoveryIsPaced
