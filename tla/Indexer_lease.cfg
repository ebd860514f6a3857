SPECIFICATION Spec
CONSTANTS
    r1 = r1
    r2 = r2
    p1 = p1
    p2 = p2
    Replica <- TwoReplicas
    Package <- OnePackage
    NoReplica = NoReplica
    NoPackage = NoPackage
    MaxAttempts = 1
    RefetchFlag = FALSE
    Retry = 1
    Interval = 1
    WorkMax = 1
    DbMax = 1
    MaxQueueErrors = 1
    MaxMissing = 1
    MaxFaults = 2
    MaxCrashes = 0
    MaxNotifies = 1
SYMMETRY Symmetry
INVARIANTS
    TypeOK
    OverlapIsBounded
PROPERTIES
    RecordedByLeader
    RecordedPassIsComplete
