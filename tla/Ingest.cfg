\* Two requests, two outages, two crashes, a batch the broker loses.
CONSTANTS
    p1 = p1
    Requests = {r1, r2}
    Partitions = {p1}
    PartitionOf <- OnePartition
    BatchSize = 2
    MaxAttempts = 2
    MaxOutages = 2
    MaxLosses = 1
    MaxCrashes = 2
SPECIFICATION FairSpec
INVARIANTS
    TypeOK
    MetricsBalance
    RefusedStaysOut
    UserOrder
PROPERTIES
    LossNeedsFailure
CHECK_DEADLOCK FALSE
