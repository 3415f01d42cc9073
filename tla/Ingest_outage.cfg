\* The broker is down for a while and comes back.
CONSTANTS
    p1 = p1
    Requests = {r1, r2}
    Partitions = {p1}
    PartitionOf <- OnePartition
    BatchSize = 2
    MaxAttempts = 2
    MaxOutages = 1
    MaxLosses = 0
    MaxCrashes = 0
SPECIFICATION FairSpec
PROPERTIES
    AcceptedIsPublished
CHECK_DEADLOCK FALSE
