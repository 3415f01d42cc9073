\* Connections break, the process crashes, the group rebalances.
CONSTANTS
    Events = 3
    Malformed = {2}
    Untyped = {3}
    MaxRetries = 1
    MaxBreaks = 3
    MaxCrashes = 2
    MaxRebalances = 1
SPECIFICATION FairSpec
INVARIANTS
    TypeOK
    LossBound
    DuplicateBound
    ExactWhenCalm
    CommitsFollowReads
    EveryMessageCounted
PROPERTIES
    CommitsNeverRetreat
    EverythingAggregated
CHECK_DEADLOCK FALSE
