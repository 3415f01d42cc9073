\* One crash, nothing else fails.
CONSTANTS
    Events = 2
    Malformed = {1}
    Untyped = {}
    MaxRetries = 1
    MaxBreaks = 0
    MaxCrashes = 1
    MaxRebalances = 0
SPECIFICATION Spec
INVARIANTS
    NoLossInCrash
CHECK_DEADLOCK FALSE
