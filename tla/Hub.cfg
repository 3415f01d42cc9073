\* Two browsers that come and go, one of which may stall, though not for ever
\* where a property has that as its premise.
CONSTANTS
    Conns = {c1, c2}
    Published = 2
    InboxSize = 1
    CanStall = {c1}
SPECIFICATION FairSpec
INVARIANTS
    TypeOK
    GaugeMatches
    NothingLeaks
PROPERTIES
    ImplementsFanout
    GoneIsForgotten
    UpdatesGoOut
    ReadersReceiveUnlessStalled
CHECK_DEADLOCK FALSE
