\* One of two browsers may stop reading.
CONSTANTS
    Conns = {c1, c2}
    Published = 1
    InboxSize = 1
    CanStall = {c1}
SPECIFICATION FairSpec
PROPERTIES
    ReadersReceive
CHECK_DEADLOCK FALSE
