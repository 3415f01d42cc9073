\* One user, three calls, a connection that breaks, scores rounded to even ticks.
CONSTANTS
    Requests = {r1, r2, r3}
    Lossy = {r1}
    Limit = 1
    Window = 4
    Quantum = 2
    MaxRetries = 1
    MaxClock = 6
    Whole = TRUE
SYMMETRY Symmetry
SPECIFICATION Spec
INVARIANTS
    TypeOK
    WindowBound
    RejectionJustified
    SilenceRestoresQuota
    KeyLifetime
