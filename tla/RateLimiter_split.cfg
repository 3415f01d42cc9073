\* Redis executes the pipelines of two calls alternately.
CONSTANTS
    Requests = {r1, r2}
    Lossy = {}
    Limit = 1
    Window = 2
    Quantum = 1
    MaxRetries = 0
    MaxClock = 2
    Whole = FALSE
SYMMETRY Symmetry
SPECIFICATION Spec
INVARIANTS
    SilenceRestoresQuota
