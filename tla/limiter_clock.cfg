CONSTANTS
    a1 = a1
    a2 = a2
    a3 = a3
    a4 = a4
    a5 = a5
    Attempts = {a1, a2, a3, a4, a5}
    window_seconds = 3
    max_requests = 2
    Delay = 1
    MaxTime = 7
SPECIFICATION Spec
INVARIANTS
    IInv
    LimitedPerWindow
    RefusedUnderLoad
PROPERTIES
    ImplementsLimiter
SYMMETRY Symmetry
CHECK_DEADLOCK FALSE
