CONSTANTS
    t1 = t1
    NoTrace = NoTrace
    Traces = {t1}
    MaxCalls = 3
    MaxDelegationDepth = 2
    ChainMax = 2
    ChainWindow = 3
    Delay = 1
    MaxConnections = 2
    Timeout = 2
    ConnectTimeout = 1
    MaxParts = 1
SPECIFICATION Spec
INVARIANTS
    FanOutCaught
CHECK_DEADLOCK FALSE
