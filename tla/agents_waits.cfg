CONSTANTS
    t1 = t1
    NoTrace = NoTrace
    Traces = {}
    MaxCalls = 3
    MaxDelegationDepth = 1
    ChainMax = 2
    ChainWindow = 1
    Delay = 1
    MaxConnections = 2
    Timeout = 2
    ConnectTimeout = 1
    MaxParts = 1
SPECIFICATION FairSpec
PROPERTIES
    EveryHopEnds
CHECK_DEADLOCK FALSE
