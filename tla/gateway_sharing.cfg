CONSTANTS
    eng = eng
    hr = hr
    HR = HR
    junior = junior
    senior = senior
    ana = ana
    hal = hal
    web_search = web_search
    db_write = db_write
    db = db
    SENIOR_ONLY = SENIOR_ONLY
    PEER_COMP = PEER_COMP
    CARD = CARD
    MONEY = MONEY
    handbook = handbook
    missing = missing
    t1 = t1
    q1 = q1
    q2 = q2
    r1 = r1
    r2 = r2
    r3 = r3
    NoName = NoName
    Unset = Unset
    NoUser = NoUser
    NoTrace = NoTrace
    NoQuery = NoQuery
    NoCall = NoCall
    UserIds = {ana, hal}
    Departments <- MCDepartments
    Lower <- MCLower
    Clearances = {junior, senior}
    ClearanceOrder <- MCOrder
    Tools = {web_search, db_write}
    Prefixes = {db}
    StartsWith <- MCStartsWith
    Tags = {SENIOR_ONLY, PEER_COMP}
    Entities = {CARD, MONEY}
    DocIds = {handbook, missing}
    policies <- MCPolicies
    default_policy <- MCDefault
    department_policies <- MCOverrides
    registry <- MCRegistry
    Requests = {r1, r2}
    Calls <- SharingCalls
    Traces = {t1}
    Queries = {q1, q2}
    Score <- MCScore
    SimilarityThreshold = 92
    MaxDelegationDepth = 1
    ChainMax = 1
    UserMax = 1
    BlockInjection = TRUE
    CacheEnabled = TRUE
    EntitiesToMask = {CARD}
    PersistedEntities = {CARD, MONEY}
    UpstreamEntities = {MONEY}
    ReplyShapes <- TextShapes
SPECIFICATION FairSpec
INVARIANTS
    PersistedViewGuarantee
    ServedWithinClearance
    UsageBound
PROPERTIES
    EveryCallEnds
CHECK_DEADLOCK FALSE
