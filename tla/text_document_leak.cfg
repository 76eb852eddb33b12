CONSTANTS
    eng = eng
    hr = hr
    junior = junior
    senior = senior
    ana = ana
    hal = hal
    eve = eve
    SENIOR_ONLY = SENIOR_ONLY
    PEER_COMP = PEER_COMP
    handbook = handbook
    missing = missing
    NoName = NoName
    Unset = Unset
    UserIds = {ana, hal, eve}
    Departments = {eng, hr}
    Lower <- MCLower
    Clearances = {junior, senior}
    ClearanceOrder <- MCOrder
    Tools = {}
    Prefixes = {}
    StartsWith = {}
    Tags = {SENIOR_ONLY, PEER_COMP}
    Entities = {"BANK_CARD_NUMBER", "CREDIT_CARD"}
    DocIds = {handbook, missing}
    policies <- MCPolicies
    default_policy <- MCDefault
    department_policies <- MCOverrides
    registry <- MCRegistry
    ListedTags <- MCListed
    SortedTags <- MCSorted
    DocumentText <- MCDocumentText
    ScoreThreshold = 40
    BlockThreshold = 85
    PredefinedCards <- MCPredefined
    AnalyzerOrder <- MCAnalyzerOrder
    CardNumbers <- MCCards
    Parts <- CitingPrompts
SPECIFICATION Spec
INVARIANTS
    DocumentsNeverLogged
CHECK_DEADLOCK FALSE
