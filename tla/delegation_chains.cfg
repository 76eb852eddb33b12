CONSTANTS
    eng = eng
    junior = junior
    senior = senior
    admin = admin
    ana = ana
    web_search = web_search
    db_read = db_read
    admin_only = admin_only
    db = db
    SENIOR_ONLY = SENIOR_ONLY
    CARD = CARD
    handbook = handbook
    missing = missing
    search = search
    data = data
    NoName = NoName
    Unset = Unset
    AsIs = AsIs
    Nothing = Nothing
    UserIds = {ana}
    Departments = {eng}
    Lower <- MCLower
    Clearances = {junior, senior, admin}
    ClearanceOrder <- MCOrder
    Tools = {web_search, db_read, admin_only}
    Prefixes = {db}
    StartsWith <- MCStartsWith
    Tags = {SENIOR_ONLY}
    Entities = {CARD}
    DocIds = {handbook, missing}
    policies <- MCPolicies
    default_policy <- MCDefault
    department_policies <- MCOverrides
    registry <- MCRegistry
    Users <- MCUsers
    Topics = {search, data}
    sub_agents <- MCSubAgents
    Payloads <- MCPayloads
    Narrowings <- MCNarrowings
    max_delegation_depth = 4
SPECIFICATION Spec
INVARIANTS
    WithinOrigin
    NarrowedIsServable
PROPERTIES
    NeverWidens
