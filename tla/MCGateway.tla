----------------------------- MODULE MCGateway -----------------------------
(***************************************************************************)
(* Small instances of Gateway: a cut of app/policy/permissions.yaml with   *)
(* one passage only seniors see, one the HR override restricts for HR      *)
(* seniors, the HR seniors' card exemption, a namespaced tool and a        *)
(* document of the HR department.                                          *)
(***************************************************************************)
EXTENDS GatewayInvariant, TLC

CONSTANTS
    eng, hr, HR, junior, senior, ana, hal, web_search, db_write, db,
    SENIOR_ONLY, PEER_COMP, CARD, MONEY, handbook, missing, t1, q1, q2,
    r1, r2, r3

MCDepartments == {eng, hr, HR}
MCLower       == [d \in MCDepartments |-> IF d = HR THEN hr ELSE d]
MCOrder       == [c \in {junior, senior} |-> IF c = junior THEN 0 ELSE 2]
MCStartsWith  == {<<db_write, db>>}

Policy(tools, prefixes, tags) ==
    [allow_all_tools |-> FALSE, allowed_tools |-> tools,
     allowed_tool_prefixes |-> prefixes, restricted_doc_tags |-> tags,
     masking_exempt_entities |-> {}]

MCPolicies ==
    [c \in {junior, senior} |->
        IF c = junior THEN Policy({web_search}, {}, {SENIOR_ONLY})
                      ELSE Policy({web_search}, {db}, {})]
MCDefault  == Policy({web_search}, {}, {SENIOR_ONLY})

MCOverrides ==
    [k \in {<<hr, senior>>} |->
        [additional_restricted_doc_tags     |-> {PEER_COMP},
         additional_masking_exempt_entities |-> {CARD}]]

MCRegistry ==
    [d \in {handbook} |-> [required_clearance |-> senior, required_department |-> hr]]

\* q2 is a rephrasing of q1.
MCScore == [p \in {q1, q2} \X {q1, q2} |-> IF p[1] = p[2] THEN 100 ELSE 95]

Ana == [user_id |-> ana, department |-> eng, clearance_level |-> junior]
Hal == [user_id |-> hal, department |-> HR, clearance_level |-> senior]

Chat(user, items, query) ==
    [user |-> user, depth |-> 0, trace |-> t1, body |-> "chat", tools |-> {},
     items |-> items, refs |-> {}, query |-> query, flagged |-> FALSE]

Plain == Chat(Ana, {}, q2)

\* Every way through the handler, one call at a time or two.
AllCalls ==
    {Chat(Ana, {SENIOR_ONLY, CARD}, q1),
     Chat(Hal, {SENIOR_ONLY, CARD}, q1),
     [Chat(Hal, {PEER_COMP}, q2) EXCEPT !.trace = NoTrace],
     [Chat(Hal, {}, q1) EXCEPT !.refs = {handbook}],
     [Chat(Ana, {}, q1) EXCEPT !.refs = {handbook, missing}],
     [Plain EXCEPT !.tools = {db_write}],
     [Plain EXCEPT !.tools = {db_write, web_search, NoName}],
     [Plain EXCEPT !.body = "none"],
     [Plain EXCEPT !.body = "malformed"],
     [Plain EXCEPT !.body = "unscanned", !.items = {CARD}, !.query = NoQuery],
     [Plain EXCEPT !.flagged = TRUE],
     [Plain EXCEPT !.user = NoUser],
     [Plain EXCEPT !.depth = 1]}

\* The calls that share cached answers.
SharingCalls ==
    {Chat(Ana, {SENIOR_ONLY}, q1), Chat(Hal, {SENIOR_ONLY, CARD}, q1)}

AllShapes     == Kinds \X {TRUE}
ChoicesOnly   == {<<"choices", TRUE>>}
AnyStatus     == {"choices"} \X BOOLEAN
TextShapes    == {"choices", "malformed", "opaque"} \X {TRUE}

Symmetry == Permutations(Requests)
=============================================================================
