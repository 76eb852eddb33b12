---------------------------- MODULE MCDelegation ----------------------------
(***************************************************************************)
(* Small instances of Delegation: a junior with one tool, a senior with a  *)
(* tool and a prefix and an admin with all tools; sub-agents that require  *)
(* a tool, a namespaced tool and one more, a tag, or nothing.              *)
(***************************************************************************)
EXTENDS Delegation, TLC

CONSTANTS
    eng, junior, senior, admin, ana, web_search, db_read, admin_only, db,
    SENIOR_ONLY, CARD, handbook, missing, search, data

MCLower      == [d \in {eng} |-> eng]
MCOrder      == [c \in {junior, senior, admin} |->
                    CASE c = junior -> 0 [] c = senior -> 2 [] OTHER -> 3]
MCStartsWith == {<<db_read, db>>}

Policy(all, tools, prefixes, tags, exempt) ==
    [allow_all_tools |-> all, allowed_tools |-> tools,
     allowed_tool_prefixes |-> prefixes, restricted_doc_tags |-> tags,
     masking_exempt_entities |-> exempt]

MCPolicies ==
    [c \in {junior, senior, admin} |->
        CASE c = junior -> Policy(FALSE, {web_search}, {}, {SENIOR_ONLY}, {})
          [] c = senior -> Policy(FALSE, {web_search}, {db}, {}, {CARD})
          [] OTHER      -> Policy(TRUE, {}, {}, {}, {CARD})]
MCDefault   == Policy(FALSE, {}, {}, {SENIOR_ONLY}, {})
MCOverrides == [k \in {} |-> k]
MCRegistry  ==
    [d \in {handbook} |-> [required_clearance |-> senior, required_department |-> Unset]]

MCUsers == [user_id : {ana}, department : {eng},
            clearance_level : {junior, senior, admin}]

Agent(tools, tags, topics) ==
    [required_tools |-> tools, required_doc_tags |-> tags, topic_keywords |-> topics]

MCSubAgents ==
    <<Agent({db_read, admin_only}, {}, {data}),
      Agent({web_search}, {}, {search}),
      Agent({db_read}, {SENIOR_ONLY}, {data, search}),
      Agent({}, {}, {data})>>

Ask(tools, refs, topics) == [tools |-> tools, refs |-> refs, topics |-> topics]

MCPayloads ==
    [tools  : SUBSET {web_search, db_read, admin_only},
     refs   : {{}, {handbook}},
     topics : {{search}, {data}}]
    \cup {Ask({NoName, db_read}, {}, {data}), Ask({}, {missing}, {data}),
          Ask({web_search}, {}, {})}

MCNarrowings ==
    {[tools |-> AsIs, prefixes |-> AsIs, exempt |-> AsIs],
     [tools |-> {web_search, admin_only}, prefixes |-> {}, exempt |-> AsIs],
     [tools |-> {db_read}, prefixes |-> {db}, exempt |-> {}],
     [tools |-> AsIs, prefixes |-> {}, exempt |-> {CARD}]}
=============================================================================
