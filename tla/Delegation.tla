----------------------------- MODULE Delegation -----------------------------
(***************************************************************************)
(* One path down a delegation tree: the manifest built from a user's       *)
(* policy is handed from agent to sub-agent by route_delegation, or        *)
(* narrowed directly, and each agent on the path may ask for what it       *)
(* likes.  Manifests are frozen, so what one branch does never reaches     *)
(* another, and one path stands for the tree.                              *)
(***************************************************************************)
EXTENDS Policy, Sequences

CONSTANTS
    Users,                  \* the verified identities a tree starts from
    Topics,                 \* topic keywords
    sub_agents,             \* list of SubAgentSpecs, in the order they are tried
    Payloads,               \* requests an agent can make
    Narrowings,             \* arguments of direct calls of narrow()
    max_delegation_depth,
    AsIs,                   \* an argument of narrow() that is None
    Nothing                 \* no manifest, no payload

SubAgentSpec ==
    [required_tools    : SUBSET Tools,
     required_doc_tags : SUBSET Tags,
     topic_keywords    : SUBSET Topics]

(* topics: the keywords found in the last user message. *)
Payload ==
    [tools : SUBSET ToolDefs, refs : SUBSET DocIds, topics : SUBSET Topics]

Narrowing ==
    [tools    : {AsIs} \cup SUBSET Tools,
     prefixes : {AsIs} \cup SUBSET Prefixes,
     exempt   : {AsIs} \cup SUBSET Entities]

CapabilityManifest ==
    [origin_user_id          : UserIds,
     department              : Departments,
     clearance_level         : Clearances,
     allow_all_tools         : BOOLEAN,
     allowed_tools           : SUBSET Tools,
     allowed_tool_prefixes   : SUBSET Prefixes,
     restricted_doc_tags     : SUBSET Tags,
     masking_exempt_entities : SUBSET Entities,
     max_delegate_depth      : Nat,
     depth                   : Nat]

ASSUME DelegationAssumption ==
    /\ Users \subseteq UserContext
    /\ sub_agents \in Seq(SubAgentSpec)
    /\ Payloads \subseteq Payload
    /\ Narrowings \subseteq Narrowing
    /\ max_delegation_depth \in Nat
    /\ Nothing \notin CapabilityManifest

VARIABLES
    user,       \* who the tree started from
    manifest,   \* of the agent at the end of the path
    payload,    \* what that agent was handed
    action      \* DelegationDecision.action of the last decision

vars == <<user, manifest, payload, action>>

-----------------------------------------------------------------------------
can_see_doc_tag(m, tag) == tag \notin m.restricted_doc_tags

\* Mutation: a chain may reach the ceiling itself.
can_delegate_to_ceiling(m) == m.depth < m.max_delegate_depth

can_delegate_further(m) == m.depth + 1 < m.max_delegate_depth

\* Mutation: the tools asked for are granted.
next_tools_granted(m, tools) == IF tools = AsIs THEN m.allowed_tools ELSE tools

next_tools(m, tools) ==
    IF tools = AsIs THEN m.allowed_tools ELSE {t \in tools : can_use_tool(m, t)}

(* What narrow() returns when it does not raise. *)
narrow(m, args) ==
    [m EXCEPT
       !.allowed_tools = next_tools(m, args.tools),
       !.allowed_tool_prefixes =
           IF args.prefixes = AsIs THEN @ ELSE args.prefixes \cap @,
       !.masking_exempt_entities =
           IF args.exempt = AsIs THEN @ ELSE args.exempt \cap @,
       !.depth = @ + 1]

try_narrow(spec, m) ==
    narrow(m, [tools    |-> IF spec.required_tools = {} THEN AsIs
                                                         ELSE spec.required_tools,
               prefixes |-> AsIs,
               exempt   |-> AsIs])

-----------------------------------------------------------------------------
(* route_delegation. *)

permitted(m, p) == preflight_permitted(m, p.tools, p.refs)

candidates(p) ==
    {i \in DOMAIN sub_agents :
        \/ sub_agents[i].topic_keywords = {}
        \/ sub_agents[i].topic_keywords \cap p.topics # {}}

tags_ok(spec, m) == \A t \in spec.required_doc_tags : can_see_doc_tag(m, t)

manifest_supports_spec(spec, m) ==
    /\ \A t \in spec.required_tools : can_use_tool(m, t)
    /\ tags_ok(spec, m)

(* The sub-agents said to cover the request fully. *)
covering(m, p) ==
    IF usable_tools(m, p.tools) = requested_tool_names(p.tools)
    THEN {i \in candidates(p) : manifest_supports_spec(sub_agents[i], m)}
    ELSE {}

\* Mutation: a sub-agent need not share a tool with the request.
narrowable_by_tags(m, p) == {i \in candidates(p) : tags_ok(sub_agents[i], m)}

narrowable(m, p) ==
    {i \in candidates(p) :
        LET spec == sub_agents[i]
        IN  /\ tags_ok(spec, m)
            /\ \/ spec.required_tools = {}
               \/ spec.required_tools \cap usable_tools(m, p.tools) # {}}

\* Mutation: the tools the manifest does not permit stay in the payload.
strip_no_tools(m, p) == p

strip_unpermitted_tools(m, p) == [p EXCEPT !.tools = usable_tools(m, @)]

First(i, indices) == i \in indices /\ \A j \in indices : i <= j

Routable(p) ==
    /\ permitted(manifest, p)
    /\ can_delegate_further(manifest)

\* An agent passes on what it was handed, or asks for something of its own.
Asks == Payloads \cup {payload}

-----------------------------------------------------------------------------
Init ==
    /\ user \in Users
    /\ manifest = Nothing
    /\ payload = Nothing
    /\ action = "none"

(* The gateway resolves the manifest of a verified identity, once. *)
Resolve(p) ==
    /\ manifest = Nothing
    /\ manifest' = build_capability_manifest(user, max_delegation_depth)
    /\ payload' = p
    /\ UNCHANGED <<user, action>>

Delegate(p) ==
    /\ manifest # Nothing
    /\ Routable(p)
    /\ \E i \in DOMAIN sub_agents :
          /\ First(i, covering(manifest, p))
          /\ manifest' = try_narrow(sub_agents[i], manifest)
    /\ payload' = p
    /\ action' = "delegate"
    /\ UNCHANGED user

DelegateNarrowed(p) ==
    /\ manifest # Nothing
    /\ Routable(p)
    /\ covering(manifest, p) = {}
    /\ \E i \in DOMAIN sub_agents :
          /\ First(i, narrowable(manifest, p))
          /\ manifest' = try_narrow(sub_agents[i], manifest)
    /\ payload' = strip_unpermitted_tools(manifest, p)
    /\ action' = "delegate_narrowed"
    /\ UNCHANGED user

(* Nothing usable, too deep, no topic or no capability match: the agent    *)
(* keeps what it has and may ask again.                                    *)
Deny(p) ==
    /\ manifest # Nothing
    /\ \/ ~Routable(p)
       \/ covering(manifest, p) = {} /\ narrowable(manifest, p) = {}
    /\ action' = "deny"
    /\ UNCHANGED <<user, manifest, payload>>

(* A direct call of narrow(), for a sub-agent chosen in another way. *)
Narrow(args) ==
    /\ manifest # Nothing
    /\ can_delegate_further(manifest)
    /\ manifest' = narrow(manifest, args)
    /\ action' = "none"
    /\ UNCHANGED <<user, payload>>

Next ==
    \/ \E p \in Payloads : Resolve(p)
    \/ \E p \in Asks : Delegate(p) \/ DelegateNarrowed(p) \/ Deny(p)
    \/ \E args \in Narrowings : Narrow(args)

Spec == Init /\ [][Next]_vars

-----------------------------------------------------------------------------
TypeOK ==
    /\ user \in Users
    /\ manifest \in {Nothing} \cup CapabilityManifest
    /\ payload \in {Nothing} \cup Payload
    /\ manifest # Nothing => payload \in Payload
    /\ action \in {"none", "deny", "delegate", "delegate_narrowed"}
    /\ manifest = Nothing => action = "none"

Usable(m) == {t \in Tools : can_use_tool(m, t)}

(* The other way to read the user's policy: the filter of the gateway. *)
Origin == [tools  |-> filter_tools(Tools, user),
           exempt |-> get_masking_exempt_entities(user),
           tags   |-> policy_of(user).restricted_doc_tags]

(* README.md:65, "closing the risk of a sub-agent ending up with more      *)
(* access than the human who originally asked": however long the path, the *)
(* agent at its end can use no tool the gateway would filter from its      *)
(* user, is exempt from no masking its user is not, sees no tag and no     *)
(* document its user does not, and what it was delegated names no tool its *)
(* user may not use (manifest.py:41-78, delegation.py:83-148).             *)
WithinOrigin ==
    manifest # Nothing =>
        /\ Usable(manifest) \subseteq Origin.tools
        /\ manifest.masking_exempt_entities \subseteq Origin.exempt
        /\ manifest.restricted_doc_tags = Origin.tags
        /\ \A d \in DOMAIN registry :
              is_authorized(d, manifest) <=> is_authorized(d, user)
        /\ action \in {"delegate", "delegate_narrowed"} =>
              requested_tool_names(payload.tools) \subseteq Origin.tools

(* A hop takes access away or leaves it, and brings the ceiling one nearer *)
(* (manifest.py:41-78).                                                    *)
HopNarrows ==
    /\ manifest # Nothing
    /\ manifest' # manifest
    => /\ Usable(manifest') \subseteq Usable(manifest)
       /\ manifest'.allowed_tool_prefixes \subseteq manifest.allowed_tool_prefixes
       /\ manifest'.masking_exempt_entities \subseteq manifest.masking_exempt_entities
       /\ manifest'.depth = manifest.depth + 1
       /\ manifest'.depth < manifest'.max_delegate_depth

NeverWidens == [][HopNarrows]_vars

(* What a sub-agent is handed as a narrowed request it can act on: its own *)
(* manifest passes the preflight check of the payload, whatever tools were *)
(* stripped and given up on the way (delegation.py:130-148).               *)
NarrowedIsServable ==
    action = "delegate_narrowed" => permitted(manifest, payload)
=============================================================================
