-------------------------- MODULE DelegationProofs --------------------------
(***************************************************************************)
(* Access never grows along a path of delegations, whatever the matrix,    *)
(* the sub-agents, the requests and the direct calls of narrow().          *)
(***************************************************************************)
EXTENDS Delegation, PolicyProofs

(* narrow() keeps who asked and what is hidden, and intersects the rest. *)
LEMMA NarrowFields ==
    ASSUME NEW m \in CapabilityManifest, NEW args \in Narrowing
    PROVE  LET n == narrow(m, args)
           IN  /\ n \in CapabilityManifest
               /\ n.department = m.department
               /\ n.clearance_level = m.clearance_level
               /\ n.allow_all_tools = m.allow_all_tools
               /\ n.restricted_doc_tags = m.restricted_doc_tags
               /\ n.max_delegate_depth = m.max_delegate_depth
               /\ n.depth = m.depth + 1
               /\ n.allowed_tools = next_tools(m, args.tools)
               /\ n.allowed_tool_prefixes \subseteq m.allowed_tool_prefixes
               /\ args.prefixes = AsIs => n.allowed_tool_prefixes = m.allowed_tool_prefixes
               /\ n.masking_exempt_entities \subseteq m.masking_exempt_entities
<1>1. next_tools(m, args.tools) \in SUBSET Tools
  BY DEF next_tools, CapabilityManifest, Narrowing
<1>2. m.depth + 1 \in Nat
  BY DEF CapabilityManifest
<1> QED
  BY <1>1, <1>2 DEF narrow, CapabilityManifest, Narrowing

LEMMA NarrowUsable ==
    ASSUME NEW m \in CapabilityManifest, NEW args \in Narrowing
    PROVE  Usable(narrow(m, args)) \subseteq Usable(m)
<1> DEFINE n == narrow(m, args)
<1>1. ASSUME NEW t \in Tools, can_use_tool(n, t) PROVE can_use_tool(m, t)
  <2>1. CASE n.allow_all_tools
    BY <2>1, NarrowFields DEF can_use_tool
  <2>2. CASE t \in n.allowed_tools
    <3>1. t \in next_tools(m, args.tools)
      BY <2>2, NarrowFields
    <3>2. CASE args.tools = AsIs
      BY <3>1, <3>2 DEF can_use_tool, next_tools
    <3>3. CASE args.tools # AsIs
      BY <3>1, <3>3 DEF next_tools
    <3> QED
      BY <3>2, <3>3
  <2>3. CASE \E p \in n.allowed_tool_prefixes : <<t, p>> \in StartsWith
    BY <2>3, NarrowFields DEF can_use_tool
  <2> QED
    BY <1>1, <2>1, <2>2, <2>3 DEF can_use_tool
<1> QED
  BY <1>1 DEF Usable

LEMMA SpecNarrowing ==
    ASSUME NEW i \in DOMAIN sub_agents, NEW m \in CapabilityManifest
    PROVE  /\ sub_agents[i] \in SubAgentSpec
           /\ \E args \in Narrowing :
                 /\ args.prefixes = AsIs
                 /\ args.tools = IF sub_agents[i].required_tools = {}
                                 THEN AsIs ELSE sub_agents[i].required_tools
                 /\ try_narrow(sub_agents[i], m) = narrow(m, args)
<1>1. sub_agents[i] \in SubAgentSpec
  BY DelegationAssumption
<1> DEFINE args == [tools |-> IF sub_agents[i].required_tools = {}
                               THEN AsIs ELSE sub_agents[i].required_tools,
                    prefixes |-> AsIs, exempt |-> AsIs]
<1>2. args \in Narrowing
  BY <1>1 DEF SubAgentSpec, Narrowing
<1>3. try_narrow(sub_agents[i], m) = narrow(m, args)
  BY DEF try_narrow
<1> QED
  BY <1>1, <1>2, <1>3

(* A manifest starts as what the user's policy gives. *)
LEMMA OriginManifest ==
    ASSUME NEW u \in UserContext
    PROVE  LET m == build_capability_manifest(u, max_delegation_depth)
           IN  /\ m \in CapabilityManifest
               /\ Usable(m) \subseteq filter_tools(Tools, u)
               /\ m.masking_exempt_entities = get_masking_exempt_entities(u)
               /\ m.restricted_doc_tags = policy_of(u).restricted_doc_tags
               /\ m.department = u.department
               /\ m.clearance_level = u.clearance_level
<1>1. policy_of(u) \in ClearancePolicy
  BY PolicyType DEF policy_of, UserContext
<1>2. max_delegation_depth \in Nat
  BY DelegationAssumption
<1> QED
  BY <1>1, <1>2, NamesAssumption DEF build_capability_manifest, CapabilityManifest,
     ClearancePolicy, UserContext, Usable, can_use_tool, filter_tools,
     get_masking_exempt_entities

-----------------------------------------------------------------------------
(* The hops. *)
IInv == TypeOK /\ WithinOrigin

(* What one hop makes of a manifest, however it came about. *)
Below(n, m) == \E args \in Narrowing : n = narrow(m, args)

LEMMA HopKeeps ==
    ASSUME IInv, manifest # Nothing, Below(manifest', manifest), user' = user
    PROVE  /\ manifest' \in CapabilityManifest
           /\ Usable(manifest') \subseteq Usable(manifest)
           /\ Usable(manifest') \subseteq Origin'.tools
           /\ manifest'.masking_exempt_entities \subseteq Origin'.exempt
           /\ manifest'.restricted_doc_tags = Origin'.tags
           /\ \A d \in DOMAIN registry :
                 is_authorized(d, manifest') <=> is_authorized(d, user')
<1>1. PICK args \in Narrowing : manifest' = narrow(manifest, args)
  BY DEF Below
<1>2. manifest \in CapabilityManifest
  BY DEF IInv, TypeOK
<1>3. Usable(manifest') \subseteq Usable(manifest)
  BY <1>1, <1>2, NarrowUsable
<1>4. Origin' = Origin
  BY DEF Origin
<1>5. /\ manifest' \in CapabilityManifest
      /\ manifest'.department = manifest.department
      /\ manifest'.clearance_level = manifest.clearance_level
      /\ manifest'.restricted_doc_tags = manifest.restricted_doc_tags
      /\ manifest'.masking_exempt_entities \subseteq manifest.masking_exempt_entities
  BY <1>1, <1>2, NarrowFields
<1>6. \A d \in DOMAIN registry : is_authorized(d, manifest') <=> is_authorized(d, manifest)
  BY <1>5 DEF is_authorized
<1> QED
  BY <1>3, <1>4, <1>5, <1>6 DEF IInv, WithinOrigin

LEMMA DelegationHop ==
    ASSUME TypeOK, NEW p \in Asks, Delegate(p) \/ DelegateNarrowed(p)
    PROVE  Below(manifest', manifest)
<1>1. manifest \in CapabilityManifest
  BY DEF TypeOK, Delegate, DelegateNarrowed
<1>2. PICK i \in DOMAIN sub_agents : manifest' = try_narrow(sub_agents[i], manifest)
  BY DEF Delegate, DelegateNarrowed
<1> QED
  BY <1>1, <1>2, SpecNarrowing DEF Below

LEMMA HandedOn ==
    ASSUME IInv, NEW p \in Asks, Delegate(p) \/ DelegateNarrowed(p)
    PROVE  /\ payload' \in Payload
           /\ requested_tool_names(payload'.tools) \subseteq Usable(manifest)
<1>1. manifest # Nothing /\ p \in Payload
  BY DelegationAssumption DEF IInv, TypeOK, Asks, Delegate, DelegateNarrowed
<1>2. usable_tools(manifest, p.tools) \subseteq Usable(manifest)
  BY <1>1 DEF usable_tools, requested_tool_names, Usable, Payload, ToolDefs
<1>3. CASE Delegate(p)
  <2>1. payload' = p /\ covering(manifest, p) # {}
    BY <1>3 DEF Delegate, First
  <2>2. usable_tools(manifest, p.tools) = requested_tool_names(p.tools)
    BY <2>1 DEF covering
  <2> QED
    BY <1>1, <1>2, <2>1, <2>2
<1>4. CASE DelegateNarrowed(p)
  <2>1. payload' = [p EXCEPT !.tools = usable_tools(manifest, @)]
    BY <1>4 DEF DelegateNarrowed, strip_unpermitted_tools
  <2>2. usable_tools(manifest, p.tools) \in SUBSET ToolDefs
    BY <1>1 DEF usable_tools, requested_tool_names, Payload
  <2>3. payload' \in Payload /\ payload'.tools = usable_tools(manifest, p.tools)
    BY <1>1, <2>1, <2>2 DEF Payload
  <2> QED
    BY <1>2, <2>3 DEF requested_tool_names
<1> QED
  BY <1>3, <1>4

LEMMA InvStep ==
    ASSUME IInv, [Next]_vars
    PROVE  IInv'
<1>1. ASSUME NEW p \in Payloads, Resolve(p) PROVE IInv'
  <2>1. user \in UserContext /\ user' = user /\ action' = action /\ payload' = p
    BY <1>1, DelegationAssumption DEF IInv, TypeOK, Resolve
  <2>2. p \in Payload
    BY DelegationAssumption
  <2>3. manifest' = build_capability_manifest(user, max_delegation_depth)
    BY <1>1 DEF Resolve
  <2>4. \A d \in DOMAIN registry : is_authorized(d, manifest') <=> is_authorized(d, user)
    BY <2>1, <2>3, OriginManifest DEF is_authorized
  <2>5. action = "none" /\ user' \in Users
    BY <1>1, <2>1 DEF Resolve, IInv, TypeOK
  <2>6. TypeOK'
    <3>1. manifest' \in CapabilityManifest
      BY <2>1, <2>3, OriginManifest
    <3> QED
      BY <2>1, <2>2, <2>5, <3>1, DelegationAssumption DEF TypeOK
  <2>7. WithinOrigin'
    <3>1. /\ Usable(manifest') \subseteq Origin'.tools
          /\ manifest'.masking_exempt_entities = Origin'.exempt
          /\ manifest'.restricted_doc_tags = Origin'.tags
      BY <2>1, <2>3, OriginManifest DEF Origin
    <3> QED
      BY <2>1, <2>4, <2>5, <3>1 DEF WithinOrigin
  <2> QED
    BY <2>6, <2>7 DEF IInv
<1>2. ASSUME NEW p \in Asks, Delegate(p) \/ DelegateNarrowed(p) PROVE IInv'
  <2>1. /\ manifest # Nothing /\ user' = user
        /\ action' \in {"delegate", "delegate_narrowed"}
    BY <1>2 DEF Delegate, DelegateNarrowed
  <2>2. Below(manifest', manifest)
    BY <1>2, DelegationHop DEF IInv
  <2>3. Usable(manifest) \subseteq Origin'.tools
    BY <2>1 DEF IInv, WithinOrigin, Origin
  <2>4. payload' \in Payload /\ requested_tool_names(payload'.tools) \subseteq Origin'.tools
    BY <1>2, <2>3, HandedOn
  <2>5. user' \in Users
    BY <2>1 DEF IInv, TypeOK
  <2>6. /\ manifest' \in CapabilityManifest
        /\ Usable(manifest') \subseteq Origin'.tools
        /\ manifest'.masking_exempt_entities \subseteq Origin'.exempt
        /\ manifest'.restricted_doc_tags = Origin'.tags
        /\ \A d \in DOMAIN registry : is_authorized(d, manifest') <=> is_authorized(d, user')
    BY <2>1, <2>2, HopKeeps
  <2> QED
    BY <2>1, <2>4, <2>5, <2>6, DelegationAssumption DEF IInv, TypeOK, WithinOrigin
<1>3. ASSUME NEW p \in Asks, Deny(p) PROVE IInv'
  BY <1>3 DEF Deny, IInv, TypeOK, WithinOrigin, Origin
<1>4. ASSUME NEW args \in Narrowings, Narrow(args) PROVE IInv'
  <2>1. /\ manifest # Nothing /\ user' = user /\ payload' = payload
        /\ action' = "none"
    BY <1>4 DEF Narrow
  <2>2. Below(manifest', manifest)
    BY <1>4, DelegationAssumption DEF Narrow, Below
  <2>3. user' \in Users /\ payload' \in Payload
    BY <2>1 DEF IInv, TypeOK
  <2> QED
    BY <2>1, <2>2, <2>3, HopKeeps DEF IInv, TypeOK, WithinOrigin
<1>5. ASSUME UNCHANGED vars PROVE IInv'
  BY <1>5 DEF vars, IInv, TypeOK, WithinOrigin, Origin
<1> QED
  BY <1>1, <1>2, <1>3, <1>4, <1>5 DEF Next

LEMMA Invariant == Spec => []IInv
<1>1. Init => IInv
  BY DEF Init, IInv, TypeOK, WithinOrigin
<1>2. IInv /\ [Next]_vars => IInv'
  BY InvStep
<1> QED
  BY <1>1, <1>2, PTL DEF Spec

(* No agent on any path has more access than the user the tree started     *)
(* from (manifest.py:41-78, delegation.py:83-148).                         *)
THEOREM AccessWithinOrigin == Spec => []WithinOrigin
<1>1. IInv => WithinOrigin
  BY DEF IInv
<1> QED
  BY <1>1, Invariant, PTL

(* Every hop takes access away or leaves it, and respects the ceiling      *)
(* (manifest.py:41-78).                                                    *)
THEOREM HopsNarrow == Spec => NeverWidens
<1>1. IInv /\ [Next]_vars => [HopNarrows]_vars
  <2> SUFFICES ASSUME IInv, [Next]_vars PROVE [HopNarrows]_vars
    OBVIOUS
  <2>1. ASSUME NEW args \in Narrowing, manifest # Nothing,
               manifest' = narrow(manifest, args), can_delegate_further(manifest)
        PROVE  HopNarrows
    <3>1. manifest \in CapabilityManifest
      BY <2>1 DEF IInv, TypeOK
    <3>2. Usable(manifest') \subseteq Usable(manifest)
      BY <2>1, <3>1, NarrowUsable
    <3>3. /\ manifest'.allowed_tool_prefixes \subseteq manifest.allowed_tool_prefixes
          /\ manifest'.masking_exempt_entities \subseteq manifest.masking_exempt_entities
          /\ manifest'.depth = manifest.depth + 1
          /\ manifest'.max_delegate_depth = manifest.max_delegate_depth
      BY <2>1, <3>1, NarrowFields
    <3> QED
      BY <2>1, <3>2, <3>3 DEF HopNarrows, can_delegate_further
  <2>2. ASSUME NEW p \in Asks, Delegate(p) \/ DelegateNarrowed(p) PROVE HopNarrows
    <3>1. manifest # Nothing /\ can_delegate_further(manifest)
      BY <2>2 DEF Delegate, DelegateNarrowed, Routable
    <3>2. Below(manifest', manifest)
      BY <2>2, DelegationHop DEF IInv
    <3> QED
      BY <2>1, <3>1, <3>2 DEF Below
  <2>3. ASSUME NEW args \in Narrowings, Narrow(args) PROVE HopNarrows
    BY <2>1, <2>3, DelegationAssumption DEF Narrow
  <2>4. CASE \E p \in Payloads : Resolve(p)
    BY <2>4 DEF Resolve, HopNarrows
  <2>5. CASE \E p \in Asks : Deny(p)
    BY <2>5 DEF Deny, HopNarrows
  <2> QED
    BY <2>2, <2>3, <2>4, <2>5 DEF Next
<1> QED
  BY <1>1, Invariant, PTL DEF Spec, NeverWidens

(* A narrowed request passes the preflight check of the sub-agent it is    *)
(* handed to (delegation.py:130-148).                                      *)
LEMMA NarrowedStep ==
    ASSUME IInv, NEW p \in Asks, DelegateNarrowed(p)
    PROVE  permitted(manifest', payload')
<1>1. /\ manifest \in CapabilityManifest /\ p \in Payload
      /\ permitted(manifest, p)
  BY DelegationAssumption DEF IInv, TypeOK, Asks, DelegateNarrowed, Routable
<1> DEFINE U == usable_tools(manifest, p.tools)
<1>2. PICK i \in narrowable(manifest, p) :
         manifest' = try_narrow(sub_agents[i], manifest)
  BY DEF DelegateNarrowed, First
<1>3. i \in DOMAIN sub_agents
  BY DEF narrowable, candidates
<1>4. PICK args \in Narrowing :
         /\ args.prefixes = AsIs
         /\ args.tools = IF sub_agents[i].required_tools = {}
                         THEN AsIs ELSE sub_agents[i].required_tools
         /\ manifest' = narrow(manifest, args)
  BY <1>1, <1>2, <1>3, SpecNarrowing
<1>5. /\ manifest'.department = manifest.department
      /\ manifest'.clearance_level = manifest.clearance_level
      /\ manifest'.allow_all_tools = manifest.allow_all_tools
      /\ manifest'.allowed_tool_prefixes = manifest.allowed_tool_prefixes
      /\ manifest'.allowed_tools = next_tools(manifest, args.tools)
  BY <1>1, <1>4, NarrowFields
<1>6. payload'.tools = U /\ payload'.refs = p.refs
  BY <1>1 DEF DelegateNarrowed, strip_unpermitted_tools, Payload
<1>7. requested_tool_names(U) = U
  BY DEF usable_tools, requested_tool_names
<1>8. usable_documents(manifest', p.refs) = usable_documents(manifest, p.refs)
  BY <1>5 DEF usable_documents, is_authorized
<1>9. CASE sub_agents[i].required_tools = {}
  <2>1. \A t \in U : can_use_tool(manifest', t)
    BY <1>4, <1>5, <1>9 DEF usable_tools, can_use_tool, next_tools
  <2>2. usable_tools(manifest', U) = U
    BY <1>7, <2>1 DEF usable_tools
  <2>3. CASE requested_tool_names(p.tools) = {} /\ p.refs = {}
    BY <1>6, <1>7, <2>3 DEF permitted, preflight_permitted, usable_tools
  <2>4. CASE U # {}
    BY <1>6, <2>2, <2>4 DEF permitted, preflight_permitted
  <2>5. CASE usable_documents(manifest, p.refs) # {}
    BY <1>6, <1>8, <2>5 DEF permitted, preflight_permitted
  <2> QED
    BY <1>1, <2>3, <2>4, <2>5 DEF permitted, preflight_permitted
<1>10. CASE sub_agents[i].required_tools # {}
  <2>1. PICK t \in sub_agents[i].required_tools : t \in U
    BY <1>10 DEF narrowable
  <2>2. args.tools = sub_agents[i].required_tools
    BY <1>4, <1>10
  <2>3. can_use_tool(manifest, t)
    BY <2>1 DEF usable_tools
  <2>4. can_use_tool(manifest', t)
    <3>1. CASE args.tools = AsIs
      BY <1>5, <2>3, <3>1 DEF next_tools, can_use_tool
    <3>2. CASE args.tools # AsIs
      <4>1. t \in next_tools(manifest, args.tools)
        BY <2>1, <2>2, <2>3, <3>2 DEF next_tools
      <4> QED
        BY <1>5, <4>1 DEF can_use_tool
    <3> QED
      BY <3>1, <3>2
  <2>5. t \in usable_tools(manifest', U)
    BY <1>7, <2>1, <2>4 DEF usable_tools
  <2> QED
    BY <1>6, <2>5 DEF permitted, preflight_permitted
<1> QED
  BY <1>9, <1>10

(* However a request was narrowed, the sub-agent can act on what is left   *)
(* of it (delegation.py:130-148).                                          *)
THEOREM NarrowedServable == Spec => []NarrowedIsServable
<1>1. Init => NarrowedIsServable
  BY DEF Init, NarrowedIsServable
<1>2. IInv /\ [Next]_vars /\ NarrowedIsServable => NarrowedIsServable'
  <2> SUFFICES ASSUME IInv, [Next]_vars, NarrowedIsServable
               PROVE  NarrowedIsServable'
    OBVIOUS
  <2>1. CASE \E p \in Asks : DelegateNarrowed(p)
    BY <2>1, NarrowedStep DEF NarrowedIsServable, permitted
  <2>2. CASE \E p \in Asks : Delegate(p) \/ Deny(p)
    BY <2>2 DEF NarrowedIsServable, Delegate, Deny
  <2>3. CASE \E args \in Narrowings : Narrow(args)
    BY <2>3 DEF NarrowedIsServable, Narrow
  <2>4. CASE \E p \in Payloads : Resolve(p)
    BY <2>4 DEF NarrowedIsServable, Resolve, IInv, TypeOK
  <2>5. CASE UNCHANGED vars
    BY <2>5 DEF NarrowedIsServable, permitted, vars
  <2> QED
    BY <2>1, <2>2, <2>3, <2>4, <2>5 DEF Next
<1> QED
  BY <1>1, <1>2, Invariant, PTL DEF Spec
=============================================================================
