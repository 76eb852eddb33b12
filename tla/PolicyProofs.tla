---------------------------- MODULE PolicyProofs ----------------------------
(***************************************************************************)
(* Facts about the permission matrix that hold for every matrix, registry  *)
(* and user.                                                               *)
(***************************************************************************)
EXTENDS Policy, TLAPS

LEMMA BasePolicyType ==
    ASSUME NEW c \in Clearances
    PROVE  base_policy(c) \in ClearancePolicy
BY MatrixAssumption DEF base_policy

LEMMA PolicyType ==
    ASSUME NEW c \in Clearances, NEW d \in Departments
    PROVE  policy_for(c, d) \in ClearancePolicy
<1> DEFINE base == base_policy(c)
           key  == <<Lower[d], c>>
<1>1. base \in ClearancePolicy
  BY BasePolicyType
<1>2. CASE key \in DOMAIN department_policies
  <2>1. department_policies[key] \in DepartmentOverride
    BY <1>2, MatrixAssumption
  <2>2. policy_for(c, d) =
          [base EXCEPT
             !.restricted_doc_tags =
                 @ \cup department_policies[key].additional_restricted_doc_tags,
             !.masking_exempt_entities =
                 @ \cup department_policies[key].additional_masking_exempt_entities]
    BY <1>2 DEF policy_for
  <2> QED
    BY <1>1, <2>1, <2>2 DEF ClearancePolicy, DepartmentOverride
<1>3. CASE key \notin DOMAIN department_policies
  BY <1>1, <1>3 DEF policy_for
<1> QED
  BY <1>2, <1>3

(* Every passage a policy of the matrix restricts, for any clearance level *)
(* and department, is in the baseline of the persisted view: the view of   *)
(* the log and the cache restricts at least what any reader's own policy   *)
(* restricts (enforcement.py:92-100 against schema.py:55-69).              *)
THEOREM BaselineCoversPolicies ==
    ASSUME NEW c \in Clearances, NEW d \in Departments
    PROVE  policy_for(c, d).restricted_doc_tags \subseteq most_restrictive_doc_tags
<1> DEFINE base == base_policy(c)
           key  == <<Lower[d], c>>
<1>1. base \in ClearancePolicy
  BY BasePolicyType
<1>2. base.restricted_doc_tags \subseteq most_restrictive_doc_tags
  BY DEF base_policy, most_restrictive_doc_tags
<1>3. CASE key \in DOMAIN department_policies
  <2>1. department_policies[key].additional_restricted_doc_tags
          \subseteq most_restrictive_doc_tags
    BY <1>3 DEF most_restrictive_doc_tags
  <2>2. policy_for(c, d) =
          [base EXCEPT
             !.restricted_doc_tags =
                 @ \cup department_policies[key].additional_restricted_doc_tags,
             !.masking_exempt_entities =
                 @ \cup department_policies[key].additional_masking_exempt_entities]
    BY <1>3 DEF policy_for
  <2>3. policy_for(c, d).restricted_doc_tags =
          base.restricted_doc_tags
            \cup department_policies[key].additional_restricted_doc_tags
    BY <1>1, <2>2 DEF ClearancePolicy
  <2> QED
    BY <1>2, <2>1, <2>3
<1>4. CASE key \notin DOMAIN department_policies
  BY <1>2, <1>4 DEF policy_for
<1> QED
  BY <1>3, <1>4

LEMMA BaselineType ==
    most_restrictive_doc_tags \subseteq Tags
<1>1. default_policy.restricted_doc_tags \subseteq Tags
  BY MatrixAssumption DEF ClearancePolicy
<1>2. ASSUME NEW c \in DOMAIN policies
      PROVE  policies[c].restricted_doc_tags \subseteq Tags
  BY MatrixAssumption DEF ClearancePolicy
<1>3. ASSUME NEW k \in DOMAIN department_policies
      PROVE  department_policies[k].additional_restricted_doc_tags \subseteq Tags
  BY MatrixAssumption DEF DepartmentOverride
<1> QED
  BY <1>1, <1>2, <1>3 DEF most_restrictive_doc_tags

(* The early refusal judges what the later steps do: the tools preflight   *)
(* calls usable are those filter_tools keeps, nameless definitions apart,  *)
(* the references it calls usable those that are resolved, and a call that *)
(* requests something passes when one of them is left (manifest.py:29-34,  *)
(* 127-161 against enforcement.py:47-72 and documents/pipeline.py:62-71).  *)
THEOREM PreflightAgreesWithFilter ==
    ASSUME NEW user \in UserContext, NEW tools \in SUBSET ToolDefs, NEW refs, NEW n
    PROVE  LET manifest == build_capability_manifest(user, n)
           IN  /\ usable_tools(manifest, tools) = filter_tools(tools, user) \ {NoName}
               /\ usable_documents(manifest, refs) = resolve_document_references(refs, user)
               /\ preflight_permitted(manifest, tools, refs) <=>
                      \/ tools \subseteq {NoName} /\ refs = {}
                      \/ filter_tools(tools, user) \ {NoName} # {}
                      \/ resolve_document_references(refs, user) # {}
<1> DEFINE manifest == build_capability_manifest(user, n)
<1>1. usable_tools(manifest, tools) = filter_tools(tools, user) \ {NoName}
  BY DEF usable_tools, build_capability_manifest, filter_tools,
         requested_tool_names, can_use_tool
<1>2. usable_documents(manifest, refs) = resolve_document_references(refs, user)
  BY DEF usable_documents, resolve_document_references, is_authorized,
         build_capability_manifest
<1>3. requested_tool_names(tools) = {} <=> tools \subseteq {NoName}
  BY DEF requested_tool_names
<1> HIDE DEF manifest
<1>4. preflight_permitted(manifest, tools, refs) <=>
         \/ tools \subseteq {NoName} /\ refs = {}
         \/ filter_tools(tools, user) \ {NoName} # {}
         \/ resolve_document_references(refs, user) # {}
  BY <1>1, <1>2, <1>3 DEF preflight_permitted
<1> QED
  BY <1>1, <1>2, <1>4 DEF manifest
=============================================================================
