------------------------------- MODULE Policy -------------------------------
(***************************************************************************)
(* The permission matrix of app/policy and app/documents, and the pure     *)
(* decisions the gateway takes from it.  The matrix is read once at        *)
(* start-up and cached for the life of the process (get_permission_matrix  *)
(* is lru_cached), so it is a constant here, with the shape the pydantic   *)
(* schema enforces.                                                        *)
(*                                                                         *)
(* Text is abstracted to the set of ITEMS a reader could pick out of it:   *)
(* a tag stands for the system-prompt passage it marks, an entity type for *)
(* a value of that type, a document id for the body of that document.      *)
(* Redacting, masking and stripping then remove items from a set.          *)
(***************************************************************************)
EXTENDS Naturals

CONSTANTS
    UserIds,
    Departments,          \* department names as tokens spell them
    Lower,                \* str.lower() on department names
    Clearances,
    ClearanceOrder,       \* _CLEARANCE_ORDER
    Tools,                \* tool names
    Prefixes,             \* tool-name prefixes
    StartsWith,           \* pairs <<tool, prefix>> of str.startswith
    Tags,                 \* restricted_doc_tags markers
    Entities,             \* entity types
    DocIds,               \* document ids a request can name
    NoName,               \* a tool definition whose name cannot be resolved
    Unset,                \* a document requirement that is None
    policies,             \* PermissionMatrix.policies (partial)
    default_policy,
    department_policies,  \* partial, keyed by <<lowercase department, clearance>>
    registry              \* DocumentRegistry._documents (partial)

ClearancePolicy ==
    [allow_all_tools         : BOOLEAN,
     allowed_tools           : SUBSET Tools,
     allowed_tool_prefixes   : SUBSET Prefixes,
     restricted_doc_tags     : SUBSET Tags,
     masking_exempt_entities : SUBSET Entities]

DepartmentOverride ==
    [additional_restricted_doc_tags     : SUBSET Tags,
     additional_masking_exempt_entities : SUBSET Entities]

DocumentRecord ==
    [required_clearance  : Clearances \cup {Unset},
     required_department : Departments \cup {Unset}]

UserContext ==
    [user_id : UserIds, department : Departments, clearance_level : Clearances]

ToolDefs == Tools \cup {NoName}

Items == Tags \cup Entities \cup DocIds

(* The matrix passed PermissionMatrix.model_validate, and the registry     *)
(* holds DocumentRecords.                                                  *)
ASSUME MatrixAssumption ==
    /\ DOMAIN policies \subseteq Clearances
    /\ \A c \in DOMAIN policies : policies[c] \in ClearancePolicy
    /\ default_policy \in ClearancePolicy
    /\ DOMAIN department_policies \subseteq Departments \X Clearances
    /\ \A k \in DOMAIN department_policies :
          department_policies[k] \in DepartmentOverride
    /\ Lower \in [Departments -> Departments]

ASSUME RegistryAssumption ==
    /\ ClearanceOrder \in [Clearances -> Nat]
    /\ DOMAIN registry \subseteq DocIds
    /\ \A d \in DOMAIN registry : registry[d] \in DocumentRecord
    /\ Unset \notin Clearances \cup Departments

ASSUME NamesAssumption ==
    /\ NoName \notin Tools
    /\ StartsWith \subseteq Tools \X Prefixes
    /\ Tags \cap Entities = {} /\ Tags \cap DocIds = {} /\ Entities \cap DocIds = {}

-----------------------------------------------------------------------------
(* schema.py: the policy of a clearance level, overlaid by the override of *)
(* the department when there is one.                                       *)

base_policy(clearance) ==
    IF clearance \in DOMAIN policies THEN policies[clearance] ELSE default_policy

policy_for(clearance, dept) ==
    LET base == base_policy(clearance)
        key  == <<Lower[dept], clearance>>
    IN  IF key \notin DOMAIN department_policies
        THEN base
        ELSE [base EXCEPT
                !.restricted_doc_tags =
                    @ \cup department_policies[key].additional_restricted_doc_tags,
                !.masking_exempt_entities =
                    @ \cup department_policies[key].additional_masking_exempt_entities]

policy_of(user) == policy_for(user.clearance_level, user.department)

-----------------------------------------------------------------------------
(* enforcement.py *)

filter_tools(tools, user) ==
    LET policy == policy_of(user)
    IN  IF policy.allow_all_tools
        THEN tools
        ELSE {t \in tools : /\ t # NoName
                            /\ \/ t \in policy.allowed_tools
                               \/ \E p \in policy.allowed_tool_prefixes :
                                     <<t, p>> \in StartsWith}

most_restrictive_doc_tags ==
    default_policy.restricted_doc_tags
      \cup (UNION {policies[c].restricted_doc_tags : c \in DOMAIN policies})
      \cup (UNION {department_policies[k].additional_restricted_doc_tags :
                     k \in DOMAIN department_policies})

redact_tags(items, tags) == items \ tags

redact_system_prompt(items, user) ==
    redact_tags(items, policy_of(user).restricted_doc_tags)

get_masking_exempt_entities(user) == policy_of(user).masking_exempt_entities

-----------------------------------------------------------------------------
(* documents/registry.py: is_authorized reads only the department and the  *)
(* clearance level, so a user and a manifest are judged alike.             *)
(* documents/pipeline.py: references become the bodies of the documents    *)
(* the user may read, and names again in what is persisted.                *)

is_authorized(doc, who) ==
    LET record == registry[doc]
    IN  /\ record.required_department # Unset
              => Lower[record.required_department] = Lower[who.department]
        /\ record.required_clearance # Unset
              => ClearanceOrder[who.clearance_level]
                    >= ClearanceOrder[record.required_clearance]

resolve_document_references(refs, user) ==
    {d \in refs \cap DOMAIN registry : is_authorized(d, user)}

strip_document_content(items) == items \ DocIds

-----------------------------------------------------------------------------
(* manifest.py: the capabilities a request starts with, and the early      *)
(* refusal of requests that need only what they may not use.               *)

build_capability_manifest(user, max_delegation_depth) ==
    LET policy == policy_of(user)
    IN  [origin_user_id          |-> user.user_id,
         department              |-> user.department,
         clearance_level         |-> user.clearance_level,
         allow_all_tools         |-> policy.allow_all_tools,
         allowed_tools           |-> policy.allowed_tools,
         allowed_tool_prefixes   |-> policy.allowed_tool_prefixes,
         restricted_doc_tags     |-> policy.restricted_doc_tags,
         masking_exempt_entities |-> policy.masking_exempt_entities,
         max_delegate_depth      |-> max_delegation_depth,
         depth                   |-> 0]

can_use_tool(manifest, tool) ==
    \/ manifest.allow_all_tools
    \/ tool \in manifest.allowed_tools
    \/ \E p \in manifest.allowed_tool_prefixes : <<tool, p>> \in StartsWith

requested_tool_names(tools) == tools \ {NoName}

usable_tools(manifest, tools) ==
    {t \in requested_tool_names(tools) : can_use_tool(manifest, t)}

usable_documents(manifest, refs) ==
    {d \in refs \cap DOMAIN registry : is_authorized(d, manifest)}

(* A document id the registry does not know counts as requested, but as    *)
(* neither usable nor missing.                                             *)
preflight_permitted(manifest, tools, refs) ==
    \/ requested_tool_names(tools) = {} /\ refs = {}
    \/ usable_tools(manifest, tools) # {}
    \/ usable_documents(manifest, refs) # {}
=============================================================================
