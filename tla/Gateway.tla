------------------------------ MODULE Gateway ------------------------------
(***************************************************************************)
(* governed_proxy of app/main.py: one asyncio process serving many calls.  *)
(* Calls interleave only where the handler awaits, so each action below is *)
(* the code between two awaits: the two limiter round trips, the request   *)
(* body, the upstream call and the token-accounting round trip.  What the  *)
(* calls share is the semantic cache, the audit log, the department        *)
(* counters and the limiter windows.                                       *)
(*                                                                         *)
(* A limiter round trip is one action: Redis runs the MULTI atomically and *)
(* nothing else the handler touches is shared before its next await.  Here *)
(* a window is the set of calls still inside it; RateLimiter has the       *)
(* clock.                                                                  *)
(***************************************************************************)
EXTENDS Policy, FiniteSets

CONSTANTS
    Requests,             \* identifiers of the calls the process serves
    Calls,                \* what a client can send
    Traces,               \* X-Delegation-Trace-Id values
    Queries,              \* last user messages, as the persisted view reads
    Score,                \* cosine similarity of two queries
    SimilarityThreshold,
    MaxDelegationDepth,
    ChainMax, UserMax,    \* the two limiters' max_requests
    BlockInjection,       \* guardrails_injection_{scan,block}_enabled
    CacheEnabled,
    EntitiesToMask,       \* the engine's default entity list
    PersistedEntities,    \* PERSISTED_VIEW_ENTITIES
    UpstreamEntities,     \* entity types the upstream may disclose by itself
    ReplyShapes,          \* pairs <<kind, 2xx>> of upstream replies considered
    NoUser, NoTrace, NoQuery, NoCall

(* body: no body, a body that is not JSON, an OpenAI-style chat body whose *)
(* messages hold text, or a JSON object the text scanners find nothing in  *)
(* (multi-part content, other APIs).  items and refs are what the messages *)
(* carry, flagged that the scanner scores the text at or over the blocking *)
(* threshold.                                                              *)
Bodies == {"none", "malformed", "chat", "unscanned"}

Call ==
    [user    : UserContext \cup {NoUser},
     depth   : Nat,
     trace   : Traces \cup {NoTrace},
     body    : Bodies,
     tools   : SUBSET ToolDefs,
     items   : SUBSET (Tags \cup Entities),
     refs    : SUBSET DocIds,
     query   : Queries \cup {NoQuery},
     flagged : BOOLEAN]

(* A persisted body: absent (None), the placeholder of an omitted response, *)
(* or text.                                                                *)
Content == [form : {"none", "placeholder", "text"}, items : SUBSET Items]

None       == [form |-> "none", items |-> {}]
Omitted    == [form |-> "placeholder", items |-> {}]
Text(items) == [form |-> "text", items |-> items]

(* "choices": a JSON object with a choices list; "object": another JSON    *)
(* object; "malformed": declared JSON that does not parse; "opaque": any   *)
(* other content type, or no body.                                         *)
Kinds == {"choices", "object", "malformed", "opaque"}

ASSUME GatewayAssumption ==
    /\ Calls \subseteq Call
    /\ IsFiniteSet(Requests)
    /\ MaxDelegationDepth \in Nat /\ ChainMax \in Nat /\ UserMax \in Nat
    /\ SimilarityThreshold \in Nat
    /\ Score \in [Queries \X Queries -> Nat]
    /\ BlockInjection \in BOOLEAN /\ CacheEnabled \in BOOLEAN
    /\ EntitiesToMask \subseteq Entities
    /\ EntitiesToMask \subseteq PersistedEntities
    /\ PersistedEntities \subseteq Entities
    /\ UpstreamEntities \subseteq Entities
    /\ ReplyShapes \subseteq Kinds \X BOOLEAN
    /\ NoUser \notin UserContext
    /\ NoQuery \notin Queries
    /\ NoTrace \notin Traces
    /\ Requests \cap Traces = {}
    /\ NoCall \notin Calls

VARIABLES
    pc,            \* the await a call is parked at
    call,          \* what the client sent
    sent,          \* what the upstream received for a call
    reply,         \* what the upstream answered
    persisted,     \* persisted_request_body, cache_query_text, persisted_response_body
    answer,        \* what the client received
    cache,         \* points of the vector store
    audit,         \* records handed to Langfuse
    usage,         \* tokens:<department>:* counters
    chain_window,  \* ratelimit:chain:<trace>
    user_window    \* ratelimit:<user>

vars == <<pc, call, sent, reply, persisted, answer, cache, audit, usage,
          chain_window, user_window>>

stores  == <<cache, audit, usage>>
windows == <<chain_window, user_window>>

Parked == {"chain", "user", "body", "upstream", "account", "store"}

Reasons ==
    {"pending", "unauthorized", "delegation_depth_exceeded",
     "chain_rate_limit", "rate_limit", "limiter_error", "invalid_json",
     "insufficient_clearance", "content_flagged", "internal_error",
     "upstream_unavailable", "malformed_upstream", "cache_hit", "upstream",
     "lost"}

(* An answer's source is the call whose upstream reply it carries. *)
Reply(why, what, src) == [reason |-> why, content |-> what, source |-> src]

NotSent     == [received |-> FALSE, items |-> {}, tools |-> {}]
NoReply     == [kind |-> "none", ok |-> FALSE, items |-> {}]
NoPersisted == [request |-> None, key |-> NoQuery, response |-> None]
NoUsage     == [prompt |-> 0, completion |-> 0, total |-> 0]

-----------------------------------------------------------------------------
(* The pure part of the handler: what it makes of a call.                  *)

IsJson(c) == c.body \in {"chat", "unscanned"}

manifest(c) == build_capability_manifest(c.user, 4)

References(c) == IF c.body = "chat" THEN c.refs ELSE {}

Permitted(c) ==
    IsJson(c) => preflight_permitted(manifest(c), c.tools, References(c))

FilteredTools(c) == filter_tools(c.tools, c.user)

HasDocumentReference(c) == References(c) # {}

(* enforce_policy_on_payload, then resolve_document_references: the passages
   the user may not see are gone and the documents they may see are in.    *)
PolicyFiltered(c) ==
    CASE c.body = "chat" ->
           redact_system_prompt(c.items, c.user)
             \cup resolve_document_references(c.refs, c.user)
      [] c.body = "unscanned" -> c.items
      [] OTHER -> {}

mask_text(items, entities, exempt) == items \ (entities \ exempt)

LiveMask(items, user) ==
    mask_text(items, EntitiesToMask, get_masking_exempt_entities(user))

\* Mutation: the body is masked as it came, before the policy.
LiveRequestUnfiltered(c) == LiveMask(c.items, c.user)

LiveRequest(c) ==
    IF c.body = "chat" THEN LiveMask(PolicyFiltered(c), c.user)
                       ELSE PolicyFiltered(c)

Flagged(c) == c.body = "chat" /\ BlockInjection /\ c.flagged

(* What is persisted is redacted for everybody at once, documents become   *)
(* their names, and no entity is exempt.                                   *)
redact_payload_for_persisted_view(c) ==
    redact_tags(PolicyFiltered(c), most_restrictive_doc_tags)

\* Mutation: the redaction reports no restricted context.
HadNoRestrictedContext(c) == FALSE

HadRestrictedContext(c) ==
    c.body = "chat" /\ PolicyFiltered(c) \cap most_restrictive_doc_tags # {}

PersistedMask(items) == mask_text(items, PersistedEntities, {})

\* Mutation: the caller's own exemptions apply to what is persisted.
PersistedRequestExempting(c) ==
    Text(LiveMask(strip_document_content(redact_payload_for_persisted_view(c)), c.user))

PersistedRequest(c) ==
    Text(IF c.body = "chat"
         THEN PersistedMask(strip_document_content(redact_payload_for_persisted_view(c)))
         ELSE PolicyFiltered(c))

PersistedView(rep) ==
    Text(IF rep.kind = "choices" THEN PersistedMask(rep.items) ELSE rep.items)

LiveResponse(rep, user) ==
    Text(IF rep.kind = "choices" THEN LiveMask(rep.items, user) ELSE rep.items)

PromptTokens(c) == IF c.body = "chat" THEN 1 ELSE 0

\* Mutation: every reply is counted.
CompletionTokensOfAny(rep) == 1

CompletionTokens(rep) == IF rep.kind = "choices" THEN 1 ELSE 0

\* Mutation: calls with tools use the cache too.
CacheEligibleWithTools(c, persisted_request) ==
    CacheEnabled /\ persisted_request # None /\ ~HasDocumentReference(c)

CacheEligible(c, persisted_request) ==
    /\ CacheEnabled
    /\ persisted_request # None
    /\ FilteredTools(c) = {}
    /\ ~HasDocumentReference(c)

CacheKey(c) == IF c.body = "chat" THEN c.query ELSE NoQuery

(* SemanticCache.lookup: the nearest point, if it is near enough.  Points
   at the same distance are returned in either order.                      *)
lookup(q) ==
    IF q = NoQuery
    THEN {}
    ELSE {p \in cache : /\ Score[q, p.query] >= SimilarityThreshold
                        /\ \A n \in cache : Score[q, n.query] <= Score[q, p.query]}

(* The keys of the two limiters.  continue_trace starts a new trace, named
   after the call, when the client sends no trace id.                      *)
ChainKey(r, c) == IF c.trace = NoTrace THEN r ELSE c.trace

-----------------------------------------------------------------------------
Init ==
    /\ pc = [r \in Requests |-> "idle"]
    /\ call = [r \in Requests |-> NoCall]
    /\ sent = [r \in Requests |-> NotSent]
    /\ reply = [r \in Requests |-> NoReply]
    /\ persisted = [r \in Requests |-> NoPersisted]
    /\ answer = [r \in Requests |-> Reply("pending", None, r)]
    /\ cache = {}
    /\ audit = {}
    /\ usage = [d \in Departments |-> NoUsage]
    /\ chain_window = [k \in Traces \cup Requests |-> {}]
    /\ user_window = [u \in UserIds |-> {}]

Goto(r, point) == pc' = [pc EXCEPT ![r] = point]

Answer(r, why, what, src) ==
    /\ Goto(r, "done")
    /\ answer' = [answer EXCEPT ![r] = Reply(why, what, src)]

Refuse(r, why) == Answer(r, why, None, r)

(* log_call, whose own failures are swallowed. *)
log_call(r, request, response, hit) ==
    audit' = audit \cup {[id |-> r, request |-> request,
                          response |-> response, cache_hit |-> hit]}

-----------------------------------------------------------------------------
(* Up to the first await: the middleware's verdict on the token, of which  *)
(* only the user it yields is kept, and the depth ceiling.                 *)
Authenticated(c) == c.user # NoUser

Receive(r, c) ==
    /\ pc[r] = "idle"
    /\ call' = [call EXCEPT ![r] = c]
    /\ \/ /\ ~Authenticated(c)
          /\ Refuse(r, "unauthorized")
       \/ /\ Authenticated(c)
          /\ c.depth >= MaxDelegationDepth
          /\ Refuse(r, "delegation_depth_exceeded")
       \/ /\ Authenticated(c)
          /\ c.depth < MaxDelegationDepth
          /\ Goto(r, "chain")
          /\ UNCHANGED answer
    /\ UNCHANGED <<sent, reply, persisted, stores, windows>>

(* check_and_record, one MULTI on a key: attempts that have left the window *)
(* are purged, this one is recorded, and only then the window is counted.  *)
Recorded(window, r) == {kept \cup {r} : kept \in SUBSET window}

\* Mutation: the window is counted before the attempt joins it.
WithinBefore(window, limit) == Cardinality(window) - 1 <= limit

Within(window, limit) == Cardinality(window) <= limit

CheckChain(r) ==
    LET key == ChainKey(r, call[r])
    IN  /\ pc[r] = "chain"
        /\ \E window \in Recorded(chain_window[key], r) :
              /\ chain_window' = [chain_window EXCEPT ![key] = window]
              /\ \/ /\ Within(window, ChainMax)
                    /\ Goto(r, "user")
                    /\ UNCHANGED answer
                 \/ /\ ~Within(window, ChainMax)
                    /\ Refuse(r, "chain_rate_limit")
        /\ UNCHANGED <<call, sent, reply, persisted, stores, user_window>>

CheckUser(r) ==
    LET key == call[r].user.user_id
    IN  /\ pc[r] = "user"
        /\ \E window \in Recorded(user_window[key], r) :
              /\ user_window' = [user_window EXCEPT ![key] = window]
              /\ \/ /\ Within(window, UserMax)
                    /\ Goto(r, "body")
                    /\ UNCHANGED answer
                 \/ /\ ~Within(window, UserMax)
                    /\ Refuse(r, "rate_limit")
        /\ UNCHANGED <<call, sent, reply, persisted, stores, chain_window>>

(* Redis refuses, or the pool has no free connection: nothing catches the  *)
(* exception, before or after Redis ran the transaction.                   *)
ChainLimiterFails(r) ==
    LET key == ChainKey(r, call[r])
    IN  /\ pc[r] = "chain"
        /\ \E window \in {chain_window[key]} \cup Recorded(chain_window[key], r) :
              chain_window' = [chain_window EXCEPT ![key] = window]
        /\ Refuse(r, "limiter_error")
        /\ UNCHANGED <<call, sent, reply, persisted, stores, user_window>>

UserLimiterFails(r) ==
    LET key == call[r].user.user_id
    IN  /\ pc[r] = "user"
        /\ \E window \in {user_window[key]} \cup Recorded(user_window[key], r) :
              user_window' = [user_window EXCEPT ![key] = window]
        /\ Refuse(r, "limiter_error")
        /\ UNCHANGED <<call, sent, reply, persisted, stores, chain_window>>

-----------------------------------------------------------------------------
(* From the request body to the upstream call there is no await: one       *)
(* action, with one alternative per way out.                               *)

(* 400, 403, 400 and the three fail-closed 500s, in the handler's order.   *)
Reject(r) ==
    LET c == call[r]
    IN  /\ pc[r] = "body"
        /\ \/ c.body = "malformed" /\ Refuse(r, "invalid_json")
           \/ ~Permitted(c) /\ Refuse(r, "insufficient_clearance")
           \/ /\ IsJson(c)
              /\ Permitted(c)
              /\ Refuse(r, "internal_error")
           \/ /\ Permitted(c)
              /\ Flagged(c)
              /\ Refuse(r, "content_flagged")
        /\ UNCHANGED <<call, sent, reply, persisted, stores, windows>>

Governed(c) == c.body # "malformed" /\ Permitted(c) /\ ~Flagged(c)

(* persisted_request_body: nothing to persist without a body, and nothing  *)
(* persisted when build_persisted_view raises.                             *)
PersistedRequests(c) ==
    IF IsJson(c) THEN {PersistedRequest(c), None} ELSE {None}

ServeFromCache(r) ==
    /\ pc[r] = "body"
    /\ Governed(call[r])
    /\ \E request \in PersistedRequests(call[r]) :
       \E point \in lookup(CacheKey(call[r])) :
          /\ CacheEligible(call[r], request)
          /\ log_call(r, request, point.response, TRUE)
          /\ Answer(r, "cache_hit", point.response, point.id)
          /\ persisted' = [persisted EXCEPT ![r] =
                             [request |-> request, key |-> CacheKey(call[r]),
                              response |-> None]]
    /\ UNCHANGED <<call, sent, reply, cache, usage, windows>>

(* A lookup that raises counts as a miss; a miss keeps its key for the     *)
(* store that follows the upstream's answer.                               *)
Forward(r) ==
    /\ pc[r] = "body"
    /\ Governed(call[r])
    /\ \E request \in PersistedRequests(call[r]), lookup_raises \in BOOLEAN :
          LET eligible == CacheEligible(call[r], request)
          IN  /\ eligible => lookup_raises \/ lookup(CacheKey(call[r])) = {}
              /\ persisted' = [persisted EXCEPT ![r] =
                     [request  |-> request,
                      key      |-> IF eligible THEN CacheKey(call[r]) ELSE NoQuery,
                      response |-> None]]
    /\ sent' = [sent EXCEPT ![r] =
          [received |-> TRUE,
           items |-> LiveRequest(call[r]),
           tools |-> IF IsJson(call[r]) THEN FilteredTools(call[r]) ELSE {}]]
    /\ Goto(r, "upstream")
    /\ UNCHANGED <<call, reply, answer, stores, windows>>

-----------------------------------------------------------------------------
\* Mutation: the failed call is logged before the 502.
UpstreamUnavailableLogged(r) ==
    /\ pc[r] = "upstream"
    /\ log_call(r, persisted[r].request, None, FALSE)
    /\ Refuse(r, "upstream_unavailable")
    /\ UNCHANGED <<call, sent, reply, persisted, cache, usage, windows>>

(* A connect timeout, a read timeout or another transport error.           *)
UpstreamUnavailable(r) ==
    /\ pc[r] = "upstream"
    /\ Refuse(r, "upstream_unavailable")
    /\ UNCHANGED <<call, sent, reply, persisted, stores, windows>>

(* persisted_response_body *)
PersistedResponses(c, rep) ==
    CASE rep.kind = "opaque"      -> {None}
      [] HasDocumentReference(c)
           \/ HadRestrictedContext(c) -> {Omitted}
      [] OTHER                    -> {PersistedView(rep), None}

(* The upstream can repeat what it was sent and add what it knows.         *)
Replies(r) ==
    {[kind |-> shape[1], ok |-> shape[2], items |-> items] :
        shape \in ReplyShapes,
        items \in SUBSET (sent[r].items \cup UpstreamEntities)}

UpstreamReplies(r, rep) ==
    /\ pc[r] = "upstream"
    /\ reply' = [reply EXCEPT ![r] = rep]
    /\ \/ /\ rep.kind = "malformed"
          /\ Refuse(r, "malformed_upstream")
          /\ UNCHANGED persisted
       \/ /\ rep.kind \in {"choices", "object"}   \* mask_outbound raises
          /\ Refuse(r, "internal_error")
          /\ UNCHANGED persisted
       \/ /\ rep.kind # "malformed"
          /\ \E response \in PersistedResponses(call[r], rep) :
                persisted' = [persisted EXCEPT ![r].response = response]
          /\ Goto(r, "account")
          /\ UNCHANGED answer
    /\ UNCHANGED <<call, sent, stores, windows>>

\* Mutation: a reply without completions is never accounted for.
RecordUsageOfChoices(r) ==
    /\ pc[r] = "account" /\ reply[r].kind = "choices"
    /\ Goto(r, "store")
    /\ UNCHANGED <<call, sent, reply, persisted, answer, stores, windows>>

(* record_usage: one MULTI, skipped when there is nothing to add; its      *)
(* failure, before or after Redis ran it, is swallowed.                    *)
RecordUsage(r) ==
    LET p == PromptTokens(call[r])
        n == CompletionTokens(reply[r])
    IN  /\ pc[r] = "account"
        /\ \E recorded \in BOOLEAN :
              usage' = IF recorded
                       THEN [usage EXCEPT ![call[r].user.department] =
                               [prompt     |-> @.prompt + p,
                                completion |-> @.completion + n,
                                total      |-> @.total + p + n]]
                       ELSE usage
        /\ Goto(r, "store")
        /\ UNCHANGED <<call, sent, reply, persisted, answer, cache, audit, windows>>

\* Mutation: a response that could not be persisted is stored all the same.
StorableUnmasked(r) ==
    persisted[r].key # NoQuery /\ ~HasDocumentReference(call[r])

Storable(r) ==
    /\ persisted[r].key # NoQuery
    /\ ~HasDocumentReference(call[r])
    /\ persisted[r].response # None

(* SemanticCache.store always adds a point; its failure is swallowed.      *)
StoreAndReply(r) ==
    /\ pc[r] = "store"
    /\ \E raises \in BOOLEAN :
          cache' = IF Storable(r) /\ ~raises
                   THEN cache \cup {[id       |-> r,
                                     query    |-> persisted[r].key,
                                     response |-> persisted[r].response]}
                   ELSE cache
    /\ log_call(r, persisted[r].request, persisted[r].response, FALSE)
    /\ Answer(r, "upstream", LiveResponse(reply[r], call[r].user), r)
    /\ UNCHANGED <<call, sent, reply, persisted, usage, windows>>

-----------------------------------------------------------------------------
(* The environment: clients hang up while their body is read, and the      *)
(* process stops with every call in it.  Redis and the vector store on     *)
(* disk keep what they have.                                               *)

Disconnect(r) ==
    /\ pc[r] = "body"
    /\ Refuse(r, "lost")
    /\ UNCHANGED <<call, sent, reply, persisted, stores, windows>>

Crash ==
    /\ \E r \in Requests : pc[r] \in Parked
    /\ pc' = [r \in Requests |-> IF pc[r] \in Parked THEN "done" ELSE pc[r]]
    /\ answer' = [r \in Requests |->
                    IF pc[r] \in Parked THEN Reply("lost", None, r)
                                        ELSE answer[r]]
    /\ UNCHANGED <<call, sent, reply, persisted, stores, windows>>

Advance(r) ==
    \/ CheckChain(r)
    \/ CheckUser(r)
    \/ ChainLimiterFails(r)
    \/ UserLimiterFails(r)
    \/ Reject(r)
    \/ ServeFromCache(r)
    \/ Forward(r)
    \/ UpstreamUnavailable(r)
    \/ \E rep \in Replies(r) : UpstreamReplies(r, rep)
    \/ RecordUsage(r)
    \/ StoreAndReply(r)

Next ==
    \/ \E r \in Requests, c \in Calls : Receive(r, c)
    \/ \E r \in Requests : Advance(r) \/ Disconnect(r)
    \/ Crash

Spec == Init /\ [][Next]_vars

FairSpec == Spec /\ \A r \in Requests : WF_vars(Advance(r))
=============================================================================
