------------------------- MODULE GatewayProperties -------------------------
(***************************************************************************)
(* What makes Gateway correct: its type invariant, the safety properties,  *)
(* the abstract service it implements, and claims of the repository's own  *)
(* documents that the runs check against it.                               *)
(***************************************************************************)
EXTENDS Gateway

Points == [id : Requests, query : Queries, response : Content \ {None}]

Records ==
    [id : Requests, request : Content, response : Content, cache_hit : BOOLEAN]

TypeOK ==
    /\ pc \in [Requests -> Parked \cup {"idle", "done"}]
    /\ call \in [Requests -> Calls \cup {NoCall}]
    /\ sent \in [Requests -> [received : BOOLEAN, items : SUBSET Items,
                             tools : SUBSET ToolDefs]]
    /\ reply \in [Requests -> [kind : Kinds \cup {"none"}, ok : BOOLEAN,
                               items : SUBSET Items]]
    /\ persisted \in [Requests -> [request  : Content,
                                   key      : Queries \cup {NoQuery},
                                   response : Content]]
    /\ answer \in [Requests -> [reason  : Reasons,
                                content : Content,
                                source  : Requests]]
    /\ cache \subseteq Points
    /\ audit \subseteq Records
    /\ usage \in [Departments -> [prompt : Nat, completion : Nat, total : Nat]]
    /\ chain_window \in [Traces \cup Requests -> SUBSET Requests]
    /\ user_window \in [UserIds -> SUBSET Requests]

-----------------------------------------------------------------------------
(* What the scanners can read: an OpenAI-style request and reply.          *)
Scanned(r) == call[r].body # "unscanned" /\ reply[r].kind = "choices"

SafeToPersist(content) ==
    content.items \cap (most_restrictive_doc_tags \cup DocIds \cup PersistedEntities) = {}

(* The persisted-view guarantee (main.py:271-287, 355-386): whoever called *)
(* and whatever they may see live, neither a cached answer nor an audit    *)
(* record carries a passage any policy restricts, the body of a document,  *)
(* or a value of a persisted-view entity type.                             *)
PersistedViewGuarantee ==
    /\ \A p \in cache : Scanned(p.id) => SafeToPersist(p.response)
    /\ \A rec \in audit :
          /\ call[rec.id].body = "chat" => SafeToPersist(rec.request)
          /\ Scanned(answer[rec.id].source) => SafeToPersist(rec.response)

(* Whatever a user is answered, from the upstream or from an answer cached *)
(* for somebody else, carries no passage their policy restricts, no        *)
(* document they are not authorized for and no masked entity type they are *)
(* not exempt from (main.py:299-314, 347-353).                             *)
ServedWithinClearance ==
    \A r \in Requests :
        LET a    == answer[r]
            user == call[r].user
        IN  /\ a.reason \in {"cache_hit", "upstream"}
            /\ Scanned(a.source)
            => /\ a.content.items \cap policy_of(user).restricted_doc_tags = {}
               /\ \A d \in a.content.items \cap DocIds : is_authorized(d, user)
               /\ a.content.items \cap EntitiesToMask \subseteq
                     get_masking_exempt_entities(user)

(* The upstream receives, of a chat request, only passages, documents,     *)
(* entity types and tools the user's policy allows (main.py:224-266).      *)
UpstreamSeesOnlyPermitted ==
    \A r \in Requests :
        sent[r].received =>
            LET user == call[r].user
            IN  /\ \A t \in sent[r].tools \ {NoName} : can_use_tool(manifest(call[r]), t)
                /\ call[r].body = "chat" =>
                     /\ sent[r].items \cap policy_of(user).restricted_doc_tags = {}
                     /\ \A d \in sent[r].items \cap DocIds : is_authorized(d, user)
                     /\ sent[r].items \cap EntitiesToMask \subseteq
                           get_masking_exempt_entities(user)

(* Only reusable answers enter the cache and only reusable questions are   *)
(* answered from it: no tool survived the filter, no document was named, a *)
(* restricted context left a placeholder, and a hit returns what is stored *)
(* for a question near its own (main.py:289-314, 398-405).                 *)
CacheScope ==
    /\ \A p \in cache :
          LET c == call[p.id]
          IN  /\ FilteredTools(c) = {} /\ c.refs = {}
              /\ p.query = c.query
              /\ HadRestrictedContext(c) => p.response = Omitted
    /\ \A r \in Requests :
          answer[r].reason = "cache_hit" =>
              LET p == answer[r].source
              IN  /\ FilteredTools(call[r]) = {} /\ call[r].refs = {}
                  /\ Score[call[r].query, call[p].query] >= SimilarityThreshold
                  /\ \E point \in cache : /\ point.id = p
                                          /\ point.response = answer[r].content

Admitted(window, refusal) ==
    {r \in window : answer[r].reason \notin {refusal, "limiter_error"}}

(* However many attempts race, the calls each limiter let through that are *)
(* still in its window are within its limit; refused attempts occupy the   *)
(* window too (limiter.py:28-41, main.py:164-186).                         *)
AdmittedWithinLimits ==
    /\ \A k \in Traces \cup Requests :
          Cardinality(Admitted(chain_window[k], "chain_rate_limit")) <= ChainMax
    /\ \A u \in UserIds :
          Cardinality(Admitted(user_window[u], "rate_limit")) <= UserMax

\* The calls of a department that may have been accounted for.
Charged(d) ==
    {r \in Requests : /\ reply[r].kind \notin {"none", "malformed"}
                      /\ call[r].user.department = d
                      /\ pc[r] = "store" \/ answer[r].reason \in {"upstream", "lost"}}

(* Departments are charged at most once for a call, only for calls the     *)
(* upstream answered, never for refusals or hits, and the total is the sum *)
(* of its parts (main.py:391-396, token_accounting.py:76-85).              *)
UsageBound ==
    \A d \in Departments :
        /\ usage[d].total = usage[d].prompt + usage[d].completion
        /\ usage[d].prompt <= Cardinality({r \in Charged(d) : call[r].body = "chat"})
        /\ usage[d].completion <=
              Cardinality({r \in Charged(d) : reply[r].kind = "choices"})

(* Every call the process has begun is answered, or lost with the process  *)
(* or its client: the upstream client times out and Redis answers or fails.*)
EveryCallEnds ==
    \A r \in Requests : (pc[r] \in Parked) ~> (pc[r] = "done")

-----------------------------------------------------------------------------
(* The gateway keeps the books of GovernedService: answering a call and    *)
(* logging it are one step (main.py:299-314, 398-424), refusals touch      *)
(* neither the log nor the cache, and what a hit returns was stored by a   *)
(* call that had been answered itself.                                     *)
Status(r) ==
    IF pc[r] = "idle" THEN "new"
    ELSE IF pc[r] \in Parked THEN "open"
    ELSE IF answer[r].reason \in {"cache_hit", "upstream"} THEN "served"
    ELSE IF answer[r].reason = "lost" THEN "lost"
    ELSE "refused"

StatusOf == [r \in Requests |-> Status(r)]

LogOf == {[id |-> rec.id, source |-> answer[rec.id].source,
           reused |-> rec.cache_hit] : rec \in audit}

StockOf == {p.id : p \in cache}

Service == INSTANCE GovernedService
             WITH status <- StatusOf, log <- LogOf, stock <- StockOf

ImplementsService == Service!Spec

-----------------------------------------------------------------------------
(* Claims of the repository's documents.                                   *)

(* README.md:58, "responses are cached by meaning (not exact text match)   *)
(* for genuinely reusable answers": what a hit returns, with status 200,   *)
(* is text the upstream returned with a success status (main.py:309-314,   *)
(* 355-376, 398-405).                                                      *)
HitsReturnAnswers ==
    \A r \in Requests :
        answer[r].reason = "cache_hit" =>
            answer[r].content.form = "text" /\ reply[answer[r].source].ok

(* README.md:59, "every call logged to Langfuse": a call the upstream      *)
(* received and whose client was answered has an audit record              *)
(* (main.py:316-319, 335-353, 409-417).                                    *)
EveryForwardedCallAudited ==
    \A r \in Requests :
        /\ sent[r].received
        /\ answer[r].reason \notin {"pending", "lost"}
        => \E rec \in audit : rec.id = r

(* report.md:41, "Every request and response is scanned before it leaves   *)
(* or enters the gateway. Matches are replaced with typed placeholders ... *)
(* unless the caller's permission policy specifically exempts them": holds *)
(* for every reply, whatever its content type (main.py:327-353).           *)
EveryReplyMasked ==
    \A r \in Requests :
        answer[r].reason = "upstream" =>
            answer[r].content.items \cap EntitiesToMask \subseteq
                get_masking_exempt_entities(call[r].user)
=============================================================================
