-------------------------- MODULE GatewayInvariant --------------------------
(***************************************************************************)
(* The inductive invariant behind the safety theorems about Gateway.  Each *)
(* part says what one store holds in terms of the call it came from, so    *)
(* that a property of what is logged, cached or answered becomes one of    *)
(* the pure functions of Gateway.                                          *)
(***************************************************************************)
EXTENDS GatewayProperties

\* A call that has begun is one a client sent; one that waits has a user.
Entered ==
    \A r \in Requests :
        /\ pc[r] # "idle" => call[r] \in Calls
        /\ pc[r] \in Parked => call[r].user \in UserContext

TInv == TypeOK /\ Entered

Untouched(r) ==
    pc[r] = "idle" =>
        /\ ~sent[r].received
        /\ reply[r].kind = "none"
        /\ persisted[r].key = NoQuery
        /\ answer[r].reason = "pending"

\* What the upstream received is what the handler makes of the call.
SentAsGoverned(r) ==
    sent[r].received =>
        /\ call[r].user \in UserContext
        /\ sent[r].items = LiveRequest(call[r])
        /\ sent[r].tools \subseteq FilteredTools(call[r])

\* The upstream only repeats what it was sent, or says what it knows.
RepliedFromSent(r) ==
    reply[r].kind # "none" =>
        reply[r].items \subseteq LiveRequest(call[r]) \cup UpstreamEntities

Reusable(c) == FilteredTools(c) = {} /\ ~HasDocumentReference(c)

KeyOfReusable(r) ==
    persisted[r].key # NoQuery =>
        Reusable(call[r]) /\ persisted[r].key = CacheKey(call[r])

\* What waits to be logged and stored when the call ends.
InFlight(r) ==
    /\ pc[r] \in Parked => answer[r].reason = "pending"
    /\ pc[r] \in {"upstream", "account", "store"} =>
          /\ sent[r].received
          /\ persisted[r].request \in PersistedRequests(call[r])
    /\ pc[r] \in {"account", "store"} =>
          /\ reply[r].kind \notin {"none", "malformed"}
          /\ persisted[r].response \in PersistedResponses(call[r], reply[r])

AnsweredFromReply(r) ==
    answer[r].reason = "upstream" =>
        /\ pc[r] = "done"
        /\ call[r].user \in UserContext
        /\ reply[r].kind # "none"
        /\ answer[r].source = r
        /\ answer[r].content = LiveResponse(reply[r], call[r].user)

AnsweredFromCache(r) ==
    answer[r].reason = "cache_hit" =>
        /\ pc[r] = "done"
        /\ call[r].user \in UserContext
        /\ Reusable(call[r])
        /\ CacheKey(call[r]) # NoQuery
        /\ \E p \in cache :
              /\ p.id = answer[r].source
              /\ p.response = answer[r].content
              /\ Score[CacheKey(call[r]), p.query] >= SimilarityThreshold

CallInv(r) ==
    /\ Untouched(r)
    /\ SentAsGoverned(r)
    /\ RepliedFromSent(r)
    /\ KeyOfReusable(r)
    /\ InFlight(r)
    /\ AnsweredFromReply(r)

CacheInv ==
    \A p \in cache :
        /\ answer[p.id].reason = "upstream"
        /\ Reusable(call[p.id])
        /\ p.query # NoQuery
        /\ p.query = CacheKey(call[p.id])
        /\ p.response # None
        /\ p.response \in PersistedResponses(call[p.id], reply[p.id])

AuditInv ==
    \A rec \in audit :
        /\ rec.request \in PersistedRequests(call[rec.id])
        /\ \/ /\ rec.cache_hit
              /\ answer[rec.id].reason = "cache_hit"
              /\ rec.response = answer[rec.id].content
           \/ /\ ~rec.cache_hit
              /\ answer[rec.id].reason = "upstream"
              /\ rec.response \in PersistedResponses(call[rec.id], reply[rec.id])

(* Whatever is answered, cached or logged is the handler's own function of *)
(* the call and the reply it came from (main.py:224-424).                  *)
IInv ==
    /\ TInv
    /\ \A r \in Requests : CallInv(r)
    /\ \A r \in Requests : AnsweredFromCache(r)
    /\ CacheInv
    /\ AuditInv
=============================================================================
