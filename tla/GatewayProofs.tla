--------------------------- MODULE GatewayProofs ----------------------------
(***************************************************************************)
(* The types and the safety properties of Gateway, for every matrix,       *)
(* registry, set of calls and limits: TInv, then IInv, are inductive, and  *)
(* each property follows from IInv by what the handler's pure functions    *)
(* do to a set of items; then what Gateway does as a service.              *)
(***************************************************************************)
EXTENDS GatewayInvariant, PolicyProofs, FiniteSetTheorems

-----------------------------------------------------------------------------
(* What the handler makes of a call is of the right kind.                  *)

LEMMA CallType ==
    ASSUME NEW c \in Calls
    PROVE  /\ c.user \in UserContext \cup {NoUser}
           /\ c.body \in Bodies
           /\ c.tools \in SUBSET ToolDefs
           /\ c.items \in SUBSET (Tags \cup Entities)
           /\ c.refs \in SUBSET DocIds
           /\ c.query \in Queries \cup {NoQuery}
           /\ c.trace \in Traces \cup {NoTrace}
BY GatewayAssumption DEF Call

LEMMA ContentType ==
    /\ None \in Content
    /\ Omitted \in Content
    /\ Omitted # None
    /\ \A items \in SUBSET Items : Text(items) \in Content /\ Text(items) # None
BY DEF Content, None, Omitted, Text

LEMMA FilteredItems ==
    ASSUME NEW c \in Calls
    PROVE  PolicyFiltered(c) \subseteq Items
<1>1. c.items \subseteq Items /\ c.refs \subseteq DocIds
  BY CallType DEF Items
<1>2. CASE c.body = "chat"
  BY <1>1, <1>2 DEF PolicyFiltered, redact_system_prompt, redact_tags,
     resolve_document_references, Items
<1>3. CASE c.body = "unscanned"
  BY <1>1, <1>3 DEF PolicyFiltered
<1>4. CASE c.body \notin {"chat", "unscanned"}
  BY <1>4 DEF PolicyFiltered
<1> QED
  BY <1>2, <1>3, <1>4

LEMMA LiveRequestType ==
    ASSUME NEW c \in Calls
    PROVE  LiveRequest(c) \subseteq PolicyFiltered(c) /\ LiveRequest(c) \subseteq Items
BY FilteredItems DEF LiveRequest, LiveMask, mask_text

LEMMA FilteredToolsType ==
    ASSUME NEW c \in Calls
    PROVE  FilteredTools(c) \subseteq c.tools /\ FilteredTools(c) \in SUBSET ToolDefs
<1>1. FilteredTools(c) \subseteq c.tools
  BY DEF FilteredTools, filter_tools
<1> QED
  BY <1>1, CallType

LEMMA PersistedRequestType ==
    ASSUME NEW c \in Calls
    PROVE  PersistedRequests(c) \subseteq Content
<1>1. PersistedRequest(c) \in Content
  BY FilteredItems, ContentType DEF PersistedRequest, PersistedMask, mask_text,
     strip_document_content, redact_payload_for_persisted_view, redact_tags
<1> QED
  BY <1>1, ContentType DEF PersistedRequests

LEMMA PersistedResponseType ==
    ASSUME NEW c, NEW rep, rep.items \subseteq Items
    PROVE  PersistedResponses(c, rep) \subseteq Content
<1>1. PersistedView(rep) \in Content
  BY ContentType DEF PersistedView, PersistedMask, mask_text
<1> QED
  BY <1>1, ContentType DEF PersistedResponses

LEMMA CacheKeyType ==
    ASSUME NEW c \in Calls
    PROVE  CacheKey(c) \in Queries \cup {NoQuery}
BY CallType DEF CacheKey

LEMMA ChainKeyType ==
    ASSUME NEW c \in Calls, NEW r \in Requests
    PROVE  ChainKey(r, c) \in Traces \cup Requests
BY CallType DEF ChainKey

LEMMA TokensType ==
    ASSUME NEW c, NEW rep
    PROVE  PromptTokens(c) \in Nat /\ CompletionTokens(rep) \in Nat
BY DEF PromptTokens, CompletionTokens

-----------------------------------------------------------------------------
LEMMA InitType == Init => TInv
<1> SUFFICES ASSUME Init PROVE TInv
  OBVIOUS
<1>1. None \in Content
  BY ContentType
<1>2. TypeOK
  BY <1>1 DEF Init, TypeOK, Parked, Reasons, Kinds, Reply, NotSent, NoReply,
              NoPersisted, NoUsage
<1>3. Entered
  BY DEF Init, Entered, Parked
<1> QED
  BY <1>2, <1>3 DEF TInv

LEMMA AnswerType ==
    ASSUME TypeOK, NEW r \in Requests, NEW why \in Reasons, NEW what \in Content,
           NEW src \in Requests, Answer(r, why, what, src)
    PROVE  /\ pc' \in [Requests -> Parked \cup {"idle", "done"}]
           /\ answer' \in [Requests -> [reason : Reasons, content : Content,
                                        source : Requests]]
           /\ pc'[r] = "done"
           /\ \A q \in Requests : q # r => pc'[q] = pc[q]
BY DEF TypeOK, Answer, Goto, Reply

LEMMA GotoType ==
    ASSUME TypeOK, NEW r \in Requests, NEW point \in Parked, Goto(r, point)
    PROVE  /\ pc' \in [Requests -> Parked \cup {"idle", "done"}]
           /\ pc'[r] = point
           /\ \A q \in Requests : q # r => pc'[q] = pc[q]
BY DEF TypeOK, Goto

LEMMA ReceiveType ==
    ASSUME TInv, NEW r \in Requests, NEW c \in Calls, Receive(r, c)
    PROVE  TInv'
<1>1. call' \in [Requests -> Calls \cup {NoCall}]
  BY DEF TInv, TypeOK, Receive
<1>2. /\ pc' \in [Requests -> Parked \cup {"idle", "done"}]
      /\ answer' \in [Requests -> [reason : Reasons, content : Content,
                                   source : Requests]]
      /\ pc'[r] \in {"chain", "done"}
      /\ pc'[r] = "chain" => c.user # NoUser
      /\ \A q \in Requests : q # r => pc'[q] = pc[q]
  <2>1. CASE Goto(r, "chain") /\ c.user # NoUser /\ UNCHANGED answer
    BY <2>1, GotoType DEF TInv, TypeOK, Parked
  <2>2. CASE \E why \in {"unauthorized", "delegation_depth_exceeded"} : Refuse(r, why)
    BY <2>2, AnswerType, ContentType DEF TInv, Refuse, Reasons
  <2> QED
    BY <2>1, <2>2 DEF Receive, Authenticated
<1>3. TypeOK'
  BY <1>1, <1>2 DEF TInv, TypeOK, Receive, stores, windows
<1>4. Entered'
  BY <1>1, <1>2, CallType DEF TInv, TypeOK, Entered, Receive, Parked
<1> QED
  BY <1>3, <1>4 DEF TInv

(* The limiters' answers.  Only the windows and the call itself change.    *)
LEMMA LimiterType ==
    ASSUME TInv, NEW r \in Requests,
           CheckChain(r) \/ CheckUser(r) \/ ChainLimiterFails(r) \/ UserLimiterFails(r)
    PROVE  TInv'
<1>1. call[r] \in Calls /\ call[r].user \in UserContext
  BY DEF TInv, Entered, TypeOK, CheckChain, CheckUser, ChainLimiterFails,
         UserLimiterFails, Parked
<1>2. /\ pc' \in [Requests -> Parked \cup {"idle", "done"}]
      /\ answer' \in [Requests -> [reason : Reasons, content : Content,
                                   source : Requests]]
      /\ \A q \in Requests : q # r => pc'[q] = pc[q]
  <2>1. CASE \E point \in {"user", "body"} : Goto(r, point) /\ UNCHANGED answer
    BY <2>1, GotoType DEF TInv, TypeOK, Parked
  <2>2. CASE \E why \in {"chain_rate_limit", "rate_limit", "limiter_error"} :
                Refuse(r, why)
    BY <2>2, AnswerType, ContentType DEF TInv, Refuse, Reasons
  <2> QED
    BY <2>1, <2>2 DEF CheckChain, CheckUser, ChainLimiterFails, UserLimiterFails
<1>3. chain_window' \in [Traces \cup Requests -> SUBSET Requests]
  <2>1. \A key \in Traces \cup Requests :
           Recorded(chain_window[key], r) \subseteq SUBSET Requests
    BY DEF TInv, TypeOK, Recorded
  <2>2. ChainKey(r, call[r]) \in Traces \cup Requests
    BY <1>1, ChainKeyType
  <2>3. \/ chain_window' = chain_window
        \/ \E window \in SUBSET Requests :
             chain_window' = [chain_window EXCEPT ![ChainKey(r, call[r])] = window]
    <3>1. chain_window[ChainKey(r, call[r])] \in SUBSET Requests
      BY <2>2 DEF TInv, TypeOK
    <3>2. CASE CheckChain(r)
      BY <2>1, <2>2, <3>2 DEF CheckChain
    <3>3. CASE CheckUser(r)
      BY <2>1, <2>2, <3>3 DEF CheckUser
    <3>4. CASE ChainLimiterFails(r)
      BY <2>1, <2>2, <3>1, <3>4 DEF ChainLimiterFails
    <3>5. CASE UserLimiterFails(r)
      BY <2>1, <2>2, <3>1, <3>5 DEF UserLimiterFails
    <3> QED
      BY <3>2, <3>3, <3>4, <3>5
  <2> QED
    BY <2>2, <2>3 DEF TInv, TypeOK
<1>4. user_window' \in [UserIds -> SUBSET Requests]
  <2>1. \A key \in UserIds : Recorded(user_window[key], r) \subseteq SUBSET Requests
    BY DEF TInv, TypeOK, Recorded
  <2>2. call[r].user.user_id \in UserIds
    BY <1>1 DEF UserContext
  <2>3. \/ user_window' = user_window
        \/ \E window \in SUBSET Requests :
             user_window' = [user_window EXCEPT ![call[r].user.user_id] = window]
    <3>1. user_window[call[r].user.user_id] \in SUBSET Requests
      BY <2>2 DEF TInv, TypeOK
    <3>2. CASE CheckChain(r)
      BY <2>1, <2>2, <3>2 DEF CheckChain
    <3>3. CASE CheckUser(r)
      BY <2>1, <2>2, <3>3 DEF CheckUser
    <3>4. CASE ChainLimiterFails(r)
      BY <2>1, <2>2, <3>1, <3>4 DEF ChainLimiterFails
    <3>5. CASE UserLimiterFails(r)
      BY <2>1, <2>2, <3>1, <3>5 DEF UserLimiterFails
    <3> QED
      BY <3>2, <3>3, <3>4, <3>5
  <2> QED
    BY <2>2, <2>3 DEF TInv, TypeOK
<1>5. UNCHANGED <<call, sent, reply, persisted, cache, audit, usage>>
  BY DEF CheckChain, CheckUser, ChainLimiterFails, UserLimiterFails, stores
<1>6. TypeOK'
  BY <1>2, <1>3, <1>4, <1>5 DEF TInv, TypeOK
<1>7. Entered'
  BY <1>1, <1>2, <1>5 DEF TInv, TypeOK, Entered, Parked
<1> QED
  BY <1>6, <1>7 DEF TInv

(* Refusals that touch nothing else: Reject, UpstreamUnavailable and       *)
(* Disconnect.                                                             *)
LEMMA RefusalType ==
    ASSUME TInv, NEW r \in Requests, Reject(r) \/ UpstreamUnavailable(r) \/ Disconnect(r)
    PROVE  TInv'
<1>1. \E why \in Reasons : Refuse(r, why)
  BY DEF Reject, UpstreamUnavailable, Disconnect, Reasons
<1>2. /\ pc' \in [Requests -> Parked \cup {"idle", "done"}]
      /\ answer' \in [Requests -> [reason : Reasons, content : Content,
                                   source : Requests]]
      /\ pc'[r] = "done"
      /\ \A q \in Requests : q # r => pc'[q] = pc[q]
  BY <1>1, AnswerType, ContentType DEF TInv, Refuse
<1>3. pc[r] \in Parked
  BY DEF Reject, UpstreamUnavailable, Disconnect, Parked
<1>4. UNCHANGED <<call, sent, reply, persisted, stores, windows>>
  BY DEF Reject, UpstreamUnavailable, Disconnect
<1>5. TypeOK'
  BY <1>2, <1>4 DEF TInv, TypeOK, stores, windows
<1>6. Entered'
  BY <1>2, <1>3, <1>4 DEF TInv, TypeOK, Entered, Parked
<1> QED
  BY <1>5, <1>6 DEF TInv

LEMMA ServeFromCacheType ==
    ASSUME TInv, NEW r \in Requests, ServeFromCache(r)
    PROVE  TInv'
<1>1. call[r] \in Calls /\ pc[r] \in Parked
  BY DEF TInv, Entered, TypeOK, ServeFromCache, Parked
<1>2. PICK request \in PersistedRequests(call[r]), point \in lookup(CacheKey(call[r])) :
         /\ log_call(r, request, point.response, TRUE)
         /\ Answer(r, "cache_hit", point.response, point.id)
         /\ persisted' = [persisted EXCEPT ![r] =
                            [request |-> request, key |-> CacheKey(call[r]),
                             response |-> None]]
  BY DEF ServeFromCache
<1>3. request \in Content
  BY <1>1, PersistedRequestType
<1>4. point \in Points
  BY DEF lookup, TInv, TypeOK
<1>5. point.response \in Content /\ point.id \in Requests
  BY <1>4 DEF Points
<1>6. /\ pc' \in [Requests -> Parked \cup {"idle", "done"}]
      /\ answer' \in [Requests -> [reason : Reasons, content : Content,
                                   source : Requests]]
      /\ pc'[r] = "done"
      /\ \A q \in Requests : q # r => pc'[q] = pc[q]
  BY <1>2, <1>5, AnswerType DEF TInv, Reasons
<1>7. audit' \subseteq Records
  <2>1. [id |-> r, request |-> request, response |-> point.response,
         cache_hit |-> TRUE] \in Records
    BY <1>3, <1>5 DEF Records
  <2> QED
    BY <1>2, <2>1 DEF TInv, TypeOK, log_call
<1>8. persisted' \in [Requests -> [request  : Content,
                                   key      : Queries \cup {NoQuery},
                                   response : Content]]
  BY <1>1, <1>2, <1>3, CacheKeyType, ContentType DEF TInv, TypeOK
<1>9. UNCHANGED <<call, sent, reply, cache, usage, windows>>
  BY DEF ServeFromCache
<1>10. TypeOK'
  BY <1>6, <1>7, <1>8, <1>9 DEF TInv, TypeOK, windows
<1>11. Entered'
  BY <1>1, <1>6, <1>9 DEF TInv, TypeOK, Entered, Parked
<1> QED
  BY <1>10, <1>11 DEF TInv

LEMMA ForwardType ==
    ASSUME TInv, NEW r \in Requests, Forward(r)
    PROVE  TInv'
<1>1. call[r] \in Calls /\ call[r].user \in UserContext
  BY DEF TInv, Entered, TypeOK, Forward, Parked
<1>2. PICK request \in PersistedRequests(call[r]), eligible \in BOOLEAN :
         persisted' = [persisted EXCEPT ![r] =
            [request  |-> request,
             key      |-> IF eligible THEN CacheKey(call[r]) ELSE NoQuery,
             response |-> None]]
  BY DEF Forward, CacheEligible
<1>3. request \in Content
  BY <1>1, PersistedRequestType
<1>4. persisted' \in [Requests -> [request  : Content,
                                   key      : Queries \cup {NoQuery},
                                   response : Content]]
  BY <1>1, <1>2, <1>3, CacheKeyType, ContentType DEF TInv, TypeOK
<1>5. sent' \in [Requests -> [received : BOOLEAN, items : SUBSET Items,
                              tools : SUBSET ToolDefs]]
  BY <1>1, LiveRequestType, FilteredToolsType DEF TInv, TypeOK, Forward
<1>6. /\ pc' \in [Requests -> Parked \cup {"idle", "done"}]
      /\ \A q \in Requests : q # r => pc'[q] = pc[q]
  BY GotoType DEF TInv, Forward, Parked
<1>7. UNCHANGED <<call, reply, answer, stores, windows>>
  BY DEF Forward
<1>8. TypeOK'
  BY <1>4, <1>5, <1>6, <1>7 DEF TInv, TypeOK, stores, windows
<1>9. Entered'
  BY <1>1, <1>6, <1>7 DEF TInv, TypeOK, Entered, Parked
<1> QED
  BY <1>8, <1>9 DEF TInv

LEMMA ReplyType ==
    ASSUME TInv, NEW r \in Requests, NEW rep \in Replies(r)
    PROVE  /\ rep \in [kind : Kinds \cup {"none"}, ok : BOOLEAN, items : SUBSET Items]
           /\ rep.kind \in Kinds
           /\ rep.items \subseteq sent[r].items \cup UpstreamEntities
<1>1. sent[r].items \cup UpstreamEntities \subseteq Items
  BY GatewayAssumption DEF TInv, TypeOK, Items
<1>2. PICK shape \in ReplyShapes, items \in SUBSET (sent[r].items \cup UpstreamEntities) :
         rep = [kind |-> shape[1], ok |-> shape[2], items |-> items]
  BY DEF Replies
<1>3. shape[1] \in Kinds /\ shape[2] \in BOOLEAN
  BY GatewayAssumption
<1> QED
  BY <1>1, <1>2, <1>3

LEMMA UpstreamRepliesType ==
    ASSUME TInv, NEW r \in Requests, NEW rep \in Replies(r), UpstreamReplies(r, rep)
    PROVE  TInv'
<1>1. call[r] \in Calls /\ call[r].user \in UserContext
  BY DEF TInv, Entered, TypeOK, UpstreamReplies, Parked
<1>2. reply' \in [Requests -> [kind : Kinds \cup {"none"}, ok : BOOLEAN,
                               items : SUBSET Items]]
  BY ReplyType DEF TInv, TypeOK, UpstreamReplies
<1>3. PersistedResponses(call[r], rep) \subseteq Content
  BY ReplyType, PersistedResponseType
<1>4. persisted' \in [Requests -> [request  : Content,
                                   key      : Queries \cup {NoQuery},
                                   response : Content]]
  <2>1. CASE UNCHANGED persisted
    BY <2>1 DEF TInv, TypeOK
  <2>2. CASE \E response \in PersistedResponses(call[r], rep) :
                persisted' = [persisted EXCEPT ![r].response = response]
    <3>1. PICK response \in Content :
             persisted' = [persisted EXCEPT ![r].response = response]
      BY <1>3, <2>2
    <3>2. persisted' = [persisted EXCEPT ![r] = [@ EXCEPT !.response = response]]
      BY <3>1
    <3>3. [persisted[r] EXCEPT !.response = response] \in
             [request : Content, key : Queries \cup {NoQuery}, response : Content]
      <4>1. persisted[r] \in
               [request : Content, key : Queries \cup {NoQuery}, response : Content]
        BY DEF TInv, TypeOK
      <4> QED
        BY <4>1
    <3> QED
      BY <3>2, <3>3 DEF TInv, TypeOK
  <2> QED
    BY <2>1, <2>2 DEF UpstreamReplies
<1>5. /\ pc' \in [Requests -> Parked \cup {"idle", "done"}]
      /\ answer' \in [Requests -> [reason : Reasons, content : Content,
                                   source : Requests]]
      /\ \A q \in Requests : q # r => pc'[q] = pc[q]
  <2>1. CASE Goto(r, "account") /\ UNCHANGED answer
    BY <2>1, GotoType DEF TInv, TypeOK, Parked
  <2>2. CASE \E why \in {"malformed_upstream", "internal_error"} : Refuse(r, why)
    BY <2>2, AnswerType, ContentType DEF TInv, Refuse, Reasons
  <2> QED
    BY <2>1, <2>2 DEF UpstreamReplies
<1>6. UNCHANGED <<call, sent, stores, windows>>
  BY DEF UpstreamReplies
<1>7. TypeOK'
  BY <1>2, <1>4, <1>5, <1>6 DEF TInv, TypeOK, stores, windows
<1>8. Entered'
  BY <1>1, <1>5, <1>6 DEF TInv, TypeOK, Entered, Parked
<1> QED
  BY <1>7, <1>8 DEF TInv

LEMMA RecordUsageType ==
    ASSUME TInv, NEW r \in Requests, RecordUsage(r)
    PROVE  TInv'
<1>1. call[r] \in Calls /\ call[r].user.department \in Departments
  BY DEF TInv, Entered, TypeOK, RecordUsage, Parked, UserContext
<1>2. usage' \in [Departments -> [prompt : Nat, completion : Nat, total : Nat]]
  <2>1. PromptTokens(call[r]) \in Nat /\ CompletionTokens(reply[r]) \in Nat
    BY TokensType
  <2> QED
    BY <1>1, <2>1 DEF TInv, TypeOK, RecordUsage
<1>3. /\ pc' \in [Requests -> Parked \cup {"idle", "done"}]
      /\ \A q \in Requests : q # r => pc'[q] = pc[q]
  BY GotoType DEF TInv, RecordUsage, Parked
<1>4. pc[r] \in Parked
  BY DEF RecordUsage, Parked
<1>5. UNCHANGED <<call, sent, reply, persisted, answer, cache, audit, windows>>
  BY DEF RecordUsage
<1>6. TypeOK'
  BY <1>2, <1>3, <1>5 DEF TInv, TypeOK, windows
<1>7. Entered'
  BY <1>3, <1>4, <1>5 DEF TInv, TypeOK, Entered, Parked
<1> QED
  BY <1>6, <1>7 DEF TInv

LEMMA StoreAndReplyType ==
    ASSUME TInv, NEW r \in Requests, StoreAndReply(r)
    PROVE  TInv'
<1>1. pc[r] \in Parked
  BY DEF StoreAndReply, Parked
<1>2. /\ persisted[r].request \in Content /\ persisted[r].response \in Content
      /\ persisted[r].key \in Queries \cup {NoQuery}
      /\ reply[r].items \in SUBSET Items
  BY DEF TInv, TypeOK
<1>3. cache' \subseteq Points
  BY <1>2 DEF TInv, TypeOK, StoreAndReply, Storable, Points
<1>4. audit' \subseteq Records
  <2>1. [id |-> r, request |-> persisted[r].request,
         response |-> persisted[r].response, cache_hit |-> FALSE] \in Records
    BY <1>2 DEF Records
  <2> QED
    BY <2>1 DEF TInv, TypeOK, StoreAndReply, log_call
<1>5. LiveResponse(reply[r], call[r].user) \in Content
  BY <1>2, ContentType DEF LiveResponse, LiveMask, mask_text
<1>6. /\ pc' \in [Requests -> Parked \cup {"idle", "done"}]
      /\ answer' \in [Requests -> [reason : Reasons, content : Content,
                                   source : Requests]]
      /\ pc'[r] = "done"
      /\ \A q \in Requests : q # r => pc'[q] = pc[q]
  BY <1>5, AnswerType DEF TInv, StoreAndReply, Reasons
<1>7. UNCHANGED <<call, sent, reply, persisted, usage, windows>>
  BY DEF StoreAndReply
<1>8. TypeOK'
  BY <1>3, <1>4, <1>6, <1>7 DEF TInv, TypeOK, windows
<1>9. Entered'
  BY <1>1, <1>6, <1>7 DEF TInv, TypeOK, Entered, Parked
<1> QED
  BY <1>8, <1>9 DEF TInv

LEMMA CrashType ==
    ASSUME TInv, Crash
    PROVE  TInv'
<1>1. pc' \in [Requests -> Parked \cup {"idle", "done"}]
  BY DEF TInv, TypeOK, Crash
<1>2. answer' \in [Requests -> [reason : Reasons, content : Content,
                                source : Requests]]
  BY ContentType DEF TInv, TypeOK, Crash, Reply, Reasons
<1>3. UNCHANGED <<call, sent, reply, persisted, stores, windows>>
  BY DEF Crash
<1>4. TypeOK'
  BY <1>1, <1>2, <1>3 DEF TInv, TypeOK, stores, windows
<1>5. Entered'
  BY <1>3 DEF TInv, TypeOK, Entered, Crash, Parked
<1> QED
  BY <1>4, <1>5 DEF TInv

LEMMA StutterType ==
    ASSUME TInv, UNCHANGED vars
    PROVE  TInv'
BY DEF TInv, TypeOK, Entered, vars

LEMMA TypeStep ==
    ASSUME TInv, [Next]_vars
    PROVE  TInv'
<1>1. ASSUME NEW r \in Requests, NEW c \in Calls, Receive(r, c) PROVE TInv'
  BY <1>1, ReceiveType
<1>2. ASSUME NEW r \in Requests, Advance(r) PROVE TInv'
  BY <1>2, LimiterType, RefusalType, ServeFromCacheType, ForwardType,
     UpstreamRepliesType, RecordUsageType, StoreAndReplyType DEF Advance
<1>3. ASSUME NEW r \in Requests, Disconnect(r) PROVE TInv'
  BY <1>3, RefusalType
<1> QED
  BY <1>1, <1>2, <1>3, CrashType, StutterType DEF Next

(* Every variable keeps its type, and every cached point carries a         *)
(* response, in every behaviour.                                           *)
THEOREM TypeCorrect == Spec => []TypeOK
<1>1. TInv /\ [Next]_vars => TInv'
  BY TypeStep
<1>2. TInv => TypeOK
  BY DEF TInv
<1> QED
  BY InitType, <1>1, <1>2, PTL DEF Spec

-----------------------------------------------------------------------------
(* What a step leaves alone.                                               *)
SameCall(q) ==
    /\ pc'[q] = pc[q]
    /\ call'[q] = call[q]
    /\ sent'[q] = sent[q]
    /\ reply'[q] = reply[q]
    /\ persisted'[q] = persisted[q]
    /\ answer'[q] = answer[q]

Kept(q) ==
    /\ call'[q] = call[q]
    /\ reply'[q] = reply[q]
    /\ answer'[q] = answer[q]

LEMMA SameCallInv ==
    ASSUME NEW q \in Requests, CallInv(q), SameCall(q)
    PROVE  CallInv(q)'
BY DEF CallInv, SameCall, Untouched, SentAsGoverned, RepliedFromSent,
       KeyOfReusable, InFlight, AnsweredFromReply

LEMMA SameHit ==
    ASSUME NEW q \in Requests, AnsweredFromCache(q), SameCall(q),
           cache \subseteq cache'
    PROVE  AnsweredFromCache(q)'
BY DEF AnsweredFromCache, SameCall

LEMMA PendingUnlessDone ==
    ASSUME IInv, NEW q \in Requests, pc[q] # "done"
    PROVE  answer[q].reason \notin {"cache_hit", "upstream"}
BY DEF IInv, CallInv, AnsweredFromReply, AnsweredFromCache

LEMMA KeptBooks ==
    ASSUME IInv,
           \A q \in Requests :
              answer[q].reason \in {"cache_hit", "upstream"} => Kept(q)
    PROVE  /\ cache' = cache => CacheInv'
           /\ audit' = audit => AuditInv'
<1>1. ASSUME cache' = cache PROVE CacheInv'
  <2> SUFFICES ASSUME NEW p \in cache
               PROVE  /\ answer'[p.id].reason = "upstream"
                      /\ Reusable(call'[p.id])
                      /\ p.query # NoQuery
                      /\ p.query = CacheKey(call'[p.id])
                      /\ p.response # None
                      /\ p.response \in PersistedResponses(call'[p.id], reply'[p.id])
    BY <1>1 DEF CacheInv
  <2>1. p.id \in Requests
    BY DEF IInv, TInv, TypeOK, Points
  <2> QED
    BY <2>1 DEF IInv, CacheInv, Kept
<1>2. ASSUME audit' = audit PROVE AuditInv'
  <2> SUFFICES ASSUME NEW rec \in audit
               PROVE  /\ rec.request \in PersistedRequests(call'[rec.id])
                      /\ \/ /\ rec.cache_hit
                            /\ answer'[rec.id].reason = "cache_hit"
                            /\ rec.response = answer'[rec.id].content
                         \/ /\ ~rec.cache_hit
                            /\ answer'[rec.id].reason = "upstream"
                            /\ rec.response \in
                                 PersistedResponses(call'[rec.id], reply'[rec.id])
    BY <1>2 DEF AuditInv
  <2>1. rec.id \in Requests
    BY DEF IInv, TInv, TypeOK, Records
  <2>2. answer[rec.id].reason \in {"cache_hit", "upstream"}
    BY DEF IInv, AuditInv
  <2>3. Kept(rec.id)
    BY <2>1, <2>2
  <2> QED
    BY <2>3 DEF IInv, AuditInv, Kept
<1> QED
  BY <1>1, <1>2

(* A step of one call that neither answers from the cache nor touches the  *)
(* cache or the audit log.                                                 *)
LEMMA QuietStep ==
    ASSUME IInv, TInv', NEW r \in Requests, pc[r] # "done",
           \A q \in Requests : q # r => SameCall(q),
           CallInv(r)', answer'[r].reason # "cache_hit",
           cache' = cache, audit' = audit
    PROVE  IInv'
<1>1. \A q \in Requests : CallInv(q)'
  <2> TAKE q \in Requests
  <2> QED
    BY SameCallInv DEF IInv
<1>2. \A q \in Requests : AnsweredFromCache(q)'
  <2>1. AnsweredFromCache(r)'
    BY DEF AnsweredFromCache
  <2>2. ASSUME NEW q \in Requests, q # r PROVE AnsweredFromCache(q)'
    BY <2>2, SameHit DEF IInv
  <2> QED
    BY <2>1, <2>2
<1>3. \A q \in Requests :
         answer[q].reason \in {"cache_hit", "upstream"} => Kept(q)
  BY PendingUnlessDone DEF SameCall, Kept
<1> QED
  BY <1>1, <1>2, <1>3, KeptBooks DEF IInv

-----------------------------------------------------------------------------
(* Each action keeps the invariant.                                        *)
LEMMA AnswerEffect ==
    ASSUME TypeOK, NEW r \in Requests, NEW why, NEW what, NEW src,
           Answer(r, why, what, src)
    PROVE  /\ pc'[r] = "done"
           /\ answer'[r].reason = why
           /\ answer'[r].content = what
           /\ answer'[r].source = src
           /\ \A q \in Requests : q # r => pc'[q] = pc[q] /\ answer'[q] = answer[q]
BY DEF TypeOK, Answer, Goto, Reply

LEMMA RefuseEffect ==
    ASSUME TypeOK, NEW r \in Requests, NEW why, Refuse(r, why)
    PROVE  /\ pc'[r] = "done"
           /\ answer'[r].reason = why
           /\ \A q \in Requests : q # r => pc'[q] = pc[q] /\ answer'[q] = answer[q]
BY AnswerEffect DEF Refuse

LEMMA GotoEffect ==
    ASSUME TypeOK, NEW r \in Requests, NEW point, Goto(r, point)
    PROVE  /\ pc'[r] = point
           /\ \A q \in Requests : q # r => pc'[q] = pc[q]
BY DEF TypeOK, Goto

\* The reasons of calls that were answered, but not with an upstream reply.
Refusals == Reasons \ {"pending", "cache_hit", "upstream"}

LEMMA ReceiveInv ==
    ASSUME IInv, TInv', NEW r \in Requests, NEW c \in Calls, Receive(r, c)
    PROVE  IInv'
<1>1. TypeOK /\ pc[r] = "idle"
  BY DEF IInv, TInv, Receive
<1>2. /\ UNCHANGED <<sent, reply, persisted, cache, audit>>
      /\ \A q \in Requests : q # r => call'[q] = call[q]
  BY <1>1 DEF Receive, TypeOK, stores
<1>3. ~sent[r].received /\ reply[r].kind = "none" /\ persisted[r].key = NoQuery
  BY <1>1 DEF IInv, CallInv, Untouched
<1>4. /\ \/ pc'[r] = "chain" /\ answer'[r] = answer[r]
         \/ pc'[r] = "done" /\ answer'[r].reason \in Refusals
      /\ \A q \in Requests : q # r => pc'[q] = pc[q] /\ answer'[q] = answer[q]
  <2>1. CASE Goto(r, "chain") /\ UNCHANGED answer
    BY <1>1, <2>1, GotoEffect
  <2>2. CASE \E why \in {"unauthorized", "delegation_depth_exceeded"} : Refuse(r, why)
    BY <1>1, <2>2, RefuseEffect DEF Refusals, Reasons
  <2> QED
    BY <2>1, <2>2 DEF Receive
<1>5. answer[r].reason = "pending"
  BY <1>1 DEF IInv, CallInv, Untouched
<1>6. CallInv(r)'
  BY <1>2, <1>3, <1>4, <1>5 DEF CallInv, Untouched, SentAsGoverned, RepliedFromSent,
     KeyOfReusable, InFlight, AnsweredFromReply, Refusals, Parked
<1> QED
  BY <1>1, <1>2, <1>4, <1>5, <1>6, QuietStep DEF SameCall, Refusals

LEMMA RefusalInv ==
    ASSUME IInv, TInv', NEW r \in Requests, pc[r] \in Parked,
           NEW why \in Refusals, Refuse(r, why),
           UNCHANGED <<call, sent, persisted, cache, audit>>,
           \A q \in Requests : q # r => reply'[q] = reply[q],
           RepliedFromSent(r)'
    PROVE  IInv'
<1>1. TypeOK
  BY DEF IInv, TInv
<1>2. /\ pc'[r] = "done"
      /\ answer'[r].reason = why
      /\ \A q \in Requests : q # r => pc'[q] = pc[q] /\ answer'[q] = answer[q]
  BY <1>1, RefuseEffect
<1>3. CallInv(r)
  BY DEF IInv
<1>4. CallInv(r)'
  BY <1>2, <1>3 DEF CallInv, Untouched, SentAsGoverned, RepliedFromSent,
     KeyOfReusable, InFlight, AnsweredFromReply, Refusals, Parked
<1> QED
  BY <1>2, <1>4, QuietStep DEF SameCall, Refusals, Parked

LEMMA LimiterInv ==
    ASSUME IInv, TInv', NEW r \in Requests,
           CheckChain(r) \/ CheckUser(r) \/ ChainLimiterFails(r) \/ UserLimiterFails(r)
    PROVE  IInv'
<1>1. TypeOK /\ CallInv(r)
  BY DEF IInv, TInv
<1>2. pc[r] \in {"chain", "user"}
  BY DEF CheckChain, CheckUser, ChainLimiterFails, UserLimiterFails
<1>3. UNCHANGED <<call, sent, reply, persisted, cache, audit>>
  BY DEF CheckChain, CheckUser, ChainLimiterFails, UserLimiterFails, stores
<1>4. RepliedFromSent(r)'
  BY <1>1, <1>3 DEF CallInv, RepliedFromSent
<1>5. CASE \E point \in {"user", "body"} : Goto(r, point) /\ UNCHANGED answer
  <2>1. /\ pc'[r] \in {"user", "body"}
        /\ \A q \in Requests : q # r => pc'[q] = pc[q]
    BY <1>1, <1>5, GotoEffect
  <2>2. answer[r].reason = "pending"
    BY <1>1, <1>2 DEF CallInv, InFlight, Parked
  <2>3. CallInv(r)'
    BY <1>1, <1>3, <1>5, <2>1, <2>2 DEF CallInv, Untouched, SentAsGoverned,
       RepliedFromSent, KeyOfReusable, InFlight, AnsweredFromReply, Parked
  <2> QED
    BY <1>2, <1>3, <1>5, <2>1, <2>2, <2>3, QuietStep DEF SameCall
<1>6. CASE \E why \in {"chain_rate_limit", "rate_limit", "limiter_error"} : Refuse(r, why)
  BY <1>2, <1>3, <1>4, <1>6, RefusalInv DEF Refusals, Reasons, Parked
<1> QED
  BY <1>5, <1>6 DEF CheckChain, CheckUser, ChainLimiterFails, UserLimiterFails

LEMMA RefusedInv ==
    ASSUME IInv, TInv', NEW r \in Requests,
           Reject(r) \/ UpstreamUnavailable(r) \/ Disconnect(r)
    PROVE  IInv'
<1>1. CallInv(r)
  BY DEF IInv
<1>2. /\ pc[r] \in Parked
      /\ UNCHANGED <<call, sent, reply, persisted, cache, audit>>
  BY DEF Reject, UpstreamUnavailable, Disconnect, stores, Parked
<1>3. RepliedFromSent(r)'
  BY <1>1, <1>2 DEF CallInv, RepliedFromSent
<1>4. \E why \in {"invalid_json", "insufficient_clearance", "internal_error",
                  "content_flagged", "upstream_unavailable", "lost"} : Refuse(r, why)
  BY DEF Reject, UpstreamUnavailable, Disconnect
<1> QED
  BY <1>2, <1>3, <1>4, RefusalInv DEF Refusals, Reasons

LEMMA ForwardInv ==
    ASSUME IInv, TInv', NEW r \in Requests, Forward(r)
    PROVE  IInv'
<1>1. TypeOK /\ CallInv(r) /\ pc[r] = "body" /\ call[r].user \in UserContext
  BY DEF IInv, TInv, Entered, Forward, Parked
<1>2. /\ UNCHANGED <<call, reply, answer, cache, audit>>
      /\ \A q \in Requests : q # r => sent'[q] = sent[q] /\ persisted'[q] = persisted[q]
  BY <1>1 DEF Forward, TypeOK, stores
<1>3. /\ pc'[r] = "upstream"
      /\ \A q \in Requests : q # r => pc'[q] = pc[q]
  BY <1>1, GotoEffect DEF Forward
<1>4. SentAsGoverned(r)' /\ sent'[r].received
  BY <1>1, <1>2 DEF Forward, TypeOK, SentAsGoverned
<1>5. KeyOfReusable(r)' /\ persisted'[r].request \in PersistedRequests(call[r])
  BY <1>1, <1>2 DEF Forward, TypeOK, KeyOfReusable, CacheEligible, Reusable
<1>6. CallInv(r)'
  BY <1>1, <1>2, <1>3, <1>4, <1>5 DEF CallInv, Untouched, RepliedFromSent, InFlight,
     AnsweredFromReply, Parked
<1>7. answer[r].reason = "pending"
  BY <1>1 DEF CallInv, InFlight, Parked
<1> QED
  BY <1>1, <1>2, <1>3, <1>6, <1>7, QuietStep DEF SameCall

LEMMA UpstreamRepliesInv ==
    ASSUME IInv, TInv', NEW r \in Requests, NEW rep \in Replies(r),
           UpstreamReplies(r, rep)
    PROVE  IInv'
<1>1. TypeOK /\ CallInv(r) /\ pc[r] = "upstream"
  BY DEF IInv, TInv, UpstreamReplies
<1>2. /\ reply'[r] = rep
      /\ \A q \in Requests : q # r => reply'[q] = reply[q]
      /\ UNCHANGED <<call, sent, cache, audit>>
  BY <1>1 DEF UpstreamReplies, TypeOK, stores
<1>3. rep.kind \in Kinds /\ rep.items \subseteq sent[r].items \cup UpstreamEntities
  BY ReplyType DEF IInv
<1>4. RepliedFromSent(r)'
  BY <1>1, <1>2, <1>3 DEF CallInv, InFlight, SentAsGoverned, RepliedFromSent
<1>5. CASE UNCHANGED persisted /\ \E why \in {"malformed_upstream", "internal_error"} :
                                      Refuse(r, why)
  BY <1>1, <1>2, <1>4, <1>5, RefusalInv DEF Refusals, Reasons, Parked
<1>6. CASE /\ rep.kind # "malformed"
           /\ \E response \in PersistedResponses(call[r], rep) :
                 persisted' = [persisted EXCEPT ![r].response = response]
           /\ Goto(r, "account")
           /\ UNCHANGED answer
  <2>1. PICK response \in PersistedResponses(call[r], rep) :
           persisted' = [persisted EXCEPT ![r].response = response]
    BY <1>6
  <2>2. /\ persisted'[r].request = persisted[r].request
        /\ persisted'[r].key = persisted[r].key
        /\ persisted'[r].response = response
        /\ \A q \in Requests : q # r => persisted'[q] = persisted[q]
    BY <1>1, <2>1 DEF TypeOK
  <2>3. /\ pc'[r] = "account"
        /\ \A q \in Requests : q # r => pc'[q] = pc[q]
    BY <1>1, <1>6, GotoEffect
  <2>4. answer[r].reason = "pending"
    BY <1>1 DEF CallInv, InFlight, Parked
  <2>5. KeyOfReusable(r)'
    BY <1>1, <1>2, <2>2 DEF CallInv, KeyOfReusable
  <2>6. InFlight(r)'
    BY <1>1, <1>2, <1>3, <1>6, <2>2, <2>3, <2>4 DEF CallInv, InFlight, Kinds, Parked
  <2>7. Untouched(r)' /\ SentAsGoverned(r)' /\ AnsweredFromReply(r)'
    BY <1>1, <1>2, <1>6, <2>3, <2>4 DEF CallInv, Untouched, SentAsGoverned,
       AnsweredFromReply
  <2> QED
    BY <1>1, <1>2, <1>4, <1>6, <2>2, <2>3, <2>4, <2>5, <2>6, <2>7, QuietStep
    DEF SameCall, CallInv
<1> QED
  BY <1>5, <1>6 DEF UpstreamReplies

LEMMA RecordUsageInv ==
    ASSUME IInv, TInv', NEW r \in Requests, RecordUsage(r)
    PROVE  IInv'
<1>1. TypeOK /\ CallInv(r) /\ pc[r] = "account"
  BY DEF IInv, TInv, RecordUsage
<1>2. UNCHANGED <<call, sent, reply, persisted, answer, cache, audit>>
  BY DEF RecordUsage
<1>3. /\ pc'[r] = "store"
      /\ \A q \in Requests : q # r => pc'[q] = pc[q]
  BY <1>1, GotoEffect DEF RecordUsage
<1>4. answer[r].reason = "pending"
  BY <1>1 DEF CallInv, InFlight, Parked
<1>5. CallInv(r)'
  BY <1>1, <1>2, <1>3, <1>4 DEF CallInv, Untouched, SentAsGoverned, RepliedFromSent,
     KeyOfReusable, InFlight, AnsweredFromReply, Parked
<1> QED
  BY <1>1, <1>2, <1>3, <1>4, <1>5, QuietStep DEF SameCall

LEMMA ServeFromCacheInv ==
    ASSUME IInv, TInv', NEW r \in Requests, ServeFromCache(r)
    PROVE  IInv'
<1>1. /\ TypeOK /\ CallInv(r)
      /\ pc[r] = "body" /\ call[r].user \in UserContext
  BY DEF IInv, TInv, Entered, ServeFromCache, Parked
<1>2. PICK request \in PersistedRequests(call[r]), point \in lookup(CacheKey(call[r])) :
         /\ CacheEligible(call[r], request)
         /\ log_call(r, request, point.response, TRUE)
         /\ Answer(r, "cache_hit", point.response, point.id)
         /\ persisted' = [persisted EXCEPT ![r] =
                            [request |-> request, key |-> CacheKey(call[r]),
                             response |-> None]]
  BY DEF ServeFromCache
<1>3. UNCHANGED <<call, sent, reply, cache>>
  BY DEF ServeFromCache
<1>4. /\ pc'[r] = "done"
      /\ answer'[r].reason = "cache_hit"
      /\ answer'[r].content = point.response
      /\ answer'[r].source = point.id
      /\ \A q \in Requests : q # r => pc'[q] = pc[q] /\ answer'[q] = answer[q]
  BY <1>1, <1>2, AnswerEffect
<1>5. /\ persisted'[r].key = CacheKey(call[r])
      /\ \A q \in Requests : q # r => persisted'[q] = persisted[q]
  BY <1>1, <1>2 DEF TypeOK
<1>6. \A q \in Requests : q # r => SameCall(q)
  BY <1>3, <1>4, <1>5 DEF SameCall
<1>7. Reusable(call[r])
  BY <1>2 DEF CacheEligible, Reusable
<1>8. \A q \in Requests : CallInv(q)'
  <2>1. CallInv(r)'
    BY <1>1, <1>3, <1>4, <1>5, <1>7 DEF CallInv, Untouched, SentAsGoverned,
       RepliedFromSent, KeyOfReusable, InFlight, AnsweredFromReply, Parked
  <2> QED
    BY <1>6, <2>1, SameCallInv DEF IInv
<1>9. \A q \in Requests : AnsweredFromCache(q)'
  <2>1. /\ point \in cache
        /\ CacheKey(call[r]) # NoQuery
        /\ Score[CacheKey(call[r]), point.query] >= SimilarityThreshold
    BY DEF lookup
  <2>2. AnsweredFromCache(r)'
    BY <1>1, <1>3, <1>4, <1>7, <2>1 DEF AnsweredFromCache
  <2>3. ASSUME NEW q \in Requests, q # r PROVE AnsweredFromCache(q)'
    BY <1>3, <1>6, <2>3, SameHit DEF IInv
  <2> QED
    BY <2>2, <2>3
<1>10. \A q \in Requests :
          answer[q].reason \in {"cache_hit", "upstream"} => Kept(q) /\ q # r
  BY <1>1, <1>6, PendingUnlessDone DEF SameCall, Kept
<1>11. CacheInv'
  BY <1>3, <1>10, KeptBooks
<1>12. AuditInv'
  <2>1. audit' = audit \cup {[id |-> r, request |-> request,
                              response |-> point.response, cache_hit |-> TRUE]}
    BY <1>2 DEF log_call
  <2> SUFFICES ASSUME NEW rec \in audit'
               PROVE  /\ rec.request \in PersistedRequests(call'[rec.id])
                      /\ \/ /\ rec.cache_hit
                            /\ answer'[rec.id].reason = "cache_hit"
                            /\ rec.response = answer'[rec.id].content
                         \/ /\ ~rec.cache_hit
                            /\ answer'[rec.id].reason = "upstream"
                            /\ rec.response \in
                                 PersistedResponses(call'[rec.id], reply'[rec.id])
    BY DEF AuditInv
  <2>2. CASE rec \in audit
    <3>1. rec.id \in Requests
      BY <2>2 DEF IInv, TInv, TypeOK, Records
    <3>2. answer[rec.id].reason \in {"cache_hit", "upstream"}
      BY <2>2 DEF IInv, AuditInv
    <3>3. Kept(rec.id)
      BY <1>10, <3>1, <3>2
    <3> QED
      BY <2>2, <3>3 DEF IInv, AuditInv, Kept
  <2>3. CASE rec \notin audit
    BY <1>2, <1>3, <1>4, <2>1, <2>3
  <2> QED
    BY <2>2, <2>3
<1> QED
  BY <1>8, <1>9, <1>11, <1>12 DEF IInv

LEMMA StoreAndReplyInv ==
    ASSUME IInv, TInv', NEW r \in Requests, StoreAndReply(r)
    PROVE  IInv'
<1>1. /\ TypeOK /\ CallInv(r)
      /\ pc[r] = "store" /\ call[r].user \in UserContext
  BY DEF IInv, TInv, Entered, StoreAndReply, Parked
<1>2. UNCHANGED <<call, sent, reply, persisted>>
  BY DEF StoreAndReply
<1>3. /\ pc'[r] = "done"
      /\ answer'[r].reason = "upstream"
      /\ answer'[r].content = LiveResponse(reply[r], call[r].user)
      /\ answer'[r].source = r
      /\ \A q \in Requests : q # r => pc'[q] = pc[q] /\ answer'[q] = answer[q]
  BY <1>1, AnswerEffect DEF StoreAndReply
<1>4. \A q \in Requests : q # r => SameCall(q)
  BY <1>2, <1>3 DEF SameCall
<1>5. /\ persisted[r].request \in PersistedRequests(call[r])
      /\ persisted[r].response \in PersistedResponses(call[r], reply[r])
      /\ reply[r].kind # "none"
      /\ persisted[r].key # NoQuery =>
            Reusable(call[r]) /\ persisted[r].key = CacheKey(call[r])
  BY <1>1 DEF CallInv, InFlight, KeyOfReusable
<1>6. /\ cache \subseteq cache'
      /\ \A p \in cache' \ cache :
            /\ p.id = r
            /\ p.query = persisted[r].key
            /\ p.query # NoQuery
            /\ p.response = persisted[r].response
            /\ p.response # None
  BY DEF StoreAndReply, Storable
<1>7. \A q \in Requests : CallInv(q)'
  <2>1. CallInv(r)'
    BY <1>1, <1>2, <1>3, <1>5 DEF CallInv, Untouched, SentAsGoverned,
       RepliedFromSent, KeyOfReusable, InFlight, AnsweredFromReply, Parked
  <2> QED
    BY <1>4, <2>1, SameCallInv DEF IInv
<1>8. \A q \in Requests : AnsweredFromCache(q)'
  <2>1. AnsweredFromCache(r)'
    BY <1>3 DEF AnsweredFromCache
  <2>2. ASSUME NEW q \in Requests, q # r PROVE AnsweredFromCache(q)'
    BY <1>4, <1>6, <2>2, SameHit DEF IInv
  <2> QED
    BY <2>1, <2>2
<1>9. \A q \in Requests : answer[q].reason \in {"cache_hit", "upstream"} => Kept(q)
  BY <1>1, <1>4, PendingUnlessDone DEF SameCall, Kept
<1>10. CacheInv'
  <2> SUFFICES ASSUME NEW p \in cache'
               PROVE  /\ answer'[p.id].reason = "upstream"
                      /\ Reusable(call'[p.id])
                      /\ p.query # NoQuery
                      /\ p.query = CacheKey(call'[p.id])
                      /\ p.response # None
                      /\ p.response \in PersistedResponses(call'[p.id], reply'[p.id])
    BY DEF CacheInv
  <2>1. CASE p \in cache
    <3>1. p.id \in Requests
      BY <2>1 DEF IInv, TInv, TypeOK, Points
    <3> QED
      BY <1>9, <2>1, <3>1 DEF IInv, CacheInv, Kept
  <2>2. CASE p \notin cache
    BY <1>2, <1>3, <1>5, <1>6, <2>2
  <2> QED
    BY <2>1, <2>2
<1>11. AuditInv'
  <2>1. audit' = audit \cup {[id |-> r, request |-> persisted[r].request,
                              response |-> persisted[r].response,
                              cache_hit |-> FALSE]}
    BY DEF StoreAndReply, log_call
  <2> SUFFICES ASSUME NEW rec \in audit'
               PROVE  /\ rec.request \in PersistedRequests(call'[rec.id])
                      /\ \/ /\ rec.cache_hit
                            /\ answer'[rec.id].reason = "cache_hit"
                            /\ rec.response = answer'[rec.id].content
                         \/ /\ ~rec.cache_hit
                            /\ answer'[rec.id].reason = "upstream"
                            /\ rec.response \in
                                 PersistedResponses(call'[rec.id], reply'[rec.id])
    BY DEF AuditInv
  <2>2. CASE rec \in audit
    <3>1. rec.id \in Requests
      BY <2>2 DEF IInv, TInv, TypeOK, Records
    <3>2. answer[rec.id].reason \in {"cache_hit", "upstream"}
      BY <2>2 DEF IInv, AuditInv
    <3>3. Kept(rec.id)
      BY <1>9, <3>1, <3>2
    <3> QED
      BY <2>2, <3>3 DEF IInv, AuditInv, Kept
  <2>3. CASE rec \notin audit
    BY <1>2, <1>3, <1>5, <2>1, <2>3
  <2> QED
    BY <2>2, <2>3
<1> QED
  BY <1>7, <1>8, <1>10, <1>11 DEF IInv

LEMMA CrashInv ==
    ASSUME IInv, TInv', Crash
    PROVE  IInv'
<1>1. UNCHANGED <<call, sent, reply, persisted, cache, audit>>
  BY DEF Crash, stores
<1>2. ASSUME NEW q \in Requests
      PROVE  \/ pc[q] \notin Parked /\ pc'[q] = pc[q] /\ answer'[q] = answer[q]
             \/ pc[q] \in Parked /\ pc'[q] = "done" /\ answer'[q].reason = "lost"
  BY DEF Crash, Reply
<1>3. ASSUME NEW q \in Requests PROVE CallInv(q)' /\ AnsweredFromCache(q)'
  <2>1. CallInv(q) /\ AnsweredFromCache(q)
    BY DEF IInv
  <2>2. CASE pc[q] \notin Parked /\ pc'[q] = pc[q] /\ answer'[q] = answer[q]
    BY <1>1, <2>1, <2>2, SameCallInv, SameHit DEF SameCall
  <2>3. CASE pc[q] \in Parked /\ pc'[q] = "done" /\ answer'[q].reason = "lost"
    BY <1>1, <2>1, <2>3 DEF CallInv, Untouched, SentAsGoverned, RepliedFromSent,
       KeyOfReusable, InFlight, AnsweredFromReply, AnsweredFromCache, Parked
  <2> QED
    BY <1>2, <2>2, <2>3
<1>4. \A q \in Requests : answer[q].reason \in {"cache_hit", "upstream"} => Kept(q)
  BY <1>1, <1>2, PendingUnlessDone DEF Kept, Parked
<1> QED
  BY <1>1, <1>3, <1>4, KeptBooks DEF IInv

LEMMA StutterInv ==
    ASSUME IInv, TInv', UNCHANGED vars
    PROVE  IInv'
<1>1. \A q \in Requests : SameCall(q) /\ Kept(q)
  BY DEF vars, SameCall, Kept
<1>2. cache' = cache /\ audit' = audit
  BY DEF vars
<1> QED
  BY <1>1, <1>2, SameCallInv, SameHit, KeptBooks DEF IInv

LEMMA InitInv == Init => IInv
<1> SUFFICES ASSUME Init PROVE IInv
  OBVIOUS
<1>1. ASSUME NEW q \in Requests PROVE CallInv(q) /\ AnsweredFromCache(q)
  BY DEF Init, CallInv, Untouched, SentAsGoverned, RepliedFromSent, KeyOfReusable,
     InFlight, AnsweredFromReply, AnsweredFromCache, NotSent, NoReply, NoPersisted,
     Reply, Parked
<1>2. CacheInv /\ AuditInv
  BY DEF Init, CacheInv, AuditInv
<1> QED
  BY <1>1, <1>2, InitType DEF IInv

LEMMA InvStep ==
    ASSUME IInv, [Next]_vars
    PROVE  IInv'
<1>1. TInv'
  BY TypeStep DEF IInv
<1>2. ASSUME NEW r \in Requests, NEW c \in Calls, Receive(r, c) PROVE IInv'
  BY <1>1, <1>2, ReceiveInv
<1>3. ASSUME NEW r \in Requests, Advance(r) PROVE IInv'
  BY <1>1, <1>3, LimiterInv, RefusedInv, ServeFromCacheInv, ForwardInv,
     UpstreamRepliesInv, RecordUsageInv, StoreAndReplyInv DEF Advance
<1>4. ASSUME NEW r \in Requests, Disconnect(r) PROVE IInv'
  BY <1>1, <1>4, RefusedInv
<1> QED
  BY <1>1, <1>2, <1>3, <1>4, CrashInv, StutterInv DEF Next

(* Whatever is answered, cached or logged is the handler's own function of *)
(* the call and the reply it came from, in every behaviour.                *)
THEOREM Invariant == Spec => []IInv
BY InitInv, InvStep, PTL DEF Spec

-----------------------------------------------------------------------------
(* What the handler's functions do to a set of items.                      *)
LEMMA GovernedItems ==
    ASSUME NEW c \in Calls, c.user \in UserContext, c.body # "unscanned"
    PROVE  /\ LiveRequest(c) \cap policy_of(c.user).restricted_doc_tags = {}
           /\ \A d \in LiveRequest(c) \cap DocIds : is_authorized(d, c.user)
           /\ LiveRequest(c) \cap EntitiesToMask \subseteq
                 get_masking_exempt_entities(c.user)
<1>1. CASE c.body = "chat"
  <2>1. policy_of(c.user).restricted_doc_tags \subseteq Tags
    BY PolicyType DEF policy_of, UserContext, ClearancePolicy
  <2>2. /\ redact_system_prompt(c.items, c.user) \cap DocIds = {}
        /\ redact_system_prompt(c.items, c.user)
              \cap policy_of(c.user).restricted_doc_tags = {}
    BY CallType, NamesAssumption DEF redact_system_prompt, redact_tags
  <2>3. /\ resolve_document_references(c.refs, c.user) \subseteq DocIds
        /\ \A d \in resolve_document_references(c.refs, c.user) :
              is_authorized(d, c.user)
    BY CallType DEF resolve_document_references
  <2> QED
    BY <1>1, <2>1, <2>2, <2>3, NamesAssumption
    DEF LiveRequest, PolicyFiltered, LiveMask, mask_text
<1>2. CASE c.body # "chat"
  BY <1>2 DEF LiveRequest, PolicyFiltered
<1> QED
  BY <1>1, <1>2

LEMMA GovernedTools ==
    ASSUME NEW c \in Calls, NEW t \in FilteredTools(c) \ {NoName}
    PROVE  can_use_tool(manifest(c), t)
BY DEF FilteredTools, filter_tools, manifest, build_capability_manifest, can_use_tool

LEMMA SafeRequest ==
    ASSUME NEW c \in Calls, c.body = "chat", NEW content \in PersistedRequests(c)
    PROVE  SafeToPersist(content)
BY DEF PersistedRequests, PersistedRequest, PersistedMask, mask_text, None, Text,
       strip_document_content, redact_payload_for_persisted_view, redact_tags,
       SafeToPersist

LEMMA SafeResponse ==
    ASSUME NEW c \in Calls, c.body # "unscanned", NEW rep, rep.kind = "choices",
           rep.items \subseteq LiveRequest(c) \cup UpstreamEntities,
           NEW content \in PersistedResponses(c, rep)
    PROVE  SafeToPersist(content)
<1>1. CASE content \in {None, Omitted}
  BY <1>1 DEF None, Omitted, SafeToPersist
<1>2. CASE /\ content = PersistedView(rep)
           /\ ~HasDocumentReference(c)
           /\ ~HadRestrictedContext(c)
  <2>1. content.items = rep.items \ PersistedEntities
    BY <1>2 DEF PersistedView, PersistedMask, mask_text, Text
  <2>2. LiveRequest(c) \cap (most_restrictive_doc_tags \cup DocIds) = {}
    <3>1. CASE c.body = "chat"
      <4>1. c.refs = {}
        BY <1>2, <3>1 DEF HasDocumentReference, References
      <4>2. PolicyFiltered(c) \subseteq c.items
        BY <3>1, <4>1 DEF PolicyFiltered, redact_system_prompt, redact_tags,
           resolve_document_references
      <4>3. PolicyFiltered(c) \cap most_restrictive_doc_tags = {}
        BY <1>2, <3>1 DEF HadRestrictedContext
      <4> QED
        BY <4>2, <4>3, CallType, LiveRequestType, NamesAssumption
    <3>2. CASE c.body # "chat"
      BY <3>2 DEF LiveRequest, PolicyFiltered
    <3> QED
      BY <3>1, <3>2
  <2>3. UpstreamEntities \cap (most_restrictive_doc_tags \cup DocIds) = {}
    BY BaselineType, GatewayAssumption, NamesAssumption
  <2> QED
    BY <2>1, <2>2, <2>3 DEF SafeToPersist
<1> QED
  BY <1>1, <1>2 DEF PersistedResponses

LEMMA CacheContent ==
    ASSUME IInv, NEW p \in cache
    PROVE  /\ p.id \in Requests
           /\ pc[p.id] = "done"
           /\ call[p.id] \in Calls
           /\ answer[p.id].source = p.id
           /\ Scanned(p.id) => SafeToPersist(p.response)
<1>1. p.id \in Requests
  BY DEF IInv, TInv, TypeOK, Points
<1>2. /\ answer[p.id].reason = "upstream"
      /\ p.response \in PersistedResponses(call[p.id], reply[p.id])
  BY DEF IInv, CacheInv
<1>3. pc[p.id] = "done" /\ answer[p.id].source = p.id
  BY <1>1, <1>2 DEF IInv, CallInv, AnsweredFromReply
<1>4. call[p.id] \in Calls
  BY <1>1, <1>3 DEF IInv, TInv, Entered
<1>5. ASSUME Scanned(p.id) PROVE SafeToPersist(p.response)
  BY <1>1, <1>2, <1>4, <1>5, SafeResponse DEF IInv, CallInv, RepliedFromSent, Scanned
<1> QED
  BY <1>1, <1>3, <1>4, <1>5

(* The content of an answer, whether the upstream's or a cached one.       *)
LEMMA HitContent ==
    ASSUME IInv, NEW r \in Requests, answer[r].reason = "cache_hit",
           Scanned(answer[r].source)
    PROVE  SafeToPersist(answer[r].content)
BY CacheContent DEF IInv, AnsweredFromCache

-----------------------------------------------------------------------------
(* The theorems.                                                           *)

(* The upstream only ever receives, of a chat request, the passages,       *)
(* documents, entity types and tools the user's policy allows              *)
(* (main.py:224-266).                                                      *)
THEOREM UpstreamGoverned == Spec => []UpstreamSeesOnlyPermitted
<1>1. ASSUME IInv PROVE UpstreamSeesOnlyPermitted
  <2> SUFFICES ASSUME NEW r \in Requests, sent[r].received
               PROVE  /\ \A t \in sent[r].tools \ {NoName} :
                            can_use_tool(manifest(call[r]), t)
                      /\ call[r].body = "chat" =>
                           /\ sent[r].items \cap
                                 policy_of(call[r].user).restricted_doc_tags = {}
                           /\ \A d \in sent[r].items \cap DocIds :
                                 is_authorized(d, call[r].user)
                           /\ sent[r].items \cap EntitiesToMask \subseteq
                                 get_masking_exempt_entities(call[r].user)
    BY DEF UpstreamSeesOnlyPermitted
  <2>1. CallInv(r)
    BY <1>1 DEF IInv
  <2>2. call[r] \in Calls
    BY <1>1, <2>1 DEF IInv, TInv, Entered, CallInv, Untouched
  <2>3. /\ call[r].user \in UserContext
        /\ sent[r].items = LiveRequest(call[r])
        /\ sent[r].tools \subseteq FilteredTools(call[r])
    BY <2>1 DEF CallInv, SentAsGoverned
  <2> QED
    BY <2>2, <2>3, GovernedItems, GovernedTools
<1> QED
  BY <1>1, Invariant, PTL

(* The persisted-view guarantee: whoever called, nothing any policy        *)
(* restricts, no document body and no persisted-view entity is cached or   *)
(* logged from a request and reply the scanners read (main.py:271-287,     *)
(* 355-386).                                                               *)
THEOREM PersistedViewSafe == Spec => []PersistedViewGuarantee
<1>1. ASSUME IInv PROVE PersistedViewGuarantee
  <2>1. ASSUME NEW p \in cache, Scanned(p.id) PROVE SafeToPersist(p.response)
    BY <1>1, <2>1, CacheContent
  <2>2. ASSUME NEW rec \in audit
        PROVE  /\ call[rec.id].body = "chat" => SafeToPersist(rec.request)
               /\ Scanned(answer[rec.id].source) => SafeToPersist(rec.response)
    <3>1. rec.id \in Requests
      BY <1>1 DEF IInv, TInv, TypeOK, Records
    <3>2. /\ rec.request \in PersistedRequests(call[rec.id])
          /\ \/ /\ answer[rec.id].reason = "cache_hit"
                /\ rec.response = answer[rec.id].content
             \/ /\ answer[rec.id].reason = "upstream"
                /\ rec.response \in PersistedResponses(call[rec.id], reply[rec.id])
      BY <1>1 DEF IInv, AuditInv
    <3>3. pc[rec.id] = "done"
      BY <1>1, <3>1, <3>2 DEF IInv, CallInv, AnsweredFromReply, AnsweredFromCache
    <3>4. call[rec.id] \in Calls
      BY <1>1, <3>1, <3>3 DEF IInv, TInv, Entered
    <3>5. CASE answer[rec.id].reason = "cache_hit"
      BY <1>1, <3>1, <3>2, <3>4, <3>5, SafeRequest, HitContent
    <3>6. CASE /\ answer[rec.id].reason = "upstream"
               /\ rec.response \in PersistedResponses(call[rec.id], reply[rec.id])
      <4>1. CallInv(rec.id)
        BY <1>1, <3>1 DEF IInv
      <4>2. answer[rec.id].source = rec.id
        BY <3>6, <4>1 DEF CallInv, AnsweredFromReply
      <4>3. ASSUME Scanned(rec.id) PROVE SafeToPersist(rec.response)
        BY <3>4, <3>6, <4>1, <4>3, SafeResponse DEF CallInv, RepliedFromSent, Scanned
      <4> QED
        BY <3>2, <3>4, <4>2, <4>3, SafeRequest
    <3> QED
      BY <3>2, <3>5, <3>6
  <2> QED
    BY <2>1, <2>2 DEF PersistedViewGuarantee
<1> QED
  BY <1>1, Invariant, PTL

(* No user is answered, by the upstream or from somebody else's cached     *)
(* answer, with a passage, document or masked entity type their policy     *)
(* denies them (main.py:299-314, 347-353).                                 *)
THEOREM AnswersWithinClearance == Spec => []ServedWithinClearance
<1>1. ASSUME IInv PROVE ServedWithinClearance
  <2> SUFFICES ASSUME NEW r \in Requests,
                      answer[r].reason \in {"cache_hit", "upstream"},
                      Scanned(answer[r].source)
               PROVE  /\ answer[r].content.items
                            \cap policy_of(call[r].user).restricted_doc_tags = {}
                      /\ \A d \in answer[r].content.items \cap DocIds :
                            is_authorized(d, call[r].user)
                      /\ answer[r].content.items \cap EntitiesToMask \subseteq
                            get_masking_exempt_entities(call[r].user)
    BY DEF ServedWithinClearance
  <2>1. CallInv(r) /\ AnsweredFromCache(r)
    BY <1>1 DEF IInv
  <2>2. pc[r] = "done" /\ call[r].user \in UserContext
    BY <2>1 DEF CallInv, AnsweredFromReply, AnsweredFromCache
  <2>3. call[r] \in Calls
    BY <1>1, <2>2 DEF IInv, TInv, Entered
  <2>4. CASE answer[r].reason = "cache_hit"
    <3>1. SafeToPersist(answer[r].content)
      BY <1>1, <2>4, HitContent
    <3>2. policy_of(call[r].user).restricted_doc_tags \subseteq most_restrictive_doc_tags
      BY <2>2, BaselineCoversPolicies DEF policy_of, UserContext
    <3> QED
      BY <3>1, <3>2, GatewayAssumption DEF SafeToPersist
  <2>5. CASE answer[r].reason = "upstream"
    <3>1. /\ answer[r].source = r
          /\ answer[r].content = LiveResponse(reply[r], call[r].user)
          /\ reply[r].kind = "choices"
          /\ call[r].body # "unscanned"
          /\ reply[r].items \subseteq LiveRequest(call[r]) \cup UpstreamEntities
      BY <2>1, <2>5 DEF CallInv, AnsweredFromReply, RepliedFromSent, Scanned
    <3>2. answer[r].content.items = LiveMask(reply[r].items, call[r].user)
      BY <3>1 DEF LiveResponse, Text
    <3>3. /\ LiveRequest(call[r]) \cap policy_of(call[r].user).restricted_doc_tags = {}
          /\ \A d \in LiveRequest(call[r]) \cap DocIds : is_authorized(d, call[r].user)
      BY <2>2, <2>3, <3>1, GovernedItems
    <3>4. /\ UpstreamEntities \subseteq Entities
          /\ policy_of(call[r].user).restricted_doc_tags \subseteq Tags
      BY <2>2, PolicyType, GatewayAssumption DEF policy_of, UserContext, ClearancePolicy
    <3>5. answer[r].content.items \cap EntitiesToMask \subseteq
             get_masking_exempt_entities(call[r].user)
      BY <3>2 DEF LiveMask, mask_text
    <3>6. answer[r].content.items \subseteq LiveRequest(call[r]) \cup UpstreamEntities
      BY <3>1, <3>2 DEF LiveMask, mask_text
    <3> QED
      BY <3>3, <3>4, <3>5, <3>6, NamesAssumption
  <2> QED
    BY <2>4, <2>5
<1> QED
  BY <1>1, Invariant, PTL

(* Only reusable answers enter the cache, only reusable questions are      *)
(* answered from it, and a hit returns what is stored for a near question  *)
(* (main.py:289-314, 398-405).                                             *)
THEOREM CacheScoped == Spec => []CacheScope
<1>1. ASSUME NEW c \in Calls, Reusable(c), CacheKey(c) # NoQuery
      PROVE  FilteredTools(c) = {} /\ c.refs = {} /\ CacheKey(c) = c.query
  BY <1>1 DEF Reusable, HasDocumentReference, References, CacheKey
<1>2. ASSUME IInv PROVE CacheScope
  <2>1. ASSUME NEW p \in cache
        PROVE  /\ FilteredTools(call[p.id]) = {} /\ call[p.id].refs = {}
               /\ p.query = call[p.id].query
               /\ HadRestrictedContext(call[p.id]) => p.response = Omitted
    <3>1. call[p.id] \in Calls
      BY <1>2, CacheContent
    <3>2. /\ Reusable(call[p.id])
          /\ CacheKey(call[p.id]) # NoQuery
          /\ p.query = CacheKey(call[p.id])
          /\ p.response # None
          /\ p.response \in PersistedResponses(call[p.id], reply[p.id])
      BY <1>2 DEF IInv, CacheInv
    <3> QED
      BY <1>1, <3>1, <3>2 DEF PersistedResponses
  <2>2. ASSUME NEW r \in Requests, answer[r].reason = "cache_hit"
        PROVE  LET p == answer[r].source
               IN  /\ FilteredTools(call[r]) = {} /\ call[r].refs = {}
                   /\ Score[call[r].query, call[p].query] >= SimilarityThreshold
                   /\ \E point \in cache : /\ point.id = p
                                           /\ point.response = answer[r].content
    <3>1. /\ pc[r] = "done"
          /\ Reusable(call[r])
          /\ CacheKey(call[r]) # NoQuery
      BY <1>2, <2>2 DEF IInv, AnsweredFromCache
    <3>2. PICK p \in cache :
             /\ p.id = answer[r].source
             /\ p.response = answer[r].content
             /\ Score[CacheKey(call[r]), p.query] >= SimilarityThreshold
      BY <1>2, <2>2 DEF IInv, AnsweredFromCache
    <3>3. call[r] \in Calls
      BY <1>2, <3>1 DEF IInv, TInv, Entered
    <3> QED
      BY <1>1, <2>1, <3>1, <3>2, <3>3
  <2> QED
    BY <2>1, <2>2 DEF CacheScope
<1> QED
  BY <1>2, Invariant, PTL

-----------------------------------------------------------------------------
(* Gateway as a service: it implements GovernedService, each step of a     *)
(* call being a step of the abstract service or leaving its books alone,   *)
(* and it exceeds neither the limits nor the token counts of its calls.    *)

BooksUnchanged == LogOf' = LogOf /\ StockOf' = StockOf

LEMMA StatusStep ==
    ASSUME NEW r \in Requests,
           \A q \in Requests : q # r => pc'[q] = pc[q] /\ answer'[q] = answer[q]
    PROVE  StatusOf' = [StatusOf EXCEPT ![r] = Status(r)']
<1>1. \A q \in Requests : q # r => Status(q)' = Status(q)
  BY DEF Status
<1> QED
  BY <1>1 DEF StatusOf

LEMMA LogKept ==
    ASSUME IInv,
           \A q \in Requests :
              answer[q].reason \in {"cache_hit", "upstream"} => answer'[q] = answer[q]
    PROVE  {[id |-> rec.id, source |-> answer'[rec.id].source,
             reused |-> rec.cache_hit] : rec \in audit} = LogOf
<1>1. ASSUME NEW rec \in audit PROVE answer'[rec.id] = answer[rec.id]
  <2>1. rec.id \in Requests
    BY DEF IInv, TInv, TypeOK, Records
  <2>2. answer[rec.id].reason \in {"cache_hit", "upstream"}
    BY DEF IInv, AuditInv
  <2> QED
    BY <2>1, <2>2
<1> QED
  BY <1>1 DEF LogOf

LEMMA QuietBooks ==
    ASSUME IInv, NEW r \in Requests, pc[r] # "done",
           \A q \in Requests : q # r => pc'[q] = pc[q] /\ answer'[q] = answer[q],
           cache' = cache, audit' = audit
    PROVE  BooksUnchanged
<1>1. \A q \in Requests :
         answer[q].reason \in {"cache_hit", "upstream"} => answer'[q] = answer[q]
  BY PendingUnlessDone
<1>2. LogOf' = LogOf
  BY <1>1, LogKept DEF LogOf
<1> QED
  BY <1>2 DEF BooksUnchanged, StockOf

(* What is logged of a call says it has been served. *)
LEMMA LoggedServed ==
    ASSUME IInv, NEW entry \in LogOf
    PROVE  entry.id \in Requests /\ pc[entry.id] = "done"
<1>1. PICK rec \in audit : entry = [id |-> rec.id, source |-> answer[rec.id].source,
                                    reused |-> rec.cache_hit]
  BY DEF LogOf
<1>2. rec.id \in Requests
  BY DEF IInv, TInv, TypeOK, Records
<1>3. answer[rec.id].reason \in {"cache_hit", "upstream"}
  BY DEF IInv, AuditInv
<1> QED
  BY <1>1, <1>2, <1>3, PendingUnlessDone

-----------------------------------------------------------------------------
LEMMA InitRefines == Init => Service!Init
<1> SUFFICES ASSUME Init PROVE Service!Init
  OBVIOUS
<1>1. StatusOf = [r \in Requests |-> "new"]
  BY DEF Init, StatusOf, Status
<1>2. LogOf = {} /\ StockOf = {}
  BY DEF Init, LogOf, StockOf
<1> QED
  BY <1>1, <1>2 DEF Service!Init

LEMMA RefuseRefines ==
    ASSUME IInv, NEW r \in Requests, pc[r] # "done", NEW why \in Refusals,
           Refuse(r, why), why = "lost" => pc[r] \in Parked,
           cache' = cache, audit' = audit
    PROVE  Service!Next
<1>1. TypeOK
  BY DEF IInv, TInv
<1>2. /\ pc'[r] = "done"
      /\ answer'[r].reason = why
      /\ \A q \in Requests : q # r => pc'[q] = pc[q] /\ answer'[q] = answer[q]
  BY <1>1, RefuseEffect
<1>3. StatusOf' = [StatusOf EXCEPT ![r] = Status(r)'] /\ BooksUnchanged
  BY <1>2, StatusStep, QuietBooks
<1>4. StatusOf[r] = IF pc[r] = "idle" THEN "new" ELSE "open"
  BY <1>1 DEF StatusOf, Status, TypeOK, Parked
<1>5. CASE why = "lost"
  <2>1. Status(r)' = "lost"
    BY <1>2, <1>5 DEF Status, Parked
  <2>2. StatusOf' = [q \in Requests |-> IF q \in {r} THEN "lost" ELSE StatusOf[q]]
    BY <1>3, <2>1 DEF StatusOf
  <2>3. {r} \in SUBSET Service!Open
    BY <1>4, <1>5 DEF Service!Open, Parked
  <2>4. Service!Lose({r})
    BY <1>3, <2>2 DEF Service!Lose, BooksUnchanged
  <2> QED
    BY <2>3, <2>4 DEF Service!Next
<1>6. CASE why # "lost"
  <2>1. Status(r)' = "refused"
    BY <1>2, <1>6 DEF Status, Parked, Refusals
  <2>2. Service!Refuse(r)
    BY <1>3, <1>4, <2>1 DEF Service!Refuse, BooksUnchanged
  <2> QED
    BY <2>2 DEF Service!Next
<1> QED
  BY <1>5, <1>6

LEMMA WaitRefines ==
    ASSUME IInv, NEW r \in Requests, pc[r] \in Parked, NEW point \in Parked,
           Goto(r, point), answer' = answer, cache' = cache, audit' = audit
    PROVE  UNCHANGED Service!vars
<1>1. /\ pc'[r] = point
      /\ \A q \in Requests : q # r => pc'[q] = pc[q]
  BY GotoEffect DEF IInv, TInv
<1>2. StatusOf' = [StatusOf EXCEPT ![r] = Status(r)'] /\ BooksUnchanged
  BY <1>1, StatusStep, QuietBooks DEF Parked
<1>3. Status(r)' = "open" /\ StatusOf[r] = "open"
  BY <1>1 DEF StatusOf, Status, Parked
<1>4. StatusOf' = StatusOf
  BY <1>2, <1>3 DEF StatusOf
<1> QED
  BY <1>2, <1>4 DEF Service!vars, BooksUnchanged

LEMMA ReceiveRefines ==
    ASSUME IInv, NEW r \in Requests, NEW c \in Calls, Receive(r, c)
    PROVE  Service!Next
<1>1. TypeOK /\ pc[r] = "idle" /\ cache' = cache /\ audit' = audit
  BY DEF IInv, TInv, Receive, stores
<1>2. CASE \E why \in {"unauthorized", "delegation_depth_exceeded"} : Refuse(r, why)
  BY <1>1, <1>2, RefuseRefines DEF Refusals, Reasons
<1>3. CASE Goto(r, "chain") /\ UNCHANGED answer
  <2>1. /\ pc'[r] = "chain"
        /\ \A q \in Requests : q # r => pc'[q] = pc[q]
    BY <1>1, <1>3, GotoEffect
  <2>2. StatusOf' = [StatusOf EXCEPT ![r] = Status(r)'] /\ BooksUnchanged
    BY <1>1, <1>3, <2>1, StatusStep, QuietBooks
  <2>3. StatusOf[r] = "new" /\ Status(r)' = "open"
    BY <1>1, <2>1 DEF StatusOf, Status, Parked
  <2>4. Service!Begin(r)
    BY <2>2, <2>3 DEF Service!Begin, BooksUnchanged
  <2> QED
    BY <2>4 DEF Service!Next
<1> QED
  BY <1>2, <1>3 DEF Receive

(* The steps of a call that is neither served nor begun.                   *)
LEMMA QuietRefines ==
    ASSUME IInv, NEW r \in Requests,
           \/ CheckChain(r) \/ CheckUser(r)
           \/ ChainLimiterFails(r) \/ UserLimiterFails(r)
           \/ Reject(r) \/ Forward(r) \/ UpstreamUnavailable(r)
           \/ \E rep \in Replies(r) : UpstreamReplies(r, rep)
           \/ RecordUsage(r) \/ Disconnect(r)
    PROVE  Service!Next \/ UNCHANGED Service!vars
<1>1. pc[r] \in Parked /\ cache' = cache /\ audit' = audit
  <2>1. pc[r] \in Parked
    BY DEF CheckChain, CheckUser, ChainLimiterFails, UserLimiterFails, Reject, Forward,
       UpstreamUnavailable, UpstreamReplies, RecordUsage, Disconnect, Parked
  <2>2. UNCHANGED <<cache, audit>>
    BY DEF CheckChain, CheckUser, ChainLimiterFails, UserLimiterFails, Reject, Forward,
       UpstreamUnavailable, UpstreamReplies, RecordUsage, Disconnect, stores
  <2> QED
    BY <2>1, <2>2
<1>2. \/ \E why \in Refusals : Refuse(r, why)
      \/ \E point \in Parked : Goto(r, point) /\ answer' = answer
  <2>1. CASE CheckChain(r) \/ CheckUser(r) \/ ChainLimiterFails(r)
               \/ UserLimiterFails(r) \/ Reject(r)
    <3>1. CASE CheckChain(r)
      <4>1. Refuse(r, "chain_rate_limit") \/ (Goto(r, "user") /\ answer' = answer)
        BY <3>1 DEF CheckChain
      <4> QED
        BY <4>1 DEF Refusals, Reasons, Parked
    <3>2. CASE CheckUser(r)
      <4>1. Refuse(r, "rate_limit") \/ (Goto(r, "body") /\ answer' = answer)
        BY <3>2 DEF CheckUser
      <4> QED
        BY <4>1 DEF Refusals, Reasons, Parked
    <3>3. CASE ChainLimiterFails(r) \/ UserLimiterFails(r)
      <4>1. Refuse(r, "limiter_error")
        BY <3>3 DEF ChainLimiterFails, UserLimiterFails
      <4> QED
        BY <4>1 DEF Refusals, Reasons
    <3>4. CASE Reject(r)
      <4>1. \E why \in {"invalid_json", "insufficient_clearance", "internal_error",
                        "content_flagged"} : Refuse(r, why)
        BY <3>4 DEF Reject
      <4> QED
        BY <4>1 DEF Refusals, Reasons
    <3> QED
      BY <2>1, <3>1, <3>2, <3>3, <3>4
  <2>2. CASE \/ Forward(r) \/ UpstreamUnavailable(r)
             \/ \E rep \in Replies(r) : UpstreamReplies(r, rep)
             \/ RecordUsage(r) \/ Disconnect(r)
    BY <2>2 DEF Forward, UpstreamUnavailable, UpstreamReplies, RecordUsage, Disconnect,
       Refusals, Reasons, Parked
  <2> QED
    BY <2>1, <2>2
<1>3. CASE \E why \in Refusals : Refuse(r, why)
  BY <1>1, <1>3, RefuseRefines DEF Parked
<1>4. CASE \E point \in Parked : Goto(r, point) /\ answer' = answer
  BY <1>1, <1>4, WaitRefines
<1> QED
  BY <1>2, <1>3, <1>4

-----------------------------------------------------------------------------
(* The two ways of serving, and the crash.                                 *)
LEMMA RecordRefines ==
    ASSUME IInv, NEW r \in Requests, pc[r] \in Parked,
           NEW why \in {"cache_hit", "upstream"}, NEW what, NEW src,
           Answer(r, why, what, src),
           NEW rec, rec.id = r, rec.cache_hit = (src # r),
           audit' = audit \cup {rec}
    PROVE  Service!Record(r, src)
<1>1. /\ pc'[r] = "done"
      /\ answer'[r].reason = why
      /\ answer'[r].source = src
      /\ \A q \in Requests : q # r => pc'[q] = pc[q] /\ answer'[q] = answer[q]
  BY AnswerEffect DEF IInv, TInv
<1>2. StatusOf[r] = "open"
  BY DEF StatusOf, Status, Parked
<1>3. StatusOf' = [StatusOf EXCEPT ![r] = "served"]
  <2>1. Status(r)' = "served"
    BY <1>1 DEF Status, Parked
  <2> QED
    BY <1>1, <2>1, StatusStep
<1>4. \A entry \in LogOf : entry.id # r
  BY LoggedServed DEF Parked
<1>5. LogOf' = LogOf \cup {[id |-> r, source |-> src, reused |-> src # r]}
  <2>1. \A q \in Requests :
           answer[q].reason \in {"cache_hit", "upstream"} => answer'[q] = answer[q]
    BY <1>1, PendingUnlessDone DEF Parked
  <2>2. LogOf' = {[id |-> e.id, source |-> answer'[e.id].source,
                   reused |-> e.cache_hit] : e \in audit \cup {rec}}
    BY DEF LogOf
  <2>3. LogOf' = {[id |-> e.id, source |-> answer'[e.id].source,
                   reused |-> e.cache_hit] : e \in audit}
                 \cup {[id |-> r, source |-> src, reused |-> src # r]}
    BY <1>1, <2>2
  <2> QED
    BY <2>1, <2>3, LogKept
<1> QED
  BY <1>2, <1>3, <1>4, <1>5 DEF Service!Record

LEMMA StoreAndReplyRefines ==
    ASSUME IInv, NEW r \in Requests, StoreAndReply(r)
    PROVE  Service!Next
<1>1. pc[r] \in Parked
  BY DEF StoreAndReply, Parked
<1>2. Service!Record(r, r)
  <2> DEFINE rec == [id |-> r, request |-> persisted[r].request,
                     response |-> persisted[r].response, cache_hit |-> FALSE]
  <2>1. rec.id = r /\ rec.cache_hit = (r # r)
    OBVIOUS
  <2>2. audit' = audit \cup {rec}
    BY DEF StoreAndReply, log_call
  <2>3. Answer(r, "upstream", LiveResponse(reply[r], call[r].user), r)
    BY DEF StoreAndReply
  <2> HIDE DEF rec
  <2> QED
    BY <1>1, <2>1, <2>2, <2>3, RecordRefines
<1>3. StockOf' \in {StockOf, StockOf \cup {r}}
  <2>1. \/ cache' = cache
        \/ \E p : p.id = r /\ cache' = cache \cup {p}
    BY DEF StoreAndReply
  <2> QED
    BY <2>1 DEF StockOf
<1>4. Service!Serve(r)
  BY <1>2, <1>3 DEF Service!Serve
<1> QED
  BY <1>4 DEF Service!Next

LEMMA ServeFromCacheRefines ==
    ASSUME IInv, NEW r \in Requests, ServeFromCache(r)
    PROVE  Service!Next
<1>1. pc[r] \in Parked
  BY DEF ServeFromCache, Parked
<1>2. PICK request \in PersistedRequests(call[r]), point \in lookup(CacheKey(call[r])) :
         /\ log_call(r, request, point.response, TRUE)
         /\ Answer(r, "cache_hit", point.response, point.id)
  BY DEF ServeFromCache
<1>3. point \in cache
  BY DEF lookup
<1>4. /\ point.id \in Requests
      /\ pc[point.id] = "done"
      /\ answer[point.id].reason = "upstream"
  BY <1>3, CacheContent DEF IInv, CacheInv
<1>5. Service!Record(r, point.id)
  <2> DEFINE rec == [id |-> r, request |-> request,
                     response |-> point.response, cache_hit |-> TRUE]
  <2>1. rec.id = r /\ rec.cache_hit = (point.id # r)
    BY <1>1, <1>4 DEF Parked
  <2>2. audit' = audit \cup {rec}
    BY <1>2 DEF log_call
  <2> HIDE DEF rec
  <2> QED
    BY <1>1, <1>2, <2>1, <2>2, RecordRefines
<1>6. StatusOf[point.id] = "served"
  BY <1>4 DEF StatusOf, Status, Parked
<1>7. point.id \in StockOf /\ UNCHANGED StockOf
  BY <1>3 DEF StockOf, ServeFromCache
<1>8. Service!Reuse(r, point.id)
  BY <1>5, <1>6, <1>7 DEF Service!Reuse
<1> QED
  BY <1>7, <1>8 DEF Service!Next

LEMMA CrashRefines ==
    ASSUME IInv, Crash
    PROVE  Service!Next
<1>1. cache' = cache /\ audit' = audit
  BY DEF Crash, stores
<1>2. \A q \in Requests :
         \/ pc[q] \notin Parked /\ pc'[q] = pc[q] /\ answer'[q] = answer[q]
         \/ pc[q] \in Parked /\ pc'[q] = "done" /\ answer'[q].reason = "lost"
  BY DEF Crash, Reply
<1>3. BooksUnchanged
  <2>1. \A q \in Requests :
           answer[q].reason \in {"cache_hit", "upstream"} => answer'[q] = answer[q]
    BY <1>2, PendingUnlessDone DEF Parked
  <2>2. LogOf' = LogOf
    BY <1>1, <2>1, LogKept DEF LogOf
  <2> QED
    BY <1>1, <2>2 DEF BooksUnchanged, StockOf
<1>4. Service!Open = {q \in Requests : pc[q] \in Parked}
  BY DEF Service!Open, StatusOf, Status, Parked
<1>5. Service!Open # {}
  BY <1>4 DEF Crash
<1>6. \A q \in Requests :
         Status(q)' = IF q \in Service!Open THEN "lost" ELSE StatusOf[q]
  BY <1>2, <1>4 DEF StatusOf, Status, Parked
<1>7. StatusOf' = [q \in Requests |-> IF q \in Service!Open THEN "lost" ELSE StatusOf[q]]
  BY <1>6 DEF StatusOf
<1>8. Service!Lose(Service!Open)
  BY <1>3, <1>5, <1>7 DEF Service!Lose, BooksUnchanged
<1> QED
  BY <1>8 DEF Service!Next

LEMMA StutterRefines ==
    ASSUME UNCHANGED vars
    PROVE  UNCHANGED Service!vars
BY DEF vars, Service!vars, StatusOf, Status, LogOf, StockOf

LEMMA StepRefines ==
    ASSUME IInv, [Next]_vars
    PROVE  [Service!Next]_Service!vars
<1>1. ASSUME NEW r \in Requests, NEW c \in Calls, Receive(r, c)
      PROVE  Service!Next
  BY <1>1, ReceiveRefines
<1>2. ASSUME NEW r \in Requests, Advance(r) \/ Disconnect(r)
      PROVE  Service!Next \/ UNCHANGED Service!vars
  BY <1>2, QuietRefines, ServeFromCacheRefines, StoreAndReplyRefines DEF Advance
<1> QED
  BY <1>1, <1>2, CrashRefines, StutterRefines DEF Next

(* The gateway keeps the books of GovernedService: no call is served       *)
(* unrecorded or recorded twice, refusals and losses touch neither the log *)
(* nor the cache, and what a hit returns came from a call that was served  *)
(* itself (main.py:299-314, 398-424).                                      *)
THEOREM Implementation == Spec => ImplementsService
<1>1. Init => Service!Init
  BY InitRefines
<1>2. IInv /\ [Next]_vars => [Service!Next]_Service!vars
  BY StepRefines
<1> QED
  BY <1>1, <1>2, Invariant, PTL DEF Spec, ImplementsService, Service!Spec

-----------------------------------------------------------------------------
LEMMA SmallerIsWithin ==
    ASSUME NEW T \in SUBSET Requests, NEW S \in SUBSET T, NEW n \in Nat,
           Cardinality(T) <= n
    PROVE  Cardinality(S) <= n
<1>1. IsFiniteSet(T)
  BY GatewayAssumption, FS_Subset
<1>2. Cardinality(S) <= Cardinality(T)
  BY <1>1, FS_Subset
<1>3. IsFiniteSet(S)
  BY <1>1, FS_Subset
<1>4. Cardinality(S) \in Nat /\ Cardinality(T) \in Nat
  BY <1>1, <1>3, FS_CardinalityType
<1> QED
  BY <1>2, <1>4

(* An answer is given once. *)
LEMMA AnswersAreFinal ==
    ASSUME IInv, [Next]_vars, NEW q \in Requests
    PROVE  answer'[q] = answer[q] \/ answer[q].reason = "pending"
<1>1. CallInv(q) /\ TypeOK
  BY DEF IInv, TInv
<1>2. pc[q] # "done" => answer[q].reason = "pending"
  BY <1>1 DEF CallInv, Untouched, InFlight, TypeOK
<1>3. ASSUME NEW r \in Requests, pc[r] # "done",
             \/ answer' = answer
             \/ \E why, what, src : Answer(r, why, what, src)
      PROVE  answer'[q] = answer[q] \/ answer[q].reason = "pending"
  BY <1>1, <1>2, <1>3, AnswerEffect
<1>4. ASSUME NEW r \in Requests, NEW c \in Calls, Receive(r, c)
      PROVE  answer'[q] = answer[q] \/ answer[q].reason = "pending"
  BY <1>3, <1>4 DEF Receive, Refuse
<1>5. ASSUME NEW r \in Requests, Advance(r) \/ Disconnect(r)
      PROVE  answer'[q] = answer[q] \/ answer[q].reason = "pending"
  <2>1. pc[r] # "done"
    BY <1>5 DEF Advance, CheckChain, CheckUser, ChainLimiterFails, UserLimiterFails,
       Reject, ServeFromCache, Forward, UpstreamUnavailable, UpstreamReplies,
       RecordUsage, StoreAndReply, Disconnect
  <2>2. \/ answer' = answer
        \/ \E why, what, src : Answer(r, why, what, src)
    <3>1. CASE CheckChain(r) \/ CheckUser(r) \/ ChainLimiterFails(r)
                 \/ UserLimiterFails(r) \/ Reject(r)
      BY <3>1 DEF CheckChain, CheckUser, ChainLimiterFails, UserLimiterFails, Reject, Refuse
    <3>2. CASE ~(CheckChain(r) \/ CheckUser(r) \/ ChainLimiterFails(r)
                   \/ UserLimiterFails(r) \/ Reject(r))
      BY <1>5, <3>2 DEF Advance, ServeFromCache, Forward, UpstreamUnavailable,
         UpstreamReplies, RecordUsage, StoreAndReply, Disconnect, Refuse
    <3> QED
      BY <3>1, <3>2
  <2>3. CASE answer' = answer
    BY ONLY <2>3
  <2>4. CASE \E why, what, src : Answer(r, why, what, src)
    BY <1>3, <2>1, <2>4
  <2> QED
    BY ONLY <2>2, <2>3, <2>4, Zenon
<1>6. ASSUME Crash PROVE answer'[q] = answer[q] \/ answer[q].reason = "pending"
  BY <1>2, <1>6 DEF Crash, Parked
<1> QED
  BY <1>4, <1>5, <1>6 DEF Next, vars

-----------------------------------------------------------------------------
(* The limiters.                                                           *)
Refused == {"chain_rate_limit", "rate_limit", "limiter_error"}

(* Those of a window that are let through once the step is taken. *)
NowAdmitted(window, refusal) ==
    {q \in window : answer'[q].reason \notin {refusal, "limiter_error"}}

(* A window nobody touches admits nobody new. *)
LEMMA AdmittedShrinks ==
    ASSUME IInv, [Next]_vars, NEW window \in SUBSET Requests, NEW other \in SUBSET window,
           NEW refusal \in Refused
    PROVE  NowAdmitted(other, refusal) \subseteq Admitted(window, refusal)
BY AnswersAreFinal DEF NowAdmitted, Admitted, Refused

(* One round trip of a limiter: either the window it leaves is within the  *)
(* limit, or the call is refused and only counted.                         *)
LEMMA RoundTrip ==
    ASSUME IInv, [Next]_vars, NEW r \in Requests, NEW old \in SUBSET Requests,
           NEW new, new = old \/ new \in Recorded(old, r), NEW refusal \in Refused,
           NEW limit \in Nat, Cardinality(Admitted(old, refusal)) <= limit,
           \/ Within(new, limit)
           \/ answer'[r].reason \in {refusal, "limiter_error"}
    PROVE  Cardinality(NowAdmitted(new, refusal)) <= limit
<1>1. PICK kept \in SUBSET old : new \subseteq kept \cup {r}
  BY DEF Recorded
<1>2. new \in SUBSET Requests
  BY DEF Recorded
<1>3. CASE Within(new, limit)
  BY <1>2, <1>3, SmallerIsWithin DEF Within, NowAdmitted
<1>4. CASE answer'[r].reason \in {refusal, "limiter_error"}
  <2>1. NowAdmitted(kept, refusal) \subseteq Admitted(old, refusal)
    BY AdmittedShrinks
  <2>2. NowAdmitted(new, refusal) \subseteq Admitted(old, refusal)
    BY <1>1, <1>4, <2>1 DEF NowAdmitted
  <2>3. Admitted(old, refusal) \in SUBSET Requests
    BY DEF Admitted
  <2> QED
    BY <2>2, <2>3, SmallerIsWithin
<1> QED
  BY <1>3, <1>4

LEMMA LimitsStep ==
    ASSUME IInv, [Next]_vars, AdmittedWithinLimits
    PROVE  AdmittedWithinLimits'
<1>1. TypeOK
  BY DEF IInv, TInv
<1>2. ASSUME NEW k \in Traces \cup Requests, NEW old, old = chain_window[k],
             NEW new, new = chain_window'[k]
      PROVE  Cardinality(NowAdmitted(new, "chain_rate_limit")) <= ChainMax
  <2>1. /\ old \in SUBSET Requests
        /\ Cardinality(Admitted(old, "chain_rate_limit")) <= ChainMax
        /\ ChainMax \in Nat
    BY <1>1, <1>2, GatewayAssumption DEF TypeOK, AdmittedWithinLimits
  <2>2. CASE new = old
    <3>1. Admitted(old, "chain_rate_limit") \in SUBSET Requests
      BY <2>1 DEF Admitted
    <3>2. NowAdmitted(new, "chain_rate_limit") \subseteq Admitted(old, "chain_rate_limit")
      BY <2>1, <2>2, AdmittedShrinks DEF Refused
    <3> QED
      BY <2>1, <3>1, <3>2, SmallerIsWithin
  <2>3. CASE new # old
    <3>1. PICK r \in Requests : CheckChain(r) \/ ChainLimiterFails(r)
      BY <1>2, <2>3 DEF Next, vars, Advance, Receive, CheckUser, UserLimiterFails,
         Reject, ServeFromCache, Forward, UpstreamUnavailable, UpstreamReplies,
         RecordUsage, StoreAndReply, Disconnect, Crash, windows
    <3>2. /\ new = old \/ new \in Recorded(old, r)
          /\ \/ Within(new, ChainMax)
             \/ answer'[r].reason \in {"chain_rate_limit", "limiter_error"}
      <4>1. CASE CheckChain(r)
        <5>1. PICK window \in Recorded(chain_window[ChainKey(r, call[r])], r) :
                 /\ chain_window' =
                      [chain_window EXCEPT ![ChainKey(r, call[r])] = window]
                 /\ Within(window, ChainMax) \/ Refuse(r, "chain_rate_limit")
          BY <4>1 DEF CheckChain
        <5>2. k = ChainKey(r, call[r]) /\ new = window
          BY <1>1, <1>2, <2>3, <5>1 DEF TypeOK
        <5> QED
          BY <1>1, <1>2, <5>1, <5>2, RefuseEffect
      <4>2. CASE ChainLimiterFails(r)
        <5>1. PICK window \in {chain_window[ChainKey(r, call[r])]}
                              \cup Recorded(chain_window[ChainKey(r, call[r])], r) :
                 chain_window' = [chain_window EXCEPT ![ChainKey(r, call[r])] = window]
          BY <4>2 DEF ChainLimiterFails
        <5>2. answer'[r].reason = "limiter_error"
          BY <1>1, <4>2, RefuseEffect DEF ChainLimiterFails
        <5>3. k = ChainKey(r, call[r]) /\ new = window
          BY <1>1, <1>2, <2>3, <5>1 DEF TypeOK
        <5> QED
          BY <1>2, <5>1, <5>2, <5>3
      <4> QED
        BY <3>1, <4>1, <4>2
    <3>3. "chain_rate_limit" \in Refused
      BY DEF Refused
    <3> QED
      BY ONLY IInv, [Next]_vars, r \in Requests, <2>1, <3>2, <3>3, RoundTrip, SMTT(30)
  <2> QED
    BY <2>2, <2>3
<1>3. ASSUME NEW u \in UserIds, NEW old, old = user_window[u],
             NEW new, new = user_window'[u]
      PROVE  Cardinality(NowAdmitted(new, "rate_limit")) <= UserMax
  <2>1. /\ old \in SUBSET Requests
        /\ Cardinality(Admitted(old, "rate_limit")) <= UserMax
        /\ UserMax \in Nat
    BY <1>1, <1>3, GatewayAssumption DEF TypeOK, AdmittedWithinLimits
  <2>2. CASE new = old
    <3>1. Admitted(old, "rate_limit") \in SUBSET Requests
      BY <2>1 DEF Admitted
    <3>2. NowAdmitted(new, "rate_limit") \subseteq Admitted(old, "rate_limit")
      BY <2>1, <2>2, AdmittedShrinks DEF Refused
    <3> QED
      BY <2>1, <3>1, <3>2, SmallerIsWithin
  <2>3. CASE new # old
    <3>1. PICK r \in Requests : CheckUser(r) \/ UserLimiterFails(r)
      BY <1>3, <2>3 DEF Next, vars, Advance, Receive, CheckChain, ChainLimiterFails,
         Reject, ServeFromCache, Forward, UpstreamUnavailable, UpstreamReplies,
         RecordUsage, StoreAndReply, Disconnect, Crash, windows
    <3>2. /\ new = old \/ new \in Recorded(old, r)
          /\ \/ Within(new, UserMax)
             \/ answer'[r].reason \in {"rate_limit", "limiter_error"}
      <4>1. CASE CheckUser(r)
        <5>1. PICK window \in Recorded(user_window[call[r].user.user_id], r) :
                 /\ user_window' = [user_window EXCEPT ![call[r].user.user_id] = window]
                 /\ Within(window, UserMax) \/ Refuse(r, "rate_limit")
          BY <4>1 DEF CheckUser
        <5>2. u = call[r].user.user_id /\ new = window
          BY <1>1, <1>3, <2>3, <5>1 DEF TypeOK
        <5> QED
          BY <1>1, <1>3, <5>1, <5>2, RefuseEffect
      <4>2. CASE UserLimiterFails(r)
        <5>1. PICK window \in {user_window[call[r].user.user_id]}
                              \cup Recorded(user_window[call[r].user.user_id], r) :
                 user_window' = [user_window EXCEPT ![call[r].user.user_id] = window]
          BY <4>2 DEF UserLimiterFails
        <5>2. answer'[r].reason = "limiter_error"
          BY <1>1, <4>2, RefuseEffect DEF UserLimiterFails
        <5>3. u = call[r].user.user_id /\ new = window
          BY <1>1, <1>3, <2>3, <5>1 DEF TypeOK
        <5> QED
          BY <1>3, <5>1, <5>2, <5>3
      <4> QED
        BY <3>1, <4>1, <4>2
    <3>3. "rate_limit" \in Refused
      BY DEF Refused
    <3> QED
      BY ONLY IInv, [Next]_vars, r \in Requests, <2>1, <3>2, <3>3, RoundTrip, SMTT(30)
  <2> QED
    BY <2>2, <2>3
<1> QED
  BY <1>2, <1>3 DEF AdmittedWithinLimits, Admitted, NowAdmitted

(* The calls a limiter let through that are still in its window never      *)
(* exceed its limit (limiter.py:28-41, main.py:164-186).                   *)
THEOREM LimitsHold == Spec => []AdmittedWithinLimits
<1>1. Init => AdmittedWithinLimits
  <2> SUFFICES ASSUME Init PROVE AdmittedWithinLimits
    OBVIOUS
  <2>1. Cardinality({}) = 0
    BY FS_EmptySet
  <2>2. ChainMax \in Nat /\ UserMax \in Nat
    BY GatewayAssumption
  <2>3. \A k \in Traces \cup Requests : Admitted(chain_window[k], "chain_rate_limit") = {}
    BY DEF Init, Admitted
  <2>4. \A u \in UserIds : Admitted(user_window[u], "rate_limit") = {}
    BY DEF Init, Admitted
  <2>5. ASSUME NEW k \in Traces \cup Requests
        PROVE  Cardinality(Admitted(chain_window[k], "chain_rate_limit")) <= ChainMax
    <3>1. Admitted(chain_window[k], "chain_rate_limit") = {}
      BY <2>3
    <3>2. Cardinality(Admitted(chain_window[k], "chain_rate_limit")) = 0
      BY <2>1, <3>1, Zenon
    <3> QED
      BY <2>2, <3>2
  <2>6. ASSUME NEW u \in UserIds
        PROVE  Cardinality(Admitted(user_window[u], "rate_limit")) <= UserMax
    <3>1. Admitted(user_window[u], "rate_limit") = {}
      BY <2>4
    <3>2. Cardinality(Admitted(user_window[u], "rate_limit")) = 0
      BY <2>1, <3>1, Zenon
    <3> QED
      BY <2>2, <3>2
  <2> QED
    BY <2>5, <2>6, Zenon DEF AdmittedWithinLimits
<1>2. IInv /\ [Next]_vars /\ AdmittedWithinLimits => AdmittedWithinLimits'
  BY LimitsStep
<1> QED
  BY <1>1, <1>2, Invariant, PTL DEF Spec

-----------------------------------------------------------------------------
(* The token counters.                                                     *)
Prompted(d)  == {r \in Charged(d) : call[r].body = "chat"}
Completed(d) == {r \in Charged(d) : reply[r].kind = "choices"}

UsageOf(d) ==
    /\ usage[d].total = usage[d].prompt + usage[d].completion
    /\ usage[d].prompt <= Cardinality(Prompted(d))
    /\ usage[d].completion <= Cardinality(Completed(d))

(* A call that may have been accounted for stays one, with its request and *)
(* its reply.                                                              *)
LEMMA ChargedStays ==
    ASSUME IInv, [Next]_vars, NEW d \in Departments, NEW q \in Charged(d)
    PROVE  q \in Charged(d)' /\ call'[q] = call[q] /\ reply'[q] = reply[q]
<1> DEFINE StillCharged ==
             /\ call'[q] = call[q]
             /\ reply'[q] = reply[q]
             /\ pc'[q] = "store" \/ answer'[q].reason \in {"upstream", "lost"}
<1>1. /\ TypeOK /\ CallInv(q) /\ q \in Requests
      /\ pc[q] = "store" \/ answer[q].reason \in {"upstream", "lost"}
  BY DEF IInv, TInv, Charged
<1>2. pc[q] \in {"store", "done"}
  BY <1>1 DEF CallInv, Untouched, InFlight, TypeOK
<1>3. ASSUME NEW r \in Requests, NEW c \in Calls, Receive(r, c) PROVE StillCharged
  <2>1. r # q
    BY <1>2, <1>3 DEF Receive
  <2>2. call'[q] = call[q] /\ reply' = reply
    BY <1>1, <1>3, <2>1 DEF Receive, TypeOK
  <2>3. pc'[q] = pc[q] /\ answer'[q] = answer[q]
    BY <1>1, <1>3, <2>1, RefuseEffect, GotoEffect DEF Receive
  <2> QED
    BY <1>1, <2>2, <2>3
<1>4. ASSUME NEW r \in Requests, StoreAndReply(r) PROVE StillCharged
  <2>1. UNCHANGED <<call, reply>> /\ Answer(r, "upstream", LiveResponse(reply[r], call[r].user), r)
    BY <1>4 DEF StoreAndReply
  <2>2. CASE r = q
    BY <1>1, <2>1, <2>2, AnswerEffect
  <2>3. CASE r # q
    BY <1>1, <2>1, <2>3, AnswerEffect
  <2> QED
    BY <2>2, <2>3
<1>5. ASSUME NEW r \in Requests, Advance(r) \/ Disconnect(r), ~StoreAndReply(r)
      PROVE  StillCharged
  <2>1. r # q
    BY <1>2, <1>5 DEF Advance, CheckChain, CheckUser, ChainLimiterFails,
       UserLimiterFails, Reject, ServeFromCache, Forward, UpstreamUnavailable,
       UpstreamReplies, RecordUsage, Disconnect
  <2>2. call' = call
    BY <1>5 DEF Advance, CheckChain, CheckUser, ChainLimiterFails, UserLimiterFails,
       Reject, ServeFromCache, Forward, UpstreamUnavailable, UpstreamReplies,
       RecordUsage, Disconnect
  <2>3. reply'[q] = reply[q]
    BY <1>1, <1>5, <2>1 DEF Advance, CheckChain, CheckUser, ChainLimiterFails,
       UserLimiterFails, Reject, ServeFromCache, Forward, UpstreamUnavailable,
       UpstreamReplies, RecordUsage, Disconnect, TypeOK
  <2>4. \/ (\E point : Goto(r, point)) /\ answer' = answer
        \/ \E why, what, src : Answer(r, why, what, src)
    BY <1>5 DEF Advance, CheckChain, CheckUser, ChainLimiterFails, UserLimiterFails,
       Reject, ServeFromCache, Forward, UpstreamUnavailable, UpstreamReplies,
       RecordUsage, Disconnect, Refuse
  <2>5. pc'[q] = pc[q] /\ answer'[q] = answer[q]
    <3>1. CASE (\E point : Goto(r, point)) /\ answer' = answer
      BY <1>1, <2>1, <3>1, GotoEffect
    <3>2. CASE \E why, what, src : Answer(r, why, what, src)
      BY <1>1, <2>1, <3>2, AnswerEffect
    <3> QED
      BY ONLY <2>4, <3>1, <3>2, Zenon
  <2> QED
    BY ONLY <1>1, <2>2, <2>3, <2>5, Zenon
<1>6. ASSUME Crash PROVE StillCharged
  BY <1>1, <1>2, <1>6 DEF Crash, Parked, Reply
<1>7. ASSUME UNCHANGED vars PROVE StillCharged
  BY <1>1, <1>7 DEF vars
<1>8. StillCharged
  BY <1>3, <1>4, <1>5, <1>6, <1>7 DEF Next
<1> QED
  BY <1>1, <1>8 DEF Charged

LEMMA CountsGrow ==
    ASSUME IInv, [Next]_vars, NEW d \in Departments
    PROVE  /\ Prompted(d) \subseteq Prompted(d)'
           /\ Completed(d) \subseteq Completed(d)'
           /\ Prompted(d)' \in SUBSET Requests /\ Completed(d)' \in SUBSET Requests
BY ChargedStays DEF Prompted, Completed, Charged

LEMMA Grown ==
    ASSUME NEW T \in SUBSET Requests, NEW S \in SUBSET T, NEW n \in Nat,
           n <= Cardinality(S)
    PROVE  /\ n <= Cardinality(T)
           /\ \A x \in T \ S : n + 1 <= Cardinality(T)
<1>1. IsFiniteSet(T)
  BY GatewayAssumption, FS_Subset
<1>2. IsFiniteSet(S) /\ Cardinality(S) <= Cardinality(T)
  BY <1>1, FS_Subset
<1>3. Cardinality(S) \in Nat /\ Cardinality(T) \in Nat
  BY <1>1, <1>2, FS_CardinalityType
<1>4. ASSUME NEW x \in T \ S PROVE n + 1 <= Cardinality(T)
  <2>1. S \cup {x} \in SUBSET T
    BY <1>4
  <2>2. Cardinality(S \cup {x}) <= Cardinality(T)
    BY <1>1, <2>1, FS_Subset
  <2>3. Cardinality(S \cup {x}) = Cardinality(S) + 1
    BY <1>2, <1>4, FS_AddElement
  <2> QED
    BY <1>3, <2>2, <2>3
<1> QED
  BY <1>2, <1>3, <1>4

LEMMA UsageStep ==
    ASSUME IInv, [Next]_vars, NEW d \in Departments, UsageOf(d)
    PROVE  UsageOf(d)'
<1>1. TypeOK
  BY DEF IInv, TInv
<1>2. usage[d] \in [prompt : Nat, completion : Nat, total : Nat]
  BY <1>1 DEF TypeOK
<1>3. CASE usage'[d] = usage[d]
  <2>1. usage[d].prompt <= Cardinality(Prompted(d)')
    BY <1>2, CountsGrow, Grown DEF UsageOf
  <2>2. usage[d].completion <= Cardinality(Completed(d)')
    BY <1>2, CountsGrow, Grown DEF UsageOf
  <2> QED
    BY <1>3, <2>1, <2>2 DEF UsageOf
<1>4. CASE usage'[d] # usage[d]
  <2>1. PICK r \in Requests : RecordUsage(r)
    BY <1>4 DEF Next, vars, Advance, Receive, CheckChain, CheckUser, ChainLimiterFails,
       UserLimiterFails, Reject, ServeFromCache, Forward, UpstreamUnavailable,
       UpstreamReplies, StoreAndReply, Disconnect, Crash, stores
  <2> DEFINE p == PromptTokens(call[r])
             n == CompletionTokens(reply[r])
  <2>2. usage' = [usage EXCEPT ![call[r].user.department] =
                     [prompt |-> @.prompt + p, completion |-> @.completion + n,
                      total |-> @.total + p + n]]
    BY <1>4, <2>1 DEF RecordUsage
  <2>3. /\ call[r].user.department = d
        /\ usage'[d] = [prompt |-> usage[d].prompt + p,
                        completion |-> usage[d].completion + n,
                        total |-> usage[d].total + p + n]
    BY <1>1, <1>4, <2>2 DEF TypeOK
  <2>4. CallInv(r) /\ pc[r] = "account" /\ UNCHANGED <<call, reply>>
    BY <2>1 DEF IInv, RecordUsage
  <2>5. r \notin Charged(d)
    BY <2>4 DEF CallInv, InFlight, Parked, Charged
  <2>6. pc'[r] = "store"
    BY <1>1, <2>1, GotoEffect DEF RecordUsage
  <2>7. r \in Charged(d)'
    BY <2>3, <2>4, <2>6 DEF CallInv, InFlight, Charged
  <2>8. p \in Nat /\ n \in Nat
    BY DEF PromptTokens, CompletionTokens
  <2>9. usage[d].prompt + p <= Cardinality(Prompted(d)')
    <3>1. CASE call[r].body = "chat"
      <4>1. r \in Prompted(d)' \ Prompted(d)
        BY <2>4, <2>5, <2>7, <3>1 DEF Prompted
      <4>2. p = 1
        BY <3>1 DEF PromptTokens
      <4> QED
        BY <1>2, <4>1, <4>2, CountsGrow, Grown DEF UsageOf
    <3>2. CASE call[r].body # "chat"
      <4>1. p = 0
        BY <3>2 DEF PromptTokens
      <4> QED
        BY <1>2, <4>1, CountsGrow, Grown DEF UsageOf
    <3> QED
      BY <3>1, <3>2
  <2>10. usage[d].completion + n <= Cardinality(Completed(d)')
    <3>1. CASE reply[r].kind = "choices"
      <4>1. r \in Completed(d)' \ Completed(d)
        BY <2>4, <2>5, <2>7, <3>1 DEF Completed
      <4>2. n = 1
        BY <3>1 DEF CompletionTokens
      <4> QED
        BY <1>2, <4>1, <4>2, CountsGrow, Grown DEF UsageOf
    <3>2. CASE reply[r].kind # "choices"
      <4>1. n = 0
        BY <3>2 DEF CompletionTokens
      <4> QED
        BY <1>2, <4>1, CountsGrow, Grown DEF UsageOf
    <3> QED
      BY <3>1, <3>2
  <2>11. usage'[d].total = usage'[d].prompt + usage'[d].completion
    BY <1>2, <2>3, <2>8 DEF UsageOf
  <2> QED
    BY <2>3, <2>9, <2>10, <2>11 DEF UsageOf
<1> QED
  BY <1>3, <1>4

(* Departments are charged at most once for a call, and only for calls the *)
(* upstream answered (main.py:391-396, token_accounting.py:76-85).         *)
THEOREM UsageHolds == Spec => []UsageBound
<1> DEFINE Inv == \A d \in Departments : UsageOf(d)
<1>1. Init => Inv
  <2> SUFFICES ASSUME Init, NEW d \in Departments PROVE UsageOf(d)
    OBVIOUS
  <2>1. Prompted(d) = {} /\ Completed(d) = {}
    BY DEF Init, Prompted, Completed, Charged, NoReply
  <2>2. Cardinality(Prompted(d)) = 0 /\ Cardinality(Completed(d)) = 0
    BY <2>1, FS_EmptySet, Zenon
  <2>3. usage[d] = [prompt |-> 0, completion |-> 0, total |-> 0]
    BY DEF Init, NoUsage
  <2> QED
    BY <2>2, <2>3 DEF UsageOf
<1>2. IInv /\ [Next]_vars /\ Inv => Inv'
  BY UsageStep
<1>3. Inv => UsageBound
  BY DEF UsageOf, UsageBound, Prompted, Completed
<1> QED
  BY <1>1, <1>2, <1>3, Invariant, PTL DEF Spec
=============================================================================
