# AI Governance Gateway: TLA+ models, checks and proofs

The gateway (`src/app`) is one FastAPI process between clients and an upstream
AI agent.  Every call to the catch-all route `governed_proxy`
(`src/app/main.py:134-424`) is authenticated, rate-limited, cut down to what the
caller's clearance allows, masked, possibly answered from a semantic cache,
forwarded, masked again, accounted for, cached and logged.  This directory holds
the specifications of that pipeline, the TLC configurations that check them and
the TLAPS proofs of what they show for every value of the constants.

## 1. Inventory

| part (under `src/app`) | state it keeps | operations | who calls it |
|---|---|---|---|
| `main.py` `governed_proxy` | per call: the local variables that live across awaits | the request pipeline | HTTP clients |
| `main.py` `lifespan` | module globals, set once | start-up, shutdown | uvicorn |
| `auth/` | none | token to `UserContext`, 401s | middleware, before the handler |
| `policy/schema.py`, `enforcement.py`, `permissions.yaml` | the matrix, loaded once (`lru_cache`) | `policy_for`, `filter_tools`, redaction per user and for everybody, masking exemptions | handler |
| `policy/manifest.py` | none (frozen models) | `build_capability_manifest`, `preflight_check`, `narrow` | handler; `narrow` only by delegation |
| `policy/delegation.py` | none | `route_delegation` | nobody in the gateway: a library |
| `documents/` | the registry, loaded once | reference detection, resolution, stripping | handler, persisted view |
| `interagent/` | none | wrapping of inter-agent text | nobody in the gateway: a library |
| `guardrails/` | Presidio engine, built once | live and persisted views, injection scan | handler |
| `rate_limit/limiter.py`, `chain_limiter.py` | a Redis sorted set per user and per chain | `check_and_record` | handler, before the body is read |
| `rate_limit/token_accounting.py` | Redis counters per department | `record_usage`, `get_usage` | handler, after the upstream |
| `cache/` | a vector collection on disk, only ever added to | `lookup`, `store` | handler, before and after the upstream |
| `proxy/client.py` | an HTTP pool | `forward`, three ways of raising | handler |
| `observability/` | Langfuse's own queue | `log_call`, trace ids | handler |

**How they interact.**  Everything runs on one event loop.  A call gives way to
others only at its awaits: the chain limiter (`main.py:165`), the user limiter
(177), the request body (190), the upstream (317) and the token counters (393).
Between two awaits a call runs alone, however many synchronous calls it makes:
embedding, cache lookup and store, masking and `log_call` all are synchronous.
What calls share is the cache, the counters, the limiter windows and the log;
what they carry over an await is their own request, its persisted view, the
cache key and `had_restricted_context`.

**What is hard.**

- *Sharing across clearances.*  One cache serves all departments and levels.
  What a junior gets from it was produced for somebody else, perhaps a senior
  with exemptions.  Safety rests on a chain of decisions, some taken before the
  upstream call and used after it.
- *Two views.*  Each body exists as it came, policy-filtered, masked for its
  caller, and masked for everybody; reading the wrong copy is a one-word bug.
- *Partial failure.*  Each stage fails in its own way: closed (500), open (the
  persisted view, the lookup, the store, accounting and logging are swallowed)
  or by ending the call (502, 503).
- *Races on the limits.*  The verdict is the count of the attempt's own
  transaction; the clock is read before the wait for a connection.
- *Text order.*  Redaction, resolution, stripping and masking are passes of
  regular expressions, each over what the passes before it left; one pass can
  take away the mark another one looks for.
- *Calls that come back.*  An agent that serves an exchange may call the gateway
  again, through the same pool of connections and under the same timeouts, with
  only what headers its caller sent to say that it is nested.
- *Stopping.*  The process may stop with calls at any await; Redis and the
  vector store keep what they have.

The correctness properties of each part are in section 4; the full list of
hazards, each with its line and the properties aimed at it, is in
`PROJECT.json`.

## 2. Modules

| module | what it is |
|---|---|
| `Policy` | the permission matrix and the pure decisions taken from it (`policy/`, `documents/`) |
| `Gateway` | `governed_proxy` and everything it calls: one action per stretch between awaits |
| `GatewayProperties` | type invariant, safety and liveness properties, the refinement mapping, claims of the documents |
| `GovernedService` | abstract specification: what the gateway promises about its log and its cache |
| `GatewayInvariant` | the inductive invariant `IInv` |
| `MCGateway` | the instances of `Gateway` for TLC |
| `GovernedText` | redaction, references, sentinel wraps and the logging hook, on texts with their order |
| `MaskingEngine` | recognizers, overlap resolution, splicing, JSON values, injection scan (`guardrails/`) |
| `BodyText` | one string of a body through the handler: every copy made of it, in order |
| `BodyTextProperties` | what the copies must and must not contain |
| `MCBodyText` | the texts of its runs |
| `Limiter` | abstract specification of a limiter: all that `Gateway` uses of one |
| `RateLimiter` | `SlidingWindowRateLimiter` on one key, with its clock |
| `MCRateLimiter` | its instances |
| `Delegation` | `policy/delegation.py` and `CapabilityManifest.narrow` along a path of agents |
| `MCDelegation` | its instance |
| `AgentCalls` | agents that call the gateway back: trace and depth headers, the chain limiter, the pool and its timeouts |
| `MCAgentCalls` | its instance |
| `PolicyProofs`, `GatewayProofs`, `RateLimiterProofs`, `DelegationProofs`, `AgentCallsProofs`, `BodyTextProofs`, `RecordProofs` | theorems and proofs |
| `TextProofs` | theorems about the functions of `GovernedText` and `MaskingEngine`, on which `BodyTextProofs` and `RecordProofs` rest |

`Gateway`, `Delegation` and `GovernedText` EXTEND `Policy`; `MaskingEngine`
EXTENDS `GovernedText` and `BodyText` EXTENDS `MaskingEngine`.  `Gateway` implements `GovernedService`, and
`RateLimiter` implements `Limiter`, whose `Recorded` and decision are those of
`Gateway`'s `CheckChain` and `CheckUser`: what `Gateway` takes an action for is
what the clocked module shows the Redis transaction to be.  `BodyText` is the
same handler as `Gateway` seen from inside one text: where `Gateway` removes items
from a set, `BodyText` runs the passes that are to remove them, and
`RedactionExact` and `DocumentsStayOut` say when the two agree (for texts whose
marked stretches do not cross; a line that ends with the block around it counts as
crossing, because the line pattern puts a newline where the block ended).  `AgentCalls` composes several calls of the
handler with the connection pool they share.

### Gateway: state and actions

| variable | code |
|---|---|
| `pc[r]` | the await call `r` is parked at: `chain`, `user`, `body`, `upstream`, `account`, `store` (accounting has returned) |
| `call[r]` | headers, user and body of the request |
| `sent[r]` | the body and tools `UpstreamProxyClient.forward` received |
| `reply[r]` | the upstream's reply |
| `persisted[r]` | `persisted_request_body`, `cache_query_text` (as the store will use it), `persisted_response_body` |
| `answer[r]` | status (as a reason) and body the client received; `source` is the call whose upstream reply it carries |
| `cache`, `audit`, `usage`, `chain_window`, `user_window` | vector store, Langfuse records, department counters, sorted sets |

| action | code |
|---|---|
| `Receive` | the middleware and `main.py:135-162`: 401, the depth ceiling, or on to the first limiter |
| `CheckChain`, `CheckUser` | `main.py:164-186`: the MULTI of `limiter.py:34-39`, then 429 or on |
| `ChainLimiterFails`, `UserLimiterFails` | the same, raising, with Redis having run the transaction or not |
| `Reject` | `main.py:188-266`: malformed JSON, preflight refusal, fail-closed 500s, flagged content |
| `ServeFromCache` | `main.py:224-314` when the lookup hits |
| `Forward` | `main.py:224-317` when it does not |
| `UpstreamUnavailable`, `UpstreamReplies` | `main.py:317-389`: 502, an unparsable reply, failing outbound masking, or on with `persisted_response_body` |
| `RecordUsage` | `main.py:391-396` |
| `StoreAndReply` | `main.py:398-424`: store, log, answer |
| `Disconnect`, `Crash` | the client hangs up while its body is read; the process stops |

### Delegation: state and actions

`manifest` and `payload` are what the agent at the end of the path holds, `user`
the verified identity it all started from, `action` the last
`DelegationDecision.action`.  Manifests are frozen, so branches of a delegation
tree cannot reach each other and one path stands for the tree.

| action | code |
|---|---|
| `Resolve` | `build_capability_manifest`, `manifest.py:80-95` |
| `Delegate`, `DelegateNarrowed`, `Deny` | the three kinds of decision of `route_delegation`, `delegation.py:84-157`; the agent passes on what it was handed or asks for something of its own |
| `Narrow` | a direct call of `narrow`, `manifest.py:43-78` |

### BodyText: state and actions

A text is a sequence of symbols: a tag, a sentinel, a reference, a value some
recognizer finds, a newline, or a stretch nobody looks at (a numbered word).
`copy` has a field for each copy the handler makes; `restricted` is
`had_restricted_context`, `scanned` the findings of the injection scan, `boosted`
the kinds of match whose score the context raised in the last analysis.

| action | code |
|---|---|
| `EnforcePolicy` | `enforce_policy_on_payload`, `main.py:224` |
| `Resolve` | `resolve_document_references` |
| `Scan` | the injection scan and its 400, `main.py:239-258` |
| `MaskLive` | `build_live_view`, or `_mask_openai_style_choices` for a reply |
| `Redact` | `redact_payload_for_persisted_view`, `main.py:275` |
| `Strip` | `_strip_sentinels_from_payload`, for documents and for payloads |
| `MaskPersisted` | the masking of `build_persisted_view` |
| `Log` | the mask hook of the Langfuse client |

The strings are the contents of messages by role, tool results, arguments of tool
calls, and contents of replies; each goes the way the code sends it (only system
prompts are redacted, arguments are neither resolved nor stripped, tool results
and arguments are masked string value by string value when they parse as JSON, a
reply starts at `MaskLive`).  A JSON text is a row of stretches, each behind an
opener: `Leaf` for a string value, `Bare` for a key or a value that is no string,
a bare number included, which the code returns as it is.  A symbol spelt with JSON's
escapes is `Escaped`: the scan and the policies see it so, `json_loads` takes the
escapes away and `json_dumps` puts its own in.  The arguments of a tool call inside a reply have no kind of their own:
they take the last steps of those of a request.

### AgentCalls: state and actions

| variable | code |
|---|---|
| `phase[c]` | at the chain limiter, admitted, waiting for a pool connection, connecting, reading, or how the call ended |
| `parent`, `depth`, `trace` | the call whose agent made it, and the two headers |
| `wait[c]` | time in the current wait, or since the last bytes |
| `age[c]` | time since it read the clock for the chain limiter, up to `ChainWindow + Delay` |
| `zset` | the calls in the sorted sets of all chains |
| `parts[c]` | pauses of the reply so far |
| `root`, `hops`, `raised` | history: the tree the call belongs to, the number of calls above it, whether every agent above it raised the depth |

| action | code |
|---|---|
| `Call`, `CallBack` | `main.py:140-165` for a client, or for the agent of an open exchange: ceiling, `continue_trace`, and the limiter's reading of the clock (`limiter.py:30`) |
| `Record` | its transaction (`limiter.py:34-56`), up to `Delay` later and in any order among calls: purge, add, count, the verdict; or a round trip that fails, before or after Redis ran it |
| `Govern` | `main.py:176-319`: on to `forward`, or the end of the call by the user's limiter, the body, a refusal or a cache hit |
| `Acquire`, `Connect`, `Answer`, `Trickle`, `Break` | the httpx pool and connection of `proxy/client.py:20-80` |
| `Expire` | the pool, connect and read timeouts |
| `Tick` | the clock; a timer that is due fires first, and a transaction waits no longer than `Delay` |

### Abstractions

- **Text is a set of items**: a restricted passage (its tag), a value of an
  entity type, a document's body.  Redaction, masking and stripping remove items.
  What their order within a text can do is the subject of `BodyText`.  The
  references of a call and the items of its messages are independent sets.
- **A passage belongs to a system prompt**: the code redacts no other role
  (`enforcement.py:103-139`), so a restricted tag in a user's own message is not
  one of the items.  `had_restricted_context` is computed with the persisted
  view; that redaction itself raises, which would leave it false, is not
  modelled: with a validated matrix there is nothing in it that can.
- **Delegation**: topics are the keywords the last user message contains, lists
  of tools are sets (duplicates only repeat a name in a message), and a missing
  registry is an empty one.  `_try_narrow` returning `None` does not occur after
  the depth check of `delegation.py:98` and has no action.
- **Recognition is exact** in `Gateway`: a value of an entity type is found when
  the type is asked for.  `EntitiesToMask \subseteq PersistedEntities`
  is assumed, as the defaults of `config.py` have it; an operator who overrides
  `guardrails_entities_to_mask` can void it.  `MaskingEngine` has the project's own
  recognizers with their scores, the Luhn check on digits, and overlaps.  What a
  regular expression matches as a unit is one symbol, and Presidio is external:
  it reports each match, raised by 0.35 when a context word is near, which is
  left open per kind of match and per analysis.  Of its predefined recognizers,
  which `engine.py:31-43` asks for too, only `CREDIT_CARD` is modelled (as any set
  `PredefinedCards` of numbers), because it finds the same digits as the gateway's
  own `BANK_CARD_NUMBER` with the same score; `IP_ADDRESS`, `EMAIL_ADDRESS`,
  `PHONE_NUMBER`, `US_SSN`, `US_BANK_NUMBER`, `IBAN_CODE` and the language model are
  left out.  So is a SWIFT code read into the word PROPRIETARY itself.  Findings of
  one span and score keep the order in which the analyzer lists them: the model
  has one order per entity (`AnalyzerOrder`, any), where Presidio's may differ from
  text to text.
- **JSON** is told apart as far as the rules do: string values, other stretches,
  escapes, and raw newlines, which make `json.loads` fail.  Duplicate keys, of which
  Python keeps the last, numbers `json.dumps` writes anew, and newlines between the
  values are left out.  Escapes of a stretch no rule looks at are not told from the
  stretch; an escape that changes no symbol of the value but hides a word boundary
  before it from the scanner is the same `Escaped` symbol.
- **Strings one at a time**: the code treats the strings of a body independently
  but for two disjunctions over them (`had_restricted_context`, the scan's
  verdict), which `Gateway` has.  A document's name is taken to be its id.
- **Inter-agent payloads**: `BodyText` has strings whose caller gives
  `build_persisted_view` the payload token and strings whose caller does not; the
  handler is always the second.
- **Agents are external**: an agent may call back while its exchange is open, and
  sends what it received (`_build_forward_headers` passes the headers of its
  caller on), with the depth raised or not.  Clients start with depth 0.  The
  limiters other than the chain's, and everything about bodies, are
  in `Gateway`, and are one step of any outcome here.  The chain's key does not expire: it
  would two windows after its last transaction, when no transaction that waited
  at most a window counts anything of it (`Delay \in 0 .. ChainWindow`).  Waiters are served in order, timers fire when due, and a reply
  pauses at most `MaxParts` times.
- **Bodies the scanners do not read** are kept as a kind of their own
  (`"unscanned"` requests, `"object"` and `"opaque"` replies) and pass unmasked,
  as in the code; the safety properties name the calls they speak of (`Scanned`).
  A JSON body is an object: an array raises, which is the internal error, and
  `null` is no body.  A `tools` value that is not a list, which
  `enforcement.py:149` passes on unfiltered, is not among the bodies.
- **Similarity** of two queries is the constant `Score`; a query is the last user
  message as its persisted view reads.
- **A limiter window** in `Gateway` is a set of calls any of which may leave at
  the next transaction, so every timing is covered; `RateLimiter` has the clock.
  User identifiers are assumed not to start with `chain:`, so that the two
  families of keys are disjoint.
- **A token** is a text that was counted: prompts of chat bodies, completions of
  replies with choices.
- **The audit log** is the records handed to Langfuse with logging enabled.
  Records Langfuse buffers and loses are outside.
- **A stop** happens at an await, as a shutdown of uvicorn does.  A kill between
  two statements is not modelled: between the store and the record
  (`main.py:405-409`) it leaves a cached answer that was never logged.
- `RateLimiter` bounds the wait between reading the clock and Redis running the
  transaction by `Delay`, takes `time.time()` as never going back, and `Expire`
  may drop an expired key at any later moment.

## 3. Runs

The instances of users and policies come from a cut of `permissions.yaml` (`MCGateway`): a junior
engineer and an HR senior whose department is spelt differently in the token, a
passage only seniors see, one the HR override restricts, the HR seniors' card
exemption, a namespaced tool, an HR document and one the registry does not know.

| run | instance | asks |
|---|---|---|
| `gateway_paths` | 2 calls of 13 kinds, limits of 1, one shared trace, every kind of reply | `TypeOK`, `IInv`, `UpstreamSeesOnlyPermitted`, `CacheScope`, `AdmittedWithinLimits`, `ImplementsService` |
| `gateway_sharing` | 2 calls, junior and exempt senior, limits of 1, an upstream that discloses by itself, replies with and without choices or JSON; `FairSpec` | `PersistedViewGuarantee`, `ServedWithinClearance`, `UsageBound`, `EveryCallEnds` |
| `limiter_clock` | 5 attempts, limit 2, window 3, delay 1, clock to 7 | `IInv`, `LimitedPerWindow`, `RefusedUnderLoad`, `ImplementsLimiter` |
| `delegation_chains` | up to three hops, three users, four sub-agents, 35 requests, 4 direct calls of `narrow` | `WithinOrigin`, `NarrowedIsServable`, `NeverWidens` |
| `text_views` | system prompts of four marks and of five different ones for three users, prompts with echoed documents next to, in and around passages, messages and JSON with wraps, values, card numbers and injections | `IInv`, `RedactionExact`, `RestrictionNoticed`, `BodiesArriveWrapped`, `DocumentsStayOut`, `PayloadsStayOut`, `ValuesMasked`, `SplicesExact`, `LinesYieldOnlyToBetter`, `ScanSeesWhatIsForwarded` |
| `agents_nested` | 3 calls, 2 connections, ceiling 2, chain limit 2 in a window of 3, transactions up to 1 late, timeouts 2 and 1 | `IInv`, `HopsBounded`, `NamedTreesLimited`, `NestedTimeoutsComeTooLate` |
| `agents_waits` | 3 calls, 2 connections, no depth raised, timeouts 2 and 1; `FairSpec` | `EveryHopEnds` |

Five more runs check a sentence of the repository and find it violated (section
5): three of `Gateway`, one each of `BodyText` and `AgentCalls`.

**Why the bounds are enough.**  Sharing needs one call that stores and one that
hits, and a race needs two for one place: two calls.  A window of one is full
after one attempt, so both sides of every limit are reached.  Calls share a
trace, and one kind of call in `gateway_paths` starts its own.  Two clearances, two departments and one
override give every kind of difference between two policies the code
distinguishes (base, override, exemption, prefix).  Five attempts on a clock to
7 fill the window twice, leave it by the clock, run out of order, and see the
key expire (6 ticks after its last use) and be used again.  A chain of
three hops reaches the ceiling, `max_delegation_depth` being the code's default
of 4; the sub-agents require a tool the prefix grants and one nobody but the
admin has, a plain tool, a tag, or nothing, and the requests name every subset of
the tools with and without a document.  A redaction can disturb the text of one
other tag or of one document, so two tags, each opened and closed, a newline and a
reference are the marks; every text of four of them and every order of five
different ones has every way two stretches can lie to each other (apart, nested,
crossing, cut by a line end).  Overlaps of findings involve a line and what is
in it; three values with a newline cover them.  Card numbers of 15 and 16 digits
have both parities; one of 19 is found by the gateway's recognizer alone, the others by
Presidio's too, and one with two digits swapped by none.  Values of JSON are in strings and in other
stretches, plain and escaped.  Three nested calls on two connections are enough for
callers to hold every connection while the next one waits, and for a tree to pass
a chain limit of 2; a transaction one second late can purge, by its older or newer
reading, what another one counts, and `agents_waits` looks at the waits alone, with a
window that is soon over; a hop has time for its nested call and for its own timeout.
Wraps meet in pairs: three
segments with a reference inside an echo, a payload around a reference and payloads
in each other have every one in, around and beside the others, and four marks put
passages around them.  The proofs remove the bounds for every property but the two
liveness properties.  `MaxTime` bounds the clock in `Tick`'s guard and is a constant of
the theorems too, arbitrary.  Each call and each attempt happens once, which
bounds the runs: deadlock is not checked because every behaviour ends when all
calls have.

**Symmetry** is over call and attempt identifiers, which no definition tells
apart; the runs that check liveness do not use it.

**Fairness** (`FairSpec`): weak fairness of each call's next step, `Advance(r)`.
An asyncio task whose await is over is scheduled again.  That the await ends
is an *assumption* for both parties the handler waits for.  The upstream: the
client has a pool, a connect and a read timeout (`proxy/client.py:22-25`), which end
the wait for a silent upstream, but the read timeout is per read, so one that
keeps sending bytes is never cut off.  Redis: the pool is created without a socket
timeout (`redis_client.py:19-23`), so a Redis that accepts and never answers parks
its call for ever.  For the request body `Disconnect` or the server's own limits end
the wait; the model takes the body to arrive.  Receiving calls is not fair:
nobody has to call.

`AgentCalls.FairSpec` is weaker: only the clock, the timers and
the limiter's transactions are fair, the last because time does not pass a
transaction that has waited for `Delay`; the assumption about Redis is the one above.
Agents need never answer, connections need never come free, and a call may be
refused its place in the pool again and again; the timeouts of
`proxy/client.py:22-25` alone end every wait.  The bound on pauses is the
assumption about the upstream in this module.

## 4. Properties

- `UpstreamSeesOnlyPermitted`: what the upstream receives of a chat call respects
  the caller's tags, documents, exemptions and tools.
- `PersistedViewGuarantee`: nothing any policy restricts, no document body and no
  persisted-view entity is cached or logged, whoever called.
- `ServedWithinClearance`: no answer, live or cached, exceeds its receiver.
- `CacheScope`: only calls left without tools and without document references
  store or hit; a hit is near enough and intact; a restricted context leaves only
  the placeholder.
- `AdmittedWithinLimits`: among the attempts in a window, those admitted are
  within the limit, however they race and whatever fails.
- `UsageBound`: a department is charged at most once for a call, only for calls
  the upstream answered.
- `EveryCallEnds`: every call begun is answered or lost.
- `ImplementsService`: answering and recording are one step; refused and lost
  calls leave no record and no stock; a hit returns what a served call stored.
- `RedactionExact`: what the passes of `_redact_tags` leave of a system prompt is
  what lies outside the restricted passages, for the user and again for
  everybody on the text the documents are in; `RestrictionNoticed`: a passage
  the user may see and others may not sets `had_restricted_context`.
- `BodiesArriveWrapped`: whatever the redaction for the user cut around an echoed
  document, and wherever a reference is resolved, inside an echo too, every body
  of the resolved text stands in a document's wrap that closes; the strips and the
  hook, which match from an opening sentinel, rely on it.
- `DocumentsStayOut`: no document body is in the record, the request's own or one
  echoed from an earlier request, wherever it lies among payloads, passages,
  proprietary lines and masks.  It is about inputs whose marked stretches do not
  cross before and after the resolution (`Laminar`), whose bodies came in wraps of
  other tokens (`EchoesInOrder`: tokens are drawn per request), none in another
  (`DocumentsApart`: the hook's pattern would stop at the first close), and of
  which `json.dumps` hid none (`EchoHidden`).
- `PayloadsStayOut`: the payloads a persisted copy holds stood outside the wraps of
  the token it was made for, nested wraps and ones around other marks included;
  no wrap of that token is left; and `unwrap` recovers every payload in full.
- `ValuesMasked`: whatever overlaps, however JSON spells it and whatever the
  context raises, no address, key, issued card number or (in persisted copies)
  amount is left in a masked text or in a string value of masked JSON; keys, and
  values that are no strings, are not masked (`json_masking.py:17-21`) and
  the property says nothing of them;
  `SplicesExact`: masking disturbs nothing else, JSON keys and other values
  included; `LinesYieldOnlyToBetter`: a
  word of a proprietary line is left only where a better finding took the line's
  place.
- `ScanSeesWhatIsForwarded`: every injection pattern the upstream receives was
  before the scanner, those of documents included, but for those that only the
  unescaping of a JSON string brings out (section 5).
- `HopsBounded`, `NamedTreesLimited`: the ceiling and the chain limiter bound
  the depth and the fan-out of a tree of calls, the first as far as agents raise
  the depth, the second as far as the root named its trace, and for the calls that
  read the clock within a window less the longest wait for a transaction: two
  calls further apart can both be admitted to one place of a full window.
- `NestedTimeoutsComeTooLate`: a nested call that times out waiting finds its
  caller gone or out of time, unless bytes gave that one more; `EveryHopEnds`:
  calls that hold all connections and wait for each other end all the same.
- `LimitedPerWindow`: no more than the limit are admitted among attempts made
  within the window less the longest wait; `RefusedUnderLoad`: a refusal means the
  limit was really used up, so a lone retry after `retry_after_seconds` succeeds;
  `ImplementsLimiter`: the limiter is the one `Gateway` takes it for.
- `WithinOrigin`: along any chain of delegations no agent can use a tool the
  gateway would filter from the user at its origin, escape a masking, see a tag or
  a document, or be handed a request for such a tool.  `narrow` keeps prefixes and
  `allow_all_tools` while it cuts the tool list (`manifest.py:62`), so a list may
  regain names an ancestor gave up; what the manifest grants still never grows,
  which is `NeverWidens`, with the depth ceiling.
- `NarrowedIsServable`: a narrowed request passes the preflight check of the
  manifest it is handed over with, although tools are stripped from the one and
  given up by the other for different reasons.

Each property has a mutant in `PROJECT.json`: a one-place change of the model, of
the kind a coding slip makes, that the run detects.

## 5. Where code and documents disagree

1. `gateway_unusable_hit`: whatever the upstream returned is stored, a JSON error
   reply or the placeholder of an omitted response included, and served with
   status 200 to the next similar question (`main.py:366-376, 398`).
2. `gateway_unaudited`: a forwarded call that ends in a 502 or in failing outbound
   masking has no audit record, though "every call" is said to be logged.
3. `gateway_unmasked_reply`: a reply that is not JSON with `choices` is returned
   unmasked, though "every request and response" is said to be scanned.
4. `text_document_leak`: a restricted passage without a closing tag, on the line
   of a document reference, takes the document's opening sentinel with it; the
   document's further lines are logged, though the hook is said to keep
   documents out of the trace.
5. `agents_fan_out`: a tree of calls whose root named no trace passes the chain
   limit, because the trace the gateway starts is not sent upstream.

Noticed in reading or by the models, without a run of their own:

- The scan reads a tool result or arguments as the raw string, and masking decodes them
  as JSON (`json_masking.py:30-35`): an injection pattern spelt with escapes in a string
  is forwarded as itself and never was a finding, though README.md:69 has such
  patterns detected in what flows back up a delegation chain.
  `ScanSeesWhatIsForwarded` counts these apart (`DecodedAttempts`).
- A request said to be fully covered (`delegation.py:125`) may be delegated to a
  sub-agent whose manifest cannot use the tool it names: `delegation.py:119` compares
  the manifest with what the sub-agent requires, not with what is requested.
- Nothing keeps personal questions out of the cache, which README.md:58 says is
  for "genuinely reusable answers" (`main.py:291`).
- The limit of a full window can be passed by an attempt that waits between
  reading the clock and its transaction (`limiter.py:30`), by as much as the
  wait: `LimitedPerWindow` and `NamedTreesLimited` therefore speak of the window
  less the longest wait.
- Keys of a JSON object and values that are no strings are not masked, and a bare
  number is JSON: a tool result `{"card": 4111111111111111}`, or the number alone, is in
  the live and in the persisted copy as it came (`json_masking.py:15-21`).  That such values
  stay is what `test_tool_call_masking.py:22` asserts, so no run calls it a fault.
- `log_call` is never given the trace id (`main.py:409`), although README.md:70
  has every hop linked into one trace.
- `embeddings.py:67` calls `get_sentence_embedding_dimensions`, where the
  library's method is `get_sentence_embedding_dimension`.
- The handler never passes an inter-agent token to `build_persisted_view`, so the
  stripping `PayloadsStayOut` is about is not reached from a request.
- Where the passages of two tags cross, redacting the first may remove the
  opening or closing mark of the second and leave part of its passage:
  `RedactionExact` is about texts without crossings.  The proof found one more
  such case: cutting a line that ends where the block around it does
  puts a newline there and takes the block's closing tag.
- `json.dumps` writes the brackets of a sentinel as escapes, so a document echoed
  in a tool result is not seen by the hook (`EchoHidden`); nor is one whose brackets
  arrive as escapes.
- An amount whose context raises it (0.95) outscores the proprietary line it
  stands in (0.85): the persisted copy then has the rest of the line, which
  the live copy masks.
- An exempt finding keeps its place in the overlap resolution (`engine.py:114-131`):
  a user exempt from source markers would be sent a raised proprietary line with
  the addresses in it.  `permissions.yaml` exempts nobody from them;
  `ValuesMasked` leaves such a live copy out (`LinesAreMasked`).
- A nested call goes on after its caller timed out, holding its connection.

## 6. Proofs

The theorems hold for any matrix, registry, set of calls, limits, upstream and
set of texts that satisfy the named assumptions (`MatrixAssumption`,
`RegistryAssumption`, `NamesAssumption`, `GatewayAssumption`, `LimiterAssumption`,
`DelegationAssumption`, `AgentCallsAssumption`, `TagListsAssumption`,
`ThresholdAssumption`, `PartsAssumption`, `DocumentsAssumption`,
`CardNumbersAssumption`, `AnalyzerAssumption`), which TLC evaluates in the runs of the modules that have
them.  `PartsAssumption` and `DocumentsAssumption` ask that texts be `WellSpelt`:
injection patterns have the scores of `recognizers.py`, and a stretch no rule looks
at, a body or a payload is one symbol however JSON spells it.

1. `PolicyProofs`: `BaselineCoversPolicies` (what is redacted for everybody
   contains what any user's policy restricts, overrides included) and
   `PreflightAgreesWithFilter` (the tools and documents the preflight check calls
   usable are those the filter and the resolution keep, nameless tools apart, and it
   passes a request for something when one of them is left).
2. `GatewayProofs`: `TypeCorrect`, from the inductive `TInv` (types, and that a
   call past the middleware has a user), one lemma per action; then `Invariant`,
   that `IInv` is inductive.  The safety properties speak of what stores hold and
   are not inductive: nothing in them says that what waits at an await to be
   stored is safe.  `IInv` says that every stored, logged, sent or answered
   content is the handler's own function of the call and the reply it came from,
   including what is in flight, and that a cached point belongs to an answered
   call.  The safety theorems (`UpstreamGoverned`, `PersistedViewSafe`,
   `AnswersWithinClearance`, `CacheScoped`) then are facts about those functions,
   which rest on `BaselineCoversPolicies` and set algebra.
3. `GatewayProofs` also has `Implementation`, each action a step or a stutter of
   `GovernedService`; `LimitsHold` (answers are final, so a window nobody
   touches admits nobody new, and a round trip either counts the whole window or
   refuses its own call) and `UsageHolds` (each `RecordUsage` charges a call that
   was not charged before).
4. `RateLimiterProofs`: `Invariant`, `LimitHolds`, `RefusalsJustified` and
   `Implementation`.  The invariant says that a decided attempt is missing from
   the sorted set only when the clock has carried it out of the window; the limit
   is proved at the last admission among the attempts of a window, whose own
   count includes the others.
5. `DelegationProofs`: `AccessWithinOrigin`, `HopsNarrow` and `NarrowedServable`.
   `WithinOrigin` with the types is inductive; what carries it is `NarrowUsable`,
   that nothing `narrow` returns can use a tool its receiver could not, whatever
   is asked of it and although only the tool list is intersected through
   `can_use_tool`.
6. `AgentCallsProofs`: `Invariant`, `HopsHold`, `NamedTreesHold` and
   `NestedTimeoutsTooLate`, for any number of calls, connections and traces and any
   timeouts.  `IInv` says that a tree shares its trace, that the depth counts the
   raised hops, that Redis forgets an admitted call only when the clock has
   carried it out of the window (`Remembered`), that what a chain admits in a
   window less `Delay` is within its limit, and
   that a call whose caller has read nothing has not waited longer than it.  The
   limit is proved at the transaction that admits: its own reading is at most `Delay`
   old, so of the calls within the shorter window it has purged none, and it
   counts those recorded before it with itself.  The last holds because a nested call starts to wait when its caller already reads:
   from then on the two waits run in step, or the nested one starts anew.
7. `TextProofs` and `BodyTextProofs`: `Invariant`, `MaskingHolds`, `SplicingHolds`,
   `YieldingHolds`, `ScanningHolds`, `RedactionHolds` and `NoticingHolds`, for
   texts of any length and content, any documents, any blocking threshold and any reporting threshold up to 0.5 (the
   lowest score of an injection pattern; the default is 0.4).
   The invariant of `BodyText` is
   small: each copy, from the one filtered for the user to the record, is what its
   stage makes of a copy that is still there (`RequestCopies`, `RecordedCopies`), the
   live one is made of the text the scanner passed, and `had_restricted_context` says
   whether the last redaction changed anything.  The work is in what
   the functions do to a text:
   - `ResolveOverlap`: the findings that are accepted do not meet, and a refused
     one meets an accepted one that ranks before it (by induction over the
     ranks, which are a permutation: findings of one score and start, as two
     recognizers' of one card number, are told apart by the analyzer's order).
   - `SplicingFromTheRight`: once the findings right of a position are spliced
     in, splicing the one at the position leaves what is behind it as it is, so
     the result is the concatenation of the pieces one pass makes.
   - `MaskText`: the masked text is a sequence of placeholders and of symbols no
     finding covers, in the order of the source; everything else follows from
     where its symbols come from.  A value of a masked kind that is left would
     have a finding that was neither accepted nor refused for an accepted one
     that covers it.
   - `DumpedFrom`, `InSomeStretch` and `ReadBack` carry this over to JSON, value by
     value: what `json_loads` reads of a dumped text is what was dumped, with the
     symbols `json.dumps` escapes taken back.
   - `SubFrom`: what `re.sub` returns is made of the symbols no match covers and of
     what the matches are replaced with, in the order of the text.
   - `RedactionOfTags`: `_redact_tags` leaves exactly the words outside the
     passages.  A pass cuts whole passages, so where none cross a passage of
     another tag is cut with all that is in it or keeps both its ends
     (`BlockImage`, `LineImage`), is a passage again (`PassageKept`), and was one
     before (`PassageFrom`): no pass takes a word from outside the passages of the
     set, none frees a word from one (`WordsAfter`), and none makes two of
     them cross (`UncrossedAfter`).  After the last tag no passage is left.
   - `TagsPass` says the same of any larger set of tags, which is what
     `NoticingHolds` needs: the user's own redaction keeps the words outside
     everybody's passages.  If the second redaction then changes nothing, no
     restricted tag opens in the resolved text, so none did before the documents
     came in, and every word the user is shown lies outside.
   - `IssuedNumbersValidate`: the Luhn check of `recognizers.py:64-73`, which
     chooses the doubled digits by the parity of the length, accepts every
     number of 13 to 19 digits that passes the check counted from its last digit.
     `CardNumbersAssumption` says no more of issued numbers than that.
8. `RecordProofs`: `WrapsHold`, `PayloadsHold` and `DocumentsHold`, for texts,
   documents, tags, users and findings of any number.  A document or a payload
   passes cuts of five kinds (redaction, the two strips, masking, the hook), each of
   which could take a sentinel the next one looks for.  The argument:
   - A cut respects a wrap (`Respects`) when it lies apart from it, strictly inside
     it, or takes it whole.  Then what stands in a wrap still does afterwards or is
     gone (`CutsCarry`), and there are no wraps but those that were (`WrapFrom`).
     `Carried` collects what respectful cuts keep: bodies and payloads in their
     wraps, the sentinels of this request in pairs, echoes apart.
   - Every pass cuts that way in a text whose stretches do not cross, and leaves it
     so for the next one.  The invariant from pass to pass is `Settled` (of two wraps
     one is behind the other or in it, and a proprietary line holds a wrap whole, lies
     in one, or apart) and, while tags are left to redact, `TagsSettled`;
     `LaminarSettles` derives both from `Laminar`, and `TagSettles`, `StripSettles` and
     `MaskRespects` carry them through.  Lines need care: a pass that cuts a newline
     joins what is behind it to the line before, and the line pattern puts one in.
   - The resolution is no cut.  `ResolvedAs` says where the symbols of a resolved
     text come from, `DocumentStands` that an inserted document is a closed wrap of
     this request's token, `BodiesResolved` and `SentinelsResolved` that echoes
     around a reference are wraps as before and have none of another echo in them.
   - A strip leaves no wrap of its token (`StripSettles`).  As the request's
     sentinels stand in pairs, it leaves none of those at all, so the documents left
     are the echoes, which stand apart (`EchoesLeft`).  The masks respect their wraps,
     and the hook, up to the first close of any document, takes each to its own
     (`HookLeaves`).
   - `RecoversPayloads`: the matches of `unwrap` are the outermost wraps of the
     token, and between the sentinels of one is all that stands in it.

The text functions are recursive over positions.  The provers cannot instantiate
an induction theorem whose parameter is an operator, so `TextProofs` has
`Induction` over the *set* of the positions a claim is true of, and
`RecursionExists`, by which a recursive function satisfies the equation it is
defined by: both from the well-foundedness of the natural numbers.

Only model-checked: `EveryCallEnds` and `EveryHopEnds`, which are liveness under
fairness and out of the prover's reach.  All other properties the passing runs check
are theorems too.

## 7. Not modelled

- Start-up and settings parsing, and the loading of the matrix and the registry:
  done once, before the first request.
- JWT verification and HTTP streaming: library code without state of the gateway.
- Presidio's regular expressions and language model, the embedding models and the
  vectors: `Score` and the open context boosts stand for them.  That the collection
  may be reopened with another embedder of the same dimensions
  (`vector_store.py:21`), which makes old vectors mean something else, is outside.
- Langfuse's queue and what it loses.
- A kill between two statements that have no await between them.  The store and
  the record are two calls of which neither is undone or repeated after a
  restart, so no property of the code speaks of the state between them.
- The demo and the scripts, which are clients of the gateway.

`components` in `PROJECT.json` has the reason for each part, and `hazards` those
no property covers with the reason.
