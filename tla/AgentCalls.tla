----------------------------- MODULE AgentCalls -----------------------------
(***************************************************************************)
(* Calls that come back: the upstream agent serves an exchange by calling  *)
(* the gateway again.  Composes what a nested call meets in governed_proxy *)
(* (the depth ceiling, continue_trace, the chain limiter, the awaits after *)
(* it) with the httpx pool of UpstreamProxyClient and its timeouts, under  *)
(* a clock.  An attempt at the chain limiter reads the clock and then      *)
(* waits for its transaction, as in RateLimiter.                           *)
(*                                                                         *)
(* The agent sees the headers its caller sent, as _build_forward_headers   *)
(* passes them on: the gateway adds neither the trace it started nor a     *)
(* deeper depth.  What agents do is external: they may call while their    *)
(* exchange is open, pass the trace header on, and raise the depth or not. *)
(* Calls are numbered as they arrive; a timer that is due fires before the *)
(* clock goes on.                                                          *)
(***************************************************************************)
EXTENDS Naturals, FiniteSets

CONSTANTS
    MaxCalls,            \* bound: calls that arrive
    Traces, NoTrace,     \* X-Delegation-Trace-Id, or none
    MaxDelegationDepth,
    ChainMax,            \* chain_rate_limit_max_requests
    ChainWindow,         \* chain_rate_limit_window_seconds
    Delay,               \* longest time from reading the clock to the transaction
    MaxConnections,      \* httpx.Limits
    Timeout,             \* upstream_timeout_seconds: pool, write and each read
    ConnectTimeout,      \* upstream_connect_timeout_seconds
    MaxParts             \* bound: times a reply is interrupted by a pause

Calls  == 1 .. MaxCalls
Nobody == 0

\* What the key's expiry takes, two windows after its last transaction, no
\* transaction would count that waits no longer than a window.
ASSUME AgentCallsAssumption ==
    /\ MaxCalls \in Nat /\ MaxDelegationDepth \in Nat /\ ChainMax \in Nat
    /\ ChainWindow \in Nat /\ MaxConnections \in Nat /\ MaxParts \in Nat
    /\ Timeout \in Nat /\ ConnectTimeout \in Nat
    /\ Delay \in 0 .. ChainWindow
    /\ NoTrace \notin Traces /\ Traces \cap Calls = {}

VARIABLES
    phase,     \* where a call is, or how it ended
    parent,    \* the call whose upstream made it
    depth,     \* X-Delegation-Depth
    trace,     \* X-Delegation-Trace-Id
    wait,      \* time in the current wait, or since the last bytes read
    age,       \* time since it read the clock for the chain limiter, up to Oldest
    zset,      \* calls in the sorted sets of all chains
    parts,     \* pauses of the reply so far
    root,      \* history: the call its tree of calls grew from
    hops,      \* history: how many calls are above it
    raised     \* history: each agent on its way raised the depth

header  == <<parent, depth, trace>>
history == <<root, hops, raised>>
vars    == <<phase, wait, age, zset, parts, header, history>>

\* No transaction tells older readings apart.
Oldest == ChainWindow + Delay

Connected == {"connecting", "reading"}
Open      == Connected \cup {"pool"}
Failed    == {"pool_timeout", "connect_timeout", "read_timeout", "unreachable"}
Phases    == Open \cup Failed \cup {"idle", "limiter", "admitted", "returned", "answered"}

-----------------------------------------------------------------------------
Init ==
    /\ phase  = [c \in Calls |-> "idle"]
    /\ parent = [c \in Calls |-> Nobody]
    /\ depth  = [c \in Calls |-> 0]
    /\ trace  = [c \in Calls |-> NoTrace]
    /\ wait   = [c \in Calls |-> 0]
    /\ age    = [c \in Calls |-> 0]
    /\ zset   = {}
    /\ parts  = [c \in Calls |-> 0]
    /\ root   = [c \in Calls |-> c]
    /\ hops   = [c \in Calls |-> 0]
    /\ raised = [c \in Calls |-> TRUE]

(* continue_trace: without a trace id a new trace begins. *)
TraceId(c, t) == IF t = NoTrace THEN c ELSE t

\* Mutation: a call at the ceiling still passes.
AboveCeiling(d) == d > MaxDelegationDepth

AtCeiling(d) == d >= MaxDelegationDepth

(* governed_proxy up to the first await: the ceiling, continue_trace, and  *)
(* the chain limiter's reading of the clock.                               *)
Arrive(c, p, d, t) ==
    /\ phase[c] = "idle" /\ \A e \in Calls : e < c => phase[e] # "idle"
    /\ phase' = [phase EXCEPT ![c] = IF AtCeiling(d) THEN "returned" ELSE "limiter"]
    /\ parent' = [parent EXCEPT ![c] = p]
    /\ depth' = [depth EXCEPT ![c] = d]
    /\ trace' = [trace EXCEPT ![c] = t]
    /\ UNCHANGED <<wait, age, zset, parts>>
    /\ IF p = Nobody THEN UNCHANGED history
       ELSE /\ root' = [root EXCEPT ![c] = root[p]]
            /\ hops' = [hops EXCEPT ![c] = hops[p] + 1]
            /\ raised' = [raised EXCEPT ![c] = raised[p] /\ d = depth[p] + 1]

Call(c) == \E t \in Traces \cup {NoTrace} : Arrive(c, Nobody, 0, t)

(* What the agent of p received is what p was sent with. *)
CallBack(c) ==
    \E p \in Calls, more \in {0, 1} :
        /\ phase[p] = "reading"
        /\ Arrive(c, p, depth[p] + more, trace[p])

Goto(c, ph) ==
    /\ phase' = [phase EXCEPT ![c] = ph]
    /\ wait' = [wait EXCEPT ![c] = 0]
    /\ parts' = [parts EXCEPT ![c] = 0]
    /\ UNCHANGED <<age, header, history>>

Proceed(c, ph) == Goto(c, ph) /\ UNCHANGED zset

SameChain(c, d) == TraceId(c, trace[c]) = TraceId(d, trace[d])

(* ZREMRANGEBYSCORE on the key of c's chain, by c's own reading. *)
Purged(c) == {d \in zset : SameChain(c, d) => age[d] < age[c] + ChainWindow}

Recorded(c) == Purged(c) \cup {c}

\* Mutation: the limiter counts the calls of one agent only.
ChainCountPerCaller(c) ==
    Cardinality({d \in Recorded(c) : SameChain(c, d) /\ parent[d] = parent[c]})

(* check_and_record_chain: the attempts in the window, this one included,  *)
(* whoever made them and whether or not they were admitted.                *)
ChainCount(c) == Cardinality({d \in Recorded(c) : SameChain(c, d)})

(* The transaction; the round trip may also fail, before or after Redis    *)
(* has run it.                                                             *)
Record(c) ==
    /\ phase[c] = "limiter"
    /\ \/ Goto(c, IF ChainCount(c) <= ChainMax THEN "admitted" ELSE "returned")
             /\ zset' = Recorded(c)
       \/ Goto(c, "returned") /\ zset' \in {zset, Recorded(c)}

(* The user's limiter, the body and the policies: forward asks the pool    *)
(* for a connection, unless the call is refused, fails or is answered from *)
(* the cache.                                                              *)
Govern(c) ==
    /\ phase[c] = "admitted"
    /\ Proceed(c, "pool") \/ Proceed(c, "returned")

(* The pool serves those who wait in their order, ties in any. *)
Acquire(c) ==
    /\ phase[c] = "pool" /\ \A e \in Calls : phase[e] = "pool" => wait[e] <= wait[c]
    /\ Cardinality({e \in Calls : phase[e] \in Connected}) < MaxConnections
    /\ Proceed(c, "connecting")

Connect(c) == phase[c] = "connecting" /\ Proceed(c, "reading")

(* Bytes that are not the end of the reply: the read timeout starts anew. *)
Trickle(c) ==
    /\ phase[c] = "reading" /\ wait[c] > 0 /\ parts[c] < MaxParts
    /\ parts' = [parts EXCEPT ![c] = @ + 1]
    /\ wait' = [wait EXCEPT ![c] = 0]
    /\ UNCHANGED <<phase, age, zset, header, history>>

Answer(c) == phase[c] = "reading" /\ Proceed(c, "answered")

(* Any other httpx.HTTPError *)
Break(c) == phase[c] \in Connected /\ Proceed(c, "unreachable")

\* Mutation: the pool is given up as early as a connection attempt.
ShortPoolLimit(ph) == IF ph = "reading" THEN Timeout ELSE ConnectTimeout

Limit(ph) == IF ph = "connecting" THEN ConnectTimeout ELSE Timeout

Due(c) == phase[c] \in Open /\ wait[c] >= Limit(phase[c])

\* Mutation: the pool has no timeout of its own.
ExpireConnected(c) ==
    \/ Due(c) /\ phase[c] = "connecting" /\ Proceed(c, "connect_timeout")
    \/ Due(c) /\ phase[c] = "reading" /\ Proceed(c, "read_timeout")

(* httpx.PoolTimeout, ConnectTimeout, ReadTimeout *)
Expire(c) ==
    \/ Due(c) /\ phase[c] = "pool" /\ Proceed(c, "pool_timeout")
    \/ Due(c) /\ phase[c] = "connecting" /\ Proceed(c, "connect_timeout")
    \/ Due(c) /\ phase[c] = "reading" /\ Proceed(c, "read_timeout")

Arrived == {c \in Calls : phase[c] # "idle"}

(* Time never leaves a transaction behind by more than Delay. *)
Tick ==
    /\ \A c \in Calls : ~Due(c) /\ (phase[c] = "limiter" => age[c] < Delay)
    /\ \E c \in Arrived : phase[c] \in Open \/ age[c] < Oldest
    /\ wait' = [c \in Calls |-> IF phase[c] \in Open THEN wait[c] + 1 ELSE wait[c]]
    /\ age' = [c \in Calls |-> IF c \in Arrived /\ age[c] < Oldest
                               THEN age[c] + 1 ELSE age[c]]
    /\ UNCHANGED <<phase, zset, parts, header, history>>

Next ==
    \/ Tick
    \/ \E c \in Calls :
          Call(c) \/ CallBack(c) \/ Record(c) \/ Govern(c) \/ Acquire(c) \/ Connect(c)
            \/ Trickle(c) \/ Answer(c) \/ Break(c) \/ Expire(c)

Spec == Init /\ [][Next]_vars

(* The clock goes on, timers fire, and Redis, whose transactions the clock *)
(* waits for, answers or fails; nobody else need ever act.                 *)
FairSpec ==
    /\ Spec /\ WF_vars(Tick)
    /\ \A c \in Calls : WF_vars(Expire(c)) /\ WF_vars(Record(c))

-----------------------------------------------------------------------------
TypeOK ==
    /\ phase \in [Calls -> Phases]
    /\ parent \in [Calls -> Calls \cup {Nobody}]
    /\ depth \in [Calls -> 0 .. MaxDelegationDepth]
    /\ trace \in [Calls -> Traces \cup {NoTrace}]
    /\ wait \in [Calls -> Nat]
    /\ age \in [Calls -> 0 .. Oldest]
    /\ zset \in SUBSET Calls
    /\ parts \in [Calls -> 0 .. MaxParts]
    /\ root \in [Calls -> Calls]
    /\ hops \in [Calls -> Nat]
    /\ raised \in [Calls -> BOOLEAN]

Forwarded(c) == phase[c] \in Open \cup Failed \cup {"answered"}

Admitted(c) == Forwarded(c) \/ phase[c] = "admitted"

\* The readings of the ChainWindow - Delay seconds that ended o seconds ago.
Window(o) == {a \in Nat : o <= a /\ a < o + ChainWindow - Delay}

InWindow(t, o) ==
    {c \in Calls : Admitted(c) /\ age[c] \in Window(o) /\ TraceId(c, trace[c]) = t}

ChainsLimited ==
    \A t \in Traces \cup Calls, o \in 0 .. Delay : Cardinality(InWindow(t, o)) <= ChainMax

Unarrived(c) ==
    parent[c] = Nobody /\ root[c] = c /\ hops[c] = 0 /\ wait[c] = 0

OutlivesNot(c, p) ==
    phase[p] = "reading" /\ parts[p] = 0 =>
        /\ phase[c] \in Open => wait[c] <= wait[p]
        /\ phase[c] \in {"pool_timeout", "read_timeout"} => Due(p)

CallKept(c) ==
    /\ phase[c] = "idle" => Unarrived(c)
    /\ phase[c] # "idle" => phase[root[c]] # "idle"
    /\ trace[c] = trace[root[c]]
    /\ raised[c] => hops[c] = depth[c]
    /\ phase[c] \notin {"idle", "returned"} => depth[c] < MaxDelegationDepth
    /\ parent[c] # Nobody =>
          /\ parent[c] # c
          /\ phase[parent[c]] \in {"reading", "answered"} \cup Failed
          /\ OutlivesNot(c, parent[c])

Remembered ==
    /\ \A c \in Calls : phase[c] \in {"idle", "limiter"} => age[c] <= Delay /\ c \notin zset
    /\ \A c \in Calls \ zset : Admitted(c) => age[c] >= ChainWindow

(* The inductive invariant: what has not arrived is as it was, a tree      *)
(* shares its trace, the depth counts the hops that were raised, Redis     *)
(* forgets an admitted call only when it has left the window by the clock, *)
(* a chain admits no more than its limit, and a call whose caller has      *)
(* heard nothing yet has not waited longer than its caller has.            *)
IInv ==
    /\ TypeOK
    /\ \A c \in Calls : CallKept(c)
    /\ Remembered
    /\ ChainsLimited

(* Where agents raise the depth they pass on, no call is forwarded that    *)
(* has MaxDelegationDepth callers above it (main.py:146).                  *)
HopsBounded ==
    \A c \in Calls : Forwarded(c) /\ raised[c] => hops[c] < MaxDelegationDepth

TreeInWindow(r, o) == {c \in Calls : root[c] = r /\ Forwarded(c) /\ age[c] \in Window(o)}

(* Of a whole tree of calls whose root named its trace, over all its       *)
(* agents, depths raised or not, and over callers that failed or gave up,  *)
(* no more than ChainMax are forwarded of those that come to the limiter   *)
(* within a window, less the time one may wait for its transaction, of one *)
(* another (main.py:165, limiter.py:30-39).                                *)
NamedTreesLimited ==
    \A r \in Calls, o \in 0 .. Delay :
        trace[r] # NoTrace => Cardinality(TreeInWindow(r, o)) <= ChainMax

(* Every hop has the same timeout, so when a nested call's runs out, in    *)
(* the pool behind its own callers or at its upstream, its caller is gone  *)
(* or out of time too, unless bytes of its own reply gave it more: nobody  *)
(* is left to hear the 502 (proxy/client.py:22-25).                        *)
NestedTimeoutsComeTooLate ==
    \A c \in Calls :
        phase[c] \in {"pool_timeout", "read_timeout"} /\ parent[c] # Nobody =>
            LET p == parent[c]
            IN  phase[p] = "reading" /\ parts[p] = 0 => Due(p)

(* Every call ends, also when every connection is held by a call whose     *)
(* agent waits for one (proxy/client.py:29).                               *)
EveryHopEnds == \A c \in Calls : phase[c] \in Open ~> phase[c] \notin Open

(* report.md:82, "chain-scoped rate limiting (catching rapid fan-out       *)
(* before it's deep enough to hit that ceiling)": a tree forwards no more  *)
(* than the limit of what comes within a window, less such a wait.         *)
FanOutCaught ==
    \A r \in Calls, o \in 0 .. Delay : Cardinality(TreeInWindow(r, o)) <= ChainMax
=============================================================================
