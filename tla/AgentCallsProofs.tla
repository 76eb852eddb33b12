-------------------------- MODULE AgentCallsProofs --------------------------
(***************************************************************************)
(* What nested calls keep to for every number of calls and connections and *)
(* every timeout: one lemma for the arrival of a call, one for the steps   *)
(* of a call that has arrived, one for the transaction of the limiter, one *)
(* for the clock.                                                          *)
(***************************************************************************)
EXTENDS AgentCalls, FiniteSetTheorems, TLAPS

LEMMA CallsAreFinite == IsFiniteSet(Calls) /\ Nobody \notin Calls
<1>1. MaxCalls \in Nat
  BY AgentCallsAssumption
<1> QED
  BY <1>1, FS_Interval DEF Calls, Nobody

LEMMA SmallerIsWithin ==
    ASSUME NEW T \in SUBSET Calls, NEW S \in SUBSET T, NEW n \in Nat,
           Cardinality(T) <= n
    PROVE  Cardinality(S) <= n
<1>1. IsFiniteSet(T)
  BY CallsAreFinite, FS_Subset
<1>2. Cardinality(S) <= Cardinality(T) /\ IsFiniteSet(S)
  BY <1>1, FS_Subset
<1>3. Cardinality(S) \in Nat /\ Cardinality(T) \in Nat
  BY <1>1, <1>2, FS_CardinalityType
<1> QED
  BY <1>2, <1>3

LEMMA PhaseFacts ==
    /\ Open = {"connecting", "reading", "pool"}
    /\ Phases = {"connecting", "reading", "pool", "pool_timeout",
                 "connect_timeout", "read_timeout", "unreachable", "idle",
                 "limiter", "admitted", "returned", "answered"}
    /\ Failed = {"pool_timeout", "connect_timeout", "read_timeout", "unreachable"}
BY DEF Open, Connected, Phases, Failed

-----------------------------------------------------------------------------
(* Where nobody is admitted, no chain sees more of it.                     *)

LEMMA AdmittedKeepsChains ==
    ASSUME IInv,
           \A e \in Calls : Admitted(e)' =>
               Admitted(e) /\ age'[e] = age[e] /\ trace'[e] = trace[e]
    PROVE  ChainsLimited'
<1> SUFFICES ASSUME NEW k \in Traces \cup Calls, NEW o \in 0 .. Delay
             PROVE  Cardinality(InWindow(k, o)') <= ChainMax
  BY DEF ChainsLimited
<1>1. InWindow(k, o)' \subseteq InWindow(k, o)
  BY DEF InWindow, TraceId
<1>2. InWindow(k, o) \in SUBSET Calls /\ ChainMax \in Nat
  BY AgentCallsAssumption DEF InWindow
<1>3. Cardinality(InWindow(k, o)) <= ChainMax
  BY DEF IInv, ChainsLimited
<1> QED
  BY <1>1, <1>2, <1>3, SmallerIsWithin

-----------------------------------------------------------------------------
(* A call that arrives: p is its caller or nobody.                         *)

LEMMA ArriveKeepsInv ==
    ASSUME IInv, NEW c \in Calls, NEW p \in Calls \cup {Nobody},
           NEW d \in Nat, NEW t \in Traces \cup {NoTrace}, Arrive(c, p, d, t),
           d <= MaxDelegationDepth,
           p = Nobody => d = 0,
           p # Nobody => phase[p] = "reading" /\ t = trace[p]
    PROVE  IInv'
<1>1. /\ phase \in [Calls -> Phases] /\ parent \in [Calls -> Calls \cup {Nobody}]
      /\ depth \in [Calls -> 0 .. MaxDelegationDepth]
      /\ trace \in [Calls -> Traces \cup {NoTrace}] /\ wait \in [Calls -> Nat]
      /\ age \in [Calls -> 0 .. Oldest] /\ parts \in [Calls -> 0 .. MaxParts]
      /\ root \in [Calls -> Calls] /\ hops \in [Calls -> Nat]
      /\ raised \in [Calls -> BOOLEAN] /\ MaxDelegationDepth \in Nat
  BY AgentCallsAssumption DEF IInv, TypeOK
<1>2. phase[c] = "idle" /\ phase'[c] \in {"returned", "limiter"}
  BY <1>1 DEF Arrive
<1>3. Unarrived(c) /\ p # c /\ c # Nobody
  BY <1>2, CallsAreFinite DEF IInv, CallKept
<1>4. /\ wait' = wait /\ age' = age /\ zset' = zset /\ parts' = parts
      /\ parent' = [parent EXCEPT ![c] = p] /\ depth' = [depth EXCEPT ![c] = d]
      /\ trace' = [trace EXCEPT ![c] = t]
      /\ \A e \in Calls \ {c} : phase'[e] = phase[e]
  BY <1>1 DEF Arrive
<1>5. /\ \A e \in Calls \ {c} : root'[e] = root[e] /\ hops'[e] = hops[e] /\ raised'[e] = raised[e]
      /\ p = Nobody => root'[c] = c /\ hops'[c] = 0
      /\ p # Nobody => /\ root'[c] = root[p] /\ hops'[c] = hops[p] + 1
                       /\ raised'[c] = (raised[p] /\ d = depth[p] + 1)
  BY <1>1, <1>3 DEF Arrive, history, Unarrived
<1>6. TypeOK'
  <2>1. phase' \in [Calls -> Phases]
    BY <1>1, PhaseFacts DEF Arrive
  <2>2. root' \in [Calls -> Calls] /\ hops' \in [Calls -> Nat]
    BY <1>1, <1>3 DEF Arrive, history
  <2>3. raised' \in [Calls -> BOOLEAN]
    BY <1>1, Zenon DEF Arrive, history
  <2>4. /\ wait' \in [Calls -> Nat] /\ age' \in [Calls -> 0 .. Oldest]
        /\ parts' \in [Calls -> 0 .. MaxParts] /\ zset' \in SUBSET Calls
    BY <1>1, <1>4 DEF IInv, TypeOK
  <2>5. /\ parent' \in [Calls -> Calls \cup {Nobody}]
        /\ depth' \in [Calls -> 0 .. MaxDelegationDepth]
        /\ trace' \in [Calls -> Traces \cup {NoTrace}]
    BY <1>1, <1>4
  <2> QED
    BY <2>1, <2>2, <2>3, <2>4, <2>5 DEF TypeOK
<1>7. ASSUME NEW e \in Calls, phase'[e] = "idle" PROVE Unarrived(e)'
  <2>1. e # c /\ phase[e] = "idle"
    BY <1>2, <1>4, <1>7
  <2> QED
    BY <1>1, <1>4, <1>5, <2>1 DEF IInv, CallKept, Unarrived
<1>8. ASSUME NEW e \in Calls
      PROVE  /\ phase'[e] # "idle" => phase'[root'[e]] # "idle"
             /\ trace'[e] = trace'[root'[e]]
  <2>1. \A f \in Calls \ {c} : root[f] # c
    BY <1>2 DEF IInv, CallKept, Unarrived
  <2>2. CASE e # c
    BY <1>1, <1>4, <1>5, <2>1, <2>2 DEF IInv, CallKept
  <2>3. CASE e = c /\ p = Nobody
    BY <1>1, <1>2, <1>4, <1>5, <2>3
  <2>4. CASE e = c /\ p # Nobody
    BY <1>1, <1>2, <1>3, <1>4, <1>5, <2>1, <2>4 DEF IInv, CallKept
  <2> QED
    BY <2>2, <2>3, <2>4
<1>9. ASSUME NEW e \in Calls, raised'[e] PROVE hops'[e] = depth'[e]
  <2>1. \A f \in Calls : raised[f] => hops[f] = depth[f]
    BY DEF IInv, CallKept
  <2>2. CASE e # c
    <3>1. hops'[e] = hops[e] /\ raised'[e] = raised[e] /\ depth'[e] = depth[e]
      BY <1>1, <1>4, <1>5, <2>2
    <3> QED
      BY <1>9, <2>1, <3>1
  <2>3. CASE e = c /\ p = Nobody
    <3>1. hops'[c] = 0 /\ depth'[c] = 0
      BY <1>1, <1>4, <1>5, <2>3
    <3> QED
      BY <2>3, <3>1
  <2>4. CASE e = c /\ p # Nobody
    <3>1. hops'[c] = hops[p] + 1 /\ raised'[c] = (raised[p] /\ d = depth[p] + 1)
      BY <1>5, <2>4
    <3>2. depth'[c] = d
      BY <1>1, <1>4
    <3>3. raised[p] /\ d = depth[p] + 1 /\ p \in Calls
      BY <1>9, <2>4, <3>1
    <3> QED
      BY <2>1, <2>4, <3>1, <3>2, <3>3
  <2> QED
    BY <2>2, <2>3, <2>4
<1>10. ASSUME NEW e \in Calls, phase'[e] \notin {"idle", "returned"}
       PROVE  depth'[e] < MaxDelegationDepth
  <2>1. CASE e # c
    BY <1>1, <1>4, <1>10, <2>1 DEF IInv, CallKept
  <2>2. CASE e = c
    BY <1>1, <1>4, <1>10, <2>2 DEF Arrive, AtCeiling
  <2> QED
    BY <2>1, <2>2
<1>11. ASSUME NEW e \in Calls, parent'[e] # Nobody
       PROVE  /\ parent'[e] # e
              /\ phase'[parent'[e]] \in {"reading", "answered"} \cup Failed
              /\ OutlivesNot(e, parent[e])'
  <2>1. CASE e # c
    <3>1. parent'[e] = parent[e] /\ parent[e] \in Calls /\ parent[e] # c
      BY <1>1, <1>2, <1>4, <1>11, <2>1, PhaseFacts DEF IInv, CallKept
    <3> QED
      BY <1>1, <1>4, <1>11, <2>1, <3>1 DEF IInv, CallKept, OutlivesNot, Due
  <2>2. CASE e = c
    <3>1. parent'[e] = p /\ p \in Calls /\ phase'[p] = "reading"
      BY <1>1, <1>3, <1>4, <1>11, <2>2
    <3>2. wait'[c] = 0 /\ wait'[p] \in Nat /\ phase'[c] \notin {"pool_timeout", "read_timeout"}
      BY <1>1, <1>2, <1>3, <1>4, <3>1 DEF Unarrived
    <3> QED
      BY <1>3, <2>2, <3>1, <3>2 DEF OutlivesNot
  <2> QED
    BY <2>1, <2>2
<1>12. \A e \in Calls : CallKept(e)'
  BY <1>7, <1>8, <1>9, <1>10, <1>11 DEF CallKept
<1>13. \A e \in Calls : Admitted(e)' => e # c /\ Admitted(e)
  BY <1>2, <1>4, PhaseFacts DEF Admitted, Forwarded
<1>14. Remembered'
  <2>1. \A e \in Calls : phase'[e] \in {"idle", "limiter"} => phase[e] \in {"idle", "limiter"}
    BY <1>2, <1>4
  <2> QED
    BY <1>4, <1>13, <2>1 DEF IInv, Remembered
<1>15. ChainsLimited'
  <2>1. \A e \in Calls \ {c} : trace'[e] = trace[e]
    BY <1>1, <1>4
  <2> QED
    BY <1>4, <1>13, <2>1, AdmittedKeepsChains
<1> QED
  BY <1>6, <1>12, <1>14, <1>15 DEF IInv

-----------------------------------------------------------------------------
(* A call that has arrived goes on.                                        *)

LEMMA GotoKeepsCalls ==
    ASSUME IInv, NEW c \in Calls, NEW ph, Goto(c, ph), zset' \in SUBSET Calls,
           phase[c] \in Open \cup {"limiter", "admitted"},
           ph \in Open \cup Failed \cup {"admitted", "returned", "answered"},
           phase[c] = "reading" => ph \in Failed \cup {"answered"},
           ph \in {"pool_timeout", "read_timeout"} =>
               phase[c] \in {"pool", "reading"} /\ Due(c)
    PROVE  TypeOK' /\ \A e \in Calls : CallKept(e)'
<1>1. /\ phase \in [Calls -> Phases] /\ parent \in [Calls -> Calls \cup {Nobody}]
      /\ depth \in [Calls -> 0 .. MaxDelegationDepth]
      /\ trace \in [Calls -> Traces \cup {NoTrace}] /\ wait \in [Calls -> Nat]
      /\ age \in [Calls -> 0 .. Oldest] /\ parts \in [Calls -> 0 .. MaxParts]
      /\ root \in [Calls -> Calls] /\ hops \in [Calls -> Nat]
      /\ raised \in [Calls -> BOOLEAN] /\ MaxParts \in Nat /\ Timeout \in Nat
  BY AgentCallsAssumption DEF IInv, TypeOK
<1>2. /\ phase' = [phase EXCEPT ![c] = ph] /\ wait' = [wait EXCEPT ![c] = 0]
      /\ parts' = [parts EXCEPT ![c] = 0]
      /\ age' = age /\ parent' = parent /\ depth' = depth /\ trace' = trace
      /\ root' = root /\ hops' = hops /\ raised' = raised
  BY DEF Goto, header, history
<1>3. phase[c] \notin {"idle", "returned"} /\ ph # "idle" /\ ph \in Phases
  BY PhaseFacts
<1>4. TypeOK'
  BY <1>1, <1>2, <1>3 DEF TypeOK
<1>5. \A e \in Calls : /\ phase'[e] = "idle" <=> phase[e] = "idle"
                       /\ phase'[e] \notin {"idle", "returned"} =>
                              phase[e] \notin {"idle", "returned"}
  BY <1>1, <1>2, <1>3
<1>6. ASSUME NEW e \in Calls
      PROVE  /\ phase'[e] = "idle" => Unarrived(e)'
             /\ phase'[e] # "idle" => phase'[root'[e]] # "idle"
             /\ trace'[e] = trace'[root'[e]]
             /\ raised'[e] => hops'[e] = depth'[e]
             /\ phase'[e] \notin {"idle", "returned"} => depth'[e] < MaxDelegationDepth
  <2>1. CallKept(e)
    BY DEF IInv
  <2>2. phase[e] = "idle" => e # c
    BY <1>3
  <2> QED
    BY <1>1, <1>2, <1>5, <2>1, <2>2 DEF CallKept, Unarrived
<1>7. ASSUME NEW e \in Calls, parent'[e] # Nobody
      PROVE  /\ parent'[e] # e
             /\ phase'[parent'[e]] \in {"reading", "answered"} \cup Failed
             /\ OutlivesNot(e, parent[e])'
  <2> DEFINE p == parent[e]
  <2>1. /\ p \in Calls /\ p # e /\ parent'[e] = p
        /\ phase[p] \in {"reading", "answered"} \cup Failed
        /\ OutlivesNot(e, p)
    BY <1>1, <1>2, <1>7 DEF IInv, CallKept
  <2>2. CASE p = c
    <3>1. phase[c] = "reading"
      BY <2>1, <2>2, PhaseFacts
    <3>2. phase'[c] = ph /\ ph \in Failed \cup {"answered"}
      BY <1>1, <1>2, <3>1
    <3> QED
      BY <2>1, <2>2, <3>2, PhaseFacts DEF OutlivesNot
  <2>3. CASE p # c /\ e # c
    BY <1>1, <1>2, <2>1, <2>3 DEF OutlivesNot, Due
  <2>4. CASE p # c /\ e = c
    <3>1. phase'[p] = phase[p] /\ wait'[p] = wait[p] /\ parts'[p] = parts[p]
      BY <1>2, <1>1, <2>1, <2>4
    <3>2. phase'[c] = ph /\ wait'[c] = 0 /\ wait[p] \in Nat /\ wait[c] \in Nat
      BY <1>1, <1>2, <2>1
    <3>3. ASSUME phase[p] = "reading", parts[p] = 0, ph \in {"pool_timeout", "read_timeout"}
          PROVE  Due(p)
      BY <1>1, <2>1, <2>4, <3>2, <3>3, PhaseFacts DEF OutlivesNot, Due, Limit
    <3> QED
      BY <2>1, <2>4, <3>1, <3>2, <3>3 DEF OutlivesNot, Due
  <2> QED
    BY <2>2, <2>3, <2>4
<1> QED
  BY <1>4, <1>6, <1>7 DEF CallKept

LEMMA ProceedKeepsInv ==
    ASSUME IInv, NEW c \in Calls, NEW ph, Proceed(c, ph),
           phase[c] \in Open \cup {"admitted"},
           ph \in Open \cup Failed \cup {"returned", "answered"},
           phase[c] = "reading" => ph \in Failed \cup {"answered"},
           ph \in {"pool_timeout", "read_timeout"} =>
               phase[c] \in {"pool", "reading"} /\ Due(c)
    PROVE  IInv'
<1>1. /\ phase \in [Calls -> Phases] /\ zset \in SUBSET Calls
      /\ phase' = [phase EXCEPT ![c] = ph]
      /\ zset' = zset /\ age' = age /\ trace' = trace /\ Goto(c, ph)
  BY DEF IInv, TypeOK, Proceed, Goto, header
<1>2. TypeOK' /\ \A e \in Calls : CallKept(e)'
  BY <1>1, GotoKeepsCalls
<1>3. \A e \in Calls :
        /\ Admitted(e)' => Admitted(e)
        /\ phase'[e] \in {"idle", "limiter"} => phase[e] \in {"idle", "limiter"}
  BY <1>1, PhaseFacts DEF Admitted, Forwarded
<1>4. Remembered'
  BY <1>1, <1>3 DEF IInv, Remembered
<1>5. ChainsLimited'
  BY <1>1, <1>3, AdmittedKeepsChains
<1> QED
  BY <1>2, <1>4, <1>5 DEF IInv

-----------------------------------------------------------------------------
(* The transaction.  The admitted calls of a window are all in the sorted  *)
(* set when the last of them is counted: what purges one of them has come  *)
(* too late for the window.                                                *)

LEMMA AdmissionKeepsChains ==
    ASSUME IInv, NEW c \in Calls, phase[c] = "limiter", Goto(c, "admitted"),
           ChainCount(c) <= ChainMax
    PROVE  ChainsLimited'
<1> SUFFICES ASSUME NEW k \in Traces \cup Calls, NEW o \in 0 .. Delay
             PROVE  Cardinality(InWindow(k, o)') <= ChainMax
  BY DEF ChainsLimited
<1> DEFINE counted == {d \in Recorded(c) : SameChain(c, d)}
<1>1. /\ phase \in [Calls -> Phases] /\ age \in [Calls -> 0 .. Oldest]
      /\ zset \in SUBSET Calls /\ Oldest \in Nat /\ ChainWindow \in Nat
      /\ Delay \in Nat /\ Delay <= ChainWindow /\ ChainMax \in Nat
  BY AgentCallsAssumption DEF IInv, TypeOK, Oldest
<1>2. phase' = [phase EXCEPT ![c] = "admitted"] /\ age' = age /\ trace' = trace
  BY DEF Goto, header
<1>3. \A b \in Calls : b # c /\ Admitted(b)' => Admitted(b)
  BY <1>1, <1>2 DEF Admitted, Forwarded
<1>4. InWindow(k, o) \in SUBSET Calls /\ Cardinality(InWindow(k, o)) <= ChainMax
  BY DEF IInv, ChainsLimited, InWindow
<1>5. CASE c \notin InWindow(k, o)'
  <2>1. InWindow(k, o)' \subseteq InWindow(k, o)
    BY <1>2, <1>3, <1>5 DEF InWindow
  <2> QED
    BY <1>1, <1>4, <2>1, SmallerIsWithin
<1>6. CASE c \in InWindow(k, o)'
  <2>1. ASSUME NEW b \in InWindow(k, o)' PROVE b \in counted
    <3>1. /\ b \in Calls /\ Admitted(b)' /\ age[b] \in Window(o) /\ age[c] \in Window(o)
          /\ TraceId(b, trace[b]) = k /\ TraceId(c, trace[c]) = k
      BY <1>2, <1>6 DEF InWindow
    <3>2. o <= age[c] /\ age[c] <= Delay /\ age[b] < o + ChainWindow - Delay
      BY <3>1 DEF Window, IInv, Remembered
    <3>3. CASE b = c
      BY <3>3 DEF Recorded, SameChain
    <3>4. CASE b # c
      <4>1. ~(age[b] >= ChainWindow) /\ age[b] < age[c] + ChainWindow
        BY <1>1, <3>1, <3>2
      <4>2. b \in zset
        BY <1>3, <3>1, <3>4, <4>1 DEF IInv, Remembered
      <4> QED
        BY <3>1, <4>1, <4>2 DEF Recorded, Purged, SameChain
    <3> QED
      BY <3>3, <3>4
  <2>2. counted \in SUBSET Calls
    BY <1>1 DEF Recorded, Purged
  <2>3. Cardinality(counted) <= ChainMax
    BY DEF ChainCount
  <2>4. InWindow(k, o)' \in SUBSET counted
    BY <2>1
  <2> HIDE DEF counted
  <2> QED
    BY <1>1, <2>2, <2>3, <2>4, SmallerIsWithin
<1> QED
  BY <1>5, <1>6

LEMMA RecordKeepsInv ==
    ASSUME IInv, NEW c \in Calls, Record(c)
    PROVE  IInv'
<1>1. /\ phase \in [Calls -> Phases] /\ age \in [Calls -> 0 .. Oldest]
      /\ zset \in SUBSET Calls /\ Oldest \in Nat /\ ChainWindow \in Nat
  BY AgentCallsAssumption DEF IInv, TypeOK, Oldest
<1>2. PICK ph \in {"admitted", "returned"} :
        /\ Goto(c, ph) /\ phase[c] = "limiter" /\ zset' \in {zset, Recorded(c)}
        /\ ph = "admitted" => zset' = Recorded(c) /\ ChainCount(c) <= ChainMax
  BY DEF Record
<1>3. phase' = [phase EXCEPT ![c] = ph] /\ age' = age /\ trace' = trace
  BY <1>2 DEF Goto, header
<1>4. TypeOK' /\ \A e \in Calls : CallKept(e)'
  <2>1. zset' \in SUBSET Calls
    BY <1>1, <1>2 DEF Recorded, Purged
  <2> QED
    BY <1>2, <2>1, GotoKeepsCalls, PhaseFacts
<1>5. \A e \in Calls \ {c} : phase'[e] = phase[e] /\ (Admitted(e)' => Admitted(e))
  BY <1>1, <1>3 DEF Admitted, Forwarded
<1>6. Remembered'
  <2>1. ASSUME NEW e \in Calls, phase'[e] \in {"idle", "limiter"}
        PROVE  age'[e] <= Delay /\ e \notin zset'
    <3>1. e # c
      BY <1>1, <1>3, <2>1
    <3> QED
      BY <1>2, <1>3, <1>5, <2>1, <3>1 DEF IInv, Remembered, Recorded, Purged
  <2>2. ASSUME NEW e \in Calls \ zset', Admitted(e)'
        PROVE  age'[e] >= ChainWindow
    <3>1. e # c
      BY <1>1, <1>2, <1>3, <2>2, PhaseFacts DEF Admitted, Forwarded, Recorded
    <3>2. CASE e \notin zset
      BY <1>3, <1>5, <2>2, <3>1, <3>2 DEF IInv, Remembered
    <3>3. CASE e \in zset
      <4>1. ~(age[e] < age[c] + ChainWindow)
        BY <1>2, <2>2, <3>3 DEF Recorded, Purged
      <4>2. age[e] \in Nat /\ age[c] \in Nat
        BY <1>1
      <4> QED
        BY <1>1, <1>3, <4>1, <4>2
    <3> QED
      BY <3>2, <3>3
  <2> QED
    BY <2>1, <2>2 DEF Remembered
<1>7. ChainsLimited'
  <2>1. CASE ph = "admitted"
    BY <1>2, <2>1, AdmissionKeepsChains
  <2>2. CASE ph = "returned"
    <3>1. ~Admitted(c)'
      BY <1>1, <1>3, <2>2, PhaseFacts DEF Admitted, Forwarded
    <3> QED
      BY <1>3, <1>5, <3>1, AdmittedKeepsChains
  <2> QED
    BY <2>1, <2>2
<1> QED
  BY <1>4, <1>6, <1>7 DEF IInv

-----------------------------------------------------------------------------
LEMMA TrickleKeepsInv ==
    ASSUME IInv, NEW c \in Calls, Trickle(c)
    PROVE  IInv'
<1>1. /\ phase \in [Calls -> Phases] /\ parent \in [Calls -> Calls \cup {Nobody}]
      /\ wait \in [Calls -> Nat] /\ parts \in [Calls -> 0 .. MaxParts] /\ MaxParts \in Nat
  BY AgentCallsAssumption DEF IInv, TypeOK
<1>2. /\ parts' = [parts EXCEPT ![c] = @ + 1] /\ parts[c] < MaxParts
      /\ wait' = [wait EXCEPT ![c] = 0] /\ phase[c] = "reading"
      /\ phase' = phase /\ age' = age /\ zset' = zset /\ parent' = parent /\ depth' = depth
      /\ trace' = trace /\ root' = root /\ hops' = hops /\ raised' = raised
  BY DEF Trickle, header, history
<1>3. TypeOK'
  BY <1>1, <1>2 DEF IInv, TypeOK
<1>4. \A e \in Calls : Unarrived(e) => Unarrived(e)'
  BY <1>1, <1>2 DEF Unarrived
<1>5. ASSUME NEW e \in Calls, parent[e] # Nobody
      PROVE  OutlivesNot(e, parent[e])'
  <2>1. parent[e] \in Calls /\ parent[e] # e /\ OutlivesNot(e, parent[e])
    BY <1>1, <1>5 DEF IInv, CallKept
  <2>2. CASE parent[e] = c
    BY <1>1, <1>2, <2>1, <2>2 DEF OutlivesNot
  <2>3. CASE parent[e] # c
    BY <1>1, <1>2, <2>1, <2>3 DEF OutlivesNot, Due
  <2> QED
    BY <2>2, <2>3
<1>6. \A e \in Calls : CallKept(e)'
  BY <1>2, <1>4, <1>5 DEF IInv, CallKept
<1>7. Remembered' /\ ChainsLimited'
  <2>1. \A e \in Calls : Admitted(e)' <=> Admitted(e)
    BY <1>2 DEF Admitted, Forwarded
  <2> QED
    BY <1>2, <2>1, AdmittedKeepsChains DEF IInv, Remembered
<1> QED
  BY <1>3, <1>6, <1>7 DEF IInv

LEMMA TickKeepsChains ==
    ASSUME IInv, Tick
    PROVE  ChainsLimited'
<1> SUFFICES ASSUME NEW k \in Traces \cup Calls, NEW o \in 0 .. Delay
             PROVE  Cardinality(InWindow(k, o)') <= ChainMax
  BY DEF ChainsLimited
<1>1. /\ phase \in [Calls -> Phases] /\ age \in [Calls -> 0 .. Oldest]
      /\ Oldest = ChainWindow + Delay /\ Oldest \in Nat /\ ChainWindow \in Nat
      /\ Delay \in Nat /\ Delay <= ChainWindow /\ ChainMax \in Nat
  BY AgentCallsAssumption DEF IInv, TypeOK, Oldest
<1>2. /\ age' = [c \in Calls |-> IF c \in Arrived /\ age[c] < Oldest
                                 THEN age[c] + 1 ELSE age[c]]
      /\ phase' = phase /\ trace' = trace
  BY DEF Tick, header
<1>3. PICK before \in 0 .. Delay : before = IF o = 0 THEN 0 ELSE o - 1
  BY <1>1
<1>4. ASSUME NEW b \in InWindow(k, o)' PROVE b \in InWindow(k, before)
  <2>1. /\ b \in Calls /\ Admitted(b) /\ TraceId(b, trace[b]) = k
        /\ o <= age'[b] /\ age'[b] < o + ChainWindow - Delay
    BY <1>2, <1>4 DEF InWindow, Window, Admitted, Forwarded
  <2>2. b \in Arrived
    BY <2>1, PhaseFacts DEF Admitted, Forwarded, Arrived
  <2>3. age[b] \in 0 .. Oldest
    BY <1>1, <2>1
  <2>4. age'[b] = age[b] + 1
    BY <1>1, <1>2, <2>1, <2>2, <2>3
  <2>5. age[b] \in Window(before)
    BY <1>1, <1>3, <2>1, <2>3, <2>4 DEF Window
  <2> QED
    BY <2>1, <2>5 DEF InWindow
<1>5. InWindow(k, before) \in SUBSET Calls /\ Cardinality(InWindow(k, before)) <= ChainMax
  BY DEF IInv, ChainsLimited, InWindow
<1> QED
  BY <1>1, <1>4, <1>5, SmallerIsWithin

LEMMA TickKeepsInv ==
    ASSUME IInv, Tick
    PROVE  IInv'
<1>1. /\ phase \in [Calls -> Phases] /\ parent \in [Calls -> Calls \cup {Nobody}]
      /\ wait \in [Calls -> Nat] /\ age \in [Calls -> 0 .. Oldest]
      /\ Oldest \in Nat /\ ChainWindow \in Nat /\ Delay \in Nat
  BY AgentCallsAssumption DEF IInv, TypeOK, Oldest
<1>2. /\ \A c \in Calls : ~Due(c) /\ (phase[c] = "limiter" => age[c] < Delay)
      /\ wait' = [c \in Calls |-> IF phase[c] \in Open THEN wait[c] + 1 ELSE wait[c]]
      /\ age' = [c \in Calls |-> IF c \in Arrived /\ age[c] < Oldest
                                 THEN age[c] + 1 ELSE age[c]]
      /\ phase' = phase /\ zset' = zset /\ parts' = parts /\ parent' = parent
      /\ depth' = depth /\ trace' = trace /\ root' = root /\ hops' = hops
      /\ raised' = raised
  BY DEF Tick, header, history
<1>3. TypeOK'
  <2>1. wait' \in [Calls -> Nat] /\ age' \in [Calls -> 0 .. Oldest]
    BY <1>1, <1>2
  <2> QED
    BY <1>2, <2>1 DEF IInv, TypeOK
<1>4. ASSUME NEW e \in Calls, phase[e] = "idle" PROVE Unarrived(e)'
  BY <1>1, <1>2, <1>4, PhaseFacts DEF IInv, CallKept, Unarrived
<1>5. ASSUME NEW e \in Calls, parent[e] # Nobody
      PROVE  OutlivesNot(e, parent[e])'
  <2>1. parent[e] \in Calls /\ OutlivesNot(e, parent[e]) /\ ~Due(parent[e])
    BY <1>1, <1>2, <1>5 DEF IInv, CallKept
  <2> QED
    BY <1>1, <1>2, <2>1, PhaseFacts DEF OutlivesNot
<1>6. \A e \in Calls : CallKept(e)'
  BY <1>2, <1>4, <1>5 DEF IInv, CallKept
<1>7. Remembered'
  <2>1. ASSUME NEW e \in Calls, phase[e] \in {"idle", "limiter"}
        PROVE  age'[e] <= Delay /\ e \notin zset'
    <3>1. age[e] <= Delay /\ e \notin zset /\ age[e] \in Nat
      BY <1>1, <2>1 DEF IInv, Remembered
    <3>2. phase[e] = "idle" => age'[e] = age[e]
      BY <1>2 DEF Arrived
    <3> QED
      BY <1>1, <1>2, <2>1, <3>1, <3>2
  <2>2. ASSUME NEW e \in Calls \ zset', Admitted(e)'
        PROVE  age'[e] >= ChainWindow
    <3>1. age[e] >= ChainWindow /\ age[e] \in Nat
      BY <1>1, <1>2, <2>2 DEF IInv, Remembered, Admitted, Forwarded
    <3> QED
      BY <1>1, <1>2, <3>1
  <2> QED
    BY <1>2, <2>1, <2>2 DEF Remembered
<1> QED
  BY <1>3, <1>6, <1>7, TickKeepsChains DEF IInv

-----------------------------------------------------------------------------
LEMMA InitGivesInv == Init => IInv
<1> SUFFICES ASSUME Init PROVE IInv
  OBVIOUS
<1>1. TypeOK
  BY AgentCallsAssumption, PhaseFacts DEF Init, TypeOK, Oldest
<1>2. \A c \in Calls : phase[c] = "idle" /\ ~Admitted(c)
  BY PhaseFacts DEF Init, Admitted, Forwarded
<1>3. ChainsLimited
  <2> SUFFICES ASSUME NEW k \in Traces \cup Calls, NEW o \in 0 .. Delay
               PROVE  Cardinality(InWindow(k, o)) <= ChainMax
    BY DEF ChainsLimited
  <2>1. InWindow(k, o) = {}
    BY <1>2 DEF InWindow
  <2>2. Cardinality(InWindow(k, o)) = 0
    BY <2>1, FS_EmptySet, Zenon
  <2> QED
    BY <2>2, AgentCallsAssumption
<1>4. Remembered
  BY <1>2, AgentCallsAssumption DEF Init, Remembered
<1>5. \A c \in Calls : CallKept(c)
  BY <1>2 DEF Init, CallKept, Unarrived
<1> QED
  BY <1>1, <1>3, <1>4, <1>5 DEF IInv

LEMMA StepKeepsInv == IInv /\ [Next]_vars => IInv'
<1> SUFFICES ASSUME IInv, [Next]_vars PROVE IInv'
  OBVIOUS
<1>1. /\ MaxDelegationDepth \in Nat /\ depth \in [Calls -> 0 .. MaxDelegationDepth]
      /\ trace \in [Calls -> Traces \cup {NoTrace}] /\ phase \in [Calls -> Phases]
  BY AgentCallsAssumption DEF IInv, TypeOK
<1>2. CASE Tick
  BY <1>2, TickKeepsInv
<1>3. ASSUME NEW c \in Calls, Call(c) PROVE IInv'
  <2>1. PICK t \in Traces \cup {NoTrace} : Arrive(c, Nobody, 0, t)
    BY <1>3 DEF Call
  <2> QED
    BY <1>1, <2>1, ArriveKeepsInv
<1>4. ASSUME NEW c \in Calls, CallBack(c) PROVE IInv'
  <2>1. PICK p \in Calls, more \in {0, 1} :
          phase[p] = "reading" /\ Arrive(c, p, depth[p] + more, trace[p])
    BY <1>4 DEF CallBack
  <2>2. depth[p] < MaxDelegationDepth /\ depth[p] \in Nat
    BY <1>1, <2>1 DEF IInv, CallKept
  <2>3. p # Nobody /\ depth[p] + more \in Nat /\ depth[p] + more <= MaxDelegationDepth
    BY <1>1, <2>2, CallsAreFinite
  <2> QED
    BY <1>1, <2>1, <2>3, ArriveKeepsInv
<1>5. ASSUME NEW c \in Calls, Record(c) PROVE IInv'
  BY <1>5, RecordKeepsInv
<1>6. ASSUME NEW c \in Calls, Govern(c) PROVE IInv'
  BY <1>6, ProceedKeepsInv, PhaseFacts DEF Govern
<1>7. ASSUME NEW c \in Calls, Acquire(c) PROVE IInv'
  BY <1>7, ProceedKeepsInv, PhaseFacts DEF Acquire
<1>8. ASSUME NEW c \in Calls, Connect(c) PROVE IInv'
  BY <1>8, ProceedKeepsInv, PhaseFacts DEF Connect
<1>9. ASSUME NEW c \in Calls, Trickle(c) PROVE IInv'
  BY <1>9, TrickleKeepsInv
<1>10. ASSUME NEW c \in Calls, Answer(c) PROVE IInv'
  BY <1>10, ProceedKeepsInv, PhaseFacts DEF Answer
<1>11. ASSUME NEW c \in Calls, Break(c) PROVE IInv'
  BY <1>11, ProceedKeepsInv, PhaseFacts DEF Break, Connected
<1>12. ASSUME NEW c \in Calls, Expire(c) PROVE IInv'
  BY <1>12, ProceedKeepsInv, PhaseFacts DEF Expire
<1>13. CASE UNCHANGED vars
  BY <1>13 DEF vars, header, history, IInv, TypeOK, CallKept, Unarrived, Admitted,
               Forwarded, OutlivesNot, Due, Remembered, ChainsLimited, InWindow
<1> QED
  BY <1>2, <1>3, <1>4, <1>5, <1>6, <1>7, <1>8, <1>9, <1>10, <1>11, <1>12, <1>13 DEF Next

(* Whatever agents do with the calls they receive, a tree of calls keeps   *)
(* one trace, chains admit no more than their limit of what comes within a *)
(* window less the wait for a transaction, and no call has waited longer   *)
(* than a caller that has heard nothing (main.py:140-174, limiter.py:30-39 *)
(* and proxy/client.py:21-31).                                             *)
THEOREM Invariant == Spec => []IInv
BY InitGivesInv, StepKeepsInv, PTL DEF Spec

(* Where agents raise the depth they pass on, no call is forwarded under   *)
(* MaxDelegationDepth others (main.py:146).                                *)
THEOREM HopsHold == Spec => []HopsBounded
<1>1. IInv => HopsBounded
  BY PhaseFacts DEF IInv, CallKept, HopsBounded, Forwarded
<1> QED
  BY <1>1, Invariant, PTL

(* A tree whose root named its trace is within the chain limit, whoever in *)
(* it makes the calls: of those that come within a window, less the time   *)
(* one may wait for its transaction, of one another (main.py:165,          *)
(* limiter.py:30-39).                                                      *)
THEOREM NamedTreesHold == Spec => []NamedTreesLimited
<1>1. ASSUME IInv, NEW r \in Calls, NEW o \in 0 .. Delay, trace[r] # NoTrace
      PROVE  Cardinality(TreeInWindow(r, o)) <= ChainMax
  <2>1. trace[r] \in Traces
    BY <1>1 DEF IInv, TypeOK
  <2>2. TreeInWindow(r, o) \subseteq InWindow(trace[r], o)
    BY <1>1 DEF IInv, CallKept, TreeInWindow, InWindow, TraceId, Admitted
  <2>3. InWindow(trace[r], o) \in SUBSET Calls /\ ChainMax \in Nat
    BY AgentCallsAssumption DEF InWindow
  <2>4. Cardinality(InWindow(trace[r], o)) <= ChainMax
    BY <1>1, <2>1 DEF IInv, ChainsLimited
  <2> QED
    BY <2>2, <2>3, <2>4, SmallerIsWithin
<1>2. IInv => NamedTreesLimited
  BY <1>1 DEF NamedTreesLimited
<1> QED
  BY <1>2, Invariant, PTL

(* No nested call runs out of time before a caller that has heard nothing  *)
(* (proxy/client.py:22-25).                                                *)
THEOREM NestedTimeoutsTooLate == Spec => []NestedTimeoutsComeTooLate
<1>1. IInv => NestedTimeoutsComeTooLate
  BY DEF IInv, CallKept, NestedTimeoutsComeTooLate, OutlivesNot
<1> QED
  BY <1>1, Invariant, PTL
=============================================================================
