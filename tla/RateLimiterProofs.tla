------------------------- MODULE RateLimiterProofs -------------------------
(***************************************************************************)
(* What RateLimiter keeps for every limit, window and delay: the invariant *)
(* by one step per action, the limit from the last transaction of the      *)
(* attempts it counts, and the limiter Gateway relies on by refinement.    *)
(***************************************************************************)
EXTENDS RateLimiter, FiniteSetTheorems, TLAPS

LEMMA SmallerIsWithin ==
    ASSUME NEW T \in SUBSET Attempts, NEW S \in SUBSET T, NEW n \in Nat,
           Cardinality(T) <= n
    PROVE  Cardinality(S) <= n
<1>1. IsFiniteSet(T)
  BY LimiterAssumption, FS_Subset
<1>2. Cardinality(S) <= Cardinality(T) /\ IsFiniteSet(S)
  BY <1>1, FS_Subset
<1>3. Cardinality(S) \in Nat /\ Cardinality(T) \in Nat
  BY <1>1, <1>2, FS_CardinalityType
<1> QED
  BY <1>2, <1>3

-----------------------------------------------------------------------------
(* The inductive invariant.                                                *)

LEMMA TransactionKeepsInv ==
    ASSUME IInv, NEW a \in Attempts, pc[a] = "sent",
           NEW v \in Verdicts, pc' = [pc EXCEPT ![a] = v],
           Transaction(a)
    PROVE  IInv'
<1>1. /\ clock \in Nat /\ now \in [Attempts -> Nat] /\ zset \in SUBSET Attempts
      /\ pc \in [Attempts -> Verdicts \cup {"idle", "sent"}]
      /\ window_seconds \in Nat /\ Delay \in Nat
  BY LimiterAssumption DEF IInv, TypeOK
<1>2. /\ zset' = {b \in zset : now[b] > now[a] - window_seconds} \cup {a}
      /\ expires' = clock + 2 * window_seconds
      /\ clock' = clock /\ now' = now
  BY DEF Transaction, Recorded, Purged, window_start
<1>3. TypeOK'
  BY <1>1, <1>2 DEF TypeOK
<1>4. \A b \in Attempts : now'[b] <= clock'
  BY <1>2 DEF IInv
<1>5. \A b \in Attempts : pc'[b] = "sent" => clock' <= now'[b] + Delay
  BY <1>1, <1>2 DEF IInv, Verdicts
<1>6. \A b \in zset' : pc'[b] \in Verdicts /\ now'[b] + 2 * window_seconds <= expires'
  <2> SUFFICES ASSUME NEW b \in zset'
               PROVE  pc'[b] \in Verdicts /\ now'[b] + 2 * window_seconds <= expires'
    OBVIOUS
  <2>1. b \in Attempts /\ (b \in zset \/ b = a)
    BY <1>1, <1>2
  <2>2. pc'[b] \in Verdicts
    BY <1>1, <2>1 DEF IInv
  <2>3. now[b] <= clock
    BY <2>1 DEF IInv
  <2> QED
    BY <1>1, <1>2, <2>1, <2>2, <2>3
<1>7. ASSUME NEW b \in Attempts \ zset', pc'[b] \in {"admitted", "refused"}
      PROVE  now'[b] + window_seconds <= clock'
  <2>1. b # a /\ pc[b] \in {"admitted", "refused"}
    BY <1>1, <1>2, <1>7
  <2>2. CASE b \notin zset
    BY <1>2, <2>1, <2>2 DEF IInv
  <2>3. CASE b \in zset
    <3>1. ~(now[b] > now[a] - window_seconds)
      BY <1>2, <1>7, <2>3
    <3>2. now[a] <= clock
      BY DEF IInv
    <3> QED
      BY <1>1, <1>2, <3>1, <3>2
  <2> QED
    BY <2>2, <2>3
<1> QED
  BY <1>3, <1>4, <1>5, <1>6, <1>7 DEF IInv

LEMMA StepKeepsInv == IInv /\ [Next]_vars => IInv'
<1> SUFFICES ASSUME IInv, [Next]_vars PROVE IInv'
  OBVIOUS
<1>1. /\ clock \in Nat /\ now \in [Attempts -> Nat] /\ zset \in SUBSET Attempts
      /\ pc \in [Attempts -> Verdicts \cup {"idle", "sent"}] /\ expires \in Nat
      /\ window_seconds \in Nat /\ Delay \in Nat
  BY LimiterAssumption DEF IInv, TypeOK
<1>2. ASSUME NEW a \in Attempts, Begin(a) PROVE IInv'
  <2>1. a \notin zset
    BY <1>2 DEF IInv, Begin, Verdicts
  <2> QED
    BY <1>1, <1>2, <2>1 DEF IInv, TypeOK, Begin, Verdicts
<1>3. ASSUME NEW a \in Attempts, Admit(a) PROVE IInv'
  BY <1>3, TransactionKeepsInv DEF Admit, Verdicts
<1>4. ASSUME NEW a \in Attempts, Refuse(a) PROVE IInv'
  BY <1>4, TransactionKeepsInv DEF Refuse, Verdicts
<1>5. ASSUME NEW a \in Attempts, Fail(a) PROVE IInv'
  <2>1. CASE Transaction(a)
    BY <1>5, <2>1, TransactionKeepsInv DEF Fail, Verdicts
  <2>2. CASE UNCHANGED <<clock, now, zset, expires>>
    BY <1>1, <1>5, <2>2 DEF IInv, TypeOK, Fail, Verdicts
  <2> QED
    BY <1>5, <2>1, <2>2 DEF Fail
<1>6. ASSUME Expire PROVE IInv'
  <2>1. \A a \in zset : now[a] + window_seconds <= clock
    BY <1>1, <1>6 DEF IInv, Expire
  <2> QED
    BY <1>1, <1>6, <2>1 DEF IInv, TypeOK, Expire
<1>7. ASSUME Tick PROVE IInv'
  BY <1>1, <1>7 DEF IInv, TypeOK, Tick
<1>8. CASE UNCHANGED vars
  BY <1>8 DEF IInv, TypeOK, vars
<1> QED
  BY <1>2, <1>3, <1>4, <1>5, <1>6, <1>7, <1>8 DEF Next

(* Redis forgets only attempts that have left the window by the clock      *)
(* (limiter.py:30-39).                                                     *)
THEOREM Invariant == Spec => []IInv
<1>1. Init => IInv
  BY LimiterAssumption DEF Init, IInv, TypeOK, Verdicts
<1> QED
  BY <1>1, StepKeepsInv, PTL DEF Spec

-----------------------------------------------------------------------------
(* The limit.  Of the attempts counted for a span, look at the one whose   *)
(* transaction ran last: the others were still in the set then, because    *)
(* whatever purges one of them has a reading too late for the span.        *)

LimitedAt(t) == Cardinality(AdmittedIn(t, window_seconds - Delay)) <= max_requests

LEMMA LimitedAtInit == Init => \A t \in Nat : LimitedAt(t)
<1> SUFFICES ASSUME Init, NEW t \in Nat PROVE LimitedAt(t)
  OBVIOUS
<1>1. AdmittedIn(t, window_seconds - Delay) = {}
  BY DEF Init, AdmittedIn
<1>2. Cardinality(AdmittedIn(t, window_seconds - Delay)) = 0
  BY <1>1, FS_EmptySet, Zenon
<1> QED
  BY <1>2, LimiterAssumption DEF LimitedAt

LEMMA AdmitKeepsLimit ==
    ASSUME IInv, NEW a \in Attempts, Admit(a), NEW t \in Nat, LimitedAt(t)
    PROVE  LimitedAt(t)'
<1> DEFINE span == window_seconds - Delay
           new == AdmittedIn(t, span)'
<1>1. /\ clock \in Nat /\ now \in [Attempts -> Nat] /\ zset \in SUBSET Attempts
      /\ pc \in [Attempts -> Verdicts \cup {"idle", "sent"}]
      /\ window_seconds \in Nat /\ Delay \in Nat /\ max_requests \in Nat
  BY LimiterAssumption DEF IInv, TypeOK
<1>2. /\ now' = now
      /\ pc' = [pc EXCEPT ![a] = "admitted"]
      /\ pc[a] = "sent"
      /\ Cardinality(Recorded(a)) <= max_requests
  BY DEF Admit, Transaction, allowed
<1>3. new = {b \in Attempts : pc'[b] = "admitted" /\ t - span < now[b] /\ now[b] <= t}
  BY <1>2 DEF AdmittedIn
<1>4. CASE a \notin new
  <2>1. new = AdmittedIn(t, span)
    BY <1>1, <1>2, <1>3, <1>4 DEF AdmittedIn
  <2> QED
    BY <2>1 DEF LimitedAt
<1>5. CASE a \in new
  <2>1. ASSUME NEW b \in new PROVE b \in Recorded(a)
    <3>1. b \in Attempts /\ t - span < now[b] /\ now[a] <= t
      BY <1>3, <1>5
    <3>2. now[b] > now[a] - window_seconds
      BY <1>1, <3>1
    <3>3. CASE b = a
      BY <3>3 DEF Recorded
    <3>4. CASE b # a
      <4>1. pc[b] = "admitted"
        BY <1>1, <1>2, <1>3, <3>4
      <4>2. clock <= now[a] + Delay
        BY <1>2 DEF IInv
      <4>3. ~(now[b] + window_seconds <= clock)
        BY <1>1, <3>1, <4>2
      <4>4. b \in zset
        BY <3>1, <4>1, <4>3 DEF IInv
      <4> QED
        BY <3>2, <4>4 DEF Recorded, Purged, window_start
    <3> QED
      BY <3>3, <3>4
  <2>2. Recorded(a) \in SUBSET Attempts /\ new \in SUBSET Recorded(a)
    BY <1>1, <2>1 DEF Recorded, Purged
  <2>3. Cardinality(new) <= max_requests
    BY <1>1, <1>2, <2>2, SmallerIsWithin
  <2> QED
    BY <2>3 DEF LimitedAt
<1> QED
  BY <1>4, <1>5

LEMMA OtherKeepsLimit ==
    ASSUME IInv, NEW t \in Nat, LimitedAt(t),
           \A b \in Attempts : pc'[b] = "admitted" => pc[b] = "admitted" /\ now'[b] = now[b]
    PROVE  LimitedAt(t)'
<1> DEFINE span == window_seconds - Delay
<1>1. AdmittedIn(t, span) \in SUBSET Attempts
  BY DEF AdmittedIn
<1>2. AdmittedIn(t, span)' \in SUBSET AdmittedIn(t, span)
  BY DEF AdmittedIn
<1>3. max_requests \in Nat
  BY LimiterAssumption
<1>4. Cardinality(AdmittedIn(t, span)') <= max_requests
  BY <1>1, <1>2, <1>3, SmallerIsWithin DEF LimitedAt
<1> QED
  BY <1>4 DEF LimitedAt

LEMMA LimitedAtStep ==
    IInv /\ [Next]_vars /\ (\A t \in Nat : LimitedAt(t)) => (\A t \in Nat : LimitedAt(t))'
<1> SUFFICES ASSUME IInv, [Next]_vars, \A t \in Nat : LimitedAt(t), NEW t \in Nat
             PROVE  LimitedAt(t)'
  OBVIOUS
<1>1. pc \in [Attempts -> Verdicts \cup {"idle", "sent"}]
  BY DEF IInv, TypeOK
<1>2. ASSUME NEW a \in Attempts, Admit(a) PROVE LimitedAt(t)'
  BY <1>2, AdmitKeepsLimit
<1>3. CASE ~ \E a \in Attempts : Admit(a)
  <2>1. \A b \in Attempts : pc'[b] = "admitted" => pc[b] = "admitted" /\ now'[b] = now[b]
    <3>1. ASSUME NEW a \in Attempts, Begin(a) \/ Refuse(a) \/ Fail(a)
          PROVE  \A b \in Attempts : pc'[b] = "admitted" => pc[b] = "admitted" /\ now'[b] = now[b]
      BY <1>1, <3>1 DEF Begin, Refuse, Fail, Transaction, IInv, TypeOK
    <3>2. CASE Expire \/ Tick \/ UNCHANGED vars
      BY <3>2 DEF Expire, Tick, vars
    <3> QED
      BY <1>3, <3>1, <3>2 DEF Next
  <2> QED
    BY <2>1, OtherKeepsLimit
<1> QED
  BY <1>2, <1>3

(* No more than max_requests attempts made within window_seconds - Delay   *)
(* of one another are admitted (limiter.py:28-41).                         *)
THEOREM LimitHolds == Spec => []LimitedPerWindow
<1>1. IInv /\ (\A t \in Nat : LimitedAt(t)) => LimitedPerWindow
  BY DEF IInv, TypeOK, LimitedAt, LimitedPerWindow
<1> QED
  BY <1>1, LimitedAtInit, LimitedAtStep, Invariant, PTL DEF Spec

-----------------------------------------------------------------------------
(* Refusals.                                                               *)

Load(a) == {b \in Attempts \ {a} : pc[b] \in Verdicts /\ now[b] > window_start(a)}

LEMMA LoadGrows ==
    ASSUME IInv, [Next]_vars, NEW a \in Attempts, pc[a] \in Verdicts
    PROVE  pc'[a] = pc[a] /\ now'[a] = now[a] /\ Load(a) \subseteq Load(a)'
<1>1. pc \in [Attempts -> Verdicts \cup {"idle", "sent"}] /\ now \in [Attempts -> Nat]
  BY DEF IInv, TypeOK
<1>2. \A b \in Attempts : pc[b] \in Verdicts => pc'[b] = pc[b] /\ now'[b] = now[b]
  <2>1. ASSUME NEW c \in Attempts, Begin(c) \/ Admit(c) \/ Refuse(c) \/ Fail(c)
        PROVE  \A b \in Attempts : pc[b] \in Verdicts => pc'[b] = pc[b] /\ now'[b] = now[b]
    BY <1>1, <2>1 DEF Begin, Admit, Refuse, Fail, Transaction, Verdicts
  <2>2. CASE Expire \/ Tick \/ UNCHANGED vars
    BY <2>2 DEF Expire, Tick, vars
  <2> QED
    BY <2>1, <2>2 DEF Next
<1>3. Load(a) \subseteq Load(a)'
  BY <1>2 DEF Load, window_start
<1> QED
  BY <1>2, <1>3

LEMMA RefusedHasLoad ==
    ASSUME IInv, NEW a \in Attempts, Refuse(a)
    PROVE  Cardinality(Load(a)) >= max_requests
<1>1. /\ zset \in SUBSET Attempts /\ max_requests \in Nat /\ IsFiniteSet(Attempts)
      /\ Load(a) \in SUBSET Attempts
  BY LimiterAssumption DEF IInv, TypeOK, Load
<1>2. a \notin zset /\ \A b \in zset : pc[b] \in Verdicts
  BY DEF IInv, Refuse, Verdicts
<1>3. Purged(a) \subseteq Load(a)
  BY <1>1, <1>2 DEF Purged, Load
<1>4. IsFiniteSet(Purged(a)) /\ IsFiniteSet(Load(a))
  BY <1>1, <1>3, FS_Subset
<1>5. Cardinality(Recorded(a)) = Cardinality(Purged(a)) + 1
  BY <1>2, <1>4, FS_AddElement DEF Recorded, Purged
<1>6. ~(Cardinality(Recorded(a)) <= max_requests)
  BY DEF Refuse, allowed
<1>7. Cardinality(Purged(a)) <= Cardinality(Load(a))
  BY <1>3, <1>4, FS_Subset
<1>8. Cardinality(Purged(a)) \in Nat /\ Cardinality(Load(a)) \in Nat
  BY <1>4, FS_CardinalityType
<1> QED
  BY <1>1, <1>5, <1>6, <1>7, <1>8

LEMMA RefusalsStep == IInv /\ [Next]_vars /\ RefusedUnderLoad => RefusedUnderLoad'
<1> SUFFICES ASSUME IInv, [Next]_vars, RefusedUnderLoad,
                    NEW a \in Attempts, pc'[a] = "refused"
             PROVE  Cardinality(Load(a)') >= max_requests
  BY DEF RefusedUnderLoad, Load
<1>1. /\ pc \in [Attempts -> Verdicts \cup {"idle", "sent"}] /\ max_requests \in Nat
      /\ IsFiniteSet(Attempts)
  BY LimiterAssumption DEF IInv, TypeOK
<1>2. Cardinality(Load(a)) >= max_requests /\ Load(a) \subseteq Load(a)'
  <2>1. CASE pc[a] \in Verdicts
    <3>1. pc[a] = "refused" /\ Load(a) \subseteq Load(a)'
      BY <2>1, LoadGrows
    <3> QED
      BY <3>1 DEF RefusedUnderLoad, Load
  <2>2. CASE pc[a] \notin Verdicts
    <3>1. Refuse(a)
      BY <1>1, <2>2 DEF Next, Begin, Admit, Refuse, Fail, Expire, Tick, vars, Verdicts
    <3>2. \A b \in Attempts : now'[b] = now[b] /\ (pc[b] \in Verdicts => pc'[b] \in Verdicts)
      BY <1>1, <3>1 DEF Refuse, Transaction, Verdicts
    <3>3. Load(a) \subseteq Load(a)'
      BY <3>2 DEF Load, window_start
    <3> QED
      BY <3>1, <3>3, RefusedHasLoad
  <2> QED
    BY <2>1, <2>2
<1>3. IsFiniteSet(Load(a)') /\ IsFiniteSet(Load(a))
  BY <1>1, FS_Subset DEF Load
<1>4. Cardinality(Load(a)) <= Cardinality(Load(a)')
  BY <1>2, <1>3, FS_Subset
<1>5. Cardinality(Load(a)) \in Nat /\ Cardinality(Load(a)') \in Nat
  BY <1>3, FS_CardinalityType
<1> QED
  BY <1>1, <1>2, <1>4, <1>5

(* Refusals are only given under load (limiter.py:35, 55, main.py:184).    *)
THEOREM RefusalsJustified == Spec => []RefusedUnderLoad
<1>1. Init => RefusedUnderLoad
  BY DEF Init, RefusedUnderLoad
<1> QED
  BY <1>1, RefusalsStep, Invariant, PTL DEF Spec

-----------------------------------------------------------------------------
(* The refinement.                                                         *)

LEMMA InitRefines == Init => Abstract!Init
BY DEF Init, Abstract!Init, Verdict, Verdicts

LEMMA DecidedRefines ==
    ASSUME IInv, NEW a \in Attempts, pc[a] = "sent",
           NEW v \in Verdicts, pc' = [pc EXCEPT ![a] = v]
    PROVE  Verdict[a] = "none" /\ Verdict' = [Verdict EXCEPT ![a] = v]
BY DEF IInv, TypeOK, Verdict, Verdicts

LEMMA TransactionRefines ==
    ASSUME NEW a \in Attempts, Transaction(a)
    PROVE  zset' \in Abstract!Recorded(a) /\ zset' = Recorded(a)
BY DEF Transaction, Recorded, Purged, Abstract!Recorded

LEMMA SameCardinality == \A S : Abstract!Cardinality(S) = Cardinality(S)
BY DEF Cardinality, Abstract!Cardinality

LEMMA StepRefines == IInv /\ [Next]_vars => [Abstract!Next]_(Abstract!vars)
<1> SUFFICES ASSUME IInv, [Next]_vars PROVE [Abstract!Next]_(Abstract!vars)
  OBVIOUS
<1>1. pc \in [Attempts -> Verdicts \cup {"idle", "sent"}]
  BY DEF IInv, TypeOK
<1>2. ASSUME NEW a \in Attempts, Begin(a) PROVE UNCHANGED Abstract!vars
  <2>1. Verdict' = Verdict
    BY <1>1, <1>2 DEF Begin, Verdict, Verdicts
  <2> QED
    BY <1>2, <2>1 DEF Begin, Abstract!vars
<1>3. ASSUME NEW a \in Attempts, Admit(a) PROVE Abstract!Decide(a)
  <2>1. Verdict[a] = "none" /\ Verdict' = [Verdict EXCEPT ![a] = "admitted"]
    BY <1>3, DecidedRefines DEF Admit, Verdicts
  <2>2. zset' \in Abstract!Recorded(a) /\ Cardinality(zset') <= max_requests
    BY <1>3, TransactionRefines DEF Admit, allowed
  <2> QED
    BY <2>1, <2>2, SameCardinality DEF Abstract!Decide
<1>4. ASSUME NEW a \in Attempts, Refuse(a) PROVE Abstract!Decide(a)
  <2>1. Verdict[a] = "none" /\ Verdict' = [Verdict EXCEPT ![a] = "refused"]
    BY <1>4, DecidedRefines DEF Refuse, Verdicts
  <2>2. zset' \in Abstract!Recorded(a)
    BY <1>4, TransactionRefines DEF Refuse
  <2>3. Cardinality(zset') > max_requests
    <3>1. zset' = Recorded(a) /\ ~(Cardinality(Recorded(a)) <= max_requests)
      BY <1>4, TransactionRefines DEF Refuse, allowed
    <3>2. IsFiniteSet(Recorded(a))
      BY LimiterAssumption, FS_Subset DEF IInv, TypeOK, Recorded, Purged
    <3> QED
      BY <3>1, <3>2, FS_CardinalityType, LimiterAssumption
  <2> QED
    BY <2>1, <2>2, <2>3, SameCardinality DEF Abstract!Decide
<1>5. ASSUME NEW a \in Attempts, Fail(a) PROVE Abstract!Fail(a)
  <2>1. Verdict[a] = "none" /\ Verdict' = [Verdict EXCEPT ![a] = "failed"]
    BY <1>5, DecidedRefines DEF Fail, Verdicts
  <2>2. zset' \in {zset} \cup Abstract!Recorded(a)
    BY <1>5, TransactionRefines DEF Fail
  <2> QED
    BY <2>1, <2>2 DEF Abstract!Fail
<1>6. ASSUME Expire PROVE Abstract!Forget
  BY <1>6 DEF Expire, Abstract!Forget, Verdict
<1>7. CASE Tick \/ UNCHANGED vars
  <2>1. zset' = zset /\ Verdict' = Verdict
    BY <1>7 DEF Tick, vars, Verdict
  <2> QED
    BY <2>1 DEF Abstract!vars
<1> QED
  BY <1>2, <1>3, <1>4, <1>5, <1>6, <1>7 DEF Next, Abstract!Next

(* The sliding window is the limiter Gateway takes it for, whatever order  *)
(* its transactions run in (limiter.py:28-41, main.py:164-186).            *)
THEOREM Implementation == Spec => ImplementsLimiter
BY InitRefines, StepRefines, Invariant, PTL DEF Spec, ImplementsLimiter, Abstract!Spec
=============================================================================
