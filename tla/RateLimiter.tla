---------------------------- MODULE RateLimiter ----------------------------
(***************************************************************************)
(* SlidingWindowRateLimiter on one key, with its clock.  An attempt reads  *)
(* the clock, then waits for a connection and for Redis: transactions run  *)
(* in any order of their readings, each up to Delay after its own.  The    *)
(* keys of users and of chains differ only in their settings, and no       *)
(* command touches two keys.                                               *)
(***************************************************************************)
EXTENDS Integers, FiniteSets

CONSTANTS
    Attempts,         \* calls of check_and_record; their members are distinct
    window_seconds,
    max_requests,
    Delay,            \* longest time from reading the clock to the transaction
    MaxTime           \* bound of the clock

ASSUME LimiterAssumption ==
    /\ IsFiniteSet(Attempts)
    /\ window_seconds \in Nat \ {0}
    /\ max_requests \in Nat \ {0}
    /\ Delay \in Nat
    /\ MaxTime \in Nat

VARIABLES
    clock,
    pc,               \* where an attempt is, or how it ended
    now,              \* the attempt's reading of the clock
    zset,             \* members of the sorted set; a member's score is its now
    expires           \* when Redis drops the key

vars == <<clock, pc, now, zset, expires>>

Verdicts == {"admitted", "refused", "failed"}

Init ==
    /\ clock = 0
    /\ pc = [a \in Attempts |-> "idle"]
    /\ now = [a \in Attempts |-> 0]
    /\ zset = {}
    /\ expires = 0

Begin(a) ==
    /\ pc[a] = "idle"
    /\ now' = [now EXCEPT ![a] = clock]
    /\ pc' = [pc EXCEPT ![a] = "sent"]
    /\ UNCHANGED <<clock, zset, expires>>

window_start(a) == now[a] - window_seconds

\* Mutation: the purge spares the scores at the start of the window.
PurgedExclusive(a) == {b \in zset : now[b] >= window_start(a)}

(* ZREMRANGEBYSCORE removes both ends of its range. *)
Purged(a) == {b \in zset : now[b] > window_start(a)}

\* Mutation: members are the readings alone, and equal ones collapse.
RecordedByTime(a) == {b \in Purged(a) : now[b] # now[a]} \cup {a}

Recorded(a) == Purged(a) \cup {a}

\* Mutation: ZCARD comes before ZADD.
AllowedBefore(a) == Cardinality(Purged(a)) <= max_requests

allowed(a) == Cardinality(Recorded(a)) <= max_requests

(* One MULTI; the verdict is taken from its own count. *)
Transaction(a) ==
    /\ zset' = Recorded(a)
    /\ expires' = clock + 2 * window_seconds
    /\ UNCHANGED <<clock, now>>

Admit(a) ==
    /\ pc[a] = "sent"
    /\ allowed(a)
    /\ Transaction(a)
    /\ pc' = [pc EXCEPT ![a] = "admitted"]

Refuse(a) ==
    /\ pc[a] = "sent"
    /\ ~allowed(a)
    /\ Transaction(a)
    /\ pc' = [pc EXCEPT ![a] = "refused"]

(* The pool is exhausted, the connection refused, or the reply lost. *)
Fail(a) ==
    /\ pc[a] = "sent"
    /\ pc' = [pc EXCEPT ![a] = "failed"]
    /\ Transaction(a) \/ UNCHANGED <<clock, now, zset, expires>>

Expire ==
    /\ zset # {}
    /\ clock >= expires
    /\ zset' = {}
    /\ UNCHANGED <<clock, pc, now, expires>>

(* Time passes, but never leaves a transaction behind by more than Delay. *)
Tick ==
    /\ clock < MaxTime
    /\ \A a \in Attempts : pc[a] = "sent" => clock < now[a] + Delay
    /\ clock' = clock + 1
    /\ UNCHANGED <<pc, now, zset, expires>>

Next ==
    \/ \E a \in Attempts : Begin(a) \/ Admit(a) \/ Refuse(a) \/ Fail(a)
    \/ Expire
    \/ Tick

Spec == Init /\ [][Next]_vars

-----------------------------------------------------------------------------
TypeOK ==
    /\ clock \in Nat
    /\ pc \in [Attempts -> Verdicts \cup {"idle", "sent"}]
    /\ now \in [Attempts -> Nat]
    /\ zset \in SUBSET Attempts
    /\ expires \in Nat

(* The inductive invariant: Redis forgets a decided attempt only when it   *)
(* has left the window by the clock, whatever reading purged it, and no    *)
(* transaction runs later than Delay after its reading (limiter.py:30-39). *)
IInv ==
    /\ TypeOK
    /\ \A a \in Attempts : now[a] <= clock
    /\ \A a \in Attempts : pc[a] = "sent" => clock <= now[a] + Delay
    /\ \A a \in zset : pc[a] \in Verdicts /\ now[a] + 2 * window_seconds <= expires
    /\ \A a \in Attempts \ zset :
          pc[a] \in {"admitted", "refused"} => now[a] + window_seconds <= clock

\* The admitted attempts whose reading falls in the span seconds up to t.
AdmittedIn(t, span) ==
    {a \in Attempts : pc[a] = "admitted" /\ t - span < now[a] /\ now[a] <= t}

(* No more than max_requests attempts made within window_seconds - Delay   *)
(* of one another are admitted, in whatever order Redis ran them           *)
(* (limiter.py:28-41).                                                     *)
LimitedPerWindow ==
    \A t \in 0 .. clock :
        Cardinality(AdmittedIn(t, window_seconds - Delay)) <= max_requests

(* An attempt is refused only when max_requests others were made less than *)
(* window_seconds before it or since: one that waits retry_after_seconds   *)
(* alone is admitted (limiter.py:35, 55, main.py:184).                     *)
RefusedUnderLoad ==
    \A a \in Attempts :
        pc[a] = "refused" =>
            Cardinality({b \in Attempts \ {a} :
                            /\ pc[b] \in Verdicts
                            /\ now[b] > window_start(a)}) >= max_requests

(* A limiter is what Gateway takes it for (main.py:164-186). *)
Verdict == [a \in Attempts |-> IF pc[a] \in Verdicts THEN pc[a] ELSE "none"]

Abstract == INSTANCE Limiter WITH window <- zset, verdict <- Verdict

ImplementsLimiter == Abstract!Spec
=============================================================================
