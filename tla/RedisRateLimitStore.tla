------------------------ MODULE RedisRateLimitStore ------------------------
(***************************************************************************)
(* The circuit breaker inside RedisRateLimitStore: which of the calls that *)
(* are in progress go to Redis, which are served by the in-memory          *)
(* fallback, and how the breaker opens, cools down and closes.  What the   *)
(* two stores count is not modelled here: only who serves a call.          *)
(*                                                                         *)
(* A call runs without interruption up to its next await: the Redis        *)
(* command, the retry delay, or the caller's continuation.  Time is the    *)
(* rest of the cooldown, which Tick counts down: the instants themselves   *)
(* play no role.                                                           *)
(***************************************************************************)
EXTENDS Integers

CONSTANTS
    Calls,          \* the calls that can be in progress at once
    Threshold,      \* consecutive failures that open the breaker (5)
    Cooldown,       \* ticks that a cooldown lasts (one minute)
    HalfOpenMax,    \* calls let through once the cooldown is over (1)
    MaxRetries      \* attempts of one increment (2)

ASSUME BreakerAssumption ==
    /\ Threshold \in Nat \ {0}
    /\ Cooldown \in Nat \ {0}
    /\ HalfOpenMax \in Nat \ {0}
    /\ MaxRetries \in Nat \ {0}

VARIABLES
    breaker,        \* circuitBreaker; mode is "open" when isOpen is true
    fallbackUsed,   \* the flag that didFallback reads and clears
    pc,             \* pc[c]: where call c stands
    attempt,        \* attempt[c]: the attempts that failed so far
    redis           \* "up", "failing" (its answers are errors), or "away"

vars == <<breaker, fallbackUsed, pc, attempt, redis>>

NoCooldown == -1    \* cooldownUntil = null

(* failureCount is counted up to Threshold: the code only compares it. *)
TypeOK ==
    /\ breaker \in [mode : {"closed", "open"}, failureCount : 0..Threshold,
                    cooldown : NoCooldown..Cooldown,
                    halfOpenRequests : 0..HalfOpenMax]
    /\ fallbackUsed \in BOOLEAN
    /\ pc \in [Calls -> {"idle", "eval", "delay", "lookup",
                         "byRedis", "byFallback"}]
    /\ attempt \in [Calls -> 0..(MaxRetries - 1)]
    /\ redis \in {"up", "failing", "away"}

Init ==
    /\ breaker = [mode |-> "closed", failureCount |-> 0,
                  cooldown |-> NoCooldown, halfOpenRequests |-> 0]
    /\ fallbackUsed = FALSE
    /\ pc = [c \in Calls |-> "idle"]
    /\ attempt = [c \in Calls |-> 0]
    /\ redis = "up"

-----------------------------------------------------------------------------
(* shouldUseFallback: its answer, and what it does to the breaker.  The    *)
(* call that finds the cooldown over takes a half-open slot.               *)

(* Mutant: one call too many is let through. *)
ShouldUseFallback_OffByOne(b) ==
    /\ b.mode = "open"
    /\ b.cooldown # NoCooldown
    /\ b.cooldown > 0 \/ b.halfOpenRequests > HalfOpenMax

ShouldUseFallback(b) ==
    /\ b.mode = "open"
    /\ b.cooldown # NoCooldown
    /\ b.cooldown > 0 \/ b.halfOpenRequests >= HalfOpenMax

AfterCheck(b) ==
    IF b.mode = "open" /\ b.cooldown = 0 /\ b.halfOpenRequests < HalfOpenMax
    THEN [b EXCEPT !.halfOpenRequests = @ + 1]
    ELSE b

(* Mutant: a success leaves the failure count alone. *)
OnSuccess_KeepCount(b) ==
    IF b.halfOpenRequests > 0
    THEN [b EXCEPT !.mode = "closed", !.cooldown = NoCooldown,
                   !.halfOpenRequests = 0]
    ELSE b

(* updateCircuitBreaker(true) *)
OnSuccess(b) ==
    IF b.halfOpenRequests > 0
    THEN [mode |-> "closed", failureCount |-> 0, cooldown |-> NoCooldown,
          halfOpenRequests |-> 0]
    ELSE [b EXCEPT !.failureCount = 0, !.cooldown = NoCooldown]

Opens(b) == b.failureCount + 1 >= Threshold

(* updateCircuitBreaker(false) *)
OnFailure(b) ==
    IF Opens(b)
    THEN [mode |-> "open", failureCount |-> Threshold, cooldown |-> Cooldown,
          halfOpenRequests |-> 0]
    ELSE [b EXCEPT !.failureCount = @ + 1, !.halfOpenRequests = 0]

-----------------------------------------------------------------------------
(* incrementWithLimit *)

(* The entry check and the check at the head of the first attempt run in   *)
(* one go: incrementWithLimit calls incrementWithRetry without an await.   *)
(* A call turned away by the first check does not set fallbackUsed.        *)
IncrementWithLimit(c) ==
    LET first == AfterCheck(breaker) IN
    /\ pc[c] = "idle"
    /\ attempt' = [attempt EXCEPT ![c] = 0]
    /\ \/ /\ ShouldUseFallback(breaker)
          /\ pc' = [pc EXCEPT ![c] = "byFallback"]
          /\ UNCHANGED <<breaker, fallbackUsed>>
       \/ /\ ~ShouldUseFallback(breaker)
          /\ ShouldUseFallback(first)
          /\ breaker' = first
          /\ fallbackUsed' = TRUE
          /\ pc' = [pc EXCEPT ![c] = "byFallback"]
       \/ /\ ~ShouldUseFallback(breaker)
          /\ ~ShouldUseFallback(first)
          /\ breaker' = AfterCheck(first)
          /\ pc' = [pc EXCEPT ![c] = "eval"]
          /\ UNCHANGED fallbackUsed
    /\ UNCHANGED redis

(* The script's reply arrives. *)
EvalSucceeds(c) ==
    /\ redis = "up"
    /\ pc[c] = "eval"
    /\ breaker' = OnSuccess(breaker)
    /\ pc' = [pc EXCEPT ![c] = "byRedis"]
    /\ UNCHANGED <<fallbackUsed, attempt, redis>>

LastAttempt(c) == attempt[c] = MaxRetries - 1

(* Mutant: the attempts are not counted. *)
EvalFailsRetryable_NotCounted(c) ==
    /\ redis # "up"
    /\ pc[c] = "eval"
    /\ ~LastAttempt(c)
    /\ pc' = [pc EXCEPT ![c] = "delay"]
    /\ UNCHANGED <<breaker, fallbackUsed, attempt, redis>>

(* A retryable error that is not the last attempt: wait and try again. The *)
(* breaker hears nothing of it.                                            *)
EvalFailsRetryable(c) ==
    /\ redis # "up"
    /\ pc[c] = "eval"
    /\ ~LastAttempt(c)
    /\ attempt' = [attempt EXCEPT ![c] = @ + 1]
    /\ pc' = [pc EXCEPT ![c] = "delay"]
    /\ UNCHANGED <<breaker, fallbackUsed, redis>>

(* An error that is not retryable, or the last attempt's. *)
EvalFails(c) ==
    /\ redis # "up"
    /\ pc[c] = "eval"
    /\ breaker' = OnFailure(breaker)
    /\ fallbackUsed' = TRUE
    /\ pc' = [pc EXCEPT ![c] = "byFallback"]
    /\ UNCHANGED <<attempt, redis>>

(* Mutant: the breaker is consulted on entry only. *)
Retry_Unchecked(c) ==
    /\ pc[c] = "delay"
    /\ pc' = [pc EXCEPT ![c] = "eval"]
    /\ UNCHANGED <<breaker, fallbackUsed, attempt, redis>>

(* The delay is over: the next turn of the loop. *)
Retry(c) ==
    /\ pc[c] = "delay"
    /\ \/ /\ ShouldUseFallback(breaker)
          /\ fallbackUsed' = TRUE
          /\ pc' = [pc EXCEPT ![c] = "byFallback"]
          /\ UNCHANGED breaker
       \/ /\ ~ShouldUseFallback(breaker)
          /\ breaker' = AfterCheck(breaker)
          /\ pc' = [pc EXCEPT ![c] = "eval"]
          /\ UNCHANGED fallbackUsed
    /\ UNCHANGED <<attempt, redis>>

(* Mutant: only a call that Redis served clears the flag. *)
DidFallback_Keeps(c) ==
    /\ pc[c] \in {"byRedis", "byFallback"}
    /\ fallbackUsed' = (fallbackUsed /\ pc[c] = "byFallback")
    /\ pc' = [pc EXCEPT ![c] = "idle"]
    /\ UNCHANGED <<breaker, attempt, redis>>

(* The limiter, or the health check, reads the flag for the call it made,  *)
(* and the flag is cleared.                                                *)
DidFallback(c) ==
    /\ pc[c] \in {"byRedis", "byFallback"}
    /\ fallbackUsed' = FALSE
    /\ pc' = [pc EXCEPT ![c] = "idle"]
    /\ UNCHANGED <<breaker, attempt, redis>>

-----------------------------------------------------------------------------
(* Mutant: a lookup does not consult the breaker. *)
Lookup_Unchecked(c) ==
    /\ pc[c] = "idle"
    /\ pc' = [pc EXCEPT ![c] = "lookup"]
    /\ UNCHANGED <<breaker, fallbackUsed, attempt, redis>>

(* get and delete: one check, one command, and no news for the breaker     *)
(* when the command succeeds.  A lookup that the check turns away is       *)
(* served by the fallback at once and changes nothing modelled here.       *)
Lookup(c) ==
    /\ pc[c] = "idle"
    /\ ~ShouldUseFallback(breaker)
    /\ breaker' = AfterCheck(breaker)
    /\ pc' = [pc EXCEPT ![c] = "lookup"]
    /\ UNCHANGED <<fallbackUsed, attempt, redis>>

LookupSucceeds(c) ==
    /\ redis = "up"
    /\ pc[c] = "lookup"
    /\ pc' = [pc EXCEPT ![c] = "idle"]
    /\ UNCHANGED <<breaker, fallbackUsed, attempt, redis>>

LookupFails(c) ==
    /\ redis # "up"
    /\ pc[c] = "lookup"
    /\ breaker' = OnFailure(breaker)
    /\ pc' = [pc EXCEPT ![c] = "idle"]
    /\ UNCHANGED <<fallbackUsed, attempt, redis>>

-----------------------------------------------------------------------------
(* The environment: time, and a Redis that goes away and comes back.  The  *)
(* commands sent to one that is away are kept by the client, which         *)
(* reconnects for as long as it takes; those under way when the connection *)
(* is lost fail.                                                           *)
Tick ==
    /\ breaker.cooldown > 0
    /\ breaker' = [breaker EXCEPT !.cooldown = @ - 1]
    /\ UNCHANGED <<fallbackUsed, pc, attempt, redis>>

RedisChanges ==
    /\ redis' \in {"up", "failing", "away"}
    /\ UNCHANGED <<breaker, fallbackUsed, pc, attempt>>

CommandEnds(c) ==
    \/ EvalSucceeds(c)
    \/ EvalFailsRetryable(c)
    \/ EvalFails(c)
    \/ LookupSucceeds(c)
    \/ LookupFails(c)

CallStep(c) == CommandEnds(c) \/ Retry(c) \/ DidFallback(c)

Next ==
    \/ \E c \in Calls :
        \/ IncrementWithLimit(c)
        \/ Lookup(c)
        \/ CallStep(c)
    \/ Tick
    \/ RedisChanges

Spec == Init /\ [][Next]_vars

(* Timers fire and handlers run on; a command ends unless Redis is away:   *)
(* the client has no time limit for one.                                   *)
Fairness ==
    \A c \in Calls :
        /\ WF_vars(Retry(c) \/ DidFallback(c))
        /\ WF_vars(redis # "away" /\ CommandEnds(c))

FairSpec == Spec /\ Fairness

-----------------------------------------------------------------------------
(* The fields of the breaker stay in step however calls that started under *)
(* different conditions end: a cooldown runs only in an open breaker with  *)
(* a full count of failures, and a half-open slot is taken only when the   *)
(* cooldown is over.                                                       *)
BreakerConsistent ==
    /\ breaker.cooldown # NoCooldown =>
            breaker.mode = "open" /\ breaker.failureCount = Threshold
    /\ breaker.failureCount = Threshold => breaker.cooldown # NoCooldown
    /\ breaker.halfOpenRequests > 0 => breaker.cooldown = 0

(* No call, new or retrying, sends a command while a cooldown runs. *)
CoolingKeepsOut ==
    [][\A c \in Calls :
        /\ pc[c] \notin {"eval", "lookup"}
        /\ pc'[c] \in {"eval", "lookup"}
        => ~(breaker.mode = "open" /\ breaker.cooldown > 0)]_vars

(* A new increment never is the call that tests whether Redis is back: the *)
(* entry check takes the only half-open slot and the check that follows    *)
(* finds it taken.                                                         *)
IncrementNeverProbes ==
    [][\A c \in Calls :
        /\ pc[c] = "idle"
        /\ pc'[c] = "eval"
        => breaker.mode = "closed" \/ breaker.cooldown = NoCooldown]_vars

(* A slot that no command holds is not given back: neither the increment   *)
(* that the second check turned away nor a lookup that succeeded ever      *)
(* does.  From then on every call is served by the fallback, whatever      *)
(* becomes of Redis: no call, new or retrying, gets through.               *)
SlotLost ==
    /\ breaker.mode = "open"
    /\ breaker.cooldown = 0
    /\ breaker.halfOpenRequests >= HalfOpenMax
    /\ \A c \in Calls : pc[c] \notin {"eval", "lookup"}

LostSlotStaysLost == [][SlotLost => SlotLost']_vars

(* Once Redis is not away any more, every increment ends, those that hung  *)
(* while it was among them: the retries are bounded, be all the answers    *)
(* errors.  No increment is promised an end as long as Redis is away.      *)
CallsEnd ==
    <>[](redis # "away") =>
        \A c \in Calls : pc[c] \in {"eval", "delay"} ~>
                            pc[c] \in {"byRedis", "byFallback"}

(* The flag never outlives the calls that the fallback served: when all of *)
(* them have been answered it is cleared, so a call that Redis serves      *)
(* later is not reported as a fallback on their account.                   *)
NoStaleReport == fallbackUsed => \E c \in Calls : pc[c] = "byFallback"
=============================================================================
