--------------------- MODULE RedisRateLimitStoreProofs ---------------------
(***************************************************************************)
(* Proofs about the breaker of RedisRateLimitStore, for any number of      *)
(* calls in progress and any setting of the breaker.                       *)
(***************************************************************************)
EXTENDS RedisRateLimitStore, TLAPS

BreakerInv == TypeOK /\ BreakerConsistent

-----------------------------------------------------------------------------
(* What the three operators on the breaker keep true of a breaker.         *)

Breakers == [mode : {"closed", "open"}, failureCount : 0..Threshold,
             cooldown : NoCooldown..Cooldown,
             halfOpenRequests : 0..HalfOpenMax]

Consistent(b) ==
    /\ b.cooldown # NoCooldown => b.mode = "open" /\ b.failureCount = Threshold
    /\ b.failureCount = Threshold => b.cooldown # NoCooldown
    /\ b.halfOpenRequests > 0 => b.cooldown = 0

(* The half-open slot that a check takes is within the bound. *)
LEMMA CheckKeeps ==
    ASSUME NEW b \in Breakers, Consistent(b)
    PROVE  AfterCheck(b) \in Breakers /\ Consistent(AfterCheck(b))
BY BreakerAssumption DEF Breakers, Consistent, AfterCheck, NoCooldown

(* A success closes a half-open breaker and clears the count otherwise. *)
LEMMA SuccessKeeps ==
    ASSUME NEW b \in Breakers, Consistent(b)
    PROVE  OnSuccess(b) \in Breakers /\ Consistent(OnSuccess(b))
<1> USE BreakerAssumption DEF Breakers, Consistent, NoCooldown
<1>1. CASE b.halfOpenRequests > 0
  <2>1. OnSuccess(b) = [mode |-> "closed", failureCount |-> 0,
                        cooldown |-> NoCooldown, halfOpenRequests |-> 0]
    BY <1>1 DEF OnSuccess
  <2> QED
    BY <2>1
<1>2. CASE ~(b.halfOpenRequests > 0)
  <2>1. OnSuccess(b) = [mode |-> b.mode, failureCount |-> 0,
                        cooldown |-> NoCooldown,
                        halfOpenRequests |-> b.halfOpenRequests]
    BY <1>2 DEF OnSuccess
  <2> QED
    BY <1>2, <2>1
<1> QED
  BY <1>1, <1>2

(* The failure that fills the count opens the breaker and starts the       *)
(* cooldown, and gives the half-open slots back.                           *)
LEMMA FailureKeeps ==
    ASSUME NEW b \in Breakers, Consistent(b)
    PROVE  OnFailure(b) \in Breakers /\ Consistent(OnFailure(b))
<1> USE BreakerAssumption DEF Breakers, Consistent, NoCooldown
<1>1. CASE Opens(b)
  <2>1. OnFailure(b) = [mode |-> "open", failureCount |-> Threshold,
                        cooldown |-> Cooldown, halfOpenRequests |-> 0]
    BY <1>1 DEF OnFailure
  <2> QED
    BY <2>1
<1>2. CASE ~Opens(b)
  <2>1. OnFailure(b) = [mode |-> b.mode, failureCount |-> b.failureCount + 1,
                        cooldown |-> b.cooldown, halfOpenRequests |-> 0]
    BY <1>2 DEF OnFailure
  <2>2. b.failureCount + 1 < Threshold
    BY <1>2 DEF Opens
  <2> QED
    BY <2>1, <2>2
<1> QED
  BY <1>1, <1>2

-----------------------------------------------------------------------------
(* Every step does one of four things to the breaker. *)
LEMMA BreakerSteps ==
    ASSUME BreakerInv, [Next]_vars
    PROVE  /\ breaker' \in Breakers
           /\ Consistent(breaker')
<1>1. breaker \in Breakers /\ Consistent(breaker)
  BY DEF BreakerInv, TypeOK, BreakerConsistent, Breakers, Consistent
<1>2. ASSUME NEW c \in Calls, IncrementWithLimit(c)
      PROVE  breaker' \in Breakers /\ Consistent(breaker')
  <2>1. \/ breaker' = breaker
        \/ breaker' = AfterCheck(breaker)
        \/ breaker' = AfterCheck(AfterCheck(breaker))
    BY <1>2 DEF IncrementWithLimit
  <2> QED
    BY <1>1, <2>1, CheckKeeps
<1>3. ASSUME NEW c \in Calls, Lookup(c) \/ CallStep(c)
      PROVE  breaker' \in Breakers /\ Consistent(breaker')
  <2>1. \/ breaker' = breaker
        \/ breaker' = AfterCheck(breaker)
        \/ breaker' = OnSuccess(breaker)
        \/ breaker' = OnFailure(breaker)
    BY <1>3 DEF Lookup, CallStep, CommandEnds, EvalSucceeds, EvalFailsRetryable, EvalFails,
                Retry, LookupSucceeds, LookupFails, DidFallback
  <2> QED
    BY <1>1, <2>1, CheckKeeps, SuccessKeeps, FailureKeeps
<1>4. CASE Tick
  BY <1>1, <1>4, BreakerAssumption DEF Tick, Breakers, Consistent, NoCooldown
<1>5. CASE RedisChanges \/ UNCHANGED vars
  BY <1>1, <1>5 DEF RedisChanges, vars
<1> QED
  BY <1>2, <1>3, <1>4, <1>5 DEF Next

(* The variables other than the breaker keep to their types. *)
OtherTypeOK ==
    /\ fallbackUsed \in BOOLEAN
    /\ pc \in [Calls -> {"idle", "eval", "delay", "lookup",
                         "byRedis", "byFallback"}]
    /\ attempt \in [Calls -> 0..(MaxRetries - 1)]
    /\ redis \in {"up", "failing", "away"}

LEMMA OtherTypes ==
    ASSUME OtherTypeOK, [Next]_vars
    PROVE  OtherTypeOK'
<1> USE BreakerAssumption DEF OtherTypeOK
<1>1. ASSUME NEW c \in Calls, IncrementWithLimit(c) PROVE OtherTypeOK'
  <2>1. fallbackUsed' \in BOOLEAN
    BY <1>1, Zenon DEF IncrementWithLimit
  <2> QED
    BY <1>1, <2>1 DEF IncrementWithLimit
<1>2. ASSUME NEW c \in Calls, Lookup(c) PROVE OtherTypeOK'
  BY <1>2 DEF Lookup
<1>3. ASSUME NEW c \in Calls, EvalFailsRetryable(c) PROVE OtherTypeOK'
  BY <1>3 DEF EvalFailsRetryable, LastAttempt
<1>4. ASSUME NEW c \in Calls, EvalSucceeds(c) \/ EvalFails(c) \/ Retry(c)
      PROVE OtherTypeOK'
  BY <1>4 DEF EvalSucceeds, EvalFails, Retry
<1>5. ASSUME NEW c \in Calls,
             LookupSucceeds(c) \/ LookupFails(c) \/ DidFallback(c)
      PROVE OtherTypeOK'
  BY <1>5 DEF LookupSucceeds, LookupFails, DidFallback
<1>6. CASE Tick \/ UNCHANGED vars
  BY <1>6 DEF Tick, vars
<1>7. CASE RedisChanges
  <2>1. redis' \in {"up", "failing", "away"}
    BY <1>7, Zenon DEF RedisChanges
  <2> QED
    BY <1>7, <2>1 DEF RedisChanges
<1> QED
  BY <1>1, <1>2, <1>3, <1>4, <1>5, <1>6, <1>7 DEF Next, CallStep, CommandEnds

(* The fields of the breaker stay in step, whichever calls end when. *)
THEOREM BreakerConsistentHolds == Spec => [](TypeOK /\ BreakerConsistent)
<1>1. Init => BreakerInv
  <2> SUFFICES ASSUME Init PROVE BreakerInv
    OBVIOUS
  <2>1. TypeOK
    <3>1. breaker \in Breakers
      BY BreakerAssumption DEF Init, Breakers, NoCooldown
    <3>2. fallbackUsed \in BOOLEAN /\ redis \in {"up", "failing", "away"}
      BY Zenon DEF Init
    <3> QED
      BY <3>1, <3>2, BreakerAssumption DEF Init, TypeOK, Breakers
  <2>2. BreakerConsistent
    BY BreakerAssumption DEF Init, BreakerConsistent, NoCooldown
  <2> QED
    BY <2>1, <2>2 DEF BreakerInv
<1>2. BreakerInv /\ [Next]_vars => BreakerInv'
  <2> SUFFICES ASSUME BreakerInv, [Next]_vars PROVE BreakerInv'
    OBVIOUS
  <2>1. TypeOK'
    BY BreakerSteps, OtherTypes DEF BreakerInv, TypeOK, OtherTypeOK, Breakers
  <2>2. BreakerConsistent'
    BY BreakerSteps DEF BreakerConsistent, Consistent
  <2> QED
    BY <2>1, <2>2 DEF BreakerInv
<1>3. BreakerInv => TypeOK /\ BreakerConsistent
  BY DEF BreakerInv
<1> QED
  BY <1>1, <1>2, <1>3, PTL DEF Spec

-----------------------------------------------------------------------------
(* The calls that a step sends to Redis passed a check just before. *)
LEMMA SendersAreChecked ==
    ASSUME TypeOK, Next, NEW c \in Calls,
           pc[c] \notin {"eval", "lookup"},
           pc'[c] \in {"eval", "lookup"}
    PROVE  /\ ~ShouldUseFallback(breaker)
           /\ pc[c] = "idle" /\ pc'[c] = "eval" =>
                    ~ShouldUseFallback(AfterCheck(breaker))
<1> USE DEF TypeOK
<1>1. ASSUME NEW d \in Calls, IncrementWithLimit(d)
      PROVE  /\ ~ShouldUseFallback(breaker)
             /\ ~ShouldUseFallback(AfterCheck(breaker))
  BY <1>1 DEF IncrementWithLimit
<1>2. ASSUME NEW d \in Calls, Lookup(d) \/ CallStep(d)
      PROVE  /\ ~ShouldUseFallback(breaker)
             /\ ~(pc[c] = "idle" /\ pc'[c] = "eval")
  BY <1>2 DEF Lookup, CallStep, CommandEnds, EvalSucceeds, EvalFailsRetryable, EvalFails,
              Retry, LookupSucceeds, LookupFails, DidFallback
<1>3. ~(Tick \/ RedisChanges)
  BY DEF Tick, RedisChanges
<1> QED
  BY <1>1, <1>2, <1>3 DEF Next

(* While a cooldown runs, no command leaves for Redis. *)
THEOREM CoolingKeepsOutHolds == Spec => CoolingKeepsOut
<1>1. TypeOK /\ [Next]_vars =>
        [\A c \in Calls :
            /\ pc[c] \notin {"eval", "lookup"}
            /\ pc'[c] \in {"eval", "lookup"}
            => ~(breaker.mode = "open" /\ breaker.cooldown > 0)]_vars
  <2> SUFFICES ASSUME TypeOK, Next, NEW c \in Calls,
                      pc[c] \notin {"eval", "lookup"},
                      pc'[c] \in {"eval", "lookup"}
               PROVE  ~(breaker.mode = "open" /\ breaker.cooldown > 0)
    OBVIOUS
  <2> QED
    BY SendersAreChecked DEF ShouldUseFallback, NoCooldown, TypeOK
<1> QED
  BY <1>1, BreakerConsistentHolds, PTL DEF Spec, CoolingKeepsOut

(* With one half-open slot, the code's setting, no new increment ever      *)
(* reaches Redis through a breaker that has a cooldown behind it.          *)
THEOREM IncrementNeverProbesHolds ==
    ASSUME HalfOpenMax = 1
    PROVE  Spec => IncrementNeverProbes
<1>1. TypeOK /\ [Next]_vars =>
        [\A c \in Calls :
            /\ pc[c] = "idle"
            /\ pc'[c] = "eval"
            => breaker.mode = "closed" \/ breaker.cooldown = NoCooldown]_vars
  <2> SUFFICES ASSUME TypeOK, Next, NEW c \in Calls,
                      pc[c] = "idle", pc'[c] = "eval"
               PROVE  breaker.mode = "closed" \/ breaker.cooldown = NoCooldown
    OBVIOUS
  <2>1. /\ ~ShouldUseFallback(breaker)
        /\ ~ShouldUseFallback(AfterCheck(breaker))
    BY SendersAreChecked
  <2> QED
    BY <2>1, BreakerAssumption
       DEF ShouldUseFallback, AfterCheck, NoCooldown, TypeOK
<1> QED
  BY <1>1, BreakerConsistentHolds, PTL DEF Spec, IncrementNeverProbes

(* A slot that no command holds is lost for good, whatever the number of   *)
(* slots: nothing but the end of a command changes the breaker any more,   *)
(* and no command is sent.                                                 *)
THEOREM LostSlotStaysLostHolds == Spec => LostSlotStaysLost
<1>1. TypeOK /\ [Next]_vars => [SlotLost => SlotLost']_vars
  <2> SUFFICES ASSUME TypeOK, Next, SlotLost PROVE SlotLost'
    OBVIOUS
  <2>1. ShouldUseFallback(breaker)
    BY BreakerAssumption DEF SlotLost, ShouldUseFallback, NoCooldown
  <2>2. \A c \in Calls : pc'[c] \notin {"eval", "lookup"}
    BY <2>1, SendersAreChecked DEF SlotLost
  <2>3. breaker' = breaker
    <3>1. ASSUME NEW c \in Calls, IncrementWithLimit(c) \/ Lookup(c) \/ Retry(c)
          PROVE  breaker' = breaker
      BY <2>1, <3>1 DEF IncrementWithLimit, Lookup, Retry
    <3>2. ASSUME NEW c \in Calls, CommandEnds(c) PROVE FALSE
      BY <3>2 DEF SlotLost, CommandEnds, EvalSucceeds, EvalFailsRetryable,
                  EvalFails, LookupSucceeds, LookupFails
    <3>3. ASSUME NEW c \in Calls, DidFallback(c) PROVE breaker' = breaker
      BY <3>3 DEF DidFallback
    <3>4. ~Tick
      BY DEF Tick, SlotLost
    <3> QED
      BY <3>1, <3>2, <3>3, <3>4 DEF Next, CallStep, RedisChanges
  <2> QED
    BY <2>2, <2>3 DEF SlotLost
<1> QED
  BY <1>1, BreakerConsistentHolds, PTL DEF Spec, LostSlotStaysLost

-----------------------------------------------------------------------------
(* Whoever sets the flag is a call on its way back from the fallback, and  *)
(* the first such call to be answered clears it.                           *)
LEMMA ReportStep ==
    ASSUME TypeOK, NoStaleReport, [Next]_vars
    PROVE  NoStaleReport'
<1> USE DEF TypeOK, NoStaleReport
<1>1. ASSUME NEW c \in Calls, IncrementWithLimit(c) PROVE NoStaleReport'
  <2>1. CASE pc' = [pc EXCEPT ![c] = "byFallback"]
    BY <2>1
  <2>2. CASE pc' = [pc EXCEPT ![c] = "eval"] /\ UNCHANGED fallbackUsed
    BY <1>1, <2>2 DEF IncrementWithLimit
  <2> QED
    BY <1>1, <2>1, <2>2, Zenon DEF IncrementWithLimit
<1>2. ASSUME NEW c \in Calls, Retry(c) PROVE NoStaleReport'
  <2>1. CASE pc' = [pc EXCEPT ![c] = "byFallback"]
    BY <2>1
  <2>2. CASE pc' = [pc EXCEPT ![c] = "eval"] /\ UNCHANGED fallbackUsed
    BY <1>2, <2>2 DEF Retry
  <2> QED
    BY <1>2, <2>1, <2>2, Zenon DEF Retry
<1>3. ASSUME NEW c \in Calls, EvalFails(c) PROVE NoStaleReport'
  BY <1>3 DEF EvalFails
<1>4. ASSUME NEW c \in Calls, DidFallback(c) PROVE NoStaleReport'
  BY <1>4 DEF DidFallback
<1>5. ASSUME NEW c \in Calls,
             \/ EvalSucceeds(c) \/ EvalFailsRetryable(c)
             \/ Lookup(c) \/ LookupSucceeds(c) \/ LookupFails(c)
      PROVE  NoStaleReport'
  BY <1>5 DEF EvalSucceeds, EvalFailsRetryable, Lookup, LookupSucceeds,
              LookupFails
<1>6. CASE Tick \/ RedisChanges \/ UNCHANGED vars
  BY <1>6 DEF Tick, RedisChanges, vars
<1> QED
  BY <1>1, <1>2, <1>3, <1>4, <1>5, <1>6 DEF Next, CallStep, CommandEnds

(* The flag never outlives the calls that the fallback served. *)
THEOREM NoStaleReportHolds == Spec => []NoStaleReport
<1>1. Init => NoStaleReport
  BY DEF Init, NoStaleReport
<1>2. TypeOK /\ NoStaleReport /\ [Next]_vars => NoStaleReport'
  BY ReportStep
<1> QED
  BY <1>1, <1>2, BreakerConsistentHolds, PTL DEF Spec
=============================================================================
