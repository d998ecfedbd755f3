---------------------- MODULE RateLimitCountersProofs ----------------------
(***************************************************************************)
(* Proofs that both stores of the rate limiter keep a window limit, for    *)
(* any limit, window, number of calls and bound on the delay of commands.  *)
(***************************************************************************)
EXTENDS RateLimitCounters, TLAPS

(* What the hash says of the window it counts: as long as Redis keeps the  *)
(* key, count is what was granted, the time to live is what remains of the *)
(* window as Redis sees it, and resetTime is earlier at most by the delay  *)
(* of the command that opened the window.                                  *)
RedisTellsWindow ==
    /\ redis.ttl > 0 =>
        /\ redisWindow.granted = redis.count
        /\ redisWindow.openFor = TimeWindow - redis.ttl
        /\ redis.resetIn >= redis.ttl - MaxDelay
    /\ redis.ttl = 0 => redisWindow.openFor >= TimeWindow

MemoryTellsWindow ==
    /\ memory.resetIn >= 0 =>
        /\ memoryWindow.granted = memory.count
        /\ memoryWindow.openFor = TimeWindow - memory.resetIn
    /\ memory.resetIn < 0 => memoryWindow.openFor = TimeWindow + 1

CountersInv == TypeOK /\ RedisTellsWindow /\ MemoryTellsWindow

-----------------------------------------------------------------------------
(* A run of the script: the hash it leaves tells of the window it leaves,  *)
(* and the window makes a step of the limit.                               *)
LEMMA ScriptStep ==
    ASSUME CountersInv, NEW c \in Calls,
           redis' = ScriptHash(age[c]),
           redisWindow' = Follow(redisWindow, ScriptOpens(age[c]),
                                 ScriptAllows(age[c]))
    PROVE  /\ redis' \in [count : 0..MaxRequests,
                          resetIn : LongGone..TimeWindow, ttl : 0..TimeWindow]
           /\ redisWindow' \in Windows
           /\ RedisTellsWindow'
           /\ RedisLimit!LimitNext \/ UNCHANGED redisWindow
<1> DEFINE now == age[c]
<1>1. /\ now \in 0..MaxDelay
      /\ redis.count \in 0..MaxRequests
      /\ redis.resetIn \in LongGone..TimeWindow
      /\ redis.ttl \in 0..TimeWindow
      /\ redisWindow \in Windows
      /\ redisWindow.granted \in 0..MaxRequests
      /\ redisWindow.openFor \in 0..(TimeWindow + 1)
      /\ MaxRequests \in Nat \ {0}
      /\ TimeWindow \in Nat \ {0}
      /\ MaxDelay \in Nat \ {0}
  BY CountersAssumption DEF CountersInv, TypeOK, Windows
<1>2. CASE ScriptOpens(now)
  <2>1. redis' = [count |-> 1, resetIn |-> TimeWindow - now,
                  ttl |-> TimeWindow]
    BY <1>1, <1>2 DEF ScriptHash, ScriptCount
  <2>2. redisWindow' = [granted |-> 1, openFor |-> 0]
    BY <1>1, <1>2 DEF Follow, ScriptAllows
  <2>3. redisWindow.openFor >= TimeWindow - MaxDelay + 1
    <3>1. CASE redis.ttl = 0
      BY <3>1, <1>1 DEF CountersInv, RedisTellsWindow
    <3>2. CASE redis.ttl > 0 /\ redis.resetIn + now < 0
      BY <3>2, <1>1 DEF CountersInv, RedisTellsWindow
    <3>3. QED
      BY <3>1, <3>2, <1>1, <1>2 DEF ScriptOpens
  <2>4. RedisLimit!OpenAndGrant
    BY <2>2, <2>3 DEF RedisLimit!OpenAndGrant
  <2>5. QED
    BY <1>1, <2>1, <2>2, <2>4
    DEF RedisLimit!LimitNext, RedisTellsWindow, LongGone, Windows
<1>3. CASE ~ScriptOpens(now)
  <2>1. /\ redis.ttl > 0
        /\ redisWindow.granted = redis.count
    BY <1>1, <1>3 DEF ScriptOpens, CountersInv, RedisTellsWindow
  <2>2. CASE redis.count < MaxRequests
    <3>1. redis' = [count |-> redis.count + 1, resetIn |-> redis.resetIn,
                    ttl |-> redis.ttl]
      BY <1>3, <2>2 DEF ScriptHash, ScriptCount
    <3>2. redisWindow' = [granted |-> redisWindow.granted + 1,
                          openFor |-> redisWindow.openFor]
      BY <1>1, <1>3, <2>2 DEF Follow, ScriptAllows
    <3>3. RedisLimit!Grant
      BY <2>1, <2>2, <3>2 DEF RedisLimit!Grant
    <3>4. QED
      BY <1>1, <2>1, <2>2, <3>1, <3>2, <3>3
      DEF RedisLimit!LimitNext, CountersInv, RedisTellsWindow, Windows
  <2>3. CASE ~(redis.count < MaxRequests)
    <3>1. redis' = [count |-> redis.count, resetIn |-> redis.resetIn,
                    ttl |-> redis.ttl]
      BY <1>3, <2>3 DEF ScriptHash, ScriptCount
    <3>2. redisWindow' = [granted |-> redisWindow.granted,
                          openFor |-> redisWindow.openFor]
      BY <1>1, <1>3, <2>3 DEF Follow, ScriptAllows
    <3>3. redisWindow' = redisWindow
      BY <1>1, <3>2 DEF Windows
    <3>4. QED
      BY <1>1, <2>1, <3>1, <3>3 DEF CountersInv, RedisTellsWindow
  <2>4. QED
    BY <2>2, <2>3
<1>4. QED
  BY <1>2, <1>3

(* A call served by the in-memory store. *)
LEMMA FallbackStep ==
    ASSUME CountersInv, NEW c \in Calls, Fallback(c)
    PROVE  /\ memory' \in [count : 0..MaxRequests,
                           resetIn : Expired..TimeWindow]
           /\ memoryWindow' \in Windows
           /\ MemoryTellsWindow'
           /\ MemoryLimit!LimitNext \/ UNCHANGED memoryWindow
<1> DEFINE opens == memory.resetIn = Expired
<1>1. /\ memory.count \in 0..MaxRequests
      /\ memory.resetIn \in Expired..TimeWindow
      /\ memoryWindow \in Windows
      /\ memoryWindow.granted \in 0..MaxRequests
      /\ memoryWindow.openFor \in 0..(TimeWindow + 1)
      /\ MaxRequests \in Nat \ {0}
      /\ TimeWindow \in Nat \ {0}
  BY CountersAssumption DEF CountersInv, TypeOK, Windows
<1>2. /\ memory' = [count |-> MemoryCount + (IF MemoryAllows THEN 1 ELSE 0),
                    resetIn |-> IF opens THEN TimeWindow ELSE memory.resetIn]
      /\ memoryWindow' = Follow(memoryWindow, opens, MemoryAllows)
  BY DEF Fallback
<1>3. CASE opens
  <2>1. MemoryCount = 0 /\ MemoryAllows
    BY <1>1, <1>3 DEF MemoryCount, MemoryAllows, Expired
  <2>2. memory' = [count |-> 1, resetIn |-> TimeWindow]
    BY <1>2, <1>3, <2>1
  <2>3. memoryWindow' = [granted |-> 1, openFor |-> 0]
    BY <1>1, <1>2, <1>3, <2>1 DEF Follow
  <2>4. memoryWindow.openFor = TimeWindow + 1
    BY <1>1, <1>3 DEF CountersInv, MemoryTellsWindow, Expired
  <2>5. MemoryLimit!OpenAndGrant
    BY <1>1, <2>3, <2>4 DEF MemoryLimit!OpenAndGrant
  <2>6. QED
    BY <1>1, <2>2, <2>3, <2>5
    DEF MemoryLimit!LimitNext, MemoryTellsWindow, Windows, Expired
<1>4. CASE ~opens
  <2>1. /\ memory.resetIn >= 0
        /\ MemoryCount = memory.count
        /\ memoryWindow.granted = memory.count
    BY <1>1, <1>4 DEF MemoryCount, CountersInv, MemoryTellsWindow, Expired
  <2>2. CASE MemoryAllows
    <3>1. memory' = [count |-> memory.count + 1, resetIn |-> memory.resetIn]
      BY <1>2, <1>4, <2>1, <2>2
    <3>2. memoryWindow' = [granted |-> memoryWindow.granted + 1,
                           openFor |-> memoryWindow.openFor]
      BY <1>1, <1>2, <1>4, <2>2 DEF Follow
    <3>3. memory.count < MaxRequests
      BY <2>1, <2>2 DEF MemoryAllows
    <3>4. MemoryLimit!Grant
      BY <2>1, <3>2, <3>3 DEF MemoryLimit!Grant
    <3>5. QED
      BY <1>1, <2>1, <3>1, <3>2, <3>3, <3>4
      DEF MemoryLimit!LimitNext, CountersInv, MemoryTellsWindow, Windows
  <2>3. CASE ~MemoryAllows
    <3>1. memory' = [count |-> memory.count, resetIn |-> memory.resetIn]
      BY <1>1, <1>2, <1>4, <2>1, <2>3
    <3>2. memoryWindow' = [granted |-> memoryWindow.granted,
                           openFor |-> memoryWindow.openFor]
      BY <1>1, <1>2, <1>4, <2>3 DEF Follow
    <3>3. memoryWindow' = memoryWindow
      BY <1>1, <3>2 DEF Windows
    <3>4. QED
      BY <1>1, <2>1, <3>1, <3>3 DEF CountersInv, MemoryTellsWindow
  <2>4. QED
    BY <2>2, <2>3
<1>5. QED
  BY <1>3, <1>4

(* A tick: a window grows older in step with the store's view of it. *)
LEMMA TickStep ==
    ASSUME CountersInv, Tick
    PROVE  /\ redis' \in [count : 0..MaxRequests,
                          resetIn : LongGone..TimeWindow, ttl : 0..TimeWindow]
           /\ memory' \in [count : 0..MaxRequests,
                           resetIn : Expired..TimeWindow]
           /\ redisWindow' \in Windows
           /\ memoryWindow' \in Windows
           /\ RedisTellsWindow'
           /\ MemoryTellsWindow'
           /\ RedisLimit!LimitNext \/ UNCHANGED redisWindow
           /\ MemoryLimit!LimitNext \/ UNCHANGED memoryWindow
<1>1. /\ redis \in [count : 0..MaxRequests, resetIn : LongGone..TimeWindow,
                    ttl : 0..TimeWindow]
      /\ memory \in [count : 0..MaxRequests, resetIn : Expired..TimeWindow]
      /\ redisWindow \in Windows
      /\ memoryWindow \in Windows
      /\ MaxRequests \in Nat \ {0}
      /\ TimeWindow \in Nat \ {0}
      /\ MaxDelay \in Nat \ {0}
  BY CountersAssumption DEF CountersInv, TypeOK
<1>2. ASSUME NEW w \in Windows
      PROVE  /\ Older(w) \in Windows
             /\ Older(w).granted = w.granted
             /\ w.openFor <= TimeWindow => Older(w).openFor = w.openFor + 1
             /\ w.openFor > TimeWindow => Older(w) = w
  BY <1>1 DEF Older, Windows
<1>3. redisWindow' = Older(redisWindow) /\ memoryWindow' = Older(memoryWindow)
  BY DEF Tick
<1>4. redisWindow' \in Windows /\ memoryWindow' \in Windows
  BY <1>1, <1>2, <1>3
<1>5. RedisLimit!LimitNext \/ UNCHANGED redisWindow
  BY <1>1, <1>2, <1>3
  DEF RedisLimit!LimitNext, RedisLimit!TimePasses, Windows
<1>6. MemoryLimit!LimitNext \/ UNCHANGED memoryWindow
  BY <1>1, <1>2, <1>3
  DEF MemoryLimit!LimitNext, MemoryLimit!TimePasses, Windows
<1>7. /\ redis' \in [count : 0..MaxRequests, resetIn : LongGone..TimeWindow,
                     ttl : 0..TimeWindow]
      /\ RedisTellsWindow'
  <2>1. CASE redis.ttl <= 1
    <3>1. redis' = NoKey
      BY <2>1 DEF Tick
    <3>2. redisWindow.openFor >= TimeWindow - 1
      BY <1>1, <2>1 DEF CountersInv, RedisTellsWindow, Windows
    <3>3. redisWindow'.openFor >= TimeWindow
      BY <1>1, <1>2, <1>3, <3>2 DEF Windows
    <3>4. QED
      BY <1>1, <3>1, <3>3 DEF RedisTellsWindow, NoKey, LongGone
  <2>2. CASE ~(redis.ttl <= 1)
    <3>1. redis' = [count |-> redis.count, resetIn |-> redis.resetIn - 1,
                    ttl |-> redis.ttl - 1]
      BY <2>2 DEF Tick
    <3>2. /\ redisWindow.granted = redis.count
          /\ redisWindow.openFor = TimeWindow - redis.ttl
          /\ redis.resetIn >= redis.ttl - MaxDelay
      BY <1>1, <2>2 DEF CountersInv, RedisTellsWindow
    <3>3. /\ redisWindow'.granted = redis.count
          /\ redisWindow'.openFor = TimeWindow - (redis.ttl - 1)
      BY <1>1, <1>2, <1>3, <2>2, <3>2
    <3>4. QED
      BY <1>1, <2>2, <3>1, <3>2, <3>3 DEF RedisTellsWindow, LongGone
  <2>3. QED
    BY <2>1, <2>2
<1>8. /\ memory' \in [count : 0..MaxRequests, resetIn : Expired..TimeWindow]
      /\ MemoryTellsWindow'
  <2>1. memory' = [count |-> memory.count,
                   resetIn |-> IF memory.resetIn = Expired THEN Expired
                               ELSE memory.resetIn - 1]
    BY DEF Tick
  <2>2. CASE memory.resetIn = Expired
    BY <1>1, <1>2, <1>3, <2>1, <2>2
    DEF CountersInv, MemoryTellsWindow, Expired
  <2>3. CASE memory.resetIn # Expired
    BY <1>1, <1>2, <1>3, <2>1, <2>3
    DEF CountersInv, MemoryTellsWindow, Expired
  <2>4. QED
    BY <2>2, <2>3
<1>9. QED
  BY <1>4, <1>5, <1>6, <1>7, <1>8

-----------------------------------------------------------------------------
(* The types of what only the calls' own steps change. *)
CallsOK ==
    /\ pc \in [Calls -> {"idle", "sent", "failed", "allowed", "refused"}]
    /\ age \in [Calls -> 0..MaxDelay]
    /\ attempt \in [Calls -> 0..(MaxRetries - 1)]

LEMMA CallsStep ==
    ASSUME CallsOK, [Next]_vars
    PROVE  CallsOK'
<1> USE CountersAssumption
<1>1. ASSUME NEW c \in Calls, Send(c)
      PROVE  CallsOK'
  BY <1>1 DEF CallsOK, Send
<1>2. ASSUME NEW c \in Calls, EvalScript(c)
      PROVE  CallsOK'
  <2>1. Verdict(ScriptAllows(age[c])) \in {"allowed", "refused"}
    BY DEF Verdict
  <2>2. QED
    BY <1>2, <2>1 DEF CallsOK, EvalScript
<1>3. ASSUME NEW c \in Calls, EvalFails(c)
      PROVE  CallsOK'
  BY <1>3 DEF CallsOK, EvalFails
<1>4. ASSUME NEW c \in Calls, Fallback(c)
      PROVE  CallsOK'
  <2>1. Verdict(MemoryAllows) \in {"allowed", "refused"}
    BY DEF Verdict
  <2>2. QED
    BY <1>4, <2>1 DEF CallsOK, Fallback
<1>5. ASSUME NEW c \in Calls, Answer(c)
      PROVE  CallsOK'
  BY <1>5 DEF CallsOK, Answer
<1>6. CASE Cleanup
  BY <1>6 DEF CallsOK, Cleanup
<1>7. CASE Tick
  BY <1>7 DEF CallsOK, Tick
<1>8. CASE UNCHANGED vars
  BY <1>8 DEF CallsOK, vars
<1>9. QED
  BY <1>1, <1>2, <1>3, <1>4, <1>5, <1>6, <1>7, <1>8 DEF Next

(* The steps that leave both stores and their windows alone. *)
LEMMA StoresUntouched ==
    ASSUME CountersInv, UNCHANGED <<redis, memory, history>>
    PROVE  /\ RedisTellsWindow'
           /\ MemoryTellsWindow'
           /\ UNCHANGED <<redisWindow, memoryWindow>>
BY DEF CountersInv, RedisTellsWindow, MemoryTellsWindow, history

(* Every step keeps the invariant and makes a step of each limit. *)
LEMMA CountersStep ==
    ASSUME CountersInv, [Next]_vars
    PROVE  /\ CountersInv'
           /\ RedisLimit!LimitNext \/ UNCHANGED redisWindow
           /\ MemoryLimit!LimitNext \/ UNCHANGED memoryWindow
<1> USE CountersAssumption
<1>1. CallsOK'
  BY CallsStep DEF CountersInv, TypeOK, CallsOK
<1>2. ASSUME UNCHANGED <<redis, memory, history>>
      PROVE  /\ CountersInv'
             /\ UNCHANGED <<redisWindow, memoryWindow>>
  BY <1>1, <1>2, StoresUntouched
  DEF CountersInv, TypeOK, CallsOK, history, Windows
<1>3. ASSUME NEW c \in Calls, EvalScript(c)
      PROVE  /\ CountersInv'
             /\ RedisLimit!LimitNext \/ UNCHANGED redisWindow
             /\ UNCHANGED memoryWindow
  <2>1. /\ redis' = ScriptHash(age[c])
        /\ redisWindow' = Follow(redisWindow, ScriptOpens(age[c]),
                                 ScriptAllows(age[c]))
        /\ UNCHANGED <<memory, memoryWindow>>
    BY <1>3 DEF EvalScript
  <2>2. /\ redis' \in [count : 0..MaxRequests,
                       resetIn : LongGone..TimeWindow, ttl : 0..TimeWindow]
        /\ redisWindow' \in Windows
        /\ RedisTellsWindow'
        /\ RedisLimit!LimitNext \/ UNCHANGED redisWindow
    BY <2>1, ScriptStep
  <2>3. /\ MemoryTellsWindow'
        /\ memory' \in [count : 0..MaxRequests, resetIn : Expired..TimeWindow]
        /\ memoryWindow' \in Windows
    BY <2>1 DEF CountersInv, TypeOK, MemoryTellsWindow, Windows
  <2>4. QED
    BY <1>1, <2>1, <2>2, <2>3
    DEF CountersInv, TypeOK, CallsOK, Windows, LongGone
<1>4. ASSUME NEW c \in Calls, Fallback(c)
      PROVE  /\ CountersInv'
             /\ UNCHANGED redisWindow
             /\ MemoryLimit!LimitNext \/ UNCHANGED memoryWindow
  <2>1. UNCHANGED <<redis, redisWindow>>
    BY <1>4 DEF Fallback
  <2>2. /\ memory' \in [count : 0..MaxRequests,
                        resetIn : Expired..TimeWindow]
        /\ memoryWindow' \in Windows
        /\ MemoryTellsWindow'
        /\ MemoryLimit!LimitNext \/ UNCHANGED memoryWindow
    BY <1>4, FallbackStep
  <2>3. /\ RedisTellsWindow'
        /\ redis' \in [count : 0..MaxRequests,
                       resetIn : LongGone..TimeWindow, ttl : 0..TimeWindow]
        /\ redisWindow' \in Windows
    BY <2>1 DEF CountersInv, TypeOK, RedisTellsWindow, Windows, LongGone
  <2>4. QED
    BY <1>1, <2>1, <2>2, <2>3
    DEF CountersInv, TypeOK, CallsOK, Windows, LongGone
<1>5. ASSUME NEW c \in Calls, Send(c) \/ EvalFails(c) \/ Answer(c)
      PROVE  UNCHANGED <<redis, memory, history>>
  BY <1>5 DEF Send, EvalFails, Answer
<1>6. CASE Cleanup
  <2>1. /\ memory' = NoEntry
        /\ memory.resetIn = Expired
        /\ UNCHANGED <<redis, redisWindow, memoryWindow>>
    BY <1>6 DEF Cleanup, history
  <2>2. QED
    BY <1>1, <2>1
    DEF CountersInv, TypeOK, CallsOK, RedisTellsWindow, MemoryTellsWindow,
        NoEntry, Expired, Windows, LongGone
<1>7. CASE Tick
  BY <1>1, <1>7, TickStep
  DEF CountersInv, TypeOK, CallsOK, Windows, LongGone
<1>8. CASE UNCHANGED vars
  BY <1>2, <1>8 DEF vars
<1>9. QED
  BY <1>2, <1>3, <1>4, <1>5, <1>6, <1>7, <1>8 DEF Next

LEMMA CountersInit ==
    ASSUME Init
    PROVE  CountersInv /\ RedisLimit!LimitInit /\ MemoryLimit!LimitInit
BY CountersAssumption
DEF Init, CountersInv, TypeOK, RedisTellsWindow, MemoryTellsWindow, NoKey,
    NoEntry, LongGone, Expired, Windows, RedisLimit!LimitInit,
    MemoryLimit!LimitInit

(* In every reachable state the variables have their types and each store  *)
(* tells the truth about its window.                                       *)
THEOREM CountersInvHolds == Spec => []CountersInv
<1>1. Init => CountersInv
  BY CountersInit
<1>2. CountersInv /\ [Next]_vars => CountersInv'
  BY CountersStep
<1>3. QED
  BY <1>1, <1>2, PTL DEF Spec

THEOREM TypeCorrect == Spec => []TypeOK
<1>1. CountersInv => TypeOK
  BY DEF CountersInv
<1>2. QED
  BY <1>1, CountersInvHolds, PTL

(* The script of rate-limit-lua.lua implements the window limit: commands  *)
(* that run late, out of order, twice or without an answer never let more  *)
(* than maxRequests through in a window, and a window is short only by the *)
(* delay of the command that opened it.                                    *)
THEOREM RedisKeepsLimitHolds == Spec => RedisKeepsLimit
<1>1. Init => RedisLimit!LimitInit
  BY CountersInit
<1>2. CountersInv /\ [Next]_vars
        => [RedisLimit!LimitNext]_(RedisLimit!limitVars)
  BY CountersStep DEF RedisLimit!limitVars
<1>3. QED
  BY <1>1, <1>2, CountersInvHolds, PTL
  DEF Spec, RedisKeepsLimit, RedisLimit!LimitSpec

(* The in-memory store of in-memory-rate-limit-store.ts implements it with *)
(* windows of full length.                                                 *)
THEOREM MemoryKeepsLimitHolds == Spec => MemoryKeepsLimit
<1>1. Init => MemoryLimit!LimitInit
  BY CountersInit
<1>2. CountersInv /\ [Next]_vars
        => [MemoryLimit!LimitNext]_(MemoryLimit!limitVars)
  BY CountersStep DEF MemoryLimit!limitVars
<1>3. QED
  BY <1>1, <1>2, CountersInvHolds, PTL
  DEF Spec, MemoryKeepsLimit, MemoryLimit!LimitSpec
=============================================================================
