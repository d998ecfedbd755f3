------------------------- MODULE RateLimitCounters -------------------------
(***************************************************************************)
(* The counts behind the tiered rate limiter, for one identifier: the hash *)
(* that the Lua script keeps in Redis, shared by all server processes, and *)
(* the entry of the in-memory store of one process, which serves the calls *)
(* that Redis does not.                                                    *)
(*                                                                         *)
(* The script works with the instant that the caller read before it sent   *)
(* the command; commands arrive late and in any order, and the answer may  *)
(* be lost after the script has counted.  Why a call goes to the fallback  *)
(* is the matter of RedisRateLimitStore: here any call may, on entry or    *)
(* after an attempt that failed.  Times are relative, in ticks.            *)
(***************************************************************************)
EXTENDS Integers

CONSTANTS
    Calls,          \* the calls that can be in progress at once
    MaxRequests,    \* maxRequests of the tier
    TimeWindow,     \* ticks in a window
    MaxDelay,       \* bound: ticks from Date.now() to the script's run
                    \* (the wait in the client's queue is part of them)
    MaxRetries      \* attempts of one call (2)

ASSUME CountersAssumption ==
    /\ MaxRequests \in Nat \ {0}
    /\ TimeWindow \in Nat \ {0}
    /\ MaxDelay \in Nat \ {0}
    /\ MaxRetries \in Nat \ {0}

VARIABLES
    redis,          \* the hash: count, resetTime - now, and time to live
    memory,         \* the entry: count and resetTime - now
    pc,             \* pc[c]: where call c stands
    age,            \* age[c]: how long ago a sent call read Date.now()
    attempt,        \* attempt[c]: attempts of c that failed
    redisWindow,    \* history: grants of, and ticks since, the opening of
    memoryWindow    \* the present window in each store

history == <<redisWindow, memoryWindow>>
vars == <<redis, memory, pc, age, attempt, history>>

LongGone == -MaxDelay - 1   \* resetTime before any instant still on its way
Expired == -1               \* resetTime before now

NoKey == [count |-> 0, resetIn |-> LongGone, ttl |-> 0]
NoEntry == [count |-> 0, resetIn |-> Expired]

Windows == [granted : 0..MaxRequests, openFor : 0..(TimeWindow + 1)]

TypeOK ==
    /\ redis \in [count : 0..MaxRequests, resetIn : LongGone..TimeWindow,
                  ttl : 0..TimeWindow]
    /\ memory \in [count : 0..MaxRequests, resetIn : Expired..TimeWindow]
    /\ pc \in [Calls -> {"idle", "sent", "failed", "allowed", "refused"}]
    /\ age \in [Calls -> 0..MaxDelay]
    /\ attempt \in [Calls -> 0..(MaxRetries - 1)]
    /\ redisWindow \in Windows
    /\ memoryWindow \in Windows

Init ==
    /\ redis = NoKey
    /\ memory = NoEntry
    /\ pc = [c \in Calls |-> "idle"]
    /\ age = [c \in Calls |-> 0]
    /\ attempt = [c \in Calls |-> 0]
    /\ redisWindow = [granted |-> 0, openFor |-> TimeWindow + 1]
    /\ memoryWindow = [granted |-> 0, openFor |-> TimeWindow + 1]

Verdict(allowed) == IF allowed THEN "allowed" ELSE "refused"

(* A store with count requests in its window has opened it or not, and     *)
(* grants one more or not.                                                 *)
Follow(window, opens, allowed) ==
    [granted |-> (IF opens THEN 0 ELSE window.granted)
                    + (IF allowed THEN 1 ELSE 0),
     openFor |-> IF opens THEN 0 ELSE window.openFor]

-----------------------------------------------------------------------------
(* A call reads the clock and sends its command. *)
Send(c) ==
    /\ \/ pc[c] = "idle" /\ attempt' = [attempt EXCEPT ![c] = 0]
       \/ /\ pc[c] = "failed"
          /\ attempt[c] < MaxRetries - 1
          /\ attempt' = [attempt EXCEPT ![c] = @ + 1]
    /\ pc' = [pc EXCEPT ![c] = "sent"]
    /\ age' = [age EXCEPT ![c] = 0]
    /\ UNCHANGED <<redis, memory, history>>

(* Mutant: the window is over at resetTime already. *)
ScriptOpens_Early(now) == redis.ttl = 0 \/ redis.resetIn + now <= 0

(* resetTime is before the caller's instant, now ticks ago, or Redis has   *)
(* dropped the key.                                                        *)
ScriptOpens(now) == redis.ttl = 0 \/ redis.resetIn + now < 0

(* The count that the script leaves: one more when the request is allowed. *)
ScriptCount(now) ==
    LET count == IF ScriptOpens(now) THEN 0 ELSE redis.count
    IN  IF count < MaxRequests THEN count + 1 ELSE count

ScriptAllows(now) == ScriptOpens(now) \/ redis.count < MaxRequests

(* Mutant: every run of the script starts the window anew. *)
ScriptHash_Sliding(now) ==
    [count |-> ScriptCount(now), resetIn |-> TimeWindow - now,
     ttl |-> TimeWindow]

ScriptHash(now) ==
    [count |-> ScriptCount(now),
     resetIn |-> IF ScriptOpens(now) THEN TimeWindow - now ELSE redis.resetIn,
     ttl |-> IF ScriptOpens(now) THEN TimeWindow ELSE redis.ttl]

(* The script runs; its answer arrives, or is lost with the connection. *)
EvalScript(c) ==
    /\ pc[c] = "sent"
    /\ redis' = ScriptHash(age[c])
    /\ redisWindow' = Follow(redisWindow, ScriptOpens(age[c]),
                             ScriptAllows(age[c]))
    /\ \E answer \in {Verdict(ScriptAllows(age[c])), "failed"} :
          pc' = [pc EXCEPT ![c] = answer]
    /\ age' = [age EXCEPT ![c] = 0]
    /\ UNCHANGED <<memory, attempt, memoryWindow>>

(* The command fails before it reaches Redis. *)
EvalFails(c) ==
    /\ pc[c] = "sent"
    /\ pc' = [pc EXCEPT ![c] = "failed"]
    /\ age' = [age EXCEPT ![c] = 0]
    /\ UNCHANGED <<redis, memory, attempt, history>>

(* What the entry of the window counts so far. *)
MemoryCount == IF memory.resetIn >= 0 THEN memory.count ELSE 0

(* Mutant: one request too many is allowed. *)
MemoryAllows_OffByOne == MemoryCount <= MaxRequests

MemoryAllows == MemoryCount < MaxRequests

(* The in-memory store serves the call, with the present instant. *)
Fallback(c) ==
    LET opens == memory.resetIn = Expired IN
    /\ pc[c] \in {"idle", "failed"}
    /\ memory' = [count |-> MemoryCount + (IF MemoryAllows THEN 1 ELSE 0),
                  resetIn |-> IF opens THEN TimeWindow ELSE memory.resetIn]
    /\ memoryWindow' = Follow(memoryWindow, opens, MemoryAllows)
    /\ pc' = [pc EXCEPT ![c] = Verdict(MemoryAllows)]
    /\ UNCHANGED <<redis, age, attempt, redisWindow>>

(* The limiter passes the request on or answers 429. *)
Answer(c) ==
    /\ pc[c] \in {"allowed", "refused"}
    /\ pc' = [pc EXCEPT ![c] = "idle"]
    /\ UNCHANGED <<redis, memory, age, attempt, history>>

(* The timer drops an entry whose window is over. *)
Cleanup ==
    /\ memory.resetIn = Expired
    /\ memory' = NoEntry
    /\ UNCHANGED <<redis, pc, age, attempt, history>>

Older(window) ==
    [granted |-> window.granted,
     openFor |-> IF window.openFor <= TimeWindow THEN window.openFor + 1
                 ELSE window.openFor]

(* Time passes, as long as no command would be late beyond the bound.      *)
Tick ==
    /\ \A c \in Calls : pc[c] = "sent" => age[c] < MaxDelay
    /\ age' = [c \in Calls |-> IF pc[c] = "sent" THEN age[c] + 1 ELSE age[c]]
    /\ redis' = IF redis.ttl <= 1 THEN NoKey
                ELSE [count |-> redis.count, resetIn |-> redis.resetIn - 1,
                      ttl |-> redis.ttl - 1]
    /\ memory' = [count |-> memory.count,
                  resetIn |-> IF memory.resetIn = Expired THEN Expired
                              ELSE memory.resetIn - 1]
    /\ redisWindow' = Older(redisWindow)
    /\ memoryWindow' = Older(memoryWindow)
    /\ UNCHANGED <<pc, attempt>>

Next ==
    \/ \E c \in Calls :
        \/ Send(c)
        \/ EvalScript(c)
        \/ EvalFails(c)
        \/ Fallback(c)
        \/ Answer(c)
    \/ Cleanup
    \/ Tick

Spec == Init /\ [][Next]_vars

(* Commands are answered or fail, a call that failed goes on, and requests *)
(* keep coming; time passes.                                               *)
Fairness ==
    /\ WF_vars(Tick)
    /\ \A c \in Calls :
        /\ WF_vars(EvalScript(c) \/ EvalFails(c))
        /\ WF_vars(Send(c) \/ Fallback(c))
        /\ WF_vars(Answer(c))

FairSpec == Spec /\ Fairness

-----------------------------------------------------------------------------
(* The script's windows are a window limit, however late and in whatever   *)
(* order commands with older instants run, keys expire, and calls retry    *)
(* what was counted already: a window can be cut short only by the delay   *)
(* of the command that opened it.                                          *)
RedisLimit == INSTANCE WindowLimit WITH
    Limit <- MaxRequests,
    MinLength <- TimeWindow - MaxDelay + 1,
    granted <- redisWindow.granted,
    openFor <- redisWindow.openFor

RedisKeepsLimit == RedisLimit!LimitSpec

(* The windows of the in-memory store are one too, never cut short; the    *)
(* two limits are separate, so an identifier may be granted both.          *)
MemoryLimit == INSTANCE WindowLimit WITH
    Limit <- MaxRequests,
    MinLength <- TimeWindow + 1,
    granted <- memoryWindow.granted,
    openFor <- memoryWindow.openFor

MemoryKeepsLimit == MemoryLimit!LimitSpec

(* A caller that keeps asking is never shut out for good, whatever answers *)
(* are lost: a window is opened again and again, so refused requests do    *)
(* not prolong the present one.                                            *)
WindowsReopen == []<>(redisWindow.openFor = 0 \/ memoryWindow.openFor = 0)
=============================================================================
