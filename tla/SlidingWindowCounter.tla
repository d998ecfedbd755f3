------------------------ MODULE SlidingWindowCounter ------------------------
(***************************************************************************)
(* The ring of buckets behind a breaker's failure rate.  A bucket's two    *)
(* counters are modelled by the set of the outcomes they count, so that    *)
(* getStats can be compared, outcome by outcome, with what was recorded    *)
(* and when.  Whether an outcome is a success or a failure plays no role:  *)
(* both counters are cleared and summed together.                          *)
(***************************************************************************)
EXTENDS Integers

CONSTANTS
    Outcomes,       \* the outcomes that can be recorded
    WindowSize,     \* number of buckets
    BucketDuration, \* ticks per bucket
    Start,          \* the time at which the counter is created
    MaxNow          \* bound: the last instant

(* The clock reads the milliseconds since 1970: far more than one window.  *)
ASSUME WindowAssumption ==
    /\ WindowSize \in Nat \ {0}
    /\ BucketDuration \in Nat \ {0}
    /\ Start \in Nat
    /\ MaxNow \in Nat
    /\ WindowSize * BucketDuration < Start
    /\ Start <= MaxNow

VARIABLES
    now,            \* Date.now()
    buckets,        \* buckets[i]: its timestamp and the outcomes it counts
    recordedAt      \* history: when each outcome was recorded, or one of
                    \* the two marks below

windowVars == <<now, buckets, recordedAt>>

Never == -1         \* not recorded yet
Forgotten == -2     \* recorded before the last reset
Window == WindowSize * BucketDuration
Indexes == 0..(WindowSize - 1)

WindowTypeOK ==
    /\ now \in Start..MaxNow
    /\ buckets \in [Indexes -> [timestamp : 0..MaxNow,
                                counted : SUBSET Outcomes]]
    /\ recordedAt \in [Outcomes -> {Never, Forgotten} \union (Start..MaxNow)]

EmptyBucket(time) == [timestamp |-> time, counted |-> {}]

WindowInit ==
    /\ now = Start
    /\ buckets = [i \in Indexes |-> EmptyBucket(0)]
    /\ recordedAt = [o \in Outcomes |-> Never]

-----------------------------------------------------------------------------
BucketIndex == (now \div BucketDuration) % WindowSize

(* Mutant: the window is not subtracted, so that a bucket only counts the  *)
(* outcomes of one instant.                                                *)
CurrentBucket_ClearsEarly ==
    IF buckets[BucketIndex].timestamp < now
    THEN EmptyBucket(now)
    ELSE buckets[BucketIndex]

(* getCurrentBucket: the bucket of this instant, cleared when it was       *)
(* started more than a window ago.                                         *)
CurrentBucket ==
    IF buckets[BucketIndex].timestamp < now - Window
    THEN EmptyBucket(now)
    ELSE buckets[BucketIndex]

(* recordSuccess and recordFailure *)
Record(o) ==
    /\ recordedAt[o] = Never
    /\ recordedAt' = [recordedAt EXCEPT ![o] = now]
    /\ buckets' = [buckets EXCEPT ![BucketIndex] =
            [timestamp |-> CurrentBucket.timestamp,
             counted |-> CurrentBucket.counted \union {o}]]
    /\ UNCHANGED now

(* Mutant: the cutoff is forgotten. *)
Stats_AllBuckets == UNION {buckets[i].counted : i \in Indexes}

(* getStats: what the buckets that are not older than the window count. *)
Stats ==
    UNION {buckets[i].counted :
              i \in {j \in Indexes : buckets[j].timestamp >= now - Window}}

(* reset forgets every outcome: each is recorded once, so that none of     *)
(* them comes back under its name.                                         *)
Reset ==
    /\ buckets' = [i \in Indexes |-> EmptyBucket(0)]
    /\ recordedAt' = [o \in Outcomes |->
            IF recordedAt[o] = Never THEN Never ELSE Forgotten]
    /\ UNCHANGED now

WindowTick ==
    /\ now < MaxNow
    /\ now' = now + 1
    /\ UNCHANGED <<buckets, recordedAt>>

WindowNext ==
    \/ \E o \in Outcomes : Record(o)
    \/ Reset
    \/ WindowTick

WindowSpec == WindowInit /\ [][WindowNext]_windowVars

-----------------------------------------------------------------------------
(* The outcomes of the window's history, as of the last reset. *)
Recorded(o) == recordedAt[o] \notin {Never, Forgotten}

(* The failure rate never rests on an outcome that is older than the       *)
(* window, nor on one that was not recorded since the last reset.          *)
NothingStaleIsCounted ==
    \A o \in Stats : Recorded(o) /\ recordedAt[o] >= now - Window

(* When an outcome of the last window (up to the grain of one bucket) is   *)
(* left out, it joined a bucket that an earlier outcome had started about  *)
(* one turn of the ring before, and went with it when that one became a    *)
(* window old.  Nothing else is ever lost.                                 *)
LostOnlyWithAnOldOne ==
    \A o \in Outcomes :
        (/\ Recorded(o)
         /\ recordedAt[o] > now - Window + BucketDuration
         /\ o \notin Stats) =>
            \E p \in Outcomes :
                /\ Recorded(p)
                /\ recordedAt[p] < now - Window
                /\ recordedAt[o] - recordedAt[p] \in
                      (Window - BucketDuration)..Window
=============================================================================
