----------------------- MODULE LoginRateLimiterProofs -----------------------
(***************************************************************************)
(* Proofs about LoginRateLimiter.  BlockedWhenFull is not inductive: when  *)
(* time passes, the failures that are still recent are to be blocked by    *)
(* what is left of the block.  BlockedAhead says it for every later        *)
(* instant: as long as MaxAttempts of today's failures stay within the     *)
(* window, the block stays on.                                             *)
(***************************************************************************)
EXTENDS LoginRateLimiter, FiniteSetTheorems, TLAPS

BlockedAhead ==
    \A t \in Nat : Cardinality(RecentIn(t)) >= MaxAttempts => blockLeft > t

LoginInv == TypeOK /\ BlockedAhead /\ PendingPredatesBlock

-----------------------------------------------------------------------------
(* A part of a set of logins has no more members than the set.             *)
LEMMA PartsAreSmaller ==
    ASSUME NEW S \in SUBSET Logins, NEW T \in SUBSET S
    PROVE  /\ Cardinality(S) \in Nat
           /\ Cardinality(T) \in Nat
           /\ Cardinality(T) <= Cardinality(S)
<1>1. IsFiniteSet(S)
    BY FS_Subset, LoginAssumption DEF LoginAssumption
<1>2. IsFiniteSet(T) /\ Cardinality(T) <= Cardinality(S)
    BY <1>1, FS_Subset
<1> QED
    BY <1>1, <1>2, FS_CardinalityType

(* The recent attempts are logins, fewer of them the later one looks. *)
LEMMA RecentShrinks ==
    ASSUME TypeOK, NEW t \in Nat
    PROVE  RecentIn(t) \in SUBSET Recent /\ Recent \in SUBSET Logins
BY LoginAssumption DEF TypeOK, RecentIn, Recent, LoginAssumption, NotCounted

(* Kept is a set of recent attempts. *)
LEMMA KeptIsRecent == Kept \in SUBSET Recent /\ Kept \in SUBSET Logins
BY DEF Kept, Recent, RecentIn

(* Filtering the list neither rejuvenates nor adds an attempt. *)
LEMMA OnlyKeeps ==
    ASSUME TypeOK, NEW S \in SUBSET Logins, attempts' = Only(S)
    PROVE  /\ attempts' \in [Logins -> NotCounted..WindowMs]
           /\ \A t \in Nat : RecentIn(t)' \in SUBSET (S \intersect RecentIn(t))
<1>1. attempts' \in [Logins -> NotCounted..WindowMs]
    BY LoginAssumption DEF TypeOK, Only, NotCounted, LoginAssumption
<1>2. ASSUME NEW t \in Nat PROVE RecentIn(t)' \in SUBSET (S \intersect RecentIn(t))
    BY DEF TypeOK, Only, RecentIn
<1> QED
    BY <1>1, <1>2

-----------------------------------------------------------------------------
(* At first nothing is counted and nobody is blocked. *)
LEMMA Initially == Init => LoginInv
<1> SUFFICES ASSUME Init PROVE LoginInv
    OBVIOUS
<1>1. TypeOK
    BY LoginAssumption DEF Init, TypeOK, LoginAssumption, NotCounted, NoBlock
<1>2. BlockedAhead
  <2> SUFFICES ASSUME NEW t \in Nat PROVE ~(Cardinality(RecentIn(t)) >= MaxAttempts)
      BY DEF BlockedAhead
  <2>1. RecentIn(t) = {}
      BY DEF Init, RecentIn
  <2> QED
      BY <2>1, FS_EmptySet, LoginAssumption DEF LoginAssumption
<1>3. PendingPredatesBlock
    BY DEF Init, PendingPredatesBlock
<1> QED
    BY <1>1, <1>2, <1>3 DEF LoginInv

(* When a filtered list has fewer than MaxAttempts members, or the block   *)
(* is left as it was, BlockedAhead carries over.                           *)
LEMMA FilteredIsBlocked ==
    ASSUME TypeOK, BlockedAhead, NEW S \in SUBSET Logins, attempts' = Only(S),
           Cardinality(S) < MaxAttempts \/ blockLeft' = blockLeft
    PROVE  BlockedAhead'
<1> SUFFICES ASSUME NEW t \in Nat, Cardinality(RecentIn(t)') >= MaxAttempts
             PROVE  blockLeft' > t
    BY LoginAssumption DEF BlockedAhead
<1>1. RecentIn(t)' \in SUBSET S /\ RecentIn(t)' \in SUBSET RecentIn(t)
    BY OnlyKeeps
<1>2. RecentIn(t) \in SUBSET Logins
    BY DEF RecentIn
<1>3. /\ Cardinality(RecentIn(t)') <= Cardinality(S)
      /\ Cardinality(RecentIn(t)') <= Cardinality(RecentIn(t))
      /\ Cardinality(S) \in Nat
      /\ Cardinality(RecentIn(t)) \in Nat
      /\ Cardinality(RecentIn(t)') \in Nat
    BY <1>1, <1>2, PartsAreSmaller
<1> QED
    BY <1>3, LoginAssumption DEF BlockedAhead, LoginAssumption

(* The empty list has fewer than MaxAttempts members. *)
LEMMA NoneIsFew == {} \in SUBSET Logins /\ Cardinality({}) < MaxAttempts
BY FS_EmptySet, LoginAssumption DEF LoginAssumption

(* A recorded failure: of its type, and a block when there are enough. *)
LEMMA RecordKeeps ==
    ASSUME TypeOK, NEW l \in Logins, RecordFailedAttempt(l)
    PROVE  /\ attempts' \in [Logins -> NotCounted..WindowMs]
           /\ blockLeft' \in {blockLeft, BlockDurationMs}
           /\ \A k \in Recent : attempts'[k] # NotCounted
           /\ BlockedAhead => BlockedAhead'
<1> DEFINE counted == Recent \union {l}
<1>1. counted \in SUBSET Logins
    BY DEF Recent, RecentIn
<1>2. attempts' = [Only(counted) EXCEPT ![l] = 0]
    BY DEF RecordFailedAttempt
<1>3. attempts' \in [Logins -> NotCounted..WindowMs]
    BY <1>2, LoginAssumption DEF TypeOK, Only, NotCounted, LoginAssumption
<1>4. \A k \in Recent : attempts'[k] # NotCounted
    BY <1>2 DEF Only, NotCounted, Recent, RecentIn
<1>5. blockLeft' \in {blockLeft, BlockDurationMs}
    BY DEF RecordFailedAttempt
<1>6. ASSUME BlockedAhead, NEW t \in Nat,
             Cardinality(RecentIn(t)') >= MaxAttempts
      PROVE  blockLeft' > t
  <2>1. RecentIn(t)' \in SUBSET counted
      BY <1>2, <1>1 DEF Only, RecentIn, NotCounted
  <2>2. /\ Cardinality(RecentIn(t)') <= Cardinality(counted)
        /\ Cardinality(RecentIn(t)') \in Nat
        /\ Cardinality(counted) \in Nat
      BY <1>1, <2>1, PartsAreSmaller
  <2>3. Cardinality(counted) >= MaxAttempts
      BY <1>6, <2>2, LoginAssumption DEF LoginAssumption
  <2>4. blockLeft' = BlockDurationMs
      BY <2>3 DEF RecordFailedAttempt
  <2>5. RecentIn(t)' # {}
      BY <1>6, NoneIsFew, FS_EmptySet, LoginAssumption DEF LoginAssumption
  <2>6. PICK k \in Logins : attempts'[k] # NotCounted /\ attempts'[k] + t < WindowMs
      BY <2>5 DEF RecentIn
  <2>7. attempts'[k] \in 0..WindowMs
      BY <1>3, <2>6, LoginAssumption DEF NotCounted, LoginAssumption
  <2> QED
      BY <2>4, <2>6, <2>7, LoginAssumption DEF LoginAssumption
<1> QED
    BY <1>3, <1>4, <1>5, <1>6 DEF BlockedAhead

-----------------------------------------------------------------------------
(* What a step keeps, and what it may do to failures and blocks: the       *)
(* inductive step and the two action properties in one.                    *)
Careful ==
    /\ \A l \in Recent :
        attempts'[l] # NotCounted \/ blockLeft = 0 \/ Succeeds
    /\ Blocked => blockLeft' >= blockLeft - 1 \/ Succeeds

LEMMA AdmitKeeps ==
    ASSUME LoginInv, NEW l \in Logins, Admit(l)
    PROVE  LoginInv' /\ Careful
<1>1. attempts' = Only(Kept) /\ Cardinality(Kept) < MaxAttempts
    BY DEF Admit
<1>2. BlockedAhead'
    BY <1>1, KeptIsRecent, FilteredIsBlocked DEF LoginInv
<1>3. TypeOK'
  <2>1. attempts' \in [Logins -> NotCounted..WindowMs]
      BY <1>1, KeptIsRecent, OnlyKeeps DEF LoginInv
  <2> QED
      BY <2>1, LoginAssumption DEF LoginInv, TypeOK, Admit, LoginAssumption, NoBlock
<1>4. PendingPredatesBlock'
    BY DEF Admit, PendingPredatesBlock, Blocked, NoBlock
<1>5. Careful
  <2>1. ASSUME NEW k \in Recent, blockLeft # 0 PROVE attempts'[k] # NotCounted
    <3>1. blockLeft = NoBlock
        BY <2>1, LoginAssumption DEF Admit, Blocked, NoBlock, LoginInv, TypeOK, LoginAssumption
    <3> QED
        BY <1>1, <2>1, <3>1 DEF Kept, Only, Recent, RecentIn
  <2> QED
      BY <2>1 DEF Careful, Admit
<1> QED
    BY <1>2, <1>3, <1>4, <1>5 DEF LoginInv

LEMMA LoginFailsKeeps ==
    ASSUME LoginInv, NEW l \in Logins, LoginFails(l)
    PROVE  LoginInv' /\ Careful
<1>1. RecordFailedAttempt(l) /\ TypeOK /\ BlockedAhead
    BY DEF LoginFails, LoginInv
<1>2. /\ attempts' \in [Logins -> NotCounted..WindowMs]
      /\ blockLeft' \in {blockLeft, BlockDurationMs}
      /\ \A k \in Recent : attempts'[k] # NotCounted
      /\ BlockedAhead'
    BY <1>1, RecordKeeps
<1>3. TypeOK'
    BY <1>1, <1>2, LoginAssumption DEF TypeOK, LoginFails, LoginAssumption, NoBlock
<1>4. PendingPredatesBlock'
  <2> SUFFICES ASSUME NEW k \in Logins, pc'[k] = "pending", blockLeft' > 0
               PROVE  waited'[k] >= BlockDurationMs - blockLeft'
      BY DEF PendingPredatesBlock, Blocked
  <2>1. pc[k] = "pending" /\ waited'[k] = waited[k] /\ waited[k] \in Nat
      BY <1>1, LoginAssumption DEF LoginFails, TypeOK, LoginAssumption
  <2>2. CASE blockLeft' = BlockDurationMs
      BY <2>1, <2>2, LoginAssumption DEF LoginAssumption
  <2>3. CASE blockLeft' = blockLeft
      BY <2>1, <2>3 DEF LoginInv, PendingPredatesBlock, Blocked
  <2> QED
      BY <1>2, <2>2, <2>3
<1>5. Careful
    BY <1>1, <1>2, LoginAssumption DEF Careful, TypeOK, LoginAssumption, NoBlock, Blocked
<1> QED
    BY <1>2, <1>3, <1>4, <1>5 DEF LoginInv

LEMMA ResetKeeps ==
    ASSUME LoginInv, NEW l \in Logins, ResetForIp(l)
    PROVE  LoginInv' /\ Careful
<1>1. attempts' = Only({})
    BY DEF ResetForIp
<1>2. BlockedAhead'
    BY <1>1, NoneIsFew, FilteredIsBlocked DEF LoginInv
<1>3. attempts' \in [Logins -> NotCounted..WindowMs]
    BY <1>1, NoneIsFew, OnlyKeeps DEF LoginInv
<1>4. TypeOK'
    BY <1>3, LoginAssumption DEF LoginInv, TypeOK, ResetForIp, LoginAssumption, NoBlock
<1>5. PendingPredatesBlock'
    BY DEF ResetForIp, PendingPredatesBlock, Blocked, NoBlock
<1>6. Succeeds
    BY DEF ResetForIp, Succeeds, LoginInv, TypeOK
<1> QED
    BY <1>2, <1>4, <1>5, <1>6 DEF LoginInv, Careful

LEMMA LoggedInKeeps ==
    ASSUME LoginInv, NEW l \in Logins, LoggedIn(l)
    PROVE  LoginInv' /\ Careful
<1>1. TypeOK' /\ BlockedAhead'
    BY DEF LoginInv, TypeOK, LoggedIn, BlockedAhead, RecentIn
<1>2. PendingPredatesBlock'
    BY DEF LoginInv, TypeOK, LoggedIn, PendingPredatesBlock, Blocked
<1>3. Careful
    BY LoginAssumption DEF LoggedIn, Careful, Recent, RecentIn, LoginInv, TypeOK,
        Blocked, LoginAssumption, NoBlock
<1> QED
    BY <1>1, <1>2, <1>3 DEF LoginInv

LEMMA RefuseKeeps ==
    ASSUME LoginInv, Refuse
    PROVE  LoginInv' /\ Careful
<1>1. CASE Blocked
  <2>1. UNCHANGED vars
      BY <1>1 DEF Refuse, vars
  <2>2. LoginInv'
      BY <2>1 DEF LoginInv, TypeOK, BlockedAhead, RecentIn, PendingPredatesBlock,
          Blocked, vars
  <2>3. Careful
      BY <2>1, LoginAssumption DEF Careful, Recent, RecentIn, vars, LoginInv,
          TypeOK, LoginAssumption, NoBlock, Blocked
  <2> QED
      BY <2>2, <2>3
<1>2. CASE ~Blocked
  <2>1. attempts' = Only(Kept) /\ blockLeft' = NoBlock
      BY <1>2 DEF Refuse
  <2>2. Cardinality(Recent) < MaxAttempts /\ Cardinality(Kept) < MaxAttempts
    <3>1. /\ Cardinality(Kept) \in Nat /\ Cardinality(Recent) \in Nat
          /\ Cardinality(Kept) <= Cardinality(Recent)
        BY KeptIsRecent, RecentShrinks, PartsAreSmaller DEF LoginInv, Recent, RecentIn
    <3>2. ~(Cardinality(Recent) >= MaxAttempts)
        BY <1>2 DEF LoginInv, BlockedAhead, Recent, Blocked
    <3> QED
        BY <3>1, <3>2, LoginAssumption DEF LoginAssumption
  <2>3. FALSE
    <3>1. Cardinality(Kept) \in Nat
        BY KeptIsRecent, PartsAreSmaller
    <3> QED
        BY <1>2, <2>2, <3>1, LoginAssumption DEF Refuse, LoginAssumption
  <2> QED
      BY <2>3
<1> QED
    BY <1>1, <1>2

LEMMA CleanupKeeps ==
    ASSUME LoginInv, Cleanup
    PROVE  LoginInv' /\ Careful
<1>1. attempts' = Only({})
    BY DEF Cleanup
<1>2. BlockedAhead'
    BY <1>1, NoneIsFew, FilteredIsBlocked DEF LoginInv
<1>3. attempts' \in [Logins -> NotCounted..WindowMs]
    BY <1>1, NoneIsFew, OnlyKeeps DEF LoginInv
<1>4. TypeOK'
    BY <1>3, LoginAssumption DEF LoginInv, TypeOK, Cleanup, LoginAssumption, NoBlock
<1>5. PendingPredatesBlock' /\ Careful
    BY DEF Cleanup, PendingPredatesBlock, Blocked, NoBlock, Careful
<1> QED
    BY <1>2, <1>4, <1>5 DEF LoginInv

LEMMA TickKeeps ==
    ASSUME LoginInv, Tick
    PROVE  LoginInv' /\ Careful
<1>1. \A l \in Logins : /\ attempts[l] \in NotCounted..WindowMs
                        /\ attempts'[l] = IF attempts[l] \in 0..(WindowMs - 1)
                                          THEN attempts[l] + 1 ELSE attempts[l]
    BY DEF Tick, LoginInv, TypeOK
<1>2. attempts' \in [Logins -> NotCounted..WindowMs]
    BY LoginAssumption DEF Tick, LoginInv, TypeOK, LoginAssumption, NotCounted
<1>3. blockLeft' \in NoBlock..BlockDurationMs
    BY LoginAssumption DEF Tick, LoginInv, TypeOK, LoginAssumption, NoBlock, Blocked
<1>4. waited' \in [Logins -> 0..BlockDurationMs]
    BY LoginAssumption DEF Tick, LoginInv, TypeOK, LoginAssumption
<1>5. TypeOK'
    BY <1>2, <1>3, <1>4 DEF TypeOK, Tick, LoginInv
<1>6. BlockedAhead'
  <2> SUFFICES ASSUME NEW t \in Nat, Cardinality(RecentIn(t)') >= MaxAttempts
               PROVE  blockLeft' > t
      BY DEF BlockedAhead
  <2>1. RecentIn(t)' \in SUBSET RecentIn(t + 1)
      BY <1>1, LoginAssumption DEF RecentIn, LoginAssumption, NotCounted
  <2>2. RecentIn(t + 1) \in SUBSET Logins
      BY DEF RecentIn
  <2>3. /\ Cardinality(RecentIn(t)') <= Cardinality(RecentIn(t + 1))
        /\ Cardinality(RecentIn(t)') \in Nat
        /\ Cardinality(RecentIn(t + 1)) \in Nat
      BY <2>1, <2>2, PartsAreSmaller
  <2>4. Cardinality(RecentIn(t + 1)) >= MaxAttempts
      BY <2>3, LoginAssumption DEF LoginAssumption
  <2>5. blockLeft > t + 1
      BY <2>4 DEF LoginInv, BlockedAhead
  <2> QED
      BY <2>5, LoginAssumption DEF Tick, Blocked, LoginInv, TypeOK, LoginAssumption, NoBlock
<1>7. PendingPredatesBlock'
  <2> SUFFICES ASSUME NEW k \in Logins, pc'[k] = "pending", blockLeft' > 0
               PROVE  waited'[k] >= BlockDurationMs - blockLeft'
      BY DEF PendingPredatesBlock, Blocked
  <2>1. pc[k] = "pending" /\ blockLeft \in NoBlock..BlockDurationMs
        /\ waited[k] \in 0..BlockDurationMs
        /\ waited'[k] = IF waited[k] < BlockDurationMs THEN waited[k] + 1 ELSE waited[k]
      BY DEF Tick, LoginInv, TypeOK
  <2>2. Blocked /\ blockLeft' = blockLeft - 1
      BY <2>1, LoginAssumption DEF Tick, Blocked, LoginAssumption, NoBlock
  <2>3. waited[k] >= BlockDurationMs - blockLeft
      BY <2>1, <2>2 DEF LoginInv, PendingPredatesBlock
  <2> QED
      BY <2>1, <2>2, <2>3, LoginAssumption DEF LoginAssumption, NoBlock
<1>8. Careful
  <2>1. \A l \in Recent : attempts'[l] # NotCounted
      BY <1>1, LoginAssumption DEF Recent, RecentIn, NotCounted, LoginAssumption
  <2>2. Blocked => blockLeft' >= blockLeft - 1
      BY LoginAssumption DEF Tick, Blocked, LoginInv, TypeOK, LoginAssumption, NoBlock
  <2> QED
      BY <2>1, <2>2 DEF Careful
<1> QED
    BY <1>5, <1>6, <1>7, <1>8 DEF LoginInv

LEMMA Step == LoginInv /\ [Next]_vars => LoginInv' /\ (Next => Careful)
<1> SUFFICES ASSUME LoginInv, [Next]_vars PROVE LoginInv' /\ (Next => Careful)
    OBVIOUS
<1>1. ASSUME NEW l \in Logins, Admit(l) PROVE LoginInv' /\ Careful
    BY <1>1, AdmitKeeps
<1>2. ASSUME NEW l \in Logins, LoginFails(l) PROVE LoginInv' /\ Careful
    BY <1>2, LoginFailsKeeps
<1>3. ASSUME NEW l \in Logins, ResetForIp(l) PROVE LoginInv' /\ Careful
    BY <1>3, ResetKeeps
<1>4. ASSUME NEW l \in Logins, LoggedIn(l) PROVE LoginInv' /\ Careful
    BY <1>4, LoggedInKeeps
<1>5. CASE Refuse
    BY <1>5, RefuseKeeps
<1>6. CASE Cleanup
    BY <1>6, CleanupKeeps
<1>7. CASE Tick
    BY <1>7, TickKeeps
<1>8. ASSUME UNCHANGED vars PROVE LoginInv'
    BY <1>8 DEF LoginInv, TypeOK, BlockedAhead, RecentIn, PendingPredatesBlock,
        Blocked, vars
<1> QED
    BY <1>1, <1>2, <1>3, <1>4, <1>5, <1>6, <1>7, <1>8 DEF Next

(* An address with MaxAttempts failures in the window is blocked, and the  *)
(* logins that pass a block were let through before it, for any number of  *)
(* logins, any maximum and any window no longer than the block.            *)
THEOREM BlockedWhenFullHolds ==
    Spec => [](TypeOK /\ BlockedWhenFull /\ PendingPredatesBlock)
<1>1. LoginInv => TypeOK /\ BlockedWhenFull /\ PendingPredatesBlock
    BY DEF LoginInv, BlockedAhead, BlockedWhenFull, Recent, Blocked
<1>2. LoginInv /\ [Next]_vars => LoginInv'
    BY Step
<1> QED
    BY Initially, <1>1, <1>2, PTL DEF Spec

(* A failure is forgotten only for a success or when a block is over. *)
THEOREM FailuresAreKeptHolds == Spec => FailuresAreKept
<1>1. LoginInv /\ [Next]_vars => LoginInv'
    BY Step
<1>2. LoginInv /\ [Next]_vars =>
        [\A l \in Recent :
            \/ attempts'[l] # NotCounted
            \/ blockLeft = 0
            \/ Succeeds]_vars
    BY Step DEF Careful
<1> QED
    BY Initially, <1>1, <1>2, PTL DEF Spec, FailuresAreKept

(* A block ends at its time unless a pending login succeeds. *)
THEOREM BlockIsNotShortenedHolds == Spec => BlockIsNotShortened
<1>1. LoginInv /\ [Next]_vars => LoginInv'
    BY Step
<1>2. LoginInv /\ [Next]_vars =>
        [Blocked =>
            \/ blockLeft' >= blockLeft - 1
            \/ Succeeds]_vars
    BY Step DEF Careful
<1> QED
    BY Initially, <1>1, <1>2, PTL DEF Spec, BlockIsNotShortened
=============================================================================
