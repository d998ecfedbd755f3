-------------------------- MODULE LoginRateLimiter --------------------------
(***************************************************************************)
(* POST /auth/login and the limiter in front of it, for one address: no    *)
(* operation of the limiter reads the record of another address.           *)
(*                                                                         *)
(* The route asks checkLimit, then awaits the database and bcrypt, then    *)
(* tells the limiter how it went.  Everything between two awaits runs in   *)
(* one go, so other logins of the same address are checked and recorded    *)
(* while one is pending.  The list of timestamps in the record is modelled *)
(* by the logins it stands for and the ages of their failures; a record    *)
(* that is not in the map and an empty one decide alike and are one state. *)
(* Times are kept as what is left or has gone by, in ticks.                *)
(***************************************************************************)
EXTENDS Integers, FiniteSets

CONSTANTS
    Logins,         \* bound: the logins in progress or counted at once
    MaxAttempts,    \* failures within the window that block it (5)
    WindowMs,       \* ticks a failure counts for (15 minutes)
    BlockDurationMs \* ticks a block lasts (15 minutes)

(* A block lasts at least as long as the window, as auth.ts sets them. *)
ASSUME LoginAssumption ==
    /\ IsFiniteSet(Logins)
    /\ MaxAttempts \in Nat \ {0}
    /\ WindowMs \in Nat \ {0}
    /\ BlockDurationMs \in Nat
    /\ WindowMs <= BlockDurationMs

VARIABLES
    attempts,       \* record.attempts: the age of the failure of login l
    blockLeft,      \* what is left of record.blockedUntil
    pc,             \* pc[l]: where login l stands
    waited          \* history: how long ago a pending login was let through

vars == <<attempts, blockLeft, pc, waited>>

NotCounted == -1    \* the list has no attempt of this login
NoBlock == -1       \* blockedUntil = null

(* Ages are told apart up to the window, waits up to the block. *)
TypeOK ==
    /\ attempts \in [Logins -> NotCounted..WindowMs]
    /\ blockLeft \in NoBlock..BlockDurationMs
    /\ pc \in [Logins -> {"idle", "pending", "signing"}]
    /\ waited \in [Logins -> 0..BlockDurationMs]

Init ==
    /\ attempts = [l \in Logins |-> NotCounted]
    /\ blockLeft = NoBlock
    /\ pc = [l \in Logins |-> "idle"]
    /\ waited = [l \in Logins |-> 0]

-----------------------------------------------------------------------------
Blocked == blockLeft > 0

(* The attempts that the filter on the window will keep t ticks from now. *)
RecentIn(t) ==
    {l \in Logins : attempts[l] # NotCounted /\ attempts[l] + t < WindowMs}

Recent == RecentIn(0)

Only(kept) ==
    [l \in Logins |-> IF l \in kept THEN attempts[l] ELSE NotCounted]

(* What checkLimit keeps of the attempts when the address is not blocked:  *)
(* none, when that is because a block is over.                             *)
Kept == IF blockLeft = NoBlock THEN Recent ELSE {}

(* checkLimit turns the request away: 429.  Unless the address is blocked, *)
(* the record is tidied up all the same.                                   *)
Refuse ==
    /\ Blocked \/ Cardinality(Kept) >= MaxAttempts
    /\ attempts' = IF Blocked THEN attempts ELSE Only(Kept)
    /\ blockLeft' = IF Blocked THEN blockLeft ELSE NoBlock
    /\ UNCHANGED <<pc, waited>>

(* Mutant: the count is looked at, the block is not. *)
Admit_IgnoreBlock(l) ==
    /\ pc[l] = "idle"
    /\ attempts[l] = NotCounted
    /\ Cardinality(Recent) <= MaxAttempts
    /\ attempts' = Only(Recent)
    /\ pc' = [pc EXCEPT ![l] = "pending"]
    /\ UNCHANGED <<blockLeft, waited>>

(* checkLimit lets the request through, to the await of the login.  A body *)
(* that does not parse ends the request there and is not counted.          *)
Admit(l) ==
    /\ pc[l] = "idle"
    /\ attempts[l] = NotCounted
    /\ ~Blocked
    /\ Cardinality(Kept) < MaxAttempts
    /\ attempts' = Only(Kept)
    /\ blockLeft' = NoBlock
    /\ pc' \in {pc, [pc EXCEPT ![l] = "pending"]}
    /\ UNCHANGED waited

(* Mutant: the block starts only when the count passes the maximum. *)
RecordFailedAttempt_OffByOne(l) ==
    LET counted == Recent \union {l} IN
    /\ attempts' = [Only(counted) EXCEPT ![l] = 0]
    /\ blockLeft' = IF Cardinality(counted) > MaxAttempts
                    THEN BlockDurationMs ELSE blockLeft

(* Mutant: every failure sets blockedUntil anew, or clears it. *)
RecordFailedAttempt_ClearsBlock(l) ==
    LET counted == Recent \union {l} IN
    /\ attempts' = [Only(counted) EXCEPT ![l] = 0]
    /\ blockLeft' = IF Cardinality(counted) >= MaxAttempts
                    THEN BlockDurationMs ELSE NoBlock

(* recordFailedAttempt: the attempt joins those within the window, and     *)
(* enough of them start a block, or start it anew.                         *)
RecordFailedAttempt(l) ==
    LET counted == Recent \union {l} IN
    /\ attempts' = [Only(counted) EXCEPT ![l] = 0]
    /\ blockLeft' = IF Cardinality(counted) >= MaxAttempts
                    THEN BlockDurationMs ELSE blockLeft

(* No such user, a wrong password, an error of the database, or, once the  *)
(* record was reset, an error while the token is signed.                   *)
LoginFails(l) ==
    /\ pc[l] # "idle"
    /\ RecordFailedAttempt(l)
    /\ pc' = [pc EXCEPT ![l] = "idle"]
    /\ waited' = [waited EXCEPT ![l] = 0]

(* The password is right: resetForIp drops the record, block included, and *)
(* the route goes on to await the signature of the token.                  *)
ResetForIp(l) ==
    /\ pc[l] = "pending"
    /\ attempts' = Only({})
    /\ blockLeft' = NoBlock
    /\ pc' = [pc EXCEPT ![l] = "signing"]
    /\ waited' = [waited EXCEPT ![l] = 0]

LoggedIn(l) ==
    /\ pc[l] = "signing"
    /\ pc' = [pc EXCEPT ![l] = "idle"]
    /\ UNCHANGED <<attempts, blockLeft, waited>>

(* Mutant: a record is dropped as soon as no block is on. *)
Cleanup_RecentToo ==
    /\ ~Blocked
    /\ attempts' = Only({})
    /\ blockLeft' = NoBlock
    /\ UNCHANGED <<pc, waited>>

(* The timer drops a record that has neither a recent attempt nor a block. *)
Cleanup ==
    /\ Recent = {}
    /\ ~Blocked
    /\ attempts' = Only({})
    /\ blockLeft' = NoBlock
    /\ UNCHANGED <<pc, waited>>

Tick ==
    /\ attempts' = [l \in Logins |->
            IF attempts[l] \in 0..(WindowMs - 1) THEN attempts[l] + 1
                                                 ELSE attempts[l]]
    /\ blockLeft' = IF Blocked THEN blockLeft - 1 ELSE blockLeft
    /\ waited' = [l \in Logins |->
            IF pc[l] = "pending" /\ waited[l] < BlockDurationMs
            THEN waited[l] + 1 ELSE waited[l]]
    /\ UNCHANGED pc

Next ==
    \/ \E l \in Logins :
        \/ Admit(l)
        \/ LoginFails(l)
        \/ ResetForIp(l)
        \/ LoggedIn(l)
    \/ Refuse
    \/ Cleanup
    \/ Tick

Spec == Init /\ [][Next]_vars

-----------------------------------------------------------------------------
(* An address with MaxAttempts failures within the window is blocked for   *)
(* as long as that is so: the list and the block, two fields that end by   *)
(* two clocks, never disagree, and a 429 always names the end of a block.  *)
BlockedWhenFull == Cardinality(Recent) >= MaxAttempts => Blocked

(* A block is passed only by logins that were let through before it was    *)
(* set: the check and the record have an await between them.               *)
PendingPredatesBlock ==
    \A l \in Logins :
        (pc[l] = "pending" /\ Blocked)
            => waited[l] >= BlockDurationMs - blockLeft

Succeeds == \E k \in Logins : pc[k] = "pending" /\ pc'[k] = "signing"

(* A failure within the window is forgotten only for a successful login or *)
(* because a block is over; neither the filters nor the clean-up timer,    *)
(* which run in between, ever take one.                                    *)
FailuresAreKept ==
    [][\A l \in Recent :
        \/ attempts'[l] # NotCounted
        \/ blockLeft = 0
        \/ Succeeds]_vars

(* A block ends at its time unless a login that was pending succeeds: the  *)
(* failures that arrive during it may prolong it and never shorten it.     *)
BlockIsNotShortened ==
    [][Blocked =>
        \/ blockLeft' >= blockLeft - 1
        \/ Succeeds]_vars
=============================================================================
