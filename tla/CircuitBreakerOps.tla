------------------------- MODULE CircuitBreakerOps -------------------------
(***************************************************************************)
(* The private state of one CircuitBreaker and what each of its methods    *)
(* makes of it, as operators on records, so that a module may hold one     *)
(* breaker or many.                                                        *)
(*                                                                         *)
(*   state         CLOSED, OPEN or HALF_OPEN                               *)
(*   failureCount  counted up to FailureThreshold: it is only compared     *)
(*   successCount  counted up to SuccessThreshold, for the same reason     *)
(*   openLeft      what is left of openUntil - Date.now(), in ticks        *)
(*                                                                         *)
(* The sliding window is the module SlidingWindowCounter; here its verdict *)
(* (enough requests, more than half of them failures) is the parameter     *)
(* byRate, any member of RateVerdicts: {FALSE} below the minimum number of *)
(* requests, BOOLEAN when nothing is known of the window.                  *)
(***************************************************************************)
EXTENDS Integers

CONSTANTS
    FailureThreshold,   \* consecutive failures that open the circuit
    SuccessThreshold,   \* successes in HALF_OPEN that close it
    OpenDuration,       \* ticks that the circuit stays open
    LongestOpen,        \* bound: ticks that forceOpen may ask for
    RateVerdicts        \* what the sliding window may say of a failure

ASSUME CircuitAssumption ==
    /\ FailureThreshold \in Nat \ {0}
    /\ SuccessThreshold \in Nat \ {0}
    /\ OpenDuration \in Nat \ {0}
    /\ LongestOpen \in Nat
    /\ OpenDuration <= LongestOpen
    /\ RateVerdicts \in SUBSET BOOLEAN
    /\ RateVerdicts # {}

CircuitState == {"CLOSED", "OPEN", "HALF_OPEN"}

Circuit ==
    [state : CircuitState, failureCount : 0..FailureThreshold,
     successCount : 0..SuccessThreshold, openLeft : 0..LongestOpen]

NewCircuit ==
    [state |-> "CLOSED", failureCount |-> 0, successCount |-> 0,
     openLeft |-> 0]

OneMore(count, cap) == IF count < cap THEN count + 1 ELSE cap

-----------------------------------------------------------------------------
(* Mutant: HALF_OPEN keeps the successes counted before it. *)
TransitionTo_KeepSuccesses(b, newState) ==
    CASE b.state = newState -> b
      [] b.state # newState /\ newState = "CLOSED" ->
            [b EXCEPT !.state = newState, !.failureCount = 0,
                      !.successCount = 0]
      [] b.state # newState /\ newState = "OPEN" ->
            [b EXCEPT !.state = newState, !.successCount = 0,
                      !.openLeft = OpenDuration]
      [] b.state # newState /\ newState = "HALF_OPEN" ->
            [b EXCEPT !.state = newState]

TransitionTo(b, newState) ==
    CASE b.state = newState -> b
      [] b.state # newState /\ newState = "CLOSED" ->
            [b EXCEPT !.state = newState, !.failureCount = 0,
                      !.successCount = 0]
      [] b.state # newState /\ newState = "OPEN" ->
            [b EXCEPT !.state = newState, !.successCount = 0,
                      !.openLeft = OpenDuration]
      [] b.state # newState /\ newState = "HALF_OPEN" ->
            [b EXCEPT !.state = newState, !.successCount = 0]

(* Mutant: the circuit never leaves OPEN by itself. *)
GetState_Stuck(b) == b

(* Mutant: an open circuit does not wait. *)
GetState_Early(b) ==
    IF b.state = "OPEN"
    THEN TransitionTo(b, "HALF_OPEN")
    ELSE b

(* What getState leaves behind; its answer is the state of the result. *)
GetState(b) ==
    IF b.state = "OPEN" /\ b.openLeft = 0
    THEN TransitionTo(b, "HALF_OPEN")
    ELSE b

(* Mutant: enough successes close the circuit from any state. *)
OnSuccess_AnyState(b) ==
    LET counted ==
            [state |-> b.state, failureCount |-> 0, openLeft |-> b.openLeft,
             successCount |-> OneMore(b.successCount, SuccessThreshold)]
    IN  IF counted.successCount = SuccessThreshold
        THEN TransitionTo(counted, "CLOSED")
        ELSE counted

OnSuccess(b) ==
    LET counted ==
            [state |-> b.state, failureCount |-> 0, openLeft |-> b.openLeft,
             successCount |-> OneMore(b.successCount, SuccessThreshold)]
    IN  IF b.state = "HALF_OPEN" /\ counted.successCount = SuccessThreshold
        THEN TransitionTo(counted, "CLOSED")
        ELSE counted

(* Mutant: a failure in any state opens the circuit anew. *)
OnFailure_AnyState(b, byRate) ==
    LET counted ==
            [b EXCEPT !.failureCount = OneMore(@, FailureThreshold)]
        opens == counted.failureCount = FailureThreshold \/ byRate
    IN  IF b.state # "CLOSED" \/ opens
        THEN [counted EXCEPT !.state = "OPEN", !.successCount = 0,
                             !.openLeft = OpenDuration]
        ELSE counted

OnFailure(b, byRate) ==
    LET counted ==
            [b EXCEPT !.failureCount = OneMore(@, FailureThreshold)]
        opens == counted.failureCount = FailureThreshold \/ byRate
    IN  IF b.state = "HALF_OPEN" \/ (b.state = "CLOSED" /\ opens)
        THEN TransitionTo(counted, "OPEN")
        ELSE counted

(* forceOpen writes openUntil first; opening the circuit overwrites it, so *)
(* the duration asked for only counts when the circuit is open already.    *)
ForceOpen(b, durationMs) ==
    TransitionTo([b EXCEPT !.openLeft = durationMs], "OPEN")

ForceClose(b) == TransitionTo(b, "CLOSED")

TimePasses(b) == [b EXCEPT !.openLeft = IF @ > 0 THEN @ - 1 ELSE 0]

-----------------------------------------------------------------------------
(* What Breaker tells of a circuit: the rest of openUntil is only looked   *)
(* at while the circuit is open, successCount only while it is half-open.  *)
View(b) ==
    [state |-> b.state,
     left |-> IF b.state = "OPEN" THEN b.openLeft ELSE 0,
     probes |-> IF b.state = "HALF_OPEN" THEN b.successCount ELSE 0]
=============================================================================
