------------------------ MODULE CircuitBreakerProofs ------------------------
(***************************************************************************)
(* Proofs about the breaker: CircuitBreaker itself, for any number of      *)
(* calls in progress, any thresholds and durations, and any number of      *)
(* interventions; then its ring of buckets, SlidingWindowCounter, for any  *)
(* window and grain; then AbuseDetector, the breakers of any number of     *)
(* services together, which rests on the same lemmas about the operators.  *)
(***************************************************************************)
EXTENDS CircuitBreaker, SlidingWindowCounter, AbuseDetector, TLAPS

Counts(b) ==
    /\ b.state = "CLOSED" => b.failureCount < FailureThreshold
    /\ b.state = "HALF_OPEN" => b.successCount < SuccessThreshold

CircuitInv == TypeOK /\ CountsBelowThreshold /\ HalfOpenCountIsExact

-----------------------------------------------------------------------------
(* What transitionTo returns, target by target. *)
LEMMA ToClosed ==
    ASSUME NEW b \in Circuit, b.state # "CLOSED"
    PROVE  TransitionTo(b, "CLOSED") =
              [state |-> "CLOSED", failureCount |-> 0, successCount |-> 0,
               openLeft |-> b.openLeft]
BY DEF TransitionTo, Circuit

LEMMA ToOpen ==
    ASSUME NEW b \in Circuit, b.state # "OPEN"
    PROVE  TransitionTo(b, "OPEN") =
              [state |-> "OPEN", failureCount |-> b.failureCount,
               successCount |-> 0, openLeft |-> OpenDuration]
BY DEF TransitionTo, Circuit

LEMMA ToHalfOpen ==
    ASSUME NEW b \in Circuit, b.state # "HALF_OPEN"
    PROVE  TransitionTo(b, "HALF_OPEN") =
              [state |-> "HALF_OPEN", failureCount |-> b.failureCount,
               successCount |-> 0, openLeft |-> b.openLeft]
BY DEF TransitionTo, Circuit

LEMMA ToSame ==
    ASSUME NEW b \in Circuit
    PROVE  TransitionTo(b, b.state) = b
BY DEF TransitionTo

LEMMA OneMoreBounds ==
    ASSUME NEW cap \in Nat, NEW n \in 0..cap
    PROVE  /\ OneMore(n, cap) \in 0..cap
           /\ cap # 0 => OneMore(n, cap) > 0
BY DEF OneMore

-----------------------------------------------------------------------------
(* getState keeps the counts below their thresholds, and only moves an     *)
(* open circuit whose time is over.                                        *)
LEMMA GetStateKeeps ==
    ASSUME NEW b \in Circuit, Counts(b)
    PROVE  /\ GetState(b) \in Circuit
           /\ Counts(GetState(b))
           /\ GetState(b).state # b.state =>
                /\ b.state = "OPEN"
                /\ GetState(b).state = "HALF_OPEN"
                /\ GetState(b).successCount = 0
           /\ GetState(b).state = b.state => GetState(b) = b
<1> USE CircuitAssumption DEF Circuit, CircuitState, Counts
<1>1. CASE b.state = "OPEN" /\ b.openLeft = 0
  <2>1. GetState(b) = TransitionTo(b, "HALF_OPEN")
    BY <1>1 DEF GetState
  <2>2. GetState(b) = [state |-> "HALF_OPEN", failureCount |-> b.failureCount,
                       successCount |-> 0, openLeft |-> b.openLeft]
    BY <1>1, <2>1, ToHalfOpen
  <2> QED
    BY <1>1, <2>2
<1>2. CASE ~(b.state = "OPEN" /\ b.openLeft = 0)
  BY <1>2 DEF GetState
<1> QED
  BY <1>1, <1>2

(* A success counts; the one that reaches the threshold of a half-open     *)
(* circuit closes it; in no other state does it move the circuit.          *)
LEMMA SuccessKeeps ==
    ASSUME NEW b \in Circuit, Counts(b)
    PROVE  /\ OnSuccess(b) \in Circuit
           /\ Counts(OnSuccess(b))
           /\ OnSuccess(b).state # b.state =>
                b.state = "HALF_OPEN" /\ OnSuccess(b).state = "CLOSED"
           /\ OnSuccess(b).state = b.state =>
                /\ OnSuccess(b).successCount =
                        OneMore(b.successCount, SuccessThreshold)
                /\ OnSuccess(b).openLeft = b.openLeft
<1> DEFINE n == OneMore(b.successCount, SuccessThreshold)
           counted == [state |-> b.state, failureCount |-> 0,
                       successCount |-> n, openLeft |-> b.openLeft]
<1>1. n \in 0..SuccessThreshold
  BY CircuitAssumption, OneMoreBounds DEF Circuit
<1>2. counted \in Circuit
  BY <1>1, CircuitAssumption DEF Circuit
<1>3. OnSuccess(b) = IF b.state = "HALF_OPEN" /\ n = SuccessThreshold
                     THEN TransitionTo(counted, "CLOSED") ELSE counted
  BY DEF OnSuccess
<1>4. CASE b.state = "HALF_OPEN" /\ n = SuccessThreshold
  <2>1. OnSuccess(b) = [state |-> "CLOSED", failureCount |-> 0,
                        successCount |-> 0, openLeft |-> b.openLeft]
    BY <1>2, <1>3, <1>4, ToClosed
  <2> QED
    BY <1>4, <2>1, CircuitAssumption DEF Circuit, CircuitState, Counts
<1>5. CASE ~(b.state = "HALF_OPEN" /\ n = SuccessThreshold)
  <2>1. OnSuccess(b) = counted
    BY <1>3, <1>5
  <2> QED
    BY <1>1, <1>2, <1>5, <2>1, CircuitAssumption DEF Counts
<1> QED
  BY <1>4, <1>5

(* A failure opens a half-open circuit, and a closed one when there is     *)
(* reason to; an open circuit only counts it.                              *)
LEMMA FailureKeeps ==
    ASSUME NEW b \in Circuit, Counts(b), NEW byRate \in BOOLEAN
    PROVE  /\ OnFailure(b, byRate) \in Circuit
           /\ Counts(OnFailure(b, byRate))
           /\ OnFailure(b, byRate).state # b.state =>
                /\ b.state \in {"CLOSED", "HALF_OPEN"}
                /\ OnFailure(b, byRate).state = "OPEN"
                /\ OnFailure(b, byRate).openLeft = OpenDuration
           /\ b.state = "OPEN" => OnFailure(b, byRate).openLeft = b.openLeft
           /\ b.state # "OPEN" => OnFailure(b, byRate).state # "HALF_OPEN"
<1> DEFINE n == OneMore(b.failureCount, FailureThreshold)
           counted == [state |-> b.state, failureCount |-> n,
                       successCount |-> b.successCount,
                       openLeft |-> b.openLeft]
           moves == \/ b.state = "HALF_OPEN"
                    \/ b.state = "CLOSED" /\ (n = FailureThreshold \/ byRate)
<1>1. n \in 0..FailureThreshold
  BY CircuitAssumption, OneMoreBounds DEF Circuit
<1>2. counted \in Circuit
  BY <1>1, CircuitAssumption DEF Circuit
<1>3. OnFailure(b, byRate) =
            IF moves THEN TransitionTo(counted, "OPEN") ELSE counted
  <2>1. [b EXCEPT !.failureCount = OneMore(@, FailureThreshold)] = counted
    BY DEF Circuit
  <2>2. counted.failureCount = n
    OBVIOUS
  <2> HIDE DEF n, counted
  <2> QED
    BY <2>1, <2>2, Zenon DEF OnFailure
<1>4. CASE moves
  <2>1. OnFailure(b, byRate) =
            [state |-> "OPEN", failureCount |-> n, successCount |-> 0,
             openLeft |-> OpenDuration]
    BY <1>2, <1>3, <1>4, ToOpen
  <2>2. b.state \in {"CLOSED", "HALF_OPEN"}
    BY <1>4
  <2> QED
    BY <1>1, <2>1, <2>2, CircuitAssumption DEF Circuit, CircuitState, Counts
<1>5. CASE ~moves
  <2>1. OnFailure(b, byRate) = counted
    BY <1>3, <1>5
  <2>2. b.state = "CLOSED" => n # FailureThreshold
    BY <1>5
  <2>3. b.state # "HALF_OPEN"
    BY <1>5
  <2> QED
    BY <1>1, <1>2, <2>1, <2>2, <2>3, CircuitAssumption DEF Counts
<1> QED
  BY <1>4, <1>5

(* An operator's intervention leaves a well-formed circuit that is open or *)
(* closed, or, when forceOpen finds it open, as it was but for its time.   *)
LEMMA ForceKeeps ==
    ASSUME NEW b \in Circuit, Counts(b), NEW d \in 1..LongestOpen
    PROVE  /\ ForceOpen(b, d) \in Circuit
           /\ Counts(ForceOpen(b, d))
           /\ ForceOpen(b, d).state = "OPEN"
           /\ ForceOpen(b, d).openLeft \in 1..LongestOpen
           /\ ForceClose(b) \in Circuit
           /\ Counts(ForceClose(b))
           /\ ForceClose(b).state = "CLOSED"
           /\ NewCircuit \in Circuit
           /\ Counts(NewCircuit)
           /\ NewCircuit.state = "CLOSED"
<1> USE CircuitAssumption DEF Circuit, CircuitState, Counts
<1> DEFINE timed == [b EXCEPT !.openLeft = d]
<1>1. timed \in Circuit /\ timed.state = b.state
  OBVIOUS
<1>2. /\ ForceOpen(b, d) \in Circuit
      /\ Counts(ForceOpen(b, d))
      /\ ForceOpen(b, d).state = "OPEN"
      /\ ForceOpen(b, d).openLeft \in 1..LongestOpen
  <2>1. CASE b.state = "OPEN"
    <3>1. ForceOpen(b, d) = timed
      BY <1>1, <2>1, ToSame DEF ForceOpen
    <3> QED
      BY <1>1, <2>1, <3>1
  <2>2. CASE b.state # "OPEN"
    <3>1. ForceOpen(b, d) =
            [state |-> "OPEN", failureCount |-> timed.failureCount,
             successCount |-> 0, openLeft |-> OpenDuration]
      BY <1>1, <2>2, ToOpen DEF ForceOpen
    <3> QED
      BY <1>1, <3>1
  <2> QED
    BY <2>1, <2>2
<1>3. /\ ForceClose(b) \in Circuit
      /\ Counts(ForceClose(b))
      /\ ForceClose(b).state = "CLOSED"
  <2>1. CASE b.state = "CLOSED"
    BY <2>1, ToSame DEF ForceClose
  <2>2. CASE b.state # "CLOSED"
    BY <2>2, ToClosed DEF ForceClose
  <2> QED
    BY <2>1, <2>2
<1>4. NewCircuit \in Circuit /\ Counts(NewCircuit) /\ NewCircuit.state = "CLOSED"
  BY DEF NewCircuit
<1> QED
  BY <1>2, <1>3, <1>4

(* Time only counts down. *)
LEMMA TimeKeeps ==
    ASSUME NEW b \in Circuit, Counts(b)
    PROVE  /\ TimePasses(b) \in Circuit
           /\ Counts(TimePasses(b))
           /\ TimePasses(b).state = b.state
           /\ TimePasses(b).successCount = b.successCount
BY CircuitAssumption DEF Circuit, CircuitState, Counts, TimePasses

-----------------------------------------------------------------------------
(* What the operators do to the view that Breaker has of a circuit. *)
ClosedView == [state |-> "CLOSED", left |-> 0, probes |-> 0]
OpenView(t) == [state |-> "OPEN", left |-> t, probes |-> 0]
HalfOpenView(n) == [state |-> "HALF_OPEN", left |-> 0, probes |-> n]

(* The steps of Breaker that are not forced, from view v to view w. *)
Unforced(v, w) ==
    \/ v = w
    \/ v.state # "OPEN" /\ w = OpenView(OpenDuration)
    \/ \E t \in 1..LongestOpen : v = OpenView(t) /\ w = OpenView(t - 1)
    \/ v = OpenView(0) /\ w = HalfOpenView(0)
    \/ \E n \in 0..(SuccessThreshold - 1) :
          /\ v = HalfOpenView(n)
          /\ w = IF n + 1 < SuccessThreshold THEN HalfOpenView(n + 1)
                                             ELSE ClosedView

LEMMA ViewOfCircuit ==
    ASSUME NEW b \in Circuit
    PROVE  /\ View(b).state = b.state
           /\ b.state = "CLOSED" => View(b) = ClosedView
           /\ b.state = "OPEN" => View(b) = OpenView(b.openLeft)
           /\ b.state = "HALF_OPEN" => View(b) = HalfOpenView(b.successCount)
           /\ b.state \in {"CLOSED", "OPEN", "HALF_OPEN"}
BY DEF View, ClosedView, OpenView, HalfOpenView, Circuit, CircuitState

LEMMA GetStateView ==
    ASSUME NEW b \in Circuit, Counts(b)
    PROVE  Unforced(View(b), View(GetState(b)))
<1>1. CASE GetState(b).state = b.state
  BY <1>1, GetStateKeeps DEF Unforced
<1>2. CASE GetState(b).state # b.state
  <2>1. b.state = "OPEN" /\ b.openLeft = 0
    BY <1>2 DEF GetState
  <2>2. View(b) = OpenView(0)
    BY <2>1, ViewOfCircuit
  <2>3. View(GetState(b)) = HalfOpenView(0)
    BY <1>2, GetStateKeeps, ViewOfCircuit
  <2> QED
    BY <2>2, <2>3 DEF Unforced
<1> QED
  BY <1>1, <1>2

LEMMA SuccessView ==
    ASSUME NEW b \in Circuit, Counts(b)
    PROVE  Unforced(View(b), View(OnSuccess(b)))
<1> DEFINE c == OnSuccess(b)
           n == b.successCount
<1>1. /\ c \in Circuit /\ Counts(c)
      /\ c.state # b.state => b.state = "HALF_OPEN" /\ c.state = "CLOSED"
      /\ c.state = b.state =>
            /\ c.successCount = OneMore(n, SuccessThreshold)
            /\ c.openLeft = b.openLeft
  BY SuccessKeeps
<1>2. n \in 0..SuccessThreshold /\ SuccessThreshold \in Nat \ {0}
  BY CircuitAssumption DEF Circuit
<1> HIDE DEF c
<1>3. CASE b.state = "CLOSED"
  <2>1. View(b) = ClosedView /\ View(c) = ClosedView
    BY <1>1, <1>3, ViewOfCircuit
  <2> QED
    BY <2>1 DEF Unforced, c
<1>4. CASE b.state = "OPEN"
  <2>1. View(b) = OpenView(b.openLeft) /\ View(c) = OpenView(b.openLeft)
    BY <1>1, <1>4, ViewOfCircuit
  <2> QED
    BY <2>1 DEF Unforced, c
<1>5. CASE b.state = "HALF_OPEN"
  <2>1. n \in 0..(SuccessThreshold - 1)
    BY <1>2, <1>5 DEF Counts
  <2>2. View(b) = HalfOpenView(n)
    BY <1>5, ViewOfCircuit
  <2>3. View(c) = IF n + 1 < SuccessThreshold THEN HalfOpenView(n + 1)
                                              ELSE ClosedView
    <3>1. OnSuccess(b).state = "HALF_OPEN" <=> n + 1 < SuccessThreshold
      <4> DEFINE m == OneMore(n, SuccessThreshold)
                 counted == [state |-> b.state, failureCount |-> 0,
                             successCount |-> m, openLeft |-> b.openLeft]
      <4>1. m = n + 1
        BY <1>2, <2>1 DEF OneMore
      <4>2. c = IF m = SuccessThreshold THEN TransitionTo(counted, "CLOSED")
                                        ELSE counted
        BY <1>5 DEF OnSuccess, c
      <4>3. counted \in Circuit
        BY <1>2, <2>1, <4>1, CircuitAssumption DEF Circuit
      <4>4. CASE m = SuccessThreshold
        <5>1. c.state = "CLOSED"
          BY <1>5, <4>2, <4>3, <4>4, ToClosed
        <5> QED
          BY <1>2, <2>1, <4>1, <4>4, <5>1 DEF c
      <4>5. CASE m # SuccessThreshold
        <5>1. c.state = "HALF_OPEN"
          BY <1>5, <4>2, <4>5
        <5>2. n + 1 < SuccessThreshold
          BY <1>2, <2>1, <4>1, <4>5
        <5> QED
          BY <5>1, <5>2 DEF c
      <4> QED
        BY <4>4, <4>5
    <3>2. CASE n + 1 < SuccessThreshold
      <4>1. c.state = b.state /\ c.successCount = n + 1
        BY <1>1, <1>2, <1>5, <3>1, <3>2 DEF OneMore, c
      <4> QED
        BY <1>1, <1>5, <3>2, <4>1, ViewOfCircuit
    <3>3. CASE ~(n + 1 < SuccessThreshold)
      <4>1. c.state = "CLOSED"
        BY <1>1, <1>5, <3>1, <3>3 DEF c
      <4> QED
        BY <1>1, <3>3, <4>1, ViewOfCircuit
    <3> QED
      BY <3>2, <3>3
  <2> QED
    BY <2>1, <2>2, <2>3 DEF Unforced, c
<1> QED
  BY <1>3, <1>4, <1>5, ViewOfCircuit

LEMMA FailureView ==
    ASSUME NEW b \in Circuit, Counts(b), NEW byRate \in BOOLEAN
    PROVE  Unforced(View(b), View(OnFailure(b, byRate)))
<1> DEFINE c == OnFailure(b, byRate)
<1>1. /\ c \in Circuit
      /\ c.state # b.state => /\ b.state \in {"CLOSED", "HALF_OPEN"}
                              /\ c.state = "OPEN"
                              /\ c.openLeft = OpenDuration
      /\ b.state = "OPEN" => c.openLeft = b.openLeft
      /\ b.state # "OPEN" => c.state # "HALF_OPEN"
  BY FailureKeeps, Zenon
<1> HIDE DEF c
<1>2. CASE c.state # b.state
  <2>1. View(c) = OpenView(OpenDuration) /\ View(b).state # "OPEN"
    BY <1>1, <1>2, ViewOfCircuit
  <2> QED
    BY <2>1 DEF Unforced, c
<1>3. CASE c.state = b.state
  <2>1. b.state \in {"CLOSED", "OPEN"}
    BY <1>1, <1>3, ViewOfCircuit
  <2>2. View(c) = View(b)
    BY <1>1, <1>3, <2>1, ViewOfCircuit
  <2> QED
    BY <2>2 DEF Unforced, c
<1> QED
  BY <1>2, <1>3

LEMMA TimeView ==
    ASSUME NEW b \in Circuit, Counts(b)
    PROVE  Unforced(View(b), View(TimePasses(b)))
<1> DEFINE c == TimePasses(b)
<1>1. /\ c \in Circuit
      /\ c.state = b.state
      /\ c.successCount = b.successCount
      /\ c.openLeft = IF b.openLeft > 0 THEN b.openLeft - 1 ELSE 0
  BY TimeKeeps DEF TimePasses, Circuit
<1>2. b.openLeft \in 0..LongestOpen /\ LongestOpen \in Nat
  BY CircuitAssumption DEF Circuit
<1> HIDE DEF c
<1>3. CASE b.state = "OPEN" /\ b.openLeft > 0
  <2>1. b.openLeft \in 1..LongestOpen
    BY <1>2, <1>3
  <2>2. View(b) = OpenView(b.openLeft) /\ View(c) = OpenView(b.openLeft - 1)
    BY <1>1, <1>3, ViewOfCircuit
  <2> QED
    BY <2>1, <2>2 DEF Unforced, c
<1>4. CASE ~(b.state = "OPEN" /\ b.openLeft > 0)
  <2>1. View(c) = View(b)
    BY <1>1, <1>2, <1>4 DEF View
  <2> QED
    BY <2>1 DEF Unforced, c
<1> QED
  BY <1>3, <1>4

LEMMA ForceView ==
    ASSUME NEW b \in Circuit, Counts(b), NEW d \in 1..LongestOpen
    PROVE  /\ \E t \in 1..LongestOpen : View(ForceOpen(b, d)) = OpenView(t)
           /\ View(ForceClose(b)) = ClosedView
           /\ View(NewCircuit) = ClosedView
BY ForceKeeps, ViewOfCircuit

-----------------------------------------------------------------------------
(* Every step keeps the invariant. *)
LEMMA Initially == Init => CircuitInv
<1> SUFFICES ASSUME Init PROVE CircuitInv
  OBVIOUS
<1> USE CircuitAssumption, ForcedAssumption DEF Init
<1>1. circuit \in Circuit /\ circuit.state = "CLOSED" /\ circuit.failureCount = 0
  BY DEF NewCircuit, Circuit, CircuitState
<1> QED
  BY <1>1 DEF CircuitInv, TypeOK, CountsBelowThreshold, HalfOpenCountIsExact

(* The history variable stays in its range and restarts with each state.   *)
LEMMA FollowKeeps ==
    ASSUME successes \in 0..SuccessThreshold, NEW k \in {0, 1}, Follow(k)
    PROVE  /\ successes' \in 0..SuccessThreshold
           /\ circuit'.state # circuit.state => successes' = 0
           /\ (circuit'.state = circuit.state /\ k = 1) =>
                    successes' = OneMore(successes, SuccessThreshold)
           /\ (circuit'.state = circuit.state /\ k = 0) =>
                    successes' = successes
BY CircuitAssumption, OneMoreBounds DEF Follow

LEMMA Step == CircuitInv /\ [Next]_vars => CircuitInv'
<1> SUFFICES ASSUME CircuitInv, [Next]_vars PROVE CircuitInv'
  OBVIOUS
<1>t. /\ circuit \in Circuit
      /\ Counts(circuit)
      /\ successes \in 0..SuccessThreshold
      /\ TypeOK
      /\ circuit.state = "HALF_OPEN" => circuit.successCount = successes
  BY DEF CircuitInv, TypeOK, Counts, CountsBelowThreshold, HalfOpenCountIsExact
<1>s. SUFFICES /\ TypeOK'
               /\ Counts(circuit')
               /\ circuit'.state = "HALF_OPEN" =>
                        circuit'.successCount = successes'
  BY DEF CircuitInv, Counts, CountsBelowThreshold, HalfOpenCountIsExact
<1>1. ASSUME NEW c \in Calls, Execute(c)
      PROVE  /\ TypeOK' /\ Counts(circuit')
             /\ circuit'.state = "HALF_OPEN" =>
                        circuit'.successCount = successes'
  <2>1. Follow(0) /\ circuit' = GetState(circuit)
    BY <1>1 DEF Execute
  <2>2. successes' \in 0..SuccessThreshold /\ running' \in SUBSET Calls
    BY <1>1, <1>t, <2>1, FollowKeeps DEF Execute, TypeOK
  <2>3. TypeOK' /\ Counts(circuit')
    BY <1>1, <1>t, <2>1, <2>2, GetStateKeeps DEF Execute, TypeOK
  <2>4. circuit'.state = "HALF_OPEN" => circuit'.successCount = successes'
    BY <1>t, <2>1, GetStateKeeps, FollowKeeps
  <2> QED
    BY <2>3, <2>4
<1>2. ASSUME NEW c \in Calls, Succeed(c)
      PROVE  /\ TypeOK' /\ Counts(circuit')
             /\ circuit'.state = "HALF_OPEN" =>
                        circuit'.successCount = successes'
  <2>1. Follow(1) /\ circuit' = OnSuccess(circuit)
    BY <1>2 DEF Succeed
  <2>2. successes' \in 0..SuccessThreshold /\ running' \in SUBSET Calls
    BY <1>2, <1>t, <2>1, FollowKeeps DEF Succeed, TypeOK
  <2>3. TypeOK' /\ Counts(circuit')
    BY <1>2, <1>t, <2>1, <2>2, SuccessKeeps DEF Succeed, TypeOK
  <2>4. circuit'.state = "HALF_OPEN" => circuit'.successCount = successes'
    BY <1>t, <2>1, SuccessKeeps, FollowKeeps
  <2> QED
    BY <2>3, <2>4
<1>3. ASSUME NEW c \in Calls, Fail(c)
      PROVE  /\ TypeOK' /\ Counts(circuit')
             /\ circuit'.state = "HALF_OPEN" =>
                        circuit'.successCount = successes'
  <2>1. PICK byRate \in RateVerdicts : circuit' = OnFailure(circuit, byRate)
    BY <1>3 DEF Fail
  <2>2. byRate \in BOOLEAN /\ Follow(0)
    BY <1>3, CircuitAssumption, Zenon DEF Fail
  <2>3. /\ circuit' \in Circuit /\ Counts(circuit')
        /\ circuit'.state # circuit.state =>
                /\ circuit.state \in {"CLOSED", "HALF_OPEN"}
                /\ circuit'.state = "OPEN"
    BY <1>t, <2>1, <2>2, FailureKeeps, Zenon
  <2>4. successes' \in 0..SuccessThreshold /\ running' \in SUBSET Calls
    BY <1>3, <1>t, <2>2, FollowKeeps DEF Fail, TypeOK
  <2>5. TypeOK'
    BY <1>3, <1>t, <2>3, <2>4 DEF Fail, TypeOK
  <2>6. circuit'.state # "HALF_OPEN"
    <3>1. CASE circuit.state = "HALF_OPEN"
      BY <1>t, <2>1, <2>2, <3>1, FailureKeeps, Zenon
    <3>2. CASE circuit.state # "HALF_OPEN"
      BY <2>3, <3>2
    <3> QED
      BY <3>1, <3>2
  <2> QED
    BY <2>3, <2>5, <2>6
<1>4. ASSUME GetHealthStatus
      PROVE  /\ TypeOK' /\ Counts(circuit')
             /\ circuit'.state = "HALF_OPEN" =>
                        circuit'.successCount = successes'
  <2>1. Follow(0) /\ circuit' = GetState(circuit)
    BY <1>4 DEF GetHealthStatus
  <2>2. successes' \in 0..SuccessThreshold
    BY <1>t, <2>1, FollowKeeps
  <2>3. TypeOK' /\ Counts(circuit')
    BY <1>4, <1>t, <2>1, <2>2, GetStateKeeps DEF GetHealthStatus, TypeOK
  <2>4. circuit'.state = "HALF_OPEN" => circuit'.successCount = successes'
    BY <1>t, <2>1, GetStateKeeps, FollowKeeps
  <2> QED
    BY <2>3, <2>4
<1>5. ASSUME Intervene
      PROVE  /\ TypeOK' /\ Counts(circuit')
             /\ circuit'.state = "HALF_OPEN" =>
                        circuit'.successCount = successes'
  <2>0. /\ \/ \E d \in 1..LongestOpen : circuit' = ForceOpen(circuit, d)
           \/ circuit' = ForceClose(circuit)
           \/ circuit' = NewCircuit
        /\ Follow(0)
        /\ forced < MaxForced
        /\ forced' = forced + 1
        /\ UNCHANGED <<running, up>>
    BY <1>5, Zenon DEF Intervene
  <2>1. /\ circuit' \in Circuit /\ Counts(circuit')
        /\ circuit'.state \in {"OPEN", "CLOSED"}
    <3>1. CASE \E d \in 1..LongestOpen : circuit' = ForceOpen(circuit, d)
      BY <1>t, <3>1, ForceKeeps
    <3>2. CASE circuit' = ForceClose(circuit) \/ circuit' = NewCircuit
      <4>1. 1 \in 1..LongestOpen
        BY CircuitAssumption
      <4> QED
        BY <1>t, <3>2, <4>1, ForceKeeps
    <3> QED
      BY <2>0, <3>1, <3>2
  <2>2. successes' \in 0..SuccessThreshold
    BY <1>t, <2>0, FollowKeeps
  <2>3. forced' \in 0..MaxForced
    BY <1>t, <2>0, ForcedAssumption DEF TypeOK
  <2>4. TypeOK'
    BY <1>t, <2>0, <2>1, <2>2, <2>3 DEF TypeOK
  <2> QED
    BY <2>1, <2>4
<1>6. ASSUME Tick
      PROVE  /\ TypeOK' /\ Counts(circuit')
             /\ circuit'.state = "HALF_OPEN" =>
                        circuit'.successCount = successes'
  BY <1>6, <1>t, TimeKeeps DEF Tick, TypeOK
<1>7. ASSUME ServiceToggles
      PROVE  /\ TypeOK' /\ Counts(circuit')
             /\ circuit'.state = "HALF_OPEN" =>
                        circuit'.successCount = successes'
  <2>1. up' \in BOOLEAN
    BY <1>7, Zenon DEF ServiceToggles
  <2> QED
    BY <1>7, <1>t, <2>1 DEF ServiceToggles, TypeOK
<1>8. CASE UNCHANGED vars
  <2>1. TypeOK' /\ Counts(circuit')
    BY <1>8, <1>t DEF vars, TypeOK, Counts
  <2> QED
    BY <1>8, <1>t, <2>1 DEF vars
<1> QED
  BY <1>1, <1>2, <1>3, <1>4, <1>5, <1>6, <1>7, <1>8 DEF Next

-----------------------------------------------------------------------------
(* In every reachable state the circuit is well formed, a closed one has   *)
(* not reached its failure threshold nor a half-open one its success       *)
(* threshold, and the latter counts the successes it saw itself, no more.  *)
THEOREM CountsHold ==
    Spec => [](TypeOK /\ CountsBelowThreshold /\ HalfOpenCountIsExact)
<1>1. CircuitInv => TypeOK /\ CountsBelowThreshold /\ HalfOpenCountIsExact
  BY DEF CircuitInv
<1>2. CircuitInv /\ [Next]_vars => CircuitInv'
  BY Step
<1> QED
  BY Initially, <1>1, <1>2, PTL DEF Spec

(* Breaker's steps, in terms of the views. *)
LEMMA ContractCases ==
    ASSUME \/ Unforced(View(circuit), View(circuit)') /\ forced' = forced
           \/ /\ \/ View(circuit)' = ClosedView
                 \/ \E t \in 1..LongestOpen : View(circuit)' = OpenView(t)
              /\ forced' = forced + 1
    PROVE  [Contract!BreakerNext]_(Contract!breakerVars)
BY DEF Unforced, ClosedView, OpenView, HalfOpenView, Contract!BreakerNext,
       Contract!breakerVars, Contract!Opens, Contract!Waits,
       Contract!LetsProbesThrough, Contract!ProbeSucceeds, Contract!IsForced,
       Contract!Closed, Contract!Open, Contract!HalfOpen

LEMMA ContractStep ==
    ASSUME CircuitInv, [Next]_vars
    PROVE  [Contract!BreakerNext]_(Contract!breakerVars)
<1>t. circuit \in Circuit /\ Counts(circuit)
  BY DEF CircuitInv, TypeOK, Counts, CountsBelowThreshold
<1>1. CASE Intervene
  <2>1. /\ \/ \E d \in 1..LongestOpen : circuit' = ForceOpen(circuit, d)
           \/ circuit' = ForceClose(circuit)
           \/ circuit' = NewCircuit
        /\ forced' = forced + 1
    BY <1>1, Zenon DEF Intervene
  <2>2. 1 \in 1..LongestOpen
    BY CircuitAssumption
  <2>3. \/ View(circuit') = ClosedView
        \/ \E t \in 1..LongestOpen : View(circuit') = OpenView(t)
    BY <1>t, <2>1, <2>2, ForceView
  <2> QED
    BY <2>1, <2>3, ContractCases
<1>2. CASE ~Intervene
  <2>1. CASE (\E c \in Calls : Execute(c)) \/ GetHealthStatus
    <3>1. circuit' = GetState(circuit) /\ forced' = forced
      BY <2>1 DEF Execute, GetHealthStatus
    <3> QED
      BY <1>t, <3>1, GetStateView, ContractCases
  <2>2. CASE \E c \in Calls : Succeed(c)
    <3>1. circuit' = OnSuccess(circuit) /\ forced' = forced
      BY <2>2 DEF Succeed
    <3> QED
      BY <1>t, <3>1, SuccessView, ContractCases
  <2>3. CASE \E c \in Calls : Fail(c)
    <3>1. PICK byRate \in RateVerdicts : circuit' = OnFailure(circuit, byRate)
      BY <2>3 DEF Fail
    <3>2. byRate \in BOOLEAN
      BY CircuitAssumption, Zenon
    <3>3. forced' = forced
      BY <2>3 DEF Fail
    <3>4. Unforced(View(circuit), View(circuit'))
      BY <1>t, <3>1, <3>2, FailureView, Zenon
    <3> QED
      BY <3>3, <3>4, ContractCases
  <2>4. CASE Tick
    <3>1. circuit' = TimePasses(circuit) /\ forced' = forced
      BY <2>4 DEF Tick
    <3> QED
      BY <1>t, <3>1, TimeView, ContractCases
  <2>5. CASE UNCHANGED <<circuit, forced>>
    BY <2>5, ContractCases DEF Unforced
  <2> QED
    BY <1>2, <2>1, <2>2, <2>3, <2>4, <2>5 DEF Next, vars, ServiceToggles
<1> QED
  BY <1>1, <1>2

(* For any number of calls and interventions, and any thresholds, the      *)
(* circuit implements Breaker: it waits out its time and closes after      *)
(* SuccessThreshold probes in a row, unless an operator forces it.         *)
THEOREM KeepsContractHolds == Spec => KeepsContract
<1>1. Init => Contract!BreakerInit
  BY DEF Init, NewCircuit, View, Contract!BreakerInit, Contract!Closed
<1>2. CircuitInv /\ [Next]_vars =>
          [Contract!BreakerNext]_(Contract!breakerVars)
  BY ContractStep
<1>3. CircuitInv /\ [Next]_vars => CircuitInv'
  BY Step
<1> QED
  BY Initially, <1>1, <1>2, <1>3, PTL
     DEF Spec, KeepsContract, Contract!BreakerSpec

(* A result that arrives while the circuit is open leaves it open, for as  *)
(* long as it was to stay open.                                            *)
THEOREM LateResultsHold == Spec => LateResultsDoNotMoveIt
<1> DEFINE Unmoved == \A c \in Calls :
        (circuit.state = "OPEN" /\ c \in running \ running') =>
            /\ circuit'.state = "OPEN"
            /\ circuit'.openLeft = circuit.openLeft
<1>1. CircuitInv /\ [Next]_vars => CircuitInv'
  BY Step
<1>2. CircuitInv /\ [Next]_vars => [Unmoved]_vars
  <2> SUFFICES ASSUME CircuitInv, Next, NEW c \in Calls,
                      circuit.state = "OPEN", c \in running \ running'
               PROVE  /\ circuit'.state = "OPEN"
                      /\ circuit'.openLeft = circuit.openLeft
    BY DEF Unmoved
  <2>t. circuit \in Circuit /\ Counts(circuit)
    BY DEF CircuitInv, TypeOK, Counts, CountsBelowThreshold
  <2>1. CASE \E d \in Calls : Succeed(d)
    <3>1. circuit' = OnSuccess(circuit)
      BY <2>1 DEF Succeed
    <3> QED
      BY <2>t, <3>1, SuccessKeeps
  <2>2. CASE \E d \in Calls : Fail(d)
    <3>1. PICK byRate \in RateVerdicts : circuit' = OnFailure(circuit, byRate)
      BY <2>2 DEF Fail
    <3>2. byRate \in BOOLEAN
      BY CircuitAssumption, Zenon
    <3>3. circuit.state \notin {"CLOSED", "HALF_OPEN"}
      OBVIOUS
    <3> QED
      BY <2>t, <3>1, <3>2, <3>3, FailureKeeps, Zenon
  <2>3. CASE \E d \in Calls : Execute(d)
    BY <2>3 DEF Execute
  <2>4. CASE GetHealthStatus \/ Intervene \/ Tick \/ ServiceToggles
    <3>1. CASE Intervene
      <4>1. UNCHANGED <<running, up>>
        BY <3>1, Zenon DEF Intervene
      <4> QED
        BY <4>1
    <3>2. CASE GetHealthStatus \/ Tick \/ ServiceToggles
      BY <3>2 DEF GetHealthStatus, Tick, ServiceToggles
    <3> QED
      BY <2>4, <3>1, <3>2
  <2> QED
    BY <2>1, <2>2, <2>3, <2>4 DEF Next
<1> QED
  BY Initially, <1>1, <1>2, PTL DEF Spec, LateResultsDoNotMoveIt

-----------------------------------------------------------------------------
(* The ring of buckets. *)

(* What a bucket counts was recorded at or after its timestamp, which is   *)
(* not in the future.  This is what the cutoff of getStats relies on.      *)
BucketsAreOrdered ==
    \A i \in Indexes :
        /\ buckets[i].timestamp <= now
        /\ \A o \in buckets[i].counted :
              Recorded(o) /\ buckets[i].timestamp <= recordedAt[o]

WindowInv == WindowTypeOK /\ BucketsAreOrdered

-----------------------------------------------------------------------------
LEMMA IndexInRange == WindowTypeOK => BucketIndex \in Indexes
<1> SUFFICES ASSUME WindowTypeOK PROVE BucketIndex \in Indexes
  OBVIOUS
<1> DEFINE q == now \div BucketDuration
<1>1. q \in Int
  BY WindowAssumption DEF WindowTypeOK
<1> HIDE DEF q
<1>2. q % WindowSize \in 0..(WindowSize - 1)
  BY <1>1, WindowAssumption
<1> QED
  BY <1>2 DEF BucketIndex, Indexes, q

(* The current bucket is one of the ring's, or an empty one started now.   *)
LEMMA CurrentBucketOrdered ==
    ASSUME WindowInv
    PROVE  /\ CurrentBucket.timestamp \in 0..MaxNow
           /\ CurrentBucket.timestamp <= now
           /\ CurrentBucket.counted \subseteq buckets[BucketIndex].counted
           /\ \A o \in CurrentBucket.counted :
                CurrentBucket.timestamp <= recordedAt[o]
<1>1. BucketIndex \in Indexes
  BY IndexInRange DEF WindowInv
<1>2. now \in 0..MaxNow
  BY WindowAssumption DEF WindowInv, WindowTypeOK
<1>3. CASE buckets[BucketIndex].timestamp < now - Window
  <2>1. CurrentBucket = [timestamp |-> now, counted |-> {}]
    BY <1>3 DEF CurrentBucket, EmptyBucket
  <2> QED
    BY <1>2, <2>1
<1>4. CASE ~(buckets[BucketIndex].timestamp < now - Window)
  <2>1. CurrentBucket = buckets[BucketIndex]
    BY <1>4 DEF CurrentBucket
  <2> QED
    BY <1>1, <2>1 DEF WindowInv, WindowTypeOK, BucketsAreOrdered
<1> QED
  BY <1>3, <1>4

LEMMA WindowInitially == WindowInit => WindowInv
BY WindowAssumption
   DEF WindowInit, WindowInv, WindowTypeOK, BucketsAreOrdered, EmptyBucket,
       Indexes, Never, Forgotten, Recorded

(* Recording adds an outcome that no bucket counts yet to a bucket that    *)
(* was started before it.                                                  *)
LEMMA RecordKeeps ==
    ASSUME WindowInv, NEW o \in Outcomes, Record(o)
    PROVE  WindowInv'
<1> DEFINE b == [timestamp |-> CurrentBucket.timestamp,
                 counted |-> CurrentBucket.counted \union {o}]
<1>1. /\ BucketIndex \in Indexes
      /\ now \in Start..MaxNow
      /\ recordedAt[o] = Never
      /\ recordedAt' = [recordedAt EXCEPT ![o] = now]
      /\ buckets' = [buckets EXCEPT ![BucketIndex] = b]
      /\ now' = now
  BY IndexInRange DEF Record, WindowInv, WindowTypeOK
<1>2. /\ b.timestamp \in 0..MaxNow
      /\ b.timestamp <= now
      /\ b.counted \subseteq buckets[BucketIndex].counted \union {o}
      /\ \A p \in CurrentBucket.counted : b.timestamp <= recordedAt[p]
  BY CurrentBucketOrdered
<1>3. \A i \in Indexes : o \notin buckets[i].counted
  BY <1>1 DEF WindowInv, BucketsAreOrdered, Recorded
<1>4. b \in [timestamp : 0..MaxNow, counted : SUBSET Outcomes]
  BY <1>1, <1>2 DEF WindowInv, WindowTypeOK
<1>5. \A i \in Indexes :
        buckets'[i] = IF i = BucketIndex THEN b ELSE buckets[i]
  BY <1>1 DEF WindowInv, WindowTypeOK
<1>6. WindowTypeOK'
  BY <1>1, <1>4 DEF WindowInv, WindowTypeOK
<1>7. \A p \in Outcomes :
        recordedAt'[p] = IF p = o THEN now ELSE recordedAt[p]
  BY <1>1 DEF WindowInv, WindowTypeOK
<1>8. BucketsAreOrdered'
  <2> SUFFICES ASSUME NEW i \in Indexes
               PROVE  /\ buckets'[i].timestamp <= now
                      /\ \A p \in buckets'[i].counted :
                            /\ Recorded(p)'
                            /\ buckets'[i].timestamp <= recordedAt'[p]
    BY <1>1 DEF BucketsAreOrdered
  <2>1. \A j \in Indexes : buckets[j].counted \subseteq Outcomes
    BY DEF WindowInv, WindowTypeOK
  <2>2. now \notin {Never, Forgotten}
    BY <1>1, WindowAssumption DEF Never, Forgotten, Recorded
  <2>3. CASE i = BucketIndex
    <3>1. buckets'[i] = b
      BY <1>5, <2>3
    <3>2. ASSUME NEW p \in b.counted
          PROVE  Recorded(p)' /\ b.timestamp <= recordedAt'[p]
      <4>1. CASE p = o
        BY <1>2, <1>7, <2>2, <4>1 DEF Recorded
      <4>2. CASE p # o
        <5>1. p \in CurrentBucket.counted /\ p \in buckets[BucketIndex].counted
          BY <1>2, <3>2, <4>2
        <5>2. Recorded(p) /\ p \in Outcomes
          BY <1>1, <2>1, <5>1 DEF WindowInv, BucketsAreOrdered
        <5> QED
          BY <1>2, <1>7, <4>2, <5>1, <5>2 DEF Recorded
      <4> QED
        BY <4>1, <4>2
    <3> QED
      BY <1>2, <3>1, <3>2
  <2>4. CASE i # BucketIndex
    <3>1. buckets'[i] = buckets[i]
      BY <1>5, <2>4
    <3>2. \A p \in buckets[i].counted : recordedAt'[p] = recordedAt[p]
      BY <1>3, <1>7, <2>1
    <3> QED
      BY <3>1, <3>2 DEF WindowInv, BucketsAreOrdered, Recorded
  <2> QED
    BY <2>3, <2>4
<1> QED
  BY <1>6, <1>8 DEF WindowInv

LEMMA WindowStep == WindowInv /\ [WindowNext]_windowVars => WindowInv'
<1> SUFFICES ASSUME WindowInv, [WindowNext]_windowVars PROVE WindowInv'
  OBVIOUS
<1>1. CASE \E o \in Outcomes : Record(o)
  BY <1>1, RecordKeeps
<1>2. CASE Reset
  BY <1>2, WindowAssumption
     DEF Reset, WindowInv, WindowTypeOK, BucketsAreOrdered,
         EmptyBucket, Indexes, Never, Forgotten, Recorded
<1>3. CASE WindowTick
  <2>1. now \in Int /\ now' = now + 1 /\ UNCHANGED <<buckets, recordedAt>>
    BY <1>3, WindowAssumption DEF WindowTick, WindowInv, WindowTypeOK
  <2>2. WindowTypeOK'
    BY <1>3, <2>1, WindowAssumption DEF WindowTick, WindowInv, WindowTypeOK
  <2>3. BucketsAreOrdered'
    <3>1. \A i \in Indexes : buckets[i].timestamp \in Int
      BY DEF WindowInv, WindowTypeOK
    <3> QED
      BY <2>1, <3>1 DEF WindowInv, BucketsAreOrdered, Recorded
  <2> QED
    BY <2>2, <2>3 DEF WindowInv
<1>4. CASE UNCHANGED windowVars
  BY <1>4 DEF windowVars, WindowInv, WindowTypeOK, BucketsAreOrdered,
               Recorded
<1> QED
  BY <1>1, <1>2, <1>3, <1>4 DEF WindowNext

-----------------------------------------------------------------------------
(* The failure rate never rests on an outcome older than the window, or    *)
(* recorded before the last reset, for any window, any grain and any       *)
(* number of outcomes.                                                     *)
THEOREM NothingStale == WindowSpec => []NothingStaleIsCounted
<1>1. WindowInv => NothingStaleIsCounted
  <2> SUFFICES ASSUME WindowInv, NEW o \in Stats
               PROVE  Recorded(o) /\ recordedAt[o] >= now - Window
    BY DEF WindowInv, NothingStaleIsCounted
  <2>1. PICK i \in Indexes : /\ buckets[i].timestamp >= now - Window
                             /\ o \in buckets[i].counted
    BY DEF Stats
  <2>2. Recorded(o) /\ buckets[i].timestamp <= recordedAt[o]
    BY <2>1 DEF WindowInv, BucketsAreOrdered
  <2>3. /\ buckets[i].timestamp \in Int
        /\ recordedAt[o] \in Int
        /\ now \in Int
        /\ Window \in Int
    BY <2>1, WindowAssumption DEF WindowInv, WindowTypeOK, Never,
           Forgotten, Recorded, Window
  <2> QED
    BY <2>1, <2>2, <2>3
<1>2. WindowInv /\ [WindowNext]_windowVars => WindowInv'
  BY WindowStep
<1> QED
  BY WindowInitially, <1>1, <1>2, PTL DEF WindowSpec

-----------------------------------------------------------------------------
(* What getStats leaves out.  Two facts are added to the invariant: a      *)
(* bucket that was ever started carries the instant of an outcome of its   *)
(* own slot, and every outcome went into a bucket together with (or as)    *)
(* such a starter, where it stays until that one is a window old.          *)

Slot(t) == (t \div BucketDuration) % WindowSize

StartedIn(i, t) ==
    \E p \in Outcomes :
        Recorded(p) /\ recordedAt[p] = t /\ Slot(t) = i

BucketsHaveStarters ==
    \A i \in Indexes :
        buckets[i].timestamp = 0 \/ StartedIn(i, buckets[i].timestamp)

(* p started the bucket that o went into, and is gone or keeps o counted.  *)
Accounts(p, o) ==
    /\ Recorded(p)
    /\ Slot(recordedAt[p]) = Slot(recordedAt[o])
    /\ recordedAt[p] <= recordedAt[o]
    /\ recordedAt[o] - recordedAt[p] <= Window
    /\ \/ recordedAt[p] < now - Window
       \/ /\ o \in buckets[Slot(recordedAt[o])].counted
          /\ buckets[Slot(recordedAt[o])].timestamp = recordedAt[p]

OutcomesAreAccounted ==
    \A o \in Outcomes :
        Recorded(o) => \E p \in Outcomes : Accounts(p, o)

LossInv == WindowInv /\ BucketsHaveStarters /\ OutcomesAreAccounted

(* Division with remainder, by what the provers know of \div and %. *)
LEMMA Division ==
    ASSUME NEW x \in Int, NEW d \in Nat \ {0}
    PROVE  /\ x \div d \in Int
           /\ x % d \in 0..(d - 1)
           /\ x = d * (x \div d) + (x % d)
<1>1. d \in Int /\ d > 0
  OBVIOUS
<1>2. x = d * (x \div d) + (x % d)
  BY <1>1, Z3
<1>3. x \div d \in Int /\ x % d \in 0..(d - 1)
  BY <1>1
<1> QED
  BY <1>2, <1>3

LEMMA QuotientBounds ==
    ASSUME NEW x \in Nat, NEW d \in Nat \ {0}
    PROVE  /\ x \div d \in Int
           /\ d * (x \div d) <= x
           /\ x < d * (x \div d) + d
OBVIOUS

(* Two different numbers with the same remainder are a turn apart. *)
LEMMA TurnApart ==
    ASSUME NEW x \in Nat, NEW y \in Nat, NEW w \in Nat \ {0},
           x < y, x % w = y % w
    PROVE  y - x >= w
<1>1. PICK q \in Int, p \in Int, m \in Int : x = w * q + m /\ y = w * p + m
  <2>1. /\ x \div w \in Int /\ x % w \in Int
        /\ y \div w \in Int /\ y % w \in Int
        /\ x = w * (x \div w) + (x % w)
        /\ y = w * (y \div w) + (y % w)
    BY Division
  <2> QED
    BY <2>1
<1>2. y - x = w * (p - q)
  BY <1>1
<1>3. p - q >= 1
  BY <1>2
<1>4. w * (p - q) >= w * 1
  BY <1>3
<1> QED
  BY <1>2, <1>4

(* Two instants more than one bucket apart that fall into the same bucket  *)
(* are about one turn of the ring apart.                                   *)
LEMMA SameBucketApart ==
    ASSUME NEW a \in Nat, NEW b \in Nat, NEW d \in Nat \ {0},
           NEW w \in Nat \ {0},
           (a \div d) % w = (b \div d) % w, b - a > d
    PROVE  b - a >= w * d - d
<1> DEFINE x == a \div d
           y == b \div d
<1>1. /\ x \in Int /\ y \in Int
      /\ d * x <= a /\ a < d * x + d
      /\ d * y <= b /\ b < d * y + d
  BY QuotientBounds
<1>2. x \in Nat /\ y \in Nat
  OBVIOUS
<1> HIDE DEF x, y
<1>3. x % w = y % w
  BY DEF x, y
<1>4. x < y
  <2>1. d * x < d * y
    BY <1>1
  <2>2. d * (y - x) = d * y - d * x
    BY <1>1
  <2> QED
    BY <1>1, <2>1, <2>2
<1>5. y - x >= w
  BY <1>2, <1>3, <1>4, TurnApart
<1>6. d * (y - x) >= d * w
  BY <1>1, <1>5
<1>7. d * y - d * x >= d * w /\ d * w = w * d
  BY <1>1, <1>6
<1>8. d * y \in Int /\ d * x \in Int /\ w * d \in Int
  BY <1>1
<1> QED
  BY <1>1, <1>7, <1>8

-----------------------------------------------------------------------------
LEMMA WindowArithmetic ==
    ASSUME WindowTypeOK
    PROVE  /\ Window \in Nat
           /\ now \in Nat
           /\ 0 < now - Window
           /\ now \notin {Never, Forgotten}
           /\ BucketIndex = Slot(now)
<1>1. Window \in Nat
  BY WindowAssumption DEF Window
<1>2. now \in Nat /\ Start <= now /\ Window < Start /\ Start \in Nat
  BY WindowAssumption DEF WindowTypeOK, Window
<1> QED
  BY <1>1, <1>2 DEF Never, Forgotten, Recorded, BucketIndex, Slot

LEMMA LossInitially == WindowInit => LossInv
<1> SUFFICES ASSUME WindowInit PROVE LossInv
  OBVIOUS
<1>1. WindowInv
  BY WindowInitially
<1> QED
  BY <1>1 DEF WindowInit, LossInv, BucketsHaveStarters, OutcomesAreAccounted,
              EmptyBucket, Recorded

(* A recorded outcome starts its bucket, or joins one that is not yet a    *)
(* window old; the others of that bucket stay with it or were started by   *)
(* one that is a window old.                                               *)
LEMMA RecordKeepsLoss ==
    ASSUME LossInv, WindowInv', NEW o \in Outcomes, Record(o)
    PROVE  LossInv'
<1> DEFINE i == BucketIndex
           old == buckets[i]
           cleared == old.timestamp < now - Window
<1>1. /\ WindowTypeOK
      /\ i \in Indexes
      /\ i = Slot(now)
      /\ Window \in Nat /\ now \in Nat /\ 0 < now - Window
      /\ now \notin {Never, Forgotten}
      /\ now' = now
  BY IndexInRange, WindowArithmetic DEF LossInv, WindowInv, Record
<1>2. /\ recordedAt[o] = Never
      /\ recordedAt'[o] = now
      /\ \A p \in Outcomes : p # o => recordedAt'[p] = recordedAt[p]
  BY <1>1 DEF Record, WindowTypeOK
<1>3. \A p \in Outcomes : recordedAt[p] \in Int /\ recordedAt'[p] \in Int
  BY WindowAssumption
     DEF WindowInv, LossInv, WindowTypeOK, Never, Forgotten, Recorded
<1>4. /\ \A j \in Indexes : j # i => buckets'[j] = buckets[j]
      /\ o \in buckets'[i].counted
      /\ cleared => buckets'[i].timestamp = now
      /\ ~cleared => /\ buckets'[i].timestamp = old.timestamp
                     /\ old.counted \subseteq buckets'[i].counted
  BY <1>1 DEF Record, WindowTypeOK, CurrentBucket, EmptyBucket
<1>5. old.timestamp \in Int /\ old.timestamp <= now
  BY <1>1 DEF LossInv, WindowInv, WindowTypeOK, BucketsAreOrdered
<1>6. ~cleared => StartedIn(i, old.timestamp)
  BY <1>1, <1>5 DEF LossInv, BucketsHaveStarters
<1>7. \A j \in Indexes, t \in Int : StartedIn(j, t) => StartedIn(j, t)'
  BY <1>2 DEF StartedIn, Slot, Recorded
<1>8. BucketsHaveStarters'
  <2> SUFFICES ASSUME NEW j \in Indexes
               PROVE  \/ buckets'[j].timestamp = 0
                      \/ StartedIn(j, buckets[j].timestamp)'
    BY DEF BucketsHaveStarters
  <2>1. CASE j # i
    <3>1. buckets'[j] = buckets[j] /\ buckets[j].timestamp \in Int
      BY <1>1, <1>4, <2>1 DEF WindowTypeOK
    <3> QED
      BY <1>7, <3>1 DEF LossInv, BucketsHaveStarters, StartedIn
  <2>2. CASE j = i /\ cleared
    BY <1>1, <1>2, <1>4, <2>2 DEF StartedIn, Slot, Recorded
  <2>3. CASE j = i /\ ~cleared
    BY <1>4, <1>5, <1>6, <1>7, <2>3 DEF StartedIn
  <2> QED
    BY <2>1, <2>2, <2>3
<1>9. OutcomesAreAccounted'
  <2> SUFFICES ASSUME NEW q \in Outcomes, Recorded(q)'
               PROVE  \E p \in Outcomes : Accounts(p, q)'
    BY DEF OutcomesAreAccounted
  <2>1. CASE q = o
    <3>1. CASE cleared
      <4>1. Accounts(o, o)'
        BY <1>1, <1>2, <1>4, <3>1 DEF Accounts, Slot, Window, Recorded
      <4> QED
        BY <2>1, <4>1
    <3>2. CASE ~cleared
      <4>1. PICK p \in Outcomes : /\ Recorded(p)
                                  /\ recordedAt[p] = old.timestamp
                                  /\ Slot(old.timestamp) = i
        BY <1>6, <3>2 DEF StartedIn
      <4>2. recordedAt'[p] = old.timestamp /\ p # o
        BY <1>2, <4>1 DEF Recorded
      <4>3. Accounts(p, o)'
        BY <1>1, <1>2, <1>4, <1>5, <3>2, <4>1, <4>2
           DEF Accounts, Slot, Window, Recorded
      <4> QED
        BY <2>1, <4>3
    <3> QED
      BY <3>1, <3>2
  <2>2. CASE q # o
    <3>1. Recorded(q) /\ recordedAt'[q] = recordedAt[q]
      BY <1>2, <2>2 DEF Recorded
    <3>2. PICK p \in Outcomes : Accounts(p, q)
      BY <3>1 DEF LossInv, OutcomesAreAccounted
    <3>3. p # o /\ recordedAt'[p] = recordedAt[p]
      BY <1>2, <3>2 DEF Accounts, Recorded
    <3>4. Slot(recordedAt[q]) \in Indexes
      <4>1. recordedAt[q] \in Nat
        BY <3>1, WindowAssumption
           DEF LossInv, WindowInv, WindowTypeOK, Never, Forgotten, Recorded
      <4>2. recordedAt[q] \div BucketDuration \in Int
        BY <4>1, WindowAssumption, QuotientBounds
      <4> QED
        BY <4>2, WindowAssumption, Division DEF Slot, Indexes
    <3>5. \/ recordedAt[p] < now - Window
          \/ /\ q \in buckets'[Slot(recordedAt[q])].counted
             /\ buckets'[Slot(recordedAt[q])].timestamp = recordedAt[p]
      BY <1>4, <3>2, <3>4 DEF Accounts
    <3>6. Accounts(p, q)'
      BY <1>1, <3>1, <3>2, <3>3, <3>5 DEF Accounts, Slot, Window, Recorded
    <3> QED
      BY <3>6
  <2> QED
    BY <2>1, <2>2
<1> QED
  BY <1>8, <1>9 DEF LossInv

LEMMA LossStep == LossInv /\ [WindowNext]_windowVars => LossInv'
<1> SUFFICES ASSUME LossInv, [WindowNext]_windowVars PROVE LossInv'
  OBVIOUS
<1>1. WindowInv'
  BY WindowStep DEF LossInv
<1>2. CASE \E o \in Outcomes : Record(o)
  BY <1>1, <1>2, RecordKeepsLoss
<1>3. CASE Reset
  BY <1>1, <1>3 DEF Reset, LossInv, BucketsHaveStarters,
                    OutcomesAreAccounted, EmptyBucket, Recorded
<1>4. CASE WindowTick
  <2>1. now' = now + 1 /\ UNCHANGED <<buckets, recordedAt>>
    BY <1>4 DEF WindowTick
  <2>2. /\ now \in Nat /\ Window \in Nat
        /\ \A o \in Outcomes : recordedAt[o] \in Int
    BY WindowArithmetic, WindowAssumption
       DEF LossInv, WindowInv, WindowTypeOK, Never, Forgotten, Recorded
  <2>3. \A p, o \in Outcomes : Accounts(p, o) => Accounts(p, o)'
    BY <2>1, <2>2 DEF Accounts, Slot, Window, Recorded
  <2> QED
    BY <1>1, <2>1, <2>3
       DEF LossInv, BucketsHaveStarters, OutcomesAreAccounted, StartedIn, Slot,
           Recorded
<1>5. CASE UNCHANGED windowVars
  BY <1>1, <1>5
     DEF windowVars, LossInv, BucketsHaveStarters, OutcomesAreAccounted,
         StartedIn, Accounts, Slot, Window, Recorded
<1> QED
  BY <1>2, <1>3, <1>4, <1>5 DEF WindowNext

(* What getStats leaves out of the last window went with an outcome that   *)
(* started the bucket about one turn of the ring before and is now a       *)
(* window old, for any window, any grain and any number of outcomes.       *)
THEOREM LostOnlyWithAnOldOneHolds == WindowSpec => []LostOnlyWithAnOldOne
<1>1. LossInv => LostOnlyWithAnOldOne
  <2> SUFFICES ASSUME LossInv, NEW o \in Outcomes,
                      Recorded(o),
                      recordedAt[o] > now - Window + BucketDuration,
                      o \notin Stats
               PROVE  \E p \in Outcomes :
                        /\ Recorded(p)
                        /\ recordedAt[p] < now - Window
                        /\ recordedAt[o] - recordedAt[p] \in
                              (Window - BucketDuration)..Window
    BY DEF LostOnlyWithAnOldOne
  <2>1. PICK p \in Outcomes : Accounts(p, o)
    BY DEF LossInv, OutcomesAreAccounted
  <2>2. /\ recordedAt[o] \in Nat /\ recordedAt[p] \in Nat
        /\ Recorded(p)
        /\ now \in Nat /\ Window \in Nat /\ BucketDuration \in Nat \ {0}
    BY <2>1, WindowArithmetic, WindowAssumption
       DEF LossInv, WindowInv, WindowTypeOK, Accounts, Never, Forgotten,
           Recorded
  <2>3. recordedAt[p] < now - Window
    <3>1. Slot(recordedAt[o]) \in Indexes
      <4>1. recordedAt[o] \div BucketDuration \in Int
        BY <2>2, QuotientBounds
      <4> QED
        BY <4>1, WindowAssumption, Division DEF Slot, Indexes
    <3> QED
      BY <2>1, <2>2, <3>1 DEF Accounts, Stats
  <2>4. recordedAt[o] - recordedAt[p] > BucketDuration
    BY <2>2, <2>3
  <2>5. recordedAt[o] - recordedAt[p] >= Window - BucketDuration
    BY <2>1, <2>2, <2>4, WindowAssumption, SameBucketApart
       DEF Accounts, Slot, Window
  <2> QED
    BY <2>1, <2>2, <2>3, <2>5 DEF Accounts
<1> QED
  BY LossInitially, LossStep, <1>1, PTL DEF WindowSpec

-----------------------------------------------------------------------------
(* The breakers of the abuse detector. *)

DetectorInv == DetectorTypeOK /\ \A s \in Services : Counts(circuits[s])

LEMMA DetectorInitially == DetectorInit => DetectorInv
<1> SUFFICES ASSUME DetectorInit PROVE DetectorInv
  OBVIOUS
<1>1. NewCircuit \in Circuit /\ Counts(NewCircuit)
  BY CircuitAssumption DEF NewCircuit, Circuit, CircuitState, Counts
<1>2. NoEntry \in {NoEntry}
  OBVIOUS
<1> QED
  BY <1>1, <1>2, DetectorAssumption
     DEF DetectorInit, DetectorInv, DetectorTypeOK

(* What Remember leaves in the cache is an entry. *)
LEMMA RememberKeeps ==
    ASSUME DetectorTypeOK, NEW r, NEW score \in {"real", "fallback"},
           Remember(r, score)
    PROVE  entry' \in {NoEntry} \union
              [score : {"real", "fallback"}, age : 0..CacheTTL]
<1>1. CASE r \in followed'
  <2>1. entry' = [score |-> score, age |-> 0]
    BY <1>1 DEF Remember
  <2> QED
    BY <2>1, DetectorAssumption
<1>2. CASE r \notin followed'
  BY <1>2 DEF Remember, DetectorTypeOK
<1> QED
  BY <1>1, <1>2

(* Starting a request changes the breakers through getState only. *)
LEMMA CheckRequestKeeps ==
    ASSUME DetectorInv, NEW r \in Requests, NEW origin \in Origins,
           CheckRequest(r, origin)
    PROVE  DetectorInv'
<1> USE DEF DetectorInv, DetectorTypeOK
<1>1. CASE ShouldSkipExternalChecks
  <2>1. /\ phase' = [phase EXCEPT ![r] = "fastFailed"]
        /\ UNCHANGED <<circuits, lookups, followed, entry, lead, serviceUp,
                       resets>>
    BY <1>1 DEF CheckRequest
  <2> QED
    BY <2>1
<1>2. CASE ~ShouldSkipExternalChecks
  <2>1. /\ phase' = [phase EXCEPT ![r] = "checking"]
        /\ followed' \in {followed, followed \union {r}}
        /\ circuits' = [s \in Services |->
                IF s \in Consulted(origin) THEN GetState(circuits[s])
                                           ELSE circuits[s]]
        /\ lookups' = lookups \union
                ({r} \X {s \in Consulted(origin) : circuits'[s].state # "OPEN"})
        /\ Remember(r, "fallback") \/ UNCHANGED entry
        /\ UNCHANGED <<lead, serviceUp, resets>>
    BY <1>2 DEF CheckRequest
  <2>2. \A s \in Services :
            GetState(circuits[s]) \in Circuit /\ Counts(GetState(circuits[s]))
    BY GetStateKeeps
  <2>3. /\ circuits' \in [Services -> Circuit]
        /\ \A s \in Services : Counts(circuits'[s])
    BY <2>1, <2>2
  <2>4. Consulted(origin) \subseteq Services
    BY DEF Consulted, Origins
  <2>5. lookups' \in SUBSET (Requests \X Services)
    BY <2>1, <2>4
  <2>6. entry' \in {NoEntry} \union
            [score : {"real", "fallback"}, age : 0..CacheTTL]
    BY <2>1, RememberKeeps
  <2> QED
    BY <2>1, <2>3, <2>5, <2>6
<1> QED
  BY <1>1, <1>2

(* The end of a lookup counts in one breaker. *)
LEMMA LookupKeeps ==
    ASSUME DetectorInv, NEW r \in Requests, NEW s \in Services,
           LookupSucceeds(r, s) \/ LookupFails(r, s)
    PROVE  DetectorInv'
<1> USE DEF DetectorInv, DetectorTypeOK
<1>1. /\ lookups' = lookups \ {<<r, s>>}
      /\ UNCHANGED <<phase, followed, serviceUp, resets>>
      /\ \/ Remember(r, "real")
         \/ Remember(r, "fallback")
         \/ UNCHANGED entry
  BY DEF LookupSucceeds, LookupFails, LookupEnds
<1>2. entry' \in {NoEntry} \union
          [score : {"real", "fallback"}, age : 0..CacheTTL]
  BY <1>1, RememberKeeps
<1>3. PICK c \in Circuit : Counts(c) /\ circuits' = [circuits EXCEPT ![s] = c]
  <2>1. CASE LookupSucceeds(r, s)
    BY <2>1, SuccessKeeps DEF LookupSucceeds
  <2>2. CASE LookupFails(r, s)
    <3>1. PICK byRate \in RateVerdicts :
              circuits' = [circuits EXCEPT ![s] = OnFailure(@, byRate)]
      BY <2>2, Zenon DEF LookupFails
    <3>2. byRate \in BOOLEAN
      BY CircuitAssumption, Zenon
    <3>3. /\ OnFailure(circuits[s], byRate) \in Circuit
          /\ Counts(OnFailure(circuits[s], byRate))
      BY <3>2, FailureKeeps, Zenon
    <3> QED
      BY <3>1, <3>3, Zenon
  <2> QED
    BY <2>1, <2>2
<1>4. /\ circuits' \in [Services -> Circuit]
      /\ \A t \in Services : Counts(circuits'[t])
  BY <1>3
<1>5. lead' \in [Services -> (-MaxLead)..MaxLead]
  <2>1. lead[s] \in (-MaxLead)..MaxLead
    OBVIOUS
  <2>2. PICK n \in (-MaxLead)..MaxLead : lead' = [lead EXCEPT ![s] = n]
    <3>1. CASE LookupSucceeds(r, s)
      <4>1. (IF lead[s] > -MaxLead THEN lead[s] - 1 ELSE lead[s])
                \in (-MaxLead)..MaxLead
        BY <2>1, DetectorAssumption
      <4> QED
        BY <3>1, <4>1 DEF LookupSucceeds
    <3>2. CASE LookupFails(r, s)
      <4>1. OneMore(lead[s], MaxLead) \in (-MaxLead)..MaxLead
        BY <2>1, DetectorAssumption DEF OneMore
      <4>2. lead' = [lead EXCEPT ![s] = OneMore(lead[s], MaxLead)]
        BY <3>2 DEF LookupFails
      <4> QED
        BY <4>1, <4>2
    <3> QED
      BY <3>1, <3>2
  <2> QED
    BY <2>2
<1> QED
  BY <1>1, <1>2, <1>4, <1>5

LEMMA DetectorTickKeeps == DetectorInv /\ DetectorTick => DetectorInv'
<1> SUFFICES ASSUME DetectorInv, DetectorTick PROVE DetectorInv'
  OBVIOUS
<1> USE DEF DetectorInv, DetectorTypeOK
<1>1. /\ circuits' = [s \in Services |-> TimePasses(circuits[s])]
      /\ entry' = IF entry = NoEntry THEN NoEntry
                  ELSE [entry EXCEPT !.age = OneMore(@, CacheTTL)]
      /\ UNCHANGED <<lead, phase, lookups, followed, serviceUp, resets>>
  BY DEF DetectorTick
<1>2. \A s \in Services :
          TimePasses(circuits[s]) \in Circuit /\ Counts(TimePasses(circuits[s]))
  BY TimeKeeps
<1>3. entry' \in {NoEntry} \union
          [score : {"real", "fallback"}, age : 0..CacheTTL]
  <2>1. CASE entry = NoEntry
    BY <1>1, <2>1
  <2>2. CASE entry # NoEntry
    <3>1. OneMore(entry.age, CacheTTL) \in 0..CacheTTL
      BY <2>2, DetectorAssumption DEF OneMore
    <3> QED
      BY <1>1, <2>2, <3>1
  <2> QED
    BY <2>1, <2>2
<1> QED
  BY <1>1, <1>2, <1>3

LEMMA DetectorStep ==
    DetectorInv /\ [DetectorNext]_detectorVars => DetectorInv'
<1> SUFFICES ASSUME DetectorInv, [DetectorNext]_detectorVars
             PROVE  DetectorInv'
  OBVIOUS
<1>1. CASE \E r \in Requests : \E origin \in Origins : CheckRequest(r, origin)
  BY <1>1, CheckRequestKeeps
<1>2. CASE \E r \in Requests : \E s \in Services :
              LookupSucceeds(r, s) \/ LookupFails(r, s)
  BY <1>2, LookupKeeps
<1>3. CASE \E r \in Requests : Answer(r)
  BY <1>3 DEF Answer, DetectorInv, DetectorTypeOK
<1>4. CASE ResetCircuitBreakers
  <2>1. NewCircuit \in Circuit /\ Counts(NewCircuit)
    BY CircuitAssumption DEF NewCircuit, Circuit, CircuitState, Counts
  <2> QED
    BY <1>4, <2>1, DetectorAssumption
       DEF ResetCircuitBreakers, DetectorInv, DetectorTypeOK
<1>5. CASE ForgetEntry
  BY <1>5 DEF ForgetEntry, DetectorInv, DetectorTypeOK
<1>6. CASE DetectorTick
  BY <1>6, DetectorTickKeeps
<1>7. CASE \E s \in Services : ExternalServiceToggles(s)
  BY <1>7 DEF ExternalServiceToggles, DetectorInv, DetectorTypeOK
<1>8. CASE UNCHANGED detectorVars
  BY <1>8 DEF detectorVars, DetectorInv, DetectorTypeOK
<1> QED
  BY <1>1, <1>2, <1>3, <1>4, <1>5, <1>6, <1>7, <1>8 DEF DetectorNext

(* The breakers, the requests and the cached reputation always have their  *)
(* types, and no breaker's counters are left at their threshold, for any   *)
(* number of services and of requests in progress.                         *)
THEOREM DetectorTypeCorrect ==
    DetectorSpec => [](DetectorTypeOK /\ \A s \in Services : Counts(circuits[s]))
<1>1. DetectorInv => DetectorTypeOK /\ \A s \in Services : Counts(circuits[s])
  BY DEF DetectorInv
<1>2. DetectorInv /\ [DetectorNext]_detectorVars => DetectorInv'
  BY DetectorStep
<1> QED
  BY DetectorInitially, <1>1, <1>2, PTL DEF DetectorSpec

(* When every breaker is open every request is turned away before it asks  *)
(* for the state of one, and late answers do not move an open breaker: no  *)
(* breaker leaves OPEN until an operator resets them, for any number of    *)
(* services and requests, and however long it takes.                       *)
THEOREM AllOpenStaysOpenHolds == DetectorSpec => AllOpenStaysOpen
<1> DEFINE AllOpen == \A s \in Services : circuits[s].state = "OPEN"
<1>1. ASSUME DetectorInv, [DetectorNext]_detectorVars, AllOpen,
             resets' = resets
      PROVE  \A s \in Services : circuits'[s].state = "OPEN"
  <2> USE <1>1
  <2>1. CASE \E r \in Requests :
                \E origin \in Origins : CheckRequest(r, origin)
    <3>1. ShouldSkipExternalChecks
      BY DEF ShouldSkipExternalChecks, Unhealthy
    <3> QED
      BY <2>1, <3>1 DEF CheckRequest
  <2>2. ASSUME NEW r \in Requests, NEW s \in Services, LookupSucceeds(r, s)
        PROVE  \A t \in Services : circuits'[t].state = "OPEN"
    <3>1. OnSuccess(circuits[s]).state = "OPEN"
      BY SuccessKeeps DEF DetectorInv, DetectorTypeOK
    <3> QED
      BY <2>2, <3>1 DEF LookupSucceeds, DetectorInv, DetectorTypeOK
  <2>3. ASSUME NEW r \in Requests, NEW s \in Services, LookupFails(r, s)
        PROVE  \A t \in Services : circuits'[t].state = "OPEN"
    <3>1. PICK byRate \in RateVerdicts :
              circuits' = [circuits EXCEPT ![s] = OnFailure(@, byRate)]
      BY <2>3, Zenon DEF LookupFails
    <3>2. byRate \in BOOLEAN
      BY CircuitAssumption, Zenon
    <3>3. circuits[s] \in Circuit /\ Counts(circuits[s])
      BY DEF DetectorInv, DetectorTypeOK
    <3>4. OnFailure(circuits[s], byRate).state # circuits[s].state =>
              circuits[s].state \in {"CLOSED", "HALF_OPEN"}
      BY <3>2, <3>3, FailureKeeps, Zenon
    <3>5. OnFailure(circuits[s], byRate).state = "OPEN"
      <4>1. circuits[s].state = "OPEN"
        OBVIOUS
      <4> HIDE DEF AllOpen
      <4> QED
        BY <3>4, <4>1
    <3>6. PICK c : c.state = "OPEN" /\ circuits' = [circuits EXCEPT ![s] = c]
      BY <3>1, <3>5, Zenon
    <3> QED
      BY <3>6 DEF DetectorInv, DetectorTypeOK
  <2>4. CASE \E r \in Requests : Answer(r)
    BY <2>4 DEF Answer
  <2>5. CASE ResetCircuitBreakers
    <3>1. resets' = resets + 1 /\ resets \in Int
      BY <2>5 DEF ResetCircuitBreakers, DetectorInv, DetectorTypeOK
    <3> QED
      BY <3>1
  <2>6. CASE ForgetEntry
    BY <2>6 DEF ForgetEntry
  <2>7. CASE DetectorTick
    <3>1. \A s \in Services : TimePasses(circuits[s]).state = circuits[s].state
      BY TimeKeeps DEF DetectorInv, DetectorTypeOK
    <3> QED
      BY <2>7, <3>1 DEF DetectorTick
  <2>8. CASE \E s \in Services : ExternalServiceToggles(s)
    BY <2>8 DEF ExternalServiceToggles
  <2>9. CASE UNCHANGED detectorVars
    BY <2>9 DEF detectorVars
  <2> QED
    BY <2>1, <2>2, <2>3, <2>4, <2>5, <2>6, <2>7, <2>8, <2>9
       DEF DetectorNext
<1>2. DetectorInv /\ [DetectorNext]_detectorVars
        => [(AllOpen /\ resets' = resets)
              => \A s \in Services : circuits'[s].state = "OPEN"]_detectorVars
  BY <1>1
<1>3. DetectorInv /\ [DetectorNext]_detectorVars => DetectorInv'
  BY DetectorStep
<1> QED
  BY DetectorInitially, <1>2, <1>3, PTL DEF DetectorSpec, AllOpenStaysOpen

(* The same of one of the detector's breakers. *)
LEMMA ContractOfCases ==
    ASSUME NEW s \in Services,
           \/ /\ Unforced(View(circuits[s]), View(circuits[s])')
              /\ resets' = resets
           \/ View(circuits[s])' = ClosedView /\ resets' = resets + 1
    PROVE  \/ ContractOf(s)!BreakerNext
           \/ UNCHANGED <<View(circuits[s]), resets>>
BY DEF Unforced, ClosedView, OpenView, HalfOpenView,
       ContractOf!BreakerNext, ContractOf!Opens, ContractOf!Waits,
       ContractOf!LetsProbesThrough, ContractOf!ProbeSucceeds,
       ContractOf!IsForced, ContractOf!Closed, ContractOf!Open,
       ContractOf!HalfOpen

(* In every step that is no reset each breaker is left alone or handled by *)
(* one operator.                                                           *)
LEMMA BreakerHandled ==
    ASSUME DetectorInv, [DetectorNext]_detectorVars, ~ResetCircuitBreakers,
           NEW s \in Services
    PROVE  /\ resets' = resets
           /\ \/ circuits'[s] = circuits[s]
              \/ circuits'[s] = GetState(circuits[s])
              \/ circuits'[s] = OnSuccess(circuits[s])
              \/ \E byRate \in BOOLEAN :
                    circuits'[s] = OnFailure(circuits[s], byRate)
              \/ circuits'[s] = TimePasses(circuits[s])
<1>t. circuits \in [Services -> Circuit]
  BY DEF DetectorInv, DetectorTypeOK
<1>1. CASE \E r \in Requests : \E origin \in Origins : CheckRequest(r, origin)
  BY <1>1 DEF CheckRequest
<1>2. ASSUME NEW r \in Requests, NEW t \in Services, LookupSucceeds(r, t)
      PROVE  /\ resets' = resets
             /\ \/ circuits'[s] = circuits[s]
                \/ circuits'[s] = OnSuccess(circuits[s])
  BY <1>t, <1>2 DEF LookupSucceeds, LookupEnds
<1>3. ASSUME NEW r \in Requests, NEW t \in Services, LookupFails(r, t)
      PROVE  /\ resets' = resets
             /\ \/ circuits'[s] = circuits[s]
                \/ \E byRate \in BOOLEAN :
                      circuits'[s] = OnFailure(circuits[s], byRate)
  <2>1. PICK byRate \in RateVerdicts :
            circuits' = [circuits EXCEPT ![t] = OnFailure(circuits[t], byRate)]
    BY <1>3, Zenon DEF LookupFails
  <2>2. byRate \in BOOLEAN
    BY CircuitAssumption, Zenon
  <2>3. resets' = resets
    BY <1>3, Zenon DEF LookupFails, LookupEnds
  <2>4. s # t => circuits'[s] = circuits[s]
    BY <1>t, <2>1, Zenon
  <2>5. s = t => circuits'[s] = OnFailure(circuits[s], byRate)
    BY <1>t, <2>1, Zenon
  <2> QED
    BY <2>2, <2>3, <2>4, <2>5, Zenon
<1>4. CASE DetectorTick
  BY <1>4 DEF DetectorTick
<1>5. CASE UNCHANGED <<circuits, resets>>
  BY <1>5
<1> QED
  BY <1>1, <1>2, <1>3, <1>4, <1>5
     DEF DetectorNext, Answer, ForgetEntry, ExternalServiceToggles,
         detectorVars

LEMMA ContractOfStep ==
    ASSUME DetectorInv, [DetectorNext]_detectorVars, NEW s \in Services
    PROVE  \/ ContractOf(s)!BreakerNext
           \/ UNCHANGED <<View(circuits[s]), resets>>
<1>t. circuits[s] \in Circuit /\ Counts(circuits[s])
  BY DEF DetectorInv, DetectorTypeOK
<1>1. CASE ResetCircuitBreakers
  <2>1. circuits'[s] = NewCircuit /\ resets' = resets + 1
    BY <1>1 DEF ResetCircuitBreakers
  <2>2. View(circuits'[s]) = ClosedView
    BY <2>1 DEF View, NewCircuit, ClosedView
  <2> QED
    BY <2>1, <2>2, ContractOfCases
<1>2. CASE ~ResetCircuitBreakers
  <2>1. resets' = resets
    BY <1>2, BreakerHandled
  <2>2. Unforced(View(circuits[s]), View(circuits'[s]))
    <3>1. CASE circuits'[s] = circuits[s]
      BY <3>1 DEF Unforced
    <3>2. CASE circuits'[s] = GetState(circuits[s])
      BY <1>t, <3>2, GetStateView
    <3>3. CASE circuits'[s] = OnSuccess(circuits[s])
      BY <1>t, <3>3, SuccessView
    <3>4. ASSUME NEW byRate \in BOOLEAN,
                 circuits'[s] = OnFailure(circuits[s], byRate)
          PROVE  Unforced(View(circuits[s]), View(circuits'[s]))
      BY <1>t, <3>4, FailureView, Zenon
    <3>5. CASE circuits'[s] = TimePasses(circuits[s])
      BY <1>t, <3>5, TimeView
    <3> QED
      BY <1>2, <3>1, <3>2, <3>3, <3>4, <3>5, BreakerHandled, Zenon
  <2> QED
    BY <2>1, <2>2, ContractOfCases
<1> QED
  BY <1>1, <1>2

(* Each of the detector's breakers implements Breaker on its own, for any  *)
(* number of services and of requests that go through several at once.     *)
THEOREM AllKeepContractHolds == DetectorSpec => AllKeepContract
<1>1. DetectorInit => AllBegin
  BY DEF DetectorInit, NewCircuit, View, AllBegin, ContractOf!BreakerInit,
         ContractOf!Closed
<1>2. DetectorInv /\ [DetectorNext]_detectorVars => [AllStep]_detectorVars
  BY ContractOfStep DEF AllStep
<1>3. DetectorInv /\ [DetectorNext]_detectorVars => DetectorInv'
  BY DetectorStep
<1> QED
  BY DetectorInitially, <1>1, <1>2, <1>3, PTL DEF DetectorSpec, AllKeepContract
=============================================================================
