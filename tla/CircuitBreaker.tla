--------------------------- MODULE CircuitBreaker ---------------------------
(***************************************************************************)
(* One CircuitBreaker and the calls of execute that go through it.  A call *)
(* runs from its start to the await of the operation in one go, and from   *)
(* the result to its end in another; in between, other calls start and     *)
(* end, time passes and an operator may force the circuit.  A result is    *)
(* therefore often that of a call admitted in an earlier state.            *)
(***************************************************************************)
EXTENDS CircuitBreakerOps

CONSTANTS
    Calls,          \* the calls that can be in progress at once
    MaxForced       \* bound: manual interventions

ASSUME ForcedAssumption == MaxForced \in Nat

VARIABLES
    circuit,        \* the breaker's private state
    running,        \* the calls whose operation was started
    up,             \* whether the service answers in time
    forced,         \* manual interventions so far
    successes       \* history: successes since the circuit last changed
                    \* state, counted up to SuccessThreshold

vars == <<circuit, running, up, forced, successes>>

TypeOK ==
    /\ circuit \in Circuit
    /\ running \in SUBSET Calls
    /\ up \in BOOLEAN
    /\ forced \in 0..MaxForced
    /\ successes \in 0..SuccessThreshold

Init ==
    /\ circuit = NewCircuit
    /\ running = {}
    /\ up = TRUE
    /\ forced = 0
    /\ successes = 0

(* The history variable follows the circuit; succeeded is 1 for a result   *)
(* that is a success and 0 for everything else.                            *)
Follow(succeeded) ==
    successes' = IF circuit'.state # circuit.state THEN 0
                 ELSE IF succeeded = 1 THEN OneMore(successes, SuccessThreshold)
                 ELSE successes

-----------------------------------------------------------------------------
(* execute, up to the await: getState may move the circuit to HALF_OPEN,   *)
(* and an open circuit turns the call away.  HALF_OPEN admits any number.  *)
Execute(c) ==
    /\ c \notin running
    /\ circuit' = GetState(circuit)
    /\ running' = IF circuit'.state = "OPEN" THEN running
                                             ELSE running \union {c}
    /\ Follow(0)
    /\ UNCHANGED <<up, forced>>

(* execute, from the operation's result on. *)
Succeed(c) ==
    /\ up
    /\ c \in running
    /\ circuit' = OnSuccess(circuit)
    /\ running' = running \ {c}
    /\ Follow(1)
    /\ UNCHANGED <<up, forced>>

(* The operation fails or the timeout wins the race. *)
Fail(c) ==
    /\ ~up
    /\ c \in running
    /\ \E byRate \in RateVerdicts : circuit' = OnFailure(circuit, byRate)
    /\ running' = running \ {c}
    /\ Follow(0)
    /\ UNCHANGED <<up, forced>>

(* getHealthStatus asks for the state too, and may move the circuit. *)
GetHealthStatus ==
    /\ circuit' = GetState(circuit)
    /\ Follow(0)
    /\ UNCHANGED <<running, up, forced>>

(* forceOpen, forceClose and reset: reset does not wait for the calls in   *)
(* progress, whose results are counted after it.                           *)
Intervene ==
    /\ forced < MaxForced
    /\ forced' = forced + 1
    /\ \/ \E d \in 1..LongestOpen : circuit' = ForceOpen(circuit, d)
       \/ circuit' = ForceClose(circuit)
       \/ circuit' = NewCircuit
    /\ Follow(0)
    /\ UNCHANGED <<running, up>>

Tick ==
    /\ circuit.openLeft > 0
    /\ circuit' = TimePasses(circuit)
    /\ UNCHANGED <<running, up, forced, successes>>

ServiceToggles ==
    /\ up' = ~up
    /\ UNCHANGED <<circuit, running, forced, successes>>

Next ==
    \/ \E c \in Calls : Execute(c) \/ Succeed(c) \/ Fail(c)
    \/ GetHealthStatus
    \/ Intervene
    \/ Tick
    \/ ServiceToggles

Spec == Init /\ [][Next]_vars

(* Time passes, an operation ends (the timeout sees to it), and requests   *)
(* keep coming.  Nothing obliges the operator or the service to act.       *)
Fairness ==
    /\ WF_vars(Tick)
    /\ \A c \in Calls : WF_vars(Execute(c)) /\ WF_vars(Succeed(c) \/ Fail(c))

FairSpec == Spec /\ Fairness

-----------------------------------------------------------------------------
(* The counters that the thresholds are compared with are never left at    *)
(* their threshold: a closed circuit has fewer failures, a half-open one   *)
(* fewer successes, whatever late results were counted while it was open.  *)
CountsBelowThreshold ==
    /\ circuit.state = "CLOSED" => circuit.failureCount < FailureThreshold
    /\ circuit.state = "HALF_OPEN" => circuit.successCount < SuccessThreshold

(* What a half-open circuit counts is exactly the successes reported since *)
(* it became half-open: those reported while it was open, by calls that    *)
(* were admitted earlier, do not help to close it.                         *)
HalfOpenCountIsExact ==
    circuit.state = "HALF_OPEN" => circuit.successCount = successes

(* CLOSED -> OPEN -> HALF_OPEN -> CLOSED, and back from HALF_OPEN to OPEN: *)
(* whatever calls overlap and whenever their results come, the circuit is  *)
(* a breaker that waits its time and closes after enough probes in a row.  *)
Contract == INSTANCE Breaker WITH view <- View(circuit)

KeepsContract == Contract!BreakerSpec

(* The results of calls admitted before the circuit opened arrive while it *)
(* is open: they neither end the outage nor prolong it.                    *)
LateResultsDoNotMoveIt ==
    [][\A c \in Calls :
        (circuit.state = "OPEN" /\ c \in running \ running') =>
            /\ circuit'.state = "OPEN"
            /\ circuit'.openLeft = circuit.openLeft]_vars

(* When the service is back for good and requests keep coming, the circuit *)
(* ends up closed for good, however many calls failed or were forced.      *)
RecoversWhenUp == <>[]up => <>[](circuit.state = "CLOSED")
=============================================================================
