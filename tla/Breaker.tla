------------------------------ MODULE Breaker ------------------------------
(***************************************************************************)
(* What a circuit breaker promises to whoever calls a service through it:  *)
(* a circuit that opens turns every call away for OpenDuration ticks, then *)
(* lets probes through, and closes only when SuccessThreshold of them have *)
(* succeeded in a row: one failure opens it for the whole time again.      *)
(* Only an operator can cut this short, or make it longer.                 *)
(***************************************************************************)
EXTENDS Naturals

CONSTANTS SuccessThreshold, OpenDuration, LongestOpen

VARIABLES
    view,       \* what can be told of the breaker: its state, and while it
                \* matters, the ticks left and the successes of the probes
    forced      \* interventions of an operator so far

breakerVars == <<view, forced>>

Closed == [state |-> "CLOSED", left |-> 0, probes |-> 0]
Open(t) == [state |-> "OPEN", left |-> t, probes |-> 0]
HalfOpen(n) == [state |-> "HALF_OPEN", left |-> 0, probes |-> n]

BreakerInit == view = Closed /\ forced = 0

(* A closed circuit opens for any reason, a half-open one at a failure.    *)
Opens ==
    /\ view.state # "OPEN"
    /\ view' = Open(OpenDuration)
    /\ UNCHANGED forced

Waits ==
    /\ \E t \in 1..LongestOpen : view = Open(t) /\ view' = Open(t - 1)
    /\ UNCHANGED forced

LetsProbesThrough ==
    /\ view = Open(0)
    /\ view' = HalfOpen(0)
    /\ UNCHANGED forced

ProbeSucceeds ==
    /\ \E n \in 0..(SuccessThreshold - 1) :
          /\ view = HalfOpen(n)
          /\ view' = IF n + 1 < SuccessThreshold THEN HalfOpen(n + 1)
                                                 ELSE Closed
    /\ UNCHANGED forced

IsForced ==
    /\ view' = Closed \/ \E t \in 1..LongestOpen : view' = Open(t)
    /\ forced' = forced + 1

BreakerNext ==
    Opens \/ Waits \/ LetsProbesThrough \/ ProbeSucceeds \/ IsForced

BreakerSpec == BreakerInit /\ [][BreakerNext]_breakerVars
=============================================================================
