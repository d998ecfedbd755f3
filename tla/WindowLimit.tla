---------------------------- MODULE WindowLimit ----------------------------
(***************************************************************************)
(* What a fixed-window rate limit promises, whoever keeps the count: at    *)
(* most Limit requests are granted in a window, and a window is followed   *)
(* by the next one only when it has been open for MinLength ticks.  So no  *)
(* more than twice the limit is granted in any MinLength ticks.            *)
(***************************************************************************)
EXTENDS Naturals

CONSTANTS Limit, MinLength

VARIABLES
    granted,    \* requests granted since the window was opened
    openFor     \* ticks since then

limitVars == <<granted, openFor>>

LimitInit == granted = 0 /\ openFor >= MinLength

Grant ==
    /\ granted < Limit
    /\ granted' = granted + 1
    /\ UNCHANGED openFor

(* The request that opens a window is the first to be granted in it. *)
OpenAndGrant ==
    /\ openFor >= MinLength
    /\ openFor' = 0
    /\ granted' = 1

TimePasses ==
    /\ openFor' = openFor + 1
    /\ UNCHANGED granted

LimitNext == Grant \/ OpenAndGrant \/ TimePasses

LimitSpec == LimitInit /\ [][LimitNext]_limitVars
=============================================================================
