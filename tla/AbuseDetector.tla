--------------------------- MODULE AbuseDetector ---------------------------
(***************************************************************************)
(* MLAbuseDetector and its circuit breakers, one per external service.  A  *)
(* request that is not answered at once (fast-fail) starts its lookups     *)
(* through the breakers in one go and waits for all of them.               *)
(*                                                                         *)
(* Of the cache of reputations the model follows the entry of one address, *)
(* any one; lookups for other addresses may push it out of the LRU cache.  *)
(* The other features and the score are not modelled: what matters here is *)
(* when the services are consulted, and what is remembered of the answers. *)
(***************************************************************************)
EXTENDS CircuitBreakerOps

CONSTANTS
    Services,       \* the external services, each with its breaker
    Cached,         \* the service whose answers are cached (ip reputation)
    Requests,       \* the requests that can be in progress at once
    CacheTTL,       \* ticks that a cached reputation is used
    MaxLead,        \* bound: how far failures and successes are told apart
    MaxResets       \* bound: manual resets

ASSUME DetectorAssumption ==
    /\ Cached \in Services
    /\ CacheTTL \in Nat \ {0}
    /\ MaxLead \in Nat \ {0}
    /\ MaxResets \in Nat

VARIABLES
    circuits,       \* circuits[s]: the breaker of service s
    lead,           \* lead[s]: totalFailures minus the successes, as the
                    \* breaker counts them from its creation or reset on
    phase,          \* phase[r]: idle, checking or fastFailed
    lookups,        \* <<r, s>>: request r waits for service s
    followed,       \* the requests in progress from the followed address
    entry,          \* its entry in ipReputationCache; the age stops at
                    \* CacheTTL, from where on it is not used
    serviceUp,      \* serviceUp[s]: whether service s answers in time
    resets          \* manual resets so far

detectorVars ==
    <<circuits, lead, phase, lookups, followed, entry, serviceUp, resets>>

NoEntry == [score |-> "none", age |-> 0]

DetectorTypeOK ==
    /\ circuits \in [Services -> Circuit]
    /\ lead \in [Services -> (-MaxLead)..MaxLead]
    /\ phase \in [Requests -> {"idle", "checking", "fastFailed"}]
    /\ lookups \in SUBSET (Requests \X Services)
    /\ followed \in SUBSET Requests
    /\ entry \in {NoEntry} \union
            [score : {"real", "fallback"}, age : 0..CacheTTL]
    /\ serviceUp \in [Services -> BOOLEAN]
    /\ resets \in 0..MaxResets

DetectorInit ==
    /\ circuits = [s \in Services |-> NewCircuit]
    /\ lead = [s \in Services |-> 0]
    /\ phase = [r \in Requests |-> "idle"]
    /\ lookups = {}
    /\ followed = {}
    /\ entry = NoEntry
    /\ serviceUp = [s \in Services |-> TRUE]
    /\ resets = 0

-----------------------------------------------------------------------------
(* getMetrics: the state is read as it stands, without the step to         *)
(* HALF_OPEN that getState makes; failureRate > 0.5 over the whole life of *)
(* the breaker is more failures than successes.                            *)
Unhealthy(s) == circuits[s].state = "OPEN" \/ lead[s] > 0

(* Mutant: one unhealthy service is enough. *)
ShouldSkipExternalChecks_Any == \E s \in Services : Unhealthy(s)

(* Mutant: a circuit whose time is over is not counted as open. *)
ShouldSkipExternalChecks_Lazy ==
    \A s \in Services :
        (circuits[s].state = "OPEN" /\ circuits[s].openLeft > 0) \/ lead[s] > 0

ShouldSkipExternalChecks == \A s \in Services : Unhealthy(s)

(* Mutant: an entry is used however old it is. *)
Served_Ever == entry.score # "none"

(* getIpReputation returns the cached score instead of asking. *)
Served == entry.score # "none" /\ entry.age < CacheTTL

(* ipReputationCache.set, by a request from the followed address or from   *)
(* another one, which may evict the followed entry.                        *)
Remember(r, score) ==
    IF r \in followed'
    THEN entry' = [score |-> score, age |-> 0]
    ELSE entry' \in {entry, NoEntry}

(* Whom a request may come from: the followed address, another one with or *)
(* without a usable entry, or nobody known.                                *)
Origins == {"followed", "cached", "new", "unknown"}

(* The services that extractFeatures asks about a request.                 *)
Consulted(origin) ==
    CASE origin = "unknown" -> {}
      [] origin = "cached" \/ (origin = "followed" /\ Served) ->
            Services \ {Cached}
      [] origin = "new" \/ (origin = "followed" /\ ~Served) -> Services

(* checkRequest up to its await.  A breaker that stays open answers with   *)
(* its fallback at once, which is remembered like an answer.               *)
CheckRequest(r, origin) ==
    /\ phase[r] = "idle"
    /\ \/ /\ ShouldSkipExternalChecks
          /\ phase' = [phase EXCEPT ![r] = "fastFailed"]
          /\ UNCHANGED <<circuits, lookups, followed, entry>>
       \/ /\ ~ShouldSkipExternalChecks
          /\ phase' = [phase EXCEPT ![r] = "checking"]
          /\ followed' = IF origin = "followed" THEN followed \union {r}
                                                ELSE followed
          /\ circuits' = [s \in Services |->
                IF s \in Consulted(origin) THEN GetState(circuits[s])
                                           ELSE circuits[s]]
          /\ lookups' = lookups \union
                ({r} \X {s \in Consulted(origin) : circuits'[s].state # "OPEN"})
          /\ IF Cached \in Consulted(origin) /\ circuits'[Cached].state = "OPEN"
             THEN Remember(r, "fallback")
             ELSE UNCHANGED entry
    /\ UNCHANGED <<lead, serviceUp, resets>>

(* A lookup ends; a reputation is remembered, the other answers are not.   *)
LookupEnds(r, s, score) ==
    /\ <<r, s>> \in lookups
    /\ lookups' = lookups \ {<<r, s>>}
    /\ UNCHANGED <<phase, followed, serviceUp, resets>>
    /\ IF s = Cached THEN Remember(r, score) ELSE UNCHANGED entry

LookupSucceeds(r, s) ==
    /\ serviceUp[s]
    /\ LookupEnds(r, s, "real")
    /\ circuits' = [circuits EXCEPT ![s] = OnSuccess(@)]
    /\ lead' = [lead EXCEPT ![s] = IF @ > -MaxLead THEN @ - 1 ELSE @]

(* The lookup fails or times out; its caller goes on with a default, and   *)
(* getIpReputation remembers the default.                                  *)
LookupFails(r, s) ==
    /\ ~serviceUp[s]
    /\ LookupEnds(r, s, "fallback")
    /\ \E byRate \in RateVerdicts :
          circuits' = [circuits EXCEPT ![s] = OnFailure(@, byRate)]
    /\ lead' = [lead EXCEPT ![s] = OneMore(@, MaxLead)]

(* Promise.all is settled, or there was nothing to wait for. *)
Answer(r) ==
    /\ phase[r] # "idle"
    /\ \A s \in Services : <<r, s>> \notin lookups
    /\ phase' = [phase EXCEPT ![r] = "idle"]
    /\ followed' = followed \ {r}
    /\ UNCHANGED <<circuits, lead, lookups, entry, serviceUp, resets>>

ResetCircuitBreakers ==
    /\ resets < MaxResets
    /\ resets' = resets + 1
    /\ circuits' = [s \in Services |-> NewCircuit]
    /\ lead' = [s \in Services |-> 0]
    /\ UNCHANGED <<phase, lookups, followed, entry, serviceUp>>

(* cleanupCache removes the entry when it is older than cacheTTL; its time *)
(* limit may keep it from getting that far.  clearCache removes it too,    *)
(* however old.                                                            *)
ForgetEntry ==
    /\ entry # NoEntry
    /\ entry' = NoEntry
    /\ UNCHANGED <<circuits, lead, phase, lookups, followed, serviceUp, resets>>

DetectorTick ==
    /\ \/ \E s \in Services : circuits[s].openLeft > 0
       \/ entry.score # "none" /\ entry.age < CacheTTL
    /\ circuits' = [s \in Services |-> TimePasses(circuits[s])]
    /\ entry' = IF entry = NoEntry THEN NoEntry
                ELSE [entry EXCEPT !.age = OneMore(@, CacheTTL)]
    /\ UNCHANGED <<lead, phase, lookups, followed, serviceUp, resets>>

ExternalServiceToggles(s) ==
    /\ serviceUp' = [serviceUp EXCEPT ![s] = ~@]
    /\ UNCHANGED <<circuits, lead, phase, lookups, followed, entry, resets>>

DetectorNext ==
    \/ \E r \in Requests :
        \/ \E origin \in Origins : CheckRequest(r, origin)
        \/ \E s \in Services : LookupSucceeds(r, s) \/ LookupFails(r, s)
        \/ Answer(r)
    \/ ResetCircuitBreakers
    \/ ForgetEntry
    \/ DetectorTick
    \/ \E s \in Services : ExternalServiceToggles(s)

DetectorSpec == DetectorInit /\ [][DetectorNext]_detectorVars

(* Time passes, lookups end and answers are given.  Strong fairness for    *)
(* new requests: however many are answered from the cache, addresses that  *)
(* are not in it keep turning up.  Nothing is assumed of the clean-up.     *)
DetectorFairness ==
    /\ WF_detectorVars(DetectorTick)
    /\ \A r \in Requests :
        /\ SF_detectorVars(CheckRequest(r, "new"))
        /\ WF_detectorVars(Answer(r))
        /\ \A s \in Services :
            WF_detectorVars(LookupSucceeds(r, s) \/ LookupFails(r, s))

DetectorFairSpec == DetectorSpec /\ DetectorFairness

-----------------------------------------------------------------------------
(* The breaker of each service is one that waits its time and closes after *)
(* enough probes in a row, though one request may consult them all, time   *)
(* passes for all of them and a reset closes them together.                *)
ContractOf(s) == INSTANCE Breaker WITH
    view <- View(circuits[s]),
    forced <- resets

AllBegin == \A s \in Services : ContractOf(s)!BreakerInit

AllStep ==
    \A s \in Services :
        ContractOf(s)!BreakerNext \/ UNCHANGED <<View(circuits[s]), resets>>

AllKeepContract == AllBegin /\ [][AllStep]_detectorVars

(* As long as one service never fails, the others recover: the fast-fail   *)
(* test never turns requests away, so breakers whose service is back are   *)
(* probed and close.                                                       *)
PartialOutageHeals ==
    (\E s \in Services : []serviceUp[s]) =>
        \A s \in Services :
            <>[]serviceUp[s] => <>[](circuits[s].state = "CLOSED")

(* Once every breaker is open none of them leaves OPEN, whatever requests  *)
(* and late answers come and however long it takes, until an operator      *)
(* resets them: shouldSkipExternalChecks reads the state without the step  *)
(* to HALF_OPEN, and turns away the only calls that make that step.        *)
AllOpenStaysOpen ==
    [][((\A s \in Services : circuits[s].state = "OPEN") /\ resets' = resets)
        => \A s \in Services : circuits'[s].state = "OPEN"]_detectorVars

(* The default that getIpReputation remembers for a failed lookup wears    *)
(* off: when the reputation service is back for good (and another one      *)
(* keeps the detector from fast-failing), a time comes after which no      *)
(* request is scored with it.                                              *)
FallbacksWearOff ==
    (\E s \in Services : []serviceUp[s]) =>
        (<>[]serviceUp[Cached] => <>[](Served => entry.score = "real"))
=============================================================================
