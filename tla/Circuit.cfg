SPECIFICATION FairSpec
CONSTANTS
    FailureThreshold = 3
    SuccessThreshold = 3
    OpenDuration = 2
    LongestOpen = 3
    RateVerdicts = {TRUE, FALSE}
    Calls = {c1, c2, c3, c4}
    MaxForced = 2
INVARIANTS
    HalfOpenCountIsExact
PROPERTIES
    KeepsContract
    LateResultsDoNotMoveIt
    RecoversWhenUp
