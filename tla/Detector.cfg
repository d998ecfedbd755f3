SPECIFICATION DetectorFairSpec
CONSTANTS
    FailureThreshold = 2
    SuccessThreshold = 1
    OpenDuration = 1
    LongestOpen = 1
    RateVerdicts = {FALSE}
    Services = {s1, s2}
    Cached = s1
    Requests = {r1, r2}
    CacheTTL = 1
    MaxLead = 1
    MaxResets = 1
PROPERTIES
    AllKeepContract
    PartialOutageHeals
    AllOpenStaysOpen
    FallbacksWearOff
