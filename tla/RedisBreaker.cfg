SPECIFICATION FairSpec
CONSTANTS
    Calls = {c1, c2, c3}
    Threshold = 5
    Cooldown = 2
    HalfOpenMax = 1
    MaxRetries = 2
INVARIANTS
    BreakerConsistent
    NoStaleReport
PROPERTIES
    CoolingKeepsOut
    IncrementNeverProbes
    LostSlotStaysLost
    CallsEnd
