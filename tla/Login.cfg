SPECIFICATION Spec
CONSTANTS
    Logins = {l1, l2, l3, l4, l5, l6}
    MaxAttempts = 3
    WindowMs = 4
    BlockDurationMs = 4
SYMMETRY Symmetry
INVARIANTS
    BlockedWhenFull
    PendingPredatesBlock
PROPERTIES
    FailuresAreKept
    BlockIsNotShortened
