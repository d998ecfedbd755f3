SPECIFICATION Spec
CONSTANTS
    Donations = {d1, d2}
    Workers = {w1, w2}
    NoSession = NoSession
    MaxFaults = 2
SYMMETRY Symmetry
INVARIANTS
    SingleProcessor
    PaidIsAttached
    StatusMatchesCheckout
    ProcessedIsApplied
    AckedIsRecorded
PROPERTIES
    LedgerRefinement
