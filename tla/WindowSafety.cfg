SPECIFICATION WindowSpec
CONSTANTS
    Outcomes = {o1, o2, o3, o4}
    WindowSize = 3
    BucketDuration = 2
    Start = 7
    MaxNow = 22
SYMMETRY Symmetry
INVARIANTS
    NothingStaleIsCounted
    LostOnlyWithAnOldOne
