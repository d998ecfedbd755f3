SPECIFICATION Spec
CONSTANTS
    Donations = {1, 2, 3}
    LastStamp = 2
    PageSize = 1
    TtlMs = 2
    MaxFill = 1
    r1 = r1
    r2 = r2
    Readers = {r1, r2}
    Rows <- UpToTwoOrThree
INVARIANTS
    TypeOK
    FiguresAgree
    DashboardIsRecent
    CursorWalkIsExact
    OffsetWalkMissesOnlyTies
