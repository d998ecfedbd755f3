SPECIFICATION Spec
CONSTANTS
    Ids = {k1, k2}
    Slugs = {s1, s2}
    Statuses = {"DRAFT", "ACTIVE"}
    LastDay = 2
    Writers = {w1, w2}
SYMMETRY Symmetry
INVARIANTS
    WritesWhatItChecked
    ActiveIsListable
