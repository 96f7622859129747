CONSTANTS
    tab = tab
    w1 = w1
    w2 = w2
    o1 = o1
    o2 = o2
    Origins <- MCOrigins
    Windows <- MCWindows
    Tab = tab
    RevisitsBlank = FALSE
    MaxActs = 4
    MaxTests = 2
    None = None
    OpenPages = {p1, p2, p3}
    MaxChanges = 1
SPECIFICATION MCSpec
SYMMETRY Symmetry
INVARIANTS
    StateTypeOK
    StorageIsCleared
    NothingElseSurvives
    OnlyFrozenPagesAreClosed
    FrozenPagesAreClosed
CHECK_DEADLOCK FALSE
