CONSTANTS
    Origins = {o1, o2}
    Windows = {tab, w1, w2}
    Tab = tab
    RevisitsBlank = TRUE
    MaxActs = 4
    MaxTests = 2
SPECIFICATION Spec
INVARIANTS
    StorageIsCleared
CHECK_DEADLOCK FALSE
