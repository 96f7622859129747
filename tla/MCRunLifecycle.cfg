CONSTANTS
    SHUTDOWN = SHUTDOWN
    Runs = {r1, r2}
    Tokens = {SHUTDOWN, own}
    PausingRuns = {r1, r2, r3}
    Readers = {t1, t2, t3, t4}
    NoReader = NoReader
    MaxLines = 3
SPECIFICATION MCSpec
INVARIANTS
    StateTypeOK
    LaterRunsAreCancelled
    NoErrorIsLost
    CleansUp
    NotKilledWhileBrowsing
    NoLineIsLost
PROPERTIES
    CancelledRunsReturn
    EveryPauseEnds
CHECK_DEADLOCK FALSE
