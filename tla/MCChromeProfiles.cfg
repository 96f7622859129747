SPECIFICATION Spec
CONSTANTS
    r1 = r1
    r2 = r2
    r3 = r3
    p1 = p1
    p2 = p2
    NoRun = NoRun
    Runs = {r1, r2, r3}
    Processes = {p1, p2}
    ProcessOf <- MCProcessOf
    Unopenable = {r1}
    MaxSessions = 1
    MaxKills = 1
INVARIANTS
    TypeOK
    LivingRunsAreLeftAlone
    NothingLeftBehind
CHECK_DEADLOCK FALSE
