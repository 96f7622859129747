CONSTANTS
    None = None
    StepKinds = {a}
    RecentStepCount = 2
    MaxSteps = 1
    MaxPanics = 2
    MaxClock = 0
SPECIFICATION BodySpec
INVARIANTS
    FailingPanicCounts
CHECK_DEADLOCK FALSE
