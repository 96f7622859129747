CONSTANTS
    Tests = {"t1", "t2", "t3", "t4"}
    Suites = {"root", "inner"}
    Root = "root"
    Children <- NestedChildren
    Parallelism <- NestedParallelism
    Dedicated = {}
    Fresh = {"t4"}
    RunAlways = {"t3"}
    Unplannable = {}
    FailFast = TRUE
    Reuse = TRUE
    MaxTests = 2
    Spare = 0
    Outcomes = {"passed", "timedOut"}
    Faults = {"creation", "reset"}
SPECIFICATION Spec
INVARIANTS
    TicketsAreLive
    SessionsAreReusedSafely
    NoLostWakeup
