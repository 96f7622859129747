CONSTANTS
    Tests = {"t1", "t2", "t3", "t4"}
    Suites = {"root"}
    Root = "root"
    Children <- FlatChildren
    Parallelism <- FlatParallelism
    Dedicated = {"t1"}
    Fresh = {"t3"}
    RunAlways = {"t2"}
    Unplannable = {"t4"}
    FailFast = TRUE
    Reuse = TRUE
    MaxTests = 2
    Spare = 1
    Outcomes = {"passed", "failed"}
    Faults = {"cancel", "creation", "quit", "baseline", "reset"}
SPECIFICATION FairSpec
INVARIANTS
    CountersMatchSessions
    RecordedOnce
PROPERTIES
    NoStartAfterStop
    RefinesSessionPool
    Terminates
