CONSTANTS
    Tests = {"t1", "t2", "t3"}
    Suites = {"root"}
    Root = "root"
    Children <- SmallChildren
    Parallelism <- FlatParallelism
    Dedicated = {}
    Fresh = {}
    RunAlways = {}
    Unplannable = {}
    FailFast = TRUE
    Reuse = TRUE
    MaxTests = 2
    Spare = 0
    Outcomes = {"passed"}
    Faults = {"cancel"}
SPECIFICATION Spec
INVARIANTS
    BoardShowsResets
