CONSTANTS
    Tests = {"t1", "t2", "t3"}
    Suites = {"root"}
    Root = "root"
    Children <- SmallChildren
    Parallelism <- SequentialParallelism
    Dedicated = {}
    Fresh = {}
    RunAlways = {}
    Unplannable = {}
    FailFast = TRUE
    Reuse = FALSE
    MaxTests = 2
    Spare = 1
    Outcomes = {"passed"}
    Faults = {}
SPECIFICATION Spec
INVARIANTS
    BrowsersWithinBound
