CONSTANTS
    MaxConcurrency = 3
    Spare = 2
    Upcoming <- MCUpcoming
    UpcomingAlways <- MCUpcoming
    Limit = 2
    Trees <- MCTrees
    Filters <- MCFilters
    None = None
    TimeoutKinds = {k1, k2}
    Durations = {1}
    BrowserTimeout = 30
    TimeLimit = 600
    Concurrencies = {1, 9}
    MaxSessionTests = 2
SPECIFICATION MCSpec
INVARIANTS
    LeavesOutcome
    SelectedTestsRun
    ConcurrencyIsReached
    TestsRunAsSet
