CONSTANTS
    None = None
    StepKinds = {a, b}
    RecentStepCount = 2
    MaxSteps = 3
    MaxPanics = 2
    MaxClock = 1
    TailCapacity = 2
    ChannelCapacity = 2
    MaxLines = 5
    Activities = {a, b}
    TestRunning = 8
    Session = 4
    MinTick = 1
    MaxTick = 2
    Never = Never
    MaxLate = 1
    MaxTime = 12
    PlannedTests = 3
    Records <- MCRecords
    Kinds = {1, 2}
    RunTimes <- MCRunTimes
    FrameRuns = {r1, r2}
    Stacks <- MCStacks
    Locations <- MCLocations
    Packages <- MCPackages
    Workspaces <- MCWorkspaces
    TargetDirs <- MCTargetDirs
    Marked <- MCMarked
    OwnSources <- MCOwnSources
    RunnerSource <- MCRunnerSource
SPECIFICATION MCSpec
SYMMETRY Symmetry
INVARIANTS
    StepsAreTold
    ReportIsTrue
    OutputIsTrue
    WarnedInTime
    SummaryAddsUp
    FramesAreTestCode
    HooksAreInstalled
CHECK_DEADLOCK FALSE
