CONSTANTS
    MaxConcurrency = 2
    Spare = 1
    Upcoming <- MCUpcoming
    UpcomingAlways <- MCUpcomingAlways
SPECIFICATION Spec
INVARIANTS
    TypeOK
    CoversWaiting
    KeptWithinBound
PROPERTIES
    CreatesOnlyWhatIsNeeded
    NoCreationOnceCancelled
CHECK_DEADLOCK FALSE
