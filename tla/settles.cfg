SPECIFICATION FairSpec
CONSTANTS
    Specs <- SettlingSpecs
    PackNamespace = "team"
    Rejected <- FirstDashboard
    MaxGenerations = 2
    MaxRuns = 0
    MaxFaults = 1
CHECK_DEADLOCK FALSE
INVARIANTS
    IInv
    ReadyMeansApplied
    NeverAsleep
    ToolReportsAreTrue
PROPERTIES
    StatusCatchesUp
    Converges
    DeletedPackCollected
    PromiseKept
    ContentNeverGoesBack
