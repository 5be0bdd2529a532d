SPECIFICATION Spec
CONSTANTS
    Specs <- VerdictSpecs
    PackNamespace = "team"
    Rejected = {}
    MaxGenerations = 2
    MaxRuns = 2
    MaxFaults = 1
CHECK_DEADLOCK FALSE
INVARIANTS
    TypeOK
    ConditionsAgree
    ReadyMeansApplied
    HashWasApplied
    ToolsOfOnePass
    RunOfOnePass
PROPERTIES
    PromiseSafe
    StatusNeverRegresses
    ContentNeverGoesBack
