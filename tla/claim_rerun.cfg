SPECIFICATION Spec
CONSTANTS
    Specs <- AzureSpecs
    PackNamespace = "team"
    Rejected = {}
    MaxGenerations = 1
    MaxRuns = 3
    MaxFaults = 0
CHECK_DEADLOCK FALSE
PROPERTIES
    RerunsOnlyOnResync
