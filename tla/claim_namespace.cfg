SPECIFICATION FairSpec
CONSTANTS
    Specs <- ForeignSpecs
    PackNamespace = "team"
    Rejected = {}
    MaxGenerations = 1
    MaxRuns = 0
    MaxFaults = 0
CHECK_DEADLOCK FALSE
PROPERTIES
    ForeignObjectsStay
