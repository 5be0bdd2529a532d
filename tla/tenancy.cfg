SPECIFICATION FairSpec
CONSTANTS
    Packs <- Pair
    Words <- Vocabulary
    SpecsOf <- ApartSpecs
    MaxUid = 3
    MaxEdits = 1
    MaxFaults = 1
CHECK_DEADLOCK FALSE
INVARIANTS
    ReadyIsSafe
PROPERTIES
    ObjectsKeepTheirOwner
    TenantsSettle
