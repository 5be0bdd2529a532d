SPECIFICATION Spec
CONSTANTS
    Packs <- Pair
    Words <- Vocabulary
    SpecsOf <- NestedSpecs
    MaxUid = 2
    MaxEdits = 0
    MaxFaults = 0
CHECK_DEADLOCK FALSE
PROPERTIES
    NoCrossDeletion
