SPECIFICATION Spec
CONSTANTS
    Manifests <- Written
    knownProducts <- Known
    MaxFiles = 2
CHECK_DEADLOCK FALSE
INVARIANTS
    TypeOK
    ExitTellsTheTruth
    ReachMatchesFindings
    TiersAreCumulative
    GatingDecides
