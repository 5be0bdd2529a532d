SPECIFICATION Spec
CONSTANTS
    Manifests <- Written
CHECK_DEADLOCK FALSE
INVARIANTS
    SilenceMeansAlert
