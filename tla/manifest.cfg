SPECIFICATION Spec
CONSTANTS
    Manifests <- Written
CHECK_DEADLOCK FALSE
INVARIANTS
    AlertsAreGrounded
    DriftIsSeen
    OrderIsNoDrift
    WarnedIffMissing
