SPECIFICATION FairSpec
CONSTANTS
    Specs <- FailoverSpecs
    FirstSpecs <- Created
    PackNamespace = "team"
    Operators = {a, b}
    None = None
    MaxGenerations = 2
    MaxFaults = 2
INVARIANTS
    TypeOK
    NobodySleepsOnWork
PROPERTIES
    PromiseKept
    FailoverConverges
CHECK_DEADLOCK FALSE
