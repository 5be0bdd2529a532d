SPECIFICATION FairSpec
CONSTANTS
    Namespaces <- Cluster
    PackNamespace <- OwnNamespace
    Namespace <- OwnNamespace
    Names <- Credentials
    Endpoints <- Urls
    MaxWrites = 4
INVARIANTS
    TypeOK
    CredentialsPaired
    NamedRunsAreReal
PROPERTIES
    GoodCredentialsSuffice
    PromiseKept
