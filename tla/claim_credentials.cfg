SPECIFICATION FairSpec
CONSTANTS
    Namespaces <- Cluster
    PackNamespace <- OwnNamespace
    Namespace <- NoNamespace
    Names <- Credentials
    Endpoints <- Urls
    MaxWrites = 4
PROPERTIES
    GoodCredentialsSuffice
