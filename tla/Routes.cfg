SPECIFICATION FairSpec
CONSTANTS
    nodeNameType = "hostname"
    PageSize = 10
    Nodes = {"n1", "n2"}
    ClusterCIDRs = {"c1", "c2"}
    OtherRoutes <- MCOtherRoutes
    Machines <- MCMachines
    Releases = TRUE
    Changes = 5
    Failures = 1
    maxRetries = 2
INVARIANT TypeOK
PROPERTY KeepsWantedRoutes
PROPERTY Converges
