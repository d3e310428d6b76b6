SPECIFICATION Spec
CONSTANTS
    nodeNameType = "hostname"
    PageSize = 10
    Machines <- MCMachines
    NodeLists <- MCHostLists
INVARIANT MissingMeansMissing
