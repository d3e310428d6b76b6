SPECIFICATION FairSpec
CONSTANTS
    nodeNameType = "hostname"
    PageSize = 10
    Inventory <- MCInventory
    Callers = {c1}
    Ops = {"Ensure", "Update", "Delete"}
    Services <- MCServices
    NodeLists <- MCNodeLists
    LBIds = {"lb1", "lb2"}
    Serial = TRUE
    ListLag = TRUE
    Faults <- MCFaults
INVARIANT TypeOK
INVARIANT SuccessMeansSynced
INVARIANT OneLoadBalancer
INVARIANT DeletedMeansGone
PROPERTY NoNeedlessOutage
PROPERTY CallsEnd
