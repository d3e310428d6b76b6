SPECIFICATION SSpec
CONSTANTS
    nodeNameType = "hostname"
    PageSize = 10
    Inventory <- MCInventory
    Callers = {"worker", "sync"}
    Ops = {"Ensure", "Update", "Delete"}
    Services <- MCServices
    NodeLists <- MCNodeLists
    LBIds = {lb1, lb2}
    Serial = FALSE
    ListLag = FALSE
    Faults <- MCFaults
    Changes = 3
SYMMETRY MCSymmetry
INVARIANT STypeOK
INVARIANT OneLoadBalancer
INVARIANT SettledIsRight
PROPERTY ForgetsOnlyDeleted
