SPECIFICATION FairSpec
CONSTANTS
    nodeNameType = "hostname"
    PageSize = 10
    Inventory <- MCInventory
    Callers = {c1, c2}
    Nodes = {"n1", "n2", "n3", ""}
    LocalInstance = "i1"
    Ops = {"attach", "isattached", "detach", "waitforattach"}
    Letters = {"b", "c"}
    Serial = TRUE
    Faults = {"DescribeInstances", "DescribeDisks", "AttachDisk", "DetachDisk"}
INVARIANT TypeOK
INVARIANT AttachReturnsAttached
INVARIANT DetachReturnsDetached
PROPERTY CallsEnd
