SPECIFICATION Spec
CONSTANTS
    nodeNameType = "hostname"
    PageSize = 10
    Inventory <- MCInventory
    Callers = {c1}
    Nodes = {"n1", "n2"}
    LocalInstance = ""
    Ops = {"attach", "detach"}
    Letters = {"b", "c"}
    Serial = TRUE
    Faults = {"WaitForDisk"}
INVARIANT AttachReturnsAttached
