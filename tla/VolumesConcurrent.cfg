SPECIFICATION HSpec
CONSTANTS
    nodeNameType = "hostname"
    PageSize = 10
    Inventory <- MCInventory
    Callers = {c1, c2, c3}
    Nodes = {"n1", "n2"}
    LocalInstance = ""
    Ops = {"attach", "detach"}
    Letters = {"b"}
    Serial = FALSE
    Faults = {"AttachDisk", "DetachDisk"}
SYMMETRY MCSymmetry
PROPERTY ReleasesRightNode
PROPERTY Implements
