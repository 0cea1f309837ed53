SPECIFICATION Spec
CONSTANTS
    n1 = n1
    b1 = b1
    Absent = Absent
    Node = {n1}
    Bmc <- MCBmc
    BmcOf <- MCBmcOf
    Xd224 <- MCXd224
    HsmClass = {"River"}
    ForcePeriod = 2
    Handler = {h1}
INVARIANT ClearedNodesPickedUp
