SPECIFICATION OperatorSpec
CONSTANTS
    b1 = b1
    Absent = Absent
    Node = {n1}
    Bmc <- MCBmc
    BmcOf <- MCBmcOf
    Xd224 = {n1}
    HsmClass = {"Hill"}
    ForcePeriod = 2
    Handler = {h1}
INVARIANT MountainNodesKeyed
PROPERTY EventuallyRecorded
