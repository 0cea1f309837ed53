SPECIFICATION Spec
CONSTANTS
    n1 = n1
    b1 = b1
    b2 = b2
    Node = {n1}
    Bmc = {b1}
    BmcOf <- MCBmcOf
    ChannelCap = 1
    VaultKey = VaultKey
    LocalKey = {l1}
    Broken = Broken
    None = None
INVARIANT PostedKeyIsKey
