SPECIFICATION FairSpec
CONSTANTS
    n1 = n1
    b1 = b1
    b2 = b2
    Node = {n1, n2}
    Bmc = {b1, b2}
    BmcOf <- MCBmcOf
    ChannelCap = 1
    VaultKey = VaultKey
    LocalKey = {l1}
    Broken = Broken
    None = None
INVARIANTS
    TypeOK
    NoNodeForgotten
    KeysArePair
PROPERTIES
    KeyFilesKept
    ImplementsDelivery
    SendersProceed
    EventuallyDelivered
