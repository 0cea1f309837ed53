SPECIFICATION FairSpec
CONSTANTS
    Orphan = {o1}
    Command = {k1, k2}
    MaxKillers = 2
INVARIANTS
    TypeOK
    KillersNeverBlock
    ReturnedCommandsEnded
PROPERTIES
    ZombiesReaped
    CommandsReturn
