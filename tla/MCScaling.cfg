SPECIFICATION FairSpec
CONSTANTS
    Counts <- MCCounts
    MaxFromEnv <- MCMaxFromEnv
    PinMin = 2
    PinMax <- MCPinMax
    Asks = {0}
    MaxFileErrors = 1
    AdminReplicas = {1}
    NoLine = NoLine
INVARIANTS
    TypeOK
    TargetsCoverNodes
    FileMatchesTargets
PROPERTIES
    ScaledToFit
    
