SPECIFICATION Spec
CONSTANTS
    Counts <- MCCounts
    MaxFromEnv <- MCMaxFromEnv
    PinMin = 2
    PinMax <- MCPinMax
    Asks = {0, 4}
    MaxFileErrors = 1
    AdminReplicas = {1}
    NoLine = NoLine
INVARIANT TargetsOnFile
