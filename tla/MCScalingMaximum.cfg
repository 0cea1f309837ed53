SPECIFICATION Spec
CONSTANTS
    Counts <- MCManyNodes
    MaxFromEnv <- MCLeastFromEnv
    PinMin = 2
    PinMax <- MCRealPinMax
    Asks = {0}
    MaxFileErrors = 3
    AdminReplicas = {1}
    NoLine = NoLine
INVARIANT TargetsWithinMaximum
