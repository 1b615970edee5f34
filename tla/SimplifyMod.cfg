SPECIFICATION Spec
CONSTANTS
    Infix = {"*", "%"}
    Prefix = {}
    Postfix = {}
    BareTruth = FALSE
    Names <- MCNames
    MaxTokens = 7
INVARIANT MeaningKept
CHECK_DEADLOCK FALSE
