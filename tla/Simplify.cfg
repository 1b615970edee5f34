SPECIFICATION Spec
CONSTANTS
    Infix = {"OR", "AND", "=", "||", "+", "-", "*", "^"}
    Prefix = {"NOT", "-"}
    Postfix = {"IS NULL"}
    BareTruth = FALSE
    Names <- MCNames
    MaxTokens = 9
INVARIANTS
    MeaningKept
    Stable
CHECK_DEADLOCK FALSE
