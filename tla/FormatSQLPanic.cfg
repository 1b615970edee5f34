SPECIFICATION Spec
CONSTANTS
    MaxLen = 2
    MaxComments = 2
    Inputs <- MCInputs
INVARIANT
    NoPanic
