SPECIFICATION Spec
CONSTANTS
    TabWidth = 2
    Documents <- MCDocuments
    Modes = {"no", "deindent", "extra"}
    Leaves <- MCLeaves
    Labels <- MCLabels
    Widths = {4, 7}
    MaxCalls = 5
    MaxDocs = 3
INVARIANTS
    GreedyLayout
    WordsKept
    UnionSound
    PositionsInRange
CHECK_DEADLOCK FALSE
