SPECIFICATION Spec
CONSTANTS
    Names = {a, b}
    Elems <- ElemsAcross
    WordBits = 2
    CopySmallToLarge = FALSE
SYMMETRY Symmetry
INVARIANTS
    BitmapMaintained
    QueriesAgree
    WalksAgree
PROPERTY
    OperationsAgree
