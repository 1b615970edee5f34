SPECIFICATION Spec
CONSTANTS
    Keywords <- SomeKeywords
    ReservedKeywords <- SomeReserved
    AllowedExperimental <- SomeExperimental
    LowerCase <- SomeLower
    Composed <- SomeComposed
    MaxPlaceholderIdx = 10
    Spare = 1
    Texts <- NoTexts
    Values <- NamesWithPrefix
    Followers <- SomeFollowers
INVARIANTS
    BareNamesReadBack
CHECK_DEADLOCK FALSE
