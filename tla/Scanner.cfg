SPECIFICATION Spec
CONSTANTS
    Keywords <- SomeKeywords
    ReservedKeywords <- SomeReserved
    AllowedExperimental <- SomeExperimental
    LowerCase <- SomeLower
    Composed <- SomeComposed
    MaxPlaceholderIdx = 10
    Spare = 1
    Texts <- SomeTexts
    Values <- SomeValues
    Followers <- SomeFollowers
INVARIANTS
    StringsKept
    TokensTile
    NumbersWellFormed
    DollarEndsAtFirstTag
    JoinedAcrossLines
    ReadBack
    AnswersRight
PROPERTIES
    Answered
CHECK_DEADLOCK FALSE
