SPECIFICATION FairSpec
CONSTANTS
    MaxLen = 4
    MaxComments = 5
    Inputs <- MCInputs
INVARIANTS
    OneStatement
    FirstStatementPrinted
    LexicalErrorReported
    ErrorObjectSet
    CaretInText
    FormatStable
PROPERTY
    Terminates
