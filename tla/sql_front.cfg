SPECIFICATION FrontSpec
CONSTANTS
    Ident <- Names
    MaxList = 2
    ByteSpan = 4
    INT_BYTES = 2
    LEN_BYTES = 1
    TextLimit = 2
    Statement <- Statements
CHECK_DEADLOCK FALSE
INVARIANTS WritesBack Understood RowSurvives
