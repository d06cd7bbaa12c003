SPECIFICATION LocateSpec
CONSTANTS
    Key = {1, 2, 3, 4, 5}
    EMPTY_SLOT = 9
    Limits = {1, 2}
    MaxLen = 7
INVARIANTS LowerBound BracketHolds
PROPERTIES Terminates
\* locate() returns.
CHECK_DEADLOCK FALSE
