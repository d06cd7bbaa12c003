SPECIFICATION GappedSpec
CONSTANTS
    Key <- Seven
    Val = {v1}
    NoVal = none
    EMPTY_SLOT = 99
    eps = 1
    DensityOf10 = 7
    MaxSegmentKeys = 8
    MaxKeys = 7
    MaxSlots = 8
INVARIANTS
    RefreshInRange
