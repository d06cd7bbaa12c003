SPECIFICATION GappedSpec
CONSTANTS
    Key <- Five
    Val = {v1, v2}
    NoVal = none
    EMPTY_SLOT = 99
    eps = 2
    DensityOf10 = 7
    MaxSegmentKeys = 4
    MaxKeys = 5
    MaxSlots = 6
INVARIANTS
    GappedTypeOK HoldsExpected Consistent LineDriftBounded PredictionBounded
SYMMETRY Interchange
