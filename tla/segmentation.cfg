SPECIFICATION SegmentationSpec
CONSTANTS
    Dx = {1, 2, 4}
    Dy = {1, 2, 5}
    eps = 1
    MaxPoints = 6
INVARIANTS AverageFits Fewest PinnedWithinEps CapKept LearnedFindsKeys SegmentedFindsKeys
\* Every point has been fitted.
CHECK_DEADLOCK FALSE
