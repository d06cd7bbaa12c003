SPECIFICATION TreeSpec
CONSTANTS
    Key = {1, 2, 3, 4, 5, 6, 7}
    Val = {v1, v2}
    NoVal = none
    ORDER = 2
INVARIANTS SearchFinds LeafChain Balanced
