--------------------------- MODULE MCGappedArray ---------------------------
(***************************************************************************)
(* Small instances of GappedArray: keys in clusters that no single line    *)
(* fits, so that the array has several segments.                           *)
(***************************************************************************)
EXTENDS GappedArray, TLC

Five  == {0, 1, 2, 20, 21}
Seven == {1, 2, 10, 11, 12, 30, 31}

\* No operation looks at a value.
Interchange == Permutations(Val)

=============================================================================
