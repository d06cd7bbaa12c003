--------------------------- MODULE MCDurableStore ---------------------------
(***************************************************************************)
(* Small instances of DurableStore.  One value is enough where all that    *)
(* matters is whether a row is there; two tell an old row from a new one.  *)
(***************************************************************************)
EXTENDS DurableStore, TLC

CONSTANTS k1, k2

Keys        == {k1, k2}
EveryRecord == [key : {k1, k2}, val : Value \cup {Absent}]
Interchange == Permutations(Keys) \cup Permutations(Value)

=============================================================================
