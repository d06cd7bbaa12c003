----------------------------- MODULE Ascending -----------------------------
(***************************************************************************)
(* Finite sets listed in order: what a sort of a log's positions or a scan *)
(* of the row index gives.  An element's place in the list is the number   *)
(* of elements in front of it.                                             *)
(***************************************************************************)
EXTENDS Integers, FiniteSets

\* The elements of S in front of x, for an order given as the set of its pairs.
InFront(S, R, x) == {y \in S : <<y, x>> \in R}

\* The elements of S, each once, in the order R.
InOrder(S, R) ==
    [n \in 1..Cardinality(S) |-> CHOOSE x \in S : Cardinality(InFront(S, R, x)) = n - 1]

\* The pairs of numbers of S the lesser of which comes first.
Less(S) == {p \in S \X S : p[1] < p[2]}

\* The numbers of S, the least first.
Ascending(S) == InOrder(S, Less(S))

IsAscending(seq) == \A m, n \in DOMAIN seq : m < n => seq[m] < seq[n]

=============================================================================
