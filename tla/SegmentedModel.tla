--------------------------- MODULE SegmentedModel ---------------------------
(***************************************************************************)
(* cpp/segmented_model.h, the fit with pinned anchors: line segments that  *)
(* predict the position of each of a sorted list of keys within eps.       *)
(*                                                                         *)
(* A segment's line goes through its anchor (start_key, anchor) and climbs *)
(* num positions every den keys.  The code computes with doubles; here     *)
(* slopes are exact fractions.                                             *)
(***************************************************************************)
EXTENDS Integers, Sequences, FiniteSets, FiniteSetsExt

\* The slopes that take the anchor i within eps of the point k: those from
\* (dy - eps) / dx to (dy + eps) / dx.
Rise(positions, i, k) == positions[k] - positions[i]
Run(keys, i, k)       == keys[k] - keys[i]

\* Some slope fits every point from i to j.
OneLineFits(keys, positions, eps, i, j) ==
    \A a, b \in (i + 1)..j :
        (Rise(positions, i, a) - eps) * Run(keys, i, b) <= (Rise(positions, i, b) + eps) * Run(keys, i, a)

\* Broken: the cap on a segment's keys is not looked at.
LastUncapped(keys, positions, eps, max_keys, i) ==
    Max({j \in i..Len(keys) : OneLineFits(keys, positions, eps, i, j)})

\* The last point of the segment that starts at point i: the first one no slope
\* can take in as well ends it.
LastOf(keys, positions, eps, max_keys, i) ==
    Max({j \in i..Len(keys) : j - i < max_keys /\ OneLineFits(keys, positions, eps, i, j)})

\* Broken: the steepest slope that fits the last point, whatever the others say.
LastPointsLine(keys, positions, eps, i, j) ==
    IF i = j THEN [start_key |-> keys[i], anchor |-> positions[i], num |-> 0, den |-> 1]
    ELSE [start_key |-> keys[i], anchor |-> positions[i],
          num |-> Rise(positions, i, j) + eps, den |-> Run(keys, i, j)]

\* The segment from point i to point j: the middle of the slopes that fit.
Line(keys, positions, eps, i, j) ==
    IF i = j THEN [start_key |-> keys[i], anchor |-> positions[i], num |-> 0, den |-> 1]
    ELSE LET low  == CHOOSE a \in (i + 1)..j : \A b \in (i + 1)..j :
                        (Rise(positions, i, b) - eps) * Run(keys, i, a)
                            <= (Rise(positions, i, a) - eps) * Run(keys, i, b)
             high == CHOOSE a \in (i + 1)..j : \A b \in (i + 1)..j :
                        (Rise(positions, i, a) + eps) * Run(keys, i, b)
                            <= (Rise(positions, i, b) + eps) * Run(keys, i, a)
         IN  [start_key |-> keys[i], anchor |-> positions[i],
              num |-> (Rise(positions, i, low) - eps) * Run(keys, i, high)
                      + (Rise(positions, i, high) + eps) * Run(keys, i, low),
              den |-> 2 * Run(keys, i, low) * Run(keys, i, high)]

\* Segments from left to right, each as long as one line allows.
build_segmented_model(keys, positions, eps, max_keys) ==
    LET from[i \in 1..(Len(keys) + 1)] ==
            IF i > Len(keys) THEN <<>>
            ELSE LET j == LastOf(keys, positions, eps, max_keys, i)
                 IN  <<Line(keys, positions, eps, i, j)>> \o from[j + 1]
    IN  from[1]

\* The branchless binary search for the segment responsible for a key.
find_segment_index(segments, key) ==
    LET size  == Len(segments)
        at[w \in {v \in (1..size) \X (1..size) : v[1] + v[2] <= size + 1}] ==
            LET base == w[1]
                n    == w[2]
                half == n \div 2
            IN  IF n = 1 THEN base
                ELSE at[<<IF segments[base + half].start_key <= key THEN base + half ELSE base,
                          n - half>>]
    IN  at[<<1, size>>]

\* std::llround: the nearest integer, halves away from zero.
Rounded(num, den) ==
    IF num >= 0 THEN (2 * num + den) \div (2 * den) ELSE -((den - 2 * num) \div (2 * den))

\* Where a segment's line puts a key, as a fraction over the segment's den.
OnLine(segment, key) == segment.anchor * segment.den + segment.num * (key - segment.start_key)

-----------------------------------------------------------------------------
(* What the properties say of it.                                          *)

\* Segment s is the one that predicts the key.
Owns(segs, s, key) ==
    /\ s = 1 \/ segs[s].start_key <= key
    /\ s = Len(segs) \/ key < segs[s + 1].start_key

\* A predicted position, num / den, is at most so far from position j.
Near(j, num, den, far) == num - j * den \in (-far * den)..(far * den)

=============================================================================
