----------------------------- MODULE StaticIndex -----------------------------
(***************************************************************************)
(* The two indexes over a sorted array without gaps: one line fitted by    *)
(* least squares (cpp/linear_model.h) and the segments of                  *)
(* cpp/segmented_model.h.  Both look a key up in a window around where     *)
(* their model predicts it.  The arrays are the keys of Segmentation.      *)
(* Position i of the code is position i here: a key's position is one less *)
(* than its place in the sequence.                                         *)
(***************************************************************************)
EXTENDS Segmentation

\* The least-squares line through the keys and their positions: slope num / den,
\* and through the means of both (all n times as large, to stay whole).
fit_line ==
    LET n     == Len(keys)
        sumX  == SumFunction(keys)
        dx(i) == n * keys[i] - sumX
        dy(i) == 2 * (i - 1) - (n - 1)
        sumXY == SumFunction([i \in DOMAIN keys |-> dx(i) * dy(i)])
        sumXX == SumFunction([i \in DOMAIN keys |-> dx(i) * dx(i)])
    IN  IF n < 2 THEN [num |-> 0, den |-> 1, n |-> 1, sumX |-> 0, sumY2 |-> 0]
        ELSE [num |-> n * sumXY, den |-> 2 * sumXX,
              n |-> n, sumX |-> sumX, sumY2 |-> n * (n - 1)]

\* LinearModel::predict.
predict(line, key) ==
    Rounded(line.sumY2 * line.den + 2 * line.num * (line.n * key - line.sumX), 2 * line.n * line.den)

Distance(i, j) == Max({i - j, j - i})

\* Broken: an error counts only when the prediction is too low.
ErrorsBelow(line) ==
    IF Len(keys) < 2 THEN 0
    ELSE Max({0} \cup {(i - 1) - predict(line, keys[i]) : i \in DOMAIN keys})

\* The worst error on the keys the line was fitted to.
max_error(line) ==
    IF Len(keys) < 2 THEN 0
    ELSE Max({Distance(i - 1, predict(line, keys[i])) : i \in DOMAIN keys})

\* Broken: the window ends one short.
ShortWindow(predicted, error) ==
    [lo |-> Max({0, predicted - error}), hi |-> Min({Len(keys) - 1, predicted + error - 1})]

\* The positions that are looked at for a key predicted at a position.
Window(predicted, error) ==
    [lo |-> Max({0, predicted - error}), hi |-> Min({Len(keys) - 1, predicted + error})]

NotFound == -1

\* What reading past the array can end in, other than an answer.
Fault == -2

\* What the comparison of the key at a position with the one looked up can lead to:
\* behind the last key anything lies.
ReadAt(p, key) ==
    IF p < Len(keys) THEN {IF keys[p + 1] = key THEN p ELSE NotFound} ELSE {p, NotFound, Fault}

\* The first position from first on whose key is not below the one looked up; a
\* range that ends before it begins is left at once.
lower_bound(first, end, key) ==
    IF end < first THEN first ELSE Min({end} \cup {p \in first..(end - 1) : keys[p + 1] >= key})

\* The binary search in a window: the set of what it may answer, a position or
\* NotFound.  Nothing bounds the window's start: what is left at once is not the end.
FindIn(w, key) ==
    LET it == lower_bound(w.lo, w.hi + 1, key)
    IN  IF it = w.hi + 1 THEN {NotFound} ELSE ReadAt(it, key)

LearnedWindow(key) == LET line == fit_line IN Window(predict(line, key), max_error(line))

learned_search(key) == FindIn(LearnedWindow(key), key)

SegmentedWindow(key) ==
    LET model == build_segmented_model(keys, positions, eps, Len(keys))
        seg   == model[find_segment_index(model, key)]
    IN  Window(Rounded(OnLine(seg, key), seg.den), eps)

segmented_search(key) == FindIn(SegmentedWindow(key), key)

-----------------------------------------------------------------------------

\* The positions are those of an array without gaps.
Dense == \A i \in DOMAIN positions : positions[i] = i - 1

\* The queries: every number from before the first key to past the last.
Queries == (Head(keys) - 2)..(Last(keys) + 2)

PositionOf(key) == IF Contains(keys, key) THEN SelectInSeq(keys, LAMBDA k : k = key) - 1 ELSE NotFound

\* The window of a lookup starts in the array or at its end.
StartsInside(w) == w.lo <= Len(keys)

\* "the model gets us close, this finds the exact answer": every key of the array
\* is found at its own position, and no other number up to the last key is found.
\* Nor is a greater one, as long as its window starts in the array.
LearnedFindsKeys ==
    Dense => \A key \in Queries :
        key <= Last(keys) \/ StartsInside(LearnedWindow(key)) => learned_search(key) = {PositionOf(key)}

\* Some key of the array, no less than this one, belongs to the same segment.
WithinSegment(key) ==
    LET model == build_segmented_model(keys, positions, eps, Len(keys))
    IN  \E k \in DOMAIN keys :
            /\ key <= keys[k]
            /\ find_segment_index(model, keys[k]) = find_segment_index(model, key)

\* The same of the segments, up to the last key of each: every key is found, each
\* within eps of its prediction, and what is not a key is not.  Further on it is not
\* either, as long as the window starts in the array.
SegmentedFindsKeys ==
    Dense => \A key \in Queries :
        WithinSegment(key) \/ StartsInside(SegmentedWindow(key)) => segmented_search(key) = {PositionOf(key)}

=============================================================================
