---------------------------- MODULE Segmentation ----------------------------
(***************************************************************************)
(* cpp/segmented_model.h, the fit without pinned anchors: its Segmenter    *)
(* takes one point at a time and keeps every line that still fits, as the  *)
(* shallowest and the steepest of them and the two hulls they pivot on.    *)
(* The same points are given to the fit of module SegmentedModel.          *)
(*                                                                         *)
(* Products of coordinates are exact in the code too (128 bits); the lines *)
(* that come out of them are doubles there and fractions here.             *)
(***************************************************************************)
EXTENDS SegmentedModel, SequencesExt

CONSTANTS
    Dx, Dy,       \* how far a point is from the one before
    eps,          \* eps_
    MaxPoints     \* bound of the model: points to fit

\* "eps must be at least 1; with eps = 0 the geometry degenerates".
ASSUME SegmentationAssumption ==
    /\ Dx \subseteq Nat \ {0} /\ Dy \subseteq Nat \ {0}
    /\ eps \in Nat \ {0} /\ MaxPoints \in Nat

VARIABLES
    keys,        \* the keys of the points so far
    positions,   \* and their positions
    closed,      \* the segments that are finished: where they start, and the Segmenter at that time
    start,       \* where the open segment starts
    segmenter    \* the Segmenter

segVars == <<keys, positions, closed, start, segmenter>>

-----------------------------------------------------------------------------

Upper(x, y) == [x |-> x, y |-> y + eps]
Lower(x, y) == [x |-> x, y |-> y - eps]

\* Positive if the way from o by a to b turns left.
cross(o, a, b) == (a.x - o.x) * (b.y - o.y) - (a.y - o.y) * (b.x - o.x)

\* Less(a, b, c, d): the way from a to b is less steep than that from c to d.
slope_less(a, b, c, d) == (b.y - a.y) * (d.x - c.x) < (d.y - c.y) * (b.x - a.x)

\* A line by two of its points.
Through(left, right) == [left |-> left, right |-> right]

\* The Segmenter with one point.
First(x, y) ==
    [count |-> 1, upper |-> <<Upper(x, y)>>, lower |-> <<Lower(x, y)>>,
     shallow |-> Through(Upper(x, y), Upper(x, y)), steep |-> Through(Lower(x, y), Lower(x, y))]

\* Broken: a point above the steepest line is taken in as well.
FitsUnlessBelow(s, x, y) ==
    s.count >= 2 => ~ slope_less(s.shallow.right, Upper(x, y), s.shallow.left, s.shallow.right)

\* Broken: a gap that only touches the line is taken not to fit.
FitsStrictly(s, x, y) ==
    s.count >= 2 =>
        /\ slope_less(s.shallow.left, s.shallow.right, s.shallow.right, Upper(x, y))
        /\ slope_less(s.steep.right, Lower(x, y), s.steep.left, s.steep.right)

\* The gap of a point lies neither below the shallowest line nor above the steepest.
Fits(s, x, y) ==
    s.count >= 2 =>
        /\ ~ slope_less(s.shallow.right, Upper(x, y), s.shallow.left, s.shallow.right)
        /\ ~ slope_less(s.steep.left, s.steep.right, s.steep.right, Lower(x, y))

\* The hull with p at its end, without the points p makes superfluous: those
\* after the last corner that the hull still has with p.
Extended(hull, p, corners) == Append(SubSeq(hull, 1, Max({1} \cup corners)), p)

\* The hull from the point a line pivots on: the first after which it would turn back.
From(hull, turns) == SubSeq(hull, Min({Len(hull)} \cup turns), Len(hull))

\* The top of the gap is below the steepest line: that comes down to it.
LowerSteepest(s, x, y) ==
    LET p     == Upper(x, y)
        turns == {i \in 1..(Len(s.lower) - 1) : slope_less(s.lower[i], p, s.lower[i + 1], p)}
        h     == From(s.lower, turns)
    IN  IF ~ slope_less(s.steep.left, p, s.steep.left, s.steep.right) THEN s
        ELSE [s EXCEPT !.steep = Through(Head(h), p), !.lower = h,
                       !.upper = Extended(@, p, {e \in 2..Len(@) : cross(@[e - 1], @[e], p) > 0})]

\* The bottom of the gap is above the shallowest line: that comes up to it.
RaiseShallowest(s, x, y) ==
    LET p     == Lower(x, y)
        turns == {i \in 1..(Len(s.upper) - 1) : slope_less(s.upper[i + 1], p, s.upper[i], p)}
        h     == From(s.upper, turns)
    IN  IF ~ slope_less(s.shallow.left, s.shallow.right, s.shallow.left, p) THEN s
        ELSE [s EXCEPT !.shallow = Through(Head(h), p), !.upper = h,
                       !.lower = Extended(@, p, {e \in 2..Len(@) : cross(@[e - 1], @[e], p) < 0})]

\* Segmenter::add of a point that fits.
Added(s, x, y) ==
    IF s.count = 1
    THEN [s EXCEPT !.count = 2, !.shallow.right = Lower(x, y), !.steep.right = Upper(x, y),
                   !.upper = Append(@, Upper(x, y)), !.lower = Append(@, Lower(x, y))]
    ELSE [RaiseShallowest(LowerSteepest(s, x, y), x, y) EXCEPT !.count = @ + 1]

-----------------------------------------------------------------------------

\* The first key; where it lies makes no difference.
SegmentationInit ==
    /\ keys = <<0>> /\ positions = <<0>>
    /\ closed = <<>> /\ start = 1
    /\ segmenter = First(0, 0)

\* build_optimal_segmented_model takes the next point in, or closes the segment.
NextPoint(x, y) ==
    /\ keys' = Append(keys, x) /\ positions' = Append(positions, y)
    /\ IF Fits(segmenter, x, y)
       THEN segmenter' = Added(segmenter, x, y) /\ UNCHANGED <<closed, start>>
       ELSE /\ closed' = Append(closed, [start |-> start, segmenter |-> segmenter])
            /\ segmenter' = First(x, y)
            /\ start' = Len(keys) + 1

SegmentationNext ==
    /\ Len(keys) < MaxPoints
    /\ \E dx \in Dx, dy \in Dy : NextPoint(Last(keys) + dx, Last(positions) + dy)

SegmentationSpec == SegmentationInit /\ [][SegmentationNext]_segVars

-----------------------------------------------------------------------------

\* Segmenter::line, as the height of it at x over its denominator.
LineDen(s) ==
    IF s.count = 1 THEN 2
    ELSE 2 * (s.shallow.right.x - s.shallow.left.x) * (s.steep.right.x - s.steep.left.x)

HeightAt(l, x)  == l.left.y * (l.right.x - l.left.x) + (l.right.y - l.left.y) * (x - l.left.x)

LineNum(s, x) ==
    IF s.count = 1 THEN s.shallow.left.y + s.steep.left.y
    ELSE HeightAt(s.shallow, x) * (s.steep.right.x - s.steep.left.x)
         + HeightAt(s.steep, x) * (s.shallow.right.x - s.shallow.left.x)

Within(num, den, y) == num - y * den \in (-eps * den)..(eps * den)

Segments == Append(closed, [start |-> start, segmenter |-> segmenter])

SegmentOf(i) == Segments[Max({s \in DOMAIN Segments : Segments[s].start <= i})]

\* "That average fits too": the line of every segment, the open one included,
\* predicts each of its keys within eps.
AverageFits ==
    \A i \in DOMAIN keys :
        LET s == SegmentOf(i).segmenter IN Within(LineNum(s, keys[i]), LineDen(s), positions[i])

\* Some line passes within eps of the points from i to j: its slope has to be
\* right for every two of them.
SomeLineFits(i, j) ==
    \A a, b, c, d \in i..j :
        (a < b /\ c < d) =>
            (positions[b] - positions[a] - 2 * eps) * (keys[d] - keys[c])
                <= (positions[d] - positions[c] + 2 * eps) * (keys[b] - keys[a])

\* The smallest number of segments that fit all points.
Smallest ==
    LET upTo[j \in 0..Len(keys)] ==
            IF j = 0 THEN 0
            ELSE 1 + Min({upTo[i - 1] : i \in {i \in 1..j : SomeLineFits(i, j)}})
    IN  upTo[Len(keys)]

\* "closing a segment only when forced gives the fewest segments possible".
Fewest == Len(Segments) = Smallest

\* "guarantee every prediction lands within a chosen error bound": the fit with
\* pinned anchors, whatever its cap, predicts each key within eps by the segment
\* responsible for it, and the anchors exactly.
PinnedWithinEps ==
    \A cap \in 1..MaxPoints :
        LET model == build_segmented_model(keys, positions, eps, cap)
        IN  \A i \in DOMAIN keys :
                LET seg == model[find_segment_index(model, keys[i])]
                IN  /\ Within(OnLine(seg, keys[i]), seg.den, positions[i])
                    /\ keys[i] = seg.start_key => seg.anchor = positions[i]

\* "max_keys caps how many keys one segment may cover", and the keys it covers
\* are those find_segment_index() leads to it.
CapKept ==
    \A cap \in 1..MaxPoints :
        LET model == build_segmented_model(keys, positions, eps, cap)
        IN  \A s \in DOMAIN model :
                Cardinality({i \in DOMAIN keys : find_segment_index(model, keys[i]) = s}) \in 1..cap

=============================================================================
