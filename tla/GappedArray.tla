---------------------------- MODULE GappedArray ----------------------------
(***************************************************************************)
(* cpp/gapped_array.h: the learned index rows live in.  Keys are spread    *)
(* over an array with gaps between them, and a segmented model predicts    *)
(* each key's slot.  Slot j of the code is data[j + 1] here, and segment j *)
(* is segments[j + 1].                                                     *)
(*                                                                         *)
(* What locate() returns is the lower bound whatever the model predicted:  *)
(* module Locate says why.  The model decides how far a lookup walks, and  *)
(* which part of the array is laid out anew after an insert.               *)
(*                                                                         *)
(* expected and trained are auxiliary: the rows put in and not removed,    *)
(* and the keys some segment was fit on.                                   *)
(***************************************************************************)
EXTENDS SegmentedModel, SequencesExt, Ascending

CONSTANTS
    Key,             \* the keys in use
    Val,             \* the values
    NoVal,           \* what a gap has for a value
    EMPTY_SLOT,      \* the key of a gap: the largest number there is
    eps,             \* eps_
    DensityOf10,     \* density_, in tenths
    MaxSegmentKeys,  \* kMaxSegmentKeys
    MaxKeys,         \* bound of the model: keys in the array
    MaxSlots         \* bound of the model: slots of an array that gains a key or is emptied

ASSUME GappedAssumption ==
    /\ Key \subseteq Int /\ IsFiniteSet(Key)
    /\ EMPTY_SLOT \in Int /\ \A k \in Key : k < EMPTY_SLOT
    /\ NoVal \notin Val
    /\ eps \in Nat
    /\ DensityOf10 \in 1..10
    /\ MaxSegmentKeys \in Nat \ {0}
    /\ MaxKeys \in Nat /\ MaxSlots \in Nat

VARIABLES
    data,             \* data_
    vals,             \* vals_
    segments,         \* model_.segments
    segment_changes,  \* segment_changes_
    count,            \* count_
    todo,             \* the segments refresh_segments() has not come to yet
    expected,         \* auxiliary
    trained           \* auxiliary

vars == <<data, vals, segments, segment_changes, count, todo, expected, trained>>

NoTodo == [next |-> 0, first |-> 1]

\* The array as one value, for the operations that work on it in steps.
Array == [data |-> data, vals |-> vals, segments |-> segments,
          changes |-> segment_changes, count |-> count, trained |-> trained]

Becomes(a) ==
    /\ data' = a.data /\ vals' = a.vals /\ count' = a.count
    /\ segments' = a.segments /\ segment_changes' = a.changes
    /\ trained' = a.trained

-----------------------------------------------------------------------------
(* Looking things up.                                                      *)

Occupied(a) == {j \in DOMAIN a.data : a.data[j] # EMPTY_SLOT}

KeysIn(a) == {a.data[j] : j \in Occupied(a)}

\* The first slot with a key that is not less than the target.
lower_bound_index(a, target) ==
    Min({j \in Occupied(a) : a.data[j] >= target} \cup {Len(a.data) + 1})

\* What get() returns for a key.
Get(a, key) ==
    LET j == lower_bound_index(a, key)
    IN  IF j <= Len(a.data) /\ a.data[j] = key THEN a.vals[j] ELSE NoVal

\* The slots from begin to end - 1 that hold a key, in order.
SlotsIn(a, begin, end) == Ascending({j \in begin..(end - 1) : a.data[j] # EMPTY_SLOT})

\* The slots scan() visits for a range: from its lower bound on, over every gap,
\* until a key lies past its end.
scan(a, lo, hi) ==
    LET first == lower_bound_index(a, lo)
        past  == {j \in Occupied(a) : j >= first /\ a.data[j] > hi}
    IN  SlotsIn(a, first, Min(past \cup {Len(a.data) + 1}))

\* The rows of a range, as keys and values.
range_scan(a, lo, hi) ==
    LET slots == scan(a, lo, hi)
    IN  [i \in DOMAIN slots |-> <<a.data[slots[i]], a.vals[slots[i]]>>]

segment_threshold == Max({1, eps})
max_gap_scan      == Max({1, 8 * eps})

\* The nearest gap on either side of a slot, the right one first; 0 if there is
\* none within reach.
find_nearest_gap(a, start) ==
    LET gaps  == DOMAIN a.data \ Occupied(a)
        right == {d \in 0..max_gap_scan : start + d \in gaps}
        left  == {d \in 0..max_gap_scan : start - 1 - d \in gaps}
    IN  IF right \cup left = {} THEN 0
        ELSE LET d == Min(right \cup left)
             IN  IF d \in right THEN start + d ELSE start - 1 - d

\* Broken: the line is cut off at the segment's own anchor, not the next one's.
PredictOwnAnchor(a, si, key) ==
    LET seg == a.segments[si]
        p1  == Min({OnLine(seg, key), seg.anchor * seg.den})
    IN  Rounded(Max({p1, seg.den}), seg.den)

\* Where segment si predicts a key to be: its line, cut off at its own anchor,
\* at the next one's and at the ends of the array.
predict_from(a, si, key) ==
    LET seg   == a.segments[si]
        least == IF key >= seg.start_key THEN seg.anchor ELSE 1
        most  == IF si < Len(a.segments) THEN a.segments[si + 1].anchor ELSE Len(a.data) + 1
        p1    == Max({OnLine(seg, key), least * seg.den})
        p2    == Max({Min({p1, most * seg.den, (Len(a.data) + 1) * seg.den}), seg.den})
    IN  Rounded(p2, seg.den)

-----------------------------------------------------------------------------
(* Laying keys out.                                                        *)

CeilDiv(m, n) == (m + n - 1) \div n

PowerOf2[n \in Nat] == IF n = 0 THEN 1 ELSE 2 * PowerOf2[n - 1]

segment_cap(n) ==
    LET pieces == CeilDiv(n, MaxSegmentKeys)
    IN  IF pieces <= 1 THEN MaxSegmentKeys ELSE CeilDiv(n, pieces)

\* m keys spread evenly over the slots from begin on: no two share one.
Spread(m, begin, slots) == [i \in 1..m |-> begin + (((i - 1) * slots) \div m)]

\* The slots from begin on, with the items at their positions and gaps between.
Laid(items, positions, begin, slots, gap) ==
    [j \in 1..slots |->
        IF \E i \in DOMAIN items : positions[i] = begin + j - 1
        THEN items[CHOOSE i \in DOMAIN items : positions[i] = begin + j - 1]
        ELSE gap]

\* A fresh array of the given keys and values.
layout(keys, values) ==
    LET n         == Len(keys)
        capacity  == CeilDiv(10 * n, DensityOf10)
        positions == Spread(n, 1, capacity)
        model     == build_segmented_model(keys, positions, eps, segment_cap(n))
    IN  [data     |-> Laid(keys, positions, 1, capacity, EMPTY_SLOT),
         vals     |-> Laid(values, positions, 1, capacity, NoVal),
         segments |-> model,
         changes  |-> [s \in DOMAIN model |-> 0],
         count    |-> n,
         trained  |-> ToSet(keys)]

\* The keys and the values of some slots.
KeysAt(a, slots) == [i \in DOMAIN slots |-> a.data[slots[i]]]
ValsAt(a, slots) == [i \in DOMAIN slots |-> a.vals[slots[i]]]

rebalance(a) ==
    LET slots == SlotsIn(a, 1, Len(a.data) + 1) IN layout(KeysAt(a, slots), ValsAt(a, slots))

\* The whole array laid out anew, with one more key.
rebalance_with(a, key, val) ==
    LET below == SlotsIn(a, 1, lower_bound_index(a, key))
        above == SlotsIn(a, lower_bound_index(a, key), Len(a.data) + 1)
    IN  layout(KeysAt(a, below) \o <<key>> \o KeysAt(a, above),
               ValsAt(a, below) \o <<val>> \o ValsAt(a, above))

-----------------------------------------------------------------------------
(* Refreshing the surroundings of a segment.                               *)

\* The slots of segments lo to hi, from begin to end - 1.
region(a, lo, hi) ==
    [begin |-> IF lo = 1 THEN 1 ELSE lower_bound_index(a, a.segments[lo].start_key),
     end   |-> IF hi = Len(a.segments) THEN Len(a.data) + 1
               ELSE lower_bound_index(a, a.segments[hi + 1].start_key)]

\* Too full to lay out anew with room to spare: from 0.9 for one segment down
\* to 0.8 for all of them.
too_dense(a, r, level) ==
    LET keys   == Len(SlotsIn(a, r.begin, r.end))
        slots  == r.end - r.begin
        height == Min({h \in 0..Len(a.segments) : PowerOf2[h] >= Len(a.segments)})
    IN  /\ keys # 0
        /\ IF height = 0 THEN 10 * keys >= 9 * slots
           ELSE 10 * height * keys >= (9 * height - Min({level, height})) * slots

\* A region's keys spread evenly over its slots, and a fresh fit of them.
Fresh(a, r) ==
    LET slots     == SlotsIn(a, r.begin, r.end)
        width     == r.end - r.begin
        positions == Spread(Len(slots), r.begin, width)
    IN  [keys  |-> KeysAt(a, slots),
         data  |-> Laid(KeysAt(a, slots), positions, r.begin, width, EMPTY_SLOT),
         vals  |-> Laid(ValsAt(a, slots), positions, r.begin, width, NoVal),
         model |-> build_segmented_model(KeysAt(a, slots), positions, eps, segment_cap(Len(slots)))]

\* A sequence with what is at first to last replaced.
Patched(s, first, last, new) == SubSeq(s, 1, first - 1) \o new \o SubSeq(s, last + 1, Len(s))

\* Broken: the values stay in the slots where they were.
RelayKeysOnly(a, lo, hi, r) ==
    LET f == Fresh(a, r)
    IN  [a EXCEPT !.data     = Patched(@, r.begin, r.end - 1, f.data),
                  !.segments = Patched(@, lo, hi, f.model),
                  !.changes  = Patched(@, lo, hi, [s \in DOMAIN f.model |-> 0]),
                  !.trained  = @ \cup ToSet(f.keys)]

\* Broken: the counts of the segments that go are left where they are.
RelayKeepsCounts(a, lo, hi, r) ==
    LET f == Fresh(a, r)
    IN  [a EXCEPT !.data     = Patched(@, r.begin, r.end - 1, f.data),
                  !.vals     = Patched(@, r.begin, r.end - 1, f.vals),
                  !.segments = Patched(@, lo, hi, f.model),
                  !.trained  = @ \cup ToSet(f.keys)]

\* Broken: the keys move, and the segments keep their lines.
RelayKeepsLines(a, lo, hi, r) ==
    LET f == Fresh(a, r)
    IN  [a EXCEPT !.data    = Patched(@, r.begin, r.end - 1, f.data),
                  !.vals    = Patched(@, r.begin, r.end - 1, f.vals),
                  !.changes = Patched(@, lo, hi, [s \in 1..(hi - lo + 1) |-> 0]),
                  !.trained = @ \cup ToSet(f.keys)]

\* The slots of a region laid out anew, and its segments, lo to hi, replaced.
relay(a, lo, hi, r) ==
    LET f == Fresh(a, r)
    IN  [a EXCEPT !.data     = Patched(@, r.begin, r.end - 1, f.data),
                  !.vals     = Patched(@, r.begin, r.end - 1, f.vals),
                  !.segments = Patched(@, lo, hi, f.model),
                  !.changes  = Patched(@, lo, hi, [s \in DOMAIN f.model |-> 0]),
                  !.trained  = @ \cup ToSet(f.keys)]

\* The aligned window of 2^level segments around segment si.
Window(a, si, level) ==
    IF level = 0 THEN [lo |-> si, hi |-> si]
    ELSE LET width == PowerOf2[level]
             lo    == ((si - 1) \div width) * width + 1
         IN  [lo |-> lo, hi |-> Min({lo + width - 1, Len(a.segments)})]

\* The array with slots added at its end, so that the last segment fits.
Grown(a, begin) ==
    LET keys   == Len(SlotsIn(a, begin, Len(a.data) + 1))
        wanted == Max({keys + 1, CeilDiv(10 * keys, DensityOf10)})
        more   == Max({0, begin - 1 + wanted - Len(a.data)})
    IN  [a EXCEPT !.data = @ \o [j \in 1..more |-> EMPTY_SLOT], !.vals = @ \o [j \in 1..more |-> NoVal]]

\* The refreshed array, and whether all of it was rebuilt.  A crowded region
\* takes in its neighbours, twice as many each time, until the window has room;
\* the last segment's grows at the end instead.
local_rebalance(a, si) ==
    LET own == region(a, si, si)
        R(l) == region(a, Window(a, si, l).lo, Window(a, si, l).hi)
        dense(l) == too_dense(a, R(l), l)
        all(l) == Window(a, si, l) = [lo |-> 1, hi |-> Len(a.segments)]
        level == Min({l \in 0..Len(a.segments) : ~ dense(l) \/ all(l)})
    IN  IF si = Len(a.segments) /\ dense(0)
        THEN LET g == Grown(a, own.begin)
             IN  [array |-> relay(g, si, si, [begin |-> own.begin, end |-> Len(g.data) + 1]),
                  rebuilt |-> FALSE]
        ELSE IF dense(level) THEN [array |-> rebalance(a), rebuilt |-> TRUE]
        ELSE [array |-> relay(a, Window(a, si, level).lo, Window(a, si, level).hi, R(level)),
              rebuilt |-> FALSE]

-----------------------------------------------------------------------------
(* insert and remove.                                                      *)

Ready == todo.next < todo.first

\* x put in before slot point, and the slots between it and the gap moved up by one.
ShiftIn(s, point, gap, x) ==
    IF gap < point
    THEN SubSeq(s, 1, gap - 1) \o SubSeq(s, gap + 1, point - 1) \o <<x>> \o SubSeq(s, point, Len(s))
    ELSE SubSeq(s, 1, point - 1) \o <<x>> \o SubSeq(s, point, gap - 1) \o SubSeq(s, gap + 1, Len(s))

\* The segments an insert changed: the one that gained the key, and those whose
\* keys the shift moved.
Changed(a, owner, point, gap) ==
    [next  |-> IF gap > point /\ owner < Len(a.segments)
                  /\ a.data[gap] >= a.segments[owner + 1].start_key
               THEN find_segment_index(a.segments, a.data[gap]) ELSE owner,
     first |-> IF gap < point - 1 /\ a.data[gap] < a.segments[owner].start_key
               THEN find_segment_index(a.segments, a.data[gap]) ELSE owner]

\* The array with a key it did not have put into a gap within reach.
Placed(a, key, val) ==
    LET owner   == find_segment_index(a.segments, key)
        point   == lower_bound_index(a, key)
        gap     == find_nearest_gap(a, point)
        shifted == [a EXCEPT !.data = ShiftIn(@, point, gap, key), !.vals = ShiftIn(@, point, gap, val),
                             !.count = @ + 1]
        changed == Changed(shifted, owner, point, gap)
    IN  /\ Becomes([shifted EXCEPT !.changes =
                        [s \in DOMAIN @ |-> @[s] + IF changed.first <= s /\ s <= changed.next THEN 1 ELSE 0]])
        /\ todo' = changed

\* The first key, or one for which there is no room even after a refresh.
Rebuilt(a, key, val) == Becomes(rebalance_with(a, key, val)) /\ todo' = NoTodo

HasGap(a, key) == find_nearest_gap(a, lower_bound_index(a, key)) # 0

InsertFirst(key, val) == segments = <<>> /\ Rebuilt(Array, key, val)

\* The key is there: its value is replaced.
InsertAgain(key, val) ==
    /\ segments # <<>> /\ key \in KeysIn(Array)
    /\ vals' = [vals EXCEPT ![lower_bound_index(Array, key)] = val]
    /\ UNCHANGED <<data, segments, segment_changes, count, todo, trained>>

InsertNearGap(key, val) ==
    /\ segments # <<>> /\ key \notin KeysIn(Array)
    /\ HasGap(Array, key)
    /\ Placed(Array, key, val)

\* No gap within reach: the owner of the key is refreshed first.
InsertCrowded(key, val) ==
    /\ segments # <<>> /\ key \notin KeysIn(Array)
    /\ ~ HasGap(Array, key)
    /\ LET a == local_rebalance(Array, find_segment_index(segments, key)).array
       IN  IF HasGap(a, key) THEN Placed(a, key, val) ELSE Rebuilt(a, key, val)

insert(key, val) ==
    /\ Ready
    /\ key \notin KeysIn(Array) => count < MaxKeys /\ Len(data) <= MaxSlots
    /\ \/ InsertFirst(key, val) \/ InsertAgain(key, val)
       \/ InsertNearGap(key, val) \/ InsertCrowded(key, val)
    /\ expected' = [expected EXCEPT ![key] = val]

\* refresh_segments(), one segment a step, the highest index first.  Once a
\* refresh has replaced several segments by fewer, the next index may be past
\* the end of segment_changes_ (RefreshInRange).  What is read there is not
\* defined: below the threshold the index is skipped, which is what the model
\* does; above it the code refreshes a segment that does not exist, and what
\* becomes of the array and of the memory around it is beyond any model.
Refresh ==
    /\ ~ Ready
    /\ IF todo.next <= Len(segment_changes) /\ segment_changes[todo.next] >= segment_threshold
       THEN LET r == local_rebalance(Array, todo.next)
            IN  /\ Becomes(r.array)
                /\ todo' = IF r.rebuilt THEN NoTodo ELSE [todo EXCEPT !.next = @ - 1]
       ELSE /\ todo' = [todo EXCEPT !.next = @ - 1]
            /\ UNCHANGED <<data, vals, segments, segment_changes, count, trained>>
    /\ UNCHANGED expected

\* Broken: a remove takes back the change an insert was counted as.
RemoveUncounts(key) ==
    /\ Ready /\ key \in KeysIn(Array)
    /\ count = 1 => Len(data) <= MaxSlots
    /\ LET j == lower_bound_index(Array, key)
       IN  data' = [data EXCEPT ![j] = EMPTY_SLOT] /\ vals' = [vals EXCEPT ![j] = NoVal]
    /\ segment_changes' = [segment_changes EXCEPT ![find_segment_index(segments, key)] = @ - 1]
    /\ count' = count - 1
    /\ trained' = trained \ {key}
    /\ expected' = [expected EXCEPT ![key] = NoVal]
    /\ UNCHANGED <<segments, todo>>

\* A removed key's slot is a gap again; the model is not touched.
remove(key) ==
    /\ Ready /\ key \in KeysIn(Array)
    /\ count = 1 => Len(data) <= MaxSlots
    /\ LET j == lower_bound_index(Array, key)
       IN  data' = [data EXCEPT ![j] = EMPTY_SLOT] /\ vals' = [vals EXCEPT ![j] = NoVal]
    /\ count' = count - 1
    /\ trained' = trained \ {key}
    /\ expected' = [expected EXCEPT ![key] = NoVal]
    /\ UNCHANGED <<segments, segment_changes, todo>>

-----------------------------------------------------------------------------

\* build(): any rows, sorted by key.
GappedInit ==
    \E rows \in [Key -> Val \cup {NoVal}] :
        LET keys == Ascending({k \in Key : rows[k] # NoVal})
            a    == layout(keys, [i \in DOMAIN keys |-> rows[keys[i]]])
        IN  /\ Len(keys) <= MaxKeys
            /\ data = a.data /\ vals = a.vals /\ count = a.count
            /\ segments = a.segments /\ segment_changes = a.changes
            /\ todo = NoTodo
            /\ expected = rows /\ trained = a.trained

GappedNext ==
    \/ \E k \in Key : remove(k) \/ \E v \in Val : insert(k, v)
    \/ Refresh

GappedSpec == GappedInit /\ [][GappedNext]_vars

-----------------------------------------------------------------------------

Segment == [start_key : Key, anchor : Nat, num : Int, den : Nat \ {0}]

GappedTypeOK ==
    /\ data \in Seq(Key \cup {EMPTY_SLOT}) /\ vals \in Seq(Val \cup {NoVal})
    /\ Len(vals) = Len(data)
    /\ segments \in Seq(Segment)
    /\ segment_changes \in Seq(Nat)
    /\ count \in 0..MaxKeys
    /\ todo \in [next : Nat, first : Nat]
    /\ expected \in [Key -> Val \cup {NoVal}] /\ trained \subseteq Key

\* "Every slot move goes through these two, so a value can't be left behind when
\* its key moves": every lookup finds the value last inserted for its key, and
\* nothing for a key that was removed, and every range scan the rows of its range in
\* order, whatever shifts, refreshes, growths and rebuilds have happened since.
HoldsExpected ==
    /\ \A k \in Key : Get(Array, k) = expected[k]
    /\ \A lo, hi \in Key :
        LET keys == Ascending({k \in Key : lo <= k /\ k <= hi /\ expected[k] # NoVal})
        IN  range_scan(Array, lo, hi) = [n \in DOMAIN keys |-> <<keys[n], expected[keys[n]]>>]

\* consistent(): "Lookups only rely on the keys being sorted, so a broken count
\* or a stale segment would make them slower, not wrong, and has to be checked
\* for on its own".
Consistent ==
    /\ Len(segment_changes) = Len(segments)
    /\ \A s \in 1..(Len(segments) - 1) : segments[s].start_key < segments[s + 1].start_key
    /\ \A i, j \in Occupied(Array) : i < j => data[i] < data[j]
    /\ Cardinality(Occupied(Array)) = count

\* The keys that were in place when their segment was last fitted.
Fitted == {j \in Occupied(Array) : data[j] \in trained}

\* "A change counted against a segment moves each of its keys by at most one
\* slot", and no count stays at the threshold: between two calls every key is
\* within eps of its segment's line and its count's worth of drift, the keys
\* shifted by inserts into other segments included.
LineDriftBounded ==
    Ready =>
        /\ \A s \in DOMAIN segment_changes : segment_changes[s] < segment_threshold
        /\ \A j \in Fitted :
            LET s == find_segment_index(segments, data[j])
            IN  Near(j, OnLine(segments[s], data[j]), segments[s].den, eps + segment_changes[s])

\* "keeps every key it was fit on within 2*eps of its prediction: eps from the fit
\* itself, and less than eps of drift since", with the prediction locate() starts
\* from: cutting the line off at the next segment's anchor, which may be stale, does
\* not move it further away, as long as the key that anchor was fitted on is there.
PredictionBounded ==
    Ready => \A j \in Fitted :
        LET s == find_segment_index(segments, data[j])
        IN  (s < Len(segments) => segments[s + 1].start_key \in trained)
                => Near(j, predict_from(Array, s, data[j]), 1, eps + segment_changes[s])

\* "a refresh can split a segment into several, which shifts the indices after it
\* but never the ones before": refresh_segments() only looks at segments there are.
RefreshInRange == ~ Ready => todo.next <= Len(segment_changes)

-----------------------------------------------------------------------------
(* Why they hold.                                                          *)

Rows(a) == {<<a.data[j], a.vals[j]>> : j \in Occupied(a)}

\* A key a segment was fitted on had a slot within eps of the line, not before the
\* anchor, and has moved by one slot at most for each change since.
Drifted(a) ==
    \A j \in Occupied(a), s \in DOMAIN a.segments :
        LET seg == a.segments[s]
        IN  a.data[j] \in a.trained /\ Owns(a.segments, s, a.data[j]) =>
                /\ seg.start_key <= a.data[j]
                /\ \E slot \in 1..Len(a.data) :
                      /\ Near(slot, OnLine(seg, a.data[j]), seg.den, eps)
                      /\ j - slot \in (-a.changes[s])..a.changes[s]
                      /\ seg.anchor <= slot /\ (a.data[j] = seg.start_key => slot = seg.anchor)

\* What every operation on an array keeps.
Sound(a) ==
    /\ Len(a.vals) = Len(a.data) /\ Len(a.changes) = Len(a.segments)
    /\ \A i, j \in Occupied(a) : i < j => a.data[i] < a.data[j]
    /\ \A s, t \in DOMAIN a.segments : s < t => a.segments[s].start_key < a.segments[t].start_key
    /\ \A j \in Occupied(a) : a.vals[j] # NoVal
    /\ a.count = Cardinality(Occupied(a))
    /\ a.segments # <<>> => a.data # <<>>
    /\ Occupied(a) # {} => a.segments # <<>>
    /\ a.trained \subseteq KeysIn(a)
    /\ Drifted(a)

\* A segment that has changed too often is one refresh_segments() will come to.
Pending ==
    \A s \in DOMAIN segment_changes :
        segment_changes[s] >= segment_threshold => todo.first <= s /\ s <= todo.next

GappedInv ==
    /\ Sound(Array) /\ Pending /\ todo.first >= 1
    /\ Rows(Array) = {<<k, expected[k]>> : k \in {x \in Key : expected[x] # NoVal}}

=============================================================================
