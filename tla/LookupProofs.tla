---------------------------- MODULE LookupProofs ----------------------------
(***************************************************************************)
(* From a prediction to an answer: that locate() finds the lower bound in  *)
(* every sorted array with gaps, from every predicted slot and for every   *)
(* limit of the walk; that every model of segments predicts the keys it    *)
(* was fitted to within eps; that the two indexes without gaps find their  *)
(* keys in the windows around what they predict; and that the Segmenter's  *)
(* two hulls carry the shallowest and the steepest line there is, so that  *)
(* the average of the two fits and no segment is closed unless it must be. *)
(***************************************************************************)
EXTENDS Locate, StaticIndex, AscendingProofs, SequenceTheorems, TLAPS

-----------------------------------------------------------------------------
(* locate().                                                               *)

\* The bracket's meaning rests on the array being sorted, which no step changes.
LocateInvariant == LocateTypeOK /\ SlotsSorted(data, n) /\ BracketHolds /\ LowerBound

\* Slots with every real key before them below the target: one more is such a slot
\* if what it steps over is a gap or a key below the target (step 2 of locate()'s
\* comment).
LEMMA StepRight ==
    ASSUME n \in Nat, NEW j \in Slots, LeftBelow(j), data[j] = EMPTY_SLOT \/ data[j] < target
    PROVE  LeftBelow(j + 1)
BY DEF LeftBelow, AllBelow, Slots

\* In a sorted array every real key up to one below the target is below it (step
\* 1 of locate()'s comment).
LEMMA BelowKey ==
    ASSUME LocateTypeOK, SlotsSorted(data, n), NEW j \in Slots, data[j] < target
    PROVE  LeftBelow(j + 1)
<1>1. /\ n \in Nat /\ target \in Int /\ \A k \in Slots : data[k] \in Int
      /\ data[j] # EMPTY_SLOT
  <2>1. n \in Nat /\ target \in Key \cup {EMPTY_SLOT} /\ \A k \in Slots : data[k] \in Key \cup {EMPTY_SLOT}
    BY DEF LocateTypeOK
  <2>2. \A x \in Key \cup {EMPTY_SLOT} : x \in Int /\ x <= EMPTY_SLOT
    BY LocateAssumption DEF LocateAssumption
  <2>3. data[j] \in Int /\ target \in Int /\ target <= EMPTY_SLOT
    BY <2>1, <2>2
  <2>4. data[j] # EMPTY_SLOT
    BY <2>3
  <2> QED
    BY <2>1, <2>2, <2>4
<1>2. SUFFICES ASSUME NEW k \in Slots, k < j + 1, data[k] # EMPTY_SLOT
               PROVE  data[k] < target
  BY DEF LeftBelow, AllBelow, Slots
<1>3. k = j \/ k < j
  BY <1>1, <1>2 DEF Slots
<1>4. k < j => data[k] < data[j]
  BY <1>1, <1>2 DEF SlotsSorted, Slots
<1> QED
  BY <1>1, <1>3, <1>4

\* reaches() flips from no to yes exactly once: where it flips, the slot before is
\* the last real key below the target.
LEMMA Flip ==
    ASSUME LocateTypeOK, SlotsSorted(data, n), NEW j \in -1..(n - 1),
           j = -1 \/ ~ Reaches(j), Reaches(j + 1)
    PROVE  LeftBelow(j + 1)
<1>1. n \in Nat /\ target \in Int /\ \A k \in Slots : data[k] \in Int
  BY LocateAssumption DEF LocateTypeOK
<1>2. CASE j = -1
  BY <1>1, <1>2 DEF LeftBelow, AllBelow
<1>3. CASE j # -1
  <2>1. j \in Slots /\ ~ Reaches(j)
    BY <1>1, <1>3 DEF Slots
  <2>2. PICK k \in Slots : /\ k >= j /\ data[k] # EMPTY_SLOT /\ ~ (data[k] >= target)
                           /\ \A m \in j..(k - 1) : data[m] = EMPTY_SLOT
    BY <2>1 DEF Reaches, NextReaches, Slots
  <2>3. k = j
    <3>1. SUFFICES ASSUME k # j PROVE FALSE
      OBVIOUS
    <3>2. k >= j + 1 /\ \A m \in (j + 1)..(k - 1) : data[m] = EMPTY_SLOT
      BY <1>1, <2>1, <2>2, <3>1 DEF Slots
    <3> QED
      BY <2>2, <3>2 DEF Reaches, NextReaches, Slots
  <2>4. data[j] < target
    BY <1>1, <2>1, <2>2, <2>3
  <2> QED
    BY <2>1, <2>4, BelowKey
<1> QED
  BY <1>2, <1>3

\* A gap does not change what the slots from it on reach.
LEMMA SkipsGap ==
    ASSUME n \in Nat, NEW j \in Slots, data[j] = EMPTY_SLOT, Reaches(j)
    PROVE  Reaches(j + 1)
<1>1. SUFFICES ASSUME NEW k \in Slots, k >= j + 1, data[k] # EMPTY_SLOT,
                      \A m \in (j + 1)..(k - 1) : data[m] = EMPTY_SLOT
               PROVE  data[k] >= target
  BY DEF Reaches, NextReaches, Slots
<1>2. k >= j /\ \A m \in j..(k - 1) : data[m] = EMPTY_SLOT
  BY <1>1 DEF Slots
<1> QED
  BY <1>1, <1>2 DEF Reaches, NextReaches, Slots

\* At the end of the array the answer is yes by definition.
LEMMA ReachesEnd ==
    ASSUME n \in Nat
    PROVE  Reaches(n)
BY DEF Reaches, NextReaches

\* The loops' invariant is inductive.
LEMMA LocateInvariantStep ==
    ASSUME LocateInvariant, [LocateNext]_vars
    PROVE  LocateInvariant'
<1> USE DEF LocateInvariant
<1>t. n \in Nat /\ i \in 0..n /\ stop \in 0..n /\ lo \in -1..n /\ hi \in 0..n /\ step \in Nat
      /\ walk_limit \in Nat \ {0} /\ n >= 0
  BY DEF LocateTypeOK
<1>1. CASE UNCHANGED vars
  BY <1>1 DEF vars, input, LocateTypeOK, BracketHolds, LowerBound, LeftBelow, Reaches, Slots, IsLowerBound
<1>3. CASE WalkLeft
  BY <1>3, <1>t DEF WalkLeft, input, Slots, LocateTypeOK, BracketHolds, LowerBound, LeftBelow, Reaches,
         IsLowerBound
<1>4. CASE TurnRight
  <2>1. LeftBelow(i)
    <3>1. CASE i = 0
      BY <3>1, <1>t DEF LeftBelow, AllBelow, Slots
    <3>2. CASE i > 0
      <4>1. i - 1 \in Slots /\ data[i - 1] < target
        BY <3>2, <1>4, <1>t DEF TurnRight, Slots
      <4>2. LeftBelow((i - 1) + 1)
        BY <4>1, BelowKey
      <4> QED
        BY <4>2, <1>t
    <3> QED
      BY <3>1, <3>2, <1>t
  <2> QED
    BY <1>4, <1>t, <2>1 DEF TurnRight, input, Slots, LocateTypeOK, BracketHolds, LowerBound, LeftBelow, Reaches,
         IsLowerBound
<1>5. CASE FarLeft
  BY <1>5, <1>t DEF FarLeft, input, Slots, LocateTypeOK, BracketHolds, LowerBound, LeftBelow, Reaches,
         IsLowerBound
<1>6. CASE WalkRight
  <2>1. i \in Slots /\ i + 1 \in 0..n
    BY <1>6, <1>t DEF WalkRight, Slots
  <2>2. LeftBelow(i + 1)
    BY <1>6, <2>1, <1>t, StepRight DEF WalkRight, BracketHolds
  <2> QED
    BY <1>6, <1>t, <2>1, <2>2 DEF WalkRight, input, Slots, LocateTypeOK, BracketHolds, LowerBound, LeftBelow, Reaches,
         IsLowerBound
<1>7. CASE Found
  <2>1. IsLowerBound(i)
    BY <1>7 DEF Found, BracketHolds, IsLowerBound
  <2> QED
    BY <1>7, <1>t, <2>1 DEF Found, input, Slots, LocateTypeOK, BracketHolds, LowerBound, LeftBelow, Reaches,
         IsLowerBound
<1>8. CASE FarRight
  BY <1>8, <1>t DEF FarRight, input, Slots, LocateTypeOK, BracketHolds, LowerBound, LeftBelow, Reaches,
         IsLowerBound
<1>9. CASE Gallop
  <2>1. CASE Reaches(i)
    BY <1>9, <1>t, <2>1 DEF Gallop, input, Slots, LocateTypeOK, BracketHolds, LowerBound, LeftBelow, Reaches,
         IsLowerBound
  <2>2. CASE ~ Reaches(i)
    <3>1. i < n
      BY <2>2, <1>t, ReachesEnd
    <3> QED
      BY <1>9, <1>t, <2>2, <3>1 DEF Gallop, input, Slots, LocateTypeOK, BracketHolds, LowerBound, LeftBelow, Reaches,
         IsLowerBound
  <2> QED
    BY <2>1, <2>2
<1>10. CASE JumpDown
  <2> USE <1>10, <1>t DEF JumpDown, input, Slots, LocateTypeOK, BracketHolds, LowerBound, LeftBelow, Reaches,
         IsLowerBound
  <2>1. CASE hi - step < 0
    OBVIOUS
  <2>2. CASE hi - step >= 0 /\ ~ Reaches(hi - step)
    BY <2>2
  <2>3. CASE hi - step >= 0 /\ Reaches(hi - step)
    BY <2>3
  <2> QED
    BY <2>1, <2>2, <2>3
<1>11. CASE JumpUp
  <2> USE <1>11, <1>t DEF JumpUp, input, Slots, LocateTypeOK, BracketHolds, LowerBound, LeftBelow, Reaches,
         IsLowerBound
  <2>1. CASE lo + step >= n
    BY <2>1, ReachesEnd
  <2>2. CASE lo + step < n /\ Reaches(lo + step)
    BY <2>2
  <2>3. CASE lo + step < n /\ ~ Reaches(lo + step)
    BY <2>3
  <2> QED
    BY <2>1, <2>2, <2>3
<1>12. CASE Bisect
  <2> DEFINE mid == lo + (hi - lo) \div 2
  <2>1. mid \in Int /\ lo < mid /\ mid < hi
    BY <1>12, <1>t DEF Bisect
  <2> HIDE DEF mid
  <2>2. /\ IF Reaches(mid) THEN hi' = mid /\ lo' = lo ELSE lo' = mid /\ hi' = hi
        /\ phase = "bisect" /\ phase' = "bisect" /\ UNCHANGED <<input, i, stop, step>>
    BY <1>12 DEF Bisect, mid
  <2>3. CASE Reaches(mid)
    BY <2>1, <2>2, <2>3, <1>t DEF input, Slots, LocateTypeOK, BracketHolds, LowerBound, LeftBelow, Reaches,
         IsLowerBound
  <2>4. CASE ~ Reaches(mid)
    BY <2>1, <2>2, <2>4, <1>t DEF input, Slots, LocateTypeOK, BracketHolds, LowerBound, LeftBelow, Reaches,
         IsLowerBound
  <2> QED
    BY <2>3, <2>4
<1>13. CASE Bracketed
  <2>1. hi = lo + 1 /\ lo \in -1..(n - 1) /\ Reaches(lo + 1) /\ (lo = -1 \/ ~ Reaches(lo))
    BY <1>13, <1>t DEF Bracketed, BracketHolds
  <2>2. LeftBelow(hi) /\ Reaches(hi)
    BY <2>1, Flip
  <2> QED
    BY <1>13, <1>t, <2>2 DEF Bracketed, input, Slots, LocateTypeOK, BracketHolds, LowerBound, LeftBelow, Reaches,
         IsLowerBound
<1>14. CASE SkipGap
  <2>1. hi \in Slots /\ hi + 1 \in 0..n /\ data[hi] = EMPTY_SLOT /\ LeftBelow(hi) /\ Reaches(hi)
    BY <1>14, <1>t DEF SkipGap, Slots, BracketHolds
  <2>2. LeftBelow(hi + 1) /\ Reaches(hi + 1)
    BY <2>1, <1>t, StepRight, SkipsGap
  <2> QED
    BY <1>14, <1>t, <2>1, <2>2 DEF SkipGap, input, Slots, LocateTypeOK, BracketHolds, LowerBound, LeftBelow, Reaches,
         IsLowerBound
<1>15. CASE Landed
  <2>1. hi < n => data[hi] >= target
    BY <1>15, <1>t DEF Landed, BracketHolds, Reaches, NextReaches, Slots
  <2>2. IsLowerBound(hi)
    BY <1>15, <2>1 DEF Landed, BracketHolds, IsLowerBound
  <2> QED
    BY <1>15, <1>t, <2>2 DEF Landed, input, Slots, LocateTypeOK, BracketHolds, LowerBound, LeftBelow, Reaches,
         IsLowerBound
<1> QED
  BY <1>1, <1>3, <1>4, <1>5, <1>6, <1>7, <1>8, <1>9, <1>10, <1>11, <1>12, <1>13, <1>14, <1>15
  DEF LocateNext

\* The loops' invariant holds of every run.
THEOREM LocateInvariantCorrect == LocateSpec => []LocateInvariant
<1>1. LocateInit => LocateInvariant
  <2> SUFFICES ASSUME LocateInit PROVE LocateInvariant
    OBVIOUS
  <2>1. n \in Nat /\ walk_limit \in Nat \ {0}
    BY LocateAssumption DEF LocateInit
  <2> QED
    BY <2>1 DEF LocateInit, LocateInvariant, LocateTypeOK, BracketHolds, LowerBound
<1> QED
  BY <1>1, LocateInvariantStep, PTL DEF LocateSpec

\* Every slot number stays in the array or at its end.
THEOREM LocateTypeCorrect == LocateSpec => []LocateTypeOK
<1>1. LocateInvariant => LocateTypeOK
  BY DEF LocateInvariant
<1> QED
  BY <1>1, LocateInvariantCorrect, PTL

\* "the first real key that step 2 reaches is the true lower bound.  That holds
\* whatever the model predicted": for arrays of any length, every prediction and
\* every limit of the walk.
THEOREM LocateFindsLowerBound == LocateSpec => []LowerBound
<1>1. LocateInvariant => LowerBound
  BY DEF LocateInvariant
<1> QED
  BY <1>1, LocateInvariantCorrect, PTL

\* gallop()'s bracket always holds the flip of reaches().
THEOREM BracketAlwaysHolds == LocateSpec => []BracketHolds
<1>1. LocateInvariant => BracketHolds
  BY DEF LocateInvariant
<1> QED
  BY <1>1, LocateInvariantCorrect, PTL

-----------------------------------------------------------------------------
(* The segments' predictions.                                              *)

\* The points are in order, and there is one at least.
PointsInOrder == SortedPoints(keys, positions) /\ keys # <<>>

\* A sequence in order stays so with something greater at its end.
LEMMA AscendsOn ==
    ASSUME NEW seq \in Seq(Int), IsAscending(seq), seq # <<>>, NEW d \in Nat \ {0}
    PROVE  /\ Append(seq, Last(seq) + d) \in Seq(Int) /\ IsAscending(Append(seq, Last(seq) + d))
           /\ Len(Append(seq, Last(seq) + d)) = Len(seq) + 1
<1> DEFINE next == Last(seq) + d
           more == Append(seq, next)
           size == Len(seq)
<1>1. size \in Nat /\ size # 0 /\ DOMAIN seq = 1..size
  BY EmptySeq, LenProperties
<1>2. \A k \in 1..size : seq[k] \in Int
  BY ElementOfSeq
<1>3. Last(seq) = seq[size] /\ seq[size] \in Int /\ next \in Int /\ seq[size] < next
  BY <1>1, <1>2 DEF Last
<1> HIDE DEF next
<1>4. more \in Seq(Int) /\ Len(more) = size + 1 /\ more[size + 1] = next
  BY <1>3, AppendProperties
<1>5. \A k \in 1..size : more[k] = seq[k]
  BY <1>3, AppendProperties
<1>6. DOMAIN more = 1..(size + 1)
  BY <1>4, LenProperties
<1> HIDE DEF more, size
<1>7. ASSUME NEW k \in DOMAIN more, NEW l \in DOMAIN more, k < l
      PROVE  more[k] < more[l]
  <2>1. k \in 1..size /\ (l \in 1..size \/ l = size + 1)
    BY <1>1, <1>6, <1>7
  <2>2. CASE l \in 1..size
    <3>1. seq[k] < seq[l]
      BY <1>1, <1>7, <2>1, <2>2 DEF IsAscending
    <3> QED
      BY <1>5, <2>1, <2>2, <3>1
  <2>3. CASE l = size + 1
    <3>1. k = size \/ seq[k] < seq[size]
      BY <1>1, <2>1 DEF IsAscending
    <3>2. seq[k] \in Int
      BY <1>2, <2>1
    <3>3. seq[k] < next
      BY <1>3, <3>1, <3>2
    <3> QED
      BY <1>4, <1>5, <2>1, <2>3, <3>3
  <2> QED
    BY <2>1, <2>2, <2>3
<1>8. IsAscending(more)
  BY <1>7 DEF IsAscending
<1> QED
  BY <1>4, <1>8 DEF more, next, size

\* The points stay in order.
LEMMA PointsStayInOrder == SegmentationSpec => []PointsInOrder
<1>1. SegmentationInit => PointsInOrder
  <2>1. <<0>> \in Seq(Int) /\ IsAscending(<<0>>) /\ Len(<<0>>) = 1 /\ <<0>> # <<>>
    BY DEF IsAscending
  <2> QED
    BY <2>1 DEF SegmentationInit, PointsInOrder, SortedPoints
<1>2. PointsInOrder /\ [SegmentationNext]_segVars => PointsInOrder'
  <2>1. SUFFICES ASSUME PointsInOrder, [SegmentationNext]_segVars
                 PROVE  PointsInOrder'
    OBVIOUS
  <2>2. CASE UNCHANGED segVars
    BY <2>1, <2>2 DEF PointsInOrder, segVars
  <2>3. CASE SegmentationNext
    <3>1. PICK dx \in Dx, dy \in Dy : NextPoint(Last(keys) + dx, Last(positions) + dy)
      BY <2>3 DEF SegmentationNext
    <3>2. dx \in Nat \ {0} /\ dy \in Nat \ {0}
      BY SegmentationAssumption
    <3>3. keys' = Append(keys, Last(keys) + dx) /\ positions' = Append(positions, Last(positions) + dy)
      BY <3>1 DEF NextPoint
    <3>4. /\ keys \in Seq(Int) /\ IsAscending(keys) /\ keys # <<>>
          /\ positions \in Seq(Int) /\ IsAscending(positions) /\ Len(positions) = Len(keys)
      BY <2>1 DEF PointsInOrder, SortedPoints
    <3>5. positions # <<>>
      BY <3>4, EmptySeq
    <3>6. keys' \in Seq(Int) /\ IsAscending(keys') /\ Len(keys') = Len(keys) + 1
      BY <3>2, <3>3, <3>4, AscendsOn
    <3>7. positions' \in Seq(Int) /\ IsAscending(positions') /\ Len(positions') = Len(positions) + 1
      BY <3>2, <3>3, <3>4, <3>5, AscendsOn
    <3>8. keys' # <<>>
      <4>1. Len(keys) \in Nat
        BY <3>4, LenProperties
      <4> QED
        BY <3>6, <4>1, EmptySeq
    <3> QED
      BY <3>4, <3>6, <3>7, <3>8 DEF PointsInOrder, SortedPoints, IsAscending
  <2> QED
    BY <2>1, <2>2, <2>3
<1> QED
  BY <1>1, <1>2, PTL DEF SegmentationSpec

\* The segment the search finds for a key of the points is its owner and predicts it.
LEMMA FoundSegment ==
    ASSUME PointsInOrder, NEW most \in Nat \ {0}, NEW k \in DOMAIN keys
    PROVE  LET model == build_segmented_model(keys, positions, eps, most)
               s     == find_segment_index(model, keys[k])
           IN  /\ FittedTo(model, keys, positions, eps, most, 1)
               /\ s \in DOMAIN model /\ Owns(model, s, keys[k])
               /\ model[s] \in AnySegment
               /\ Predicts(model[s], keys, positions, eps, k)
<1> DEFINE model == build_segmented_model(keys, positions, eps, most)
           s     == find_segment_index(model, keys[k])
<1>1. eps \in Nat /\ SortedPoints(keys, positions)
  BY SegmentationAssumption DEF PointsInOrder
<1>2. FittedTo(model, keys, positions, eps, most, 1)
  BY <1>1, SegmentsAreBuilt
<1> HIDE DEF model
<1>3. Len(keys) \in Nat /\ DOMAIN keys = 1..Len(keys) /\ k \in 1..Len(keys) /\ keys[k] \in Int
  <2>1. Len(keys) \in Nat /\ DOMAIN keys = 1..Len(keys)
    BY <1>1, LenProperties DEF SortedPoints
  <2> QED
    BY <1>1, <2>1, PointsAre
<1>4. model \in Seq(AnySegment) /\ StartsAscend(model) /\ model # <<>>
  BY <1>2, <1>3 DEF FittedTo
<1>5. s \in DOMAIN model /\ Owns(model, s, keys[k])
  BY <1>3, <1>4, SearchFindsOwner
<1> HIDE DEF s
<1>6. model[s] \in AnySegment
  BY <1>4, <1>5, LenProperties, ElementOfSeq
<1>7. Predicts(model[s], keys, positions, eps, k)
  BY <1>2, <1>3, <1>5 DEF FittedTo
<1> QED
  BY <1>2, <1>5, <1>6, <1>7 DEF model, s

\* Every key's prediction is within eps of its position, and exact at an anchor,
\* for every cap and points of every number and distance.
THEOREM PinnedPredicts == SegmentationSpec => []PinnedWithinEps
<1>1. PointsInOrder => PinnedWithinEps
  <2>1. SUFFICES ASSUME PointsInOrder, NEW most \in 1..MaxPoints, NEW k \in DOMAIN keys
                 PROVE  LET model == build_segmented_model(keys, positions, eps, most)
                            seg   == model[find_segment_index(model, keys[k])]
                        IN  /\ Within(OnLine(seg, keys[k]), seg.den, positions[k])
                            /\ keys[k] = seg.start_key => seg.anchor = positions[k]
    BY DEF PinnedWithinEps
  <2>2. most \in Nat \ {0}
    BY SegmentationAssumption
  <2> DEFINE model == build_segmented_model(keys, positions, eps, most)
             seg   == model[find_segment_index(model, keys[k])]
  <2>3. seg \in AnySegment /\ Predicts(seg, keys, positions, eps, k)
    BY <2>1, <2>2, FoundSegment
  <2> HIDE DEF model, seg
  <2>4. seg.den \in Nat /\ eps \in Nat
    BY <2>3, SegmentationAssumption DEF AnySegment
  <2>5. (-eps) * seg.den = -(eps * seg.den)
    BY <2>4
  <2>6. Within(OnLine(seg, keys[k]), seg.den, positions[k])
    BY <2>3, <2>5 DEF Predicts, Near, Within
  <2>7. keys[k] = seg.start_key => seg.anchor = positions[k]
    BY <2>3 DEF Predicts
  <2> QED
    BY <2>6, <2>7 DEF seg, model
<1> QED
  BY <1>1, PointsStayInOrder, PTL

\* A segment is responsible for one key at least, and for no more than its cap.
THEOREM CapIsKept == SegmentationSpec => []CapKept
<1>1. PointsInOrder => CapKept
  <2>1. SUFFICES ASSUME PointsInOrder, NEW most \in 1..MaxPoints,
                        NEW s \in DOMAIN build_segmented_model(keys, positions, eps, most)
                 PROVE  LET model == build_segmented_model(keys, positions, eps, most)
                        IN  Cardinality({k \in DOMAIN keys : find_segment_index(model, keys[k]) = s})
                                \in 1..most
    BY DEF CapKept
  <2>2. most \in Nat \ {0}
    BY SegmentationAssumption
  <2> DEFINE model == build_segmented_model(keys, positions, eps, most)
             led   == {k \in DOMAIN keys : find_segment_index(model, keys[k]) = s}
  <2>3. SortedPoints(keys, positions) /\ eps \in Nat
    BY <2>1, SegmentationAssumption DEF PointsInOrder
  <2>4. FittedTo(model, keys, positions, eps, most, 1)
    BY <2>2, <2>3, SegmentsAreBuilt
  <2> HIDE DEF model
  <2>5. model \in Seq(AnySegment) /\ StartsAscend(model) /\ s \in DOMAIN model
    BY <2>1, <2>4 DEF FittedTo, model
  <2>6. DOMAIN keys = 1..Len(keys) /\ Len(keys) \in Nat
    BY <2>3, LenProperties DEF SortedPoints
  <2>7. PICK k, l \in 1..Len(keys) : /\ k <= l /\ l - k < most
                                     /\ \A m \in 1..Len(keys) : Owns(model, s, keys[m]) <=> m \in k..l
    BY <2>4, <2>5 DEF FittedTo
  <2>8. ASSUME NEW m \in 1..Len(keys)
        PROVE  find_segment_index(model, keys[m]) = s <=> Owns(model, s, keys[m])
    <3>1. keys[m] \in Int
      BY <2>3, PointsAre
    <3>2. model # <<>>
      BY <2>5, EmptySeq, LenProperties
    <3>3. Owns(model, s, keys[m]) => find_segment_index(model, keys[m]) = s
      BY <2>5, <3>1, OwnerIsFound
    <3>4. Owns(model, find_segment_index(model, keys[m]), keys[m])
      BY <2>5, <3>1, <3>2, SearchFindsOwner
    <3> QED
      BY <3>3, <3>4
  <2>9. led = k..l
    <3>1. \A m \in k..l : m \in 1..Len(keys)
      BY <2>6, <2>7
    <3> QED
      BY <2>6, <2>7, <2>8, <3>1
  <2>10. Cardinality(k..l) = l - k + 1
    <3>1. k \in Int /\ l \in Int /\ ~ (k > l)
      BY <2>6, <2>7
    <3> QED
      BY <3>1, FS_Interval
  <2>11. Cardinality(led) \in 1..most
    <3>1. l - k + 1 \in 1..most
      BY <2>2, <2>6, <2>7
    <3> QED
      BY <2>9, <2>10, <3>1
  <2> QED
    BY <2>11 DEF model
<1> QED
  BY <1>1, PointsStayInOrder, PTL

-----------------------------------------------------------------------------
(* The least-squares line.                                                 *)

\* The sum of a function's values.
LEMMA SumFunctionIs ==
    ASSUME NEW S, IsFiniteSet(S), NEW w \in [S -> Int]
    PROVE  \E f : Sums(S, w, f) /\ SumFunction(w) = f[S]
<1>0. DOMAIN w = S
  OBVIOUS
<1> DEFINE f0 == CHOOSE f : f = [s \in SUBSET S |->
                        IF s = {} THEN 0 ELSE w[OneOf(s)] + f[s \ {OneOf(s)}]]
<1>1. SumFunction(w) = f0[S]
  BY <1>0 DEF SumFunction, SumFunctionOnSet, FoldFunctionOnSet, MapThenFoldSet, OneOf
<1>2. PICK f : AddsUp(S, w, f)
  BY SumIsThere
<1>3. f = [s \in SUBSET S |-> IF s = {} THEN 0 ELSE w[OneOf(s)] + f[s \ {OneOf(s)}]]
  BY <1>2 DEF AddsUp
<1>4. f0 = [s \in SUBSET S |-> IF s = {} THEN 0 ELSE w[OneOf(s)] + f0[s \ {OneOf(s)}]]
  BY <1>3
<1> HIDE DEF f0
<1>5. \A s \in SUBSET S : f0[s] = IF s = {} THEN 0 ELSE w[OneOf(s)] + f0[s \ {OneOf(s)}]
  BY <1>4
<1>6. f0 = [s \in SUBSET S |-> f0[s]] /\ f0[{}] = 0
  BY <1>4, <1>5
<1>7. Sums(S, w, f0)
  BY <1>5, <1>6, FoldSums
<1> QED
  BY <1>1, <1>7

\* Numbers that grow, each times how far its place is to the right of the middle
\* one, add up to no less than nothing.
LEMMA SumOfProducts ==
    ASSUME NEW size \in Nat \ {0}, NEW d \in [1..size -> Int],
           \A k, l \in 1..size : k < l => d[k] <= d[l]
    PROVE  SumFunction([k \in 1..size |-> d[k] * (2 * (k - 1) - (size - 1))]) \in Nat
<1> DEFINE dy(k) == 2 * (k - 1) - (size - 1)
           w     == [k \in 1..size |-> d[k] * dy(k)]
           mid   == (size + 1) \div 2
           c     == d[mid]
<1>1. /\ mid \in 1..size
      /\ \A k \in 1..size : dy(k) \in Int /\ (k <= mid => dy(k) <= 0) /\ (mid < k => 0 <= dy(k))
  BY DEF mid, dy
<1> HIDE DEF mid
<1>2. c \in Int
  BY <1>1
<1>3. ASSUME NEW k \in 1..size
      PROVE  w[k] \in Int /\ c * dy(k) \in Int /\ c * dy(k) <= w[k]
  <2> DEFINE x == d[k]
             y == dy(k)
  <2>1. x \in Int /\ y \in Int /\ w[k] = x * y
    BY <1>1
  <2>2. k <= mid => x <= c /\ y <= 0
    <3>1. k <= mid => x <= c
      <4>1. CASE k = mid
        BY <1>2, <4>1
      <4>2. CASE k < mid
        BY <1>1, <4>2
      <4> QED
        BY <1>1, <4>1, <4>2
    <3> QED
      BY <1>1, <3>1
  <2>3. mid < k => c <= x /\ 0 <= y
    BY <1>1
  <2>4. k <= mid \/ mid < k
    BY <1>1
  <2> HIDE DEF c, w, x, y
  <2>5. x <= c /\ y <= 0 => c * y <= x * y
    BY <1>2, <2>1
  <2>6. c <= x /\ 0 <= y => c * y <= x * y
    BY <1>2, <2>1
  <2>7. x * y \in Int /\ c * y \in Int /\ c * y <= x * y
    BY <1>2, <2>1, <2>2, <2>3, <2>4, <2>5, <2>6
  <2> QED
    BY <2>1, <2>7 DEF y
<1>4. w \in [1..size -> Int] /\ IsFiniteSet(1..size)
  BY <1>3, FS_Interval
<1> HIDE DEF w, c
<1>5. PICK f : Sums(1..size, w, f) /\ SumFunction(w) = f[1..size]
  BY <1>4, SumFunctionIs
<1> DEFINE T == {m \in Nat : m <= size => f[1..m] \in Int /\ c * (m * (m - size)) <= f[1..m]}
<1>6. \A m \in Nat : (\A l \in Nat : l < m => l \in T) => m \in T
  <2>1. SUFFICES ASSUME NEW m \in Nat, \A l \in Nat : l < m => l \in T, m <= size
                 PROVE  f[1..m] \in Int /\ c * (m * (m - size)) <= f[1..m]
    OBVIOUS
  <2>2. 1..m \in SUBSET (1..size)
    BY <2>1
  <2>3. f[1..m] \in Int
    BY <1>5, <2>2 DEF Sums
  <2>4. CASE m = 0
    <3>1. 1..m = {} /\ m * (m - size) = 0
      BY <2>4
    <3>2. f[1..m] = 0
      BY <1>5, <3>1 DEF Sums
    <3>3. c * 0 = 0
      BY <1>2
    <3> QED
      BY <3>1, <3>2, <3>3
  <2>5. CASE m # 0
    <3> DEFINE l == m - 1
    <3>1. l \in Nat /\ l < m /\ l <= size /\ m \in 1..m /\ m \in 1..size
      BY <2>1, <2>5
    <3>2. (1..m) \ {m} = 1..l
      BY <3>1
    <3>3. f[1..m] = w[m] + f[1..l]
      <4>1. f[1..m] = w[m] + f[(1..m) \ {m}]
        BY <1>5, <2>2, <3>1 DEF Sums
      <4> QED
        BY <3>2, <4>1
    <3>4. f[1..l] \in Int /\ c * (l * (l - size)) <= f[1..l]
      BY <2>1, <3>1
    <3>5. w[m] \in Int /\ c * dy(m) \in Int /\ c * dy(m) <= w[m]
      BY <1>3, <3>1
    <3>6. m * (m - size) = l * (l - size) + dy(m)
      OBVIOUS
    <3>7. c * (m * (m - size)) = c * (l * (l - size)) + c * dy(m)
      <4> DEFINE x == l * (l - size)
                 y == dy(m)
      <4>1. x \in Int /\ y \in Int
        BY <1>1, <3>1
      <4> HIDE DEF x, y, l
      <4>2. c * (x + y) = c * x + c * y
        BY <1>2, <4>1
      <4> QED
        BY <3>6, <4>2 DEF x, y
    <3>8. c * (l * (l - size)) \in Int
      BY <1>2, <3>1
    <3> HIDE DEF dy, l
    <3> QED
      BY <3>3, <3>4, <3>5, <3>7, <3>8
  <2> QED
    BY <2>3, <2>4, <2>5
<1>7. size \in T
  <2> HIDE DEF T
  <2>1. \A m \in Nat : m \in T
    BY <1>6, EveryNumber
  <2> QED
    BY <2>1
<1>8. f[1..size] \in Int /\ c * (size * (size - size)) <= f[1..size]
  BY <1>7
<1>9. c * (size * (size - size)) = 0
  BY <1>2
<1>10. SumFunction(w) \in Nat
  BY <1>5, <1>8, <1>9
<1> QED
  BY <1>10 DEF w

\* What the line through the keys is: it climbs or is level, and its slope has a
\* denominator.
LEMMA LineIsThere ==
    ASSUME PointsInOrder
    PROVE  fit_line \in [num : Nat, den : Nat \ {0}, n : Nat \ {0}, sumX : Int, sumY2 : Int]
<1> DEFINE size  == Len(keys)
           S     == DOMAIN keys
           sumX  == SumFunction(keys)
           dx(k) == size * keys[k] - sumX
           dy(k) == 2 * (k - 1) - (size - 1)
           xy    == [k \in S |-> dx(k) * dy(k)]
           xx    == [k \in S |-> dx(k) * dx(k)]
<1>1. size \in Nat /\ S = 1..size /\ IsFiniteSet(S) /\ size # 0
  <2>1. keys \in Seq(Int) /\ keys # <<>>
    BY DEF PointsInOrder, SortedPoints
  <2>2. size \in Nat /\ S = 1..size /\ size # 0
    BY <2>1, EmptySeq, LenProperties
  <2> QED
    BY <2>2, FS_Interval
<1>2. keys \in [S -> Int] /\ \A k, l \in S : k < l => keys[k] < keys[l]
  <2>1. SortedPoints(keys, positions) /\ keys \in Seq(Int)
    BY DEF PointsInOrder, SortedPoints
  <2> QED
    BY <1>1, <2>1, PointsAre, SeqDef
<1>3. sumX \in Int
  <2>1. PICK f : Sums(S, keys, f) /\ sumX = f[S]
    BY <1>1, <1>2, SumFunctionIs
  <2> QED
    BY <2>1 DEF Sums
<1> HIDE DEF sumX
<1>4. CASE size < 2
  <2>1. fit_line = [num |-> 0, den |-> 1, n |-> 1, sumX |-> 0, sumY2 |-> 0]
    BY <1>4 DEF fit_line
  <2> QED
    BY <2>1
<1>5. CASE ~ (size < 2)
  <2>1. fit_line = [num |-> size * SumFunction(xy), den |-> 2 * SumFunction(xx),
                    n |-> size, sumX |-> sumX, sumY2 |-> size * (size - 1)]
    BY <1>5 DEF fit_line, sumX
  <2>2. \A k \in S : dx(k) \in Int /\ dy(k) \in Int
    BY <1>1, <1>2, <1>3
  <2> HIDE DEF dx, dy
  <2>3. \A k \in S : dx(k) * dy(k) \in Int /\ dx(k) * dx(k) \in Nat
    <3>1. \A x, y \in Int : x * y \in Int
      OBVIOUS
    <3>2. ASSUME NEW x \in Int
          PROVE  x * x \in Nat
      <4>1. x >= 0 => x * x >= 0
        OBVIOUS
      <4>2. x < 0 => x * x >= 0
        OBVIOUS
      <4> QED
        BY <4>1, <4>2
    <3> QED
      BY <2>2, <3>1, <3>2
  <2>4. xy \in [S -> Int] /\ xx \in [S -> Nat] /\ xx \in [S -> Int]
    BY <2>3
  <2>5. SumFunction(xy) \in Nat
    <3> DEFINE d == [k \in 1..size |-> dx(k)]
    <3>1. d \in [1..size -> Int] /\ \A k \in 1..size : d[k] = dx(k)
      BY <1>1, <2>2
    <3>2. \A k, l \in 1..size : k < l => d[k] <= d[l]
      <4>1. SUFFICES ASSUME NEW k \in 1..size, NEW l \in 1..size, k < l
                     PROVE  d[k] <= d[l]
        OBVIOUS
      <4>2. keys[k] \in Int /\ keys[l] \in Int /\ keys[k] <= keys[l]
        BY <1>1, <1>2, <4>1
      <4> HIDE DEF d
      <4>3. size * keys[k] <= size * keys[l]
        BY <1>1, <4>2
      <4>4. size * keys[k] \in Int /\ size * keys[l] \in Int
        BY <1>1, <4>2
      <4>5. dx(k) <= dx(l)
        BY <1>3, <4>3, <4>4 DEF dx
      <4> QED
        BY <3>1, <4>5
    <3>3. xy = [k \in 1..size |-> d[k] * (2 * (k - 1) - (size - 1))]
      BY <1>1, <3>1 DEF dy
    <3> HIDE DEF d, xy
    <3>4. SumFunction([k \in 1..size |-> d[k] * (2 * (k - 1) - (size - 1))]) \in Nat
      BY <1>1, <3>1, <3>2, SumOfProducts
    <3> QED
      BY <3>3, <3>4
  <2>6. PICK k \in S : dx(k) # 0
    <3>1. 1 \in S /\ 2 \in S /\ keys[1] < keys[2] /\ keys[1] \in Int /\ keys[2] \in Int
      BY <1>1, <1>2, <1>5
    <3>2. size * keys[1] < size * keys[2]
      <4>1. keys[1] + 1 <= keys[2] /\ size >= 1
        BY <1>1, <3>1
      <4>2. size * (keys[1] + 1) <= size * keys[2] /\ size * (keys[1] + 1) = size * keys[1] + size
        BY <1>1, <3>1, <4>1
      <4>3. size * keys[1] \in Int /\ size * keys[2] \in Int
        BY <1>1, <3>1
      <4> QED
        BY <1>1, <4>1, <4>2, <4>3
    <3>3. size * keys[1] \in Int /\ size * keys[2] \in Int
      BY <1>1, <3>1
    <3>4. dx(1) # dx(2)
      BY <1>3, <3>2, <3>3 DEF dx
    <3> QED
      BY <3>1, <3>4
  <2>7. SumFunction(xx) \in Nat \ {0}
    <3>1. xx[k] = dx(k) * dx(k)
      OBVIOUS
    <3>2. xx[k] \in Nat \ {0}
      <4>1. \A x \in Int : x # 0 => x * x # 0
        OBVIOUS
      <4> QED
        BY <2>2, <2>3, <2>6, <3>1, <4>1
    <3> HIDE DEF xx
    <3>3. PICK f : Sums(S, xx, f) /\ SumFunction(xx) = f[S]
      BY <1>1, <2>4, SumFunctionIs
    <3>4. f[S] \in Nat /\ xx[k] <= f[S]
      BY <1>1, <2>4, <3>3, SumOfNaturals
    <3> QED
      BY <3>2, <3>3, <3>4
  <2> HIDE DEF xx, xy
  <2>8. /\ size * SumFunction(xy) \in Nat /\ 2 * SumFunction(xx) \in Nat \ {0}
        /\ size * (size - 1) \in Int
    BY <1>1, <2>5, <2>7
  <2> QED
    BY <1>1, <1>3, <2>1, <2>8
<1> QED
  BY <1>4, <1>5

\* So every key is predicted somewhere, a greater one no further left.
LEMMA LinePredicts ==
    ASSUME PointsInOrder, NEW key \in Int
    PROVE  /\ predict(fit_line, key) \in Int
           /\ \A l \in Int : key <= l => predict(fit_line, key) <= predict(fit_line, l)
<1> DEFINE line == fit_line
<1>1. /\ line.num \in Nat /\ line.den \in Nat \ {0} /\ line.n \in Nat \ {0}
      /\ line.sumX \in Int /\ line.sumY2 \in Int
  BY LineIsThere
<1> HIDE DEF line
<1> DEFINE height(k) == line.sumY2 * line.den + 2 * line.num * (line.n * k - line.sumX)
           den       == 2 * line.n * line.den
<1>2. den \in Nat \ {0} /\ \A k \in Int : height(k) \in Int
  BY <1>1
<1>3. \A k \in Int : predict(line, k) = Rounded(height(k), den)
  BY DEF predict
<1>4. ASSUME NEW l \in Int, key <= l
      PROVE  height(key) <= height(l)
  <2> DEFINE x == line.n * key - line.sumX
             y == line.n * l - line.sumX
             c == 2 * line.num
             b == line.sumY2 * line.den
  <2>1. x \in Int /\ y \in Int /\ c \in Nat /\ b \in Int
    BY <1>1
  <2>2. x <= y
    <3>1. line.n * key <= line.n * l
      BY <1>1, <1>4
    <3>2. line.n * key \in Int /\ line.n * l \in Int
      BY <1>1
    <3> QED
      BY <1>1, <3>1, <3>2
  <2>3. height(key) = b + c * x /\ height(l) = b + c * y
    OBVIOUS
  <2> HIDE DEF x, y, c, b, height
  <2>4. c * x <= c * y /\ c * x \in Int /\ c * y \in Int
    BY <2>1, <2>2
  <2> QED
    BY <2>1, <2>3, <2>4
<1> HIDE DEF height, den
<1>5. \A l \in Int : key <= l => predict(line, key) <= predict(line, l)
  BY <1>2, <1>3, <1>4, RoundedGrows
<1> QED
  BY <1>2, <1>3, <1>5, RoundedIsInt DEF line

\* Its worst error is no less than any of its errors.
LEMMA ErrorsBounded ==
    ASSUME PointsInOrder
    PROVE  /\ max_error(fit_line) \in Int
           /\ \A k \in DOMAIN keys : Distance(k - 1, predict(fit_line, keys[k])) <= max_error(fit_line)
<1> DEFINE size   == Len(keys)
           off(k) == Distance(k - 1, predict(fit_line, keys[k]))
<1>1. /\ size \in Nat /\ size # 0 /\ DOMAIN keys = 1..size
      /\ \A k \in 1..size : keys[k] \in Int
  <2>1. keys \in Seq(Int) /\ keys # <<>> /\ SortedPoints(keys, positions)
    BY DEF PointsInOrder, SortedPoints
  <2> QED
    BY <2>1, EmptySeq, LenProperties, PointsAre
<1>2. ASSUME NEW k \in 1..size
      PROVE  off(k) \in Int
  <2>1. predict(fit_line, keys[k]) \in Int /\ k - 1 \in Int
    BY <1>1, LinePredicts
  <2> DEFINE p == predict(fit_line, keys[k])
             b == k - 1 - p
             c == p - (k - 1)
  <2>2. b \in Int /\ c \in Int
    BY <2>1
  <2> HIDE DEF b, c, p
  <2>3. Distance(k - 1, p) = Max({b, c})
    BY DEF Distance, b, c
  <2>4. Max({b, c}) \in Int
    BY <2>2, MinOfTwo
  <2> QED
    BY <2>3, <2>4 DEF p
<1>3. CASE size < 2
  <2>1. size = 1
    BY <1>1, <1>3
  <2>2. fit_line = [num |-> 0, den |-> 1, n |-> 1, sumX |-> 0, sumY2 |-> 0]
    BY <1>3 DEF fit_line
  <2>3. max_error(fit_line) = 0
    BY <1>3 DEF max_error
  <2>4. predict(fit_line, keys[1]) = Rounded(0, 2)
    <3>1. keys[1] \in Int
      BY <1>1, <2>1
    <3>2. predict(fit_line, keys[1]) = Rounded(0 * 1 + 2 * 0 * (1 * keys[1] - 0), 2 * 1 * 1)
      BY <2>2 DEF predict
    <3>3. 0 * 1 + 2 * 0 * (1 * keys[1] - 0) = 0 /\ 2 * 1 * 1 = 2
      BY <3>1
    <3> QED
      BY <3>2, <3>3
  <2>5. Rounded(0, 2) = 0
    BY DEF Rounded
  <2>6. Distance(0, 0) = 0
    <3>1. Distance(0, 0) = Max({0, 0})
      BY DEF Distance
    <3>2. Max({0, 0}) = 0
      BY MinOfTwo
    <3> QED
      BY <3>1, <3>2
  <2>7. \A k \in DOMAIN keys : k = 1 /\ k - 1 = 0
    BY <1>1, <2>1
  <2>8. ASSUME NEW k \in DOMAIN keys
        PROVE  Distance(k - 1, predict(fit_line, keys[k])) <= max_error(fit_line)
    <3>1. Distance(k - 1, predict(fit_line, keys[k])) = 0
      BY <2>4, <2>5, <2>6, <2>7
    <3> QED
      BY <2>3, <3>1
  <2> QED
    BY <2>3, <2>8
<1>4. CASE ~ (size < 2)
  <2> DEFINE errors == {off(k) : k \in DOMAIN keys}
  <2>1. max_error(fit_line) = Max(errors)
    BY <1>4 DEF max_error
  <2>2. PICK a \in 1..size : \A b \in 1..size : off(b) <= off(a)
    <3> DEFINE p == [k \in 1..size |-> off(k)]
               q == [k \in 1..size |-> 1]
    <3>1. p \in [1..size -> Int] /\ q \in [1..size -> Nat \ {0}]
      BY <1>2
    <3>2. size \in Int /\ 1 <= size
      BY <1>1
    <3>3. \E a \in 1..size : \A b \in 1..size : p[b] * q[a] <= p[a] * q[b]
      <4> DEFINE first == 1
      <4> HIDE DEF p, q, size, first
      <4>1. /\ p \in [first..size -> Int] /\ q \in [first..size -> Nat \ {0}]
            /\ first \in Int /\ size \in Int /\ first <= size
        BY <3>1, <3>2 DEF first
      <4>2. \E a \in first..size : \A b \in first..size : p[b] * q[a] <= p[a] * q[b]
        BY <4>1, GreatestFraction
      <4> QED
        BY <4>2 DEF first
    <3>4. \A k \in 1..size : p[k] = off(k) /\ q[k] = 1 /\ off(k) \in Int
      BY <1>2
    <3> HIDE DEF p, q, off
    <3>5. PICK a \in 1..size : \A b \in 1..size : p[b] * q[a] <= p[a] * q[b]
      BY <3>3
    <3>6. ASSUME NEW b \in 1..size
          PROVE  off(b) <= off(a)
      <4>1. p[b] * q[a] <= p[a] * q[b]
        BY <3>5
      <4>2. p[b] = off(b) /\ q[a] = 1 /\ p[a] = off(a) /\ q[b] = 1 /\ off(a) \in Int /\ off(b) \in Int
        BY <3>4
      <4>3. off(b) * 1 = off(b) /\ off(a) * 1 = off(a)
        BY <4>2
      <4> QED
        BY <4>1, <4>2, <4>3
    <3> QED
      BY <3>6
  <2> HIDE DEF off
  <2>3. errors \in SUBSET Int /\ errors # {} /\ off(a) \in Int /\ \A x \in errors : x <= off(a)
    BY <1>1, <1>2, <2>2
  <2>4. \A k \in DOMAIN keys : off(k) \in errors
    OBVIOUS
  <2> HIDE DEF errors
  <2>5. Max(errors) \in Int /\ \A x \in errors : x <= Max(errors)
    BY <2>3, MaxOf
  <2> QED
    BY <2>1, <2>4, <2>5 DEF off
<1> QED
  BY <1>3, <1>4

-----------------------------------------------------------------------------
(* The search of a window.                                                 *)

\* Where a number is.
LEMMA PositionIs ==
    ASSUME PointsInOrder, NEW key \in Int
    PROVE  /\ \A k \in DOMAIN keys : keys[k] = key => PositionOf(key) = k - 1
           /\ (\A k \in DOMAIN keys : keys[k] # key) => PositionOf(key) = NotFound
<1> DEFINE size == Len(keys)
<1>1. /\ size \in Nat /\ DOMAIN keys = 1..size
      /\ \A k \in 1..size : keys[k] \in Int
      /\ \A k, l \in 1..size : k < l => keys[k] < keys[l]
  <2>1. keys \in Seq(Int) /\ SortedPoints(keys, positions)
    BY DEF PointsInOrder, SortedPoints
  <2> QED
    BY <2>1, LenProperties, PointsAre
<1>2. ASSUME NEW k \in 1..size, keys[k] = key
      PROVE  PositionOf(key) = k - 1
  <2>1. \A l \in 1..size : keys[l] = key => l = k
    <3>1. SUFFICES ASSUME NEW l \in 1..size, keys[l] = key, l # k
                   PROVE  FALSE
      OBVIOUS
    <3>2. l < k \/ k < l
      BY <3>1
    <3> QED
      BY <1>1, <1>2, <3>1, <3>2
  <2>2. Contains(keys, key)
    BY <1>2 DEF Contains
  <2> DEFINE I == {m \in 1..size : keys[m] = key}
  <2>3. I = {k}
    BY <1>2, <2>1
  <2>4. SelectInSeq(keys, LAMBDA m : m = key) = IF I # {} THEN Min(I) ELSE 0
    BY DEF SelectInSeq
  <2>5. Min({k}) = k
    <3>1. {k} \in SUBSET Int /\ {k} # {} /\ \A x \in {k} : k <= x
      OBVIOUS
    <3>2. Min({k}) \in {k}
      BY <3>1, MinOf
    <3> QED
      BY <3>2
  <2> HIDE DEF I
  <2>6. SelectInSeq(keys, LAMBDA m : m = key) = k
    BY <2>3, <2>4, <2>5
  <2> QED
    BY <2>2, <2>6 DEF PositionOf
<1>3. ASSUME \A k \in 1..size : keys[k] # key
      PROVE  PositionOf(key) = NotFound
  <2>1. ~ Contains(keys, key)
    BY <1>3 DEF Contains
  <2> QED
    BY <2>1 DEF PositionOf
<1> QED
  BY <1>1, <1>2, <1>3

\* The ends of a window.
LEMMA WindowIs ==
    ASSUME Len(keys) \in Nat, NEW predicted \in Int, NEW far \in Int
    PROVE  /\ Window(predicted, far).lo = IF 0 <= predicted - far THEN predicted - far ELSE 0
           /\ Window(predicted, far).hi =
                IF Len(keys) - 1 <= predicted + far THEN Len(keys) - 1 ELSE predicted + far
<1> DEFINE low  == predicted - far
           high == predicted + far
           last == Len(keys) - 1
<1>1. low \in Int /\ high \in Int /\ last \in Int
  OBVIOUS
<1> HIDE DEF low, high, last
<1>2. Window(predicted, far).lo = Max({0, low}) /\ Window(predicted, far).hi = Min({last, high})
  BY DEF Window, low, high, last
<1>3. /\ Max({0, low}) = IF 0 <= low THEN low ELSE 0
      /\ Min({last, high}) = IF last <= high THEN last ELSE high
  BY <1>1, MinOfTwo
<1> QED
  BY <1>2, <1>3 DEF low, high, last

\* What the binary search of a range that is not backwards returns.
LEMMA RangeSearched ==
    ASSUME NEW first \in Int, NEW end \in Int, first <= end, NEW key
    PROVE  /\ lower_bound(first, end, key) \in first..end
           /\ lower_bound(first, end, key) < end => keys[lower_bound(first, end, key) + 1] >= key
           /\ \A p \in first..(end - 1) : keys[p + 1] >= key => lower_bound(first, end, key) <= p
<1> DEFINE from == {p \in first..(end - 1) : keys[p + 1] >= key}
           all  == {end} \cup from
<1>1. lower_bound(first, end, key) = Min(all)
  BY DEF lower_bound
<1>2. /\ all \in SUBSET Int /\ all # {} /\ \A x \in all : first <= x /\ x <= end
      /\ \A x \in all : x < end => x \in from
  OBVIOUS
<1>3. \A x \in from : keys[x + 1] >= key /\ x \in all
  OBVIOUS
<1>4. \A p \in first..(end - 1) : keys[p + 1] >= key => p \in from
  OBVIOUS
<1> HIDE DEF from, all
<1> DEFINE it == Min(all)
<1>5. it \in all /\ \A x \in all : it <= x
  BY <1>2, MinOf
<1> HIDE DEF it
<1>6. it \in Int /\ first <= it /\ it <= end
  BY <1>2, <1>5
<1>7. it < end => keys[it + 1] >= key
  BY <1>2, <1>3, <1>5
<1>8. \A p \in first..(end - 1) : keys[p + 1] >= key => it <= p
  BY <1>3, <1>4, <1>5
<1>9. it = lower_bound(first, end, key)
  BY <1>1 DEF it
<1> QED
  BY <1>6, <1>7, <1>8, <1>9

\* A window that starts in the array, and reaches as far as a key may be from where
\* it is predicted, has the key if it is there; and nothing else is found in it.
LEMMA WindowHasKey ==
    ASSUME PointsInOrder, NEW key \in Int, NEW predicted \in Int, NEW far \in Nat,
           \A k \in DOMAIN keys :
              keys[k] = key => predicted - far <= k - 1 /\ k - 1 <= predicted + far,
           StartsInside(Window(predicted, far))
    PROVE  FindIn(Window(predicted, far), key) = {PositionOf(key)}
<1> DEFINE size  == Len(keys)
           w     == Window(predicted, far)
           first == w.lo
           end   == w.hi + 1
           it    == lower_bound(first, end, key)
<1>1. /\ size \in Nat /\ size # 0 /\ DOMAIN keys = 1..size
      /\ \A k \in 1..size : keys[k] \in Int
      /\ \A k, l \in 1..size : k < l => keys[k] < keys[l]
  <2>1. keys \in Seq(Int) /\ keys # <<>> /\ SortedPoints(keys, positions)
    BY DEF PointsInOrder, SortedPoints
  <2> QED
    BY <2>1, EmptySeq, LenProperties, PointsAre
<1>2. /\ first = IF 0 <= predicted - far THEN predicted - far ELSE 0
      /\ end = IF size - 1 <= predicted + far THEN size ELSE predicted + far + 1
      /\ first <= size
  <2>1. /\ first = IF 0 <= predicted - far THEN predicted - far ELSE 0
        /\ w.hi = IF size - 1 <= predicted + far THEN size - 1 ELSE predicted + far
    BY <1>1, WindowIs
  <2>2. first <= size
    BY DEF StartsInside
  <2> HIDE DEF w, first
  <2>3. end = IF size - 1 <= predicted + far THEN size ELSE predicted + far + 1
    BY <1>1, <2>1
  <2> QED
    BY <2>1, <2>2, <2>3
<1>3. FindIn(w, key) = IF it = end THEN {NotFound} ELSE ReadAt(it, key)
  BY DEF FindIn
<1> HIDE DEF w, first, end
<1>4. first \in 0..size /\ end \in Int /\ end <= size /\ (end < first => first = 0)
  BY <1>1, <1>2
<1>5. \A k \in 1..size : keys[k] = key => k - 1 \in first..(end - 1)
  <2>1. SUFFICES ASSUME NEW k \in 1..size, keys[k] = key
                 PROVE  first <= k - 1 /\ k - 1 <= end - 1
    BY <1>4
  <2>2. predicted - far <= k - 1 /\ k - 1 <= predicted + far
    BY <1>1, <2>1
  <2> QED
    BY <1>1, <1>2, <2>1, <2>2
<1>6. CASE end < first
  <2>1. \A k \in 1..size : keys[k] # key
    BY <1>4, <1>5, <1>6
  <2>2. it = 0 /\ it # end
    BY <1>4, <1>6 DEF lower_bound
  <2>3. 0 < size /\ keys[0 + 1] # key
    BY <1>1, <2>1
  <2>4. ReadAt(it, key) = {NotFound}
    BY <2>2, <2>3 DEF ReadAt
  <2>5. PositionOf(key) = NotFound
    BY <1>1, <2>1, PositionIs
  <2> QED
    BY <1>3, <2>2, <2>4, <2>5 DEF w
<1>7. CASE first <= end
  <2>1. /\ it \in first..end
        /\ it < end => keys[it + 1] >= key
        /\ \A p \in first..(end - 1) : keys[p + 1] >= key => it <= p
    <3>1. first \in Int /\ end \in Int
      BY <1>4
    <3> QED
      BY <1>7, <3>1, RangeSearched
  <2> HIDE DEF it
  <2>2. it \in Int /\ \A k \in 1..size : keys[k] = key => it <= k - 1 /\ k - 1 < end
    <3>1. SUFFICES ASSUME NEW k \in 1..size, keys[k] = key
                   PROVE  it <= k - 1 /\ k - 1 < end
      BY <1>4, <2>1
    <3> DEFINE before == k - 1
    <3>2. before \in first..(end - 1) /\ keys[before + 1] >= key
      <4>1. (k - 1) + 1 = k /\ key >= key
        BY <1>1
      <4>2. k - 1 \in first..(end - 1)
        BY <1>5, <3>1
      <4>3. keys[(k - 1) + 1] = key
        BY <3>1, <4>1
      <4> QED
        BY <4>1, <4>2, <4>3
    <3> HIDE DEF before
    <3>3. it <= before /\ before < end
      BY <1>4, <2>1, <3>2
    <3> QED
      BY <3>3 DEF before
  <2>3. CASE it = end
    <3>1. \A k \in 1..size : keys[k] # key
      BY <1>4, <2>2, <2>3
    <3>2. PositionOf(key) = NotFound
      BY <1>1, <3>1, PositionIs
    <3> QED
      BY <1>3, <2>3, <3>2 DEF w
  <2>4. CASE it # end
    <3>1. it < end /\ it < size /\ it + 1 \in 1..size /\ keys[it + 1] >= key
      BY <1>4, <2>1, <2>4
    <3>2. FindIn(w, key) = {IF keys[it + 1] = key THEN it ELSE NotFound}
      BY <1>3, <2>4, <3>1 DEF ReadAt
    <3>3. CASE keys[it + 1] = key
      <4>1. PositionOf(key) = (it + 1) - 1 /\ (it + 1) - 1 = it
        BY <1>1, <2>2, <3>1, <3>3, PositionIs
      <4> QED
        BY <3>2, <3>3, <4>1 DEF w
    <3>4. CASE keys[it + 1] # key
      <4>1. \A k \in 1..size : keys[k] # key
        <5>1. SUFFICES ASSUME NEW k \in 1..size, keys[k] = key
                       PROVE  FALSE
          OBVIOUS
        <5>2. it + 1 <= k
          BY <2>2, <5>1
        <5>3. it + 1 # k
          BY <3>4, <5>1
        <5>4. it + 1 < k
          BY <2>2, <5>2, <5>3
        <5>5. keys[it + 1] < keys[k] /\ keys[it + 1] \in Int
          BY <1>1, <3>1, <5>4
        <5> QED
          BY <3>1, <5>1, <5>5
      <4>2. PositionOf(key) = NotFound
        BY <1>1, <4>1, PositionIs
      <4> QED
        BY <3>2, <3>4, <4>2 DEF w
    <3> QED
      BY <3>3, <3>4
  <2> QED
    BY <2>3, <2>4
<1> QED
  BY <1>4, <1>6, <1>7

\* A number that is predicted no further right than a key, which is as near as it
\* may be to where it is predicted, is looked for in a window that starts in the array.
LEMMA WindowStartsInside ==
    ASSUME Len(keys) \in Nat, NEW k \in 1..Len(keys), NEW predicted \in Int, NEW far \in Int,
           predicted - far <= k - 1
    PROVE  StartsInside(Window(predicted, far))
<1>1. Window(predicted, far).lo = IF 0 <= predicted - far THEN predicted - far ELSE 0
  BY WindowIs
<1> QED
  BY <1>1 DEF StartsInside

\* The queries are numbers.
LEMMA QueriesAreNumbers ==
    ASSUME PointsInOrder
    PROVE  Queries \subseteq Int
<1>1. Head(keys) \in Int /\ Last(keys) \in Int
  <2>1. keys \in Seq(Int) /\ keys # <<>>
    BY DEF PointsInOrder, SortedPoints
  <2>2. Len(keys) \in 1..Len(keys) /\ Head(keys) \in Int
    BY <2>1, EmptySeq, LenProperties
  <2> QED
    BY <2>1, <2>2, ElementOfSeq DEF Last
<1> QED
  BY <1>1 DEF Queries

\* The search around the line's prediction finds every key at its position, and no
\* other number that is not past the last key, or whose window starts in the array:
\* for arrays of every size.
THEOREM LearnedFinds == SegmentationSpec => []LearnedFindsKeys
<1>1. PointsInOrder => LearnedFindsKeys
  <2>1. SUFFICES ASSUME PointsInOrder, NEW key \in Queries,
                        key <= Last(keys) \/ StartsInside(LearnedWindow(key))
                 PROVE  learned_search(key) = {PositionOf(key)}
    BY DEF LearnedFindsKeys
  <2> DEFINE p    == predict(fit_line, key)
             far  == max_error(fit_line)
             size == Len(keys)
  <2>2. /\ key \in Int /\ p \in Int /\ far \in Int
        /\ \A l \in Int : key <= l => p <= predict(fit_line, l)
    BY <2>1, QueriesAreNumbers, LinePredicts, ErrorsBounded
  <2>3. /\ size \in Nat \ {0} /\ DOMAIN keys = 1..size /\ \A k \in 1..size : keys[k] \in Int
        /\ Last(keys) = keys[size]
    <3>1. keys \in Seq(Int) /\ keys # <<>> /\ SortedPoints(keys, positions)
      BY <2>1 DEF PointsInOrder, SortedPoints
    <3> QED
      BY <3>1, EmptySeq, LenProperties, PointsAre DEF Last
  <2>4. ASSUME NEW k \in 1..size
        PROVE  LET at == predict(fit_line, keys[k])
               IN  at \in Int /\ at - far <= k - 1 /\ k - 1 <= at + far
    <3> DEFINE at == predict(fit_line, keys[k])
               b  == k - 1 - at
               c  == at - (k - 1)
    <3>1. Distance(k - 1, at) <= far
      BY <2>1, <2>3, ErrorsBounded
    <3>2. at \in Int
      BY <2>1, <2>3, LinePredicts
    <3> HIDE DEF at, far
    <3>3. b \in Int /\ c \in Int
      BY <3>2
    <3> HIDE DEF b, c
    <3>4. Distance(k - 1, at) = Max({b, c})
      BY DEF Distance, b, c
    <3>5. Max({b, c}) = IF b <= c THEN c ELSE b
      BY <3>3, MinOfTwo
    <3>6. b <= far /\ c <= far
      BY <2>2, <3>1, <3>3, <3>4, <3>5
    <3>7. at \in Int /\ at - far <= k - 1 /\ k - 1 <= at + far
      BY <2>2, <3>2, <3>6 DEF b, c
    <3> QED
      BY <3>7 DEF at
  <2>5. far \in Nat
    <3> DEFINE at == predict(fit_line, keys[1])
    <3>1. at \in Int /\ at - far <= 1 - 1 /\ 1 - 1 <= at + far
      BY <2>3, <2>4
    <3> HIDE DEF at, far
    <3> QED
      BY <2>2, <3>1
  <2>6. \A k \in DOMAIN keys : keys[k] = key => p - far <= k - 1 /\ k - 1 <= p + far
    BY <2>3, <2>4
  <2>7. StartsInside(Window(p, far))
    <3>1. CASE StartsInside(LearnedWindow(key))
      BY <3>1 DEF LearnedWindow
    <3>2. CASE key <= Last(keys)
      <4> DEFINE at == predict(fit_line, keys[size])
      <4>1. size \in 1..size /\ keys[size] \in Int /\ key <= keys[size]
        BY <2>3, <3>2
      <4>2. p <= at
        BY <2>2, <4>1
      <4>3. at \in Int /\ at - far <= size - 1
        BY <2>4, <4>1
      <4> HIDE DEF at, p, far, size
      <4>4. p - far <= size - 1 /\ size \in Nat
        BY <2>2, <2>3, <4>2, <4>3
      <4>5. Len(keys) \in Nat /\ size \in 1..Len(keys)
        BY <2>3, <4>1 DEF size
      <4> QED
        BY <2>2, <4>4, <4>5, WindowStartsInside
    <3> QED
      BY <2>1, <3>1, <3>2
  <2>8. learned_search(key) = FindIn(Window(p, far), key)
    BY DEF learned_search, LearnedWindow
  <2> HIDE DEF p, far
  <2> QED
    BY <2>1, <2>2, <2>5, <2>6, <2>7, <2>8, WindowHasKey
<1> QED
  BY <1>1, PointsStayInOrder, PTL

\* A segment puts no number further right than a greater one.
LEMMA SegmentClimbs ==
    ASSUME NEW seg \in AnySegment, NEW k \in Int, NEW l \in Int, k <= l
    PROVE  OnLine(seg, k) \in Int /\ OnLine(seg, l) \in Int /\ OnLine(seg, k) <= OnLine(seg, l)
<1> DEFINE b == seg.anchor * seg.den
           c == seg.num
           x == k - seg.start_key
           y == l - seg.start_key
<1>1. b \in Int /\ c \in Nat /\ x \in Int /\ y \in Int /\ x <= y
  BY DEF AnySegment
<1>2. OnLine(seg, k) = b + c * x /\ OnLine(seg, l) = b + c * y
  BY DEF OnLine
<1> HIDE DEF b, c, x, y
<1>3. c * x \in Int /\ c * y \in Int /\ c * x <= c * y
  BY <1>1
<1> QED
  BY <1>1, <1>2, <1>3

\* So does the search around what a number's segment predicts, up to the last key of
\* the segment.
THEOREM SegmentedFinds == SegmentationSpec => []SegmentedFindsKeys
<1>1. PointsInOrder => SegmentedFindsKeys
  <2>1. SUFFICES ASSUME PointsInOrder, Dense, NEW key \in Queries,
                        WithinSegment(key) \/ StartsInside(SegmentedWindow(key))
                 PROVE  segmented_search(key) = {PositionOf(key)}
    BY DEF SegmentedFindsKeys
  <2> DEFINE most  == Len(keys)
             model == build_segmented_model(keys, positions, eps, most)
             s     == find_segment_index(model, key)
             seg   == model[s]
             p     == Rounded(OnLine(seg, key), seg.den)
  <2>2. /\ keys \in Seq(Int) /\ SortedPoints(keys, positions) /\ eps \in Nat /\ key \in Int
        /\ most \in Nat \ {0} /\ DOMAIN keys = 1..most /\ \A k \in 1..most : keys[k] \in Int
    <3>1. keys \in Seq(Int) /\ keys # <<>> /\ SortedPoints(keys, positions)
      BY <2>1 DEF PointsInOrder, SortedPoints
    <3> QED
      BY <2>1, <3>1, EmptySeq, LenProperties, PointsAre, QueriesAreNumbers, SegmentationAssumption
  <2>3. FittedTo(model, keys, positions, eps, most, 1)
    BY <2>2, SegmentsAreBuilt
  <2>4. model \in Seq(AnySegment) /\ StartsAscend(model) /\ model # <<>>
    <3> HIDE DEF model
    <3>1. 1 <= Len(keys)
      BY <2>2
    <3> QED
      BY <2>3, <3>1 DEF FittedTo
  <2>5. seg \in AnySegment
    <3> HIDE DEF model
    <3>1. s \in DOMAIN model
      BY <2>2, <2>4, SearchFindsOwner
    <3> HIDE DEF s
    <3> QED
      BY <2>4, <3>1, LenProperties, ElementOfSeq
  <2>6. OnLine(seg, key) \in Int /\ seg.den \in Nat \ {0}
    <3> HIDE DEF seg
    <3>1. seg.den \in Nat \ {0}
      BY <2>5 DEF AnySegment
    <3>2. key <= key
      BY <2>2
    <3> QED
      BY <2>2, <2>5, <3>1, <3>2, SegmentClimbs
  <2>7. p \in Int
    BY <2>6, RoundedIsInt
  <2>8. ASSUME NEW k \in DOMAIN keys, find_segment_index(model, keys[k]) = s
        PROVE  LET at == Rounded(OnLine(seg, keys[k]), seg.den)
               IN  /\ at \in Int /\ at - eps <= k - 1 /\ k - 1 <= at + eps
                   /\ key <= keys[k] => p <= at
    <3> DEFINE line == OnLine(seg, keys[k])
               at   == Rounded(line, seg.den)
    <3>1. Predicts(seg, keys, positions, eps, k)
      BY <2>1, <2>2, <2>8, FoundSegment
    <3>2. positions[k] = k - 1 /\ k - 1 \in Int
      <4>1. DOMAIN positions = DOMAIN keys
        BY <2>2, LenProperties DEF SortedPoints
      <4> QED
        BY <2>1, <2>2, <4>1 DEF Dense
    <3> DEFINE pos == k - 1
               b   == pos - eps
               c   == pos + eps
    <3>3. pos \in Int /\ b \in Int /\ c \in Int
      BY <2>2, <3>2
    <3>4. Near(pos, line, seg.den, eps)
      BY <2>8, <3>1, <3>2 DEF Predicts
    <3>5. line \in Int /\ (key <= keys[k] => OnLine(seg, key) <= line)
      <4> HIDE DEF seg
      <4>1. keys[k] \in Int /\ keys[k] <= keys[k]
        BY <2>2
      <4>2. line \in Int
        BY <2>5, <4>1, SegmentClimbs
      <4>3. key <= keys[k] => OnLine(seg, key) <= line
        BY <2>2, <2>5, <4>1, SegmentClimbs
      <4> QED
        BY <4>2, <4>3
    <3> HIDE DEF seg, pos, line
    <3>6. b * seg.den <= line /\ line <= c * seg.den
      BY <2>2, <2>6, <3>3, <3>4, <3>5, NearIs
    <3> HIDE DEF b, c
    <3>7. at \in Int /\ b <= at /\ at <= c
      BY <2>6, <3>3, <3>5, <3>6, RoundedBetween
    <3>8. key <= keys[k] => p <= at
      BY <2>6, <3>5, RoundedGrows
    <3> HIDE DEF p, at
    <3>9. at \in Int /\ at - eps <= k - 1 /\ k - 1 <= at + eps /\ (key <= keys[k] => p <= at)
      BY <2>2, <2>7, <3>2, <3>7, <3>8 DEF pos, b, c
    <3> QED
      BY <3>9 DEF at, line
  <2>9. \A k \in DOMAIN keys : keys[k] = key => p - eps <= k - 1 /\ k - 1 <= p + eps
    <3>1. SUFFICES ASSUME NEW k \in DOMAIN keys, keys[k] = key
                   PROVE  p - eps <= k - 1 /\ k - 1 <= p + eps
      OBVIOUS
    <3>2. find_segment_index(model, keys[k]) = s /\ p = Rounded(OnLine(seg, keys[k]), seg.den)
      BY <3>1
    <3> HIDE DEF model, s, seg, p
    <3> QED
      BY <2>8, <3>2
  <2>10. StartsInside(Window(p, eps))
    <3>1. CASE StartsInside(SegmentedWindow(key))
      BY <3>1 DEF SegmentedWindow
    <3>2. CASE WithinSegment(key)
      <4>1. PICK k \in DOMAIN keys : key <= keys[k] /\ find_segment_index(model, keys[k]) = s
        BY <3>2 DEF WithinSegment
      <4> DEFINE at == Rounded(OnLine(seg, keys[k]), seg.den)
      <4>2. at \in Int /\ at - eps <= k - 1 /\ p <= at
        <5> HIDE DEF model, s, seg, p
        <5> QED
          BY <2>8, <4>1
      <4> HIDE DEF at, p
      <4>3. p - eps <= k - 1 /\ k \in 1..Len(keys) /\ Len(keys) \in Nat /\ eps \in Int
        BY <2>2, <2>7, <4>2
      <4> QED
        BY <2>7, <4>3, WindowStartsInside
    <3> QED
      BY <2>1, <3>1, <3>2
  <2>11. segmented_search(key) = FindIn(Window(p, eps), key)
    BY DEF segmented_search, SegmentedWindow
  <2> HIDE DEF p
  <2> QED
    BY <2>1, <2>2, <2>7, <2>9, <2>10, <2>11, WindowHasKey
<1> QED
  BY <1>1, PointsStayInOrder, PTL

-----------------------------------------------------------------------------
(* Lines.                                                                  *)

Points   == [x : Int, y : Int]
AnyLine  == {l \in [left : Points, right : Points] : l.left.x < l.right.x}
Across(l) == l.right.x - l.left.x

\* Point q lies on line l or under it.
Under(q, l) == q.y * Across(l) <= HeightAt(l, q.x)

\* Point q lies on line l or over it.
Over(q, l) == HeightAt(l, q.x) <= q.y * Across(l)

\* At x line l lies nowhere over line m.
AtMost(l, m, x) == HeightAt(l, x) * Across(m) <= HeightAt(m, x) * Across(l)

\* What a line is, and where it is at its two points.
LEMMA LineIs ==
    ASSUME NEW l \in AnyLine
    PROVE  /\ l.left \in Points /\ l.right \in Points
           /\ l.left.x \in Int /\ l.left.y \in Int /\ l.right.x \in Int /\ l.right.y \in Int
           /\ l.left.x < l.right.x /\ Across(l) \in Nat \ {0}
           /\ \A x \in Int : HeightAt(l, x) \in Int
           /\ HeightAt(l, l.left.x) = l.left.y * Across(l)
           /\ HeightAt(l, l.right.x) = l.right.y * Across(l)
<1>1. /\ l.left \in Points /\ l.right \in Points /\ l.left.x < l.right.x
  BY DEF AnyLine
<1> DEFINE a == l.left.x
           b == l.left.y
           c == l.right.x
           d == l.right.y
<1>2. a \in Int /\ b \in Int /\ c \in Int /\ d \in Int /\ a < c
  BY <1>1 DEF Points
<1>3. \A x : HeightAt(l, x) = b * (c - a) + (d - b) * (x - a)
  BY DEF HeightAt
<1>4. Across(l) = c - a
  BY DEF Across
<1> HIDE DEF a, b, c, d
<1>5. (d - b) * (a - a) = 0 /\ b * (c - a) + (d - b) * (c - a) = d * (c - a)
  BY <1>2
<1>6. b * (c - a) \in Int
  BY <1>2
<1>7. /\ c - a \in Nat \ {0} /\ \A x \in Int : b * (c - a) + (d - b) * (x - a) \in Int
      /\ HeightAt(l, a) = b * (c - a) /\ HeightAt(l, c) = d * (c - a)
  BY <1>2, <1>3, <1>5, <1>6
<1> QED
  BY <1>1, <1>2, <1>3, <1>4, <1>7 DEF a, b, c, d

\* A line through two points.
LEMMA ThroughIs ==
    ASSUME NEW p \in Points, NEW q \in Points, p.x < q.x
    PROVE  Through(p, q) \in AnyLine /\ Through(p, q).left = p /\ Through(p, q).right = q
BY DEF Through, AnyLine

\* The height of a line grows in proportion.
LEMMA HeightGrows ==
    ASSUME NEW l \in AnyLine
    PROVE  \E a, b \in Int : \A x \in Int : HeightAt(l, x) = a + b * x
<1> DEFINE b == l.right.y - l.left.y
           c == l.left.x
           e == l.left.y * Across(l)
           a == e - b * c
<1>1. b \in Int /\ c \in Int /\ e \in Int
  BY LineIs
<1>2. \A x : HeightAt(l, x) = e + b * (x - c)
  BY DEF HeightAt, Across
<1> HIDE DEF b, c, e
<1>3. a \in Int
  BY <1>1
<1>4. ASSUME NEW x \in Int
      PROVE  HeightAt(l, x) = a + b * x
  <2>1. b * (x - c) = b * x - b * c /\ b * x \in Int /\ b * c \in Int
    BY <1>1
  <2> QED
    BY <1>1, <1>2, <2>1
<1> QED
  BY <1>1, <1>3, <1>4

\* So does the distance between two.
LEMMA DistanceGrows ==
    ASSUME NEW l \in AnyLine, NEW m \in AnyLine
    PROVE  \E a, b \in Int : \A x \in Int :
              HeightAt(m, x) * Across(l) - HeightAt(l, x) * Across(m) = a + b * x
<1>1. PICK a \in Int, b \in Int : \A x \in Int : HeightAt(l, x) = a + b * x
  BY HeightGrows
<1>2. PICK c \in Int, d \in Int : \A x \in Int : HeightAt(m, x) = c + d * x
  BY HeightGrows
<1> DEFINE u == Across(l)
           v == Across(m)
           first  == c * u - a * v
           second == d * u - b * v
<1>3. u \in Int /\ v \in Int
  BY LineIs
<1> HIDE DEF u, v
<1>4. ASSUME NEW x \in Int
      PROVE  (c + d * x) * u - (a + b * x) * v = first + second * x
  <2>1. (c + d * x) * u = c * u + (d * u) * x /\ (a + b * x) * v = a * v + (b * v) * x
    BY <1>3
  <2> DEFINE du == d * u
             bv == b * v
             cu == c * u
             av == a * v
  <2>2. du \in Int /\ bv \in Int /\ cu \in Int /\ av \in Int
    BY <1>3
  <2> HIDE DEF du, bv, cu, av
  <2>3. (cu + du * x) - (av + bv * x) = (cu - av) + (du - bv) * x
    BY <2>2
  <2> QED
    BY <2>1, <2>3 DEF du, bv, cu, av
<1>5. first \in Int /\ second \in Int
  BY <1>3
<1> HIDE DEF first, second
<1>6. \A x \in Int : HeightAt(m, x) * u - HeightAt(l, x) * v = first + second * x
  BY <1>1, <1>2, <1>4
<1> QED
  BY <1>5, <1>6 DEF u, v

\* The product of a number that is not negative with a greater and a lesser one.
LEMMA TimesMore ==
    ASSUME NEW b \in Int, NEW x \in Int, NEW y \in Int, x <= y
    PROVE  /\ b * x \in Int /\ b * y \in Int
           /\ b >= 0 => b * x <= b * y
           /\ b <= 0 => b * y <= b * x
           /\ x < y /\ b * x <= b * y => b >= 0
           /\ x < y /\ b * y <= b * x => b <= 0
<1>1. b * x \in Int /\ b * y \in Int /\ b * (y - x) = b * y - b * x /\ y - x \in Nat
  OBVIOUS
<1>2. b >= 0 => b * (y - x) >= 0
  BY <1>1
<1>3. b <= 0 => b * (y - x) <= 0
  BY <1>1
<1>4. x < y /\ b > 0 => b * (y - x) > 0
  BY <1>1
<1>5. x < y /\ b < 0 => b * (y - x) < 0
  BY <1>1
<1> QED
  BY <1>1, <1>2, <1>3, <1>4, <1>5

\* What one line is over at two places it is over in between.
LEMMA Between ==
    ASSUME NEW l \in AnyLine, NEW m \in AnyLine,
           NEW x \in Int, NEW y \in Int, NEW z \in Int, x <= y, y <= z,
           AtMost(l, m, x), AtMost(l, m, z)
    PROVE  AtMost(l, m, y)
<1>1. PICK a \in Int, b \in Int : \A w \in Int :
         HeightAt(m, w) * Across(l) - HeightAt(l, w) * Across(m) = a + b * w
  BY DistanceGrows
<1>2. \A w \in Int : HeightAt(m, w) * Across(l) \in Int /\ HeightAt(l, w) * Across(m) \in Int
  BY LineIs
<1>3. \A w \in Int : AtMost(l, m, w) <=> 0 <= a + b * w
  BY <1>1, <1>2 DEF AtMost
<1>4. 0 <= a + b * x /\ 0 <= a + b * z
  BY <1>3
<1>5. b >= 0 => b * x <= b * y
  BY TimesMore
<1>6. b <= 0 => b * z <= b * y
  BY TimesMore
<1>7. 0 <= a + b * y
  BY <1>4, <1>5, <1>6
<1> QED
  BY <1>3, <1>7

\* Two lines that cross go on apart.
LEMMA Before ==
    ASSUME NEW l \in AnyLine, NEW m \in AnyLine,
           NEW x \in Int, NEW y \in Int, NEW z \in Int, x <= y, y < z,
           AtMost(l, m, y), AtMost(m, l, z)
    PROVE  AtMost(l, m, x)
<1>1. PICK a \in Int, b \in Int : \A w \in Int :
         HeightAt(m, w) * Across(l) - HeightAt(l, w) * Across(m) = a + b * w
  BY DistanceGrows
<1>2. \A w \in Int : HeightAt(m, w) * Across(l) \in Int /\ HeightAt(l, w) * Across(m) \in Int
  BY LineIs
<1>3. \A w \in Int : (AtMost(l, m, w) <=> 0 <= a + b * w) /\ (AtMost(m, l, w) <=> a + b * w <= 0)
  BY <1>1, <1>2 DEF AtMost
<1>4. 0 <= a + b * y /\ a + b * z <= 0
  BY <1>3
<1>5. b <= 0
  <2>1. b * y \in Int /\ b * z \in Int /\ b * z <= b * y
    BY <1>4, TimesMore
  <2> QED
    BY <2>1, TimesMore
<1>6. b * y <= b * x /\ b * x \in Int /\ b * y \in Int
  BY <1>5, TimesMore
<1>7. 0 <= a + b * x
  BY <1>4, <1>6
<1> QED
  BY <1>3, <1>7

\* A point under a line is under those over it.
LEMMA UnderTwo ==
    ASSUME NEW l \in AnyLine, NEW m \in AnyLine, NEW q \in Points, Under(q, l), AtMost(l, m, q.x)
    PROVE  Under(q, m)
<1> DEFINE p == q.y
           h == HeightAt(l, q.x)
           r == HeightAt(m, q.x)
           u == Across(l)
           v == Across(m)
           one == 1
<1>1. p \in Int /\ h \in Int /\ r \in Int /\ u \in Nat \ {0} /\ v \in Nat \ {0} /\ one \in Nat \ {0}
  <2>1. q.x \in Int /\ q.y \in Int
    BY DEF Points
  <2> QED
    BY <2>1, LineIs
<1>2. p * u <= h /\ h * v <= r * u
  BY DEF Under, AtMost
<1>3. SUFFICES p * v <= r
  BY DEF Under
<1>4. h * one = h /\ r * one = r
  BY <1>1
<1> HIDE DEF p, h, r, u, v, one
<1>5. p * u <= h * one /\ h * v <= r * u
  BY <1>2, <1>4
<1>6. p * v <= r * one
  BY <1>1, <1>5, FractionsOrdered
<1> QED
  BY <1>4, <1>6

\* A point over a line is over those under it.
LEMMA OverTwo ==
    ASSUME NEW l \in AnyLine, NEW m \in AnyLine, NEW q \in Points, Over(q, l), AtMost(m, l, q.x)
    PROVE  Over(q, m)
<1> DEFINE p == q.y
           h == HeightAt(l, q.x)
           r == HeightAt(m, q.x)
           u == Across(l)
           v == Across(m)
           one == 1
<1>1. p \in Int /\ h \in Int /\ r \in Int /\ u \in Nat \ {0} /\ v \in Nat \ {0} /\ one \in Nat \ {0}
  <2>1. q.x \in Int /\ q.y \in Int
    BY DEF Points
  <2> QED
    BY <2>1, LineIs
<1>2. h <= p * u /\ r * u <= h * v
  BY DEF Over, AtMost
<1>3. SUFFICES r <= p * v
  BY DEF Over
<1>4. h * one = h /\ r * one = r
  BY <1>1
<1> HIDE DEF p, h, r, u, v, one
<1>5. r * u <= h * v /\ h * one <= p * u
  BY <1>2, <1>4
<1>6. r * one <= p * v
  BY <1>1, <1>5, FractionsOrdered
<1> QED
  BY <1>4, <1>6

\* A line is under those its point is under, where the point is, and over those
\* the point is over.
LEMMA ThroughPoint ==
    ASSUME NEW l \in AnyLine, NEW m \in AnyLine, NEW q \in Points, q = l.left \/ q = l.right
    PROVE  /\ Under(q, m) <=> AtMost(l, m, q.x)
           /\ Over(q, m) <=> AtMost(m, l, q.x)
<1> DEFINE p == q.y
           r == HeightAt(m, q.x)
           u == Across(l)
           v == Across(m)
<1>1. p \in Int /\ r \in Int /\ u \in Nat \ {0} /\ v \in Nat \ {0}
  <2>1. q.x \in Int /\ q.y \in Int
    BY DEF Points
  <2> QED
    BY <2>1, LineIs
<1>2. HeightAt(l, q.x) = p * u
  BY LineIs
<1>3. (p * u) * v = (p * v) * u /\ p * v \in Int
  BY <1>1
<1>4. /\ AtMost(l, m, q.x) <=> (p * v) * u <= r * u
      /\ AtMost(m, l, q.x) <=> r * u <= (p * v) * u
  BY <1>2, <1>3 DEF AtMost
<1>5. /\ Under(q, m) <=> p * v <= r
      /\ Over(q, m) <=> r <= p * v
  BY DEF Under, Over
<1> HIDE DEF p, r, u, v
<1> DEFINE w == p * v
<1>6. w \in Int /\ (w <= r <=> w * u <= r * u) /\ (r <= w <=> r * u <= w * u)
  <2>1. w \in Int
    BY <1>3
  <2> HIDE DEF w
  <2> QED
    BY <1>1, <2>1
<1> QED
  BY <1>4, <1>5, <1>6

-----------------------------------------------------------------------------
(* The picture upside down.                                                *)

Mirror(q)     == [x |-> q.x, y |-> -q.y]
MirrorLine(l) == Through(Mirror(l.left), Mirror(l.right))
Mirrored(g)   == [k \in 1..Len(g) |-> Mirror(g[k])]

\* A point upside down.
LEMMA MirrorPoint ==
    ASSUME NEW q \in Points
    PROVE  /\ Mirror(q) \in Points /\ Mirror(q).x = q.x /\ Mirror(q).y = -q.y
           /\ Mirror(Mirror(q)) = q
<1>1. q.x \in Int /\ q.y \in Int /\ q = [x |-> q.x, y |-> q.y] /\ -(-q.y) = q.y
  BY DEF Points
<1> QED
  BY <1>1 DEF Mirror, Points

\* A line upside down.
LEMMA MirrorIs ==
    ASSUME NEW l \in AnyLine
    PROVE  /\ MirrorLine(l) \in AnyLine /\ MirrorLine(MirrorLine(l)) = l
           /\ MirrorLine(l).left = Mirror(l.left) /\ MirrorLine(l).right = Mirror(l.right)
           /\ Across(MirrorLine(l)) = Across(l)
           /\ \A x \in Int : HeightAt(MirrorLine(l), x) = -HeightAt(l, x)
<1>1. l.left \in Points /\ l.right \in Points /\ l.left.x < l.right.x
  BY LineIs
<1>2. /\ Mirror(l.left) \in Points /\ Mirror(l.right) \in Points
      /\ Mirror(l.left).x = l.left.x /\ Mirror(l.right).x = l.right.x
      /\ Mirror(l.left).y = -l.left.y /\ Mirror(l.right).y = -l.right.y
      /\ Mirror(Mirror(l.left)) = l.left /\ Mirror(Mirror(l.right)) = l.right
  BY <1>1, MirrorPoint
<1>3. /\ MirrorLine(l) \in AnyLine
      /\ MirrorLine(l).left = Mirror(l.left) /\ MirrorLine(l).right = Mirror(l.right)
  BY <1>1, <1>2, ThroughIs DEF MirrorLine
<1>4. MirrorLine(MirrorLine(l)) = l
  <2>1. MirrorLine(MirrorLine(l)) = [left |-> l.left, right |-> l.right]
    BY <1>2, <1>3 DEF MirrorLine, Through
  <2>2. l = [left |-> l.left, right |-> l.right]
    BY DEF AnyLine
  <2> QED
    BY <2>1, <2>2
<1>5. Across(MirrorLine(l)) = Across(l)
  BY <1>2, <1>3 DEF Across
<1>6. ASSUME NEW x \in Int
      PROVE  HeightAt(MirrorLine(l), x) = -HeightAt(l, x)
  <2> DEFINE a == l.left.x
             b == l.left.y
             c == l.right.x
             d == l.right.y
  <2>1. a \in Int /\ b \in Int /\ c \in Int /\ d \in Int
    BY LineIs
  <2>2. /\ HeightAt(l, x) = b * (c - a) + (d - b) * (x - a)
        /\ HeightAt(MirrorLine(l), x) = (-b) * (c - a) + ((-d) - (-b)) * (x - a)
    BY <1>2, <1>3 DEF HeightAt
  <2> HIDE DEF a, b, c, d
  <2> DEFINE u == c - a
             v == d - b
             w == x - a
  <2>3. u \in Int /\ v \in Int /\ w \in Int /\ (-d) - (-b) = -v
    BY <2>1
  <2>4. \A r, z \in Int : (-r) * z = -(r * z) /\ r * z \in Int
    OBVIOUS
  <2>5. (-b) * u = -(b * u) /\ (-v) * w = -(v * w) /\ b * u \in Int /\ v * w \in Int
    BY <2>1, <2>3, <2>4
  <2> QED
    BY <2>2, <2>3, <2>5
<1> QED
  BY <1>3, <1>4, <1>5, <1>6

\* Over becomes under.
LEMMA MirrorUnder ==
    ASSUME NEW l \in AnyLine, NEW q \in Points
    PROVE  /\ Under(Mirror(q), MirrorLine(l)) <=> Over(q, l)
           /\ Over(Mirror(q), MirrorLine(l)) <=> Under(q, l)
<1> DEFINE h == HeightAt(l, q.x)
           u == Across(l)
           y == q.y
<1>1. q.x \in Int /\ y \in Int /\ h \in Int /\ u \in Int
  <2>1. q.x \in Int /\ q.y \in Int
    BY DEF Points
  <2> QED
    BY <2>1, LineIs
<1>2. /\ Mirror(q).x = q.x /\ Mirror(q).y = -y
      /\ Across(MirrorLine(l)) = u /\ HeightAt(MirrorLine(l), q.x) = -h
  BY <1>1, MirrorPoint, MirrorIs
<1>3. /\ Under(Mirror(q), MirrorLine(l)) <=> (-y) * u <= -h
      /\ Over(Mirror(q), MirrorLine(l)) <=> -h <= (-y) * u
      /\ Over(q, l) <=> h <= y * u
      /\ Under(q, l) <=> y * u <= h
  BY <1>2 DEF Under, Over
<1> HIDE DEF h, u, y
<1>4. (-y) * u = -(y * u) /\ y * u \in Int
  BY <1>1
<1> QED
  BY <1>1, <1>3, <1>4

-----------------------------------------------------------------------------
(* A hull.                                                                 *)

\* The hull g lies over the points of A from where line t begins to where line s
\* ends, bends down only, and both lines lie over all of A.
Side(g, A, t, s) ==
    /\ A \subseteq Points /\ t \in AnyLine /\ s \in AnyLine
    /\ g \in Seq(A) /\ g # <<>> /\ g[1] = t.left /\ g[Len(g)] = s.right
    /\ \A k, m \in 1..Len(g) : k < m => g[k].x < g[m].x
    /\ \A k \in 1..(Len(g) - 2) : ~ slope_less(g[k], g[k + 1], g[k + 1], g[k + 2])
    /\ \A k \in 1..(Len(g) - 1), q \in A :
          g[k].x <= q.x /\ q.x <= g[k + 1].x => Under(q, Through(g[k], g[k + 1]))
    /\ \A q \in A : Under(q, t) /\ Under(q, s)

\* What the points of a hull are.
LEMMA HullIs ==
    ASSUME NEW g, NEW A, NEW t, NEW s, Side(g, A, t, s)
    PROVE  /\ Len(g) \in Nat \ {0} /\ DOMAIN g = 1..Len(g) /\ g \in Seq(Points) /\ g # <<>>
           /\ t \in AnyLine /\ s \in AnyLine
           /\ \A q \in A : q \in Points /\ q.x \in Int /\ q.y \in Int
           /\ \A k \in 1..Len(g) : g[k] \in A /\ g[k] \in Points /\ g[k].x \in Int /\ g[k].y \in Int
<1>1. g \in Seq(A) /\ g # <<>> /\ A \subseteq Points
  BY DEF Side
<1>2. Len(g) \in Nat \ {0} /\ DOMAIN g = 1..Len(g)
  BY <1>1, EmptySeq, LenProperties
<1>3. \A k \in 1..Len(g) : g[k] \in A
  BY <1>1, ElementOfSeq
<1>4. \A q \in A : q \in Points /\ q.x \in Int /\ q.y \in Int
  BY <1>1 DEF Points
<1>5. g \in Seq(Points)
  BY <1>1
<1> QED
  BY <1>1, <1>2, <1>3, <1>4, <1>5 DEF Side

\* A line over the end of the hull from some point on, and over line s at z, is over
\* all points from there to z.
LEMMA Covered ==
    ASSUME NEW g, NEW A, NEW t, NEW s, Side(g, A, t, s),
           NEW l \in AnyLine, NEW z \in Int, NEW e \in 1..Len(g),
           \A k \in e..Len(g) : Under(g[k], l),
           g[Len(g)].x <= z, AtMost(s, l, z),
           NEW q \in A, g[e].x <= q.x, q.x <= z
    PROVE  Under(q, l)
<1> DEFINE size == Len(g)
<1>1. /\ size \in Nat \ {0} /\ s \in AnyLine /\ q \in Points /\ q.x \in Int
      /\ \A k \in 1..size : g[k] \in Points /\ g[k].x \in Int
      /\ e \in 1..size /\ \A k \in e..size : Under(g[k], l)
  BY HullIs
<1>2. /\ g[size] = s.right /\ Under(q, s)
      /\ \A k, m \in 1..size : k < m => g[k].x < g[m].x
  BY DEF Side
<1>3. CASE g[size].x <= q.x
  <2>1. Under(g[size], l) /\ g[size] \in Points /\ g[size].x \in Int
    BY <1>1
  <2>2. AtMost(s, l, g[size].x)
    BY <1>1, <1>2, <2>1, ThroughPoint
  <2>3. AtMost(s, l, q.x)
    BY <1>1, <1>3, <2>1, <2>2, Between
  <2> QED
    BY <1>1, <1>2, <2>3, UnderTwo
<1>4. CASE q.x < g[size].x
  <2> DEFINE S == {k \in e..size : g[k].x <= q.x}
             k == Max(S)
  <2>1. S \in SUBSET Int /\ e \in S /\ size \in Int /\ \A m \in S : m <= size
    BY <1>1
  <2>2. k \in S /\ \A m \in S : m <= k
    <3> HIDE DEF S, size
    <3> QED
      BY <2>1, MaxOf
  <2>3. k \in e..size /\ g[k].x <= q.x
    BY <2>2
  <2>4. k < size
    BY <1>1, <1>4, <2>3
  <2>5. k + 1 \in e..size /\ k \in 1..size /\ k + 1 \in 1..size /\ k \in 1..(size - 1)
    BY <1>1, <2>3, <2>4
  <2>6. q.x < g[k + 1].x
    <3>1. k + 1 \notin S
      BY <2>2, <2>3
    <3> QED
      BY <1>1, <2>5, <3>1
  <2> HIDE DEF k
  <2> DEFINE a == g[k]
             b == g[k + 1]
             edge == Through(a, b)
  <2>7. /\ a \in Points /\ b \in Points /\ a.x \in Int /\ b.x \in Int /\ a.x < b.x
        /\ Under(a, l) /\ Under(b, l) /\ a.x <= q.x /\ q.x <= b.x
    <3>1. k < k + 1
      BY <2>5
    <3> QED
      BY <1>1, <1>2, <2>3, <2>5, <2>6, <3>1
  <2>8. Under(q, edge)
    <3>1. \A m \in 1..(Len(g) - 1), r \in A :
            g[m].x <= r.x /\ r.x <= g[m + 1].x => Under(r, Through(g[m], g[m + 1]))
      BY DEF Side
    <3> QED
      BY <2>5, <2>7, <3>1
  <2> HIDE DEF a, b
  <2>9. edge \in AnyLine /\ edge.left = a /\ edge.right = b
    BY <2>7, ThroughIs
  <2> HIDE DEF edge
  <2>10. AtMost(edge, l, a.x) /\ AtMost(edge, l, b.x)
    BY <2>7, <2>9, ThroughPoint
  <2>11. AtMost(edge, l, q.x)
    BY <1>1, <2>7, <2>9, <2>10, Between
  <2> QED
    BY <1>1, <2>8, <2>9, <2>11, UnderTwo
<1>5. g[size].x \in Int
  BY <1>1
<1> QED
  BY <1>1, <1>3, <1>4, <1>5

\* A point to the right of the others, under both lines, leaves the hull as it is.
LEMMA PointAdds ==
    ASSUME NEW g, NEW A, NEW t, NEW s, Side(g, A, t, s),
           NEW r \in Points, \A q \in A : q.x < r.x, Under(r, t), Under(r, s)
    PROVE  Side(g, A \cup {r}, t, s)
<1> DEFINE B == A \cup {r}
<1>1. B \subseteq Points /\ g \in Seq(B) /\ \A q \in B : Under(q, t) /\ Under(q, s)
  BY DEF Side
<1>2. ASSUME NEW k \in 1..(Len(g) - 1), NEW q \in B, g[k].x <= q.x, q.x <= g[k + 1].x
      PROVE  Under(q, Through(g[k], g[k + 1]))
  <2>1. k + 1 \in 1..Len(g)
    BY HullIs
  <2>2. g[k + 1] \in A /\ g[k + 1].x \in Int /\ r.x \in Int
    BY <2>1, HullIs DEF Points
  <2>3. q # r
    BY <1>2, <2>2
  <2> QED
    BY <1>2, <2>3 DEF Side
<1> HIDE DEF B
<1>3. Side(g, B, t, s)
  BY <1>1, <1>2 DEF Side
<1> QED
  BY <1>3 DEF B

-----------------------------------------------------------------------------
(* Slopes.                                                                 *)

\* No point that makes no corner is over the line from the one before.
LEMMA FlatUnder ==
    ASSUME NEW o \in Points, NEW a \in Points, NEW r \in Points, o.x < r.x, cross(o, a, r) >= 0
    PROVE  Under(a, Through(o, r))
<1> DEFINE u == a.x - o.x
           v == a.y - o.y
           U == r.x - o.x
           V == r.y - o.y
           y == o.y
<1>1. u \in Int /\ v \in Int /\ U \in Int /\ V \in Int /\ y \in Int /\ a.y = y + v
  BY DEF Points
<1>2. cross(o, a, r) = u * V - v * U
  BY DEF cross
<1>3. Under(a, Through(o, r)) <=> a.y * U <= y * U + V * u
  BY DEF Under, HeightAt, Across, Through
<1> HIDE DEF u, v, U, V, y
<1>4. (y + v) * U = y * U + v * U /\ V * u = u * V
  BY <1>1
<1>5. y * U \in Int /\ v * U \in Int /\ u * V \in Int
  BY <1>1
<1> QED
  BY <1>1, <1>2, <1>3, <1>4, <1>5

\* A hull bends down at a corner.
LEMMA CornerBends ==
    ASSUME NEW o \in Points, NEW a \in Points, NEW r \in Points, cross(o, a, r) < 0
    PROVE  ~ slope_less(o, a, a, r)
<1> DEFINE u == a.x - o.x
           v == a.y - o.y
           U == r.x - a.x
           V == r.y - a.y
<1>1. u \in Int /\ v \in Int /\ U \in Int /\ V \in Int /\ r.x - o.x = U + u /\ r.y - o.y = V + v
  BY DEF Points
<1>2. cross(o, a, r) = u * (V + v) - v * (U + u)
  BY <1>1 DEF cross
<1>3. slope_less(o, a, a, r) <=> v * U < V * u
  BY DEF slope_less
<1> HIDE DEF u, v, U, V
<1>4. u * (V + v) = u * V + u * v /\ v * (U + u) = v * U + v * u /\ u * v = v * u /\ u * V = V * u
  BY <1>1
<1>5. u * V \in Int /\ u * v \in Int /\ v * U \in Int
  BY <1>1
<1> QED
  BY <1>2, <1>3, <1>4, <1>5

\* Where the way to p gets steeper, the hull falls behind the line to p.
LEMMA TurnFalls ==
    ASSUME NEW a \in Points, NEW b \in Points, NEW p \in Points, slope_less(a, p, b, p)
    PROVE  ~ slope_less(a, p, a, b)
<1> DEFINE u == b.x - a.x
           v == b.y - a.y
           U == p.x - a.x
           V == p.y - a.y
<1>1. u \in Int /\ v \in Int /\ U \in Int /\ V \in Int /\ p.x - b.x = U - u /\ p.y - b.y = V - v
  BY DEF Points
<1>2. V * (U - u) < (V - v) * U
  BY <1>1 DEF slope_less
<1>3. slope_less(a, p, a, b) <=> V * u < v * U
  BY DEF slope_less
<1> HIDE DEF u, v, U, V
<1>4. V * (U - u) = V * U - V * u /\ (V - v) * U = V * U - v * U
  BY <1>1
<1>5. V * U \in Int /\ V * u \in Int /\ v * U \in Int
  BY <1>1
<1> QED
  BY <1>2, <1>3, <1>4, <1>5

\* From a point under a line, a way that is no steeper stays under it.
LEMMA FallsUnder ==
    ASSUME NEW l \in AnyLine, NEW a \in Points, NEW b \in Points,
           Under(a, l), ~ slope_less(l.left, l.right, a, b)
    PROVE  Under(b, l)
<1> DEFINE u == b.x - a.x
           v == b.y - a.y
           U == Across(l)
           V == l.right.y - l.left.y
           c == l.left.y * U
           w == a.x - l.left.x
           y == a.y
<1>1. /\ l.left.x \in Int /\ l.left.y \in Int /\ l.right.y \in Int /\ U \in Int
      /\ a.x \in Int /\ a.y \in Int /\ b.x \in Int /\ b.y \in Int
  BY LineIs DEF Points
<1>2. u \in Int /\ v \in Int /\ V \in Int /\ c \in Int /\ w \in Int /\ y \in Int
  <2> HIDE DEF U
  <2> QED
    BY <1>1
<1>3. b.y = y + v /\ b.x - l.left.x = w + u
  BY <1>1
<1>4. /\ Under(a, l) <=> y * U <= c + V * w
      /\ Under(b, l) <=> (y + v) * U <= c + V * (w + u)
  BY <1>3 DEF Under, HeightAt, Across
<1>5. ~ (V * u < v * U)
  BY DEF slope_less, Across
<1> HIDE DEF u, v, U, V, c, w, y
<1>6. (y + v) * U = y * U + v * U /\ V * (w + u) = V * w + V * u
  BY <1>1, <1>2
<1>7. y * U \in Int /\ v * U \in Int /\ V * w \in Int /\ V * u \in Int
  BY <1>1, <1>2
<1> QED
  BY <1>2, <1>4, <1>5, <1>6, <1>7

\* The point with the steeper way to p is under the other's line to p.
LEMMA SteeperUnder ==
    ASSUME NEW a \in Points, NEW b \in Points, NEW p \in Points, ~ slope_less(a, p, b, p)
    PROVE  Under(a, Through(b, p))
<1> DEFINE U == p.x - b.x
           V == p.y - b.y
           W == p.x - a.x
           Z == p.y - a.y
           y == b.y
<1>1. /\ U \in Int /\ V \in Int /\ W \in Int /\ Z \in Int /\ y \in Int
      /\ a.x - b.x = U - W /\ a.y = y + (V - Z)
  BY DEF Points
<1>2. ~ (Z * U < V * W)
  BY DEF slope_less
<1>3. Under(a, Through(b, p)) <=> (y + (V - Z)) * U <= y * U + V * (U - W)
  BY <1>1 DEF Under, HeightAt, Across, Through
<1> HIDE DEF U, V, W, Z, y
<1>4. (y + (V - Z)) * U = y * U + V * U - Z * U /\ V * (U - W) = V * U - V * W
  BY <1>1
<1>5. y * U \in Int /\ V * U \in Int /\ Z * U \in Int /\ V * W \in Int
  BY <1>1
<1> QED
  BY <1>2, <1>3, <1>4, <1>5

\* Of three ways, each no steeper than the one before, the last is no steeper than
\* the first.
LEMMA SlopesOrdered ==
    ASSUME NEW a \in Points, NEW b \in Points, NEW c \in Points,
           NEW d \in Points, NEW e \in Points, NEW f \in Points,
           a.x < b.x, c.x < d.x, e.x < f.x,
           ~ slope_less(a, b, c, d), ~ slope_less(c, d, e, f)
    PROVE  ~ slope_less(a, b, e, f)
<1> DEFINE p == f.y - e.y
           x == f.x - e.x
           q == d.y - c.y
           y == d.x - c.x
           r == b.y - a.y
           z == b.x - a.x
<1>1. /\ p \in Int /\ q \in Int /\ r \in Int
      /\ x \in Nat \ {0} /\ y \in Nat \ {0} /\ z \in Nat \ {0}
  BY DEF Points
<1>2. /\ slope_less(a, b, c, d) <=> r * y < q * z
      /\ slope_less(c, d, e, f) <=> q * x < p * y
      /\ slope_less(a, b, e, f) <=> r * x < p * z
  BY DEF slope_less
<1> HIDE DEF p, q, r, x, y, z
<1>3. r * y \in Int /\ q * z \in Int /\ q * x \in Int /\ p * y \in Int /\ r * x \in Int /\ p * z \in Int
  BY <1>1
<1>4. p * y <= q * x /\ q * z <= r * y
  BY <1>2, <1>3
<1>5. p * z <= r * x
  BY <1>1, <1>4, FractionsOrdered
<1> QED
  BY <1>2, <1>3, <1>5

-----------------------------------------------------------------------------
(* A hull with another point.                                              *)

\* The points of a hull that stay corners when r is put at its end.
Corners(g, r) == {e \in 2..Len(g) : cross(g[e - 1], g[e], r) < 0}

\* The last of them, and those after it that do not stay.
LEMMA CornerIs ==
    ASSUME NEW g \in Seq(Points), g # <<>>, NEW r \in Points
    PROVE  LET e == Max({1} \cup Corners(g, r))
           IN  /\ e \in 1..Len(g)
               /\ e >= 2 => cross(g[e - 1], g[e], r) < 0
               /\ \A k \in (e + 1)..Len(g) : cross(g[k - 1], g[k], r) >= 0
<1> DEFINE S    == {1} \cup Corners(g, r)
           e    == Max(S)
           size == Len(g)
<1>1. size \in Nat \ {0} /\ \A k \in 1..size : g[k] \in Points
  BY EmptySeq, LenProperties, ElementOfSeq
<1>2. S \in SUBSET Int /\ S # {} /\ \A k \in S : k <= size /\ k \in 1..size
  BY <1>1 DEF Corners
<1>3. e \in S /\ \A k \in S : k <= e
  <2> HIDE DEF S, size
  <2>1. size \in Int
    BY <1>1
  <2> QED
    BY <1>2, <2>1, MaxOf
<1>4. e \in 1..size
  BY <1>2, <1>3
<1>5. e >= 2 => cross(g[e - 1], g[e], r) < 0
  BY <1>3 DEF Corners
<1>6. ASSUME NEW k \in (e + 1)..size
      PROVE  cross(g[k - 1], g[k], r) >= 0
  <2>1. k \in 2..size /\ k \notin S
    <3> HIDE DEF e, S
    <3>1. e \in Int /\ \A m \in S : m <= e
      BY <1>3, <1>4
    <3>2. k \in 2..size /\ ~ (k <= e)
      BY <1>1, <1>4
    <3> QED
      BY <3>1, <3>2
  <2>2. ~ (cross(g[k - 1], g[k], r) < 0)
    BY <2>1 DEF Corners
  <2>3. g[k - 1] \in Points /\ g[k] \in Points
    BY <1>1, <2>1
  <2>4. cross(g[k - 1], g[k], r) \in Int
    <3>1. \A a, b \in Points : cross(a, b, r) \in Int
      <4>1. \A a \in Points : a.x \in Int /\ a.y \in Int
        BY DEF Points
      <4> QED
        BY <4>1 DEF cross
    <3> QED
      BY <2>3, <3>1
  <2> QED
    BY <2>2, <2>4
<1> HIDE DEF e
<1>7. /\ e \in 1..Len(g)
      /\ e >= 2 => cross(g[e - 1], g[e], r) < 0
      /\ \A k \in (e + 1)..Len(g) : cross(g[k - 1], g[k], r) >= 0
  BY <1>4, <1>5, <1>6
<1> QED
  BY <1>7 DEF e

\* Those are under the line from the last corner to r.
LEMMA PoppedUnder ==
    ASSUME NEW g, NEW A, NEW t, NEW s, Side(g, A, t, s),
           NEW r \in Points, \A q \in A : q.x < r.x,
           NEW e \in 1..Len(g), \A k \in (e + 1)..Len(g) : cross(g[k - 1], g[k], r) >= 0
    PROVE  \A k \in e..Len(g) : Under(g[k], Through(g[e], r))
<1> DEFINE size == Len(g)
           l    == Through(g[e], r)
           T    == {k \in e..size : ~ Under(g[k], l)}
<1>1. /\ size \in Nat \ {0} /\ e \in 1..size /\ r.x \in Int
      /\ \A k \in 1..size : g[k] \in Points /\ g[k].x \in Int /\ g[k].x < r.x
  BY HullIs DEF Points
<1>2. l \in AnyLine /\ l.left = g[e] /\ l.right = r
  BY <1>1, ThroughIs
<1>3. \A k, m \in 1..size : k < m => g[k].x < g[m].x
  BY DEF Side
<1>4. SUFFICES ASSUME T # {}
               PROVE  FALSE
  OBVIOUS
<1>5. T \in SUBSET Nat
  BY <1>1
<1>6. PICK k \in T : \A m \in T : k <= m
  <2> HIDE DEF T
  <2> QED
    BY <1>4, <1>5, LeastNumber
<1>7. k \in e..size /\ ~ Under(g[k], l) /\ k \in 1..size
  BY <1>1, <1>6
<1>8. k # e
  <2>1. Under(g[e], l)
    <3>1. g[e].y \in Int /\ g[e] \in Points
      BY <1>1 DEF Points
    <3>2. HeightAt(l, g[e].x) = g[e].y * Across(l) /\ HeightAt(l, g[e].x) \in Int
      BY <1>1, <1>2, LineIs
    <3> QED
      BY <3>2 DEF Under
  <2> QED
    BY <1>7, <2>1
<1> DEFINE j    == k - 1
           edge == Through(g[j], r)
<1>9. j \in e..size /\ j \in 1..size /\ j < k /\ j \notin T /\ k \in (e + 1)..size
  <2>1. j \in e..size /\ j \in 1..size /\ j < k /\ k \in (e + 1)..size
    BY <1>1, <1>7, <1>8
  <2>2. j \notin T
    <3>1. \A m \in T : k <= m /\ m \in Int
      BY <1>6, <1>5
    <3> HIDE DEF T
    <3> QED
      BY <2>1, <1>7, <3>1
  <2> QED
    BY <2>1, <2>2
<1>10. /\ Under(g[j], l) /\ g[j].x < g[k].x /\ g[j].x < r.x /\ g[k].x < r.x
       /\ g[j] \in Points /\ g[k] \in Points /\ g[j].x \in Int /\ g[k].x \in Int
  BY <1>1, <1>3, <1>7, <1>9
<1>11. Under(g[k], edge)
  <2>1. cross(g[j], g[k], r) >= 0
    BY <1>9
  <2> QED
    BY <1>10, <2>1, FlatUnder
<1> HIDE DEF T, l, j
<1>12. edge \in AnyLine /\ edge.left = g[j] /\ edge.right = r
  BY <1>10, ThroughIs
<1> HIDE DEF edge
<1>13. AtMost(edge, l, g[j].x) /\ AtMost(edge, l, r.x)
  <2>1. Under(r, l)
    <3>1. HeightAt(l, r.x) = r.y * Across(l) /\ HeightAt(l, r.x) \in Int
      BY <1>1, <1>2, LineIs
    <3> QED
      BY <3>1 DEF Under
  <2> QED
    BY <1>2, <1>10, <1>12, <2>1, ThroughPoint
<1>14. AtMost(edge, l, g[k].x)
  <2>1. g[j].x <= g[k].x /\ g[k].x <= r.x
    BY <1>1, <1>10
  <2> QED
    BY <1>1, <1>2, <1>10, <1>12, <1>13, <2>1, Between
<1>15. Under(g[k], l)
  BY <1>2, <1>10, <1>11, <1>12, <1>14, UnderTwo
<1> QED
  BY <1>7, <1>15

\* A hull with the point r at its end is a hull of the points with r, if r is over
\* the line it ended at, up to any line that ends at r and is over them all.
LEMMA HullExtends ==
    ASSUME NEW g, NEW A, NEW t, NEW s, Side(g, A, t, s),
           NEW r \in Points, \A q \in A : q.x < r.x, Over(r, s), Under(r, t),
           NEW new \in AnyLine, new.right = r, \A q \in A : Under(q, new)
    PROVE  Side(Extended(g, r, Corners(g, r)), A \cup {r}, t, new)
<1> DEFINE e == Max({1} \cup Corners(g, r))
           B == A \cup {r}
           f == SubSeq(g, 1, e)
           h == Append(f, r)
           size == Len(g)
<1>1. /\ size \in Nat \ {0} /\ g \in Seq(Points) /\ g # <<>> /\ t \in AnyLine /\ s \in AnyLine
      /\ r.x \in Int /\ r \in Points
      /\ \A k \in 1..size : g[k] \in A /\ g[k] \in Points /\ g[k].x \in Int /\ g[k].x < r.x
      /\ \A q \in A : q \in Points /\ q.x \in Int
  BY HullIs DEF Points
<1>2. /\ e \in 1..size
      /\ e >= 2 => cross(g[e - 1], g[e], r) < 0
      /\ \A k \in (e + 1)..size : cross(g[k - 1], g[k], r) >= 0
  BY <1>1, CornerIs
<1>3. Extended(g, r, Corners(g, r)) = h
  BY DEF Extended
<1> HIDE DEF e
<1>4. \A k \in e..size : Under(g[k], Through(g[e], r))
  BY <1>2, PoppedUnder
<1>5. /\ f \in Seq(B) /\ Len(f) = e /\ \A k \in 1..e : f[k] = g[k]
  <2>1. \A k \in 1..e : g[k] \in B
    BY <1>1, <1>2
  <2>2. e \in Int /\ 1 <= e /\ e - 1 + 1 = e
    BY <1>1, <1>2
  <2> HIDE DEF B
  <2> DEFINE first == 1
  <2>3. first \in Int /\ e \in Int /\ \A k \in first..e : g[k] \in B
    BY <2>1, <2>2
  <2> HIDE DEF first
  <2>4. /\ SubSeq(g, first, e) \in Seq(B)
        /\ Len(SubSeq(g, first, e)) = IF first <= e THEN e - first + 1 ELSE 0
        /\ \A k \in 1..(e - first + 1) : SubSeq(g, first, e)[k] = g[first + k - 1]
    BY <2>3, SubSeqProperties
  <2>5. \A k \in 1..e : first + k - 1 = k
    BY <2>2 DEF first
  <2> QED
    BY <2>2, <2>4, <2>5 DEF first
<1>6. /\ h \in Seq(B) /\ h # <<>> /\ Len(h) = e + 1 /\ h[e + 1] = r
      /\ \A k \in 1..e : h[k] = g[k]
  <2> HIDE DEF B, f
  <2>1. r \in B
    BY DEF B
  <2>2. /\ h \in Seq(B) /\ h # <<>> /\ Len(h) = Len(f) + 1 /\ h[Len(f) + 1] = r
        /\ \A k \in 1..Len(f) : h[k] = f[k]
    BY <1>5, <2>1, AppendProperties
  <2> QED
    BY <1>5, <2>2
<1> HIDE DEF h
<1>7. /\ B \subseteq Points /\ t \in AnyLine /\ new \in AnyLine
      /\ h[1] = t.left /\ h[Len(h)] = new.right
  <2>1. h[1] = g[1]
    BY <1>1, <1>2, <1>6
  <2> QED
    BY <1>1, <1>6, <2>1 DEF Side
<1>8. ASSUME NEW k \in 1..Len(h), NEW m \in 1..Len(h), k < m
      PROVE  h[k].x < h[m].x
  <2>1. k \in 1..e /\ k \in 1..size /\ ((m \in 1..e /\ m \in 1..size) \/ m = e + 1)
    BY <1>1, <1>2, <1>6, <1>8
  <2>2. \A c, d \in 1..size : c < d => g[c].x < g[d].x
    BY DEF Side
  <2>3. h[k] = g[k] /\ ((h[m] = g[m] /\ m \in 1..size) \/ h[m] = r)
    BY <1>6, <2>1
  <2> QED
    BY <1>1, <1>8, <2>1, <2>2, <2>3
<1>9. ASSUME NEW k \in 1..(Len(h) - 2)
      PROVE  ~ slope_less(h[k], h[k + 1], h[k + 1], h[k + 2])
  <2>1. k \in 1..e /\ k + 1 \in 1..e /\ (k + 2 \in 1..e \/ k + 2 = e + 1)
    BY <1>1, <1>2, <1>6
  <2>2. CASE k + 2 \in 1..e
    <3>1. k \in 1..(size - 2)
      BY <1>1, <1>2, <2>2
    <3>2. ~ slope_less(g[k], g[k + 1], g[k + 1], g[k + 2])
      BY <3>1 DEF Side
    <3> QED
      BY <1>6, <2>1, <2>2, <3>2
  <2>3. CASE k + 2 = e + 1
    <3>1. k = e - 1 /\ k + 1 = e /\ e >= 2
      BY <1>1, <1>2, <2>1, <2>3
    <3>2. cross(g[k], g[k + 1], r) < 0
      BY <1>2, <3>1
    <3>3. g[k] \in Points /\ g[k + 1] \in Points
      BY <1>1, <1>2, <2>1
    <3>4. ~ slope_less(g[k], g[k + 1], g[k + 1], r)
      BY <1>1, <3>2, <3>3, CornerBends
    <3> QED
      BY <1>6, <2>1, <2>3, <3>4
  <2> QED
    BY <2>1, <2>2, <2>3
<1>10. ASSUME NEW k \in 1..(Len(h) - 1), NEW q \in B, h[k].x <= q.x, q.x <= h[k + 1].x
       PROVE  Under(q, Through(h[k], h[k + 1]))
  <2>1. k \in 1..e /\ k \in 1..size /\ h[k] = g[k] /\ (k + 1 \in 1..e \/ k = e)
    BY <1>1, <1>2, <1>6
  <2>2. CASE k + 1 \in 1..e
    <3>1. h[k + 1] = g[k + 1] /\ k + 1 \in 1..size /\ k \in 1..(size - 1)
      BY <1>1, <1>2, <1>6, <2>1, <2>2
    <3>2. q \in A
      <4>1. g[k + 1].x < r.x /\ g[k + 1].x \in Int
        BY <1>1, <3>1
      <4>2. q # r
        BY <1>1, <1>10, <3>1, <4>1
      <4> QED
        BY <4>2
    <3>3. Under(q, Through(g[k], g[k + 1]))
      BY <1>10, <2>1, <3>1, <3>2 DEF Side
    <3> QED
      BY <2>1, <3>1, <3>3
  <2>3. CASE k = e
    <3> DEFINE l == Through(g[e], r)
    <3>1. l \in AnyLine /\ l.right = r /\ l.left = g[e] /\ h[k + 1] = r /\ h[k] = g[e]
      BY <1>1, <1>2, <1>6, <2>1, <2>3, ThroughIs
    <3>2. CASE q = r
      <4>1. HeightAt(l, r.x) = r.y * Across(l) /\ HeightAt(l, r.x) \in Int
        BY <1>1, <3>1, LineIs
      <4>2. Under(r, l)
        BY <4>1 DEF Under
      <4> QED
        BY <3>1, <3>2, <4>2
    <3>3. CASE q \in A
      <4>1. \A c \in e..size : Under(g[c], l)
        BY <1>4
      <4> HIDE DEF l
      <4>2. AtMost(s, l, r.x)
        BY <1>1, <3>1, ThroughPoint
      <4>3. g[size].x <= r.x /\ g[e].x <= q.x /\ q.x <= r.x
        <5>1. size \in 1..size
          BY <1>1
        <5>2. g[size].x < r.x /\ g[size].x \in Int
          BY <1>1, <5>1
        <5>3. q.x < r.x /\ q.x \in Int
          BY <1>1, <3>3
        <5> QED
          BY <1>1, <1>10, <3>1, <5>2, <5>3
      <4>4. Under(q, l)
        BY <1>1, <1>2, <3>1, <3>3, <4>1, <4>2, <4>3, Covered
      <4> QED
        BY <3>1, <4>4 DEF l
    <3> QED
      BY <3>2, <3>3
  <2> QED
    BY <2>1, <2>2, <2>3
<1>11. \A q \in B : Under(q, t) /\ Under(q, new)
  <2>1. Under(r, new)
    <3>1. HeightAt(new, r.x) = r.y * Across(new) /\ HeightAt(new, r.x) \in Int
      BY <1>1, LineIs
    <3> QED
      BY <3>1 DEF Under
  <2> QED
    BY <2>1 DEF Side
<1> HIDE DEF B
<1>12. Side(h, B, t, new)
  BY <1>6, <1>7, <1>8, <1>9, <1>10, <1>11 DEF Side
<1> QED
  BY <1>3, <1>12 DEF B

-----------------------------------------------------------------------------
(* A steepest line that comes down.                                        *)

\* The points of a hull after which the way to p gets steeper.
Turns(g, p) == {k \in 1..(Len(g) - 1) : slope_less(g[k], p, g[k + 1], p)}

\* The point the line pivots on.
Pivot(g, p) == Min({Len(g)} \cup Turns(g, p))

\* It is the last point, or the first of those.
LEMMA PivotIs ==
    ASSUME NEW g \in Seq(Points), g # <<>>, NEW p \in Points
    PROVE  /\ Pivot(g, p) \in 1..Len(g)
           /\ Pivot(g, p) < Len(g) => slope_less(g[Pivot(g, p)], p, g[Pivot(g, p) + 1], p)
           /\ \A k \in 1..(Len(g) - 1) : k < Pivot(g, p) => ~ slope_less(g[k], p, g[k + 1], p)
<1> DEFINE size == Len(g)
           j    == Min({size} \cup Turns(g, p))
<1>1. size \in Nat \ {0}
  BY EmptySeq, LenProperties
<1>2. /\ {size} \cup Turns(g, p) \in SUBSET Int /\ \A k \in {size} \cup Turns(g, p) : 1 <= k /\ k <= size
  BY <1>1 DEF Turns
<1>3. j \in {size} \cup Turns(g, p) /\ \A k \in {size} \cup Turns(g, p) : j <= k
  <2> DEFINE T == {size} \cup Turns(g, p)
             first == 1
  <2>1. T \in SUBSET Int /\ T # {} /\ first \in Int /\ \A k \in T : first <= k
    BY <1>2
  <2> HIDE DEF T, first
  <2>2. Min(T) \in T /\ \A k \in T : Min(T) <= k
    BY <2>1, MinOf
  <2> QED
    BY <2>2 DEF T
<1>4. j \in 1..size
  BY <1>1, <1>2, <1>3
<1> HIDE DEF j
<1>5. j < size => slope_less(g[j], p, g[j + 1], p)
  BY <1>1, <1>3, <1>4 DEF Turns
<1>6. ASSUME NEW k \in 1..(size - 1), k < j
      PROVE  ~ slope_less(g[k], p, g[k + 1], p)
  <2>1. k \notin Turns(g, p)
    BY <1>1, <1>3, <1>4, <1>6
  <2> QED
    BY <2>1 DEF Turns
<1>7. Pivot(g, p) = j
  BY DEF Pivot, j
<1> QED
  BY <1>4, <1>5, <1>6, <1>7

\* A point p to come after the points of a hull, or right under its last.
After(g, p) ==
    \A k \in 1..Len(g) :
        g[k].x < p.x \/ (k = Len(g) /\ k >= 2 /\ g[k].x = p.x /\ g[k].y < p.y)

\* Through the point it pivots on the line to p lies over the whole hull.
LEMMA PivotTouches ==
    ASSUME NEW g, NEW A, NEW t, NEW s, Side(g, A, t, s), NEW p \in Points, After(g, p)
    PROVE  /\ g[Pivot(g, p)].x < p.x
           /\ \A k \in 1..Len(g) : Under(g[k], Through(g[Pivot(g, p)], p))
<1> DEFINE size == Len(g)
           j    == Pivot(g, p)
           l    == Through(g[j], p)
<1>1. /\ size \in Nat \ {0} /\ g \in Seq(Points) /\ g # <<>> /\ p.x \in Int /\ p.y \in Int
      /\ \A k \in 1..size : g[k] \in Points /\ g[k].x \in Int /\ g[k].y \in Int
  BY HullIs DEF Points
<1>2. /\ j \in 1..size
      /\ j < size => slope_less(g[j], p, g[j + 1], p)
      /\ \A k \in 1..(size - 1) : k < j => ~ slope_less(g[k], p, g[k + 1], p)
  BY <1>1, PivotIs
<1>3. /\ \A k, m \in 1..size : k < m => g[k].x < g[m].x
      /\ \A k \in 1..(size - 2) : ~ slope_less(g[k], g[k + 1], g[k + 1], g[k + 2])
  BY DEF Side
<1> HIDE DEF j
<1>4. g[j].x < p.x
  <2>1. SUFFICES ASSUME j = size, j >= 2, g[j].x = p.x, g[j].y < p.y
                 PROVE  FALSE
    BY <1>2 DEF After
  <2> DEFINE k == j - 1
  <2>2. k \in 1..(size - 1) /\ k \in 1..size /\ k < j /\ k + 1 = j
    BY <1>1, <1>2, <2>1
  <2>3. ~ slope_less(g[k], p, g[j], p) /\ g[k].x < g[j].x
    BY <1>2, <1>3, <2>2
  <2> DEFINE V == p.y - g[k].y
             w == p.y - g[j].y
             u == p.x - g[k].x
  <2>4. V \in Int /\ w \in Nat \ {0} /\ u \in Nat \ {0} /\ p.x - g[j].x = 0
    <3>1. /\ p.x \in Int /\ p.y \in Int
          /\ g[k].x \in Int /\ g[k].y \in Int /\ g[j].x \in Int /\ g[j].y \in Int
      BY <1>1, <1>2, <2>2
    <3>2. g[j].x = p.x /\ g[j].y < p.y /\ g[k].x < g[j].x
      BY <2>1, <2>3
    <3> HIDE DEF k
    <3> QED
      BY <3>1, <3>2
  <2>5. slope_less(g[k], p, g[j], p) <=> V * 0 < w * u
    <3>1. slope_less(g[k], p, g[j], p) <=> V * (p.x - g[j].x) < w * u
      BY DEF slope_less
    <3> HIDE DEF V, w, u
    <3> QED
      BY <2>4, <3>1
  <2> HIDE DEF V, w, u
  <2>6. V * 0 = 0 /\ 0 < w * u
    BY <2>4
  <2> QED
    BY <2>3, <2>5, <2>6
<1>5. l \in AnyLine /\ l.left = g[j] /\ l.right = p
  BY <1>1, <1>2, <1>4, ThroughIs
<1>6. ASSUME NEW k \in 1..j
      PROVE  Under(g[k], l)
  <2> DEFINE T == {d \in 0..(j - 1) : slope_less(g[j - d], p, g[j], p)}
  <2>1. T = {}
    <3>1. SUFFICES ASSUME T # {}
                   PROVE  FALSE
      OBVIOUS
    <3>2. T \in SUBSET Nat
      BY <1>1, <1>2
    <3>3. PICK d \in T : \A c \in T : d <= c
      <4> HIDE DEF T
      <4> QED
        BY <3>1, <3>2, LeastNumber
    <3>4. d \in 0..(j - 1) /\ slope_less(g[j - d], p, g[j], p)
      BY <3>3
    <3>5. CASE d = 0
      <4>1. j - d = j
        BY <1>1, <1>2, <3>5
      <4>2. g[j].x \in Int /\ g[j].y \in Int
        BY <1>1, <1>2
      <4> DEFINE r == (p.y - g[j].y) * (p.x - g[j].x)
      <4>3. r \in Int /\ r < r
        <5>1. slope_less(g[j], p, g[j], p)
          BY <3>4, <4>1
        <5>2. r < r
          BY <5>1 DEF slope_less
        <5>3. r \in Int
          BY <1>1, <4>2
        <5> QED
          BY <5>2, <5>3
      <4> HIDE DEF r
      <4> QED
        BY <4>3
    <3>6. CASE d # 0
      <4> DEFINE m == j - d
      <4>1. /\ m \in 1..(size - 1) /\ m \in 1..size /\ m < j /\ m + 1 \in 1..j /\ m + 1 \in 1..size
            /\ d - 1 \in 0..(j - 1) /\ j - (d - 1) = m + 1 /\ d - 1 < d
        BY <1>1, <1>2, <3>4, <3>6
      <4>2. ~ slope_less(g[m], p, g[m + 1], p)
        BY <1>2, <4>1
      <4>3. ~ slope_less(g[m + 1], p, g[j], p)
        <5>1. d - 1 \notin T
          <6>1. \A c \in T : d <= c /\ c \in Int
            BY <3>2, <3>3
          <6> HIDE DEF T
          <6> QED
            BY <3>4, <4>1, <6>1
        <5> QED
          BY <4>1, <5>1
      <4>4. /\ g[m] \in Points /\ g[m + 1] \in Points /\ g[j] \in Points
            /\ g[m].x < p.x /\ g[m + 1].x < p.x
        <5>1. m + 1 < j \/ m + 1 = j
          BY <1>2, <4>1
        <5>2. g[m].x < g[j].x /\ (g[m + 1].x < g[j].x \/ g[m + 1].x = g[j].x)
          BY <1>2, <1>3, <4>1, <5>1
        <5> QED
          BY <1>1, <1>2, <1>4, <4>1, <5>2
      <4> HIDE DEF m
      <4>5. ~ slope_less(g[m], p, g[j], p)
        BY <1>4, <4>2, <4>3, <4>4, SlopesOrdered
      <4> QED
        BY <3>4, <4>5 DEF m
    <3> QED
      BY <3>5, <3>6
  <2> DEFINE d == j - k
  <2>2. d \in 0..(j - 1) /\ j - d = k /\ d \notin T
    <3>1. d \in 0..(j - 1) /\ j - d = k
      BY <1>1, <1>2
    <3> HIDE DEF T
    <3> QED
      BY <2>1, <3>1
  <2>3. ~ slope_less(g[k], p, g[j], p)
    BY <2>2
  <2>4. g[k] \in Points /\ g[j] \in Points
    BY <1>1, <1>2
  <2> QED
    BY <2>3, <2>4, SteeperUnder
<1>7. ASSUME NEW k \in j..size
      PROVE  Under(g[k], l)
  <2> DEFINE Falls(m) == Under(g[m], l) /\ (m < size => ~ slope_less(l.left, l.right, g[m], g[m + 1]))
             T == {m \in j..size : ~ Falls(m)}
  <2>1. T = {}
    <3>1. SUFFICES ASSUME T # {}
                   PROVE  FALSE
      OBVIOUS
    <3>2. T \in SUBSET Nat
      BY <1>1, <1>2
    <3>3. PICK m \in T : \A c \in T : m <= c
      <4> HIDE DEF T
      <4> QED
        BY <3>1, <3>2, LeastNumber
    <3>4. m \in j..size /\ m \in 1..size /\ ~ Falls(m)
      BY <1>1, <1>2, <3>3
    <3>5. CASE m = j
      <4>1. Under(g[j], l)
        <5>1. HeightAt(l, g[j].x) = g[j].y * Across(l) /\ HeightAt(l, g[j].x) \in Int
          BY <1>1, <1>2, <1>5, LineIs
        <5> QED
          BY <5>1 DEF Under
      <4>2. j < size => ~ slope_less(g[j], p, g[j], g[j + 1])
        <5>1. SUFFICES ASSUME j < size
                       PROVE  ~ slope_less(g[j], p, g[j], g[j + 1])
          OBVIOUS
        <5>2. j + 1 \in 1..size
          BY <1>1, <1>2, <5>1
        <5>3. g[j] \in Points /\ g[j + 1] \in Points /\ slope_less(g[j], p, g[j + 1], p)
          BY <1>1, <1>2, <5>1, <5>2
        <5> QED
          BY <5>3, TurnFalls
      <4> QED
        BY <1>5, <3>4, <3>5, <4>1, <4>2
    <3>6. CASE m # j
      <4> DEFINE c == m - 1
      <4>1. c \in j..size /\ c \in 1..size /\ c < size /\ c < m /\ c + 1 = m
        BY <1>1, <1>2, <3>4, <3>6
      <4>2. Falls(c)
        <5>1. c \notin T
          <6>1. \A b \in T : m <= b /\ b \in Int
            BY <3>2, <3>3
          <6> HIDE DEF T
          <6> QED
            BY <3>4, <4>1, <6>1
        <5> QED
          BY <4>1, <5>1
      <4>3. Under(g[c], l) /\ ~ slope_less(l.left, l.right, g[c], g[m])
        BY <4>1, <4>2
      <4>4. g[c] \in Points /\ g[m] \in Points /\ g[c].x < g[m].x
        BY <1>1, <1>3, <3>4, <4>1
      <4> HIDE DEF l, c
      <4>5. Under(g[m], l)
        BY <1>5, <4>3, <4>4, FallsUnder
      <4>6. ASSUME m < size
            PROVE  ~ slope_less(l.left, l.right, g[m], g[m + 1])
        <5>1. m + 1 \in 1..size /\ c \in 1..(size - 2) /\ c + 2 = m + 1 /\ m < m + 1
          BY <1>1, <3>4, <4>1, <4>6
        <5>2. ~ slope_less(g[c], g[m], g[m], g[m + 1])
          BY <1>3, <4>1, <5>1
        <5>3. g[m + 1] \in Points /\ g[m].x < g[m + 1].x
          BY <1>1, <1>3, <3>4, <5>1
        <5>4. l.left \in Points /\ l.right \in Points /\ l.left.x < l.right.x
          BY <1>5, LineIs
        <5> QED
          BY <4>3, <4>4, <5>2, <5>3, <5>4, SlopesOrdered
      <4> QED
        BY <3>4, <4>5, <4>6
    <3> QED
      BY <3>5, <3>6
  <2>2. Falls(k)
    BY <2>1
  <2> QED
    BY <2>2
<1>8. ASSUME NEW k \in 1..size
      PROVE  Under(g[k], l)
  <2>1. k \in 1..j \/ k \in j..size
    BY <1>2
  <2> QED
    BY <1>6, <1>7, <2>1
<1> QED
  BY <1>4, <1>8 DEF j

\* So it takes the place of the steepest line, and the hull from there on that of
\* the hull; and the points that both lines were under are over it.
LEMMA LinePivots ==
    ASSUME NEW g, NEW A, NEW t, NEW s, Side(g, A, t, s), NEW p \in Points, After(g, p),
           \A q \in A : q.x <= p.x, Over(p, s), Under(p, t)
    PROVE  LET l == Through(g[Pivot(g, p)], p)
           IN  /\ l \in AnyLine /\ l.left = g[Pivot(g, p)] /\ l.right = p
               /\ Side(From(g, Turns(g, p)), A, l, s)
               /\ Head(From(g, Turns(g, p))) = g[Pivot(g, p)]
               /\ \A q \in Points : q.x <= p.x /\ Over(q, t) /\ Over(q, s) => Over(q, l)
<1> DEFINE size == Len(g)
           j    == Pivot(g, p)
           a    == g[j]
           l    == Through(a, p)
           h    == SubSeq(g, j, size)
<1>1. /\ size \in Nat \ {0} /\ g \in Seq(Points) /\ g # <<>> /\ p.x \in Int
      /\ t \in AnyLine /\ s \in AnyLine
      /\ \A q \in A : q \in Points /\ q.x \in Int
      /\ \A k \in 1..size : g[k] \in A /\ g[k] \in Points /\ g[k].x \in Int
  BY HullIs DEF Points
<1>2. j \in 1..size
  BY <1>1, PivotIs
<1>3. a.x < p.x /\ \A k \in 1..size : Under(g[k], l)
  BY PivotTouches
<1>4. From(g, Turns(g, p)) = h
  BY DEF From, Pivot
<1>5. /\ a \in A /\ a \in Points /\ a.x \in Int
  BY <1>1, <1>2
<1>6. /\ \A k, m \in 1..size : k < m => g[k].x < g[m].x
      /\ g[1] = t.left /\ g[size] = s.right
      /\ \A q \in A : Under(q, t) /\ Under(q, s)
  BY DEF Side
<1> HIDE DEF j
<1>7. l \in AnyLine /\ l.left = a /\ l.right = p
  BY <1>3, <1>5, ThroughIs
<1> HIDE DEF l
<1>8. AtMost(s, l, p.x) /\ AtMost(l, t, p.x) /\ AtMost(l, t, a.x) /\ AtMost(l, s, a.x)
  BY <1>1, <1>5, <1>6, <1>7, ThroughPoint
<1>9. ASSUME NEW q \in Points, q.x <= p.x, Over(q, t), Over(q, s)
      PROVE  Over(q, l)
  <2>1. q.x \in Int
    BY DEF Points
  <2>2. CASE q.x <= a.x
    <3>1. AtMost(l, s, q.x)
      BY <1>1, <1>3, <1>5, <1>7, <1>8, <2>1, <2>2, Before
    <3> QED
      BY <1>1, <1>7, <1>9, <3>1, OverTwo
  <2>3. CASE a.x <= q.x
    <3>1. AtMost(l, t, q.x)
      BY <1>1, <1>5, <1>7, <1>8, <1>9, <2>1, <2>3, Between
    <3> QED
      BY <1>1, <1>7, <1>9, <3>1, OverTwo
  <2> QED
    BY <1>5, <2>1, <2>2, <2>3
<1>10. ASSUME NEW q \in A
       PROVE  Under(q, l)
  <2> DEFINE b == g[1]
  <2>1. b \in Points /\ b.x \in Int /\ Under(b, l) /\ b = t.left /\ b.x < p.x /\ 1 \in 1..size
    <3>1. 1 \in 1..size
      BY <1>1
    <3>2. b.x < p.x
      BY <3>1 DEF After
    <3> QED
      BY <1>1, <1>3, <1>6, <3>1, <3>2
  <2>2. q \in Points /\ q.x \in Int /\ q.x <= p.x /\ Under(q, t)
    BY <1>1, <1>6
  <2>3. CASE q.x <= b.x
    <3> HIDE DEF b
    <3>1. AtMost(t, l, b.x)
      BY <1>1, <1>7, <2>1, ThroughPoint
    <3>2. AtMost(t, l, q.x)
      BY <1>1, <1>7, <1>8, <2>1, <2>2, <2>3, <3>1, Before
    <3> QED
      BY <1>1, <1>7, <2>2, <3>2, UnderTwo
  <2>4. CASE b.x <= q.x
    <3>1. g[size].x <= p.x
      <4>1. size \in 1..size
        BY <1>1
      <4>2. g[size].x < p.x \/ g[size].x = p.x
        BY <4>1 DEF After
      <4> QED
        BY <1>1, <4>1, <4>2
    <3>2. \A k \in 1..size : Under(g[k], l)
      BY <1>3 DEF l
    <3> DEFINE first == 1
    <3>3. first \in 1..size /\ g[first].x <= q.x /\ \A k \in first..size : Under(g[k], l)
      BY <2>1, <2>4, <3>2
    <3> HIDE DEF first
    <3> QED
      BY <1>1, <1>7, <1>8, <2>2, <3>1, <3>3, Covered
  <2> QED
    BY <2>1, <2>2, <2>3, <2>4
<1>11. h \in Seq(A) /\ Len(h) = size - j + 1 /\ \A k \in 1..(size - j + 1) : h[k] = g[j + k - 1]
  <2>1. \A k \in j..size : g[k] \in A
    BY <1>1, <1>2
  <2>2. j \in Int /\ size \in Int /\ j <= size
    BY <1>1, <1>2
  <2> HIDE DEF size
  <2> QED
    BY <2>1, <2>2, SubSeqProperties
<1> HIDE DEF h
<1>12. ASSUME NEW k \in 1..Len(h)
       PROVE  j + k - 1 \in 1..size /\ h[k] = g[j + k - 1]
  BY <1>1, <1>2, <1>11
<1>13. h # <<>> /\ h[1] = a /\ h[Len(h)] = s.right /\ Len(h) \in Nat \ {0}
  <2>1. Len(h) \in Nat \ {0}
    BY <1>1, <1>2, <1>11
  <2>2. 1 \in 1..Len(h) /\ Len(h) \in 1..Len(h) /\ j + 1 - 1 = j /\ j + Len(h) - 1 = size
    BY <1>1, <1>2, <1>11, <2>1
  <2>3. h[1] = g[j] /\ h[Len(h)] = g[size]
    BY <1>12, <2>2
  <2>4. h # <<>>
    BY <2>1, <1>11, EmptySeq
  <2> QED
    BY <1>6, <2>1, <2>3, <2>4
<1>14. ASSUME NEW k \in 1..Len(h), NEW m \in 1..Len(h), k < m
       PROVE  h[k].x < h[m].x
  <2>1. j + k - 1 < j + m - 1
    BY <1>2, <1>14
  <2> QED
    BY <1>6, <1>12, <2>1
<1>15. ASSUME NEW k \in 1..(Len(h) - 2)
       PROVE  ~ slope_less(h[k], h[k + 1], h[k + 1], h[k + 2])
  <2> DEFINE m == j + k - 1
  <2>1. /\ k \in 1..Len(h) /\ k + 1 \in 1..Len(h) /\ k + 2 \in 1..Len(h)
        /\ m \in 1..(size - 2) /\ j + (k + 1) - 1 = m + 1 /\ j + (k + 2) - 1 = m + 2
    BY <1>1, <1>2, <1>11, <1>13
  <2>2. h[k] = g[m] /\ h[k + 1] = g[m + 1] /\ h[k + 2] = g[m + 2]
    BY <1>12, <2>1
  <2>3. ~ slope_less(g[m], g[m + 1], g[m + 1], g[m + 2])
    BY <2>1 DEF Side
  <2> QED
    BY <2>2, <2>3
<1>16. ASSUME NEW k \in 1..(Len(h) - 1), NEW q \in A, h[k].x <= q.x, q.x <= h[k + 1].x
       PROVE  Under(q, Through(h[k], h[k + 1]))
  <2> DEFINE m == j + k - 1
  <2>1. /\ k \in 1..Len(h) /\ k + 1 \in 1..Len(h)
        /\ m \in 1..(size - 1) /\ j + (k + 1) - 1 = m + 1
    BY <1>1, <1>2, <1>11, <1>13
  <2>2. h[k] = g[m] /\ h[k + 1] = g[m + 1]
    BY <1>12, <2>1
  <2> QED
    BY <1>16, <2>1, <2>2 DEF Side
<1>17. A \subseteq Points
  BY DEF Side
<1>18. Side(h, A, l, s)
  BY <1>1, <1>6, <1>7, <1>10, <1>11, <1>13, <1>14, <1>15, <1>16, <1>17 DEF Side
<1>19. Head(h) = a
  BY <1>11, <1>13
<1> HIDE DEF a
<1> QED
  BY <1>4, <1>7, <1>9, <1>18, <1>19 DEF l, a, j

-----------------------------------------------------------------------------
(* Hulls upside down.                                                      *)

\* Products of a number turned negative.
LEMMA NegativeTimes ==
    ASSUME NEW a \in Int, NEW b \in Int
    PROVE  a * b \in Int /\ (-a) * b = -(a * b) /\ a * (-b) = -(a * b)
OBVIOUS

\* Turns and slopes are the other way round.
LEMMA MirrorTurns ==
    ASSUME NEW a \in Points, NEW b \in Points, NEW c \in Points, NEW d \in Points
    PROVE  /\ cross(Mirror(a), Mirror(b), Mirror(c)) < 0 <=> cross(a, b, c) > 0
           /\ slope_less(Mirror(a), Mirror(b), Mirror(c), Mirror(d)) <=> slope_less(c, d, a, b)
<1>1. \A q \in Points : Mirror(q).x = q.x /\ Mirror(q).y = -q.y /\ q.x \in Int /\ q.y \in Int
  BY MirrorPoint DEF Points
<1>2. cross(Mirror(a), Mirror(b), Mirror(c)) < 0 <=> cross(a, b, c) > 0
  <2> DEFINE u == b.x - a.x
             v == b.y - a.y
             U == c.x - a.x
             V == c.y - a.y
  <2>1. u \in Int /\ v \in Int /\ U \in Int /\ V \in Int
    BY <1>1
  <2>2. (-b.y) - (-a.y) = -v /\ (-c.y) - (-a.y) = -V
    BY <1>1
  <2>3. cross(a, b, c) = u * V - v * U
    BY DEF cross
  <2>4. cross(Mirror(a), Mirror(b), Mirror(c)) = u * (-V) - (-v) * U
    BY <1>1, <2>2 DEF cross
  <2> HIDE DEF u, v, U, V
  <2>5. u * V \in Int /\ v * U \in Int /\ u * (-V) = -(u * V) /\ (-v) * U = -(v * U)
    BY <2>1, NegativeTimes
  <2> QED
    BY <2>3, <2>4, <2>5
<1>3. slope_less(Mirror(a), Mirror(b), Mirror(c), Mirror(d)) <=> slope_less(c, d, a, b)
  <2> DEFINE u == b.x - a.x
             v == b.y - a.y
             U == d.x - c.x
             V == d.y - c.y
  <2>1. u \in Int /\ v \in Int /\ U \in Int /\ V \in Int
    BY <1>1
  <2>2. (-b.y) - (-a.y) = -v /\ (-d.y) - (-c.y) = -V
    BY <1>1
  <2>3. slope_less(c, d, a, b) <=> V * u < v * U
    BY DEF slope_less
  <2>4. slope_less(Mirror(a), Mirror(b), Mirror(c), Mirror(d)) <=> (-v) * U < (-V) * u
    BY <1>1, <2>2 DEF slope_less
  <2> HIDE DEF u, v, U, V
  <2>5. V * u \in Int /\ v * U \in Int /\ (-V) * u = -(V * u) /\ (-v) * U = -(v * U)
    BY <2>1, NegativeTimes
  <2> QED
    BY <2>3, <2>4, <2>5
<1> QED
  BY <1>2, <1>3

\* A hull upside down.
LEMMA MirroredIs ==
    ASSUME NEW g \in Seq(Points)
    PROVE  /\ Mirrored(g) \in Seq(Points) /\ Len(Mirrored(g)) = Len(g) /\ Len(g) \in Nat
           /\ \A k \in 1..Len(g) : g[k] \in Points /\ Mirrored(g)[k] = Mirror(g[k])
           /\ g # <<>> => Mirrored(g) # <<>>
<1>1. Len(g) \in Nat /\ \A k \in 1..Len(g) : g[k] \in Points /\ Mirror(g[k]) \in Points
  BY LenProperties, ElementOfSeq, MirrorPoint
<1>2. Mirrored(g) \in Seq(Points) /\ Len(Mirrored(g)) = Len(g)
  <2> DEFINE size == Len(g)
             h == [k \in 1..size |-> Mirror(g[k])]
  <2>1. h \in [1..size -> Points] /\ size \in Nat
    BY <1>1
  <2> HIDE DEF size
  <2>2. h \in Seq(Points) /\ Len(h) = size
    BY <2>1
  <2> QED
    BY <2>2 DEF Mirrored, size
<1>3. g # <<>> => Mirrored(g) # <<>>
  BY <1>1, <1>2, EmptySeq
<1> QED
  BY <1>1, <1>2, <1>3 DEF Mirrored

\* The points of h are those of g up to number e, and r.
EndsWith(h, g, e, r) ==
    /\ h \in Seq(Points) /\ e \in 1..Len(g) /\ Len(h) = e + 1
    /\ h[e + 1] = r /\ \A k \in 1..e : h[k] = g[k]

\* What a hull with another point at its end consists of.
LEMMA ExtendedIs ==
    ASSUME NEW g \in Seq(Points), g # <<>>, NEW r \in Points, NEW C, C \subseteq 2..Len(g)
    PROVE  EndsWith(Extended(g, r, C), g, Max({1} \cup C), r)
<1> DEFINE e == Max({1} \cup C)
           f == SubSeq(g, 1, e)
           size == Len(g)
<1>1. size \in Nat \ {0} /\ \A k \in 1..size : g[k] \in Points
  BY EmptySeq, LenProperties, ElementOfSeq
<1>2. e \in 1..size
  <2> DEFINE S == {1} \cup C
  <2>1. S \in SUBSET Int /\ S # {} /\ \A k \in S : k <= size /\ k \in 1..size
    BY <1>1
  <2>2. size \in Int
    BY <1>1
  <2> HIDE DEF S, size
  <2>3. Max(S) \in S
    BY <2>1, <2>2, MaxOf
  <2> QED
    BY <2>1, <2>3 DEF S
<1> HIDE DEF e
<1>3. f \in Seq(Points) /\ Len(f) = e /\ \A k \in 1..e : f[k] = g[k]
  <2> DEFINE first == 1
  <2>1. first \in Int /\ e \in Int /\ \A k \in first..e : g[k] \in Points
    BY <1>1, <1>2
  <2>2. first <= e /\ e - first + 1 = e /\ \A k \in 1..e : first + k - 1 = k
    BY <1>2
  <2> HIDE DEF first
  <2>3. /\ SubSeq(g, first, e) \in Seq(Points)
        /\ Len(SubSeq(g, first, e)) = IF first <= e THEN e - first + 1 ELSE 0
        /\ \A k \in 1..(e - first + 1) : SubSeq(g, first, e)[k] = g[first + k - 1]
    BY <2>1, SubSeqProperties
  <2> QED
    BY <2>2, <2>3 DEF first
<1> HIDE DEF f
<1> DEFINE h == Append(f, r)
<1>4. h \in Seq(Points) /\ Len(h) = e + 1 /\ h[e + 1] = r /\ \A k \in 1..e : h[k] = g[k]
  BY <1>3, AppendProperties
<1>5. Extended(g, r, C) = h
  BY DEF Extended, f, e
<1> HIDE DEF h
<1>6. EndsWith(Extended(g, r, C), g, e, r)
  BY <1>2, <1>4, <1>5 DEF EndsWith
<1> QED
  BY <1>6 DEF e

\* Extended and then turned upside down it is what it is the other way round.
LEMMA MirrorExtended ==
    ASSUME NEW g \in Seq(Points), g # <<>>, NEW r \in Points
    PROVE  Mirrored(Extended(g, r, {e \in 2..Len(g) : cross(g[e - 1], g[e], r) > 0}))
             = Extended(Mirrored(g), Mirror(r), Corners(Mirrored(g), Mirror(r)))
<1> DEFINE C == {e \in 2..Len(g) : cross(g[e - 1], g[e], r) > 0}
           D == Corners(Mirrored(g), Mirror(r))
           m == Mirrored(g)
           b == Mirror(r)
<1>1. m \in Seq(Points) /\ m # <<>> /\ Len(m) = Len(g) /\ Len(g) \in Nat /\ b \in Points
  BY MirroredIs, MirrorPoint
<1>2. \A k \in 1..Len(g) : g[k] \in Points /\ m[k] = Mirror(g[k])
  BY MirroredIs
<1>3. C = D
  <2>1. ASSUME NEW e \in 2..Len(g)
        PROVE  cross(m[e - 1], m[e], b) < 0 <=> cross(g[e - 1], g[e], r) > 0
    <3>1. e \in 1..Len(g) /\ e - 1 \in 1..Len(g)
      BY <1>1
    <3>2. g[e] \in Points /\ g[e - 1] \in Points /\ m[e] = Mirror(g[e]) /\ m[e - 1] = Mirror(g[e - 1])
      BY <1>2, <3>1
    <3> QED
      BY <3>2, MirrorTurns
  <2> QED
    BY <1>1, <2>1 DEF Corners
<1> HIDE DEF m, b
<1> DEFINE h == Extended(g, r, C)
           f == Extended(m, b, C)
           e == Max({1} \cup C)
<1>4. C \subseteq 2..Len(g) /\ C \subseteq 2..Len(m)
  BY <1>1
<1> HIDE DEF C
<1>5. /\ h \in Seq(Points) /\ e \in 1..Len(g) /\ Len(h) = e + 1
      /\ h[e + 1] = r /\ \A k \in 1..e : h[k] = g[k]
  <2>1. EndsWith(h, g, e, r)
    BY <1>4, ExtendedIs, Zenon
  <2> HIDE DEF h, e
  <2> QED
    BY <2>1 DEF EndsWith
<1>6. /\ f \in Seq(Points) /\ Len(f) = e + 1
      /\ f[e + 1] = b /\ \A k \in 1..e : f[k] = m[k]
  <2>1. m \in Seq(Points) /\ m # <<>> /\ b \in Points /\ C \subseteq 2..Len(m)
    BY <1>1, <1>4
  <2>2. EndsWith(f, m, e, b)
    BY <2>1, ExtendedIs, Zenon
  <2> HIDE DEF f, e
  <2> QED
    BY <2>2 DEF EndsWith
<1> HIDE DEF h, f, e
<1>7. /\ Mirrored(h) \in Seq(Points) /\ Len(Mirrored(h)) = e + 1
      /\ \A k \in 1..(e + 1) : Mirrored(h)[k] = Mirror(h[k])
  BY <1>5, MirroredIs
<1>8. \A k \in 1..(e + 1) : Mirrored(h)[k] = f[k]
  <2>1. ASSUME NEW k \in 1..(e + 1)
        PROVE  Mirrored(h)[k] = f[k]
    <3>1. (k \in 1..e /\ k \in 1..Len(g)) \/ k = e + 1
      BY <1>1, <1>5
    <3> QED
      BY <1>2, <1>5, <1>6, <1>7, <3>1 DEF b
  <2> QED
    BY <2>1
<1>9. Mirrored(h) = f
  BY <1>6, <1>7, <1>8, SeqEqual
<1> QED
  BY <1>3, <1>9 DEF h, f, m, b, C

\* So is the end of one from a point on.
LEMMA MirrorFrom ==
    ASSUME NEW g \in Seq(Points), g # <<>>, NEW p \in Points
    PROVE  LET h == From(g, {k \in 1..(Len(g) - 1) : slope_less(g[k + 1], p, g[k], p)})
           IN  /\ Mirrored(h) = From(Mirrored(g), Turns(Mirrored(g), Mirror(p)))
               /\ h \in Seq(Points) /\ h # <<>> /\ Head(h) \in Points
               /\ Head(Mirrored(h)) = Mirror(Head(h))
<1> DEFINE C == {k \in 1..(Len(g) - 1) : slope_less(g[k + 1], p, g[k], p)}
           m == Mirrored(g)
           b == Mirror(p)
           D == Turns(m, b)
<1>1. m \in Seq(Points) /\ m # <<>> /\ Len(m) = Len(g) /\ Len(g) \in Nat \ {0} /\ b \in Points
  BY MirroredIs, MirrorPoint, EmptySeq
<1>2. \A k \in 1..Len(g) : g[k] \in Points /\ m[k] = Mirror(g[k])
  BY MirroredIs
<1>3. C = D
  <2>1. ASSUME NEW k \in 1..(Len(g) - 1)
        PROVE  slope_less(m[k], b, m[k + 1], b) <=> slope_less(g[k + 1], p, g[k], p)
    <3>1. k \in 1..Len(g) /\ k + 1 \in 1..Len(g)
      BY <1>1
    <3>2. g[k] \in Points /\ g[k + 1] \in Points /\ m[k] = Mirror(g[k]) /\ m[k + 1] = Mirror(g[k + 1])
      BY <1>2, <3>1
    <3> QED
      BY <3>2, MirrorTurns
  <2> QED
    BY <1>1, <2>1 DEF Turns
<1> DEFINE j == Pivot(m, b)
           size == Len(g)
           h == SubSeq(g, j, size)
           f == SubSeq(m, j, size)
<1>4. j \in 1..size
  BY <1>1, PivotIs
<1>5. From(m, D) = f /\ From(g, C) = h
  BY <1>1, <1>3 DEF From, Pivot
<1> HIDE DEF j, C, D, m, b
<1>6. \A k \in j..size : g[k] \in Points /\ m[k] \in Points
  <2>1. \A k \in 1..size : m[k] \in Points
    BY <1>1, ElementOfSeq
  <2> QED
    BY <1>1, <1>2, <1>4, <2>1
<1>7. j \in Int /\ size \in Int /\ j <= size
  BY <1>1, <1>4
<1>8. /\ h \in Seq(Points) /\ Len(h) = size - j + 1 /\ \A k \in 1..(size - j + 1) : h[k] = g[j + k - 1]
      /\ f \in Seq(Points) /\ Len(f) = size - j + 1 /\ \A k \in 1..(size - j + 1) : f[k] = m[j + k - 1]
  <2> HIDE DEF size
  <2> QED
    BY <1>6, <1>7, SubSeqProperties
<1> DEFINE most == size - j + 1
<1>9. most \in Nat \ {0} /\ \A k \in 1..most : j + k - 1 \in 1..size
  BY <1>1, <1>4
<1> HIDE DEF h, f
<1>10. h # <<>> /\ Head(h) = h[1] /\ h[1] \in Points
  <2>1. 1 \in 1..Len(h)
    BY <1>8, <1>9
  <2>2. h # <<>>
    BY <1>8, <1>9, EmptySeq
  <2>3. h[1] \in Points
    BY <1>8, <2>1, ElementOfSeq
  <2> QED
    BY <2>2, <2>3
<1>11. /\ Mirrored(h) \in Seq(Points) /\ Len(Mirrored(h)) = most
       /\ \A k \in 1..most : Mirrored(h)[k] = Mirror(h[k])
  BY <1>8, MirroredIs
<1>12. \A k \in 1..most : Mirrored(h)[k] = f[k]
  BY <1>2, <1>8, <1>9, <1>11
<1>13. Mirrored(h) = f
  <2> HIDE DEF most
  <2> QED
    BY <1>8, <1>11, <1>12, SeqEqual DEF most
<1>14. Head(Mirrored(h)) = Mirror(Head(h))
  <2>1. 1 \in 1..most
    BY <1>9
  <2>2. Mirrored(h)[1] = Mirror(h[1])
    BY <1>11, <2>1
  <2> QED
    BY <1>10, <2>2
<1> QED
  BY <1>5, <1>8, <1>10, <1>13, <1>14 DEF C, D, m, b

-----------------------------------------------------------------------------
(* The Segmenter.                                                          *)

\* Where the code asks whether a slope is less, it asks on which side of a line a
\* point lies.
LEMMA SlopeSays ==
    ASSUME NEW l \in AnyLine, NEW p \in Points
    PROVE  /\ slope_less(l.left, p, l.left, l.right) <=> ~ Over(p, l)
           /\ slope_less(l.left, l.right, l.left, p) <=> ~ Under(p, l)
           /\ slope_less(l.right, p, l.left, l.right) <=> ~ Over(p, l)
           /\ slope_less(l.left, l.right, l.right, p) <=> ~ Under(p, l)
           /\ Under(p, l) \/ Over(p, l)
<1> DEFINE U == Across(l)
           V == l.right.y - l.left.y
           c == l.left.y
           w == p.x - l.left.x
           v == p.y - l.left.y
<1>1. /\ l.left.x \in Int /\ l.left.y \in Int /\ l.right.y \in Int /\ l.right.x \in Int
      /\ p.x \in Int /\ p.y \in Int
  BY LineIs DEF Points
<1>2. U \in Int /\ V \in Int /\ c \in Int /\ w \in Int /\ v \in Int
  BY <1>1 DEF Across
<1>3. p.y = c + v /\ p.x - l.right.x = w - U /\ p.y - l.right.y = v - V
  BY <1>1 DEF Across
<1>4. /\ Under(p, l) <=> (c + v) * U <= c * U + V * w
      /\ Over(p, l) <=> c * U + V * w <= (c + v) * U
  BY <1>3 DEF Under, Over, HeightAt, Across
<1>5. /\ slope_less(l.left, p, l.left, l.right) <=> v * U < V * w
      /\ slope_less(l.left, l.right, l.left, p) <=> V * w < v * U
      /\ slope_less(l.right, p, l.left, l.right) <=> (v - V) * U < V * (w - U)
      /\ slope_less(l.left, l.right, l.right, p) <=> V * (w - U) < (v - V) * U
  BY <1>3 DEF slope_less, Across
<1> HIDE DEF U, V, c, w, v
<1>6. /\ (c + v) * U = c * U + v * U /\ (v - V) * U = v * U - V * U /\ V * (w - U) = V * w - V * U
      /\ c * U \in Int /\ v * U \in Int /\ V * U \in Int /\ V * w \in Int
  BY <1>2
<1> QED
  BY <1>4, <1>5, <1>6

\* The Segmenter's steepest line comes down to p, or the shallowest up, the picture
\* upside down.
LEMMA BothTurn ==
    ASSUME NEW g, NEW A, NEW t, NEW s, Side(g, A, t, s),
           NEW h, NEW B, Side(h, B, MirrorLine(s), MirrorLine(t)),
           NEW p \in Points, After(g, p), \A q \in A : q.x <= p.x, \A q \in B : q.x < p.x,
           Over(p, s), Under(p, t)
    PROVE  LET l == Through(g[Pivot(g, p)], p)
           IN  /\ l \in AnyLine /\ l.right = p /\ l.left = Head(From(g, Turns(g, p)))
               /\ Side(From(g, Turns(g, p)), A, l, s)
               /\ Side(Extended(h, Mirror(p), Corners(h, Mirror(p))), B \cup {Mirror(p)},
                       MirrorLine(s), MirrorLine(l))
<1> DEFINE l == Through(g[Pivot(g, p)], p)
           r == Mirror(p)
<1>1. /\ l \in AnyLine /\ l.left = g[Pivot(g, p)] /\ l.right = p
      /\ Side(From(g, Turns(g, p)), A, l, s)
      /\ Head(From(g, Turns(g, p))) = g[Pivot(g, p)]
      /\ \A q \in Points : q.x <= p.x /\ Over(q, t) /\ Over(q, s) => Over(q, l)
  BY LinePivots
<1> HIDE DEF l
<1>2. s \in AnyLine /\ t \in AnyLine
  BY HullIs
<1>3. r \in Points /\ r.x = p.x
  BY MirrorPoint
<1>4. Over(r, MirrorLine(t)) /\ Under(r, MirrorLine(s))
  BY <1>2, MirrorUnder
<1>5. MirrorLine(l) \in AnyLine /\ MirrorLine(l).right = r
  BY <1>1, MirrorIs
<1>6. ASSUME NEW q \in B
      PROVE  Under(q, MirrorLine(l)) /\ q.x < r.x
  <2>1. q \in Points /\ q.x \in Int /\ Under(q, MirrorLine(s)) /\ Under(q, MirrorLine(t))
    BY HullIs DEF Side
  <2> DEFINE m == Mirror(q)
  <2>2. m \in Points /\ Mirror(m) = q /\ m.x = q.x
    BY <2>1, MirrorPoint
  <2> HIDE DEF m
  <2>3. Over(m, t) /\ Over(m, s)
    BY <1>2, <2>1, <2>2, MirrorUnder
  <2>4. m.x <= p.x
    BY <2>1, <2>2 DEF Points
  <2>5. Over(m, l)
    BY <1>1, <2>2, <2>3, <2>4
  <2>6. Under(q, MirrorLine(l))
    BY <1>1, <2>2, <2>5, MirrorUnder
  <2> QED
    BY <1>3, <2>6
<1>7. Side(Extended(h, r, Corners(h, r)), B \cup {r}, MirrorLine(s), MirrorLine(l))
  <2> HIDE DEF r
  <2> DEFINE t1 == MirrorLine(s)
             s1 == MirrorLine(t)
             new == MirrorLine(l)
  <2>1. /\ Side(h, B, t1, s1) /\ Over(r, s1) /\ Under(r, t1) /\ new \in AnyLine /\ new.right = r
        /\ \A q \in B : Under(q, new) /\ q.x < r.x
    BY <1>4, <1>5, <1>6
  <2> HIDE DEF t1, s1, new
  <2>2. Side(Extended(h, r, Corners(h, r)), B \cup {r}, t1, new)
    BY <1>3, <2>1, HullExtends
  <2> QED
    BY <2>2 DEF t1, new
<1> QED
  BY <1>1, <1>7 DEF l, r

\* Right above the last point of a hull so extended lies a point to pivot to.
LEMMA ExtendedAfter ==
    ASSUME NEW g \in Seq(Points), g # <<>>, NEW r \in Points, NEW p \in Points,
           \A k \in 1..Len(g) : g[k].x < r.x, p.x = r.x, r.y < p.y
    PROVE  After(Extended(g, r, Corners(g, r)), p)
<1> DEFINE C == Corners(g, r)
           h == Extended(g, r, C)
           e == Max({1} \cup C)
<1>1. C \subseteq 2..Len(g)
  BY DEF Corners
<1> HIDE DEF C
<1>2. /\ e \in 1..Len(g) /\ Len(h) = e + 1 /\ h[e + 1] = r /\ \A k \in 1..e : h[k] = g[k]
  <2>1. EndsWith(h, g, e, r)
    BY <1>1, ExtendedIs, Zenon
  <2> HIDE DEF h, e
  <2> QED
    BY <2>1 DEF EndsWith
<1>3. Len(g) \in Nat
  BY LenProperties
<1> HIDE DEF h, e
<1>4. ASSUME NEW k \in 1..Len(h)
      PROVE  h[k].x < p.x \/ (k = Len(h) /\ k >= 2 /\ h[k].x = p.x /\ h[k].y < p.y)
  <2>1. (k \in 1..e /\ k \in 1..Len(g)) \/ (k = e + 1 /\ k >= 2)
    BY <1>2, <1>3
  <2> QED
    BY <1>2, <2>1
<1> QED
  BY <1>4 DEF After, h, C

Segmenters ==
    [count : Nat, upper : Seq(Points), lower : Seq(Points),
     shallow : [left : Points, right : Points], steep : [left : Points, right : Points]]

\* The Segmenter's hulls and lines are right for the lower ends A of the points'
\* gaps and the upper ends, which are B upside down.
Hulls(s, A, B) ==
    /\ s \in Segmenters /\ s.count >= 2
    /\ s.upper # <<>> /\ s.steep \in AnyLine /\ s.shallow \in AnyLine
    /\ Side(s.lower, A, s.steep, s.shallow)
    /\ Side(Mirrored(s.upper), B, MirrorLine(s.shallow), MirrorLine(s.steep))

\* The Segmenter new is s with its steepest line lowered to where the gap at x
\* ends, and can take the gap's beginning next.
IsLowered(new, s, A, B, x, y) ==
    /\ Hulls(new, A, B \cup {Mirror(Upper(x, y))})
    /\ new.shallow = s.shallow /\ new.count = s.count
    /\ Under(Lower(x, y), new.steep)
    /\ After(Mirrored(new.upper), Mirror(Lower(x, y)))

\* Lowering the steepest line, where the new point's gap begins below it.
LEMMA SteepestIsLowered ==
    ASSUME NEW s, NEW A, NEW B, Hulls(s, A, B), NEW x \in Int, NEW y \in Int,
           \A q \in A \cup B : q.x < x,
           Over(Upper(x, y), s.shallow), Under(Lower(x, y), s.steep)
    PROVE  IsLowered(LowerSteepest(s, x, y), s, A, B, x, y)
<1> DEFINE p == Upper(x, y)
           l == Lower(x, y)
           u == Mirror(p)
           C == {e \in 2..Len(s.upper) : cross(s.upper[e - 1], s.upper[e], p) > 0}
           new == LowerSteepest(s, x, y)
           t   == s.steep
           sh  == s.shallow
           g   == s.lower
           h   == Mirrored(s.upper)
<1> SUFFICES /\ Hulls(new, A, B \cup {u})
             /\ new.shallow = s.shallow /\ new.count = s.count
             /\ Under(l, new.steep)
             /\ After(Mirrored(new.upper), Mirror(l))
  BY Zenon DEF IsLowered
<1>1. eps \in Nat \ {0}
  BY SegmentationAssumption
<1>2. /\ p \in Points /\ p.x = x /\ p.y = y + eps /\ l \in Points /\ l.x = x /\ l.y = y - eps
      /\ l.y < p.y
  BY <1>1 DEF Upper, Lower, Points
<1>3. /\ u \in Points /\ u.x = x /\ u.y = -p.y
      /\ Mirror(l) \in Points /\ Mirror(l).x = x /\ Mirror(l).y = -l.y /\ u.y < Mirror(l).y
  <2>1. p.y \in Int /\ l.y \in Int
    BY <1>2 DEF Points
  <2>2. -p.y < -l.y
    BY <1>2, <2>1
  <2> QED
    BY <1>2, <2>2, MirrorPoint
<1>4. /\ s \in Segmenters /\ s.upper \in Seq(Points) /\ s.upper # <<>> /\ t \in AnyLine /\ sh \in AnyLine
      /\ Side(g, A, t, sh) /\ Side(h, B, MirrorLine(sh), MirrorLine(t)) /\ s.lower \in Seq(Points)
  BY DEF Hulls, Segmenters
<1>5. h \in Seq(Points) /\ h # <<>> /\ \A k \in 1..Len(h) : h[k].x < x
  <2>1. \A k \in 1..Len(h) : h[k] \in B
    BY <1>4, HullIs
  <2> QED
    BY <1>4, <2>1, MirroredIs
<1>6. CASE Over(p, t)
  <2>1. new = s
    <3>1. ~ slope_less(t.left, p, t.left, t.right)
      BY <1>2, <1>4, <1>6, SlopeSays
    <3> QED
      BY <3>1 DEF LowerSteepest
  <2>2. Under(u, MirrorLine(sh)) /\ Under(u, MirrorLine(t))
    BY <1>2, <1>4, <1>6, MirrorUnder
  <2>3. Side(h, B \cup {u}, MirrorLine(sh), MirrorLine(t))
    <3> DEFINE a == MirrorLine(sh)
               b == MirrorLine(t)
    <3>1. Side(h, B, a, b) /\ Under(u, a) /\ Under(u, b) /\ \A q \in B : q.x < u.x
      BY <1>3, <1>4, <2>2
    <3> HIDE DEF a, b, u, h
    <3>2. u \in Points
      BY <1>3
    <3>3. Side(h, B \cup {u}, a, b)
      BY <3>1, <3>2, PointAdds
    <3> QED
      BY <3>3 DEF a, b
  <2>4. After(h, Mirror(l))
    BY <1>3, <1>5 DEF After
  <2>5. Hulls(s, A, B \cup {u})
    BY <2>3 DEF Hulls
  <2> QED
    BY <2>1, <2>4, <2>5
<1>7. CASE ~ Over(p, t)
  <2> DEFINE turns == Turns(g, p)
             f     == From(g, turns)
             line  == Through(g[Pivot(g, p)], p)
             up    == Extended(s.upper, p, C)
  <2>1. Under(p, t)
    BY <1>2, <1>4, <1>7, SlopeSays
  <2>2. slope_less(t.left, p, t.left, t.right)
    BY <1>2, <1>4, <1>7, SlopeSays
  <2>3. new = [s EXCEPT !.steep = Through(Head(f), p), !.lower = f, !.upper = up]
    BY <2>2 DEF LowerSteepest, Turns
  <2>4. After(g, p) /\ (\A q \in A : q.x <= p.x) /\ (\A q \in B : q.x < p.x)
    <3>1. \A q \in A : q.x \in Int /\ q.x < x
      BY <1>4, HullIs
    <3>2. \A k \in 1..Len(g) : g[k] \in A
      BY <1>4, HullIs
    <3> QED
      BY <1>2, <3>1, <3>2 DEF After
  <2>5. /\ line \in AnyLine /\ line.right = p /\ line.left = Head(f)
        /\ Side(f, A, line, sh)
        /\ Side(Extended(h, u, Corners(h, u)), B \cup {u}, MirrorLine(sh), MirrorLine(line))
    <3> HIDE DEF p, g, h, t, sh
    <3>1. Over(p, sh)
      BY DEF p, sh
    <3> QED
      BY <1>2, <1>4, <2>1, <2>4, <3>1, BothTurn
  <2>6. Through(Head(f), p) = line
    BY <2>5 DEF Through
  <2>7. Mirrored(up) = Extended(h, u, Corners(h, u))
    <3> HIDE DEF p
    <3> QED
      BY <1>2, <1>4, MirrorExtended
  <2>8. up \in Seq(Points) /\ up # <<>>
    <3>1. C \subseteq 2..Len(s.upper)
      OBVIOUS
    <3> HIDE DEF C, p
    <3> DEFINE e == Max({1} \cup C)
    <3>2. up \in Seq(Points) /\ e \in 1..Len(s.upper) /\ Len(up) = e + 1
      <4>1. s.upper \in Seq(Points) /\ s.upper # <<>> /\ p \in Points
        BY <1>2, <1>4
      <4>2. EndsWith(up, s.upper, e, p)
        BY <3>1, <4>1, ExtendedIs, Zenon
      <4> HIDE DEF up, e
      <4> QED
        BY <4>2 DEF EndsWith
    <3>3. Len(up) # 0
      BY <3>2
    <3> QED
      BY <3>2, <3>3, EmptySeq
  <2>9. f \in Seq(Points)
    BY <2>5, HullIs
  <2>10. After(Mirrored(up), Mirror(l))
    <3> HIDE DEF h, u, l
    <3>1. After(Extended(h, u, Corners(h, u)), Mirror(l))
      BY <1>3, <1>5, ExtendedAfter
    <3> QED
      BY <2>7, <3>1
  <2>11. Under(l, line)
    <3>1. HeightAt(line, x) = p.y * Across(line) /\ Across(line) \in Nat \ {0}
      BY <1>2, <2>5, LineIs
    <3>2. p.y \in Int /\ l.y \in Int
      BY <1>2 DEF Points
    <3> DEFINE a == p.y
               b == l.y
               c == Across(line)
    <3>3. a \in Int /\ b \in Int /\ c \in Nat \ {0} /\ b < a
      BY <1>2, <3>1, <3>2
    <3> HIDE DEF a, b, c
    <3>4. b * c <= a * c
      BY <3>3
    <3> QED
      BY <1>2, <3>1, <3>4 DEF Under, a, b, c
  <2> HIDE DEF f, line, up
  <2>12. /\ new.steep = line /\ new.lower = f /\ new.upper = up /\ new.shallow = sh
         /\ new.count = s.count
         /\ new = [count |-> s.count, upper |-> up, lower |-> f, shallow |-> sh, steep |-> line]
    <3>1. s = [count |-> s.count, upper |-> s.upper, lower |-> s.lower,
               shallow |-> s.shallow, steep |-> s.steep]
      BY <1>4 DEF Segmenters
    <3>2. new = [count |-> s.count, upper |-> up, lower |-> f, shallow |-> sh, steep |-> line]
      BY <2>3, <2>6, <3>1
    <3> HIDE DEF new
    <3> QED
      BY <3>2
  <2>13. new \in Segmenters
    <3>1. line \in [left : Points, right : Points] /\ sh \in [left : Points, right : Points]
      BY <1>4, <2>5 DEF AnyLine
    <3>2. s.count \in Nat
      BY <1>4 DEF Segmenters
    <3> HIDE DEF new, sh
    <3> QED
      BY <2>8, <2>9, <2>12, <3>1, <3>2 DEF Segmenters
  <2> HIDE DEF new
  <2>14. Hulls(new, A, B \cup {u})
    <3>1. Side(new.lower, A, new.steep, new.shallow)
      BY <2>5, <2>12
    <3>2. Side(Mirrored(new.upper), B \cup {u}, MirrorLine(new.shallow), MirrorLine(new.steep))
      BY <2>5, <2>7, <2>12
    <3>3. new.count >= 2
      BY <2>12 DEF Hulls
    <3> HIDE DEF u
    <3> QED
      BY <1>4, <2>5, <2>8, <2>12, <2>13, <3>1, <3>2, <3>3 DEF Hulls
  <2> QED
    BY <2>10, <2>11, <2>12, <2>14 DEF new
<1> QED
  BY <1>6, <1>7

\* Raising the shallowest, where the gap ends above it.
LEMMA ShallowestIsRaised ==
    ASSUME NEW s, NEW A, NEW B, Hulls(s, A, B), NEW x \in Int, NEW y \in Int,
           \A q \in A : q.x < x, \A q \in B : q.x <= x,
           Under(Lower(x, y), s.steep), After(Mirrored(s.upper), Mirror(Lower(x, y)))
    PROVE  /\ Hulls(RaiseShallowest(s, x, y), A \cup {Lower(x, y)}, B)
           /\ RaiseShallowest(s, x, y).count = s.count
<1> DEFINE p == Lower(x, y)
           u == Mirror(p)
           C == {e \in 2..Len(s.lower) : cross(s.lower[e - 1], s.lower[e], p) < 0}
           new == RaiseShallowest(s, x, y)
           t   == s.steep
           sh  == s.shallow
           g   == Mirrored(s.upper)
           h   == s.lower
<1>1. eps \in Nat \ {0}
  BY SegmentationAssumption
<1>2. p \in Points /\ p.x = x
  BY <1>1 DEF Lower, Points
<1>3. u \in Points /\ u.x = x /\ Mirror(u) = p
  BY <1>2, MirrorPoint
<1>4. /\ s \in Segmenters /\ s.upper \in Seq(Points) /\ s.upper # <<>> /\ t \in AnyLine /\ sh \in AnyLine
      /\ Side(h, A, t, sh) /\ Side(g, B, MirrorLine(sh), MirrorLine(t)) /\ s.lower \in Seq(Points)
  BY DEF Hulls, Segmenters
<1>5. Under(p, t) /\ After(g, u)
  OBVIOUS
<1>6. CASE Under(p, sh)
  <2>1. new = s
    <3>1. ~ slope_less(sh.left, sh.right, sh.left, p)
      BY <1>2, <1>4, <1>6, SlopeSays
    <3> QED
      BY <3>1 DEF RaiseShallowest
  <2>2. Side(h, A \cup {p}, t, sh)
    <3> HIDE DEF p, t, sh, h
    <3> QED
      BY <1>2, <1>4, <1>5, <1>6, PointAdds
  <2>3. Hulls(s, A \cup {p}, B)
    BY <2>2 DEF Hulls
  <2> QED
    BY <2>1, <2>3
<1>7. CASE ~ Under(p, sh)
  <2> DEFINE turns == {k \in 1..(Len(s.upper) - 1) : slope_less(s.upper[k + 1], p, s.upper[k], p)}
             f     == From(s.upper, turns)
             line  == Through(Head(f), p)
             low   == Extended(s.lower, p, C)
             m     == Through(g[Pivot(g, u)], u)
  <2>1. Over(p, sh)
    BY <1>2, <1>4, <1>7, SlopeSays
  <2>2. slope_less(sh.left, sh.right, sh.left, p)
    BY <1>2, <1>4, <1>7, SlopeSays
  <2>3. new = [s EXCEPT !.shallow = line, !.upper = f, !.lower = low]
    BY <2>2 DEF RaiseShallowest
  <2>4. (\A q \in B : q.x <= u.x) /\ (\A q \in A : q.x < u.x)
    BY <1>3
  <2>5. /\ Mirrored(f) = From(g, Turns(g, u)) /\ f \in Seq(Points) /\ f # <<>>
        /\ Head(f) \in Points /\ Head(Mirrored(f)) = Mirror(Head(f))
    <3> HIDE DEF p
    <3> QED
      BY <1>2, <1>4, MirrorFrom
  <2>6. /\ m \in AnyLine /\ m.right = u /\ m.left = Head(From(g, Turns(g, u)))
        /\ Side(From(g, Turns(g, u)), B, m, MirrorLine(t))
        /\ Side(Extended(h, Mirror(u), Corners(h, Mirror(u))), A \cup {Mirror(u)}, t, MirrorLine(m))
    <3> DEFINE a == MirrorLine(sh)
               b == MirrorLine(t)
    <3>1. MirrorLine(a) = sh /\ MirrorLine(b) = t
      BY <1>4, MirrorIs
    <3>2. Over(u, b) /\ Under(u, a)
      BY <1>2, <1>4, <1>5, <2>1, MirrorUnder
    <3>3. Side(g, B, a, b) /\ Side(h, A, MirrorLine(b), MirrorLine(a))
      BY <1>4, <3>1
    <3> HIDE DEF a, b, u, g, h, t
    <3>4. u \in Points
      BY <1>3
    <3>5. /\ m \in AnyLine /\ m.right = u /\ m.left = Head(From(g, Turns(g, u)))
          /\ Side(From(g, Turns(g, u)), B, m, b)
          /\ Side(Extended(h, Mirror(u), Corners(h, Mirror(u))), A \cup {Mirror(u)}, MirrorLine(b), MirrorLine(m))
      BY <1>5, <2>4, <3>2, <3>3, <3>4, BothTurn
    <3> QED
      BY <3>1, <3>5 DEF b
  <2> HIDE DEF m
  <2>7. m.left = Mirror(Head(f))
    BY <2>5, <2>6
  <2>8. MirrorLine(m) = line /\ line \in AnyLine /\ MirrorLine(line) = m
    <3>1. Mirror(m.left) = Head(f) /\ Mirror(m.right) = p
      BY <1>3, <2>5, <2>6, <2>7, MirrorPoint
    <3>2. MirrorLine(m) = line
      BY <3>1 DEF MirrorLine
    <3> HIDE DEF line
    <3> QED
      BY <2>6, <3>2, MirrorIs
  <2>9. Extended(h, Mirror(u), Corners(h, Mirror(u))) = low
    BY <1>3 DEF Corners
  <2>10. low \in Seq(Points)
    <3>1. Side(low, A \cup {p}, t, line)
      BY <1>3, <2>6, <2>8, <2>9
    <3> HIDE DEF low, line
    <3> QED
      BY <3>1, HullIs
  <2>11. Side(low, A \cup {p}, t, line) /\ Side(Mirrored(f), B, MirrorLine(line), MirrorLine(t))
    BY <1>3, <2>5, <2>6, <2>8, <2>9
  <2>12. line \in AnyLine
    BY <2>8
  <2> HIDE DEF f, line, low
  <2>13. /\ new.steep = t /\ new.lower = low /\ new.upper = f /\ new.shallow = line
         /\ new.count = s.count
         /\ new = [count |-> s.count, upper |-> f, lower |-> low, shallow |-> line, steep |-> t]
    <3>1. s = [count |-> s.count, upper |-> s.upper, lower |-> s.lower,
               shallow |-> s.shallow, steep |-> s.steep]
      BY <1>4 DEF Segmenters
    <3>2. new = [count |-> s.count, upper |-> f, lower |-> low, shallow |-> line, steep |-> t]
      BY <2>3, <3>1
    <3> HIDE DEF new
    <3> QED
      BY <3>2
  <2> HIDE DEF new
  <2>14. new \in Segmenters
    <3>1. line \in [left : Points, right : Points] /\ t \in [left : Points, right : Points]
      BY <1>4, <2>12 DEF AnyLine
    <3>2. s.count \in Nat
      BY <1>4 DEF Segmenters
    <3> HIDE DEF t
    <3> QED
      BY <2>5, <2>10, <2>13, <3>1, <3>2 DEF Segmenters
  <2>15. Hulls(new, A \cup {p}, B)
    <3>1. Side(new.lower, A \cup {p}, new.steep, new.shallow)
      BY <2>11, <2>13
    <3>2. Side(Mirrored(new.upper), B, MirrorLine(new.shallow), MirrorLine(new.steep))
      BY <2>11, <2>13
    <3>3. new.count >= 2
      BY <2>13 DEF Hulls
    <3> HIDE DEF p
    <3> QED
      BY <1>4, <2>5, <2>12, <2>13, <2>14, <3>1, <3>2, <3>3 DEF Hulls
  <2> QED
    BY <2>13, <2>15 DEF new
<1> QED
  BY <1>6, <1>7

\* A point that fits the Segmenter takes in.
LEMMA PointIsAdded ==
    ASSUME NEW s, NEW A, NEW B, Hulls(s, A, B), NEW x \in Int, NEW y \in Int,
           \A q \in A \cup B : q.x < x, Fits(s, x, y)
    PROVE  Hulls(Added(s, x, y), A \cup {Lower(x, y)}, B \cup {Mirror(Upper(x, y))})
<1> DEFINE p  == Upper(x, y)
           l  == Lower(x, y)
           B1 == B \cup {Mirror(p)}
           A1 == A \cup {l}
           s1 == LowerSteepest(s, x, y)
           s2 == RaiseShallowest(s1, x, y)
<1>1. p \in Points /\ l \in Points /\ p.x = x
  BY SegmentationAssumption DEF Upper, Lower, Points
<1>2. s.steep \in AnyLine /\ s.shallow \in AnyLine /\ s.count \in Nat /\ s.count >= 2
  BY DEF Hulls, Segmenters
<1>3. Over(p, s.shallow) /\ Under(l, s.steep)
  <2>1. /\ ~ slope_less(s.shallow.right, p, s.shallow.left, s.shallow.right)
        /\ ~ slope_less(s.steep.left, s.steep.right, s.steep.right, l)
    BY <1>2 DEF Fits
  <2> QED
    BY <1>1, <1>2, <2>1, SlopeSays
<1>4. Hulls(s1, A, B1) /\ Under(l, s1.steep) /\ After(Mirrored(s1.upper), Mirror(l)) /\ s1.count = s.count
  <2>1. IsLowered(s1, s, A, B, x, y)
    BY <1>3, SteepestIsLowered, Zenon
  <2> HIDE DEF s1
  <2> QED
    BY <2>1, Zenon DEF IsLowered
<1>5. \A q \in B1 : q.x <= x
  <2>1. \A q \in B : q.x \in Int
    BY <1>2, HullIs DEF Hulls
  <2>2. Mirror(p).x = x
    BY <1>1, MirrorPoint
  <2> QED
    BY <2>1, <2>2
<1> HIDE DEF s1, B1
<1>6. Hulls(s2, A1, B1) /\ s2.count = s.count
  BY <1>4, <1>5, ShallowestIsRaised
<1>7. Added(s, x, y) = [s2 EXCEPT !.count = @ + 1]
  BY <1>2 DEF Added, s1
<1> HIDE DEF s2, A1
<1>8. Hulls([s2 EXCEPT !.count = @ + 1], A1, B1)
  <2> DEFINE new == [s2 EXCEPT !.count = @ + 1]
  <2>1. s2 \in Segmenters /\ s2.count >= 2
    BY <1>6 DEF Hulls
  <2>2. /\ new \in Segmenters /\ new.count >= 2 /\ new.upper = s2.upper /\ new.lower = s2.lower
        /\ new.steep = s2.steep /\ new.shallow = s2.shallow
    BY <2>1 DEF Segmenters
  <2> HIDE DEF new
  <2>3. Hulls(new, A1, B1)
    BY <1>6, <2>2 DEF Hulls
  <2> QED
    BY <2>3 DEF new
<1> QED
  BY <1>7, <1>8 DEF A1, B1

\* The hull of two points.
LEMMA TwoPoints ==
    ASSUME NEW a \in Points, NEW b \in Points, a.x < b.x,
           NEW t \in AnyLine, t.left = a, t.right.x = b.x, b.y <= t.right.y,
           NEW s \in AnyLine, s.right = b, s.left.x = a.x, a.y <= s.left.y
    PROVE  Side(<<a, b>>, {a, b}, t, s)
<1> DEFINE g == <<a, b>>
           A == {a, b}
<1>1. A \subseteq Points /\ g \in Seq(A) /\ Len(g) = 2 /\ g # <<>> /\ g[1] = a /\ g[2] = b
      /\ a.x \in Int /\ b.x \in Int /\ a.y \in Int /\ b.y \in Int
  BY DEF Points
<1>2. \A q \in Points, l \in AnyLine :
         (q.x = l.left.x /\ q.y <= l.left.y) \/ (q.x = l.right.x /\ q.y <= l.right.y) => Under(q, l)
  <2>1. SUFFICES ASSUME NEW q \in Points, NEW l \in AnyLine, NEW z \in Points, z = l.left \/ z = l.right,
                        q.x = z.x, q.y <= z.y
                 PROVE  Under(q, l)
    BY LineIs
  <2> DEFINE c == Across(l)
             u == z.y
             v == q.y
  <2>2. c \in Nat \ {0} /\ u \in Int /\ v \in Int /\ v <= u /\ HeightAt(l, q.x) = u * c
    BY <2>1, LineIs DEF Points
  <2>3. Under(q, l) <=> v * c <= u * c
    BY <2>2 DEF Under
  <2> HIDE DEF c, u, v
  <2> QED
    BY <2>2, <2>3
<1>3. Under(a, t) /\ Under(b, t) /\ Under(a, s) /\ Under(b, s)
  BY <1>1, <1>2
<1>4. ASSUME NEW k \in 1..(Len(g) - 1), NEW q \in A
      PROVE  Under(q, Through(g[k], g[k + 1]))
  <2>1. k = 1 /\ k + 1 = 2
    BY <1>1
  <2>2. Through(a, b) \in AnyLine /\ Through(a, b).left = a /\ Through(a, b).right = b
    BY ThroughIs
  <2>3. Under(q, Through(a, b))
    BY <1>1, <1>2, <2>2
  <2> QED
    BY <1>1, <2>1, <2>3
<1>5. \A k, m \in 1..Len(g) : k < m => g[k].x < g[m].x
  BY <1>1
<1>6. \A k \in 1..(Len(g) - 2) : FALSE
  BY <1>1
<1>7. g[1] = t.left /\ g[Len(g)] = s.right
  BY <1>1
<1> HIDE DEF g, A
<1>8. Side(g, A, t, s)
  <2>1. \A q \in A : Under(q, t) /\ Under(q, s)
    BY <1>3 DEF A
  <2> QED
    BY <1>1, <1>4, <1>5, <1>6, <1>7, <2>1 DEF Side
<1> QED
  BY <1>8 DEF g, A

\* A sequence of one point with another is the pair.
LEMMA PairIs ==
    ASSUME NEW a \in Points, NEW b \in Points
    PROVE  Append(<<a>>, b) = <<a, b>>
<1> DEFINE f == Append(<<a>>, b)
           g == <<a, b>>
<1>1. <<a>> \in Seq(Points) /\ Len(<<a>>) = 1 /\ <<a>>[1] = a
  OBVIOUS
<1>2. f \in Seq(Points) /\ Len(f) = 2 /\ f[1] = a /\ f[2] = b
  BY <1>1, AppendProperties
<1>3. g \in Seq(Points) /\ Len(g) = 2 /\ g[1] = a /\ g[2] = b
  OBVIOUS
<1> HIDE DEF f, g
<1>4. \A k \in 1..2 : f[k] = g[k]
  <2>1. \A k \in 1..2 : k = 1 \/ k = 2
    OBVIOUS
  <2> QED
    BY <1>2, <1>3, <2>1
<1>5. f = g
  BY <1>2, <1>3, <1>4, SeqEqual
<1> QED
  BY <1>5 DEF f, g

\* The second point makes both hulls and both lines.
LEMMA SecondIsAdded ==
    ASSUME NEW x \in Int, NEW y \in Int, NEW a \in Int, NEW b \in Int, x < a
    PROVE  Hulls(Added(First(x, y), a, b), {Lower(x, y), Lower(a, b)},
                 {Mirror(Upper(x, y)), Mirror(Upper(a, b))})
<1> DEFINE u1 == Upper(x, y)
           l1 == Lower(x, y)
           u2 == Upper(a, b)
           l2 == Lower(a, b)
           t  == Through(l1, u2)
           s  == Through(u1, l2)
           new == Added(First(x, y), a, b)
<1>1. /\ u1 \in Points /\ l1 \in Points /\ u2 \in Points /\ l2 \in Points
      /\ u1.x = x /\ l1.x = x /\ u2.x = a /\ l2.x = a
      /\ u1.x < l2.x /\ l1.x < u2.x /\ l1.x < l2.x /\ u1.x < u2.x
      /\ l1.y <= u1.y /\ l2.y <= u2.y
  BY SegmentationAssumption DEF Upper, Lower, Points
<1>2. new = [count |-> 2, upper |-> <<u1, u2>>, lower |-> <<l1, l2>>, shallow |-> s, steep |-> t]
  <2> DEFINE f == First(x, y)
  <2>1. f = [count |-> 1, upper |-> <<u1>>, lower |-> <<l1>>,
             shallow |-> [left |-> u1, right |-> u1], steep |-> [left |-> l1, right |-> l1]]
    BY DEF First, Through
  <2>2. new = [f EXCEPT !.count = 2, !.shallow.right = l2, !.steep.right = u2,
                        !.upper = Append(@, u2), !.lower = Append(@, l2)]
    BY <2>1 DEF Added
  <2> HIDE DEF f, u1, u2, l1, l2, new
  <2>3. new = [count |-> 2, upper |-> Append(<<u1>>, u2), lower |-> Append(<<l1>>, l2),
               shallow |-> [left |-> u1, right |-> l2], steep |-> [left |-> l1, right |-> u2]]
    BY <2>1, <2>2
  <2>4. Append(<<u1>>, u2) = <<u1, u2>> /\ Append(<<l1>>, l2) = <<l1, l2>>
    BY <1>1, PairIs
  <2> QED
    BY <2>3, <2>4 DEF Through
<1>3. /\ new.count = 2 /\ new.upper = <<u1, u2>> /\ new.lower = <<l1, l2>>
      /\ new.shallow = s /\ new.steep = t
  BY <1>2
<1> HIDE DEF u1, l1, u2, l2, new
<1>4. /\ t \in AnyLine /\ t.left = l1 /\ t.right = u2
      /\ s \in AnyLine /\ s.left = u1 /\ s.right = l2
  BY <1>1, ThroughIs
<1>5. new \in Segmenters
  <2>1. t \in [left : Points, right : Points] /\ s \in [left : Points, right : Points]
    BY <1>4 DEF AnyLine
  <2> HIDE DEF t, s
  <2> QED
    BY <1>1, <1>2, <2>1 DEF Segmenters
<1> HIDE DEF t, s
<1>6. Side(<<l1, l2>>, {l1, l2}, t, s)
  BY <1>1, <1>4, TwoPoints
<1> DEFINE m1 == Mirror(u1)
           m2 == Mirror(u2)
           t1 == MirrorLine(s)
           s1 == MirrorLine(t)
<1>7. /\ m1 \in Points /\ m2 \in Points /\ m1.x < m2.x
      /\ t1 \in AnyLine /\ t1.left = m1 /\ t1.right.x = m2.x /\ m2.y <= t1.right.y
      /\ s1 \in AnyLine /\ s1.right = m2 /\ s1.left.x = m1.x /\ m1.y <= s1.left.y
  <2>1. \A q \in Points : Mirror(q) \in Points /\ Mirror(q).x = q.x /\ Mirror(q).y = -q.y /\ q.y \in Int
    BY MirrorPoint DEF Points
  <2>2. /\ t1.left = m1 /\ t1.right = Mirror(l2) /\ t1 \in AnyLine
        /\ s1.left = Mirror(l1) /\ s1.right = m2 /\ s1 \in AnyLine
    BY <1>4, MirrorIs
  <2>3. -u2.y <= -l2.y /\ -u1.y <= -l1.y
    BY <1>1, <2>1
  <2> HIDE DEF t1, s1
  <2> QED
    BY <1>1, <2>1, <2>2, <2>3
<1>8. Mirrored(<<u1, u2>>) = <<m1, m2>>
  <2> DEFINE g == <<u1, u2>>
  <2>1. g \in Seq(Points) /\ Len(g) = 2 /\ g[1] = u1 /\ g[2] = u2
    BY <1>1
  <2> HIDE DEF g
  <2>2. Mirrored(g) \in Seq(Points) /\ Len(Mirrored(g)) = 2 /\ Mirrored(g)[1] = m1 /\ Mirrored(g)[2] = m2
    BY <2>1, MirroredIs
  <2> DEFINE h == <<m1, m2>>
  <2>3. h \in Seq(Points) /\ Len(h) = 2 /\ h[1] = m1 /\ h[2] = m2
    BY <1>7
  <2> HIDE DEF h, m1, m2
  <2>4. \A k \in 1..2 : Mirrored(g)[k] = h[k]
    <3>1. \A k \in 1..2 : k = 1 \/ k = 2
      OBVIOUS
    <3> QED
      BY <2>2, <2>3, <3>1
  <2>5. Mirrored(g) = h
    BY <2>2, <2>3, <2>4, SeqEqual
  <2> QED
    BY <2>5 DEF g, h
<1> HIDE DEF m1, m2, t1, s1
<1>9. Side(<<m1, m2>>, {m1, m2}, t1, s1)
  BY <1>7, TwoPoints
<1>10. new.upper # <<>>
  <2>1. Len(new.upper) = 2
    BY <1>3
  <2> QED
    BY <2>1
<1>11. Hulls(new, {l1, l2}, {m1, m2})
  <2>1. Side(Mirrored(new.upper), {m1, m2}, MirrorLine(new.shallow), MirrorLine(new.steep))
    BY <1>3, <1>8, <1>9 DEF t1, s1
  <2> QED
    BY <1>3, <1>4, <1>5, <1>6, <1>10, <2>1 DEF Hulls
<1> QED
  BY <1>11 DEF new, l1, l2, m1, m2, u1, u2

-----------------------------------------------------------------------------
(* What a Segmenter has taken.                                             *)

\* The ends of the gaps of points c to d, the upper ones upside down.
LowerEnds(ks, ps, c, d) == {Lower(ks[k], ps[k]) : k \in c..d}
UpperEnds(ks, ps, c, d) == {Mirror(Upper(ks[k], ps[k])) : k \in c..d}

\* The Segmenter has taken points c to d.
Took(s, ks, ps, c, d) ==
    \/ c = d /\ s = First(ks[c], ps[c])
    \/ c < d /\ Hulls(s, LowerEnds(ks, ps, c, d), UpperEnds(ks, ps, c, d))

\* SomeLineFits() of any points.
LineFor(ks, ps, c, d) ==
    \A k, l, m, o \in c..d :
        (k < l /\ m < o) =>
            (ps[l] - ps[k] - 2 * eps) * (ks[o] - ks[m]) <= (ps[o] - ps[m] + 2 * eps) * (ks[l] - ks[k])

\* The line is in the gap of point k.
InGap(line, ks, ps, k) ==
    /\ (ps[k] - eps) * Across(line) <= HeightAt(line, ks[k])
    /\ HeightAt(line, ks[k]) <= (ps[k] + eps) * Across(line)

\* The ends of a point's gap.
LEMMA EndsAre ==
    ASSUME NEW x \in Int, NEW y \in Int
    PROVE  /\ Lower(x, y) \in Points /\ Lower(x, y).x = x /\ Lower(x, y).y = y - eps
           /\ Upper(x, y) \in Points /\ Upper(x, y).x = x /\ Upper(x, y).y = y + eps
           /\ Mirror(Upper(x, y)) \in Points /\ Mirror(Upper(x, y)).x = x
           /\ Mirror(Mirror(Upper(x, y))) = Upper(x, y) /\ eps \in Nat \ {0}
<1>1. /\ Lower(x, y) \in Points /\ Lower(x, y).x = x /\ Lower(x, y).y = y - eps
      /\ Upper(x, y) \in Points /\ Upper(x, y).x = x /\ Upper(x, y).y = y + eps /\ eps \in Nat \ {0}
  BY SegmentationAssumption DEF Lower, Upper, Points
<1> QED
  BY <1>1, MirrorPoint

\* Both lines of a Segmenter are in the gaps of all points it has taken.
LEMMA LinesInGaps ==
    ASSUME NEW ks, NEW ps, SortedPoints(ks, ps), NEW c \in 1..Len(ks), NEW d \in 1..Len(ks), NEW s,
           Hulls(s, LowerEnds(ks, ps, c, d), UpperEnds(ks, ps, c, d)), NEW k \in c..d
    PROVE  InGap(s.steep, ks, ps, k) /\ InGap(s.shallow, ks, ps, k)
<1> DEFINE x == ks[k]
           y == ps[k]
           p == Upper(x, y)
           q == Lower(x, y)
<1>1. k \in 1..Len(ks) /\ x \in Int /\ y \in Int
  <2>1. k \in 1..Len(ks)
    BY PointsAre
  <2> QED
    BY <2>1, PointsAre
<1>2. q \in LowerEnds(ks, ps, c, d) /\ Mirror(p) \in UpperEnds(ks, ps, c, d)
  BY DEF LowerEnds, UpperEnds
<1> HIDE DEF x, y
<1>3. /\ q \in Points /\ q.x = x /\ q.y = y - eps /\ p \in Points /\ p.x = x /\ p.y = y + eps
  BY <1>1, EndsAre
<1>4. s.steep \in AnyLine /\ s.shallow \in AnyLine
  BY DEF Hulls
<1>5. Under(q, s.steep) /\ Under(q, s.shallow)
  BY <1>2 DEF Hulls, Side
<1>6. Over(p, s.steep) /\ Over(p, s.shallow)
  <2>1. Under(Mirror(p), MirrorLine(s.shallow)) /\ Under(Mirror(p), MirrorLine(s.steep))
    BY <1>2 DEF Hulls, Side
  <2> QED
    BY <1>3, <1>4, <2>1, MirrorUnder
<1> HIDE DEF p, q
<1>7. \A l \in AnyLine : Under(q, l) /\ Over(p, l) =>
         (y - eps) * Across(l) <= HeightAt(l, x) /\ HeightAt(l, x) <= (y + eps) * Across(l)
  BY <1>3 DEF Under, Over
<1> QED
  BY <1>4, <1>5, <1>6, <1>7 DEF InGap, x, y

\* So a line fits all points a Segmenter has taken.
LEMMA TookFits ==
    ASSUME NEW ks, NEW ps, SortedPoints(ks, ps), NEW c \in 1..Len(ks), NEW d \in c..Len(ks), NEW s,
           Took(s, ks, ps, c, d)
    PROVE  LineFor(ks, ps, c, d)
<1>1. d \in 1..Len(ks) /\ eps \in Nat /\ \A k \in c..d : k \in 1..Len(ks)
  BY PointsAre, SegmentationAssumption
<1>2. SUFFICES ASSUME NEW k \in c..d, NEW l \in c..d, NEW m \in c..d, NEW o \in c..d, k < l, m < o
               PROVE  (ps[l] - ps[k] - 2 * eps) * (ks[o] - ks[m])
                        <= (ps[o] - ps[m] + 2 * eps) * (ks[l] - ks[k])
  BY DEF LineFor
<1>3. Hulls(s, LowerEnds(ks, ps, c, d), UpperEnds(ks, ps, c, d))
  <2>1. c # d
    BY <1>2
  <2> QED
    BY <2>1 DEF Took
<1> DEFINE t == s.steep
           w == Across(t)
           H(x) == HeightAt(t, x)
<1>4. t \in AnyLine /\ w \in Nat \ {0} /\ \A x \in Int : H(x) \in Int
  <2>1. t \in AnyLine
    BY <1>3 DEF Hulls
  <2> QED
    BY <2>1, LineIs
<1>5. PICK a, b \in Int : \A x \in Int : H(x) = a + b * x
  BY <1>4, HeightGrows
<1>6. \A j \in c..d : (ps[j] - eps) * w <= H(ks[j]) /\ H(ks[j]) <= (ps[j] + eps) * w
  BY <1>1, <1>3, LinesInGaps DEF InGap
<1>7. \A j \in c..d : ks[j] \in Int /\ ps[j] \in Int
  BY <1>1, PointsAre
<1>8. ks[k] < ks[l] /\ ks[m] < ks[o]
  <2>1. k \in 1..Len(ks) /\ l \in 1..Len(ks) /\ m \in 1..Len(ks) /\ o \in 1..Len(ks)
    BY <1>1
  <2>2. \A e, f \in 1..Len(ks) : e < f => ks[e] < ks[f]
    BY PointsAre
  <2> QED
    BY <1>2, <2>1, <2>2
<1> DEFINE x1 == ks[k]
           x2 == ks[l]
           x3 == ks[m]
           x4 == ks[o]
           y1 == ps[k]
           y2 == ps[l]
           y3 == ps[m]
           y4 == ps[o]
           rise == y2 - y1 - 2 * eps
           more == y4 - y3 + 2 * eps
           run  == x2 - x1
           far  == x4 - x3
<1>9. /\ x1 \in Int /\ x2 \in Int /\ x3 \in Int /\ x4 \in Int
      /\ y1 \in Int /\ y2 \in Int /\ y3 \in Int /\ y4 \in Int /\ x1 < x2 /\ x3 < x4
  BY <1>7, <1>8
<1>11. /\ (y2 - eps) * w <= a + b * x2 /\ a + b * x1 <= (y1 + eps) * w
       /\ a + b * x4 <= (y4 + eps) * w /\ (y3 - eps) * w <= a + b * x3
  BY <1>5, <1>6, <1>7
<1> HIDE DEF w, H, x1, x2, x3, x4, y1, y2, y3, y4
<1>10. rise \in Int /\ more \in Int /\ run \in Nat \ {0} /\ far \in Nat \ {0} /\ b \in Int
  BY <1>1, <1>9
<1>12. rise * w <= b * run
  <2>1. rise * w = (y2 - eps) * w - (y1 + eps) * w
    BY <1>1, <1>4, <1>9
  <2>2. b * run = (a + b * x2) - (a + b * x1)
    BY <1>5, <1>9
  <2> HIDE DEF rise, run
  <2> DEFINE g == (y2 - eps) * w
             h == (y1 + eps) * w
             e == a + b * x2
             f == a + b * x1
  <2>3. g \in Int /\ h \in Int /\ e \in Int /\ f \in Int
    BY <1>1, <1>4, <1>5, <1>9
  <2>4. g <= e /\ f <= h
    BY <1>11
  <2> HIDE DEF g, h, e, f
  <2>5. g - h <= e - f
    BY <2>3, <2>4
  <2> QED
    BY <2>1, <2>2, <2>5 DEF g, h, e, f
<1>13. b * far <= more * w
  <2>1. more * w = (y4 + eps) * w - (y3 - eps) * w
    BY <1>1, <1>4, <1>9
  <2>2. b * far = (a + b * x4) - (a + b * x3)
    BY <1>5, <1>9
  <2> HIDE DEF more, far
  <2> DEFINE g == (y4 + eps) * w
             h == (y3 - eps) * w
             e == a + b * x4
             f == a + b * x3
  <2>3. g \in Int /\ h \in Int /\ e \in Int /\ f \in Int
    BY <1>1, <1>4, <1>5, <1>9
  <2>4. e <= g /\ h <= f
    BY <1>11
  <2> HIDE DEF g, h, e, f
  <2>5. e - f <= g - h
    BY <2>3, <2>4
  <2> QED
    BY <2>1, <2>2, <2>5 DEF g, h, e, f
<1> HIDE DEF rise, more, run, far
<1>14. rise * far <= more * run
  BY <1>4, <1>10, <1>12, <1>13, FractionsOrdered
<1> QED
  BY <1>14 DEF rise, more, run, far, x1, x2, x3, x4, y1, y2, y3, y4

\* A point that does not fit the Segmenter does not fit any line with all the points
\* it has taken: it is below the shallowest line that there is or above the steepest,
\* and each of these is held by two of the points.
LEMMA UnfitPoint ==
    ASSUME NEW ks, NEW ps, SortedPoints(ks, ps), NEW c \in 1..Len(ks), NEW d \in c..(Len(ks) - 1), NEW s,
           Took(s, ks, ps, c, d), ~ Fits(s, ks[d + 1], ps[d + 1])
    PROVE  ~ LineFor(ks, ps, c, d + 1)
<1> DEFINE z == d + 1
           x == ks[z]
           y == ps[z]
           A == LowerEnds(ks, ps, c, d)
           B == UpperEnds(ks, ps, c, d)
<1>1. /\ Len(ks) \in Nat /\ z \in c..z /\ z \in 1..Len(ks) /\ eps \in Nat \ {0} /\ d \in 1..Len(ks)
      /\ \A k \in c..d : k \in c..z /\ k < z /\ k \in 1..Len(ks)
  <2>1. Len(ks) \in Nat
    BY PointsAre
  <2> QED
    BY <2>1, SegmentationAssumption
<1>2. x \in Int /\ y \in Int /\ \A k \in c..d : ks[k] \in Int /\ ps[k] \in Int
  BY <1>1, PointsAre
<1>3. Hulls(s, A, B)
  <2>1. First(ks[c], ps[c]).count = 1
    BY DEF First
  <2>2. ~ (c = d /\ s = First(ks[c], ps[c]))
    BY <2>1 DEF Fits
  <2> QED
    BY <2>2 DEF Took
<1>4. /\ s.steep \in AnyLine /\ s.shallow \in AnyLine
      /\ Side(s.lower, A, s.steep, s.shallow)
      /\ Side(Mirrored(s.upper), B, MirrorLine(s.shallow), MirrorLine(s.steep))
  BY <1>3 DEF Hulls
<1>5. s.steep.left \in A /\ s.shallow.right \in A
  <2>1. s.lower[1] = s.steep.left /\ s.lower[Len(s.lower)] = s.shallow.right
    BY <1>4 DEF Side
  <2>2. Len(s.lower) \in Nat \ {0} /\ \A k \in 1..Len(s.lower) : s.lower[k] \in A
    BY <1>4, HullIs
  <2>3. 1 \in 1..Len(s.lower) /\ Len(s.lower) \in 1..Len(s.lower)
    BY <2>2
  <2> QED
    BY <2>1, <2>2, <2>3
<1>6. Mirror(s.shallow.left) \in B /\ Mirror(s.steep.right) \in B
  <2> DEFINE g == Mirrored(s.upper)
  <2>1. g[1] = MirrorLine(s.shallow).left /\ g[Len(g)] = MirrorLine(s.steep).right
    BY <1>4 DEF Side
  <2>2. Len(g) \in Nat \ {0} /\ \A k \in 1..Len(g) : g[k] \in B
    BY <1>4, HullIs
  <2>3. 1 \in 1..Len(g) /\ Len(g) \in 1..Len(g)
    BY <2>2
  <2>4. MirrorLine(s.shallow).left = Mirror(s.shallow.left) /\ MirrorLine(s.steep).right = Mirror(s.steep.right)
    BY <1>4, MirrorIs
  <2> HIDE DEF g
  <2> QED
    BY <2>1, <2>2, <2>3, <2>4
<1>7. /\ \E k \in c..d : s.steep.left = Lower(ks[k], ps[k])
      /\ \E k \in c..d : s.shallow.right = Lower(ks[k], ps[k])
  BY <1>5 DEF LowerEnds
<1>8. /\ \E k \in c..d : s.shallow.left = Upper(ks[k], ps[k])
      /\ \E k \in c..d : s.steep.right = Upper(ks[k], ps[k])
  <2>1. ASSUME NEW p \in Points, Mirror(p) \in B
        PROVE  \E k \in c..d : p = Upper(ks[k], ps[k])
    <3>1. PICK k \in c..d : Mirror(p) = Mirror(Upper(ks[k], ps[k]))
      BY <2>1 DEF UpperEnds
    <3>2. Mirror(Mirror(p)) = p /\ Mirror(Mirror(Upper(ks[k], ps[k]))) = Upper(ks[k], ps[k])
      BY <1>2, MirrorPoint, EndsAre
    <3> QED
      BY <3>1, <3>2
  <2>2. s.shallow.left \in Points /\ s.steep.right \in Points
    BY <1>4, LineIs
  <2> HIDE DEF B
  <2> QED
    BY <1>6, <2>1, <2>2
<1>9. \A k, l \in c..d : ks[k] < ks[l] => k < l
  <2>1. SUFFICES ASSUME NEW k \in c..d, NEW l \in c..d, ks[k] < ks[l], ~ (k < l)
                 PROVE  FALSE
    OBVIOUS
  <2>2. k \in 1..Len(ks) /\ l \in 1..Len(ks) /\ (l < k \/ l = k)
    BY <1>1, <2>1
  <2>3. \A e, f \in 1..Len(ks) : e < f => ks[e] < ks[f]
    BY PointsAre
  <2>4. ks[k] \in Int /\ ks[l] \in Int
    BY <1>2
  <2> QED
    BY <2>1, <2>2, <2>3, <2>4
<1>10. ASSUME NEW k \in c..d, NEW l \in c..d, ks[k] < ks[l],
              LineFor(ks, ps, c, z)
       PROVE  /\ (ps[l] - ps[k] - 2 * eps) * (x - ks[l]) <= (y - ps[l] + 2 * eps) * (ks[l] - ks[k])
              /\ (y - ps[l] - 2 * eps) * (ks[l] - ks[k]) <= (ps[l] - ps[k] + 2 * eps) * (x - ks[l])
  <2>1. k < l
    BY <1>9, <1>10
  <2>2. k \in c..z /\ l \in c..z /\ z \in c..z /\ l < z
    BY <1>1
  <2> HIDE DEF z
  <2>3. \A e, f, g, h \in c..z :
           (e < f /\ g < h) =>
             (ps[f] - ps[e] - 2 * eps) * (ks[h] - ks[g]) <= (ps[h] - ps[g] + 2 * eps) * (ks[f] - ks[e])
    BY <1>10 DEF LineFor
  <2> QED
    BY <2>1, <2>2, <2>3
<1> HIDE DEF z, A, B
<1>11. ASSUME NEW k \in c..d, NEW l \in c..d,
              s.shallow.left = Upper(ks[k], ps[k]), s.shallow.right = Lower(ks[l], ps[l]),
              slope_less(s.shallow.right, Upper(x, y), s.shallow.left, s.shallow.right)
       PROVE  ~ LineFor(ks, ps, c, z)
  <2> DEFINE a == ks[k]
             b == ps[k]
             e == ks[l]
             f == ps[l]
  <2>1. a \in Int /\ b \in Int /\ e \in Int /\ f \in Int
    BY <1>2
  <2>2. a < e /\ s.shallow.left = Upper(a, b) /\ s.shallow.right = Lower(e, f)
    <3>1. s.shallow.left.x < s.shallow.right.x
      BY <1>4, LineIs
    <3> HIDE DEF a, b, e, f, x, y
    <3>2. Upper(a, b).x = a /\ Lower(e, f).x = e
      BY <2>1, EndsAre
    <3>3. s.shallow.left = Upper(a, b) /\ s.shallow.right = Lower(e, f)
      BY <1>11 DEF a, b, e, f
    <3> QED
      BY <3>1, <3>2, <3>3
  <2>3. LineFor(ks, ps, c, z) => (f - b - 2 * eps) * (x - e) <= (y - f + 2 * eps) * (e - a)
    BY <1>10, <2>2
  <2> HIDE DEF a, b, e, f, x, y
  <2>4. slope_less(Lower(e, f), Upper(x, y), Upper(a, b), Lower(e, f))
    BY <1>11, <2>2
  <2>5. (y + eps - (f - eps)) * (e - a) < (f - eps - (b + eps)) * (x - e)
    <3>1. \A v, w \in Int : /\ Lower(v, w).x = v /\ Lower(v, w).y = w - eps
                            /\ Upper(v, w).x = v /\ Upper(v, w).y = w + eps
      BY EndsAre
    <3>2. /\ Lower(e, f).x = e /\ Lower(e, f).y = f - eps
          /\ Upper(x, y).x = x /\ Upper(x, y).y = y + eps
          /\ Upper(a, b).x = a /\ Upper(a, b).y = b + eps
      BY <1>2, <2>1, <3>1
    <3>3. (Upper(x, y).y - Lower(e, f).y) * (Lower(e, f).x - Upper(a, b).x)
             < (Lower(e, f).y - Upper(a, b).y) * (Upper(x, y).x - Lower(e, f).x)
      BY <2>4 DEF slope_less
    <3>4. /\ Upper(x, y).y - Lower(e, f).y = y + eps - (f - eps)
          /\ Lower(e, f).x - Upper(a, b).x = e - a
          /\ Lower(e, f).y - Upper(a, b).y = f - eps - (b + eps)
          /\ Upper(x, y).x - Lower(e, f).x = x - e
      BY <1>1, <1>2, <2>1, <3>2
    <3> QED
      BY <3>3, <3>4
  <2>6. y + eps - (f - eps) = y - f + 2 * eps /\ f - eps - (b + eps) = f - b - 2 * eps
    BY <1>1, <1>2, <2>1
  <2> DEFINE g == (f - b - 2 * eps) * (x - e)
             h == (y - f + 2 * eps) * (e - a)
  <2>7. g \in Int /\ h \in Int /\ h < g
    BY <1>1, <1>2, <2>1, <2>5, <2>6
  <2> HIDE DEF g, h
  <2>8. ~ (g <= h)
    BY <2>7
  <2> QED
    BY <2>3, <2>8 DEF g, h
<1>12. ASSUME NEW k \in c..d, NEW l \in c..d,
              s.steep.left = Lower(ks[k], ps[k]), s.steep.right = Upper(ks[l], ps[l]),
              slope_less(s.steep.left, s.steep.right, s.steep.right, Lower(x, y))
       PROVE  ~ LineFor(ks, ps, c, z)
  <2> DEFINE a == ks[k]
             b == ps[k]
             e == ks[l]
             f == ps[l]
  <2>1. a \in Int /\ b \in Int /\ e \in Int /\ f \in Int
    BY <1>2
  <2>2. a < e /\ s.steep.left = Lower(a, b) /\ s.steep.right = Upper(e, f)
    <3>1. s.steep.left.x < s.steep.right.x
      BY <1>4, LineIs
    <3> HIDE DEF a, b, e, f, x, y
    <3>2. Lower(a, b).x = a /\ Upper(e, f).x = e
      BY <2>1, EndsAre
    <3>3. s.steep.left = Lower(a, b) /\ s.steep.right = Upper(e, f)
      BY <1>12 DEF a, b, e, f
    <3> QED
      BY <3>1, <3>2, <3>3
  <2>3. LineFor(ks, ps, c, z) => (y - f - 2 * eps) * (e - a) <= (f - b + 2 * eps) * (x - e)
    BY <1>10, <2>2
  <2> HIDE DEF a, b, e, f, x, y
  <2>4. slope_less(Lower(a, b), Upper(e, f), Upper(e, f), Lower(x, y))
    BY <1>12, <2>2
  <2>5. (f + eps - (b - eps)) * (x - e) < (y - eps - (f + eps)) * (e - a)
    <3>1. \A v, w \in Int : /\ Lower(v, w).x = v /\ Lower(v, w).y = w - eps
                            /\ Upper(v, w).x = v /\ Upper(v, w).y = w + eps
      BY EndsAre
    <3>2. /\ Lower(a, b).x = a /\ Lower(a, b).y = b - eps
          /\ Lower(x, y).x = x /\ Lower(x, y).y = y - eps
          /\ Upper(e, f).x = e /\ Upper(e, f).y = f + eps
      BY <1>2, <2>1, <3>1
    <3>3. (Upper(e, f).y - Lower(a, b).y) * (Lower(x, y).x - Upper(e, f).x)
             < (Lower(x, y).y - Upper(e, f).y) * (Upper(e, f).x - Lower(a, b).x)
      BY <2>4 DEF slope_less
    <3>4. /\ Upper(e, f).y - Lower(a, b).y = f + eps - (b - eps)
          /\ Lower(x, y).x - Upper(e, f).x = x - e
          /\ Lower(x, y).y - Upper(e, f).y = y - eps - (f + eps)
          /\ Upper(e, f).x - Lower(a, b).x = e - a
      BY <1>1, <1>2, <2>1, <3>2
    <3> QED
      BY <3>3, <3>4
  <2>6. y - eps - (f + eps) = y - f - 2 * eps /\ f + eps - (b - eps) = f - b + 2 * eps
    BY <1>1, <1>2, <2>1
  <2> DEFINE g == (y - f - 2 * eps) * (e - a)
             h == (f - b + 2 * eps) * (x - e)
  <2>7. g \in Int /\ h \in Int /\ h < g
    BY <1>1, <1>2, <2>1, <2>5, <2>6
  <2> HIDE DEF g, h
  <2>8. ~ (g <= h)
    BY <2>7
  <2> QED
    BY <2>3, <2>8 DEF g, h
<1>13. \/ slope_less(s.shallow.right, Upper(x, y), s.shallow.left, s.shallow.right)
       \/ slope_less(s.steep.left, s.steep.right, s.steep.right, Lower(x, y))
  BY DEF Fits, x, y, z
<1>14. ~ LineFor(ks, ps, c, z)
  BY <1>7, <1>8, <1>11, <1>12, <1>13
<1> QED
  BY <1>14 DEF z

\* A Segmenter takes a point that fits.
LEMMA TakesNext ==
    ASSUME NEW ks, NEW ps, SortedPoints(ks, ps), NEW c \in 1..Len(ks), NEW d \in c..(Len(ks) - 1), NEW s,
           Took(s, ks, ps, c, d), Fits(s, ks[d + 1], ps[d + 1])
    PROVE  Took(Added(s, ks[d + 1], ps[d + 1]), ks, ps, c, d + 1)
<1> DEFINE z == d + 1
           x == ks[z]
           y == ps[z]
<1>1. /\ Len(ks) \in Nat /\ c \in Int /\ d \in Int /\ z \in 1..Len(ks) /\ c < z
      /\ \A k \in c..d : k < z /\ k \in 1..Len(ks)
      /\ \A k : k \in c..z <=> k \in c..d \/ k = z
  <2>1. Len(ks) \in Nat
    BY PointsAre
  <2> QED
    BY <2>1
<1>2. x \in Int /\ y \in Int /\ \A k \in c..d : ks[k] \in Int /\ ps[k] \in Int /\ ks[k] < x
  <2>1. \A k \in 1..Len(ks) : ks[k] \in Int /\ ps[k] \in Int
    BY PointsAre
  <2>2. \A e, f \in 1..Len(ks) : e < f => ks[e] < ks[f]
    BY PointsAre
  <2> HIDE DEF z
  <2> QED
    BY <1>1, <2>1, <2>2
<1>3. LowerEnds(ks, ps, c, z) = LowerEnds(ks, ps, c, d) \cup {Lower(x, y)}
  <2> HIDE DEF z
  <2> QED
    BY <1>1 DEF LowerEnds
<1>4. UpperEnds(ks, ps, c, z) = UpperEnds(ks, ps, c, d) \cup {Mirror(Upper(x, y))}
  <2> HIDE DEF z
  <2> QED
    BY <1>1 DEF UpperEnds
<1>5. CASE c < d
  <2>1. Hulls(s, LowerEnds(ks, ps, c, d), UpperEnds(ks, ps, c, d))
    BY <1>1, <1>5 DEF Took
  <2> HIDE DEF z, x, y
  <2>2. \A q \in LowerEnds(ks, ps, c, d) \cup UpperEnds(ks, ps, c, d) : q.x < x
    <3>1. \A k \in c..d : Lower(ks[k], ps[k]).x < x /\ Mirror(Upper(ks[k], ps[k])).x < x
      BY <1>2, EndsAre
    <3> QED
      BY <3>1 DEF LowerEnds, UpperEnds
  <2>3. Fits(s, x, y)
    BY DEF x, y, z
  <2>4. Hulls(Added(s, x, y), LowerEnds(ks, ps, c, d) \cup {Lower(x, y)},
              UpperEnds(ks, ps, c, d) \cup {Mirror(Upper(x, y))})
    BY <1>2, <2>1, <2>2, <2>3, PointIsAdded
  <2>5. Took(Added(s, x, y), ks, ps, c, z)
    BY <1>1, <1>3, <1>4, <2>4 DEF Took
  <2> QED
    BY <2>5 DEF x, y, z
<1>6. CASE c = d
  <2>1. s = First(ks[c], ps[c])
    BY <1>1, <1>6 DEF Took
  <2>2. /\ LowerEnds(ks, ps, c, d) = {Lower(ks[c], ps[c])}
        /\ UpperEnds(ks, ps, c, d) = {Mirror(Upper(ks[c], ps[c]))}
    <3>1. \A k : k \in c..d <=> k = c
      BY <1>1, <1>6
    <3> QED
      BY <3>1 DEF LowerEnds, UpperEnds
  <2>3. c \in c..d
    BY <1>1, <1>6
  <2> HIDE DEF z, x, y
  <2>4. Hulls(Added(s, x, y), {Lower(ks[c], ps[c]), Lower(x, y)},
              {Mirror(Upper(ks[c], ps[c])), Mirror(Upper(x, y))})
    BY <1>2, <2>1, <2>3, SecondIsAdded
  <2>5. /\ LowerEnds(ks, ps, c, z) = {Lower(ks[c], ps[c]), Lower(x, y)}
        /\ UpperEnds(ks, ps, c, z) = {Mirror(Upper(ks[c], ps[c])), Mirror(Upper(x, y))}
    BY <1>3, <1>4, <2>2
  <2>6. Took(Added(s, x, y), ks, ps, c, z)
    BY <1>1, <2>4, <2>5 DEF Took
  <2> QED
    BY <2>6 DEF x, y, z
<1> QED
  BY <1>1, <1>5, <1>6

\* What a Segmenter has taken does not change with points that come later.
LEMMA StillTook ==
    ASSUME NEW ks, NEW ps, NEW more, NEW longer, NEW c, NEW d, NEW s,
           \A k \in c..d : more[k] = ks[k] /\ longer[k] = ps[k]
    PROVE  /\ c \in c..d /\ Took(s, ks, ps, c, d) => Took(s, more, longer, c, d)
           /\ LineFor(more, longer, c, d) <=> LineFor(ks, ps, c, d)
<1>1. /\ LowerEnds(more, longer, c, d) = LowerEnds(ks, ps, c, d)
      /\ UpperEnds(more, longer, c, d) = UpperEnds(ks, ps, c, d)
  BY DEF LowerEnds, UpperEnds
<1>2. c \in c..d /\ Took(s, ks, ps, c, d) => Took(s, more, longer, c, d)
  <2>1. CASE c < d
    BY <1>1, <2>1 DEF Took
  <2>2. CASE ~ (c < d)
    BY <2>2 DEF Took
  <2> QED
    BY <2>1, <2>2
<1>3. LineFor(more, longer, c, d) <=> LineFor(ks, ps, c, d)
  <2>1. \A k, l, m, o \in c..d :
           /\ longer[l] - longer[k] - 2 * eps = ps[l] - ps[k] - 2 * eps
           /\ longer[o] - longer[m] + 2 * eps = ps[o] - ps[m] + 2 * eps
           /\ more[o] - more[m] = ks[o] - ks[m] /\ more[l] - more[k] = ks[l] - ks[k]
    OBVIOUS
  <2> QED
    BY <2>1 DEF LineFor
<1> QED
  BY <1>2, <1>3

\* A line for some points is one for some of them.
LEMMA LineForFewer ==
    ASSUME NEW ks, NEW ps, NEW a \in Int, NEW b \in Int, NEW c \in Int, NEW d \in Int, a <= c, d <= b,
           LineFor(ks, ps, a, b)
    PROVE  LineFor(ks, ps, c, d)
<1>1. \A k \in c..d : k \in a..b
  OBVIOUS
<1> QED
  BY <1>1 DEF LineFor

\* The average of its two lines is in the gaps of the points a Segmenter has taken.
LEMMA AverageInGaps ==
    ASSUME NEW ks, NEW ps, SortedPoints(ks, ps), NEW c \in 1..Len(ks), NEW d \in c..Len(ks), NEW s,
           Took(s, ks, ps, c, d), NEW k \in c..d
    PROVE  Within(LineNum(s, ks[k]), LineDen(s), ps[k])
<1> DEFINE x == ks[k]
           y == ps[k]
<1>1. k \in 1..Len(ks) /\ d \in 1..Len(ks) /\ c \in Int /\ d \in Int
  <2>1. Len(ks) \in Nat
    BY PointsAre
  <2> QED
    BY <2>1
<1>2. x \in Int /\ y \in Int /\ eps \in Nat
  BY <1>1, PointsAre, SegmentationAssumption
<1>3. CASE c = d
  <2>1. k = c
    BY <1>1, <1>3
  <2>2. s = First(x, y)
    BY <1>1, <1>3, <2>1 DEF Took
  <2> HIDE DEF x, y
  <2>3. s.count = 1 /\ s.shallow.left.y = y + eps /\ s.steep.left.y = y - eps
    BY <1>2, <2>2, EndsAre DEF First, Through
  <2>4. LineNum(s, x) = (y + eps) + (y - eps) /\ LineDen(s) = 2
    BY <2>3 DEF LineNum, LineDen
  <2>5. Within(LineNum(s, x), LineDen(s), y)
    BY <1>2, <2>4 DEF Within
  <2> QED
    BY <2>5 DEF x, y
<1>4. CASE c < d
  <2> DEFINE v == Across(s.shallow)
             w == Across(s.steep)
             g == HeightAt(s.shallow, x)
             h == HeightAt(s.steep, x)
  <2>1. Hulls(s, LowerEnds(ks, ps, c, d), UpperEnds(ks, ps, c, d))
    BY <1>1, <1>4 DEF Took
  <2>2. v \in Nat \ {0} /\ w \in Nat \ {0} /\ g \in Int /\ h \in Int
    BY <1>2, <2>1, LineIs DEF Hulls
  <2>3. (y - eps) * v <= g /\ g <= (y + eps) * v /\ (y - eps) * w <= h /\ h <= (y + eps) * w
    BY <1>1, <2>1, LinesInGaps DEF InGap
  <2>4. s.count # 1
    BY <2>1 DEF Hulls, Segmenters
  <2>5. LineNum(s, x) = g * w + h * v /\ LineDen(s) = 2 * v * w
    BY <2>4 DEF LineNum, LineDen, Across
  <2> HIDE DEF x, y, v, w, g, h
  <2> DEFINE low  == y - eps
             high == y + eps
  <2>6. low \in Int /\ high \in Int /\ low * v <= g /\ g <= high * v /\ low * w <= h /\ h <= high * w
    BY <1>2, <2>3
  <2> HIDE DEF low, high
  <2> DEFINE a == low * v
             b == high * v
             e == low * w
             f == high * w
  <2>7. a \in Int /\ b \in Int /\ e \in Int /\ f \in Int
    BY <2>2, <2>6
  <2>8. a <= g /\ g <= b /\ e <= h /\ h <= f
    BY <2>6
  <2> HIDE DEF a, b, e, f
  <2>9. w * a <= w * g /\ w * g <= w * b /\ v * e <= v * h /\ v * h <= v * f
    BY <2>2, <2>7, <2>8, TimesMore
  <2>10. w * a = low * (v * w) /\ w * b = high * (v * w) /\ v * e = low * (v * w) /\ v * f = high * (v * w)
    BY <2>2, <2>6 DEF a, b, e, f
  <2> DEFINE p == v * w
             q == g * w + h * v
  <2>11. p \in Int /\ q \in Int /\ q = w * g + v * h /\ w * g \in Int /\ v * h \in Int /\ 2 * v * w = 2 * p
    BY <2>2
  <2>12. low * p \in Int /\ high * p \in Int /\ low * p <= w * g /\ w * g <= high * p
         /\ low * p <= v * h /\ v * h <= high * p
    BY <2>6, <2>9, <2>10, <2>11
  <2> HIDE DEF p, q
  <2>13. 2 * (low * p) <= q /\ q <= 2 * (high * p)
    <3> DEFINE l1 == low * p
               h1 == high * p
               g1 == w * g
               g2 == v * h
    <3>1. l1 \in Int /\ h1 \in Int /\ g1 \in Int /\ g2 \in Int /\ q = g1 + g2
      BY <2>11, <2>12
    <3>2. l1 <= g1 /\ g1 <= h1 /\ l1 <= g2 /\ g2 <= h1
      BY <2>12
    <3> HIDE DEF l1, h1, g1, g2
    <3>3. 2 * l1 <= q /\ q <= 2 * h1
      BY <3>1, <3>2
    <3> QED
      BY <3>3 DEF l1, h1
  <2>14. q - y * (2 * p) \in (-eps * (2 * p))..(eps * (2 * p))
    <3>1. 2 * (low * p) = y * (2 * p) - eps * (2 * p) /\ 2 * (high * p) = y * (2 * p) + eps * (2 * p)
      BY <1>2, <2>11 DEF low, high
    <3> DEFINE m == y * (2 * p)
               o == eps * (2 * p)
    <3>2. m \in Int /\ o \in Int /\ -eps * (2 * p) = -o
      BY <1>2, <2>11
    <3>3. m - o <= q /\ q <= m + o
      BY <2>13, <3>1
    <3> HIDE DEF m, o
    <3>4. q - m \in (-o)..o
      BY <2>11, <3>2, <3>3
    <3> QED
      BY <3>2, <3>4 DEF m, o
  <2>15. Within(LineNum(s, x), LineDen(s), y)
    BY <2>5, <2>11, <2>14 DEF Within, p, q
  <2> QED
    BY <2>15 DEF x, y
<1> QED
  BY <1>1, <1>3, <1>4

-----------------------------------------------------------------------------
(* The segments.                                                           *)

\* A segment, finished or open.
AnyPiece == [start : Int, segmenter : Segmenters]

\* The last point of a segment.
EndOf(ks, segs, t) == IF t < Len(segs) THEN segs[t + 1].start - 1 ELSE Len(ks)

\* Each segment's Segmenter has taken the points from its start up to the next one's,
\* and no line fits these and that next start.
Pieces(segs, ks, ps) ==
    /\ segs \in Seq(AnyPiece) /\ segs # <<>> /\ segs[1].start = 1
    /\ \A t \in 1..Len(segs) :
          /\ segs[t].start \in 1..Len(ks)
          /\ EndOf(ks, segs, t) \in segs[t].start..Len(ks)
          /\ Took(segs[t].segmenter, ks, ps, segs[t].start, EndOf(ks, segs, t))
    /\ \A t, m \in 1..Len(segs) : t < m => segs[t].start < segs[m].start
    /\ \A t \in 1..(Len(segs) - 1) : ~ LineFor(ks, ps, segs[t].start, segs[t + 1].start)

\* A sequence with something at its end.
LEMMA WithLast ==
    ASSUME NEW S, NEW seq \in Seq(S), NEW e \in S
    PROVE  /\ Append(seq, e) \in Seq(S) /\ Append(seq, e) # <<>>
           /\ Len(seq) \in Nat /\ Len(Append(seq, e)) = Len(seq) + 1
           /\ Append(seq, e)[Len(seq) + 1] = e
           /\ \A k \in 1..Len(seq) : Append(seq, e)[k] = seq[k]
BY AppendProperties, LenProperties

\* The Segmenters are what they have to be.
LEMMA FirstIsSegmenter ==
    ASSUME NEW x \in Int, NEW y \in Int
    PROVE  First(x, y) \in Segmenters
<1> DEFINE p == Upper(x, y)
           q == Lower(x, y)
<1>1. p \in Points /\ q \in Points
  BY EndsAre
<1> HIDE DEF p, q
<1>2. <<p>> \in Seq(Points) /\ <<q>> \in Seq(Points)
  BY <1>1
<1> QED
  BY <1>1, <1>2 DEF First, Segmenters, Through, p, q

\* A point that fits goes to the last segment; one that does not begins another.
LEMMA PiecesGrow ==
    ASSUME NEW ks, NEW ps, SortedPoints(ks, ps), NEW x \in Int, NEW y \in Int,
           SortedPoints(Append(ks, x), Append(ps, y)),
           NEW front \in Seq(AnyPiece), NEW last \in AnyPiece, Pieces(Append(front, last), ks, ps)
    PROVE  IF Fits(last.segmenter, x, y)
           THEN Pieces(Append(front, [start |-> last.start, segmenter |-> Added(last.segmenter, x, y)]),
                       Append(ks, x), Append(ps, y))
           ELSE Pieces(Append(Append(front, last), [start |-> Len(ks) + 1, segmenter |-> First(x, y)]),
                       Append(ks, x), Append(ps, y))
<1> DEFINE segs == Append(front, last)
           z    == Len(segs)
           size == Len(ks)
           new  == size + 1
           more == Append(ks, x)
           longer == Append(ps, y)
<1>1. /\ ks \in Seq(Int) /\ ps \in Seq(Int) /\ size \in Nat /\ Len(ps) = size
      /\ Len(more) = new /\ more[new] = x /\ longer[new] = y
      /\ \A k \in 1..size : more[k] = ks[k] /\ longer[k] = ps[k]
  <2>1. ks \in Seq(Int) /\ ps \in Seq(Int) /\ Len(ps) = size
    BY DEF SortedPoints
  <2> QED
    BY <2>1, WithLast
<1>2. /\ segs \in Seq(AnyPiece) /\ segs # <<>> /\ z \in Nat \ {0} /\ z = Len(front) + 1 /\ segs[z] = last
      /\ \A t \in 1..(z - 1) : segs[t] = front[t]
  BY WithLast
<1>3. /\ segs[1].start = 1
      /\ \A t \in 1..z :
            /\ segs[t].start \in 1..size
            /\ EndOf(ks, segs, t) \in segs[t].start..size
            /\ Took(segs[t].segmenter, ks, ps, segs[t].start, EndOf(ks, segs, t))
      /\ \A t, m \in 1..z : t < m => segs[t].start < segs[m].start
      /\ \A t \in 1..(z - 1) : ~ LineFor(ks, ps, segs[t].start, segs[t + 1].start)
  BY DEF Pieces
<1> HIDE DEF segs, more, longer
<1>4. \A t \in 1..z : Took(segs[t].segmenter, more, longer, segs[t].start, EndOf(ks, segs, t))
  <2>1. SUFFICES ASSUME NEW t \in 1..z
                 PROVE  Took(segs[t].segmenter, more, longer, segs[t].start, EndOf(ks, segs, t))
    OBVIOUS
  <2> DEFINE c == segs[t].start
             d == EndOf(ks, segs, t)
  <2>2. c \in 1..size /\ d \in c..size /\ Took(segs[t].segmenter, ks, ps, c, d)
    BY <1>3
  <2> HIDE DEF c, d
  <2>3. c \in c..d /\ \A k \in c..d : more[k] = ks[k] /\ longer[k] = ps[k]
    <3>1. c \in c..d /\ \A k \in c..d : k \in 1..size
      BY <1>1, <2>2
    <3> QED
      BY <1>1, <3>1, Zenon
  <2>4. Took(segs[t].segmenter, more, longer, c, d)
    BY <2>2, <2>3, StillTook
  <2> QED
    BY <2>4 DEF c, d
<1>5. \A t \in 1..(z - 1) : ~ LineFor(more, longer, segs[t].start, segs[t + 1].start)
  <2>1. SUFFICES ASSUME NEW t \in 1..(z - 1)
                 PROVE  ~ LineFor(more, longer, segs[t].start, segs[t + 1].start)
    OBVIOUS
  <2> DEFINE c == segs[t].start
             d == segs[t + 1].start
  <2>2. c \in 1..size /\ d \in 1..size /\ ~ LineFor(ks, ps, c, d)
    <3>1. t \in 1..z /\ t + 1 \in 1..z
      BY <1>2
    <3> QED
      BY <1>3, <3>1
  <2> HIDE DEF c, d
  <2>3. \A k \in c..d : more[k] = ks[k] /\ longer[k] = ps[k]
    <3>1. \A k \in c..d : k \in 1..size
      BY <1>1, <2>2
    <3> QED
      BY <1>1, <3>1, Zenon
  <2>4. ~ LineFor(more, longer, c, d)
    BY <2>2, <2>3, StillTook
  <2> QED
    BY <2>4 DEF c, d
<1> DEFINE from == segs[z].start
<1>6. /\ from \in 1..size /\ EndOf(ks, segs, z) = size /\ size \in from..size
      /\ Took(last.segmenter, more, longer, from, size) /\ from = last.start
      /\ from \in 1..Len(more) /\ size \in from..(Len(more) - 1) /\ new \in from..new /\ new \in 1..new
      /\ new = Len(more) /\ \A k : k \in 1..size => k \in 1..new
      /\ SortedPoints(more, longer)
  <2>1. z \in 1..z
    BY <1>2
  <2>2. EndOf(ks, segs, z) = size
    BY <1>2 DEF EndOf
  <2>3. from \in 1..size /\ Took(last.segmenter, more, longer, from, size) /\ from = last.start
    BY <1>2, <1>3, <1>4, <2>1, <2>2
  <2>4. SortedPoints(more, longer)
    BY DEF more, longer
  <2> HIDE DEF from
  <2> QED
    BY <1>1, <2>2, <2>3, <2>4
<1> HIDE DEF from
<1>7. CASE Fits(last.segmenter, x, y)
  <2> DEFINE p == [start |-> last.start, segmenter |-> Added(last.segmenter, x, y)]
             h == Append(front, p)
  <2>1. Took(Added(last.segmenter, x, y), more, longer, from, new)
    BY <1>1, <1>6, <1>7, TakesNext
  <2>2. p \in AnyPiece /\ p.start = from /\ p.segmenter = Added(last.segmenter, x, y)
    <3>1. from < new
      BY <1>1, <1>6
    <3>2. Added(last.segmenter, x, y) \in Segmenters
      BY <2>1, <3>1 DEF Took, Hulls
    <3>3. last.start \in Int
      BY DEF AnyPiece
    <3> QED
      BY <1>6, <3>2, <3>3 DEF AnyPiece
  <2> HIDE DEF p
  <2>3. /\ h \in Seq(AnyPiece) /\ h # <<>> /\ Len(h) = z /\ h[z] = p
        /\ \A t \in 1..(z - 1) : h[t] = segs[t]
    <3>1. /\ h \in Seq(AnyPiece) /\ h # <<>> /\ Len(h) = Len(front) + 1 /\ h[Len(front) + 1] = p
          /\ Len(front) \in Nat /\ \A t \in 1..Len(front) : h[t] = front[t]
      BY <2>2, WithLast
    <3> HIDE DEF h
    <3>2. z - 1 = Len(front)
      BY <1>2, <3>1
    <3> QED
      BY <1>2, <3>1, <3>2
  <2> HIDE DEF h
  <2>4. \A t \in 1..z : h[t].start = segs[t].start /\ (t = z \/ t \in 1..(z - 1))
    <3>1. \A t \in 1..z : t = z \/ t \in 1..(z - 1)
      BY <1>2
    <3> QED
      BY <2>2, <2>3, <3>1 DEF from
  <2>5. /\ EndOf(more, h, z) = new
        /\ \A t \in 1..(z - 1) : EndOf(more, h, t) = EndOf(ks, segs, t)
    <3>1. ~ (z < z) /\ \A t \in 1..(z - 1) : t < z /\ t + 1 \in 1..z
      BY <1>2
    <3> QED
      BY <1>1, <2>3, <2>4, <3>1 DEF EndOf
  <2>6. ASSUME NEW t \in 1..z
        PROVE  /\ h[t].start \in 1..new
               /\ EndOf(more, h, t) \in h[t].start..new
               /\ Took(h[t].segmenter, more, longer, h[t].start, EndOf(more, h, t))
    <3>1. CASE t = z
      BY <1>6, <2>1, <2>2, <2>3, <2>5, <3>1
    <3>2. CASE t \in 1..(z - 1)
      <4>1. h[t] = segs[t] /\ EndOf(more, h, t) = EndOf(ks, segs, t)
        BY <2>3, <2>5, <3>2
      <4>2. segs[t].start \in 1..size /\ EndOf(ks, segs, t) \in segs[t].start..size
        BY <1>3
      <4>3. Took(segs[t].segmenter, more, longer, segs[t].start, EndOf(ks, segs, t))
        BY <1>4
      <4>4. \A a \in 1..size : \A b \in a..size : b \in a..new
        BY <1>1
      <4> QED
        BY <1>6, <4>1, <4>2, <4>3, <4>4
    <3> QED
      BY <2>4, <3>1, <3>2
  <2>7. h[1].start = 1 /\ \A t, m \in 1..z : t < m => h[t].start < h[m].start
    <3>1. 1 \in 1..z
      BY <1>2
    <3> QED
      BY <1>3, <2>4, <3>1
  <2>8. \A t \in 1..(z - 1) : ~ LineFor(more, longer, h[t].start, h[t + 1].start)
    <3>1. \A t \in 1..(z - 1) : t \in 1..z /\ t + 1 \in 1..z
      BY <1>2
    <3> QED
      BY <1>5, <2>4, <3>1
  <2>9. Pieces(h, more, longer)
    BY <1>1, <2>3, <2>6, <2>7, <2>8 DEF Pieces
  <2> QED
    BY <1>7, <2>9 DEF h, p, more, longer
<1>8. CASE ~ Fits(last.segmenter, x, y)
  <2> DEFINE p == [start |-> Len(ks) + 1, segmenter |-> First(x, y)]
             h == Append(segs, p)
             y1 == z + 1
  <2>1. ~ LineFor(more, longer, from, new)
    BY <1>1, <1>6, <1>8, UnfitPoint
  <2>2. p \in AnyPiece /\ p.start = new /\ p.segmenter = First(x, y)
    <3>1. First(x, y) \in Segmenters
      BY FirstIsSegmenter
    <3> QED
      BY <1>1, <3>1 DEF AnyPiece
  <2> HIDE DEF p
  <2>3. /\ h \in Seq(AnyPiece) /\ h # <<>> /\ Len(h) = y1 /\ h[y1] = p
        /\ \A t \in 1..z : h[t] = segs[t]
    BY <1>2, <2>2, WithLast
  <2> HIDE DEF h
  <2>4. \A t \in 1..y1 : t = y1 \/ t \in 1..z
    BY <1>2
  <2>5. /\ EndOf(more, h, y1) = new
        /\ \A t \in 1..z : EndOf(more, h, t) = EndOf(ks, segs, t)
    <3>1. ~ (y1 < y1) /\ z < y1 /\ \A t \in 1..(z - 1) : t < z /\ t < y1 /\ t + 1 \in 1..z
      BY <1>2
    <3>2. EndOf(more, h, y1) = new
      BY <1>1, <2>3, <3>1 DEF EndOf
    <3>3. EndOf(more, h, z) = new - 1
      BY <2>2, <2>3, <3>1 DEF EndOf
    <3>4. \A t \in 1..(z - 1) : EndOf(more, h, t) = EndOf(ks, segs, t)
      BY <2>3, <3>1 DEF EndOf
    <3>5. \A t \in 1..z : t = z \/ t \in 1..(z - 1)
      BY <1>2
    <3>6. new - 1 = EndOf(ks, segs, z)
      BY <1>1, <1>6
    <3> QED
      BY <3>2, <3>3, <3>4, <3>5, <3>6
  <2>6. ASSUME NEW t \in 1..y1
        PROVE  /\ h[t].start \in 1..new
               /\ EndOf(more, h, t) \in h[t].start..new
               /\ Took(h[t].segmenter, more, longer, h[t].start, EndOf(more, h, t))
    <3>1. CASE t = y1
      <4>1. h[t].start = new /\ EndOf(more, h, t) = new /\ h[t].segmenter = First(more[new], longer[new])
        BY <1>1, <2>2, <2>3, <2>5, <3>1
      <4>2. Took(h[t].segmenter, more, longer, h[t].start, EndOf(more, h, t))
        BY <4>1 DEF Took
      <4>3. new \in 1..new /\ new \in new..new
        BY <1>1
      <4> QED
        BY <4>1, <4>2, <4>3
    <3>2. CASE t \in 1..z
      <4>1. h[t] = segs[t] /\ EndOf(more, h, t) = EndOf(ks, segs, t)
        BY <2>3, <2>5, <3>2
      <4>2. segs[t].start \in 1..size /\ EndOf(ks, segs, t) \in segs[t].start..size
        BY <1>3, <3>2
      <4>3. Took(segs[t].segmenter, more, longer, segs[t].start, EndOf(ks, segs, t))
        BY <1>4, <3>2
      <4>4. \A a \in 1..size : \A b \in a..size : b \in a..new
        BY <1>1
      <4> QED
        BY <1>6, <4>1, <4>2, <4>3, <4>4
    <3> QED
      BY <2>4, <3>1, <3>2
  <2>7. h[1].start = 1 /\ \A t, m \in 1..y1 : t < m => h[t].start < h[m].start
    <3>1. 1 \in 1..z
      BY <1>2
    <3>2. ASSUME NEW t \in 1..y1, NEW m \in 1..y1, t < m
          PROVE  h[t].start < h[m].start
      <4>1. t \in 1..z
        BY <1>2, <3>2
      <4>2. CASE m \in 1..z
        BY <1>3, <2>3, <3>2, <4>1, <4>2
      <4>3. CASE m = y1
        <5>1. h[t].start \in 1..size /\ h[m].start = new
          BY <1>3, <2>2, <2>3, <4>1, <4>3
        <5> QED
          BY <1>1, <5>1
      <4> QED
        BY <2>4, <4>2, <4>3
    <3> QED
      BY <1>3, <2>3, <3>1, <3>2
  <2>8. \A t \in 1..(y1 - 1) : ~ LineFor(more, longer, h[t].start, h[t + 1].start)
    <3>1. \A t \in 1..(y1 - 1) : t \in 1..z /\ ((t \in 1..(z - 1) /\ t + 1 \in 1..z) \/ (t = z /\ t + 1 = y1))
      BY <1>2
    <3>2. h[z].start = from /\ h[y1].start = new
      <4>1. z \in 1..z
        BY <1>2
      <4> QED
        BY <2>2, <2>3, <4>1 DEF from
    <3> QED
      BY <1>5, <2>1, <2>3, <3>1, <3>2
  <2>9. Pieces(h, more, longer)
    BY <1>1, <2>3, <2>6, <2>7, <2>8 DEF Pieces
  <2> QED
    BY <1>8, <2>9 DEF h, p, more, longer, segs
<1> QED
  BY <1>7, <1>8

\* The segments, finished and open, are right in every state.
PiecesRight ==
    /\ PointsInOrder /\ closed \in Seq(AnyPiece) /\ start \in Int /\ segmenter \in Segmenters
    /\ Pieces(Segments, keys, positions)

LEMMA PiecesStayRight == SegmentationSpec => []PiecesRight
<1>1. SegmentationInit => PiecesRight
  <2>1. SUFFICES ASSUME SegmentationInit
                 PROVE  PiecesRight
    OBVIOUS
  <2>2. /\ keys = <<0>> /\ positions = <<0>> /\ closed = <<>> /\ start = 1 /\ segmenter = First(0, 0)
    BY <2>1 DEF SegmentationInit
  <2>3. PointsInOrder
    <3>1. <<0>> \in Seq(Int) /\ IsAscending(<<0>>) /\ Len(<<0>>) = 1 /\ <<0>> # <<>>
      BY DEF IsAscending
    <3> QED
      BY <2>2, <3>1 DEF PointsInOrder, SortedPoints
  <2> DEFINE p == [start |-> 1, segmenter |-> First(0, 0)]
             h == Append(<<>>, p)
  <2>4. p \in AnyPiece /\ p.start = 1 /\ p.segmenter = First(0, 0) /\ segmenter \in Segmenters
    BY <2>2, FirstIsSegmenter DEF AnyPiece
  <2> HIDE DEF p
  <2>5. <<>> \in Seq(AnyPiece) /\ Len(<<>>) = 0
    OBVIOUS
  <2>6. h \in Seq(AnyPiece) /\ h # <<>> /\ Len(h) = 1 /\ h[1] = p
    BY <2>4, <2>5, WithLast
  <2>7. Segments = h
    BY <2>2 DEF Segments, p
  <2> HIDE DEF h
  <2>8. Len(keys) = 1 /\ keys[1] = 0 /\ positions[1] = 0
    BY <2>2
  <2>9. EndOf(keys, h, 1) = 1
    BY <2>6, <2>8 DEF EndOf
  <2>10. Took(h[1].segmenter, keys, positions, 1, 1)
    BY <2>4, <2>6, <2>8 DEF Took
  <2>11. (\A t \in 1..1 : t = 1) /\ ~ (1 < 1) /\ (\A t \in 1..0 : FALSE) /\ 1 \in 1..1
    OBVIOUS
  <2>12. Pieces(h, keys, positions)
    <3>1. \A t \in 1..Len(h) :
             /\ h[t].start \in 1..Len(keys)
             /\ EndOf(keys, h, t) \in h[t].start..Len(keys)
             /\ Took(h[t].segmenter, keys, positions, h[t].start, EndOf(keys, h, t))
      BY <2>4, <2>6, <2>8, <2>9, <2>10, <2>11
    <3>2. \A t, m \in 1..Len(h) : ~ (t < m)
      BY <2>6
    <3>3. \A t \in 1..(Len(h) - 1) : FALSE
      BY <2>6
    <3> QED
      BY <2>4, <2>6, <3>1, <3>2, <3>3 DEF Pieces
  <2> QED
    BY <2>2, <2>3, <2>4, <2>5, <2>7, <2>12 DEF PiecesRight
<1>2. PiecesRight /\ PointsInOrder' /\ [SegmentationNext]_segVars => PiecesRight'
  <2>1. SUFFICES ASSUME PiecesRight, PointsInOrder', [SegmentationNext]_segVars
                 PROVE  PiecesRight'
    OBVIOUS
  <2>2. CASE UNCHANGED segVars
    BY <2>1, <2>2 DEF PiecesRight, PointsInOrder, Segments, segVars
  <2>3. CASE SegmentationNext
    <3> DEFINE last == [start |-> start, segmenter |-> segmenter]
    <3>1. PICK dx \in Dx, dy \in Dy : NextPoint(Last(keys) + dx, Last(positions) + dy)
      BY <2>3 DEF SegmentationNext
    <3> DEFINE x == Last(keys) + dx
               y == Last(positions) + dy
    <3>2. keys' = Append(keys, x) /\ positions' = Append(positions, y)
      BY <3>1 DEF NextPoint
    <3>3. x \in Int /\ y \in Int
      <4>1. dx \in Int /\ dy \in Int
        BY SegmentationAssumption
      <4>2. /\ keys \in Seq(Int) /\ positions \in Seq(Int) /\ Len(keys) \in Nat \ {0}
            /\ Len(positions) = Len(keys)
        <5>1. keys \in Seq(Int) /\ positions \in Seq(Int) /\ keys # <<>> /\ Len(positions) = Len(keys)
          BY <2>1 DEF PiecesRight, PointsInOrder, SortedPoints
        <5> QED
          BY <5>1, EmptySeq, LenProperties
      <4>3. Last(keys) \in Int /\ Last(positions) \in Int
        <5>1. Len(keys) \in 1..Len(keys)
          BY <4>2
        <5> QED
          BY <4>2, <5>1, ElementOfSeq DEF Last
      <4> QED
        BY <4>1, <4>3
    <3>4. IF Fits(segmenter, x, y)
          THEN segmenter' = Added(segmenter, x, y) /\ UNCHANGED <<closed, start>>
          ELSE /\ closed' = Append(closed, last)
               /\ segmenter' = First(x, y)
               /\ start' = Len(keys) + 1
      BY <3>1 DEF NextPoint
    <3> HIDE DEF x, y
    <3>5. /\ SortedPoints(keys, positions) /\ SortedPoints(Append(keys, x), Append(positions, y))
          /\ closed \in Seq(AnyPiece) /\ start \in Int /\ segmenter \in Segmenters
          /\ Pieces(Append(closed, last), keys, positions)
      BY <2>1, <3>2 DEF PiecesRight, PointsInOrder, Segments
    <3>6. last \in AnyPiece /\ last.start = start /\ last.segmenter = segmenter
      BY <3>5 DEF AnyPiece
    <3>7. IF Fits(segmenter, x, y)
          THEN Pieces(Append(closed, [start |-> start, segmenter |-> Added(segmenter, x, y)]),
                      keys', positions')
          ELSE Pieces(Append(Append(closed, last), [start |-> Len(keys) + 1, segmenter |-> First(x, y)]),
                      keys', positions')
      <4> HIDE DEF last
      <4>1. IF Fits(last.segmenter, x, y)
            THEN Pieces(Append(closed, [start |-> last.start, segmenter |-> Added(last.segmenter, x, y)]),
                        Append(keys, x), Append(positions, y))
            ELSE Pieces(Append(Append(closed, last), [start |-> Len(keys) + 1, segmenter |-> First(x, y)]),
                        Append(keys, x), Append(positions, y))
        BY <3>3, <3>5, <3>6, PiecesGrow
      <4> QED
        BY <3>2, <3>6, <4>1
    <3> DEFINE new == [start |-> start', segmenter |-> segmenter']
    <3>8. closed' \in Seq(AnyPiece) /\ Pieces(Append(closed', new), keys', positions')
      <4>1. CASE Fits(segmenter, x, y)
        BY <3>4, <3>5, <3>7, <4>1
      <4>2. CASE ~ Fits(segmenter, x, y)
        <5>1. closed' = Append(closed, last) /\ new = [start |-> Len(keys) + 1, segmenter |-> First(x, y)]
          BY <3>4, <4>2
        <5>2. Append(closed, last) \in Seq(AnyPiece)
          BY <3>5, <3>6, WithLast
        <5> HIDE DEF last, new
        <5> QED
          BY <3>7, <4>2, <5>1, <5>2
      <4> QED
        BY <4>1, <4>2
    <3>9. start' \in Int /\ segmenter' \in Segmenters
      <4>1. CASE Fits(segmenter, x, y)
        <5> DEFINE a == [start |-> start, segmenter |-> Added(segmenter, x, y)]
        <5>1. Append(closed, a) \in Seq(AnyPiece) /\ Append(closed, a)[Len(closed) + 1] = a
              /\ Len(Append(closed, a)) = Len(closed) + 1 /\ Len(closed) \in Nat
          <6>1. Append(closed, a) \in Seq(AnyPiece)
            BY <3>7, <4>1 DEF Pieces
          <6> HIDE DEF a
          <6> QED
            BY <3>5, <6>1, AppendProperties, LenProperties
        <5>2. a \in AnyPiece
          <6> HIDE DEF a
          <6>1. Len(closed) + 1 \in 1..Len(Append(closed, a))
            BY <5>1
          <6> QED
            BY <5>1, <6>1, ElementOfSeq
        <5>3. Added(segmenter, x, y) \in Segmenters
          BY <5>2 DEF AnyPiece
        <5> QED
          BY <3>4, <3>5, <4>1, <5>3
      <4>2. CASE ~ Fits(segmenter, x, y)
        <5>1. Len(keys) + 1 \in Int /\ First(x, y) \in Segmenters
          BY <3>3, <3>5, PointsAre, FirstIsSegmenter
        <5> QED
          BY <3>4, <4>2, <5>1
      <4> QED
        BY <4>1, <4>2
    <3> QED
      BY <2>1, <3>8, <3>9 DEF PiecesRight, Segments
  <2> QED
    BY <2>1, <2>2, <2>3
<1> QED
  BY <1>1, <1>2, PointsStayInOrder, PTL DEF SegmentationSpec

\* The number of the segment a point is in.
NumberOf(segs, k) == Max({s \in DOMAIN segs : segs[s].start <= k})

\* It starts no later, and the next one after the point.
LEMMA NumberIs ==
    ASSUME NEW segs, NEW ks, NEW ps, Pieces(segs, ks, ps), Len(ks) \in Nat, NEW k \in 1..Len(ks)
    PROVE  LET t == NumberOf(segs, k)
           IN  /\ t \in 1..Len(segs) /\ Len(segs) \in Nat \ {0} /\ segs[t].start \in 1..k
               /\ k \in segs[t].start..EndOf(ks, segs, t)
               /\ \A m \in 1..Len(segs) : segs[m].start <= k => m <= t
<1> DEFINE S == {s \in DOMAIN segs : segs[s].start <= k}
           t == Max(S)
           z == Len(segs)
<1>1. /\ z \in Nat \ {0} /\ DOMAIN segs = 1..z /\ segs[1].start = 1
      /\ \A s \in 1..z : segs[s].start \in 1..Len(ks)
  <2>1. segs \in Seq(AnyPiece) /\ segs # <<>> /\ segs[1].start = 1
    BY DEF Pieces
  <2>2. z \in Nat \ {0} /\ DOMAIN segs = 1..z
    BY <2>1, EmptySeq, LenProperties
  <2> QED
    BY <2>1, <2>2 DEF Pieces
<1>2. S \in SUBSET Int /\ S # {} /\ \A s \in S : s <= z
  <2>1. 1 \in S
    BY <1>1
  <2> QED
    BY <1>1, <2>1
<1>3. t \in S /\ \A s \in S : s <= t
  <2> HIDE DEF S
  <2>1. z \in Int
    BY <1>1
  <2> HIDE DEF z
  <2> QED
    BY <1>2, <2>1, MaxOf
<1> HIDE DEF t
<1>4. /\ t \in 1..z /\ segs[t].start <= k /\ segs[t].start \in 1..Len(ks)
      /\ \A m \in 1..z : segs[m].start <= k => m <= t
  BY <1>1, <1>3
<1>5. k <= EndOf(ks, segs, t)
  <2>1. CASE t < z
    <3>1. t + 1 \in 1..z /\ ~ (t + 1 <= t)
      BY <1>1, <1>4, <2>1
    <3>2. ~ (segs[t + 1].start <= k) /\ segs[t + 1].start \in Int
      BY <1>1, <1>4, <3>1
    <3>3. EndOf(ks, segs, t) = segs[t + 1].start - 1
      BY <2>1 DEF EndOf
    <3> QED
      BY <3>2, <3>3
  <2>2. CASE ~ (t < z)
    BY <2>2 DEF EndOf
  <2> QED
    BY <2>1, <2>2
<1>6. EndOf(ks, segs, t) \in Int
  <2>1. EndOf(ks, segs, t) \in segs[t].start..Len(ks)
    BY <1>4 DEF Pieces
  <2> QED
    BY <2>1
<1>7. k \in segs[t].start..EndOf(ks, segs, t) /\ segs[t].start \in 1..k
  BY <1>4, <1>5, <1>6
<1> QED
  BY <1>1, <1>4, <1>7 DEF NumberOf, t

\* "That average fits too": the line of every segment predicts each of its keys
\* within eps, for points of every number and distance.
THEOREM AveragePredicts == SegmentationSpec => []AverageFits
<1>1. PiecesRight => AverageFits
  <2>1. SUFFICES ASSUME PiecesRight, NEW k \in DOMAIN keys
                 PROVE  LET s == SegmentOf(k).segmenter
                        IN  Within(LineNum(s, keys[k]), LineDen(s), positions[k])
    BY DEF AverageFits
  <2> DEFINE t == NumberOf(Segments, k)
             c == Segments[t].start
             d == EndOf(keys, Segments, t)
             s == Segments[t].segmenter
  <2>2. SortedPoints(keys, positions) /\ Pieces(Segments, keys, positions)
    BY <2>1 DEF PiecesRight, PointsInOrder
  <2>3. k \in 1..Len(keys) /\ Len(keys) \in Nat
    BY <2>2, PointsAre, LenProperties DEF SortedPoints
  <2>4. t \in 1..Len(Segments) /\ c \in 1..k /\ k \in c..d
    BY <2>2, <2>3, NumberIs
  <2>5. SegmentOf(k) = Segments[t]
    BY DEF SegmentOf, NumberOf
  <2> HIDE DEF t
  <2>6. c \in 1..Len(keys) /\ d \in c..Len(keys) /\ Took(s, keys, positions, c, d)
    BY <2>2, <2>4 DEF Pieces
  <2> HIDE DEF c, d, s
  <2>7. Within(LineNum(s, keys[k]), LineDen(s), positions[k])
    BY <2>2, <2>4, <2>6, AverageInGaps
  <2> QED
    BY <2>5, <2>7 DEF s
<1> QED
  BY <1>1, PiecesStayRight, PTL

-----------------------------------------------------------------------------
(* The fewest segments.                                                    *)

\* Point k is in the first segment of the points from the start of its segment to it,
\* and the points before are in one segment less, or none.
LEMMA BeforeSegment ==
    ASSUME NEW segs, NEW ks, NEW ps, Pieces(segs, ks, ps), Len(ks) \in Nat,
           NEW j \in 1..Len(ks), NEW first \in 1..j
    PROVE  LET t == NumberOf(segs, j)
           IN  /\ first = segs[t].start =>
                    /\ first >= 2 => NumberOf(segs, first - 1) = t - 1
                    /\ first = 1 => t = 1
               /\ first > 1 /\ t > 1 /\ segs[t - 1].start < first => t - 1 <= NumberOf(segs, first - 1)
<1> DEFINE t == NumberOf(segs, j)
           z == Len(segs)
<1>1. /\ t \in 1..z /\ z \in Nat \ {0} /\ segs[t].start \in 1..j
      /\ \A m \in 1..z : segs[m].start <= j => m <= t
  BY NumberIs
<1>2. /\ \A m \in 1..z : segs[m].start \in 1..Len(ks)
      /\ \A m, o \in 1..z : m < o => segs[m].start < segs[o].start
      /\ segs[1].start = 1
  BY DEF Pieces
<1>3. first > 1 => /\ first - 1 \in 1..Len(ks)
                   /\ NumberOf(segs, first - 1) \in 1..z
                   /\ segs[NumberOf(segs, first - 1)].start \in 1..(first - 1)
                   /\ \A m \in 1..z : segs[m].start <= first - 1 => m <= NumberOf(segs, first - 1)
  <2>1. SUFFICES ASSUME first > 1
                 PROVE  /\ first - 1 \in 1..Len(ks)
                        /\ NumberOf(segs, first - 1) \in 1..z
                        /\ segs[NumberOf(segs, first - 1)].start \in 1..(first - 1)
                        /\ \A m \in 1..z : segs[m].start <= first - 1 => m <= NumberOf(segs, first - 1)
    OBVIOUS
  <2> DEFINE k == first - 1
  <2>2. k \in 1..Len(ks)
    BY <2>1
  <2> HIDE DEF k
  <2>3. /\ NumberOf(segs, k) \in 1..z /\ segs[NumberOf(segs, k)].start \in 1..k
        /\ \A m \in 1..z : segs[m].start <= k => m <= NumberOf(segs, k)
    BY <2>2, NumberIs
  <2> QED
    BY <2>2, <2>3 DEF k
<1> HIDE DEF t, z
<1> DEFINE o == NumberOf(segs, first - 1)
<1>4. first > 1 => /\ o \in 1..z /\ segs[o].start <= first - 1 /\ segs[o].start \in Int
                   /\ \A m \in 1..z : segs[m].start <= first - 1 => m <= o
  BY <1>3
<1> HIDE DEF o
<1>5. ASSUME first > 1, t > 1, segs[t - 1].start < first
      PROVE  t - 1 <= o
  <2>1. t - 1 \in 1..z /\ segs[t - 1].start \in Int
    BY <1>1, <1>2, <1>5
  <2>2. segs[t - 1].start <= first - 1
    BY <1>5, <2>1
  <2> QED
    BY <1>4, <1>5, <2>1, <2>2
<1>6. ASSUME first = segs[t].start, first = 1
      PROVE  t = 1
  <2>1. CASE t > 1
    <3>1. segs[1].start < segs[t].start
      BY <1>1, <1>2, <2>1
    <3> QED
      BY <1>2, <1>6, <3>1
  <2>2. CASE ~ (t > 1)
    BY <1>1, <2>2
  <2> QED
    BY <2>1, <2>2
<1>7. ASSUME first = segs[t].start, first >= 2
      PROVE  o = t - 1
  <2>1. o < t
    <3>1. ~ (o = t) /\ ~ (t < o)
      <4>1. segs[o].start < segs[t].start /\ segs[t].start \in Int /\ o \in 1..z
        BY <1>1, <1>2, <1>4, <1>7
      <4>2. ~ (t < o)
        <5>1. t < o => segs[t].start < segs[o].start
          BY <1>1, <1>2, <4>1
        <5>2. segs[o].start \in Int
          BY <1>2, <4>1
        <5> QED
          BY <4>1, <5>1, <5>2
      <4> QED
        BY <4>1, <4>2
    <3> QED
      BY <1>1, <1>4, <1>7, <3>1
  <2>2. t > 1
    BY <1>1, <1>4, <1>7, <2>1
  <2>3. segs[t - 1].start < first
    <3>1. t - 1 \in 1..z /\ t - 1 < t
      BY <1>1, <2>2
    <3> QED
      BY <1>1, <1>2, <1>7, <3>1
  <2>4. t - 1 <= o
    BY <1>5, <1>7, <2>2, <2>3
  <2> QED
    BY <1>1, <1>4, <1>7, <2>1, <2>4
<1> QED
  BY <1>5, <1>6, <1>7 DEF o, t

\* How many segments the points up to j are in is what the smallest number is made of.
LEMMA FewestUpTo ==
    ASSUME NEW segs, NEW ks, NEW ps, SortedPoints(ks, ps), Pieces(segs, ks, ps), NEW j \in 1..Len(ks),
           NEW f, \A k \in 0..(j - 1) : f[k] = IF k = 0 THEN 0 ELSE NumberOf(segs, k)
    PROVE  1 + Min({f[c - 1] : c \in {e \in 1..j : LineFor(ks, ps, e, j)}}) = NumberOf(segs, j)
<1> DEFINE t == NumberOf(segs, j)
           z == Len(segs)
           a == segs[t].start
           C == {e \in 1..j : LineFor(ks, ps, e, j)}
           S == {f[c - 1] : c \in C}
<1>1. Len(ks) \in Nat /\ j \in Int /\ j >= 1
  BY PointsAre
<1>2. /\ t \in 1..z /\ z \in Nat \ {0} /\ a \in 1..j /\ j \in a..EndOf(ks, segs, t)
  BY <1>1, NumberIs
<1>3. /\ \A m \in 1..z : /\ segs[m].start \in 1..Len(ks)
                         /\ EndOf(ks, segs, m) \in segs[m].start..Len(ks)
                         /\ Took(segs[m].segmenter, ks, ps, segs[m].start, EndOf(ks, segs, m))
      /\ \A m \in 1..(z - 1) : ~ LineFor(ks, ps, segs[m].start, segs[m + 1].start)
  BY DEF Pieces
<1>4. \A c \in 1..j : c - 1 \in 0..(j - 1) /\ (c - 1 = 0 <=> c = 1)
  BY <1>1
<1>5. a \in C
  <2> DEFINE d == EndOf(ks, segs, t)
  <2>1. a \in 1..Len(ks) /\ d \in a..Len(ks) /\ Took(segs[t].segmenter, ks, ps, a, d)
    BY <1>2, <1>3
  <2>2. j <= d /\ d \in Int /\ a \in Int
    BY <1>1, <1>2, <2>1
  <2> HIDE DEF t, a, d
  <2>3. LineFor(ks, ps, a, d)
    BY <2>1, TookFits
  <2>4. LineFor(ks, ps, a, j)
    BY <1>1, <2>2, <2>3, LineForFewer
  <2> QED
    BY <1>2, <2>4
<1>6. f[a - 1] = t - 1
  <2>1. a >= 2 => NumberOf(segs, a - 1) = t - 1
    BY <1>1, <1>2, BeforeSegment
  <2>2. a = 1 => t = 1
    BY <1>1, <1>2, BeforeSegment
  <2> HIDE DEF t, a
  <2>3. CASE a = 1
    <3>1. f[a - 1] = 0
      BY <1>2, <1>4, <2>3
    <3> QED
      BY <2>2, <2>3, <3>1
  <2>4. CASE a # 1
    <3>1. f[a - 1] = NumberOf(segs, a - 1)
      BY <1>2, <1>4, <2>4
    <3> QED
      BY <1>1, <1>2, <2>1, <2>4, <3>1
  <2> QED
    BY <2>3, <2>4
<1>7. ASSUME NEW c \in C
      PROVE  f[c - 1] \in Int /\ t - 1 <= f[c - 1]
  <2>1. c \in 1..j /\ LineFor(ks, ps, c, j)
    BY <1>7
  <2>2. CASE c = 1
    <3>1. f[c - 1] = 0
      BY <1>4, <2>1, <2>2
    <3>2. t = 1
      <4>1. SUFFICES ASSUME t # 1
                     PROVE  FALSE
        OBVIOUS
      <4>2. 1 \in 1..(z - 1) /\ 2 \in 1..z
        BY <1>2, <4>1
      <4>3. ~ LineFor(ks, ps, segs[1].start, segs[2].start) /\ segs[1].start = 1
        <5>1. 1 + 1 = 2
          OBVIOUS
        <5> QED
          BY <1>3, <4>2, <5>1 DEF Pieces
      <4>4. segs[2].start <= j /\ segs[2].start \in Int
        <5>1. \A m, o \in 1..z : m < o => segs[m].start < segs[o].start
          BY DEF Pieces
        <5>2. segs[2].start \in Int /\ (t = 2 \/ segs[2].start < a)
          BY <1>2, <1>3, <4>1, <4>2, <5>1
        <5> QED
          BY <1>2, <5>2
      <4>5. LineFor(ks, ps, 1, segs[2].start)
        BY <1>1, <2>1, <2>2, <4>4, LineForFewer
      <4> QED
        BY <4>3, <4>5
    <3> QED
      BY <3>1, <3>2
  <2>3. CASE c # 1
    <3>1. f[c - 1] = NumberOf(segs, c - 1)
      BY <1>4, <2>1, <2>3
    <3>2. NumberOf(segs, c - 1) \in 1..z
      <4> DEFINE k == c - 1
      <4>1. k \in 1..Len(ks)
        BY <1>1, <2>1, <2>3
      <4> HIDE DEF k
      <4>2. NumberOf(segs, k) \in 1..z
        BY <1>1, <4>1, NumberIs
      <4> QED
        BY <4>2 DEF k
    <3>3. CASE t = 1
      BY <1>2, <3>1, <3>2, <3>3
    <3>4. CASE t # 1
      <4>1. t - 1 \in 1..(z - 1) /\ t - 1 \in 1..z /\ (t - 1) + 1 = t
        BY <1>2, <3>4
      <4>2. ~ LineFor(ks, ps, segs[t - 1].start, a) /\ segs[t - 1].start \in Int
        BY <1>3, <4>1
      <4>3. segs[t - 1].start < c
        <5>1. SUFFICES ASSUME ~ (segs[t - 1].start < c)
                       PROVE  FALSE
          OBVIOUS
        <5>2. LineFor(ks, ps, segs[t - 1].start, a)
          <6> DEFINE b == segs[t - 1].start
          <6>1. c <= b /\ a <= j /\ b \in Int /\ a \in Int /\ c \in Int
            BY <1>2, <2>1, <4>2, <5>1
          <6> HIDE DEF a, b, t
          <6>2. LineFor(ks, ps, b, a)
            BY <1>1, <2>1, <6>1, LineForFewer
          <6> QED
            BY <6>2 DEF b
        <5> QED
          BY <4>2, <5>2
      <4>4. t - 1 <= NumberOf(segs, c - 1)
        <5>1. c > 1 /\ t > 1
          BY <1>2, <2>1, <2>3, <3>4
        <5> QED
          BY <1>1, <2>1, <4>3, <5>1, BeforeSegment
      <4> QED
        BY <1>2, <3>1, <3>2, <4>4
    <3> QED
      BY <3>3, <3>4
  <2> QED
    BY <2>2, <2>3
<1> HIDE DEF a, C
<1>8. t - 1 \in S /\ S \in SUBSET Int /\ \A v \in S : t - 1 <= v
  <2>1. f[a - 1] \in S
    BY <1>5
  <2> QED
    BY <1>6, <1>7, <2>1
<1>9. Min(S) = t - 1
  <2> HIDE DEF S
  <2> DEFINE low == t - 1
  <2>1. low \in Int /\ low \in S /\ \A v \in S : low <= v
    BY <1>2, <1>8
  <2> HIDE DEF low
  <2>2. Min(S) \in Int /\ low <= Min(S) /\ Min(S) <= low
    <3>1. S # {}
      BY <2>1
    <3> QED
      BY <1>8, <2>1, <3>1, MinOf
  <2> QED
    BY <2>1, <2>2 DEF low
<1> HIDE DEF S
<1>10. 1 + Min(S) = t
  BY <1>2, <1>9
<1> QED
  BY <1>10 DEF S, C

\* "closing a segment only when forced gives the fewest segments possible": no other
\* choice of segments that some line fits each of has fewer, for points of every
\* number and distance.
THEOREM FewestSegments == SegmentationSpec => []Fewest
<1>1. PiecesRight => Fewest
  <2>1. SUFFICES ASSUME PiecesRight
                 PROVE  Len(Segments) = Smallest
    BY DEF Fewest
  <2> DEFINE size == Len(keys)
             D == 0..size
             C(j) == {c \in 1..j : SomeLineFits(c, j)}
             At(f) == f = [j \in D |-> IF j = 0 THEN 0 ELSE 1 + Min({f[c - 1] : c \in C(j)})]
             u == [j \in D |-> IF j = 0 THEN 0 ELSE NumberOf(Segments, j)]
  <2>2. SortedPoints(keys, positions) /\ Pieces(Segments, keys, positions)
    BY <2>1 DEF PiecesRight, PointsInOrder
  <2>3. size \in Nat \ {0}
    <3>1. keys \in Seq(Int) /\ keys # <<>>
      BY <2>1 DEF PiecesRight, PointsInOrder, SortedPoints
    <3> QED
      BY <3>1, EmptySeq, LenProperties
  <2>4. Smallest = (CHOOSE f : At(f))[size]
    BY DEF Smallest
  <2>5. \A j : C(j) = {c \in 1..j : LineFor(keys, positions, c, j)}
    BY DEF SomeLineFits, LineFor
  <2> HIDE DEF C
  <2>6. ASSUME NEW f, NEW j \in 1..size,
               \A k \in 0..(j - 1) : f[k] = IF k = 0 THEN 0 ELSE NumberOf(Segments, k)
        PROVE  1 + Min({f[c - 1] : c \in C(j)}) = NumberOf(Segments, j)
    <3>1. 1 + Min({f[c - 1] : c \in {e \in 1..j : LineFor(keys, positions, e, j)}}) = NumberOf(Segments, j)
      BY <2>2, <2>6, FewestUpTo
    <3> QED
      BY <2>5, <3>1
  <2>7. At(u)
    <3>1. ASSUME NEW j \in D
          PROVE  (IF j = 0 THEN 0 ELSE NumberOf(Segments, j))
                   = IF j = 0 THEN 0 ELSE 1 + Min({u[c - 1] : c \in C(j)})
      <4>1. CASE j = 0
        BY <4>1
      <4>2. CASE j # 0
        <5>1. j \in 1..size /\ \A k \in 0..(j - 1) : k \in D
          BY <2>3, <4>2
        <5>2. \A k \in 0..(j - 1) : u[k] = IF k = 0 THEN 0 ELSE NumberOf(Segments, k)
          BY <5>1
        <5> HIDE DEF u
        <5>3. 1 + Min({u[c - 1] : c \in C(j)}) = NumberOf(Segments, j)
          BY <2>6, <5>1, <5>2
        <5> QED
          BY <4>2, <5>3
      <4> QED
        BY <4>1, <4>2
    <3> DEFINE v == [j \in D |-> IF j = 0 THEN 0 ELSE 1 + Min({u[c - 1] : c \in C(j)})]
    <3>2. u = v
      BY <3>1
    <3> QED
      BY <3>2
  <2> DEFINE g == CHOOSE f : At(f)
  <2>8. At(g)
    <3> HIDE DEF At, u
    <3> QED
      BY <2>7
  <2> HIDE DEF g
  <2>9. \A j \in D : g[j] = IF j = 0 THEN 0 ELSE 1 + Min({g[c - 1] : c \in C(j)})
    BY <2>8
  <2> DEFINE T == {j \in Nat : j \in D => g[j] = IF j = 0 THEN 0 ELSE NumberOf(Segments, j)}
  <2>10. ASSUME NEW j \in Nat, \A k \in Nat : k < j => k \in T
         PROVE  j \in T
    <3>1. SUFFICES ASSUME j \in D, j # 0
                   PROVE  g[j] = NumberOf(Segments, j)
      BY <2>9
    <3>2. j \in 1..size /\ \A k \in 0..(j - 1) : k \in Nat /\ k < j /\ k \in D
      BY <2>3, <3>1
    <3>3. \A k \in 0..(j - 1) : g[k] = IF k = 0 THEN 0 ELSE NumberOf(Segments, k)
      BY <2>10, <3>2
    <3>4. 1 + Min({g[c - 1] : c \in C(j)}) = NumberOf(Segments, j)
      BY <2>6, <3>2, <3>3
    <3> QED
      BY <2>9, <3>1, <3>4
  <2>11. \A j \in Nat : j \in T
    <3> HIDE DEF T
    <3> QED
      BY <2>10, EveryNumber
  <2>12. Smallest = NumberOf(Segments, size)
    <3>1. size \in T /\ size \in D /\ size # 0
      BY <2>3, <2>11
    <3> QED
      BY <2>4, <3>1 DEF g
  <2>13. NumberOf(Segments, size) = Len(Segments)
    <3> DEFINE t == NumberOf(Segments, size)
               z == Len(Segments)
    <3>1. size \in 1..size
      BY <2>3
    <3>2. /\ t \in 1..z /\ z \in Nat \ {0}
          /\ \A m \in 1..z : Segments[m].start <= size => m <= t
      BY <2>2, <2>3, <3>1, NumberIs
    <3>3. z \in 1..z
      BY <3>2
    <3>4. Segments[z].start \in 1..size
      BY <2>2, <3>3 DEF Pieces
    <3> HIDE DEF t, z
    <3>5. z <= t
      BY <2>3, <3>2, <3>3, <3>4
    <3> QED
      BY <3>2, <3>5 DEF t, z
  <2> QED
    BY <2>12, <2>13
<1> QED
  BY <1>1, PiecesStayRight, PTL

=============================================================================
