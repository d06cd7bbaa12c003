------------------------ MODULE GappedArrayProofs ---------------------------
(***************************************************************************)
(* What the gapped array keeps, for every set of keys and values, eps,     *)
(* density and segment cap, arrays of every length and models of every     *)
(* size.  The invariant is GappedInv: the lemmas follow an array through   *)
(* its operations, which turn a whole array into a whole array.            *)
(***************************************************************************)
EXTENDS GappedArray, AscendingProofs, SequenceTheorems, TLAPS

-----------------------------------------------------------------------------
(* Powers of two.                                                          *)

\* The powers of two are there, and grow past every number.
LEMMA Powers ==
    /\ PowerOf2[0] = 1
    /\ \A n \in Nat : PowerOf2[n] \in Nat \ {0} /\ n < PowerOf2[n]
<1> DEFINE S == Nat
           rank == [n \in Nat |-> n]
           step == [p \in Nat \X [Nat -> S] |->
                       IF p[1] = 0 THEN 1 ELSE 2 * p[2][p[1] - 1]]
<1>1. step \in [Nat \X [Nat -> S] -> S]
  <2>1. ASSUME NEW n \in Nat, NEW f \in [Nat -> Nat]
        PROVE  (IF n = 0 THEN 1 ELSE 2 * f[n - 1]) \in Nat
    <3>1. n # 0 => f[n - 1] \in Nat
      OBVIOUS
    <3> QED
      BY <3>1
  <2> QED
    BY <2>1
<1>2. LooksDown(Nat, S, rank, step)
  <2>1. SUFFICES ASSUME NEW n \in Nat, NEW f \in [Nat -> S], NEW g \in [Nat -> S],
                        \A m \in Nat : rank[m] < rank[n] => f[m] = g[m]
                 PROVE  step[<<n, f>>] = step[<<n, g>>]
    BY DEF LooksDown
  <2>2. n # 0 => f[n - 1] = g[n - 1]
    BY <2>1
  <2> QED
    BY <2>2
<1>3. \E f \in [Nat -> S] : \A n \in Nat : f[n] = step[<<n, f>>]
  <2>1. S # {} /\ rank \in [Nat -> Nat]
    OBVIOUS
  <2>2. Recursion(Nat, S, rank, step)
    BY <1>1, <1>2, <2>1 DEF Recursion
  <2> HIDE DEF S, rank, step
  <2> QED
    BY <2>2, RecursionDefines
<1>4. PICK f \in [Nat -> S] : \A n \in Nat : f[n] = step[<<n, f>>]
  BY <1>3
<1>5. f = [n \in Nat |-> IF n = 0 THEN 1 ELSE 2 * f[n - 1]]
  <2>1. \A n \in Nat : f[n] = IF n = 0 THEN 1 ELSE 2 * f[n - 1]
    BY <1>4
  <2> QED
    BY <1>4, <2>1
<1>6. PowerOf2 = [n \in Nat |-> IF n = 0 THEN 1 ELSE 2 * PowerOf2[n - 1]]
  BY <1>5 DEF PowerOf2
<1>7. \A n \in Nat : PowerOf2[n] = IF n = 0 THEN 1 ELSE 2 * PowerOf2[n - 1]
  BY <1>6
<1> DEFINE T == {n \in Nat : PowerOf2[n] \in Nat \ {0} /\ n < PowerOf2[n]}
<1>8. ASSUME NEW n \in Nat, \A m \in Nat : m < n => m \in T
      PROVE  n \in T
  <2>1. CASE n = 0
    BY <1>7, <2>1
  <2>2. CASE n # 0
    <3>1. n - 1 \in T
      BY <1>8, <2>2
    <3>2. PowerOf2[n] = 2 * PowerOf2[n - 1]
      BY <1>7, <2>2
    <3> QED
      BY <3>1, <3>2
  <2> QED
    BY <2>1, <2>2
<1>9. \A n \in Nat : n \in T
  <2> HIDE DEF T
  <2> QED
    BY <1>8, EveryNumber
<1> QED
  BY <1>7, <1>9

-----------------------------------------------------------------------------
(* Building a segmented model.                                             *)

\* Keys in order, and the slots they are laid in.
Points(keys, positions) ==
    /\ keys \in Seq(Key) /\ IsAscending(keys)
    /\ positions \in Seq(Nat \ {0}) /\ IsAscending(positions)
    /\ Len(positions) = Len(keys)

\* What the segments made of the points from i on are.
Models(segs, keys, positions, i) ==
    /\ segs \in Seq(Segment) /\ StartsAscend(segs)
    /\ i = Len(keys) + 1 => segs = <<>>
    /\ i <= Len(keys) => segs # <<>> /\ segs[1].start_key = keys[i]
    /\ \A s \in DOMAIN segs : \E k \in i..Len(keys) : segs[s].start_key = keys[k]
    /\ \A s \in DOMAIN segs, k \in i..Len(keys) :
          Owns(segs, s, keys[k]) => Predicts(segs[s], keys, positions, eps, k)

\* A sequence over a set is one over every larger set.
LEMMA SeqWidens ==
    ASSUME NEW S, NEW T, S \subseteq T, NEW s \in Seq(S)
    PROVE  s \in Seq(T)
<1>1. DOMAIN s = 1..Len(s) /\ Len(s) \in Nat /\ s \in [1..Len(s) -> S]
  BY SeqDef, LenProperties
<1>2. s \in [1..Len(s) -> T]
  BY <1>1
<1> QED
  BY <1>1, <1>2, SeqDef

\* The segments of a fresh model predict all the keys it is built from.
THEOREM ModelIsBuilt ==
    ASSUME NEW keys, NEW positions, Points(keys, positions), NEW most \in Nat \ {0}
    PROVE  Models(build_segmented_model(keys, positions, eps, most), keys, positions, 1)
<1> DEFINE segs == build_segmented_model(keys, positions, eps, most)
<1>1. SortedPoints(keys, positions) /\ eps \in Nat
  <2>1. Key \subseteq Int /\ Nat \ {0} \subseteq Int /\ eps \in Nat
    BY GappedAssumption
  <2>2. keys \in Seq(Int) /\ positions \in Seq(Int)
    BY <2>1, SeqWidens DEF Points
  <2> QED
    BY <2>1, <2>2 DEF Points, SortedPoints
<1>2. FittedTo(segs, keys, positions, eps, most, 1)
  BY <1>1, SegmentsAreBuilt
<1> HIDE DEF segs
<1>3. segs \in Seq(AnySegment) /\ DOMAIN segs = 1..Len(segs) /\ Len(segs) \in Nat
  BY <1>2, LenProperties DEF FittedTo
<1>4. ASSUME NEW s \in DOMAIN segs
      PROVE  segs[s] \in Segment /\ \E k \in 1..Len(keys) : segs[s].start_key = keys[k]
  <2>1. PICK k \in 1..Len(keys) : segs[s].start_key = keys[k] /\ segs[s].anchor = positions[k]
    BY <1>2 DEF FittedTo
  <2>2. keys[k] \in Key /\ positions[k] \in Nat
    <3>1. /\ keys \in Seq(Key) /\ positions \in Seq(Nat \ {0})
          /\ DOMAIN keys = 1..Len(keys) /\ DOMAIN positions = 1..Len(keys)
      BY LenProperties DEF Points
    <3> QED
      BY <3>1, ElementOfSeq
  <2>3. segs[s] \in AnySegment
    BY <1>3, ElementOfSeq
  <2> QED
    BY <2>1, <2>2, <2>3 DEF Segment, AnySegment
<1>5. segs \in Seq(Segment)
  <2>1. segs \in [1..Len(segs) -> Segment]
    BY <1>3, <1>4
  <2> QED
    BY <1>3, <2>1, SeqDef
<1>6. Models(segs, keys, positions, 1)
  BY <1>2, <1>4, <1>5 DEF Models, FittedTo
<1> QED
  BY <1>6 DEF segs

-----------------------------------------------------------------------------
(* Sequences put together.                                                 *)

\* A function on the numbers up to n is a sequence of that length.
LEMMA Listed ==
    ASSUME NEW S, NEW n \in Nat, NEW f \in [1..n -> S]
    PROVE  f \in Seq(S) /\ Len(f) = n /\ DOMAIN f = 1..n
<1>1. f \in Seq(S)
  BY SeqDef
<1>2. DOMAIN f = 1..n
  OBVIOUS
<1>3. Len(f) \in Nat /\ DOMAIN f = 1..Len(f)
  BY <1>1, LenProperties
<1>4. Len(f) = n
  BY <1>2, <1>3
<1> QED
  BY <1>1, <1>2, <1>4

\* Three sequences after one another.
LEMMA ConcatThree ==
    ASSUME NEW S, NEW s \in Seq(S), NEW t \in Seq(S), NEW u \in Seq(S)
    PROVE  /\ s \o t \o u \in Seq(S)
           /\ Len(s \o t \o u) = Len(s) + Len(t) + Len(u)
           /\ \A i \in 1..(Len(s) + Len(t) + Len(u)) :
                 (s \o t \o u)[i] = IF i <= Len(s) THEN s[i]
                                    ELSE IF i <= Len(s) + Len(t) THEN t[i - Len(s)]
                                    ELSE u[i - (Len(s) + Len(t))]
<1> DEFINE w == s \o t
<1>0. Len(s) \in Nat /\ Len(t) \in Nat /\ Len(u) \in Nat
  BY LenProperties
<1>1. /\ w \in Seq(S) /\ Len(w) = Len(s) + Len(t)
      /\ \A i \in 1..(Len(s) + Len(t)) : w[i] = IF i <= Len(s) THEN s[i] ELSE t[i - Len(s)]
  BY ConcatProperties
<1> HIDE DEF w
<1>2. /\ w \o u \in Seq(S) /\ Len(w \o u) = Len(w) + Len(u)
      /\ \A i \in 1..(Len(w) + Len(u)) : (w \o u)[i] = IF i <= Len(w) THEN w[i] ELSE u[i - Len(w)]
  <2>1. w \in Seq(S) /\ u \in Seq(S)
    BY <1>1
  <2> QED
    BY <2>1, ConcatProperties
<1> DEFINE x == w \o u
<1>3. x = s \o t \o u
  BY DEF w
<1>4. /\ x \in Seq(S) /\ Len(x) = Len(w) + Len(u)
      /\ \A i \in 1..(Len(w) + Len(u)) : x[i] = IF i <= Len(w) THEN w[i] ELSE u[i - Len(w)]
  BY <1>2
<1> HIDE DEF x
<1>5. ASSUME NEW i \in 1..(Len(s) + Len(t) + Len(u))
      PROVE  x[i] = IF i <= Len(s) THEN s[i]
                    ELSE IF i <= Len(s) + Len(t) THEN t[i - Len(s)]
                    ELSE u[i - (Len(s) + Len(t))]
  <2>1. i \in Int /\ i \in 1..(Len(w) + Len(u))
    BY <1>0, <1>1
  <2>2. i <= Len(w) => i \in 1..(Len(s) + Len(t))
    BY <1>0, <1>1
  <2> QED
    BY <1>0, <1>1, <1>4, <2>1, <2>2
<1>6. x \in Seq(S) /\ Len(x) = Len(s) + Len(t) + Len(u)
  BY <1>0, <1>1, <1>4
<1> QED
  BY <1>3, <1>5, <1>6

\* p is s with the items from first to last replaced by those of new.
IsPatched(p, S, s, first, last, new) ==
    LET gone == last - first + 1
        size == Len(s) - gone + Len(new)
    IN  /\ p \in Seq(S) /\ Len(p) = size /\ size \in Nat /\ DOMAIN p = 1..size
        /\ \A j \in 1..size :
              p[j] = IF j < first THEN s[j]
                     ELSE IF j < first + Len(new) THEN new[j - first + 1]
                     ELSE s[j - Len(new) + gone]

\* What a replacement leaves and what it puts in.
LEMMA PatchedIs ==
    ASSUME NEW S, NEW s \in Seq(S), NEW new \in Seq(S),
           NEW first \in 1..(Len(s) + 1), NEW last \in (first - 1)..Len(s)
    PROVE  IsPatched(Patched(s, first, last, new), S, s, first, last, new)
<1> DEFINE gone == last - first + 1
           size == Len(s) - gone + Len(new)
           a == SubSeq(s, 1, first - 1)
           c == SubSeq(s, last + 1, Len(s))
           p == a \o new \o c
<1>0. /\ Len(s) \in Nat /\ Len(new) \in Nat /\ first \in Int /\ last \in Int
      /\ gone \in Nat /\ size \in Nat
  <2>1. Len(s) \in Nat /\ Len(new) \in Nat
    BY LenProperties
  <2> QED
    BY <2>1
<1>1. p = Patched(s, first, last, new)
  BY DEF Patched
<1>2. /\ a \in Seq(S) /\ Len(a) = first - 1 /\ \A i \in 1..(first - 1) : a[i] = s[i]
  <2>1. \A i \in 1..(first - 1) : s[i] \in S
    BY <1>0, ElementOfSeq
  <2>2. /\ a \in Seq(S) /\ Len(a) = IF 1 <= first - 1 THEN (first - 1) - 1 + 1 ELSE 0
        /\ \A i \in 1..((first - 1) - 1 + 1) : a[i] = s[1 + i - 1]
    BY <1>0, <2>1, SubSeqProperties
  <2> HIDE DEF a
  <2> QED
    BY <1>0, <2>2
<1>3. /\ c \in Seq(S) /\ Len(c) = Len(s) - last /\ \A i \in 1..(Len(s) - last) : c[i] = s[last + i]
  <2>1. \A i \in (last + 1)..Len(s) : s[i] \in S
    BY <1>0, ElementOfSeq
  <2>2. /\ c \in Seq(S) /\ Len(c) = IF last + 1 <= Len(s) THEN Len(s) - (last + 1) + 1 ELSE 0
        /\ \A i \in 1..(Len(s) - (last + 1) + 1) : c[i] = s[(last + 1) + i - 1]
    BY <1>0, <2>1, SubSeqProperties
  <2>3. Len(s) - (last + 1) + 1 = Len(s) - last /\ \A i \in Int : (last + 1) + i - 1 = last + i
    BY <1>0
  <2> HIDE DEF c
  <2>4. c \in Seq(S) /\ Len(c) = Len(s) - last
    <3>1. c \in Seq(S) /\ Len(c) = IF last + 1 <= Len(s) THEN Len(s) - (last + 1) + 1 ELSE 0
      BY <2>2
    <3> DEFINE n == Len(s)
    <3>2. n \in Nat /\ last \in Int /\ last <= n
      BY <1>0
    <3> HIDE DEF n
    <3>3. (IF last + 1 <= n THEN n - (last + 1) + 1 ELSE 0) = n - last
      BY <3>2
    <3> QED
      BY <3>1, <3>3 DEF n
  <2>5. ASSUME NEW i \in 1..(Len(s) - last)
        PROVE  c[i] = s[last + i]
    <3>1. i \in 1..(Len(s) - (last + 1) + 1) /\ i \in Int
      BY <2>3
    <3> QED
      BY <2>2, <2>3, <3>1
  <2> QED
    BY <2>4, <2>5
<1> HIDE DEF a, c
<1>4. /\ p \in Seq(S) /\ Len(p) = Len(a) + Len(new) + Len(c)
      /\ \A i \in 1..(Len(a) + Len(new) + Len(c)) :
            p[i] = IF i <= Len(a) THEN a[i]
                   ELSE IF i <= Len(a) + Len(new) THEN new[i - Len(a)]
                   ELSE c[i - (Len(a) + Len(new))]
  <2>1. a \in Seq(S) /\ new \in Seq(S) /\ c \in Seq(S)
    BY <1>2, <1>3
  <2> QED
    BY <2>1, ConcatThree
<1>5. Len(a) + Len(new) + Len(c) = size
  BY <1>0, <1>2, <1>3
<1> HIDE DEF p
<1>6. ASSUME NEW j \in 1..size
      PROVE  p[j] = IF j < first THEN s[j]
                    ELSE IF j < first + Len(new) THEN new[j - first + 1]
                    ELSE s[j - Len(new) + gone]
  <2>0. j \in Int /\ j \in 1..(Len(a) + Len(new) + Len(c))
    BY <1>0, <1>5
  <2>1. CASE j < first
    <3>1. j <= Len(a) /\ j \in 1..(first - 1)
      BY <1>0, <1>2, <2>0, <2>1
    <3> QED
      BY <1>2, <1>4, <2>0, <2>1, <3>1
  <2>2. CASE ~ (j < first) /\ j < first + Len(new)
    <3>1. ~ (j <= Len(a)) /\ j <= Len(a) + Len(new) /\ j - Len(a) = j - first + 1
      BY <1>0, <1>2, <2>0, <2>2
    <3> QED
      BY <1>4, <2>0, <2>2, <3>1
  <2>3. CASE ~ (j < first) /\ ~ (j < first + Len(new))
    <3>1. ~ (j <= Len(a)) /\ ~ (j <= Len(a) + Len(new))
      BY <1>0, <1>2, <2>0, <2>3
    <3>2. /\ j - (Len(a) + Len(new)) \in 1..(Len(s) - last)
          /\ last + (j - (Len(a) + Len(new))) = j - Len(new) + gone
      BY <1>0, <1>2, <1>3, <1>5, <2>0, <3>1
    <3>3. p[j] = c[j - (Len(a) + Len(new))]
      BY <1>4, <2>0, <3>1
    <3> QED
      BY <1>3, <2>3, <3>2, <3>3
  <2> QED
    BY <2>1, <2>2, <2>3
<1>7. DOMAIN p = 1..size
  BY <1>4, <1>5, LenProperties
<1> QED
  BY <1>0, <1>1, <1>4, <1>5, <1>6, <1>7 DEF IsPatched

\* The slots a shift moves, and the slot the new item takes.
NewSlot(point, gap) == IF gap < point THEN point - 1 ELSE point

\* Where a shift moves the slot j.
MovedTo(point, gap, j) ==
    IF gap < point /\ gap < j /\ j < point THEN j - 1
    ELSE IF point <= j /\ j < gap THEN j + 1 ELSE j

\* Where the slot j came from.
MovedFrom(point, gap, j) ==
    IF gap < point /\ gap <= j /\ j < point - 1 THEN j + 1
    ELSE IF point < j /\ j <= gap THEN j - 1 ELSE j

\* p is s with x put in, what is between it and the gap moved.
IsShifted(p, S, s, point, gap, x) ==
    /\ p \in Seq(S) /\ Len(p) = Len(s)
    /\ \A j \in 1..Len(s) :
          p[j] = IF j = NewSlot(point, gap) THEN x ELSE s[MovedFrom(point, gap, j)]

\* A shift puts the new item in and moves the others.
LEMMA ShiftInIs ==
    ASSUME NEW S, NEW s \in Seq(S), NEW x \in S,
           NEW point \in 1..(Len(s) + 1), NEW gap \in 1..Len(s)
    PROVE  IsShifted(ShiftIn(s, point, gap, x), S, s, point, gap, x)
<1> DEFINE N == Len(s)
           new == ShiftIn(s, point, gap, x)
           Part(m, n) == SubSeq(s, m, n)
<1>0. N \in Nat /\ point \in Int /\ gap \in Int /\ <<x>> \in Seq(S) /\ Len(<<x>>) = 1 /\ <<x>>[1] = x
  BY LenProperties
<1>1. ASSUME NEW m \in 1..(N + 1), NEW n \in (m - 1)..N
      PROVE  /\ Part(m, n) \in Seq(S) /\ Len(Part(m, n)) = n - m + 1
             /\ \A i \in 1..(n - m + 1) : Part(m, n)[i] = s[m + i - 1]
  <2>1. m \in Int /\ n \in Int
    BY <1>0
  <2>2. \A i \in m..n : s[i] \in S
    BY <1>0, <2>1, ElementOfSeq
  <2>3. /\ Part(m, n) \in Seq(S) /\ Len(Part(m, n)) = IF m <= n THEN n - m + 1 ELSE 0
        /\ \A i \in 1..(n - m + 1) : Part(m, n)[i] = s[m + i - 1]
    BY <2>1, <2>2, SubSeqProperties
  <2> HIDE DEF Part
  <2> QED
    BY <1>0, <2>1, <2>3
<1> DEFINE Shifts == /\ new \in Seq(S) /\ Len(new) = N
                     /\ \A j \in 1..N : new[j] = IF j = NewSlot(point, gap) THEN x
                                                 ELSE s[MovedFrom(point, gap, j)]
<1>2. ASSUME gap < point
      PROVE  Shifts
  <2> DEFINE a == Part(1, gap - 1)
             b == Part(gap + 1, point - 1)
             d == Part(point, N)
             w == a \o b \o <<x>>
  <2>1. new = w \o d
    BY <1>2 DEF ShiftIn
  <2>2. /\ a \in Seq(S) /\ Len(a) = gap - 1
        /\ \A i \in 1..(gap - 1) : a[i] = s[i]
    <3>1. 1 \in 1..(N + 1) /\ gap - 1 \in (1 - 1)..N
      BY <1>0
    <3>2. /\ a \in Seq(S) /\ Len(a) = (gap - 1) - 1 + 1
          /\ \A i \in 1..((gap - 1) - 1 + 1) : a[i] = s[1 + i - 1]
      BY <1>1, <3>1
    <3> HIDE DEF a
    <3> QED
      BY <1>0, <3>2
  <2>3. /\ b \in Seq(S) /\ Len(b) = point - 1 - gap
        /\ \A i \in 1..(point - 1 - gap) : b[i] = s[gap + i]
    <3>1. gap + 1 \in 1..(N + 1) /\ point - 1 \in ((gap + 1) - 1)..N
      BY <1>0, <1>2
    <3>2. /\ b \in Seq(S) /\ Len(b) = (point - 1) - (gap + 1) + 1
          /\ \A i \in 1..((point - 1) - (gap + 1) + 1) : b[i] = s[(gap + 1) + i - 1]
      BY <1>1, <3>1
    <3>3. (point - 1) - (gap + 1) + 1 = point - 1 - gap /\ \A i \in Int : (gap + 1) + i - 1 = gap + i
      BY <1>0
    <3> HIDE DEF b
    <3> QED
      BY <1>0, <3>2, <3>3
  <2>4. /\ d \in Seq(S) /\ Len(d) = N - point + 1
        /\ \A i \in 1..(N - point + 1) : d[i] = s[point + i - 1]
    <3>1. N \in (point - 1)..N
      BY <1>0
    <3> QED
      BY <1>1, <3>1
  <2> HIDE DEF a, b, d
  <2>5. /\ w \in Seq(S) /\ Len(w) = Len(a) + Len(b) + Len(<<x>>)
        /\ \A i \in 1..(Len(a) + Len(b) + Len(<<x>>)) :
              w[i] = IF i <= Len(a) THEN a[i] ELSE IF i <= Len(a) + Len(b) THEN b[i - Len(a)]
                     ELSE <<x>>[i - (Len(a) + Len(b))]
    <3>1. a \in Seq(S) /\ b \in Seq(S) /\ <<x>> \in Seq(S)
      BY <1>0, <2>2, <2>3
    <3> QED
      BY <3>1, ConcatThree
  <2> HIDE DEF w
  <2>6. /\ Len(w) = point - 1
        /\ \A i \in 1..(point - 1) :
              w[i] = IF i < gap THEN s[i] ELSE IF i < point - 1 THEN s[i + 1] ELSE x
    <3>1. Len(w) = point - 1
      BY <1>0, <2>2, <2>3, <2>5
    <3>2. ASSUME NEW i \in 1..(point - 1)
          PROVE  w[i] = IF i < gap THEN s[i] ELSE IF i < point - 1 THEN s[i + 1] ELSE x
      <4>0. i \in Int /\ i \in 1..(Len(a) + Len(b) + Len(<<x>>))
        BY <1>0, <2>2, <2>3
      <4>1. CASE i < gap
        BY <1>0, <2>2, <2>5, <4>0, <4>1
      <4>2. CASE ~ (i < gap) /\ i < point - 1
        <5>1. ~ (i <= Len(a)) /\ i <= Len(a) + Len(b) /\ i - Len(a) \in 1..(point - 1 - gap)
          BY <1>0, <2>2, <2>3, <4>0, <4>2
        <5>2. w[i] = b[i - Len(a)] /\ gap + (i - Len(a)) = i + 1
          BY <1>0, <2>2, <2>5, <4>0, <5>1
        <5> QED
          BY <2>3, <4>2, <5>1, <5>2
      <4>3. CASE ~ (i < point - 1)
        <5>1. ~ (i <= Len(a)) /\ ~ (i <= Len(a) + Len(b)) /\ i - (Len(a) + Len(b)) = 1 /\ ~ (i < gap)
          BY <1>0, <1>2, <2>2, <2>3, <4>0, <4>3
        <5>2. w[i] = <<x>>[1]
          BY <2>5, <4>0, <5>1
        <5> QED
          BY <1>0, <4>3, <5>1, <5>2
      <4> QED
        BY <4>1, <4>2, <4>3
    <3> QED
      BY <3>1, <3>2
  <2>7. /\ w \o d \in Seq(S) /\ Len(w \o d) = Len(w) + Len(d)
        /\ \A i \in 1..(Len(w) + Len(d)) : (w \o d)[i] = IF i <= Len(w) THEN w[i] ELSE d[i - Len(w)]
    <3>1. w \in Seq(S) /\ d \in Seq(S)
      BY <2>4, <2>5
    <3> QED
      BY <3>1, ConcatProperties
  <2>8. Len(w) + Len(d) = N
    BY <1>0, <2>4, <2>6
  <2>9. /\ new \in Seq(S) /\ Len(new) = N
        /\ \A j \in 1..N : new[j] = IF j <= Len(w) THEN w[j] ELSE d[j - Len(w)]
    BY <2>1, <2>7, <2>8
  <2> HIDE DEF new
  <2>10. ASSUME NEW j \in 1..N
         PROVE  new[j] = IF j = NewSlot(point, gap) THEN x ELSE s[MovedFrom(point, gap, j)]
    <3>0. j \in Int
      BY <1>0
    <3>1. CASE j < point
      <4>1. j \in 1..(point - 1) /\ j <= Len(w)
        BY <1>0, <2>6, <3>0, <3>1
      <4>2. new[j] = IF j < gap THEN s[j] ELSE IF j < point - 1 THEN s[j + 1] ELSE x
        BY <2>6, <2>9, <4>1
      <4> QED
        BY <1>0, <1>2, <3>0, <3>1, <4>2 DEF NewSlot, MovedFrom
    <3>2. CASE ~ (j < point)
      <4>1. ~ (j <= Len(w)) /\ j - Len(w) \in 1..(N - point + 1) /\ point + (j - Len(w)) - 1 = j
        BY <1>0, <2>6, <3>0, <3>2
      <4>2. new[j] = s[j]
        BY <2>4, <2>9, <4>1
      <4> QED
        BY <1>0, <1>2, <3>0, <3>2, <4>2 DEF NewSlot, MovedFrom
    <3> QED
      BY <3>1, <3>2
  <2> QED
    BY <2>9, <2>10 DEF new
<1>3. ASSUME ~ (gap < point)
      PROVE  Shifts
  <2> DEFINE a == Part(1, point - 1)
             b == Part(point, gap - 1)
             d == Part(gap + 1, N)
             w == a \o <<x>> \o b
  <2>1. new = w \o d
    BY <1>3 DEF ShiftIn
  <2>2. /\ a \in Seq(S) /\ Len(a) = point - 1
        /\ \A i \in 1..(point - 1) : a[i] = s[i]
    <3>1. 1 \in 1..(N + 1) /\ point - 1 \in (1 - 1)..N
      BY <1>0
    <3>2. /\ a \in Seq(S) /\ Len(a) = (point - 1) - 1 + 1
          /\ \A i \in 1..((point - 1) - 1 + 1) : a[i] = s[1 + i - 1]
      BY <1>1, <3>1
    <3> HIDE DEF a
    <3> QED
      BY <1>0, <3>2
  <2>3. /\ b \in Seq(S) /\ Len(b) = gap - point
        /\ \A i \in 1..(gap - point) : b[i] = s[point + i - 1]
    <3>1. gap - 1 \in (point - 1)..N
      BY <1>0, <1>3
    <3>2. /\ b \in Seq(S) /\ Len(b) = (gap - 1) - point + 1
          /\ \A i \in 1..((gap - 1) - point + 1) : b[i] = s[point + i - 1]
      BY <1>1, <3>1
    <3> HIDE DEF b
    <3> QED
      BY <1>0, <3>2
  <2>4. /\ d \in Seq(S) /\ Len(d) = N - gap
        /\ \A i \in 1..(N - gap) : d[i] = s[gap + i]
    <3>1. N \in ((gap + 1) - 1)..N /\ gap + 1 \in 1..(N + 1)
      BY <1>0
    <3>2. /\ d \in Seq(S) /\ Len(d) = N - (gap + 1) + 1
          /\ \A i \in 1..(N - (gap + 1) + 1) : d[i] = s[(gap + 1) + i - 1]
      BY <1>1, <3>1
    <3>3. N - (gap + 1) + 1 = N - gap /\ \A i \in Int : (gap + 1) + i - 1 = gap + i
      BY <1>0
    <3> HIDE DEF d
    <3> QED
      BY <1>0, <3>2, <3>3
  <2> HIDE DEF a, b, d
  <2>5. /\ w \in Seq(S) /\ Len(w) = Len(a) + Len(<<x>>) + Len(b)
        /\ \A i \in 1..(Len(a) + Len(<<x>>) + Len(b)) :
              w[i] = IF i <= Len(a) THEN a[i] ELSE IF i <= Len(a) + Len(<<x>>) THEN <<x>>[i - Len(a)]
                     ELSE b[i - (Len(a) + Len(<<x>>))]
    <3>1. a \in Seq(S) /\ b \in Seq(S) /\ <<x>> \in Seq(S)
      BY <1>0, <2>2, <2>3
    <3> QED
      BY <3>1, ConcatThree
  <2> HIDE DEF w
  <2>6. /\ Len(w) = gap
        /\ \A i \in 1..gap :
              w[i] = IF i < point THEN s[i] ELSE IF i = point THEN x ELSE s[i - 1]
    <3>1. Len(w) = gap
      BY <1>0, <2>2, <2>3, <2>5
    <3>2. ASSUME NEW i \in 1..gap
          PROVE  w[i] = IF i < point THEN s[i] ELSE IF i = point THEN x ELSE s[i - 1]
      <4>0. i \in Int /\ i \in 1..(Len(a) + Len(<<x>>) + Len(b))
        BY <1>0, <2>2, <2>3
      <4>1. CASE i < point
        BY <1>0, <2>2, <2>5, <4>0, <4>1
      <4>2. CASE i = point
        <5>1. ~ (i <= Len(a)) /\ i <= Len(a) + Len(<<x>>) /\ i - Len(a) = 1 /\ ~ (i < point)
          BY <1>0, <2>2, <4>0, <4>2
        <5>2. w[i] = <<x>>[1]
          BY <2>5, <4>0, <5>1
        <5> QED
          BY <1>0, <4>2, <5>1, <5>2
      <4>3. CASE ~ (i < point) /\ i # point
        <5>1. /\ ~ (i <= Len(a)) /\ ~ (i <= Len(a) + Len(<<x>>))
              /\ i - (Len(a) + Len(<<x>>)) \in 1..(gap - point)
              /\ point + (i - (Len(a) + Len(<<x>>))) - 1 = i - 1
          BY <1>0, <2>2, <4>0, <4>3
        <5>2. w[i] = b[i - (Len(a) + Len(<<x>>))]
          BY <2>5, <4>0, <5>1
        <5> QED
          BY <2>3, <4>3, <5>1, <5>2
      <4> QED
        BY <4>1, <4>2, <4>3
    <3> QED
      BY <3>1, <3>2
  <2>7. /\ w \o d \in Seq(S) /\ Len(w \o d) = Len(w) + Len(d)
        /\ \A i \in 1..(Len(w) + Len(d)) : (w \o d)[i] = IF i <= Len(w) THEN w[i] ELSE d[i - Len(w)]
    <3>1. w \in Seq(S) /\ d \in Seq(S)
      BY <2>4, <2>5
    <3> QED
      BY <3>1, ConcatProperties
  <2>8. Len(w) + Len(d) = N
    BY <1>0, <2>4, <2>6
  <2>9. /\ new \in Seq(S) /\ Len(new) = N
        /\ \A j \in 1..N : new[j] = IF j <= Len(w) THEN w[j] ELSE d[j - Len(w)]
    BY <2>1, <2>7, <2>8
  <2> HIDE DEF new
  <2>10. ASSUME NEW j \in 1..N
         PROVE  new[j] = IF j = NewSlot(point, gap) THEN x ELSE s[MovedFrom(point, gap, j)]
    <3>0. j \in Int
      BY <1>0
    <3>1. CASE j <= gap
      <4>1. j \in 1..gap /\ j <= Len(w)
        BY <1>0, <2>6, <3>0, <3>1
      <4>2. new[j] = IF j < point THEN s[j] ELSE IF j = point THEN x ELSE s[j - 1]
        BY <2>6, <2>9, <4>1
      <4> QED
        BY <1>0, <1>3, <3>0, <3>1, <4>2 DEF NewSlot, MovedFrom
    <3>2. CASE ~ (j <= gap)
      <4>1. ~ (j <= Len(w)) /\ j - Len(w) \in 1..(N - gap) /\ gap + (j - Len(w)) = j
        BY <1>0, <2>6, <3>0, <3>2
      <4>2. new[j] = s[j]
        BY <2>4, <2>9, <4>1
      <4> QED
        BY <1>0, <1>3, <3>0, <3>2, <4>2 DEF NewSlot, MovedFrom
    <3> QED
      BY <3>1, <3>2
  <2> QED
    BY <2>9, <2>10 DEF new
<1>4. Shifts
  BY <1>2, <1>3
<1> HIDE DEF new
<1> QED
  BY <1>4 DEF IsShifted, new

-----------------------------------------------------------------------------
(* Keys laid out over slots.                                               *)

\* Keys spread over at least as many slots share none, and stay in order.
LEMMA SpreadAscends ==
    ASSUME NEW m \in Nat, NEW begin \in Nat \ {0}, NEW slots \in Nat, m <= slots
    PROVE  /\ Spread(m, begin, slots) \in Seq(Nat \ {0}) /\ Len(Spread(m, begin, slots)) = m
           /\ IsAscending(Spread(m, begin, slots))
           /\ \A i \in 1..m : Spread(m, begin, slots)[i] \in begin..(begin + slots - 1)
<1> DEFINE Q(i) == ((i - 1) * slots) \div m
           spread == [i \in 1..m |-> begin + Q(i)]
<1>1. ASSUME NEW i \in 1..m
      PROVE  Q(i) \in 0..(slots - 1)
  <2> DEFINE x == (i - 1) * slots
  <2>1. x \in Nat /\ m \in Nat \ {0} /\ m \in Int
    BY <1>1
  <2>2. 0 * m <= x
    BY <2>1
  <2>3. x < slots * m
    <3>1. (i - 1) * slots <= (m - 1) * slots
      BY <1>1
    <3>2. (m - 1) * slots = m * slots - slots /\ m * slots = slots * m /\ slots > 0
      BY <1>1
    <3> QED
      BY <3>1, <3>2
  <2> HIDE DEF x
  <2>4. 0 <= x \div m /\ x \div m < slots /\ x \div m \in Int
    BY <2>1, <2>2, <2>3, QuotientBetween, Quotient
  <2>5. x \div m \in 0..(slots - 1)
    BY <2>4
  <2> QED
    BY <2>5 DEF x
<1>2. ASSUME NEW i \in 1..m, NEW j \in 1..m, i < j
      PROVE  Q(i) < Q(j)
  <2> DEFINE x == (i - 1) * slots
             y == (j - 1) * slots
             q == x \div m
  <2>1. x \in Int /\ y \in Int /\ m \in Nat \ {0}
    BY <1>2
  <2>2. x + slots <= y
    <3>1. i * slots <= (j - 1) * slots
      BY <1>2
    <3>2. (i - 1) * slots + slots = i * slots
      BY <1>2
    <3> QED
      BY <3>1, <3>2
  <2> HIDE DEF x, y
  <2>3. q \in Int /\ q * m <= x
    BY <2>1, Quotient
  <2> HIDE DEF q
  <2>4. q + 1 \in Int /\ (q + 1) * m <= y
    <3>1. (q + 1) * m = q * m + m /\ q * m \in Int
      BY <2>3
    <3> QED
      BY <2>1, <2>2, <2>3, <3>1
  <2>5. q + 1 <= y \div m /\ y \div m \in Int
    BY <2>1, <2>4, QuotientBetween, Quotient
  <2>6. q < y \div m
    BY <2>3, <2>5
  <2> QED
    BY <2>6 DEF q, x, y
<1>3. Spread(m, begin, slots) = spread
  BY DEF Spread
<1> HIDE DEF Q
<1>4. \A i \in 1..m : begin + Q(i) \in begin..(begin + slots - 1) /\ begin + Q(i) \in Nat \ {0}
  BY <1>1
<1>5. spread \in [1..m -> Nat \ {0}]
  BY <1>4
<1>6. \A i \in 1..m : spread[i] \in begin..(begin + slots - 1)
  BY <1>4
<1>7. ASSUME NEW i \in 1..m, NEW j \in 1..m, i < j
      PROVE  spread[i] < spread[j]
  BY <1>1, <1>2, <1>7
<1> HIDE DEF spread
<1>8. spread \in Seq(Nat \ {0}) /\ Len(spread) = m /\ DOMAIN spread = 1..m
  BY <1>5, Listed
<1>9. IsAscending(spread)
  BY <1>7, <1>8 DEF IsAscending
<1> QED
  BY <1>3, <1>6, <1>8, <1>9

\* Items at positions of their own.
PlacedIn(items, positions, begin, slots) ==
    /\ positions \in Seq(Nat \ {0}) /\ IsAscending(positions) /\ Len(positions) = Len(items)
    /\ \A i \in 1..Len(items) : positions[i] \in begin..(begin + slots - 1)

\* A list of slots has the items at their positions, and gaps elsewhere.
HoldsItems(laid, S, items, positions, begin, slots, gap) ==
    /\ laid \in Seq(S \cup {gap}) /\ Len(laid) = slots
    /\ \A i \in 1..Len(items) : laid[positions[i] - begin + 1] = items[i]
    /\ \A j \in 1..slots :
          \/ \E i \in 1..Len(items) : positions[i] = begin + j - 1
          \/ laid[j] = gap

\* Laying items out puts each at its position, and gaps elsewhere.
LEMMA LaidOut ==
    ASSUME NEW S, NEW items \in Seq(S), NEW gap, NEW begin \in Nat \ {0}, NEW slots \in Nat,
           NEW positions, PlacedIn(items, positions, begin, slots)
    PROVE  HoldsItems(Laid(items, positions, begin, slots, gap), S, items, positions, begin, slots, gap)
<1> DEFINE At(j, i) == positions[i] = begin + j - 1
           item(j) == IF \E i \in DOMAIN items : At(j, i)
                      THEN items[CHOOSE i \in DOMAIN items : At(j, i)] ELSE gap
           laid == [j \in 1..slots |-> item(j)]
           N == Len(items)
<1>0. N \in Nat /\ DOMAIN items = 1..N /\ \A i \in 1..N : items[i] \in S
  BY LenProperties, ElementOfSeq
<1>1. laid = Laid(items, positions, begin, slots, gap)
  BY DEF Laid
<1>2. positions \in Seq(Nat \ {0}) /\ Len(positions) = N
  BY DEF PlacedIn
<1>3. DOMAIN positions = 1..N /\ \A i \in 1..N : positions[i] \in Nat
  BY <1>2, LenProperties, ElementOfSeq
<1>4. \A i, k \in 1..N : positions[i] = positions[k] => i = k
  <2>1. SUFFICES ASSUME NEW i \in 1..N, NEW k \in 1..N, positions[i] = positions[k], i # k
                 PROVE  FALSE
    OBVIOUS
  <2>2. i < k \/ k < i
    BY <1>0, <2>1
  <2>3. positions[i] < positions[k] \/ positions[k] < positions[i]
    BY <1>3, <2>2 DEF PlacedIn, IsAscending
  <2> QED
    BY <1>3, <2>1, <2>3
<1>5. \A j \in 1..slots : item(j) \in S \cup {gap}
  BY <1>0
<1>6. laid \in [1..slots -> S \cup {gap}]
  <2> HIDE DEF item
  <2> QED
    BY <1>5
<1>7. ASSUME NEW i \in 1..N
      PROVE  laid[positions[i] - begin + 1] = items[i]
  <2> DEFINE j == positions[i] - begin + 1
  <2>1. positions[i] \in begin..(begin + slots - 1)
    BY DEF PlacedIn
  <2>2. j \in 1..slots /\ positions[i] = begin + j - 1
    BY <1>3, <2>1
  <2> HIDE DEF j
  <2>3. At(j, i) /\ i \in DOMAIN items
    BY <1>0, <2>2
  <2>4. \A k \in DOMAIN items : At(j, k) => k = i
    BY <1>0, <1>4, <2>2
  <2> HIDE DEF At
  <2>5. (CHOOSE k \in DOMAIN items : At(j, k)) = i
    BY <2>3, <2>4
  <2>6. item(j) = items[i]
    BY <2>3, <2>5
  <2>7. laid[j] = item(j)
    BY <2>2
  <2> QED
    BY <2>6, <2>7 DEF j
<1>8. ASSUME NEW j \in 1..slots
      PROVE  (\E i \in 1..N : positions[i] = begin + j - 1) \/ laid[j] = gap
  <2>1. laid[j] = item(j)
    OBVIOUS
  <2> QED
    BY <1>0, <2>1
<1> HIDE DEF laid
<1>9. laid \in Seq(S \cup {gap}) /\ Len(laid) = slots
  BY <1>6, Listed
<1> QED
  BY <1>1, <1>7, <1>8, <1>9 DEF HoldsItems

-----------------------------------------------------------------------------
(* Arrays.                                                                 *)

\* An array, whatever is in it.
ArrayType == [data : Seq(Key \cup {EMPTY_SLOT}), vals : Seq(Val \cup {NoVal}),
              segments : Seq(Segment), changes : Seq(Nat), count : Nat, trained : SUBSET Key]

\* Keys in order, each with a value.
Filled(a) ==
    /\ Len(a.vals) = Len(a.data)
    /\ \A i, j \in Occupied(a) : i < j => a.data[i] < a.data[j]
    /\ \A j \in Occupied(a) : a.vals[j] # NoVal

\* What an array's slots hold.
LEMMA OccupiedAre ==
    ASSUME NEW a \in ArrayType
    PROVE  /\ Len(a.data) \in Nat /\ DOMAIN a.data = 1..Len(a.data)
           /\ Occupied(a) = {j \in 1..Len(a.data) : a.data[j] # EMPTY_SLOT}
           /\ Occupied(a) \subseteq 1..Len(a.data)
           /\ \A j \in Occupied(a) : j \in Int /\ a.data[j] \in Key /\ a.data[j] \in Int
           /\ IsFiniteSet(Occupied(a)) /\ Cardinality(Occupied(a)) \in Nat
<1>1. a.data \in Seq(Key \cup {EMPTY_SLOT})
  BY DEF ArrayType
<1>2. Len(a.data) \in Nat /\ DOMAIN a.data = 1..Len(a.data)
  BY <1>1, LenProperties
<1>3. Occupied(a) = {j \in 1..Len(a.data) : a.data[j] # EMPTY_SLOT}
  BY <1>2 DEF Occupied
<1>4. \A j \in Occupied(a) : j \in 1..Len(a.data) /\ j \in Int /\ a.data[j] # EMPTY_SLOT
  BY <1>2, <1>3
<1>5. \A j \in 1..Len(a.data) : a.data[j] \in Key \cup {EMPTY_SLOT}
  BY <1>1, ElementOfSeq
<1>6. \A j \in Occupied(a) : a.data[j] \in Key /\ a.data[j] \in Int
  BY <1>4, <1>5, GappedAssumption
<1>7. Occupied(a) \subseteq 1..Len(a.data)
  BY <1>4
<1>8. IsFiniteSet(1..Len(a.data))
  BY <1>2, FirstNumbers
<1>9. IsFiniteSet(Occupied(a))
  BY <1>7, <1>8, FS_Subset
<1>10. Cardinality(Occupied(a)) \in Nat
  BY <1>9, FS_CardinalityType
<1> QED
  BY <1>2, <1>3, <1>4, <1>6, <1>7, <1>9, <1>10

\* What its values are.
LEMMA ValuesAre ==
    ASSUME NEW a \in ArrayType, Filled(a)
    PROVE  /\ DOMAIN a.vals = 1..Len(a.data)
           /\ \A j \in 1..Len(a.data) : a.vals[j] \in Val \cup {NoVal}
           /\ \A j \in Occupied(a) : a.vals[j] \in Val
<1>1. a.vals \in Seq(Val \cup {NoVal})
  BY DEF ArrayType
<1>2. Len(a.vals) = Len(a.data)
  BY DEF Filled
<1>3. DOMAIN a.vals = 1..Len(a.data) /\ \A j \in 1..Len(a.data) : a.vals[j] \in Val \cup {NoVal}
  BY <1>1, <1>2, LenProperties, ElementOfSeq
<1>4. \A j \in Occupied(a) : j \in 1..Len(a.data) /\ a.vals[j] # NoVal
  BY OccupiedAre DEF Filled
<1> QED
  BY <1>3, <1>4

\* An array's keys are numbers in ascending order, and one slot only has a key.
LEMMA SlotsAscend ==
    ASSUME NEW a \in ArrayType, Filled(a), NEW i \in Occupied(a), NEW j \in Occupied(a)
    PROVE  i < j <=> a.data[i] < a.data[j]
<1>0. i \in Int /\ j \in Int /\ a.data[i] \in Int /\ a.data[j] \in Int
  BY OccupiedAre
<1>1. i < j => a.data[i] < a.data[j]
  BY DEF Filled
<1>2. j < i => a.data[j] < a.data[i]
  BY DEF Filled
<1> QED
  BY <1>0, <1>1, <1>2

\* There are as many rows as slots with a key.
LEMMA RowsAreCounted ==
    ASSUME NEW a \in ArrayType, Filled(a)
    PROVE  IsFiniteSet(Rows(a)) /\ Cardinality(Rows(a)) = Cardinality(Occupied(a))
<1> DEFINE row == [j \in Occupied(a) |-> <<a.data[j], a.vals[j]>>]
<1>1. ASSUME NEW i \in Occupied(a), NEW j \in Occupied(a), row[i] = row[j]
      PROVE  i = j
  <2>1. a.data[i] = a.data[j]
    BY <1>1
  <2>2. i \in Int /\ j \in Int /\ a.data[i] \in Int
    BY OccupiedAre
  <2>3. ~ (i < j) /\ ~ (j < i)
    BY <2>1, <2>2, SlotsAscend
  <2> QED
    BY <2>2, <2>3
<1>2. row \in [Occupied(a) -> Rows(a)]
  BY DEF Rows
<1>3. \A r \in Rows(a) : \E j \in Occupied(a) : row[j] = r
  BY DEF Rows
<1> HIDE DEF row
<1>4. row \in Bijection(Occupied(a), Rows(a))
  BY <1>1, <1>2, <1>3, Fun_IsBij
<1>5. IsFiniteSet(Occupied(a))
  BY OccupiedAre
<1>6. ExistsBijection(Occupied(a), Rows(a))
  BY <1>4 DEF ExistsBijection
<1> QED
  BY <1>5, <1>6, FS_Bijection

\* A lower bound divides an array's keys.
LEMMA LowerBound ==
    ASSUME NEW a \in ArrayType, Filled(a), NEW key \in Int
    PROVE  /\ lower_bound_index(a, key) \in 1..(Len(a.data) + 1)
           /\ lower_bound_index(a, key) \in Int
           /\ \A j \in Occupied(a) : j < lower_bound_index(a, key) <=> a.data[j] < key
           /\ lower_bound_index(a, key) # Len(a.data) + 1 => lower_bound_index(a, key) \in Occupied(a)
<1> DEFINE N == Len(a.data)
           T == {j \in Occupied(a) : a.data[j] >= key}
           S == T \cup {N + 1}
           p == Min(S)
<1>0. N \in Nat /\ \A j \in Occupied(a) : j \in 1..N /\ j \in Int /\ a.data[j] \in Int
  BY OccupiedAre
<1>1. p = lower_bound_index(a, key)
  BY DEF lower_bound_index
<1>2. S \in SUBSET Int /\ S # {} /\ \A j \in S : 1 <= j
  BY <1>0
<1> HIDE DEF S
<1>3. p \in S /\ p \in Int /\ \A j \in S : p <= j
  BY <1>2, MinOf
<1> HIDE DEF p
<1>4. p \in 1..(N + 1) /\ (p # N + 1 => p \in Occupied(a) /\ a.data[p] >= key)
  BY <1>0, <1>3 DEF S
<1>5. ASSUME NEW j \in Occupied(a)
      PROVE  j < p <=> a.data[j] < key
  <2>1. j < p => a.data[j] < key
    <3>1. a.data[j] >= key => j \in S
      BY DEF S
    <3> QED
      BY <1>0, <1>3, <3>1
  <2>2. ASSUME a.data[j] < key, ~ (j < p)
        PROVE  FALSE
    <3>1. p # N + 1 /\ p <= j
      BY <1>0, <1>3, <2>2
    <3>2. p \in Occupied(a) /\ a.data[p] >= key
      BY <1>4, <3>1
    <3>3. ~ (a.data[j] < a.data[p])
      <4>1. ~ (j < p)
        BY <2>2
      <4> QED
        BY <3>2, <4>1, SlotsAscend
    <3> QED
      BY <1>0, <2>2, <3>2, <3>3
  <2> QED
    BY <2>1, <2>2
<1> QED
  BY <1>1, <1>3, <1>4, <1>5

-----------------------------------------------------------------------------
(* A fresh layout.                                                         *)

\* A quotient rounded up is enough.
LEMMA RoundedUp ==
    ASSUME NEW m \in Nat, NEW n \in Nat \ {0}
    PROVE  CeilDiv(m, n) \in Nat /\ m <= CeilDiv(m, n) * n
<1> DEFINE x == m + n - 1
           q == x \div n
<1>1. x \in Int
  OBVIOUS
<1> HIDE DEF x
<1>2. q \in Int /\ q * n <= x /\ x < q * n + n
  BY <1>1, Quotient
<1>3. 0 * n <= x
  BY DEF x
<1>4. 0 <= q
  BY <1>1, <1>3, QuotientBetween
<1> HIDE DEF q
<1>5. q * n \in Int
  BY <1>2
<1>6. m <= q * n
  BY <1>2, <1>5 DEF x
<1>7. q \in Nat
  BY <1>2, <1>4
<1> QED
  BY <1>6, <1>7 DEF CeilDiv, q, x

\* A segment may hold a key at least.
LEMMA CapIsPositive ==
    ASSUME NEW n \in Nat
    PROVE  segment_cap(n) \in Nat \ {0}
<1> DEFINE pieces == CeilDiv(n, MaxSegmentKeys)
<1>0. MaxSegmentKeys \in Nat \ {0}
  BY GappedAssumption
<1>1. pieces \in Nat
  BY <1>0, RoundedUp
<1>2. CASE pieces <= 1
  BY <1>0, <1>2 DEF segment_cap
<1>3. CASE ~ (pieces <= 1)
  <2>1. n # 0
    <3>1. SUFFICES ASSUME n = 0
                   PROVE  pieces < 1
      BY <1>1, <1>3
    <3> DEFINE x == 0 + MaxSegmentKeys - 1
    <3>2. x \in Int /\ x < 1 * MaxSegmentKeys
      BY <1>0
    <3> HIDE DEF x
    <3>3. x \div MaxSegmentKeys < 1
      BY <1>0, <3>2, QuotientBetween
    <3> QED
      BY <3>1, <3>3 DEF CeilDiv, x
  <2> HIDE DEF pieces
  <2>2. pieces \in Nat \ {0}
    BY <1>1, <1>3
  <2>3. CeilDiv(n, pieces) \in Nat /\ n <= CeilDiv(n, pieces) * pieces
    BY <2>2, RoundedUp
  <2>4. CeilDiv(n, pieces) # 0
    <3>1. CeilDiv(n, pieces) = 0 => CeilDiv(n, pieces) * pieces = 0
      BY <2>2
    <3> QED
      BY <2>1, <2>3, <3>1
  <2>5. segment_cap(n) = CeilDiv(n, pieces)
    BY <1>3 DEF segment_cap, pieces
  <2> QED
    BY <2>3, <2>4, <2>5
<1> QED
  BY <1>2, <1>3

\* An array that is as it should be.
Whole(a) == a \in ArrayType /\ Sound(a)

\* So are its parts.
LEMMA WholeIs ==
    ASSUME NEW a, Whole(a)
    PROVE  /\ a \in ArrayType /\ Filled(a)
           /\ a.segments \in Seq(Segment) /\ StartsAscend(a.segments)
           /\ a.changes \in Seq(Nat) /\ Len(a.changes) = Len(a.segments)
           /\ Len(a.segments) \in Nat /\ DOMAIN a.segments = 1..Len(a.segments)
           /\ DOMAIN a.changes = 1..Len(a.segments)
           /\ \A s \in 1..Len(a.segments) : /\ a.segments[s] \in Segment /\ a.changes[s] \in Nat
                                            /\ a.segments[s].start_key \in Int
<1>1. a \in ArrayType /\ Filled(a)
  BY DEF Whole, Sound, Filled
<1>2. a.segments \in Seq(Segment) /\ a.changes \in Seq(Nat) /\ Len(a.changes) = Len(a.segments)
  BY <1>1 DEF ArrayType, Whole, Sound
<1>3. /\ Len(a.segments) \in Nat /\ DOMAIN a.segments = 1..Len(a.segments)
      /\ DOMAIN a.changes = 1..Len(a.segments)
  BY <1>2, LenProperties
<1>4. \A s \in 1..Len(a.segments) : a.segments[s] \in Segment /\ a.changes[s] \in Nat
  BY <1>2, ElementOfSeq
<1>5. \A s \in 1..Len(a.segments) : a.segments[s].start_key \in Int
  BY <1>4, GappedAssumption DEF Segment
<1>6. StartsAscend(a.segments)
  BY <1>3, <1>5 DEF StartsAscend, Whole, Sound
<1> QED
  BY <1>1, <1>2, <1>3, <1>4, <1>5, <1>6

\* Keys in order and a value for each.
Sorted(keys, values) ==
    /\ keys \in Seq(Key) /\ IsAscending(keys)
    /\ values \in Seq(Val) /\ Len(values) = Len(keys)

\* The rows of a list of keys and a list of values.
RowsOf(keys, values) == {<<keys[i], values[i]>> : i \in 1..Len(keys)}

\* What the sorted keys are.
LEMMA SortedAre ==
    ASSUME NEW keys, NEW values, Sorted(keys, values)
    PROVE  /\ Len(keys) \in Nat /\ DOMAIN keys = 1..Len(keys)
           /\ \A i \in 1..Len(keys) : /\ keys[i] \in Key /\ keys[i] \in Int /\ keys[i] # EMPTY_SLOT
                                      /\ values[i] \in Val /\ values[i] # NoVal
           /\ \A i, k \in 1..Len(keys) : i < k => keys[i] < keys[k]
<1>1. /\ keys \in Seq(Key) /\ values \in Seq(Val) /\ Len(values) = Len(keys)
  BY DEF Sorted
<1>2. Len(keys) \in Nat /\ DOMAIN keys = 1..Len(keys)
  BY <1>1, LenProperties
<1>3. \A i \in 1..Len(keys) : keys[i] \in Key /\ values[i] \in Val
  BY <1>1, ElementOfSeq
<1>4. \A i \in 1..Len(keys) : keys[i] \in Int /\ keys[i] # EMPTY_SLOT /\ values[i] # NoVal
  <2>1. \A k \in Key : k \in Int /\ k # EMPTY_SLOT
    BY GappedAssumption
  <2>2. \A v \in Val : v # NoVal
    BY GappedAssumption
  <2> QED
    BY <1>3, <2>1, <2>2
<1>5. \A i, k \in 1..Len(keys) : i < k => keys[i] < keys[k]
  BY <1>2 DEF Sorted, IsAscending
<1> QED
  BY <1>2, <1>3, <1>4, <1>5

\* A layout of sorted keys is whole, holds them with their values, and counts no
\* changes.
LEMMA LayoutIsWhole ==
    ASSUME NEW keys, NEW values, Sorted(keys, values)
    PROVE  LET a == layout(keys, values)
           IN  /\ Whole(a) /\ Rows(a) = RowsOf(keys, values)
               /\ \A s \in DOMAIN a.segments : a.changes[s] = 0
               /\ a.count = Len(keys)
<1> DEFINE n == Len(keys)
           capacity == CeilDiv(10 * n, DensityOf10)
           positions == Spread(n, 1, capacity)
           model == build_segmented_model(keys, positions, eps, segment_cap(n))
           a == layout(keys, values)
<1>0. /\ n \in Nat /\ DOMAIN keys = 1..n
      /\ \A i \in 1..n : /\ keys[i] \in Key /\ keys[i] \in Int /\ keys[i] # EMPTY_SLOT
                         /\ values[i] \in Val /\ values[i] # NoVal
      /\ \A i, k \in 1..n : i < k => keys[i] < keys[k]
  BY SortedAre
<1>1. capacity \in Nat /\ n <= capacity
  <2>1. DensityOf10 \in Nat \ {0} /\ DensityOf10 <= 10
    BY GappedAssumption
  <2> DEFINE m == 10 * n
  <2>2. m \in Nat
    BY <1>0
  <2>3. CeilDiv(m, DensityOf10) \in Nat /\ m <= CeilDiv(m, DensityOf10) * DensityOf10
    <3> HIDE DEF m
    <3> QED
      BY <2>1, <2>2, RoundedUp
  <2> HIDE DEF capacity, n
  <2>4. capacity \in Nat /\ 10 * n <= capacity * DensityOf10
    BY <2>3 DEF capacity
  <2>5. capacity * DensityOf10 <= capacity * 10
    BY <2>1, <2>4
  <2>6. capacity * 10 = 10 * capacity /\ capacity * DensityOf10 \in Int
    BY <2>1, <2>4
  <2>7. 10 * n <= 10 * capacity
    BY <1>0, <2>4, <2>5, <2>6
  <2> QED
    BY <1>0, <2>4, <2>7
<1>2. /\ a.data = Laid(keys, positions, 1, capacity, EMPTY_SLOT)
      /\ a.vals = Laid(values, positions, 1, capacity, NoVal)
      /\ a.segments = model /\ a.changes = [s \in DOMAIN model |-> 0]
      /\ a.count = n /\ a.trained = ToSet(keys)
      /\ a = [data |-> a.data, vals |-> a.vals, segments |-> a.segments, changes |-> a.changes,
              count |-> a.count, trained |-> a.trained]
  BY DEF layout
<1> HIDE DEF a, capacity
<1>3. /\ positions \in Seq(Nat \ {0}) /\ Len(positions) = n /\ IsAscending(positions)
      /\ \A i \in 1..n : positions[i] \in 1..(1 + capacity - 1)
  <2> HIDE DEF n
  <2>1. 1 \in Nat \ {0}
    OBVIOUS
  <2> QED
    BY <1>0, <1>1, <2>1, SpreadAscends
<1> HIDE DEF positions
<1>4. keys \in Seq(Key) /\ values \in Seq(Val) /\ Len(values) = n /\ IsAscending(keys)
  BY DEF Sorted
<1>5. PlacedIn(keys, positions, 1, capacity) /\ PlacedIn(values, positions, 1, capacity)
  BY <1>3, <1>4 DEF PlacedIn
<1>6. /\ a.data \in Seq(Key \cup {EMPTY_SLOT}) /\ Len(a.data) = capacity
      /\ \A i \in 1..n : a.data[positions[i] - 1 + 1] = keys[i]
      /\ \A j \in 1..capacity : (\E i \in 1..n : positions[i] = 1 + j - 1) \/ a.data[j] = EMPTY_SLOT
  <2> DEFINE laid == Laid(keys, positions, 1, capacity, EMPTY_SLOT)
  <2>1. keys \in Seq(Key) /\ 1 \in Nat \ {0}
    BY <1>4
  <2>2. HoldsItems(laid, Key, keys, positions, 1, capacity, EMPTY_SLOT)
    BY <1>1, <1>5, <2>1, LaidOut
  <2>3. a.data = laid
    BY <1>2
  <2> HIDE DEF laid
  <2> QED
    BY <2>2, <2>3 DEF HoldsItems
<1>7. /\ a.vals \in Seq(Val \cup {NoVal}) /\ Len(a.vals) = capacity
      /\ \A i \in 1..n : a.vals[positions[i] - 1 + 1] = values[i]
  <2> DEFINE laid == Laid(values, positions, 1, capacity, NoVal)
  <2>1. values \in Seq(Val) /\ 1 \in Nat \ {0} /\ Len(values) = n
    BY <1>4
  <2>2. HoldsItems(laid, Val, values, positions, 1, capacity, NoVal)
    BY <1>1, <1>5, <2>1, LaidOut
  <2>3. a.vals = laid
    BY <1>2
  <2> HIDE DEF laid
  <2> QED
    BY <2>1, <2>2, <2>3 DEF HoldsItems
<1>8. \A i \in 1..n : /\ positions[i] \in 1..capacity /\ positions[i] \in Nat
                      /\ a.data[positions[i]] = keys[i] /\ a.vals[positions[i]] = values[i]
  <2>1. SUFFICES ASSUME NEW i \in 1..n
                 PROVE  /\ positions[i] \in 1..capacity /\ positions[i] \in Nat
                        /\ a.data[positions[i]] = keys[i] /\ a.vals[positions[i]] = values[i]
    OBVIOUS
  <2>2. positions[i] \in 1..capacity
    BY <1>1, <1>3
  <2>3. positions[i] - 1 + 1 = positions[i]
    BY <1>1, <2>2
  <2> QED
    BY <1>6, <1>7, <2>2, <2>3
<1>9. Models(model, keys, positions, 1)
  <2>1. Points(keys, positions)
    BY <1>3, <1>4 DEF Points
  <2>2. segment_cap(n) \in Nat \ {0}
    BY <1>0, CapIsPositive
  <2> QED
    BY <2>1, <2>2, ModelIsBuilt
<1> HIDE DEF model
<1>10. model \in Seq(Segment) /\ StartsAscend(model) /\ (n = 0 => model = <<>>) /\ (n # 0 => model # <<>>)
  BY <1>0, <1>9 DEF Models
<1>11. Len(model) \in Nat /\ DOMAIN model = 1..Len(model)
  BY <1>10, LenProperties
<1>12. a.changes \in Seq(Nat) /\ Len(a.changes) = Len(model) /\ \A s \in DOMAIN model : a.changes[s] = 0
  <2>1. [s \in DOMAIN model |-> 0] \in [1..Len(model) -> Nat]
    BY <1>11
  <2>2. a.changes \in [1..Len(model) -> Nat]
    BY <1>2, <2>1
  <2>3. \A s \in DOMAIN model : a.changes[s] = 0
    BY <1>2
  <2> QED
    BY <1>11, <2>2, <2>3, Listed
<1>13. a \in ArrayType
  <2>1. ToSet(keys) \subseteq Key
    BY <1>0 DEF ToSet
  <2> QED
    BY <1>0, <1>2, <1>6, <1>7, <1>10, <1>12, <2>1 DEF ArrayType
<1>14. Occupied(a) = {positions[i] : i \in 1..n}
  <2>1. ASSUME NEW j \in Occupied(a)
        PROVE  \E i \in 1..n : j = positions[i]
    <3>1. j \in 1..capacity /\ a.data[j] # EMPTY_SLOT /\ j \in Int
      BY <1>6, <1>13, OccupiedAre
    <3>2. PICK i \in 1..n : positions[i] = 1 + j - 1
      BY <1>6, <3>1
    <3>3. 1 + j - 1 = j
      BY <3>1
    <3> QED
      BY <3>2, <3>3
  <2>2. ASSUME NEW i \in 1..n
        PROVE  positions[i] \in Occupied(a)
    BY <1>0, <1>6, <1>8, <1>13, OccupiedAre
  <2> QED
    BY <2>1, <2>2
<1>15. \A i, k \in 1..n : i < k => positions[i] < positions[k]
  <2>1. DOMAIN positions = 1..n
    BY <1>3, LenProperties
  <2> QED
    BY <1>3, <2>1 DEF IsAscending
<1>16. Filled(a)
  <2>1. ASSUME NEW j \in Occupied(a), NEW l \in Occupied(a), j < l
        PROVE  a.data[j] < a.data[l]
    <3>1. PICK i \in 1..n : j = positions[i]
      BY <1>14
    <3>2. PICK k \in 1..n : l = positions[k]
      BY <1>14
    <3>3. i < k
      <4>1. i \in Int /\ k \in Int /\ positions[i] \in Int /\ positions[k] \in Int
        BY <1>8
      <4>2. k < i => positions[k] < positions[i]
        BY <1>15
      <4>3. positions[i] < positions[k]
        BY <2>1, <3>1, <3>2
      <4> QED
        BY <4>1, <4>2, <4>3
    <3> QED
      BY <1>0, <1>8, <3>1, <3>2, <3>3
  <2>2. \A j \in Occupied(a) : a.vals[j] # NoVal
    BY <1>0, <1>8, <1>14
  <2> QED
    BY <1>6, <1>7, <2>1, <2>2 DEF Filled
<1>17. Cardinality(Occupied(a)) = n
  <2>1. positions \in [1..n -> Occupied(a)]
    <3>1. DOMAIN positions = 1..n
      BY <1>3, LenProperties
    <3>2. positions = [i \in 1..n |-> positions[i]]
      BY <1>3, <3>1, LenProperties
    <3> QED
      BY <1>14, <3>2
  <2>2. \A i, k \in 1..n : positions[i] = positions[k] => i = k
    <3>1. SUFFICES ASSUME NEW i \in 1..n, NEW k \in 1..n, positions[i] = positions[k], i # k
                   PROVE  FALSE
      OBVIOUS
    <3>2. i < k \/ k < i
      BY <3>1
    <3>3. positions[i] < positions[k] \/ positions[k] < positions[i]
      BY <1>15, <3>2
    <3> QED
      BY <1>8, <3>1, <3>3
  <2>3. \A j \in Occupied(a) : \E i \in 1..n : positions[i] = j
    BY <1>14
  <2>4. ExistsBijection(1..n, Occupied(a))
    BY <2>1, <2>2, <2>3, Fun_IsBij DEF ExistsBijection
  <2>5. IsFiniteSet(1..n) /\ Cardinality(1..n) = n
    BY <1>0, FirstNumbers
  <2> QED
    BY <2>4, <2>5, FS_Bijection
<1>18. Drifted(a)
  <2>1. SUFFICES ASSUME NEW j \in Occupied(a), NEW s \in DOMAIN a.segments,
                        Owns(a.segments, s, a.data[j])
                 PROVE  /\ a.segments[s].start_key <= a.data[j]
                        /\ \E slot \in 1..Len(a.data) :
                              /\ Near(slot, OnLine(a.segments[s], a.data[j]), a.segments[s].den, eps)
                              /\ j - slot \in (-a.changes[s])..a.changes[s]
                              /\ a.segments[s].anchor <= slot
                              /\ a.data[j] = a.segments[s].start_key => slot = a.segments[s].anchor
    BY DEF Drifted
  <2>2. PICK i \in 1..n : j = positions[i]
    BY <1>14
  <2>3. a.data[j] = keys[i] /\ j \in 1..Len(a.data) /\ j \in Int
    BY <1>6, <1>8, <2>2
  <2>4. Predicts(model[s], keys, positions, eps, i)
    BY <1>2, <1>9, <2>1, <2>3 DEF Models
  <2>5. a.changes[s] = 0 /\ j - j \in (-0)..0
    BY <1>2, <1>12, <2>3
  <2> QED
    BY <1>2, <2>2, <2>3, <2>4, <2>5 DEF Predicts
<1>19. Sound(a)
  <2>1. \A s, t \in DOMAIN a.segments : s < t => a.segments[s].start_key < a.segments[t].start_key
    BY <1>2, <1>10 DEF StartsAscend
  <2>2. a.segments # <<>> => a.data # <<>>
    <3>1. n # 0 => Len(a.data) # 0
      BY <1>0, <1>1, <1>6
    <3> QED
      BY <1>2, <1>6, <1>10, <3>1, EmptySeq
  <2>3. Occupied(a) # {} => a.segments # <<>>
    <3>1. n = 0 => Occupied(a) = {}
      BY <1>14
    <3> QED
      BY <1>2, <1>10, <3>1
  <2>4. a.trained \subseteq KeysIn(a)
    BY <1>0, <1>2, <1>8, <1>14 DEF ToSet, KeysIn
  <2>5. Len(a.changes) = Len(a.segments) /\ a.count = Cardinality(Occupied(a))
    BY <1>2, <1>12, <1>17
  <2> QED
    BY <1>16, <1>18, <2>1, <2>2, <2>3, <2>4, <2>5 DEF Sound, Filled
<1>20. Rows(a) = RowsOf(keys, values)
  BY <1>8, <1>14 DEF Rows, RowsOf
<1>21. Whole(a) /\ \A s \in DOMAIN a.segments : a.changes[s] = 0
  BY <1>2, <1>12, <1>13, <1>19 DEF Whole
<1> QED
  BY <1>2, <1>20, <1>21 DEF a

-----------------------------------------------------------------------------
(* Laying an array out anew.                                               *)

\* The slots of a region that hold keys.
Within(a, begin, end) == {j \in Occupied(a) : begin <= j /\ j < end}

\* A list of slots is the region's, in order, and the region has room for it.
Lists(slots, a, begin, end) ==
    /\ slots \in Seq(Within(a, begin, end)) /\ IsAscending(slots)
    /\ \A j \in Within(a, begin, end) : \E i \in 1..Len(slots) : slots[i] = j
    /\ begin <= end => Len(slots) <= end - begin

\* SlotsIn lists the slots of a region that hold a key.
LEMMA SlotsAreListed ==
    ASSUME NEW a \in ArrayType, NEW begin \in Nat \ {0}, NEW end \in 1..(Len(a.data) + 1)
    PROVE  Lists(SlotsIn(a, begin, end), a, begin, end)
<1> DEFINE S == {j \in begin..(end - 1) : a.data[j] # EMPTY_SLOT}
           W == Within(a, begin, end)
           slots == Ascending(S)
<1>0. Len(a.data) \in Nat /\ Occupied(a) = {j \in 1..Len(a.data) : a.data[j] # EMPTY_SLOT}
  BY OccupiedAre
<1>1. S = W
  BY <1>0 DEF Within
<1>2. S \in SUBSET Int
  OBVIOUS
<1>3. IsFiniteSet(Occupied(a)) /\ S \subseteq Occupied(a)
  BY <1>1, OccupiedAre DEF Within
<1>4. IsFiniteSet(S)
  BY <1>3, FS_Subset
<1> HIDE DEF S
<1>5. /\ slots \in Seq(S) /\ Len(slots) = Cardinality(S) /\ Cardinality(S) \in Nat
      /\ IsAscending(slots) /\ \A x \in S : \E n \in 1..Cardinality(S) : slots[n] = x
  BY <1>2, <1>4, AscendingLists
<1>6. SlotsIn(a, begin, end) = slots
  BY DEF SlotsIn, S
<1>7. begin <= end => Len(slots) <= end - begin
  <2>1. SUFFICES ASSUME begin <= end
                 PROVE  Cardinality(S) <= end - begin
    BY <1>5
  <2>2. S \subseteq begin..(end - 1)
    BY DEF S
  <2>3. begin \in Int /\ end - 1 \in Int
    OBVIOUS
  <2>4. /\ IsFiniteSet(begin..(end - 1))
        /\ Cardinality(begin..(end - 1)) = IF begin > end - 1 THEN 0 ELSE (end - 1) - begin + 1
    BY <2>3, FS_Interval
  <2>5. Cardinality(begin..(end - 1)) = end - begin
    BY <2>1, <2>3, <2>4
  <2>6. Cardinality(S) <= Cardinality(begin..(end - 1))
    BY <2>2, <2>4, FS_Subset
  <2> QED
    BY <2>5, <2>6
<1> HIDE DEF slots
<1>8. slots \in Seq(W) /\ \A j \in W : \E i \in 1..Len(slots) : slots[i] = j
  BY <1>1, <1>5
<1> QED
  BY <1>5, <1>6, <1>7, <1>8 DEF Lists

\* The keys and values of the slots are sorted, and are rows of the array.
LEMMA ListedSlots ==
    ASSUME NEW a \in ArrayType, Filled(a), NEW begin, NEW end,
           NEW slots, Lists(slots, a, begin, end)
    PROVE  /\ Sorted(KeysAt(a, slots), ValsAt(a, slots)) /\ Len(KeysAt(a, slots)) = Len(slots)
           /\ Len(slots) \in Nat
           /\ \A i \in 1..Len(slots) :
                 /\ slots[i] \in Within(a, begin, end)
                 /\ KeysAt(a, slots)[i] = a.data[slots[i]] /\ ValsAt(a, slots)[i] = a.vals[slots[i]]
           /\ RowsOf(KeysAt(a, slots), ValsAt(a, slots)) =
                 {<<a.data[j], a.vals[j]>> : j \in Within(a, begin, end)}
<1> DEFINE W == Within(a, begin, end)
           K == KeysAt(a, slots)
           V == ValsAt(a, slots)
           n == Len(slots)
<1>1. slots \in Seq(W)
  BY DEF Lists
<1>2. n \in Nat /\ DOMAIN slots = 1..n
  BY <1>1, LenProperties
<1>3. \A i \in 1..n : slots[i] \in W /\ slots[i] \in Occupied(a)
  <2>1. \A i \in 1..n : slots[i] \in W
    BY <1>1, ElementOfSeq
  <2> QED
    BY <2>1 DEF Within
<1>4. K = [i \in 1..n |-> a.data[slots[i]]] /\ V = [i \in 1..n |-> a.vals[slots[i]]]
  BY <1>2 DEF KeysAt, ValsAt
<1>5. \A i \in 1..n : a.data[slots[i]] \in Key /\ a.vals[slots[i]] \in Val
  BY <1>3, OccupiedAre, ValuesAre
<1> HIDE DEF n, K, V
<1>6. K \in [1..n -> Key] /\ V \in [1..n -> Val]
  BY <1>4, <1>5
<1>7. K \in Seq(Key) /\ Len(K) = n /\ DOMAIN K = 1..n /\ V \in Seq(Val) /\ Len(V) = n
  BY <1>2, <1>6, Listed
<1>8. \A i \in 1..n : K[i] = a.data[slots[i]] /\ V[i] = a.vals[slots[i]]
  BY <1>4
<1>9. IsAscending(K)
  <2>1. SUFFICES ASSUME NEW i \in 1..n, NEW k \in 1..n, i < k
                 PROVE  K[i] < K[k]
    BY <1>7 DEF IsAscending
  <2>2. slots[i] < slots[k]
    BY <1>2, <2>1 DEF Lists, IsAscending
  <2> QED
    BY <1>3, <1>8, <2>2, SlotsAscend
<1>10. Sorted(K, V)
  BY <1>7, <1>9 DEF Sorted
<1>11. RowsOf(K, V) = {<<a.data[j], a.vals[j]>> : j \in W}
  <2>1. ASSUME NEW i \in 1..n
        PROVE  \E j \in W : <<K[i], V[i]>> = <<a.data[j], a.vals[j]>>
    BY <1>3, <1>8
  <2>2. ASSUME NEW j \in W
        PROVE  \E i \in 1..n : <<K[i], V[i]>> = <<a.data[j], a.vals[j]>>
    <3>1. PICK i \in 1..n : slots[i] = j
      BY DEF Lists, n
    <3> QED
      BY <1>8, <3>1
  <2>3. RowsOf(K, V) = {<<K[i], V[i]>> : i \in 1..n}
    BY <1>7 DEF RowsOf
  <2>4. \A r \in RowsOf(K, V) : r \in {<<a.data[j], a.vals[j]>> : j \in W}
    BY <2>1, <2>3
  <2>5. \A r \in {<<a.data[j], a.vals[j]>> : j \in W} : r \in RowsOf(K, V)
    BY <2>2, <2>3
  <2> QED
    BY <2>4, <2>5
<1> QED
  BY <1>2, <1>3, <1>7, <1>8, <1>10, <1>11 DEF n, K, V

\* What a rebuilt array is.
Rebuilds(b, rows) ==
    /\ Whole(b) /\ Rows(b) = rows
    /\ \A s \in DOMAIN b.segments : b.changes[s] = 0

\* The whole array laid out anew is whole and has the rows it had.
LEMMA RebalanceKeepsRows ==
    ASSUME NEW a, Whole(a)
    PROVE  Rebuilds(rebalance(a), Rows(a))
<1> DEFINE end == Len(a.data) + 1
           slots == SlotsIn(a, 1, end)
<1>0. a \in ArrayType /\ Filled(a)
  BY WholeIs
<1>1. end \in 1..(Len(a.data) + 1)
  BY <1>0, OccupiedAre
<1>2. Lists(slots, a, 1, end)
  BY <1>0, <1>1, SlotsAreListed
<1>3. Within(a, 1, end) = Occupied(a)
  BY <1>0, OccupiedAre DEF Within
<1> HIDE DEF slots, end
<1>4. /\ Sorted(KeysAt(a, slots), ValsAt(a, slots))
      /\ RowsOf(KeysAt(a, slots), ValsAt(a, slots)) =
            {<<a.data[j], a.vals[j]>> : j \in Within(a, 1, end)}
  BY <1>0, <1>2, ListedSlots
<1>5. RowsOf(KeysAt(a, slots), ValsAt(a, slots)) = Rows(a)
  BY <1>3, <1>4 DEF Rows
<1>6. rebalance(a) = layout(KeysAt(a, slots), ValsAt(a, slots))
  BY DEF rebalance, slots, end
<1> QED
  BY <1>4, <1>5, <1>6, LayoutIsWhole DEF Rebuilds

\* With a key it did not have it gains that row.
LEMMA RebalanceWithAddsRow ==
    ASSUME NEW a, Whole(a), NEW key \in Key, key \notin KeysIn(a), NEW val \in Val
    PROVE  Rebuilds(rebalance_with(a, key, val), Rows(a) \cup {<<key, val>>})
<1> DEFINE N == Len(a.data)
           point == lower_bound_index(a, key)
           below == SlotsIn(a, 1, point)
           above == SlotsIn(a, point, N + 1)
           lowKeys == KeysAt(a, below)
           lowVals == ValsAt(a, below)
           highKeys == KeysAt(a, above)
           highVals == ValsAt(a, above)
           keys == lowKeys \o <<key>> \o highKeys
           values == lowVals \o <<val>> \o highVals
           m == Len(below)
           n == Len(above)
<1>0. a \in ArrayType /\ Filled(a) /\ N \in Nat /\ key \in Int
  BY WholeIs, OccupiedAre, GappedAssumption
<1>1. /\ point \in 1..(N + 1) /\ \A j \in Occupied(a) : j < point <=> a.data[j] < key
  BY <1>0, LowerBound
<1> HIDE DEF point
<1>2. Lists(below, a, 1, point) /\ Lists(above, a, point, N + 1)
  <2>1. N + 1 \in 1..(N + 1) /\ 1 \in Nat \ {0} /\ point \in Nat \ {0}
    BY <1>0, <1>1
  <2> QED
    BY <1>0, <1>1, <2>1, SlotsAreListed
<1> HIDE DEF below, above
<1>3. /\ Sorted(lowKeys, lowVals) /\ Len(lowKeys) = m /\ m \in Nat
      /\ \A i \in 1..m : /\ below[i] \in Within(a, 1, point)
                         /\ lowKeys[i] = a.data[below[i]] /\ lowVals[i] = a.vals[below[i]]
      /\ RowsOf(lowKeys, lowVals) = {<<a.data[j], a.vals[j]>> : j \in Within(a, 1, point)}
  BY <1>0, <1>2, ListedSlots
<1>4. /\ Sorted(highKeys, highVals) /\ Len(highKeys) = n /\ n \in Nat
      /\ \A i \in 1..n : /\ above[i] \in Within(a, point, N + 1)
                         /\ highKeys[i] = a.data[above[i]] /\ highVals[i] = a.vals[above[i]]
      /\ RowsOf(highKeys, highVals) = {<<a.data[j], a.vals[j]>> : j \in Within(a, point, N + 1)}
  BY <1>0, <1>2, ListedSlots
<1> HIDE DEF lowKeys, lowVals, highKeys, highVals, m, n
<1>5. /\ \A i \in 1..m : lowKeys[i] < key /\ lowKeys[i] \in Int
      /\ \A i \in 1..n : key < highKeys[i] /\ highKeys[i] \in Int
  <2>1. ASSUME NEW i \in 1..m
        PROVE  lowKeys[i] < key /\ lowKeys[i] \in Int
    <3>1. below[i] \in Occupied(a) /\ below[i] < point
      BY <1>3 DEF Within
    <3> QED
      BY <1>0, <1>1, <1>3, <3>1, OccupiedAre
  <2>2. ASSUME NEW i \in 1..n
        PROVE  key < highKeys[i] /\ highKeys[i] \in Int
    <3>1. above[i] \in Occupied(a) /\ point <= above[i] /\ above[i] \in Int /\ a.data[above[i]] \in Int
      BY <1>0, <1>4, OccupiedAre DEF Within
    <3>2. ~ (above[i] < point)
      BY <1>1, <3>1
    <3>3. ~ (a.data[above[i]] < key)
      BY <1>1, <3>1, <3>2
    <3>4. a.data[above[i]] # key
      BY <3>1 DEF KeysIn
    <3> QED
      BY <1>0, <1>4, <3>1, <3>3, <3>4
  <2> QED
    BY <2>1, <2>2
<1>6. /\ lowKeys \in Seq(Key) /\ IsAscending(lowKeys) /\ lowVals \in Seq(Val) /\ Len(lowVals) = m
      /\ highKeys \in Seq(Key) /\ IsAscending(highKeys) /\ highVals \in Seq(Val) /\ Len(highVals) = n
      /\ <<key>> \in Seq(Key) /\ Len(<<key>>) = 1 /\ <<key>>[1] = key
      /\ <<val>> \in Seq(Val) /\ Len(<<val>>) = 1 /\ <<val>>[1] = val
  BY <1>3, <1>4 DEF Sorted
<1>7. /\ keys \in Seq(Key) /\ Len(keys) = m + 1 + n
      /\ \A i \in 1..(m + 1 + n) : keys[i] = IF i <= m THEN lowKeys[i]
                                             ELSE IF i <= m + 1 THEN <<key>>[i - m]
                                             ELSE highKeys[i - (m + 1)]
  <2>1. lowKeys \in Seq(Key) /\ <<key>> \in Seq(Key) /\ highKeys \in Seq(Key)
    BY <1>6
  <2>2. /\ keys \in Seq(Key) /\ Len(keys) = Len(lowKeys) + Len(<<key>>) + Len(highKeys)
        /\ \A i \in 1..(Len(lowKeys) + Len(<<key>>) + Len(highKeys)) :
              keys[i] = IF i <= Len(lowKeys) THEN lowKeys[i]
                        ELSE IF i <= Len(lowKeys) + Len(<<key>>) THEN <<key>>[i - Len(lowKeys)]
                        ELSE highKeys[i - (Len(lowKeys) + Len(<<key>>))]
    BY <2>1, ConcatThree
  <2> HIDE DEF keys
  <2> QED
    BY <1>3, <1>4, <1>6, <2>2
<1>8. /\ values \in Seq(Val) /\ Len(values) = m + 1 + n
      /\ \A i \in 1..(m + 1 + n) : values[i] = IF i <= m THEN lowVals[i]
                                               ELSE IF i <= m + 1 THEN <<val>>[i - m]
                                               ELSE highVals[i - (m + 1)]
  <2>1. lowVals \in Seq(Val) /\ <<val>> \in Seq(Val) /\ highVals \in Seq(Val)
    BY <1>6
  <2>2. /\ values \in Seq(Val) /\ Len(values) = Len(lowVals) + Len(<<val>>) + Len(highVals)
        /\ \A i \in 1..(Len(lowVals) + Len(<<val>>) + Len(highVals)) :
              values[i] = IF i <= Len(lowVals) THEN lowVals[i]
                          ELSE IF i <= Len(lowVals) + Len(<<val>>) THEN <<val>>[i - Len(lowVals)]
                          ELSE highVals[i - (Len(lowVals) + Len(<<val>>))]
    BY <2>1, ConcatThree
  <2> HIDE DEF values
  <2> QED
    BY <1>6, <2>2
<1>9. rebalance_with(a, key, val) = layout(keys, values)
  BY DEF rebalance_with, point, below, above, lowKeys, highKeys, lowVals, highVals
<1> HIDE DEF keys, values
<1>10. /\ \A i \in 1..m : i \in 1..(m + 1 + n) /\ keys[i] = lowKeys[i] /\ values[i] = lowVals[i]
       /\ m + 1 \in 1..(m + 1 + n) /\ keys[m + 1] = key /\ values[m + 1] = val
       /\ \A i \in 1..n : /\ m + 1 + i \in 1..(m + 1 + n)
                          /\ keys[m + 1 + i] = highKeys[i] /\ values[m + 1 + i] = highVals[i]
  <2>1. ASSUME NEW i \in 1..m
        PROVE  i \in 1..(m + 1 + n) /\ keys[i] = lowKeys[i] /\ values[i] = lowVals[i]
    BY <1>3, <1>4, <1>7, <1>8
  <2>2. /\ m + 1 \in 1..(m + 1 + n) /\ ~ (m + 1 <= m) /\ (m + 1) - m = 1
    BY <1>3, <1>4
  <2>3. keys[m + 1] = <<key>>[1] /\ values[m + 1] = <<val>>[1]
    BY <1>3, <1>7, <1>8, <2>2
  <2>4. ASSUME NEW i \in 1..n
        PROVE  /\ m + 1 + i \in 1..(m + 1 + n)
               /\ keys[m + 1 + i] = highKeys[i] /\ values[m + 1 + i] = highVals[i]
    <3>1. /\ m + 1 + i \in 1..(m + 1 + n) /\ ~ (m + 1 + i <= m) /\ ~ (m + 1 + i <= m + 1)
          /\ (m + 1 + i) - (m + 1) = i
      BY <1>3, <1>4
    <3> QED
      BY <1>7, <1>8, <3>1
  <2> QED
    BY <1>6, <2>1, <2>2, <2>3, <2>4
<1>11. ASSUME NEW i \in 1..(m + 1 + n)
       PROVE  i \in 1..m \/ i = m + 1 \/ (i - (m + 1) \in 1..n /\ m + 1 + (i - (m + 1)) = i)
  BY <1>3, <1>4
<1>12. IsAscending(keys)
  <2>1. DOMAIN keys = 1..(m + 1 + n)
    BY <1>7, LenProperties
  <2>2. SUFFICES ASSUME NEW i \in 1..(m + 1 + n), NEW k \in 1..(m + 1 + n), i < k
                 PROVE  keys[i] < keys[k]
    BY <2>1 DEF IsAscending
  <2>3. DOMAIN lowKeys = 1..m /\ DOMAIN highKeys = 1..n
    BY <1>3, <1>4, <1>6, LenProperties
  <2>4. CASE i \in 1..m
    <3>1. CASE k \in 1..m
      BY <1>6, <1>10, <2>2, <2>3, <2>4, <3>1 DEF IsAscending
    <3>2. CASE k = m + 1
      BY <1>5, <1>10, <2>4, <3>2
    <3>3. CASE k - (m + 1) \in 1..n
      <4>1. keys[k] = highKeys[k - (m + 1)]
        BY <1>3, <1>10, <3>3
      <4> QED
        BY <1>0, <1>5, <1>10, <2>4, <3>3, <4>1
    <3> QED
      BY <1>11, <3>1, <3>2, <3>3
  <2>5. CASE i = m + 1
    <3>1. k - (m + 1) \in 1..n /\ m + 1 + (k - (m + 1)) = k
      BY <1>3, <1>4, <2>2, <2>5
    <3> QED
      BY <1>5, <1>10, <2>5, <3>1
  <2>6. CASE i - (m + 1) \in 1..n
    <3>1. /\ k - (m + 1) \in 1..n /\ m + 1 + (k - (m + 1)) = k /\ m + 1 + (i - (m + 1)) = i
          /\ i - (m + 1) < k - (m + 1)
      BY <1>3, <1>4, <2>2, <2>6
    <3>2. keys[k] = highKeys[k - (m + 1)] /\ keys[i] = highKeys[i - (m + 1)]
      BY <1>10, <2>6, <3>1
    <3> QED
      BY <1>6, <2>3, <2>6, <3>1, <3>2 DEF IsAscending
  <2> QED
    BY <1>11, <2>4, <2>5, <2>6
<1>13. Sorted(keys, values)
  BY <1>7, <1>8, <1>12 DEF Sorted
<1>14. RowsOf(keys, values) = Rows(a) \cup {<<key, val>>}
  <2>1. Occupied(a) = Within(a, 1, point) \cup Within(a, point, N + 1)
    <3>1. \A j \in Occupied(a) : j \in Int /\ 1 <= j /\ j < N + 1
      BY <1>0, OccupiedAre
    <3> QED
      BY <1>1, <3>1 DEF Within
  <2>2. Rows(a) = RowsOf(lowKeys, lowVals) \cup RowsOf(highKeys, highVals)
    BY <1>3, <1>4, <2>1 DEF Rows
  <2>3. ASSUME NEW i \in 1..(m + 1 + n)
        PROVE  \/ <<keys[i], values[i]>> \in RowsOf(lowKeys, lowVals)
               \/ <<keys[i], values[i]>> \in RowsOf(highKeys, highVals)
               \/ <<keys[i], values[i]>> = <<key, val>>
    <3>1. CASE i \in 1..m
      BY <1>3, <1>10, <3>1 DEF RowsOf
    <3>2. CASE i = m + 1
      BY <1>10, <3>2
    <3>3. CASE i - (m + 1) \in 1..n /\ m + 1 + (i - (m + 1)) = i
      <4>1. keys[i] = highKeys[i - (m + 1)] /\ values[i] = highVals[i - (m + 1)]
        BY <1>10, <3>3
      <4> QED
        BY <1>4, <3>3, <4>1 DEF RowsOf
    <3> QED
      BY <1>11, <3>1, <3>2, <3>3
  <2>4. ASSUME NEW i \in 1..m
        PROVE  <<lowKeys[i], lowVals[i]>> \in RowsOf(keys, values)
    BY <1>7, <1>10 DEF RowsOf
  <2>5. ASSUME NEW i \in 1..n
        PROVE  <<highKeys[i], highVals[i]>> \in RowsOf(keys, values)
    BY <1>7, <1>10 DEF RowsOf
  <2>6. <<key, val>> \in RowsOf(keys, values)
    BY <1>7, <1>10 DEF RowsOf
  <2>7. \A r \in RowsOf(lowKeys, lowVals) : r \in RowsOf(keys, values)
    BY <1>3, <2>4 DEF RowsOf
  <2>8. \A r \in RowsOf(highKeys, highVals) : r \in RowsOf(keys, values)
    BY <1>4, <2>5 DEF RowsOf
  <2>9. \A r \in RowsOf(keys, values) : r \in Rows(a) \cup {<<key, val>>}
    <3>1. SUFFICES ASSUME NEW r \in RowsOf(keys, values)
                   PROVE  r \in Rows(a) \cup {<<key, val>>}
      OBVIOUS
    <3>2. PICK i \in 1..(m + 1 + n) : r = <<keys[i], values[i]>>
      BY <1>7 DEF RowsOf
    <3> QED
      BY <2>2, <2>3, <3>2
  <2> QED
    BY <2>2, <2>6, <2>7, <2>8, <2>9
<1> QED
  BY <1>9, <1>13, <1>14, LayoutIsWhole DEF Rebuilds

-----------------------------------------------------------------------------
(* Laying a region out anew: its slots.                                    *)

\* As many items put in as are taken out: the others stay where they are.
LEMMA EvenPatch ==
    ASSUME NEW S, NEW s \in Seq(S), NEW new \in Seq(S),
           NEW begin \in 1..(Len(s) + 1), NEW end \in begin..(Len(s) + 1), Len(new) = end - begin
    PROVE  /\ Patched(s, begin, end - 1, new) \in Seq(S)
           /\ Len(Patched(s, begin, end - 1, new)) = Len(s)
           /\ \A j \in 1..Len(s) :
                 Patched(s, begin, end - 1, new)[j] =
                    IF begin <= j /\ j < end THEN new[j - begin + 1] ELSE s[j]
<1> DEFINE p == Patched(s, begin, end - 1, new)
           N == Len(s)
           last == end - 1
           gone == last - begin + 1
           size == N - gone + Len(new)
<1>0. N \in Nat /\ begin \in Int /\ end \in Int
  BY LenProperties
<1>1. last \in (begin - 1)..N /\ gone = end - begin /\ size = N
  BY <1>0
<1>2. /\ p \in Seq(S) /\ Len(p) = size
      /\ \A j \in 1..size : p[j] = IF j < begin THEN s[j]
                                   ELSE IF j < begin + Len(new) THEN new[j - begin + 1]
                                   ELSE s[j - Len(new) + gone]
  <2> HIDE DEF last
  <2>1. begin \in 1..(Len(s) + 1) /\ last \in (begin - 1)..Len(s)
    BY <1>1
  <2>2. p = Patched(s, begin, last, new)
    BY DEF last
  <2> HIDE DEF p
  <2>3. IsPatched(p, S, s, begin, last, new)
    BY <2>1, <2>2, PatchedIs
  <2> QED
    BY <2>3 DEF IsPatched
<1> HIDE DEF p, last, gone, size
<1>3. ASSUME NEW j \in 1..N
      PROVE  p[j] = IF begin <= j /\ j < end THEN new[j - begin + 1] ELSE s[j]
  <2>1. p[j] = IF j < begin THEN s[j] ELSE IF j < begin + Len(new) THEN new[j - begin + 1]
               ELSE s[j - Len(new) + gone]
    BY <1>1, <1>2
  <2>2. begin + Len(new) = end /\ j - Len(new) + gone = j /\ j \in Int
    BY <1>0, <1>1
  <2> QED
    BY <1>0, <2>1, <2>2
<1> QED
  BY <1>1, <1>2, <1>3 DEF p

\* The slots of a region and the segments that predict its keys go together.
RegionFits(a, lo, hi, r) ==
    /\ r \in [begin : Nat, end : Nat]
    /\ lo \in 1..Len(a.segments) /\ hi \in lo..Len(a.segments)
    /\ r.begin \in 1..(Len(a.data) + 1) /\ r.end \in r.begin..(Len(a.data) + 1)
    /\ IF lo = 1 THEN r.begin = 1
       ELSE \A j \in Occupied(a) : j < r.begin <=> a.data[j] < a.segments[lo].start_key
    /\ IF hi = Len(a.segments) THEN r.end = Len(a.data) + 1
       ELSE \A j \in Occupied(a) : j < r.end <=> a.data[j] < a.segments[hi + 1].start_key

\* b is the array a with the keys of some slots moved to others of the region.
SlotsRelaid(a, b, begin, end, slots, positions) ==
    /\ Lists(slots, a, begin, end)
    /\ begin \in 1..(Len(a.data) + 1) /\ end \in begin..(Len(a.data) + 1)
    /\ Len(b.data) = Len(a.data) /\ Len(b.vals) = Len(a.data)
    /\ \A j \in 1..Len(a.data) :
          j < begin \/ end <= j => b.data[j] = a.data[j] /\ b.vals[j] = a.vals[j]
    /\ \A i \in 1..Len(slots) : /\ positions[i] \in begin..(end - 1)
                                /\ b.data[positions[i]] = a.data[slots[i]]
                                /\ b.vals[positions[i]] = a.vals[slots[i]]
    /\ \A i, k \in 1..Len(slots) : i < k => positions[i] < positions[k]
    /\ \A j \in begin..(end - 1) :
          b.data[j] = EMPTY_SLOT \/ \E i \in 1..Len(slots) : positions[i] = j

\* What a region is laid out as.
SlotsOf(a, r) == SlotsIn(a, r.begin, r.end)
PositionsOf(a, r) == Spread(Len(SlotsOf(a, r)), r.begin, r.end - r.begin)

\* A region laid out anew keeps its keys in its slots.
LEMMA RelayMovesSlots ==
    ASSUME NEW a, Whole(a), NEW lo, NEW hi, NEW r, RegionFits(a, lo, hi, r)
    PROVE  LET b == relay(a, lo, hi, r)
           IN  /\ b.data \in Seq(Key \cup {EMPTY_SLOT}) /\ b.vals \in Seq(Val \cup {NoVal})
               /\ Points(KeysAt(a, SlotsOf(a, r)), PositionsOf(a, r))
               /\ SlotsRelaid(a, b, r.begin, r.end, SlotsOf(a, r), PositionsOf(a, r))
<1> DEFINE b == relay(a, lo, hi, r)
           begin == r.begin
           end == r.end
           width == end - begin
           slots == SlotsOf(a, r)
           positions == PositionsOf(a, r)
           keys == KeysAt(a, slots)
           values == ValsAt(a, slots)
           N == Len(a.data)
           n == Len(slots)
           newData == Laid(keys, positions, begin, width, EMPTY_SLOT)
           newVals == Laid(values, positions, begin, width, NoVal)
<1>0. /\ a \in ArrayType /\ Filled(a) /\ N \in Nat
      /\ begin \in 1..(N + 1) /\ end \in begin..(N + 1)
  BY WholeIs, OccupiedAre DEF RegionFits
<1>1. begin \in Nat \ {0} /\ end \in 1..(N + 1) /\ width \in Nat /\ begin <= end /\ end \in Int
  BY <1>0
<1>2. b.data = Patched(a.data, begin, end - 1, newData) /\ b.vals = Patched(a.vals, begin, end - 1, newVals)
  BY <1>0 DEF relay, Fresh, ArrayType, SlotsOf, PositionsOf
<1>3. Lists(slots, a, begin, end)
  BY <1>0, <1>1, SlotsAreListed DEF SlotsOf
<1>4. positions = Spread(n, begin, width)
  BY DEF PositionsOf
<1> HIDE DEF b, begin, end, slots, positions
<1>5. /\ Sorted(keys, values) /\ Len(keys) = n /\ n \in Nat
      /\ \A i \in 1..n : /\ slots[i] \in Within(a, begin, end)
                         /\ keys[i] = a.data[slots[i]] /\ values[i] = a.vals[slots[i]]
  BY <1>0, <1>3, ListedSlots
<1>6. n <= width
  BY <1>1, <1>3 DEF Lists
<1> HIDE DEF keys, values, n, width
<1>7. /\ positions \in Seq(Nat \ {0}) /\ Len(positions) = n /\ IsAscending(positions)
      /\ \A i \in 1..n : positions[i] \in begin..(begin + width - 1)
  BY <1>1, <1>4, <1>5, <1>6, SpreadAscends
<1>8. keys \in Seq(Key) /\ values \in Seq(Val) /\ Len(values) = n /\ IsAscending(keys)
  BY <1>5 DEF Sorted
<1>9. PlacedIn(keys, positions, begin, width) /\ PlacedIn(values, positions, begin, width)
  BY <1>5, <1>7, <1>8 DEF PlacedIn
<1>10. HoldsItems(newData, Key, keys, positions, begin, width, EMPTY_SLOT)
  BY <1>1, <1>8, <1>9, LaidOut
<1>11. HoldsItems(newVals, Val, values, positions, begin, width, NoVal)
  BY <1>1, <1>8, <1>9, LaidOut
<1> HIDE DEF newData, newVals
<1>12. /\ newData \in Seq(Key \cup {EMPTY_SLOT}) /\ Len(newData) = end - begin
       /\ newVals \in Seq(Val \cup {NoVal}) /\ Len(newVals) = end - begin
  BY <1>10, <1>11 DEF HoldsItems, width
<1>13. a.data \in Seq(Key \cup {EMPTY_SLOT}) /\ a.vals \in Seq(Val \cup {NoVal}) /\ Len(a.vals) = N
  BY <1>0 DEF ArrayType, Filled
<1>14. /\ b.data \in Seq(Key \cup {EMPTY_SLOT}) /\ Len(b.data) = N
       /\ \A j \in 1..N : b.data[j] = IF begin <= j /\ j < end THEN newData[j - begin + 1] ELSE a.data[j]
  BY <1>0, <1>2, <1>12, <1>13, EvenPatch
<1>15. /\ b.vals \in Seq(Val \cup {NoVal}) /\ Len(b.vals) = N
       /\ \A j \in 1..N : b.vals[j] = IF begin <= j /\ j < end THEN newVals[j - begin + 1] ELSE a.vals[j]
  <2>1. begin \in 1..(Len(a.vals) + 1) /\ end \in begin..(Len(a.vals) + 1)
    BY <1>0, <1>13
  <2>2. /\ Patched(a.vals, begin, end - 1, newVals) \in Seq(Val \cup {NoVal})
        /\ Len(Patched(a.vals, begin, end - 1, newVals)) = Len(a.vals)
        /\ \A j \in 1..Len(a.vals) :
              Patched(a.vals, begin, end - 1, newVals)[j] =
                 IF begin <= j /\ j < end THEN newVals[j - begin + 1] ELSE a.vals[j]
    <3> DEFINE W   == Val \cup {NoVal}
               old == a.vals
    <3>1. /\ old \in Seq(W) /\ newVals \in Seq(W) /\ Len(newVals) = end - begin
          /\ begin \in 1..(Len(old) + 1) /\ end \in begin..(Len(old) + 1)
      BY <1>12, <1>13, <2>1
    <3> HIDE DEF W, old
    <3>2. /\ Patched(old, begin, end - 1, newVals) \in Seq(W)
          /\ Len(Patched(old, begin, end - 1, newVals)) = Len(old)
          /\ \A j \in 1..Len(old) :
                Patched(old, begin, end - 1, newVals)[j] =
                   IF begin <= j /\ j < end THEN newVals[j - begin + 1] ELSE old[j]
      BY <3>1, EvenPatch, Zenon
    <3> QED
      BY <3>2, Zenon DEF W, old
  <2> QED
    BY <1>2, <1>13, <2>2
<1>16. ASSUME NEW i \in 1..n
       PROVE  /\ positions[i] \in begin..(end - 1) /\ b.data[positions[i]] = a.data[slots[i]]
              /\ b.vals[positions[i]] = a.vals[slots[i]]
  <2>1. positions[i] \in begin..(end - 1)
    <3>1. begin + width - 1 = end - 1
      BY <1>1 DEF width
    <3> QED
      BY <1>7, <3>1
  <2>2. positions[i] \in 1..N /\ begin <= positions[i] /\ positions[i] < end
    BY <1>0, <1>1, <2>1
  <2>3. newData[positions[i] - begin + 1] = keys[i] /\ newVals[positions[i] - begin + 1] = values[i]
    BY <1>5, <1>8, <1>10, <1>11 DEF HoldsItems
  <2> QED
    BY <1>5, <1>14, <1>15, <2>1, <2>2, <2>3
<1>17. ASSUME NEW j \in begin..(end - 1)
       PROVE  b.data[j] = EMPTY_SLOT \/ \E i \in 1..n : positions[i] = j
  <2>1. j \in 1..N /\ begin <= j /\ j < end /\ j - begin + 1 \in 1..width /\ begin + (j - begin + 1) - 1 = j
    BY <1>0, <1>1 DEF width
  <2>2. b.data[j] = newData[j - begin + 1]
    BY <1>14, <2>1
  <2>3. \/ \E i \in 1..n : positions[i] = begin + (j - begin + 1) - 1
        \/ newData[j - begin + 1] = EMPTY_SLOT
    BY <1>5, <1>10, <2>1 DEF HoldsItems
  <2> QED
    BY <2>1, <2>2, <2>3
<1>18. Points(keys, positions)
  BY <1>5, <1>7, <1>8 DEF Points
<1>19. \A i, k \in 1..n : i < k => positions[i] < positions[k]
  <2>1. DOMAIN positions = 1..n
    BY <1>7, LenProperties
  <2> QED
    BY <1>7, <2>1 DEF IsAscending
<1>20. \A j \in 1..N : j < begin \/ end <= j => b.data[j] = a.data[j] /\ b.vals[j] = a.vals[j]
  BY <1>1, <1>14, <1>15
<1>21. SlotsRelaid(a, b, begin, end, slots, positions)
  BY <1>0, <1>3, <1>14, <1>15, <1>16, <1>17, <1>19, <1>20 DEF SlotsRelaid, n
<1> QED
  BY <1>14, <1>15, <1>18, <1>21 DEF b, begin, end, slots, positions, keys

\* A slot that has a key had it before, or has that of the slot it came from.
LEMMA RelaidFrom ==
    ASSUME NEW a \in ArrayType, Filled(a), NEW b \in ArrayType, NEW begin, NEW end,
           NEW slots, NEW positions, SlotsRelaid(a, b, begin, end, slots, positions),
           NEW j \in Occupied(b)
    PROVE  \/ /\ j \in Occupied(a) /\ (j < begin \/ end <= j)
              /\ b.data[j] = a.data[j] /\ b.vals[j] = a.vals[j]
           \/ \E i \in 1..Len(slots) :
                 /\ j = positions[i] /\ begin <= j /\ j < end
                 /\ slots[i] \in Occupied(a) /\ begin <= slots[i] /\ slots[i] < end
                 /\ b.data[j] = a.data[slots[i]] /\ b.vals[j] = a.vals[slots[i]]
<1>0. /\ j \in 1..Len(a.data) /\ j \in Int /\ b.data[j] # EMPTY_SLOT
      /\ Occupied(a) = {l \in 1..Len(a.data) : a.data[l] # EMPTY_SLOT} /\ begin \in Int /\ end \in Int
  BY OccupiedAre DEF SlotsRelaid
<1>1. CASE j < begin \/ end <= j
  BY <1>0, <1>1 DEF SlotsRelaid
<1>2. CASE ~ (j < begin \/ end <= j)
  <2>1. j \in begin..(end - 1)
    BY <1>0, <1>2
  <2>2. PICK i \in 1..Len(slots) : positions[i] = j
    BY <1>0, <2>1 DEF SlotsRelaid
  <2>3. slots[i] \in Within(a, begin, end)
    BY ListedSlots DEF SlotsRelaid
  <2>4. begin <= j /\ j < end
    BY <1>0, <2>1
  <2> QED
    BY <2>2, <2>3, <2>4 DEF SlotsRelaid, Within
<1> QED
  BY <1>1, <1>2

\* Its keys are still in order, each with its value, and the rows are the same.
LEMMA RelaidIsFilled ==
    ASSUME NEW a \in ArrayType, Filled(a), NEW b \in ArrayType, NEW begin, NEW end,
           NEW slots, NEW positions, SlotsRelaid(a, b, begin, end, slots, positions)
    PROVE  Filled(b) /\ Rows(b) = Rows(a)
<1>0. begin \in Int /\ end \in Int /\ Len(a.data) \in Nat /\ begin \in 1..(Len(a.data) + 1) /\ end \in begin..(Len(a.data) + 1)
  BY OccupiedAre DEF SlotsRelaid
<1>1. ASSUME NEW j \in Occupied(b), NEW k \in Occupied(b), j < k
      PROVE  b.data[j] < b.data[k]
  <2>0. j \in Int /\ k \in Int /\ begin <= end
    BY <1>0, OccupiedAre
  <2> DEFINE Out(l) == /\ l \in Occupied(a) /\ (l < begin \/ end <= l)
                       /\ b.data[l] = a.data[l] /\ b.vals[l] = a.vals[l]
             In(l, i) == /\ l = positions[i] /\ begin <= l /\ l < end
                         /\ slots[i] \in Occupied(a) /\ begin <= slots[i] /\ slots[i] < end
                         /\ b.data[l] = a.data[slots[i]] /\ b.vals[l] = a.vals[slots[i]]
  <2>1. \A l \in Occupied(b) : Out(l) \/ \E i \in 1..Len(slots) : In(l, i)
    BY RelaidFrom
  <2>2. CASE Out(j) /\ Out(k)
    BY <1>1, <2>2 DEF Filled
  <2>3. ASSUME Out(j), NEW i \in 1..Len(slots), In(k, i)
        PROVE  b.data[j] < b.data[k]
    <3>1. slots[i] \in Int /\ j < slots[i]
      BY <1>0, <1>1, <2>0, <2>3, OccupiedAre
    <3> QED
      BY <2>3, <3>1 DEF Filled
  <2>4. ASSUME NEW i \in 1..Len(slots), In(j, i), Out(k)
        PROVE  b.data[j] < b.data[k]
    <3>1. slots[i] \in Int /\ slots[i] < k
      BY <1>0, <1>1, <2>0, <2>4, OccupiedAre
    <3> QED
      BY <2>4, <3>1 DEF Filled
  <2>5. ASSUME NEW i \in 1..Len(slots), In(j, i), NEW l \in 1..Len(slots), In(k, l)
        PROVE  b.data[j] < b.data[k]
    <3>0. slots \in Seq(Within(a, begin, end)) /\ IsAscending(slots)
      BY DEF SlotsRelaid, Lists
    <3>1. Len(slots) \in Nat /\ DOMAIN slots = 1..Len(slots)
      BY <3>0, LenProperties
    <3>2. i < l
      <4>1. l < i => positions[l] < positions[i]
        BY DEF SlotsRelaid
      <4>2. i # l /\ ~ (l < i)
        BY <1>1, <2>0, <2>5, <4>1
      <4> QED
        BY <3>1, <4>2
    <3>3. slots[i] < slots[l]
      BY <3>0, <3>1, <3>2 DEF IsAscending
    <3> QED
      BY <2>5, <3>3 DEF Filled
  <2> HIDE DEF Out, In
  <2> QED
    BY <2>1, <2>2, <2>3, <2>4, <2>5
<1>2. \A j \in Occupied(b) : b.vals[j] # NoVal
  BY RelaidFrom DEF Filled
<1>3. Len(b.vals) = Len(b.data)
  BY DEF SlotsRelaid
<1>4. \A r \in Rows(b) : r \in Rows(a)
  BY RelaidFrom DEF Rows
<1>5. ASSUME NEW j \in Occupied(a)
      PROVE  \E k \in Occupied(b) : b.data[k] = a.data[j] /\ b.vals[k] = a.vals[j]
  <2>0. /\ j \in 1..Len(a.data) /\ j \in Int /\ a.data[j] # EMPTY_SLOT
        /\ Occupied(b) = {l \in 1..Len(a.data) : b.data[l] # EMPTY_SLOT}
    BY OccupiedAre DEF SlotsRelaid
  <2>1. CASE j < begin \/ end <= j
    <3>1. b.data[j] = a.data[j] /\ b.vals[j] = a.vals[j]
      BY <2>0, <2>1 DEF SlotsRelaid
    <3> QED
      BY <2>0, <3>1
  <2>2. CASE ~ (j < begin \/ end <= j)
    <3>1. j \in Within(a, begin, end)
      BY <1>0, <2>0, <2>2 DEF Within
    <3>2. PICK i \in 1..Len(slots) : slots[i] = j
      BY <3>1 DEF SlotsRelaid, Lists
    <3>3. /\ positions[i] \in begin..(end - 1) /\ b.data[positions[i]] = a.data[j]
          /\ b.vals[positions[i]] = a.vals[j]
      BY <3>2 DEF SlotsRelaid
    <3>4. positions[i] \in 1..Len(a.data)
      BY <1>0, <3>3
    <3> QED
      BY <2>0, <3>3, <3>4
  <2> QED
    BY <2>1, <2>2
<1>6. \A r \in Rows(a) : r \in Rows(b)
  BY <1>5 DEF Rows
<1> QED
  BY <1>1, <1>2, <1>3, <1>4, <1>6 DEF Filled

-----------------------------------------------------------------------------
(* Laying a region out anew: its segments.                                 *)

\* No key has two owners.
LEMMA OneOwner ==
    ASSUME NEW S, NEW segs \in Seq(S), StartsAscend(segs), NEW k \in Int,
           NEW s \in DOMAIN segs, Owns(segs, s, k), NEW t \in DOMAIN segs, Owns(segs, t, k)
    PROVE  s = t
<1>1. DOMAIN segs = 1..Len(segs) /\ Len(segs) \in Nat /\ k <= k
  BY LenProperties
<1>2. s <= t /\ t <= s
  BY <1>1, OwnersAscend
<1> QED
  BY <1>1, <1>2

\* The segments from lo to hi are replaced by others that have not changed yet.
SegmentsReplaced(a, b, lo, hi, model) ==
    LET gone == hi - lo + 1
        m    == Len(model)
        size == Len(a.segments) - gone + m
    IN  /\ m \in Nat /\ gone \in Nat /\ Len(b.segments) = size /\ Len(b.changes) = size
        /\ \A s \in 1..size :
              /\ s < lo => b.segments[s] = a.segments[s] /\ b.changes[s] = a.changes[s]
              /\ lo <= s /\ s < lo + m => b.segments[s] = model[s - lo + 1] /\ b.changes[s] = 0
              /\ lo + m <= s => /\ b.segments[s] = a.segments[s - m + gone]
                                /\ b.changes[s] = a.changes[s - m + gone]

\* The model a region gets when it is laid out anew.
ModelOf(a, r) ==
    build_segmented_model(KeysAt(a, SlotsOf(a, r)), PositionsOf(a, r), eps, segment_cap(Len(SlotsOf(a, r))))

\* Laying out a region anew replaces its segments by the new model's.
LEMMA RelayReplacesSegments ==
    ASSUME NEW a, Whole(a), NEW lo, NEW hi, NEW r, RegionFits(a, lo, hi, r)
    PROVE  LET b == relay(a, lo, hi, r)
           IN  /\ Models(ModelOf(a, r), KeysAt(a, SlotsOf(a, r)), PositionsOf(a, r), 1)
               /\ b \in ArrayType
               /\ SegmentsReplaced(a, b, lo, hi, ModelOf(a, r))
               /\ b.trained = a.trained \cup ToSet(KeysAt(a, SlotsOf(a, r)))
               /\ b.count = a.count
<1> DEFINE b == relay(a, lo, hi, r)
           model == ModelOf(a, r)
           slots == SlotsOf(a, r)
           keys == KeysAt(a, slots)
           zeros == [s \in DOMAIN model |-> 0]
           N == Len(a.segments)
           gone == hi - lo + 1
           m == Len(model)
           size == N - gone + m
<1>0. /\ a \in ArrayType /\ Filled(a) /\ N \in Nat /\ lo \in 1..N /\ hi \in lo..N
      /\ a.segments \in Seq(Segment) /\ a.changes \in Seq(Nat) /\ Len(a.changes) = N
  BY WholeIs DEF RegionFits
<1>1. /\ b.data \in Seq(Key \cup {EMPTY_SLOT}) /\ b.vals \in Seq(Val \cup {NoVal})
      /\ Points(keys, PositionsOf(a, r)) /\ SlotsRelaid(a, b, r.begin, r.end, slots, PositionsOf(a, r))
  BY RelayMovesSlots
<1>2. Lists(slots, a, r.begin, r.end)
  BY <1>1 DEF SlotsRelaid
<1>3. Sorted(keys, ValsAt(a, slots)) /\ Len(keys) = Len(slots) /\ Len(slots) \in Nat
  BY <1>0, <1>2, ListedSlots
<1>4. Models(model, keys, PositionsOf(a, r), 1)
  <2>1. segment_cap(Len(slots)) \in Nat \ {0}
    BY <1>3, CapIsPositive
  <2> QED
    BY <1>1, <2>1, ModelIsBuilt DEF ModelOf
<1>5. /\ b.segments = Patched(a.segments, lo, hi, model) /\ b.changes = Patched(a.changes, lo, hi, zeros)
      /\ b.count = a.count /\ b.trained = a.trained \cup ToSet(keys)
      /\ b = [data |-> b.data, vals |-> b.vals, segments |-> b.segments, changes |-> b.changes,
              count |-> b.count, trained |-> b.trained]
  <2> DEFINE newSegments == Patched(a.segments, lo, hi, model)
             newChanges == Patched(a.changes, lo, hi, zeros)
             newTrained == a.trained \cup ToSet(keys)
             f == Fresh(a, r)
             newData == Patched(a.data, r.begin, r.end - 1, f.data)
             newVals == Patched(a.vals, r.begin, r.end - 1, f.vals)
  <2>1. f.model = model /\ f.keys = keys
    BY DEF Fresh, SlotsOf, PositionsOf, ModelOf
  <2>2. b = [a EXCEPT !.data = newData, !.vals = newVals,
                      !.segments = Patched(a.segments, lo, hi, f.model),
                      !.changes = Patched(a.changes, lo, hi, [s \in DOMAIN f.model |-> 0]),
                      !.trained = a.trained \cup ToSet(f.keys)]
    <3> HIDE DEF newSegments, newChanges, newTrained, model, keys
    <3> QED
      BY <1>0 DEF relay, ArrayType
  <2>3. b = [a EXCEPT !.data = newData, !.vals = newVals, !.segments = newSegments,
                      !.changes = newChanges, !.trained = newTrained]
    <3> HIDE DEF newData, newVals, f, b, model, keys
    <3> QED
      BY <2>1, <2>2
  <2> HIDE DEF newSegments, newChanges, newTrained, newData, newVals, f, b, model, keys, zeros
  <2>4. /\ b.segments = newSegments /\ b.changes = newChanges
        /\ b.count = a.count /\ b.trained = newTrained
        /\ b = [data |-> b.data, vals |-> b.vals, segments |-> b.segments, changes |-> b.changes,
                count |-> b.count, trained |-> b.trained]
    BY <1>0, <2>3 DEF ArrayType
  <2> QED
    BY <2>4 DEF newSegments, newChanges, newTrained
<1> HIDE DEF b, model, slots, keys
<1>6. model \in Seq(Segment)
  BY <1>4 DEF Models
<1>7. m \in Nat /\ DOMAIN model = 1..m
  BY <1>6, LenProperties
<1>8. zeros \in Seq(Nat) /\ Len(zeros) = m /\ \A i \in 1..m : zeros[i] = 0
  <2>1. zeros \in [1..m -> Nat]
    BY <1>7
  <2>2. \A i \in 1..m : zeros[i] = 0
    BY <1>7
  <2> HIDE DEF zeros, m
  <2> QED
    BY <1>7, <2>1, <2>2, Listed
<1> HIDE DEF zeros
<1>9. lo \in 1..(N + 1) /\ hi \in (lo - 1)..N /\ gone \in Nat /\ lo \in Int
  BY <1>0
<1>10. IsPatched(b.segments, Segment, a.segments, lo, hi, model)
  BY <1>0, <1>5, <1>6, <1>9, PatchedIs
<1>11. IsPatched(b.changes, Nat, a.changes, lo, hi, zeros)
  <2>1. a.changes \in Seq(Nat) /\ lo \in 1..(Len(a.changes) + 1) /\ hi \in (lo - 1)..Len(a.changes)
    BY <1>0, <1>9
  <2> QED
    BY <1>5, <1>8, <2>1, PatchedIs
<1>12. /\ b.segments \in Seq(Segment) /\ Len(b.segments) = size /\ size \in Nat
       /\ \A s \in 1..size : b.segments[s] = IF s < lo THEN a.segments[s]
                                             ELSE IF s < lo + m THEN model[s - lo + 1]
                                             ELSE a.segments[s - m + gone]
  BY <1>10 DEF IsPatched
<1>13. /\ b.changes \in Seq(Nat) /\ Len(b.changes) = size
       /\ \A s \in 1..size : b.changes[s] = IF s < lo THEN a.changes[s]
                                            ELSE IF s < lo + m THEN zeros[s - lo + 1]
                                            ELSE a.changes[s - m + gone]
  BY <1>0, <1>8, <1>11 DEF IsPatched
<1>14. b \in ArrayType
  <2>1. ToSet(keys) \subseteq Key
    BY <1>3, SortedAre DEF ToSet
  <2>2. b.trained \in SUBSET Key /\ b.count \in Nat
    BY <1>0, <1>5, <2>1 DEF ArrayType
  <2> QED
    BY <1>1, <1>5, <1>12, <1>13, <2>2 DEF ArrayType
<1>15. ASSUME NEW s \in 1..size
       PROVE  /\ s < lo => b.segments[s] = a.segments[s] /\ b.changes[s] = a.changes[s]
              /\ lo <= s /\ s < lo + m => b.segments[s] = model[s - lo + 1] /\ b.changes[s] = 0
              /\ lo + m <= s => /\ b.segments[s] = a.segments[s - m + gone]
                                /\ b.changes[s] = a.changes[s - m + gone]
  <2>1. s \in Int /\ lo \in Int /\ m \in Nat
    BY <1>0, <1>7, <1>12
  <2>2. lo <= s /\ s < lo + m => s - lo + 1 \in 1..m
    BY <2>1
  <2> HIDE DEF m, gone, size
  <2>3. s < lo => b.segments[s] = a.segments[s] /\ b.changes[s] = a.changes[s]
    BY <1>12, <1>13
  <2>4. lo <= s /\ s < lo + m => b.segments[s] = model[s - lo + 1] /\ b.changes[s] = 0
    BY <1>8, <1>12, <1>13, <2>1, <2>2
  <2>5. lo + m <= s => b.segments[s] = a.segments[s - m + gone] /\ b.changes[s] = a.changes[s - m + gone]
    <3>1. lo + m <= s => ~ (s < lo) /\ ~ (s < lo + m)
      BY <2>1
    <3> QED
      BY <1>12, <1>13, <3>1
  <2> QED
    BY <2>3, <2>4, <2>5
<1>16. SegmentsReplaced(a, b, lo, hi, model)
  BY <1>7, <1>9, <1>12, <1>13, <1>15 DEF SegmentsReplaced
<1> QED
  BY <1>4, <1>5, <1>14, <1>16 DEF b, model, slots, keys

\* Where the keys of a region are.
LEMMA RegionKeys ==
    ASSUME NEW a, Whole(a), NEW lo, NEW hi, NEW r, RegionFits(a, lo, hi, r), NEW j \in Occupied(a)
    PROVE  /\ j < r.begin => lo # 1 /\ a.data[j] < a.segments[lo].start_key
           /\ r.end <= j => hi # Len(a.segments) /\ a.segments[hi + 1].start_key <= a.data[j]
           /\ r.begin <= j /\ lo # 1 => a.segments[lo].start_key <= a.data[j]
           /\ j < r.end /\ hi # Len(a.segments) => a.data[j] < a.segments[hi + 1].start_key
<1>0. /\ a \in ArrayType /\ Len(a.segments) \in Nat /\ lo \in 1..Len(a.segments) /\ hi \in lo..Len(a.segments)
      /\ \A s \in 1..Len(a.segments) : a.segments[s].start_key \in Int
  BY WholeIs DEF RegionFits
<1>1. j \in Int /\ a.data[j] \in Int /\ j \in 1..Len(a.data) /\ r.begin \in Int /\ r.end \in Int
      /\ Len(a.data) \in Nat
  BY <1>0, OccupiedAre DEF RegionFits
<1>2. a.segments[lo].start_key \in Int /\ (hi # Len(a.segments) => a.segments[hi + 1].start_key \in Int)
  <2>1. hi # Len(a.segments) => hi + 1 \in 1..Len(a.segments)
    BY <1>0
  <2> QED
    BY <1>0, <2>1
<1>3. lo # 1 => (j < r.begin <=> a.data[j] < a.segments[lo].start_key)
  BY DEF RegionFits
<1>4. hi # Len(a.segments) => (j < r.end <=> a.data[j] < a.segments[hi + 1].start_key)
  BY DEF RegionFits
<1>5. (lo = 1 => r.begin = 1) /\ (hi = Len(a.segments) => r.end = Len(a.data) + 1)
  BY DEF RegionFits
<1>6. j < r.begin => lo # 1 /\ a.data[j] < a.segments[lo].start_key
  BY <1>1, <1>3, <1>5
<1>7. r.end <= j => hi # Len(a.segments) /\ a.segments[hi + 1].start_key <= a.data[j]
  BY <1>1, <1>2, <1>4, <1>5
<1>8. r.begin <= j /\ lo # 1 => a.segments[lo].start_key <= a.data[j]
  BY <1>1, <1>2, <1>3
<1>9. j < r.end /\ hi # Len(a.segments) => a.data[j] < a.segments[hi + 1].start_key
  BY <1>4
<1> QED
  BY <1>6, <1>7, <1>8, <1>9

\* The starts of the new segments ascend, and those from lo on are not before the
\* region.
LEMMA NewStartsAscend ==
    ASSUME NEW a, Whole(a), NEW lo, NEW hi, NEW r, RegionFits(a, lo, hi, r),
           NEW b \in ArrayType, NEW keys, NEW positions, NEW model,
           Models(model, keys, positions, 1), SegmentsReplaced(a, b, lo, hi, model),
           \A i \in 1..Len(keys) :
              /\ lo # 1 => a.segments[lo].start_key <= keys[i]
              /\ hi # Len(a.segments) => keys[i] < a.segments[hi + 1].start_key
    PROVE  /\ StartsAscend(b.segments)
           /\ \A t \in DOMAIN b.segments : lo # 1 /\ lo <= t =>
                 a.segments[lo].start_key <= b.segments[t].start_key
<1> DEFINE N == Len(a.segments)
           gone == hi - lo + 1
           m == Len(model)
           size == N - gone + m
           A(s) == a.segments[s].start_key
           B(s) == b.segments[s].start_key
           M(s) == model[s].start_key
<1>0. /\ N \in Nat /\ lo \in 1..N /\ hi \in lo..N /\ m \in Nat /\ gone \in 1..N /\ size \in Nat
      /\ lo \in Int /\ hi \in Int
  <2>1. N \in Nat /\ lo \in 1..N /\ hi \in lo..N
    BY WholeIs DEF RegionFits
  <2>2. m \in Nat
    BY DEF SegmentsReplaced
  <2> QED
    BY <2>1, <2>2
<1>1. /\ \A s \in 1..N : A(s) \in Int
      /\ \A s, t \in 1..N : s < t => A(s) < A(t)
  BY WholeIs DEF StartsAscend
<1>2. /\ DOMAIN model = 1..m /\ \A s \in 1..m : M(s) \in Int
      /\ \A s, t \in 1..m : s < t => M(s) < M(t)
      /\ \A s \in 1..m : \E k \in 1..Len(keys) : M(s) = keys[k]
  <2>1. model \in Seq(Segment) /\ StartsAscend(model)
    BY DEF Models
  <2>2. DOMAIN model = 1..m
    BY <2>1, LenProperties
  <2> QED
    BY <2>1, <2>2 DEF Models, StartsAscend
<1>3. \A s \in 1..m : (lo # 1 => A(lo) <= M(s)) /\ (hi # N => M(s) < A(hi + 1))
  BY <1>2
<1>4. /\ Len(b.segments) = size
      /\ \A s \in 1..size : /\ s < lo => B(s) = A(s)
                            /\ lo <= s /\ s < lo + m => B(s) = M(s - lo + 1)
                            /\ lo + m <= s => B(s) = A(s - m + gone)
  BY DEF SegmentsReplaced
<1>5. DOMAIN b.segments = 1..size
  BY <1>4, LenProperties DEF ArrayType
<1> HIDE DEF A, B, M, m, gone, size, N
<1>6. ASSUME NEW s \in 1..size
      PROVE  /\ s \in Int
             /\ s < lo => s \in 1..N
             /\ lo <= s /\ s < lo + m => s - lo + 1 \in 1..m
             /\ lo + m <= s => s - m + gone \in 1..N /\ s - m + gone >= hi + 1 /\ hi # N
  BY <1>0 DEF size, gone
<1>7. ASSUME NEW s \in 1..size
      PROVE  B(s) \in Int
  <2>1. CASE s < lo
    BY <1>1, <1>4, <1>6, <2>1
  <2>2. CASE lo <= s /\ s < lo + m
    BY <1>2, <1>4, <1>6, <2>2
  <2>3. CASE lo + m <= s
    BY <1>1, <1>4, <1>6, <2>3
  <2> QED
    BY <1>0, <1>6, <2>1, <2>2, <2>3
<1>8. ASSUME NEW s \in 1..size, lo + m <= s, NEW k \in Int, hi # N => k < A(hi + 1)
      PROVE  k < B(s)
  <2>1. s - m + gone \in 1..N /\ s - m + gone >= hi + 1 /\ hi # N /\ B(s) = A(s - m + gone)
    BY <1>4, <1>6, <1>8
  <2> DEFINE t == s - m + gone
  <2>2. hi + 1 \in 1..N /\ t \in Int
    BY <1>0, <2>1
  <2> HIDE DEF t
  <2>3. t = hi + 1 \/ hi + 1 < t
    BY <1>0, <2>1, <2>2 DEF t
  <2>4. A(hi + 1) <= A(t)
    BY <1>1, <2>1, <2>2, <2>3 DEF t
  <2> QED
    BY <1>1, <1>8, <2>1, <2>2, <2>4 DEF t
<1>9. ASSUME NEW t \in 1..size, lo # 1, lo <= t
      PROVE  A(lo) <= B(t)
  <2>1. CASE t < lo + m
    BY <1>3, <1>4, <1>6, <1>9, <2>1
  <2>2. CASE lo + m <= t
    <3>1. hi # N => A(lo) < A(hi + 1)
      <4>1. hi # N => hi + 1 \in 1..N /\ lo < hi + 1
        BY <1>0
      <4> QED
        BY <1>0, <1>1, <4>1
    <3>2. A(lo) \in Int
      BY <1>0, <1>1
    <3>3. A(lo) < B(t)
      BY <1>8, <2>2, <3>1, <3>2
    <3> QED
      BY <1>7, <3>2, <3>3
  <2> QED
    BY <1>0, <1>6, <2>1, <2>2
<1>10. ASSUME NEW s \in 1..size, NEW t \in 1..size, s < t
       PROVE  B(s) < B(t)
  <2>0. s \in Int /\ t \in Int
    BY <1>6
  <2>1. CASE s < lo
    <3>1. B(s) = A(s) /\ s \in 1..N
      BY <1>4, <1>6, <2>1
    <3>2. CASE t < lo
      BY <1>1, <1>4, <1>6, <1>10, <3>1, <3>2
    <3>3. CASE ~ (t < lo)
      <4>1. lo # 1 /\ lo <= t
        BY <1>0, <2>0, <2>1, <3>3
      <4>2. A(lo) <= B(t) /\ A(s) < A(lo)
        BY <1>0, <1>1, <1>9, <2>1, <3>1, <4>1
      <4> QED
        BY <1>0, <1>1, <1>7, <3>1, <4>2
    <3> QED
      BY <3>2, <3>3
  <2>2. CASE lo <= s /\ s < lo + m
    <3>1. B(s) = M(s - lo + 1) /\ s - lo + 1 \in 1..m
      BY <1>4, <1>6, <2>2
    <3>2. CASE t < lo + m
      <4>1. B(t) = M(t - lo + 1) /\ t - lo + 1 \in 1..m /\ s - lo + 1 < t - lo + 1
        BY <1>0, <1>4, <1>6, <1>10, <2>0, <2>2, <3>2
      <4> QED
        BY <1>2, <3>1, <4>1
    <3>3. CASE lo + m <= t
      <4>1. hi # N => M(s - lo + 1) < A(hi + 1)
        BY <1>3, <3>1
      <4>2. M(s - lo + 1) \in Int
        BY <1>2, <3>1
      <4> QED
        BY <1>8, <3>1, <3>3, <4>1, <4>2
    <3> QED
      BY <1>0, <2>0, <3>2, <3>3
  <2>3. CASE lo + m <= s
    <3>1. lo + m <= t
      BY <1>0, <1>10, <2>0, <2>3
    <3>2. /\ B(s) = A(s - m + gone) /\ s - m + gone \in 1..N
          /\ B(t) = A(t - m + gone) /\ t - m + gone \in 1..N
          /\ s - m + gone < t - m + gone
      <4>1. /\ B(s) = A(s - m + gone) /\ s - m + gone \in 1..N
            /\ B(t) = A(t - m + gone) /\ t - m + gone \in 1..N
        BY <1>4, <1>6, <2>3, <3>1
      <4>2. m \in Int /\ gone \in Int
        BY <1>0
      <4>3. s - m + gone < t - m + gone
        BY <1>10, <2>0, <4>2
      <4> QED
        BY <4>1, <4>3
    <3> QED
      BY <1>1, <3>2
  <2> QED
    BY <1>0, <2>0, <2>1, <2>2, <2>3
<1> QED
  BY <1>5, <1>7, <1>9, <1>10 DEF StartsAscend, A, B

-----------------------------------------------------------------------------
(* Laying a region out anew: who predicts which key.                       *)

\* The array b is a with the region from begin to end and the segments lo to hi
\* replaced.
Relaid(a, b, lo, hi, r, slots, positions, model) ==
    /\ Whole(a) /\ b \in ArrayType /\ RegionFits(a, lo, hi, r)
    /\ SlotsRelaid(a, b, r.begin, r.end, slots, positions)
    /\ Models(model, KeysAt(a, slots), positions, 1)
    /\ SegmentsReplaced(a, b, lo, hi, model)
    /\ b.trained = a.trained \cup ToSet(KeysAt(a, slots))

\* What is known of such a pair of arrays.
LEMMA RelaidIs ==
    ASSUME NEW a, NEW b, NEW lo, NEW hi, NEW r, NEW slots, NEW positions, NEW model,
           Relaid(a, b, lo, hi, r, slots, positions, model)
    PROVE  /\ a \in ArrayType /\ Filled(a) /\ b \in ArrayType
           /\ Len(slots) \in Nat /\ Len(KeysAt(a, slots)) = Len(slots)
           /\ \A i \in 1..Len(slots) :
                 /\ slots[i] \in Occupied(a) /\ r.begin <= slots[i] /\ slots[i] < r.end
                 /\ KeysAt(a, slots)[i] = a.data[slots[i]] /\ a.data[slots[i]] \in Int
                 /\ lo # 1 => a.segments[lo].start_key <= a.data[slots[i]]
                 /\ hi # Len(a.segments) => a.data[slots[i]] < a.segments[hi + 1].start_key
           /\ \A i, k \in 1..Len(slots) : i < k => a.data[slots[i]] < a.data[slots[k]]
           /\ StartsAscend(b.segments)
           /\ \A t \in DOMAIN b.segments : lo # 1 /\ lo <= t =>
                 a.segments[lo].start_key <= b.segments[t].start_key
<1> DEFINE keys == KeysAt(a, slots)
           n == Len(slots)
<1>0. /\ Whole(a) /\ b \in ArrayType /\ RegionFits(a, lo, hi, r)
      /\ Lists(slots, a, r.begin, r.end)
      /\ Models(model, keys, positions, 1) /\ SegmentsReplaced(a, b, lo, hi, model)
  BY DEF Relaid, SlotsRelaid
<1>1. a \in ArrayType /\ Filled(a)
  BY <1>0, WholeIs
<1>2. /\ n \in Nat /\ Len(keys) = n /\ Sorted(keys, ValsAt(a, slots))
      /\ \A i \in 1..n : slots[i] \in Within(a, r.begin, r.end) /\ keys[i] = a.data[slots[i]]
  BY <1>0, <1>1, ListedSlots
<1> HIDE DEF keys, n
<1>3. \A i, k \in 1..n : i < k => keys[i] < keys[k]
  BY <1>2, SortedAre
<1>4. ASSUME NEW i \in 1..n
      PROVE  /\ slots[i] \in Occupied(a) /\ r.begin <= slots[i] /\ slots[i] < r.end
             /\ keys[i] = a.data[slots[i]] /\ a.data[slots[i]] \in Int
             /\ lo # 1 => a.segments[lo].start_key <= a.data[slots[i]]
             /\ hi # Len(a.segments) => a.data[slots[i]] < a.segments[hi + 1].start_key
  <2>1. slots[i] \in Occupied(a) /\ r.begin <= slots[i] /\ slots[i] < r.end
    BY <1>2 DEF Within
  <2> QED
    BY <1>0, <1>1, <1>2, <2>1, RegionKeys, OccupiedAre
<1>5. \A i, k \in 1..n : i < k => a.data[slots[i]] < a.data[slots[k]]
  BY <1>2, <1>3
<1>6. \A i \in 1..Len(keys) :
         /\ lo # 1 => a.segments[lo].start_key <= keys[i]
         /\ hi # Len(a.segments) => keys[i] < a.segments[hi + 1].start_key
  BY <1>2, <1>4
<1>7. /\ StartsAscend(b.segments)
      /\ \A t \in DOMAIN b.segments : lo # 1 /\ lo <= t =>
            a.segments[lo].start_key <= b.segments[t].start_key
  BY <1>0, <1>6, NewStartsAscend
<1> QED
  BY <1>0, <1>1, <1>2, <1>4, <1>5, <1>7 DEF keys, n

\* A key in front of the region has the owner it had.
LEMMA OwnerBefore ==
    ASSUME NEW a, NEW b, NEW lo, NEW hi, NEW r, NEW slots, NEW positions, NEW model,
           Relaid(a, b, lo, hi, r, slots, positions, model),
           NEW key \in Int, lo # 1, key < a.segments[lo].start_key,
           NEW s \in DOMAIN a.segments, Owns(a.segments, s, key)
    PROVE  /\ s \in DOMAIN b.segments /\ Owns(b.segments, s, key)
           /\ b.segments[s] = a.segments[s] /\ b.changes[s] = a.changes[s]
<1> DEFINE N == Len(a.segments)
           size == Len(b.segments)
<1>0. /\ N \in Nat /\ DOMAIN a.segments = 1..N /\ StartsAscend(a.segments)
      /\ lo \in 1..N /\ hi \in lo..N
      /\ \A t \in 1..N : a.segments[t].start_key \in Int
  BY WholeIs DEF Relaid, RegionFits
<1>1. /\ size = N - (hi - lo + 1) + Len(model) /\ Len(model) \in Nat
      /\ \A t \in 1..size : t < lo => b.segments[t] = a.segments[t] /\ b.changes[t] = a.changes[t]
  BY DEF Relaid, SegmentsReplaced
<1>2. b.segments \in Seq(Segment) /\ DOMAIN b.segments = 1..size /\ size \in Nat
  BY LenProperties DEF Relaid, ArrayType
<1> HIDE DEF N, size
<1>3. s < lo
  <2>1. SUFFICES ASSUME lo <= s
                 PROVE  FALSE
    BY <1>0
  <2>2. s # 1 /\ a.segments[s].start_key <= key
    BY <1>0, <2>1 DEF Owns
  <2>3. lo = s \/ a.segments[lo].start_key < a.segments[s].start_key
    BY <1>0, <2>1 DEF StartsAscend
  <2> QED
    BY <1>0, <2>2, <2>3
<1>4. s \in 1..size /\ s \in Int
  BY <1>0, <1>1, <1>2, <1>3
<1>5. b.segments[s] = a.segments[s] /\ b.changes[s] = a.changes[s]
  BY <1>1, <1>3, <1>4
<1>6. s = size \/ key < b.segments[s + 1].start_key
  <2>1. SUFFICES ASSUME s # size
                 PROVE  key < b.segments[s + 1].start_key
    OBVIOUS
  <2>2. s + 1 \in 1..size
    BY <1>2, <1>4, <2>1
  <2>3. CASE s + 1 < lo
    <3>1. b.segments[s + 1] = a.segments[s + 1] /\ s # N
      BY <1>0, <1>1, <2>2, <2>3
    <3> QED
      BY <3>1 DEF Owns, N
  <2>4. CASE ~ (s + 1 < lo)
    <3>1. lo <= s + 1
      BY <1>0, <1>4, <2>4
    <3>2. a.segments[lo].start_key <= b.segments[s + 1].start_key
      BY <1>2, <2>2, <3>1, RelaidIs
    <3>3. b.segments[s + 1].start_key \in Int
      BY <1>2, <2>2, RelaidIs DEF StartsAscend
    <3> QED
      BY <1>0, <3>2, <3>3
  <2> QED
    BY <2>3, <2>4
<1>7. s = 1 \/ b.segments[s].start_key <= key
  BY <1>5 DEF Owns
<1> QED
  BY <1>2, <1>4, <1>5, <1>6, <1>7 DEF Owns, size

\* A key behind the region has the owner it had, at its new place.
LEMMA OwnerAfter ==
    ASSUME NEW a, NEW b, NEW lo, NEW hi, NEW r, NEW slots, NEW positions, NEW model,
           Relaid(a, b, lo, hi, r, slots, positions, model),
           NEW key \in Int, hi # Len(a.segments), a.segments[hi + 1].start_key <= key,
           NEW s \in DOMAIN a.segments, Owns(a.segments, s, key)
    PROVE  \E t \in DOMAIN b.segments :
              /\ Owns(b.segments, t, key)
              /\ b.segments[t] = a.segments[s] /\ b.changes[t] = a.changes[s]
<1> DEFINE N == Len(a.segments)
           size == Len(b.segments)
           gone == hi - lo + 1
           m == Len(model)
           t == s + m - gone
<1>0. /\ N \in Nat /\ DOMAIN a.segments = 1..N /\ StartsAscend(a.segments)
      /\ lo \in 1..N /\ hi \in lo..N
      /\ \A x \in 1..N : a.segments[x].start_key \in Int
  BY WholeIs DEF Relaid, RegionFits
<1>1. /\ size = N - gone + m /\ m \in Nat
      /\ \A x \in 1..size : lo + m <= x => /\ b.segments[x] = a.segments[x - m + gone]
                                          /\ b.changes[x] = a.changes[x - m + gone]
  BY DEF Relaid, SegmentsReplaced
<1>2. b.segments \in Seq(Segment) /\ DOMAIN b.segments = 1..size /\ size \in Nat
  BY LenProperties DEF Relaid, ArrayType
<1> HIDE DEF N, size
<1>3. hi + 1 <= s
  <2>1. SUFFICES ASSUME s <= hi
                 PROVE  FALSE
    BY <1>0
  <2>2. s # N /\ s + 1 \in 1..N /\ hi + 1 \in 1..N /\ s + 1 <= hi + 1
    BY <1>0, <2>1 DEF N
  <2>3. key < a.segments[s + 1].start_key
    BY <2>2 DEF Owns, N
  <2>4. s + 1 = hi + 1 \/ a.segments[s + 1].start_key < a.segments[hi + 1].start_key
    <3>1. s + 1 = hi + 1 \/ s + 1 < hi + 1
      BY <1>0, <2>2
    <3> QED
      BY <1>0, <2>2, <3>1 DEF StartsAscend
  <2>5. a.segments[s + 1].start_key \in Int /\ a.segments[hi + 1].start_key \in Int
    BY <1>0, <2>2
  <2> QED
    BY <2>3, <2>4, <2>5
<1>4. /\ s \in 1..N /\ s \in Int /\ gone \in Int /\ hi \in Int /\ lo \in Int
      /\ hi - gone = lo - 1 /\ t = s + m - gone
  BY <1>0
<1> HIDE DEF gone, m, t
<1>5. /\ t \in 1..size /\ lo + m <= t /\ t - m + gone = s
      /\ (t = size) <=> (s = N)
  <2>1. t - m + gone = s /\ t \in Int
    BY <1>0, <1>1, <1>4
  <2>2. lo + m <= t
    BY <1>0, <1>1, <1>3, <1>4
  <2>3. t <= size
    BY <1>0, <1>1, <1>4
  <2>4. (t = size) <=> (s = N)
    BY <1>0, <1>1, <1>4
  <2>5. 1 <= t
    BY <1>0, <1>1, <2>1, <2>2
  <2> QED
    BY <1>2, <2>1, <2>2, <2>3, <2>4, <2>5
<1>6. b.segments[t] = a.segments[s] /\ b.changes[t] = a.changes[s]
  BY <1>1, <1>5
<1>7. t = size \/ key < b.segments[t + 1].start_key
  <2>1. SUFFICES ASSUME t # size
                 PROVE  key < b.segments[t + 1].start_key
    OBVIOUS
  <2>2. t + 1 \in 1..size /\ lo + m <= t + 1 /\ s # N
    BY <1>0, <1>1, <1>2, <1>5, <2>1
  <2>3. (t + 1) - m + gone = s + 1
    BY <1>1, <1>2, <1>4, <1>5
  <2>4. b.segments[t + 1] = a.segments[s + 1]
    BY <1>1, <2>2, <2>3
  <2> QED
    BY <2>2, <2>4 DEF Owns, N
<1>8. b.segments[t].start_key <= key
  <2>1. s # 1
    BY <1>0, <1>3, <1>4
  <2> QED
    BY <1>6, <2>1 DEF Owns
<1>9. Owns(b.segments, t, key)
  BY <1>7, <1>8 DEF Owns, size
<1> QED
  BY <1>2, <1>5, <1>6, <1>9

\* A key of the region has an owner among the new segments.
LEMMA OwnerInside ==
    ASSUME NEW a, NEW b, NEW lo, NEW hi, NEW r, NEW slots, NEW positions, NEW model,
           Relaid(a, b, lo, hi, r, slots, positions, model),
           NEW i \in 1..Len(slots)
    PROVE  \E t \in DOMAIN b.segments :
              /\ Owns(b.segments, t, a.data[slots[i]]) /\ b.changes[t] = 0
              /\ Predicts(b.segments[t], KeysAt(a, slots), positions, eps, i)
<1> DEFINE N == Len(a.segments)
           size == Len(b.segments)
           gone == hi - lo + 1
           m == Len(model)
           keys == KeysAt(a, slots)
           n == Len(slots)
           key == a.data[slots[i]]
           u == find_segment_index(model, key)
           t == lo + u - 1
<1>0. /\ N \in Nat /\ lo \in 1..N /\ hi \in lo..N
      /\ \A x \in 1..N : a.segments[x].start_key \in Int
  BY WholeIs DEF Relaid, RegionFits
<1>1. /\ size = N - gone + m /\ m \in Nat
      /\ \A x \in 1..size :
            /\ lo <= x /\ x < lo + m => b.segments[x] = model[x - lo + 1] /\ b.changes[x] = 0
            /\ lo + m <= x => b.segments[x] = a.segments[x - m + gone]
  BY DEF Relaid, SegmentsReplaced
<1>2. b.segments \in Seq(Segment) /\ DOMAIN b.segments = 1..size /\ size \in Nat
  BY LenProperties DEF Relaid, ArrayType
<1>3. /\ n \in Nat /\ Len(keys) = n /\ \A x \in 1..n : keys[x] = a.data[slots[x]] /\ keys[x] \in Int
      /\ hi # N => key < a.segments[hi + 1].start_key
      /\ \A x, y \in 1..n : x < y => keys[x] < keys[y]
  BY RelaidIs
<1>4. Models(model, keys, positions, 1)
  BY DEF Relaid
<1>5. keys[i] = key /\ key \in Int
  BY <1>3
<1> HIDE DEF N, size, keys, n, key
<1>6. /\ model \in Seq(Segment) /\ StartsAscend(model) /\ model # <<>> /\ model[1].start_key = keys[1]
  <2>1. 1 <= Len(keys)
    BY <1>3 DEF n
  <2> QED
    BY <1>4, <2>1 DEF Models
<1>7. u \in DOMAIN model /\ Owns(model, u, key)
  BY <1>5, <1>6, SearchFindsOwner
<1>8. DOMAIN model = 1..m
  BY <1>6, LenProperties
<1> HIDE DEF u
<1>9. Predicts(model[u], keys, positions, eps, i)
  <2>1. i \in 1..Len(keys)
    BY <1>3 DEF n
  <2> QED
    BY <1>4, <1>5, <1>7, <2>1 DEF Models
<1>10. /\ u \in 1..m /\ u \in Int /\ t \in 1..size /\ lo <= t /\ t < lo + m /\ t - lo + 1 = u
  BY <1>0, <1>1, <1>7, <1>8
<1>11. b.segments[t] = model[u] /\ b.changes[t] = 0
  <2> HIDE DEF t
  <2> QED
    BY <1>1, <1>10
<1>12. t = 1 \/ b.segments[t].start_key <= key
  BY <1>5, <1>9, <1>11 DEF Predicts
<1>13. t = size \/ key < b.segments[t + 1].start_key
  <2>1. SUFFICES ASSUME t # size
                 PROVE  key < b.segments[t + 1].start_key
    OBVIOUS
  <2>2. t + 1 \in 1..size /\ lo <= t + 1
    BY <1>0, <1>2, <1>10, <2>1
  <2>3. CASE u # m
    <3>1. t + 1 < lo + m /\ (t + 1) - lo + 1 = u + 1
      BY <1>0, <1>1, <1>10, <2>3
    <3>2. b.segments[t + 1] = model[u + 1]
      <4> HIDE DEF t
      <4> QED
        BY <1>1, <2>2, <3>1
    <3> QED
      BY <1>7, <2>3, <3>2 DEF Owns
  <2>4. CASE u = m
    <3>1. lo + m <= t + 1 /\ (t + 1) - m + gone = hi + 1 /\ hi # N
      BY <1>0, <1>1, <1>10, <2>2, <2>4
    <3>2. b.segments[t + 1] = a.segments[hi + 1]
      <4> HIDE DEF t
      <4> QED
        BY <1>1, <2>2, <3>1
    <3> QED
      BY <1>3, <3>1, <3>2
  <2> QED
    BY <2>3, <2>4
<1> HIDE DEF t
<1>14. Owns(b.segments, t, key)
  BY <1>12, <1>13 DEF Owns, size
<1> QED
  BY <1>2, <1>9, <1>10, <1>11, <1>14 DEF key, keys

\* So the new lines are as near to the keys as they have to be.
LEMMA RelaidDrifts ==
    ASSUME NEW a, NEW b, NEW lo, NEW hi, NEW r, NEW slots, NEW positions, NEW model,
           Relaid(a, b, lo, hi, r, slots, positions, model)
    PROVE  Drifted(b)
<1>0. /\ a \in ArrayType /\ Filled(a) /\ b \in ArrayType /\ StartsAscend(b.segments)
      /\ b.segments \in Seq(Segment) /\ Len(b.data) = Len(a.data) /\ Drifted(a) /\ Whole(a)
      /\ RegionFits(a, lo, hi, r)
      /\ SlotsRelaid(a, b, r.begin, r.end, slots, positions)
  BY RelaidIs DEF Relaid, ArrayType, SlotsRelaid, Whole, Sound
<1>1. SUFFICES ASSUME NEW j \in Occupied(b), NEW s \in DOMAIN b.segments,
                      b.data[j] \in b.trained, Owns(b.segments, s, b.data[j])
               PROVE  /\ b.segments[s].start_key <= b.data[j]
                      /\ \E slot \in 1..Len(b.data) :
                            /\ Near(slot, OnLine(b.segments[s], b.data[j]), b.segments[s].den, eps)
                            /\ j - slot \in (-b.changes[s])..b.changes[s]
                            /\ b.segments[s].anchor <= slot
                            /\ b.data[j] = b.segments[s].start_key => slot = b.segments[s].anchor
  BY DEF Drifted
<1>2. j \in Int /\ b.data[j] \in Int /\ j \in 1..Len(b.data)
  BY <1>0, OccupiedAre
<1>3. ASSUME NEW i \in 1..Len(slots), j = positions[i], b.data[j] = a.data[slots[i]]
      PROVE  /\ b.segments[s].start_key <= b.data[j]
             /\ Near(j, OnLine(b.segments[s], b.data[j]), b.segments[s].den, eps)
             /\ j - j \in (-b.changes[s])..b.changes[s]
             /\ b.segments[s].anchor <= j
             /\ b.data[j] = b.segments[s].start_key => j = b.segments[s].anchor
  <2>1. PICK t \in DOMAIN b.segments :
           /\ Owns(b.segments, t, a.data[slots[i]]) /\ b.changes[t] = 0
           /\ Predicts(b.segments[t], KeysAt(a, slots), positions, eps, i)
    BY OwnerInside
  <2>2. s = t
    BY <1>0, <1>1, <1>2, <1>3, <2>1, OneOwner
  <2>3. KeysAt(a, slots)[i] = b.data[j]
    BY <1>3, RelaidIs
  <2>4. j - j \in (-0)..0
    BY <1>2
  <2> QED
    BY <1>3, <2>1, <2>2, <2>3, <2>4 DEF Predicts
<1>4. ASSUME j \in Occupied(a), j < r.begin \/ r.end <= j, b.data[j] = a.data[j]
      PROVE  \E t \in DOMAIN a.segments :
                /\ Owns(a.segments, t, a.data[j])
                /\ b.segments[s] = a.segments[t] /\ b.changes[s] = a.changes[t]
  <2> DEFINE key == a.data[j]
             t == find_segment_index(a.segments, key)
  <2>1. a.segments \in Seq(Segment) /\ StartsAscend(a.segments) /\ a.segments # <<>> /\ key \in Int
    <3>1. Len(a.segments) # 0
      BY <1>0, WholeIs DEF RegionFits
    <3> QED
      BY <1>0, <1>2, <1>4, <3>1, WholeIs, EmptySeq
  <2>2. t \in DOMAIN a.segments /\ Owns(a.segments, t, key)
    BY <2>1, SearchFindsOwner
  <2> HIDE DEF t
  <2>3. CASE j < r.begin
    <3>1. lo # 1 /\ key < a.segments[lo].start_key
      BY <1>0, <1>4, <2>3, RegionKeys
    <3>2. /\ t \in DOMAIN b.segments /\ Owns(b.segments, t, key)
          /\ b.segments[t] = a.segments[t] /\ b.changes[t] = a.changes[t]
      BY <2>1, <2>2, <3>1, OwnerBefore
    <3>3. s = t
      BY <1>0, <1>1, <1>4, <2>1, <3>2, OneOwner
    <3> QED
      BY <2>2, <3>2, <3>3
  <2>4. CASE r.end <= j
    <3>1. hi # Len(a.segments) /\ a.segments[hi + 1].start_key <= key
      BY <1>0, <1>4, <2>4, RegionKeys
    <3>2. PICK x \in DOMAIN b.segments :
             /\ Owns(b.segments, x, key)
             /\ b.segments[x] = a.segments[t] /\ b.changes[x] = a.changes[t]
      BY <2>1, <2>2, <3>1, OwnerAfter
    <3>3. s = x
      BY <1>0, <1>1, <1>4, <2>1, <3>2, OneOwner
    <3> QED
      BY <2>2, <3>2, <3>3
  <2> QED
    BY <1>4, <2>3, <2>4
<1>5. ASSUME j \in Occupied(a), j < r.begin \/ r.end <= j, b.data[j] = a.data[j]
      PROVE  a.data[j] \in a.trained
  <2>1. a.data[j] \notin ToSet(KeysAt(a, slots))
    <3>1. SUFFICES ASSUME NEW i \in DOMAIN KeysAt(a, slots), a.data[j] = KeysAt(a, slots)[i]
                   PROVE  FALSE
      BY DEF ToSet
    <3>2. DOMAIN KeysAt(a, slots) = DOMAIN slots /\ slots \in Seq(Within(a, r.begin, r.end))
      BY <1>0 DEF KeysAt, SlotsRelaid, Lists
    <3>3. i \in 1..Len(slots)
      BY <3>1, <3>2, LenProperties
    <3>4. /\ slots[i] \in Occupied(a) /\ r.begin <= slots[i] /\ slots[i] < r.end
          /\ a.data[j] = a.data[slots[i]]
      BY <3>1, <3>3, RelaidIs
    <3>5. slots[i] \in Int /\ a.data[j] \in Int /\ r.begin \in Int /\ r.end \in Int
      BY <1>0, <1>5, <3>4, OccupiedAre DEF RegionFits
    <3>6. j < slots[i] \/ slots[i] < j
      BY <1>2, <1>5, <3>4, <3>5
    <3>7. a.data[j] < a.data[slots[i]] \/ a.data[slots[i]] < a.data[j]
      BY <1>0, <1>5, <3>4, <3>6, SlotsAscend
    <3> QED
      BY <3>4, <3>5, <3>7
  <2> QED
    BY <1>1, <1>5, <2>1 DEF Relaid
<1>6. CASE /\ j \in Occupied(a) /\ (j < r.begin \/ r.end <= j)
           /\ b.data[j] = a.data[j] /\ b.vals[j] = a.vals[j]
  <2>1. PICK t \in DOMAIN a.segments :
                /\ Owns(a.segments, t, a.data[j])
                /\ b.segments[s] = a.segments[t] /\ b.changes[s] = a.changes[t]
    BY <1>4, <1>6
  <2>2. a.data[j] \in a.trained
    BY <1>5, <1>6
  <2> QED
    BY <1>0, <1>6, <2>1, <2>2 DEF Drifted
<1>7. ASSUME NEW i \in 1..Len(slots), j = positions[i], b.data[j] = a.data[slots[i]]
      PROVE  /\ b.segments[s].start_key <= b.data[j]
             /\ \E slot \in 1..Len(b.data) :
                   /\ Near(slot, OnLine(b.segments[s], b.data[j]), b.segments[s].den, eps)
                   /\ j - slot \in (-b.changes[s])..b.changes[s]
                   /\ b.segments[s].anchor <= slot
                   /\ b.data[j] = b.segments[s].start_key => slot = b.segments[s].anchor
  BY <1>2, <1>3, <1>7
<1> QED
  BY <1>0, <1>6, <1>7, RelaidFrom

-----------------------------------------------------------------------------
(* Laying a region out anew: what it keeps.                                *)

\* What the keys of an array's rows are.
LEMMA KeysOfRows ==
    ASSUME NEW a, NEW b, Rows(a) = Rows(b)
    PROVE  KeysIn(a) = KeysIn(b)
<1>1. ASSUME NEW x, NEW y, Rows(x) = Rows(y)
      PROVE  KeysIn(x) \subseteq KeysIn(y)
  <2>1. SUFFICES ASSUME NEW j \in Occupied(x)
                 PROVE  x.data[j] \in KeysIn(y)
    BY DEF KeysIn
  <2>2. <<x.data[j], x.vals[j]>> \in Rows(y)
    BY <1>1 DEF Rows
  <2>3. PICK k \in Occupied(y) : <<x.data[j], x.vals[j]>> = <<y.data[k], y.vals[k]>>
    BY <2>2 DEF Rows
  <2> QED
    BY <2>3 DEF KeysIn
<1> QED
  BY <1>1

\* A region of a whole array laid out anew leaves the array whole and its rows as
\* they were; the segments of the region are replaced by new ones.
LEMMA RelayKeeps ==
    ASSUME NEW a, Whole(a), NEW lo, NEW hi, NEW r, RegionFits(a, lo, hi, r)
    PROVE  /\ Whole(relay(a, lo, hi, r)) /\ Rows(relay(a, lo, hi, r)) = Rows(a)
           /\ SegmentsReplaced(a, relay(a, lo, hi, r), lo, hi, ModelOf(a, r))
<1> DEFINE b == relay(a, lo, hi, r)
           slots == SlotsOf(a, r)
           positions == PositionsOf(a, r)
           keys == KeysAt(a, slots)
           model == ModelOf(a, r)
<1>0. a \in ArrayType /\ Filled(a)
  BY WholeIs
<1>1. SlotsRelaid(a, b, r.begin, r.end, slots, positions)
  BY RelayMovesSlots
<1>2. /\ Models(model, keys, positions, 1) /\ b \in ArrayType
      /\ SegmentsReplaced(a, b, lo, hi, model)
      /\ b.trained = a.trained \cup ToSet(keys) /\ b.count = a.count
  BY RelayReplacesSegments
<1> HIDE DEF b, slots, positions, model
<1>3. Relaid(a, b, lo, hi, r, slots, positions, model)
  BY <1>1, <1>2 DEF Relaid
<1>4. Filled(b) /\ Rows(b) = Rows(a)
  BY <1>0, <1>1, <1>2, RelaidIsFilled
<1>5. Drifted(b) /\ StartsAscend(b.segments)
  BY <1>3, RelaidDrifts, RelaidIs
<1>6. KeysIn(b) = KeysIn(a)
  BY <1>4, KeysOfRows
<1>7. b.trained \subseteq KeysIn(b)
  <2>1. ToSet(keys) \subseteq KeysIn(a)
    <3>1. SUFFICES ASSUME NEW i \in DOMAIN slots
                   PROVE  a.data[slots[i]] \in KeysIn(a)
      BY DEF ToSet, KeysAt
    <3>2. slots \in Seq(Within(a, r.begin, r.end))
      BY <1>1 DEF SlotsRelaid, Lists
    <3>3. slots[i] \in Within(a, r.begin, r.end)
      BY <3>2, ElementOfSeq, LenProperties
    <3> QED
      BY <3>3 DEF Within, KeysIn
  <2> QED
    BY <1>2, <1>6, <2>1 DEF Whole, Sound
<1>8. b.count = Cardinality(Occupied(b))
  BY <1>0, <1>2, <1>4, RowsAreCounted DEF Whole, Sound
<1>9. Len(b.data) = Len(a.data) /\ Len(a.segments) # 0 /\ Len(a.data) # 0
  <2>1. Len(a.segments) # 0
    BY WholeIs DEF RegionFits
  <2>2. a.segments # <<>> /\ a.data # <<>>
    BY <1>0, <2>1, WholeIs, EmptySeq DEF Whole, Sound
  <2> QED
    BY <1>0, <1>1, <2>1, <2>2, EmptySeq DEF SlotsRelaid, ArrayType
<1>10. b.data # <<>>
  BY <1>2, <1>9
<1>11. Occupied(b) # {} => b.segments # <<>>
  <2>1. SUFFICES ASSUME NEW j \in Occupied(b), b.segments = <<>>
                 PROVE  FALSE
    OBVIOUS
  <2>2. Rows(b) # {}
    BY <2>1 DEF Rows
  <2>3. PICK k \in Occupied(a) : TRUE
    BY <1>4, <2>2 DEF Rows
  <2>4. /\ Len(a.segments) \in Nat /\ lo \in 1..Len(a.segments) /\ hi \in lo..Len(a.segments)
        /\ Len(model) \in Nat /\ Len(b.segments) = Len(a.segments) - (hi - lo + 1) + Len(model)
        /\ Len(b.segments) = 0
    BY <1>2, <2>1, WholeIs DEF RegionFits, SegmentsReplaced
  <2>5. lo = 1 /\ hi = Len(a.segments) /\ Len(model) = 0
    BY <2>4
  <2>6. k \in Within(a, r.begin, r.end)
    <3>1. k \in Occupied(a) /\ k \in Int /\ r.begin \in Int /\ r.end \in Int
      BY <1>0, OccupiedAre DEF RegionFits
    <3>2. ~ (k < r.begin) /\ ~ (r.end <= k)
      BY <2>5, RegionKeys
    <3> QED
      BY <3>1, <3>2 DEF Within
  <2>7. slots \in Seq(Within(a, r.begin, r.end)) /\ \E i \in 1..Len(slots) : slots[i] = k
    BY <1>1, <2>6 DEF SlotsRelaid, Lists
  <2>8. Len(keys) = Len(slots) /\ Len(slots) \in Nat
    BY <1>3, RelaidIs
  <2>9. 1 <= Len(keys)
    BY <2>7, <2>8
  <2>10. model # <<>> /\ model \in Seq(Segment)
    BY <1>2, <2>9 DEF Models
  <2> QED
    BY <2>5, <2>10, EmptySeq
<1>12. Len(b.vals) = Len(b.data) /\ Len(b.changes) = Len(b.segments)
  BY <1>2, <1>4 DEF Filled, SegmentsReplaced
<1>13. /\ \A i, j \in Occupied(b) : i < j => b.data[i] < b.data[j]
       /\ \A j \in Occupied(b) : b.vals[j] # NoVal
       /\ \A s, t \in DOMAIN b.segments : s < t => b.segments[s].start_key < b.segments[t].start_key
  BY <1>4, <1>5 DEF Filled, StartsAscend
<1>14. Whole(b)
  BY <1>2, <1>5, <1>7, <1>8, <1>10, <1>11, <1>12, <1>13 DEF Whole, Sound
<1> QED
  BY <1>2, <1>4, <1>14 DEF b, model

-----------------------------------------------------------------------------
(* Refreshing a segment.                                                   *)

\* The slots of a run of segments.
LEMMA RegionIsFit ==
    ASSUME NEW a, Whole(a), NEW lo \in 1..Len(a.segments), NEW hi \in lo..Len(a.segments)
    PROVE  RegionFits(a, lo, hi, region(a, lo, hi))
<1> DEFINE N == Len(a.segments)
           M == Len(a.data)
           r == region(a, lo, hi)
           from == a.segments[lo].start_key
           to == a.segments[hi + 1].start_key
<1>0. /\ a \in ArrayType /\ Filled(a) /\ N \in Nat /\ M \in Nat /\ StartsAscend(a.segments)
      /\ \A s \in 1..N : a.segments[s].start_key \in Int
      /\ DOMAIN a.segments = 1..N
  BY WholeIs, OccupiedAre
<1>1. /\ r.begin = IF lo = 1 THEN 1 ELSE lower_bound_index(a, from)
      /\ r.end = IF hi = N THEN M + 1 ELSE lower_bound_index(a, to)
      /\ r = [begin |-> r.begin, end |-> r.end]
  BY DEF region
<1> HIDE DEF N, M, r
<1>2. /\ lo \in 1..N /\ hi \in lo..N /\ from \in Int
      /\ hi # N => hi + 1 \in 1..N /\ to \in Int /\ from < to
  <2>1. lo \in 1..N /\ hi \in lo..N
    BY DEF N
  <2>2. from \in Int
    BY <1>0, <2>1
  <2>3. ASSUME hi # N
        PROVE  hi + 1 \in 1..N /\ to \in Int /\ from < to
    <3>1. hi + 1 \in 1..N /\ lo < hi + 1
      BY <1>0, <2>1, <2>3
    <3> QED
      BY <1>0, <2>1, <3>1 DEF StartsAscend
  <2> QED
    BY <2>1, <2>2, <2>3
<1> HIDE DEF from, to
<1>3. /\ r.begin \in 1..(M + 1)
      /\ lo = 1 => r.begin = 1
      /\ lo # 1 => \A j \in Occupied(a) : j < r.begin <=> a.data[j] < from
  BY <1>0, <1>1, <1>2, LowerBound DEF M
<1>4. /\ r.end \in 1..(M + 1)
      /\ hi = N => r.end = M + 1
      /\ hi # N => /\ \A j \in Occupied(a) : j < r.end <=> a.data[j] < to
                   /\ r.end # M + 1 => r.end \in Occupied(a)
  BY <1>0, <1>1, <1>2, LowerBound DEF M
<1>5. r.begin <= r.end
  <2>1. CASE lo = 1 \/ r.end = M + 1
    BY <1>0, <1>3, <1>4, <2>1
  <2>2. CASE lo # 1 /\ r.end # M + 1
    <3>1. hi # N /\ r.end \in Occupied(a) /\ a.data[r.end] \in Int
      BY <1>0, <1>4, <2>2, OccupiedAre
    <3>2. ~ (a.data[r.end] < to)
      BY <1>0, <1>4, <3>1
    <3>3. ~ (a.data[r.end] < from)
      BY <1>2, <3>1, <3>2
    <3> QED
      BY <1>0, <1>3, <1>4, <2>2, <3>1, <3>3
  <2> QED
    BY <2>1, <2>2
<1>6. r \in [begin : Nat, end : Nat]
  BY <1>0, <1>1, <1>3, <1>4
<1> QED
  BY <1>0, <1>2, <1>3, <1>4, <1>5, <1>6 DEF RegionFits, N, M, r, from, to

\* Gaps added at its end leave a whole array whole.
LEMMA GrownKeeps ==
    ASSUME NEW a, Whole(a), NEW begin \in 1..(Len(a.data) + 1)
    PROVE  LET g == Grown(a, begin)
           IN  /\ Whole(g) /\ Rows(g) = Rows(a) /\ Occupied(g) = Occupied(a)
               /\ Len(g.data) \in Nat /\ Len(a.data) <= Len(g.data)
               /\ \A j \in Occupied(g) : g.data[j] = a.data[j]
               /\ g.segments = a.segments /\ g.changes = a.changes
<1> DEFINE g == Grown(a, begin)
           M == Len(a.data)
           keys == Len(SlotsIn(a, begin, M + 1))
           wanted == Max({keys + 1, CeilDiv(10 * keys, DensityOf10)})
           more == Max({0, begin - 1 + wanted - M})
           newData == [j \in 1..more |-> EMPTY_SLOT]
           newVals == [j \in 1..more |-> NoVal]
<1>0. /\ a \in ArrayType /\ Filled(a) /\ M \in Nat /\ begin \in Nat \ {0}
      /\ a.data \in Seq(Key \cup {EMPTY_SLOT}) /\ a.vals \in Seq(Val \cup {NoVal}) /\ Len(a.vals) = M
  BY WholeIs, OccupiedAre DEF ArrayType, Filled
<1>1. keys \in Nat
  <2>1. Lists(SlotsIn(a, begin, M + 1), a, begin, M + 1)
    BY <1>0, SlotsAreListed
  <2> QED
    BY <2>1, LenProperties DEF Lists
<1> HIDE DEF keys, M
<1>2. wanted \in Int
  <2>1. 10 * keys \in Nat /\ DensityOf10 \in Nat \ {0}
    BY <1>1, GappedAssumption
  <2> HIDE DEF keys
  <2>2. CeilDiv(10 * keys, DensityOf10) \in Int /\ keys + 1 \in Int
    BY <1>1, <2>1, RoundedUp
  <2> QED
    BY <2>2, MinOfTwo
<1> HIDE DEF wanted
<1>3. more \in Nat
  <2>1. begin - 1 + wanted - M \in Int /\ 0 \in Int
    BY <1>0, <1>2
  <2>2. more = IF 0 <= begin - 1 + wanted - M THEN begin - 1 + wanted - M ELSE 0
    BY <2>1, MinOfTwo
  <2> QED
    BY <2>1, <2>2
<1>4. g = [a EXCEPT !.data = @ \o newData, !.vals = @ \o newVals]
  BY DEF Grown, M, keys, wanted
<1> HIDE DEF more, g
<1>5. /\ newData \in Seq(Key \cup {EMPTY_SLOT}) /\ Len(newData) = more
      /\ newVals \in Seq(Val \cup {NoVal}) /\ Len(newVals) = more
      /\ \A j \in 1..more : newData[j] = EMPTY_SLOT
  <2>1. newData \in [1..more -> Key \cup {EMPTY_SLOT}] /\ newVals \in [1..more -> Val \cup {NoVal}]
    OBVIOUS
  <2> QED
    BY <1>3, <2>1, Listed
<1> HIDE DEF newData, newVals
<1>6. /\ g.data = a.data \o newData /\ g.vals = a.vals \o newVals
      /\ g.segments = a.segments /\ g.changes = a.changes /\ g.count = a.count
      /\ g.trained = a.trained
      /\ g \in [data : {g.data}, vals : {g.vals}, segments : {a.segments},
                changes : {a.changes}, count : {a.count}, trained : {a.trained}]
  BY <1>0, <1>4 DEF ArrayType
<1>7. /\ g.data \in Seq(Key \cup {EMPTY_SLOT}) /\ Len(g.data) = M + more
      /\ \A j \in 1..(M + more) : g.data[j] = IF j <= M THEN a.data[j] ELSE newData[j - M]
  <2>1. \A j \in 1..(Len(a.data) + Len(newData)) :
            (a.data \o newData)[j] = IF j <= Len(a.data) THEN a.data[j] ELSE newData[j - Len(a.data)]
    BY <1>0, <1>5, ConcatProperties
  <2> QED
    BY <1>0, <1>5, <1>6, <2>1, ConcatProperties DEF M
<1>8. /\ g.vals \in Seq(Val \cup {NoVal}) /\ Len(g.vals) = M + more
      /\ \A j \in 1..(M + more) : j <= M => g.vals[j] = a.vals[j]
  <2>1. \A j \in 1..(Len(a.vals) + Len(newVals)) :
            (a.vals \o newVals)[j] = IF j <= Len(a.vals) THEN a.vals[j] ELSE newVals[j - Len(a.vals)]
    BY <1>0, <1>5, ConcatProperties
  <2>2. /\ a.vals \o newVals \in Seq(Val \cup {NoVal})
        /\ Len(a.vals \o newVals) = Len(a.vals) + Len(newVals)
    BY <1>0, <1>5, ConcatProperties
  <2>3. \A j \in 1..(M + more) : j <= M => (a.vals \o newVals)[j] = a.vals[j]
    BY <1>0, <1>5, <2>1
  <2> QED
    BY <1>0, <1>5, <1>6, <2>2, <2>3
<1>9. g \in ArrayType
  BY <1>0, <1>6, <1>7, <1>8 DEF ArrayType
<1>10. Occupied(a) = {j \in 1..M : a.data[j] # EMPTY_SLOT}
  BY <1>0, OccupiedAre DEF M
<1>11. Occupied(g) = {j \in 1..(M + more) : g.data[j] # EMPTY_SLOT}
  BY <1>7, <1>9, OccupiedAre
<1>12. Occupied(g) = Occupied(a)
  <2>1. ASSUME NEW j \in 1..(M + more), ~ (j <= M)
        PROVE  g.data[j] = EMPTY_SLOT
    <3>1. j - M \in 1..more
      BY <1>0, <1>3, <2>1
    <3> QED
      BY <1>5, <1>7, <2>1, <3>1
  <2>2. \A j \in 1..M : j \in 1..(M + more) /\ j <= M /\ g.data[j] = a.data[j]
    BY <1>0, <1>3, <1>7
  <2>3. \A j \in 1..(M + more) : j <= M => j \in 1..M
    BY <1>0, <1>3
  <2> QED
    BY <1>10, <1>11, <2>1, <2>2, <2>3
<1>13. \A j \in Occupied(a) : j \in 1..M /\ g.data[j] = a.data[j] /\ g.vals[j] = a.vals[j]
  <2>1. \A j \in 1..M : j \in 1..(M + more) /\ j <= M
    BY <1>0, <1>3
  <2> QED
    BY <1>7, <1>8, <1>10, <2>1
<1>14. Rows(g) = Rows(a)
  BY <1>12, <1>13 DEF Rows
<1>15. KeysIn(g) = KeysIn(a)
  BY <1>12, <1>13 DEF KeysIn
<1>16. Drifted(g)
  <2>1. Drifted(a)
    BY DEF Whole, Sound
  <2>2. \A slot \in 1..M : slot \in 1..(M + more)
    BY <1>0, <1>3
  <2>3. SUFFICES ASSUME NEW j \in Occupied(a), NEW s \in DOMAIN a.segments,
                        a.data[j] \in a.trained, Owns(a.segments, s, a.data[j])
                 PROVE  /\ a.segments[s].start_key <= a.data[j]
                        /\ \E slot \in 1..(M + more) :
                              /\ Near(slot, OnLine(a.segments[s], a.data[j]), a.segments[s].den, eps)
                              /\ j - slot \in (-a.changes[s])..a.changes[s]
                              /\ a.segments[s].anchor <= slot
                              /\ a.data[j] = a.segments[s].start_key => slot = a.segments[s].anchor
    <3>1. SUFFICES ASSUME NEW j \in Occupied(g), NEW s \in DOMAIN g.segments,
                          g.data[j] \in g.trained, Owns(g.segments, s, g.data[j])
                   PROVE  /\ g.segments[s].start_key <= g.data[j]
                          /\ \E slot \in 1..Len(g.data) :
                                /\ Near(slot, OnLine(g.segments[s], g.data[j]), g.segments[s].den, eps)
                                /\ j - slot \in (-g.changes[s])..g.changes[s]
                                /\ g.segments[s].anchor <= slot
                                /\ g.data[j] = g.segments[s].start_key => slot = g.segments[s].anchor
      BY DEF Drifted
    <3>2. /\ j \in Occupied(a) /\ s \in DOMAIN a.segments /\ g.data[j] = a.data[j]
          /\ a.data[j] \in a.trained /\ Owns(a.segments, s, a.data[j])
      BY <1>6, <1>12, <1>13, <3>1
    <3> QED
      BY <1>6, <1>7, <2>3, <3>2
  <2> QED
    BY <2>1, <2>2, <2>3 DEF Drifted, M
<1>17. g.segments # <<>> => g.data # <<>>
  <2>1. SUFFICES ASSUME a.segments # <<>>, g.data = <<>>
                 PROVE  FALSE
    BY <1>6
  <2>2. M # 0
    BY <1>0, <2>1, EmptySeq DEF Whole, Sound, M
  <2>3. M + more = 0
    BY <1>7, <2>1
  <2> QED
    BY <1>0, <1>3, <2>2, <2>3
<1>18. Sound(g)
  BY <1>6, <1>7, <1>8, <1>12, <1>13, <1>15, <1>16, <1>17 DEF Whole, Sound
<1> QED
  BY <1>0, <1>3, <1>6, <1>7, <1>9, <1>12, <1>13, <1>14, <1>18 DEF Whole, g, M

\* A window of segments around a segment is one, and wide ones have all segments.
LEMMA WindowIs ==
    ASSUME NEW a, Whole(a), NEW si \in 1..Len(a.segments), NEW level \in Nat
    PROVE  /\ Window(a, si, level).lo \in 1..si
           /\ Window(a, si, level).hi \in si..Len(a.segments)
           /\ level = 0 => Window(a, si, level) = [lo |-> si, hi |-> si]
           /\ level = Len(a.segments) =>
                 Window(a, si, level) = [lo |-> 1, hi |-> Len(a.segments)]
<1> DEFINE N == Len(a.segments)
<1>0. N \in Nat /\ si \in 1..N
  BY WholeIs
<1>1. CASE level = 0
  BY <1>0, <1>1 DEF Window
<1>2. CASE level # 0
  <2> DEFINE w == PowerOf2[level]
             q == (si - 1) \div w
             low == q * w + 1
  <2>1. w \in Nat \ {0} /\ level < w
    BY Powers
  <2>2. Window(a, si, level) = [lo |-> low, hi |-> Min({low + w - 1, N})]
    BY <1>2 DEF Window
  <2> HIDE DEF w, N
  <2>3. q \in Int /\ q * w <= si - 1 /\ si - 1 < q * w + w
    <3>1. si - 1 \in Int
      BY <1>0
    <3> QED
      BY <2>1, <3>1, Quotient
  <2>4. 0 <= q
    <3>1. 0 * w <= si - 1 /\ si - 1 \in Int /\ 0 \in Int
      BY <1>0, <2>1
    <3> QED
      BY <2>1, <3>1, QuotientBetween
  <2> HIDE DEF q
  <2>5. q * w \in Nat
    BY <2>1, <2>3, <2>4
  <2>6. level = N => q * w = 0
    <3>1. SUFFICES ASSUME level = N, q # 0
                   PROVE  FALSE
      BY <2>1
    <3>2. 1 <= q /\ q \in Nat /\ w \in Nat
      BY <2>1, <2>3, <2>4, <3>1
    <3>3. w <= q * w
      BY <3>2
    <3> QED
      BY <1>0, <2>1, <2>3, <2>5, <3>1, <3>3
  <2> DEFINE p == q * w
  <2>7. p \in Nat /\ p <= si - 1 /\ si - 1 < p + w /\ low = p + 1 /\ (level = N => p = 0)
    BY <2>3, <2>5, <2>6
  <2> HIDE DEF p, low
  <2>8. Min({low + w - 1, N}) = IF low + w - 1 <= N THEN low + w - 1 ELSE N
    BY <1>0, <2>1, <2>7, MinOfTwo
  <2> DEFINE high == Min({low + w - 1, N})
  <2>9. low \in 1..si /\ high \in si..N
    BY <1>0, <2>1, <2>7, <2>8
  <2>10. level = N => low = 1 /\ high = N
    BY <1>0, <2>1, <2>7, <2>8
  <2>11. Window(a, si, level) = [lo |-> low, hi |-> high]
    BY <2>2
  <2> HIDE DEF high
  <2>12. Window(a, si, level).lo = low /\ Window(a, si, level).hi = high
    BY <2>11
  <2> QED
    BY <1>2, <2>9, <2>10, <2>11, <2>12 DEF N
<1> QED
  BY <1>1, <1>2

\* What a refresh of segment si makes of a whole array.
Refreshes(a, si, r) ==
    /\ Whole(r.array) /\ Rows(r.array) = Rows(a) /\ r.rebuilt \in BOOLEAN
    /\ r.rebuilt => \A s \in DOMAIN r.array.segments : r.array.changes[s] = 0
    /\ ~ r.rebuilt => \E lo \in 1..si, hi \in si..Len(a.segments), model \in Seq(Segment) :
                         SegmentsReplaced(a, r.array, lo, hi, model)

\* It stays whole and keeps its rows.
LEMMA RefreshKeeps ==
    ASSUME NEW a, Whole(a), NEW si \in 1..Len(a.segments)
    PROVE  Refreshes(a, si, local_rebalance(a, si))
<1> DEFINE N == Len(a.segments)
           own == region(a, si, si)
           W(l) == Window(a, si, l)
           R(l) == region(a, W(l).lo, W(l).hi)
           dense(l) == too_dense(a, R(l), l)
           all(l) == W(l) = [lo |-> 1, hi |-> N]
           levels == {l \in 0..N : ~ dense(l) \/ all(l)}
           level == Min(levels)
           g == Grown(a, own.begin)
           end == [begin |-> own.begin, end |-> Len(g.data) + 1]
           grown == relay(g, si, si, end)
           widened == relay(a, W(level).lo, W(level).hi, R(level))
<1>0. N \in Nat /\ si \in 1..N
  BY WholeIs
<1>1. local_rebalance(a, si) =
         IF si = N /\ dense(0) THEN [array |-> grown, rebuilt |-> FALSE]
         ELSE IF dense(level) THEN [array |-> rebalance(a), rebuilt |-> TRUE]
         ELSE [array |-> widened, rebuilt |-> FALSE]
  BY DEF local_rebalance
<1>2. level \in levels
  <2>1. all(N) /\ N \in 0..N
    <3>1. Window(a, si, N) = [lo |-> 1, hi |-> N]
      BY <1>0, WindowIs
    <3> QED
      BY <1>0, <3>1
  <2>2. levels \in SUBSET Int /\ levels # {} /\ \A l \in levels : 0 <= l
    <3> HIDE DEF N, dense, all
    <3> QED
      BY <1>0, <2>1
  <2> HIDE DEF levels
  <2> QED
    BY <2>2, MinOf
<1> HIDE DEF level
<1>3. level \in Nat /\ W(level).lo \in 1..si /\ W(level).hi \in si..N
  <2>1. level \in Nat
    <3> HIDE DEF dense, all, N
    <3> QED
      BY <1>0, <1>2
  <2> QED
    BY <1>0, <2>1, WindowIs
<1>4. ASSUME si = N, dense(0)
      PROVE  Refreshes(a, si, [array |-> grown, rebuilt |-> FALSE])
  <2>1. RegionFits(a, si, si, own)
    BY <1>0, RegionIsFit
  <2>2. own.begin \in 1..(Len(a.data) + 1) /\ own.begin \in Nat
    BY <2>1 DEF RegionFits
  <2> HIDE DEF own
  <2>3. /\ Whole(g) /\ Rows(g) = Rows(a) /\ Occupied(g) = Occupied(a)
        /\ Len(g.data) \in Nat /\ Len(a.data) <= Len(g.data)
        /\ \A j \in Occupied(g) : g.data[j] = a.data[j]
        /\ g.segments = a.segments /\ g.changes = a.changes
    BY <2>2, GrownKeeps
  <2> HIDE DEF g
  <2>4. RegionFits(g, si, si, end)
    <3>1. Len(a.data) \in Nat
      BY WholeIs, OccupiedAre
    <3>2. /\ end \in [begin : Nat, end : Nat] /\ end.begin = own.begin /\ end.end = Len(g.data) + 1
          /\ end.begin \in 1..(Len(g.data) + 1) /\ end.end \in end.begin..(Len(g.data) + 1)
      BY <2>2, <2>3, <3>1
    <3>3. /\ si \in 1..Len(g.segments) /\ si \in si..Len(g.segments) /\ si = Len(g.segments)
      BY <1>0, <1>4, <2>3
    <3>4. IF si = 1 THEN end.begin = 1
          ELSE \A j \in Occupied(g) : j < end.begin <=> g.data[j] < g.segments[si].start_key
      BY <2>1, <2>3, <3>2 DEF RegionFits
    <3> QED
      BY <3>2, <3>3, <3>4 DEF RegionFits
  <2> HIDE DEF end
  <2>5. /\ Whole(grown) /\ Rows(grown) = Rows(g)
        /\ SegmentsReplaced(g, grown, si, si, ModelOf(g, end))
    BY <2>3, <2>4, RelayKeeps
  <2>6. ModelOf(g, end) \in Seq(Segment)
    BY <2>3, <2>4, RelayReplacesSegments DEF Models
  <2> HIDE DEF grown
  <2>7. SegmentsReplaced(a, grown, si, si, ModelOf(g, end))
    BY <2>3, <2>5 DEF SegmentsReplaced
  <2>8. si \in 1..si /\ si \in si..Len(a.segments)
    BY <1>0
  <2> QED
    BY <2>3, <2>5, <2>6, <2>7, <2>8 DEF Refreshes
<1>5. Refreshes(a, si, [array |-> rebalance(a), rebuilt |-> TRUE])
  BY RebalanceKeepsRows DEF Refreshes, Rebuilds
<1>6. Refreshes(a, si, [array |-> widened, rebuilt |-> FALSE])
  <2> DEFINE lo == W(level).lo
             hi == W(level).hi
             r == R(level)
  <2>1. lo \in 1..Len(a.segments) /\ hi \in lo..Len(a.segments) /\ lo \in 1..si /\ hi \in si..Len(a.segments)
    <3> HIDE DEF lo, hi
    <3> QED
      BY <1>0, <1>3 DEF lo, hi
  <2>2. RegionFits(a, lo, hi, r)
    BY <2>1, RegionIsFit
  <2> HIDE DEF lo, hi, r
  <2>3. /\ Whole(relay(a, lo, hi, r)) /\ Rows(relay(a, lo, hi, r)) = Rows(a)
        /\ SegmentsReplaced(a, relay(a, lo, hi, r), lo, hi, ModelOf(a, r))
    BY <2>2, RelayKeeps
  <2>4. ModelOf(a, r) \in Seq(Segment)
    BY <2>2, RelayReplacesSegments DEF Models
  <2>5. widened = relay(a, lo, hi, r)
    BY DEF lo, hi, r
  <2> HIDE DEF widened
  <2> QED
    BY <2>1, <2>3, <2>4, <2>5 DEF Refreshes
<1> HIDE DEF grown, widened, dense
<1> QED
  BY <1>1, <1>4, <1>5, <1>6

-----------------------------------------------------------------------------
(* Putting a key into a gap.                                               *)

\* The bounds of the code that are numbers.
LEMMA Bounds ==
    /\ segment_threshold \in Nat \ {0} /\ max_gap_scan \in Nat \ {0}
    /\ segment_threshold = 1 \/ segment_threshold = eps
<1>1. 8 * eps \in Int /\ 1 \in Int /\ eps \in Int /\ eps \in Nat
  BY GappedAssumption
<1>2. /\ Max({1, eps}) = IF 1 <= eps THEN eps ELSE 1
      /\ Max({1, 8 * eps}) = IF 1 <= 8 * eps THEN 8 * eps ELSE 1
  BY <1>1, MinOfTwo
<1> QED
  BY <1>1, <1>2 DEF segment_threshold, max_gap_scan

\* The gap found is one, and no gap is nearer on its side.
LEMMA NearestGap ==
    ASSUME NEW a \in ArrayType, NEW start \in 1..(Len(a.data) + 1),
           find_nearest_gap(a, start) # 0
    PROVE  /\ find_nearest_gap(a, start) \in 1..Len(a.data)
           /\ find_nearest_gap(a, start) \notin Occupied(a)
           /\ \A j \in 1..Len(a.data) :
                 \/ start <= j /\ j < find_nearest_gap(a, start)
                 \/ find_nearest_gap(a, start) < j /\ j < start
                 => j \in Occupied(a)
<1> DEFINE M == Len(a.data)
           most == max_gap_scan
           gaps == DOMAIN a.data \ Occupied(a)
           right == {d \in 0..most : start + d \in gaps}
           left == {d \in 0..most : start - 1 - d \in gaps}
           both == right \cup left
           d0 == Min(both)
           gap == find_nearest_gap(a, start)
<1>0. /\ M \in Nat /\ DOMAIN a.data = 1..M /\ most \in Nat /\ start \in 1..(M + 1)
      /\ gaps = (1..M) \ Occupied(a)
  BY OccupiedAre, Bounds
<1> HIDE DEF M, most, gaps
<1>1. right \cup left # {} /\ gap = IF d0 \in right THEN start + d0 ELSE start - 1 - d0
  BY DEF find_nearest_gap, gaps, most
<1>2. right \cup left \in SUBSET Int /\ \A d \in right \cup left : 0 <= d
  BY <1>0
<1> HIDE DEF both
<1>3. d0 \in both /\ d0 \in Int /\ \A d \in both : d0 <= d
  <2>1. both \in SUBSET Int /\ both # {} /\ 0 \in Int /\ \A d \in both : 0 <= d
    BY <1>1, <1>2 DEF both
  <2> QED
    BY <2>1, MinOf
<1> HIDE DEF d0, gap
<1>4. d0 \in 0..most
  BY <1>3 DEF right, left, both
<1>5. gap \in gaps
  BY <1>1, <1>3 DEF right, left, both
<1>6. ASSUME NEW j \in 1..M, start <= j /\ j < gap
      PROVE  j \in Occupied(a)
  <2>1. gap = start + d0
    BY <1>0, <1>1, <1>4, <1>6
  <2>2. j - start \in 0..most /\ j - start < d0 /\ start + (j - start) = j
    BY <1>0, <1>4, <1>6, <2>1
  <2>3. j \notin gaps
    <3>1. SUFFICES ASSUME j \in gaps
                   PROVE  FALSE
      OBVIOUS
    <3>2. j - start \in both
      BY <2>2, <3>1 DEF right, both
    <3>3. d0 <= j - start
      BY <1>3, <3>2
    <3> QED
      BY <1>0, <1>3, <2>2, <3>3
  <2> QED
    BY <1>0, <2>3
<1>7. ASSUME NEW j \in 1..M, gap < j /\ j < start
      PROVE  j \in Occupied(a)
  <2>1. gap = start - 1 - d0
    BY <1>0, <1>1, <1>4, <1>7
  <2>2. start - 1 - j \in 0..most /\ start - 1 - j < d0 /\ start - 1 - (start - 1 - j) = j
    BY <1>0, <1>4, <1>7, <2>1
  <2>3. j \notin gaps
    <3>1. SUFFICES ASSUME j \in gaps
                   PROVE  FALSE
      OBVIOUS
    <3>2. start - 1 - j \in both
      BY <2>2, <3>1 DEF left, both
    <3>3. d0 <= start - 1 - j
      BY <1>3, <3>2
    <3> QED
      BY <1>0, <1>3, <2>2, <3>3
  <2> QED
    BY <1>0, <2>3
<1> QED
  BY <1>0, <1>5, <1>6, <1>7 DEF M, gap

\* Where a shift moves the slots 1 to M.
Moves(M, point, gap, new) ==
    /\ new \in 1..M
    /\ \A j \in 1..M : j # new =>
          /\ MovedFrom(point, gap, j) \in 1..M /\ MovedFrom(point, gap, j) # gap
          /\ MovedFrom(point, gap, j) < point <=> j < new
          /\ MovedFrom(point, gap, j) - j \in (-1)..1
          /\ MovedFrom(point, gap, j) # j =>
                \/ /\ point < gap
                   /\ point <= MovedFrom(point, gap, j) /\ MovedFrom(point, gap, j) < gap
                \/ /\ gap < point - 1
                   /\ gap < MovedFrom(point, gap, j) /\ MovedFrom(point, gap, j) < point
    /\ \A j, k \in 1..M : j # new /\ k # new /\ j < k =>
          MovedFrom(point, gap, j) < MovedFrom(point, gap, k)
    /\ \A i \in 1..M : i # gap =>
          /\ MovedTo(point, gap, i) \in 1..M /\ MovedTo(point, gap, i) # new
          /\ MovedFrom(point, gap, MovedTo(point, gap, i)) = i

\* Moving the slots between a gap and a point is such a move.
LEMMA MovesAre ==
    ASSUME NEW M \in Nat, NEW point \in 1..(M + 1), NEW gap \in 1..M
    PROVE  Moves(M, point, gap, NewSlot(point, gap))
<1>1. CASE gap < point
  BY <1>1 DEF NewSlot, MovedTo, MovedFrom, Moves
<1>2. CASE ~ (gap < point)
  BY <1>2 DEF NewSlot, MovedTo, MovedFrom, Moves
<1> QED
  BY <1>1, <1>2

\* Where an insert puts a key, and the gap it takes up.
PointOf(a, key) == lower_bound_index(a, key)
GapOf(a, key)   == find_nearest_gap(a, PointOf(a, key))

\* The array with the slots moved up.
Shifted(a, key, val) ==
    [a EXCEPT !.data = ShiftIn(@, PointOf(a, key), GapOf(a, key), key),
              !.vals = ShiftIn(@, PointOf(a, key), GapOf(a, key), val),
              !.count = @ + 1]

\* The segments an insert changed.
ChangedBy(a, key, val) ==
    Changed(Shifted(a, key, val), find_segment_index(a.segments, key), PointOf(a, key), GapOf(a, key))

\* One more change for each of them.
Counted(a, changed) ==
    [a EXCEPT !.changes = [s \in DOMAIN @ |-> @[s] + IF changed.first <= s /\ s <= changed.next THEN 1 ELSE 0]]

\* The array an insert leaves.
PutIn(a, key, val) == Counted(Shifted(a, key, val), ChangedBy(a, key, val))

\* An array that can take the key.
Takes(a, key, val) ==
    /\ Whole(a) /\ a.segments # <<>> /\ key \in Key /\ key \notin KeysIn(a) /\ val \in Val
    /\ HasGap(a, key)

\* What Placed does, in steps.
LEMMA PlacedIs ==
    ASSUME NEW a, NEW key, NEW val
    PROVE  Placed(a, key, val) <=>
              Becomes(PutIn(a, key, val)) /\ todo' = ChangedBy(a, key, val)
BY DEF Placed, PutIn, Counted, ChangedBy, Shifted, PointOf, GapOf

-----------------------------------------------------------------------------
(* What a shift leaves.                                                    *)

\* Every slot but the new one has what the slot it came from had.
ShiftMoves(a, b, key, val, point, gap) ==
    LET new == NewSlot(point, gap)
    IN  /\ b.data[new] = key /\ b.vals[new] = val /\ new \in Occupied(b)
        /\ \A j \in 1..Len(a.data) : j # new =>
              /\ b.data[j] = a.data[MovedFrom(point, gap, j)]
              /\ b.vals[j] = a.vals[MovedFrom(point, gap, j)]
              /\ j \in Occupied(b) <=> MovedFrom(point, gap, j) \in Occupied(a)
        /\ \A i \in Occupied(a) :
              /\ MovedTo(point, gap, i) \in Occupied(b) /\ MovedTo(point, gap, i) # new
              /\ MovedFrom(point, gap, MovedTo(point, gap, i)) = i

\* What the shift of an insert leaves where.
LEMMA ShiftedIs ==
    ASSUME NEW a, NEW key, NEW val, Takes(a, key, val)
    PROVE  /\ a \in ArrayType /\ Filled(a) /\ Len(a.data) \in Nat /\ key \in Int
           /\ PointOf(a, key) \in 1..(Len(a.data) + 1)
           /\ GapOf(a, key) \in 1..Len(a.data) /\ GapOf(a, key) \notin Occupied(a)
           /\ Shifted(a, key, val) \in ArrayType /\ Len(Shifted(a, key, val).data) = Len(a.data)
           /\ Len(Shifted(a, key, val).vals) = Len(a.data)
           /\ ShiftMoves(a, Shifted(a, key, val), key, val, PointOf(a, key), GapOf(a, key))
<1> DEFINE b == Shifted(a, key, val)
           M == Len(a.data)
           point == PointOf(a, key)
           gap == GapOf(a, key)
           new == NewSlot(point, gap)
<1>0. /\ a \in ArrayType /\ Filled(a) /\ M \in Nat /\ key \in Key /\ key \in Int /\ val \in Val
      /\ key # EMPTY_SLOT
      /\ a.data \in Seq(Key \cup {EMPTY_SLOT}) /\ a.vals \in Seq(Val \cup {NoVal}) /\ Len(a.vals) = M
  <2>1. a \in ArrayType /\ Filled(a) /\ key \in Key /\ val \in Val
    BY WholeIs DEF Takes
  <2>2. M \in Nat
    BY <2>1, OccupiedAre
  <2>3. key \in Int /\ key # EMPTY_SLOT
    BY <2>1, GappedAssumption
  <2> QED
    BY <2>1, <2>2, <2>3 DEF ArrayType, Filled
<1>1. point \in 1..(M + 1)
  BY <1>0, LowerBound DEF PointOf
<1>2. gap \in 1..M /\ gap \notin Occupied(a)
  <2>1. find_nearest_gap(a, point) # 0
    BY DEF Takes, HasGap, PointOf
  <2> HIDE DEF point
  <2> QED
    BY <1>0, <1>1, <2>1, NearestGap DEF GapOf, point
<1> HIDE DEF point, gap, M
<1>3. /\ b.data = ShiftIn(a.data, point, gap, key) /\ b.vals = ShiftIn(a.vals, point, gap, val)
      /\ b.count = a.count + 1
      /\ b \in [data : {b.data}, vals : {b.vals}, segments : {a.segments},
                changes : {a.changes}, count : {a.count + 1}, trained : {a.trained}]
  BY <1>0 DEF Shifted, point, gap, ArrayType
<1> HIDE DEF b, new
<1>4. /\ b.data \in Seq(Key \cup {EMPTY_SLOT}) /\ Len(b.data) = M
      /\ \A j \in 1..M : b.data[j] = IF j = new THEN key ELSE a.data[MovedFrom(point, gap, j)]
  <2>1. key \in Key \cup {EMPTY_SLOT} /\ point \in 1..(Len(a.data) + 1) /\ gap \in 1..Len(a.data)
    BY <1>0, <1>1, <1>2 DEF M
  <2>2. IsShifted(ShiftIn(a.data, point, gap, key), Key \cup {EMPTY_SLOT}, a.data, point, gap, key)
    BY <1>0, <2>1, ShiftInIs
  <2> QED
    BY <1>3, <2>2 DEF M, new, IsShifted
<1>5. /\ b.vals \in Seq(Val \cup {NoVal}) /\ Len(b.vals) = M
      /\ \A j \in 1..M : b.vals[j] = IF j = new THEN val ELSE a.vals[MovedFrom(point, gap, j)]
  <2>1. val \in Val \cup {NoVal} /\ point \in 1..(Len(a.vals) + 1) /\ gap \in 1..Len(a.vals)
    BY <1>0, <1>1, <1>2
  <2>2. IsShifted(ShiftIn(a.vals, point, gap, val), Val \cup {NoVal}, a.vals, point, gap, val)
    BY <1>0, <2>1, ShiftInIs
  <2> QED
    BY <1>0, <1>3, <2>2 DEF new, IsShifted
<1>6. b \in ArrayType
  BY <1>0, <1>3, <1>4, <1>5 DEF ArrayType
<1>7. /\ new \in 1..M
      /\ \A j \in 1..M : j # new => MovedFrom(point, gap, j) \in 1..M
      /\ \A i \in 1..M : i # gap =>
            /\ MovedTo(point, gap, i) \in 1..M /\ MovedTo(point, gap, i) # new
            /\ MovedFrom(point, gap, MovedTo(point, gap, i)) = i
  <2>1. Moves(M, point, gap, NewSlot(point, gap))
    BY <1>0, <1>1, <1>2, MovesAre
  <2> QED
    BY <2>1 DEF Moves, new
<1>8. /\ Occupied(a) = {j \in 1..M : a.data[j] # EMPTY_SLOT}
      /\ Occupied(b) = {j \in 1..M : b.data[j] # EMPTY_SLOT}
  BY <1>0, <1>4, <1>6, OccupiedAre DEF M
<1>9. b.data[new] = key /\ b.vals[new] = val /\ new \in Occupied(b)
  BY <1>0, <1>4, <1>5, <1>7, <1>8
<1>10. ASSUME NEW j \in 1..M, j # new
       PROVE  /\ b.data[j] = a.data[MovedFrom(point, gap, j)]
              /\ b.vals[j] = a.vals[MovedFrom(point, gap, j)]
              /\ j \in Occupied(b) <=> MovedFrom(point, gap, j) \in Occupied(a)
  BY <1>4, <1>5, <1>7, <1>8, <1>10
<1>11. ASSUME NEW i \in Occupied(a)
       PROVE  /\ MovedTo(point, gap, i) \in Occupied(b) /\ MovedTo(point, gap, i) # new
              /\ MovedFrom(point, gap, MovedTo(point, gap, i)) = i
  BY <1>2, <1>7, <1>8, <1>10, <1>11
<1>12. ShiftMoves(a, b, key, val, point, gap)
  BY <1>9, <1>10, <1>11 DEF ShiftMoves, M, new
<1> QED
  BY <1>0, <1>1, <1>2, <1>4, <1>5, <1>6, <1>12 DEF M, b, point, gap

\* The array is filled still, and has one row more.
LEMMA ShiftedIsFilled ==
    ASSUME NEW a, NEW key, NEW val, Takes(a, key, val)
    PROVE  LET b == Shifted(a, key, val)
           IN  /\ Filled(b) /\ Rows(b) = Rows(a) \cup {<<key, val>>}
               /\ KeysIn(a) \subseteq KeysIn(b)
               /\ b.count = Cardinality(Occupied(b))
<1> DEFINE b == Shifted(a, key, val)
           M == Len(a.data)
           point == PointOf(a, key)
           gap == GapOf(a, key)
           new == NewSlot(point, gap)
           From(j) == MovedFrom(point, gap, j)
           To(i) == MovedTo(point, gap, i)
<1>0. /\ a \in ArrayType /\ Filled(a) /\ M \in Nat /\ key \in Int /\ b \in ArrayType
      /\ Len(b.data) = M /\ Len(b.vals) = M
      /\ point \in 1..(M + 1) /\ gap \in 1..M
      /\ ShiftMoves(a, b, key, val, point, gap)
  BY ShiftedIs
<1>1. b.count = a.count + 1
  BY DEF Shifted
<1>2. \A i \in Occupied(a) : i < point <=> a.data[i] < key
  BY <1>0, LowerBound DEF PointOf
<1>3. key \notin KeysIn(a) /\ val # NoVal /\ a.count = Cardinality(Occupied(a))
  BY GappedAssumption DEF Takes, Whole, Sound
<1> HIDE DEF b, M, point, gap, new, From, To
<1>4. /\ new \in 1..M /\ b.data[new] = key /\ b.vals[new] = val /\ new \in Occupied(b)
      /\ \A j \in 1..M : j # new =>
            /\ b.data[j] = a.data[From(j)] /\ b.vals[j] = a.vals[From(j)]
            /\ j \in Occupied(b) <=> From(j) \in Occupied(a)
      /\ \A i \in Occupied(a) : To(i) \in Occupied(b) /\ To(i) # new /\ From(To(i)) = i
  <2>1. Moves(M, point, gap, NewSlot(point, gap))
    BY <1>0, MovesAre
  <2>2. new \in 1..M
    BY <2>1 DEF Moves, new
  <2> QED
    BY <1>0, <2>2 DEF ShiftMoves, M, new, From, To
<1>5. /\ \A j \in 1..M : j # new => (From(j) < point <=> j < new) /\ From(j) \in 1..M
      /\ \A j, k \in 1..M : j # new /\ k # new /\ j < k => From(j) < From(k)
      /\ new \in 1..M
  <2>1. Moves(M, point, gap, NewSlot(point, gap))
    BY <1>0, MovesAre
  <2> QED
    BY <2>1 DEF Moves, new, From, To
<1>6. Occupied(b) \subseteq 1..M /\ Occupied(a) \subseteq 1..M
  BY <1>0, OccupiedAre DEF M
<1>7. ASSUME NEW j \in Occupied(b), j # new
      PROVE  /\ From(j) \in Occupied(a) /\ b.data[j] = a.data[From(j)] /\ b.vals[j] = a.vals[From(j)]
             /\ b.data[j] \in Int /\ b.data[j] # key /\ (b.data[j] < key <=> j < new)
  <2>1. From(j) \in Occupied(a) /\ b.data[j] = a.data[From(j)] /\ b.vals[j] = a.vals[From(j)]
    <3>1. j \in 1..M
      BY <1>6
    <3> QED
      BY <1>4, <1>7, <3>1
  <2>2. a.data[From(j)] # key
    BY <1>3, <2>1 DEF KeysIn
  <2>3. a.data[From(j)] \in Int
    BY <1>0, <2>1, OccupiedAre
  <2> QED
    BY <1>2, <1>5, <1>6, <1>7, <2>1, <2>2, <2>3
<1>8. ASSUME NEW j \in Occupied(b), NEW k \in Occupied(b), j < k
      PROVE  b.data[j] < b.data[k]
  <2>1. j \in Int /\ k \in Int /\ j # k /\ new \in Int
    BY <1>4, <1>6, <1>8
  <2>2. CASE j = new
    BY <1>0, <1>4, <1>7, <1>8, <2>1, <2>2
  <2>3. CASE k = new
    BY <1>4, <1>7, <1>8, <2>1, <2>3
  <2>4. CASE j # new /\ k # new
    <3>1. From(j) < From(k)
      BY <1>5, <1>6, <1>8, <2>4
    <3>2. From(j) \in Occupied(a) /\ From(k) \in Occupied(a)
      BY <1>7, <2>4
    <3>3. a.data[From(j)] < a.data[From(k)]
      BY <1>0, <3>1, <3>2 DEF Filled
    <3> QED
      BY <1>7, <2>4, <3>3
  <2> QED
    BY <2>2, <2>3, <2>4
<1>9. \A j \in Occupied(b) : b.vals[j] # NoVal
  <2>1. ASSUME NEW j \in Occupied(b), j # new
        PROVE  b.vals[j] # NoVal
    BY <1>0, <1>7, <2>1 DEF Filled
  <2> QED
    BY <1>3, <1>4, <2>1
<1>10. Filled(b)
  BY <1>0, <1>8, <1>9 DEF Filled
<1>11. Rows(b) = Rows(a) \cup {<<key, val>>}
  <2>1. ASSUME NEW j \in Occupied(b)
        PROVE  <<b.data[j], b.vals[j]>> \in Rows(a) \cup {<<key, val>>}
    <3>1. CASE j = new
      BY <1>4, <3>1
    <3>2. CASE j # new
      BY <1>7, <3>2 DEF Rows
    <3> QED
      BY <3>1, <3>2
  <2>2. ASSUME NEW i \in Occupied(a)
        PROVE  <<a.data[i], a.vals[i]>> \in Rows(b)
    <3>1. To(i) \in Occupied(b) /\ To(i) # new /\ From(To(i)) = i
      BY <1>4
    <3>2. b.data[To(i)] = a.data[i] /\ b.vals[To(i)] = a.vals[i]
      BY <1>7, <3>1
    <3> QED
      BY <3>1, <3>2 DEF Rows
  <2>3. <<key, val>> \in Rows(b)
    BY <1>4 DEF Rows
  <2>4. Rows(b) \subseteq Rows(a) \cup {<<key, val>>}
    BY <2>1 DEF Rows
  <2>5. Rows(a) \subseteq Rows(b)
    BY <2>2 DEF Rows
  <2> QED
    BY <2>3, <2>4, <2>5
<1>12. KeysIn(a) \subseteq KeysIn(b)
  <2>1. SUFFICES ASSUME NEW i \in Occupied(a)
                 PROVE  a.data[i] \in KeysIn(b)
    BY DEF KeysIn
  <2>2. To(i) \in Occupied(b) /\ To(i) # new /\ From(To(i)) = i
    BY <1>4
  <2>3. b.data[To(i)] = a.data[i]
    BY <1>7, <2>2
  <2> QED
    BY <2>2, <2>3 DEF KeysIn
<1>13. b.count = Cardinality(Occupied(b))
  <2>1. IsFiniteSet(Rows(a)) /\ Cardinality(Rows(a)) = Cardinality(Occupied(a))
    BY <1>0, RowsAreCounted
  <2>2. Cardinality(Rows(b)) = Cardinality(Occupied(b))
    BY <1>0, <1>10, RowsAreCounted
  <2>3. <<key, val>> \notin Rows(a)
    BY <1>3 DEF Rows, KeysIn
  <2>4. Cardinality(Rows(a) \cup {<<key, val>>}) = Cardinality(Rows(a)) + 1
    BY <2>1, <2>3, FS_AddElement
  <2> QED
    BY <1>1, <1>3, <1>11, <2>1, <2>2, <2>4
<1> QED
  BY <1>10, <1>11, <1>12, <1>13 DEF b

-----------------------------------------------------------------------------
(* The segments a shift changes.                                           *)

\* The key in the slot that was the gap is one that was moved, and it is the
\* furthest from the new key.
LEMMA FurthestMoved ==
    ASSUME NEW a, NEW key, NEW val, Takes(a, key, val),
           \/ PointOf(a, key) < GapOf(a, key)
           \/ GapOf(a, key) < PointOf(a, key) - 1
    PROVE  LET b     == Shifted(a, key, val)
               point == PointOf(a, key)
               gap   == GapOf(a, key)
           IN  /\ b.data[gap] \in Int
               /\ \A i \in Occupied(a) :
                     /\ point <= i /\ i < gap => a.data[i] <= b.data[gap] /\ key <= a.data[i]
                     /\ gap < i /\ i < point => b.data[gap] <= a.data[i] /\ a.data[i] <= key
<1> DEFINE b == Shifted(a, key, val)
           M == Len(a.data)
           point == PointOf(a, key)
           gap == GapOf(a, key)
           new == NewSlot(point, gap)
           far == MovedFrom(point, gap, gap)
<1>0. /\ a \in ArrayType /\ Filled(a) /\ M \in Nat /\ key \in Int
      /\ point \in 1..(M + 1) /\ gap \in 1..M
      /\ ShiftMoves(a, b, key, val, point, gap)
  BY ShiftedIs
<1>1. \A i \in Occupied(a) : i < point <=> a.data[i] < key
  BY <1>0, LowerBound DEF PointOf
<1>2. \A j \in 1..M : (point <= j /\ j < gap) \/ (gap < j /\ j < point) => j \in Occupied(a)
  <2>1. find_nearest_gap(a, point) # 0
    BY DEF Takes, HasGap, PointOf
  <2>2. \A j \in 1..Len(a.data) :
           \/ point <= j /\ j < find_nearest_gap(a, point)
           \/ find_nearest_gap(a, point) < j /\ j < point
           => j \in Occupied(a)
    <3> HIDE DEF point
    <3> QED
      BY <1>0, <2>1, NearestGap
  <2> QED
    BY <2>2 DEF GapOf
<1>3. point < gap \/ gap < point - 1
  OBVIOUS
<1> HIDE DEF b, point, gap
<1>4. /\ point < gap => far = gap - 1 /\ gap # new /\ far \in 1..M /\ point <= far /\ far < gap
      /\ gap < point - 1 => far = gap + 1 /\ gap # new /\ far \in 1..M /\ gap < far /\ far < point
  <2> HIDE DEF M
  <2> QED
    BY <1>0 DEF MovedFrom, NewSlot
<1>5. far \in Occupied(a) /\ b.data[gap] = a.data[far]
  <2>1. far \in Occupied(a) /\ gap # new
    BY <1>2, <1>3, <1>4
  <2>2. b.data[gap] = a.data[far]
    BY <1>0, <2>1 DEF ShiftMoves
  <2> QED
    BY <2>1, <2>2
<1> HIDE DEF far, new
<1>6. a.data[far] \in Int /\ far \in Int
  BY <1>0, <1>5, OccupiedAre
<1>7. ASSUME NEW i \in Occupied(a), point <= i, i < gap
      PROVE  a.data[i] <= a.data[far] /\ key <= a.data[i]
  <2>1. i \in Int /\ a.data[i] \in Int /\ point < gap /\ far = gap - 1
    BY <1>0, <1>4, <1>7, OccupiedAre
  <2>2. i = far \/ i < far
    BY <1>0, <1>7, <2>1
  <2>3. i < far => a.data[i] < a.data[far]
    BY <1>0, <1>5 DEF Filled
  <2>4. ~ (a.data[i] < key)
    BY <1>0, <1>1, <1>7, <2>1
  <2> QED
    BY <1>0, <1>6, <2>1, <2>2, <2>3, <2>4
<1>8. ASSUME NEW i \in Occupied(a), gap < i, i < point
      PROVE  a.data[far] <= a.data[i] /\ a.data[i] <= key
  <2>1. i \in Int /\ a.data[i] \in Int /\ gap < point - 1 /\ far = gap + 1
    <3>1. i \in Int /\ a.data[i] \in Int
      BY <1>0, OccupiedAre
    <3> QED
      BY <1>0, <1>4, <1>8, <3>1
  <2>2. i = far \/ far < i
    BY <1>0, <1>8, <2>1
  <2>3. far < i => a.data[far] < a.data[i]
    BY <1>0, <1>5 DEF Filled
  <2>4. a.data[i] < key
    BY <1>1, <1>8
  <2> QED
    BY <1>0, <1>6, <2>1, <2>2, <2>3, <2>4
<1> QED
  BY <1>5, <1>6, <1>7, <1>8 DEF b, point, gap

\* Every key a shift moves is one of a segment the shift is counted against.
LEMMA MovedIsCounted ==
    ASSUME NEW a, NEW key, NEW val, Takes(a, key, val)
    PROVE  LET c == ChangedBy(a, key, val)
           IN  /\ c \in [next : 1..Len(a.segments), first : 1..Len(a.segments)]
               /\ \A i \in Occupied(a), s \in DOMAIN a.segments :
                     /\ Owns(a.segments, s, a.data[i])
                     /\ \/ PointOf(a, key) <= i /\ i < GapOf(a, key)
                        \/ GapOf(a, key) < PointOf(a, key) - 1
                           /\ GapOf(a, key) < i /\ i < PointOf(a, key)
                     => c.first <= s /\ s <= c.next
<1> DEFINE b == Shifted(a, key, val)
           N == Len(a.segments)
           point == PointOf(a, key)
           gap == GapOf(a, key)
           segs == a.segments
           owner == find_segment_index(segs, key)
           last == b.data[gap]
           reached == find_segment_index(segs, last)
           c == ChangedBy(a, key, val)
           Up == point < gap
           Down == gap < point - 1
<1>0. /\ Whole(a) /\ a \in ArrayType /\ segs \in Seq(Segment) /\ segs # <<>> /\ StartsAscend(segs)
      /\ N \in Nat /\ DOMAIN segs = 1..N /\ key \in Int
      /\ \A s \in 1..N : segs[s].start_key \in Int
      /\ point \in Int /\ gap \in Int
  <2>1. Whole(a) /\ segs # <<>>
    BY DEF Takes
  <2>2. key \in Int /\ point \in Int /\ gap \in Int
    <3>1. /\ Len(a.data) \in Nat /\ key \in Int /\ PointOf(a, key) \in 1..(Len(a.data) + 1)
          /\ GapOf(a, key) \in 1..Len(a.data)
      BY ShiftedIs
    <3> QED
      BY <3>1
  <2> QED
    BY <2>1, <2>2, WholeIs
<1>1. owner \in 1..N /\ Owns(segs, owner, key)
  BY <1>0, SearchFindsOwner
<1>2. Up \/ Down =>
         /\ last \in Int
         /\ \A i \in Occupied(a) :
               /\ point <= i /\ i < gap => a.data[i] <= last /\ key <= a.data[i]
               /\ gap < i /\ i < point => last <= a.data[i] /\ a.data[i] <= key
  BY FurthestMoved
<1>3. c = [next  |-> IF gap > point /\ owner < N /\ last >= segs[owner + 1].start_key
                     THEN reached ELSE owner,
           first |-> IF gap < point - 1 /\ last < segs[owner].start_key THEN reached ELSE owner]
  BY DEF ChangedBy, Changed, Shifted
<1> HIDE DEF b, N, point, gap, segs, owner, last, reached, c
<1>4. Up \/ Down => reached \in 1..N /\ Owns(segs, reached, last)
  BY <1>0, <1>2, SearchFindsOwner DEF reached
<1>5. /\ c.next = IF Up /\ owner < N /\ last >= segs[owner + 1].start_key THEN reached ELSE owner
      /\ c.first = IF Down /\ last < segs[owner].start_key THEN reached ELSE owner
  BY <1>0, <1>3
<1>6. c \in [next : 1..N, first : 1..N]
  BY <1>0, <1>1, <1>3, <1>4
<1>7. ASSUME NEW i \in Occupied(a), NEW s \in 1..N, Owns(segs, s, a.data[i]),
             point <= i, i < gap
      PROVE  c.first <= s /\ s <= c.next
  <2>1. a.data[i] \in Int /\ i \in Int
    BY <1>0, OccupiedAre
  <2>2. Up /\ ~ Down
    BY <1>0, <1>7, <2>1
  <2>3. last \in Int /\ a.data[i] <= last /\ key <= a.data[i]
    BY <1>2, <1>7, <2>2
  <2>4. owner <= s
    BY <1>0, <1>1, <1>7, <2>1, <2>3, OwnersAscend
  <2>5. c.first = owner
    BY <1>5, <2>2
  <2>6. CASE owner < N /\ last >= segs[owner + 1].start_key
    <3>1. c.next = reached
      BY <1>5, <2>2, <2>6
    <3>2. s <= reached
      BY <1>0, <1>4, <1>7, <2>1, <2>2, <2>3, OwnersAscend
    <3> QED
      BY <2>4, <2>5, <3>1, <3>2
  <2>7. CASE owner = N
    <3>1. c.next = N
      BY <1>0, <1>5, <2>7
    <3> QED
      BY <1>0, <2>4, <2>5, <3>1
  <2>8. CASE owner < N /\ ~ (last >= segs[owner + 1].start_key)
    <3>1. c.next = owner
      BY <1>5, <2>8
    <3>2. owner + 1 \in 1..N /\ segs[owner + 1].start_key \in Int /\ segs[owner].start_key \in Int
      BY <1>0, <1>1, <2>8
    <3>3. a.data[i] < segs[owner + 1].start_key
      BY <2>1, <2>3, <2>8, <3>2
    <3>4. owner = 1 \/ segs[owner].start_key <= a.data[i]
      BY <1>0, <1>1, <2>1, <2>3, <3>2 DEF Owns
    <3>5. Owns(segs, owner, a.data[i])
      BY <3>3, <3>4 DEF Owns
    <3>6. s = owner
      BY <1>0, <1>1, <1>7, <2>1, <3>5, OneOwner
    <3> QED
      BY <1>0, <1>1, <2>5, <3>1, <3>6
  <2> QED
    BY <1>0, <1>1, <2>6, <2>7, <2>8
<1>8. ASSUME NEW i \in Occupied(a), NEW s \in 1..N, Owns(segs, s, a.data[i]),
             Down, gap < i, i < point
      PROVE  c.first <= s /\ s <= c.next
  <2>1. a.data[i] \in Int /\ i \in Int
    BY <1>0, OccupiedAre
  <2>2. Down /\ ~ Up
    BY <1>0, <1>8
  <2>3. last \in Int /\ last <= a.data[i] /\ a.data[i] <= key
    BY <1>2, <1>8, <2>2
  <2>4. s <= owner
    BY <1>0, <1>1, <1>8, <2>1, <2>3, OwnersAscend
  <2>5. c.next = owner
    BY <1>5, <2>2
  <2>6. CASE last < segs[owner].start_key
    <3>1. c.first = reached
      BY <1>5, <2>2, <2>6
    <3>2. reached <= s
      BY <1>0, <1>4, <1>8, <2>1, <2>2, <2>3, OwnersAscend
    <3> QED
      BY <2>4, <2>5, <3>1, <3>2
  <2>7. CASE ~ (last < segs[owner].start_key)
    <3>1. c.first = owner
      BY <1>5, <2>7
    <3>2. segs[owner].start_key \in Int
      BY <1>0, <1>1
    <3>3. segs[owner].start_key <= a.data[i]
      BY <2>1, <2>3, <2>7, <3>2
    <3>4. owner = Len(segs) \/ a.data[i] < segs[owner + 1].start_key
      <4>1. SUFFICES ASSUME owner # Len(segs)
                     PROVE  a.data[i] < segs[owner + 1].start_key
        OBVIOUS
      <4>2. key < segs[owner + 1].start_key
        BY <1>1, <4>1 DEF Owns
      <4>3. owner + 1 \in 1..N
        BY <1>0, <1>1, <4>1 DEF N, segs
      <4> QED
        BY <1>0, <2>1, <2>3, <4>2, <4>3
    <3>5. Owns(segs, owner, a.data[i])
      BY <3>3, <3>4 DEF Owns
    <3>6. s = owner
      BY <1>0, <1>1, <1>8, <2>1, <3>5, OneOwner
    <3> QED
      BY <1>0, <1>1, <2>5, <3>1, <3>6
  <2> QED
    BY <2>6, <2>7
<1> QED
  BY <1>0, <1>6, <1>7, <1>8 DEF N, point, gap, segs, c

-----------------------------------------------------------------------------
(* An array that gains a key.                                              *)

\* The changes of p are those of a, and one more for each segment the insert
\* changed.
CountsChanges(a, p, c) ==
    /\ c \in [next : 1..Len(a.segments), first : 1..Len(a.segments)]
    /\ p.segments = a.segments /\ p.changes \in [1..Len(a.segments) -> Nat]
    /\ \A s \in 1..Len(a.segments) :
          p.changes[s] = a.changes[s] + IF c.first <= s /\ s <= c.next THEN 1 ELSE 0

\* A key put into a gap leaves the array whole, and one row richer.
LEMMA PutInKeeps ==
    ASSUME NEW a, NEW key, NEW val, Takes(a, key, val)
    PROVE  /\ Whole(PutIn(a, key, val))
           /\ Rows(PutIn(a, key, val)) = Rows(a) \cup {<<key, val>>}
           /\ CountsChanges(a, PutIn(a, key, val), ChangedBy(a, key, val))
<1> DEFINE b == Shifted(a, key, val)
           c == ChangedBy(a, key, val)
           p == PutIn(a, key, val)
           N == Len(a.segments)
           M == Len(a.data)
           point == PointOf(a, key)
           gap == GapOf(a, key)
           new == NewSlot(point, gap)
           From(j) == MovedFrom(point, gap, j)
<1>0. /\ Whole(a) /\ a \in ArrayType /\ Filled(a) /\ M \in Nat /\ key \in Int
      /\ point \in 1..(M + 1) /\ gap \in 1..M
      /\ b \in ArrayType /\ Len(b.data) = M /\ Len(b.vals) = M
      /\ ShiftMoves(a, b, key, val, point, gap)
  BY ShiftedIs DEF Takes
<1>1. /\ N \in Nat /\ a.changes \in Seq(Nat) /\ DOMAIN a.changes = 1..N /\ DOMAIN a.segments = 1..N
      /\ \A s \in 1..N : a.changes[s] \in Nat
  BY <1>0, WholeIs
<1>2. /\ Filled(b) /\ Rows(b) = Rows(a) \cup {<<key, val>>} /\ KeysIn(a) \subseteq KeysIn(b)
      /\ b.count = Cardinality(Occupied(b))
  BY ShiftedIsFilled
<1>3. /\ c \in [next : 1..N, first : 1..N]
      /\ \A i \in Occupied(a), s \in 1..N :
            /\ Owns(a.segments, s, a.data[i])
            /\ (point <= i /\ i < gap) \/ (gap < point - 1 /\ gap < i /\ i < point)
            => c.first <= s /\ s <= c.next
  BY <1>1, MovedIsCounted
<1>4. b.segments = a.segments /\ b.changes = a.changes /\ b.trained = a.trained
  BY DEF Shifted
<1> HIDE DEF b, c, N, M, point, gap
<1> DEFINE counted == [s \in 1..N |-> a.changes[s] + IF c.first <= s /\ s <= c.next THEN 1 ELSE 0]
<1>5. counted \in [1..N -> Nat]
  BY <1>1
<1>6. /\ p.changes = counted /\ p.data = b.data /\ p.vals = b.vals /\ p.segments = a.segments
      /\ p.count = b.count /\ p.trained = a.trained
      /\ p \in [data : {b.data}, vals : {b.vals}, segments : {a.segments},
                changes : {counted}, count : {b.count}, trained : {a.trained}]
  BY <1>0, <1>1, <1>4 DEF PutIn, Counted, ArrayType, b, c
<1>7. \A s \in 1..N :
         counted[s] = a.changes[s] + IF c.first <= s /\ s <= c.next THEN 1 ELSE 0
  OBVIOUS
<1> HIDE DEF counted
<1>8. counted \in Seq(Nat) /\ Len(counted) = N
  BY <1>1, <1>5, Listed
<1> HIDE DEF p
<1>9. p \in ArrayType
  BY <1>0, <1>6, <1>8 DEF ArrayType
<1>10. CountsChanges(a, p, c)
  BY <1>3, <1>5, <1>6, <1>7 DEF CountsChanges, N
<1>11. Occupied(p) = Occupied(b) /\ Rows(p) = Rows(b) /\ KeysIn(p) = KeysIn(b)
  BY <1>6 DEF Occupied, Rows, KeysIn
<1>12. ASSUME NEW j \in Occupied(b), NEW s \in 1..N,
              b.data[j] \in a.trained, Owns(a.segments, s, b.data[j])
       PROVE  /\ a.segments[s].start_key <= b.data[j]
              /\ \E slot \in 1..M :
                    /\ Near(slot, OnLine(a.segments[s], b.data[j]), a.segments[s].den, eps)
                    /\ j - slot \in (-counted[s])..counted[s]
                    /\ a.segments[s].anchor <= slot
                    /\ b.data[j] = a.segments[s].start_key => slot = a.segments[s].anchor
  <2>1. j \in 1..M /\ j # new
    <3>1. a.trained \subseteq KeysIn(a) /\ key \notin KeysIn(a)
      BY DEF Takes, Whole, Sound
    <3>2. b.data[new] = key
      BY <1>0 DEF ShiftMoves, point, gap
    <3> QED
      BY <1>0, <1>12, <3>1, <3>2, OccupiedAre
  <2> DEFINE i == From(j)
  <2>2. i \in Occupied(a) /\ b.data[j] = a.data[i]
    BY <1>0, <1>12, <2>1 DEF ShiftMoves, M, point, gap
  <2>3. Moves(M, point, gap, new)
    BY <1>0, MovesAre
  <2>4. /\ i \in 1..M /\ i - j \in (-1)..1
        /\ i # j => \/ point < gap /\ point <= i /\ i < gap
                    \/ gap < point - 1 /\ gap < i /\ i < point
    BY <2>1, <2>3 DEF Moves
  <2> HIDE DEF i, new
  <2>5. Drifted(a)
    BY <1>0 DEF Whole, Sound
  <2>6. a.segments[s].start_key <= a.data[i]
    BY <1>1, <1>12, <2>2, <2>5 DEF Drifted
  <2>7. PICK slot \in 1..M :
           /\ Near(slot, OnLine(a.segments[s], a.data[i]), a.segments[s].den, eps)
           /\ i - slot \in (-a.changes[s])..a.changes[s]
           /\ a.segments[s].anchor <= slot
           /\ a.data[i] = a.segments[s].start_key => slot = a.segments[s].anchor
    BY <1>1, <1>12, <2>2, <2>5 DEF Drifted, M
  <2>8. i # j => counted[s] = a.changes[s] + 1
    BY <1>3, <1>7, <1>12, <2>2, <2>4
  <2>9. counted[s] \in Nat /\ a.changes[s] \in Nat /\ a.changes[s] <= counted[s]
    BY <1>1, <1>7
  <2>10. j - slot \in (-counted[s])..counted[s]
    <3> DEFINE now == counted[s]
               before == a.changes[s]
    <3>1. /\ i \in Int /\ j \in Int /\ slot \in Int /\ now \in Nat /\ before \in Nat
          /\ -1 <= i - j /\ i - j <= 1 /\ before <= now
          /\ -before <= i - slot /\ i - slot <= before
      BY <1>0, <2>1, <2>4, <2>7, <2>9
    <3>2. i # j => now = before + 1
      BY <2>8
    <3> HIDE DEF now, before
    <3>3. -now <= j - slot /\ j - slot <= now
      BY <3>1, <3>2
    <3>4. j - slot \in (-now)..now
      BY <3>1, <3>3
    <3> QED
      BY <3>4 DEF now
  <2> QED
    BY <2>2, <2>6, <2>7, <2>10
<1>13. Drifted(p)
  <2>1. Len(p.data) = M /\ DOMAIN p.segments = 1..N
    BY <1>0, <1>1, <1>6
  <2>2. SUFFICES ASSUME NEW j \in Occupied(p), NEW s \in DOMAIN p.segments,
                        p.data[j] \in p.trained, Owns(p.segments, s, p.data[j])
                 PROVE  /\ p.segments[s].start_key <= p.data[j]
                        /\ \E slot \in 1..Len(p.data) :
                              /\ Near(slot, OnLine(p.segments[s], p.data[j]), p.segments[s].den, eps)
                              /\ j - slot \in (-p.changes[s])..p.changes[s]
                              /\ p.segments[s].anchor <= slot
                              /\ p.data[j] = p.segments[s].start_key => slot = p.segments[s].anchor
    BY DEF Drifted
  <2> QED
    BY <1>6, <1>11, <1>12, <2>1, <2>2
<1>14. a.segments # <<>> /\ a.trained \subseteq KeysIn(a) /\ StartsAscend(a.segments)
  BY <1>0, WholeIs DEF Takes, Whole, Sound
<1>15. p.data # <<>>
  <2>1. M # 0
    BY <1>0
  <2> QED
    BY <1>0, <1>6, <2>1
<1>16. /\ Len(p.vals) = Len(p.data) /\ Len(p.changes) = Len(p.segments)
       /\ \A i, j \in Occupied(p) : i < j => p.data[i] < p.data[j]
       /\ \A j \in Occupied(p) : p.vals[j] # NoVal
  BY <1>0, <1>2, <1>6, <1>8, <1>11 DEF Filled, N
<1>17. Sound(p)
  BY <1>2, <1>6, <1>11, <1>13, <1>14, <1>15, <1>16 DEF Sound, StartsAscend
<1> QED
  BY <1>2, <1>9, <1>10, <1>11, <1>17 DEF Whole, p, c, b

-----------------------------------------------------------------------------
(* The steps.                                                              *)

\* The rows an insert and a remove were asked for.
RowsExpected(x) == {<<k, x[k]>> : k \in {y \in Key : x[y] # NoVal}}

\* No segment of an array has changed too often.
NoneHigh(a) == \A s \in DOMAIN a.changes : ~ (a.changes[s] >= segment_threshold)

\* The array is whole while the invariant holds.
LEMMA ArrayIsWhole ==
    ASSUME GappedTypeOK, GappedInv
    PROVE  /\ Whole(Array) /\ Rows(Array) = RowsExpected(expected)
           /\ Array.data = data /\ Array.vals = vals /\ Array.segments = segments
           /\ Array.changes = segment_changes /\ Array.count = count /\ Array.trained = trained
           /\ Ready => NoneHigh(Array)
<1>1. /\ Array.data = data /\ Array.vals = vals /\ Array.segments = segments
      /\ Array.changes = segment_changes /\ Array.count = count /\ Array.trained = trained
  BY DEF Array
<1>2. count \in Nat
  BY GappedAssumption DEF GappedTypeOK
<1>3. Array \in ArrayType
  BY <1>2 DEF Array, ArrayType, GappedTypeOK
<1>4. Sound(Array) /\ Rows(Array) = RowsExpected(expected)
  BY DEF GappedInv, RowsExpected
<1>5. ASSUME Ready
      PROVE  NoneHigh(Array)
  <2>1. SUFFICES ASSUME NEW s \in DOMAIN segment_changes, segment_changes[s] >= segment_threshold
                 PROVE  FALSE
    BY <1>1 DEF NoneHigh
  <2>2. todo.first <= s /\ s <= todo.next
    BY <2>1 DEF GappedInv, Pending
  <2>3. s \in Int /\ todo.first \in Int /\ todo.next \in Int
    BY LenProperties DEF GappedTypeOK
  <2> QED
    BY <1>5, <2>2, <2>3 DEF Ready
<1> QED
  BY <1>1, <1>3, <1>4, <1>5 DEF Whole

\* What is true of the array next is true of the state.
LEMMA WholeIsKept ==
    ASSUME NEW b, Whole(b), b = Array', b.count <= MaxKeys,
           todo' \in [next : Nat, first : Nat], todo'.first >= 1,
           expected' \in [Key -> Val \cup {NoVal}], Rows(b) = RowsExpected(expected'),
           \A s \in DOMAIN b.changes :
              b.changes[s] >= segment_threshold => todo'.first <= s /\ s <= todo'.next
    PROVE  GappedTypeOK' /\ GappedInv'
<1>1. /\ b.data = data' /\ b.vals = vals' /\ b.segments = segments'
      /\ b.changes = segment_changes' /\ b.count = count' /\ b.trained = trained'
  BY DEF Array
<1>2. b \in ArrayType /\ Sound(b)
  BY DEF Whole
<1>3. b.count \in 0..MaxKeys
  BY <1>2, GappedAssumption DEF ArrayType
<1>4. GappedTypeOK'
  BY <1>1, <1>2, <1>3 DEF GappedTypeOK, ArrayType, Sound
<1>5. Pending'
  BY <1>1 DEF Pending, segment_threshold
<1>6. Sound(Array')
  BY <1>2
<1>7. Rows(Array') = {<<k, expected'[k]>> : k \in {x \in Key : expected'[x] # NoVal}}
  BY DEF RowsExpected
<1> QED
  BY <1>4, <1>5, <1>6, <1>7 DEF GappedInv

\* An array that becomes the state is the array of the next.
LEMMA BecomesArray ==
    ASSUME NEW b, b \in ArrayType, Becomes(b)
    PROVE  b = Array'
BY DEF Becomes, ArrayType, Array

\* Keys in order are the rows' keys.
LEMMA RowsAre ==
    ASSUME NEW a \in ArrayType, Filled(a), NEW x \in [Key -> Val \cup {NoVal}],
           Rows(a) = RowsExpected(x), NEW key \in Key
    PROVE  /\ key \in KeysIn(a) <=> x[key] # NoVal
           /\ \A j \in Occupied(a) : a.data[j] = key => a.vals[j] = x[key]
<1>1. ASSUME NEW j \in Occupied(a), a.data[j] = key
      PROVE  a.vals[j] = x[key] /\ x[key] # NoVal
  <2>1. <<a.data[j], a.vals[j]>> \in RowsExpected(x)
    BY DEF Rows
  <2>2. PICK k \in {y \in Key : x[y] # NoVal} : <<a.data[j], a.vals[j]>> = <<k, x[k]>>
    BY <2>1 DEF RowsExpected
  <2> QED
    BY <1>1, <2>2
<1>2. ASSUME x[key] # NoVal
      PROVE  key \in KeysIn(a)
  <2>1. <<key, x[key]>> \in Rows(a)
    BY <1>2 DEF RowsExpected
  <2>2. PICK j \in Occupied(a) : <<key, x[key]>> = <<a.data[j], a.vals[j]>>
    BY <2>1 DEF Rows
  <2> QED
    BY <2>2 DEF KeysIn
<1> QED
  BY <1>1, <1>2 DEF KeysIn

\* The rows y are the rows x but for one.
Gains(y, x, key, val) == y = [x EXCEPT ![key] = val]

\* A row put in.
LEMMA RowPutIn ==
    ASSUME NEW x \in [Key -> Val \cup {NoVal}], NEW key \in Key, NEW val \in Val, x[key] = NoVal,
           NEW y, Gains(y, x, key, val)
    PROVE  y \in [Key -> Val \cup {NoVal}] /\ RowsExpected(y) = RowsExpected(x) \cup {<<key, val>>}
<1>1. y \in [Key -> Val \cup {NoVal}] /\ y[key] = val /\ val # NoVal
      /\ \A k \in Key : k # key => y[k] = x[k]
  BY GappedAssumption DEF Gains
<1>2. RowsExpected(y) \subseteq RowsExpected(x) \cup {<<key, val>>}
  <2>1. SUFFICES ASSUME NEW k \in Key, y[k] # NoVal
                 PROVE  <<k, y[k]>> \in RowsExpected(x) \cup {<<key, val>>}
    BY DEF RowsExpected
  <2> QED
    BY <1>1, <2>1 DEF RowsExpected
<1>3. RowsExpected(x) \cup {<<key, val>>} \subseteq RowsExpected(y)
  <2>1. ASSUME NEW k \in Key, x[k] # NoVal
        PROVE  <<k, x[k]>> \in RowsExpected(y)
    BY <1>1, <2>1 DEF RowsExpected
  <2>2. <<key, val>> \in RowsExpected(y)
    BY <1>1 DEF RowsExpected
  <2> QED
    BY <2>1, <2>2 DEF RowsExpected
<1> QED
  BY <1>1, <1>2, <1>3

\* A whole array counts its rows.
LEMMA CountIs ==
    ASSUME NEW a, Whole(a)
    PROVE  /\ IsFiniteSet(Rows(a)) /\ a.count = Cardinality(Rows(a))
           /\ \A key, val : key \notin KeysIn(a) =>
                 Cardinality(Rows(a) \cup {<<key, val>>}) = a.count + 1
<1>1. IsFiniteSet(Rows(a)) /\ a.count = Cardinality(Rows(a))
  BY WholeIs, RowsAreCounted DEF Whole, Sound
<1>2. ASSUME NEW key, NEW val, key \notin KeysIn(a)
      PROVE  Cardinality(Rows(a) \cup {<<key, val>>}) = a.count + 1
  <2>1. <<key, val>> \notin Rows(a)
    BY <1>2 DEF Rows, KeysIn
  <2> QED
    BY <1>1, <2>1, FS_AddElement
<1> QED
  BY <1>1, <1>2

\* What a step makes of the array when it puts in a row.
LEMMA RowIsKept ==
    ASSUME GappedTypeOK, GappedInv, NEW key \in Key, NEW val \in Val, key \notin KeysIn(Array),
           count < MaxKeys, Gains(expected', expected, key, val),
           NEW b, Whole(b), Rows(b) = Rows(Array) \cup {<<key, val>>}, Becomes(b),
           todo' \in [next : Nat, first : Nat], todo'.first >= 1,
           \A s \in DOMAIN b.changes :
              b.changes[s] >= segment_threshold => todo'.first <= s /\ s <= todo'.next
    PROVE  GappedTypeOK' /\ GappedInv'
<1>1. /\ Whole(Array) /\ Rows(Array) = RowsExpected(expected) /\ Array.count = count
      /\ expected \in [Key -> Val \cup {NoVal}]
  BY ArrayIsWhole DEF GappedTypeOK
<1>2. expected[key] = NoVal
  BY <1>1, WholeIs, RowsAre
<1>3. RowsExpected(expected') = Rows(b) /\ expected' \in [Key -> Val \cup {NoVal}]
  BY <1>1, <1>2, RowPutIn
<1>4. b.count = count + 1
  BY <1>1, CountIs
<1>5. b.count <= MaxKeys
  BY <1>4, GappedAssumption DEF GappedTypeOK
<1>6. b = Array'
  BY BecomesArray DEF Whole
<1> QED
  BY <1>3, <1>5, <1>6, WholeIsKept

-----------------------------------------------------------------------------
(* A key taken out, or its value replaced.                                 *)

\* The lower bound of a key that is there is its slot.
LEMMA KeyIsFound ==
    ASSUME NEW a \in ArrayType, Filled(a), NEW key \in Key, key \in KeysIn(a)
    PROVE  /\ lower_bound_index(a, key) \in Occupied(a) /\ a.data[lower_bound_index(a, key)] = key
           /\ \A i \in Occupied(a) : a.data[i] = key => i = lower_bound_index(a, key)
<1> DEFINE j == lower_bound_index(a, key)
<1>0. key \in Int /\ Len(a.data) \in Nat
  BY GappedAssumption, OccupiedAre
<1>1. /\ j \in 1..(Len(a.data) + 1) /\ j \in Int
      /\ \A i \in Occupied(a) : i < j <=> a.data[i] < key
      /\ j # Len(a.data) + 1 => j \in Occupied(a)
  BY <1>0, LowerBound
<1> HIDE DEF j
<1>2. ASSUME NEW i \in Occupied(a), a.data[i] = key
      PROVE  i = j /\ j \in Occupied(a)
  <2>1. i \in 1..Len(a.data) /\ i \in Int
    BY OccupiedAre
  <2>2. ~ (i < j)
    BY <1>0, <1>1, <1>2
  <2>3. j \in Occupied(a)
    BY <1>0, <1>1, <2>1, <2>2
  <2>4. ~ (a.data[j] < key) /\ a.data[j] \in Int
    BY <1>1, <2>3, OccupiedAre
  <2>5. ~ (j < i)
    BY <1>2, <2>3, <2>4, SlotsAscend
  <2> QED
    BY <1>1, <2>1, <2>2, <2>3, <2>5
<1> QED
  BY <1>2 DEF KeysIn, j

\* The rows of other keys.
RowsBut(rows, key) == {r \in rows : r[1] # key}

\* The rows that are left when one is put in, replaced or taken out.
LEMMA RowReplaced ==
    ASSUME NEW x \in [Key -> Val \cup {NoVal}], NEW key \in Key, NEW val \in Val \cup {NoVal},
           NEW y, Gains(y, x, key, val)
    PROVE  /\ y \in [Key -> Val \cup {NoVal}]
           /\ RowsExpected(y) = RowsBut(RowsExpected(x), key)
                                \cup IF val = NoVal THEN {} ELSE {<<key, val>>}
<1> DEFINE rest == IF val = NoVal THEN {} ELSE {<<key, val>>}
<1>1. y \in [Key -> Val \cup {NoVal}] /\ y[key] = val /\ \A k \in Key : k # key => y[k] = x[k]
  BY DEF Gains
<1>2. ASSUME NEW k \in Key, y[k] # NoVal
      PROVE  <<k, y[k]>> \in RowsBut(RowsExpected(x), key) \cup rest
  <2>1. CASE k = key
    BY <1>1, <1>2, <2>1
  <2>2. CASE k # key
    BY <1>1, <1>2, <2>2 DEF RowsExpected, RowsBut
  <2> QED
    BY <2>1, <2>2
<1>3. ASSUME NEW k \in Key, x[k] # NoVal, k # key
      PROVE  <<k, x[k]>> \in RowsExpected(y)
  BY <1>1, <1>3 DEF RowsExpected
<1>4. ASSUME val # NoVal
      PROVE  <<key, val>> \in RowsExpected(y)
  BY <1>1, <1>4 DEF RowsExpected
<1>5. RowsExpected(y) \subseteq RowsBut(RowsExpected(x), key) \cup rest
  BY <1>2 DEF RowsExpected
<1>6. RowsBut(RowsExpected(x), key) \subseteq RowsExpected(y)
  BY <1>3 DEF RowsExpected, RowsBut
<1>7. rest \subseteq RowsExpected(y)
  BY <1>4
<1> QED
  BY <1>1, <1>5, <1>6, <1>7

\* The array a remove leaves.
TakenOut(a, key) ==
    LET j == lower_bound_index(a, key)
    IN  [a EXCEPT !.data = [@ EXCEPT ![j] = EMPTY_SLOT], !.vals = [@ EXCEPT ![j] = NoVal],
                  !.count = @ - 1, !.trained = @ \ {key}]

\* It is whole, and has all rows but the key's.
LEMMA TakenOutIsWhole ==
    ASSUME NEW a, Whole(a), NEW key \in Key, key \in KeysIn(a)
    PROVE  LET b == TakenOut(a, key)
           IN  /\ Whole(b) /\ Rows(b) = RowsBut(Rows(a), key)
               /\ b.changes = a.changes /\ b.count <= a.count
<1> DEFINE b == TakenOut(a, key)
           M == Len(a.data)
           j == lower_bound_index(a, key)
<1>0. /\ a \in ArrayType /\ Filled(a) /\ M \in Nat /\ Sound(a)
      /\ a.data \in Seq(Key \cup {EMPTY_SLOT}) /\ a.vals \in Seq(Val \cup {NoVal}) /\ Len(a.vals) = M
  BY WholeIs, OccupiedAre DEF Whole, ArrayType, Filled
<1>1. /\ j \in Occupied(a) /\ a.data[j] = key /\ \A i \in Occupied(a) : a.data[i] = key => i = j
  BY <1>0, KeyIsFound
<1>2. /\ Occupied(a) = {i \in 1..M : a.data[i] # EMPTY_SLOT}
      /\ IsFiniteSet(Occupied(a)) /\ Cardinality(Occupied(a)) \in Nat
  BY <1>0, OccupiedAre
<1>3. /\ b.data = [a.data EXCEPT ![j] = EMPTY_SLOT] /\ b.vals = [a.vals EXCEPT ![j] = NoVal]
      /\ b.segments = a.segments /\ b.changes = a.changes /\ b.count = a.count - 1
      /\ b.trained = a.trained \ {key}
      /\ b \in [data : {b.data}, vals : {b.vals}, segments : {a.segments},
                changes : {a.changes}, count : {a.count - 1}, trained : {b.trained}]
  BY <1>0 DEF TakenOut, ArrayType
<1> HIDE DEF b, j, M
<1>4. /\ b.data \in Seq(Key \cup {EMPTY_SLOT}) /\ Len(b.data) = M
      /\ b.data[j] = EMPTY_SLOT /\ \A i \in 1..M : i # j => b.data[i] = a.data[i]
  <2>1. Len(a.data) = M /\ j \in 1..M
    BY <1>1, <1>2 DEF M
  <2>2. EMPTY_SLOT \in Key \cup {EMPTY_SLOT}
    OBVIOUS
  <2>3. /\ b.data \in Seq(Key \cup {EMPTY_SLOT}) /\ Len(b.data) = Len(a.data)
    BY <1>0, <1>3, <2>1, <2>2, ExceptSeq
  <2> QED
    BY <1>0, <1>3, <2>1, <2>3, LenProperties
<1>5. /\ b.vals \in Seq(Val \cup {NoVal}) /\ Len(b.vals) = M
      /\ \A i \in 1..M : i # j => b.vals[i] = a.vals[i]
  <2>1. j \in 1..Len(a.vals)
    BY <1>0, <1>1, <1>2
  <2>2. NoVal \in Val \cup {NoVal}
    OBVIOUS
  <2>3. /\ b.vals \in Seq(Val \cup {NoVal}) /\ Len(b.vals) = Len(a.vals)
    BY <1>0, <1>3, <2>1, <2>2, ExceptSeq
  <2> QED
    BY <1>0, <1>3, <2>1, <2>3, LenProperties
<1>6. a.count = Cardinality(Occupied(a)) /\ Cardinality(Occupied(a) \ {j}) = a.count - 1 /\ a.count - 1 \in Nat
  <2>1. a.count = Cardinality(Occupied(a))
    BY <1>0 DEF Sound
  <2>2. IsFiniteSet(Occupied(a) \ {j}) /\ Cardinality(Occupied(a) \ {j}) = Cardinality(Occupied(a)) - 1
    BY <1>1, <1>2, FS_RemoveElement
  <2>3. Cardinality(Occupied(a) \ {j}) \in Nat
    BY <2>2, FS_CardinalityType
  <2> QED
    BY <2>1, <2>2, <2>3
<1>7. b \in ArrayType
  BY <1>0, <1>3, <1>4, <1>5, <1>6 DEF ArrayType
<1>8. Occupied(b) = Occupied(a) \ {j}
  <2>1. Occupied(b) = {i \in 1..M : b.data[i] # EMPTY_SLOT}
    BY <1>4, <1>7, OccupiedAre
  <2> QED
    BY <1>2, <1>4, <2>1
<1>9. \A i \in Occupied(b) : i \in Occupied(a) /\ i \in 1..M /\ b.data[i] = a.data[i] /\ b.vals[i] = a.vals[i]
                             /\ b.data[i] # key
  BY <1>1, <1>2, <1>4, <1>5, <1>8
<1>10. Rows(b) = RowsBut(Rows(a), key)
  <2>1. ASSUME NEW i \in Occupied(b)
        PROVE  <<b.data[i], b.vals[i]>> \in RowsBut(Rows(a), key)
    BY <1>9 DEF Rows, RowsBut
  <2>2. ASSUME NEW i \in Occupied(a), a.data[i] # key
        PROVE  <<a.data[i], a.vals[i]>> \in Rows(b)
    BY <1>1, <1>8, <1>9, <2>2 DEF Rows
  <2>3. Rows(b) \subseteq RowsBut(Rows(a), key)
    BY <2>1 DEF Rows
  <2>4. RowsBut(Rows(a), key) \subseteq Rows(b)
    BY <2>2 DEF Rows, RowsBut
  <2> QED
    BY <2>3, <2>4
<1>11. b.trained \subseteq KeysIn(b)
  <2>1. SUFFICES ASSUME NEW k \in a.trained, k # key
                 PROVE  k \in KeysIn(b)
    BY <1>3
  <2>2. PICK i \in Occupied(a) : k = a.data[i]
    BY <1>0 DEF Sound, KeysIn
  <2>3. i \in Occupied(b) /\ b.data[i] = k
    BY <1>1, <1>8, <1>9, <2>1, <2>2
  <2> QED
    BY <2>3 DEF KeysIn
<1>12. Drifted(b)
  <2>1. Drifted(a)
    BY <1>0 DEF Sound
  <2>2. SUFFICES ASSUME NEW i \in Occupied(b), NEW s \in DOMAIN b.segments,
                        b.data[i] \in b.trained, Owns(b.segments, s, b.data[i])
                 PROVE  /\ b.segments[s].start_key <= b.data[i]
                        /\ \E slot \in 1..Len(b.data) :
                              /\ Near(slot, OnLine(b.segments[s], b.data[i]), b.segments[s].den, eps)
                              /\ i - slot \in (-b.changes[s])..b.changes[s]
                              /\ b.segments[s].anchor <= slot
                              /\ b.data[i] = b.segments[s].start_key => slot = b.segments[s].anchor
    BY DEF Drifted
  <2>3. i \in Occupied(a) /\ s \in DOMAIN a.segments /\ a.data[i] \in a.trained /\ Owns(a.segments, s, a.data[i])
        /\ b.data[i] = a.data[i]
    BY <1>3, <1>9, <2>2
  <2> QED
    BY <1>3, <1>4, <2>1, <2>3 DEF Drifted, M
<1>13. b.segments # <<>> => b.data # <<>>
  <2>1. M # 0
    BY <1>0, <1>1, <1>2
  <2> QED
    BY <1>4, <2>1
<1>14. Sound(b)
  BY <1>0, <1>3, <1>4, <1>5, <1>6, <1>8, <1>9, <1>11, <1>12, <1>13 DEF Sound
<1>15. b.count <= a.count
  <2>1. a.count \in Int /\ b.count = a.count - 1
    BY <1>2, <1>3, <1>6
  <2> QED
    BY <2>1
<1> QED
  BY <1>3, <1>7, <1>10, <1>14, <1>15 DEF Whole, b

\* The array an insert of a key that is there leaves.
Replaced(a, key, val) ==
    [a EXCEPT !.vals = [@ EXCEPT ![lower_bound_index(a, key)] = val]]

\* It is whole, and has the new row instead of the old.
LEMMA ReplacedIsWhole ==
    ASSUME NEW a, Whole(a), NEW key \in Key, key \in KeysIn(a), NEW val \in Val
    PROVE  LET b == Replaced(a, key, val)
           IN  /\ Whole(b) /\ Rows(b) = RowsBut(Rows(a), key) \cup {<<key, val>>}
               /\ b.changes = a.changes /\ b.count <= a.count
<1> DEFINE b == Replaced(a, key, val)
           M == Len(a.data)
           j == lower_bound_index(a, key)
<1>0. /\ a \in ArrayType /\ Filled(a) /\ M \in Nat /\ Sound(a) /\ val # NoVal
      /\ a.vals \in Seq(Val \cup {NoVal}) /\ Len(a.vals) = M /\ a.count \in Nat
  BY WholeIs, OccupiedAre, GappedAssumption DEF Whole, ArrayType, Filled
<1>1. /\ j \in Occupied(a) /\ a.data[j] = key /\ \A i \in Occupied(a) : a.data[i] = key => i = j
  BY <1>0, KeyIsFound
<1>2. Occupied(a) \subseteq 1..M
  BY <1>0, OccupiedAre
<1>3. /\ b.data = a.data /\ b.vals = [a.vals EXCEPT ![j] = val]
      /\ b.segments = a.segments /\ b.changes = a.changes /\ b.count = a.count
      /\ b.trained = a.trained
      /\ b \in [data : {a.data}, vals : {b.vals}, segments : {a.segments},
                changes : {a.changes}, count : {a.count}, trained : {a.trained}]
  BY <1>0 DEF Replaced, ArrayType
<1> HIDE DEF b, j, M
<1>4. /\ b.vals \in Seq(Val \cup {NoVal}) /\ Len(b.vals) = M
      /\ b.vals[j] = val /\ \A i \in 1..M : i # j => b.vals[i] = a.vals[i]
  <2>1. j \in 1..Len(a.vals)
    BY <1>0, <1>1, <1>2
  <2>2. val \in Val \cup {NoVal}
    OBVIOUS
  <2>3. /\ b.vals \in Seq(Val \cup {NoVal}) /\ Len(b.vals) = Len(a.vals)
    BY <1>0, <1>3, <2>1, <2>2, ExceptSeq
  <2> QED
    BY <1>0, <1>3, <2>1, <2>3, LenProperties
<1>5. b \in ArrayType
  BY <1>0, <1>3, <1>4 DEF ArrayType
<1>6. Occupied(b) = Occupied(a) /\ KeysIn(b) = KeysIn(a)
  BY <1>3 DEF Occupied, KeysIn
<1>7. Rows(b) = RowsBut(Rows(a), key) \cup {<<key, val>>}
  <2>1. ASSUME NEW i \in Occupied(a)
        PROVE  <<a.data[i], b.vals[i]>> \in RowsBut(Rows(a), key) \cup {<<key, val>>}
    <3>1. CASE i = j
      BY <1>1, <1>4, <3>1
    <3>2. CASE i # j
      BY <1>1, <1>2, <1>4, <3>2 DEF Rows, RowsBut
    <3> QED
      BY <3>1, <3>2
  <2>2. ASSUME NEW i \in Occupied(a), a.data[i] # key
        PROVE  <<a.data[i], a.vals[i]>> \in Rows(b)
    BY <1>1, <1>2, <1>3, <1>4, <1>6, <2>2 DEF Rows
  <2>3. <<key, val>> \in Rows(b)
    BY <1>1, <1>3, <1>4, <1>6 DEF Rows
  <2>4. Rows(b) \subseteq RowsBut(Rows(a), key) \cup {<<key, val>>}
    BY <1>3, <1>6, <2>1 DEF Rows
  <2>5. RowsBut(Rows(a), key) \subseteq Rows(b)
    BY <2>2 DEF Rows, RowsBut
  <2> QED
    BY <2>3, <2>4, <2>5
<1>8. Drifted(b)
  <2>1. Drifted(a)
    BY <1>0 DEF Sound
  <2>2. SUFFICES ASSUME NEW i \in Occupied(b), NEW s \in DOMAIN b.segments,
                        b.data[i] \in b.trained, Owns(b.segments, s, b.data[i])
                 PROVE  /\ b.segments[s].start_key <= b.data[i]
                        /\ \E slot \in 1..Len(b.data) :
                              /\ Near(slot, OnLine(b.segments[s], b.data[i]), b.segments[s].den, eps)
                              /\ i - slot \in (-b.changes[s])..b.changes[s]
                              /\ b.segments[s].anchor <= slot
                              /\ b.data[i] = b.segments[s].start_key => slot = b.segments[s].anchor
    BY DEF Drifted
  <2> QED
    BY <1>3, <1>6, <2>1, <2>2 DEF Drifted
<1>9. \A i \in Occupied(b) : b.vals[i] # NoVal
  BY <1>0, <1>2, <1>4, <1>6 DEF Sound
<1>10. Sound(b)
  BY <1>0, <1>3, <1>4, <1>6, <1>8, <1>9 DEF Sound, M
<1> QED
  BY <1>0, <1>3, <1>5, <1>7, <1>10 DEF Whole, b

-----------------------------------------------------------------------------
(* The invariant is kept.                                                  *)

\* A fresh array is what the invariant asks for.
LEMMA InitHolds == GappedInit => GappedTypeOK /\ GappedInv
<1> SUFFICES ASSUME GappedInit
             PROVE  GappedTypeOK /\ GappedInv
  OBVIOUS
<1> DEFINE Listing(rows) == Ascending({k \in Key : rows[k] # NoVal})
           ValuesOf(rows) == [i \in DOMAIN Listing(rows) |-> rows[Listing(rows)[i]]]
<1>1. PICK rows \in [Key -> Val \cup {NoVal}] :
         LET a == layout(Listing(rows), ValuesOf(rows))
         IN  /\ Len(Listing(rows)) <= MaxKeys
             /\ data = a.data /\ vals = a.vals /\ count = a.count
             /\ segments = a.segments /\ segment_changes = a.changes
             /\ todo = NoTodo
             /\ expected = rows /\ trained = a.trained
  BY DEF GappedInit
<1> DEFINE S == {k \in Key : rows[k] # NoVal}
           keys == Listing(rows)
           values == ValuesOf(rows)
           a == layout(keys, values)
<1>2. S \in SUBSET Int /\ IsFiniteSet(S) /\ S \subseteq Key
  BY GappedAssumption, FS_Subset
<1>3. keys = Ascending(S)
  OBVIOUS
<1> HIDE DEF S, Listing
<1>4. /\ keys \in Seq(S) /\ Len(keys) = Cardinality(S) /\ Cardinality(S) \in Nat
      /\ IsAscending(keys) /\ \A x \in S : \E n \in 1..Cardinality(S) : keys[n] = x
  BY <1>2, <1>3, AscendingLists
<1> HIDE DEF keys
<1>5. keys \in Seq(Key)
  <2>1. \A i \in 1..Len(keys) : keys[i] \in Key
    BY <1>2, <1>4, ElementOfSeq
  <2> QED
    BY <1>4, <2>1, SeqDef
<1>6. DOMAIN keys = 1..Len(keys) /\ Len(keys) \in Nat /\ \A i \in 1..Len(keys) : keys[i] \in S
  BY <1>4, ElementOfSeq, LenProperties
<1>7. values = [i \in 1..Len(keys) |-> rows[keys[i]]]
  BY <1>6 DEF keys
<1> HIDE DEF values
<1>8. \A i \in 1..Len(keys) : values[i] = rows[keys[i]] /\ values[i] \in Val
  BY <1>1, <1>6, <1>7 DEF S
<1>9. values \in Seq(Val) /\ Len(values) = Len(keys)
  <2>1. values \in [1..Len(keys) -> Val]
    BY <1>7, <1>8
  <2> QED
    BY <1>6, <2>1, Listed
<1>10. Sorted(keys, values)
  BY <1>4, <1>5, <1>9 DEF Sorted
<1>11. /\ Whole(a) /\ Rows(a) = RowsOf(keys, values) /\ a.count = Len(keys)
       /\ \A s \in DOMAIN a.segments : a.changes[s] = 0
  BY <1>10, LayoutIsWhole
<1>12. /\ data = a.data /\ vals = a.vals /\ count = a.count /\ segments = a.segments
       /\ segment_changes = a.changes /\ todo = NoTodo /\ expected = rows
       /\ trained = a.trained /\ Len(keys) <= MaxKeys
  BY <1>1 DEF keys, values
<1> HIDE DEF a
<1>13. a \in ArrayType /\ Sound(a)
  BY <1>11 DEF Whole
<1>14. RowsOf(keys, values) = RowsExpected(rows)
  <2>1. ASSUME NEW i \in 1..Len(keys)
        PROVE  <<keys[i], values[i]>> \in RowsExpected(rows)
    BY <1>6, <1>8 DEF RowsExpected, S
  <2>2. ASSUME NEW k \in S
        PROVE  <<k, rows[k]>> \in RowsOf(keys, values)
    <3>1. PICK n \in 1..Len(keys) : keys[n] = k
      BY <1>4
    <3> QED
      BY <1>8, <3>1 DEF RowsOf
  <2>3. RowsOf(keys, values) \subseteq RowsExpected(rows)
    BY <2>1 DEF RowsOf
  <2>4. RowsExpected(rows) \subseteq RowsOf(keys, values)
    BY <2>2 DEF RowsExpected, S
  <2> QED
    BY <2>3, <2>4
<1>15. Array = a
  BY <1>12, <1>13 DEF Array, ArrayType
<1>16. GappedTypeOK
  <2>1. count \in 0..MaxKeys
    BY <1>6, <1>11, <1>12, GappedAssumption
  <2>2. todo \in [next : Nat, first : Nat]
    BY <1>12 DEF NoTodo
  <2>3. expected \in [Key -> Val \cup {NoVal}]
    BY <1>1, <1>12
  <2>4. /\ data \in Seq(Key \cup {EMPTY_SLOT}) /\ vals \in Seq(Val \cup {NoVal})
        /\ Len(vals) = Len(data) /\ segments \in Seq(Segment) /\ segment_changes \in Seq(Nat)
        /\ trained \subseteq Key
    BY <1>12, <1>13 DEF ArrayType, Sound
  <2> QED
    BY <2>1, <2>2, <2>3, <2>4 DEF GappedTypeOK
<1>17. Pending
  <2>1. DOMAIN segment_changes = DOMAIN a.segments
    BY <1>11, <1>12, WholeIs
  <2>2. segment_threshold \in Nat \ {0}
    BY Bounds
  <2> QED
    BY <1>11, <1>12, <2>1, <2>2 DEF Pending
<1> QED
  BY <1>11, <1>12, <1>13, <1>14, <1>15, <1>16, <1>17 DEF GappedInv, RowsExpected, NoTodo

\* What no segment's changes are below is enough for a step that leaves none to do.
LEMMA NoneIsHigh ==
    ASSUME NEW a, Whole(a), \A s \in DOMAIN a.segments : a.changes[s] = 0
    PROVE  NoneHigh(a)
<1>1. DOMAIN a.changes = DOMAIN a.segments
  BY WholeIs
<1>2. segment_threshold \in Nat \ {0}
  BY Bounds
<1> QED
  BY <1>1, <1>2 DEF NoneHigh

\* A rebuild with the key keeps the invariant.
LEMMA RebuiltHolds ==
    ASSUME GappedTypeOK, GappedInv, NEW key \in Key, NEW val \in Val, key \notin KeysIn(Array),
           count < MaxKeys, Gains(expected', expected, key, val),
           NEW a, Whole(a), Rows(a) = Rows(Array), Rebuilt(a, key, val)
    PROVE  GappedTypeOK' /\ GappedInv'
<1>1. key \notin KeysIn(a)
  BY KeysOfRows
<1> DEFINE b == rebalance_with(a, key, val)
<1>2. Whole(b) /\ Rows(b) = Rows(Array) \cup {<<key, val>>} /\ \A s \in DOMAIN b.segments : b.changes[s] = 0
  BY <1>1, RebalanceWithAddsRow DEF Rebuilds
<1>3. Becomes(b) /\ todo' = NoTodo
  BY DEF Rebuilt
<1> HIDE DEF b
<1>4. NoneHigh(b)
  BY <1>2, NoneIsHigh
<1>5. todo' \in [next : Nat, first : Nat] /\ todo'.first >= 1
  BY <1>3 DEF NoTodo
<1> QED
  BY <1>2, <1>3, <1>4, <1>5, RowIsKept DEF NoneHigh

\* So does putting it into a gap.
LEMMA PlacedHolds ==
    ASSUME GappedTypeOK, GappedInv, NEW key \in Key, NEW val \in Val, key \notin KeysIn(Array),
           count < MaxKeys, Gains(expected', expected, key, val),
           NEW a, Whole(a), Rows(a) = Rows(Array), NoneHigh(a), a.segments # <<>>,
           HasGap(a, key), Placed(a, key, val)
    PROVE  GappedTypeOK' /\ GappedInv'
<1>1. key \notin KeysIn(a)
  BY KeysOfRows
<1>2. Takes(a, key, val)
  BY <1>1 DEF Takes
<1> DEFINE b == PutIn(a, key, val)
           c == ChangedBy(a, key, val)
<1>3. Whole(b) /\ Rows(b) = Rows(Array) \cup {<<key, val>>} /\ CountsChanges(a, b, c)
  BY <1>2, PutInKeeps
<1>4. Becomes(b) /\ todo' = c
  BY PlacedIs
<1> HIDE DEF b, c
<1>5. /\ Len(a.segments) \in Nat /\ DOMAIN a.changes = 1..Len(a.segments)
      /\ \A s \in 1..Len(a.segments) : a.changes[s] \in Nat
  BY WholeIs
<1>6. /\ c \in [next : 1..Len(a.segments), first : 1..Len(a.segments)]
      /\ DOMAIN b.changes = 1..Len(a.segments)
      /\ \A s \in 1..Len(a.segments) : ~ (c.first <= s /\ s <= c.next) => b.changes[s] = a.changes[s]
  BY <1>3, <1>5 DEF CountsChanges
<1>7. todo' \in [next : Nat, first : Nat] /\ todo'.first >= 1
  BY <1>4, <1>5, <1>6
<1>8. \A s \in DOMAIN b.changes :
         b.changes[s] >= segment_threshold => todo'.first <= s /\ s <= todo'.next
  BY <1>4, <1>5, <1>6 DEF NoneHigh
<1> QED
  BY <1>3, <1>4, <1>7, <1>8, RowIsKept

\* A refresh leaves no segment changed too often when there was none.
LEMMA RefreshLeavesNone ==
    ASSUME NEW a, Whole(a), NEW si \in 1..Len(a.segments), NEW r, Refreshes(a, si, r), NoneHigh(a)
    PROVE  NoneHigh(r.array)
<1> DEFINE b == r.array
<1>0. /\ Whole(a) /\ Whole(b) /\ segment_threshold \in Nat \ {0} /\ r.rebuilt \in BOOLEAN
      /\ DOMAIN a.changes = 1..Len(a.segments) /\ Len(a.segments) \in Nat
      /\ DOMAIN b.changes = 1..Len(b.segments) /\ Len(b.segments) \in Nat
      /\ DOMAIN b.segments = 1..Len(b.segments)
  BY WholeIs, Bounds DEF Refreshes
<1>1. CASE r.rebuilt
  BY <1>0, <1>1, NoneIsHigh DEF Refreshes
<1>2. CASE ~ r.rebuilt
  <2>1. PICK lo \in 1..si, hi \in si..Len(a.segments), model \in Seq(Segment) :
           SegmentsReplaced(a, b, lo, hi, model)
    BY <1>2 DEF Refreshes
  <2> HIDE DEF b
  <2>2. SUFFICES ASSUME NEW s \in 1..Len(b.segments), b.changes[s] >= segment_threshold
                 PROVE  FALSE
    BY <1>0 DEF NoneHigh, b
  <2> DEFINE m == Len(model)
             gone == hi - lo + 1
             size == Len(a.segments) - gone + m
  <2>3. /\ m \in Nat /\ Len(b.segments) = size
        /\ s < lo => b.changes[s] = a.changes[s]
        /\ lo <= s /\ s < lo + m => b.changes[s] = 0
        /\ lo + m <= s => b.changes[s] = a.changes[s - m + gone]
    BY <2>1 DEF SegmentsReplaced
  <2> HIDE DEF m
  <2>4. /\ s < lo => s \in 1..Len(a.segments)
        /\ lo + m <= s => s - m + gone \in 1..Len(a.segments)
    <3> DEFINE all == Len(a.segments)
    <3>1. /\ all \in Nat /\ lo \in 1..all /\ hi \in lo..all /\ m \in Nat
          /\ s \in 1..(all - gone + m)
      BY <1>0, <2>3
    <3> HIDE DEF all
    <3>2. s < lo => s \in 1..all
      BY <3>1
    <3>3. lo + m <= s => s - m + gone \in 1..all
      BY <3>1
    <3> QED
      BY <3>2, <3>3 DEF all
  <2>5. ~ (lo <= s /\ s < lo + m)
    BY <1>0, <2>2, <2>3
  <2>6. ~ (s < lo)
    BY <1>0, <2>2, <2>3, <2>4 DEF NoneHigh
  <2>7. ~ (lo + m <= s)
    BY <1>0, <2>2, <2>3, <2>4 DEF NoneHigh
  <2> QED
    BY <1>0, <2>3, <2>5, <2>6, <2>7
<1> QED
  BY <1>0, <1>1, <1>2

\* When there is no gap within reach there is a key.
LEMMA NoGapNearKey ==
    ASSUME NEW a \in ArrayType, a.data # <<>>, NEW start \in 1..(Len(a.data) + 1),
           find_nearest_gap(a, start) = 0
    PROVE  Occupied(a) # {}
<1>0. Len(a.data) \in Nat /\ Len(a.data) # 0 /\ DOMAIN a.data = 1..Len(a.data) /\ max_gap_scan \in Nat
  BY OccupiedAre, Bounds, EmptySeq DEF ArrayType
<1>1. SUFFICES ASSUME Occupied(a) = {}
               PROVE  FALSE
  OBVIOUS
<1> DEFINE gaps == DOMAIN a.data \ Occupied(a)
           right == {d \in 0..max_gap_scan : start + d \in gaps}
           left == {d \in 0..max_gap_scan : start - 1 - d \in gaps}
           both == right \cup left
           d0 == Min(both)
<1>2. gaps = 1..Len(a.data) /\ 0 \in 0..max_gap_scan
  BY <1>0, <1>1
<1>3. start + 0 \in 1..Len(a.data) \/ start - 1 - 0 \in 1..Len(a.data)
  BY <1>0
<1>4. 0 \in both
  BY <1>2, <1>3
<1>5. find_nearest_gap(a, start) = IF d0 \in right THEN start + d0 ELSE start - 1 - d0
  BY <1>4 DEF find_nearest_gap
<1>6. d0 \in both
  <2>1. both \in SUBSET Int /\ both # {} /\ 0 \in Int /\ \A d \in both : 0 <= d
    BY <1>0, <1>4
  <2> HIDE DEF both
  <2> QED
    BY <2>1, MinOf
<1> HIDE DEF d0
<1>7. d0 \in right \/ d0 \in left
  BY <1>6
<1>8. d0 \in right => start + d0 \in 1..Len(a.data)
  BY <1>2
<1>9. d0 \in left => start - 1 - d0 \in 1..Len(a.data)
  BY <1>2
<1> HIDE DEF right, left
<1> QED
  BY <1>0, <1>5, <1>7, <1>8, <1>9

\* What an insert finds before it.
LEMMA InsertFinds ==
    ASSUME GappedTypeOK, GappedInv, NEW key \in Key, NEW val \in Val, insert(key, val)
    PROVE  /\ Whole(Array) /\ Rows(Array) = RowsExpected(expected)
           /\ expected \in [Key -> Val \cup {NoVal}]
           /\ NoneHigh(Array) /\ Gains(expected', expected, key, val)
           /\ key \notin KeysIn(Array) => count < MaxKeys
           /\ Array.segments = segments
  BY ArrayIsWhole DEF insert, Gains, GappedTypeOK

\* An insert keeps the invariant, whichever way it goes.
LEMMA InsertHolds ==
    ASSUME GappedTypeOK, GappedInv, NEW key \in Key, NEW val \in Val, insert(key, val)
    PROVE  GappedTypeOK' /\ GappedInv'
<1>0. /\ Whole(Array) /\ Rows(Array) = RowsExpected(expected) /\ NoneHigh(Array)
      /\ expected \in [Key -> Val \cup {NoVal}]
      /\ Gains(expected', expected, key, val) /\ Array.segments = segments
      /\ key \notin KeysIn(Array) => count < MaxKeys
  BY InsertFinds
<1>1. CASE InsertFirst(key, val)
  <2>1. segments = <<>> /\ Rebuilt(Array, key, val)
    BY <1>1 DEF InsertFirst
  <2>2. key \notin KeysIn(Array)
    BY <1>0, <2>1 DEF Whole, Sound, KeysIn
  <2> QED
    BY <1>0, <2>1, <2>2, RebuiltHolds
<1>2. CASE InsertAgain(key, val)
  <2>1. key \in KeysIn(Array)
    BY <1>2 DEF InsertAgain
  <2> DEFINE b == Replaced(Array, key, val)
  <2>2. /\ Whole(b) /\ Rows(b) = RowsBut(Rows(Array), key) \cup {<<key, val>>}
        /\ b.changes = Array.changes /\ b.count <= Array.count
    BY <1>0, <2>1, ReplacedIsWhole
  <2>3. b = Array'
    BY <1>2 DEF InsertAgain, Replaced, Array
  <2> HIDE DEF b
  <2>4. val # NoVal /\ val \in Val \cup {NoVal}
    BY GappedAssumption
  <2>5. expected' \in [Key -> Val \cup {NoVal}] /\ Rows(b) = RowsExpected(expected')
    BY <1>0, <2>2, <2>4, RowReplaced
  <2>6. todo' = todo
    BY <1>2 DEF InsertAgain
  <2>7. todo' \in [next : Nat, first : Nat] /\ todo'.first >= 1
    BY <2>6 DEF GappedTypeOK, GappedInv
  <2>8. b.count <= MaxKeys
    <3>1. Array.count = count /\ count \in 0..MaxKeys /\ b.count \in Nat /\ MaxKeys \in Nat
      BY <2>2, GappedAssumption DEF GappedTypeOK, Array, Whole, ArrayType
    <3> QED
      BY <2>2, <3>1
  <2>9. \A s \in DOMAIN b.changes :
           b.changes[s] >= segment_threshold => todo'.first <= s /\ s <= todo'.next
    BY <1>0, <2>2 DEF NoneHigh
  <2> QED
    BY <2>2, <2>3, <2>5, <2>7, <2>8, <2>9, WholeIsKept
<1>3. CASE InsertNearGap(key, val)
  <2>1. /\ segments # <<>> /\ key \notin KeysIn(Array)
        /\ HasGap(Array, key) /\ Placed(Array, key, val)
    BY <1>3 DEF InsertNearGap
  <2> QED
    BY <1>0, <2>1, PlacedHolds
<1>4. CASE InsertCrowded(key, val)
  <2> DEFINE si == find_segment_index(segments, key)
             r == local_rebalance(Array, si)
             a == r.array
  <2>1. /\ segments # <<>> /\ key \notin KeysIn(Array) /\ ~ HasGap(Array, key)
        /\ IF HasGap(a, key) THEN Placed(a, key, val) ELSE Rebuilt(a, key, val)
    BY <1>4 DEF InsertCrowded
  <2>2. si \in 1..Len(Array.segments) /\ key \in Int
    <3>1. /\ Array.segments \in Seq(Segment) /\ StartsAscend(Array.segments) /\ key \in Int
          /\ DOMAIN Array.segments = 1..Len(Array.segments)
      BY <1>0, WholeIs, GappedAssumption
    <3> QED
      BY <1>0, <2>1, <3>1, SearchFindsOwner
  <2> HIDE DEF si
  <2>3. Refreshes(Array, si, r)
    BY <1>0, <2>2, RefreshKeeps
  <2> HIDE DEF r
  <2>4. Whole(a) /\ Rows(a) = Rows(Array)
    BY <2>3 DEF Refreshes
  <2>5. NoneHigh(a)
    BY <1>0, <2>2, <2>3, RefreshLeavesNone
  <2>6. a.segments # <<>>
    <3>1. Array \in ArrayType /\ Filled(Array) /\ Array.data # <<>>
      BY <1>0, <2>1, WholeIs DEF Whole, Sound
    <3>2. lower_bound_index(Array, key) \in 1..(Len(Array.data) + 1)
      BY <2>2, <3>1, LowerBound
    <3>3. find_nearest_gap(Array, lower_bound_index(Array, key)) = 0
      BY <2>1 DEF HasGap
    <3>4. Occupied(Array) # {}
      BY <3>1, <3>2, <3>3, NoGapNearKey
    <3>5. Rows(a) # {}
      BY <2>4, <3>4 DEF Rows
    <3>6. Occupied(a) # {}
      BY <3>5 DEF Rows
    <3> QED
      BY <2>4, <3>6 DEF Whole, Sound
  <2> HIDE DEF a
  <2>7. CASE HasGap(a, key)
    BY <1>0, <2>1, <2>4, <2>5, <2>6, <2>7, PlacedHolds
  <2>8. CASE ~ HasGap(a, key)
    BY <1>0, <2>1, <2>4, <2>8, RebuiltHolds
  <2> QED
    BY <2>7, <2>8
<1> QED
  BY <1>1, <1>2, <1>3, <1>4 DEF insert

\* A remove keeps it.
LEMMA RemoveHolds ==
    ASSUME GappedTypeOK, GappedInv, NEW key \in Key, remove(key)
    PROVE  GappedTypeOK' /\ GappedInv'
<1>0. /\ Whole(Array) /\ Rows(Array) = RowsExpected(expected) /\ NoneHigh(Array)
      /\ expected \in [Key -> Val \cup {NoVal}]
      /\ Gains(expected', expected, key, NoVal) /\ key \in KeysIn(Array)
  BY ArrayIsWhole DEF remove, Gains, GappedTypeOK
<1> DEFINE b == TakenOut(Array, key)
<1>1. /\ Whole(b) /\ Rows(b) = RowsBut(Rows(Array), key)
      /\ b.changes = Array.changes /\ b.count <= Array.count
  BY <1>0, TakenOutIsWhole
<1>2. b = Array'
  <2> DEFINE j == lower_bound_index(Array, key)
  <2>1. /\ data' = [data EXCEPT ![j] = EMPTY_SLOT] /\ vals' = [vals EXCEPT ![j] = NoVal]
        /\ count' = count - 1 /\ trained' = trained \ {key}
        /\ segments' = segments /\ segment_changes' = segment_changes
    BY DEF remove
  <2> HIDE DEF j
  <2>2. /\ b.data = [Array.data EXCEPT ![j] = EMPTY_SLOT] /\ b.vals = [Array.vals EXCEPT ![j] = NoVal]
        /\ b.segments = Array.segments /\ b.changes = Array.changes
        /\ b.count = Array.count - 1 /\ b.trained = Array.trained \ {key}
    <3>1. Array \in ArrayType
      BY <1>0 DEF Whole
    <3> HIDE DEF j
    <3> QED
      BY <3>1 DEF TakenOut, ArrayType, j
  <2>3. Becomes(b)
    BY <2>1, <2>2 DEF Becomes, Array
  <2> QED
    BY <1>1, <2>3, BecomesArray DEF Whole
<1> HIDE DEF b
<1>3. expected' \in [Key -> Val \cup {NoVal}] /\ Rows(b) = RowsExpected(expected')
  <2>1. NoVal \in Val \cup {NoVal}
    OBVIOUS
  <2>2. /\ expected' \in [Key -> Val \cup {NoVal}]
        /\ RowsExpected(expected') = RowsBut(RowsExpected(expected), key)
                                     \cup IF NoVal = NoVal THEN {} ELSE {<<key, NoVal>>}
    BY <1>0, <2>1, RowReplaced
  <2> QED
    BY <1>0, <1>1, <2>2
<1>4. todo' = todo
  BY DEF remove
<1>5. todo' \in [next : Nat, first : Nat] /\ todo'.first >= 1
  BY <1>4 DEF GappedTypeOK, GappedInv
<1>6. b.count <= MaxKeys
  <2>1. Array.count = count /\ count \in 0..MaxKeys /\ b.count \in Nat /\ MaxKeys \in Nat
    BY <1>1, GappedAssumption DEF GappedTypeOK, Array, Whole, ArrayType
  <2> QED
    BY <1>1, <2>1
<1>7. \A s \in DOMAIN b.changes :
         b.changes[s] >= segment_threshold => todo'.first <= s /\ s <= todo'.next
  BY <1>0, <1>1 DEF NoneHigh
<1> QED
  BY <1>1, <1>2, <1>3, <1>5, <1>6, <1>7, WholeIsKept

\* A refresh of one segment leaves those that are still to come to in its past.
LEMMA RefreshLeaves ==
    ASSUME NEW a, Whole(a), NEW td \in [next : Nat, first : Nat], td.first >= 1, td.first <= td.next,
           td.next \in 1..Len(a.segments), NEW r, Refreshes(a, td.next, r), ~ r.rebuilt,
           \A s \in DOMAIN a.changes :
              a.changes[s] >= segment_threshold => td.first <= s /\ s <= td.next
    PROVE  \A s \in DOMAIN r.array.changes :
              r.array.changes[s] >= segment_threshold => td.first <= s /\ s <= td.next - 1
<1> DEFINE b == r.array
           si == td.next
           first == td.first
<1>0. /\ Whole(b) /\ segment_threshold \in Nat \ {0} /\ si \in Nat /\ first \in Nat
      /\ DOMAIN a.changes = 1..Len(a.segments) /\ Len(a.segments) \in Nat
      /\ DOMAIN b.changes = 1..Len(b.segments) /\ Len(b.segments) \in Nat
      /\ si \in 1..Len(a.segments)
  BY WholeIs, Bounds DEF Refreshes
<1>1. PICK lo \in 1..si, hi \in si..Len(a.segments), model \in Seq(Segment) :
         SegmentsReplaced(a, b, lo, hi, model)
  BY DEF Refreshes
<1> HIDE DEF b
<1>2. SUFFICES ASSUME NEW s \in 1..Len(b.segments), b.changes[s] >= segment_threshold
               PROVE  first <= s /\ s <= si - 1
  BY <1>0 DEF b
<1>3. \A x \in 1..Len(a.segments) : a.changes[x] >= segment_threshold => first <= x /\ x <= si
  BY <1>0
<1> HIDE DEF si, first
<1> DEFINE m == Len(model)
           gone == hi - lo + 1
           size == Len(a.segments) - gone + m
<1>4. /\ m \in Nat /\ Len(b.segments) = size
      /\ s < lo => b.changes[s] = a.changes[s]
      /\ lo <= s /\ s < lo + m => b.changes[s] = 0
      /\ lo + m <= s => b.changes[s] = a.changes[s - m + gone]
  BY <1>1 DEF SegmentsReplaced
<1> HIDE DEF m
<1>5. /\ s < lo => s \in 1..Len(a.segments)
      /\ lo + m <= s => s - m + gone \in 1..Len(a.segments) /\ si < s - m + gone
  BY <1>0, <1>4
<1>6. ~ (lo <= s /\ s < lo + m)
  BY <1>0, <1>2, <1>4
<1>7. ~ (lo + m <= s)
  <2>1. SUFFICES ASSUME lo + m <= s
                 PROVE  FALSE
    OBVIOUS
  <2>2. a.changes[s - m + gone] >= segment_threshold
    BY <1>2, <1>4, <2>1
  <2>3. s - m + gone <= si
    BY <1>3, <1>5, <2>1, <2>2
  <2> QED
    BY <1>0, <1>4, <1>5, <2>1, <2>3
<1>8. s < lo
  BY <1>0, <1>4, <1>6, <1>7
<1>9. first <= s
  BY <1>2, <1>3, <1>4, <1>5, <1>8
<1> QED
  BY <1>0, <1>8, <1>9

\* A step of refresh_segments() keeps the invariant.
LEMMA RefreshHolds ==
    ASSUME GappedTypeOK, GappedInv, Refresh
    PROVE  GappedTypeOK' /\ GappedInv'
<1>0. /\ Whole(Array) /\ Rows(Array) = RowsExpected(expected)
      /\ expected \in [Key -> Val \cup {NoVal}] /\ Array.count = count
      /\ Array.changes = segment_changes /\ Array.segments = segments
      /\ todo \in [next : Nat, first : Nat] /\ todo.first >= 1 /\ todo.first <= todo.next
      /\ expected' = expected /\ MaxKeys \in Nat /\ count \in 0..MaxKeys
  <2>1. /\ todo \in [next : Nat, first : Nat] /\ expected \in [Key -> Val \cup {NoVal}]
        /\ count \in 0..MaxKeys
    BY DEF GappedTypeOK
  <2>2. todo.first >= 1
    BY DEF GappedInv
  <2>3. todo.first <= todo.next /\ expected' = expected
    BY <2>1 DEF Refresh, Ready
  <2> QED
    BY <2>1, <2>2, <2>3, ArrayIsWhole, GappedAssumption
<1>1. \A s \in DOMAIN Array.changes :
         Array.changes[s] >= segment_threshold => todo.first <= s /\ s <= todo.next
  BY <1>0 DEF GappedInv, Pending
<1> DEFINE si == todo.next
           high == si <= Len(segment_changes) /\ segment_changes[si] >= segment_threshold
           r == local_rebalance(Array, si)
           b == r.array
<1>2. CASE high
  <2>1. Becomes(b) /\ todo' = IF r.rebuilt THEN NoTodo ELSE [todo EXCEPT !.next = @ - 1]
    BY <1>2 DEF Refresh
  <2>2. si \in 1..Len(Array.segments)
    BY <1>0, <1>2, WholeIs
  <2>3. Refreshes(Array, si, r)
    BY <1>0, <2>2, RefreshKeeps
  <2> HIDE DEF r
  <2>4. Whole(b) /\ Rows(b) = RowsExpected(expected') /\ r.rebuilt \in BOOLEAN
    BY <1>0, <2>3 DEF Refreshes
  <2>5. b.count <= MaxKeys
    <3>1. b.count = count
      BY <1>0, <2>4, CountIs
    <3> QED
      BY <1>0, <3>1
  <2>6. b = Array'
    BY <2>1, <2>4, BecomesArray DEF Whole
  <2>7. CASE r.rebuilt
    <3>1. NoneHigh(b)
      BY <2>3, <2>4, <2>7, NoneIsHigh DEF Refreshes
    <3>2. todo' \in [next : Nat, first : Nat] /\ todo'.first >= 1
      BY <2>1, <2>7 DEF NoTodo
    <3> HIDE DEF b
    <3> QED
      BY <1>0, <2>4, <2>5, <2>6, <3>1, <3>2, WholeIsKept DEF NoneHigh
  <2>8. CASE ~ r.rebuilt
    <3>1. todo' \in [next : Nat, first : Nat] /\ todo'.first = todo.first /\ todo'.next = todo.next - 1
      BY <1>0, <2>1, <2>8
    <3>2. \A s \in DOMAIN b.changes :
             b.changes[s] >= segment_threshold => todo.first <= s /\ s <= todo.next - 1
      BY <1>0, <1>1, <2>2, <2>3, <2>8, RefreshLeaves
    <3>3. \A s \in DOMAIN b.changes :
             b.changes[s] >= segment_threshold => todo'.first <= s /\ s <= todo'.next
      BY <3>1, <3>2
    <3>4. todo'.first >= 1
      BY <1>0, <3>1
    <3> HIDE DEF b
    <3> QED
      BY <1>0, <2>4, <2>5, <2>6, <3>1, <3>3, <3>4, WholeIsKept
  <2> QED
    BY <2>4, <2>7, <2>8
<1>3. CASE ~ high
  <2>1. /\ todo' = [todo EXCEPT !.next = @ - 1]
        /\ UNCHANGED <<data, vals, segments, segment_changes, count, trained>>
    BY <1>3 DEF Refresh
  <2>2. Array' = Array
    BY <2>1 DEF Array
  <2>3. todo' \in [next : Nat, first : Nat] /\ todo'.first = todo.first /\ todo'.next = todo.next - 1
    BY <1>0, <2>1
  <2>4. ASSUME NEW s \in DOMAIN Array.changes, Array.changes[s] >= segment_threshold
        PROVE  todo'.first <= s /\ s <= todo'.next
    <3>1. /\ s \in Int /\ s <= Len(segment_changes) /\ todo.first <= s /\ s <= todo.next
          /\ segment_changes[s] >= segment_threshold
      <4>1. DOMAIN Array.changes = 1..Len(segment_changes) /\ Len(segment_changes) \in Nat
        BY <1>0, WholeIs
      <4> QED
        BY <1>0, <1>1, <2>4, <4>1
    <3>2. s # todo.next
      BY <1>3, <3>1
    <3> QED
      BY <1>0, <2>3, <3>1, <3>2
  <2>5. Array.count <= MaxKeys /\ Rows(Array) = RowsExpected(expected') /\ todo'.first >= 1
    BY <1>0, <2>3
  <2>6. expected' \in [Key -> Val \cup {NoVal}]
    BY <1>0
  <2> DEFINE a == Array
  <2>7. Whole(a) /\ a = Array'
    BY <1>0, <2>2
  <2> QED
    BY <2>3, <2>4, <2>5, <2>6, <2>7, WholeIsKept
<1> HIDE DEF high
<1> QED
  BY <1>2, <1>3

\* The array is whole, and has the rows put in and not removed, always.
THEOREM ArrayHolds == GappedSpec => [](GappedTypeOK /\ GappedInv)
<1>1. GappedInit => GappedTypeOK /\ GappedInv
  BY InitHolds
<1>2. GappedTypeOK /\ GappedInv /\ [GappedNext]_vars => GappedTypeOK' /\ GappedInv'
  <2> SUFFICES ASSUME GappedTypeOK, GappedInv, [GappedNext]_vars
               PROVE  GappedTypeOK' /\ GappedInv'
    OBVIOUS
  <2>1. CASE \E k \in Key : remove(k) \/ \E v \in Val : insert(k, v)
    BY <2>1, RemoveHolds, InsertHolds
  <2>2. CASE Refresh
    BY <2>2, RefreshHolds
  <2>3. CASE UNCHANGED vars
    <3>1. UNCHANGED <<data, vals, segments, segment_changes, count, todo, expected, trained>>
      BY <2>3 DEF vars
    <3>2. Array' = Array
      BY <3>1 DEF Array
    <3> QED
      BY <3>1, <3>2 DEF GappedTypeOK, GappedInv, Pending
  <2> QED
    BY <2>1, <2>2, <2>3 DEF GappedNext
<1> QED
  BY <1>1, <1>2, PTL DEF GappedSpec

-----------------------------------------------------------------------------
(* What the invariant is for: lookups and scans.                           *)

\* A lookup finds the value of the key, or nothing.
LEMMA LookupFinds ==
    ASSUME NEW a \in ArrayType, Filled(a), NEW x \in [Key -> Val \cup {NoVal}],
           Rows(a) = RowsExpected(x), NEW key \in Key
    PROVE  Get(a, key) = x[key]
<1> DEFINE j == lower_bound_index(a, key)
<1>0. key \in Int /\ key # EMPTY_SLOT /\ Len(a.data) \in Nat
  BY GappedAssumption, OccupiedAre
<1>1. Get(a, key) = IF j <= Len(a.data) /\ a.data[j] = key THEN a.vals[j] ELSE NoVal
  BY DEF Get
<1>2. CASE key \in KeysIn(a)
  <2>1. j \in Occupied(a) /\ a.data[j] = key
    BY <1>2, KeyIsFound
  <2>2. j <= Len(a.data) /\ a.vals[j] = x[key]
    <3>1. a.vals[j] = x[key]
      BY <2>1, RowsAre
    <3>2. j \in 1..Len(a.data)
      BY <2>1, OccupiedAre
    <3> HIDE DEF j
    <3> QED
      BY <1>0, <3>1, <3>2
  <2> HIDE DEF j
  <2> QED
    BY <1>1, <2>1, <2>2
<1>3. CASE key \notin KeysIn(a)
  <2>1. x[key] = NoVal
    BY <1>3, RowsAre
  <2>2. j \in 1..(Len(a.data) + 1) /\ j \in Int /\ (j # Len(a.data) + 1 => j \in Occupied(a))
    BY <1>0, LowerBound
  <2> HIDE DEF j
  <2>3. ~ (j <= Len(a.data) /\ a.data[j] = key)
    BY <1>0, <1>3, <2>2 DEF KeysIn
  <2> QED
    BY <1>1, <2>1, <2>3
<1> QED
  BY <1>2, <1>3

\* The slots a scan visits are those of the keys in its range.
LEMMA ScanCovers ==
    ASSUME NEW a \in ArrayType, Filled(a), NEW lo \in Key, NEW hi \in Key
    PROVE  \E begin \in Nat \ {0}, end \in 1..(Len(a.data) + 1) :
              /\ scan(a, lo, hi) = SlotsIn(a, begin, end)
              /\ \A j \in Occupied(a) : j \in Within(a, begin, end) <=> lo <= a.data[j] /\ a.data[j] <= hi
<1> DEFINE M == Len(a.data)
           begin == lower_bound_index(a, lo)
           past == {j \in Occupied(a) : j >= begin /\ a.data[j] > hi}
           ends == past \cup {M + 1}
           end == Min(ends)
<1>0. /\ M \in Nat /\ lo \in Int /\ hi \in Int /\ Occupied(a) \subseteq 1..M
      /\ \A j \in Occupied(a) : j \in Int /\ a.data[j] \in Int
  BY GappedAssumption, OccupiedAre
<1>1. begin \in 1..(M + 1) /\ begin \in Int /\ \A j \in Occupied(a) : j < begin <=> a.data[j] < lo
  BY <1>0, LowerBound
<1>2. scan(a, lo, hi) = SlotsIn(a, begin, end)
  BY DEF scan
<1> HIDE DEF M, begin
<1>3. ends \in SUBSET (1..(M + 1)) /\ M + 1 \in ends
  BY <1>0
<1> HIDE DEF past
<1>4. end \in ends /\ end \in Int /\ \A j \in ends : end <= j
  <2>1. ends \in SUBSET Int /\ ends # {} /\ 1 \in Int /\ \A j \in ends : 1 <= j
    BY <1>0, <1>3
  <2> HIDE DEF ends
  <2> QED
    BY <2>1, MinOf
<1> HIDE DEF end
<1>5. end \in 1..(M + 1) /\ (end # M + 1 => end \in past) /\ \A j \in past : end <= j
  BY <1>3, <1>4
<1>6. ASSUME NEW j \in Occupied(a)
      PROVE  (begin <= j /\ j < end) <=> (lo <= a.data[j] /\ a.data[j] <= hi)
  <2>1. j \in Int /\ a.data[j] \in Int /\ j <= M
    BY <1>0
  <2>2. begin <= j <=> lo <= a.data[j]
    BY <1>0, <1>1, <2>1
  <2>3. ASSUME begin <= j, j < end
        PROVE  a.data[j] <= hi
    <3>1. j \notin past
      BY <1>4, <1>5, <2>1, <2>3
    <3> QED
      BY <1>0, <2>1, <2>3, <3>1 DEF past
  <2>4. ASSUME begin <= j, a.data[j] <= hi
        PROVE  j < end
    <3>1. SUFFICES ASSUME end <= j
                   PROVE  FALSE
      BY <1>4, <2>1
    <3>2. end \in Occupied(a) /\ a.data[end] > hi
      BY <1>0, <1>4, <1>5, <2>1, <3>1 DEF past
    <3>3. end = j \/ a.data[end] < a.data[j]
      BY <1>4, <2>1, <3>1, <3>2 DEF Filled
    <3> QED
      BY <1>0, <2>1, <2>4, <3>2, <3>3
  <2> QED
    BY <2>2, <2>3, <2>4
<1>7. \A j \in Occupied(a) : j \in Within(a, begin, end) <=> lo <= a.data[j] /\ a.data[j] <= hi
  BY <1>6 DEF Within
<1> QED
  BY <1>0, <1>1, <1>2, <1>5, <1>7 DEF M

\* A scan returns the rows of its range, in order.
LEMMA ScanFinds ==
    ASSUME NEW a \in ArrayType, Filled(a), NEW x \in [Key -> Val \cup {NoVal}],
           Rows(a) = RowsExpected(x), NEW lo \in Key, NEW hi \in Key,
           NEW keys, keys = Ascending({k \in Key : lo <= k /\ k <= hi /\ x[k] # NoVal})
    PROVE  range_scan(a, lo, hi) = [n \in DOMAIN keys |-> <<keys[n], x[keys[n]]>>]
<1> DEFINE S == {k \in Key : lo <= k /\ k <= hi /\ x[k] # NoVal}
           slots == scan(a, lo, hi)
           list == KeysAt(a, slots)
<1>1. PICK begin \in Nat \ {0}, end \in 1..(Len(a.data) + 1) :
         /\ slots = SlotsIn(a, begin, end)
         /\ \A j \in Occupied(a) : j \in Within(a, begin, end) <=> lo <= a.data[j] /\ a.data[j] <= hi
  BY ScanCovers
<1>2. range_scan(a, lo, hi) = [i \in DOMAIN slots |-> <<a.data[slots[i]], a.vals[slots[i]]>>]
  BY DEF range_scan
<1> HIDE DEF slots
<1>3. Lists(slots, a, begin, end)
  BY <1>1, SlotsAreListed
<1>4. /\ Sorted(list, ValsAt(a, slots)) /\ Len(list) = Len(slots) /\ Len(slots) \in Nat
      /\ \A i \in 1..Len(slots) : slots[i] \in Within(a, begin, end) /\ list[i] = a.data[slots[i]]
  BY <1>3, ListedSlots
<1>5. DOMAIN slots = 1..Len(slots)
  BY <1>3, LenProperties DEF Lists
<1> HIDE DEF list
<1>6. \A i \in 1..Len(slots) : slots[i] \in Occupied(a) /\ list[i] \in S
  <2>1. SUFFICES ASSUME NEW i \in 1..Len(slots)
                 PROVE  slots[i] \in Occupied(a) /\ list[i] \in S
    OBVIOUS
  <2>2. slots[i] \in Occupied(a)
    BY <1>4 DEF Within
  <2>3. lo <= list[i] /\ list[i] <= hi /\ list[i] \in Key /\ list[i] \in KeysIn(a)
    BY <1>1, <1>4, <2>2, OccupiedAre DEF KeysIn
  <2> QED
    BY <2>2, <2>3, RowsAre
<1>7. \A k \in S : \E n \in 1..Len(list) : list[n] = k
  <2>1. SUFFICES ASSUME NEW k \in S
                 PROVE  \E n \in 1..Len(list) : list[n] = k
    OBVIOUS
  <2>2. k \in KeysIn(a)
    BY RowsAre
  <2>3. PICK j \in Occupied(a) : a.data[j] = k
    BY <2>2 DEF KeysIn
  <2>4. j \in Within(a, begin, end)
    BY <1>1, <2>3
  <2>5. PICK i \in 1..Len(slots) : slots[i] = j
    BY <1>3, <2>4 DEF Lists
  <2> QED
    BY <1>4, <2>3, <2>5
<1>8. list = keys
  <2>1. list \in Seq(S) /\ IsAscending(list) /\ S \in SUBSET Int
    <3>1. list \in Seq(Key) /\ IsAscending(list)
      BY <1>4 DEF Sorted
    <3>2. \A i \in 1..Len(list) : list[i] \in S
      BY <1>4, <1>6
    <3>3. S \in SUBSET Int
      BY GappedAssumption
    <3> HIDE DEF S
    <3> QED
      BY <3>1, <3>2, <3>3, SeqDef
  <2>2. keys = Ascending(S)
    OBVIOUS
  <2> HIDE DEF S
  <2>3. list = Ascending(S)
    BY <1>7, <2>1, OneAscendingList
  <2> QED
    BY <2>2, <2>3
<1>9. DOMAIN keys = 1..Len(slots)
  BY <1>4, <1>8, LenProperties DEF Sorted
<1>10. \A i \in 1..Len(slots) : <<a.data[slots[i]], a.vals[slots[i]]>> = <<keys[i], x[keys[i]]>>
  <2>1. SUFFICES ASSUME NEW i \in 1..Len(slots)
                 PROVE  a.data[slots[i]] = keys[i] /\ a.vals[slots[i]] = x[keys[i]]
    OBVIOUS
  <2>2. slots[i] \in Occupied(a) /\ a.data[slots[i]] = keys[i] /\ keys[i] \in Key
    BY <1>4, <1>6, <1>8
  <2> QED
    BY <2>2, RowsAre
<1> HIDE DEF S
<1> QED
  BY <1>2, <1>5, <1>9, <1>10

\* Lookups and scans answer from the rows put in and not removed.
THEOREM ArrayHoldsExpected == GappedSpec => []HoldsExpected
<1>1. GappedTypeOK /\ GappedInv => HoldsExpected
  <2> SUFFICES ASSUME GappedTypeOK, GappedInv
               PROVE  HoldsExpected
    OBVIOUS
  <2>1. /\ Array \in ArrayType /\ Filled(Array) /\ Rows(Array) = RowsExpected(expected)
        /\ expected \in [Key -> Val \cup {NoVal}]
    BY ArrayIsWhole, WholeIs DEF GappedTypeOK
  <2>2. \A k \in Key : Get(Array, k) = expected[k]
    BY <2>1, LookupFinds
  <2>3. ASSUME NEW lo \in Key, NEW hi \in Key,
               NEW keys, keys = Ascending({k \in Key : lo <= k /\ k <= hi /\ expected[k] # NoVal})
        PROVE  range_scan(Array, lo, hi) = [n \in DOMAIN keys |-> <<keys[n], expected[keys[n]]>>]
    BY <2>1, <2>3, ScanFinds
  <2> QED
    BY <2>2, <2>3 DEF HoldsExpected
<1> QED
  BY <1>1, ArrayHolds, PTL

\* What consistent() asks for is so.
THEOREM ArrayConsistent == GappedSpec => []Consistent
<1>1. GappedTypeOK /\ GappedInv => Consistent
  <2> SUFFICES ASSUME GappedTypeOK, GappedInv
               PROVE  Consistent
    OBVIOUS
  <2>1. /\ Sound(Array) /\ Array.data = data /\ Array.segments = segments
        /\ Array.changes = segment_changes /\ Array.count = count
    BY ArrayIsWhole DEF Whole
  <2>2. DOMAIN segments = 1..Len(segments) /\ Len(segments) \in Nat
    BY LenProperties DEF GappedTypeOK
  <2>3. \A s \in 1..(Len(segments) - 1) : s \in DOMAIN segments /\ s + 1 \in DOMAIN segments /\ s < s + 1
    BY <2>2
  <2> QED
    BY <2>1, <2>3 DEF Sound, Consistent
<1> QED
  BY <1>1, ArrayHolds, PTL

\* The state is of its type always.
THEOREM ArrayTyped == GappedSpec => []GappedTypeOK
BY ArrayHolds, PTL

-----------------------------------------------------------------------------
(* What the invariant is for: how far off a prediction can be.             *)

\* A multiple of the greater number is the greater multiple.
LEMMA Multiples ==
    ASSUME NEW m \in Int, NEW n \in Int, m <= n, NEW d \in Nat
    PROVE  m * d <= n * d /\ m * d \in Int /\ n * d \in Int
<1>1. m * d \in Int /\ n * d \in Int /\ (n - m) * d = n * d - m * d
  OBVIOUS
<1>2. n - m \in Nat
  OBVIOUS
<1>3. (n - m) * d \in Nat
  <2> DEFINE x == n - m
  <2> HIDE DEF x
  <2>1. x * d \in Nat
    BY <1>2 DEF x
  <2> QED
    BY <2>1 DEF x
<1> QED
  BY <1>1, <1>3

\* A segment's line is over the integers.
LEMMA LineIsInt ==
    ASSUME NEW seg \in Segment, NEW key \in Int
    PROVE  OnLine(seg, key) \in Int
<1>1. seg.anchor \in Int /\ seg.den \in Int /\ seg.num \in Int
  BY DEF Segment
<1>2. seg.start_key \in Key
  BY DEF Segment
<1>3. seg.start_key \in Int
  BY <1>2, GappedAssumption
<1> DEFINE x == seg.anchor * seg.den
           y == seg.num * (key - seg.start_key)
<1>4. x \in Int /\ y \in Int
  BY <1>1, <1>3
<1>5. x + y \in Int
  BY <1>4
<1> QED
  BY <1>5 DEF OnLine

\* A fitted key's segment, and the slot it was fitted at.
LEMMA FittedSlot ==
    ASSUME NEW a, Whole(a), NEW j \in Occupied(a), a.data[j] \in a.trained
    PROVE  LET s == find_segment_index(a.segments, a.data[j])
           IN  /\ s \in 1..Len(a.segments) /\ Owns(a.segments, s, a.data[j])
               /\ a.segments[s] \in Segment /\ a.changes[s] \in Nat
               /\ OnLine(a.segments[s], a.data[j]) \in Int
               /\ a.segments[s].start_key <= a.data[j]
               /\ \E slot \in Int :
                     /\ Near(slot, OnLine(a.segments[s], a.data[j]), a.segments[s].den, eps)
                     /\ slot - a.changes[s] <= j /\ j <= slot + a.changes[s]
                     /\ a.segments[s].anchor <= slot
                     /\ a.data[j] = a.segments[s].start_key => slot = a.segments[s].anchor
<1> DEFINE s == find_segment_index(a.segments, a.data[j])
           key == a.data[j]
<1>0. /\ a \in ArrayType /\ a.segments \in Seq(Segment) /\ StartsAscend(a.segments)
      /\ DOMAIN a.segments = 1..Len(a.segments) /\ Len(a.segments) \in Nat /\ Len(a.data) \in Nat
      /\ \A t \in 1..Len(a.segments) : a.segments[t] \in Segment /\ a.changes[t] \in Nat
      /\ j \in Int /\ key \in Int /\ a.segments # <<>> /\ Drifted(a)
  BY WholeIs, OccupiedAre DEF Whole, Sound
<1>1. s \in DOMAIN a.segments /\ Owns(a.segments, s, key)
  <2> HIDE DEF key
  <2>1. find_segment_index(a.segments, key) \in DOMAIN a.segments
        /\ Owns(a.segments, find_segment_index(a.segments, key), key)
    BY <1>0, SearchFindsOwner
  <2> QED
    BY <2>1 DEF key
<1> HIDE DEF s
<1>2. a.segments[s] \in Segment /\ a.changes[s] \in Nat /\ s \in 1..Len(a.segments)
  BY <1>0, <1>1
<1>3. OnLine(a.segments[s], key) \in Int
  BY <1>0, <1>2, LineIsInt
<1>4. a.segments[s].start_key <= key
  BY <1>0, <1>1 DEF Drifted
<1>5. PICK slot \in 1..Len(a.data) :
         /\ Near(slot, OnLine(a.segments[s], key), a.segments[s].den, eps)
         /\ j - slot \in (-a.changes[s])..a.changes[s]
         /\ a.segments[s].anchor <= slot
         /\ key = a.segments[s].start_key => slot = a.segments[s].anchor
  BY <1>0, <1>1 DEF Drifted
<1>6. slot \in Int /\ slot - a.changes[s] <= j /\ j <= slot + a.changes[s]
  BY <1>0, <1>2, <1>5
<1> QED
  BY <1>1, <1>2, <1>3, <1>4, <1>5, <1>6 DEF s

\* The line of its segment is as near as the changes allow.
LEMMA LineIsNear ==
    ASSUME NEW a, Whole(a), NEW j \in Occupied(a), a.data[j] \in a.trained
    PROVE  LET s == find_segment_index(a.segments, a.data[j])
           IN  Near(j, OnLine(a.segments[s], a.data[j]), a.segments[s].den, eps + a.changes[s])
<1> DEFINE s == find_segment_index(a.segments, a.data[j])
           num == OnLine(a.segments[s], a.data[j])
           den == a.segments[s].den
           c == a.changes[s]
<1>1. /\ a.segments[s] \in Segment /\ c \in Nat /\ num \in Int
      /\ \E slot \in Int : /\ Near(slot, num, den, eps)
                           /\ slot - c <= j /\ j <= slot + c
  BY FittedSlot
<1>2. den \in Nat /\ j \in Int /\ eps \in Int
  BY <1>1, WholeIs, OccupiedAre, GappedAssumption DEF Segment
<1> HIDE DEF s, num, den, c
<1>3. PICK slot \in Int : Near(slot, num, den, eps) /\ slot - c <= j /\ j <= slot + c
  BY <1>1
<1>4. (slot - eps) * den <= num /\ num <= (slot + eps) * den
  BY <1>1, <1>2, <1>3, NearIs
<1>5. /\ j - (eps + c) \in Int /\ slot - eps \in Int /\ j - (eps + c) <= slot - eps
      /\ j + (eps + c) \in Int /\ slot + eps \in Int /\ slot + eps <= j + (eps + c)
      /\ eps + c \in Int
  BY <1>1, <1>2, <1>3
<1>6. /\ (j - (eps + c)) * den <= (slot - eps) * den
      /\ (j - (eps + c)) * den \in Int /\ (slot - eps) * den \in Int
  BY <1>2, <1>5, Multiples
<1>7. /\ (slot + eps) * den <= (j + (eps + c)) * den
      /\ (slot + eps) * den \in Int /\ (j + (eps + c)) * den \in Int
  BY <1>2, <1>5, Multiples
<1>8. (j - (eps + c)) * den <= num /\ num <= (j + (eps + c)) * den
  BY <1>1, <1>4, <1>6, <1>7
<1>9. Near(j, num, den, eps + c)
  BY <1>1, <1>2, <1>5, <1>8, NearIs
<1> QED
  BY <1>9 DEF s, num, den, c

\* Between two calls every fitted key is within eps and its segment's changes of its
\* segment's line, and the changes are fewer than the threshold.
THEOREM ArrayDriftBounded == GappedSpec => []LineDriftBounded
<1>1. GappedTypeOK /\ GappedInv => LineDriftBounded
  <2> SUFFICES ASSUME GappedTypeOK, GappedInv, Ready
               PROVE  /\ \A s \in DOMAIN segment_changes : segment_changes[s] < segment_threshold
                      /\ \A j \in Fitted :
                          LET s == find_segment_index(segments, data[j])
                          IN  Near(j, OnLine(segments[s], data[j]), segments[s].den,
                                   eps + segment_changes[s])
    BY DEF LineDriftBounded
  <2>1. /\ Whole(Array) /\ NoneHigh(Array) /\ Array.data = data /\ Array.segments = segments
        /\ Array.changes = segment_changes /\ Array.trained = trained
    BY ArrayIsWhole
  <2>2. \A s \in DOMAIN segment_changes : segment_changes[s] < segment_threshold
    <3>1. \A s \in DOMAIN segment_changes : segment_changes[s] \in Nat
      BY ElementOfSeq, LenProperties DEF GappedTypeOK
    <3> QED
      BY <2>1, <3>1, Bounds DEF NoneHigh
  <2>3. \A j \in Fitted : j \in Occupied(Array) /\ Array.data[j] \in Array.trained
    BY <2>1 DEF Fitted
  <2> QED
    BY <2>1, <2>2, <2>3, LineIsNear
<1> QED
  BY <1>1, ArrayHolds, PTL

\* The anchor of the next segment is not far in front of the slots behind it.
LEMMA NextAnchor ==
    ASSUME NEW a, Whole(a), NoneHigh(a), NEW j \in Occupied(a), NEW s \in 1..Len(a.segments),
           s < Len(a.segments), Owns(a.segments, s, a.data[j]),
           a.segments[s + 1].start_key \in a.trained
    PROVE  a.segments[s + 1].anchor \in Int /\ j - eps <= a.segments[s + 1].anchor
<1> DEFINE t == s + 1
           key == a.segments[t].start_key
<1>0. /\ a \in ArrayType /\ Filled(a) /\ a.segments \in Seq(Segment) /\ StartsAscend(a.segments)
      /\ DOMAIN a.segments = 1..Len(a.segments) /\ Len(a.segments) \in Nat
      /\ DOMAIN a.changes = 1..Len(a.segments)
      /\ \A x \in 1..Len(a.segments) : a.segments[x] \in Segment /\ a.changes[x] \in Nat
      /\ j \in Int /\ a.data[j] \in Int /\ Sound(a)
  BY WholeIs, OccupiedAre DEF Whole
<1>1. t \in 1..Len(a.segments) /\ s \in Int /\ t \in Int
  BY <1>0
<1>2. PICK i \in Occupied(a) : a.data[i] = key
  BY <1>0 DEF Sound, KeysIn
<1>3. key \in Int /\ a.data[j] < key
  <2>1. s # Len(a.segments)
    BY <1>0
  <2> QED
    BY <1>0, <1>1, <2>1 DEF Owns, StartsAscend
<1>4. i \in Int /\ j < i
  <2>1. a.data[j] < a.data[i]
    BY <1>2, <1>3
  <2> QED
    BY <1>0, <2>1, SlotsAscend, OccupiedAre
<1> HIDE DEF t
<1>5. Owns(a.segments, t, key)
  <2>1. t = Len(a.segments) \/ key < a.segments[t + 1].start_key
    <3>1. SUFFICES ASSUME t # Len(a.segments)
                   PROVE  key < a.segments[t + 1].start_key
      OBVIOUS
    <3>2. t + 1 \in 1..Len(a.segments) /\ t < t + 1
      BY <1>0, <1>1, <3>1
    <3> QED
      BY <1>0, <1>1, <3>2 DEF StartsAscend
  <2>2. a.segments[t].start_key <= key
    BY <1>3
  <2> QED
    BY <2>1, <2>2 DEF Owns
<1>6. find_segment_index(a.segments, a.data[i]) = t
  <2>1. t \in DOMAIN a.segments
    BY <1>0, <1>1
  <2> HIDE DEF key
  <2> QED
    BY <1>0, <1>2, <1>3, <1>5, <2>1, OwnerIsFound
<1>7. a.data[i] \in a.trained
  BY <1>2 DEF t
<1>8. PICK slot \in Int :
         /\ slot - a.changes[t] <= i /\ i <= slot + a.changes[t]
         /\ a.data[i] = a.segments[t].start_key => slot = a.segments[t].anchor
  BY <1>6, <1>7, FittedSlot
<1>9. slot = a.segments[t].anchor
  BY <1>2, <1>8
<1>10. a.changes[t] \in Nat /\ a.changes[t] <= eps /\ eps \in Nat
  <2>1. a.changes[t] \in Nat /\ eps \in Nat /\ segment_threshold \in Nat \ {0}
        /\ (segment_threshold = 1 \/ segment_threshold = eps)
    BY <1>0, <1>1, Bounds, GappedAssumption
  <2>2. ~ (a.changes[t] >= segment_threshold)
    BY <1>0, <1>1 DEF NoneHigh
  <2> QED
    BY <2>1, <2>2
<1>11. j - eps <= slot
  BY <1>0, <1>4, <1>8, <1>10
<1> QED
  BY <1>8, <1>9, <1>11 DEF t

\* Cutting a number that is between two bounds off at others keeps it between them,
\* when the cuts are on the right sides of them.
LEMMA CutOff ==
    ASSUME NEW num \in Int, NEW least \in Int, NEW most \in Int, NEW end \in Int, NEW unit \in Nat,
           NEW low \in Int, NEW high \in Int,
           low <= num, num <= high, least <= high, low <= most, low <= end, unit <= high
    PROVE  LET p1 == Max({num, least})
               p2 == Max({Min({p1, most, end}), unit})
           IN  p2 \in Nat /\ unit <= p2 /\ low <= p2 /\ p2 <= high
<1> DEFINE p1 == Max({num, least})
           m == Min({p1, most, end})
           p2 == Max({m, unit})
<1>1. p1 = IF num <= least THEN least ELSE num
  BY MinOfTwo
<1>2. p1 \in Int /\ low <= p1 /\ p1 <= high
  BY <1>1
<1> HIDE DEF p1
<1>3. m \in {p1, most, end} /\ m <= p1 /\ m \in Int
  <2> DEFINE all == {p1, most, end}
             bottom == IF p1 <= most THEN (IF p1 <= end THEN p1 ELSE end)
                       ELSE (IF most <= end THEN most ELSE end)
  <2>1. all \in SUBSET Int /\ all # {} /\ p1 \in all
    BY <1>2
  <2>2. bottom \in Int /\ \A x \in all : bottom <= x
    BY <1>2
  <2> HIDE DEF all, bottom
  <2>3. Min(all) \in all /\ Min(all) \in Int /\ \A x \in all : Min(all) <= x
    BY <2>1, <2>2, MinOf
  <2> QED
    BY <2>1, <2>3 DEF all
<1>4. low <= m /\ m <= high
  BY <1>2, <1>3
<1> HIDE DEF m
<1>5. p2 = IF m <= unit THEN unit ELSE m
  BY <1>3, MinOfTwo
<1>6. p2 \in Nat /\ unit <= p2 /\ low <= p2 /\ p2 <= high
  BY <1>3, <1>4, <1>5
<1> QED
  BY <1>6 DEF p1, m

\* A fitted key is as near to where the lookup starts as to its line, when the next
\* segment's first key is one its anchor was fitted on.
LEMMA PredictionIsNear ==
    ASSUME NEW a, Whole(a), NoneHigh(a), NEW j \in Occupied(a), a.data[j] \in a.trained,
           LET s == find_segment_index(a.segments, a.data[j])
           IN  s < Len(a.segments) => a.segments[s + 1].start_key \in a.trained
    PROVE  LET s == find_segment_index(a.segments, a.data[j])
           IN  Near(j, predict_from(a, s, a.data[j]), 1, eps + a.changes[s])
<1> DEFINE s == find_segment_index(a.segments, a.data[j])
           seg == a.segments[s]
           key == a.data[j]
           far == eps + a.changes[s]
           num == OnLine(seg, key)
           most == IF s < Len(a.segments) THEN a.segments[s + 1].anchor ELSE Len(a.data) + 1
<1>1. /\ s \in 1..Len(a.segments) /\ Owns(a.segments, s, key)
      /\ seg \in Segment /\ a.changes[s] \in Nat /\ num \in Int /\ seg.start_key <= key
      /\ \E slot \in Int : slot <= j + a.changes[s] /\ seg.anchor <= slot
  <2>1. /\ s \in 1..Len(a.segments) /\ Owns(a.segments, s, key)
        /\ seg \in Segment /\ a.changes[s] \in Nat /\ num \in Int /\ seg.start_key <= key
        /\ \E slot \in Int : slot - a.changes[s] <= j /\ seg.anchor <= slot
    BY FittedSlot
  <2> HIDE DEF s, seg, key, num
  <2> QED
    BY <2>1, OccupiedAre DEF Whole
<1>2. Near(j, num, seg.den, far)
  BY LineIsNear
<1>3. s < Len(a.segments) => a.segments[s + 1].start_key \in a.trained
  OBVIOUS
<1>4. predict_from(a, s, key) =
        Rounded(Max({Min({Max({num, (IF key >= seg.start_key THEN seg.anchor ELSE 1) * seg.den}),
                          most * seg.den, (Len(a.data) + 1) * seg.den}), seg.den}), seg.den)
  BY DEF predict_from
<1> HIDE DEF s, num, far
<1>5. /\ j \in Int /\ 1 <= j /\ j <= Len(a.data) /\ Len(a.data) \in Nat /\ key \in Int
      /\ eps \in Nat /\ Len(a.segments) \in Nat
  BY WholeIs, OccupiedAre, GappedAssumption
<1>6. seg.den \in Nat /\ seg.den # 0 /\ seg.anchor \in Nat /\ seg.start_key \in Int
  <2>1. seg.den \in Nat \ {0} /\ seg.anchor \in Nat
    BY <1>1 DEF Segment
  <2> QED
    BY <1>1, <2>1, WholeIs
<1>7. far \in Nat /\ a.changes[s] <= far
  <2>1. a.changes[s] \in Nat
    BY <1>1
  <2> QED
    BY <1>5, <2>1 DEF far
<1>8. most \in Int /\ j - far <= most
  <2>1. CASE s < Len(a.segments)
    <3>1. a.segments[s + 1].anchor \in Int /\ j - eps <= a.segments[s + 1].anchor
      BY <1>1, <1>3, <2>1, NextAnchor
    <3>2. most = a.segments[s + 1].anchor
      BY <2>1
    <3>3. eps <= far
      BY <1>1, <1>5 DEF far
    <3> HIDE DEF most
    <3> QED
      BY <1>5, <1>7, <3>1, <3>2, <3>3
  <2>2. CASE ~ s < Len(a.segments)
    BY <1>5, <1>7, <2>2
  <2> QED
    BY <2>1, <2>2
<1> HIDE DEF most, seg, key
<1> DEFINE den == seg.den
           low == (j - far) * den
           high == (j + far) * den
<1>9. low <= num /\ num <= high /\ low \in Int /\ high \in Int
  <2>1. low \in Int /\ high \in Int
    BY <1>5, <1>6, <1>7
  <2>2. j \in Int /\ num \in Int /\ den \in Nat /\ far \in Int
    BY <1>1, <1>5, <1>6, <1>7
  <2>3. Near(j, num, den, far)
    BY <1>2
  <2> HIDE DEF den
  <2>4. low <= num /\ num <= high
    BY <2>2, <2>3, NearIs
  <2> QED
    BY <2>1, <2>4
<1>10. seg.anchor * den \in Int /\ seg.anchor * den <= high
  <2>1. seg.anchor <= j + far /\ seg.anchor \in Int /\ j + far \in Int
    BY <1>1, <1>5, <1>6, <1>7
  <2> QED
    BY <1>6, <2>1, Multiples
<1>11. most * den \in Int /\ low <= most * den
  <2>1. j - far \in Int
    BY <1>5, <1>7
  <2> QED
    BY <1>6, <1>8, <2>1, Multiples
<1>12. (Len(a.data) + 1) * den \in Int /\ low <= (Len(a.data) + 1) * den
  <2>1. j - far \in Int /\ Len(a.data) + 1 \in Int /\ j - far <= Len(a.data) + 1
    BY <1>5, <1>7
  <2> QED
    BY <1>6, <2>1, Multiples
<1>13. den \in Nat /\ den <= high
  <2>1. 1 \in Int /\ j + far \in Int /\ 1 <= j + far
    BY <1>5, <1>7
  <2>2. 1 * den <= (j + far) * den
    BY <1>6, <2>1, Multiples
  <2>3. 1 * den = den
    BY <1>6
  <2> QED
    BY <1>6, <2>2, <2>3
<1> DEFINE least == seg.anchor * den
           at == most * den
           end == (Len(a.data) + 1) * den
           p2 == Max({Min({Max({num, least}), at, end}), den})
<1>14. predict_from(a, s, key) = Rounded(p2, den)
  <2>1. key >= seg.start_key
    BY <1>1, <1>5, <1>6
  <2> QED
    BY <1>4, <2>1
<1>15. p2 \in Nat /\ den <= p2 /\ low <= p2 /\ p2 <= high
  <2>1. /\ num \in Int /\ least \in Int /\ at \in Int /\ end \in Int /\ den \in Nat
        /\ low \in Int /\ high \in Int /\ low <= num /\ num <= high /\ least <= high
        /\ low <= at /\ low <= end /\ den <= high
    BY <1>1, <1>9, <1>10, <1>11, <1>12, <1>13
  <2> HIDE DEF least, at, end, den, low, high
  <2> QED
    BY <2>1, CutOff
<1>16. den \in Nat \ {0} /\ j - far \in Int /\ j + far \in Int
  BY <1>5, <1>6, <1>7
<1> HIDE DEF p2, den
<1>17. /\ Rounded(p2, den) \in Int /\ j - far <= Rounded(p2, den)
       /\ Rounded(p2, den) <= j + far
  <2>1. p2 \in Int /\ (j - far) * den <= p2 /\ p2 <= (j + far) * den
    BY <1>15
  <2> QED
    BY <1>16, <2>1, RoundedBetween
<1>18. Near(j, Rounded(p2, den), 1, far)
  <2>1. (j - far) * 1 <= Rounded(p2, den) /\ Rounded(p2, den) <= (j + far) * 1
    BY <1>16, <1>17
  <2>2. 1 \in Nat /\ far \in Int
    BY <1>7
  <2> QED
    BY <1>5, <1>17, <2>1, <2>2, NearIs
<1> QED
  BY <1>14, <1>18 DEF s, key, far

\* Between two calls a lookup of a fitted key starts within eps and its segment's
\* changes of its slot, cut off at the next segment's anchor or not.
THEOREM ArrayPredicts == GappedSpec => []PredictionBounded
<1>1. GappedTypeOK /\ GappedInv => PredictionBounded
  <2> SUFFICES ASSUME GappedTypeOK, GappedInv, Ready, NEW j \in Fitted,
                      LET s == find_segment_index(segments, data[j])
                      IN  s < Len(segments) => segments[s + 1].start_key \in trained
               PROVE  LET s == find_segment_index(segments, data[j])
                      IN  Near(j, predict_from(Array, s, data[j]), 1, eps + segment_changes[s])
    BY DEF PredictionBounded
  <2>1. /\ Whole(Array) /\ NoneHigh(Array) /\ Array.data = data /\ Array.segments = segments
        /\ Array.changes = segment_changes /\ Array.trained = trained
    BY ArrayIsWhole
  <2>2. j \in Occupied(Array) /\ Array.data[j] \in Array.trained
    BY <2>1 DEF Fitted
  <2> QED
    BY <2>1, <2>2, PredictionIsNear
<1> QED
  BY <1>1, ArrayHolds, PTL

=============================================================================
