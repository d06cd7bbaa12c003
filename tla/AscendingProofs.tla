-------------------------- MODULE AscendingProofs --------------------------
(***************************************************************************)
(* That a finite set can be listed in order, in one way only: for orders   *)
(* of every kind first, and then for sets of numbers; and that functions   *)
(* may be defined by recursion.  With these: that a sum does not depend on *)
(* the order of its terms, that the binary search of segments in order     *)
(* finds the one that predicts a key, and that the pinned fit of any list  *)
(* of points is within eps of them.                                        *)
(***************************************************************************)
EXTENDS Ascending, SegmentedModel, FiniteSetTheorems, FunctionTheorems, SequenceTheorems, TLAPS

-----------------------------------------------------------------------------
(* Places in a total order.                                                *)

\* R orders S strictly and totally.
Orders(S, R) ==
    /\ \A x \in S : <<x, x>> \notin R
    /\ \A x, y, z \in S : <<x, y>> \in R /\ <<y, z>> \in R => <<x, z>> \in R
    /\ \A x, y \in S : x = y \/ <<x, y>> \in R \/ <<y, x>> \in R

\* An element in front of another has fewer elements in front of it.
LEMMA PlacesAscend ==
    ASSUME NEW S, IsFiniteSet(S), NEW R, Orders(S, R), NEW x \in S, NEW y \in S, <<x, y>> \in R
    PROVE  Cardinality(InFront(S, R, x)) < Cardinality(InFront(S, R, y))
<1> DEFINE A == InFront(S, R, x)
           B == InFront(S, R, y)
<1>1. B \in SUBSET S /\ A \in SUBSET B
  BY DEF InFront, Orders
<1>2. x \in B /\ x \notin A
  BY DEF InFront, Orders
<1>3. IsFiniteSet(B) /\ Cardinality(B) \in Nat
  BY <1>1, FS_Subset, FS_CardinalityType
<1>4. IsFiniteSet(A) /\ Cardinality(A) <= Cardinality(B) /\ (Cardinality(B) = Cardinality(A) => B = A)
  BY <1>1, <1>3, FS_Subset
<1>5. Cardinality(A) \in Nat
  BY <1>4, FS_CardinalityType
<1> HIDE DEF A, B
<1>6. Cardinality(A) < Cardinality(B)
  BY <1>2, <1>3, <1>4, <1>5
<1> QED
  BY <1>6 DEF A, B

\* So no two elements have the same place.
LEMMA PlacesDiffer ==
    ASSUME NEW S, IsFiniteSet(S), NEW R, Orders(S, R), NEW x \in S, NEW y \in S,
           Cardinality(InFront(S, R, x)) = Cardinality(InFront(S, R, y))
    PROVE  x = y
<1>1. \A z \in S : Cardinality(InFront(S, R, z)) \in Nat
  <2> SUFFICES ASSUME NEW z \in S
               PROVE  Cardinality(InFront(S, R, z)) \in Nat
    OBVIOUS
  <2>1. InFront(S, R, z) \in SUBSET S
    BY DEF InFront
  <2> QED
    BY <2>1, FS_Subset, FS_CardinalityType
<1>2. ~ (<<x, y>> \in R) /\ ~ (<<y, x>> \in R)
  BY <1>1, PlacesAscend
<1> QED
  BY <1>2 DEF Orders

\* And every place is taken.
LEMMA PlacesTaken ==
    ASSUME NEW S, IsFiniteSet(S), NEW R, Orders(S, R), NEW n \in 1..Cardinality(S)
    PROVE  \E x \in S : Cardinality(InFront(S, R, x)) = n - 1
<1> DEFINE size  == Cardinality(S)
           place == [x \in S |-> Cardinality(InFront(S, R, x))]
<1>0. size \in Nat
  BY FS_CardinalityType
<1>1. ASSUME NEW x \in S
      PROVE  Cardinality(InFront(S, R, x)) \in 0..(size - 1)
  <2>1. InFront(S, R, x) \in SUBSET (S \ {x})
    BY DEF InFront, Orders
  <2>2. IsFiniteSet(S \ {x}) /\ Cardinality(S \ {x}) = size - 1
    BY FS_RemoveElement
  <2>3. IsFiniteSet(InFront(S, R, x)) /\ Cardinality(InFront(S, R, x)) <= size - 1
    BY <2>1, <2>2, FS_Subset
  <2> QED
    BY <1>0, <2>3, FS_CardinalityType
<1>2. place \in [S -> 0..(size - 1)]
  BY <1>1
<1>3. \A x, y \in S : place[x] = place[y] => x = y
  BY PlacesDiffer
<1>4. place \in Injection(S, 0..(size - 1))
  BY <1>2, <1>3, Fun_IsInj
<1>5. IsFiniteSet(0..(size - 1)) /\ Cardinality(0..(size - 1)) = size
  <2>1. 0 \in Int /\ size - 1 \in Int
    BY <1>0
  <2> QED
    BY <1>0, <2>1, FS_Interval
<1>6. place \in Surjection(S, 0..(size - 1))
  BY <1>4, <1>5, FS_Injection
<1>7. n - 1 \in 0..(size - 1)
  BY <1>0
<1> HIDE DEF place
<1>8. \A p \in 0..(size - 1) : \E x \in S : place[x] = p
  BY <1>6 DEF Surjection
<1>9. PICK x \in S : place[x] = n - 1
  BY <1>7, <1>8
<1>10. Cardinality(InFront(S, R, x)) = n - 1
  BY <1>9 DEF place
<1> QED
  BY <1>10

\* The list of a set has each of its elements once, and in the order asked for.
THEOREM InOrderLists ==
    ASSUME NEW S, IsFiniteSet(S), NEW R, Orders(S, R)
    PROVE  /\ InOrder(S, R) \in Seq(S) /\ Len(InOrder(S, R)) = Cardinality(S)
           /\ DOMAIN InOrder(S, R) = 1..Cardinality(S) /\ Cardinality(S) \in Nat
           /\ \A m, n \in 1..Cardinality(S) :
                 m < n => <<InOrder(S, R)[m], InOrder(S, R)[n]>> \in R
           /\ \A x \in S : \E n \in 1..Cardinality(S) : InOrder(S, R)[n] = x
           /\ \A n \in 1..Cardinality(S) :
                 Cardinality(InFront(S, R, InOrder(S, R)[n])) = n - 1
<1> DEFINE size == Cardinality(S)
           list == InOrder(S, R)
<1>0. size \in Nat
  BY FS_CardinalityType
<1>1. ASSUME NEW n \in 1..size
      PROVE  list[n] \in S /\ Cardinality(InFront(S, R, list[n])) = n - 1
  <2>1. \E x \in S : Cardinality(InFront(S, R, x)) = n - 1
    BY PlacesTaken
  <2>2. list[n] = CHOOSE x \in S : Cardinality(InFront(S, R, x)) = n - 1
    BY DEF InOrder
  <2> HIDE DEF list
  <2> QED
    BY <2>1, <2>2
<1>2. list \in Seq(S) /\ Len(list) = size /\ DOMAIN list = 1..size
  <2>1. list \in [1..size -> S]
    BY <1>1 DEF InOrder
  <2> HIDE DEF list
  <2>2. list \in Seq(S)
    BY <1>0, <2>1
  <2> QED
    BY <1>0, <2>1, <2>2
<1> HIDE DEF list, size
<1>3. ASSUME NEW m \in 1..size, NEW n \in 1..size, m < n
      PROVE  <<list[m], list[n]>> \in R
  <2>1. list[m] # list[n]
    BY <1>1, <1>3
  <2>2. ~ (<<list[n], list[m]>> \in R)
    <3>1. SUFFICES ASSUME <<list[n], list[m]>> \in R
                   PROVE  FALSE
      OBVIOUS
    <3>2. Cardinality(InFront(S, R, list[n])) < Cardinality(InFront(S, R, list[m]))
      BY <1>1, <3>1, PlacesAscend
    <3>3. n - 1 < m - 1
      BY <1>1, <3>2
    <3> QED
      BY <1>3, <3>3
  <2> QED
    BY <1>1, <2>1, <2>2 DEF Orders
<1>4. ASSUME NEW x \in S
      PROVE  \E n \in 1..size : list[n] = x
  <2> DEFINE n == Cardinality(InFront(S, R, x)) + 1
  <2>1. n \in 1..size
    <3>1. InFront(S, R, x) \in SUBSET (S \ {x})
      BY DEF InFront, Orders
    <3>2. IsFiniteSet(S \ {x}) /\ Cardinality(S \ {x}) = size - 1
      BY FS_RemoveElement DEF size
    <3>3. IsFiniteSet(InFront(S, R, x)) /\ Cardinality(InFront(S, R, x)) <= size - 1
      BY <3>1, <3>2, FS_Subset
    <3>4. Cardinality(InFront(S, R, x)) \in Nat
      BY <3>3, FS_CardinalityType
    <3> QED
      BY <1>0, <3>3, <3>4
  <2>2. Cardinality(InFront(S, R, list[n])) = n - 1 /\ list[n] \in S
    BY <1>1, <2>1
  <2>3. n - 1 = Cardinality(InFront(S, R, x))
    <3>1. InFront(S, R, x) \in SUBSET S
      BY DEF InFront
    <3>2. Cardinality(InFront(S, R, x)) \in Nat
      BY <3>1, FS_Subset, FS_CardinalityType
    <3> QED
      BY <3>2
  <2> HIDE DEF n
  <2>4. list[n] = x
    BY <2>2, <2>3, PlacesDiffer
  <2> QED
    BY <2>1, <2>4
<1> QED
  BY <1>0, <1>1, <1>2, <1>3, <1>4 DEF list, size

-----------------------------------------------------------------------------
(* Sets of numbers.                                                        *)

\* The numbers of a set are ordered by Less.
LEMMA LessOrders ==
    ASSUME NEW S \in SUBSET Int
    PROVE  Orders(S, Less(S)) /\ \A x, y \in S : <<x, y>> \in Less(S) <=> x < y
<1>1. \A x, y \in S : <<x, y>> \in Less(S) <=> x < y
  BY DEF Less
<1> QED
  BY <1>1 DEF Orders

\* The list of a set has each of its numbers once, the least first.
THEOREM AscendingLists ==
    ASSUME NEW S \in SUBSET Int, IsFiniteSet(S)
    PROVE  /\ Ascending(S) \in Seq(S) /\ Len(Ascending(S)) = Cardinality(S)
           /\ Cardinality(S) \in Nat
           /\ IsAscending(Ascending(S))
           /\ \A x \in S : \E n \in 1..Cardinality(S) : Ascending(S)[n] = x
<1> DEFINE list == InOrder(S, Less(S))
<1>1. Ascending(S) = list
  BY DEF Ascending
<1>2. /\ list \in Seq(S) /\ Len(list) = Cardinality(S)
      /\ DOMAIN list = 1..Cardinality(S) /\ Cardinality(S) \in Nat
      /\ \A m, n \in 1..Cardinality(S) : m < n => <<list[m], list[n]>> \in Less(S)
      /\ \A x \in S : \E n \in 1..Cardinality(S) : list[n] = x
  BY LessOrders, InOrderLists
<1> HIDE DEF list
<1>3. \A n \in 1..Cardinality(S) : list[n] \in S
  BY <1>2, ElementOfSeq
<1>4. \A m, n \in 1..Cardinality(S) : m < n => list[m] < list[n]
  BY <1>2, <1>3, LessOrders
<1>5. IsAscending(list)
  BY <1>2, <1>4 DEF IsAscending
<1> QED
  BY <1>1, <1>2, <1>5

\* There are n numbers from 1 to n.
LEMMA FirstNumbers ==
    ASSUME NEW n \in Nat
    PROVE  IsFiniteSet(1..n) /\ Cardinality(1..n) = n
<1>1. 1 \in Int /\ n \in Int /\ n - 1 + 1 = n /\ (1 > n => n = 0)
  OBVIOUS
<1>2. IsFiniteSet(1..n) /\ Cardinality(1..n) = IF 1 > n THEN 0 ELSE n - 1 + 1
  BY <1>1, FS_Interval
<1> QED
  BY <1>1, <1>2

\* A list in ascending order is that of the set of its numbers.
THEOREM OneAscendingList ==
    ASSUME NEW S \in SUBSET Int, NEW list \in Seq(S), IsAscending(list),
           \A x \in S : \E n \in 1..Len(list) : list[n] = x
    PROVE  list = Ascending(S) /\ IsFiniteSet(S) /\ Cardinality(S) = Len(list)
<1>0. Len(list) \in Nat /\ DOMAIN list = 1..Len(list) /\ list \in [1..Len(list) -> S]
  BY LenProperties
<1>1. \A m, n \in 1..Len(list) : m < n => list[m] < list[n]
  BY <1>0 DEF IsAscending
<1>2. ASSUME NEW m \in 1..Len(list), NEW n \in 1..Len(list), list[m] = list[n]
      PROVE  m = n
  <2>1. list[m] \in S /\ m \in Int /\ n \in Int
    BY <1>0
  <2>2. ~ (list[m] < list[m])
    <3>1. \A y \in S : y \in Int
      OBVIOUS
    <3>2. list[m] \in Int
      BY <2>1, <3>1
    <3>3. \A z \in Int : ~ (z < z)
      OBVIOUS
    <3> QED
      BY <3>2, <3>3
  <2>3. ~ (m < n) /\ ~ (n < m)
    BY <1>1, <1>2, <2>2
  <2> QED
    BY <2>1, <2>3
<1>3. list \in Bijection(1..Len(list), S)
  BY <1>0, <1>2, Fun_IsBij
<1>4. IsFiniteSet(1..Len(list)) /\ Cardinality(1..Len(list)) = Len(list)
  BY <1>0, FirstNumbers
<1>5. IsFiniteSet(S) /\ Cardinality(S) = Len(list)
  BY <1>3, <1>4, FS_Bijection DEF ExistsBijection
<1>6. ASSUME NEW n \in 1..Len(list)
      PROVE  Cardinality(InFront(S, Less(S), list[n])) = n - 1
  <2> DEFINE L == InFront(S, Less(S), list[n])
             front == [m \in 1..(n - 1) |-> list[m]]
  <2>1. \A m \in 1..(n - 1) : m \in 1..Len(list) /\ m < n
    BY <1>0
  <2>2. front \in [1..(n - 1) -> L]
    BY <1>0, <1>1, <2>1, LessOrders DEF InFront
  <2>3. \A a, b \in 1..(n - 1) : front[a] = front[b] => a = b
    BY <1>2, <2>1
  <2>4. \A x \in L : \E m \in 1..(n - 1) : front[m] = x
    <3> SUFFICES ASSUME NEW x \in L
                 PROVE  \E m \in 1..(n - 1) : front[m] = x
      OBVIOUS
    <3>1. PICK m \in 1..Len(list) : list[m] = x
      BY DEF InFront
    <3>2. list[m] < list[n] /\ list[m] \in Int /\ list[n] \in Int
      BY <1>0, <3>1, LessOrders DEF InFront
    <3>3. m < n
      BY <1>0, <1>1, <3>1, <3>2
    <3> QED
      BY <1>0, <3>1, <3>3
  <2> HIDE DEF front, L
  <2>5. front \in Bijection(1..(n - 1), L)
    BY <2>2, <2>3, <2>4, Fun_IsBij
  <2>6. IsFiniteSet(1..(n - 1)) /\ Cardinality(1..(n - 1)) = n - 1
    <3>1. n - 1 \in Nat
      BY <1>0
    <3> QED
      BY <3>1, FirstNumbers
  <2>7. Cardinality(L) = n - 1
    BY <2>5, <2>6, FS_Bijection DEF ExistsBijection
  <2> QED
    BY <2>7 DEF L
<1>7. ASSUME NEW n \in 1..Len(list)
      PROVE  Ascending(S)[n] = list[n]
  <2>1. /\ Ascending(S) \in Seq(S) /\ Len(Ascending(S)) = Len(list)
        /\ Cardinality(InFront(S, Less(S), Ascending(S)[n])) = n - 1
    BY <1>5, LessOrders, InOrderLists DEF Ascending
  <2>2. Ascending(S)[n] \in S /\ list[n] \in S
    BY <1>0, <2>1, ElementOfSeq
  <2>3. Cardinality(InFront(S, Less(S), Ascending(S)[n])) = Cardinality(InFront(S, Less(S), list[n]))
    BY <1>6, <2>1
  <2> QED
    BY <1>5, <2>2, <2>3, LessOrders, PlacesDiffer
<1>8. Ascending(S) \in Seq(S) /\ Len(Ascending(S)) = Len(list)
  BY <1>5, AscendingLists
<1> QED
  BY <1>5, <1>7, <1>8, SeqEqual

\* A set of natural numbers that is not empty has a least one: what every induction
\* over a log or a loop comes down to.
THEOREM LeastNumber ==
    ASSUME NEW T \in SUBSET Nat, T # {}
    PROVE  \E n \in T : \A m \in T : n <= m
<1>1. PICK x \in T : TRUE
  OBVIOUS
<1> DEFINE S == {y \in T : y <= x}
<1>2. S \in SUBSET (0..x) /\ S \in SUBSET Int /\ x \in S
  <2>1. \A y \in T : y \in Nat
    OBVIOUS
  <2>2. \A y \in S : y \in Nat /\ y <= x
    BY <2>1
  <2>3. \A y \in S : y \in 0..x /\ y \in Int
    BY <2>2
  <2>4. x \in S
    BY <2>1
  <2> HIDE DEF S
  <2> QED
    BY <2>3, <2>4
<1>3. IsFiniteSet(S)
  <2>1. IsFiniteSet(0..x)
    BY FS_Interval
  <2> QED
    BY <1>2, <2>1, FS_Subset
<1>4. Cardinality(S) \in Nat /\ Cardinality(S) # 0
  BY <1>2, <1>3, FS_CardinalityType, FS_EmptySet
<1>5. 1 \in 1..Cardinality(S)
  BY <1>4
<1>6. Ascending(S) \in Seq(S) /\ Len(Ascending(S)) = Cardinality(S)
      /\ IsAscending(Ascending(S))
      /\ \A z \in S : \E n \in 1..Cardinality(S) : Ascending(S)[n] = z
  BY <1>2, <1>3, AscendingLists
<1> DEFINE least == Ascending(S)[1]
<1>7. least \in S
  BY <1>5, <1>6, ElementOfSeq
<1>8. \A z \in S : least <= z
  <2> SUFFICES ASSUME NEW z \in S
               PROVE  least <= z
    OBVIOUS
  <2>1. PICK n \in 1..Cardinality(S) : Ascending(S)[n] = z
    BY <1>6
  <2>2. DOMAIN Ascending(S) = 1..Cardinality(S)
    BY <1>6
  <2>3. n = 1 \/ 1 < n
    BY <1>4
  <2>4. 1 < n => Ascending(S)[1] < Ascending(S)[n]
    BY <1>5, <1>6, <2>2 DEF IsAscending
  <2> HIDE DEF S
  <2>5. least \in Int /\ z \in Int
    BY <1>2, <1>7
  <2> QED
    BY <2>1, <2>3, <2>4, <2>5
<1>9. ASSUME NEW m \in T
      PROVE  least <= m
  <2>1. m \in Int /\ x \in Int /\ least \in Int /\ least <= x
    BY <1>2, <1>7
  <2>2. CASE m <= x
    BY <1>8, <2>2
  <2>3. CASE ~ (m <= x)
    BY <2>1, <2>3
  <2> QED
    BY <2>2, <2>3
<1> QED
  BY <1>7, <1>9

\* What holds of a number when it holds of all below it holds of every number.
LEMMA EveryNumber ==
    ASSUME NEW T, \A n \in Nat : (\A m \in Nat : m < n => m \in T) => n \in T
    PROVE  \A n \in Nat : n \in T
<1>1. SUFFICES ASSUME {n \in Nat : n \notin T} # {}
               PROVE  FALSE
  OBVIOUS
<1>2. PICK n \in {x \in Nat : x \notin T} : \A m \in {x \in Nat : x \notin T} : n <= m
  BY <1>1, LeastNumber
<1>3. n \in Nat /\ n \notin T
  BY <1>2
<1>4. \A m \in Nat : m < n => m \in T
  BY <1>2, <1>3
<1> QED
  BY <1>3, <1>4

-----------------------------------------------------------------------------
(* Recursive functions.                                                    *)

\* What step makes of an element and a function depends on the function's values
\* for the elements of lesser rank only.
LooksDown(D, S, rank, step) ==
    \A d \in D, f, g \in [D -> S] :
        (\A e \in D : rank[e] < rank[d] => f[e] = g[e]) => step[<<d, f>>] = step[<<d, g>>]

\* What it takes to define a function on D with values in S by recursion.
Recursion(D, S, rank, step) ==
    /\ S # {} /\ rank \in [D -> Nat] /\ step \in [D \X [D -> S] -> S]
    /\ LooksDown(D, S, rank, step)

\* f obeys step for the elements of rank less than n.
Obeys(f, n, D, rank, step) == \A d \in D : rank[d] < n => f[d] = step[<<d, f>>]

\* Two functions that obey step up to some rank are the same up to it.
LEMMA OneObeys ==
    ASSUME NEW D, NEW S, NEW rank, NEW step, Recursion(D, S, rank, step),
           NEW f \in [D -> S], NEW g \in [D -> S], NEW n \in Nat,
           Obeys(f, n, D, rank, step), Obeys(g, n, D, rank, step)
    PROVE  \A d \in D : rank[d] < n => f[d] = g[d]
<1>0. /\ S # {} /\ rank \in [D -> Nat] /\ step \in [D \X [D -> S] -> S]
      /\ LooksDown(D, S, rank, step)
  BY DEF Recursion
<1> DEFINE T == {m \in Nat : \A d \in D : rank[d] = m /\ m < n => f[d] = g[d]}
<1>1. ASSUME NEW m \in Nat, \A k \in Nat : k < m => k \in T
      PROVE  m \in T
  <2>1. SUFFICES ASSUME NEW d \in D, rank[d] = m, m < n
                 PROVE  f[d] = g[d]
    BY <1>1
  <2>2. ASSUME NEW e \in D, rank[e] < rank[d]
        PROVE  f[e] = g[e]
    <3>1. rank[e] \in T /\ rank[e] \in Nat /\ rank[e] < n
      BY <1>0, <1>1, <2>1, <2>2
    <3> QED
      BY <3>1
  <2>3. step[<<d, f>>] = step[<<d, g>>]
    BY <1>0, <2>2 DEF LooksDown
  <2>4. f[d] = step[<<d, f>>] /\ g[d] = step[<<d, g>>]
    BY <2>1 DEF Obeys
  <2> QED
    BY <2>3, <2>4
<1>2. \A m \in Nat : m \in T
  <2> HIDE DEF T
  <2> QED
    BY <1>1, EveryNumber
<1>3. SUFFICES ASSUME NEW d \in D, rank[d] < n
               PROVE  f[d] = g[d]
  OBVIOUS
<1>4. rank[d] \in T
  BY <1>0, <1>2
<1> QED
  BY <1>0, <1>3, <1>4

\* A function whose value for an element is made of its values for elements of
\* lesser rank exists.
LEMMA RecursionDefines ==
    ASSUME NEW D, NEW S, NEW rank, NEW step, Recursion(D, S, rank, step)
    PROVE  \E f \in [D -> S] : \A d \in D : f[d] = step[<<d, f>>]
<1>0. /\ S # {} /\ rank \in [D -> Nat] /\ step \in [D \X [D -> S] -> S]
      /\ LooksDown(D, S, rank, step)
  BY DEF Recursion
<1> DEFINE T == {n \in Nat : \E f \in [D -> S] : Obeys(f, n, D, rank, step)}
<1>1. ASSUME NEW n \in Nat, \A m \in Nat : m < n => m \in T
      PROVE  n \in T
  <2>1. CASE n = 0
    <3>1. PICK s \in S : TRUE
      BY <1>0
    <3>2. [d \in D |-> s] \in [D -> S]
      BY <3>1
    <3>3. Obeys([d \in D |-> s], 0, D, rank, step)
      <4>1. \A d \in D : ~ (rank[d] < 0)
        BY <1>0
      <4> QED
        BY <4>1 DEF Obeys
    <3> QED
      BY <2>1, <3>2, <3>3
  <2>2. CASE n # 0
    <3>1. n - 1 \in T
      BY <1>1, <2>2
    <3>2. PICK g \in [D -> S] : Obeys(g, n - 1, D, rank, step)
      BY <3>1
    <3> DEFINE f == [d \in D |-> step[<<d, g>>]]
    <3>3. f \in [D -> S]
      <4>1. ASSUME NEW d \in D
            PROVE  step[<<d, g>>] \in S
        <5>1. <<d, g>> \in D \X [D -> S]
          BY <3>2
        <5> QED
          BY <1>0, <5>1
      <4> QED
        BY <4>1
    <3>4. \A d \in D : rank[d] < n - 1 => f[d] = g[d]
      BY <3>2 DEF Obeys
    <3>5. ASSUME NEW d \in D, rank[d] < n
          PROVE  f[d] = step[<<d, f>>]
      <4>1. \A e \in D : rank[e] < rank[d] => f[e] = g[e]
        <5>1. ASSUME NEW e \in D, rank[e] < rank[d]
              PROVE  rank[e] < n - 1
          <6>1. rank[e] \in Nat /\ rank[d] \in Nat
            BY <1>0
          <6> QED
            BY <3>5, <5>1, <6>1
        <5> QED
          BY <3>4, <5>1
      <4> HIDE DEF f
      <4>2. step[<<d, f>>] = step[<<d, g>>]
        BY <1>0, <3>2, <3>3, <4>1 DEF LooksDown
      <4> QED
        BY <4>2 DEF f
    <3> HIDE DEF f
    <3>6. Obeys(f, n, D, rank, step)
      BY <3>5 DEF Obeys
    <3> QED
      BY <3>3, <3>6
  <2> QED
    BY <2>1, <2>2
<1>2. \A n \in Nat : n \in T
  <2> HIDE DEF T
  <2> QED
    BY <1>1, EveryNumber
<1> DEFINE G(n) == CHOOSE f \in [D -> S] : Obeys(f, n, D, rank, step)
<1>3. \A n \in Nat : G(n) \in [D -> S] /\ Obeys(G(n), n, D, rank, step)
  BY <1>2
<1> HIDE DEF G
<1> DEFINE F == [d \in D |-> G(rank[d] + 1)[d]]
<1>4. F \in [D -> S]
  <2>1. ASSUME NEW d \in D
        PROVE  G(rank[d] + 1)[d] \in S
    <3>1. rank[d] + 1 \in Nat
      BY <1>0
    <3>2. G(rank[d] + 1) \in [D -> S]
      BY <1>3, <3>1
    <3> QED
      BY <3>2
  <2> QED
    BY <2>1
<1>5. ASSUME NEW d \in D
      PROVE  F[d] = step[<<d, F>>]
  <2> DEFINE n == rank[d] + 1
  <2>1. n \in Nat /\ rank[d] \in Nat /\ rank[d] < n
    BY <1>0
  <2>2. G(n) \in [D -> S] /\ Obeys(G(n), n, D, rank, step)
    BY <1>3, <2>1
  <2>3. ASSUME NEW e \in D, rank[e] < rank[d]
        PROVE  F[e] = G(n)[e]
    <3> DEFINE m == rank[e] + 1
    <3>1. m \in Nat /\ rank[e] \in Nat /\ m <= n /\ rank[e] < m
      BY <1>0, <2>3
    <3>2. G(m) \in [D -> S] /\ Obeys(G(m), m, D, rank, step)
      BY <1>3, <3>1
    <3>3. Obeys(G(n), m, D, rank, step)
      <4>1. ASSUME NEW x \in D, rank[x] < m
            PROVE  rank[x] < n
        <5>1. rank[x] \in Nat
          BY <1>0
        <5> HIDE DEF m, n
        <5> QED
          BY <2>1, <3>1, <4>1, <5>1
      <4> HIDE DEF m, n
      <4> QED
        BY <2>2, <4>1 DEF Obeys
    <3>4. G(m)[e] = G(n)[e]
      <4> HIDE DEF m, n
      <4> QED
        BY <2>2, <3>1, <3>2, <3>3, OneObeys
    <3> QED
      BY <3>4
  <2> HIDE DEF F, n
  <2>4. step[<<d, F>>] = step[<<d, G(n)>>]
    BY <1>0, <1>4, <2>2, <2>3 DEF LooksDown
  <2>5. G(n)[d] = step[<<d, G(n)>>]
    BY <2>1, <2>2 DEF Obeys
  <2>6. F[d] = G(n)[d]
    BY DEF F, n
  <2> QED
    BY <2>4, <2>5, <2>6
<1> HIDE DEF F
<1> QED
  BY <1>4, <1>5

-----------------------------------------------------------------------------
(* Numbers.                                                                *)

\* A set of numbers that is not empty and bounded below has a least one.
LEMMA MinOf ==
    ASSUME NEW S \in SUBSET Int, S # {}, NEW low \in Int, \A x \in S : low <= x
    PROVE  Min(S) \in S /\ Min(S) \in Int /\ low <= Min(S) /\ \A x \in S : Min(S) <= x
<1> DEFINE T == {n \in Nat : n + low \in S}
<1>1. T # {}
  <2>1. PICK x \in S : TRUE
    OBVIOUS
  <2>2. x - low \in Nat /\ (x - low) + low = x
    BY <2>1
  <2> QED
    BY <2>1, <2>2
<1>2. PICK n \in T : \A m \in T : n <= m
  BY <1>1, LeastNumber
<1>3. n + low \in S /\ n \in Nat
  BY <1>2
<1>4. \A y \in S : n + low <= y
  <2>1. SUFFICES ASSUME NEW y \in S
                 PROVE  n + low <= y
    OBVIOUS
  <2>2. y - low \in Nat /\ (y - low) + low = y
    BY <2>1
  <2>3. n <= y - low
    BY <1>2, <2>1, <2>2
  <2> QED
    BY <1>3, <2>2, <2>3
<1>5. \E x \in S : \A y \in S : x <= y
  BY <1>3, <1>4
<1>6. Min(S) \in S /\ \A y \in S : Min(S) <= y
  BY <1>5 DEF Min
<1> QED
  BY <1>6

\* One that is bounded above has a greatest one.
LEMMA MaxOf ==
    ASSUME NEW S \in SUBSET Int, S # {}, NEW high \in Int, \A x \in S : x <= high
    PROVE  Max(S) \in S /\ Max(S) \in Int /\ Max(S) <= high /\ \A x \in S : x <= Max(S)
<1> DEFINE T == {n \in Nat : high - n \in S}
<1>1. T # {}
  <2>1. PICK x \in S : TRUE
    OBVIOUS
  <2>2. high - x \in Nat /\ high - (high - x) = x
    BY <2>1
  <2> QED
    BY <2>1, <2>2
<1>2. PICK n \in T : \A m \in T : n <= m
  BY <1>1, LeastNumber
<1>3. high - n \in S /\ n \in Nat
  BY <1>2
<1>4. \A y \in S : y <= high - n
  <2>1. SUFFICES ASSUME NEW y \in S
                 PROVE  y <= high - n
    OBVIOUS
  <2>2. high - y \in Nat /\ high - (high - y) = y
    BY <2>1
  <2>3. n <= high - y
    BY <1>2, <2>1, <2>2
  <2> QED
    BY <1>3, <2>2, <2>3
<1>5. \E x \in S : \A y \in S : x >= y
  BY <1>3, <1>4
<1>6. Max(S) \in S /\ \A y \in S : Max(S) >= y
  BY <1>5 DEF Max
<1> QED
  BY <1>6

\* The lesser and the greater of two numbers.
LEMMA MinOfTwo ==
    ASSUME NEW m \in Int, NEW n \in Int
    PROVE  /\ Min({m, n}) = IF m <= n THEN m ELSE n
           /\ Max({m, n}) = IF m <= n THEN n ELSE m
<1>1. {m, n} \in SUBSET Int /\ {m, n} # {}
  OBVIOUS
<1>2. (IF m <= n THEN m ELSE n) \in Int /\ \A x \in {m, n} : (IF m <= n THEN m ELSE n) <= x
  OBVIOUS
<1>3. (IF m <= n THEN n ELSE m) \in Int /\ \A x \in {m, n} : x <= (IF m <= n THEN n ELSE m)
  OBVIOUS
<1>4. Min({m, n}) \in {m, n} /\ \A x \in {m, n} : Min({m, n}) <= x
  BY <1>1, <1>2, MinOf
<1>5. Max({m, n}) \in {m, n} /\ \A x \in {m, n} : x <= Max({m, n})
  BY <1>1, <1>3, MaxOf
<1> QED
  BY <1>4, <1>5

\* The quotient of a division with remainder.
LEMMA Quotient ==
    ASSUME NEW m \in Int, NEW n \in Nat \ {0}
    PROVE  m \div n \in Int /\ (m \div n) * n <= m /\ m < (m \div n) * n + n
<1>1. m % n \in 0..(n - 1) /\ m \div n \in Int
  OBVIOUS
<1>2. m = (m \div n) * n + (m % n)
  OBVIOUS
<1> QED
  BY <1>1, <1>2

\* It is between the numbers whose multiples the divided number is between.
LEMMA QuotientBetween ==
    ASSUME NEW m \in Int, NEW n \in Nat \ {0}, NEW q \in Int
    PROVE  /\ q * n <= m => q <= m \div n
           /\ m < q * n => m \div n < q
<1> DEFINE d == m \div n
<1>1. d \in Int /\ d * n <= m /\ m < d * n + n
  BY Quotient
<1> HIDE DEF d
<1>2. ASSUME NEW x \in Int, NEW y \in Int, x < y
      PROVE  x * n + n <= y * n
  <2>1. x + 1 <= y
    BY <1>2
  <2>2. (x + 1) * n <= y * n
    BY <2>1
  <2> QED
    BY <2>2
<1>3. q * n <= m => q <= d
  BY <1>1, <1>2
<1>4. m < q * n => d < q
  <2>1. SUFFICES ASSUME m < q * n, ~ (d < q)
                 PROVE  FALSE
    BY <1>1
  <2>2. q = d \/ q < d
    BY <1>1, <2>1
  <2>3. q * n <= d * n
    BY <1>1, <1>2, <2>2
  <2> QED
    BY <1>1, <2>1, <2>3
<1> QED
  BY <1>3, <1>4 DEF d

\* A quotient with halves rounded up is between the numbers whose multiples the
\* divided number is between.
LEMMA HalvesUpBetween ==
    ASSUME NEW num \in Int, NEW d \in Nat \ {0}, NEW low \in Int, NEW high \in Int,
           low * d <= num, num <= high * d
    PROVE  /\ (2 * num + d) \div (2 * d) \in Int
           /\ low <= (2 * num + d) \div (2 * d) /\ (2 * num + d) \div (2 * d) <= high
<1> DEFINE m == 2 * num + d
           n == 2 * d
<1>1. m \in Int /\ n \in Nat \ {0}
  OBVIOUS
<1>2. /\ low * d \in Int /\ low * n = 2 * (low * d)
      /\ high * d \in Int /\ (high + 1) * n = 2 * (high * d) + n
  OBVIOUS
<1>3. low * n <= m /\ m < (high + 1) * n
  <2> DEFINE p == low * d
             q == high * d
  <2>1. p \in Int /\ q \in Int /\ p <= num /\ num <= q
    BY <1>2
  <2> HIDE DEF p, q
  <2>2. 2 * p <= 2 * num + d /\ 2 * num + d < 2 * q + 2 * d
    BY <2>1
  <2> QED
    BY <1>2, <2>2 DEF p, q
<1> HIDE DEF m, n
<1>4. m \div n \in Int
  BY <1>1, Quotient
<1>5. low <= m \div n
  BY <1>1, <1>3, QuotientBetween
<1>6. high + 1 \in Int
  OBVIOUS
<1>7. m \div n < high + 1
  BY <1>1, <1>3, <1>6, QuotientBetween
<1> QED
  BY <1>1, <1>4, <1>5, <1>7

\* Rounding to the nearest number keeps what is between two numbers between them.
LEMMA RoundedBetween ==
    ASSUME NEW num \in Int, NEW d \in Nat \ {0}, NEW low \in Int, NEW high \in Int,
           low * d <= num, num <= high * d
    PROVE  Rounded(num, d) \in Int /\ low <= Rounded(num, d) /\ Rounded(num, d) <= high
<1>1. CASE num >= 0
  <2>1. Rounded(num, d) = (2 * num + d) \div (2 * d)
    BY <1>1 DEF Rounded
  <2> QED
    BY <2>1, HalvesUpBetween
<1>2. CASE ~ (num >= 0)
  <2> DEFINE up == (2 * (-num) + d) \div (2 * d)
  <2>1. Rounded(num, d) = -((d - 2 * num) \div (2 * d)) /\ d - 2 * num = 2 * (-num) + d
    BY <1>2 DEF Rounded
  <2>2. /\ -num \in Int /\ -high \in Int /\ -low \in Int
        /\ (-high) * d <= -num /\ -num <= (-low) * d
    OBVIOUS
  <2>3. up \in Int /\ -high <= up /\ up <= -low
    BY <2>2, HalvesUpBetween
  <2> HIDE DEF up
  <2>4. Rounded(num, d) = -up
    BY <2>1 DEF up
  <2> QED
    BY <2>3, <2>4
<1> QED
  BY <1>1, <1>2

\* So what is rounded is a number.
LEMMA RoundedIsInt ==
    ASSUME NEW num \in Int, NEW d \in Nat \ {0}
    PROVE  Rounded(num, d) \in Int
<1> DEFINE far == IF num >= 0 THEN num ELSE -num
<1>1. far \in Nat /\ num <= far /\ -far <= num
  OBVIOUS
<1> HIDE DEF far
<1>2. far <= far * d
  <2>1. far * 1 <= far * d
    BY <1>1
  <2> QED
    BY <1>1, <2>1
<1>3. -far \in Int /\ (-far) * d = -(far * d) /\ far * d \in Int
  BY <1>1
<1> DEFINE low == -far
<1>4. low \in Int /\ far \in Int /\ low * d <= num /\ num <= far * d
  BY <1>1, <1>2, <1>3
<1> HIDE DEF low
<1> QED
  BY <1>4, RoundedBetween

\* The greater of two numbers is rounded to no lesser one.
LEMMA RoundedGrows ==
    ASSUME NEW a \in Int, NEW b \in Int, a <= b, NEW d \in Nat \ {0}
    PROVE  Rounded(a, d) <= Rounded(b, d)
<1>0. 2 * d \in Nat \ {0}
  OBVIOUS
<1>1. \A x, y \in Int : x <= y => x \div (2 * d) <= y \div (2 * d)
  <2>1. SUFFICES ASSUME NEW x \in Int, NEW y \in Int, x <= y
                 PROVE  x \div (2 * d) <= y \div (2 * d)
    OBVIOUS
  <2> DEFINE w == 2 * d
             q == x \div w
  <2> HIDE DEF w
  <2>2. w \in Nat \ {0}
    BY <1>0 DEF w
  <2>3. q \in Int /\ q * w <= x
    BY <2>1, <2>2, Quotient
  <2> HIDE DEF q
  <2>4. q * w <= y
    <3>1. q * w \in Int
      BY <2>2, <2>3
    <3> QED
      BY <2>1, <2>3, <3>1
  <2>5. q <= y \div w
    BY <2>1, <2>2, <2>3, <2>4, QuotientBetween
  <2> QED
    BY <2>5 DEF q, w
<1>2. \A x \in Int : x \div (2 * d) \in Int
  BY <1>0, Quotient
<1>3. 0 \div (2 * d) = 0
  BY <1>0
<1> DEFINE up(x)   == (2 * x + d) \div (2 * d)
           down(x) == (d - 2 * x) \div (2 * d)
<1>4. \A x \in Int : up(x) \in Int /\ down(x) \in Int
  BY <1>2
<1>5. up(a) <= up(b) /\ down(b) <= down(a)
  BY <1>1
<1>6. a < 0 => 0 <= down(a)
  <2>1. a < 0 => 0 <= d - 2 * a
    OBVIOUS
  <2>2. d - 2 * a \in Int /\ 0 \in Int
    OBVIOUS
  <2> QED
    BY <1>1, <1>3, <2>1, <2>2
<1>7. 0 <= b => 0 <= up(b)
  <2>1. 0 <= b => 0 <= 2 * b + d
    OBVIOUS
  <2>2. 2 * b + d \in Int /\ 0 \in Int
    OBVIOUS
  <2> QED
    BY <1>1, <1>3, <2>1, <2>2
<1>8. /\ Rounded(a, d) = IF a >= 0 THEN up(a) ELSE -down(a)
      /\ Rounded(b, d) = IF b >= 0 THEN up(b) ELSE -down(b)
  BY DEF Rounded
<1> HIDE DEF up, down
<1> QED
  BY <1>4, <1>5, <1>6, <1>7, <1>8

-----------------------------------------------------------------------------
(* Sums.                                                                   *)

\* f is the sum of w over the subsets of S.
Sums(S, w, f) ==
    /\ f \in [SUBSET S -> Int] /\ f[{}] = 0
    /\ \A s \in SUBSET S : \A x \in s : f[s] = w[x] + f[s \ {x}]

\* What a fold takes next.
OneOf(s) == CHOOSE x \in s : TRUE

\* A fold adds the elements up in its own order.
AddsUp(S, w, f) ==
    /\ f \in [SUBSET S -> Int]
    /\ \A s \in SUBSET S : f[s] = IF s = {} THEN 0 ELSE w[OneOf(s)] + f[s \ {OneOf(s)}]

\* A set with an element less.
LEMMA OneLess ==
    ASSUME NEW S, IsFiniteSet(S), NEW s \in SUBSET S, NEW x \in s
    PROVE  /\ s \ {x} \in SUBSET S /\ Cardinality(s) \in Nat /\ Cardinality(s \ {x}) \in Nat
           /\ Cardinality(s \ {x}) = Cardinality(s) - 1
<1>1. IsFiniteSet(s) /\ Cardinality(s) \in Nat
  BY FS_Subset, FS_CardinalityType
<1>2. IsFiniteSet(s \ {x}) /\ Cardinality(s \ {x}) = Cardinality(s) - 1
  BY <1>1, FS_RemoveElement
<1> QED
  BY <1>1, <1>2, FS_CardinalityType

\* A sum over the subsets of a finite set is there.
LEMMA SumIsThere ==
    ASSUME NEW S, IsFiniteSet(S), NEW w \in [S -> Int]
    PROVE  \E f : AddsUp(S, w, f)
<1> DEFINE D == SUBSET S
           rank == [s \in D |-> Cardinality(s)]
           step == [p \in D \X [D -> Int] |->
                       IF p[1] = {} THEN 0 ELSE w[OneOf(p[1])] + p[2][p[1] \ {OneOf(p[1])}]]
<1>1. ASSUME NEW s \in D, s # {}
      PROVE  /\ OneOf(s) \in s /\ OneOf(s) \in S /\ s \ {OneOf(s)} \in D
             /\ rank[s \ {OneOf(s)}] < rank[s]
  <2>1. OneOf(s) \in s
    BY <1>1 DEF OneOf
  <2> QED
    BY <2>1, OneLess
<1>2. rank \in [D -> Nat]
  <2>1. \A s \in D : Cardinality(s) \in Nat
    BY FS_Subset, FS_CardinalityType
  <2> QED
    BY <2>1
<1>3. step \in [D \X [D -> Int] -> Int]
  <2>1. ASSUME NEW s \in D, NEW f \in [D -> Int]
        PROVE  (IF s = {} THEN 0 ELSE w[OneOf(s)] + f[s \ {OneOf(s)}]) \in Int
    <3>1. CASE s # {}
      <4>1. w[OneOf(s)] \in Int /\ f[s \ {OneOf(s)}] \in Int
        BY <1>1, <3>1
      <4> QED
        BY <3>1, <4>1
    <3> QED
      BY <3>1
  <2> QED
    BY <2>1
<1>4. LooksDown(D, Int, rank, step)
  <2>1. SUFFICES ASSUME NEW s \in D, NEW f \in [D -> Int], NEW g \in [D -> Int],
                        \A e \in D : rank[e] < rank[s] => f[e] = g[e]
                 PROVE  step[<<s, f>>] = step[<<s, g>>]
    BY DEF LooksDown
  <2>2. s # {} => f[s \ {OneOf(s)}] = g[s \ {OneOf(s)}]
    BY <1>1, <2>1
  <2> HIDE DEF rank
  <2> QED
    BY <2>2
<1>5. \E f \in [D -> Int] : \A s \in D : f[s] = step[<<s, f>>]
  <2>1. 0 \in Int /\ Int # {}
    OBVIOUS
  <2>2. Recursion(D, Int, rank, step)
    BY <1>2, <1>3, <1>4, <2>1 DEF Recursion
  <2> HIDE DEF D, rank, step
  <2> QED
    BY <2>2, RecursionDefines
<1>6. PICK f \in [D -> Int] : \A s \in D : f[s] = step[<<s, f>>]
  BY <1>5
<1>7. ASSUME NEW s \in D
      PROVE  f[s] = IF s = {} THEN 0 ELSE w[OneOf(s)] + f[s \ {OneOf(s)}]
  <2>1. f[s] = step[<<s, f>>]
    BY <1>6
  <2>2. <<s, f>> \in D \X [D -> Int] /\ <<s, f>>[1] = s /\ <<s, f>>[2] = f
    BY <1>6
  <2> QED
    BY <2>1, <2>2
<1> QED
  BY <1>6, <1>7 DEF AddsUp

\* A function that adds up one element after the other is a sum, in whatever order it
\* takes them.
LEMMA FoldSums ==
    ASSUME NEW S, IsFiniteSet(S), NEW w \in [S -> Int], NEW f, f = [s \in SUBSET S |-> f[s]],
           f[{}] = 0,
           \A s \in SUBSET S :
              s # {} /\ f[s \ {OneOf(s)}] \in Int => f[s] = w[OneOf(s)] + f[s \ {OneOf(s)}]
    PROVE  Sums(S, w, f)
<1> DEFINE Right(s) == f[s] \in Int /\ \A x \in s : f[s] = w[x] + f[s \ {x}]
           T == {n \in Nat : \A s \in SUBSET S : Cardinality(s) = n => Right(s)}
<1>1. ASSUME NEW n \in Nat, \A m \in Nat : m < n => m \in T
      PROVE  n \in T
  <2>1. SUFFICES ASSUME NEW s \in SUBSET S, Cardinality(s) = n, s # {}
                 PROVE  Right(s)
    <3>1. Right({})
      OBVIOUS
    <3> QED
      BY <1>1, <3>1
  <2>2. ASSUME NEW t \in SUBSET S, Cardinality(t) \in Nat, Cardinality(t) < n
        PROVE  Right(t)
    BY <1>1, <2>2
  <2> HIDE DEF T
  <2> DEFINE c == OneOf(s)
  <2>3. c \in s
    BY <2>1 DEF OneOf
  <2>4. /\ s \ {c} \in SUBSET S /\ Cardinality(s \ {c}) \in Nat
        /\ Cardinality(s \ {c}) < n
    BY <2>1, <2>3, OneLess
  <2>5. Right(s \ {c})
    BY <2>2, <2>4
  <2>6. f[s] = w[c] + f[s \ {c}] /\ w[c] \in Int /\ f[s \ {c}] \in Int
    BY <2>1, <2>3, <2>5
  <2> HIDE DEF c
  <2>7. ASSUME NEW x \in s, x # c
        PROVE  f[s] = w[x] + f[s \ {x}]
    <3>1. /\ s \ {x} \in SUBSET S /\ Cardinality(s \ {x}) \in Nat /\ Cardinality(s \ {x}) < n
      BY <2>1, OneLess
    <3>2. Right(s \ {x}) /\ c \in s \ {x}
      BY <2>2, <2>3, <2>7, <3>1
    <3>3. f[s \ {x}] = w[c] + f[(s \ {x}) \ {c}]
      BY <3>2
    <3>4. x \in s \ {c}
      BY <2>7
    <3>5. f[s \ {c}] = w[x] + f[(s \ {c}) \ {x}]
      BY <2>5, <3>4
    <3>6. (s \ {x}) \ {c} = (s \ {c}) \ {x}
      OBVIOUS
    <3>7. /\ (s \ {c}) \ {x} \in SUBSET S /\ Cardinality((s \ {c}) \ {x}) \in Nat
          /\ Cardinality((s \ {c}) \ {x}) < n
      <4>1. /\ (s \ {c}) \ {x} \in SUBSET S /\ Cardinality((s \ {c}) \ {x}) \in Nat
            /\ Cardinality((s \ {c}) \ {x}) = Cardinality(s \ {c}) - 1
        BY <2>4, <3>4, OneLess
      <4> QED
        BY <2>4, <4>1
    <3>8. f[(s \ {c}) \ {x}] \in Int
      BY <2>2, <3>7
    <3>9. w[x] \in Int
      OBVIOUS
    <3> DEFINE rest == f[(s \ {c}) \ {x}]
    <3>10. f[s \ {x}] = w[c] + rest /\ f[s \ {c}] = w[x] + rest /\ rest \in Int
      BY <3>3, <3>5, <3>6, <3>8
    <3> HIDE DEF rest, Right
    <3> QED
      BY <2>6, <3>9, <3>10
  <2>8. f[s] \in Int
    BY <2>6
  <2>9. \A x \in s : f[s] = w[x] + f[s \ {x}]
    BY <2>6, <2>7
  <2> QED
    BY <2>8, <2>9
<1>2. \A n \in Nat : n \in T
  <2> HIDE DEF T
  <2> QED
    BY <1>1, EveryNumber
<1>3. ASSUME NEW s \in SUBSET S
      PROVE  Right(s)
  <2>1. Cardinality(s) \in Nat
    BY FS_Subset, FS_CardinalityType
  <2>2. Cardinality(s) \in T
    BY <1>2, <2>1
  <2> QED
    BY <2>2
<1>4. f \in [SUBSET S -> Int]
  BY <1>3
<1> QED
  BY <1>3, <1>4 DEF Sums

\* A sum of natural numbers is one, and no less than any of them.
LEMMA SumOfNaturals ==
    ASSUME NEW S, IsFiniteSet(S), NEW w \in [S -> Nat], NEW f, Sums(S, w, f)
    PROVE  f[S] \in Nat /\ \A x \in S : w[x] <= f[S]
<1> DEFINE T == {n \in Nat : \A s \in SUBSET S : Cardinality(s) = n => f[s] \in Nat}
<1>1. ASSUME NEW n \in Nat, \A m \in Nat : m < n => m \in T
      PROVE  n \in T
  <2>1. SUFFICES ASSUME NEW s \in SUBSET S, Cardinality(s) = n
                 PROVE  f[s] \in Nat
    BY <1>1
  <2>2. CASE s = {}
    BY <2>2 DEF Sums
  <2>3. CASE s # {}
    <3>1. PICK x \in s : TRUE
      BY <2>3
    <3>2. s \ {x} \in SUBSET S /\ Cardinality(s \ {x}) = n - 1 /\ n - 1 \in Nat
      BY <2>1, OneLess
    <3>3. f[s \ {x}] \in Nat
      BY <1>1, <3>2
    <3>4. f[s] = w[x] + f[s \ {x}] /\ w[x] \in Nat
      BY <2>1, <3>1 DEF Sums
    <3> QED
      BY <3>3, <3>4
  <2> QED
    BY <2>2, <2>3
<1>2. \A n \in Nat : n \in T
  <2> HIDE DEF T
  <2> QED
    BY <1>1, EveryNumber
<1>3. \A s \in SUBSET S : f[s] \in Nat
  <2>1. \A s \in SUBSET S : Cardinality(s) \in Nat
    BY FS_Subset, FS_CardinalityType
  <2> QED
    BY <1>2, <2>1
<1>4. ASSUME NEW x \in S
      PROVE  w[x] <= f[S]
  <2>1. f[S] = w[x] + f[S \ {x}] /\ f[S \ {x}] \in Nat /\ w[x] \in Nat
    BY <1>3 DEF Sums
  <2> QED
    BY <2>1
<1> QED
  BY <1>3, <1>4

-----------------------------------------------------------------------------
(* Finding a segment.                                                      *)

\* The segments in a list start at numbers, each after the one before.
StartsAscend(segs) ==
    /\ \A s \in DOMAIN segs : segs[s].start_key \in Int
    /\ \A s, t \in DOMAIN segs : s < t => segs[s].start_key < segs[t].start_key

\* A greater key has no earlier owner; so no key has two.
LEMMA OwnersAscend ==
    ASSUME NEW S, NEW segs \in Seq(S), StartsAscend(segs),
           NEW k \in Int, NEW l \in Int, k <= l,
           NEW s \in DOMAIN segs, Owns(segs, s, k), NEW t \in DOMAIN segs, Owns(segs, t, l)
    PROVE  s <= t
<1>0. Len(segs) \in Nat /\ DOMAIN segs = 1..Len(segs)
  BY LenProperties
<1>1. SUFFICES ASSUME t < s
               PROVE  FALSE
  BY <1>0
<1>2. t + 1 \in DOMAIN segs /\ t # Len(segs) /\ s # 1 /\ t + 1 <= s
  BY <1>0, <1>1
<1>3. segs[t + 1].start_key <= segs[s].start_key
  <2>1. CASE t + 1 = s
    <3>1. segs[s].start_key \in Int
      BY DEF StartsAscend
    <3> QED
      BY <2>1, <3>1
  <2>2. CASE t + 1 # s
    <3>1. t + 1 < s
      BY <1>0, <1>2, <2>2
    <3> QED
      BY <1>2, <3>1 DEF StartsAscend
  <2> QED
    BY <2>1, <2>2
<1>4. l < segs[t + 1].start_key /\ segs[s].start_key <= k
  BY <1>2 DEF Owns
<1>5. segs[t + 1].start_key \in Int /\ segs[s].start_key \in Int
  BY <1>2 DEF StartsAscend
<1> QED
  BY <1>3, <1>4, <1>5

\* The binary search finds the segment that predicts the key.
THEOREM SearchFindsOwner ==
    ASSUME NEW S, NEW segs \in Seq(S), segs # <<>>, StartsAscend(segs), NEW key \in Int
    PROVE  /\ find_segment_index(segs, key) \in DOMAIN segs
           /\ Owns(segs, find_segment_index(segs, key), key)
<1> DEFINE size == Len(segs)
           D == {v \in (1..size) \X (1..size) : v[1] + v[2] <= size + 1}
           R == [w \in D |-> w[2]]
           Next(w) == <<IF segs[w[1] + w[2] \div 2].start_key <= key THEN w[1] + w[2] \div 2 ELSE w[1],
                        w[2] - w[2] \div 2>>
           step == [p \in D \X [D -> 1..size] |-> IF p[1][2] = 1 THEN p[1][1] ELSE p[2][Next(p[1])]]
           At(f) == f = [w \in D |-> IF w[2] = 1 THEN w[1] ELSE f[Next(w)]]
<1>0. size \in Nat /\ size >= 1 /\ DOMAIN segs = 1..size
  BY EmptySeq, LenProperties
<1>1. find_segment_index(segs, key) = (CHOOSE f : At(f))[<<1, size>>]
  BY DEF find_segment_index
<1>2. ASSUME NEW w \in D
      PROVE  w[1] \in 1..size /\ w[2] \in 1..size /\ w[1] + w[2] <= size + 1
  BY <1>2
<1>3. ASSUME NEW w \in D, w[2] # 1
      PROVE  /\ w[2] \div 2 \in 1..(w[2] - 1) /\ w[2] - w[2] \div 2 >= w[2] \div 2
             /\ Next(w) \in D /\ Next(w)[2] < w[2]
  <2>1. w[2] \in 1..size /\ w[1] \in 1..size /\ w[1] + w[2] <= size + 1 /\ w[2] >= 2
    BY <1>0, <1>2, <1>3
  <2>2. w[2] \div 2 \in Int /\ 2 * (w[2] \div 2) <= w[2] /\ w[2] < 2 * (w[2] \div 2) + 2
    <3> DEFINE n == w[2]
    <3>1. n \in Int
      BY <1>0, <2>1
    <3> HIDE DEF n
    <3>2. n \div 2 \in Int /\ 2 * (n \div 2) <= n /\ n < 2 * (n \div 2) + 2
      BY <3>1
    <3> QED
      BY <3>2 DEF n
  <2> DEFINE h == w[2] \div 2
  <2> HIDE DEF h
  <2>3. h \in 1..(w[2] - 1) /\ w[2] - h >= h /\ w[2] - h \in 1..size /\ w[1] + h \in 1..size
    BY <1>0, <2>1, <2>2 DEF h
  <2>4. Next(w) = <<IF segs[w[1] + h].start_key <= key THEN w[1] + h ELSE w[1], w[2] - h>>
    BY DEF h
  <2> HIDE DEF Next
  <2>5. Next(w) \in D /\ Next(w)[2] < w[2]
    <3>1. CASE segs[w[1] + h].start_key <= key
      <4>1. Next(w) = <<w[1] + h, w[2] - h>>
        BY <2>4, <3>1
      <4> QED
        BY <1>0, <2>1, <2>3, <4>1
    <3>2. CASE ~ (segs[w[1] + h].start_key <= key)
      <4>1. Next(w) = <<w[1], w[2] - h>>
        BY <2>4, <3>2
      <4> QED
        BY <1>0, <2>1, <2>3, <4>1
    <3> QED
      BY <3>1, <3>2
  <2> QED
    BY <2>3, <2>5 DEF h
<1> HIDE DEF D, Next
<1>4. Recursion(D, 1..size, R, step)
  <2>1. 1..size # {} /\ R \in [D -> Nat]
    BY <1>0, <1>2
  <2>2. step \in [D \X [D -> 1..size] -> 1..size]
    <3>1. ASSUME NEW w \in D, NEW f \in [D -> 1..size]
          PROVE  (IF w[2] = 1 THEN w[1] ELSE f[Next(w)]) \in 1..size
      BY <1>2, <1>3
    <3> QED
      BY <3>1
  <2>3. LooksDown(D, 1..size, R, step)
    <3>1. SUFFICES ASSUME NEW w \in D, NEW f \in [D -> 1..size], NEW g \in [D -> 1..size],
                          \A v \in D : R[v] < R[w] => f[v] = g[v]
                   PROVE  step[<<w, f>>] = step[<<w, g>>]
      BY DEF LooksDown
    <3>2. w[2] # 1 => f[Next(w)] = g[Next(w)]
      BY <1>3, <3>1
    <3> QED
      BY <3>2
  <2> QED
    BY <2>1, <2>2, <2>3 DEF Recursion
<1>5. \E f : At(f)
  <2>1. PICK f \in [D -> 1..size] : \A w \in D : f[w] = step[<<w, f>>]
    <3> HIDE DEF step, R
    <3> QED
      BY <1>4, RecursionDefines
  <2>2. \A w \in D : f[w] = IF w[2] = 1 THEN w[1] ELSE f[Next(w)]
    BY <2>1
  <2>3. At(f)
    BY <2>1, <2>2
  <2> QED
    BY <2>3
<1> DEFINE at == CHOOSE f : At(f)
<1>6. \A w \in D : at[w] = IF w[2] = 1 THEN w[1] ELSE at[Next(w)]
  <2>1. At(at)
    BY <1>5
  <2> HIDE DEF at
  <2> QED
    BY <2>1
<1> HIDE DEF at, At, step, R
<1> DEFINE Inside(w) == /\ w[1] = 1 \/ segs[w[1]].start_key <= key
                        /\ w[1] + w[2] = size + 1 \/ key < segs[w[1] + w[2]].start_key
           T == {n \in Nat : \A w \in D : w[2] = n /\ Inside(w) =>
                                at[w] \in 1..size /\ Owns(segs, at[w], key)}
<1>7. ASSUME NEW n \in Nat, \A m \in Nat : m < n => m \in T
      PROVE  n \in T
  <2>1. SUFFICES ASSUME NEW w \in D, w[2] = n, Inside(w)
                 PROVE  at[w] \in 1..size /\ Owns(segs, at[w], key)
    BY <1>7
  <2>2. w[1] \in 1..size /\ w[2] \in 1..size /\ w[1] + w[2] <= size + 1
    BY <1>2
  <2>3. CASE w[2] = 1
    <3>1. at[w] = w[1]
      BY <1>6, <2>3
    <3> QED
      BY <1>0, <2>1, <2>2, <2>3, <3>1 DEF Owns
  <2>4. CASE w[2] # 1
    <3> DEFINE h == w[2] \div 2
    <3>1. /\ h \in 1..(w[2] - 1) /\ w[2] - h >= h /\ Next(w) \in D /\ Next(w)[2] < w[2]
          /\ Next(w) = <<IF segs[w[1] + h].start_key <= key THEN w[1] + h ELSE w[1], w[2] - h>>
      BY <1>3, <2>4 DEF Next
    <3>2. at[w] = at[Next(w)]
      BY <1>6, <2>4
    <3> HIDE DEF h
    <3>3. Inside(Next(w))
      <4>0. w[1] + h \in 1..size /\ h \in Int
        BY <1>0, <2>2, <3>1
      <4>1. CASE segs[w[1] + h].start_key <= key
        <5>1. Next(w) = <<w[1] + h, w[2] - h>>
          BY <3>1, <4>1
        <5>2. (w[1] + h) + (w[2] - h) = w[1] + w[2]
          BY <2>2, <4>0
        <5>3. Next(w)[1] = w[1] + h /\ Next(w)[1] + Next(w)[2] = w[1] + w[2]
          BY <5>1, <5>2
        <5> QED
          BY <2>1, <4>1, <5>3
      <4>2. CASE ~ (segs[w[1] + h].start_key <= key)
        <5>1. Next(w) = <<w[1], w[2] - h>>
          BY <3>1, <4>2
        <5> DEFINE x == w[1] + h
                   y == w[1] + (w[2] - h)
        <5>2. x \in 1..size /\ y \in 1..size /\ x <= y
          <6> DEFINE c == w[1]
                     m == w[2]
          <6>1. /\ c \in 1..size /\ m \in 1..size /\ c + m <= size + 1
                /\ h \in 1..(m - 1) /\ m - h >= h /\ size \in Nat
            BY <1>0, <2>2, <3>1
          <6> HIDE DEF c, m
          <6>2. c + h \in 1..size /\ c + (m - h) \in 1..size /\ c + h <= c + (m - h)
            BY <6>1
          <6> QED
            BY <6>2 DEF c, m
        <5>3. segs[x].start_key <= segs[y].start_key /\ segs[x].start_key \in Int /\ segs[y].start_key \in Int
          <6> HIDE DEF x, y
          <6>1. segs[x].start_key \in Int /\ segs[y].start_key \in Int
            BY <1>0, <5>2 DEF StartsAscend
          <6>2. x = y \/ x < y
            BY <5>2
          <6>3. x < y => segs[x].start_key < segs[y].start_key
            BY <1>0, <5>2 DEF StartsAscend
          <6> QED
            BY <6>1, <6>2, <6>3
        <5>4. key < segs[y].start_key
          <6> HIDE DEF y
          <6> QED
            BY <4>2, <5>3
        <5>5. Next(w)[1] = w[1] /\ Next(w)[1] + Next(w)[2] = y
          BY <5>1
        <5> HIDE DEF x, y
        <5> QED
          BY <2>1, <5>4, <5>5
      <4> QED
        BY <4>1, <4>2
    <3>4. Next(w)[2] \in Nat /\ Next(w)[2] < n
      BY <1>2, <2>1, <3>1
    <3>5. Next(w)[2] \in T
      BY <1>7, <3>4
    <3> HIDE DEF Inside
    <3> QED
      BY <3>1, <3>2, <3>3, <3>5
  <2> QED
    BY <2>3, <2>4
<1>8. \A n \in Nat : n \in T
  <2> HIDE DEF T
  <2> QED
    BY <1>7, EveryNumber
<1>9. <<1, size>> \in D /\ Inside(<<1, size>>)
  BY <1>0 DEF D
<1>10. size \in T
  BY <1>0, <1>8
<1>11. at[<<1, size>>] \in 1..size /\ Owns(segs, at[<<1, size>>], key)
  <2> HIDE DEF Inside, size
  <2> QED
    BY <1>9, <1>10
<1> QED
  BY <1>0, <1>1, <1>11 DEF at

\* What predicts the key is what the search finds.
LEMMA OwnerIsFound ==
    ASSUME NEW S, NEW segs \in Seq(S), StartsAscend(segs), NEW key \in Int,
           NEW s \in DOMAIN segs, Owns(segs, s, key)
    PROVE  find_segment_index(segs, key) = s
<1>0. Len(segs) \in Nat /\ DOMAIN segs = 1..Len(segs)
  BY LenProperties
<1>1. segs # <<>>
  BY EmptySeq, <1>0
<1> DEFINE t == find_segment_index(segs, key)
<1>2. t \in DOMAIN segs /\ Owns(segs, t, key)
  BY <1>1, SearchFindsOwner
<1> HIDE DEF t
<1>3. s <= t /\ t <= s
  BY <1>2, OwnersAscend
<1>4. s = t
  BY <1>0, <1>2, <1>3
<1> QED
  BY <1>4 DEF t

-----------------------------------------------------------------------------
(* Fitting a line.                                                         *)

\* Of two fractions that are each at most the next, the first is at most the last.
LEMMA FractionsOrdered ==
    ASSUME NEW p \in Int, NEW q \in Int, NEW r \in Int,
           NEW x \in Nat \ {0}, NEW y \in Nat \ {0}, NEW z \in Nat \ {0},
           p * y <= q * x, q * z <= r * y
    PROVE  p * z <= r * x
<1>1. (p * y) * z <= (q * x) * z
  OBVIOUS
<1>2. (q * z) * x <= (r * y) * x
  OBVIOUS
<1>3. (p * z) * y <= (r * x) * y
  <2>1. (p * y) * z = (p * z) * y /\ (q * x) * z = (q * z) * x /\ (r * y) * x = (r * x) * y
    OBVIOUS
  <2> QED
    BY <1>1, <1>2, <2>1
<1> DEFINE u == p * z
           v == r * x
<1>4. u \in Int /\ v \in Int /\ u * y <= v * y
  BY <1>3
<1> HIDE DEF u, v
<1>5. SUFFICES ASSUME v < u
               PROVE  FALSE
  BY <1>4 DEF u, v
<1>6. v + 1 <= u
  BY <1>4, <1>5
<1>7. (v + 1) * y <= u * y /\ (v + 1) * y = v * y + y
  BY <1>4, <1>6
<1> QED
  BY <1>4, <1>7

\* Of finitely many fractions one is the greatest.
LEMMA GreatestFraction ==
    ASSUME NEW low \in Int, NEW high \in Int, low <= high,
           NEW p \in [low..high -> Int], NEW q \in [low..high -> Nat \ {0}]
    PROVE  \E a \in low..high : \A b \in low..high : p[b] * q[a] <= p[a] * q[b]
<1> DEFINE T == {n \in Nat : low + n <= high =>
                    \E a \in low..(low + n) : \A b \in low..(low + n) : p[b] * q[a] <= p[a] * q[b]}
<1>1. ASSUME NEW n \in Nat, \A m \in Nat : m < n => m \in T
      PROVE  n \in T
  <2>1. SUFFICES ASSUME low + n <= high
                 PROVE  \E a \in low..(low + n) : \A b \in low..(low + n) : p[b] * q[a] <= p[a] * q[b]
    BY <1>1
  <2> DEFINE new == low + n
  <2>2. new \in low..high /\ p[new] \in Int /\ q[new] \in Nat \ {0}
    BY <2>1
  <2>3. CASE n = 0
    <3>1. \A b \in low..(low + n) : b = low
      BY <2>3
    <3>2. low \in low..(low + n) /\ p[low] * q[low] <= p[low] * q[low]
      BY <2>2, <2>3
    <3> QED
      BY <3>1, <3>2
  <2>4. CASE n # 0
    <3>0. n - 1 \in Nat /\ n - 1 < n /\ low + (n - 1) <= high
      <4> HIDE DEF T
      <4> QED
        BY <2>1, <2>4
    <3>1. n - 1 \in T /\ n - 1 \in Nat /\ low + (n - 1) <= high
      <4> HIDE DEF T
      <4> QED
        BY <1>1, <3>0
    <3>2. PICK a \in low..(low + (n - 1)) :
              \A b \in low..(low + (n - 1)) : p[b] * q[a] <= p[a] * q[b]
      BY <3>1
    <3>3. a \in low..(low + n) /\ a \in low..high /\ p[a] \in Int /\ q[a] \in Nat \ {0}
      BY <2>1, <3>1
    <3>4. \A b \in low..(low + n) : b \in low..(low + (n - 1)) \/ b = new
      BY <3>1
    <3>5. CASE p[new] * q[a] <= p[a] * q[new]
      <4>1. \A b \in low..(low + n) : p[b] * q[a] <= p[a] * q[b]
        BY <3>2, <3>4, <3>5
      <4> QED
        BY <3>3, <4>1
    <3>6. CASE ~ (p[new] * q[a] <= p[a] * q[new])
      <4>1. p[a] * q[new] <= p[new] * q[a]
        BY <2>2, <3>3, <3>6
      <4>2. ASSUME NEW b \in low..(low + n)
            PROVE  p[b] * q[new] <= p[new] * q[b]
        <5>1. CASE b = new
          BY <2>2, <5>1
        <5>2. CASE b # new
          <6>1. b \in low..(low + (n - 1)) /\ b \in low..high
            BY <2>1, <3>4, <5>2
          <6>2. p[b] \in Int /\ q[b] \in Nat \ {0} /\ p[b] * q[a] <= p[a] * q[b]
            BY <3>2, <6>1
          <6> HIDE DEF new
          <6> QED
            BY <2>2, <3>3, <4>1, <6>2, FractionsOrdered
        <5> QED
          BY <5>1, <5>2
      <4>3. new \in low..(low + n)
        OBVIOUS
      <4> QED
        BY <4>2, <4>3
    <3> QED
      BY <3>5, <3>6
  <2> QED
    BY <2>3, <2>4
<1>2. \A n \in Nat : n \in T
  <2> HIDE DEF T
  <2> QED
    BY <1>1, EveryNumber
<1>3. high - low \in Nat /\ low + (high - low) = high
  OBVIOUS
<1>4. high - low \in T
  BY <1>2, <1>3
<1> QED
  BY <1>3, <1>4

\* Keys in order, and the positions they have.
SortedPoints(keys, positions) ==
    /\ keys \in Seq(Int) /\ IsAscending(keys)
    /\ positions \in Seq(Int) /\ IsAscending(positions)
    /\ Len(positions) = Len(keys)

\* A segment, whatever it was fitted to: it climbs or is level.
AnySegment == [start_key : Int, anchor : Int, num : Nat, den : Nat \ {0}]

\* A segment predicts point k as closely as it has to.
Predicts(seg, keys, positions, eps, k) ==
    /\ seg.start_key <= keys[k] /\ seg.anchor <= positions[k]
    /\ keys[k] = seg.start_key => positions[k] = seg.anchor
    /\ Near(positions[k], OnLine(seg, keys[k]), seg.den, eps)

\* What the points are.
LEMMA PointsAre ==
    ASSUME NEW keys, NEW positions, SortedPoints(keys, positions)
    PROVE  /\ Len(keys) \in Nat
           /\ \A k \in 1..Len(keys) : keys[k] \in Int /\ positions[k] \in Int
           /\ \A k, l \in 1..Len(keys) : k < l => keys[k] < keys[l] /\ positions[k] < positions[l]
<1>1. keys \in Seq(Int) /\ positions \in Seq(Int)
  BY DEF SortedPoints
<1>2. /\ Len(keys) \in Nat /\ DOMAIN keys = 1..Len(keys)
      /\ Len(positions) = Len(keys) /\ DOMAIN positions = 1..Len(keys)
  BY <1>1, LenProperties DEF SortedPoints
<1>3. \A k \in 1..Len(keys) : keys[k] \in Int /\ positions[k] \in Int
  BY <1>1, <1>2, ElementOfSeq
<1>4. \A k, l \in 1..Len(keys) : k < l => keys[k] < keys[l] /\ positions[k] < positions[l]
  BY <1>2 DEF SortedPoints, IsAscending
<1> QED
  BY <1>2, <1>3, <1>4

\* A number is near a slot when it is between two multiples.
LEMMA NearIs ==
    ASSUME NEW j \in Int, NEW num \in Int, NEW d \in Nat, NEW far \in Int
    PROVE  Near(j, num, d, far) <=> (j - far) * d <= num /\ num <= (j + far) * d
<1>1. /\ (j - far) * d = j * d - far * d /\ (j + far) * d = j * d + far * d
      /\ j * d \in Int /\ far * d \in Int
  OBVIOUS
<1>2. Near(j, num, d, far) <=> num - j * d \in (-(far * d))..(far * d)
  BY DEF Near
<1> DEFINE p == j * d
           q == far * d
<1>3. p \in Int /\ q \in Int /\ (num - p \in (-q)..q <=> p - q <= num /\ num <= p + q)
  <2>1. p \in Int /\ q \in Int
    BY <1>1
  <2> HIDE DEF p, q
  <2> QED
    BY <2>1
<1> QED
  BY <1>1, <1>2, <1>3

\* Half the sum of two slopes that are each within reach of a point is as well:
\* the sum of the bounds.
LEMMA MiddleFits ==
    ASSUME NEW low \in Int, NEW high \in Int, NEW x \in Nat \ {0}, NEW y \in Nat \ {0},
           NEW rise \in Int, NEW run \in Nat \ {0}, NEW e \in Nat,
           low * run <= (rise + e) * x, high * run <= (rise + e) * y,
           (rise - e) * x <= low * run, (rise - e) * y <= high * run
    PROVE  /\ (low * y + high * x) * run - rise * (2 * x * y) <= e * (2 * x * y)
           /\ -(e * (2 * x * y)) <= (low * y + high * x) * run - rise * (2 * x * y)
<1> DEFINE up == rise + e
           dn == rise - e
<1>0. up \in Int /\ dn \in Int
  OBVIOUS
<1>1. low * run <= up * x /\ high * run <= up * y /\ dn * x <= low * run /\ dn * y <= high * run
  OBVIOUS
<1> HIDE DEF up, dn
<1>2. (low * run) * y <= (up * x) * y /\ (high * run) * x <= (up * y) * x
  BY <1>0, <1>1
<1>3. (dn * x) * y <= (low * run) * y /\ (dn * y) * x <= (high * run) * x
  BY <1>0, <1>1
<1>4. (low * y + high * x) * run = (low * run) * y + (high * run) * x
  OBVIOUS
<1>5. (up * x) * y + (up * y) * x = up * (2 * x * y) /\ (dn * x) * y + (dn * y) * x = dn * (2 * x * y)
  BY <1>0
<1> DEFINE w == 2 * x * y
           m == (low * y + high * x) * run
<1>6. w \in Int /\ m \in Int
  OBVIOUS
<1>7. m <= up * w /\ dn * w <= m
  BY <1>0, <1>2, <1>3, <1>4, <1>5
<1>8. up * w = rise * w + e * w /\ dn * w = rise * w - e * w
  BY <1>6 DEF up, dn
<1> HIDE DEF w, m
<1>9. m - rise * w <= e * w /\ -(e * w) <= m - rise * w
  <2>1. rise * w \in Int /\ e * w \in Int
    BY <1>6
  <2> QED
    BY <1>6, <1>7, <1>8, <2>1
<1> QED
  BY <1>9 DEF w, m

\* The segment fitted to points i to j is one, and predicts them all when some
\* slope fits.
LEMMA LineFits ==
    ASSUME NEW keys, NEW positions, SortedPoints(keys, positions), NEW eps \in Nat,
           NEW i \in 1..Len(keys), NEW j \in i..Len(keys)
    PROVE  /\ Line(keys, positions, eps, i, j) \in AnySegment
           /\ Line(keys, positions, eps, i, j).start_key = keys[i]
           /\ Line(keys, positions, eps, i, j).anchor = positions[i]
           /\ OneLineFits(keys, positions, eps, i, j) =>
                \A k \in i..j : Predicts(Line(keys, positions, eps, i, j), keys, positions, eps, k)
<1>0. /\ Len(keys) \in Nat /\ i \in Int /\ j \in Int /\ eps \in Nat
      /\ \A k \in i..j : k \in 1..Len(keys)
      /\ \A k \in (i + 1)..j : k \in i..j /\ i < k
  BY PointsAre
<1>1. \A k \in i..j : keys[k] \in Int /\ positions[k] \in Int
  BY <1>0, PointsAre
<1>2. i \in i..j
  BY <1>0
<1>3. CASE i = j
  <2> DEFINE seg == [start_key |-> keys[i], anchor |-> positions[i], num |-> 0, den |-> 1]
  <2>1. Line(keys, positions, eps, i, j) = seg
    BY <1>3 DEF Line
  <2>2. seg \in AnySegment
    BY <1>1, <1>2 DEF AnySegment
  <2>3. Predicts(seg, keys, positions, eps, i)
    BY <1>0, <1>1, <1>2 DEF Predicts, Near, OnLine
  <2>4. \A k \in i..j : k = i
    BY <1>0, <1>3
  <2> HIDE DEF seg
  <2>5. seg.start_key = keys[i] /\ seg.anchor = positions[i]
    BY DEF seg
  <2> QED
    BY <2>1, <2>2, <2>3, <2>4, <2>5
<1>4. CASE i # j
  <2> DEFINE S == (i + 1)..j
             rise(k) == Rise(positions, i, k)
             run(k) == Run(keys, i, k)
             down == [k \in S |-> rise(k) - eps]
             up == [k \in S |-> -(rise(k) + eps)]
             runs == [k \in S |-> run(k)]
             Low(a) == \A b \in S : (rise(b) - eps) * run(a) <= (rise(a) - eps) * run(b)
             High(a) == \A b \in S : (rise(a) + eps) * run(b) <= (rise(b) + eps) * run(a)
             low == CHOOSE a \in S : Low(a)
             high == CHOOSE a \in S : High(a)
  <2>1. \A k \in S : rise(k) \in Nat /\ run(k) \in Nat \ {0}
    <3>1. SUFFICES ASSUME NEW k \in S
                   PROVE  rise(k) \in Nat /\ run(k) \in Nat \ {0}
      OBVIOUS
    <3>2. k \in i..j /\ i < k /\ k \in 1..Len(keys)
      BY <1>0
    <3>3. keys[i] < keys[k] /\ positions[i] < positions[k]
      BY <3>2, PointsAre
    <3> QED
      BY <1>1, <1>2, <3>2, <3>3 DEF Rise, Run
  <2> HIDE DEF rise, run
  <2>2. i + 1 \in Int /\ j \in Int /\ i + 1 <= j
    BY <1>0, <1>4
  <2>3. down \in [S -> Int] /\ up \in [S -> Int] /\ runs \in [S -> Nat \ {0}]
    <3>1. \A k \in S : rise(k) - eps \in Int /\ -(rise(k) + eps) \in Int
      BY <1>0, <2>1
    <3> QED
      BY <2>1, <3>1
  <2>4. \E a \in S : Low(a)
    <3>1. \E a \in S : \A b \in S : down[b] * runs[a] <= down[a] * runs[b]
      <4> HIDE DEF down, runs
      <4> QED
        BY <2>2, <2>3, GreatestFraction
    <3> QED
      BY <3>1
  <2>5. \E a \in S : High(a)
    <3>1. \E a \in S : \A b \in S : up[b] * runs[a] <= up[a] * runs[b]
      <4> HIDE DEF up, runs
      <4> QED
        BY <2>2, <2>3, GreatestFraction
    <3>2. PICK a \in S : \A b \in S : up[b] * runs[a] <= up[a] * runs[b]
      BY <3>1
    <3>3. ASSUME NEW b \in S
          PROVE  (rise(a) + eps) * run(b) <= (rise(b) + eps) * run(a)
      <4>1. (-(rise(b) + eps)) * run(a) <= (-(rise(a) + eps)) * run(b)
        BY <3>2
      <4>2. /\ rise(a) + eps \in Int /\ rise(b) + eps \in Int
            /\ run(a) \in Int /\ run(b) \in Int
        BY <1>0, <2>1
      <4> QED
        BY <4>1, <4>2
    <3> QED
      BY <3>3
  <2>6. low \in S /\ Low(low) /\ high \in S /\ High(high)
    BY <2>4, <2>5
  <2> DEFINE seg == [start_key |-> keys[i], anchor |-> positions[i],
                     num |-> (rise(low) - eps) * run(high) + (rise(high) + eps) * run(low),
                     den |-> 2 * run(low) * run(high)]
  <2>7. Line(keys, positions, eps, i, j) = seg
    BY <1>4 DEF Line, rise, run
  <2> HIDE DEF low, high
  <2>8. /\ rise(low) \in Int /\ run(low) \in Nat \ {0} /\ rise(high) \in Nat /\ run(high) \in Nat \ {0}
    BY <2>1, <2>6
  <2>9. 2 * run(low) * run(high) \in Nat \ {0}
    BY <2>8
  <2>10. (rise(low) - eps) * run(high) + (rise(high) + eps) * run(low) \in Nat
    <3> DEFINE h == rise(high)
               x == run(low)
               l == (rise(low) - eps) * run(high)
    <3>1. h \in Nat /\ x \in Nat /\ l \in Int
      BY <1>0, <2>8
    <3>2. (h - eps) * x <= l
      BY <2>6
    <3> HIDE DEF h, x, l
    <3>3. (h - eps) * x = h * x - eps * x /\ (h + eps) * x = h * x + eps * x
      BY <1>0, <3>1
    <3>4. h * x \in Nat /\ eps * x \in Nat
      BY <1>0, <3>1
    <3>5. l + (h + eps) * x \in Nat
      BY <3>1, <3>2, <3>3, <3>4
    <3> QED
      BY <3>5 DEF h, x, l
  <2>11. seg \in AnySegment
    BY <1>1, <1>2, <2>9, <2>10 DEF AnySegment
  <2>12. ASSUME OneLineFits(keys, positions, eps, i, j), NEW k \in i..j
         PROVE  Predicts(seg, keys, positions, eps, k)
    <3> DEFINE w == 2 * run(low) * run(high)
               n == (rise(low) - eps) * run(high) + (rise(high) + eps) * run(low)
               x == run(low)
               y == run(high)
    <3>0. keys[i] \in Int /\ keys[k] \in Int /\ positions[i] \in Int /\ positions[k] \in Int
      BY <1>1, <1>2
    <3>1. CASE k = i
      <4>1. OnLine(seg, keys[k]) = positions[i] * w + n * (keys[i] - keys[i])
        BY <3>1 DEF OnLine
      <4>2. w \in Nat /\ n \in Int
        BY <2>9, <2>10
      <4> HIDE DEF w, n
      <4>3. n * (keys[i] - keys[i]) = 0 /\ positions[i] * w - positions[i] * w = 0 /\ positions[i] * w \in Int
        BY <3>0, <4>2
      <4>4. eps * w \in Nat /\ (-eps) * w = -(eps * w)
        BY <1>0, <4>2
      <4>5. Near(positions[k], positions[i] * w, w, eps)
        BY <3>1, <4>3, <4>4 DEF Near
      <4>6. OnLine(seg, keys[k]) = positions[i] * w
        BY <4>1, <4>3
      <4>7. seg.den = w /\ seg.start_key = keys[i] /\ seg.anchor = positions[i]
        BY DEF w
      <4> HIDE DEF seg
      <4> QED
        BY <3>0, <3>1, <4>5, <4>6, <4>7 DEF Predicts
    <3>2. CASE k # i
      <4>1. k \in S /\ i < k /\ k \in 1..Len(keys)
        BY <1>0, <3>2
      <4>2. keys[i] < keys[k] /\ positions[i] < positions[k]
        BY <4>1, PointsAre
      <4>3. rise(k) \in Int /\ run(k) \in Nat \ {0} /\ x \in Nat \ {0} /\ y \in Nat \ {0}
        BY <2>1, <2>8, <4>1
      <4>4. rise(k) = positions[k] - positions[i] /\ run(k) = keys[k] - keys[i]
        BY DEF rise, run, Rise, Run
      <4>5. /\ (rise(low) - eps) * run(k) <= (rise(k) + eps) * x
            /\ (rise(k) - eps) * y <= (rise(high) + eps) * run(k)
        BY <2>6, <2>12, <4>1 DEF OneLineFits, rise, run
      <4>6. /\ (rise(k) - eps) * x <= (rise(low) - eps) * run(k)
            /\ (rise(high) + eps) * run(k) <= (rise(k) + eps) * y
        BY <2>6, <4>1
      <4> DEFINE l == rise(low) - eps
                 h == rise(high) + eps
      <4>7. l \in Int /\ h \in Int
        BY <1>0, <2>8
      <4>8. /\ l * run(k) <= (rise(k) + eps) * x /\ h * run(k) <= (rise(k) + eps) * y
            /\ (rise(k) - eps) * x <= l * run(k) /\ (rise(k) - eps) * y <= h * run(k)
        BY <4>5, <4>6
      <4>9. w = 2 * x * y /\ n = l * y + h * x
        OBVIOUS
      <4> HIDE DEF l, h, x, y, w, n
      <4>10. n * run(k) - rise(k) * w <= eps * w /\ -(eps * w) <= n * run(k) - rise(k) * w
        BY <1>0, <4>3, <4>7, <4>8, <4>9, MiddleFits
      <4>11. seg.den = w /\ seg.start_key = keys[i] /\ seg.anchor = positions[i] /\ seg.num = n
        BY DEF w, n
      <4>12. w \in Nat /\ n \in Int
        BY <2>9, <2>10 DEF w, n
      <4> HIDE DEF seg
      <4>13. OnLine(seg, keys[k]) - positions[k] * w = n * run(k) - rise(k) * w
        <5>1. OnLine(seg, keys[k]) = positions[i] * w + n * run(k)
          BY <4>4, <4>11 DEF OnLine
        <5>2. rise(k) * w = positions[k] * w - positions[i] * w
          <6> DEFINE a == positions[k]
                     b == positions[i]
          <6>1. a \in Int /\ b \in Int /\ w \in Int /\ rise(k) = a - b
            BY <3>0, <4>4, <4>12
          <6> HIDE DEF a, b
          <6>2. (a - b) * w = a * w - b * w
            BY <6>1
          <6> QED
            BY <6>1, <6>2 DEF a, b
        <5>3. positions[i] * w \in Int /\ n * run(k) \in Int /\ positions[k] * w \in Int
          BY <3>0, <4>3, <4>12
        <5> QED
          BY <5>1, <5>2, <5>3
      <4>14. eps * w \in Nat /\ (-eps) * w = -(eps * w) /\ n * run(k) - rise(k) * w \in Int
        BY <1>0, <4>3, <4>12
      <4>15. Near(positions[k], OnLine(seg, keys[k]), seg.den, eps)
        BY <4>10, <4>11, <4>13, <4>14 DEF Near
      <4> QED
        BY <3>0, <4>2, <4>11, <4>15 DEF Predicts
    <3> QED
      BY <3>1, <3>2
  <2> HIDE DEF seg
  <2>13. seg.start_key = keys[i] /\ seg.anchor = positions[i]
    BY DEF seg
  <2> QED
    BY <2>7, <2>11, <2>12, <2>13
<1> QED
  BY <1>3, <1>4

-----------------------------------------------------------------------------
(* Building a segmented model.                                             *)

\* The last point of a segment is one the segment predicts the points up to.
LEMMA LastFits ==
    ASSUME NEW keys, NEW positions, SortedPoints(keys, positions), NEW eps \in Nat,
           NEW i \in 1..Len(keys), NEW most \in Nat \ {0}
    PROVE  /\ LastOf(keys, positions, eps, most, i) \in i..Len(keys)
           /\ LastOf(keys, positions, eps, most, i) - i < most
           /\ OneLineFits(keys, positions, eps, i, LastOf(keys, positions, eps, most, i))
<1> DEFINE S == {j \in i..Len(keys) : j - i < most /\ OneLineFits(keys, positions, eps, i, j)}
<1>0. Len(keys) \in Nat
  BY PointsAre
<1>1. i \in S
  <2>1. OneLineFits(keys, positions, eps, i, i)
    <3>1. \A a \in (i + 1)..i : FALSE
      BY <1>0
    <3> QED
      BY <3>1 DEF OneLineFits
  <2>2. i \in i..Len(keys) /\ i - i < most
    BY <1>0
  <2> QED
    BY <2>1, <2>2
<1>2. S \in SUBSET Int /\ \A j \in S : j <= Len(keys)
  BY <1>0
<1> HIDE DEF S
<1>3. Max(S) \in S
  BY <1>0, <1>1, <1>2, MaxOf
<1>4. LastOf(keys, positions, eps, most, i) = Max(S)
  BY DEF LastOf, S
<1> QED
  BY <1>3, <1>4 DEF S

\* What the segments made of the points from i on are: each covers a stretch of
\* them, no longer than the cap allows, and predicts it.
FittedTo(segs, keys, positions, eps, most, i) ==
    /\ segs \in Seq(AnySegment) /\ StartsAscend(segs)
    /\ i = Len(keys) + 1 => segs = <<>>
    /\ i <= Len(keys) => segs # <<>> /\ segs[1].start_key = keys[i]
    /\ \A s \in DOMAIN segs : \E k, l \in i..Len(keys) :
          /\ k <= l /\ l - k < most
          /\ segs[s].start_key = keys[k] /\ segs[s].anchor = positions[k]
          /\ \A m \in i..Len(keys) : Owns(segs, s, keys[m]) <=> m \in k..l
    /\ \A s \in DOMAIN segs, k \in i..Len(keys) :
          Owns(segs, s, keys[k]) => Predicts(segs[s], keys, positions, eps, k)

\* A segment for points i to j and those for the points from j + 1 on are segments
\* for the points from i on.
LEMMA SegmentsGrow ==
    ASSUME NEW keys, NEW positions, SortedPoints(keys, positions), NEW eps \in Nat,
           NEW most \in Nat \ {0}, NEW i \in 1..Len(keys), NEW j \in i..Len(keys), j - i < most,
           OneLineFits(keys, positions, eps, i, j),
           NEW rest, FittedTo(rest, keys, positions, eps, most, j + 1)
    PROVE  FittedTo(<<Line(keys, positions, eps, i, j)>> \o rest, keys, positions, eps, most, i)
<1> DEFINE seg == Line(keys, positions, eps, i, j)
           segs == <<seg>> \o rest
           N == Len(keys)
<1>0. N \in Nat /\ i \in Int /\ j \in Int /\ i <= j /\ j <= N
  BY PointsAre
<1>1. /\ seg \in AnySegment /\ seg.start_key = keys[i] /\ seg.anchor = positions[i]
      /\ \A k \in i..j : Predicts(seg, keys, positions, eps, k)
  BY LineFits
<1> HIDE DEF seg
<1>2. rest \in Seq(AnySegment) /\ StartsAscend(rest)
  BY DEF FittedTo
<1>3. Len(rest) \in Nat /\ DOMAIN rest = 1..Len(rest)
  BY <1>2, LenProperties
<1>4. <<seg>> \in Seq(AnySegment) /\ Len(<<seg>>) = 1 /\ <<seg>>[1] = seg
  BY <1>1
<1>5. /\ segs \in Seq(AnySegment) /\ Len(segs) = Len(rest) + 1
      /\ \A s \in 1..(Len(rest) + 1) : segs[s] = IF s <= 1 THEN <<seg>>[s] ELSE rest[s - 1]
  BY <1>2, <1>4, ConcatProperties
<1>6. DOMAIN segs = 1..(Len(rest) + 1)
  BY <1>5, LenProperties
<1> HIDE DEF segs
<1>7. segs[1] = seg /\ \A s \in DOMAIN segs : s = 1 \/ (s - 1 \in DOMAIN rest /\ s > 1 /\ segs[s] = rest[s - 1])
  BY <1>3, <1>4, <1>5, <1>6
<1>8. \A k \in i..N : keys[k] \in Int /\ k \in 1..N
  BY <1>0, PointsAre
<1>9. \A s \in DOMAIN rest : \E k \in (j + 1)..N : rest[s].start_key = keys[k]
  BY DEF FittedTo
<1>10. \A s \in DOMAIN rest : keys[j] < rest[s].start_key /\ rest[s].start_key \in Int
  <2>1. SUFFICES ASSUME NEW s \in DOMAIN rest
                 PROVE  keys[j] < rest[s].start_key /\ rest[s].start_key \in Int
    OBVIOUS
  <2>2. PICK k \in (j + 1)..N : rest[s].start_key = keys[k]
    BY <1>9
  <2>3. j \in 1..N /\ k \in 1..N /\ j < k
    BY <1>0, <2>2
  <2> QED
    BY <2>2, <2>3, PointsAre
<1>11. keys[i] <= keys[j]
  <2>1. i \in 1..N /\ j \in 1..N /\ (i = j \/ i < j)
    BY <1>0
  <2>2. keys[i] \in Int
    BY <1>0, <1>8
  <2> QED
    BY <2>1, <2>2, PointsAre
<1>12. StartsAscend(segs)
  <2>1. ASSUME NEW s \in DOMAIN segs
        PROVE  segs[s].start_key \in Int /\ (s = 1 \/ segs[1].start_key < segs[s].start_key)
    <3>0. keys[i] \in Int /\ keys[j] \in Int
      BY <1>0, <1>8
    <3>1. CASE s = 1
      BY <1>1, <1>7, <3>0, <3>1
    <3>2. CASE s # 1
      <4>1. s - 1 \in DOMAIN rest /\ segs[s] = rest[s - 1]
        BY <1>7, <3>2
      <4> QED
        BY <1>1, <1>7, <1>10, <1>11, <3>0, <4>1
    <3> QED
      BY <3>1, <3>2
  <2>2. ASSUME NEW s \in DOMAIN segs, NEW t \in DOMAIN segs, s < t
        PROVE  segs[s].start_key < segs[t].start_key
    <3>0. s \in 1..(Len(rest) + 1) /\ t \in 1..(Len(rest) + 1)
      BY <1>6
    <3>1. CASE s = 1
      BY <1>3, <2>1, <2>2, <3>0, <3>1
    <3>2. CASE s # 1
      <4>1. t # 1 /\ s - 1 < t - 1
        BY <1>3, <2>2, <3>0, <3>2
      <4>2. /\ s - 1 \in DOMAIN rest /\ segs[s] = rest[s - 1]
            /\ t - 1 \in DOMAIN rest /\ segs[t] = rest[t - 1]
        BY <1>7, <3>2, <4>1
      <4> QED
        BY <1>2, <4>1, <4>2 DEF StartsAscend
    <3> QED
      BY <3>1, <3>2
  <2> QED
    BY <2>1, <2>2 DEF StartsAscend
<1>13. rest # <<>> => /\ j + 1 <= N /\ rest[1].start_key = keys[j + 1]
                     /\ 1 \in DOMAIN rest /\ Len(rest) # 0
  <2>1. SUFFICES ASSUME rest # <<>>
                 PROVE  /\ j + 1 <= N /\ rest[1].start_key = keys[j + 1]
                        /\ 1 \in DOMAIN rest /\ Len(rest) # 0
    OBVIOUS
  <2>2. j + 1 <= N
    <3>1. j + 1 # N + 1
      BY <2>1 DEF FittedTo
    <3> QED
      BY <1>0, <3>1
  <2>3. rest[1].start_key = keys[j + 1]
    BY <2>2 DEF FittedTo
  <2>4. Len(rest) # 0
    BY <1>2, <2>1, EmptySeq
  <2> QED
    BY <1>3, <2>2, <2>3, <2>4
<1>14. ASSUME NEW k \in i..N
       PROVE  /\ k \in Int /\ keys[k] \in Int /\ keys[i] <= keys[k]
              /\ k <= j => keys[k] <= keys[j]
              /\ k > j => keys[j] < keys[k] /\ j + 1 <= N /\ keys[j + 1] <= keys[k]
  <2>1. k \in 1..N /\ k \in Int /\ keys[k] \in Int /\ keys[i] \in Int /\ keys[j] \in Int /\ j \in 1..N
    BY <1>0, <1>8
  <2>2. keys[i] <= keys[k]
    <3>1. i < k => keys[i] < keys[k]
      BY <2>1, PointsAre
    <3> QED
      BY <1>0, <2>1, <3>1
  <2>3. k <= j => keys[k] <= keys[j]
    <3>1. k < j => keys[k] < keys[j]
      BY <2>1, PointsAre
    <3> QED
      BY <1>0, <2>1, <3>1
  <2>4. ASSUME k > j
        PROVE  keys[j] < keys[k] /\ j + 1 <= N /\ keys[j + 1] <= keys[k]
    <3>1. j + 1 \in 1..N /\ (j + 1 = k \/ j + 1 < k) /\ j + 1 \in i..N
      BY <1>0, <2>1, <2>4
    <3>2. keys[j + 1] \in Int
      BY <1>8, <3>1
    <3>3. keys[j] < keys[k] /\ (j + 1 < k => keys[j + 1] < keys[k])
      BY <2>1, <2>4, <3>1, PointsAre
    <3> QED
      BY <2>1, <3>1, <3>2, <3>3
  <2> QED
    BY <2>1, <2>2, <2>3, <2>4
<1>15. ASSUME NEW k \in i..N
       PROVE  Owns(segs, 1, keys[k]) <=> k <= j
  <2>0. /\ k \in Int /\ keys[k] \in Int /\ keys[i] <= keys[k]
        /\ k <= j => keys[k] <= keys[j]
        /\ k > j => keys[j] < keys[k] /\ j + 1 <= N /\ keys[j + 1] <= keys[k]
    BY <1>14
  <2>1. CASE rest = <<>>
    <3>1. Len(segs) = 1
      BY <1>5, <2>1, EmptySeq
    <3>2. j = N
      BY <1>0, <2>1 DEF FittedTo
    <3>3. k <= j
      BY <1>0, <3>2
    <3> QED
      BY <3>1, <3>3 DEF Owns
  <2>2. CASE rest # <<>>
    <3>1. /\ 1 \in DOMAIN rest /\ 2 \in DOMAIN segs /\ Len(segs) # 1 /\ segs[2] = rest[1]
          /\ rest[1].start_key = keys[j + 1] /\ j + 1 <= N
      <4>1. 1 \in DOMAIN rest /\ 2 \in DOMAIN segs /\ Len(segs) # 1
        BY <1>3, <1>5, <1>6, <1>13, <2>2
      <4> QED
        BY <1>7, <1>13, <2>2, <4>1
    <3>2. Owns(segs, 1, keys[k]) <=> keys[k] < keys[j + 1]
      BY <3>1 DEF Owns
    <3>3. keys[j] < keys[j + 1] /\ keys[j] \in Int /\ keys[j + 1] \in Int
      BY <1>10, <3>1, <1>8, <1>0
    <3> QED
      BY <1>0, <2>0, <3>2, <3>3
  <2> QED
    BY <2>1, <2>2
<1>16. ASSUME NEW s \in DOMAIN segs, s # 1, NEW k \in i..N
       PROVE  Owns(segs, s, keys[k]) <=> k > j /\ Owns(rest, s - 1, keys[k])
  <2>0. /\ k \in Int /\ keys[k] \in Int
        /\ k <= j => keys[k] <= keys[j]
        /\ k > j => keys[j] < keys[k] /\ j + 1 <= N /\ keys[j + 1] <= keys[k]
    BY <1>14
  <2>1. s - 1 \in DOMAIN rest /\ segs[s] = rest[s - 1] /\ s \in Int /\ s > 1 /\ rest # <<>>
    <3>1. s - 1 \in DOMAIN rest /\ segs[s] = rest[s - 1]
      BY <1>7, <1>16
    <3> QED
      BY <1>3, <1>6, <1>16, <3>1
  <2>2. keys[j] < rest[s - 1].start_key /\ rest[s - 1].start_key \in Int /\ keys[j] \in Int
    BY <1>0, <1>8, <1>10, <2>1
  <2>3. (s = Len(segs) \/ keys[k] < segs[s + 1].start_key)
          <=> (s - 1 = Len(rest) \/ keys[k] < rest[(s - 1) + 1].start_key)
    <3>1. CASE s = Len(segs)
      BY <1>3, <1>5, <2>1, <3>1
    <3>2. CASE s # Len(segs)
      <4>1. s + 1 \in DOMAIN segs /\ s + 1 # 1 /\ (s + 1) - 1 = s /\ (s - 1) + 1 = s /\ s - 1 # Len(rest)
        <5> DEFINE R == Len(rest)
        <5>1. R \in Nat /\ s \in 1..(R + 1) /\ s # R + 1 /\ s > 1
          BY <1>3, <1>5, <1>6, <2>1, <3>2
        <5> HIDE DEF R
        <5>2. s + 1 \in 1..(R + 1) /\ s + 1 # 1 /\ (s + 1) - 1 = s /\ (s - 1) + 1 = s /\ s - 1 # R
          BY <5>1
        <5> QED
          BY <1>6, <5>2 DEF R
      <4>2. segs[s + 1] = rest[s]
        BY <1>7, <4>1
      <4> QED
        BY <3>2, <4>1, <4>2
    <3> QED
      BY <3>1, <3>2
  <2>4. segs[s].start_key <= keys[k] => k > j
    BY <1>0, <2>0, <2>1, <2>2
  <2>5. k > j /\ s - 1 = 1 => rest[s - 1].start_key <= keys[k]
    BY <1>13, <2>0, <2>1
  <2> QED
    BY <1>16, <2>1, <2>3, <2>4, <2>5 DEF Owns
<1>17. ASSUME NEW s \in DOMAIN segs
       PROVE  \E k, l \in i..N :
                 /\ k <= l /\ l - k < most
                 /\ segs[s].start_key = keys[k] /\ segs[s].anchor = positions[k]
                 /\ \A m \in i..N : Owns(segs, s, keys[m]) <=> m \in k..l
  <2>1. CASE s = 1
    <3>1. i \in i..N /\ j \in i..N
      BY <1>0
    <3>2. \A m \in i..N : Owns(segs, s, keys[m]) <=> m \in i..j
      BY <1>0, <1>15, <2>1
    <3>3. segs[s] = seg
      BY <1>7, <2>1
    <3> QED
      BY <1>0, <1>1, <3>1, <3>2, <3>3
  <2>2. CASE s # 1
    <3>1. s - 1 \in DOMAIN rest /\ segs[s] = rest[s - 1]
      BY <1>7, <2>2
    <3>2. PICK k, l \in (j + 1)..N :
             /\ k <= l /\ l - k < most
             /\ rest[s - 1].start_key = keys[k] /\ rest[s - 1].anchor = positions[k]
             /\ \A m \in (j + 1)..N : Owns(rest, s - 1, keys[m]) <=> m \in k..l
      BY <3>1 DEF FittedTo
    <3>3. k \in i..N /\ l \in i..N
      BY <1>0
    <3>4. ASSUME NEW m \in i..N
          PROVE  Owns(segs, s, keys[m]) <=> m \in k..l
      <4>1. Owns(segs, s, keys[m]) <=> m > j /\ Owns(rest, s - 1, keys[m])
        BY <1>16, <2>2
      <4>2. m > j => m \in (j + 1)..N
        BY <1>0
      <4>3. m \in k..l => m > j
        BY <1>0
      <4> QED
        BY <3>2, <4>1, <4>2, <4>3
    <3> QED
      BY <3>1, <3>2, <3>3, <3>4
  <2> QED
    BY <2>1, <2>2
<1>18. ASSUME NEW s \in DOMAIN segs, NEW k \in i..N, Owns(segs, s, keys[k])
       PROVE  Predicts(segs[s], keys, positions, eps, k)
  <2>1. CASE s = 1
    <3>1. k \in i..j
      BY <1>0, <1>15, <1>18, <2>1
    <3> QED
      BY <1>1, <1>7, <2>1, <3>1
  <2>2. CASE s # 1
    <3>1. s - 1 \in DOMAIN rest /\ segs[s] = rest[s - 1]
      BY <1>7, <2>2
    <3>2. k > j /\ Owns(rest, s - 1, keys[k])
      BY <1>16, <1>18, <2>2
    <3>3. k \in (j + 1)..N
      BY <1>0, <3>2
    <3> QED
      BY <3>1, <3>2, <3>3 DEF FittedTo
  <2> QED
    BY <2>1, <2>2
<1>19. segs # <<>> /\ segs[1].start_key = keys[i] /\ i # N + 1
  BY <1>0, <1>1, <1>3, <1>5, <1>7, EmptySeq
<1>20. FittedTo(segs, keys, positions, eps, most, i)
  BY <1>5, <1>12, <1>17, <1>18, <1>19 DEF FittedTo
<1> QED
  BY <1>20 DEF segs, seg

\* The segments of a fresh model predict all the keys it is built from.
THEOREM SegmentsAreBuilt ==
    ASSUME NEW keys, NEW positions, SortedPoints(keys, positions), NEW eps \in Nat, NEW most \in Nat \ {0}
    PROVE  FittedTo(build_segmented_model(keys, positions, eps, most), keys, positions, eps, most, 1)
<1> DEFINE N == Len(keys)
           D == 1..(N + 1)
           S == Seq(AnySegment)
           R == [i \in D |-> (N + 1) - i]
           last(i) == LastOf(keys, positions, eps, most, i)
           step == [p \in D \X [D -> S] |->
                       IF p[1] > N THEN <<>>
                       ELSE <<Line(keys, positions, eps, p[1], last(p[1]))>> \o p[2][last(p[1]) + 1]]
           At(f) == f = [i \in D |-> IF i > N THEN <<>>
                                     ELSE <<Line(keys, positions, eps, i, last(i))>> \o f[last(i) + 1]]
<1>0. N \in Nat
  BY PointsAre
<1>1. build_segmented_model(keys, positions, eps, most) = (CHOOSE f : At(f))[1]
  BY DEF build_segmented_model
<1>2. ASSUME NEW i \in D, ~ (i > N)
      PROVE  /\ i \in 1..N /\ last(i) \in i..N /\ last(i) + 1 \in D /\ last(i) + 1 > i
             /\ OneLineFits(keys, positions, eps, i, last(i)) /\ last(i) - i < most
             /\ Line(keys, positions, eps, i, last(i)) \in AnySegment
  <2>1. i \in 1..N
    BY <1>0, <1>2
  <2>2. last(i) \in i..N /\ OneLineFits(keys, positions, eps, i, last(i)) /\ last(i) - i < most
    BY <2>1, LastFits
  <2> HIDE DEF last
  <2>3. last(i) + 1 \in D /\ last(i) + 1 > i
    BY <1>0, <2>1, <2>2
  <2>4. Line(keys, positions, eps, i, last(i)) \in AnySegment
    BY <2>1, <2>2, LineFits
  <2> QED
    BY <2>1, <2>2, <2>3, <2>4
<1> HIDE DEF last, D
<1>3. Recursion(D, S, R, step)
  <2>1. S # {}
    <3>1. <<>> \in Seq(AnySegment)
      OBVIOUS
    <3> QED
      BY <3>1
  <2>2. R \in [D -> Nat]
    BY <1>0 DEF D
  <2>3. step \in [D \X [D -> S] -> S]
    <3>1. ASSUME NEW i \in D, NEW f \in [D -> S]
          PROVE  (IF i > N THEN <<>>
                  ELSE <<Line(keys, positions, eps, i, last(i))>> \o f[last(i) + 1]) \in S
      <4>1. CASE i > N
        BY <4>1
      <4>2. CASE ~ (i > N)
        <5>1. <<Line(keys, positions, eps, i, last(i))>> \in Seq(AnySegment) /\ f[last(i) + 1] \in Seq(AnySegment)
          BY <1>2, <4>2
        <5>2. <<Line(keys, positions, eps, i, last(i))>> \o f[last(i) + 1] \in Seq(AnySegment)
          BY <5>1, ConcatProperties
        <5> QED
          BY <4>2, <5>2
      <4> QED
        BY <4>1, <4>2
    <3> HIDE DEF S
    <3> QED
      BY <3>1
  <2>4. LooksDown(D, S, R, step)
    <3>1. SUFFICES ASSUME NEW i \in D, NEW f \in [D -> S], NEW g \in [D -> S],
                          \A v \in D : R[v] < R[i] => f[v] = g[v]
                   PROVE  step[<<i, f>>] = step[<<i, g>>]
      BY DEF LooksDown
    <3>2. CASE i > N
      BY <3>2
    <3>3. CASE ~ (i > N)
      <4>1. last(i) + 1 \in D /\ last(i) + 1 > i /\ last(i) \in i..N /\ i \in 1..N
        BY <1>2, <3>3
      <4>2. R[last(i) + 1] < R[i]
        BY <1>0, <4>1
      <4>3. f[last(i) + 1] = g[last(i) + 1]
        BY <3>1, <4>1, <4>2
      <4> QED
        BY <3>3, <4>3
    <3> QED
      BY <3>2, <3>3
  <2> QED
    BY <2>1, <2>2, <2>3, <2>4 DEF Recursion
<1>4. \E f : At(f)
  <2>1. PICK f \in [D -> S] : \A i \in D : f[i] = step[<<i, f>>]
    <3> HIDE DEF step, R, S
    <3> QED
      BY <1>3, RecursionDefines
  <2>2. \A i \in D : f[i] = IF i > N THEN <<>>
                            ELSE <<Line(keys, positions, eps, i, last(i))>> \o f[last(i) + 1]
    BY <2>1
  <2>3. At(f)
    BY <2>1, <2>2
  <2> QED
    BY <2>3
<1> DEFINE from == CHOOSE f : At(f)
<1>5. \A i \in D : from[i] = IF i > N THEN <<>>
                             ELSE <<Line(keys, positions, eps, i, last(i))>> \o from[last(i) + 1]
  <2>1. At(from)
    BY <1>4
  <2> HIDE DEF from
  <2> QED
    BY <2>1
<1> HIDE DEF from, At, step, R
<1> DEFINE T == {n \in Nat : n <= N => FittedTo(from[(N + 1) - n], keys, positions, eps, most, (N + 1) - n)}
<1>6. ASSUME NEW n \in Nat, \A m \in Nat : m < n => m \in T
      PROVE  n \in T
  <2>1. SUFFICES ASSUME n <= N
                 PROVE  FittedTo(from[(N + 1) - n], keys, positions, eps, most, (N + 1) - n)
    BY <1>6
  <2> DEFINE i == (N + 1) - n
  <2>2. i \in D /\ i \in Int
    BY <1>0, <2>1 DEF D
  <2>3. CASE n = 0
    <3>1. i = N + 1 /\ i > N
      BY <1>0, <2>3
    <3>2. from[i] = <<>>
      BY <1>5, <2>2, <3>1
    <3>3. DOMAIN <<>> = {} /\ <<>> \in Seq(AnySegment)
      OBVIOUS
    <3>4. StartsAscend(<<>>)
      BY <3>3 DEF StartsAscend
    <3> HIDE DEF i, N
    <3>5. ~ (i <= N)
      BY <1>0, <3>1
    <3>6. FittedTo(<<>>, keys, positions, eps, most, i)
      BY <3>3, <3>4, <3>5 DEF FittedTo, N
    <3> QED
      BY <3>2, <3>6 DEF i
  <2>4. CASE n # 0
    <3>1. ~ (i > N)
      BY <1>0, <2>4
    <3> HIDE DEF i
    <3>2. /\ i \in 1..N /\ last(i) \in i..N /\ OneLineFits(keys, positions, eps, i, last(i))
          /\ last(i) + 1 \in D /\ last(i) - i < most
      BY <1>2, <2>2, <3>1
    <3>3. from[i] = <<Line(keys, positions, eps, i, last(i))>> \o from[last(i) + 1]
      BY <1>5, <2>2, <3>1
    <3> DEFINE m == N - last(i)
    <3>4. m \in Nat /\ m < n /\ m <= N /\ (N + 1) - m = last(i) + 1
      BY <1>0, <2>2, <3>2 DEF i
    <3>5. m \in T
      <4> HIDE DEF m, T
      <4> QED
        BY <1>6, <3>4
    <3>6. FittedTo(from[last(i) + 1], keys, positions, eps, most, last(i) + 1)
      <4> HIDE DEF m
      <4> QED
        BY <3>4, <3>5
    <3>7. FittedTo(from[i], keys, positions, eps, most, i)
      BY <3>2, <3>3, <3>6, SegmentsGrow
    <3> QED
      BY <3>7 DEF i
  <2> QED
    BY <2>3, <2>4
<1>7. \A n \in Nat : n \in T
  <2> HIDE DEF T
  <2> QED
    BY <1>6, EveryNumber
<1>8. N \in T /\ (N + 1) - N = 1
  BY <1>0, <1>7
<1>9. FittedTo(from[1], keys, positions, eps, most, 1)
  <2> HIDE DEF N
  <2> QED
    BY <1>0, <1>8
<1> QED
  BY <1>1, <1>9 DEF from

=============================================================================
