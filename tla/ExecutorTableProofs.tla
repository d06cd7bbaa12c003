------------------------ MODULE ExecutorTableProofs ------------------------
(***************************************************************************)
(* Proof that Executor implements SqlTable for every table: each action is *)
(* a step of the table's specification or changes nothing of it.           *)
(***************************************************************************)
EXTENDS ExecutorRefinement, ExecutorProofs

-----------------------------------------------------------------------------
(* Lists of lists joined together.                                         *)

\* A list and another behind it: what the positions hold.
LEMMA Joined ==
    ASSUME NEW S, NEW a \in Seq(S), NEW b \in Seq(S)
    PROVE  /\ a \o b \in Seq(S) /\ Len(a \o b) = Len(a) + Len(b)
           /\ Len(a) \in Nat /\ Len(b) \in Nat
           /\ DOMAIN (a \o b) = 1..(Len(a) + Len(b))
           /\ \A n \in 1..Len(a) : (a \o b)[n] = a[n]
           /\ \A n \in 1..Len(b) : (a \o b)[Len(a) + n] = b[n]
           /\ \A n \in 1..(Len(a) + Len(b)) : n \in 1..Len(a) \/ n - Len(a) \in 1..Len(b)
<1>1. Len(a) \in Nat /\ Len(b) \in Nat
  BY LenProperties
<1>2. /\ a \o b \in Seq(S) /\ Len(a \o b) = Len(a) + Len(b)
      /\ \A i \in 1..(Len(a) + Len(b)) :
            (a \o b)[i] = IF i <= Len(a) THEN a[i] ELSE b[i - Len(a)]
  BY ConcatProperties
<1> DEFINE m == Len(a)
           k == Len(b)
<1>3. /\ \A n \in 1..m : n \in 1..(m + k) /\ n <= m
      /\ \A n \in 1..k : m + n \in 1..(m + k) /\ ~ (m + n <= m) /\ (m + n) - m = n
      /\ \A n \in 1..(m + k) : n \in 1..m \/ n - m \in 1..k
  <2> HIDE DEF m, k
  <2>1. m \in Nat /\ k \in Nat
    BY <1>1 DEF m, k
  <2> QED
    BY <2>1
<1>4. DOMAIN (a \o b) = 1..(Len(a) + Len(b))
  BY <1>2, LenProperties
<1>5. \A n \in 1..Len(a) : (a \o b)[n] = a[n]
  BY <1>2, <1>3
<1>6. \A n \in 1..Len(b) : (a \o b)[Len(a) + n] = b[n]
  BY <1>2, <1>3
<1> QED
  BY <1>1, <1>2, <1>3, <1>4, <1>5, <1>6

\* Joining the first two of three lists first, or the last two, is the same.
Associative(S) == \A a, b, c \in Seq(S) : (a \o b) \o c = a \o (b \o c)

\* It does not matter which two of three lists are joined first.
LEMMA Regrouped == \A S : Associative(S)
BY ConcatAssociative DEF Associative

\* What is behind the first of a list.
LEMMA TailOfPut ==
    \A S : \A x \in S, a \in Seq(S) :
        /\ <<x>> \o a \in Seq(S) /\ <<x>> \o a # <<>>
        /\ (<<x>> \o a)[1] = x /\ Tail(<<x>> \o a) = a
<1> SUFFICES ASSUME NEW S, NEW x \in S, NEW a \in Seq(S), NEW xa, xa = <<x>> \o a
             PROVE  /\ xa \in Seq(S) /\ xa # <<>> /\ xa[1] = x /\ Tail(xa) = a
  BY Zenon
<1> DEFINE one == <<x>>
<1>1. one \in Seq(S) /\ Len(one) = 1 /\ one[1] = x
  OBVIOUS
<1> HIDE DEF one
<1>2. xa = one \o a
  BY DEF one
<1>3. /\ xa \in Seq(S) /\ Len(xa) = Len(one) + Len(a) /\ Len(a) \in Nat
      /\ \A n \in 1..Len(one) : xa[n] = one[n]
      /\ \A n \in 1..Len(a) : xa[Len(one) + n] = a[n]
  BY <1>1, <1>2, Joined
<1>4. /\ Len(xa) = 1 + Len(a) /\ xa[1] = x
      /\ \A n \in 1..Len(a) : xa[1 + n] = a[n]
  <2>1. 1 \in 1..1
    OBVIOUS
  <2> QED
    BY <1>1, <1>3, <2>1
<1>5. xa # <<>>
  BY <1>3, <1>4, EmptySeq
<1>6. /\ Tail(xa) \in Seq(S) /\ Len(Tail(xa)) = Len(xa) - 1
      /\ \A n \in 1..(Len(xa) - 1) : Tail(xa)[n] = xa[n + 1]
  BY <1>3, <1>5, HeadTail
<1> DEFINE k == Len(a)
<1>7. Len(xa) - 1 = k /\ \A n \in 1..k : n + 1 = 1 + n
  <2> HIDE DEF k
  <2>1. k \in Nat /\ Len(xa) = 1 + k
    BY <1>3, <1>4 DEF k
  <2> QED
    BY <2>1
<1>8. Len(Tail(xa)) = Len(a) /\ \A n \in 1..Len(a) : Tail(xa)[n] = a[n]
  BY <1>4, <1>6, <1>7
<1>9. Tail(xa) = a
  BY <1>6, <1>8, SeqEqual
<1> QED
  BY <1>3, <1>4, <1>5, <1>9

\* Joining no lists gives the empty one.
LEMMA FlattenNone == FlattenSeq(<<>>) = <<>>
<1>1. <<>> \in Seq(Seq({})) /\ Len(<<>>) = 0
  OBVIOUS
<1> QED
  BY <1>1, EmptySeq DEF FlattenSeq

\* Joining empty lists gives an empty one.
LEMMA FlattenEmpties ==
    ASSUME NEW S, NEW ss \in Seq(Seq(S)), \A n \in 1..Len(ss) : ss[n] = <<>>
    PROVE  FlattenSeq(ss) = <<>>
<1> DEFINE list == FlattenSeq(ss)
<1>1. /\ list \in Seq(S)
      /\ \A i \in 1..Len(list) : \E n \in 1..Len(ss) : \E j \in 1..Len(ss[n]) : list[i] = ss[n][j]
  BY FlattenMembers
<1>2. Len(<<>>) = 0
  OBVIOUS
<1>3. \A i \in 1..Len(list) : FALSE
  BY <1>1, <1>2
<1> HIDE DEF list
<1>4. Len(list) \in Nat
  BY <1>1, LenProperties
<1>5. Len(list) = 0
  BY <1>3, <1>4
<1> QED
  BY <1>1, <1>5, EmptySeq DEF list

\* The first list goes in front of the others joined.
LEMMA FlattenHead ==
    ASSUME NEW S, NEW ss \in Seq(Seq(S)), ss # <<>>
    PROVE  FlattenSeq(ss) = ss[1] \o FlattenSeq(Tail(ss))
<1> DEFINE N    == Len(ss)
           rest == Tail(ss)
<1>1. /\ N \in Nat /\ N >= 1 /\ rest \in Seq(Seq(S)) /\ Len(rest) = N - 1
      /\ \A n \in 1..(N - 1) : rest[n] = ss[n + 1]
      /\ ss[1] \in Seq(S)
  BY HeadTail
<1> HIDE DEF N, rest
<1>2. \A n \in 1..N : ss[n] \in Seq(S)
  BY ElementOfSeq DEF N
<1>3. PICK part \in [1..N -> Seq(S)] : Joins(part, ss) /\ FlattenSeq(ss) = part[N]
  BY <1>1, Flattened DEF N
<1>4. /\ part[1] = ss[1]
      /\ \A n \in 2..N : part[n] = part[n - 1] \o ss[n]
  BY <1>3 DEF Joins, N
<1>5. CASE N = 1
  <2>1. rest = <<>>
    BY <1>1, <1>5, EmptySeq
  <2>2. FlattenSeq(rest) = <<>>
    BY <2>1, FlattenNone
  <2>3. FlattenSeq(ss) = ss[1]
    BY <1>3, <1>4, <1>5
  <2>4. ss[1] \o <<>> = ss[1]
    BY <1>1, ConcatEmptySeq
  <2>5. FlattenSeq(ss) = ss[1] \o FlattenSeq(rest)
    BY <2>2, <2>3, <2>4
  <2> QED
    BY <2>5 DEF rest
<1>6. CASE N # 1
  <2>1. N - 1 \in Nat /\ N - 1 >= 1 /\ Len(rest) # 0
    BY <1>1, <1>6
  <2>2. PICK back \in [1..(N - 1) -> Seq(S)] : Joins(back, rest) /\ FlattenSeq(rest) = back[N - 1]
    <3>1. rest \in Seq(Seq(S)) /\ Len(rest) = N - 1
      BY <1>1
    <3>2. \E back \in [1..Len(rest) -> Seq(S)] : Joins(back, rest) /\ FlattenSeq(rest) = back[Len(rest)]
      BY <2>1, <3>1, Flattened
    <3> QED
      BY <3>1, <3>2
  <2>3. /\ back[1] = rest[1]
        /\ \A n \in 2..(N - 1) : back[n] = back[n - 1] \o rest[n]
    BY <1>1, <2>2 DEF Joins
  <2> DEFINE wrong == {n \in 1..(N - 1) : part[n + 1] # ss[1] \o back[n]}
  <2>4. ASSUME wrong # {}
        PROVE  FALSE
    <3>1. wrong \in SUBSET Nat
      OBVIOUS
    <3>2. PICK n \in wrong : \A m \in wrong : n <= m
      BY <2>4, <3>1, LeastNumber
    <3>3. n \in 1..(N - 1) /\ part[n + 1] # ss[1] \o back[n]
      OBVIOUS
    <3>4. /\ n \in Nat /\ n + 1 \in 2..N /\ (n + 1) - 1 = n /\ n + 1 \in 1..N
      BY <1>1, <3>3
    <3>5. part[n + 1] = part[n] \o rest[n]
      BY <1>1, <1>4, <3>3, <3>4
    <3>6. CASE n = 1
      BY <1>4, <2>3, <3>3, <3>5, <3>6
    <3>7. CASE n # 1
      <4>1. n - 1 \in 1..(N - 1) /\ n \in 2..(N - 1) /\ (n - 1) + 1 = n /\ ~ (n <= n - 1)
        BY <1>1, <3>3, <3>7
      <4>2. part[n] = ss[1] \o back[n - 1]
        BY <3>2, <4>1
      <4>3. back[n - 1] \in Seq(S) /\ rest[n] \in Seq(S)
        <5>1. rest[n] = ss[n + 1]
          BY <1>1, <3>3
        <5> QED
          BY <1>2, <3>4, <4>1, <5>1
      <4>4. (ss[1] \o back[n - 1]) \o rest[n] = ss[1] \o (back[n - 1] \o rest[n])
        <5>1. Associative(S)
          BY Regrouped
        <5> QED
          BY <1>1, <4>3, <5>1 DEF Associative
      <4>5. back[n] = back[n - 1] \o rest[n]
        BY <2>3, <4>1
      <4> QED
        BY <3>3, <3>5, <4>2, <4>4, <4>5
    <3> QED
      BY <3>6, <3>7
  <2>5. N - 1 \in 1..(N - 1) /\ (N - 1) + 1 = N
    BY <1>1, <2>1
  <2>6. part[N] = ss[1] \o back[N - 1]
    BY <2>4, <2>5
  <2> QED
    BY <1>3, <2>2, <2>6 DEF rest
<1> QED
  BY <1>5, <1>6

\* Lists of lists one behind the other are joined one behind the other.
LEMMA FlattenConcat ==
    ASSUME NEW S, NEW a \in Seq(Seq(S)), NEW b \in Seq(Seq(S))
    PROVE  FlattenSeq(a \o b) = FlattenSeq(a) \o FlattenSeq(b)
<1> DEFINE Right(x) == FlattenSeq(x \o b) = FlattenSeq(x) \o FlattenSeq(b)
           wrong    == {n \in Nat : \E x \in Seq(Seq(S)) : Len(x) = n /\ ~ Right(x)}
<1>1. SUFFICES ASSUME wrong # {}
               PROVE  FALSE
  <2>1. Len(a) \in Nat
    BY LenProperties
  <2> QED
    BY <2>1
<1>2. wrong \in SUBSET Nat
  OBVIOUS
<1>3. PICK n \in wrong : \A m \in wrong : n <= m
  BY <1>1, <1>2, LeastNumber
<1>4. PICK x \in Seq(Seq(S)) : Len(x) = n /\ ~ Right(x)
  OBVIOUS
<1>5. x # <<>>
  <2>1. <<>> \o b = b
    BY ConcatEmptySeq
  <2>2. FlattenSeq(b) \in Seq(S)
    BY FlattenMembers
  <2>3. <<>> \o FlattenSeq(b) = FlattenSeq(b)
    BY <2>2, ConcatEmptySeq
  <2>4. Right(<<>>)
    BY <2>1, <2>3, FlattenNone
  <2> HIDE DEF Right
  <2> QED
    BY <1>4, <2>4
<1> DEFINE t == Tail(x)
<1>6. /\ t \in Seq(Seq(S)) /\ Len(t) = n - 1 /\ n \in Nat /\ n >= 1
      /\ x[1] \in Seq(S)
  BY <1>4, <1>5, HeadTail
<1>7. x \o b \in Seq(Seq(S)) /\ x \o b # <<>> /\ (x \o b)[1] = x[1] /\ Tail(x \o b) = t \o b
  <2>1. /\ x \o b \in Seq(Seq(S)) /\ Len(x \o b) = Len(x) + Len(b) /\ Len(b) \in Nat
        /\ \A i \in 1..Len(x) : (x \o b)[i] = x[i]
    BY Joined
  <2>2. Len(x) + Len(b) # 0 /\ 1 \in 1..Len(x)
    BY <1>4, <1>6, <2>1
  <2>3. x \o b # <<>>
    BY <2>1, <2>2, EmptySeq
  <2>4. (x \o b)[1] = x[1]
    BY <2>1, <2>2
  <2>5. x = <<x[1]>> \o t
    BY <1>5, HeadTailProperties
  <2>6. <<x[1]>> \in Seq(Seq(S)) /\ <<x[1]>> # <<>>
    BY <1>6
  <2>7. x \o b = <<x[1]>> \o (t \o b)
    <3> HIDE DEF t
    <3> DEFINE one == <<x[1]>>
    <3>1. one \in Seq(Seq(S)) /\ x = one \o t
      BY <2>5, <2>6
    <3> HIDE DEF one
    <3>2. (one \o t) \o b = one \o (t \o b)
      <4>1. Associative(Seq(S))
        BY Regrouped
      <4> QED
        BY <1>6, <3>1, <4>1 DEF Associative
    <3>3. x \o b = one \o (t \o b)
      BY <3>1, <3>2
    <3> QED
      BY <3>3 DEF one
  <2>8. t \o b \in Seq(Seq(S))
    BY <1>6, ConcatProperties
  <2>9. Tail(x \o b) = t \o b
    <3> DEFINE back == t \o b
    <3>1. back \in Seq(Seq(S)) /\ x \o b = <<x[1]>> \o back
      BY <2>7, <2>8
    <3> HIDE DEF back, t
    <3>2. Tail(<<x[1]>> \o back) = back
      BY <1>6, <3>1, TailOfPut, Zenon
    <3> QED
      BY <3>1, <3>2 DEF back
  <2> QED
    BY <2>1, <2>3, <2>4, <2>9
<1>8. FlattenSeq(x \o b) = x[1] \o FlattenSeq(t \o b)
  <2> DEFINE xb == x \o b
  <2>1. xb \in Seq(Seq(S)) /\ xb # <<>> /\ xb[1] = x[1] /\ Tail(xb) = t \o b
    BY <1>7
  <2> HIDE DEF xb, t
  <2>2. FlattenSeq(xb) = xb[1] \o FlattenSeq(Tail(xb))
    BY <2>1, FlattenHead
  <2> QED
    BY <2>1, <2>2 DEF xb
<1>9. FlattenSeq(x) = x[1] \o FlattenSeq(t)
  BY <1>5, FlattenHead
<1>10. Right(t)
  <2>1. n - 1 \in Nat /\ ~ (n <= n - 1)
    BY <1>6
  <2> HIDE DEF Right, t
  <2> QED
    BY <1>3, <1>6, <2>1
<1>11. FlattenSeq(t) \in Seq(S) /\ FlattenSeq(b) \in Seq(S)
  BY <1>6, FlattenMembers
<1> DEFINE ft == FlattenSeq(t)
           fb == FlattenSeq(b)
<1>12. (x[1] \o ft) \o fb = x[1] \o (ft \o fb)
  <2>1. ft \in Seq(S) /\ fb \in Seq(S) /\ x[1] \in Seq(S)
    BY <1>6, <1>11
  <2> HIDE DEF ft, fb
  <2> QED
    <3>1. Associative(S)
      BY Regrouped
    <3> QED
      BY <2>1, <3>1 DEF Associative
<1>13. Right(x)
  <2>1. FlattenSeq(t \o b) = ft \o fb
    BY <1>10
  <2> HIDE DEF t, ft, fb
  <2>2. FlattenSeq(x \o b) = x[1] \o (ft \o fb) /\ FlattenSeq(x) = x[1] \o FlattenSeq(t)
    BY <1>8, <1>9, <2>1
  <2>3. FlattenSeq(x) = x[1] \o ft
    BY <2>2 DEF ft
  <2>4. FlattenSeq(x \o b) = FlattenSeq(x) \o fb
    BY <1>12, <2>2, <2>3
  <2> QED
    BY <2>4 DEF fb
<1> QED
  BY <1>4, <1>13

-----------------------------------------------------------------------------
(* The row writes calls and matches stand for.                             *)

AnyWrite == {RowWrite(c) : c \in Call} \cup [pk : Int, row : Row \cup {Absent}]

\* The writes of one call, and of each of several.
WriteOf(c, id)  == IF id # 0 /\ unpack_table_id(c.key) = id THEN <<RowWrite(c)>> ELSE <<>>
Parts(calls, id) == [n \in DOMAIN calls |-> WriteOf(calls[n], id)]

\* No call is about the table.
Foreign(calls, id) == \A n \in 1..Len(calls) : unpack_table_id(calls[n].key) # id

\* The writes of calls are lists of lists joined.
LEMMA PartsTyped ==
    ASSUME NEW id, NEW calls \in Seq(Call)
    PROVE  /\ Parts(calls, id) \in Seq(Seq(AnyWrite)) /\ Len(Parts(calls, id)) = Len(calls)
           /\ \A n \in 1..Len(calls) : Parts(calls, id)[n] = WriteOf(calls[n], id)
           /\ RowWrites(calls, id) = FlattenSeq(Parts(calls, id))
           /\ RowWrites(calls, id) \in Seq(AnyWrite)
<1>1. DOMAIN calls = 1..Len(calls) /\ Len(calls) \in Nat /\ \A n \in 1..Len(calls) : calls[n] \in Call
  BY LenProperties, ElementOfSeq
<1>2. ASSUME NEW c \in Call
      PROVE  WriteOf(c, id) \in Seq(AnyWrite)
  <2>1. RowWrite(c) \in AnyWrite
    BY DEF AnyWrite
  <2> QED
    BY <2>1, OneElement DEF WriteOf
<1>3. \A n \in 1..Len(calls) : Parts(calls, id)[n] = WriteOf(calls[n], id)
  BY <1>1 DEF Parts
<1>4. Parts(calls, id) \in [1..Len(calls) -> Seq(AnyWrite)]
  BY <1>1, <1>2 DEF Parts
<1> DEFINE p == Parts(calls, id)
           N == Len(calls)
<1>5. p \in Seq(Seq(AnyWrite)) /\ Len(p) = N
  <2> HIDE DEF p, N
  <2>1. p \in [1..N -> Seq(AnyWrite)] /\ N \in Nat
    BY <1>1, <1>4 DEF p, N
  <2> QED
    BY <2>1
<1>6. RowWrites(calls, id) = FlattenSeq(Parts(calls, id))
  BY DEF RowWrites, Parts, WriteOf
<1>7. FlattenSeq(p) \in Seq(AnyWrite)
  <2> HIDE DEF p
  <2> QED
    BY <1>5, FlattenMembers
<1> QED
  BY <1>3, <1>5, <1>6, <1>7

\* Calls that are not about the table write nothing to it.
LEMMA ForeignWrites ==
    ASSUME NEW id, NEW calls \in Seq(Call), id = 0 \/ Foreign(calls, id)
    PROVE  RowWrites(calls, id) = <<>>
<1>1. \A n \in 1..Len(calls) : Parts(calls, id)[n] = <<>>
  BY PartsTyped DEF Foreign, WriteOf
<1> DEFINE p == Parts(calls, id)
<1>2. p \in Seq(Seq(AnyWrite)) /\ Len(p) = Len(calls) /\ RowWrites(calls, id) = FlattenSeq(p)
  BY PartsTyped
<1> HIDE DEF p
<1>3. \A n \in 1..Len(p) : p[n] = <<>>
  BY <1>1, <1>2 DEF p
<1> QED
  BY <1>2, <1>3, FlattenEmpties

\* Calls one behind the other write one behind the other.
LEMMA WritesConcat ==
    ASSUME NEW id, NEW a \in Seq(Call), NEW b \in Seq(Call)
    PROVE  RowWrites(a \o b, id) = RowWrites(a, id) \o RowWrites(b, id)
<1> DEFINE ab == a \o b
           pa == Parts(a, id)
           pb == Parts(b, id)
           pab == Parts(ab, id)
<1>1. /\ ab \in Seq(Call) /\ Len(ab) = Len(a) + Len(b)
      /\ Len(a) \in Nat /\ Len(b) \in Nat
      /\ \A n \in 1..Len(a) : ab[n] = a[n]
      /\ \A n \in 1..Len(b) : ab[Len(a) + n] = b[n]
      /\ \A n \in 1..(Len(a) + Len(b)) : n \in 1..Len(a) \/ n - Len(a) \in 1..Len(b)
  BY Joined
<1> HIDE DEF ab
<1>2. /\ pa \in Seq(Seq(AnyWrite)) /\ Len(pa) = Len(a)
      /\ \A n \in 1..Len(a) : pa[n] = WriteOf(a[n], id)
      /\ RowWrites(a, id) = FlattenSeq(pa)
  BY PartsTyped
<1>3. /\ pb \in Seq(Seq(AnyWrite)) /\ Len(pb) = Len(b)
      /\ \A n \in 1..Len(b) : pb[n] = WriteOf(b[n], id)
      /\ RowWrites(b, id) = FlattenSeq(pb)
  BY PartsTyped
<1>4. /\ pab \in Seq(Seq(AnyWrite)) /\ Len(pab) = Len(ab)
      /\ \A n \in 1..Len(ab) : pab[n] = WriteOf(ab[n], id)
      /\ RowWrites(ab, id) = FlattenSeq(pab)
  BY <1>1, PartsTyped
<1> HIDE DEF pa, pb, pab
<1> DEFINE both == pa \o pb
<1>5. /\ both \in Seq(Seq(AnyWrite)) /\ Len(both) = Len(a) + Len(b)
      /\ \A n \in 1..Len(a) : both[n] = pa[n]
      /\ \A n \in 1..Len(b) : both[Len(a) + n] = pb[n]
  <2>1. /\ both \in Seq(Seq(AnyWrite)) /\ Len(both) = Len(pa) + Len(pb)
        /\ \A n \in 1..Len(pa) : both[n] = pa[n]
        /\ \A n \in 1..Len(pb) : both[Len(pa) + n] = pb[n]
    <3>1. pa \in Seq(Seq(AnyWrite)) /\ pb \in Seq(Seq(AnyWrite))
      BY <1>2, <1>3
    <3> QED
      BY ONLY <3>1, Joined
  <2> HIDE DEF both
  <2> QED
    BY <1>2, <1>3, <2>1
<1>6. FlattenSeq(both) = FlattenSeq(pa) \o FlattenSeq(pb)
  BY <1>2, <1>3, FlattenConcat
<1> HIDE DEF both
<1> DEFINE k == Len(a)
           m == Len(b)
<1>7. k \in Nat /\ m \in Nat /\ Len(ab) = k + m /\ Len(both) = k + m /\ Len(pab) = k + m
  BY <1>1, <1>4, <1>5
<1>8. /\ \A n \in 1..k : ab[n] = a[n] /\ both[n] = WriteOf(a[n], id)
      /\ \A n \in 1..m : ab[k + n] = b[n] /\ both[k + n] = WriteOf(b[n], id)
      /\ \A n \in 1..(k + m) : n \in 1..k \/ n - k \in 1..m
      /\ \A n \in 1..(k + m) : pab[n] = WriteOf(ab[n], id)
  BY <1>1, <1>2, <1>3, <1>4, <1>5
<1> HIDE DEF k, m
<1>9. ASSUME NEW n \in 1..(k + m)
      PROVE  pab[n] = both[n]
  <2>1. CASE n \in 1..k
    BY <1>8, <2>1
  <2>2. CASE n - k \in 1..m
    <3>1. k + (n - k) = n
      BY <1>7
    <3>2. ab[n] = b[n - k] /\ both[n] = WriteOf(b[n - k], id)
      BY <1>8, <2>2, <3>1
    <3> QED
      BY <1>8, <3>2
  <2> QED
    BY <1>8, <2>1, <2>2
<1>10. pab = both
  BY <1>4, <1>5, <1>7, <1>9, SeqEqual
<1> QED
  BY <1>2, <1>3, <1>4, <1>6, <1>10 DEF ab

\* What one call writes.
LEMMA WritesOne ==
    ASSUME NEW id, NEW c \in Call
    PROVE  RowWrites(<<c>>, id) = WriteOf(c, id) /\ WriteOf(c, id) \in Seq(AnyWrite)
<1> DEFINE one == <<c>>
           p   == Parts(one, id)
<1>1. one \in Seq(Call) /\ one # <<>> /\ Len(one) = 1 /\ one[1] = c
  BY OneElement
<1> HIDE DEF one
<1>2. /\ p \in Seq(Seq(AnyWrite)) /\ Len(p) = 1 /\ RowWrites(one, id) = FlattenSeq(p)
      /\ p[1] = WriteOf(c, id)
  <2>1. 1 \in 1..1
    OBVIOUS
  <2> QED
    BY <1>1, <2>1, PartsTyped
<1> HIDE DEF p
<1> DEFINE w == WriteOf(c, id)
<1>3. w \in Seq(AnyWrite)
  <2>1. RowWrite(c) \in AnyWrite
    BY DEF AnyWrite
  <2> QED
    BY <2>1, OneElement DEF WriteOf
<1>4. p # <<>>
  BY <1>2, EmptySeq
<1>5. Tail(p) = <<>>
  <2> DEFINE t == Tail(p)
  <2>1. t \in Seq(Seq(AnyWrite)) /\ Len(t) = 1 - 1
    BY <1>2, <1>4, HeadTailProperties
  <2> HIDE DEF t
  <2>2. Len(t) = 0
    BY <2>1
  <2>3. t = <<>>
    BY <2>1, <2>2, EmptySeq, Zenon
  <2> QED
    BY <2>3 DEF t
<1>6. FlattenSeq(p) = p[1] \o FlattenSeq(Tail(p))
  BY <1>2, <1>4, FlattenHead
<1> HIDE DEF w
<1>7. w \o <<>> = w
  BY <1>3, ConcatEmptySeq
<1>8. FlattenSeq(p) = w
  BY <1>2, <1>5, <1>6, <1>7, FlattenNone DEF w
<1> QED
  BY <1>2, <1>3, <1>8 DEF one, w

\* What the first call writes, and what the others do.
LEMMA WritesHead ==
    ASSUME NEW id, NEW calls \in Seq(Call), calls # <<>>
    PROVE  /\ RowWrites(calls, id) = WriteOf(Head(calls), id) \o RowWrites(Tail(calls), id)
           /\ Head(calls) \in Call /\ Tail(calls) \in Seq(Call)
<1> DEFINE h == Head(calls)
           t == Tail(calls)
           one == <<h>>
<1>1. h \in Call /\ t \in Seq(Call) /\ h = calls[1]
  BY HeadTail
<1>2. one \in Seq(Call)
  BY <1>1
<1>3. calls = one \o t
  BY HeadTailAppend, HeadTailProperties
<1>4. RowWrites(one, id) = WriteOf(h, id)
  BY <1>1, WritesOne
<1> HIDE DEF h, t, one
<1>5. RowWrites(one \o t, id) = RowWrites(one, id) \o RowWrites(t, id)
  BY <1>1, <1>2, WritesConcat
<1> QED
  BY <1>1, <1>3, <1>4, <1>5 DEF h, t

\* The writes of the matches that are left.
MatchParts(list) == [n \in DOMAIN list |-> MatchWrites(list[n])]
RestOf(list)     == FlattenSeq(MatchParts(list))

\* The writes of one match.
LEMMA MatchTyped ==
    ASSUME NEW m \in Match, stmt.set \in [id : Literal, a : Literal]
    PROVE  MatchWrites(m) \in Seq(AnyWrite)
<1>1. m.row \in Row /\ Assigned(m.row) \in Row
  BY AssignedRow DEF Match
<1> DEFINE gone == [pk |-> m.row.id, row |-> Absent]
           put  == [pk |-> Assigned(m.row).id, row |-> Assigned(m.row)]
<1>2. gone \in AnyWrite /\ put \in AnyWrite
  <2>1. m.row.id \in Int /\ Assigned(m.row).id \in Int
    BY <1>1 DEF Row
  <2> QED
    BY <1>1, <2>1 DEF AnyWrite
<1>3. MatchWrites(m) = IF stmt.kind = "delete" THEN <<gone>>
                       ELSE (IF stmt.set.id = Absent THEN <<>> ELSE <<gone>>) \o <<put>>
  BY DEF MatchWrites
<1> HIDE DEF gone, put
<1>4. <<gone>> \in Seq(AnyWrite) /\ <<put>> \in Seq(AnyWrite) /\ <<>> \in Seq(AnyWrite)
  BY <1>2, OneElement
<1> DEFINE g == IF stmt.set.id = Absent THEN <<>> ELSE <<gone>>
           u == <<put>>
<1>5. g \in Seq(AnyWrite) /\ u \in Seq(AnyWrite)
  BY <1>4
<1> HIDE DEF g, u
<1>6. g \o u \in Seq(AnyWrite)
  BY <1>5, ConcatProperties
<1> QED
  BY <1>3, <1>4, <1>6 DEF g, u

\* The writes of matches are lists of lists joined.
LEMMA RestTyped ==
    ASSUME NEW list \in Seq(Match), stmt.set \in [id : Literal, a : Literal]
    PROVE  /\ MatchParts(list) \in Seq(Seq(AnyWrite)) /\ Len(MatchParts(list)) = Len(list)
           /\ \A n \in 1..Len(list) : MatchParts(list)[n] = MatchWrites(list[n])
           /\ RestOf(list) \in Seq(AnyWrite)
<1>1. DOMAIN list = 1..Len(list) /\ Len(list) \in Nat /\ \A n \in 1..Len(list) : list[n] \in Match
  BY LenProperties, ElementOfSeq
<1>2. \A n \in 1..Len(list) : MatchParts(list)[n] = MatchWrites(list[n])
  BY <1>1 DEF MatchParts
<1>3. MatchParts(list) \in [1..Len(list) -> Seq(AnyWrite)]
  BY <1>1, MatchTyped DEF MatchParts
<1> DEFINE p == MatchParts(list)
           N == Len(list)
<1>4. p \in Seq(Seq(AnyWrite)) /\ Len(p) = N
  <2> HIDE DEF p, N
  <2>1. p \in [1..N -> Seq(AnyWrite)] /\ N \in Nat
    BY <1>1, <1>3 DEF p, N
  <2> QED
    BY <2>1
<1>5. FlattenSeq(p) \in Seq(AnyWrite)
  <2> HIDE DEF p
  <2> QED
    BY <1>4, FlattenMembers
<1> QED
  BY <1>2, <1>4, <1>5 DEF RestOf

\* The first match's writes come first.
LEMMA RestHead ==
    ASSUME NEW list \in Seq(Match), list # <<>>, stmt.set \in [id : Literal, a : Literal]
    PROVE  /\ RestOf(list) = MatchWrites(Head(list)) \o RestOf(Tail(list))
           /\ Tail(list) \in Seq(Match) /\ Head(list) \in Match
<1> DEFINE p == MatchParts(list)
           t == Tail(list)
           q == MatchParts(t)
           N == Len(list)
<1>1. /\ Head(list) = list[1] /\ Head(list) \in Match /\ t \in Seq(Match)
      /\ N \in Nat /\ N >= 1 /\ Len(t) = N - 1
      /\ \A n \in 1..(N - 1) : t[n] = list[n + 1] /\ n + 1 \in 2..N
  BY HeadTail
<1>2. /\ p \in Seq(Seq(AnyWrite)) /\ Len(p) = N
      /\ \A n \in 1..N : p[n] = MatchWrites(list[n])
  BY RestTyped
<1> HIDE DEF t
<1>3. /\ q \in Seq(Seq(AnyWrite)) /\ Len(q) = Len(t)
      /\ \A n \in 1..Len(t) : q[n] = MatchWrites(t[n])
  BY <1>1, RestTyped
<1> HIDE DEF p, q, N
<1>4. p # <<>>
  BY <1>1, <1>2, EmptySeq
<1>5. FlattenSeq(p) = p[1] \o FlattenSeq(Tail(p))
  BY <1>2, <1>4, FlattenHead
<1>6. Tail(p) = q
  <2> DEFINE r == Tail(p)
  <2>1. /\ r \in Seq(Seq(AnyWrite)) /\ Len(r) = N - 1
        /\ \A n \in 1..(N - 1) : r[n] = p[n + 1]
    BY <1>2, <1>4, HeadTail
  <2> HIDE DEF r
  <2>2. ASSUME NEW n \in 1..(N - 1)
        PROVE  r[n] = q[n]
    <3>1. n + 1 \in 1..N
      BY <1>1
    <3>2. p[n + 1] = MatchWrites(list[n + 1])
      BY <1>2, <3>1
    <3> QED
      BY <1>1, <1>3, <2>1, <2>2, <3>2
  <2>3. r = q
    BY <1>1, <1>3, <2>1, <2>2, SeqEqual
  <2> QED
    BY <2>3 DEF r
<1>7. p[1] = MatchWrites(Head(list))
  <2>1. 1 \in 1..N
    BY <1>1
  <2> QED
    BY <1>1, <1>2, <2>1
<1> QED
  BY <1>1, <1>5, <1>6, <1>7 DEF RestOf, p, q, t

\* The matches of the statement in progress.
LEMMA PendingIs ==
    ASSUME CatInv, NEW id
    PROVE  /\ PendingWrites(id) = IF pending # <<>> /\ stmt.id = id THEN RestOf(pending) ELSE <<>>
           /\ PendingWrites(id) \in Seq(AnyWrite)
<1>1. PendingWrites(id) = IF pending # <<>> /\ stmt.id = id THEN RestOf(pending) ELSE <<>>
  BY DEF PendingWrites, RestOf, MatchParts
<1>2. pending \in Seq(Match) /\ <<>> \in Seq(AnyWrite)
  BY CatParts
<1>3. pending # <<>> => stmt.set \in [id : Literal, a : Literal]
  BY CatParts, Statements DEF CatInv, ExecTypeOK
<1>4. pending # <<>> => RestOf(pending) \in Seq(AnyWrite)
  BY <1>2, <1>3, RestTyped
<1> QED
  BY <1>1, <1>2, <1>4

-----------------------------------------------------------------------------
(* The rows of a table in a map.                                           *)

\* A call about the table makes its write, and another leaves the table as it is.
LEMMA RowsApplied ==
    ASSUME IdsFit, NEW map \in Map, NEW call \in Call, NEW id \in 0..MaxId
    PROVE  RowsOf(Applied(map, call), id) =
              IF id # 0 /\ unpack_table_id(call.key) = id
              THEN Table!Done(RowsOf(map, id), RowWrite(call)) ELSE RowsOf(map, id)
<1> DEFINE m == Applied(map, call)
           P == 0..PRIMARY_KEY_MASK
           q == unpack_primary_key(call.key)
<1>1. /\ m[call.key] = call.val
      /\ \A k \in StoreKey : k # call.key => m[k] = map[k]
  BY AppliedRow
<1>2. call.key \in StoreKey
  BY DEF Call
<1>3. q \in P /\ call.key = pack_key(unpack_table_id(call.key), q)
  BY <1>2, KeyParts
<1>4. \A p \in P : /\ pack_key(id, p) \in StoreKey /\ unpack_table_id(pack_key(id, p)) = id
                   /\ unpack_primary_key(pack_key(id, p)) = p
  BY KeyOf
<1> HIDE DEF m
<1>5. CASE id = 0
  BY <1>5 DEF RowsOf
<1>6. CASE id # 0 /\ unpack_table_id(call.key) # id
  <2>1. \A p \in P : m[pack_key(id, p)] = map[pack_key(id, p)]
    BY <1>1, <1>4, <1>6
  <2>2. RowsOf(m, id) = RowsOf(map, id)
    BY <2>1 DEF RowsOf
  <2> QED
    BY <1>6, <2>2 DEF m
<1>7. CASE id # 0 /\ unpack_table_id(call.key) = id
  <2> DEFINE before == RowsOf(map, id)
             after  == RowsOf(m, id)
             w      == RowWrite(call)
  <2>1. before = [p \in P |-> IF map[pack_key(id, p)] = Absent THEN Absent ELSE map[pack_key(id, p)].row]
    BY <1>7 DEF RowsOf
  <2>2. after = [p \in P |-> IF m[pack_key(id, p)] = Absent THEN Absent ELSE m[pack_key(id, p)].row]
    BY <1>7 DEF RowsOf
  <2>3. w.pk = q /\ w.row = IF call.val = Absent THEN Absent ELSE call.val.row
    BY DEF RowWrite
  <2>4. ASSUME NEW p \in P
        PROVE  after[p] = IF p = q THEN w.row ELSE before[p]
    <3>1. CASE p = q
      <4>1. pack_key(id, p) = call.key
        BY <1>3, <1>7, <3>1
      <4> HIDE DEF w, before, P, q
      <4> QED
        BY <1>1, <2>2, <2>3, <3>1, <4>1
    <3>2. CASE p # q
      <4>1. pack_key(id, p) # call.key
        BY <1>4, <3>2
      <4>2. m[pack_key(id, p)] = map[pack_key(id, p)]
        BY <1>1, <1>4, <4>1
      <4> HIDE DEF w, P, q
      <4> QED
        BY <2>1, <2>2, <3>2, <4>2
    <3> QED
      BY <3>1, <3>2
  <2>5. DOMAIN before = P /\ DOMAIN after = P
    BY <2>1, <2>2
  <2>6. after = [p \in P |-> after[p]]
    BY <2>2
  <2> HIDE DEF before, after, w
  <2>7. after = [before EXCEPT ![w.pk] = w.row]
    BY <1>3, <2>3, <2>4, <2>5, <2>6
  <2> QED
    BY <1>7, <2>7 DEF Table!Done, before, after, w, m
<1> QED
  BY <1>5, <1>6, <1>7 DEF m

\* The rows of a map are those of tables.
Homed(map, tbl) ==
    \A k \in StoreKey :
        map[k] # Absent /\ map[k].kind = "row" => \E t \in TableName : unpack_table_id(k) = tbl[t]

\* The rows a restart would find for the table are those under its id in memory:
\* under the id of a CREATE TABLE that failed there are none.
LEMMA SameRows ==
    ASSUME IdsFit, NEW map \in Map, NEW nid, NEW tbl, NEW idx, CatOK(map, nid, tbl, idx),
           Homed(map, tbl)
    PROVE  RowsOf(map, Latest(map, "table", TheTable)) = RowsOf(map, tbl[TheTable])
<1> DEFINE id == Latest(map, "table", TheTable)
<1>0. TheTable \in TableName
  BY TableAssumption
<1>1. CASE tbl[TheTable] # 0
  <2>1. LoadedTables(map)[TheTable] = tbl[TheTable]
    BY <1>0, <1>1 DEF CatOK
  <2> QED
    BY <1>0, <2>1 DEF LoadedTables
<1>2. CASE tbl[TheTable] = 0 /\ id # 0
  <2>1. id \in CatalogIds(map, "table") /\ CatalogRow(map, id).name = TheTable
    BY <1>2, LatestRow
  <2>2. id \in 0..MaxId
    BY <2>1 DEF CatalogIds
  <2> HIDE DEF id
  <2>3. ASSUME NEW p \in 0..PRIMARY_KEY_MASK
        PROVE  map[pack_key(id, p)] = Absent
    <3> DEFINE k == pack_key(id, p)
    <3>1. k \in StoreKey /\ unpack_table_id(k) = id
      BY <2>2, KeyOf
    <3> HIDE DEF k
    <3>2. SUFFICES ASSUME map[k] # Absent
                   PROVE  FALSE
      BY DEF k
    <3>3. KeysApart(map)
      BY DEF CatOK
    <3>4. map[k] = RowValue(map[k].row)
      BY <2>1, <3>1, <3>2, <3>3, Blocks
    <3>5. map[k].kind = "row"
      BY <3>4 DEF RowValue
    <3>6. PICK t \in TableName : id = tbl[t]
      BY <3>1, <3>2, <3>5 DEF Homed
    <3>7. id # 0
      BY <1>2 DEF id
    <3>8. CatalogRow(map, id).name = t
      BY <3>6, <3>7, InCatalog
    <3> QED
      BY <1>2, <2>1, <3>6, <3>7, <3>8
  <2>4. RowsOf(map, id) = RowsOf(map, 0)
    BY <2>3 DEF RowsOf
  <2> QED
    BY <1>2, <2>4 DEF id
<1>3. CASE tbl[TheTable] = 0 /\ id = 0
  BY <1>3
<1> QED
  BY <1>1, <1>2, <1>3

-----------------------------------------------------------------------------
(* What the calls of a statement are about.                                *)

\* A table in memory has a row in the catalog, in memory and on disk.
LEMMA TableIds ==
    ASSUME CatInv, NEW t \in TableName
    PROVE  /\ tables[t] \in 0..MaxId
           /\ tables[t] # 0 =>
                 /\ tables[t] \in CatalogIds(store, "table") /\ tables[t] \in CatalogIds(file, "table")
                 /\ tables[t] \notin CatalogIds(store, "index") /\ tables[t] \in 1..MaxId
                 /\ CatalogRow(store, tables[t]) # Absent
<1>1. tables[t] \in 0..MaxId
  BY CatParts
<1>2. tables[t] # 0 => tables[t] \in CatalogIds(store, "table") /\ tables[t] \in CatalogIds(file, "table")
  BY CatParts, InCatalog
<1> QED
  BY <1>1, <1>2, IdsApart DEF CatalogIds

\* A call that stores a row is about a table in memory.
LEMMA RowCallHome ==
    ASSUME IdsFit, CatInv, SyncInv, TableInv, NEW n \in DOMAIN todo,
           todo[n].val # Absent, todo[n].val.kind = "row"
    PROVE  \E t \in TableName : unpack_table_id(todo[n].key) = tables[t]
<1> DEFINE c  == todo[n]
           id == unpack_table_id(c.key)
<1>1. ~ Creating
  <2>1. SUFFICES ASSUME Creating
                 PROVE  FALSE
    OBVIOUS
  <2>2. todo # <<>> /\ todo \in Seq(Call)
    BY CatParts DEF Creating
  <2>3. Head(todo) = todo[1] /\ DOMAIN todo = 1..Len(todo) /\ Len(todo) \in Nat
    BY <2>2, HeadTail
  <2>4. CASE n = 1
    <3>1. Head(todo).val.kind \in {"table", "index"}
      BY <2>1, FirstOfCreate, FirstOfEither
    <3> QED
      BY <2>3, <2>4, <3>1
  <2>5. CASE n # 1
    <3>1. n \in 2..Len(todo)
      BY <2>3, <2>5
    <3>2. todo[n].val = EntryValue
      BY <2>1, <3>1 DEF Creating
    <3> QED
      BY <3>2 DEF EntryValue
  <2> QED
    BY <2>4, <2>5
<1>2. DataCall(c)
  BY <1>1 DEF CatInv, CatalogInv
<1>3. id # CATALOG_TABLE_ID
  BY <1>2 DEF DataCall
<1>4. id = stmt.id
  BY DEF TableInv, OwnRows
<1>5. stmt.kind \notin {"create_table", "create_index"}
  <2>1. stmt.kind \in {"create_table", "create_index"} =>
           id = CATALOG_TABLE_ID \/ c.val = EntryValue
    BY DEF SyncInv, CreatesOwn
  <2> QED
    BY <1>3, <2>1 DEF EntryValue
<1>6. stmt.kind # "none"
  <2>1. stmt.kind = "none" => Idle
    BY CatParts, Statements DEF Idle
  <2>2. todo # <<>>
    OBVIOUS
  <2> QED
    BY <2>1, <2>2, IdleParts
<1>7. stmt.kind \in {"insert", "update", "delete"}
  BY <1>5, <1>6, CatParts, Statements
<1> QED
  BY <1>4, <1>7 DEF CatInv, CatalogInv

\* A call in a table's block is one of a statement about that table: it removes a
\* row there is, or stores one under its own key.
LEMMA OwnCall ==
    ASSUME IdsFit, CatInv, SyncInv, TableInv, NEW n \in DOMAIN todo, NEW t \in TableName,
           unpack_table_id(todo[n].key) = tables[t], tables[t] # 0
    PROVE  /\ ~ Creating
           /\ stmt.id = tables[t] /\ stmt.kind \in {"insert", "update", "delete"}
           /\ todo[n].val # Absent => todo[n].val.kind = "row"
           /\ todo[n].val = Absent => store[todo[n].key] # Absent
<1> DEFINE c  == todo[n]
           id == unpack_table_id(c.key)
<1>1. /\ id # 0 /\ id \in CatalogIds(store, "table") /\ id \notin CatalogIds(store, "index")
      /\ CatalogRow(store, id) # Absent
  BY TableIds
<1>2. ~ Creating
  <2>1. SUFFICES ASSUME Creating
                 PROVE  FALSE
    OBVIOUS
  <2>2. todo # <<>> /\ todo \in Seq(Call)
    BY CatParts DEF Creating
  <2>3. Head(todo) = todo[1] /\ DOMAIN todo = 1..Len(todo) /\ Len(todo) \in Nat
    BY <2>2, HeadTail
  <2>4. CASE n = 1
    BY <1>1, <2>1, <2>3, <2>4, FirstOfEither DEF CATALOG_TABLE_ID
  <2>5. CASE n # 1
    <3>1. n \in 2..Len(todo)
      BY <2>3, <2>5
    <3>2. id = stmt.id
      BY <2>1, <3>1 DEF Creating
    <3> QED
      BY <1>1, <2>1, <3>2 DEF Creating
  <2> QED
    BY <2>4, <2>5
<1>3. DataCall(c)
  BY <1>2 DEF CatInv, CatalogInv
<1>4. c.val # Absent => c.val.kind = "row"
  BY <1>1, <1>3 DEF DataCall
<1>5. id = stmt.id /\ (c.val = Absent => store[c.key] # Absent)
  BY <1>1 DEF TableInv, OwnRows
<1>6. stmt.kind \notin {"create_table", "create_index"}
  <2>1. stmt.kind \in {"create_table", "create_index"} =>
           id = CATALOG_TABLE_ID \/ c.val = EntryValue
    BY DEF SyncInv, CreatesOwn
  <2>2. EntryValue.kind = "entry" /\ EntryValue # Absent
    BY StoredAssumption DEF EntryValue, StoreValue
  <2> QED
    BY <1>1, <1>4, <2>1, <2>2 DEF CATALOG_TABLE_ID
<1>7. stmt.kind # "none"
  <2>1. stmt.kind = "none" => Idle
    BY CatParts, Statements DEF Idle
  <2>2. todo # <<>>
    OBVIOUS
  <2> QED
    BY <2>1, <2>2, IdleParts
<1>8. stmt.kind \in {"insert", "update", "delete"}
  BY <1>6, <1>7, CatParts, Statements
<1> QED
  BY <1>2, <1>4, <1>5, <1>8

-----------------------------------------------------------------------------
(* Rows stay those of tables in memory.                                    *)

\* The first call keeps it so.
LEMMA HomedApplied ==
    ASSUME IdsFit, CatInv, SyncInv, TableInv, todo # <<>>, NEW map \in {store, file}
    PROVE  Homed(Applied(map, Head(todo)), tables)
<1> DEFINE call == Head(todo)
           m    == Applied(map, call)
<1>1. map \in Map /\ call \in Call /\ call = todo[1] /\ 1 \in DOMAIN todo
  BY CatParts, HeadTail
<1> HIDE DEF call
<1>2. /\ m[call.key] = call.val
      /\ \A k \in StoreKey : k # call.key => m[k] = map[k]
  BY <1>1, AppliedRow
<1> HIDE DEF m
<1>3. Homed(map, tables)
  BY DEF TableInv, RowsHomed, Homed
<1>4. call.val # Absent /\ call.val.kind = "row" => \E t \in TableName : unpack_table_id(call.key) = tables[t]
  BY <1>1, RowCallHome
<1>5. Homed(m, tables)
  BY <1>2, <1>3, <1>4 DEF Homed
<1> QED
  BY <1>5 DEF m, call

\* More tables in memory keep it so.
LEMMA HomedLater ==
    ASSUME IdsFit, NEW map \in Map, KeysApart(map), NEW tbl, NEW later,
           \A t \in TableName : tbl[t] # 0 => later[t] = tbl[t],
           Homed(map, tbl)
    PROVE  Homed(map, later)
<1> SUFFICES ASSUME NEW k \in StoreKey, map[k] # Absent, map[k].kind = "row"
             PROVE  \E t \in TableName : unpack_table_id(k) = later[t]
  BY DEF Homed
<1>1. PICK t \in TableName : unpack_table_id(k) = tbl[t]
  BY DEF Homed
<1>2. unpack_table_id(k) \in CatalogIds(map, "table")
  BY DEF KeysApart, Map
<1>3. unpack_table_id(k) # 0
  BY <1>2 DEF CatalogIds
<1> QED
  BY <1>1, <1>3

\* Every step keeps it so.
LEMMA HomedKept ==
    ASSUME IdsFit, CatInv, SyncInv, TableInv, CatInv', [ExecNext]_vars
    PROVE  RowsHomed'
<1>1. Homed(store, tables) /\ Homed(file, tables)
  BY DEF TableInv, RowsHomed, Homed
<1>2. Homed(store', tables') /\ Homed(file', tables') => RowsHomed'
  BY DEF RowsHomed, Homed
<1>3. CASE StoreCall
  <2>1. /\ todo # <<>> /\ store' = Applied(store, Head(todo)) /\ Registered(Head(todo))
        /\ file' = file \/ file' = Applied(file, Head(todo))
    BY <1>3 DEF StoreCall
  <2>2. \A t \in TableName : tables[t] # 0 => tables'[t] = tables[t]
    BY <2>1, FirstRegistered
  <2>3. Homed(store', tables) /\ Homed(file', tables)
    BY <1>1, <2>1, HomedApplied
  <2>4. store' \in Map /\ file' \in Map /\ KeysApart(store') /\ KeysApart(file')
    BY DEF CatInv, ExecTypeOK, CatalogInv, CatalogOK
  <2> QED
    BY <1>2, <2>2, <2>3, <2>4, HomedLater
<1>4. CASE Throw
  <2>1. /\ todo # <<>> /\ tables' = tables
        /\ store' = store \/ store' = Applied(store, Head(todo))
        /\ file' = file \/ file' = Applied(file, Head(todo))
    BY <1>4 DEF Throw, catalog
  <2> QED
    BY <1>1, <1>2, <2>1, HomedApplied
<1>5. CASE Restart
  <2>1. /\ file' = store' /\ tables' = LoadedTables(store')
        /\ \/ store' = file
           \/ todo # <<>> /\ store' = Applied(file, Head(todo))
    <3> DEFINE more == IF todo # <<>> /\ Logged(Head(todo)) THEN {Applied(file, Head(todo))} ELSE {}
    <3>1. store' = file \/ store' \in more
      BY <1>5 DEF Restart
    <3>2. file' = store' /\ tables' = LoadedTables(store')
      BY <1>5 DEF Restart
    <3>3. \A m \in more : todo # <<>> /\ m = Applied(file, Head(todo))
      OBVIOUS
    <3> HIDE DEF more
    <3> QED
      BY <3>1, <3>2, <3>3
  <2>2. Homed(store', tables)
    BY <1>1, <2>1, HomedApplied
  <2>3. CatOK(store', next_id, tables, indexes)
    BY <2>1, CatParts, FirstStored
  <2>4. store' \in Map /\ KeysApart(store')
    BY DEF CatInv, ExecTypeOK, CatalogInv, CatalogOK
  <2>5. \A t \in TableName : tables[t] # 0 => tables'[t] = tables[t]
    BY <2>1, <2>3 DEF CatOK
  <2>6. Homed(store', tables')
    BY <2>2, <2>4, <2>5, HomedLater
  <2> QED
    BY <1>2, <2>1, <2>6
<1>6. CASE Checkpoint
  <2>1. file' = store /\ store' = store /\ tables' = tables
    BY <1>6 DEF Checkpoint, catalog
  <2> QED
    BY <1>1, <1>2, <2>1
<1>7. ASSUME UNCHANGED <<data, catalog>> \/ UNCHANGED <<data, tables, indexes>>
      PROVE  RowsHomed'
  BY <1>1, <1>2, <1>7 DEF data, catalog
<1>8. CASE \/ \E t \in TableName, n \in IndexName, c \in IndexColumn : CreateIndex(n, t, c)
           \/ \E t \in TableName : CreateTable(t)
  BY <1>7, <1>8 DEF CreateIndex, CreateTable
<1>9. CASE \E t \in TableName, i \in IdLiteral, a \in ALiteral : Insert(t, [id |-> i, a |-> a])
  BY <1>7, <1>9 DEF Insert
<1>10. CASE \E t \in TableName, w \in WhereInput : Delete(t, w) \/ \E set \in SetInput : Update(t, set, w)
  BY <1>7, <1>10 DEF Delete, Update, Begin
<1>11. CASE Search \/ UpdateRow \/ DeleteRow \/ Finish
  BY <1>7, <1>11 DEF Search, UpdateRow, DeleteRow, Finish
<1>12. CASE UNCHANGED vars
  BY <1>7, <1>12 DEF vars
<1> QED
  BY <1>3, <1>4, <1>5, <1>6, <1>8, <1>9, <1>10, <1>11, <1>12 DEF ExecNext

-----------------------------------------------------------------------------
(* A statement writes rows of its own table.                               *)

\* No table has the key in its block.
NoTable(k) == \A t \in TableName : tables[t] = 0 \/ unpack_table_id(k) # tables[t]

StoresRow(c) == c.val # Absent /\ c.val.kind = "row"

\* Calls about no table.
Aside(calls) == \A n \in 1..Len(calls) : NoTable(calls[n].key) /\ ~ StoresRow(calls[n])

\* Calls that remove no row.
Puts(calls, own) ==
    \A n \in 1..Len(calls) :
        /\ StoresRow(calls[n]) => unpack_table_id(calls[n].key) = own
        /\ ~ NoTable(calls[n].key) => unpack_table_id(calls[n].key) = own /\ calls[n].val # Absent

\* OwnRows of a list of calls.
First(calls, n) == \A m \in 1..(n - 1) : calls[m].key # calls[n].key
Owned(calls, own) ==
    \A n \in 1..Len(calls) :
        /\ StoresRow(calls[n]) => unpack_table_id(calls[n].key) = own
        /\ ~ NoTable(calls[n].key) =>
              /\ unpack_table_id(calls[n].key) = own
              /\ calls[n].val = Absent => store[calls[n].key] # Absent /\ First(calls, n)

\* Calls of which that holds make up a statement's.
LEMMA OwnedNext ==
    ASSUME todo' \in Seq(Call), store' = store, tables' = tables, Owned(todo', stmt'.id)
    PROVE  OwnRows'
<1>1. DOMAIN todo' = 1..Len(todo')
  BY LenProperties
<1> SUFFICES ASSUME NEW n \in 1..Len(todo')
             PROVE  /\ StoresRow(todo'[n]) => unpack_table_id(todo'[n].key) = stmt'.id
                    /\ unpack_table_id(todo'[n].key) # 0
                       /\ (\E t \in TableName : unpack_table_id(todo'[n].key) = tables[t]) =>
                          /\ unpack_table_id(todo'[n].key) = stmt'.id
                          /\ todo'[n].val = Absent => store[todo'[n].key] # Absent /\ First(todo', n)
  BY <1>1 DEF OwnRows, First, StoresRow
<1> QED
  BY DEF Owned, NoTable

\* Calls about no table write none of its rows.
LEMMA AsideAny ==
    ASSUME NEW calls, Aside(calls)
    PROVE  /\ \A own : Owned(calls, own) /\ Puts(calls, own)
           /\ \A t \in TableName : tables[t] = 0 \/ Foreign(calls, tables[t])
BY DEF Aside, Owned, Puts, Foreign, NoTable

\* Calls that remove no row may come last.
LEMMA OwnedPuts ==
    ASSUME NEW own, NEW a \in Seq(Call), NEW b \in Seq(Call), Owned(a, own), Puts(b, own)
    PROVE  Owned(a \o b, own) /\ a \o b \in Seq(Call)
<1> DEFINE ab == a \o b
           k  == Len(a)
<1>1. /\ ab \in Seq(Call) /\ Len(ab) = k + Len(b) /\ k \in Nat /\ Len(b) \in Nat
      /\ \A n \in 1..k : ab[n] = a[n]
      /\ \A n \in 1..Len(b) : ab[k + n] = b[n]
      /\ \A n \in 1..(k + Len(b)) : n \in 1..k \/ n - k \in 1..Len(b)
  BY Joined
<1> HIDE DEF ab, k
<1>2. ASSUME NEW n \in 1..Len(ab)
      PROVE  /\ StoresRow(ab[n]) => unpack_table_id(ab[n].key) = own
             /\ ~ NoTable(ab[n].key) =>
                   /\ unpack_table_id(ab[n].key) = own
                   /\ ab[n].val = Absent => store[ab[n].key] # Absent /\ First(ab, n)
  <2>1. CASE n \in 1..k
    <3>1. ab[n] = a[n]
      BY <1>1, <2>1
    <3>2. ASSUME First(a, n)
          PROVE  First(ab, n)
      <4>1. \A m \in 1..(n - 1) : m \in 1..k
        BY <1>1, <2>1
      <4> QED
        BY <1>1, <3>1, <3>2, <4>1 DEF First
    <3> QED
      BY <2>1, <3>1, <3>2 DEF Owned, k
  <2>2. CASE n - k \in 1..Len(b)
    <3>1. k + (n - k) = n
      BY <1>1
    <3>2. ab[n] = b[n - k]
      BY <1>1, <2>2, <3>1
    <3> QED
      BY <2>2, <3>2 DEF Puts
  <2> QED
    BY <1>1, <2>1, <2>2
<1>3. Owned(ab, own)
  BY <1>2 DEF Owned
<1> QED
  BY <1>1, <1>3 DEF ab

\* The removal of a row may come behind calls about no table.
LEMMA OwnedRemove ==
    ASSUME NEW own, NEW a \in Seq(Call), Aside(a), NEW key \in StoreKey,
           unpack_table_id(key) = own, store[key] # Absent
    PROVE  Owned(a \o <<RemoveCall(key)>>, own) /\ a \o <<RemoveCall(key)>> \in Seq(Call)
<1> DEFINE c   == RemoveCall(key)
           one == <<c>>
           ab  == a \o one
           k   == Len(a)
<1>1. c \in Call /\ c.key = key /\ c.val = Absent
  BY DEF RemoveCall, Call
<1> HIDE DEF c
<1>2. one \in Seq(Call) /\ Len(one) = 1 /\ one[1] = c
  BY <1>1, OneElement
<1> HIDE DEF one
<1>3. /\ ab \in Seq(Call) /\ Len(ab) = k + 1 /\ k \in Nat
      /\ \A n \in 1..k : ab[n] = a[n]
      /\ \A n \in 1..1 : ab[k + n] = one[n]
  <2>1. /\ ab \in Seq(Call) /\ Len(ab) = Len(a) + Len(one) /\ Len(a) \in Nat
        /\ \A n \in 1..Len(a) : ab[n] = a[n]
        /\ \A n \in 1..Len(one) : ab[Len(a) + n] = one[n]
    <3>1. one \in Seq(Call)
      BY <1>2
    <3> QED
      BY <3>1, Joined
  <2> HIDE DEF ab
  <2> QED
    BY <1>2, <2>1
<1> HIDE DEF ab, k
<1>4. ab[k + 1] = c
  <2>1. 1 \in 1..1
    OBVIOUS
  <2> QED
    BY <1>2, <1>3, <2>1
<1>5. \A n \in 1..k : NoTable(ab[n].key) /\ ~ StoresRow(ab[n])
  BY <1>3 DEF Aside, k
<1>6. ASSUME NEW n \in 1..Len(ab)
      PROVE  /\ StoresRow(ab[n]) => unpack_table_id(ab[n].key) = own
             /\ ~ NoTable(ab[n].key) =>
                   /\ unpack_table_id(ab[n].key) = own
                   /\ ab[n].val = Absent => store[ab[n].key] # Absent /\ First(ab, n)
  <2>1. CASE n \in 1..k
    BY <1>5, <2>1
  <2>2. CASE n = k + 1
    <3>1. n - 1 = k /\ ab[n] = c
      BY <1>3, <1>4, <2>2
    <3>2. ~ StoresRow(c)
      BY <1>1 DEF StoresRow
    <3>3. ASSUME ~ NoTable(key)
          PROVE  First(ab, n)
      BY <1>1, <1>5, <3>1, <3>3 DEF First
    <3> QED
      BY <1>1, <3>1, <3>2, <3>3
  <2> QED
    BY <1>3, <2>1, <2>2
<1>7. Owned(ab, own)
  BY <1>6 DEF Owned
<1> QED
  BY <1>3, <1>7 DEF ab, one, c

\* The calls for the indexes of a table are about no table.
LEMMA SyncAside ==
    ASSUME IdsFit, CatInv, NEW id, NEW old \in Seq(KeyedRow), NEW new \in Seq(KeyedRow)
    PROVE  sync_indexes(id, old, new) \in Seq(Call) /\ Aside(sync_indexes(id, old, new))
<1> DEFINE list == sync_indexes(id, old, new)
<1>1. /\ list \in Seq(Call)
      /\ \A i \in 1..Len(list) : \E n \in indexes_for_table(id) : SyncCall(list[i], n, old, new)
  BY CatParts, SyncIndexes
<1> HIDE DEF list
<1>2. ASSUME NEW i \in 1..Len(list)
      PROVE  NoTable(list[i].key) /\ ~ StoresRow(list[i])
  <2>1. PICK n \in indexes_for_table(id) : SyncCall(list[i], n, old, new)
    BY <1>1
  <2>2. n \in IndexName /\ indexes[n] # NoIndex
    BY DEF indexes_for_table
  <2>3. indexes[n].id \in CatalogIds(store, "index")
    BY <2>2, IndexFacts
  <2>4. /\ \A j \in 1..Len(old) : old[j] \in KeyedRow
        /\ \A j \in 1..Len(new) : new[j] \in KeyedRow
    BY ElementOfSeq
  <2>5. unpack_table_id(list[i].key) = indexes[n].id
    BY <2>1, <2>2, <2>4, CatParts, EntryKeyOf DEF SyncCall
  <2>6. ~ StoresRow(list[i])
    BY <2>1 DEF SyncCall, StoresRow, EntryValue
  <2>7. NoTable(list[i].key)
    BY <2>3, <2>5, TableIds DEF NoTable
  <2> QED
    BY <2>6, <2>7
<1>3. Aside(list)
  BY <1>2 DEF Aside
<1> QED
  BY <1>1, <1>3 DEF list

\* A call that stores a row.
LEMMA PutRow ==
    ASSUME NEW key \in StoreKey, NEW row \in Row
    PROVE  /\ PutCall(key, RowValue(row)) \in Call
           /\ <<PutCall(key, RowValue(row))>> \in Seq(Call)
           /\ Puts(<<PutCall(key, RowValue(row))>>, unpack_table_id(key))
           /\ RowWrite(PutCall(key, RowValue(row))) = [pk |-> unpack_primary_key(key), row |-> row]
<1> DEFINE v == RowValue(row)
           c == PutCall(key, v)
<1>1. v \in StoreValue /\ v # Absent /\ v.row = row
  BY StoredAssumption DEF RowValue, StoreValue
<1> HIDE DEF v
<1>2. c \in Call /\ c.key = key /\ c.val = v
  BY <1>1 DEF PutCall, Call
<1>3. RowWrite(c) = [pk |-> unpack_primary_key(key), row |-> row]
  BY <1>1, <1>2 DEF RowWrite
<1> HIDE DEF c
<1>4. <<c>> \in Seq(Call) /\ Len(<<c>>) = 1 /\ <<c>>[1] = c
  BY <1>2, OneElement
<1>5. Puts(<<c>>, unpack_table_id(key))
  BY <1>1, <1>2, <1>4 DEF Puts
<1> QED
  BY <1>2, <1>3, <1>4, <1>5 DEF c, v

\* A call that removes what is under a key.
LEMMA RemoveOne ==
    ASSUME NEW key \in StoreKey
    PROVE  /\ RemoveCall(key) \in Call /\ <<RemoveCall(key)>> \in Seq(Call)
           /\ RowWrite(RemoveCall(key)) = [pk |-> unpack_primary_key(key), row |-> Absent]
<1>1. RemoveCall(key) \in Call /\ RemoveCall(key).key = key /\ RemoveCall(key).val = Absent
  BY DEF RemoveCall, Call
<1>2. RowWrite(RemoveCall(key)) = [pk |-> unpack_primary_key(key), row |-> Absent]
  BY <1>1 DEF RowWrite
<1> DEFINE c == RemoveCall(key)
<1>3. c \in Call
  BY <1>1
<1> HIDE DEF c
<1>4. <<c>> \in Seq(Call)
  BY <1>3, OneElement
<1> QED
  BY <1>1, <1>2, <1>4 DEF c

\* The calls of an UPDATE for a row, those for the indexes left out.
LEMMA WritesBetween ==
    ASSUME NEW id, NEW a \in Seq(Call), NEW b \in Seq(Call), NEW c \in Seq(Call), NEW d \in Seq(Call),
           RowWrites(a, id) = <<>>, RowWrites(d, id) = <<>>
    PROVE  RowWrites(((a \o b) \o c) \o d, id) = RowWrites(b, id) \o RowWrites(c, id)
<1> DEFINE ab   == a \o b
           abc  == ab \o c
           wb   == RowWrites(b, id)
           wc   == RowWrites(c, id)
<1>1. ab \in Seq(Call)
  BY ConcatProperties
<1>2. wb \in Seq(AnyWrite) /\ wc \in Seq(AnyWrite)
  BY PartsTyped
<1>3. RowWrites(ab, id) = RowWrites(a, id) \o wb
  BY WritesConcat
<1>4. RowWrites(ab, id) = wb
  <2> HIDE DEF wb, ab
  <2>1. <<>> \o wb = wb
    BY <1>2, ConcatEmptySeq
  <2> QED
    BY <1>3, <2>1
<1> HIDE DEF ab
<1>5. abc \in Seq(Call)
  BY <1>1, ConcatProperties
<1>6. RowWrites(abc, id) = wb \o wc
  <2>1. RowWrites(abc, id) = RowWrites(ab, id) \o wc
    BY <1>1, WritesConcat
  <2> HIDE DEF abc, wb, wc
  <2> QED
    BY <1>4, <2>1
<1> HIDE DEF abc
<1>7. RowWrites(abc \o d, id) = RowWrites(abc, id) \o RowWrites(d, id)
  BY <1>5, WritesConcat
<1> DEFINE both == wb \o wc
<1>8. both \in Seq(AnyWrite)
  <2> HIDE DEF wb, wc
  <2> QED
    BY <1>2, ConcatProperties
<1>9. both \o <<>> = both
  <2> HIDE DEF both
  <2> QED
    BY <1>8, ConcatEmptySeq
<1>10. RowWrites(abc \o d, id) = both
  BY <1>6, <1>7, <1>9
<1> QED
  BY <1>10 DEF ab, abc

\* INSERT writes its row, under the key it says, to its table only.
LEMMA InsertCalls ==
    ASSUME IdsFit, CatInv, SyncInv, NEW table \in TableName, NEW i \in IdLiteral, NEW a \in ALiteral,
           Insert(table, [id |-> i, a |-> a])
    PROVE  /\ OwnRows'
           /\ tables[table] # 0 /\ i \in 0..PRIMARY_KEY_MASK /\ a \in Int
           /\ \A t \in TableName :
                 RowWrites(todo', tables[t]) = IF tables[t] = tables[table]
                                               THEN <<[pk |-> i, row |-> [id |-> i, a |-> a]]>> ELSE <<>>
<1> DEFINE row == [id |-> i, a |-> a]
           id  == tables[table]
           key == pack_key(id, i)
           old == IF store[key] = Absent THEN <<>> ELSE <<[pk |-> i, row |-> store[key].row]>>
           new == <<[pk |-> i, row |-> row]>>
           put == <<PutCall(key, RowValue(row))>>
           sync == sync_indexes(id, old, new)
<1>1. /\ Idle /\ id # 0 /\ ValueOk(id, "id", i) /\ ValueOk(id, "a", a)
      /\ todo' = put \o sync
      /\ stmt' = [kind |-> "insert", id |-> id]
      /\ store' = store /\ tables' = tables
  BY DEF Insert, data, catalog, faults, Column
<1>2. i \in Int /\ a \in Int /\ i \in 0..PRIMARY_KEY_MASK
  <2>1. i \in Int \cup {Text} /\ a \in Int \cup {Text}
    BY ExecAssumption
  <2>2. i # Text /\ a # Text
    BY <1>1 DEF ValueOk
  <2>3. i \in Int
    BY <2>1, <2>2
  <2> QED
    BY <1>1, <2>1, <2>2, <2>3, KeyAllowed
<1>3. row \in Row
  BY <1>2 DEF Row
<1>4. id \in CatalogIds(store, "table") /\ id \in 0..MaxId
  BY <1>1, TableIds
<1>5. key \in StoreKey /\ unpack_table_id(key) = id /\ unpack_primary_key(key) = i
  BY <1>2, <1>4, KeyOf
<1> HIDE DEF key, row
<1>6. old \in Seq(KeyedRow) /\ new \in Seq(KeyedRow)
  <2>1. [pk |-> i, row |-> row] \in KeyedRow
    BY <1>2, <1>3 DEF KeyedRow
  <2>2. store[key] # Absent => [pk |-> i, row |-> store[key].row] \in KeyedRow
    BY <1>4, <1>5, StoredRow
  <2> QED
    BY <2>1, <2>2, OneElement
<1> HIDE DEF old, new
<1>7. sync \in Seq(Call) /\ Aside(sync)
  BY <1>6, SyncAside
<1>8. /\ PutCall(key, RowValue(row)) \in Call /\ put \in Seq(Call) /\ Puts(put, id)
      /\ RowWrite(PutCall(key, RowValue(row))) = [pk |-> i, row |-> row]
      /\ PutCall(key, RowValue(row)).key = key
  BY <1>3, <1>5, PutRow DEF PutCall
<1> HIDE DEF sync
<1>9. Owned(put, id)
  BY <1>8 DEF Puts, Owned
<1>10. Puts(sync, id)
  BY <1>7, AsideAny
<1> DEFINE c == PutCall(key, RowValue(row))
<1>11. \A t \in TableName : RowWrites(put, tables[t]) = WriteOf(c, tables[t])
  <2> HIDE DEF c
  <2>1. c \in Call /\ put = <<c>>
    BY <1>8 DEF c
  <2> QED
    BY <2>1, WritesOne
<1> HIDE DEF c, put
<1>12. OwnRows'
  <2>1. Owned(put \o sync, id) /\ put \o sync \in Seq(Call)
    BY <1>7, <1>8, <1>9, <1>10, OwnedPuts
  <2>2. Owned(todo', stmt'.id) /\ todo' \in Seq(Call)
    BY <1>1, <2>1
  <2> QED
    BY <1>1, <2>2, OwnedNext
<1>13. ASSUME NEW t \in TableName
       PROVE  RowWrites(todo', tables[t]) = IF tables[t] = id THEN <<[pk |-> i, row |-> row]>> ELSE <<>>
  <2> DEFINE w == RowWrites(put, tables[t])
  <2>1. RowWrites(sync, tables[t]) = <<>>
    BY <1>7, AsideAny, ForeignWrites
  <2>2. RowWrites(put \o sync, tables[t]) = w \o RowWrites(sync, tables[t])
    BY <1>7, <1>8, WritesConcat
  <2>3. w \in Seq(AnyWrite)
    BY <1>8, PartsTyped
  <2>4. w \o <<>> = w
    <3> HIDE DEF w
    <3> QED
      BY <2>3, ConcatEmptySeq
  <2>5. RowWrites(todo', tables[t]) = WriteOf(c, tables[t])
    BY <1>1, <1>11, <2>1, <2>2, <2>4
  <2>6. WriteOf(c, tables[t]) = IF tables[t] = id THEN <<[pk |-> i, row |-> row]>> ELSE <<>>
    BY <1>1, <1>5, <1>8 DEF WriteOf, c
  <2> QED
    BY <2>5, <2>6
<1> QED
  BY <1>1, <1>2, <1>12, <1>13 DEF row

\* UPDATE writes what it has to for the next match.
LEMMA UpdateCalls ==
    ASSUME IdsFit, CatInv, SyncInv, UpdateRow
    PROVE  /\ OwnRows'
           /\ \A t \in TableName :
                 RowWrites(todo', tables[t]) = IF tables[t] = stmt.id THEN MatchWrites(Head(pending)) ELSE <<>>
<1> DEFINE m         == Head(pending)
           row       == Assigned(m.row)
           moves     == stmt.set.id # Absent
           new_key   == IF moves THEN pack_key(stmt.id, row.id) ELSE m.key
           displaced == IF moves /\ new_key # m.key /\ store[new_key] # Absent
                        THEN <<[pk |-> unpack_primary_key(new_key), row |-> store[new_key].row]>>
                        ELSE <<>>
           old       == <<[pk |-> unpack_primary_key(m.key), row |-> m.row]>>
           new       == <<[pk |-> unpack_primary_key(new_key), row |-> row]>>
           none      == <<>>
           gone      == IF moves THEN <<RemoveCall(m.key)>> ELSE <<>>
           put       == <<PutCall(new_key, RowValue(row))>>
           front     == sync_indexes(stmt.id, displaced, none)
           back      == sync_indexes(stmt.id, old, new)
<1>1. /\ pending # <<>> /\ ~ Searching /\ todo = <<>> /\ stmt.kind = "update"
      /\ todo' = ((front \o gone) \o put) \o back
      /\ store' = store /\ tables' = tables /\ stmt' = stmt
  BY DEF UpdateRow, data, catalog
<1>2. /\ m.key \in StoreKey /\ m.row \in Row /\ unpack_table_id(m.key) = stmt.id
      /\ stmt.id \in CatalogIds(store, "table") /\ stmt.id \in 0..MaxId
      /\ unpack_primary_key(m.key) \in 0..PRIMARY_KEY_MASK
      /\ store[m.key] = RowValue(m.row) /\ RowValue(m.row) # Absent
      /\ m.row.id = unpack_primary_key(m.key)
      /\ stmt.set \in [id : Literal, a : Literal]
  BY <1>1, MatchStored
<1>3. row \in Row /\ row.id \in Int
  <2>1. row \in Row
    BY <1>2, AssignedRow
  <2> HIDE DEF row
  <2> QED
    BY <2>1 DEF Row
<1>4. moves => row.id \in 0..PRIMARY_KEY_MASK
  <2>1. SUFFICES ASSUME moves
                 PROVE  row.id \in 0..PRIMARY_KEY_MASK
    OBVIOUS
  <2>2. ValueOk(stmt.id, "id", stmt.set.id) /\ row.id = stmt.set.id /\ stmt.set.id \in Int
    BY <1>1, <1>3, <2>1 DEF SyncInv, AssignsOk, Column, Assigned
  <2> QED
    BY <2>2, KeyAllowed
<1>5. ~ moves => row.id = m.row.id
  BY DEF Assigned
<1> HIDE DEF m, row
<1>6. new_key \in StoreKey /\ unpack_table_id(new_key) = stmt.id /\ unpack_primary_key(new_key) = row.id
  <2>1. CASE moves
    BY <1>2, <1>4, <2>1, KeyOf
  <2>2. CASE ~ moves
    BY <1>2, <1>5, <2>2
  <2> QED
    BY <2>1, <2>2
<1> DEFINE wgone == [pk |-> m.row.id, row |-> Absent]
           wput  == [pk |-> row.id, row |-> row]
<1>7. MatchWrites(m) = (IF moves THEN <<wgone>> ELSE <<>>) \o <<wput>>
  <2>1. stmt.kind # "delete" /\ row = Assigned(m.row)
    BY <1>1 DEF row
  <2> QED
    BY <2>1 DEF MatchWrites
<1> HIDE DEF new_key
<1>8. displaced \in Seq(KeyedRow) /\ old \in Seq(KeyedRow) /\ new \in Seq(KeyedRow) /\ none \in Seq(KeyedRow)
  <2>1. store[new_key] # Absent => [pk |-> unpack_primary_key(new_key), row |-> store[new_key].row] \in KeyedRow
    BY <1>2, <1>6, StoredRow
  <2>2. [pk |-> unpack_primary_key(new_key), row |-> row] \in KeyedRow
    BY <1>3, <1>6, KeyParts DEF KeyedRow
  <2>3. [pk |-> unpack_primary_key(m.key), row |-> m.row] \in KeyedRow
    BY <1>2 DEF KeyedRow
  <2> QED
    BY <2>1, <2>2, <2>3, OneElement
<1> HIDE DEF displaced, old, new, none
<1>9. front \in Seq(Call) /\ Aside(front) /\ back \in Seq(Call) /\ Aside(back)
  BY <1>8, SyncAside
<1> HIDE DEF front, back
<1>10. /\ PutCall(new_key, RowValue(row)) \in Call /\ put \in Seq(Call) /\ Puts(put, stmt.id)
       /\ RowWrite(PutCall(new_key, RowValue(row))) = wput
       /\ PutCall(new_key, RowValue(row)).key = new_key
  BY <1>3, <1>6, PutRow DEF PutCall
<1>11. /\ RemoveCall(m.key) \in Call /\ <<RemoveCall(m.key)>> \in Seq(Call)
       /\ RowWrite(RemoveCall(m.key)) = wgone /\ RemoveCall(m.key).key = m.key
  BY <1>2, RemoveOne DEF RemoveCall
<1>12. gone \in Seq(Call)
  BY <1>11
<1>13. Owned(front \o gone, stmt.id) /\ front \o gone \in Seq(Call)
  <2>1. CASE moves
    <3>1. Owned(front \o <<RemoveCall(m.key)>>, stmt.id) /\ front \o <<RemoveCall(m.key)>> \in Seq(Call)
      BY <1>2, <1>9, OwnedRemove
    <3> QED
      BY <2>1, <3>1
  <2>2. CASE ~ moves
    <3>1. front \o <<>> = front
      BY <1>9, ConcatEmptySeq
    <3>2. gone = <<>>
      BY <2>2
    <3> QED
      BY <1>9, <3>1, <3>2, AsideAny
  <2> QED
    BY <2>1, <2>2
<1> DEFINE c == PutCall(new_key, RowValue(row))
           r == RemoveCall(m.key)
<1>14. /\ \A t \in TableName : RowWrites(put, tables[t]) = WriteOf(c, tables[t])
       /\ \A t \in TableName : RowWrites(gone, tables[t]) = IF moves THEN WriteOf(r, tables[t]) ELSE <<>>
  <2>1. c \in Call /\ put = <<c>> /\ r \in Call /\ gone = IF moves THEN <<r>> ELSE <<>>
    BY <1>10, <1>11
  <2> HIDE DEF c, r, put, gone
  <2>2. \A t \in TableName : RowWrites(<<>>, tables[t]) = <<>>
    <3>1. <<>> \in Seq(Call) /\ \A t \in TableName : Foreign(<<>>, tables[t])
      BY DEF Foreign
    <3> QED
      BY <3>1, ForeignWrites
  <2> QED
    BY <2>1, <2>2, WritesOne
<1> HIDE DEF c, r, put, gone, moves
<1>15. OwnRows'
  <2>1. Owned((front \o gone) \o put, stmt.id) /\ (front \o gone) \o put \in Seq(Call)
    <3> DEFINE fg == front \o gone
    <3>1. fg \in Seq(Call) /\ Owned(fg, stmt.id)
      BY <1>13
    <3> HIDE DEF fg
    <3>2. Owned(fg \o put, stmt.id) /\ fg \o put \in Seq(Call)
      BY <1>10, <3>1, OwnedPuts
    <3> QED
      BY <3>2 DEF fg
  <2>2. Owned(((front \o gone) \o put) \o back, stmt.id) /\ ((front \o gone) \o put) \o back \in Seq(Call)
    <3> DEFINE fgp == (front \o gone) \o put
    <3>1. fgp \in Seq(Call) /\ Owned(fgp, stmt.id)
      BY <2>1
    <3>2. Puts(back, stmt.id)
      BY <1>9, AsideAny
    <3> HIDE DEF fgp
    <3>3. Owned(fgp \o back, stmt.id) /\ fgp \o back \in Seq(Call)
      BY <1>9, <3>1, <3>2, OwnedPuts
    <3> QED
      BY <3>3 DEF fgp
  <2>3. Owned(todo', stmt'.id) /\ todo' \in Seq(Call)
    BY <1>1, <2>2
  <2> QED
    BY <1>1, <2>3, OwnedNext
<1>16. ASSUME NEW t \in TableName
       PROVE  RowWrites(todo', tables[t]) = IF tables[t] = stmt.id THEN MatchWrites(m) ELSE <<>>
  <2>1. RowWrites(front, tables[t]) = <<>> /\ RowWrites(back, tables[t]) = <<>>
    BY <1>9, AsideAny, ForeignWrites
  <2>2. RowWrites(todo', tables[t]) = RowWrites(gone, tables[t]) \o RowWrites(put, tables[t])
    <3> DEFINE id == tables[t]
    <3>1. /\ front \in Seq(Call) /\ gone \in Seq(Call) /\ put \in Seq(Call) /\ back \in Seq(Call)
          /\ RowWrites(front, id) = <<>> /\ RowWrites(back, id) = <<>>
      BY <1>9, <1>10, <1>12, <2>1
    <3> HIDE DEF id
    <3>2. RowWrites(((front \o gone) \o put) \o back, id) = RowWrites(gone, id) \o RowWrites(put, id)
      BY ONLY <3>1, WritesBetween
    <3>3. RowWrites(todo', id) = RowWrites(gone, id) \o RowWrites(put, id)
      BY <1>1, <3>2
    <3> QED
      BY <3>3 DEF id
  <2>3. stmt.id # 0
    BY <1>2 DEF CatalogIds
  <2>4. WriteOf(c, tables[t]) = IF tables[t] = stmt.id THEN <<wput>> ELSE <<>>
    BY <1>6, <1>10, <2>3 DEF WriteOf, c
  <2>5. WriteOf(r, tables[t]) = IF tables[t] = stmt.id THEN <<wgone>> ELSE <<>>
    BY <1>2, <1>11, <2>3 DEF WriteOf, r
  <2> HIDE DEF wput, wgone
  <2>6. CASE tables[t] = stmt.id
    BY <1>7, <1>14, <2>2, <2>4, <2>5, <2>6
  <2>7. CASE tables[t] # stmt.id
    <3>1. RowWrites(gone, tables[t]) = <<>> /\ RowWrites(put, tables[t]) = <<>>
      BY <1>14, <2>4, <2>5, <2>7
    <3>2. <<>> \o <<>> = <<>>
      OBVIOUS
    <3> QED
      BY <2>2, <2>7, <3>1, <3>2
  <2> QED
    BY <2>6, <2>7
<1> QED
  BY <1>15, <1>16 DEF m

\* DELETE removes the next match.
LEMMA DeleteCalls ==
    ASSUME IdsFit, CatInv, SyncInv, DeleteRow
    PROVE  /\ OwnRows'
           /\ \A t \in TableName :
                 RowWrites(todo', tables[t]) = IF tables[t] = stmt.id THEN MatchWrites(Head(pending)) ELSE <<>>
<1> DEFINE m    == Head(pending)
           old  == <<[pk |-> unpack_primary_key(m.key), row |-> m.row]>>
           none == <<>>
           r    == RemoveCall(m.key)
           gone == <<r>>
           back == sync_indexes(stmt.id, old, none)
<1>1. /\ pending # <<>> /\ ~ Searching /\ todo = <<>> /\ stmt.kind = "delete"
      /\ todo' = gone \o back
      /\ store' = store /\ tables' = tables /\ stmt' = stmt
  BY DEF DeleteRow, data, catalog
<1>2. /\ m.key \in StoreKey /\ m.row \in Row /\ unpack_table_id(m.key) = stmt.id
      /\ stmt.id \in CatalogIds(store, "table") /\ stmt.id \in 0..MaxId
      /\ unpack_primary_key(m.key) \in 0..PRIMARY_KEY_MASK
      /\ store[m.key] = RowValue(m.row) /\ RowValue(m.row) # Absent
      /\ m.row.id = unpack_primary_key(m.key)
  BY <1>1, MatchStored
<1> HIDE DEF m
<1>3. old \in Seq(KeyedRow) /\ none \in Seq(KeyedRow)
  <2>1. [pk |-> unpack_primary_key(m.key), row |-> m.row] \in KeyedRow
    BY <1>2 DEF KeyedRow
  <2> QED
    BY <2>1, OneElement
<1> HIDE DEF old, none
<1>4. back \in Seq(Call) /\ Aside(back)
  BY <1>3, SyncAside
<1> HIDE DEF back
<1> DEFINE wgone == [pk |-> m.row.id, row |-> Absent]
<1>5. MatchWrites(m) = <<wgone>>
  BY <1>1 DEF MatchWrites
<1>6. r \in Call /\ gone \in Seq(Call) /\ RowWrite(r) = wgone /\ r.key = m.key
  BY <1>2, RemoveOne DEF RemoveCall
<1>7. Owned(gone, stmt.id)
  <2> DEFINE nothing == <<>>
  <2>1. nothing \in Seq(Call) /\ Aside(nothing)
    BY DEF Aside
  <2> HIDE DEF nothing
  <2>2. Owned(nothing \o <<RemoveCall(m.key)>>, stmt.id)
    BY <1>2, <2>1, OwnedRemove
  <2>3. nothing \o gone = gone
    <3> HIDE DEF gone
    <3> QED
      BY <1>6, ConcatEmptySeq DEF nothing
  <2> QED
    BY <2>2, <2>3
<1>8. \A t \in TableName : RowWrites(gone, tables[t]) = WriteOf(r, tables[t])
  <2> HIDE DEF r
  <2> QED
    BY <1>6, WritesOne
<1> HIDE DEF r, gone, wgone
<1>9. OwnRows'
  <2>1. Puts(back, stmt.id)
    BY <1>4, AsideAny
  <2>2. Owned(gone \o back, stmt.id) /\ gone \o back \in Seq(Call)
    BY <1>4, <1>6, <1>7, <2>1, OwnedPuts
  <2>3. Owned(todo', stmt'.id) /\ todo' \in Seq(Call)
    BY <1>1, <2>2
  <2> QED
    BY <1>1, <2>3, OwnedNext
<1>10. ASSUME NEW t \in TableName
       PROVE  RowWrites(todo', tables[t]) = IF tables[t] = stmt.id THEN MatchWrites(m) ELSE <<>>
  <2> DEFINE w == RowWrites(gone, tables[t])
  <2>1. RowWrites(back, tables[t]) = <<>>
    BY <1>4, AsideAny, ForeignWrites
  <2>2. RowWrites(gone \o back, tables[t]) = w \o RowWrites(back, tables[t])
    BY <1>4, <1>6, WritesConcat
  <2>3. w \in Seq(AnyWrite)
    BY <1>6, PartsTyped
  <2>4. w \o <<>> = w
    <3> HIDE DEF w
    <3> QED
      BY <2>3, ConcatEmptySeq
  <2>5. RowWrites(todo', tables[t]) = WriteOf(r, tables[t])
    BY <1>1, <1>8, <2>1, <2>2, <2>4
  <2>6. stmt.id # 0
    BY <1>2 DEF CatalogIds
  <2>7. WriteOf(r, tables[t]) = IF tables[t] = stmt.id THEN <<wgone>> ELSE <<>>
    BY <1>2, <1>6, <2>6 DEF WriteOf
  <2> QED
    BY <1>5, <2>5, <2>7
<1> QED
  BY <1>9, <1>10 DEF m

\* A CREATE that has not made its first call writes to no table.
LEMMA CreatingOwns == IdsFit /\ CatInv /\ Creating => OwnRows /\ Aside(todo)
<1> SUFFICES ASSUME IdsFit, CatInv, Creating
             PROVE  OwnRows /\ Aside(todo)
  OBVIOUS
<1>1. todo # <<>> /\ todo \in Seq(Call)
  BY CatParts DEF Creating
<1>2. Head(todo) = todo[1] /\ DOMAIN todo = 1..Len(todo) /\ Len(todo) \in Nat
  BY <1>1, HeadTail
<1>3. \A t \in TableName : stmt.id # tables[t]
  <2>1. stmt.id # 0 /\ CatalogRow(store, stmt.id) = Absent
    <3>1. stmt.id \in 1..MaxId
      BY FirstOfCreate
    <3> QED
      BY <3>1 DEF Creating
  <2> QED
    BY <2>1, TableIds
<1>4. ASSUME NEW n \in DOMAIN todo
      PROVE  /\ ~ StoresRow(todo[n])
             /\ unpack_table_id(todo[n].key) # 0 =>
                   \A t \in TableName : unpack_table_id(todo[n].key) # tables[t]
  <2>1. CASE n = 1
    <3>1. /\ unpack_table_id(Head(todo).key) = 0
          /\ Head(todo).val.kind \in {"table", "index"}
      BY FirstOfCreate, FirstOfEither DEF CATALOG_TABLE_ID
    <3> QED
      BY <1>2, <2>1, <3>1 DEF StoresRow
  <2>2. CASE n # 1
    <3>1. n \in 2..Len(todo)
      BY <1>2, <2>2
    <3>2. todo[n].val = EntryValue /\ unpack_table_id(todo[n].key) = stmt.id
      BY <3>1 DEF Creating
    <3> QED
      BY <1>3, <3>2 DEF StoresRow, EntryValue
  <2> QED
    BY <2>1, <2>2
<1> QED
  BY <1>2, <1>4 DEF OwnRows, StoresRow, Aside, NoTable

\* A CREATE that begins has its first call to make.
LEMMA CreateBegins ==
    ASSUME IdsFit, CatInv, CatInv',
           \/ \E t \in TableName : CreateTable(t)
           \/ \E t \in TableName, n \in IndexName, c \in IndexColumn : CreateIndex(n, t, c)
    PROVE  Creating' /\ todo' # <<>>
<1>1. next_id \in 0..MaxId
  <2>1. next_id <= MaxId
    BY DEF CreateTable, CreateIndex
  <2> QED
    BY <2>1, CatParts, Spans
<1> DEFINE key == pack_key(CATALOG_TABLE_ID, next_id)
<1>2. unpack_table_id(key) = CATALOG_TABLE_ID
  BY <1>1, CatalogKey
<1> HIDE DEF key
<1>3. todo' \in Seq(Call)
  BY DEF CatInv, ExecTypeOK
<1>4. todo' # <<>> /\ todo'[1].key = key
  <2>1. CASE \E t \in TableName : CreateTable(t)
    <3>1. PICK t \in TableName : todo' = <<PutCall(key, TableValue(t))>>
      BY <2>1 DEF CreateTable, key
    <3> DEFINE c == PutCall(key, TableValue(t))
    <3>2. c.key = key
      BY DEF PutCall
    <3> HIDE DEF c
    <3> QED
      BY <3>1, <3>2 DEF c
  <2>2. CASE \E t \in TableName, n \in IndexName, c \in IndexColumn : CreateIndex(n, t, c)
    <3>1. PICK t \in TableName, n \in IndexName, c \in IndexColumn : CreateIndex(n, t, c)
      BY <2>2
    <3> DEFINE id   == tables[t]
               S    == {pack_secondary_composite(r[c], r.id) : r \in RowsIn(id)}
               call == PutCall(key, IndexValue(n, id, c))
               fill == Fill(next_id, S)
    <3>2. id # 0 /\ todo' = <<call>> \o fill
      BY <3>1 DEF CreateIndex, RowsIn, Fill, key
    <3>3. c \in Column /\ id \in CatalogIds(store, "table") /\ id \in 1..MaxId
      BY <3>2, TableIds, ExecAssumption
    <3>4. S \in SUBSET (0..PRIMARY_KEY_MASK)
      <4>1. RowsIn(id) \subseteq Row
        BY <3>3, CatParts, RowsFound
      <4>2. \A r \in RowsIn(id) : r[c] \in Int /\ r.id \in Int
        BY <3>3, <4>1 DEF Row, Column
      <4> QED
        BY <4>2, CompositeKey
    <3>5. fill \in Seq(Call)
      BY <1>1, <3>4, FillCalls
    <3>6. call \in Call /\ call.key = key
      <4>1. key \in StoreKey
        BY <1>1, CatalogKey DEF key
      <4>2. IndexValue(n, id, c) \in StoreValue
        BY <3>3 DEF IndexValue, StoreValue
      <4> HIDE DEF IndexValue
      <4> QED
        BY <4>1, <4>2 DEF PutCall, Call
    <3> HIDE DEF fill, call
    <3> QED
      BY <3>2, <3>5, <3>6, TailOfPut
  <2> QED
    BY <2>1, <2>2
<1>5. 1 \in DOMAIN todo'
  <2>1. DOMAIN todo' = 1..Len(todo') /\ Len(todo') \in Nat /\ Len(todo') # 0
    BY <1>3, <1>4, LenProperties, EmptySeq
  <2> QED
    BY <2>1
<1>6. ~ DataCall(todo[1])'
  BY <1>2, <1>4 DEF DataCall
<1> QED
  BY <1>4, <1>5, <1>6 DEF CatInv, CatalogInv

\* A call that has been made leaves the others as they were: no earlier one has
\* the key of a removal.
LEMMA StoredOwns ==
    ASSUME IdsFit, CatInv, SyncInv, TableInv, StoreCall
    PROVE  OwnRows'
<1> DEFINE call == Head(todo)
<1>1. /\ todo # <<>> /\ store' = Applied(store, call) /\ Registered(call)
      /\ todo' = Tail(todo) /\ stmt' = stmt
  BY DEF StoreCall
<1>2. /\ todo \in Seq(Call) /\ call \in Call /\ call = todo[1] /\ store \in Map
      /\ Len(todo) \in Nat /\ DOMAIN todo = 1..Len(todo)
      /\ todo' \in Seq(Call) /\ DOMAIN todo' = 1..(Len(todo) - 1)
      /\ \A n \in 1..(Len(todo) - 1) : todo'[n] = todo[n + 1] /\ n + 1 \in 2..Len(todo)
  BY <1>1, CatParts, HeadTail
<1> HIDE DEF call
<1>3. CASE Creating
  <2>1. \A n \in DOMAIN todo' : todo'[n].val = EntryValue /\ unpack_table_id(todo'[n].key) = stmt.id
    BY <1>2, <1>3 DEF Creating
  <2>2. EntryValue # Absent /\ EntryValue.kind = "entry"
    BY StoredAssumption DEF EntryValue, StoreValue
  <2> QED
    BY <1>1, <2>1, <2>2 DEF OwnRows
<1>4. CASE ~ Creating
  <2>1. tables' = tables
    BY <1>1, <1>4, FirstRegistered DEF call
  <2>2. ASSUME NEW n \in DOMAIN todo'
        PROVE  /\ todo'[n] = todo[n + 1] /\ n + 1 \in DOMAIN todo /\ n + 1 # 1
               /\ \A m \in 1..(n - 1) : m + 1 \in 1..((n + 1) - 1) /\ todo'[m] = todo[m + 1]
               /\ 1 \in 1..((n + 1) - 1)
    BY <1>2, <2>2
  <2>3. ASSUME NEW n \in DOMAIN todo', ~ NoTable(todo'[n].key), todo'[n].val = Absent
        PROVE  store'[todo'[n].key] # Absent /\ \A m \in 1..(n - 1) : todo'[m].key # todo'[n].key
    <3> DEFINE k == todo'[n].key
    <3>1. \E t \in TableName : unpack_table_id(k) # 0 /\ unpack_table_id(k) = tables[t]
      BY <2>3 DEF NoTable
    <3>2. k = todo[n + 1].key /\ todo[n + 1].val = Absent /\ n + 1 \in DOMAIN todo
      BY <2>2, <2>3
    <3>3. store[k] # Absent /\ \A m \in 1..((n + 1) - 1) : todo[m].key # k
      BY <3>1, <3>2 DEF TableInv, OwnRows
    <3>4. k # call.key /\ \A m \in 1..(n - 1) : todo'[m].key # k
      BY <1>2, <2>2, <3>3
    <3>5. k \in StoreKey
      <4>1. todo[n + 1] \in Call
        BY <1>2, <3>2
      <4> QED
        BY <3>2, <4>1 DEF Call
    <3> HIDE DEF k
    <3>6. store'[k] = store[k]
      BY <1>1, <1>2, <3>4, <3>5, AppliedRow
    <3> QED
      BY <3>3, <3>4, <3>6 DEF k
  <2>4. ASSUME NEW n \in DOMAIN todo'
        PROVE  LET id == unpack_table_id(todo'[n].key)
               IN  /\ todo'[n].val # Absent /\ todo'[n].val.kind = "row" => id = stmt.id
                   /\ ~ NoTable(todo'[n].key) => id = stmt.id
    BY <2>2 DEF TableInv, OwnRows, NoTable
  <2> QED
    BY <1>1, <2>1, <2>3, <2>4 DEF OwnRows, NoTable
<1> QED
  BY <1>3, <1>4

\* Every step keeps it so.
LEMMA TableInvKept ==
    ASSUME IdsFit, CatInv, SyncInv, TableInv, CatInv', [ExecNext]_vars
    PROVE  TableInv'
<1>1. RowsHomed'
  BY HomedKept
<1> SUFFICES OwnRows'
  BY <1>1 DEF TableInv
<1>2. ASSUME todo' = <<>>
      PROVE  OwnRows'
  BY <1>2 DEF OwnRows
<1>3. CASE \/ \E t \in TableName, n \in IndexName, c \in IndexColumn : CreateIndex(n, t, c)
           \/ \E t \in TableName : CreateTable(t)
  <2>1. Creating'
    BY <1>3, CreateBegins
  <2>2. (IdsFit /\ CatInv /\ Creating => OwnRows /\ Aside(todo))'
    BY CreatingOwns, PTL
  <2> QED
    BY <2>1, <2>2 DEF IdsFit
<1>4. CASE \E t \in TableName, i \in IdLiteral, a \in ALiteral : Insert(t, [id |-> i, a |-> a])
  BY <1>4, InsertCalls
<1>5. CASE \E t \in TableName, w \in WhereInput : Delete(t, w) \/ \E set \in SetInput : Update(t, set, w)
  <2>1. Idle /\ todo' = todo
    BY <1>5 DEF Delete, Update, Begin
  <2> QED
    BY <1>2, <2>1, IdleParts
<1>6. CASE Search
  <2>1. Searching /\ todo' = todo
    BY <1>6 DEF Search
  <2>2. todo = <<>>
    BY <2>1 DEF CatInv, ExecTypeOK
  <2> QED
    BY <1>2, <2>1, <2>2
<1>7. CASE UpdateRow
  BY <1>7, UpdateCalls
<1>8. CASE DeleteRow
  BY <1>8, DeleteCalls
<1>9. CASE Finish
  BY <1>2, <1>9 DEF Finish
<1>10. CASE StoreCall
  BY <1>10, StoredOwns
<1>11. CASE Throw \/ Restart
  BY <1>2, <1>11 DEF Throw, Restart, CutShort
<1>12. CASE Checkpoint \/ UNCHANGED vars
  <2>1. todo' = todo /\ stmt' = stmt /\ store' = store /\ tables' = tables
    BY <1>12 DEF Checkpoint, vars, data, catalog, work
  <2> QED
    BY <2>1 DEF TableInv, OwnRows
<1> QED
  BY <1>3, <1>4, <1>5, <1>6, <1>7, <1>8, <1>9, <1>10, <1>11, <1>12 DEF ExecNext

\* RowsHomed and OwnRows: no row is under an id no table in memory has, and the
\* calls a statement has still to make write rows of its own table only.
THEOREM TableKept == IdsFit /\ KeyUpdates = "one" => (ExecSpec => []TableInv)
<1> SUFFICES ASSUME IdsFit, KeyUpdates = "one"
             PROVE  ExecSpec => []TableInv
  OBVIOUS
<1>1. ExecInit => TableInv
  BY DEF ExecInit, TableInv, RowsHomed, OwnRows
<1>2. CatInv /\ CatInv' /\ SyncInv /\ TableInv /\ [ExecNext]_vars => TableInv'
  BY TableInvKept
<1>3. ExecSpec => []CatInv
  BY CatalogKept
<1>4. ExecSpec => []SyncInv
  BY SyncKept
<1> QED
  BY <1>1, <1>2, <1>3, <1>4, PTL DEF ExecSpec

-----------------------------------------------------------------------------
(* What the table's specification sees of a state.                         *)

\* The id the table has in memory.
TheId == tables[TheTable]

\* The writes to come, and what is asked, by what there is of a statement.
LeftFacts ==
    /\ RowWrites(todo, TheId) \in Seq(AnyWrite) /\ PendingWrites(TheId) \in Seq(AnyWrite)
    /\ TableLeft \in Seq(AnyWrite)
    /\ todo = <<>> => TableLeft = PendingWrites(TheId)
    /\ pending = <<>> => TableLeft = RowWrites(todo, TheId)
    /\ Idle \/ Searching => todo = <<>> /\ pending = <<>>
    /\ todo = <<>> /\ pending = <<>> => TableLeft = <<>>
    /\ ~ Searching => TableAsked = Absent

\* A restart would find the rows on disk under the id the table has in memory.
DiskIsHome == TableDisk = RowsOf(file, TheId)

Shape == LeftFacts /\ DiskIsHome

\* So it is in every state.
LEMMA Shaped == IdsFit /\ CatInv /\ TableInv => Shape
<1> SUFFICES ASSUME IdsFit, CatInv, TableInv
             PROVE  Shape
  OBVIOUS
<1> DEFINE w == RowWrites(todo, TheId)
           p == PendingWrites(TheId)
<1>1. w \in Seq(AnyWrite) /\ p \in Seq(AnyWrite) /\ TableLeft = w \o p
  <2>1. todo \in Seq(Call)
    BY CatParts
  <2> QED
    BY <2>1, PartsTyped, PendingIs DEF TableLeft, TheId
<1>2. todo = <<>> => w = <<>>
  <2>1. ASSUME NEW none, none = <<>>
        PROVE  none \in Seq(Call) /\ Foreign(none, TheId)
    BY <2>1 DEF Foreign
  <2> QED
    BY <2>1, ForeignWrites
<1>3. pending = <<>> => p = <<>>
  BY DEF PendingWrites
<1>4. w \o p \in Seq(AnyWrite) /\ w \o <<>> = w /\ <<>> \o p = p /\ <<>> \o <<>> = <<>>
  <2> HIDE DEF w, p
  <2> QED
    BY <1>1, ConcatProperties, ConcatEmptySeq
<1>5. Idle \/ Searching => todo = <<>> /\ pending = <<>>
  BY DEF CatInv, ExecTypeOK
<1>6. ~ Searching => TableAsked = Absent
  BY DEF TableAsked
<1>7. LeftFacts
  <2> HIDE DEF w, p
  <2>1. /\ todo = <<>> => TableLeft = p
        /\ pending = <<>> => TableLeft = w
        /\ todo = <<>> /\ pending = <<>> => TableLeft = <<>>
    BY <1>1, <1>2, <1>3, <1>4
  <2> QED
    BY <1>1, <1>4, <1>5, <1>6, <2>1 DEF LeftFacts, w, p
<1>8. DiskIsHome
  <2>1. Homed(file, tables)
    BY DEF TableInv, RowsHomed, Homed
  <2> QED
    BY <2>1, CatParts, SameRows DEF DiskIsHome, TableDisk, TheId
<1> QED
  BY <1>7, <1>8 DEF Shape

\* A step that leaves the data and the tables leaves the rows.
LEMMA RowsKept ==
    ASSUME store' = store, file' = file, tables' = tables
    PROVE  TableRows' = TableRows /\ TableDisk' = TableDisk /\ TheId' = TheId
BY DEF TableRows, TableDisk, TheId, RowsOf, Latest, CatalogIds, CatalogRow

\* A step that changes neither what is asked nor what is left changes nothing.
LEMMA Stutters ==
    ASSUME TableRows' = TableRows, TableDisk' = TableDisk, TableAsked' = TableAsked,
           TableLeft' = TableLeft, cuts' = cuts
    PROVE  UNCHANGED Table!tableVars
BY DEF Table!tableVars

-----------------------------------------------------------------------------
(* Each action is a step of the table's specification, or none.            *)

\* CREATE writes no rows.
LEMMA CreateRefines ==
    ASSUME IdsFit, CatInv, CatInv', Shape, Shape',
           \/ \E t \in TableName : CreateTable(t)
           \/ \E t \in TableName, n \in IndexName, c \in IndexColumn : CreateIndex(n, t, c)
    PROVE  UNCHANGED Table!tableVars
<1>1. /\ Idle /\ stmt'.kind \in {"create_table", "create_index"}
      /\ store' = store /\ file' = file /\ tables' = tables /\ pending' = pending /\ cuts' = cuts
  <2>1. ASSUME NEW t \in TableName, CreateTable(t)
        PROVE  /\ Idle /\ stmt'.kind = "create_table"
               /\ UNCHANGED data /\ tables' = tables /\ pending' = pending /\ UNCHANGED faults
    BY <2>1 DEF CreateTable
  <2>2. ASSUME NEW t \in TableName, NEW n \in IndexName, NEW c \in IndexColumn, CreateIndex(n, t, c)
        PROVE  /\ Idle /\ stmt'.kind = "create_index"
               /\ UNCHANGED data /\ tables' = tables /\ pending' = pending /\ cuts' = cuts
    BY <2>2 DEF CreateIndex
  <2> QED
    BY <2>1, <2>2 DEF data, faults
<1>2. /\ todo = <<>> /\ pending = <<>> /\ TableLeft = <<>> /\ ~ Searching /\ TableAsked = Absent
  BY <1>1, IdleParts DEF Shape, LeftFacts, Searching
<1>3. ~ Searching' /\ TableAsked' = Absent
  BY <1>1 DEF Shape, LeftFacts, Searching
<1>4. TableLeft' = <<>>
  <2>1. Creating'
    BY CreateBegins
  <2>2. (IdsFit /\ CatInv /\ Creating => OwnRows /\ Aside(todo))'
    BY CreatingOwns, PTL
  <2>3. Aside(todo)'
    BY <2>1, <2>2 DEF IdsFit
  <2>4. TheId' = 0 \/ Foreign(todo', TheId')
    BY <2>3, TableAssumption DEF Aside, NoTable, Foreign, TheId
  <2>5. todo' \in Seq(Call)
    BY DEF CatInv, ExecTypeOK
  <2>6. RowWrites(todo', TheId') = <<>>
    BY <2>4, <2>5, ForeignWrites
  <2>7. TableLeft' = RowWrites(todo', TheId')
    BY <1>1, <1>2 DEF Shape, LeftFacts
  <2> QED
    BY <2>6, <2>7
<1> QED
  BY <1>1, <1>2, <1>3, <1>4, RowsKept, Stutters

\* A statement that is done has written all its rows.
LEMMA FinishRefines ==
    ASSUME CatInv, Shape, Shape', Finish
    PROVE  UNCHANGED Table!tableVars
<1>1. /\ todo = <<>> /\ pending = <<>> /\ ~ Searching /\ stmt' = Nothing
      /\ store' = store /\ file' = file /\ tables' = tables /\ cuts' = cuts
      /\ todo' = todo /\ pending' = pending
  BY DEF Finish, data, catalog, faults
<1>2. ~ Searching'
  BY <1>1 DEF Searching, Nothing
<1> QED
  BY <1>1, <1>2, RowsKept, Stutters DEF Shape, LeftFacts

\* UPDATE and DELETE ask what they are asked.
LEMMA BeginRefines ==
    ASSUME IdsFit, CatInv, Shape, Shape', NEW kind \in {"update", "delete"}, NEW table \in TableName,
           NEW set \in SetInput \cup {NoAssignment}, NEW where \in WhereInput,
           Begin(kind, table, set, where)
    PROVE  Table!Ask \/ UNCHANGED Table!tableVars
<1> DEFINE id == tables[table]
<1>1. /\ Idle /\ id # 0 /\ WhereOk(where)
      /\ \A c \in Column : set[c] # Absent => ValueOk(id, c, set[c])
      /\ stmt' = [kind |-> kind, id |-> id, set |-> set, where |-> where]
      /\ store' = store /\ file' = file /\ tables' = tables /\ cuts' = cuts
      /\ todo' = todo /\ pending' = pending
  BY DEF Begin, data, catalog, faults
<1>2. todo = <<>> /\ pending = <<>> /\ TableLeft = <<>> /\ ~ Searching /\ TableAsked = Absent
  BY <1>1, IdleParts DEF Shape, LeftFacts, Searching
<1>3. TableLeft' = <<>>
  BY <1>1, <1>2 DEF Shape, LeftFacts
<1>4. TableRows' = TableRows /\ TableDisk' = TableDisk /\ TheId' = TheId
  BY <1>1, RowsKept
<1>5. TableAsked' = IF id = TheId THEN [kind |-> kind, set |-> set, where |-> where] ELSE Absent
  <2>1. Searching'
    BY <1>1 DEF Searching
  <2> QED
    BY <1>1, <2>1 DEF TableAsked, TheId
<1>6. set \in Table!Assignment
  <2>1. set \in [id : Literal, a : Literal]
    BY <1>1, Assignments
  <2>2. set.id # Absent => set.id \in 0..PRIMARY_KEY_MASK
    <3>1. set.id # Absent => ValueOk(id, "id", set.id) /\ set.id \in Int
      BY <1>1, <2>1 DEF Column, Literal
    <3> QED
      BY <3>1, KeyAllowed
  <2> QED
    BY <2>1, <2>2 DEF Table!Assignment, Literal
<1>7. where \in Table!Condition
  <2>1. CASE where = NoWhere
    BY <2>1 DEF NoWhere, Table!Condition
  <2>2. CASE where # NoWhere
    <3>1. /\ where \in Where
          /\ where.column \in Column /\ where.value # Text
          /\ where.op = "BETWEEN" => where.value2 # Text
      BY <1>1, <2>2, ExecAssumption DEF WhereOk
    <3> QED
      BY <3>1 DEF Where, CompareOp, Column, Table!Condition
  <2> QED
    BY <2>1, <2>2
<1>8. CASE id = TheId
  <2>1. TableAsked' \in [kind : {"update", "delete"}, set : Table!Assignment, where : Table!Condition]
    BY <1>5, <1>6, <1>7, <1>8
  <2> QED
    BY <1>1, <1>2, <1>3, <1>4, <2>1 DEF Table!Ask
<1>9. CASE id # TheId
  BY <1>1, <1>2, <1>3, <1>4, <1>5, <1>9, Stutters
<1> QED
  BY <1>8, <1>9

\* INSERT is to write one row, under the key it says.
LEMMA InsertRefines ==
    ASSUME IdsFit, CatInv, SyncInv, Shape, Shape',
           NEW table \in TableName, NEW i \in IdLiteral, NEW a \in ALiteral,
           Insert(table, [id |-> i, a |-> a])
    PROVE  Table!Insert \/ UNCHANGED Table!tableVars
<1> DEFINE id  == tables[table]
           row == [id |-> i, a |-> a]
           w   == [pk |-> i, row |-> row]
<1>1. /\ Idle /\ stmt'.kind = "insert"
      /\ store' = store /\ file' = file /\ tables' = tables /\ cuts' = cuts /\ pending' = pending
  BY DEF Insert, data, catalog, faults
<1>2. todo = <<>> /\ pending = <<>> /\ TableLeft = <<>> /\ ~ Searching /\ TableAsked = Absent
  BY <1>1, IdleParts DEF Shape, LeftFacts, Searching
<1>3. ~ Searching' /\ TableAsked' = Absent
  BY <1>1 DEF Shape, LeftFacts, Searching
<1>4. TableRows' = TableRows /\ TableDisk' = TableDisk /\ TheId' = TheId
  BY <1>1, RowsKept
<1>5. /\ i \in 0..PRIMARY_KEY_MASK /\ a \in Int
      /\ RowWrites(todo', TheId) = IF TheId = id THEN <<w>> ELSE <<>>
  BY TableAssumption, InsertCalls DEF TheId
<1>6. TableLeft' = RowWrites(todo', TheId)
  BY <1>1, <1>2, <1>4 DEF Shape, LeftFacts
<1>7. CASE TheId = id
  <2>1. w.row \in [id : 0..PRIMARY_KEY_MASK, a : Int] /\ w.pk = w.row.id
    BY <1>5
  <2> HIDE DEF w
  <2>2. Len(<<w>>) = 1 /\ <<w>>[1] = w
    OBVIOUS
  <2>3. TableLeft' = <<w>>
    BY <1>5, <1>6, <1>7
  <2> QED
    BY <1>1, <1>2, <1>3, <1>4, <2>1, <2>2, <2>3 DEF Table!Insert, Table!TableRow
<1>8. CASE TheId # id
  BY <1>1, <1>2, <1>3, <1>4, <1>5, <1>6, <1>8, Stutters
<1> QED
  BY <1>7, <1>8

\* The calls for the next match replace it among the writes to come.
LEMMA MatchRefines ==
    ASSUME IdsFit, CatInv, CatInv', SyncInv, Shape, Shape', UpdateRow \/ DeleteRow
    PROVE  UNCHANGED Table!tableVars
<1>1. /\ pending # <<>> /\ ~ Searching /\ todo = <<>> /\ stmt' = stmt /\ pending' = Tail(pending)
      /\ store' = store /\ file' = file /\ tables' = tables /\ cuts' = cuts
  BY DEF UpdateRow, DeleteRow, data, catalog, faults
<1>2. \A t \in TableName :
         RowWrites(todo', tables[t]) = IF tables[t] = stmt.id THEN MatchWrites(Head(pending)) ELSE <<>>
  BY UpdateCalls, DeleteCalls
<1>3. RowWrites(todo', TheId) = IF TheId = stmt.id THEN MatchWrites(Head(pending)) ELSE <<>>
  BY <1>2, TableAssumption DEF TheId
<1>4. TableRows' = TableRows /\ TableDisk' = TableDisk /\ TheId' = TheId
  BY <1>1, RowsKept
<1>5. ~ Searching' /\ TableAsked = Absent /\ TableAsked' = Absent
  BY <1>1 DEF Shape, LeftFacts, Searching
<1>6. pending \in Seq(Match) /\ stmt.set \in [id : Literal, a : Literal]
  BY <1>1, CatParts, MatchStored
<1>7. /\ RestOf(pending) = MatchWrites(Head(pending)) \o RestOf(Tail(pending))
      /\ Tail(pending) \in Seq(Match)
  BY <1>1, <1>6, RestHead
<1>8. TableLeft = IF TheId = stmt.id THEN RestOf(pending) ELSE <<>>
  BY <1>1, PendingIs DEF Shape, LeftFacts
<1>9. PendingWrites(TheId)' = IF TheId = stmt.id THEN RestOf(Tail(pending)) ELSE <<>>
  <2>1. PendingWrites(TheId)' = IF pending' # <<>> /\ stmt.id = TheId THEN RestOf(pending') ELSE <<>>
    BY <1>1, <1>4 DEF PendingWrites, RestOf, MatchParts, MatchWrites, Assigned
  <2>2. RestOf(<<>>) = <<>>
    <3>1. MatchParts(<<>>) = <<>>
      BY DEF MatchParts
    <3> QED
      BY <3>1, FlattenNone DEF RestOf
  <2> QED
    BY <1>1, <2>1, <2>2
<1>10. TableLeft' = RowWrites(todo', TheId) \o PendingWrites(TheId)'
  BY <1>4 DEF TableLeft, TheId
<1>11. TableLeft' = TableLeft
  <2>1. CASE TheId = stmt.id
    BY <1>3, <1>7, <1>8, <1>9, <1>10, <2>1
  <2>2. CASE TheId # stmt.id
    <3>1. <<>> \o <<>> = <<>>
      OBVIOUS
    <3> QED
      BY <1>3, <1>8, <1>9, <1>10, <2>2, <3>1
  <2> QED
    BY <2>1, <2>2
<1> QED
  BY <1>1, <1>4, <1>5, <1>11, Stutters

\* The first call is about the table.
HeadHere == TheId # 0 /\ unpack_table_id(Head(todo).key) = TheId

\* What the first call is to the writes to come.
LEMMA FirstWrite ==
    ASSUME IdsFit, CatInv, SyncInv, TableInv, Shape, todo # <<>>
    PROVE  LET rest == RowWrites(Tail(todo), TheId) \o PendingWrites(TheId)
           IN  /\ HeadHere => /\ ~ Creating /\ TableLeft # <<>> /\ Tail(TableLeft) = rest
                              /\ Head(TableLeft) = RowWrite(Head(todo))
                              /\ Logged(Head(todo))
               /\ ~ HeadHere => TableLeft = rest
               /\ Head(todo) \in Call /\ Tail(todo) \in Seq(Call) /\ ~ Idle /\ ~ Searching
<1> DEFINE call == Head(todo)
           rest == RowWrites(Tail(todo), TheId) \o PendingWrites(TheId)
           one  == WriteOf(call, TheId)
           w    == RowWrite(call)
<1>1. todo \in Seq(Call)
  BY CatParts
<1>2. /\ RowWrites(todo, TheId) = one \o RowWrites(Tail(todo), TheId)
      /\ call \in Call /\ Tail(todo) \in Seq(Call)
      /\ call = todo[1] /\ 1 \in DOMAIN todo
  <2>1. call = todo[1] /\ 1 \in DOMAIN todo
    BY <1>1, HeadTail
  <2> QED
    BY <1>1, <2>1, WritesHead
<1>3. ~ Idle /\ ~ Searching
  BY DEF Shape, LeftFacts
<1>4. RowWrites(Tail(todo), TheId) \in Seq(AnyWrite) /\ PendingWrites(TheId) \in Seq(AnyWrite)
  BY <1>2, PartsTyped DEF Shape, LeftFacts
<1>5. w \in AnyWrite
  BY <1>2 DEF AnyWrite
<1>6. TableLeft = (one \o RowWrites(Tail(todo), TheId)) \o PendingWrites(TheId)
  BY <1>2 DEF TableLeft, TheId
<1> DEFINE a == RowWrites(Tail(todo), TheId)
           b == PendingWrites(TheId)
<1> HIDE DEF call
<1>7. TableLeft = one \o rest
  <2>1. a \in Seq(AnyWrite) /\ b \in Seq(AnyWrite) /\ one \in Seq(AnyWrite)
    BY <1>2, <1>4, WritesOne
  <2> HIDE DEF a, b, one
  <2>2. (one \o a) \o b = one \o (a \o b)
    <3>1. Associative(AnyWrite)
      BY Regrouped
    <3> QED
      BY <2>1, <3>1 DEF Associative
  <2> QED
    BY <1>6, <2>2 DEF a, b
<1>8. rest \in Seq(AnyWrite)
  <2>1. a \in Seq(AnyWrite) /\ b \in Seq(AnyWrite)
    BY <1>4
  <2> HIDE DEF a, b
  <2>2. a \o b \in Seq(AnyWrite)
    BY <2>1, ConcatProperties
  <2> QED
    BY <2>2 DEF a, b
<1>9. ASSUME HeadHere
      PROVE  one = <<w>> /\ ~ Creating /\ Logged(call)
  <2>1. one = <<w>>
    BY <1>9 DEF HeadHere, WriteOf, call
  <2>2. ~ Creating /\ (call.val = Absent => store[call.key] # Absent)
    BY <1>2, <1>9, TableAssumption, OwnCall DEF HeadHere, TheId, call
  <2> QED
    BY <2>1, <2>2 DEF Logged
<1>10. ~ HeadHere => one = <<>>
  BY DEF HeadHere, WriteOf, call
<1> HIDE DEF one, w, rest
<1>11. ASSUME HeadHere
       PROVE  TableLeft # <<>> /\ Tail(TableLeft) = rest /\ Head(TableLeft) = w
  <2>1. TableLeft = <<w>> \o rest
    BY <1>7, <1>9, <1>11
  <2>2. /\ TableLeft # <<>> /\ TableLeft[1] = w /\ Tail(TableLeft) = rest /\ TableLeft \in Seq(AnyWrite)
    BY <1>5, <1>8, <2>1, TailOfPut, Zenon
  <2>3. Head(TableLeft) = TableLeft[1]
    BY <2>2, HeadTail
  <2> QED
    BY <2>2, <2>3
<1>12. <<>> \o rest = rest
  BY <1>8, ConcatEmptySeq
<1> QED
  BY <1>2, <1>3, <1>7, <1>9, <1>10, <1>11, <1>12 DEF call, w, rest

\* What the first call does to the rows, in memory and on disk.
LEMMA FirstApplied ==
    ASSUME IdsFit, CatInv, SyncInv, TableInv, Shape, todo # <<>>, NEW map \in {store, file}
    PROVE  RowsOf(Applied(map, Head(todo)), TheId) =
              IF HeadHere THEN Table!Done(RowsOf(map, TheId), Head(TableLeft)) ELSE RowsOf(map, TheId)
<1>1. map \in Map /\ Head(todo) \in Call /\ TheId \in 0..MaxId
  BY CatParts, HeadTail, TableIds, TableAssumption DEF TheId
<1>2. RowsOf(Applied(map, Head(todo)), TheId) =
         IF TheId # 0 /\ unpack_table_id(Head(todo).key) = TheId
         THEN Table!Done(RowsOf(map, TheId), RowWrite(Head(todo))) ELSE RowsOf(map, TheId)
  BY <1>1, RowsApplied
<1> QED
  BY <1>2, FirstWrite DEF HeadHere

\* A call makes the next write, if it is about the table.
LEMMA StoreCallRefines ==
    ASSUME IdsFit, CatInv, SyncInv, TableInv, Shape, Shape', StoreCall
    PROVE  Table!MakeWrite \/ UNCHANGED Table!tableVars
<1> DEFINE call == Head(todo)
<1>1. /\ todo # <<>> /\ store' = Applied(store, call) /\ Registered(call)
      /\ file' = IF Logged(call) THEN Applied(file, call) ELSE file
      /\ todo' = Tail(todo) /\ stmt' = stmt /\ pending' = pending /\ cuts' = cuts
  BY DEF StoreCall, faults
<1>2. /\ ~ Searching /\ ~ Searching' /\ TableAsked = Absent /\ TableAsked' = Absent
  <2>1. ~ Searching
    BY <1>1, FirstWrite
  <2>2. ~ Searching'
    BY <1>1, <2>1 DEF Searching
  <2> QED
    BY <2>1, <2>2 DEF Shape, LeftFacts
<1>3. /\ TableRows = RowsOf(store, TheId) /\ TableDisk = RowsOf(file, TheId)
      /\ TableRows' = RowsOf(store', TheId') /\ TableDisk' = RowsOf(file', TheId')
  BY DEF TableRows, TheId, Shape, DiskIsHome
<1>4. /\ RowsOf(Applied(store, call), TheId) =
            IF HeadHere THEN Table!Done(TableRows, Head(TableLeft)) ELSE TableRows
      /\ RowsOf(Applied(file, call), TheId) =
            IF HeadHere THEN Table!Done(TableDisk, Head(TableLeft)) ELSE TableDisk
  BY <1>1, <1>3, FirstApplied
<1>5. CASE TheId' = TheId
  <2>1. TableLeft' = RowWrites(Tail(todo), TheId) \o PendingWrites(TheId)
    BY <1>1, <1>5 DEF TableLeft, TheId, PendingWrites, MatchWrites, Assigned
  <2>2. CASE HeadHere
    <3>1. TableLeft # <<>> /\ TableLeft' = Tail(TableLeft) /\ Logged(call)
      BY <1>1, <2>1, <2>2, FirstWrite
    <3> QED
      BY <1>1, <1>2, <1>3, <1>4, <1>5, <2>2, <3>1 DEF Table!MakeWrite
  <2>3. CASE ~ HeadHere
    <3>1. TableLeft' = TableLeft
      BY <1>1, <2>1, <2>3, FirstWrite
    <3> QED
      BY <1>1, <1>2, <1>3, <1>4, <1>5, <2>3, <3>1, Stutters
  <2> QED
    BY <2>2, <2>3
<1>6. CASE TheId' # TheId
  <2>1. Creating /\ TheId = 0
    <3>1. ~ Creating => tables' = tables
      BY <1>1, FirstRegistered
    <3>2. \A t \in TableName : tables[t] # 0 => tables'[t] = tables[t]
      BY <1>1, FirstRegistered
    <3> QED
      BY <1>6, <3>1, <3>2, TableAssumption DEF TheId
  <2>2. stmt.kind = "create_table" /\ TheId' = stmt.id
    <3>1. call.val # Absent /\ stmt.kind \in {"create_table", "create_index"}
      BY <2>1, FirstOfCreate, FirstOfEither
    <3>2. /\ stmt.kind = "create_table" => call.val.kind = "table"
          /\ stmt.kind = "create_index" => call.val.kind = "index"
          /\ unpack_primary_key(call.key) = stmt.id
      BY <2>1, FirstOfEither
    <3>3. \/ call.val.kind = "index" /\ tables' = tables
          \/ call.val.kind = "table" /\ tables' = [tables EXCEPT ![call.val.name] = stmt.id]
      BY <1>1, <3>1, <3>2 DEF Registered
    <3>4. DOMAIN tables = TableName
      BY CatParts
    <3>5. TheId' = TheId \/ TheId' = stmt.id
      BY <3>3, <3>4, TableAssumption DEF TheId
    <3>6. tables' # tables
      BY <1>6 DEF TheId
    <3> QED
      BY <1>6, <3>1, <3>2, <3>3, <3>5, <3>6
  <2>3. /\ stmt.id \in 1..MaxId /\ unpack_table_id(call.key) = CATALOG_TABLE_ID
        /\ \A k \in StoreKey : unpack_table_id(k) = stmt.id => store[k] = Absent /\ file[k] = Absent
        /\ call.val # Absent
    BY <2>1, FirstOfEither
  <2>4. pending = <<>> /\ todo' = <<>>
    <3>1. pending = <<>>
      BY <2>2 DEF CatInv, ExecTypeOK
    <3>2. Len(todo) = 1 /\ todo \in Seq(Call)
      BY <2>1, <2>2, CatParts DEF Creating
    <3> DEFINE t == Tail(todo)
    <3>3. t \in Seq(Call) /\ Len(t) = 1 - 1
      BY <1>1, <3>2, HeadTail
    <3> HIDE DEF t
    <3>4. t = <<>>
      BY <3>3, EmptySeq
    <3> QED
      BY <1>1, <3>1, <3>4 DEF t
  <2>5. TableLeft = <<>> /\ TableLeft' = <<>>
    <3>1. TableLeft' = <<>>
      BY <1>1, <2>4 DEF Shape, LeftFacts
    <3>2. TableLeft = RowWrites(todo, TheId)
      BY <2>4 DEF Shape, LeftFacts
    <3>3. RowWrites(todo, 0) = <<>>
      BY CatParts, ForeignWrites
    <3> QED
      BY <2>1, <3>1, <3>2, <3>3
  <2>6. ASSUME NEW map \in {store, file}
        PROVE  RowsOf(Applied(map, call), stmt.id) = RowsOf(map, 0)
    <3>1. map \in Map /\ call \in Call
      BY <1>1, CatParts, HeadTail
    <3>2. stmt.id \in 0..MaxId /\ stmt.id # 0
      BY <2>3
    <3>3. unpack_table_id(call.key) # stmt.id
      BY <2>3, <3>2 DEF CATALOG_TABLE_ID
    <3> HIDE DEF call
    <3>4. RowsOf(Applied(map, call), stmt.id) = RowsOf(map, stmt.id)
      BY <3>1, <3>2, <3>3, RowsApplied
    <3>5. \A p \in 0..PRIMARY_KEY_MASK : map[pack_key(stmt.id, p)] = Absent
      BY <2>3, <3>2, KeyOf
    <3>6. RowsOf(map, stmt.id) = RowsOf(map, 0)
      BY <3>5 DEF RowsOf
    <3> QED
      BY <3>4, <3>6
  <2>7. TableRows' = TableRows /\ TableDisk' = TableDisk
    <3>1. Logged(call)
      BY <2>3 DEF Logged
    <3> QED
      BY <1>1, <1>3, <2>1, <2>2, <2>6, <3>1
  <2> QED
    BY <1>1, <1>2, <2>5, <2>7, Stutters
<1> QED
  BY <1>5, <1>6

\* A call that throws leaves the writes made so far.
LEMMA ThrowRefines ==
    ASSUME IdsFit, CatInv, SyncInv, TableInv, Shape, Shape', Throw
    PROVE  Table!Fail
<1> DEFINE call == Head(todo)
<1>1. /\ todo # <<>> /\ tables' = tables
      /\ todo' = <<>> /\ pending' = <<>> /\ stmt' = Nothing
      /\ cuts' = IF Idle THEN cuts ELSE cuts + 1
      /\ \/ store' = store /\ file' = file
         \/ file' = Applied(file, call) /\ store' = store
         \/ file' = Applied(file, call) /\ store' = Applied(store, call)
  BY DEF Throw, CutShort, catalog
<1>2. cuts' = cuts + 1 /\ ~ Searching'
  BY <1>1, FirstWrite DEF Searching, Nothing
<1>3. TableLeft' = <<>> /\ TableAsked' = Absent
  BY <1>1, <1>2 DEF Shape, LeftFacts
<1>4. /\ TableRows = RowsOf(store, TheId) /\ TableDisk = RowsOf(file, TheId)
      /\ TableRows' = RowsOf(store', TheId) /\ TableDisk' = RowsOf(file', TheId)
  BY <1>1 DEF TableRows, TheId, Shape, DiskIsHome
<1>5. /\ RowsOf(Applied(store, call), TheId) =
            IF HeadHere THEN Table!Done(TableRows, Head(TableLeft)) ELSE TableRows
      /\ RowsOf(Applied(file, call), TheId) =
            IF HeadHere THEN Table!Done(TableDisk, Head(TableLeft)) ELSE TableDisk
  BY <1>1, <1>4, FirstApplied
<1>6. HeadHere => TableLeft # <<>>
  BY <1>1, FirstWrite
<1> HIDE DEF call
<1>7. \/ TableRows' = TableRows /\ TableDisk' = TableDisk
      \/ /\ TableLeft # <<>> /\ TableDisk' = Table!Done(TableDisk, Head(TableLeft))
         /\ TableRows' \in {TableRows, Table!Done(TableRows, Head(TableLeft))}
  <2>1. CASE HeadHere
    BY <1>1, <1>4, <1>5, <1>6, <2>1
  <2>2. CASE ~ HeadHere
    BY <1>1, <1>4, <1>5, <2>2
  <2> QED
    BY <2>1, <2>2
<1> QED
  BY <1>2, <1>3, <1>7 DEF Table!Fail

\* A restart shows the writes that got to the disk, and no others.
LEMMA RestartRefines ==
    ASSUME IdsFit, CatInv, CatInv', SyncInv, TableInv, Shape, Shape', Restart
    PROVE  Table!Restart
<1> DEFINE call == Head(todo)
<1>1. /\ file' = store' /\ tables' = LoadedTables(store')
      /\ todo' = <<>> /\ pending' = <<>> /\ stmt' = Nothing
      /\ cuts' = IF Idle THEN cuts ELSE cuts + 1
      /\ \/ store' = file
         \/ todo # <<>> /\ store' = Applied(file, call)
  <2> DEFINE more == IF todo # <<>> /\ Logged(call) THEN {Applied(file, call)} ELSE {}
  <2>1. store' = file \/ store' \in more
    BY DEF Restart
  <2>2. \A m \in more : todo # <<>> /\ m = Applied(file, call)
    OBVIOUS
  <2> HIDE DEF more
  <2> QED
    BY <2>1, <2>2 DEF Restart, CutShort
<1>2. ~ Searching'
  BY <1>1 DEF Searching, Nothing
<1>3. TableLeft' = <<>> /\ TableAsked' = Absent
  BY <1>1, <1>2 DEF Shape, LeftFacts
<1>4. TableLeft # <<>> \/ TableAsked # Absent => ~ Idle
  <2>1. Idle => ~ Searching
    BY DEF Idle, Searching, Nothing
  <2> QED
    BY <2>1 DEF Shape, LeftFacts
<1>5. TableRows' = RowsOf(store', TheId)
  <2>1. TableRows' = RowsOf(store', Latest(store', "table", TheTable))
    <3>1. tables'[TheTable] = Latest(store', "table", TheTable)
      BY <1>1, TableAssumption DEF LoadedTables
    <3> QED
      BY <3>1 DEF TableRows
  <2>2. CatOK(store', next_id, tables, indexes) /\ Homed(store', tables)
    <3>1. Homed(file, tables)
      BY DEF TableInv, RowsHomed, Homed
    <3> QED
      BY <1>1, <3>1, CatParts, FirstStored, HomedApplied
  <2>3. store' \in Map
    BY DEF CatInv, ExecTypeOK
  <2> QED
    BY <2>1, <2>2, <2>3, SameRows DEF TheId
<1>6. TableDisk' = TableRows'
  BY <1>1 DEF Shape, DiskIsHome, TableRows, TheId
<1>7. TableRows' = TableDisk \/ (TableLeft # <<>> /\ TableRows' = Table!Done(TableDisk, Head(TableLeft)))
  <2>1. TableDisk = RowsOf(file, TheId)
    BY DEF Shape, DiskIsHome
  <2>2. CASE store' = file
    BY <1>5, <2>1, <2>2
  <2>3. CASE todo # <<>> /\ store' = Applied(file, call)
    <3>1. RowsOf(Applied(file, call), TheId) =
             IF HeadHere THEN Table!Done(TableDisk, Head(TableLeft)) ELSE TableDisk
      BY <2>1, <2>3, FirstApplied
    <3>2. HeadHere => TableLeft # <<>>
      BY <2>3, FirstWrite
    <3> HIDE DEF call
    <3> QED
      BY <1>5, <2>3, <3>1, <3>2
  <2> QED
    BY <1>1, <2>2, <2>3
<1> QED
  BY <1>1, <1>3, <1>4, <1>6, <1>7 DEF Table!Restart

\* A checkpoint brings the disk up to date.
LEMMA CheckpointRefines ==
    ASSUME Shape, Shape', Checkpoint
    PROVE  Table!Flush
<1>1. /\ file' = store /\ store' = store /\ tables' = tables /\ stmt' = stmt /\ pending' = pending
      /\ todo' = todo /\ cuts' = cuts
  BY DEF Checkpoint, catalog, work, faults
<1>2. TableRows' = TableRows
  BY <1>1 DEF TableRows, RowsOf
<1>3. TableDisk' = TableRows
  BY <1>1 DEF Shape, DiskIsHome, TableRows, TheId
<1>4. TableAsked' = TableAsked
  BY <1>1 DEF TableAsked, Searching
<1>5. TableLeft' = TableLeft
  BY <1>1 DEF TableLeft, PendingWrites, MatchWrites, Assigned
<1> QED
  BY <1>1, <1>2, <1>3, <1>4, <1>5 DEF Table!Flush

-----------------------------------------------------------------------------
(* What an UPDATE or DELETE finds is what it is about, in key order.       *)

KeysAscend(list) == \A m, n \in 1..Len(list) : m < n => list[m].key < list[n].key

\* Of what is found, the lesser keys come first.
LEMMA FoundOrdered ==
    ASSUME IdsFit, NEW keys \in SUBSET StoreKey, NEW filter
    PROVE  KeysAscend(Found(keys, filter))
<1> DEFINE S    == {k \in keys : Hit(k, filter)}
           hits == Ascending(S)
           list == [n \in DOMAIN hits |-> [key |-> hits[n], row |-> store[hits[n]].row]]
<1>1. Found(keys, filter) = list
  BY DEF Found, Hit
<1>2. S \in SUBSET Int /\ IsFiniteSet(S)
  <2>1. S \in SUBSET StoreKey /\ StoreKey \in SUBSET Int /\ IsFiniteSet(StoreKey)
    BY KeysFinite
  <2> QED
    BY <2>1, FS_Subset
<1> HIDE DEF S
<1>3. hits \in Seq(S) /\ IsAscending(hits)
  BY <1>2, AscendingLists
<1> HIDE DEF hits
<1>4. DOMAIN hits = 1..Len(hits) /\ Len(hits) \in Nat
  BY <1>3, LenProperties
<1>5. Len(list) = Len(hits) /\ \A n \in 1..Len(hits) : list[n].key = hits[n]
  BY <1>4
<1> HIDE DEF list
<1>6. KeysAscend(list)
  BY <1>3, <1>4, <1>5 DEF KeysAscend, IsAscending
<1> QED
  BY <1>1, <1>6

\* So it is whatever path is taken.
LEMMA FindOrdered ==
    ASSUME IdsFit, store \in Map, NEW id \in 0..MaxId, NEW where
    PROVE  KeysAscend(find_matches(id, where))
<1>1. KeysAscend(<<>>)
  BY DEF KeysAscend
<1>2. \A lo, hi : InRange(lo, hi) \in SUBSET StoreKey
  BY DEF InRange, Present, Map
<1>3. \A lo, hi, filter : KeysAscend(collect_matches(id, lo, hi, filter))
  <2> TAKE lo, hi, filter
  <2> DEFINE keys == InRange(pack_key(id, Larger(lo, 0)), pack_key(id, Smaller(hi, PRIMARY_KEY_MASK)))
  <2>1. keys \in SUBSET StoreKey
    BY <1>2
  <2>2. collect_matches(id, lo, hi, filter) = <<>> \/ collect_matches(id, lo, hi, filter) = Found(keys, filter)
    BY DEF collect_matches
  <2> HIDE DEF keys
  <2> QED
    BY <1>1, <2>1, <2>2, FoundOrdered
<1>4. \A pk : KeysAscend(PointLookup(id, pk))
  <2> TAKE pk
  <2>1. CASE pk \in 0..PRIMARY_KEY_MASK
    <3>1. {pack_key(id, pk)} \in SUBSET StoreKey
      BY <2>1, KeyOf
    <3>2. PointLookup(id, pk) = <<>> \/ PointLookup(id, pk) = Found({pack_key(id, pk)}, NoWhere)
      BY DEF PointLookup
    <3> QED
      BY <1>1, <3>1, <3>2, FoundOrdered
  <2>2. CASE pk \notin 0..PRIMARY_KEY_MASK
    BY <1>1, <2>2 DEF PointLookup
  <2> QED
    BY <2>1, <2>2
<1>5. \/ find_matches(id, where) = PointLookup(id, where.value)
      \/ find_matches(id, where) = collect_matches(id, where.value, where.value2, NoWhere)
      \/ find_matches(id, where) = collect_matches(id, 0, PRIMARY_KEY_MASK, where)
  BY DEF find_matches
<1> QED
  BY <1>3, <1>4, <1>5

\* Within a table the order of the store's keys is that of the primary keys.
LEMMA SameOrder ==
    ASSUME IdsFit, NEW id \in 0..MaxId, NEW j \in StoreKey, NEW k \in StoreKey,
           unpack_table_id(j) = id, unpack_table_id(k) = id, j < k
    PROVE  unpack_primary_key(j) < unpack_primary_key(k)
<1> DEFINE p == unpack_primary_key(j)
           q == unpack_primary_key(k)
<1>1. /\ p \in 0..PRIMARY_KEY_MASK /\ q \in 0..PRIMARY_KEY_MASK
      /\ j = pack_key(id, p) /\ k = pack_key(id, q)
  BY KeyParts
<1>2. j \in Int /\ k \in Int
  BY KeysFinite
<1> HIDE DEF p, q
<1>3. pack_key(id, p) <= k /\ k <= pack_key(id, q)
  BY <1>1, <1>2
<1>4. p <= q
  BY <1>1, <1>3, KeyBlock DEF p, q
<1>5. p # q
  BY <1>1, <1>2
<1>6. p \in Int /\ q \in Int
  BY <1>1
<1> QED
  BY <1>4, <1>5, <1>6 DEF p, q

\* The clause holds of the rows it matches.
LEMMA HoldsMatches ==
    ASSUME NEW row \in Row, NEW where \in {NoWhere} \cup Where, WhereOk(where)
    PROVE  Table!Holds(row, where) <=> (where = NoWhere \/ matches(row, where))
<1>1. CASE where = NoWhere
  BY <1>1 DEF NoWhere, Table!Holds
<1>2. CASE where # NoWhere
  <2> DEFINE v == row[where.column]
             x == where.value
  <2>1. /\ where \in Where /\ where.column \in Column /\ x \in Int
        /\ where.op = "BETWEEN" => where.value2 \in Int
    BY <1>2 DEF WhereOk, Where, CompareOp
  <2>2. v \in Int
    BY <2>1 DEF Row, Column
  <2>3. where.op \in {"=", "<", ">", "<=", ">=", "BETWEEN"}
    BY <2>1 DEF Where, CompareOp
  <2> HIDE DEF v, x
  <2>4. /\ ~ (v > x) <=> v <= x
        /\ ~ (v < x) <=> v >= x
        /\ \A y \in Int : v \in x..y <=> x <= v /\ v <= y
    BY <2>1, <2>2
  <2>5. matches(row, where) <=>
           \/ where.op = "BETWEEN" /\ x <= v /\ v <= where.value2
           \/ where.op = "="  /\ v = x
           \/ where.op = "<"  /\ v < x
           \/ where.op = ">"  /\ v > x
           \/ where.op = "<=" /\ v <= x
           \/ where.op = ">=" /\ v >= x
    BY DEF matches, v, x
  <2>6. Table!Holds(row, where) <=>
           \/ where.op = "BETWEEN" /\ v \in x..where.value2
           \/ where.op = "="  /\ v = x
           \/ where.op = "<"  /\ v < x
           \/ where.op = ">"  /\ v > x
           \/ where.op = "<=" /\ ~ (v > x)
           \/ where.op = ">=" /\ ~ (v < x)
    BY <2>3 DEF Table!Holds, v, x
  <2> QED
    BY <1>2, <2>1, <2>4, <2>5, <2>6
<1> QED
  BY <1>1, <1>2

\* The primary keys of the rows a search finds are those the table's
\* specification lists.
LEMMA FoundAs ==
    ASSUME IdsFit, CatInv, SyncInv, Shape, Searching, stmt.id = TheId, NEW list,
           list = find_matches(stmt.id, stmt.where)
    PROVE  LET hit   == {p \in 0..PRIMARY_KEY_MASK :
                            TableRows[p] # Absent /\ Table!Holds(TableRows[p], stmt.where)}
               order == Ascending(hit)
           IN  /\ DOMAIN order = DOMAIN list
               /\ \A n \in DOMAIN list : list[n].row.id = order[n] /\ list[n].row = TableRows[order[n]]
<1> DEFINE id    == stmt.id
           where == stmt.where
           P     == 0..PRIMARY_KEY_MASK
           hit   == {p \in P : TableRows[p] # Absent /\ Table!Holds(TableRows[p], where)}
           order == [n \in DOMAIN list |-> unpack_primary_key(list[n].key)]
<1>1. /\ id \in CatalogIds(store, "table") /\ id \in 0..MaxId /\ id # 0
      /\ where \in WhereInput /\ WhereOk(where) /\ where \in {NoWhere} \cup Where
      /\ store \in Map /\ KeysApart(store)
  <2>1. stmt.kind \in {"update", "delete"} /\ where \in WhereInput /\ WhereOk(where)
    BY CatParts, Statements DEF Searching
  <2>2. id \in CatalogIds(store, "table") /\ id \in 1..MaxId
    BY <2>1, StatementTable
  <2> QED
    BY <2>1, <2>2, CatParts, ExecAssumption
<1>2. ASSUME NEW k \in StoreKey, unpack_table_id(k) = id, store[k] # Absent
      PROVE  store[k].row \in Row /\ store[k].row.id = unpack_primary_key(k)
  <2>1. store[k].row \in Row /\ store[k] = RowValue(store[k].row)
    BY <1>1, <1>2, Blocks
  <2>2. store[k].kind = "row"
    BY <2>1 DEF RowValue
  <2> QED
    BY <1>2, <2>1, <2>2 DEF SyncInv, RowsKeyed, RowKeyed
<1>3. TableKeyed(id)
  BY <1>2 DEF TableKeyed, TableKeys
<1> HIDE DEF id, where
<1>4. Lists(list, Hits(id, where)) /\ KeysAscend(list)
  BY <1>1, <1>3, FindLists, FindOrdered DEF id, where
<1>5. /\ list \in Seq(Match) /\ DOMAIN list = 1..Len(list) /\ Len(list) \in Nat
      /\ \A n \in 1..Len(list) : /\ list[n].key \in StoreKey /\ unpack_table_id(list[n].key) = id
                                 /\ store[list[n].key] # Absent /\ Hit(list[n].key, where)
                                 /\ list[n].row = store[list[n].key].row
      /\ \A k \in Hits(id, where) : \E n \in 1..Len(list) : list[n].key = k
  <2>1. list \in Seq(Match)
    BY <1>4 DEF Lists
  <2> QED
    BY <1>4, <2>1, LenProperties DEF Lists, Hits, TableKeys
<1>6. ASSUME NEW k \in StoreKey, unpack_table_id(k) = id, store[k] # Absent
      PROVE  TableRows[unpack_primary_key(k)] = store[k].row
  <2>1. unpack_primary_key(k) \in P /\ k = pack_key(id, unpack_primary_key(k))
    BY <1>6, KeyParts
  <2> QED
    BY <1>1, <1>6, <2>1 DEF TableRows, RowsOf, TheId, id
<1>7. ASSUME NEW n \in 1..Len(list)
      PROVE  /\ order[n] \in hit
             /\ list[n].row.id = order[n] /\ list[n].row = TableRows[order[n]]
  <2> DEFINE k == list[n].key
  <2>1. /\ k \in StoreKey /\ unpack_table_id(k) = id /\ store[k] # Absent /\ Hit(k, where)
        /\ list[n].row = store[k].row
    BY <1>5
  <2>2. order[n] = unpack_primary_key(k)
    BY <1>5
  <2> HIDE DEF k, order
  <2>3. store[k].row \in Row /\ store[k].row.id = order[n] /\ TableRows[order[n]] = store[k].row
    BY <1>2, <1>6, <2>1, <2>2
  <2>4. order[n] \in P
    BY <2>1, <2>2, KeyParts
  <2>5. Table!Holds(store[k].row, where)
    BY <1>1, <2>1, <2>3, HoldsMatches DEF Hit
  <2>6. store[k].row # Absent
    BY <2>3, TableAssumption
  <2> QED
    BY <2>1, <2>3, <2>4, <2>5, <2>6
<1>8. ASSUME NEW p \in hit
      PROVE  \E n \in 1..Len(list) : order[n] = p
  <2> DEFINE k == pack_key(id, p)
  <2>1. k \in StoreKey /\ unpack_table_id(k) = id /\ unpack_primary_key(k) = p
    BY <1>1, KeyOf
  <2>2. store[k] # Absent /\ TableRows[p] = store[k].row
    BY <1>1 DEF TableRows, RowsOf, TheId, id
  <2> HIDE DEF k
  <2>3. store[k].row \in Row /\ Table!Holds(store[k].row, where)
    BY <1>2, <2>1, <2>2
  <2>4. Hit(k, where)
    BY <1>1, <2>3, HoldsMatches DEF Hit
  <2>5. k \in Hits(id, where)
    BY <2>1, <2>2, <2>4 DEF Hits, TableKeys
  <2>6. PICK n \in 1..Len(list) : list[n].key = k
    BY <1>5, <2>5
  <2> QED
    BY <1>5, <2>1, <2>6
<1>9. order \in Seq(hit) /\ Len(order) = Len(list) /\ DOMAIN order = 1..Len(list)
  <2> DEFINE N == Len(list)
  <2>1. order \in [1..N -> hit] /\ N \in Nat
    BY <1>5, <1>7
  <2>2. DOMAIN order = 1..N
    BY <1>5
  <2> HIDE DEF order, hit, N
  <2>3. order \in Seq(hit) /\ Len(order) = N
    BY <2>1, <2>2
  <2> QED
    BY <2>2, <2>3 DEF N
<1>10. IsAscending(order)
  <2> SUFFICES ASSUME NEW m \in 1..Len(list), NEW n \in 1..Len(list), m < n
               PROVE  order[m] < order[n]
    BY <1>9 DEF IsAscending
  <2>1. list[m].key < list[n].key
    BY <1>4 DEF KeysAscend
  <2>2. unpack_primary_key(list[m].key) < unpack_primary_key(list[n].key)
    BY <1>1, <1>5, <2>1, SameOrder
  <2> QED
    BY <1>5, <2>2
<1>11. hit \in SUBSET Int
  BY Spans
<1> DEFINE listed == Ascending(hit)
<1>12. order = listed
  <2> HIDE DEF order, hit
  <2>1. \A p \in hit : \E n \in 1..Len(order) : order[n] = p
    BY <1>8, <1>9
  <2> QED
    BY <1>9, <1>10, <1>11, <2>1, OneAscendingList
<1>13. /\ DOMAIN listed = DOMAIN list
       /\ \A n \in DOMAIN list : list[n].row.id = listed[n] /\ list[n].row = TableRows[listed[n]]
  <2> HIDE DEF order, listed
  <2> QED
    BY <1>5, <1>7, <1>9, <1>12
<1> QED
  BY <1>13 DEF id, where

\* The table's specification lists and joins as the executor does.
LEMMA SameLists ==
    /\ \A S : Table!Ascending(S) = Ascending(S)
    /\ \A ss : Table!FlattenSeq(ss) = FlattenSeq(ss)
<1>1. \A S : Table!Ascending(S) = Ascending(S)
  <2>1. \A S, R, x : Table!InFront(S, R, x) = InFront(S, R, x)
    BY DEF Table!InFront, InFront
  <2>2. \A S : Table!Less(S) = Less(S)
    BY DEF Table!Less, Less
  <2>3. \A S : Table!Cardinality(S) = Cardinality(S)
    BY DEF Table!Cardinality, Cardinality
  <2>4. ASSUME NEW S, NEW R
        PROVE  Table!InOrder(S, R) = InOrder(S, R)
    <3>1. \A x : Table!Cardinality(Table!InFront(S, R, x)) = Cardinality(InFront(S, R, x))
      BY <2>1, <2>3
    <3>2. Table!Cardinality(S) = Cardinality(S)
      BY <2>3
    <3> QED
      BY <3>1, <3>2 DEF Table!InOrder, InOrder
  <2> QED
    BY <2>2, <2>4 DEF Table!Ascending, Ascending
<1>2. \A ss : Table!FlattenSeq(ss) = FlattenSeq(ss)
  BY DEF Table!FlattenSeq, FlattenSeq
<1> QED
  BY <1>1, <1>2

\* A search works the statement out.
LEMMA SearchRefines ==
    ASSUME IdsFit, CatInv, SyncInv, Shape, Shape', Search
    PROVE  Table!WorkOut \/ UNCHANGED Table!tableVars
<1> SUFFICES ASSUME NEW list, list = find_matches(stmt.id, stmt.where)
             PROVE  Table!WorkOut \/ UNCHANGED Table!tableVars
  OBVIOUS
<1>1. /\ Searching /\ pending' = list
      /\ stmt' = [kind |-> stmt.kind, id |-> stmt.id, set |-> stmt.set]
      /\ store' = store /\ file' = file /\ tables' = tables /\ todo' = todo /\ cuts' = cuts
  BY DEF Search, data, catalog, faults
<1>2. todo = <<>> /\ pending = <<>> /\ TableLeft = <<>>
  BY <1>1 DEF Shape, LeftFacts
<1>3. ~ Searching' /\ TableAsked' = Absent
  <2>1. DOMAIN stmt' = {"kind", "id", "set"}
    BY <1>1
  <2>2. ~ Searching'
    BY <2>1 DEF Searching
  <2> QED
    BY <2>2 DEF Shape, LeftFacts
<1>4. TableRows' = TableRows /\ TableDisk' = TableDisk /\ TheId' = TheId
  BY <1>1, RowsKept
<1>5. TableLeft' = PendingWrites(TheId)'
  BY <1>1, <1>2 DEF Shape, LeftFacts
<1>6. CASE stmt.id # TheId
  <2>1. TableAsked = Absent
    BY <1>6 DEF TableAsked, TheId
  <2>2. TableLeft' = <<>>
    BY <1>1, <1>4, <1>5, <1>6 DEF PendingWrites
  <2> QED
    BY <1>1, <1>2, <1>3, <1>4, <2>1, <2>2, Stutters
<1>7. CASE stmt.id = TheId
  <2> DEFINE asked == [kind |-> stmt.kind, set |-> stmt.set, where |-> stmt.where]
             hit   == {p \in 0..PRIMARY_KEY_MASK :
                          TableRows[p] # Absent /\ Table!Holds(TableRows[p], stmt.where)}
             order == Ascending(hit)
             one(p) == IF stmt.kind = "delete" THEN <<Table!Write(p, Absent)>>
                       ELSE Table!Updated(TableRows[p], stmt.set)
             parts == [n \in DOMAIN list |-> MatchWrites(list[n])']
  <2>1. TableAsked = asked
    BY <1>1, <1>7 DEF TableAsked, TheId
  <2>2. asked # Absent
    <3>1. stmt.kind \in {"update", "delete"} /\ stmt.set \in [id : Literal, a : Literal] /\ stmt.where \in WhereInput
      BY <1>1, CatParts, Statements DEF Searching
    <3>2. stmt.where \in {NoWhere} \cup Where
      BY <3>1, ExecAssumption
    <3>3. asked \in Request
      BY <3>1, <3>2 DEF Request
    <3> QED
      BY <3>3, TableAssumption
  <2>3. Table!WritesOf(TableAsked) = FlattenSeq([n \in DOMAIN order |-> one(order[n])])
    <3> DEFINE about(w)      == {p \in 0..PRIMARY_KEY_MASK :
                                    TableRows[p] # Absent /\ Table!Holds(TableRows[p], w)}
               own(k, set, p) == IF k = "delete" THEN <<Table!Write(p, Absent)>>
                                 ELSE Table!Updated(TableRows[p], set)
               whole(h, k, set) ==
                   FlattenSeq([n \in DOMAIN Ascending(h) |-> own(k, set, Ascending(h)[n])])
    <3>1. Table!WritesOf(TableAsked) = whole(about(TableAsked.where), TableAsked.kind, TableAsked.set)
      BY SameLists DEF Table!WritesOf
    <3>2. TableAsked.where = stmt.where /\ TableAsked.kind = stmt.kind /\ TableAsked.set = stmt.set
      BY <2>1
    <3>3. whole(hit, stmt.kind, stmt.set) = FlattenSeq([n \in DOMAIN order |-> one(order[n])])
      OBVIOUS
    <3>4. hit = about(stmt.where)
      OBVIOUS
    <3> HIDE DEF whole, about, hit
    <3> QED
      BY <3>1, <3>2, <3>3, <3>4
  <2>4. /\ DOMAIN order = DOMAIN list
        /\ \A n \in DOMAIN list : list[n].row.id = order[n] /\ list[n].row = TableRows[order[n]]
    BY <1>1, <1>7, FoundAs
  <2>5. TableLeft' = IF list # <<>> THEN FlattenSeq(parts) ELSE <<>>
    BY <1>1, <1>4, <1>5, <1>7 DEF PendingWrites
  <2> HIDE DEF order
  <2>6. ASSUME NEW n \in DOMAIN list
        PROVE  MatchWrites(list[n])' = one(order[n])
    <3> DEFINE m == list[n]
               p == order[n]
    <3>1. m.row.id = p /\ m.row = TableRows[p]
      BY <2>4
    <3>2. stmt'.kind = stmt.kind /\ stmt'.set = stmt.set
      BY <1>1
    <3> HIDE DEF m, p
    <3>3. MatchWrites(m)' = one(p)
      BY <3>1, <3>2 DEF MatchWrites, Assigned, Table!Updated, Table!Write
    <3> QED
      BY <3>3 DEF m, p
  <2>7. parts = [n \in DOMAIN order |-> one(order[n])]
    BY <2>4, <2>6
  <2>8. TableLeft' = Table!WritesOf(TableAsked)
    <3>1. list = <<>> => parts = <<>>
      OBVIOUS
    <3> HIDE DEF parts
    <3> QED
      BY <2>3, <2>5, <2>7, <3>1, FlattenNone
  <2> HIDE DEF asked
  <2> QED
    BY <1>1, <1>3, <1>4, <2>1, <2>2, <2>8 DEF Table!WorkOut
<1> QED
  BY <1>6, <1>7

-----------------------------------------------------------------------------
(* The refinement.                                                         *)

\* It starts as the table's specification does.
LEMMA StartRefines ==
    ASSUME Shape, ExecInit
    PROVE  Table!TableInit
<1>1. /\ store = [k \in StoreKey |-> Absent] /\ file = store
      /\ TheId = 0 /\ stmt = Nothing /\ todo = <<>> /\ pending = <<>> /\ cuts = 0
  BY TableAssumption DEF ExecInit, TheId
<1>2. TableRows = [p \in 0..PRIMARY_KEY_MASK |-> Absent] /\ TableDisk = TableRows
  BY <1>1 DEF Shape, DiskIsHome, TableRows, RowsOf, TheId
<1>3. ~ Searching
  BY <1>1 DEF Searching, Nothing
<1>4. TableAsked = Absent /\ TableLeft = <<>>
  BY <1>1, <1>3 DEF Shape, LeftFacts
<1> QED
  BY <1>1, <1>2, <1>4 DEF Table!TableInit

\* Every step is one of the table's, or none.
LEMMA StepRefines ==
    ASSUME IdsFit, CatInv, CatInv', SyncInv, TableInv, Shape, Shape', [ExecNext]_vars
    PROVE  [Table!TableNext]_(Table!tableVars)
<1>1. CASE \/ \E t \in TableName : CreateTable(t)
           \/ \E t \in TableName, n \in IndexName, c \in IndexColumn : CreateIndex(n, t, c)
  BY <1>1, CreateRefines
<1>2. ASSUME NEW t \in TableName, NEW i \in IdLiteral, NEW a \in ALiteral,
             Insert(t, [id |-> i, a |-> a])
      PROVE  Table!Insert \/ UNCHANGED Table!tableVars
  BY <1>2, InsertRefines
<1>3. ASSUME NEW t \in TableName, NEW w \in WhereInput, Delete(t, w)
      PROVE  Table!Ask \/ UNCHANGED Table!tableVars
  BY <1>3, BeginRefines DEF Delete
<1>4. ASSUME NEW t \in TableName, NEW w \in WhereInput, NEW set \in SetInput, Update(t, set, w)
      PROVE  Table!Ask \/ UNCHANGED Table!tableVars
  BY <1>4, BeginRefines DEF Update
<1>5. CASE Search
  BY <1>5, SearchRefines DEF Table!TableNext
<1>6. CASE UpdateRow \/ DeleteRow \/ Finish
  BY <1>6, MatchRefines, FinishRefines
<1>7. CASE StoreCall
  BY <1>7, StoreCallRefines DEF Table!TableNext
<1>8. CASE Throw
  BY <1>8, ThrowRefines DEF Table!TableNext
<1>9. CASE Restart
  BY <1>9, RestartRefines DEF Table!TableNext
<1>10. CASE Checkpoint
  BY <1>10, CheckpointRefines DEF Table!TableNext
<1>11. CASE UNCHANGED vars
  <2>1. /\ store' = store /\ file' = file /\ tables' = tables
        /\ stmt' = stmt /\ pending' = pending /\ todo' = todo /\ cuts' = cuts
    BY <1>11 DEF vars, data, catalog, work, faults
  <2>2. TableRows' = TableRows /\ TableDisk' = TableDisk
    BY <2>1, RowsKept
  <2>3. TableAsked' = TableAsked
    BY <2>1 DEF TableAsked, Searching
  <2>4. TableLeft' = TableLeft
    BY <2>1 DEF TableLeft, PendingWrites, MatchWrites, Assigned
  <2> QED
    BY <2>1, <2>2, <2>3, <2>4, Stutters
<1> QED
  BY <1>1, <1>2, <1>3, <1>4, <1>5, <1>6, <1>7, <1>8, <1>9, <1>10, <1>11 DEF ExecNext, Table!TableNext

\* ExecIsTable: with no more ids given out than keys have room for, and no UPDATE
\* that gives several rows a new key, every table is the one SqlTable describes,
\* through every interleaving of store calls, errors, crashes and checkpoints.
THEOREM ExecIsTableHolds == IdsFit /\ KeyUpdates = "one" => (ExecSpec => ExecIsTable)
<1> SUFFICES ASSUME IdsFit, KeyUpdates = "one"
             PROVE  ExecSpec => ExecIsTable
  OBVIOUS
<1>1. ExecSpec => []CatInv
  BY CatalogKept
<1>2. ExecSpec => []SyncInv
  BY SyncKept
<1>3. ExecSpec => []TableInv
  BY TableKept
<1>4. CatInv /\ TableInv => Shape
  BY Shaped
<1>5. Shape /\ ExecInit => Table!TableInit
  BY StartRefines
<1>6. CatInv /\ CatInv' /\ SyncInv /\ TableInv /\ Shape /\ Shape' /\ [ExecNext]_vars
         => [Table!TableNext]_(Table!tableVars)
  BY StepRefines
<1> QED
  BY <1>1, <1>2, <1>3, <1>4, <1>5, <1>6, PTL DEF ExecSpec, ExecIsTable, Table!TableSpec

=============================================================================
