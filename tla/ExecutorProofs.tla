--------------------------- MODULE ExecutorProofs ---------------------------
(***************************************************************************)
(* The packing of keys, for fields of every width; and what the executor   *)
(* keeps of tables, indexes and the catalog, for every number of tables,   *)
(* indexes, rows, failed calls and restarts.                               *)
(***************************************************************************)
EXTENDS Executor, AscendingProofs, SequenceTheorems, TLAPS

RP == INSTANCE LogReplayProofs WITH Key <- StoreKey, Value <- StoreValue

-----------------------------------------------------------------------------
(* Packing.                                                                *)

\* A quotient and a remainder are those of one number only.
LEMMA OneDivision ==
    ASSUME NEW K \in Nat \ {0}, NEW q \in Int, NEW r \in 0..(K - 1),
           NEW s \in Int, NEW u \in 0..(K - 1), q * K + r = s * K + u
    PROVE  q = s /\ r = u
<1>1. ASSUME NEW a \in Int, NEW b \in Int, a < b
      PROVE  a * K + K <= b * K
  <2>1. a + 1 <= b
    BY <1>1
  <2>2. (a + 1) * K <= b * K
    BY <2>1
  <2> QED
    BY <2>2
<1>2. ~ (q < s)
  BY <1>1
<1>3. ~ (s < q)
  BY <1>1
<1> QED
  BY <1>2, <1>3

\* Quotient and remainder of the operators are a quotient and a remainder.
LEMMA Divided ==
    ASSUME NEW K \in Nat \ {0}, NEW n \in Int
    PROVE  /\ n \div K \in Int
           /\ n % K \in 0..(K - 1)
           /\ n = (n \div K) * K + (n % K)
<1>1. n % K \in 0..(K - 1) /\ n \div K \in Int
  OBVIOUS
<1>2. n = (n \div K) * K + (n % K)
  OBVIOUS
<1> QED
  BY <1>1, <1>2

\* Dividing undoes a multiplication and an addition.
LEMMA DivisionOf ==
    ASSUME NEW K \in Nat \ {0}, NEW q \in Int, NEW r \in 0..(K - 1)
    PROVE  (q * K + r) \div K = q /\ (q * K + r) % K = r
<1> DEFINE n == q * K + r
<1>1. n \in Int
  OBVIOUS
<1>2. n \div K \in Int /\ n % K \in 0..(K - 1) /\ n = (n \div K) * K + (n % K)
  BY <1>1, Divided
<1> HIDE DEF n
<1>3. n \div K = q /\ n % K = r
  <2>1. q * K + r = (n \div K) * K + (n % K)
    BY <1>2 DEF n
  <2> QED
    BY <2>1, <1>2, OneDivision
<1> QED
  BY <1>3 DEF n

\* A number that fits its field survives the mask.
LEMMA Fits ==
    ASSUME NEW K \in Nat \ {0}, NEW r \in 0..(K - 1)
    PROVE  r % K = r
OBVIOUS

\* The table id as pack_key shifts it up: past the sign bit it comes out negative.
SignedId(id) == IF 2 * id < TableSpan THEN id ELSE id - TableSpan

\* Table ids and primary keys that fit their fields come back out of the key
\* they were packed into: Delete, Update and CreateIndex get a row's primary key
\* back from its key, and load_existing a table's id.
THEOREM UnpackPacked ==
    ASSUME NEW t \in 0..(TableSpan - 1), NEW pk \in 0..(KeySpan - 1)
    PROVE  /\ unpack_table_id(pack_key(t, pk)) = t
           /\ unpack_primary_key(pack_key(t, pk)) = pk
<1>1. TableSpan \in Nat \ {0} /\ KeySpan \in Nat \ {0}
  BY SpanAssumption
<1>2. t % TableSpan = t /\ pk % KeySpan = pk
  BY <1>1, Fits
<1>3. SignedId(t) \in Int /\ SignedId(t) % TableSpan = t
  <2>1. CASE 2 * t < TableSpan
    BY <2>1, <1>1, <1>2 DEF SignedId
  <2>2. CASE ~ (2 * t < TableSpan)
    <3>1. SignedId(t) = (-1) * TableSpan + t
      BY <2>2, <1>1 DEF SignedId
    <3>2. ((-1) * TableSpan + t) % TableSpan = t
      BY <1>1, DivisionOf
    <3> QED
      BY <3>1, <3>2, <1>1
  <2> QED
    BY <2>1, <2>2
<1>4. pack_key(t, pk) = SignedId(t) * KeySpan + pk
  BY <1>2 DEF pack_key, SignedId
<1>5. pack_key(t, pk) \div KeySpan = SignedId(t) /\ pack_key(t, pk) % KeySpan = pk
  BY <1>1, <1>3, <1>4, DivisionOf
<1> QED
  BY <1>3, <1>5 DEF unpack_table_id, unpack_primary_key

\* No two rows of any two tables share a key, which is what keeps the tables of
\* one store apart (table_key.h, lines 1 to 7).
THEOREM PackedApart ==
    ASSUME NEW t \in 0..(TableSpan - 1), NEW pk \in 0..(KeySpan - 1),
           NEW u \in 0..(TableSpan - 1), NEW qk \in 0..(KeySpan - 1),
           pack_key(t, pk) = pack_key(u, qk)
    PROVE  t = u /\ pk = qk
<1>1. unpack_table_id(pack_key(t, pk)) = t /\ unpack_primary_key(pack_key(t, pk)) = pk
  BY UnpackPacked
<1>2. unpack_table_id(pack_key(u, qk)) = u /\ unpack_primary_key(pack_key(u, qk)) = qk
  BY UnpackPacked
<1> QED
  BY <1>1, <1>2

\* An index entry is a primary key of its own table: the value and the key it
\* was made of come back out of it, and it fits the primary key's bits, so that
\* packing it again under the index's table id loses nothing.
THEOREM CompositeFits ==
    ASSUME NEW v \in 0..(ValueSpan - 1), NEW pk \in 0..(PkSpan - 1)
    PROVE  /\ unpack_secondary_pk(pack_secondary_composite(v, pk)) = pk
           /\ pack_secondary_composite(v, pk) \div PkSpan = v
           /\ pack_secondary_composite(v, pk) \in 0..(KeySpan - 1)
<1>1. ValueSpan \in Nat \ {0} /\ PkSpan \in Nat \ {0} /\ KeySpan = ValueSpan * PkSpan
  BY SpanAssumption
<1>2. v % ValueSpan = v /\ pk % PkSpan = pk
  BY <1>1, Fits
<1>3. pack_secondary_composite(v, pk) = v * PkSpan + pk
  BY <1>2 DEF pack_secondary_composite
<1>4. (v * PkSpan + pk) \div PkSpan = v /\ (v * PkSpan + pk) % PkSpan = pk
  BY <1>1, DivisionOf
<1>5. v * PkSpan + pk \in 0..(KeySpan - 1)
  <2>1. v + 1 <= ValueSpan
    BY <1>1
  <2>2. (v + 1) * PkSpan <= ValueSpan * PkSpan
    BY <2>1, <1>1
  <2>3. v * PkSpan \in Nat /\ (v + 1) * PkSpan = v * PkSpan + PkSpan
    BY <1>1
  <2> QED
    BY <2>2, <2>3, <1>1
<1> QED
  BY <1>3, <1>4, <1>5 DEF unpack_secondary_pk

\* The composites of one indexed value are a block of consecutive numbers, and the
\* blocks of two values do not meet.
LEMMA CompositeBlock ==
    ASSUME NEW v \in 0..(ValueSpan - 1), NEW w \in 0..(ValueSpan - 1), NEW pk \in 0..(PkSpan - 1)
    PROVE  (/\ pack_secondary_composite(v, 0) <= pack_secondary_composite(w, pk)
            /\ pack_secondary_composite(w, pk) <= pack_secondary_composite(v, SECONDARY_PK_MASK))
           <=> v = w
<1>1. ValueSpan \in Nat \ {0} /\ PkSpan \in Nat \ {0}
  BY SpanAssumption
<1>2. /\ v % ValueSpan = v /\ w % ValueSpan = w /\ pk % PkSpan = pk
      /\ 0 % PkSpan = 0 /\ (PkSpan - 1) % PkSpan = PkSpan - 1
  BY <1>1, Fits
<1>3. /\ pack_secondary_composite(v, 0) = v * PkSpan + 0
      /\ pack_secondary_composite(w, pk) = w * PkSpan + pk
      /\ pack_secondary_composite(v, SECONDARY_PK_MASK) = v * PkSpan + (PkSpan - 1)
  BY <1>2 DEF pack_secondary_composite, SECONDARY_PK_MASK
<1>4. v * PkSpan \in Int /\ w * PkSpan \in Int
  BY <1>1
<1>5. ASSUME NEW a \in Int, NEW b \in Int, a < b
      PROVE  a * PkSpan + PkSpan <= b * PkSpan
  <2>1. (a + 1) * PkSpan <= b * PkSpan
    BY <1>1, <1>5
  <2> QED
    BY <2>1, <1>1
<1>6. CASE v = w
  BY <1>1, <1>3, <1>4, <1>6
<1>7. CASE v < w
  <2>1. v * PkSpan + PkSpan <= w * PkSpan
    BY <1>5, <1>7
  <2> QED
    BY <1>1, <1>3, <1>4, <1>7, <2>1
<1>8. CASE w < v
  <2>1. w * PkSpan + PkSpan <= v * PkSpan
    BY <1>5, <1>8
  <2> QED
    BY <1>1, <1>3, <1>4, <1>8, <2>1
<1> QED
  BY <1>6, <1>7, <1>8

\* The range query of the index path, [pack_key(t, composite(v, 0)), pack_key(t,
\* composite(v, SECONDARY_PK_MASK))], meets the entries of value v in index t and no
\* other key a store can hold: no row of any table, no entry of another index, none
\* of another value, whichever side of the sign bit the ids are on.
THEOREM BlocksApart ==
    ASSUME NEW t \in 0..(TableSpan - 1), NEW v \in 0..(ValueSpan - 1),
           NEW u \in 0..(TableSpan - 1), NEW e \in 0..(KeySpan - 1)
    PROVE  (/\ pack_key(t, pack_secondary_composite(v, 0)) <= pack_key(u, e)
            /\ pack_key(u, e) <= pack_key(t, pack_secondary_composite(v, SECONDARY_PK_MASK)))
           <=> \E pk \in 0..(PkSpan - 1) : u = t /\ e = pack_secondary_composite(v, pk)
<1> DEFINE c(p)  == pack_secondary_composite(v, p)
           first == c(0)
           last  == c(SECONDARY_PK_MASK)
           w     == e \div PkSpan
           q     == e % PkSpan
<1>1. /\ TableSpan \in Nat \ {0} /\ KeySpan \in Nat \ {0} /\ ValueSpan \in Nat \ {0}
      /\ PkSpan \in Nat \ {0} /\ KeySpan = ValueSpan * PkSpan
  BY SpanAssumption
<1>2. \A p \in 0..(PkSpan - 1) : c(p) \in 0..(KeySpan - 1) /\ first <= c(p) /\ c(p) <= last
  BY CompositeFits, CompositeBlock
<1>3. first \in 0..(KeySpan - 1) /\ last \in 0..(KeySpan - 1)
  <2>1. 0 \in 0..(PkSpan - 1) /\ SECONDARY_PK_MASK \in 0..(PkSpan - 1)
    BY <1>1 DEF SECONDARY_PK_MASK
  <2> HIDE DEF c
  <2> QED
    BY <1>2, <2>1
<1>4. w \in 0..(ValueSpan - 1) /\ q \in 0..(PkSpan - 1) /\ e = pack_secondary_composite(w, q)
  <2>1. w \in Int /\ q \in 0..(PkSpan - 1) /\ e = w * PkSpan + q
    BY <1>1, Divided
  <2>2. 0 <= w /\ w < ValueSpan
    <3>1. 0 * PkSpan <= e /\ e < ValueSpan * PkSpan /\ 0 \in Int /\ ValueSpan \in Int /\ e \in Int
      BY <1>1
    <3> QED
      BY <1>1, <3>1, QuotientBetween
  <2> HIDE DEF w, q
  <2>3. w % ValueSpan = w /\ q % PkSpan = q
    BY <1>1, <2>1, <2>2, Fits
  <2>4. pack_secondary_composite(w, q) = w * PkSpan + q
    BY <2>3 DEF pack_secondary_composite
  <2>5. w \in 0..(ValueSpan - 1)
    BY <1>1, <2>1, <2>2
  <2> QED
    BY <2>1, <2>4, <2>5
<1>5. first <= e /\ e <= last <=> v = w
  <2> HIDE DEF w, q
  <2> QED
    BY <1>4, CompositeBlock
<1>6. \A id \in 0..(TableSpan - 1), p \in 0..(KeySpan - 1) :
         pack_key(id, p) = SignedId(id) * KeySpan + p /\ SignedId(id) \in Int
  <2>1. SUFFICES ASSUME NEW id \in 0..(TableSpan - 1), NEW p \in 0..(KeySpan - 1)
                 PROVE  pack_key(id, p) = SignedId(id) * KeySpan + p /\ SignedId(id) \in Int
    OBVIOUS
  <2>2. id % TableSpan = id /\ p % KeySpan = p
    BY <1>1, Fits
  <2> QED
    BY <1>1, <2>2 DEF pack_key, SignedId
<1> DEFINE i == SignedId(t)
           j == SignedId(u)
<1>7. i \in Int /\ j \in Int /\ (i = j <=> t = u)
  BY <1>1, <1>6 DEF SignedId
<1>8. /\ pack_key(t, first) = i * KeySpan + first /\ pack_key(t, last) = i * KeySpan + last
      /\ pack_key(u, e) = j * KeySpan + e
  <2> HIDE DEF first, last
  <2> QED
    BY <1>3, <1>6
<1>9. ASSUME NEW a \in Int, NEW b \in Int, a < b
      PROVE  a * KeySpan + KeySpan <= b * KeySpan /\ a * KeySpan \in Int /\ b * KeySpan \in Int
  <2>1. (a + 1) * KeySpan <= b * KeySpan
    BY <1>1, <1>9
  <2> QED
    BY <1>1, <2>1
<1> HIDE DEF first, last, i, j
<1>10. (i * KeySpan + first <= j * KeySpan + e /\ j * KeySpan + e <= i * KeySpan + last)
       <=> (i = j /\ first <= e /\ e <= last)
  <2>1. CASE i = j
    <3>1. i * KeySpan \in Int
      BY <1>1, <1>7
    <3> QED
      BY <1>3, <2>1, <3>1
  <2>2. CASE i < j
    BY <1>1, <1>3, <1>7, <1>9, <2>2
  <2>3. CASE j < i
    BY <1>1, <1>3, <1>7, <1>9, <2>3
  <2> QED
    BY <1>7, <2>1, <2>2, <2>3
<1>11. (first <= e /\ e <= last) <=> \E pk \in 0..(PkSpan - 1) : e = c(pk)
  <2>1. v = w => e = c(q)
    BY <1>4
  <2> HIDE DEF w, q, c
  <2> QED
    BY <1>2, <1>4, <1>5, <2>1
<1>12. (/\ pack_key(t, first) <= pack_key(u, e) /\ pack_key(u, e) <= pack_key(t, last))
       <=> \E pk \in 0..(PkSpan - 1) : u = t /\ e = c(pk)
  <2> HIDE DEF c
  <2> QED
    BY <1>7, <1>8, <1>10, <1>11
<1> QED
  BY <1>12 DEF first, last

-----------------------------------------------------------------------------
(* The keys of the store.                                                  *)

\* Fewer CREATEs than ids of 16 bits: see catalog.h, line 72.
IdsFit == MaxId < TableSpan /\ MaxId < KeySpan

\* The spans and bounds as numbers.
LEMMA Spans ==
    /\ TableSpan \in Nat \ {0} /\ KeySpan \in Nat \ {0} /\ PkSpan \in Nat \ {0}
    /\ ValueSpan \in Nat \ {0} /\ MaxId \in Nat
    /\ PRIMARY_KEY_MASK = KeySpan - 1 /\ SECONDARY_PK_MASK = PkSpan - 1
    /\ PRIMARY_KEY_MASK \in Nat /\ SECONDARY_PK_MASK \in Nat
    /\ PkSpan <= KeySpan
<1>1. /\ TableSpan \in Nat \ {0} /\ KeySpan \in Nat \ {0} /\ PkSpan \in Nat \ {0}
      /\ ValueSpan \in Nat \ {0} /\ MaxId \in Nat /\ KeySpan = ValueSpan * PkSpan
  BY SpanAssumption, ExecAssumption
<1>2. PkSpan <= KeySpan
  <2>1. PkSpan * 1 <= PkSpan * ValueSpan
    BY <1>1
  <2> QED
    BY <1>1, <2>1
<1> QED
  BY <1>1, <1>2 DEF PRIMARY_KEY_MASK, SECONDARY_PK_MASK

\* A key of the store is made of the table id and the primary key it unpacks to.
LEMMA KeyParts ==
    ASSUME IdsFit, NEW k \in StoreKey
    PROVE  /\ unpack_table_id(k) \in 0..MaxId
           /\ unpack_primary_key(k) \in 0..PRIMARY_KEY_MASK
           /\ k = pack_key(unpack_table_id(k), unpack_primary_key(k))
<1>1. PICK id \in 0..MaxId, p \in 0..PRIMARY_KEY_MASK : k = pack_key(id, p)
  BY DEF StoreKey
<1>2. id \in 0..(TableSpan - 1) /\ p \in 0..(KeySpan - 1)
  BY Spans DEF IdsFit
<1>3. unpack_table_id(k) = id /\ unpack_primary_key(k) = p
  BY <1>1, <1>2, UnpackPacked
<1> QED
  BY <1>1, <1>3

\* A table id and a primary key make a key of the store, and come back out of it.
LEMMA KeyOf ==
    ASSUME IdsFit, NEW id \in 0..MaxId, NEW p \in 0..PRIMARY_KEY_MASK
    PROVE  /\ pack_key(id, p) \in StoreKey
           /\ unpack_table_id(pack_key(id, p)) = id
           /\ unpack_primary_key(pack_key(id, p)) = p
<1>1. id \in 0..(TableSpan - 1) /\ p \in 0..(KeySpan - 1)
  BY Spans DEF IdsFit
<1> QED
  BY <1>1, UnpackPacked DEF StoreKey

\* A row of the catalog is stored under its id.
LEMMA CatalogKey ==
    ASSUME IdsFit, NEW id \in 0..MaxId
    PROVE  /\ pack_key(CATALOG_TABLE_ID, id) \in StoreKey
           /\ unpack_table_id(pack_key(CATALOG_TABLE_ID, id)) = CATALOG_TABLE_ID
           /\ unpack_primary_key(pack_key(CATALOG_TABLE_ID, id)) = id
<1>1. CATALOG_TABLE_ID \in 0..MaxId /\ id \in 0..PRIMARY_KEY_MASK
  BY Spans DEF CATALOG_TABLE_ID, IdsFit
<1> QED
  BY <1>1, KeyOf

\* The composite of any value and any primary key is a primary key, and the low
\* bits of the one it was made of come back out of it.
LEMMA CompositeKey ==
    ASSUME NEW v \in Int, NEW p \in Int
    PROVE  /\ pack_secondary_composite(v, p) \in 0..PRIMARY_KEY_MASK
           /\ unpack_secondary_pk(pack_secondary_composite(v, p)) = p % PkSpan
<1> DEFINE w == v % ValueSpan
           q == p % PkSpan
<1>1. w \in 0..(ValueSpan - 1) /\ q \in 0..(PkSpan - 1)
  BY Spans, Divided
<1>2. pack_secondary_composite(w, q) = pack_secondary_composite(v, p)
  <2>1. w % ValueSpan = w /\ q % PkSpan = q
    BY <1>1, Spans, Fits
  <2> QED
    BY <2>1 DEF pack_secondary_composite
<1> HIDE DEF w, q
<1>3. /\ pack_secondary_composite(w, q) \in 0..(KeySpan - 1)
      /\ unpack_secondary_pk(pack_secondary_composite(w, q)) = q
  BY <1>1, CompositeFits
<1> QED
  BY <1>2, <1>3, Spans DEF q

\* The keys of a table lie between those of its least and its greatest primary
\* key, and no other key does: a range scan stays in its table.
LEMMA KeyBlock ==
    ASSUME IdsFit, NEW id \in 0..MaxId, NEW k \in StoreKey,
           NEW lo \in 0..PRIMARY_KEY_MASK, NEW hi \in 0..PRIMARY_KEY_MASK
    PROVE  (pack_key(id, lo) <= k /\ k <= pack_key(id, hi))
           <=> (/\ unpack_table_id(k) = id
                /\ lo <= unpack_primary_key(k) /\ unpack_primary_key(k) <= hi)
<1> DEFINE t == unpack_table_id(k)
           p == unpack_primary_key(k)
<1>1. t \in 0..MaxId /\ p \in 0..PRIMARY_KEY_MASK /\ k = pack_key(t, p)
  BY KeyParts
<1> HIDE DEF t, p
<1>2. \A u \in 0..MaxId, q \in 0..PRIMARY_KEY_MASK :
         pack_key(u, q) = SignedId(u) * KeySpan + q /\ SignedId(u) \in Int
  <2> SUFFICES ASSUME NEW u \in 0..MaxId, NEW q \in 0..PRIMARY_KEY_MASK
               PROVE  pack_key(u, q) = SignedId(u) * KeySpan + q /\ SignedId(u) \in Int
    OBVIOUS
  <2>1. u % TableSpan = u /\ q % KeySpan = q
    BY Spans, Fits DEF IdsFit
  <2>2. SignedId(u) \in Int
    BY Spans DEF SignedId
  <2> QED
    BY <2>1, <2>2 DEF pack_key, SignedId
<1>3. /\ pack_key(id, lo) = SignedId(id) * KeySpan + lo
      /\ pack_key(id, hi) = SignedId(id) * KeySpan + hi
      /\ k = SignedId(t) * KeySpan + p
      /\ SignedId(id) \in Int /\ SignedId(t) \in Int
  BY <1>1, <1>2
<1>4. SignedId(t) = SignedId(id) <=> t = id
  BY <1>1, Spans DEF SignedId, IdsFit
<1>5. ASSUME NEW a \in Int, NEW b \in Int, a < b
      PROVE  a * KeySpan + KeySpan <= b * KeySpan
  <2>1. (a + 1) * KeySpan <= b * KeySpan
    BY Spans, <1>5
  <2> QED
    BY <2>1, Spans
<1> DEFINE s == SignedId(t)
           i == SignedId(id)
<1>6. s * KeySpan \in Int /\ i * KeySpan \in Int /\ p \in 0..(KeySpan - 1)
      /\ lo \in 0..(KeySpan - 1) /\ hi \in 0..(KeySpan - 1)
  BY <1>1, <1>3, Spans
<1> HIDE DEF s, i
<1>7. s \in Int /\ i \in Int /\ KeySpan \in Int
  BY <1>3, Spans DEF s, i
<1>8. (i * KeySpan + lo <= s * KeySpan + p /\ s * KeySpan + p <= i * KeySpan + hi)
      <=> (s = i /\ lo <= p /\ p <= hi)
  <2>1. CASE s = i
    BY <1>6, <1>7, <2>1
  <2>2. CASE s < i
    <3>1. s * KeySpan + KeySpan <= i * KeySpan
      BY <1>5, <1>7, <2>2
    <3> QED
      BY <1>6, <1>7, <2>2, <3>1
  <2>3. CASE i < s
    <3>1. i * KeySpan + KeySpan <= s * KeySpan
      BY <1>5, <1>7, <2>3
    <3> QED
      BY <1>6, <1>7, <2>3, <3>1
  <2> QED
    BY <1>7, <2>1, <2>2, <2>3
<1> QED
  BY <1>3, <1>4, <1>8 DEF s, i, t, p

\* There are finitely many keys, and all are numbers.
LEMMA KeysFinite == IdsFit => IsFiniteSet(StoreKey) /\ StoreKey \in SUBSET Int
<1> SUFFICES ASSUME IdsFit
             PROVE  IsFiniteSet(StoreKey) /\ StoreKey \in SUBSET Int
  OBVIOUS
<1>1. ASSUME NEW k \in StoreKey
      PROVE  k \in Int
  <2>1. PICK id \in 0..MaxId, p \in 0..PRIMARY_KEY_MASK : k = pack_key(id, p)
    BY DEF StoreKey
  <2>2. id % TableSpan \in Int /\ p % KeySpan \in Int
    BY Spans
  <2> QED
    BY <2>1, <2>2, Spans DEF pack_key
<1> DEFINE S == (0..MaxId) \X (0..PRIMARY_KEY_MASK)
           f == [x \in S |-> pack_key(x[1], x[2])]
<1>2. IsFiniteSet(S)
  <2>1. 0 \in Int /\ MaxId \in Int /\ PRIMARY_KEY_MASK \in Int
    BY Spans
  <2>2. IsFiniteSet(0..MaxId) /\ IsFiniteSet(0..PRIMARY_KEY_MASK)
    BY <2>1, FS_Interval
  <2> QED
    BY <2>2, FS_Product
<1>3. f \in Surjection(S, StoreKey)
  <2>1. \A x \in S : f[x] \in StoreKey
    BY DEF StoreKey
  <2>2. ASSUME NEW k \in StoreKey
        PROVE  \E x \in S : f[x] = k
    <3>1. PICK id \in 0..MaxId, p \in 0..PRIMARY_KEY_MASK : k = pack_key(id, p)
      BY DEF StoreKey
    <3>2. <<id, p>> \in S /\ f[<<id, p>>] = k
      BY <3>1
    <3> QED
      BY <3>2
  <2>3. f \in [S -> StoreKey]
    BY <2>1
  <2> HIDE DEF f, S
  <2> QED
    BY <2>2, <2>3 DEF Surjection
<1> HIDE DEF f, S
<1>4. IsFiniteSet(StoreKey)
  BY <1>2, <1>3, FS_Surjection
<1> QED
  BY <1>1, <1>4



-----------------------------------------------------------------------------
(* Lists of calls joined together.                                         *)

\* The list of the first n lists joined, for every n up to their number.
Joins(part, ss) ==
    /\ part[1] = ss[1]
    /\ \A n \in 2..Len(ss) : part[n] = part[n - 1] \o ss[n]

\* FlattenSeq joins the lists one after the other.
LEMMA Flattened ==
    ASSUME NEW S, NEW ss \in Seq(Seq(S)), Len(ss) # 0
    PROVE  \E part \in [1..Len(ss) -> Seq(S)] :
              Joins(part, ss) /\ FlattenSeq(ss) = part[Len(ss)]
<1> DEFINE N == Len(ss)
           Made(n, f) == /\ f[1] = ss[1]
                         /\ \A i \in 2..n : f[i] = f[i - 1] \o ss[i]
           flatten == CHOOSE f : f = [i \in 1..N |-> IF i = 1 THEN ss[i] ELSE f[i - 1] \o ss[i]]
<1>0. /\ N \in Nat /\ N >= 1 /\ N \in 1..N /\ \A i \in 1..N : ss[i] \in Seq(S)
  <2>1. N \in Nat
    BY LenProperties
  <2>2. \A i \in 1..N : ss[i] \in Seq(S)
    BY ElementOfSeq
  <2> QED
    BY <2>1, <2>2
<1>1. FlattenSeq(ss) = flatten[N]
  BY DEF FlattenSeq
<1> HIDE DEF flatten, N
<1>2. \A n \in 1..N : \E f \in [1..n -> Seq(S)] : Made(n, f)
  <2> DEFINE wrong == {n \in 1..N : ~ \E f \in [1..n -> Seq(S)] : Made(n, f)}
  <2>1. SUFFICES ASSUME wrong # {}
                 PROVE  FALSE
    OBVIOUS
  <2>2. wrong \in SUBSET Nat
    <3>1. \A n \in 1..N : n \in Nat
      BY <1>0
    <3> HIDE DEF Made
    <3> QED
      BY <3>1
  <2>3. PICK n \in wrong : \A m \in wrong : n <= m
    BY <2>1, <2>2, LeastNumber
  <2>4. n \in 1..N
    OBVIOUS
  <2>5. CASE n = 1
    <3> DEFINE f == [i \in 1..1 |-> ss[1]]
    <3>1. f \in [1..n -> Seq(S)] /\ Made(n, f)
      BY <1>0, <2>5
    <3> QED
      BY <3>1
  <2>6. CASE n # 1
    <3>1. n - 1 \in 1..N /\ n \in Nat /\ ~ (n <= n - 1)
      BY <1>0, <2>4, <2>6
    <3>2. PICK g \in [1..(n - 1) -> Seq(S)] : Made(n - 1, g)
      BY <2>3, <3>1
    <3> DEFINE f == [i \in 1..n |-> IF i = n THEN g[n - 1] \o ss[n] ELSE g[i]]
    <3>3. \A i \in 1..n : i = n \/ i \in 1..(n - 1)
      BY <3>1
    <3>4. g[n - 1] \o ss[n] \in Seq(S)
      <4>1. g[n - 1] \in Seq(S) /\ ss[n] \in Seq(S)
        BY <1>0, <2>4, <3>1
      <4> QED
        BY <4>1, ConcatProperties
    <3>5. f \in [1..n -> Seq(S)]
      BY <3>3, <3>4
    <3>6. /\ f[n] = g[n - 1] \o ss[n]
          /\ \A i \in 1..(n - 1) : f[i] = g[i]
      <4>1. n \in 1..n /\ \A i \in 1..(n - 1) : i \in 1..n /\ i # n
        BY <3>1
      <4> QED
        BY <4>1
    <3> HIDE DEF f
    <3>7. f[1] = ss[1] /\ f[n] = f[n - 1] \o ss[n]
      <4>1. 1 \in 1..(n - 1) /\ n - 1 \in 1..(n - 1)
        BY <3>1
      <4> QED
        BY <3>2, <3>6, <4>1
    <3>8. ASSUME NEW i \in 2..n
          PROVE  f[i] = f[i - 1] \o ss[i]
      <4>1. CASE i = n
        BY <3>7, <4>1
      <4>2. CASE i # n
        <5>1. i \in 2..(n - 1) /\ i \in 1..(n - 1) /\ i - 1 \in 1..(n - 1)
          BY <3>1, <4>2
        <5> QED
          BY <3>2, <3>6, <5>1
      <4> QED
        BY <4>1, <4>2
    <3> QED
      BY <3>5, <3>7, <3>8
  <2> QED
    BY <2>5, <2>6
<1>3. PICK w \in [1..N -> Seq(S)] : Made(N, w)
  BY <1>0, <1>2
<1>4. w = [i \in 1..N |-> IF i = 1 THEN ss[i] ELSE w[i - 1] \o ss[i]]
  <2>1. \A i \in 1..N : i = 1 \/ i \in 2..N
    BY <1>0
  <2>2. \A i \in 1..N : w[i] = IF i = 1 THEN ss[i] ELSE w[i - 1] \o ss[i]
    BY <1>3, <2>1
  <2> QED
    BY <2>2
<1>5. flatten = [i \in 1..N |-> IF i = 1 THEN ss[i] ELSE flatten[i - 1] \o ss[i]]
  BY <1>4 DEF flatten
<1>6. /\ flatten[1] = ss[1]
      /\ \A i \in 2..N : flatten[i] = flatten[i - 1] \o ss[i]
  <2>1. 1 \in 1..N /\ \A i \in 2..N : i \in 1..N /\ i # 1
    BY <1>0
  <2> QED
    BY <1>5, <2>1
<1>7. \A n \in 1..N : flatten[n] = w[n]
  <2> DEFINE wrong == {n \in 1..N : flatten[n] # w[n]}
  <2>1. SUFFICES ASSUME wrong # {}
                 PROVE  FALSE
    OBVIOUS
  <2>2. wrong \in SUBSET Nat
    BY <1>0
  <2>3. PICK n \in wrong : \A m \in wrong : n <= m
    BY <2>1, <2>2, LeastNumber
  <2>4. n # 1
    BY <1>3, <1>6
  <2>5. n \in 2..N /\ n - 1 \in 1..N /\ ~ (n <= n - 1)
    BY <1>0, <2>4
  <2>6. flatten[n - 1] = w[n - 1]
    BY <2>3, <2>5
  <2> QED
    BY <1>3, <1>6, <2>5, <2>6
<1>8. Joins(w, ss)
  BY <1>3 DEF Joins, N
<1>9. FlattenSeq(ss) = w[N]
  BY <1>0, <1>1, <1>7
<1> QED
  BY <1>3, <1>8, <1>9 DEF N

\* What is joined are the members of the lists.
LEMMA FlattenMembers ==
    ASSUME NEW S, NEW ss \in Seq(Seq(S))
    PROVE  /\ FlattenSeq(ss) \in Seq(S)
           /\ \A i \in 1..Len(FlattenSeq(ss)) :
                 \E n \in 1..Len(ss) : \E j \in 1..Len(ss[n]) : FlattenSeq(ss)[i] = ss[n][j]
<1>0. /\ Len(ss) \in Nat /\ \A i \in 1..Len(ss) : ss[i] \in Seq(S)
  <2>1. Len(ss) \in Nat
    BY LenProperties
  <2>2. \A i \in 1..Len(ss) : ss[i] \in Seq(S)
    BY ElementOfSeq
  <2> QED
    BY <2>1, <2>2
<1>1. CASE Len(ss) = 0
  <2>1. FlattenSeq(ss) = <<>>
    BY <1>1, EmptySeq DEF FlattenSeq
  <2>2. <<>> \in Seq(S) /\ 1..Len(<<>>) = {}
    OBVIOUS
  <2>3. FlattenSeq(ss) \in Seq(S) /\ 1..Len(FlattenSeq(ss)) = {}
    BY <2>1, <2>2
  <2> QED
    BY <2>3
<1>2. CASE Len(ss) # 0
  <2>1. PICK part \in [1..Len(ss) -> Seq(S)] : Joins(part, ss) /\ FlattenSeq(ss) = part[Len(ss)]
    BY <1>2, Flattened
  <2> DEFINE From(i, m) == \E n \in 1..m : \E j \in 1..Len(ss[n]) : part[m][i] = ss[n][j]
             wrong == {m \in 1..Len(ss) : ~ \A i \in 1..Len(part[m]) : From(i, m)}
  <2>2. ASSUME wrong # {}
        PROVE  FALSE
    <3>1. wrong \in SUBSET Nat
      OBVIOUS
    <3>2. PICK m \in wrong : \A k \in wrong : m <= k
      BY <2>2, <3>1, LeastNumber
    <3>3. PICK i \in 1..Len(part[m]) : ~ From(i, m)
      OBVIOUS
    <3>4. CASE m = 1
      <4>1. part[m] = ss[1]
        BY <2>1, <3>4 DEF Joins
      <4> QED
        BY <3>3, <3>4, <4>1
    <3>5. CASE m # 1
      <4>1. m \in 2..Len(ss) /\ m \in 1..Len(ss) /\ m - 1 \in 1..Len(ss) /\ ~ (m <= m - 1)
            /\ m \in 1..m /\ 1..(m - 1) \subseteq 1..m
        BY <1>0, <3>5
      <4>2. \A k \in 1..Len(part[m - 1]) : From(k, m - 1)
        BY <3>2, <4>1
      <4>3. part[m] = part[m - 1] \o ss[m]
        BY <2>1, <4>1 DEF Joins
      <4>4. part[m - 1] \in Seq(S) /\ ss[m] \in Seq(S)
        BY <1>0, <4>1
      <4> DEFINE a == Len(part[m - 1])
                 b == Len(ss[m])
      <4>5. /\ Len(part[m]) = a + b /\ a \in Nat /\ b \in Nat
            /\ part[m][i] = IF i <= a THEN part[m - 1][i] ELSE ss[m][i - a]
        BY <3>3, <4>3, <4>4, ConcatProperties, LenProperties
      <4>6. i \in 1..(a + b)
        BY <4>5
      <4> HIDE DEF a, b
      <4>7. i <= a => i \in 1..a
        BY <4>5, <4>6
      <4>8. ~ (i <= a) => i - a \in 1..b
        BY <4>5, <4>6
      <4>9. CASE i <= a
        <5>1. i \in 1..Len(part[m - 1])
          BY <4>7, <4>9 DEF a
        <5>2. From(i, m - 1) /\ part[m][i] = part[m - 1][i]
          BY <4>2, <4>5, <4>9, <5>1
        <5> QED
          BY <3>3, <4>1, <5>2
      <4>10. CASE ~ (i <= a)
        <5>1. i - a \in 1..Len(ss[m]) /\ part[m][i] = ss[m][i - a]
          BY <4>5, <4>8, <4>10 DEF b
        <5> QED
          BY <3>3, <4>1, <5>1
      <4> QED
        BY <4>9, <4>10
    <3> QED
      BY <3>4, <3>5
  <2>3. Len(ss) \in 1..Len(ss)
    BY <1>0, <1>2
  <2>4. \A i \in 1..Len(part[Len(ss)]) : From(i, Len(ss))
    BY <2>2, <2>3
  <2>5. FlattenSeq(ss) \in Seq(S)
    BY <2>1, <2>3, SMTT(30)
  <2>6. ASSUME NEW i \in 1..Len(FlattenSeq(ss))
        PROVE  \E n \in 1..Len(ss) : \E j \in 1..Len(ss[n]) : FlattenSeq(ss)[i] = ss[n][j]
    <3>1. i \in 1..Len(part[Len(ss)])
      BY <2>1, <2>6
    <3>2. From(i, Len(ss))
      BY <2>4, <3>1
    <3> QED
      BY <2>1, <3>2
  <2> QED
    BY <2>5, <2>6
<1> QED
  BY <1>1, <1>2

\* A set listed in any order: every element, and each once.
LEMMA Listing ==
    ASSUME NEW S, IsFiniteSet(S)
    PROVE  /\ SetToSeq(S) \in Seq(S) /\ Len(SetToSeq(S)) = Cardinality(S)
           /\ Cardinality(S) \in Nat /\ DOMAIN SetToSeq(S) = 1..Cardinality(S)
           /\ \A x \in S : \E n \in 1..Cardinality(S) : SetToSeq(S)[n] = x
           /\ \A m, n \in 1..Cardinality(S) : SetToSeq(S)[m] = SetToSeq(S)[n] => m = n
<1>1. Cardinality(S) \in Nat /\ ExistsBijection(1..Cardinality(S), S)
  BY FS_CardinalityType
<1>2. \E f \in [1..Cardinality(S) -> S] : IsInjective(f)
  BY <1>1 DEF ExistsBijection, Bijection, Injection, IsInjective
<1> DEFINE f == SetToSeq(S)
           n == Cardinality(S)
<1>3. f \in [1..n -> S] /\ IsInjective(f)
  BY <1>2 DEF SetToSeq
<1> HIDE DEF f
<1>4. f \in Seq(S) /\ Len(f) = n /\ DOMAIN f = 1..n
  BY <1>1, <1>3
<1>5. \A i, j \in 1..n : f[i] = f[j] => i = j
  BY <1>3 DEF IsInjective
<1>6. f \in Injection(1..n, S)
  BY <1>3, <1>5 DEF Injection, IsInjective
<1>7. f \in Surjection(1..n, S)
  <2>1. Cardinality(1..n) = n
    BY <1>1, FirstNumbers
  <2> QED
    BY <1>6, <2>1, FS_Injection
<1>8. \A x \in S : \E i \in 1..n : f[i] = x
  BY <1>7 DEF Surjection
<1> QED
  BY <1>1, <1>4, <1>5, <1>8 DEF f

-----------------------------------------------------------------------------
(* What a list of calls does.                                              *)

\* Calls are log records, and maps rows, of LogReplay.
LEMMA SameReplay ==
    /\ RP!Rows = Map /\ RP!LogEntry = Call
    /\ \A map, calls : RP!Recovered(map, calls) = After(map, calls)
BY DEF RP!Rows, RP!LogEntry, RP!Content, Map, Call, After, RP!Recovered, RP!Decides,
       Replay!Recovered, Replay!Decides

\* Calls make a map of a map.
LEMMA AfterType ==
    ASSUME NEW map \in Map, NEW calls \in Seq(Call)
    PROVE  After(map, calls) \in Map
<1>1. RP!ReplayAssumption
  BY StoredAssumption DEF RP!ReplayAssumption
<1> QED
  BY <1>1, SameReplay, RP!RecoveredType

\* No calls leave the map as it is.
LEMMA AfterNone ==
    ASSUME NEW map \in Map
    PROVE  After(map, <<>>) = map
<1>1. RP!ReplayAssumption
  BY StoredAssumption DEF RP!ReplayAssumption
<1>2. map \in RP!Rows
  BY SameReplay
<1>3. RP!Recovered(map, <<>>) = map
  BY <1>1, <1>2, RP!NothingRecovered
<1> QED
  BY <1>3, SameReplay

\* Two lists of calls have the effect of the second after the first.
LEMMA AfterConcat ==
    ASSUME NEW map \in Map, NEW first \in Seq(Call), NEW second \in Seq(Call)
    PROVE  After(map, first \o second) = After(After(map, first), second)
<1>1. RP!ReplayAssumption
  BY StoredAssumption DEF RP!ReplayAssumption
<1>2. map \in RP!Rows /\ first \in Seq(RP!LogEntry) /\ second \in Seq(RP!LogEntry)
  BY SameReplay
<1>3. RP!Recovered(map, first \o second) = RP!Recovered(RP!Recovered(map, first), second)
  BY <1>1, <1>2, RP!RecoveredConcat
<1> QED
  BY <1>3, SameReplay

\* One call writes one row.
LEMMA AfterOne ==
    ASSUME NEW map \in Map, NEW call \in Call
    PROVE  After(map, <<call>>) = Applied(map, call)
<1>1. RP!ReplayAssumption
  BY StoredAssumption DEF RP!ReplayAssumption
<1>2. map \in RP!Rows /\ call \in RP!LogEntry
  BY SameReplay
<1>3. RP!Recovered(map, <<call>>) = [map EXCEPT ![call.key] = call.val]
  BY <1>1, <1>2, RP!RecoveredOne
<1> QED
  BY <1>3, SameReplay DEF Applied

\* The first call, and then the others.
LEMMA AfterHead ==
    ASSUME NEW map \in Map, NEW calls \in Seq(Call), calls # <<>>
    PROVE  After(map, calls) = After(Applied(map, Head(calls)), Tail(calls))
<1>1. RP!ReplayAssumption
  BY StoredAssumption DEF RP!ReplayAssumption
<1>2. map \in RP!Rows /\ calls \in Seq(RP!LogEntry)
  BY SameReplay
<1>3. RP!Recovered(map, calls)
      = RP!Recovered([map EXCEPT ![Head(calls).key] = Head(calls).val], Tail(calls))
  BY <1>1, <1>2, RP!RecoveredHead
<1> QED
  BY <1>3, SameReplay DEF Applied

\* What no call is about stays.
LEMMA AfterOther ==
    ASSUME NEW map, NEW calls \in Seq(Call), NEW k \in StoreKey,
           \A i \in 1..Len(calls) : calls[i].key # k
    PROVE  After(map, calls)[k] = map[k]
<1>1. RP!ReplayAssumption
  BY StoredAssumption DEF RP!ReplayAssumption
<1>2. calls \in Seq(RP!LogEntry)
  BY SameReplay
<1>3. RP!Recovered(map, calls)[k] = map[k]
  BY <1>1, <1>2, RP!NotRecovered
<1> QED
  BY <1>3, SameReplay

\* One call changes the row under its key.
LEMMA AppliedRow ==
    ASSUME NEW map \in Map, NEW call \in Call
    PROVE  /\ Applied(map, call) \in Map
           /\ Applied(map, call)[call.key] = call.val
           /\ \A k \in StoreKey : k # call.key => Applied(map, call)[k] = map[k]
BY DEF Applied, Map, Call

\* What the calls leave under a key depends on no other key.
LEMMA AfterLocal ==
    ASSUME NEW map, NEW other, NEW calls, NEW k \in StoreKey, map[k] = other[k]
    PROVE  After(map, calls)[k] = After(other, calls)[k]
BY DEF After, Replay!Recovered

\* Calls that all store one value store it under each of their keys.
LEMMA AfterSame ==
    ASSUME NEW map, NEW calls \in Seq(Call), NEW v, \A i \in 1..Len(calls) : calls[i].val = v,
           NEW k \in StoreKey, \E i \in 1..Len(calls) : calls[i].key = k
    PROVE  After(map, calls)[k] = v
<1>1. RP!ReplayAssumption
  BY StoredAssumption DEF RP!ReplayAssumption
<1>2. calls \in Seq(RP!LogEntry)
  BY SameReplay
<1>3. RP!Recovered(map, calls)[k] = v
  BY <1>1, <1>2, RP!RecoveredSame
<1> QED
  BY <1>3, SameReplay

\* Of lists of calls joined together only the one about a key matters to it.
LEMMA AfterFlatten ==
    ASSUME NEW map \in Map, NEW ss \in Seq(Seq(Call)), NEW k \in StoreKey, NEW n \in 1..Len(ss),
           \A m \in 1..Len(ss) : m # n => \A j \in 1..Len(ss[m]) : ss[m][j].key # k
    PROVE  After(map, FlattenSeq(ss))[k] = After(map, ss[n])[k]
<1>0. Len(ss) \in Nat /\ Len(ss) # 0 /\ \A m \in 1..Len(ss) : ss[m] \in Seq(Call)
  <2>1. Len(ss) \in Nat
    BY LenProperties
  <2>2. \A m \in 1..Len(ss) : ss[m] \in Seq(Call)
    BY ElementOfSeq
  <2> QED
    BY <2>1, <2>2
<1>1. PICK part \in [1..Len(ss) -> Seq(Call)] : Joins(part, ss) /\ FlattenSeq(ss) = part[Len(ss)]
  BY <1>0, Flattened
<1> DEFINE Right(m) == After(map, part[m])[k] = IF m < n THEN map[k] ELSE After(map, ss[n])[k]
           wrong    == {m \in 1..Len(ss) : ~ Right(m)}
<1>2. \A m \in 1..Len(ss) : m # n => After(map, ss[m])[k] = map[k]
  BY <1>0, AfterOther
<1>3. ASSUME wrong # {}
      PROVE  FALSE
  <2>1. wrong \in SUBSET Nat
    BY <1>0
  <2>2. PICK m \in wrong : \A i \in wrong : m <= i
    BY <1>3, <2>1, LeastNumber
  <2>3. m \in 1..Len(ss) /\ n \in Nat /\ m \in Nat
    BY <1>0
  <2>4. CASE m = 1
    <3>1. part[m] = ss[m]
      BY <1>1, <2>4 DEF Joins
    <3>2. m < n \/ m = n
      BY <1>0, <2>4
    <3> QED
      BY <1>2, <2>2, <2>3, <3>1, <3>2
  <2>5. CASE m # 1
    <3>1. m \in 2..Len(ss) /\ m - 1 \in 1..Len(ss) /\ ~ (m <= m - 1)
      BY <1>0, <2>3, <2>5
    <3>2. Right(m - 1)
      BY <2>2, <3>1
    <3>3. part[m] = part[m - 1] \o ss[m] /\ part[m - 1] \in Seq(Call) /\ ss[m] \in Seq(Call)
      BY <1>0, <1>1, <2>3, <3>1 DEF Joins
    <3>4. After(map, part[m])[k] = After(After(map, part[m - 1]), ss[m])[k]
      BY <3>3, AfterConcat
    <3>5. CASE m = n
      <4>1. After(map, part[m - 1])[k] = map[k]
        BY <2>3, <3>2, <3>5
      <4>2. After(After(map, part[m - 1]), ss[m])[k] = After(map, ss[m])[k]
        BY <4>1, AfterLocal
      <4> QED
        BY <2>2, <2>3, <3>4, <3>5, <4>2
    <3>6. CASE m # n
      <4>1. \A j \in 1..Len(ss[m]) : ss[m][j].key # k
        BY <2>3, <3>6
      <4>2. After(After(map, part[m - 1]), ss[m])[k] = After(map, part[m - 1])[k]
        BY <3>3, <4>1, AfterOther
      <4>3. m < n <=> m - 1 < n
        BY <2>3, <3>6
      <4> QED
        BY <2>2, <3>2, <3>4, <4>2, <4>3
    <3> QED
      BY <3>5, <3>6
  <2> QED
    BY <2>4, <2>5
<1>4. Len(ss) \in 1..Len(ss) /\ ~ (Len(ss) < n)
  BY <1>0
<1>5. Right(Len(ss))
  BY <1>3, <1>4
<1> QED
  BY <1>1, <1>4, <1>5

-----------------------------------------------------------------------------
(* What sync_indexes does.                                                 *)

IndexesTyped == indexes \in [IndexName -> [table : 0..MaxId, column : Column, id : 0..MaxId]]
KeyedRow     == [pk : 0..PRIMARY_KEY_MASK, row : Row]

\* The key of an index entry is one of the index's storage id, and the low bits
\* of the row's primary key come back out of it.
LEMMA EntryKeyOf ==
    ASSUME IdsFit, IndexesTyped, NEW n \in IndexName, NEW r \in KeyedRow
    PROVE  /\ EntryKey(n, r) \in StoreKey
           /\ unpack_table_id(EntryKey(n, r)) = indexes[n].id
           /\ unpack_primary_key(EntryKey(n, r))
              = pack_secondary_composite(r.row[indexes[n].column], r.pk)
           /\ unpack_primary_key(EntryKey(n, r)) % PkSpan = r.pk % PkSpan
<1>1. indexes[n].id \in 0..MaxId /\ indexes[n].column \in Column
  BY DEF IndexesTyped
<1>2. r.row[indexes[n].column] \in Int /\ r.pk \in Int
  BY <1>1, Spans DEF KeyedRow, Row, Column
<1> DEFINE e == pack_secondary_composite(r.row[indexes[n].column], r.pk)
<1>3. e \in 0..PRIMARY_KEY_MASK /\ unpack_secondary_pk(e) = r.pk % PkSpan
  BY <1>2, CompositeKey
<1>4. EntryKey(n, r) = pack_key(indexes[n].id, e)
  BY DEF EntryKey
<1> HIDE DEF e
<1>5. /\ EntryKey(n, r) \in StoreKey /\ unpack_table_id(EntryKey(n, r)) = indexes[n].id
      /\ unpack_primary_key(EntryKey(n, r)) = e
  BY <1>1, <1>3, <1>4, KeyOf
<1> QED
  BY <1>3, <1>5 DEF e, unpack_secondary_pk

\* The calls sync_indexes makes for one index.
CallsFor(n, old, new) ==
    [i \in DOMAIN old |-> RemoveCall(EntryKey(n, old[i]))]
    \o [i \in DOMAIN new |-> PutCall(EntryKey(n, new[i]), EntryValue)]

\* What a call of sync_indexes can be.
SyncCall(c, n, old, new) ==
    \/ \E j \in 1..Len(old) : c.key = EntryKey(n, old[j]) /\ c.val = Absent
    \/ \E j \in 1..Len(new) : c.key = EntryKey(n, new[j]) /\ c.val = EntryValue

\* What an index has under a key once the calls are made, for what it had before.
SyncedRow(n, k, old, new, before) ==
    IF \E j \in 1..Len(new) : EntryKey(n, new[j]) = k THEN EntryValue
    ELSE IF \E j \in 1..Len(old) : EntryKey(n, old[j]) = k THEN Absent
    ELSE before

\* One index: the entries of the old rows go, then those of the new come.
LEMMA CallsForIndex ==
    ASSUME IdsFit, IndexesTyped, NEW n \in IndexName,
           NEW old \in Seq(KeyedRow), NEW new \in Seq(KeyedRow)
    PROVE  /\ CallsFor(n, old, new) \in Seq(Call)
           /\ \A i \in 1..Len(CallsFor(n, old, new)) : SyncCall(CallsFor(n, old, new)[i], n, old, new)
           /\ \A map \in Map, k \in StoreKey :
                 After(map, CallsFor(n, old, new))[k] = SyncedRow(n, k, old, new, map[k])
<1> DEFINE gone == [i \in DOMAIN old |-> RemoveCall(EntryKey(n, old[i]))]
           made == [i \in DOMAIN new |-> PutCall(EntryKey(n, new[i]), EntryValue)]
<1>0. /\ Len(old) \in Nat /\ DOMAIN old = 1..Len(old) /\ \A i \in 1..Len(old) : old[i] \in KeyedRow
      /\ Len(new) \in Nat /\ DOMAIN new = 1..Len(new) /\ \A i \in 1..Len(new) : new[i] \in KeyedRow
  BY LenProperties, ElementOfSeq
<1>1. EntryValue \in StoreValue
  BY DEF StoreValue
<1>2. \A i \in 1..Len(old) : RemoveCall(EntryKey(n, old[i])) \in Call
  BY <1>0, EntryKeyOf DEF RemoveCall, Call
<1>3. \A i \in 1..Len(new) : PutCall(EntryKey(n, new[i]), EntryValue) \in Call
  BY <1>0, <1>1, EntryKeyOf DEF PutCall, Call
<1>4. /\ gone \in Seq(Call) /\ Len(gone) = Len(old)
      /\ \A i \in 1..Len(old) : gone[i].key = EntryKey(n, old[i]) /\ gone[i].val = Absent
  BY <1>0, <1>2 DEF RemoveCall
<1>5. /\ made \in Seq(Call) /\ Len(made) = Len(new)
      /\ \A i \in 1..Len(new) : made[i].key = EntryKey(n, new[i]) /\ made[i].val = EntryValue
  BY <1>0, <1>3 DEF PutCall
<1>6. CallsFor(n, old, new) = gone \o made
  BY DEF CallsFor
<1> HIDE DEF gone, made
<1> DEFINE c == CallsFor(n, old, new)
<1>7. /\ c \in Seq(Call) /\ Len(c) = Len(old) + Len(new)
      /\ \A i \in 1..(Len(old) + Len(new)) :
            c[i] = IF i <= Len(old) THEN gone[i] ELSE made[i - Len(old)]
  <2>0. gone \in Seq(Call) /\ made \in Seq(Call)
    BY <1>4, <1>5
  <2>1. /\ gone \o made \in Seq(Call) /\ Len(gone \o made) = Len(gone) + Len(made)
        /\ \A i \in 1..(Len(gone) + Len(made)) :
              (gone \o made)[i] = IF i <= Len(gone) THEN gone[i] ELSE made[i - Len(gone)]
    BY <2>0, ConcatProperties
  <2> QED
    BY <1>4, <1>5, <1>6, <2>1
<1> HIDE DEF c
<1>8. ASSUME NEW i \in 1..Len(c)
      PROVE  SyncCall(c[i], n, old, new)
  <2>1. CASE i <= Len(old)
    <3>1. i \in 1..Len(old) /\ c[i] = gone[i]
      BY <1>0, <1>7, <2>1
    <3> QED
      BY <1>4, <3>1 DEF SyncCall
  <2>2. CASE ~ (i <= Len(old))
    <3>1. i - Len(old) \in 1..Len(new) /\ c[i] = made[i - Len(old)]
      BY <1>0, <1>7, <2>2
    <3> QED
      BY <1>5, <3>1 DEF SyncCall
  <2> QED
    BY <2>1, <2>2
<1>9. ASSUME NEW map \in Map, NEW k \in StoreKey
      PROVE  After(map, c)[k] = SyncedRow(n, k, old, new, map[k])
  <2>1. After(map, c)[k] = After(After(map, gone), made)[k]
    BY <1>4, <1>5, <1>6, AfterConcat DEF c
  <2>2. CASE \E j \in 1..Len(new) : EntryKey(n, new[j]) = k
    <3>1. (\E j \in 1..Len(made) : made[j].key = k) /\ \A j \in 1..Len(made) : made[j].val = EntryValue
      BY <1>5, <2>2
    <3>2. After(After(map, gone), made)[k] = EntryValue
      <4>1. made \in Seq(Call)
        BY <1>5
      <4> QED
        BY <3>1, <4>1, AfterSame, SMTT(30)
    <3> QED
      BY <2>1, <2>2, <3>2 DEF SyncedRow
  <2>3. CASE ~ \E j \in 1..Len(new) : EntryKey(n, new[j]) = k
    <3>1. After(After(map, gone), made)[k] = After(map, gone)[k]
      BY <1>5, <2>3, AfterOther
    <3>2. CASE \E j \in 1..Len(old) : EntryKey(n, old[j]) = k
      <4>0. (\E j \in 1..Len(gone) : gone[j].key = k) /\ \A j \in 1..Len(gone) : gone[j].val = Absent
        BY <1>4, <3>2
      <4>1. After(map, gone)[k] = Absent
        BY <1>4, <4>0, AfterSame, SMTT(30)
      <4> QED
        BY <2>1, <2>3, <3>1, <3>2, <4>1 DEF SyncedRow
    <3>3. CASE ~ \E j \in 1..Len(old) : EntryKey(n, old[j]) = k
      <4>1. After(map, gone)[k] = map[k]
        BY <1>4, <3>3, AfterOther
      <4> QED
        BY <2>1, <2>3, <3>1, <3>3, <4>1 DEF SyncedRow
    <3> QED
      BY <3>2, <3>3
  <2> QED
    BY <2>2, <2>3
<1> QED
  BY <1>7, <1>8, <1>9 DEF c

\* All indexes of a table: every call is about an entry of one of them, and each
\* index has the entries of the new rows and none of the other old ones.
LEMMA SyncIndexes ==
    ASSUME IdsFit, IndexesTyped, NEW id, NEW old \in Seq(KeyedRow), NEW new \in Seq(KeyedRow)
    PROVE  /\ sync_indexes(id, old, new) \in Seq(Call)
           /\ \A i \in 1..Len(sync_indexes(id, old, new)) :
                 \E n \in indexes_for_table(id) : SyncCall(sync_indexes(id, old, new)[i], n, old, new)
           /\ \A map \in Map, n \in indexes_for_table(id), k \in StoreKey :
                 /\ unpack_table_id(k) = indexes[n].id
                 /\ \A m \in indexes_for_table(id) : m # n => indexes[m].id # indexes[n].id
                 => After(map, sync_indexes(id, old, new))[k] = SyncedRow(n, k, old, new, map[k])
<1> DEFINE set   == indexes_for_table(id)
           order == SetToSeq(set)
           lists == [i \in DOMAIN order |-> CallsFor(order[i], old, new)]
<1>1. set \in SUBSET IndexName /\ IsFiniteSet(set)
  <2>1. set \in SUBSET IndexName /\ IsFiniteSet(IndexName)
    BY ExecAssumption DEF indexes_for_table
  <2> QED
    BY <2>1, FS_Subset
<1>2. /\ order \in Seq(set) /\ DOMAIN order = 1..Len(order) /\ Len(order) \in Nat
      /\ \A n \in set : \E i \in 1..Len(order) : order[i] = n
      /\ \A i, j \in 1..Len(order) : order[i] = order[j] => i = j
  BY <1>1, Listing
<1>3. sync_indexes(id, old, new) = FlattenSeq(lists)
  BY DEF sync_indexes, CallsFor
<1> HIDE DEF set, order
<1>4. \A i \in 1..Len(order) : order[i] \in set /\ order[i] \in IndexName
  BY <1>1, <1>2, ElementOfSeq
<1>5. \A i \in 1..Len(order) : CallsFor(order[i], old, new) \in Seq(Call)
  BY <1>4, CallsForIndex
<1>6. /\ lists \in Seq(Seq(Call)) /\ Len(lists) = Len(order)
      /\ \A i \in 1..Len(order) : lists[i] = CallsFor(order[i], old, new)
  BY <1>2, <1>5
<1> HIDE DEF lists
<1>7. FlattenSeq(lists) \in Seq(Call)
  BY <1>6, FlattenMembers
<1>8. ASSUME NEW i \in 1..Len(FlattenSeq(lists))
      PROVE  \E n \in set : SyncCall(FlattenSeq(lists)[i], n, old, new)
  <2>1. PICK m \in 1..Len(lists) : \E j \in 1..Len(lists[m]) : FlattenSeq(lists)[i] = lists[m][j]
    BY <1>6, FlattenMembers
  <2>2. PICK j \in 1..Len(lists[m]) : FlattenSeq(lists)[i] = lists[m][j]
    BY <2>1
  <2>3. SyncCall(lists[m][j], order[m], old, new)
    BY <1>4, <1>6, CallsForIndex, SMTT(30)
  <2> QED
    BY <1>4, <1>6, <2>2, <2>3
<1>9. ASSUME NEW map \in Map, NEW n \in set, NEW k \in StoreKey,
             unpack_table_id(k) = indexes[n].id,
             \A m \in set : m # n => indexes[m].id # indexes[n].id
      PROVE  After(map, FlattenSeq(lists))[k] = SyncedRow(n, k, old, new, map[k])
  <2>1. PICK i \in 1..Len(lists) : order[i] = n
    BY <1>2, <1>6
  <2>2. ASSUME NEW m \in 1..Len(lists), m # i, NEW j \in 1..Len(lists[m])
        PROVE  lists[m][j].key # k
    <3>1. order[m] # n /\ order[m] \in set /\ order[m] \in IndexName
      BY <1>2, <1>4, <1>6, <2>1, <2>2
    <3>2. SyncCall(lists[m][j], order[m], old, new)
      BY <1>6, <3>1, CallsForIndex
    <3>3. unpack_table_id(lists[m][j].key) = indexes[order[m]].id
      <4>1. \A a \in 1..Len(old) : old[a] \in KeyedRow
        BY ElementOfSeq
      <4>2. \A a \in 1..Len(new) : new[a] \in KeyedRow
        BY ElementOfSeq
      <4> QED
        BY <3>1, <3>2, <4>1, <4>2, EntryKeyOf DEF SyncCall
    <3> QED
      BY <1>9, <3>1, <3>3
  <2>3. After(map, FlattenSeq(lists))[k] = After(map, lists[i])[k]
    BY <1>6, <2>2, AfterFlatten
  <2>4. lists[i] = CallsFor(n, old, new) /\ n \in IndexName
    BY <1>1, <1>6, <2>1
  <2> QED
    BY <2>3, <2>4, CallsForIndex
<1> QED
  BY <1>3, <1>7, <1>8, <1>9 DEF set

-----------------------------------------------------------------------------
(* What the keys of a table and of an index hold.                          *)

\* What a stored value can be, by its kind.
LEMMA Kinds ==
    ASSUME NEW v \in StoreValue
    PROVE  /\ v.kind \in {"row", "entry", "table", "index"}
           /\ v.kind = "row" => v.row \in Row /\ v = RowValue(v.row)
           /\ v.kind = "entry" => v = EntryValue
           /\ v.kind = "table" => v.name \in TableName /\ v = TableValue(v.name)
           /\ v.kind = "index" =>
                 /\ v.name \in IndexName /\ v.table \in 1..MaxId /\ v.column \in Column
                 /\ v = IndexValue(v.name, v.table, v.column)
           /\ v # Absent
<1>1. CASE v \in [kind : {"row"}, row : Row]
  BY <1>1, StoredAssumption DEF RowValue
<1>2. CASE v = EntryValue
  BY <1>2, StoredAssumption DEF EntryValue
<1>3. CASE v \in [kind : {"table"}, name : TableName]
  BY <1>3, StoredAssumption DEF TableValue
<1>4. CASE v \in [kind : {"index"}, name : IndexName, table : 1..MaxId, column : Column]
  BY <1>4, StoredAssumption DEF IndexValue
<1> QED
  BY <1>1, <1>2, <1>3, <1>4 DEF StoreValue

\* A row of a map is absent or a stored value.
LEMMA MapRow ==
    ASSUME NEW map \in Map, NEW k \in StoreKey, map[k] # Absent
    PROVE  map[k] \in StoreValue
BY DEF Map

\* A table's keys hold rows, an index's entries; and where the catalog has no
\* row, there is nothing.
LEMMA Blocks ==
    ASSUME IdsFit, NEW map \in Map, KeysApart(map), NEW k \in StoreKey, map[k] # Absent
    PROVE  LET id == unpack_table_id(k)
           IN  /\ id \in CatalogIds(map, "table") => map[k].row \in Row /\ map[k] = RowValue(map[k].row)
               /\ id \in CatalogIds(map, "index") => map[k] = EntryValue
               /\ \/ id = CATALOG_TABLE_ID
                  \/ id \in CatalogIds(map, "table") \/ id \in CatalogIds(map, "index")
               /\ id = CATALOG_TABLE_ID => map[k].kind \in {"table", "index"}
<1> DEFINE id == unpack_table_id(k)
<1>1. map[k] \in StoreValue
  BY MapRow
<1>2. DOMAIN map = StoreKey
  BY DEF Map
<1>3. /\ map[k].kind = "row"   => id \in CatalogIds(map, "table")
      /\ map[k].kind = "entry" => id \in CatalogIds(map, "index")
      /\ map[k].kind \in {"table", "index"} => id = CATALOG_TABLE_ID
  BY <1>2 DEF KeysApart
<1>4. /\ id \in CatalogIds(map, "table") => id # CATALOG_TABLE_ID /\ id \notin CatalogIds(map, "index")
      /\ id \in CatalogIds(map, "index") => id # CATALOG_TABLE_ID
  BY DEF CatalogIds, CATALOG_TABLE_ID
<1> HIDE DEF id
<1>5. /\ map[k].kind \in {"row", "entry", "table", "index"}
      /\ map[k].kind = "row" => map[k].row \in Row /\ map[k] = RowValue(map[k].row)
      /\ map[k].kind = "entry" => map[k] = EntryValue
  BY <1>1, Kinds
<1>6. /\ id \in CatalogIds(map, "table") => map[k].row \in Row /\ map[k] = RowValue(map[k].row)
      /\ id \in CatalogIds(map, "index") => map[k] = EntryValue
      /\ \/ id = CATALOG_TABLE_ID
         \/ id \in CatalogIds(map, "table") \/ id \in CatalogIds(map, "index")
      /\ id = CATALOG_TABLE_ID => map[k].kind \in {"table", "index"}
  BY <1>3, <1>4, <1>5
<1> QED
  BY <1>6 DEF id

-----------------------------------------------------------------------------
(* What an UPDATE or DELETE finds.                                         *)

Match == [key : StoreKey, row : Row]

\* A list of rows of a table, each with its key and once.
MatchesOf(list, id) ==
    /\ list \in Seq(Match)
    /\ \A n \in 1..Len(list) : /\ unpack_table_id(list[n].key) = id
                               /\ store[list[n].key] = RowValue(list[n].row)
    /\ \A m, n \in 1..Len(list) : m < n => list[m].key # list[n].key

\* The keys of a table's rows, and of those a WHERE clause is about.
TableKeys(id)   == {k \in StoreKey : unpack_table_id(k) = id /\ store[k] # Absent}
Hit(k, where)   == where = NoWhere \/ matches(store[k].row, where)
Hits(id, where) == {k \in TableKeys(id) : Hit(k, where)}

\* A list of the rows under some keys, each once.
Lists(list, keys) ==
    /\ list \in Seq(Match)
    /\ \A n \in 1..Len(list) : list[n].key \in keys /\ list[n].row = store[list[n].key].row
    /\ \A m, n \in 1..Len(list) : m < n => list[m].key # list[n].key
    /\ \A k \in keys : \E n \in 1..Len(list) : list[n].key = k

\* The rows under some keys of a table that pass the filter are what is found.
LEMMA FoundLists ==
    ASSUME IdsFit, store \in Map, KeysApart(store), NEW id \in CatalogIds(store, "table"),
           NEW keys \in SUBSET TableKeys(id), NEW filter
    PROVE  Lists(Found(keys, filter), {k \in keys : Hit(k, filter)})
<1> DEFINE S    == {k \in keys : Hit(k, filter)}
           hits == Ascending(S)
           list == [n \in DOMAIN hits |-> [key |-> hits[n], row |-> store[hits[n]].row]]
<1>1. Found(keys, filter) = list
  BY DEF Found, Hit
<1>2. S \in SUBSET TableKeys(id)
  OBVIOUS
<1> HIDE DEF S
<1>3. S \in SUBSET Int /\ IsFiniteSet(S)
  <2>1. S \in SUBSET StoreKey /\ StoreKey \in SUBSET Int /\ IsFiniteSet(StoreKey)
    BY <1>2, KeysFinite DEF TableKeys
  <2> QED
    BY <2>1, FS_Subset
<1>4. /\ hits \in Seq(S) /\ IsAscending(hits)
      /\ \A k \in S : \E n \in 1..Len(hits) : hits[n] = k
  BY <1>3, AscendingLists
<1> HIDE DEF hits
<1>5. DOMAIN hits = 1..Len(hits) /\ Len(hits) \in Nat /\ \A n \in 1..Len(hits) : hits[n] \in S
  BY <1>4, LenProperties, ElementOfSeq
<1>6. \A n \in 1..Len(hits) : hits[n] \in StoreKey /\ store[hits[n]].row \in Row
  BY <1>2, <1>5, Blocks DEF TableKeys
<1>7. /\ list \in Seq(Match) /\ Len(list) = Len(hits)
      /\ \A n \in 1..Len(hits) : list[n].key = hits[n] /\ list[n].row = store[hits[n]].row
  BY <1>5, <1>6 DEF Match
<1> HIDE DEF list
<1>8. \A m, n \in 1..Len(hits) : m < n => hits[m] # hits[n]
  <2> SUFFICES ASSUME NEW m \in 1..Len(hits), NEW n \in 1..Len(hits), m < n
               PROVE  hits[m] # hits[n]
    OBVIOUS
  <2>1. hits[m] < hits[n]
    BY <1>4, <1>5 DEF IsAscending
  <2>2. hits[m] \in Int /\ hits[n] \in Int
    BY <1>3, <1>5
  <2> QED
    BY <2>1, <2>2
<1>9. Lists(list, S)
  BY <1>4, <1>5, <1>7, <1>8 DEF Lists
<1> QED
  BY <1>1, <1>9 DEF S

\* A scan finds the rows whose keys are within its bounds, whatever the bounds.
LEMMA CollectLists ==
    ASSUME IdsFit, store \in Map, KeysApart(store), NEW id \in CatalogIds(store, "table"),
           NEW lo \in Int, NEW hi \in Int, NEW filter
    PROVE  Lists(collect_matches(id, lo, hi, filter),
                 {k \in TableKeys(id) : /\ lo <= unpack_primary_key(k) /\ unpack_primary_key(k) <= hi
                                        /\ Hit(k, filter)})
<1> DEFINE a == Larger(lo, 0)
           b == Smaller(hi, PRIMARY_KEY_MASK)
           keys == InRange(pack_key(id, a), pack_key(id, b))
           within == {k \in TableKeys(id) : /\ lo <= unpack_primary_key(k) /\ unpack_primary_key(k) <= hi
                                            /\ Hit(k, filter)}
<1>0. id \in 0..MaxId
  BY DEF CatalogIds
<1>1. /\ a \in Int /\ b \in Int /\ 0 <= a /\ b <= PRIMARY_KEY_MASK
      /\ (a <= b => a \in 0..PRIMARY_KEY_MASK /\ b \in 0..PRIMARY_KEY_MASK)
      /\ \A p \in 0..PRIMARY_KEY_MASK : lo <= p /\ p <= hi <=> a <= p /\ p <= b
  BY Spans DEF Larger, Smaller
<1>2. collect_matches(id, lo, hi, filter) = IF a > b THEN <<>> ELSE Found(keys, filter)
  BY DEF collect_matches
<1>3. \A k \in TableKeys(id) : unpack_primary_key(k) \in 0..PRIMARY_KEY_MASK
  BY KeyParts DEF TableKeys
<1> HIDE DEF a, b
<1>4. CASE a > b
  <2>1. within = {}
    <3>1. \A p \in 0..PRIMARY_KEY_MASK : ~ (a <= p /\ p <= b)
      BY <1>1, <1>4, Spans
    <3> QED
      BY <1>1, <1>3, <3>1
  <2>2. Lists(<<>>, {})
    BY DEF Lists
  <2> QED
    BY <1>2, <1>4, <2>1, <2>2
<1>5. CASE ~ (a > b)
  <2>1. a \in 0..PRIMARY_KEY_MASK /\ b \in 0..PRIMARY_KEY_MASK
    BY <1>1, <1>5
  <2>2. ASSUME NEW k
        PROVE  k \in keys <=> /\ k \in TableKeys(id)
                              /\ a <= unpack_primary_key(k) /\ unpack_primary_key(k) <= b
    <3>1. k \in keys <=> /\ k \in StoreKey /\ store[k] # Absent
                         /\ pack_key(id, a) <= k /\ k <= pack_key(id, b)
      BY DEF InRange, Present, Map
    <3>2. k \in StoreKey => ((pack_key(id, a) <= k /\ k <= pack_key(id, b))
                              <=> (/\ unpack_table_id(k) = id
                                   /\ a <= unpack_primary_key(k) /\ unpack_primary_key(k) <= b))
      BY <1>0, <2>1, KeyBlock
    <3> QED
      BY <3>1, <3>2 DEF TableKeys
  <2> HIDE DEF keys
  <2>3. keys \in SUBSET TableKeys(id)
    BY <2>2
  <2>4. Lists(Found(keys, filter), {k \in keys : Hit(k, filter)})
    BY <2>3, FoundLists
  <2>5. {k \in keys : Hit(k, filter)} = within
    BY <1>1, <1>3, <2>2
  <2>6. collect_matches(id, lo, hi, filter) = Found(keys, filter)
    BY <1>2, <1>5 DEF keys
  <2> QED
    BY <2>4, <2>5, <2>6
<1> QED
  BY <1>4, <1>5

\* A point lookup finds the row with the key, and nothing for a key no row can have.
LEMMA PointLists ==
    ASSUME IdsFit, store \in Map, KeysApart(store), NEW id \in CatalogIds(store, "table"), NEW pk \in Int
    PROVE  Lists(PointLookup(id, pk), {k \in TableKeys(id) : unpack_primary_key(k) = pk})
<1> DEFINE key == pack_key(id, pk)
           own == {k \in TableKeys(id) : unpack_primary_key(k) = pk}
<1>0. id \in 0..MaxId
  BY DEF CatalogIds
<1>1. \A k \in TableKeys(id) : /\ unpack_primary_key(k) \in 0..PRIMARY_KEY_MASK
                               /\ k = pack_key(id, unpack_primary_key(k))
  BY KeyParts DEF TableKeys
<1>2. CASE pk \in 0..PRIMARY_KEY_MASK /\ store[key] # Absent
  <2>1. key \in TableKeys(id) /\ unpack_primary_key(key) = pk
    BY <1>0, <1>2, KeyOf DEF TableKeys
  <2>2. own = {key}
    BY <1>1, <2>1
  <2>3. PointLookup(id, pk) = Found({key}, NoWhere)
    BY <1>2 DEF PointLookup
  <2> HIDE DEF key
  <2>4. Lists(Found({key}, NoWhere), {k \in {key} : Hit(k, NoWhere)})
    BY <2>1, FoundLists
  <2>5. {k \in {key} : Hit(k, NoWhere)} = {key}
    BY DEF Hit
  <2> QED
    BY <2>2, <2>3, <2>4, <2>5
<1>3. CASE ~ (pk \in 0..PRIMARY_KEY_MASK /\ store[key] # Absent)
  <2>1. own = {}
    BY <1>1, <1>3 DEF TableKeys
  <2>2. PointLookup(id, pk) = <<>>
    BY <1>3 DEF PointLookup
  <2>3. Lists(<<>>, {})
    BY DEF Lists
  <2> QED
    BY <2>1, <2>2, <2>3
<1> QED
  BY <1>2, <1>3

\* A list of rows of a table is one of matches.
LEMMA ListedMatches ==
    ASSUME IdsFit, store \in Map, KeysApart(store), NEW id \in CatalogIds(store, "table"),
           NEW keys \in SUBSET TableKeys(id), NEW list, Lists(list, keys)
    PROVE  MatchesOf(list, id)
<1>1. /\ list \in Seq(Match)
      /\ \A n \in 1..Len(list) : list[n].key \in keys /\ list[n].row = store[list[n].key].row
      /\ \A m, n \in 1..Len(list) : m < n => list[m].key # list[n].key
  BY DEF Lists
<1>2. \A k \in keys : unpack_table_id(k) = id /\ store[k] = RowValue(store[k].row)
  BY Blocks DEF TableKeys
<1> QED
  BY <1>1, <1>2 DEF MatchesOf

\* A scan of a table finds rows of the table, and a full one finds all of them.
LEMMA CollectMatches ==
    ASSUME IdsFit, store \in Map, KeysApart(store), NEW id \in CatalogIds(store, "table"),
           NEW lo \in Int, NEW hi \in Int, NEW filter
    PROVE  /\ MatchesOf(collect_matches(id, lo, hi, filter), id)
           /\ lo = 0 /\ hi = PRIMARY_KEY_MASK /\ filter = NoWhere =>
                 \A k \in StoreKey : unpack_table_id(k) = id /\ store[k] # Absent =>
                    \E n \in 1..Len(collect_matches(id, lo, hi, filter)) :
                       collect_matches(id, lo, hi, filter)[n].key = k
<1> DEFINE keys == {k \in TableKeys(id) : /\ lo <= unpack_primary_key(k) /\ unpack_primary_key(k) <= hi
                                         /\ Hit(k, filter)}
<1>1. Lists(collect_matches(id, lo, hi, filter), keys)
  BY CollectLists
<1>2. MatchesOf(collect_matches(id, lo, hi, filter), id)
  BY <1>1, ListedMatches
<1>3. ASSUME lo = 0, hi = PRIMARY_KEY_MASK, filter = NoWhere,
             NEW k \in StoreKey, unpack_table_id(k) = id, store[k] # Absent
      PROVE  k \in keys
  <2>1. unpack_primary_key(k) \in 0..PRIMARY_KEY_MASK
    BY KeyParts
  <2> QED
    BY <1>3, <2>1, Spans DEF TableKeys, Hit
<1> HIDE DEF keys
<1> QED
  BY <1>1, <1>2, <1>3 DEF Lists

\* Whatever path it takes, the search of an UPDATE or DELETE finds rows of its
\* table.
LEMMA FindMatches ==
    ASSUME IdsFit, store \in Map, KeysApart(store), NEW id \in CatalogIds(store, "table"),
           NEW where \in WhereInput, WhereOk(where)
    PROVE  MatchesOf(find_matches(id, where), id)
<1>0. id \in 0..MaxId /\ 0 \in Int /\ PRIMARY_KEY_MASK \in Int
  BY Spans DEF CatalogIds
<1>1. CASE ByKey(where)
  <2>1. find_matches(id, where) = PointLookup(id, where.value)
    BY <1>1 DEF find_matches, ByKey, ByKeyRange
  <2>2. where # NoWhere /\ where.value \in Int
    BY <1>1, ExecAssumption DEF ByKey, NoWhere, WhereOk, Where
  <2>3. Lists(PointLookup(id, where.value), {k \in TableKeys(id) : unpack_primary_key(k) = where.value})
    BY <2>2, PointLists
  <2> QED
    BY <2>1, <2>3, ListedMatches
<1>2. CASE ByKeyRange(where)
  <2>1. where # NoWhere /\ where.op = "BETWEEN"
    BY <1>2 DEF ByKeyRange, NoWhere
  <2>2. where.value \in Int /\ where.value2 \in Int
    BY <2>1, ExecAssumption DEF WhereOk, Where, NoWhere
  <2>3. find_matches(id, where) = collect_matches(id, where.value, where.value2, NoWhere)
    BY <1>2 DEF find_matches, ByKey, ByKeyRange
  <2> QED
    BY <2>2, <2>3, CollectMatches
<1>3. CASE ~ ByKey(where) /\ ~ ByKeyRange(where)
  <2>1. find_matches(id, where) = collect_matches(id, 0, PRIMARY_KEY_MASK, where)
    BY <1>3 DEF find_matches
  <2> QED
    BY <1>0, <2>1, CollectMatches
<1> QED
  BY <1>1, <1>2, <1>3

-----------------------------------------------------------------------------
(* What a restart reads back.                                              *)

\* The greatest of a bounded set of numbers.
LEMMA GreatestNumber ==
    ASSUME NEW N \in Nat, NEW S \in SUBSET (0..N), S # {}
    PROVE  Max(S) \in S /\ \A y \in S : y <= Max(S)
<1> DEFINE T == {n \in 0..N : N - n \in S}
<1>1. PICK x \in S : TRUE
  OBVIOUS
<1>2. \A y \in S : y \in 0..N /\ N - y \in 0..N /\ N - (N - y) = y
  <2>1. \A y \in S : y \in 0..N
    OBVIOUS
  <2> QED
    BY <2>1
<1>3. N - x \in T /\ T \in SUBSET Nat
  BY <1>2
<1>4. PICK n \in T : \A m \in T : n <= m
  <2> HIDE DEF T
  <2> QED
    BY <1>3, LeastNumber
<1>5. N - n \in S /\ n \in 0..N
  BY <1>4
<1>6. \A y \in S : N - n >= y
  <2> SUFFICES ASSUME NEW y \in S
               PROVE  N - n >= y
    OBVIOUS
  <2>1. N - y \in T /\ y \in 0..N
    BY <1>2
  <2>2. n <= N - y
    BY <1>4, <2>1
  <2> QED
    BY <1>5, <2>1, <2>2
<1>7. Max(S) \in S /\ \A y \in S : Max(S) >= y
  BY <1>5, <1>6 DEF Max
<1>8. \A y \in S : y \in Int
  BY <1>2
<1> QED
  BY <1>7, <1>8

\* The last row of the catalog for a name, if there is one.
LEMMA LatestRow ==
    ASSUME NEW map, NEW kind, NEW name
    PROVE  /\ Latest(map, kind, name) \in 0..MaxId
           /\ Latest(map, kind, name) # 0 =>
                 /\ Latest(map, kind, name) \in CatalogIds(map, kind)
                 /\ CatalogRow(map, Latest(map, kind, name)).name = name
           /\ \A id \in CatalogIds(map, kind) :
                 CatalogRow(map, id).name = name => id <= Latest(map, kind, name)
<1> DEFINE S == {0} \cup {id \in CatalogIds(map, kind) : CatalogRow(map, id).name = name}
<1>1. MaxId \in Nat
  BY Spans
<1>2. S \in SUBSET (0..MaxId) /\ S # {}
  BY <1>1 DEF CatalogIds
<1>3. Latest(map, kind, name) = Max(S)
  BY DEF Latest
<1>4. Max(S) \in S /\ \A y \in S : y <= Max(S)
  <2> HIDE DEF S
  <2> QED
    BY <1>1, <1>2, GreatestNumber
<1>5. \A id \in CatalogIds(map, kind) : CatalogRow(map, id).name = name => id \in S
  OBVIOUS
<1>6. \A y \in S : y # 0 => y \in CatalogIds(map, kind) /\ CatalogRow(map, y).name = name
  OBVIOUS
<1> HIDE DEF S
<1> QED
  BY <1>2, <1>3, <1>4, <1>5, <1>6

\* One number is the last row for a name.
LEMMA LatestIs ==
    ASSUME NEW map, NEW kind, NEW name, NEW id \in CatalogIds(map, kind),
           CatalogRow(map, id).name = name,
           \A j \in CatalogIds(map, kind) : CatalogRow(map, j).name = name => j <= id
    PROVE  Latest(map, kind, name) = id
<1>1. id \in 1..MaxId /\ MaxId \in Nat
  BY Spans DEF CatalogIds
<1>2. id <= Latest(map, kind, name) /\ Latest(map, kind, name) \in 0..MaxId
  BY LatestRow
<1>3. Latest(map, kind, name) # 0
  BY <1>1, <1>2
<1>4. Latest(map, kind, name) <= id
  BY <1>3, LatestRow
<1> QED
  BY <1>1, <1>2, <1>4

\* Two maps with the same rows of the catalog are loaded alike.
SameCatalog(map, other) == \A id \in 1..MaxId : CatalogRow(map, id) = CatalogRow(other, id)

\* Loading the one gives the ids, and the newest entries, of loading the other.
LEMMA SameLoaded ==
    ASSUME NEW map, NEW other, SameCatalog(map, other)
    PROVE  /\ \A kind : CatalogIds(map, kind) = CatalogIds(other, kind)
           /\ \A kind, name : Latest(map, kind, name) = Latest(other, kind, name)
           /\ LoadedTables(map) = LoadedTables(other)
           /\ LoadedIndexes(map) = LoadedIndexes(other)
<1>1. \A kind : CatalogIds(map, kind) = CatalogIds(other, kind)
  BY DEF SameCatalog, CatalogIds
<1>2. ASSUME NEW kind, NEW name
      PROVE  Latest(map, kind, name) = Latest(other, kind, name)
  <2>1. {id \in CatalogIds(map, kind) : CatalogRow(map, id).name = name}
        = {id \in CatalogIds(other, kind) : CatalogRow(other, id).name = name}
    BY <1>1 DEF SameCatalog, CatalogIds
  <2> QED
    BY <2>1 DEF Latest
<1>3. LoadedTables(map) = LoadedTables(other)
  BY <1>2 DEF LoadedTables
<1>4. ASSUME NEW n \in IndexName
      PROVE  LoadedIndexes(map)[n] = LoadedIndexes(other)[n]
  <2>1. Latest(map, "index", n) = Latest(other, "index", n) /\ Latest(map, "index", n) \in 0..MaxId
    BY <1>2, LatestRow
  <2>2. CASE Latest(map, "index", n) = 0
    BY <2>1, <2>2 DEF LoadedIndexes
  <2>3. CASE Latest(map, "index", n) # 0
    <3>1. Latest(map, "index", n) \in 1..MaxId
      BY <2>1, <2>3, Spans
    <3>2. CatalogRow(map, Latest(map, "index", n)) = CatalogRow(other, Latest(map, "index", n))
      BY <3>1 DEF SameCatalog
    <3> QED
      BY <2>1, <2>3, <3>2 DEF LoadedIndexes
  <2> QED
    BY <2>2, <2>3
<1>5. LoadedIndexes(map) = LoadedIndexes(other)
  BY <1>4 DEF LoadedIndexes
<1> QED
  BY <1>1, <1>2, <1>3, <1>5

\* CatalogOK, for any map, next id, tables and indexes.
CatOK(map, nid, tbl, idx) ==
    /\ KeysApart(map)
    /\ \A id \in 1..MaxId : CatalogRow(map, id) # Absent => id < nid
    /\ \A id \in CatalogIds(map, "index") : CatalogRow(map, id).table \in CatalogIds(map, "table")
    /\ \A t \in TableName : tbl[t] # 0 => LoadedTables(map)[t] = tbl[t]
    /\ \A n \in IndexName : idx[n] # NoIndex => LoadedIndexes(map)[n] = idx[n]

\* A table in memory has its row in the catalog, and so has an index and its table.
LEMMA InCatalog ==
    ASSUME NEW map, NEW nid, NEW tbl, NEW idx, CatOK(map, nid, tbl, idx)
    PROVE  /\ \A t \in TableName : tbl[t] # 0 =>
                 tbl[t] \in CatalogIds(map, "table") /\ CatalogRow(map, tbl[t]).name = t
           /\ \A n \in IndexName : idx[n] # NoIndex =>
                 /\ idx[n].id \in CatalogIds(map, "index") /\ CatalogRow(map, idx[n].id).name = n
                 /\ idx[n].id = Latest(map, "index", n)
                 /\ idx[n].table = CatalogRow(map, idx[n].id).table
                 /\ idx[n].column = CatalogRow(map, idx[n].id).column
                 /\ idx[n].table \in CatalogIds(map, "table")
<1>1. ASSUME NEW t \in TableName, tbl[t] # 0
      PROVE  tbl[t] \in CatalogIds(map, "table") /\ CatalogRow(map, tbl[t]).name = t
  <2>1. Latest(map, "table", t) = tbl[t]
    BY <1>1 DEF CatOK, LoadedTables
  <2> QED
    BY <1>1, <2>1, LatestRow
<1>2. ASSUME NEW n \in IndexName, idx[n] # NoIndex
      PROVE  /\ idx[n].id \in CatalogIds(map, "index") /\ CatalogRow(map, idx[n].id).name = n
             /\ idx[n].id = Latest(map, "index", n)
             /\ idx[n].table = CatalogRow(map, idx[n].id).table
             /\ idx[n].column = CatalogRow(map, idx[n].id).column
             /\ idx[n].table \in CatalogIds(map, "table")
  <2> DEFINE id == Latest(map, "index", n)
  <2>1. idx[n] = IF id = 0 THEN NoIndex ELSE [table |-> CatalogRow(map, id).table,
                        column |-> CatalogRow(map, id).column, id |-> id]
    BY <1>2 DEF CatOK, LoadedIndexes
  <2> HIDE DEF id
  <2>2. id # 0
    BY <1>2, <2>1
  <2>3. id \in CatalogIds(map, "index") /\ CatalogRow(map, id).name = n
    BY <2>2, LatestRow DEF id
  <2>4. idx[n].id = id /\ idx[n].table = CatalogRow(map, id).table
        /\ idx[n].column = CatalogRow(map, id).column
    BY <2>1, <2>2
  <2>5. CatalogRow(map, id).table \in CatalogIds(map, "table")
    BY <2>3 DEF CatOK
  <2> QED
    BY <2>3, <2>4, <2>5 DEF id
<1>3. \A t \in TableName : tbl[t] # 0 =>
         tbl[t] \in CatalogIds(map, "table") /\ CatalogRow(map, tbl[t]).name = t
  BY <1>1
<1>4. \A n \in IndexName : idx[n] # NoIndex =>
         /\ idx[n].id \in CatalogIds(map, "index") /\ CatalogRow(map, idx[n].id).name = n
         /\ idx[n].id = Latest(map, "index", n)
         /\ idx[n].table = CatalogRow(map, idx[n].id).table
         /\ idx[n].column = CatalogRow(map, idx[n].id).column
         /\ idx[n].table \in CatalogIds(map, "table")
  BY <1>2
<1> QED
  BY <1>3, <1>4

\* A call about a row or an entry leaves the catalog as it is, and the map in order.
LEMMA DataApplied ==
    ASSUME IdsFit, NEW map \in Map, NEW call \in Call,
           unpack_table_id(call.key) # CATALOG_TABLE_ID
    PROVE  /\ SameCatalog(Applied(map, call), map)
           /\ \A nid, tbl, idx :
                 /\ CatOK(map, nid, tbl, idx)
                 /\ call.val # Absent =>
                       \/ call.val.kind = "row" /\ unpack_table_id(call.key) \in CatalogIds(map, "table")
                       \/ call.val.kind = "entry" /\ unpack_table_id(call.key) \in CatalogIds(map, "index")
                 => CatOK(Applied(map, call), nid, tbl, idx)
<1> DEFINE m == Applied(map, call)
<1>0. /\ m \in Map /\ m[call.key] = call.val /\ call.key \in StoreKey
      /\ \A k \in StoreKey : k # call.key => m[k] = map[k]
      /\ DOMAIN m = StoreKey /\ DOMAIN map = StoreKey
  BY AppliedRow DEF Map, Call
<1> HIDE DEF m
<1>1. SameCatalog(m, map)
  <2> SUFFICES ASSUME NEW id \in 1..MaxId
               PROVE  CatalogRow(m, id) = CatalogRow(map, id)
    BY DEF SameCatalog
  <2>1. id \in 0..MaxId
    BY Spans
  <2>2. /\ pack_key(CATALOG_TABLE_ID, id) \in StoreKey
        /\ unpack_table_id(pack_key(CATALOG_TABLE_ID, id)) = CATALOG_TABLE_ID
    BY <2>1, CatalogKey
  <2> QED
    BY <1>0, <2>2 DEF CatalogRow
<1>2. /\ \A kind : CatalogIds(m, kind) = CatalogIds(map, kind)
      /\ LoadedTables(m) = LoadedTables(map) /\ LoadedIndexes(m) = LoadedIndexes(map)
  BY <1>1, SameLoaded
<1>3. ASSUME NEW nid, NEW tbl, NEW idx, CatOK(map, nid, tbl, idx),
             call.val # Absent =>
                \/ call.val.kind = "row" /\ unpack_table_id(call.key) \in CatalogIds(map, "table")
                \/ call.val.kind = "entry" /\ unpack_table_id(call.key) \in CatalogIds(map, "index")
      PROVE  CatOK(m, nid, tbl, idx)
  <2>1. KeysApart(m)
    <3> SUFFICES ASSUME NEW k \in StoreKey, m[k] # Absent
                 PROVE  LET id == unpack_table_id(k)
                        IN  /\ m[k].kind = "row"   => id \in CatalogIds(m, "table")
                            /\ m[k].kind = "entry" => id \in CatalogIds(m, "index")
                            /\ m[k].kind \in {"table", "index"} => id = CATALOG_TABLE_ID
      BY <1>0 DEF KeysApart
    <3>1. CASE k = call.key
      BY <1>0, <1>2, <1>3, <3>1
    <3>2. CASE k # call.key
      BY <1>0, <1>2, <1>3, <3>2 DEF CatOK, KeysApart
    <3> QED
      BY <3>1, <3>2
  <2>2. \A id \in 1..MaxId : CatalogRow(m, id) # Absent => id < nid
    BY <1>1, <1>3 DEF CatOK, SameCatalog
  <2>3. \A id \in CatalogIds(m, "index") : CatalogRow(m, id).table \in CatalogIds(m, "table")
    BY <1>1, <1>2, <1>3 DEF CatOK, SameCatalog, CatalogIds
  <2> QED
    BY <1>2, <1>3, <2>1, <2>2, <2>3 DEF CatOK
<1> QED
  BY <1>1, <1>3 DEF m

\* What a new row of the catalog changes of what is loaded.
LEMMA NewRow ==
    ASSUME IdsFit, NEW map \in Map, NEW id \in 1..MaxId, NEW v \in StoreValue,
           v.kind \in {"table", "index"}, CatalogRow(map, id) = Absent,
           \A j \in 1..MaxId : CatalogRow(map, j) # Absent => j < id + 1,
           NEW m, m = Applied(map, PutCall(pack_key(CATALOG_TABLE_ID, id), v))
    PROVE  /\ PutCall(pack_key(CATALOG_TABLE_ID, id), v) \in Call
           /\ m \in Map /\ DOMAIN m = StoreKey /\ CatalogRow(m, id) = v
           /\ m[pack_key(CATALOG_TABLE_ID, id)] = v
           /\ unpack_table_id(pack_key(CATALOG_TABLE_ID, id)) = CATALOG_TABLE_ID
           /\ \A j \in 1..MaxId : j # id => CatalogRow(m, j) = CatalogRow(map, j)
           /\ \A k \in StoreKey : k # pack_key(CATALOG_TABLE_ID, id) => m[k] = map[k]
           /\ id \notin CatalogIds(map, "table") /\ id \notin CatalogIds(map, "index")
           /\ CatalogIds(m, v.kind) = CatalogIds(map, v.kind) \cup {id}
           /\ \A kind : kind # v.kind => CatalogIds(m, kind) = CatalogIds(map, kind)
           /\ Latest(m, v.kind, v.name) = id
           /\ \A kind, name : kind # v.kind \/ name # v.name =>
                 Latest(m, kind, name) = Latest(map, kind, name)
<1> DEFINE k == pack_key(CATALOG_TABLE_ID, id)
           call == PutCall(k, v)
<1>0. id \in 0..MaxId /\ id \in Nat /\ MaxId \in Nat /\ v # Absent
  BY Spans, Kinds
<1>1. k \in StoreKey /\ unpack_table_id(k) = CATALOG_TABLE_ID /\ unpack_primary_key(k) = id
  BY <1>0, CatalogKey
<1>2. call \in Call /\ call.key = k /\ call.val = v
  BY <1>1 DEF PutCall, Call
<1>3. m \in Map /\ m[k] = v /\ \A j \in StoreKey : j # k => m[j] = map[j]
  BY <1>2, AppliedRow
<1>4. DOMAIN m = StoreKey
  BY <1>3 DEF Map
<1> HIDE DEF call
<1>5. CatalogRow(m, id) = v
  BY <1>3 DEF CatalogRow
<1>6. ASSUME NEW j \in 1..MaxId, j # id
      PROVE  CatalogRow(m, j) = CatalogRow(map, j)
  <2>1. j \in 0..MaxId
    BY <1>0
  <2>2. /\ pack_key(CATALOG_TABLE_ID, j) \in StoreKey
        /\ unpack_primary_key(pack_key(CATALOG_TABLE_ID, j)) = j
    BY <2>1, CatalogKey
  <2>3. pack_key(CATALOG_TABLE_ID, j) # k
    BY <1>1, <1>6, <2>2
  <2> QED
    BY <1>3, <2>2, <2>3 DEF CatalogRow
<1> HIDE DEF k
<1>7. id \notin CatalogIds(map, "table") /\ id \notin CatalogIds(map, "index")
  BY DEF CatalogIds
<1>8. CatalogIds(m, v.kind) = CatalogIds(map, v.kind) \cup {id}
  BY <1>0, <1>5, <1>6 DEF CatalogIds
<1>9. \A kind : kind # v.kind => CatalogIds(m, kind) = CatalogIds(map, kind)
  BY <1>0, <1>5, <1>6 DEF CatalogIds
<1>10. Latest(m, v.kind, v.name) = id
  <2>1. id \in CatalogIds(m, v.kind) /\ CatalogRow(m, id).name = v.name
    BY <1>5, <1>8
  <2>2. ASSUME NEW j \in CatalogIds(m, v.kind)
        PROVE  j <= id
    <3>1. CASE j = id
      BY <1>0, <3>1
    <3>2. CASE j # id
      <4>1. j \in 1..MaxId /\ CatalogRow(map, j) # Absent
        BY <1>8, <3>2 DEF CatalogIds
      <4>2. j < id + 1 /\ j \in Nat
        BY <4>1
      <4> QED
        BY <1>0, <4>2
    <3> QED
      BY <3>1, <3>2
  <2> QED
    BY <2>1, <2>2, LatestIs
<1>11. ASSUME NEW kind, NEW name, kind # v.kind \/ name # v.name
       PROVE  Latest(m, kind, name) = Latest(map, kind, name)
  <2>1. {j \in CatalogIds(m, kind) : CatalogRow(m, j).name = name}
        = {j \in CatalogIds(map, kind) : CatalogRow(map, j).name = name}
    <3>1. ASSUME NEW j \in CatalogIds(m, kind), CatalogRow(m, j).name = name
          PROVE  j \in CatalogIds(map, kind) /\ CatalogRow(map, j).name = name
      <4>1. j # id
        BY <1>5, <1>11, <3>1 DEF CatalogIds
      <4>2. j \in 1..MaxId /\ CatalogRow(m, j) = CatalogRow(map, j)
        BY <1>6, <4>1 DEF CatalogIds
      <4> QED
        BY <3>1, <4>2 DEF CatalogIds
    <3>2. ASSUME NEW j \in CatalogIds(map, kind), CatalogRow(map, j).name = name
          PROVE  j \in CatalogIds(m, kind) /\ CatalogRow(m, j).name = name
      <4>1. j \in 1..MaxId /\ j # id
        BY DEF CatalogIds
      <4>2. CatalogRow(m, j) = CatalogRow(map, j)
        BY <1>6, <4>1
      <4> QED
        BY <3>2, <4>2 DEF CatalogIds
    <3> QED
      BY <3>1, <3>2
  <2> QED
    BY <2>1 DEF Latest
<1> QED
  BY <1>1, <1>2, <1>3, <1>4, <1>5, <1>6, <1>7, <1>8, <1>9, <1>10, <1>11 DEF k, call

\* The catalog in memory with one more name.
Entered(names, name, entry) == [names EXCEPT ![name] = entry]

\* A new table or index: the map stays in order, whether or not the call comes
\* back to enter it in memory.
LEMMA NewTable ==
    ASSUME IdsFit, NEW map \in Map, NEW id \in 1..MaxId, NEW tbl \in [TableName -> 0..MaxId], NEW idx,
           CatOK(map, id + 1, tbl, idx),
           CatalogRow(map, id) = Absent,
           NEW t \in TableName, tbl[t] = 0,
           NEW m, m = Applied(map, PutCall(pack_key(CATALOG_TABLE_ID, id), TableValue(t)))
    PROVE  /\ CatOK(m, id + 1, tbl, idx) /\ CatOK(m, id + 1, Entered(tbl, t, id), idx)
           /\ CatalogIds(m, "table") = CatalogIds(map, "table") \cup {id}
           /\ CatalogIds(m, "index") = CatalogIds(map, "index")
<1> DEFINE v == TableValue(t)
           k == pack_key(CATALOG_TABLE_ID, id)
<1>1. v \in StoreValue /\ v.kind = "table" /\ v.name = t
  BY DEF TableValue, StoreValue
<1>2. \A j \in 1..MaxId : CatalogRow(map, j) # Absent => j < id + 1
  BY DEF CatOK
<1> HIDE DEF v
<1>3. /\ m \in Map /\ DOMAIN m = StoreKey /\ CatalogRow(m, id) = v /\ m[k] = v
      /\ unpack_table_id(k) = CATALOG_TABLE_ID
      /\ \A j \in 1..MaxId : j # id => CatalogRow(m, j) = CatalogRow(map, j)
      /\ \A j \in StoreKey : j # k => m[j] = map[j]
      /\ id \notin CatalogIds(map, "table") /\ id \notin CatalogIds(map, "index")
      /\ CatalogIds(m, v.kind) = CatalogIds(map, v.kind) \cup {id}
      /\ \A kind : kind # v.kind => CatalogIds(m, kind) = CatalogIds(map, kind)
      /\ Latest(m, v.kind, v.name) = id
      /\ \A kind, name : kind # v.kind \/ name # v.name =>
            Latest(m, kind, name) = Latest(map, kind, name)
  BY <1>1, <1>2, NewRow DEF v
<1> HIDE DEF k
<1>4. /\ CatalogIds(m, "table") = CatalogIds(map, "table") \cup {id}
      /\ CatalogIds(m, "index") = CatalogIds(map, "index")
  BY <1>1, <1>3
<1>5. KeysApart(m)
  <2>1. \A j \in StoreKey : j # k => m[j] = map[j]
    BY <1>3
  <2>2. KeysApart(map) /\ DOMAIN map = StoreKey
    BY DEF CatOK, Map
  <2> QED
    BY <1>1, <1>3, <1>4, <2>1, <2>2 DEF KeysApart
<1>6. \A j \in 1..MaxId : CatalogRow(m, j) # Absent => j < id + 1
  <2>1. id < id + 1
    BY Spans
  <2> QED
    BY <1>3, <2>1 DEF CatOK
<1>7. ASSUME NEW j \in CatalogIds(m, "index")
      PROVE  CatalogRow(m, j).table \in CatalogIds(m, "table")
  <2>1. j \in CatalogIds(map, "index") /\ j # id /\ j \in 1..MaxId
    BY <1>3, <1>4 DEF CatalogIds
  <2> QED
    BY <1>3, <1>4, <2>1 DEF CatOK
<1>8. /\ \A u \in TableName : u # t => LoadedTables(m)[u] = LoadedTables(map)[u]
      /\ LoadedTables(m)[t] = id
  BY <1>1, <1>3 DEF LoadedTables
<1>9. LoadedIndexes(m) = LoadedIndexes(map)
  <2>1. ASSUME NEW n \in IndexName
        PROVE  LoadedIndexes(m)[n] = LoadedIndexes(map)[n]
    <3> DEFINE l == Latest(map, "index", n)
    <3>1. Latest(m, "index", n) = l
      BY <1>1, <1>3
    <3>2. l # 0 => l \in CatalogIds(map, "index")
      BY LatestRow
    <3> HIDE DEF l
    <3>3. l # 0 => CatalogRow(m, l) = CatalogRow(map, l)
      BY <1>3, <3>2 DEF CatalogIds
    <3> QED
      BY <3>1, <3>3 DEF LoadedIndexes, l
  <2> QED
    BY <2>1 DEF LoadedIndexes
<1>10. CatOK(m, id + 1, tbl, idx)
  <2>1. \A u \in TableName : tbl[u] # 0 => LoadedTables(m)[u] = tbl[u]
    BY <1>8 DEF CatOK
  <2>2. \A n \in IndexName : idx[n] # NoIndex => LoadedIndexes(m)[n] = idx[n]
    BY <1>9 DEF CatOK
  <2> QED
    BY <1>5, <1>6, <1>7, <2>1, <2>2 DEF CatOK
<1>11. CatOK(m, id + 1, Entered(tbl, t, id), idx)
  <2>1. \A u \in TableName : Entered(tbl, t, id)[u] # 0 =>
           LoadedTables(m)[u] = Entered(tbl, t, id)[u]
    BY <1>8 DEF CatOK, Entered
  <2> QED
    BY <1>10, <2>1 DEF CatOK
<1> QED
  BY <1>4, <1>10, <1>11

\* The same for a new index, which is on a table the catalog has.
LEMMA NewIndex ==
    ASSUME IdsFit, NEW map \in Map, NEW id \in 1..MaxId, NEW tbl,
           NEW idx \in [IndexName -> [table : 0..MaxId, column : Column, id : 0..MaxId]],
           CatOK(map, id + 1, tbl, idx),
           CatalogRow(map, id) = Absent,
           NEW n \in IndexName, idx[n] = NoIndex, NEW u \in CatalogIds(map, "table"), NEW c \in Column,
           NEW m, m = Applied(map, PutCall(pack_key(CATALOG_TABLE_ID, id), IndexValue(n, u, c)))
    PROVE  /\ CatOK(m, id + 1, tbl, idx)
           /\ CatOK(m, id + 1, tbl, Entered(idx, n, [table |-> u, column |-> c, id |-> id]))
           /\ CatalogIds(m, "index") = CatalogIds(map, "index") \cup {id}
           /\ CatalogIds(m, "table") = CatalogIds(map, "table")
           /\ CatalogRow(m, id) = IndexValue(n, u, c)
<1> DEFINE v == IndexValue(n, u, c)
           k == pack_key(CATALOG_TABLE_ID, id)
           new == [table |-> u, column |-> c, id |-> id]
<1>1. /\ v \in StoreValue /\ v.kind = "index" /\ v.name = n /\ v.table = u /\ v.column = c
      /\ u \in 1..MaxId
  BY DEF IndexValue, StoreValue, CatalogIds
<1>2. \A j \in 1..MaxId : CatalogRow(map, j) # Absent => j < id + 1
  BY DEF CatOK
<1> HIDE DEF v
<1>3. /\ m \in Map /\ DOMAIN m = StoreKey /\ CatalogRow(m, id) = v /\ m[k] = v
      /\ unpack_table_id(k) = CATALOG_TABLE_ID
      /\ \A j \in 1..MaxId : j # id => CatalogRow(m, j) = CatalogRow(map, j)
      /\ \A j \in StoreKey : j # k => m[j] = map[j]
      /\ id \notin CatalogIds(map, "table") /\ id \notin CatalogIds(map, "index")
      /\ CatalogIds(m, v.kind) = CatalogIds(map, v.kind) \cup {id}
      /\ \A kind : kind # v.kind => CatalogIds(m, kind) = CatalogIds(map, kind)
      /\ Latest(m, v.kind, v.name) = id
      /\ \A kind, name : kind # v.kind \/ name # v.name =>
            Latest(m, kind, name) = Latest(map, kind, name)
  BY <1>1, <1>2, NewRow DEF v
<1> HIDE DEF k
<1>4. /\ CatalogIds(m, "index") = CatalogIds(map, "index") \cup {id}
      /\ CatalogIds(m, "table") = CatalogIds(map, "table")
  BY <1>1, <1>3
<1>5. KeysApart(m)
  <2>1. \A j \in StoreKey : j # k => m[j] = map[j]
    BY <1>3
  <2>2. KeysApart(map) /\ DOMAIN map = StoreKey
    BY DEF CatOK, Map
  <2> QED
    BY <1>1, <1>3, <1>4, <2>1, <2>2 DEF KeysApart
<1>6. \A j \in 1..MaxId : CatalogRow(m, j) # Absent => j < id + 1
  <2>1. id < id + 1
    BY Spans
  <2> QED
    BY <1>3, <2>1 DEF CatOK
<1>7. ASSUME NEW j \in CatalogIds(m, "index")
      PROVE  CatalogRow(m, j).table \in CatalogIds(m, "table")
  <2>1. CASE j = id
    BY <1>1, <1>3, <1>4, <2>1
  <2>2. CASE j # id
    <3>1. j \in CatalogIds(map, "index") /\ j \in 1..MaxId
      BY <1>4, <2>2 DEF CatalogIds
    <3> QED
      BY <1>3, <1>4, <2>2, <3>1 DEF CatOK
  <2> QED
    BY <2>1, <2>2
<1>8. LoadedTables(m) = LoadedTables(map)
  BY <1>1, <1>3 DEF LoadedTables
<1>9. \A i \in IndexName : i # n => LoadedIndexes(m)[i] = LoadedIndexes(map)[i]
  <2> SUFFICES ASSUME NEW i \in IndexName, i # n
               PROVE  LoadedIndexes(m)[i] = LoadedIndexes(map)[i]
    OBVIOUS
  <2> DEFINE l == Latest(map, "index", i)
  <2>1. Latest(m, "index", i) = l
    BY <1>1, <1>3
  <2>2. l # 0 => l \in CatalogIds(map, "index")
    BY LatestRow
  <2> HIDE DEF l
  <2>3. l # 0 => CatalogRow(m, l) = CatalogRow(map, l)
    BY <1>3, <2>2 DEF CatalogIds
  <2> QED
    BY <2>1, <2>3 DEF LoadedIndexes, l
<1>10. LoadedIndexes(m)[n] = new
  <2>1. Latest(m, "index", n) = id /\ id # 0
    BY <1>1, <1>3
  <2> QED
    BY <1>1, <1>3, <2>1 DEF LoadedIndexes
<1>11. CatOK(m, id + 1, tbl, idx)
  <2>1. \A t \in TableName : tbl[t] # 0 => LoadedTables(m)[t] = tbl[t]
    BY <1>8 DEF CatOK
  <2>2. \A i \in IndexName : idx[i] # NoIndex => LoadedIndexes(m)[i] = idx[i]
    BY <1>9 DEF CatOK
  <2> QED
    BY <1>5, <1>6, <1>7, <2>1, <2>2 DEF CatOK
<1> HIDE DEF new
<1>12. CatOK(m, id + 1, tbl, Entered(idx, n, new))
  <2>1. \A i \in IndexName : Entered(idx, n, new)[i] # NoIndex =>
           LoadedIndexes(m)[i] = Entered(idx, n, new)[i]
    BY <1>9, <1>10 DEF CatOK, Entered
  <2> QED
    BY <1>11, <2>1 DEF CatOK
<1> QED
  BY <1>3, <1>4, <1>11, <1>12 DEF new, v

\* The catalog a restart builds is that of the map it reads.
LEMMA Reload ==
    ASSUME IdsFit, NEW map \in Map, NEW nid, NEW tbl, NEW idx, CatOK(map, nid, tbl, idx)
    PROVE  /\ CatOK(map, LoadedNextId(map), LoadedTables(map), LoadedIndexes(map))
           /\ LoadedNextId(map) \in 1..(MaxId + 1)
           /\ LoadedTables(map) \in [TableName -> 0..MaxId]
           /\ LoadedIndexes(map) \in [IndexName -> [table : 0..MaxId, column : Column, id : 0..MaxId]]
<1> DEFINE S == {0} \cup CatalogIds(map, "table") \cup CatalogIds(map, "index")
<1>0. MaxId \in Nat
  BY Spans
<1>1. S \in SUBSET (0..MaxId) /\ S # {}
  BY <1>0 DEF CatalogIds
<1>2. Max(S) \in S /\ \A y \in S : y <= Max(S)
  <2> HIDE DEF S
  <2> QED
    BY <1>0, <1>1, GreatestNumber
<1>3. LoadedNextId(map) = Max(S) + 1
  BY DEF LoadedNextId
<1>4. LoadedNextId(map) \in 1..(MaxId + 1)
  <2> HIDE DEF S
  <2>1. Max(S) \in 0..MaxId
    BY <1>1, <1>2
  <2> QED
    BY <1>0, <1>3, <2>1
<1>5. ASSUME NEW id \in 1..MaxId, CatalogRow(map, id) # Absent
      PROVE  /\ CatalogRow(map, id) \in StoreValue /\ CatalogRow(map, id).kind \in {"table", "index"}
             /\ id < LoadedNextId(map)
  <2>1. /\ pack_key(CATALOG_TABLE_ID, id) \in StoreKey
        /\ unpack_table_id(pack_key(CATALOG_TABLE_ID, id)) = CATALOG_TABLE_ID
    BY <1>0, CatalogKey
  <2>2. CatalogRow(map, id) \in StoreValue
    BY <1>5, <2>1, MapRow DEF CatalogRow
  <2>3. CatalogRow(map, id).kind \in {"table", "index"}
    BY <1>5, <2>1, Blocks DEF CatalogRow, CatOK
  <2>4. id \in S
    BY <1>5, <2>3 DEF CatalogIds
  <2>5. id <= Max(S) /\ Max(S) \in 0..MaxId
    BY <1>1, <1>2, <2>4
  <2> HIDE DEF S
  <2>6. id < Max(S) + 1
    BY <1>0, <2>5
  <2> QED
    BY <1>3, <2>2, <2>3, <2>6
<1>6. LoadedTables(map) \in [TableName -> 0..MaxId]
  BY LatestRow DEF LoadedTables
<1>7. ASSUME NEW n \in IndexName
      PROVE  LoadedIndexes(map)[n] \in [table : 0..MaxId, column : Column, id : 0..MaxId]
  <2> DEFINE l == Latest(map, "index", n)
  <2>1. l \in 0..MaxId /\ (l # 0 => l \in CatalogIds(map, "index"))
    BY LatestRow
  <2>2. LoadedIndexes(map)[n] = IF l = 0 THEN NoIndex ELSE [table |-> CatalogRow(map, l).table,
                        column |-> CatalogRow(map, l).column, id |-> l]
    BY DEF LoadedIndexes
  <2> HIDE DEF l
  <2>3. CASE l = 0
    <3>1. NoIndex \in [table : 0..MaxId, column : Column, id : 0..MaxId]
      BY <1>0 DEF NoIndex, Column
    <3> QED
      BY <2>2, <2>3, <3>1
  <2>4. CASE l # 0
    <3>1. l \in 1..MaxId /\ CatalogRow(map, l) # Absent /\ CatalogRow(map, l).kind = "index"
      BY <2>1, <2>4 DEF CatalogIds
    <3>2. CatalogRow(map, l) \in StoreValue
      BY <1>5, <3>1
    <3>3. CatalogRow(map, l).table \in 1..MaxId /\ CatalogRow(map, l).column \in Column
      BY <3>1, <3>2, Kinds
    <3>4. CatalogRow(map, l).table \in 0..MaxId
      BY <1>0, <3>3
    <3> QED
      BY <2>1, <2>2, <2>4, <3>3, <3>4
  <2> QED
    BY <2>3, <2>4
<1>8. LoadedIndexes(map) \in [IndexName -> [table : 0..MaxId, column : Column, id : 0..MaxId]]
  <2>1. LoadedIndexes(map) = [n \in IndexName |-> LoadedIndexes(map)[n]]
    BY DEF LoadedIndexes
  <2> QED
    BY <1>7, <2>1
<1>9. CatOK(map, LoadedNextId(map), LoadedTables(map), LoadedIndexes(map))
  BY <1>5 DEF CatOK
<1> QED
  BY <1>4, <1>6, <1>8, <1>9

-----------------------------------------------------------------------------
(* The catalog can be rebuilt: what every statement keeps.                 *)

CatInv == ExecTypeOK /\ CatalogInv

DataCalls == {c \in Call : DataCall(c)}

\* What a statement in progress is.
LEMMA Statements ==
    ASSUME NEW s \in Statement
    PROVE  /\ s.kind \in {"none", "create_table", "create_index", "insert", "update", "delete"}
           /\ s.kind = "none" <=> s = Nothing
           /\ s.kind # "none" => s.id \in 1..MaxId
           /\ s.kind \in {"update", "delete"} => s.set \in [id : Literal, a : Literal]
           /\ s.kind \in {"update", "delete"} /\ "where" \in DOMAIN s =>
                 s.where \in WhereInput /\ WhereOk(s.where)
<1>1. ASSUME s = Nothing
      PROVE  s.kind = "none" /\ s = Nothing
  BY <1>1 DEF Nothing
<1>2. ASSUME s.kind # "none"
      PROVE  s # Nothing
  BY <1>2 DEF Nothing
<1>3. CASE s \in [kind : {"create_table", "create_index", "insert"}, id : 1..MaxId]
  <2>1. s.kind \in {"create_table", "create_index", "insert"} /\ s.id \in 1..MaxId
    BY <1>3
  <2> QED
    BY <1>2, <2>1
<1>4. CASE s \in [kind : {"update", "delete"}, id : 1..MaxId, set : [id : Literal, a : Literal]]
  <2>1. /\ s.kind \in {"update", "delete"} /\ s.id \in 1..MaxId
        /\ s.set \in [id : Literal, a : Literal]
    BY <1>4
  <2>2. DOMAIN s = {"kind", "id", "set"}
    BY <1>4
  <2>3. "where" \notin DOMAIN s
    BY <2>2
  <2> QED
    BY <1>2, <2>1, <2>3
<1>5. CASE s \in [kind : {"update", "delete"}, id : 1..MaxId, set : [id : Literal, a : Literal],
                  where : {w \in WhereInput : WhereOk(w)}]
  <2>1. /\ s.kind \in {"update", "delete"} /\ s.id \in 1..MaxId
        /\ s.set \in [id : Literal, a : Literal] /\ s.where \in {w \in WhereInput : WhereOk(w)}
    BY <1>5
  <2> QED
    BY <1>2, <2>1
<1> QED
  BY <1>1, <1>3, <1>4, <1>5 DEF Statement

\* The invariant in the terms of the lemmas.
LEMMA CatParts ==
    ASSUME CatInv
    PROVE  /\ CatOK(store, next_id, tables, indexes) /\ CatOK(file, next_id, tables, indexes)
           /\ IndexesTyped /\ store \in Map /\ file \in Map /\ stmt \in Statement
           /\ tables \in [TableName -> 0..MaxId] /\ next_id \in 1..(MaxId + 1)
           /\ todo \in Seq(Call) /\ pending \in Seq(Match)
           /\ KeysApart(store) /\ KeysApart(file)
BY DEF CatInv, CatalogInv, CatalogOK, CatOK, ExecTypeOK, IndexesTyped, Match

\* The table of an INSERT, UPDATE or DELETE is one the catalog has.
LEMMA StatementTable ==
    ASSUME CatInv, stmt.kind \in {"insert", "update", "delete"}
    PROVE  /\ stmt.id \in CatalogIds(store, "table") /\ stmt.id \in CatalogIds(file, "table")
           /\ stmt.id \in 1..MaxId
<1>1. stmt.id \in 1..MaxId
  BY CatParts, Statements
<1>2. PICK t \in TableName : stmt.id = tables[t]
  BY DEF CatInv, CatalogInv
<1>3. tables[t] # 0
  BY <1>1, <1>2
<1> QED
  BY <1>1, <1>2, <1>3, CatParts, InCatalog

\* A row of a table and the removal of any key that is not the catalog's.
LEMMA RowCalls ==
    ASSUME IdsFit, CatInv
    PROVE  /\ \A k \in StoreKey : unpack_table_id(k) # CATALOG_TABLE_ID => RemoveCall(k) \in DataCalls
           /\ \A k \in StoreKey, row \in Row :
                 /\ unpack_table_id(k) \in CatalogIds(store, "table")
                 /\ unpack_table_id(k) \in CatalogIds(file, "table")
                 => PutCall(k, RowValue(row)) \in DataCalls
<1>1. ASSUME NEW k \in StoreKey, unpack_table_id(k) # CATALOG_TABLE_ID
      PROVE  RemoveCall(k) \in DataCalls
  BY <1>1 DEF RemoveCall, DataCalls, DataCall, Call
<1>2. ASSUME NEW k \in StoreKey, NEW row \in Row,
             unpack_table_id(k) \in CatalogIds(store, "table"),
             unpack_table_id(k) \in CatalogIds(file, "table")
      PROVE  PutCall(k, RowValue(row)) \in DataCalls
  <2>1. RowValue(row) \in StoreValue /\ RowValue(row).kind = "row"
    BY DEF RowValue, StoreValue
  <2>2. unpack_table_id(k) # CATALOG_TABLE_ID
    BY <1>2 DEF CatalogIds, CATALOG_TABLE_ID
  <2> HIDE DEF RowValue
  <2> QED
    BY <1>2, <2>1, <2>2 DEF PutCall, DataCalls, DataCall, Call
<1> QED
  BY <1>1, <1>2

\* The calls for a row's index entries are about entries of indexes the catalog has.
LEMMA SyncData ==
    ASSUME IdsFit, CatInv, NEW id, NEW old \in Seq(KeyedRow), NEW new \in Seq(KeyedRow)
    PROVE  sync_indexes(id, old, new) \in Seq(DataCalls)
<1> DEFINE calls == sync_indexes(id, old, new)
<1>1. /\ calls \in Seq(Call)
      /\ \A i \in 1..Len(calls) : \E n \in indexes_for_table(id) : SyncCall(calls[i], n, old, new)
  BY CatParts, SyncIndexes
<1> HIDE DEF calls
<1>2. ASSUME NEW i \in 1..Len(calls)
      PROVE  calls[i] \in DataCalls
  <2>1. PICK n \in indexes_for_table(id) : SyncCall(calls[i], n, old, new)
    BY <1>1
  <2>2. n \in IndexName /\ indexes[n] # NoIndex
    BY DEF indexes_for_table
  <2>3. /\ indexes[n].id \in CatalogIds(store, "index") /\ indexes[n].id \in CatalogIds(file, "index")
    BY <2>2, CatParts, InCatalog
  <2>4. indexes[n].id # CATALOG_TABLE_ID
    BY <2>3 DEF CatalogIds, CATALOG_TABLE_ID
  <2>5. unpack_table_id(calls[i].key) = indexes[n].id
        /\ (calls[i].val = Absent \/ calls[i].val = EntryValue)
    <3>1. \A a \in 1..Len(old) : old[a] \in KeyedRow
      BY ElementOfSeq
    <3>2. \A a \in 1..Len(new) : new[a] \in KeyedRow
      BY ElementOfSeq
    <3> QED
      BY <2>1, <2>2, <3>1, <3>2, CatParts, EntryKeyOf DEF SyncCall
  <2>6. EntryValue.kind = "entry"
    BY DEF EntryValue
  <2>7. calls[i] \in Call
    BY <1>1, ElementOfSeq
  <2> QED
    BY <2>3, <2>4, <2>5, <2>6, <2>7 DEF DataCalls, DataCall
<1>3. calls \in Seq(DataCalls)
  <2>1. Len(calls) \in Nat /\ DOMAIN calls = 1..Len(calls)
    BY <1>1, LenProperties
  <2> QED
    BY <1>1, <1>2, <2>1, SeqDef
<1> QED
  BY <1>3 DEF calls

\* Whatever number pack_key is given, the key has its low bits.
LEMMA KeyOfAny ==
    ASSUME IdsFit, NEW id \in 0..MaxId, NEW p \in Int
    PROVE  /\ pack_key(id, p) \in StoreKey
           /\ unpack_table_id(pack_key(id, p)) = id
           /\ unpack_primary_key(pack_key(id, p)) = p % KeySpan
           /\ p \in 0..PRIMARY_KEY_MASK => p % KeySpan = p
<1>1. p % KeySpan \in 0..PRIMARY_KEY_MASK /\ PRIMARY_KEY_MASK = KeySpan - 1
  BY Spans, Divided
<1>2. (p % KeySpan) % KeySpan = p % KeySpan
  BY <1>1, Spans, Fits
<1>3. pack_key(id, p) = pack_key(id, p % KeySpan)
  BY <1>2 DEF pack_key
<1>4. p \in 0..PRIMARY_KEY_MASK => p % KeySpan = p
  BY <1>1, Spans, Fits
<1> HIDE DEF pack_key
<1> QED
  BY <1>1, <1>3, <1>4, KeyOf

\* Two lists of calls about what the catalog has, one after the other.
LEMMA DataConcat ==
    ASSUME NEW a \in Seq(DataCalls), NEW b \in Seq(DataCalls)
    PROVE  a \o b \in Seq(DataCalls)
BY ConcatProperties

\* Calls about what the catalog has are calls.
LEMMA DataSeq ==
    ASSUME NEW calls
    PROVE  calls \in Seq(DataCalls) <=> (calls \in Seq(Call) /\ \A n \in DOMAIN calls : DataCall(calls[n]))
<1>1. ASSUME calls \in Seq(DataCalls)
      PROVE  calls \in Seq(Call) /\ \A n \in DOMAIN calls : DataCall(calls[n])
  <2>1. DOMAIN calls = 1..Len(calls) /\ Len(calls) \in Nat
    BY <1>1, LenProperties
  <2>2. \A n \in 1..Len(calls) : calls[n] \in DataCalls
    BY <1>1, ElementOfSeq
  <2>3. \A n \in 1..Len(calls) : calls[n] \in Call /\ DataCall(calls[n])
    BY <2>2 DEF DataCalls
  <2>4. calls = [n \in 1..Len(calls) |-> calls[n]]
    BY <1>1, <2>1
  <2>5. calls \in Seq(Call)
    BY <2>1, <2>3, <2>4, SeqDef
  <2> QED
    BY <2>1, <2>3, <2>5
<1>2. ASSUME calls \in Seq(Call), \A n \in DOMAIN calls : DataCall(calls[n])
      PROVE  calls \in Seq(DataCalls)
  <2>1. DOMAIN calls = 1..Len(calls) /\ Len(calls) \in Nat
    BY <1>2, LenProperties
  <2>2. \A n \in 1..Len(calls) : calls[n] \in Call
    BY <1>2, ElementOfSeq
  <2>3. \A n \in 1..Len(calls) : calls[n] \in DataCalls
    BY <1>2, <2>1, <2>2 DEF DataCalls
  <2>4. calls = [n \in 1..Len(calls) |-> calls[n]]
    BY <1>2, <2>1
  <2> QED
    BY <2>1, <2>3, <2>4, SeqDef
<1> QED
  BY <1>1, <1>2

\* A statement that is not a CREATE at its first call makes calls about what the
\* catalog has.
LEMMA NotCreating ==
    ASSUME CatInv, ~ Creating
    PROVE  todo \in Seq(DataCalls)
BY CatParts, DataSeq DEF CatInv, CatalogInv

\* The first call and those after it.
LEMMA HeadTail ==
    ASSUME NEW S, NEW calls \in Seq(S), calls # <<>>
    PROVE  /\ Head(calls) = calls[1] /\ Head(calls) \in S /\ Tail(calls) \in Seq(S)
           /\ Len(calls) \in Nat /\ Len(calls) >= 1 /\ DOMAIN calls = 1..Len(calls)
           /\ Len(Tail(calls)) = Len(calls) - 1 /\ DOMAIN Tail(calls) = 1..(Len(calls) - 1)
           /\ \A n \in 1..(Len(calls) - 1) : Tail(calls)[n] = calls[n + 1] /\ n + 1 \in 2..Len(calls)
<1>1. Len(calls) \in Nat /\ DOMAIN calls = 1..Len(calls)
  BY LenProperties
<1>2. Head(calls) = calls[1] /\ Head(calls) \in S /\ Tail(calls) \in Seq(S)
  BY HeadTailProperties
<1>3. Len(Tail(calls)) = Len(calls) - 1 /\ Len(calls) >= 1
  <2>1. Len(calls) # 0
    BY EmptySeq
  <2>2. Len(Tail(calls)) = Len(calls) - 1
    BY HeadTailProperties
  <2> QED
    BY <1>1, <2>1, <2>2
<1>4. DOMAIN Tail(calls) = 1..(Len(calls) - 1)
  BY <1>2, <1>3, LenProperties
<1>5. \A n \in 1..(Len(calls) - 1) : Tail(calls)[n] = calls[n + 1]
  BY <1>3, HeadTailProperties
<1> QED
  BY <1>1, <1>2, <1>3, <1>4, <1>5

\* The calls a CREATE makes first are not about what the catalog has.
LEMMA FirstOfCreate ==
    ASSUME IdsFit, CatInv, Creating
    PROVE  /\ stmt.id \in 1..MaxId /\ ~ DataCall(Head(todo))
           /\ stmt.kind \in {"create_table", "create_index"}
<1>1. stmt.kind \in {"create_table", "create_index"}
  BY DEF Creating
<1>2. stmt.id \in 1..MaxId
  BY <1>1, CatParts, Statements
<1>3. stmt.id \in 0..MaxId
  BY <1>2, Spans
<1>4. unpack_table_id(Head(todo).key) = CATALOG_TABLE_ID
  BY <1>3, CatalogKey DEF Creating
<1> QED
  BY <1>1, <1>2, <1>4 DEF DataCall

\* What a call about the catalog's own tables and indexes leaves: the catalog.
LEMMA DataStored ==
    ASSUME IdsFit, CatInv, NEW call \in DataCalls, NEW map \in {store, file}
    PROVE  /\ Applied(map, call) \in Map /\ SameCatalog(Applied(map, call), map)
           /\ CatOK(Applied(map, call), next_id, tables, indexes)
<1>1. /\ call \in Call /\ unpack_table_id(call.key) # CATALOG_TABLE_ID
      /\ call.val # Absent =>
            \/ call.val.kind = "row" /\ unpack_table_id(call.key) \in CatalogIds(map, "table")
            \/ call.val.kind = "entry" /\ unpack_table_id(call.key) \in CatalogIds(map, "index")
  BY DEF DataCalls, DataCall
<1>2. map \in Map /\ CatOK(map, next_id, tables, indexes)
  BY CatParts
<1> QED
  BY <1>1, <1>2, AppliedRow, DataApplied

\* The first call of a CREATE TABLE.
LEMMA TableStored ==
    ASSUME IdsFit, CatInv, Creating, stmt.kind = "create_table"
    PROVE  /\ Head(todo) \in Call
           /\ \E t \in TableName :
                 /\ tables[t] = 0 /\ Head(todo).val = TableValue(t)
                 /\ \A map \in {store, file} :
                       LET m == Applied(map, Head(todo))
                       IN  /\ m \in Map /\ CatOK(m, next_id, tables, indexes)
                           /\ CatOK(m, next_id, Entered(tables, t, stmt.id), indexes)
                           /\ CatalogIds(m, "table") = CatalogIds(map, "table") \cup {stmt.id}
                           /\ CatalogIds(m, "index") = CatalogIds(map, "index")
<1>1. Head(todo) \in Call
  BY CatParts, HeadTail DEF Creating
<1>2. PICK t \in TableName : tables[t] = 0 /\ Head(todo).val = TableValue(t)
  BY DEF Creating
<1>3. Head(todo) = PutCall(pack_key(CATALOG_TABLE_ID, stmt.id), TableValue(t))
  BY <1>1, <1>2 DEF Creating, Call, PutCall
<1>4. stmt.id \in 1..MaxId /\ next_id = stmt.id + 1
  BY FirstOfCreate DEF Creating
<1>5. ASSUME NEW map \in {store, file}
      PROVE  LET m == Applied(map, Head(todo))
             IN  /\ m \in Map /\ CatOK(m, next_id, tables, indexes)
                 /\ CatOK(m, next_id, Entered(tables, t, stmt.id), indexes)
                 /\ CatalogIds(m, "table") = CatalogIds(map, "table") \cup {stmt.id}
                 /\ CatalogIds(m, "index") = CatalogIds(map, "index")
  <2> DEFINE m == Applied(map, Head(todo))
  <2>1. /\ map \in Map /\ CatOK(map, next_id, tables, indexes)
        /\ CatalogRow(map, stmt.id) = Absent /\ tables \in [TableName -> 0..MaxId]
    BY CatParts DEF Creating
  <2>2. m \in Map
    BY <1>1, <2>1, AppliedRow
  <2>3. m = Applied(map, PutCall(pack_key(CATALOG_TABLE_ID, stmt.id), TableValue(t)))
    BY <1>3
  <2> HIDE DEF m
  <2>4. /\ CatOK(m, next_id, tables, indexes)
        /\ CatOK(m, next_id, Entered(tables, t, stmt.id), indexes)
        /\ CatalogIds(m, "table") = CatalogIds(map, "table") \cup {stmt.id}
        /\ CatalogIds(m, "index") = CatalogIds(map, "index")
    <3> DEFINE id == stmt.id
    <3>1. id \in 1..MaxId /\ next_id = id + 1 /\ CatalogRow(map, id) = Absent
      BY <1>4, <2>1
    <3>2. tables \in [TableName -> 0..MaxId]
      BY CatParts
    <3>3. CatOK(map, id + 1, tables, indexes) /\ map \in Map
      BY <2>1, <3>1
    <3>4. tables[t] = 0 /\ t \in TableName
      BY <1>2
    <3>5. m = Applied(map, PutCall(pack_key(CATALOG_TABLE_ID, id), TableValue(t)))
      BY <2>3
    <3> HIDE DEF id
    <3>6. /\ CatOK(m, id + 1, tables, indexes) /\ CatOK(m, id + 1, Entered(tables, t, id), indexes)
           /\ CatalogIds(m, "table") = CatalogIds(map, "table") \cup {id}
           /\ CatalogIds(m, "index") = CatalogIds(map, "index")
      BY <3>1, <3>2, <3>3, <3>4, <3>5, NewTable
    <3> QED
      BY <3>1, <3>6 DEF id
  <2> QED
    BY <2>2, <2>4 DEF m
<1> QED
  BY <1>1, <1>2, <1>5

\* The first call of a CREATE INDEX.
LEMMA IndexStored ==
    ASSUME IdsFit, CatInv, Creating, stmt.kind = "create_index"
    PROVE  /\ Head(todo) \in Call
           /\ \E n \in IndexName, t \in TableName, c \in Column :
                 /\ indexes[n] = NoIndex /\ tables[t] # 0 /\ tables[t] \in 1..MaxId
                 /\ Head(todo).val = IndexValue(n, tables[t], c)
                 /\ \A map \in {store, file} :
                       LET m == Applied(map, Head(todo))
                       IN  /\ m \in Map /\ CatOK(m, next_id, tables, indexes)
                           /\ CatOK(m, next_id, tables,
                                Entered(indexes, n, [table |-> tables[t], column |-> c, id |-> stmt.id]))
                           /\ CatalogIds(m, "index") = CatalogIds(map, "index") \cup {stmt.id}
                           /\ CatalogIds(m, "table") = CatalogIds(map, "table")
                           /\ CatalogRow(m, stmt.id) = IndexValue(n, tables[t], c)
<1>1. Head(todo) \in Call
  BY CatParts, HeadTail DEF Creating
<1>2. PICK n \in IndexName, t \in TableName, c \in Column :
         indexes[n] = NoIndex /\ tables[t] # 0 /\ Head(todo).val = IndexValue(n, tables[t], c)
  BY DEF Creating
<1>3. Head(todo) = PutCall(pack_key(CATALOG_TABLE_ID, stmt.id), IndexValue(n, tables[t], c))
  BY <1>1, <1>2 DEF Creating, Call, PutCall
<1>4. stmt.id \in 1..MaxId /\ next_id = stmt.id + 1
  BY FirstOfCreate DEF Creating
<1>5. ASSUME NEW map \in {store, file}
      PROVE  LET m == Applied(map, Head(todo))
             IN  /\ m \in Map /\ CatOK(m, next_id, tables, indexes)
                 /\ CatOK(m, next_id, tables,
                      Entered(indexes, n, [table |-> tables[t], column |-> c, id |-> stmt.id]))
                 /\ CatalogIds(m, "index") = CatalogIds(map, "index") \cup {stmt.id}
                 /\ CatalogIds(m, "table") = CatalogIds(map, "table")
                 /\ CatalogRow(m, stmt.id) = IndexValue(n, tables[t], c)
  <2> DEFINE m == Applied(map, Head(todo))
             u == tables[t]
  <2>1. /\ map \in Map /\ CatOK(map, next_id, tables, indexes)
        /\ CatalogRow(map, stmt.id) = Absent
        /\ indexes \in [IndexName -> [table : 0..MaxId, column : Column, id : 0..MaxId]]
    BY CatParts DEF Creating, IndexesTyped
  <2>2. m \in Map
    BY <1>1, <2>1, AppliedRow
  <2>3. m = Applied(map, PutCall(pack_key(CATALOG_TABLE_ID, stmt.id), IndexValue(n, u, c)))
    BY <1>3
  <2>4. u \in CatalogIds(map, "table")
    BY <1>2, <2>1, InCatalog
  <2> HIDE DEF m, u
  <2>5. /\ CatOK(m, next_id, tables, indexes)
        /\ CatOK(m, next_id, tables,
             Entered(indexes, n, [table |-> u, column |-> c, id |-> stmt.id]))
        /\ CatalogIds(m, "index") = CatalogIds(map, "index") \cup {stmt.id}
        /\ CatalogIds(m, "table") = CatalogIds(map, "table")
        /\ CatalogRow(m, stmt.id) = IndexValue(n, u, c)
    <3> DEFINE id == stmt.id
    <3>1. id \in 1..MaxId /\ next_id = id + 1 /\ CatalogRow(map, id) = Absent
      BY <1>4, <2>1
    <3>2. indexes \in [IndexName -> [table : 0..MaxId, column : Column, id : 0..MaxId]]
      BY <2>1
    <3>3. CatOK(map, id + 1, tables, indexes) /\ map \in Map
      BY <2>1, <3>1
    <3>4. indexes[n] = NoIndex /\ n \in IndexName /\ c \in Column
      BY <1>2
    <3>5. m = Applied(map, PutCall(pack_key(CATALOG_TABLE_ID, id), IndexValue(n, u, c)))
      BY <2>3
    <3> HIDE DEF id
    <3>6. /\ CatOK(m, id + 1, tables, indexes)
          /\ CatOK(m, id + 1, tables,
                 Entered(indexes, n, [table |-> u, column |-> c, id |-> id]))
          /\ CatalogIds(m, "index") = CatalogIds(map, "index") \cup {id}
          /\ CatalogIds(m, "table") = CatalogIds(map, "table")
          /\ CatalogRow(m, id) = IndexValue(n, u, c)
      BY <2>4, <3>1, <3>2, <3>3, <3>4, <3>5, NewIndex
    <3> QED
      BY <3>1, <3>6 DEF id
  <2> QED
    BY <2>2, <2>5 DEF m, u
<1>6. tables[t] \in 1..MaxId
  <2>1. tables[t] \in 0..MaxId
    BY CatParts
  <2>2. tables[t] # 0
    BY <1>2
  <2>3. \A j \in 0..MaxId : j # 0 => j \in 1..MaxId
    BY Spans
  <2> QED
    BY <2>1, <2>2, <2>3
<1> QED
  BY <1>1, <1>2, <1>5, <1>6

\* The first of a statement's calls, made in memory or only in the file, leaves a
\* catalog in order.
LEMMA FirstStored ==
    ASSUME IdsFit, CatInv, todo # <<>>, NEW map \in {store, file}
    PROVE  /\ Head(todo) \in Call /\ Applied(map, Head(todo)) \in Map
           /\ CatOK(Applied(map, Head(todo)), next_id, tables, indexes)
           /\ \A kind : CatalogIds(map, kind) \subseteq CatalogIds(Applied(map, Head(todo)), kind)
           /\ ~ Creating => SameCatalog(Applied(map, Head(todo)), map)
<1>1. Head(todo) \in Call
  BY CatParts, HeadTail
<1>2. CASE Creating
  <2>1. stmt.kind \in {"create_table", "create_index"}
    BY <1>2, FirstOfCreate
  <2>2. /\ Applied(map, Head(todo)) \in Map
        /\ CatOK(Applied(map, Head(todo)), next_id, tables, indexes)
    BY <1>2, <2>1, TableStored, IndexStored
  <2>3. ASSUME NEW kind, NEW j \in CatalogIds(map, kind)
        PROVE  j \in CatalogIds(Applied(map, Head(todo)), kind)
    <3>1. j \in 1..MaxId /\ CatalogRow(map, j) # Absent
      BY DEF CatalogIds
    <3>2. stmt.id \in 1..MaxId /\ j # stmt.id /\ map \in Map
      BY <1>2, <3>1, CatParts, FirstOfCreate DEF Creating
    <3>3. j \in 0..MaxId /\ stmt.id \in 0..MaxId
      BY <3>1, <3>2, Spans
    <3>4. pack_key(CATALOG_TABLE_ID, j) # pack_key(CATALOG_TABLE_ID, stmt.id)
      BY <3>2, <3>3, CatalogKey
    <3>5. CatalogRow(Applied(map, Head(todo)), j) = CatalogRow(map, j)
      <4>1. pack_key(CATALOG_TABLE_ID, j) \in StoreKey
        BY <3>3, CatalogKey
      <4>2. Head(todo).key = pack_key(CATALOG_TABLE_ID, stmt.id)
        BY <1>2 DEF Creating
      <4> QED
        BY <1>1, <3>2, <3>4, <4>1, <4>2, AppliedRow DEF CatalogRow
    <3> QED
      BY <3>1, <3>5 DEF CatalogIds
  <2> QED
    BY <1>1, <1>2, <2>2, <2>3
<1>3. CASE ~ Creating
  <2>1. Head(todo) \in DataCalls
    BY <1>3, NotCreating, HeadTail
  <2>2. /\ Applied(map, Head(todo)) \in Map /\ SameCatalog(Applied(map, Head(todo)), map)
        /\ CatOK(Applied(map, Head(todo)), next_id, tables, indexes)
    BY <2>1, DataStored
  <2>3. \A kind : CatalogIds(Applied(map, Head(todo)), kind) = CatalogIds(map, kind)
    BY <2>2, SameLoaded
  <2> QED
    BY <1>1, <2>2, <2>3
<1> QED
  BY <1>2, <1>3

\* What the catalog in memory becomes when the first call has been made.
LEMMA FirstRegistered ==
    ASSUME IdsFit, CatInv, todo # <<>>, Registered(Head(todo))
    PROVE  /\ ~ Creating => tables' = tables /\ indexes' = indexes
           /\ tables' \in [TableName -> 0..MaxId] /\ IndexesTyped'
           /\ \A t \in TableName : tables[t] # 0 => tables'[t] = tables[t]
           /\ \A map \in {store, file} : CatOK(Applied(map, Head(todo)), next_id, tables', indexes')
<1> DEFINE call == Head(todo)
<1>0. /\ tables \in [TableName -> 0..MaxId]
      /\ indexes \in [IndexName -> [table : 0..MaxId, column : Column, id : 0..MaxId]]
  BY CatParts DEF IndexesTyped
<1>1. CASE ~ Creating
  <2>1. Head(todo) \in DataCalls
    BY <1>1, NotCreating, HeadTail
  <2>2. call.val = Absent \/ call.val.kind = "row" \/ call.val.kind = "entry"
    BY <2>1 DEF DataCalls, DataCall
  <2>3. tables' = tables /\ indexes' = indexes
    BY <2>2 DEF Registered
  <2>4. \A map \in {store, file} : CatOK(Applied(map, Head(todo)), next_id, tables, indexes)
    BY <2>1, DataStored
  <2> HIDE DEF call
  <2> QED
    BY <1>0, <1>1, <2>3, <2>4 DEF IndexesTyped
<1>2. CASE Creating /\ stmt.kind = "create_table"
  <2>1. PICK t \in TableName :
           /\ tables[t] = 0 /\ call.val = TableValue(t)
           /\ \A map \in {store, file} :
                 CatOK(Applied(map, call), next_id, Entered(tables, t, stmt.id), indexes)
    BY <1>2, TableStored
  <2>2. /\ unpack_primary_key(call.key) = stmt.id /\ stmt.id \in 0..MaxId
    <3>1. stmt.id \in 0..MaxId
      BY <1>2, FirstOfCreate, Spans
    <3> QED
      BY <1>2, <3>1, CatalogKey DEF Creating
  <2>3. call.val # Absent /\ call.val.kind = "table" /\ call.val.name = t
    <3>1. TableValue(t) \in StoreValue
      BY DEF TableValue, StoreValue
    <3> QED
      BY <2>1, <3>1, Kinds DEF TableValue
  <2>4. tables' = Entered(tables, t, stmt.id) /\ indexes' = indexes
    BY <2>2, <2>3 DEF Registered, Entered
  <2>5. tables' \in [TableName -> 0..MaxId]
    BY <1>0, <2>2, <2>4 DEF Entered
  <2>6. \A u \in TableName : tables[u] # 0 => tables'[u] = tables[u]
    BY <1>0, <2>1, <2>4 DEF Entered
  <2>7. \A map \in {store, file} : CatOK(Applied(map, call), next_id, tables', indexes')
    BY <2>1, <2>4
  <2>8. IndexesTyped'
    BY <1>0, <2>4 DEF IndexesTyped
  <2> QED
    BY <1>2, <2>5, <2>6, <2>7, <2>8
<1>3. CASE Creating /\ stmt.kind = "create_index"
  <2>1. PICK n \in IndexName, t \in TableName, c \in Column :
           /\ indexes[n] = NoIndex /\ tables[t] \in 1..MaxId
           /\ call.val = IndexValue(n, tables[t], c)
           /\ \A map \in {store, file} :
                 CatOK(Applied(map, call), next_id, tables,
                       Entered(indexes, n, [table |-> tables[t], column |-> c, id |-> stmt.id]))
    BY <1>3, IndexStored
  <2>2. unpack_primary_key(call.key) = stmt.id /\ stmt.id \in 0..MaxId
    <3>1. stmt.id \in 0..MaxId
      BY <1>3, FirstOfCreate, Spans
    <3> QED
      BY <1>3, <3>1, CatalogKey DEF Creating
  <2> DEFINE u == tables[t]
             new == [table |-> u, column |-> c, id |-> stmt.id]
  <2>3. /\ call.val # Absent /\ call.val.kind = "index" /\ call.val.name = n
        /\ call.val.table = u /\ call.val.column = c
    <3>1. IndexValue(n, u, c) \in StoreValue
      BY <2>1 DEF IndexValue, StoreValue
    <3> QED
      BY <2>1, <3>1, Kinds DEF IndexValue
  <2>4. tables' = tables /\ indexes' = Entered(indexes, n, new)
    BY <2>2, <2>3 DEF Registered, Entered
  <2>5. new \in [table : 0..MaxId, column : Column, id : 0..MaxId]
    <3>1. u \in 0..MaxId
      BY <1>0
    <3> QED
      BY <2>2, <3>1
  <2> HIDE DEF new
  <2>6. IndexesTyped'
    BY <1>0, <2>4, <2>5 DEF Entered, IndexesTyped
  <2>7. \A map \in {store, file} : CatOK(Applied(map, call), next_id, tables', indexes')
    BY <2>1, <2>4 DEF new
  <2> QED
    BY <1>0, <1>3, <2>4, <2>6, <2>7
<1> QED
  BY <1>1, <1>2, <1>3, FirstOfCreate

\* Calls about what the catalog has, in the next state.
LEMMA DataNext ==
    /\ store' = store /\ file' = file => DataCalls' = DataCalls
    /\ \A calls : calls \in Seq(DataCalls') =>
          calls \in Seq(Call) /\ \A n \in DOMAIN calls : calls[n] \in DataCalls'
<1>1. store' = store /\ file' = file => DataCalls' = DataCalls
  BY DEF DataCalls, DataCall, CatalogIds, CatalogRow
<1>2. ASSUME NEW calls \in Seq(DataCalls')
      PROVE  calls \in Seq(Call) /\ \A n \in DOMAIN calls : calls[n] \in DataCalls'
  <2>1. DOMAIN calls = 1..Len(calls) /\ Len(calls) \in Nat
    BY <1>2, LenProperties
  <2>2. \A n \in 1..Len(calls) : calls[n] \in DataCalls'
    BY <1>2, ElementOfSeq
  <2>3. \A n \in 1..Len(calls) : calls[n] \in Call
    BY <2>2 DEF DataCalls
  <2>4. calls = [n \in 1..Len(calls) |-> calls[n]]
    BY <1>2, <2>1
  <2>5. calls \in Seq(Call)
    BY <2>1, <2>3, <2>4, SeqDef
  <2> QED
    BY <2>1, <2>2, <2>5
<1> QED
  BY <1>1, <1>2

\* The parts of the invariant in the next state.
LEMMA CatNext ==
    ASSUME CatOK(store', next_id', tables', indexes'), CatOK(file', next_id', tables', indexes'),
           stmt'.kind \in {"insert", "update", "delete"} => \E t \in TableName : stmt'.id = tables'[t],
           \A n \in DOMAIN pending' : unpack_table_id(pending'[n].key) = stmt'.id,
           Creating' \/ todo' \in Seq(DataCalls')
    PROVE  CatalogInv'
<1>1. Creating' \/ \A n \in DOMAIN todo' : todo'[n] \in DataCalls'
  BY DataNext
<1>2. (Creating \/ \A n \in DOMAIN todo : DataCall(todo[n]))'
  <2>1. CASE Creating'
    BY <2>1
  <2>2. CASE \A n \in DOMAIN todo' : todo'[n] \in DataCalls'
    BY <2>2 DEF DataCalls, DataCall, CatalogIds, CatalogRow
  <2> QED
    BY <1>1, <2>1, <2>2
<1>3. CatalogOK(store)' /\ CatalogOK(file)'
  BY DEF CatalogOK, CatOK
<1> QED
  BY <1>2, <1>3 DEF CatalogInv

\* It holds of the empty store.
LEMMA CatalogStarts ==
    ASSUME IdsFit, ExecInit
    PROVE  CatInv
<1>1. /\ store \in Map /\ file = store /\ \A k \in StoreKey : store[k] = Absent
      /\ DOMAIN store = StoreKey
  BY DEF ExecInit, Map
<1>2. ExecTypeOK
  <2>1. /\ next_id \in 1..(MaxId + 1) /\ tables \in [TableName -> 0..MaxId] /\ cuts \in 0..MaxCuts
    BY Spans, ExecAssumption DEF ExecInit
  <2>2. indexes \in [IndexName -> [table : 0..MaxId, column : Column, id : 0..MaxId]]
    <3>1. NoIndex \in [table : 0..MaxId, column : Column, id : 0..MaxId]
      BY Spans DEF NoIndex, Column
    <3> QED
      BY <3>1 DEF ExecInit
  <2>3. stmt \in Statement
    BY DEF ExecInit, Statement
  <2>4. pending = <<>> /\ todo = <<>> /\ interrupted = {} /\ half = {}
    BY DEF ExecInit
  <2>5. pending \in Seq([key : StoreKey, row : Row]) /\ todo \in Seq(Call)
    BY <2>4, EmptySeq
  <2> QED
    BY <1>1, <2>1, <2>2, <2>3, <2>4, <2>5 DEF ExecTypeOK
<1>3. \A id \in 1..MaxId : CatalogRow(store, id) = Absent
  BY <1>1, Spans, CatalogKey DEF CatalogRow
<1>4. CatalogOK(store) /\ CatalogOK(file)
  <2>1. KeysApart(store)
    BY <1>1 DEF KeysApart
  <2>2. \A kind : CatalogIds(store, kind) = {}
    BY <1>3 DEF CatalogIds
  <2>3. \A t \in TableName : tables[t] = 0
    BY DEF ExecInit
  <2>4. \A n \in IndexName : indexes[n] = NoIndex
    BY DEF ExecInit
  <2> QED
    BY <1>1, <1>3, <2>1, <2>2, <2>3, <2>4 DEF CatalogOK
<1>5. stmt = Nothing /\ pending = <<>> /\ todo = <<>>
  BY DEF ExecInit
<1>6. stmt.kind \notin {"insert", "update", "delete"}
  BY <1>5 DEF Nothing
<1>7. DOMAIN pending = {} /\ DOMAIN todo = {}
  BY <1>5
<1> QED
  BY <1>2, <1>4, <1>6, <1>7 DEF CatInv, CatalogInv

\* Between two statements nothing is in progress.
LEMMA IdleParts ==
    ASSUME CatInv, Idle
    PROVE  stmt.kind = "none" /\ pending = <<>> /\ todo = <<>>
BY DEF CatInv, ExecTypeOK, Idle, Nothing

\* A later id to give out changes nothing of the catalog.
LEMMA LaterId ==
    ASSUME NEW map, NEW nid \in Int, NEW tbl, NEW idx, CatOK(map, nid, tbl, idx)
    PROVE  CatOK(map, nid + 1, tbl, idx)
<1>1. \A id \in 1..MaxId : CatalogRow(map, id) # Absent => id < nid + 1
  BY DEF CatOK
<1> QED
  BY <1>1 DEF CatOK

\* CREATE TABLE takes an id nothing has.
LEMMA CreateTableKeeps ==
    ASSUME IdsFit, CatInv, NEW name \in TableName, CreateTable(name)
    PROVE  CatInv'
<1> DEFINE call == PutCall(pack_key(CATALOG_TABLE_ID, next_id), TableValue(name))
<1>1. /\ Idle /\ next_id \in 1..MaxId /\ tables[name] = 0 /\ next_id' = next_id + 1
      /\ todo' = <<call>> /\ stmt' = [kind |-> "create_table", id |-> next_id]
      /\ store' = store /\ file' = file /\ tables' = tables /\ indexes' = indexes
      /\ pending' = pending /\ interrupted' = interrupted /\ half' = half /\ cuts' = cuts
  BY CatParts, Spans DEF CreateTable, data, faults
<1>2. pending = <<>>
  BY <1>1, IdleParts
<1>3. call \in Call /\ call.key = pack_key(CATALOG_TABLE_ID, next_id) /\ call.val = TableValue(name)
  <2>1. pack_key(CATALOG_TABLE_ID, next_id) \in StoreKey
    BY <1>1, Spans, CatalogKey
  <2>2. TableValue(name) \in StoreValue
    BY DEF TableValue, StoreValue
  <2> HIDE DEF TableValue
  <2> QED
    BY <2>1, <2>2 DEF PutCall, Call
<1> HIDE DEF call
<1>4. ExecTypeOK'
  <2>1. stmt' \in Statement
    BY <1>1 DEF Statement
  <2>2. next_id' \in 1..(MaxId + 1)
    BY <1>1, Spans
  <2>3. todo' \in Seq(Call)
    BY <1>1, <1>3
  <2>4. ~ Idle' /\ ~ Searching'
    BY <1>1 DEF Idle, Searching, Nothing
  <2> QED
    BY <1>1, <1>2, <2>1, <2>2, <2>3, <2>4 DEF CatInv, ExecTypeOK
<1>5. /\ CatOK(store', next_id', tables', indexes') /\ CatOK(file', next_id', tables', indexes')
  <2>1. next_id \in Int
    BY <1>1
  <2> QED
    BY <1>1, <2>1, CatParts, LaterId
<1>6. Creating'
  <2>1. todo' # <<>> /\ Head(todo') = call /\ Len(todo') = 1
    BY <1>1
  <2>2. CatalogRow(store, next_id) = Absent /\ CatalogRow(file, next_id) = Absent
    <3>1. ~ (next_id < next_id)
      BY <1>1
    <3> QED
      BY <1>1, <3>1, CatParts DEF CatOK
  <2>3. CatalogRow(store', stmt'.id) = Absent /\ CatalogRow(file', stmt'.id) = Absent
    BY <1>1, <2>2
  <2>4. Head(todo').key = pack_key(CATALOG_TABLE_ID, stmt'.id)
    BY <1>1, <1>3, <2>1
  <2>5. \E t \in TableName : tables'[t] = 0 /\ Head(todo').val = TableValue(t)
    BY <1>1, <1>3, <2>1
  <2>6. 2..Len(todo') = {}
    BY <2>1
  <2>7. next_id' = stmt'.id + 1 /\ stmt'.kind = "create_table"
    BY <1>1
  <2> QED
    BY <2>1, <2>3, <2>4, <2>5, <2>6, <2>7 DEF Creating
<1>7. stmt'.kind \notin {"insert", "update", "delete"} /\ DOMAIN pending' = {}
  BY <1>1, <1>2
<1>8. CatalogInv'
  BY <1>5, <1>6, <1>7, CatNext
<1> QED
  BY <1>4, <1>8 DEF CatInv

\* The calls that fill an index: one for each entry, with a key of its block.
Fill(id, S) == [i \in DOMAIN Ascending(S) |-> PutCall(pack_key(id, Ascending(S)[i]), EntryValue)]

\* There are finitely many, and each entry has a call of its own.
LEMMA FillCalls ==
    ASSUME IdsFit, NEW id \in 0..MaxId, NEW S \in SUBSET (0..PRIMARY_KEY_MASK)
    PROVE  /\ Fill(id, S) \in Seq(Call)
           /\ \A i \in 1..Len(Fill(id, S)) :
                 /\ Fill(id, S)[i].val = EntryValue /\ unpack_table_id(Fill(id, S)[i].key) = id
                 /\ unpack_primary_key(Fill(id, S)[i].key) \in S
           /\ \A e \in S : \E i \in 1..Len(Fill(id, S)) : Fill(id, S)[i].key = pack_key(id, e)
<1> DEFINE order == Ascending(S)
           n     == Cardinality(S)
           fill  == [i \in 1..n |-> PutCall(pack_key(id, order[i]), EntryValue)]
<1>1. S \in SUBSET Int /\ IsFiniteSet(S)
  <2>1. 0 \in Int /\ PRIMARY_KEY_MASK \in Int
    BY Spans
  <2>2. IsFiniteSet(0..PRIMARY_KEY_MASK)
    BY <2>1, FS_Interval
  <2>3. IsFiniteSet(S)
    BY <2>2, FS_Subset
  <2> QED
    BY <2>1, <2>3
<1>2. /\ order \in Seq(S) /\ Len(order) = n /\ n \in Nat /\ DOMAIN order = 1..n
      /\ \A x \in S : \E i \in 1..n : order[i] = x
  BY <1>1, AscendingLists, LenProperties
<1>3. Fill(id, S) = fill
  BY <1>2 DEF Fill
<1> HIDE DEF order, n
<1>4. ASSUME NEW i \in 1..n
      PROVE  /\ order[i] \in S /\ pack_key(id, order[i]) \in StoreKey
             /\ unpack_table_id(pack_key(id, order[i])) = id
             /\ unpack_primary_key(pack_key(id, order[i])) = order[i]
  <2>1. order[i] \in S /\ order[i] \in 0..PRIMARY_KEY_MASK
    BY <1>2, ElementOfSeq
  <2> QED
    BY <2>1, KeyOf
<1>5. ASSUME NEW i \in 1..n
      PROVE  /\ fill[i] \in Call /\ fill[i].val = EntryValue
             /\ fill[i].key = pack_key(id, order[i])
  <2>1. EntryValue \in StoreValue
    BY DEF StoreValue
  <2> HIDE DEF EntryValue
  <2> QED
    BY <1>4, <2>1 DEF PutCall, Call
<1>6. fill \in Seq(Call) /\ Len(fill) = n
  <2>1. fill \in [1..n -> Call]
    BY <1>5
  <2>2. fill \in Seq(Call)
    BY <1>2, <2>1, SeqDef
  <2>3. DOMAIN fill = 1..n /\ DOMAIN fill = 1..Len(fill) /\ Len(fill) \in Nat
    BY <2>2, LenProperties
  <2> QED
    BY <1>2, <2>2, <2>3
<1> HIDE DEF fill
<1> QED
  BY <1>2, <1>3, <1>4, <1>5, <1>6

\* The rows CREATE INDEX goes through are those of the table.
RowsIn(id) == {m.row : m \in ToSet(collect_matches(id, 0, PRIMARY_KEY_MASK, NoWhere))}

\* They are rows, each stored under a key of the table's block.
LEMMA RowsFound ==
    ASSUME IdsFit, store \in Map, KeysApart(store), NEW id \in CatalogIds(store, "table")
    PROVE  /\ RowsIn(id) \subseteq Row
           /\ \A r \in RowsIn(id) :
                 \E k \in StoreKey : unpack_table_id(k) = id /\ store[k] = RowValue(r)
           /\ \A k \in StoreKey : unpack_table_id(k) = id /\ store[k] # Absent => store[k].row \in RowsIn(id)
<1> DEFINE list == collect_matches(id, 0, PRIMARY_KEY_MASK, NoWhere)
<1>1. /\ MatchesOf(list, id)
      /\ \A k \in StoreKey : unpack_table_id(k) = id /\ store[k] # Absent =>
            \E n \in 1..Len(list) : list[n].key = k
  BY Spans, CollectMatches
<1>2. RowsIn(id) = {m.row : m \in ToSet(list)}
  BY DEF RowsIn
<1> HIDE DEF list
<1>3. list \in Seq(Match) /\ DOMAIN list = 1..Len(list)
  BY <1>1, LenProperties DEF MatchesOf
<1>4. \A n \in 1..Len(list) : /\ list[n].key \in StoreKey /\ list[n].row \in Row
                              /\ unpack_table_id(list[n].key) = id
                              /\ store[list[n].key] = RowValue(list[n].row)
  <2>1. \A n \in 1..Len(list) : list[n] \in Match
    BY <1>3, ElementOfSeq
  <2> QED
    BY <1>1, <2>1 DEF MatchesOf, Match
<1>5. \A m \in ToSet(list) : \E n \in 1..Len(list) : m = list[n]
  BY <1>3 DEF ToSet
<1>6. \A n \in 1..Len(list) : list[n].row \in RowsIn(id)
  BY <1>2, <1>3 DEF ToSet
<1>7. ASSUME NEW k \in StoreKey, unpack_table_id(k) = id, store[k] # Absent
      PROVE  store[k].row \in RowsIn(id)
  <2>1. PICK n \in 1..Len(list) : list[n].key = k
    BY <1>1, <1>7
  <2>2. store[k] = RowValue(list[n].row)
    BY <1>4, <2>1
  <2>3. store[k].row = list[n].row
    BY <2>2 DEF RowValue
  <2> QED
    BY <1>6, <2>3
<1> QED
  BY <1>2, <1>4, <1>5, <1>7

\* CREATE INDEX takes an id nothing has.
LEMMA CreateIndexKeeps ==
    ASSUME IdsFit, CatInv, NEW name \in IndexName, NEW table \in TableName, NEW column \in Column,
           CreateIndex(name, table, column)
    PROVE  CatInv'
<1> DEFINE id   == tables[table]
           S    == {pack_secondary_composite(r[column], r.id) : r \in RowsIn(id)}
           call == PutCall(pack_key(CATALOG_TABLE_ID, next_id), IndexValue(name, id, column))
           fill == Fill(next_id, S)
<1>1. /\ Idle /\ next_id \in 1..MaxId /\ next_id \in 0..MaxId /\ next_id' = next_id + 1
      /\ id # 0 /\ indexes[name] = NoIndex
      /\ todo' = <<call>> \o fill
      /\ stmt' = [kind |-> "create_index", id |-> next_id]
      /\ store' = store /\ file' = file /\ tables' = tables /\ indexes' = indexes
      /\ pending' = pending /\ interrupted' = interrupted /\ half' \subseteq half /\ cuts' = cuts
  BY CatParts, Spans DEF CreateIndex, data, RowsIn, Fill
<1>2. pending = <<>>
  BY <1>1, IdleParts
<1>3. id \in CatalogIds(store, "table") /\ id \in 1..MaxId
  BY <1>1, CatParts, InCatalog DEF CatalogIds
<1>4. S \in SUBSET (0..PRIMARY_KEY_MASK)
  <2>1. RowsIn(id) \subseteq Row
    BY <1>3, CatParts, RowsFound
  <2>2. \A r \in RowsIn(id) : r[column] \in Int /\ r.id \in Int
    BY <2>1 DEF Row, Column
  <2> QED
    BY <2>2, CompositeKey
<1>5. /\ fill \in Seq(Call)
      /\ \A i \in 1..Len(fill) : fill[i].val = EntryValue /\ unpack_table_id(fill[i].key) = next_id
  BY <1>1, <1>4, FillCalls
<1>6. /\ call \in Call /\ call.key = pack_key(CATALOG_TABLE_ID, next_id)
      /\ call.val = IndexValue(name, id, column)
  <2>1. pack_key(CATALOG_TABLE_ID, next_id) \in StoreKey
    BY <1>1, CatalogKey
  <2>2. IndexValue(name, id, column) \in StoreValue
    BY <1>3 DEF IndexValue, StoreValue
  <2> HIDE DEF IndexValue
  <2> QED
    BY <2>1, <2>2 DEF PutCall, Call
<1> HIDE DEF S, call, fill
<1>7. /\ todo' \in Seq(Call) /\ todo' # <<>> /\ Head(todo') = call /\ Len(todo') = Len(fill) + 1
      /\ \A n \in 2..Len(todo') : todo'[n] = fill[n - 1] /\ n - 1 \in 1..Len(fill)
  <2>1. <<call>> \in Seq(Call) /\ Len(<<call>>) = 1 /\ <<call>>[1] = call
    BY <1>6
  <2>2. Len(fill) \in Nat
    BY <1>5, LenProperties
  <2>3. /\ todo' \in Seq(Call) /\ Len(todo') = 1 + Len(fill)
        /\ \A i \in 1..(1 + Len(fill)) : todo'[i] = IF i <= 1 THEN <<call>>[i] ELSE fill[i - 1]
    BY <1>1, <1>5, <2>1, ConcatProperties
  <2>4. todo' # <<>>
    BY <2>2, <2>3
  <2>5. Head(todo') = todo'[1]
    BY <2>3, <2>4, HeadTailProperties
  <2> QED
    BY <2>1, <2>2, <2>3, <2>4, <2>5
<1>8. ExecTypeOK'
  <2>1. stmt' \in Statement
    BY <1>1 DEF Statement
  <2>2. next_id' \in 1..(MaxId + 1)
    BY <1>1, Spans
  <2>3. ~ Idle' /\ ~ Searching'
    BY <1>1 DEF Idle, Searching, Nothing
  <2> QED
    BY <1>1, <1>2, <1>7, <2>1, <2>2, <2>3 DEF CatInv, ExecTypeOK
<1>9. CatOK(store', next_id', tables', indexes') /\ CatOK(file', next_id', tables', indexes')
  <2>1. next_id \in Int
    BY <1>1
  <2> QED
    BY <1>1, <2>1, CatParts, LaterId
<1>10. Creating'
  <2>1. CatalogRow(store, next_id) = Absent /\ CatalogRow(file, next_id) = Absent
    <3>1. ~ (next_id < next_id)
      BY <1>1
    <3> QED
      BY <1>1, <3>1, CatParts DEF CatOK
  <2>2. CatalogRow(store', stmt'.id) = Absent /\ CatalogRow(file', stmt'.id) = Absent
    BY <1>1, <2>1
  <2>3. Head(todo').key = pack_key(CATALOG_TABLE_ID, stmt'.id)
    BY <1>1, <1>6, <1>7
  <2>4. \E n \in IndexName, t \in TableName, c \in Column :
           /\ indexes'[n] = NoIndex /\ tables'[t] # 0
           /\ Head(todo').val = IndexValue(n, tables'[t], c)
    BY <1>1, <1>6, <1>7
  <2>5. \A n \in 2..Len(todo') : todo'[n].val = EntryValue /\ unpack_table_id(todo'[n].key) = stmt'.id
    BY <1>1, <1>5, <1>7
  <2>6. next_id' = stmt'.id + 1 /\ stmt'.kind = "create_index"
    BY <1>1
  <2> QED
    BY <1>7, <2>2, <2>3, <2>4, <2>5, <2>6 DEF Creating
<1>11. stmt'.kind \notin {"insert", "update", "delete"} /\ DOMAIN pending' = {}
  BY <1>1, <1>2
<1>12. CatalogInv'
  BY <1>9, <1>10, <1>11, CatNext
<1> QED
  BY <1>8, <1>12 DEF CatInv

\* A list of one.
LEMMA OneElement ==
    ASSUME NEW S, NEW x \in S
    PROVE  /\ <<x>> \in Seq(S) /\ Len(<<x>>) = 1 /\ <<x>>[1] = x /\ <<>> \in Seq(S)
           /\ Head(<<x>>) = x /\ Tail(<<x>>) = <<>>
OBVIOUS

\* A row a table has under a key.
LEMMA StoredRow ==
    ASSUME IdsFit, CatInv, NEW k \in StoreKey, unpack_table_id(k) \in CatalogIds(store, "table"),
           store[k] # Absent
    PROVE  /\ store[k].row \in Row /\ store[k] = RowValue(store[k].row)
           /\ [pk |-> unpack_primary_key(k), row |-> store[k].row] \in KeyedRow
<1>1. store[k].row \in Row /\ store[k] = RowValue(store[k].row)
  BY CatParts, Blocks
<1>2. unpack_primary_key(k) \in 0..PRIMARY_KEY_MASK
  BY KeyParts
<1> QED
  BY <1>1, <1>2 DEF KeyedRow

\* The key a table may be given is one pack_key can represent.
LEMMA KeyAllowed ==
    ASSUME NEW id, NEW v \in Int, ValueOk(id, "id", v)
    PROVE  v \in 0..PRIMARY_KEY_MASK
BY Spans DEF ValueOk, max_primary_key

\* A statement in the next state whose calls are about what the catalog has.
LEMMA StatementKeeps ==
    ASSUME CatInv, store' = store, file' = file, next_id' = next_id, tables' = tables,
           indexes' = indexes, interrupted' = interrupted, half' = half, cuts' = cuts,
           stmt' \in Statement, pending' \in Seq(Match), todo' \in Seq(DataCalls),
           pending' # <<>> => stmt'.kind \in {"update", "delete"},
           Idle' \/ Searching' => todo' = <<>> /\ pending' = <<>>,
           stmt'.kind \in {"insert", "update", "delete"} => \E t \in TableName : stmt'.id = tables[t],
           \A n \in 1..Len(pending') : unpack_table_id(pending'[n].key) = stmt'.id
    PROVE  CatInv'
<1>1. todo' \in Seq(Call)
  BY DataSeq
<1>2. ExecTypeOK'
  BY <1>1 DEF CatInv, ExecTypeOK, Match
<1>3. CatOK(store', next_id', tables', indexes') /\ CatOK(file', next_id', tables', indexes')
  BY CatParts
<1>4. todo' \in Seq(DataCalls')
  <2>1. DataCalls' = DataCalls
    BY DataNext
  <2> QED
    BY <2>1
<1>5. \A n \in DOMAIN pending' : unpack_table_id(pending'[n].key) = stmt'.id
  BY LenProperties
<1>6. CatalogInv'
  BY <1>3, <1>4, <1>5, CatNext
<1> QED
  BY <1>2, <1>6 DEF CatInv

\* INSERT.
LEMMA InsertKeeps ==
    ASSUME IdsFit, CatInv, NEW table \in TableName, NEW i \in IdLiteral, NEW a \in ALiteral,
           Insert(table, [id |-> i, a |-> a])
    PROVE  CatInv'
<1> DEFINE row == [id |-> i, a |-> a]
           id  == tables[table]
           key == pack_key(id, i)
           old == IF store[key] = Absent THEN <<>> ELSE <<[pk |-> i, row |-> store[key].row]>>
           new == <<[pk |-> i, row |-> row]>>
<1>1. /\ Idle /\ id # 0 /\ ValueOk(id, "id", i) /\ ValueOk(id, "a", a)
      /\ todo' = <<PutCall(key, RowValue(row))>> \o sync_indexes(id, old, new)
      /\ stmt' = [kind |-> "insert", id |-> id]
      /\ store' = store /\ file' = file /\ next_id' = next_id /\ tables' = tables /\ indexes' = indexes
      /\ pending' = pending /\ interrupted' = interrupted /\ half' = half /\ cuts' = cuts
  BY DEF Insert, data, catalog, faults, Column
<1>2. pending = <<>>
  BY <1>1, IdleParts
<1>3. i \in Int /\ a \in Int /\ i \in 0..PRIMARY_KEY_MASK
  <2>1. i \in Int \cup {Text} /\ a \in Int \cup {Text}
    BY ExecAssumption
  <2>2. i # Text /\ a # Text
    BY <1>1 DEF ValueOk
  <2>3. i \in Int
    BY <2>1, <2>2
  <2> QED
    BY <1>1, <2>1, <2>2, <2>3, KeyAllowed
<1>4. row \in Row
  BY <1>3 DEF Row
<1>5. /\ id \in CatalogIds(store, "table") /\ id \in CatalogIds(file, "table")
      /\ id \in 1..MaxId /\ id \in 0..MaxId
  BY <1>1, CatParts, InCatalog, Spans DEF CatalogIds
<1>6. key \in StoreKey /\ unpack_table_id(key) = id /\ unpack_primary_key(key) = i
  BY <1>3, <1>5, KeyOf
<1> HIDE DEF key, id, row
<1>7. old \in Seq(KeyedRow) /\ new \in Seq(KeyedRow)
  <2>1. [pk |-> i, row |-> row] \in KeyedRow
    BY <1>3, <1>4 DEF KeyedRow
  <2>2. store[key] # Absent => [pk |-> i, row |-> store[key].row] \in KeyedRow
    BY <1>5, <1>6, StoredRow
  <2> QED
    BY <2>1, <2>2, OneElement
<1> HIDE DEF old, new
<1>8. todo' \in Seq(DataCalls)
  <2>1. PutCall(key, RowValue(row)) \in DataCalls
    BY <1>4, <1>5, <1>6, RowCalls
  <2>2. <<PutCall(key, RowValue(row))>> \in Seq(DataCalls)
    BY <2>1, OneElement
  <2>3. sync_indexes(id, old, new) \in Seq(DataCalls)
    BY <1>7, SyncData
  <2> QED
    BY <1>1, <2>2, <2>3, DataConcat
<1>9. stmt' \in Statement /\ stmt'.kind = "insert" /\ stmt'.id = id
  BY <1>1, <1>5 DEF Statement
<1>10. ~ Idle' /\ ~ Searching'
  BY <1>9 DEF Idle, Searching, Nothing
<1>11. pending' = <<>> /\ pending' \in Seq(Match) /\ Len(pending') = 0
  BY <1>1, <1>2, EmptySeq
<1>12. \E t \in TableName : stmt'.id = tables[t]
  BY <1>9 DEF id
<1> QED
  BY <1>1, <1>8, <1>9, <1>10, <1>11, <1>12, StatementKeeps

\* The clauses an UPDATE or DELETE may have.
LEMMA Assignments ==
    ASSUME NEW id, NEW set \in SetInput \cup {NoAssignment},
           \A c \in Column : set[c] # Absent => ValueOk(id, c, set[c])
    PROVE  set \in [id : Literal, a : Literal]
<1>1. CASE set = NoAssignment
  BY <1>1 DEF NoAssignment, Literal
<1>2. CASE set \in SetInput
  <2>1. set \in [id : Int \cup {Absent, Text}, a : Int \cup {Absent, Text}]
    BY <1>2, ExecAssumption
  <2>2. set.id # Text /\ set.a # Text
    BY AbsentAssumption DEF ValueOk, Column
  <2>3. set = [id |-> set.id, a |-> set.a]
    BY <2>1
  <2>4. set.id \in Literal /\ set.a \in Literal
    BY <2>1, <2>2 DEF Literal
  <2> QED
    BY <2>3, <2>4
<1> QED
  BY <1>1, <1>2

\* UPDATE and DELETE are first only noted.
LEMMA BeginKeeps ==
    ASSUME IdsFit, CatInv, NEW kind \in {"update", "delete"}, NEW table \in TableName,
           NEW set \in SetInput \cup {NoAssignment}, NEW where \in WhereInput,
           Begin(kind, table, set, where)
    PROVE  CatInv'
<1>1. /\ Idle /\ tables[table] # 0 /\ WhereOk(where)
      /\ \A c \in Column : set[c] # Absent => ValueOk(tables[table], c, set[c])
      /\ stmt' = [kind |-> kind, id |-> tables[table], set |-> set, where |-> where]
      /\ store' = store /\ file' = file /\ next_id' = next_id /\ tables' = tables /\ indexes' = indexes
      /\ pending' = pending /\ todo' = todo
      /\ interrupted' = interrupted /\ half' = half /\ cuts' = cuts
  BY DEF Begin, data, catalog, faults
<1>2. pending = <<>> /\ todo = <<>>
  BY <1>1, IdleParts
<1>3. set \in [id : Literal, a : Literal]
  BY <1>1, Assignments
<1>4. tables[table] \in 1..MaxId
  BY <1>1, CatParts, InCatalog DEF CatalogIds
<1>5. stmt' \in Statement
  BY <1>1, <1>3, <1>4 DEF Statement
<1>6. stmt'.kind \in {"update", "delete"} /\ stmt'.id = tables[table]
  BY <1>1
<1>7. pending' \in Seq(Match) /\ Len(pending') = 0 /\ todo' \in Seq(DataCalls)
  BY <1>1, <1>2, EmptySeq
<1> QED
  BY <1>1, <1>2, <1>5, <1>6, <1>7, StatementKeeps

\* The matches a search finds are rows of the statement's table.
LEMMA SearchFinds ==
    ASSUME IdsFit, CatInv, Searching
    PROVE  MatchesOf(find_matches(stmt.id, stmt.where), stmt.id)
<1>1. stmt.kind \in {"update", "delete"} /\ stmt.where \in WhereInput /\ WhereOk(stmt.where)
  BY CatParts, Statements DEF Searching
<1>2. stmt.id \in CatalogIds(store, "table")
  BY <1>1, StatementTable
<1> QED
  BY <1>1, <1>2, CatParts, FindMatches

\* Finding the matches of a statement writes nothing.
LEMMA SearchKeeps ==
    ASSUME IdsFit, CatInv, Search
    PROVE  CatInv'
<1> DEFINE found == find_matches(stmt.id, stmt.where)
<1>1. /\ Searching /\ pending' = found
      /\ stmt' = [kind |-> stmt.kind, id |-> stmt.id, set |-> stmt.set]
      /\ store' = store /\ file' = file /\ next_id' = next_id /\ tables' = tables /\ indexes' = indexes
      /\ todo' = todo /\ interrupted' = interrupted /\ half' = half /\ cuts' = cuts
  BY DEF Search, data, catalog, faults
<1>2. MatchesOf(found, stmt.id)
  BY <1>1, SearchFinds
<1> HIDE DEF found
<1>3. stmt.kind \in {"update", "delete"} /\ todo = <<>>
  BY <1>1 DEF Searching, CatInv, ExecTypeOK
<1>4. stmt.id \in 1..MaxId /\ stmt.set \in [id : Literal, a : Literal]
  BY <1>3, CatParts, Statements
<1>5. stmt' \in Statement /\ stmt'.kind = stmt.kind /\ stmt'.id = stmt.id
  BY <1>1, <1>3, <1>4 DEF Statement
<1>6. ~ Idle' /\ ~ Searching'
  <2>1. "where" \notin DOMAIN stmt'
    BY <1>1
  <2> QED
    BY <1>3, <1>5, <2>1 DEF Idle, Searching, Nothing
<1>7. /\ pending' \in Seq(Match) /\ todo' \in Seq(DataCalls)
      /\ \A n \in 1..Len(pending') : unpack_table_id(pending'[n].key) = stmt'.id
  BY <1>1, <1>2, <1>3, <1>5, EmptySeq DEF MatchesOf
<1>8. \E t \in TableName : stmt'.id = tables[t]
  BY <1>3, <1>5 DEF CatInv, CatalogInv
<1> QED
  BY <1>1, <1>3, <1>5, <1>6, <1>7, <1>8, StatementKeeps

\* What an UPDATE or DELETE knows of its next match.
LEMMA NextMatch ==
    ASSUME IdsFit, CatInv, pending # <<>>
    PROVE  LET m == Head(pending)
           IN  /\ m \in Match /\ Tail(pending) \in Seq(Match)
               /\ unpack_table_id(m.key) = stmt.id
               /\ [pk |-> unpack_primary_key(m.key), row |-> m.row] \in KeyedRow
               /\ \A n \in 1..Len(Tail(pending)) : unpack_table_id(Tail(pending)[n].key) = stmt.id
               /\ stmt.kind \in {"update", "delete"}
               /\ stmt.id \in CatalogIds(store, "table") /\ stmt.id \in CatalogIds(file, "table")
               /\ stmt.id \in 0..MaxId /\ stmt.id # CATALOG_TABLE_ID
               /\ stmt.set \in [id : Literal, a : Literal]
<1> DEFINE m == Head(pending)
<1>1. pending \in Seq(Match)
  BY CatParts
<1>2. /\ m = pending[1] /\ m \in Match /\ Tail(pending) \in Seq(Match)
      /\ Len(pending) \in Nat /\ Len(pending) >= 1 /\ DOMAIN pending = 1..Len(pending)
      /\ Len(Tail(pending)) = Len(pending) - 1
      /\ \A n \in 1..(Len(pending) - 1) : Tail(pending)[n] = pending[n + 1] /\ n + 1 \in 2..Len(pending)
  BY <1>1, HeadTail
<1>3. \A n \in 1..Len(pending) : unpack_table_id(pending[n].key) = stmt.id
  BY <1>2 DEF CatInv, CatalogInv
<1>4. unpack_table_id(m.key) = stmt.id
  BY <1>2, <1>3
<1>5. m.key \in StoreKey /\ m.row \in Row
  BY <1>2 DEF Match
<1> HIDE DEF m
<1>6. [pk |-> unpack_primary_key(m.key), row |-> m.row] \in KeyedRow
  BY <1>5, KeyParts DEF KeyedRow
<1>7. \A n \in 1..Len(Tail(pending)) : unpack_table_id(Tail(pending)[n].key) = stmt.id
  BY <1>2, <1>3
<1>8. stmt.kind \in {"update", "delete"}
  BY DEF CatInv, ExecTypeOK
<1>9. /\ stmt.id \in CatalogIds(store, "table") /\ stmt.id \in CatalogIds(file, "table")
      /\ stmt.id \in 1..MaxId
  BY <1>8, StatementTable
<1>10. stmt.id \in 0..MaxId /\ stmt.id # CATALOG_TABLE_ID
  BY <1>9, Spans DEF CATALOG_TABLE_ID
<1>11. stmt.set \in [id : Literal, a : Literal]
  BY <1>8, CatParts, Statements
<1> QED
  BY <1>2, <1>4, <1>6, <1>7, <1>8, <1>9, <1>10, <1>11 DEF m

\* A row with some of its values assigned is a row.
LEMMA AssignedRow ==
    ASSUME NEW row \in Row, stmt.set \in [id : Literal, a : Literal]
    PROVE  Assigned(row) \in Row
<1>1. stmt.set.id \in Literal /\ stmt.set.a \in Literal /\ row.id \in Int /\ row.a \in Int
  BY DEF Row
<1>2. /\ IF stmt.set.id = Absent THEN row.id \in Int ELSE stmt.set.id \in Int
      /\ IF stmt.set.a = Absent THEN row.a \in Int ELSE stmt.set.a \in Int
  BY <1>1 DEF Literal
<1> QED
  BY <1>2 DEF Assigned, Row

\* The next row of a statement: its calls are about what the catalog has.
LEMMA RowKeeps ==
    ASSUME IdsFit, CatInv, pending # <<>>, ~ Searching, todo' \in Seq(DataCalls),
           pending' = Tail(pending), UNCHANGED <<data, catalog, stmt, faults>>
    PROVE  CatInv'
<1>1. /\ store' = store /\ file' = file /\ next_id' = next_id /\ tables' = tables /\ indexes' = indexes
      /\ stmt' = stmt /\ interrupted' = interrupted /\ half' = half /\ cuts' = cuts
  BY DEF data, catalog, faults
<1>2. /\ Tail(pending) \in Seq(Match) /\ stmt.kind \in {"update", "delete"}
      /\ \A n \in 1..Len(Tail(pending)) : unpack_table_id(Tail(pending)[n].key) = stmt.id
  BY NextMatch
<1>3. stmt' \in Statement
  BY <1>1, CatParts
<1>4. ~ Idle' /\ ~ Searching'
  BY <1>1, <1>2 DEF Idle, Searching, Nothing
<1>5. \E t \in TableName : stmt'.id = tables[t]
  BY <1>1, <1>2 DEF CatInv, CatalogInv
<1>6. pending' \in Seq(Match) /\ \A n \in 1..Len(pending') : unpack_table_id(pending'[n].key) = stmt'.id
  BY <1>1, <1>2
<1> QED
  BY <1>1, <1>2, <1>3, <1>4, <1>5, <1>6, StatementKeeps

\* UPDATE.
LEMMA UpdateRowKeeps ==
    ASSUME IdsFit, CatInv, UpdateRow
    PROVE  CatInv'
<1> DEFINE m         == Head(pending)
           row       == Assigned(m.row)
           moves     == stmt.set.id # Absent
           new_key   == IF moves THEN pack_key(stmt.id, row.id) ELSE m.key
           displaced == IF moves /\ new_key # m.key /\ store[new_key] # Absent
                        THEN <<[pk |-> unpack_primary_key(new_key), row |-> store[new_key].row]>>
                        ELSE <<>>
           old       == <<[pk |-> unpack_primary_key(m.key), row |-> m.row]>>
           new       == <<[pk |-> unpack_primary_key(new_key), row |-> row]>>
           none      == <<>>
           gone      == IF moves THEN <<RemoveCall(m.key)>> ELSE <<>>
           put       == <<PutCall(new_key, RowValue(row))>>
<1>1. /\ pending # <<>> /\ ~ Searching /\ pending' = Tail(pending)
      /\ todo' = sync_indexes(stmt.id, displaced, none) \o gone \o put \o sync_indexes(stmt.id, old, new)
      /\ UNCHANGED <<data, catalog, stmt, faults>>
  BY DEF UpdateRow
<1>2. /\ m \in Match /\ unpack_table_id(m.key) = stmt.id
      /\ [pk |-> unpack_primary_key(m.key), row |-> m.row] \in KeyedRow
      /\ stmt.id \in CatalogIds(store, "table") /\ stmt.id \in CatalogIds(file, "table")
      /\ stmt.id \in 0..MaxId /\ stmt.id # CATALOG_TABLE_ID
      /\ stmt.set \in [id : Literal, a : Literal]
  BY <1>1, NextMatch
<1>3. m.key \in StoreKey /\ m.row \in Row /\ row \in Row /\ row.id \in Int
  <2>1. m.key \in StoreKey /\ m.row \in Row
    BY <1>2 DEF Match
  <2>2. row \in Row
    BY <1>2, <2>1, AssignedRow
  <2> HIDE DEF row
  <2> QED
    BY <2>1, <2>2 DEF Row
<1> HIDE DEF m, row
<1>4. new_key \in StoreKey /\ unpack_table_id(new_key) = stmt.id
  BY <1>2, <1>3, KeyOfAny
<1> HIDE DEF new_key, moves
<1>5. displaced \in Seq(KeyedRow) /\ old \in Seq(KeyedRow) /\ new \in Seq(KeyedRow) /\ none \in Seq(KeyedRow)
  <2>1. store[new_key] # Absent => [pk |-> unpack_primary_key(new_key), row |-> store[new_key].row] \in KeyedRow
    BY <1>2, <1>4, StoredRow
  <2>2. [pk |-> unpack_primary_key(new_key), row |-> row] \in KeyedRow
    BY <1>3, <1>4, KeyParts DEF KeyedRow
  <2> QED
    BY <1>2, <2>1, <2>2, OneElement
<1> HIDE DEF displaced, old, new, none
<1>6. sync_indexes(stmt.id, displaced, none) \in Seq(DataCalls) /\ sync_indexes(stmt.id, old, new) \in Seq(DataCalls)
  BY <1>5, SyncData
<1>7. gone \in Seq(DataCalls) /\ put \in Seq(DataCalls)
  <2>1. RemoveCall(m.key) \in DataCalls /\ PutCall(new_key, RowValue(row)) \in DataCalls
    BY <1>2, <1>3, <1>4, RowCalls
  <2> QED
    BY <2>1, OneElement
<1> HIDE DEF gone, put
<1>8. todo' \in Seq(DataCalls)
  <2>1. sync_indexes(stmt.id, displaced, none) \o gone \in Seq(DataCalls)
    BY <1>6, <1>7, DataConcat
  <2>2. sync_indexes(stmt.id, displaced, none) \o gone \o put \in Seq(DataCalls)
    BY <1>7, <2>1, DataConcat
  <2> QED
    BY <1>1, <1>6, <2>2, DataConcat
<1> QED
  BY <1>1, <1>8, RowKeeps

\* DELETE.
LEMMA DeleteRowKeeps ==
    ASSUME IdsFit, CatInv, DeleteRow
    PROVE  CatInv'
<1> DEFINE m    == Head(pending)
           old  == <<[pk |-> unpack_primary_key(m.key), row |-> m.row]>>
           none == <<>>
<1>1. /\ pending # <<>> /\ ~ Searching /\ pending' = Tail(pending)
      /\ todo' = <<RemoveCall(m.key)>> \o sync_indexes(stmt.id, old, none)
      /\ UNCHANGED <<data, catalog, stmt, faults>>
  BY DEF DeleteRow
<1>2. /\ m \in Match /\ unpack_table_id(m.key) = stmt.id /\ stmt.id # CATALOG_TABLE_ID
      /\ [pk |-> unpack_primary_key(m.key), row |-> m.row] \in KeyedRow
  BY <1>1, NextMatch
<1>3. old \in Seq(KeyedRow) /\ none \in Seq(KeyedRow)
  BY <1>2, OneElement
<1>4. m.key \in StoreKey
  BY <1>2 DEF Match
<1> HIDE DEF m, old, none
<1>5. RemoveCall(m.key) \in DataCalls
  BY <1>2, <1>4, RowCalls
<1>6. <<RemoveCall(m.key)>> \in Seq(DataCalls) /\ sync_indexes(stmt.id, old, none) \in Seq(DataCalls)
  BY <1>3, <1>5, OneElement, SyncData
<1>7. todo' \in Seq(DataCalls)
  BY <1>1, <1>6, DataConcat
<1> QED
  BY <1>1, <1>7, RowKeeps

\* The end of a statement.
LEMMA FinishKeeps ==
    ASSUME CatInv, Finish
    PROVE  CatInv'
<1>1. /\ todo = <<>> /\ pending = <<>> /\ stmt' = Nothing
      /\ store' = store /\ file' = file /\ next_id' = next_id /\ tables' = tables /\ indexes' = indexes
      /\ pending' = pending /\ todo' = todo
      /\ interrupted' = interrupted /\ half' = half /\ cuts' = cuts
  BY DEF Finish, data, catalog, faults
<1>2. stmt' \in Statement /\ stmt'.kind = "none"
  BY <1>1 DEF Statement, Nothing
<1>3. pending' \in Seq(Match) /\ Len(pending') = 0 /\ todo' \in Seq(DataCalls)
  BY <1>1, EmptySeq
<1> QED
  BY <1>1, <1>2, <1>3, StatementKeeps

\* A list whose elements are in a set is a list over it.
LEMMA ListOver ==
    ASSUME NEW S, NEW T, NEW seq \in Seq(S), \A n \in 1..Len(seq) : seq[n] \in T
    PROVE  seq \in Seq(T)
<1>1. seq = [n \in 1..Len(seq) |-> seq[n]] /\ Len(seq) \in Nat
  BY LenProperties
<1> QED
  BY <1>1, SeqDef

\* The calls after the first are about what the catalog has once it has been made.
LEMMA RestStored ==
    ASSUME IdsFit, CatInv, todo # <<>>,
           store' = Applied(store, Head(todo)),
           file' = IF Logged(Head(todo)) THEN Applied(file, Head(todo)) ELSE file
    PROVE  Tail(todo) \in Seq(DataCalls')
<1>1. CASE ~ Creating
  <2>1. Tail(todo) \in Seq(DataCalls)
    BY <1>1, NotCreating, HeadTail
  <2>2. SameCatalog(store', store) /\ SameCatalog(file', file)
    <3>1. /\ SameCatalog(Applied(store, Head(todo)), store)
          /\ SameCatalog(Applied(file, Head(todo)), file)
      BY <1>1, FirstStored
    <3>2. SameCatalog(file, file)
      BY DEF SameCatalog
    <3> QED
      BY <3>1, <3>2
  <2>3. /\ \A kind : CatalogIds(store', kind) = CatalogIds(store, kind)
        /\ \A kind : CatalogIds(file', kind) = CatalogIds(file, kind)
    BY <2>2, SameLoaded
  <2>4. DataCalls' = DataCalls
    <3>1. ASSUME NEW c \in Call
          PROVE  (/\ unpack_table_id(c.key) # CATALOG_TABLE_ID
                  /\ c.val # Absent => \/ /\ c.val.kind = "row"
                                          /\ unpack_table_id(c.key) \in CatalogIds(store', "table") \cap CatalogIds(file', "table")
                                       \/ /\ c.val.kind = "entry"
                                          /\ unpack_table_id(c.key) \in CatalogIds(store', "index") \cap CatalogIds(file', "index"))
                 <=> DataCall(c)
      BY <2>3 DEF DataCall
    <3> QED
      BY <3>1 DEF DataCalls, DataCall
  <2> QED
    BY <2>1, <2>4
<1>2. CASE Creating
  <2>1. /\ Head(todo) \in Call /\ Tail(todo) \in Seq(Call) /\ Len(todo) \in Nat
        /\ Len(Tail(todo)) = Len(todo) - 1 /\ DOMAIN Tail(todo) = 1..(Len(todo) - 1)
        /\ \A n \in 1..(Len(todo) - 1) : Tail(todo)[n] = todo[n + 1] /\ n + 1 \in 2..Len(todo)
    BY CatParts, HeadTail
  <2>2. /\ \A n \in 1..Len(Tail(todo)) :
              Tail(todo)[n].val = EntryValue /\ unpack_table_id(Tail(todo)[n].key) = stmt.id
    BY <1>2, <2>1 DEF Creating
  <2>3. CASE stmt.kind = "create_table"
    <3>1. Len(todo) = 1
      BY <1>2, <2>3 DEF Creating
    <3>2. Tail(todo) = <<>>
      BY <2>1, <3>1, EmptySeq
    <3> QED
      BY <3>2, EmptySeq
  <2>4. CASE stmt.kind = "create_index"
    <3>1. /\ stmt.id \in CatalogIds(Applied(store, Head(todo)), "index")
          /\ stmt.id \in CatalogIds(Applied(file, Head(todo)), "index")
          /\ Head(todo).val # Absent
      <4>1. PICK n \in IndexName, t \in TableName, c \in Column :
               /\ tables[t] \in 1..MaxId /\ Head(todo).val = IndexValue(n, tables[t], c)
               /\ \A map \in {store, file} :
                     CatalogIds(Applied(map, Head(todo)), "index") = CatalogIds(map, "index") \cup {stmt.id}
        BY <1>2, <2>4, IndexStored
      <4>2. IndexValue(n, tables[t], c) \in StoreValue
        BY <4>1 DEF IndexValue, StoreValue
      <4> QED
        BY <4>1, <4>2, Kinds
    <3>2. file' = Applied(file, Head(todo))
      BY <3>1 DEF Logged
    <3>3. stmt.id \in CatalogIds(store', "index") /\ stmt.id \in CatalogIds(file', "index")
      BY <3>1, <3>2
    <3>4. stmt.id # CATALOG_TABLE_ID
      BY <3>3 DEF CatalogIds, CATALOG_TABLE_ID
    <3>5. ASSUME NEW c \in Call, c.val = EntryValue, unpack_table_id(c.key) = stmt.id
          PROVE  c \in DataCalls'
      <4>1. c.val.kind = "entry"
        BY <3>5 DEF EntryValue
      <4> QED
        BY <3>3, <3>4, <3>5, <4>1 DEF DataCalls, DataCall
    <3>6. \A n \in 1..Len(Tail(todo)) : Tail(todo)[n] \in DataCalls'
      BY <2>1, <2>2, <3>5, ElementOfSeq
    <3> QED
      BY <2>1, <3>6, ListOver
  <2> QED
    BY <1>2, <2>3, <2>4, FirstOfCreate
<1> QED
  BY <1>1, <1>2

\* A call to the store.
LEMMA StoreCallKeeps ==
    ASSUME IdsFit, CatInv, StoreCall
    PROVE  CatInv'
<1>1. /\ todo # <<>> /\ store' = Applied(store, Head(todo))
      /\ file' = IF Logged(Head(todo)) THEN Applied(file, Head(todo)) ELSE file
      /\ Registered(Head(todo)) /\ todo' = Tail(todo)
      /\ next_id' = next_id /\ stmt' = stmt /\ pending' = pending
      /\ interrupted' = interrupted /\ half' = half /\ cuts' = cuts
  BY DEF StoreCall, faults
<1>2. /\ ~ Creating => tables' = tables /\ indexes' = indexes
      /\ tables' \in [TableName -> 0..MaxId] /\ IndexesTyped'
      /\ \A map \in {store, file} : CatOK(Applied(map, Head(todo)), next_id, tables', indexes')
  BY <1>1, FirstRegistered
<1>3. store' \in Map /\ file' \in Map /\ Tail(todo) \in Seq(Call)
  BY <1>1, FirstStored, CatParts, HeadTail
<1>4. ExecTypeOK'
  <2>1. Idle' = Idle /\ Searching' = Searching
    BY <1>1 DEF Idle, Searching
  <2>2. ~ Idle /\ ~ Searching
    BY <1>1 DEF CatInv, ExecTypeOK
  <2> QED
    BY <1>1, <1>2, <1>3, <2>1, <2>2 DEF CatInv, ExecTypeOK, IndexesTyped
<1>5. CatOK(file', next_id', tables', indexes')
  <2>1. CASE Logged(Head(todo))
    BY <1>1, <1>2, <2>1
  <2>2. CASE ~ Logged(Head(todo))
    <3>1. ~ Creating
      <4>1. Head(todo).val = Absent
        BY <2>2 DEF Logged
      <4> SUFFICES ASSUME Creating
                   PROVE  FALSE
        OBVIOUS
      <4>2. CASE stmt.kind = "create_table"
        <5>1. PICK t \in TableName : Head(todo).val = TableValue(t)
          BY <4>2 DEF Creating
        <5>2. TableValue(t) \in StoreValue
          BY DEF TableValue, StoreValue
        <5> QED
          BY <4>1, <5>1, <5>2, Kinds
      <4>3. CASE stmt.kind = "create_index"
        <5>1. PICK n \in IndexName, t \in TableName, c \in Column :
                 tables[t] \in 1..MaxId /\ Head(todo).val = IndexValue(n, tables[t], c)
          BY <4>3, IndexStored
        <5>2. IndexValue(n, tables[t], c) \in StoreValue
          BY <5>1 DEF IndexValue, StoreValue
        <5> QED
          BY <4>1, <5>1, <5>2, Kinds
      <4> QED
        BY <4>2, <4>3, FirstOfCreate
    <3> QED
      BY <1>1, <1>2, <2>2, <3>1, CatParts
  <2> QED
    BY <2>1, <2>2
<1>6. CatOK(store', next_id', tables', indexes')
  BY <1>1, <1>2
<1>7. todo' \in Seq(DataCalls')
  BY <1>1, RestStored
<1>8. stmt'.kind \in {"insert", "update", "delete"} => \E t \in TableName : stmt'.id = tables'[t]
  <2>1. CASE Creating
    BY <1>1, <2>1, FirstOfCreate
  <2>2. CASE ~ Creating
    BY <1>1, <1>2, <2>2 DEF CatInv, CatalogInv
  <2> QED
    BY <2>1, <2>2
<1>9. \A n \in DOMAIN pending' : unpack_table_id(pending'[n].key) = stmt'.id
  BY <1>1 DEF CatInv, CatalogInv
<1>10. CatalogInv'
  BY <1>5, <1>6, <1>7, <1>8, <1>9, CatNext
<1> QED
  BY <1>4, <1>10 DEF CatInv

\* A statement that ends with the rest of its calls undone.
LEMMA CutKeeps ==
    ASSUME IdsFit, CatInv, MayCut, CutShort, store' \in Map, file' \in Map,
           next_id' \in 1..(MaxId + 1), tables' \in [TableName -> 0..MaxId], IndexesTyped',
           CatOK(store', next_id', tables', indexes'), CatOK(file', next_id', tables', indexes')
    PROVE  CatInv'
<1>1. /\ stmt' = Nothing /\ pending' = <<>> /\ todo' = <<>>
      /\ cuts' = IF Idle THEN cuts ELSE cuts + 1
      /\ half' = IF stmt.kind = "create_index" THEN half \cup {stmt.id} ELSE half
      /\ interrupted' \subseteq interrupted \cup KeysOf(todo)
  BY DEF CutShort
<1>2. half' \subseteq 1..MaxId
  <2>1. half \subseteq 1..MaxId
    BY DEF CatInv, ExecTypeOK
  <2>2. stmt.kind = "create_index" => stmt.id \in 1..MaxId
    BY CatParts, Statements
  <2> QED
    BY <1>1, <2>1, <2>2
<1>3. cuts' \in 0..MaxCuts
  <2>1. cuts \in 0..MaxCuts /\ MaxCuts \in Nat
    BY ExecAssumption DEF CatInv, ExecTypeOK
  <2>2. Idle \/ cuts < MaxCuts
    BY DEF MayCut
  <2> QED
    BY <1>1, <2>1, <2>2
<1>4. interrupted' \subseteq 0..PRIMARY_KEY_MASK
  <2>1. interrupted \subseteq 0..PRIMARY_KEY_MASK
    BY DEF CatInv, ExecTypeOK
  <2>2. ASSUME NEW c \in ToSet(todo)
        PROVE  /\ unpack_primary_key(c.key) \in 0..PRIMARY_KEY_MASK
               /\ unpack_secondary_pk(unpack_primary_key(c.key)) \in 0..PRIMARY_KEY_MASK
    <3>1. c \in Call
      BY CatParts, LenProperties, ElementOfSeq DEF ToSet
    <3>2. unpack_primary_key(c.key) \in 0..PRIMARY_KEY_MASK
      BY <3>1, KeyParts DEF Call
    <3>3. unpack_primary_key(c.key) \in Int
      BY <3>2, Spans
    <3>4. unpack_primary_key(c.key) % PkSpan \in 0..(PkSpan - 1)
      BY <3>3, Spans, Divided
    <3> HIDE DEF unpack_primary_key
    <3>5. \A p \in 0..(PkSpan - 1) : p \in 0..PRIMARY_KEY_MASK
      BY Spans
    <3> QED
      BY <3>2, <3>4, <3>5 DEF unpack_secondary_pk
  <2>3. KeysOf(todo) \subseteq 0..PRIMARY_KEY_MASK
    BY <2>2 DEF KeysOf
  <2> QED
    BY <1>1, <2>1, <2>3
<1>5. stmt' \in Statement /\ stmt'.kind = "none"
  BY <1>1 DEF Statement, Nothing
<1>6. pending' \in Seq([key : StoreKey, row : Row]) /\ todo' \in Seq(Call) /\ todo' \in Seq(DataCalls')
  BY <1>1, EmptySeq
<1>7. ExecTypeOK'
  BY <1>1, <1>2, <1>3, <1>4, <1>5, <1>6 DEF ExecTypeOK, IndexesTyped
<1>8. DOMAIN pending' = {} /\ stmt'.kind \notin {"insert", "update", "delete"}
  BY <1>1, <1>5
<1>9. CatalogInv'
  BY <1>6, <1>8, CatNext
<1> QED
  BY <1>7, <1>9 DEF CatInv

\* A call that throws.
LEMMA ThrowKeeps ==
    ASSUME IdsFit, CatInv, Throw
    PROVE  CatInv'
<1> DEFINE call == Head(todo)
<1>1. /\ MayCut /\ CutShort /\ todo # <<>>
      /\ store' \in {store, Applied(store, call)} /\ file' \in {file, Applied(file, call)}
      /\ next_id' = next_id /\ tables' = tables /\ indexes' = indexes
  BY DEF Throw, catalog
<1>2. /\ Applied(store, call) \in Map /\ CatOK(Applied(store, call), next_id, tables, indexes)
      /\ Applied(file, call) \in Map /\ CatOK(Applied(file, call), next_id, tables, indexes)
  BY <1>1, FirstStored
<1> HIDE DEF call
<1>3. /\ store \in Map /\ CatOK(store, next_id, tables, indexes)
      /\ file \in Map /\ CatOK(file, next_id, tables, indexes)
  BY CatParts
<1>4. /\ store' \in Map /\ CatOK(store', next_id', tables', indexes')
      /\ file' \in Map /\ CatOK(file', next_id', tables', indexes')
  BY <1>1, <1>2, <1>3
<1>5. next_id' \in 1..(MaxId + 1) /\ tables' \in [TableName -> 0..MaxId] /\ IndexesTyped'
  BY <1>1, CatParts DEF IndexesTyped
<1> QED
  BY <1>1, <1>4, <1>5, CutKeeps

\* A restart: the catalog in memory is the one in the file.
LEMMA RestartKeeps ==
    ASSUME IdsFit, CatInv, Restart
    PROVE  CatInv'
<1>1. /\ MayCut /\ CutShort /\ file' = store'
      /\ \/ store' = file
         \/ todo # <<>> /\ store' = Applied(file, Head(todo))
      /\ tables' = LoadedTables(store') /\ indexes' = LoadedIndexes(store')
      /\ next_id' = LoadedNextId(store')
  BY DEF Restart
<1>2. store' \in Map /\ CatOK(store', next_id, tables, indexes)
  BY <1>1, CatParts, FirstStored
<1> DEFINE map == store'
<1>3. map \in Map /\ CatOK(map, next_id, tables, indexes)
  BY <1>2
<1> HIDE DEF map
<1>4. /\ CatOK(map, LoadedNextId(map), LoadedTables(map), LoadedIndexes(map))
      /\ LoadedNextId(map) \in 1..(MaxId + 1)
      /\ LoadedTables(map) \in [TableName -> 0..MaxId]
      /\ LoadedIndexes(map) \in [IndexName -> [table : 0..MaxId, column : Column, id : 0..MaxId]]
  BY <1>3, Reload
<1>5. /\ store' = map /\ file' = map /\ tables' = LoadedTables(map)
      /\ indexes' = LoadedIndexes(map) /\ next_id' = LoadedNextId(map)
  BY <1>1 DEF map
<1>6. IndexesTyped'
  BY <1>4, <1>5 DEF IndexesTyped
<1> QED
  BY <1>1, <1>3, <1>4, <1>5, <1>6, CutKeeps

\* A checkpoint.
LEMMA CheckpointKeeps ==
    ASSUME CatInv, Checkpoint
    PROVE  CatInv'
<1>1. /\ file' = store /\ store' = store /\ next_id' = next_id /\ tables' = tables /\ indexes' = indexes
      /\ stmt' = stmt /\ pending' = pending /\ todo' = todo
      /\ interrupted' = interrupted /\ half' = half /\ cuts' = cuts
  BY DEF Checkpoint, catalog, work, faults
<1>2. ExecTypeOK'
  <2>1. Idle' = Idle /\ Searching' = Searching
    BY <1>1 DEF Idle, Searching
  <2> QED
    BY <1>1, <2>1 DEF CatInv, ExecTypeOK
<1>3. CatOK(store', next_id', tables', indexes') /\ CatOK(file', next_id', tables', indexes')
  BY <1>1, CatParts
<1>4. Creating' \/ todo' \in Seq(DataCalls')
  <2>1. CASE Creating
    BY <1>1, <2>1 DEF Creating
  <2>2. CASE ~ Creating
    <3>1. todo \in Seq(DataCalls)
      BY <2>2, NotCreating
    <3>2. DataCalls \subseteq DataCalls'
      BY <1>1 DEF DataCalls, DataCall, CatalogIds, CatalogRow
    <3>3. \A n \in 1..Len(todo) : todo[n] \in DataCalls'
      BY <3>1, <3>2, ElementOfSeq
    <3> QED
      BY <1>1, <3>1, <3>3, ListOver
  <2> QED
    BY <2>1, <2>2
<1>5. CatalogInv'
  BY <1>1, <1>3, <1>4, CatNext DEF CatInv, CatalogInv
<1> QED
  BY <1>2, <1>5 DEF CatInv

\* Every step keeps the invariant.
LEMMA CatInvKept ==
    ASSUME IdsFit, CatInv, [ExecNext]_vars
    PROVE  CatInv'
<1>1. ASSUME NEW t \in TableName, CreateTable(t)
      PROVE  CatInv'
  BY <1>1, CreateTableKeeps
<1>2. ASSUME NEW t \in TableName, NEW n \in IndexName, NEW c \in IndexColumn, CreateIndex(n, t, c)
      PROVE  CatInv'
  BY <1>2, ExecAssumption, CreateIndexKeeps
<1>3. ASSUME NEW t \in TableName, NEW i \in IdLiteral, NEW a \in ALiteral, Insert(t, [id |-> i, a |-> a])
      PROVE  CatInv'
  BY <1>3, InsertKeeps
<1>4. ASSUME NEW t \in TableName, NEW w \in WhereInput, Delete(t, w)
      PROVE  CatInv'
  BY <1>4, BeginKeeps DEF Delete
<1>5. ASSUME NEW t \in TableName, NEW w \in WhereInput, NEW set \in SetInput, Update(t, set, w)
      PROVE  CatInv'
  BY <1>5, BeginKeeps DEF Update
<1>6. CASE Search
  BY <1>6, SearchKeeps
<1>7. CASE UpdateRow
  BY <1>7, UpdateRowKeeps
<1>8. CASE DeleteRow
  BY <1>8, DeleteRowKeeps
<1>9. CASE Finish
  BY <1>9, FinishKeeps
<1>10. CASE StoreCall
  BY <1>10, StoreCallKeeps
<1>11. CASE Throw
  BY <1>11, ThrowKeeps
<1>12. CASE Restart
  BY <1>12, RestartKeeps
<1>13. CASE Checkpoint
  BY <1>13, CheckpointKeeps
<1>14. CASE UNCHANGED vars
  <2>1. /\ file' = file /\ store' = store /\ next_id' = next_id /\ tables' = tables /\ indexes' = indexes
        /\ stmt' = stmt /\ pending' = pending /\ todo' = todo
        /\ interrupted' = interrupted /\ half' = half /\ cuts' = cuts
    BY <1>14 DEF vars, data, catalog, work, faults
  <2>2. ExecTypeOK'
    <3>1. Idle' = Idle /\ Searching' = Searching
      BY <2>1 DEF Idle, Searching
    <3> QED
      BY <2>1, <3>1 DEF CatInv, ExecTypeOK
  <2>3. CatOK(store', next_id', tables', indexes') /\ CatOK(file', next_id', tables', indexes')
    BY <2>1, CatParts
  <2>4. Creating' \/ todo' \in Seq(DataCalls')
    <3>1. CASE Creating
      BY <2>1, <3>1 DEF Creating
    <3>2. CASE ~ Creating
      BY <2>1, <3>2, NotCreating, DataNext
    <3> QED
      BY <3>1, <3>2
  <2>5. CatalogInv'
    BY <2>1, <2>3, <2>4, CatNext DEF CatInv, CatalogInv
  <2> QED
    BY <2>2, <2>5 DEF CatInv
<1> QED
  BY <1>1, <1>2, <1>3, <1>4, <1>5, <1>6, <1>7, <1>8, <1>9, <1>10, <1>11, <1>12, <1>13, <1>14
     DEF ExecNext

\* Types and the order of the catalog, for every execution.
THEOREM CatalogKept == IdsFit => (ExecSpec => []CatInv)
<1>1. IdsFit /\ ExecInit => CatInv
  BY CatalogStarts
<1>2. IdsFit /\ CatInv /\ [ExecNext]_vars => CatInv'
  BY CatInvKept
<1> SUFFICES ASSUME IdsFit
             PROVE  ExecSpec => []CatInv
  OBVIOUS
<1>3. ExecInit => CatInv
  BY <1>1
<1>4. CatInv /\ [ExecNext]_vars => CatInv'
  BY <1>2
<1> QED
  BY <1>3, <1>4, PTL DEF ExecSpec

\* ExecTypeOK: every variable holds what the code can put there.
THEOREM ExecTyped == IdsFit => (ExecSpec => []ExecTypeOK)
<1>1. CatInv => ExecTypeOK
  BY DEF CatInv
<1> QED
  BY <1>1, CatalogKept, PTL

\* KindsApart: rows, entries and catalog rows never share a key, whatever was cut
\* short and however often the catalog was rebuilt.
THEOREM KindsApartHolds == IdsFit => (ExecSpec => []KindsApart)
<1>1. CatInv => KindsApart
  BY CatParts DEF KindsApart
<1> QED
  BY <1>1, CatalogKept, PTL

\* CatalogReloads: the catalog in memory is the one a restart would build.
THEOREM CatalogReloadsHolds == IdsFit => (ExecSpec => []CatalogReloads)
<1>1. CatInv => CatalogReloads
  BY CatParts DEF CatalogReloads, CatOK
<1> QED
  BY <1>1, CatalogKept, PTL

-----------------------------------------------------------------------------
(* Indexes in step with their rows.                                        *)

IndexRecord == [table : 1..MaxId, column : Column, id : 1..MaxId]

\* A map that differs in exempt keys only, as far as the index goes, keeps it in step.
LEMMA InStepSame ==
    ASSUME IdsFit, NEW x \in IndexRecord, NEW map, NEW other, NEW before, NEW after,
           before \subseteq after,
           \A k \in StoreKey : unpack_table_id(k) \in {x.id, x.table} =>
              other[k] = map[k] \/ unpack_primary_key(k) % PkSpan \in after,
           InStep(map, x, before)
    PROVE  InStep(other, x, after)
<1>1. x.id \in 0..MaxId /\ x.table \in 0..MaxId
  BY Spans DEF IndexRecord
<1>2. ASSUME NEW p \in 0..PRIMARY_KEY_MASK, p % PkSpan \notin after
      PROVE  /\ other[pack_key(x.table, p)] = map[pack_key(x.table, p)]
             /\ other[pack_key(x.id, p)] = map[pack_key(x.id, p)]
  BY <1>1, <1>2, KeyOf
<1>3. ASSUME NEW pk \in (0..SECONDARY_PK_MASK) \ after
      PROVE  InSync(other, x, pk)
  <2>1. pk \in 0..PRIMARY_KEY_MASK /\ pk \in 0..(PkSpan - 1) /\ pk \in (0..SECONDARY_PK_MASK) \ before
    BY Spans
  <2>2. pk % PkSpan = pk
    BY <2>1, Spans, Fits
  <2>3. \A e \in 0..PRIMARY_KEY_MASK : unpack_secondary_pk(e) = pk =>
           other[pack_key(x.id, e)] = map[pack_key(x.id, e)]
    BY <1>2, <1>3 DEF unpack_secondary_pk
  <2>4. EntriesFor(other, x, pk) = EntriesFor(map, x, pk)
    BY <2>3 DEF EntriesFor
  <2>5. other[pack_key(x.table, pk)] = map[pack_key(x.table, pk)]
    BY <1>2, <1>3, <2>1, <2>2
  <2>6. InSync(map, x, pk)
    BY <2>1 DEF InStep
  <2> QED
    BY <2>4, <2>5, <2>6 DEF InSync
<1>4. ASSUME NEW p \in 0..PRIMARY_KEY_MASK, other[pack_key(x.table, p)] # Absent
      PROVE  Indexable(other[pack_key(x.table, p)], p, x, after)
  <2>1. CASE p % PkSpan \in after
    BY <2>1 DEF Indexable
  <2>2. CASE p % PkSpan \notin after
    <3>1. other[pack_key(x.table, p)] = map[pack_key(x.table, p)]
      BY <1>2, <2>2
    <3>2. Indexable(map[pack_key(x.table, p)], p, x, before)
      BY <1>4, <3>1 DEF InStep
    <3> QED
      BY <3>1, <3>2 DEF Indexable
  <2> QED
    BY <2>1, <2>2
<1> QED
  BY <1>3, <1>4 DEF InStep

\* The key of the entry of a row's value under a primary key.
EntryIn(x, v, p) == pack_key(x.id, pack_secondary_composite(v.row[x.column], p))

\* It is in the index's block, and keeps the low bits of the primary key.
LEMMA EntryInBlock ==
    ASSUME IdsFit, NEW x \in IndexRecord, NEW v, v.row \in Row, NEW p \in 0..PRIMARY_KEY_MASK
    PROVE  /\ EntryIn(x, v, p) \in StoreKey /\ unpack_table_id(EntryIn(x, v, p)) = x.id
           /\ unpack_primary_key(EntryIn(x, v, p)) = pack_secondary_composite(v.row[x.column], p)
           /\ unpack_primary_key(EntryIn(x, v, p)) % PkSpan = p % PkSpan
           /\ pack_secondary_composite(v.row[x.column], p) \in 0..PRIMARY_KEY_MASK
<1>1. v.row[x.column] \in Int
  BY DEF IndexRecord, Column, Row
<1>2. x.id \in 0..MaxId /\ p \in Int
  BY Spans DEF IndexRecord
<1>3. /\ pack_secondary_composite(v.row[x.column], p) \in 0..PRIMARY_KEY_MASK
      /\ pack_secondary_composite(v.row[x.column], p) % PkSpan = p % PkSpan
  BY <1>1, <1>2, CompositeKey DEF unpack_secondary_pk
<1> QED
  BY <1>2, <1>3, KeyOf DEF EntryIn

\* other is map with v, a row or none, under one key of the index's table, and with
\* the index's entries changed to go with it.
Replaced(map, other, x, p, v) ==
    LET old == map[pack_key(x.table, p)]
    IN  /\ \A k \in StoreKey : unpack_table_id(k) = x.table =>
              other[k] = IF k = pack_key(x.table, p) THEN v ELSE map[k]
        /\ \A k \in StoreKey : unpack_table_id(k) = x.id =>
              other[k] = IF v # Absent /\ k = EntryIn(x, v, p) THEN EntryValue
                         ELSE IF old # Absent /\ k = EntryIn(x, old, p) THEN Absent
                         ELSE map[k]

\* Such a change keeps the index in step.
LEMMA InStepReplaced ==
    ASSUME IdsFit, NEW x \in IndexRecord, NEW map, NEW other, NEW exempt,
           NEW p \in 0..PRIMARY_KEY_MASK, NEW v,
           v # Absent => v.row \in Row /\ Indexable(v, p, x, exempt),
           map[pack_key(x.table, p)] # Absent => map[pack_key(x.table, p)].row \in Row,
           Replaced(map, other, x, p, v),
           InStep(map, x, exempt)
    PROVE  InStep(other, x, exempt)
<1> DEFINE old == map[pack_key(x.table, p)]
           cell(u) == pack_secondary_composite(u.row[x.column], p)
<1>1. x.id \in 0..MaxId /\ x.table \in 0..MaxId /\ EntryValue # Absent
  BY Spans, StoredAssumption DEF IndexRecord, StoreValue
<1>2. ASSUME NEW u, u.row \in Row
      PROVE  /\ EntryIn(x, u, p) \in StoreKey /\ unpack_table_id(EntryIn(x, u, p)) = x.id
             /\ unpack_primary_key(EntryIn(x, u, p)) = cell(u)
             /\ unpack_primary_key(EntryIn(x, u, p)) % PkSpan = p % PkSpan
             /\ EntryIn(x, u, p) = pack_key(x.id, cell(u)) /\ cell(u) \in 0..PRIMARY_KEY_MASK
  BY <1>2, EntryInBlock DEF EntryIn
<1>3. /\ \A k \in StoreKey : unpack_table_id(k) = x.table =>
            other[k] = IF k = pack_key(x.table, p) THEN v ELSE map[k]
      /\ \A k \in StoreKey : unpack_table_id(k) = x.id =>
            other[k] = IF v # Absent /\ k = EntryIn(x, v, p) THEN EntryValue
                       ELSE IF old # Absent /\ k = EntryIn(x, old, p) THEN Absent
                       ELSE map[k]
  BY DEF Replaced
<1>4. v # Absent => v.row \in Row
  OBVIOUS
<1>5. old # Absent => old.row \in Row
  OBVIOUS
<1> HIDE DEF cell, old
<1>6. CASE p % PkSpan \in exempt
  <2>1. ASSUME NEW k \in StoreKey, unpack_table_id(k) \in {x.id, x.table}
        PROVE  other[k] = map[k] \/ unpack_primary_key(k) % PkSpan \in exempt
    <3>1. CASE unpack_table_id(k) = x.table
      <4>1. k = pack_key(x.table, p) => unpack_primary_key(k) = p
        BY <1>1, KeyOf
      <4> QED
        BY <1>3, <1>6, <3>1, <4>1
    <3>2. CASE unpack_table_id(k) = x.id
      <4>1. v # Absent /\ k = EntryIn(x, v, p) => unpack_primary_key(k) % PkSpan = p % PkSpan
        BY <1>2, <1>4
      <4>2. old # Absent /\ k = EntryIn(x, old, p) => unpack_primary_key(k) % PkSpan = p % PkSpan
        BY <1>2, <1>5
      <4> QED
        BY <1>3, <1>6, <3>2, <4>1, <4>2
    <3> QED
      BY <2>1, <3>1, <3>2
  <2> QED
    BY <2>1, InStepSame
<1>7. CASE p % PkSpan \notin exempt /\ ~ (p <= SECONDARY_PK_MASK)
  <2>1. v = Absent
    BY <1>7 DEF Indexable
  <2>2. old = Absent
    BY <1>7 DEF InStep, Indexable, old
  <2>3. ASSUME NEW k \in StoreKey, unpack_table_id(k) \in {x.id, x.table}
        PROVE  other[k] = map[k] \/ unpack_primary_key(k) % PkSpan \in exempt
    BY <1>3, <2>1, <2>2, <2>3 DEF old
  <2> QED
    BY <2>3, InStepSame
<1>8. CASE p % PkSpan \notin exempt /\ p <= SECONDARY_PK_MASK
  <2>1. p % PkSpan = p /\ p \in (0..SECONDARY_PK_MASK) \ exempt
    <3>1. p \in 0..(PkSpan - 1) /\ p \in 0..SECONDARY_PK_MASK
      BY <1>8, Spans
    <3>2. p % PkSpan = p
      BY <3>1, Spans, Fits
    <3> QED
      BY <1>8, <3>1, <3>2
  <2>2. ASSUME NEW q \in 0..PRIMARY_KEY_MASK
        PROVE  other[pack_key(x.table, q)] = IF q = p THEN v ELSE map[pack_key(x.table, q)]
    <3>1. /\ pack_key(x.table, q) \in StoreKey /\ unpack_table_id(pack_key(x.table, q)) = x.table
          /\ pack_key(x.table, q) = pack_key(x.table, p) => q = p
      BY <1>1, KeyOf
    <3> QED
      BY <1>3, <3>1
  <2>3. ASSUME NEW q \in 0..PRIMARY_KEY_MASK, other[pack_key(x.table, q)] # Absent
        PROVE  Indexable(other[pack_key(x.table, q)], q, x, exempt)
    BY <1>8, <2>2, <2>3 DEF InStep
  <2>4. ASSUME NEW e \in 0..PRIMARY_KEY_MASK
        PROVE  other[pack_key(x.id, e)] = IF v # Absent /\ e = cell(v) THEN EntryValue
                                          ELSE IF old # Absent /\ e = cell(old) THEN Absent
                                          ELSE map[pack_key(x.id, e)]
    <3>1. /\ pack_key(x.id, e) \in StoreKey /\ unpack_table_id(pack_key(x.id, e)) = x.id
          /\ unpack_primary_key(pack_key(x.id, e)) = e
      BY <1>1, KeyOf
    <3>2. v # Absent => (pack_key(x.id, e) = EntryIn(x, v, p) <=> e = cell(v))
      BY <1>2, <1>4, <3>1
    <3>3. old # Absent => (pack_key(x.id, e) = EntryIn(x, old, p) <=> e = cell(old))
      BY <1>2, <1>5, <3>1
    <3> QED
      BY <1>3, <3>1, <3>2, <3>3
  <2>5. /\ v # Absent => cell(v) \in 0..PRIMARY_KEY_MASK /\ unpack_secondary_pk(cell(v)) = p
        /\ old # Absent => cell(old) \in 0..PRIMARY_KEY_MASK /\ unpack_secondary_pk(cell(old)) = p
    BY <1>2, <1>4, <1>5, <2>1 DEF unpack_secondary_pk
  <2>6. ASSUME NEW pk \in (0..SECONDARY_PK_MASK) \ exempt, pk # p
        PROVE  InSync(other, x, pk)
    <3>1. \A e \in 0..PRIMARY_KEY_MASK : unpack_secondary_pk(e) = pk =>
             other[pack_key(x.id, e)] = map[pack_key(x.id, e)]
      BY <2>4, <2>5, <2>6
    <3>2. EntriesFor(other, x, pk) = EntriesFor(map, x, pk)
      BY <3>1 DEF EntriesFor
    <3>3. pk \in 0..PRIMARY_KEY_MASK
      BY Spans
    <3>4. other[pack_key(x.table, pk)] = map[pack_key(x.table, pk)]
      BY <2>2, <2>6, <3>3
    <3>5. InSync(map, x, pk)
      BY <2>6 DEF InStep
    <3> QED
      BY <3>2, <3>4, <3>5 DEF InSync
  <2>7. InSync(other, x, p)
    <3>1. InSync(map, x, p)
      BY <2>1 DEF InStep
    <3>2. EntriesFor(map, x, p) = IF old = Absent THEN {} ELSE {cell(old)}
      BY <3>1 DEF InSync, old, cell
    <3>3. ASSUME NEW e \in 0..PRIMARY_KEY_MASK, unpack_secondary_pk(e) = p
          PROVE  other[pack_key(x.id, e)] # Absent <=> (v # Absent /\ e = cell(v))
      <4>1. map[pack_key(x.id, e)] # Absent => old # Absent /\ e = cell(old)
        BY <3>2, <3>3 DEF EntriesFor
      <4> QED
        BY <1>1, <2>4, <4>1
    <3>4. EntriesFor(other, x, p) = IF v = Absent THEN {} ELSE {cell(v)}
      BY <2>5, <3>3 DEF EntriesFor
    <3>5. other[pack_key(x.table, p)] = v
      BY <2>2
    <3> QED
      BY <3>4, <3>5 DEF InSync, cell
  <2> QED
    BY <2>3, <2>6, <2>7 DEF InStep
<1> QED
  BY <1>6, <1>7, <1>8

\* No id is a table's and an index's, and none of either is the catalog's.
LEMMA IdsApart ==
    ASSUME NEW map, NEW id
    PROVE  /\ id \in CatalogIds(map, "table") => id \notin CatalogIds(map, "index")
           /\ id \in CatalogIds(map, "table") \cup CatalogIds(map, "index") =>
                 id \in 1..MaxId /\ id # CATALOG_TABLE_ID
  BY DEF CatalogIds, CATALOG_TABLE_ID

\* An index in memory has its row and its table in the catalog, and an id of its own.
LEMMA IndexFacts ==
    ASSUME CatInv, NEW n \in IndexName, indexes[n] # NoIndex
    PROVE  /\ indexes[n] \in IndexRecord
           /\ \A map \in {store, file} :
                 /\ indexes[n].id \in CatalogIds(map, "index")
                 /\ indexes[n].table \in CatalogIds(map, "table")
           /\ \A m \in IndexName : m # n /\ indexes[m] # NoIndex => indexes[m].id # indexes[n].id
<1>1. /\ indexes[n].id \in CatalogIds(store, "index") /\ indexes[n].table \in CatalogIds(store, "table")
      /\ indexes[n].id \in CatalogIds(file, "index") /\ indexes[n].table \in CatalogIds(file, "table")
      /\ CatalogRow(store, indexes[n].id).name = n
  BY CatParts, InCatalog
<1>2. indexes[n] \in [table : 0..MaxId, column : Column, id : 0..MaxId]
  BY CatParts DEF IndexesTyped
<1>3. indexes[n].id \in 1..MaxId /\ indexes[n].table \in 1..MaxId
  BY <1>1, IdsApart
<1>4. \A m \in IndexName : m # n /\ indexes[m] # NoIndex => indexes[m].id # indexes[n].id
  <2>1. \A m \in IndexName : indexes[m] # NoIndex => CatalogRow(store, indexes[m].id).name = m
    BY CatParts, InCatalog
  <2> QED
    BY <1>1, <2>1
<1>5. indexes[n] \in IndexRecord
  BY <1>2, <1>3 DEF IndexRecord
<1> QED
  BY <1>1, <1>4, <1>5

\* The same for an index of any table, when the row is one of a table's.
SyncedFor(id, n, k, old, new, before) ==
    IF indexes[n].table = id THEN SyncedRow(n, k, old, new, before) ELSE before

\* What sync_indexes leaves: rows as they were, entries of other tables' indexes too,
\* and those of this table's changed from the old rows to the new.
LEMMA SyncEffect ==
    ASSUME IdsFit, CatInv, NEW id \in CatalogIds(store, "table"),
           NEW old \in Seq(KeyedRow), NEW new \in Seq(KeyedRow), NEW map \in Map
    PROVE  /\ sync_indexes(id, old, new) \in Seq(Call)
           /\ After(map, sync_indexes(id, old, new)) \in Map
           /\ \A i \in 1..Len(sync_indexes(id, old, new)) :
                 RowKeyed(sync_indexes(id, old, new)[i].key, sync_indexes(id, old, new)[i].val)
           /\ \A k \in StoreKey : unpack_table_id(k) \in CatalogIds(store, "table") =>
                 After(map, sync_indexes(id, old, new))[k] = map[k]
           /\ \A n \in IndexName, k \in StoreKey :
                 indexes[n] # NoIndex /\ unpack_table_id(k) = indexes[n].id =>
                 After(map, sync_indexes(id, old, new))[k] = SyncedFor(id, n, k, old, new, map[k])
<1> DEFINE calls == sync_indexes(id, old, new)
<1>1. IndexesTyped
  BY CatParts
<1>2. /\ calls \in Seq(Call)
      /\ \A i \in 1..Len(calls) : \E n \in indexes_for_table(id) : SyncCall(calls[i], n, old, new)
  BY <1>1, SyncIndexes
<1>2a. ASSUME NEW n \in indexes_for_table(id), NEW k \in StoreKey, unpack_table_id(k) = indexes[n].id,
              \A m \in indexes_for_table(id) : m # n => indexes[m].id # indexes[n].id
       PROVE  After(map, calls)[k] = SyncedRow(n, k, old, new, map[k])
  BY <1>1, <1>2a, SyncIndexes
<1> HIDE DEF calls
<1>3. \A n \in indexes_for_table(id) : n \in IndexName /\ indexes[n] # NoIndex /\ indexes[n].table = id
  BY DEF indexes_for_table
<1>4. ASSUME NEW i \in 1..Len(calls)
      PROVE  \E n \in indexes_for_table(id) :
                unpack_table_id(calls[i].key) = indexes[n].id /\ calls[i].val \in {Absent, EntryValue}
  <2>1. PICK n \in indexes_for_table(id) : SyncCall(calls[i], n, old, new)
    BY <1>2
  <2>2. \A r \in KeyedRow : unpack_table_id(EntryKey(n, r)) = indexes[n].id
    BY <1>1, <1>3, EntryKeyOf
  <2>3. (\A j \in 1..Len(old) : old[j] \in KeyedRow) /\ (\A j \in 1..Len(new) : new[j] \in KeyedRow)
    BY ElementOfSeq
  <2>4. unpack_table_id(calls[i].key) = indexes[n].id /\ calls[i].val \in {Absent, EntryValue}
    BY <2>1, <2>2, <2>3 DEF SyncCall
  <2> QED
    BY <2>4
<1>5. ASSUME NEW k \in StoreKey, \A n \in indexes_for_table(id) : unpack_table_id(k) # indexes[n].id
      PROVE  After(map, calls)[k] = map[k]
  <2>1. \A i \in 1..Len(calls) : calls[i].key # k
    BY <1>4, <1>5
  <2> QED
    BY <1>2, <2>1, AfterOther
<1>6. ASSUME NEW k \in StoreKey, unpack_table_id(k) \in CatalogIds(store, "table")
      PROVE  After(map, calls)[k] = map[k]
  <2>1. \A n \in indexes_for_table(id) : indexes[n].id \in CatalogIds(store, "index")
    BY <1>3, IndexFacts
  <2>2. \A n \in indexes_for_table(id) : unpack_table_id(k) # indexes[n].id
    BY <1>6, <2>1, IdsApart
  <2> QED
    BY <1>5, <2>2
<1>7. ASSUME NEW n \in IndexName, NEW k \in StoreKey, indexes[n] # NoIndex, unpack_table_id(k) = indexes[n].id
      PROVE  After(map, calls)[k] = SyncedFor(id, n, k, old, new, map[k])
  <2>1. \A m \in indexes_for_table(id) : m # n => indexes[m].id # indexes[n].id
    BY <1>3, <1>7, IndexFacts
  <2>2. CASE indexes[n].table # id
    <3>1. \A m \in indexes_for_table(id) : unpack_table_id(k) # indexes[m].id
      BY <1>3, <1>7, <2>1, <2>2
    <3> QED
      BY <1>5, <2>2, <3>1 DEF SyncedFor
  <2>3. CASE indexes[n].table = id
    <3>1. n \in indexes_for_table(id)
      BY <1>7, <2>3 DEF indexes_for_table
    <3>2. After(map, calls)[k] = SyncedRow(n, k, old, new, map[k])
      BY <1>2a, <1>7, <2>1, <3>1
    <3> QED
      BY <2>3, <3>2 DEF SyncedFor
  <2> QED
    BY <2>2, <2>3
<1>8. After(map, calls) \in Map
  BY <1>2, AfterType
<1>9. \A i \in 1..Len(calls) : RowKeyed(calls[i].key, calls[i].val)
  BY <1>4 DEF RowKeyed, EntryValue
<1> QED
  BY <1>2, <1>6, <1>7, <1>8, <1>9 DEF calls

\* The indexes in memory that are not half made.
Kept(idx, hf) == {x \in {idx[n] : n \in IndexName} : x # NoIndex /\ x.id \notin hf}

\* A statement about rows, or none, leaves catalog and files as they are: what is to
\* be shown is that its calls keep each index in step.
LEMMA StatementSync ==
    ASSUME IdsFit, CatInv, SyncInv, store' = store, file' = file, tables' = tables,
           indexes' = indexes, interrupted' = interrupted, half' = half,
           todo = <<>>, stmt'.kind \notin {"create_table", "create_index"},
           \A x \in Kept(indexes, half) :
              InStep(store, x, Exempt) => InStep(After(store, todo'), x, Exempt),
           \A n \in DOMAIN todo' : RowKeyed(todo'[n].key, todo'[n].val),
           PendingCurrent', AssignsOk', MovesOne'
    PROVE  SyncInv'
<1>1. CreatesOwn'
  BY DEF CreatesOwn
<1>2. Exempt' = Exempt
  BY DEF Exempt
<1>3. Final = store
  BY CatParts, AfterNone DEF Final
<1>4. Final' = After(store, todo')
  BY DEF Final
<1>5. Live' = Kept(indexes, half)
  BY DEF Live, Kept, Registering
<1>6. Kept(indexes, half) \subseteq Live
  BY DEF Live, Kept
<1>7. LiveInSync'
  <2>1. \A x \in Kept(indexes, half) : InStep(store, x, Exempt)
    BY <1>3, <1>6 DEF SyncInv, LiveInSync
  <2>2. \A x \in Live' : InStep(Final', x, Exempt')
    BY <1>2, <1>4, <1>5, <2>1
  <2> QED
    BY <2>2 DEF LiveInSync
<1>8. UnknownIsHalf'
  BY DEF SyncInv, UnknownIsHalf
<1>9. OnlyCaughtDiffer'
  <2>1. \A k \in StoreKey : file[k] = store[k] \/ Caught(k)
    BY DEF SyncInv, OnlyCaughtDiffer
  <2>2. \A k : Caught(k)' <=> Caught(k)
    BY <1>2 DEF Caught
  <2> QED
    BY <2>1, <2>2 DEF OnlyCaughtDiffer
<1>10. RowsKeyed'
  BY DEF SyncInv, RowsKeyed
<1> QED
  BY <1>1, <1>7, <1>8, <1>9, <1>10 DEF SyncInv

\* A row under a primary key, or none, as sync_indexes takes it.
RowList(v, p) == IF v = Absent THEN <<>> ELSE <<[pk |-> p, row |-> v.row]>>

\* The entries of one row change to those of another.
LEMMA SyncedOne ==
    ASSUME NEW n, NEW k, NEW old, NEW new, NEW p, NEW q, NEW before
    PROVE  SyncedRow(n, k, RowList(old, p), RowList(new, q), before) =
              IF new # Absent /\ k = EntryIn(indexes[n], new, q) THEN EntryValue
              ELSE IF old # Absent /\ k = EntryIn(indexes[n], old, p) THEN Absent
              ELSE before
<1>1. ASSUME NEW v, NEW e
      PROVE  (\E j \in 1..Len(RowList(v, e)) : EntryKey(n, RowList(v, e)[j]) = k)
             <=> (v # Absent /\ k = EntryIn(indexes[n], v, e))
  <2>1. CASE v = Absent
    <3>1. RowList(v, e) = <<>> /\ Len(RowList(v, e)) = 0
      BY <2>1 DEF RowList
    <3>2. 1..Len(RowList(v, e)) = {}
      BY <3>1
    <3> QED
      BY <2>1, <3>2
  <2>2. CASE v # Absent
    <3> DEFINE r == [pk |-> e, row |-> v.row]
    <3>1. RowList(v, e) = <<r>> /\ Len(RowList(v, e)) = 1 /\ RowList(v, e)[1] = r
      BY <2>2 DEF RowList
    <3>2. EntryKey(n, r) = EntryIn(indexes[n], v, e)
      BY DEF EntryKey, EntryIn
    <3> HIDE DEF r
    <3>3. 1..Len(RowList(v, e)) = {1}
      BY <3>1
    <3> QED
      BY <2>2, <3>1, <3>2, <3>3
  <2> QED
    BY <2>1, <2>2
<1> QED
  BY <1>1 DEF SyncedRow

\* other is map with v, a row or none, under a primary key of a table, and every
\* index of the table changed to go with it.
RowChange(map, other, id, p, v) ==
    /\ \A k \in StoreKey : unpack_table_id(k) = id =>
          other[k] = IF k = pack_key(id, p) THEN v ELSE map[k]
    /\ \A k \in StoreKey : unpack_table_id(k) \in CatalogIds(store, "table") \ {id} => other[k] = map[k]
    /\ \A n \in IndexName, k \in StoreKey : indexes[n] # NoIndex /\ unpack_table_id(k) = indexes[n].id =>
          other[k] = SyncedFor(id, n, k, RowList(map[pack_key(id, p)], p), RowList(v, p), map[k])

\* Such a change keeps every index in step, if an index of the table can keep the key.
LEMMA RowChanged ==
    ASSUME IdsFit, CatInv, NEW id \in CatalogIds(store, "table"), NEW p \in 0..PRIMARY_KEY_MASK,
           NEW map, NEW other, NEW v, RowChange(map, other, id, p, v),
           v # Absent => v.row \in Row,
           map[pack_key(id, p)] # Absent => map[pack_key(id, p)].row \in Row,
           NEW x \in Kept(indexes, half), InStep(map, x, Exempt),
           v # Absent /\ x.table = id => Indexable(v, p, x, Exempt)
    PROVE  InStep(other, x, Exempt)
<1>1. PICK n \in IndexName : x = indexes[n] /\ indexes[n] # NoIndex
  BY DEF Kept
<1>2. x \in IndexRecord /\ x.table \in CatalogIds(store, "table")
  BY <1>1, IndexFacts
<1>3. CASE x.table # id
  <2>1. \A k \in StoreKey : unpack_table_id(k) \in {x.id, x.table} => other[k] = map[k]
    BY <1>1, <1>2, <1>3 DEF RowChange, SyncedFor
  <2> QED
    BY <1>2, <2>1, InStepSame
<1>4. CASE x.table = id
  <2>1. \A k \in StoreKey : unpack_table_id(k) = x.table =>
           other[k] = IF k = pack_key(x.table, p) THEN v ELSE map[k]
    BY <1>4 DEF RowChange
  <2>2. ASSUME NEW k \in StoreKey, unpack_table_id(k) = x.id
        PROVE  other[k] = IF v # Absent /\ k = EntryIn(x, v, p) THEN EntryValue
                          ELSE IF map[pack_key(x.table, p)] # Absent
                                  /\ k = EntryIn(x, map[pack_key(x.table, p)], p) THEN Absent
                          ELSE map[k]
    <3>1. other[k] = SyncedRow(n, k, RowList(map[pack_key(id, p)], p), RowList(v, p), map[k])
      BY <1>1, <1>4, <2>2 DEF RowChange, SyncedFor
    <3> QED
      BY <1>1, <1>4, <3>1, SyncedOne
  <2>3. Replaced(map, other, x, p, v)
    BY <2>1, <2>2 DEF Replaced
  <2> QED
    BY <1>2, <1>4, <2>3, InStepReplaced
<1> QED
  BY <1>3, <1>4

\* Calls whose row is stored under the key it says.
KeyedCalls == {c \in Call : RowKeyed(c.key, c.val)}

\* Lists of such calls.
LEMMA KeyedSeq ==
    /\ \A calls : calls \in Seq(KeyedCalls) <=>
          (calls \in Seq(Call) /\ \A i \in 1..Len(calls) : RowKeyed(calls[i].key, calls[i].val))
    /\ \A a, b \in Seq(KeyedCalls) : a \o b \in Seq(KeyedCalls)
<1>1. ASSUME NEW calls \in Seq(KeyedCalls)
      PROVE  calls \in Seq(Call) /\ \A i \in 1..Len(calls) : RowKeyed(calls[i].key, calls[i].val)
  <2>1. \A i \in 1..Len(calls) : calls[i] \in KeyedCalls
    BY ElementOfSeq
  <2>2. \A i \in 1..Len(calls) : calls[i] \in Call
    BY <2>1 DEF KeyedCalls
  <2>3. calls \in Seq(Call)
    BY <2>2, ListOver
  <2> QED
    BY <2>1, <2>3 DEF KeyedCalls
<1>2. ASSUME NEW calls \in Seq(Call), \A i \in 1..Len(calls) : RowKeyed(calls[i].key, calls[i].val)
      PROVE  calls \in Seq(KeyedCalls)
  <2>1. \A i \in 1..Len(calls) : calls[i] \in Call
    BY ElementOfSeq
  <2>2. \A i \in 1..Len(calls) : calls[i] \in KeyedCalls
    BY <1>2, <2>1 DEF KeyedCalls
  <2> QED
    BY <2>2, ListOver
<1> QED
  BY <1>1, <1>2, ConcatProperties

\* It is a list of rows and their keys.
LEMMA RowListTyped ==
    ASSUME NEW v, NEW p \in 0..PRIMARY_KEY_MASK, v # Absent => v.row \in Row
    PROVE  RowList(v, p) \in Seq(KeyedRow)
<1>1. v # Absent => [pk |-> p, row |-> v.row] \in KeyedRow
  BY DEF KeyedRow
<1>2. <<>> \in Seq(KeyedRow)
  OBVIOUS
<1> QED
  BY <1>1, <1>2, OneElement DEF RowList

\* A key of an index in memory is not one of a table.
LEMMA BlockOf ==
    ASSUME IdsFit, CatInv, NEW k \in StoreKey, NEW n \in IndexName, indexes[n] # NoIndex,
           unpack_table_id(k) = indexes[n].id
    PROVE  unpack_table_id(k) \notin CatalogIds(store, "table")
<1>1. indexes[n].id \in CatalogIds(store, "index")
  BY IndexFacts
<1> QED
  BY <1>1, IdsApart

\* One row written or removed and its entries after it, as INSERT, DELETE and an
\* UPDATE that leaves the key make their calls.
LEMMA RowEffect ==
    ASSUME IdsFit, CatInv, NEW id \in CatalogIds(store, "table"), NEW p \in 0..PRIMARY_KEY_MASK,
           NEW c \in Call, c.key = pack_key(id, p), c.val # Absent => c.val.row \in Row,
           RowKeyed(c.key, c.val), NEW calls,
           calls = <<c>> \o sync_indexes(id, RowList(store[c.key], p), RowList(c.val, p))
    PROVE  calls \in Seq(KeyedCalls) /\ RowChange(store, After(store, calls), id, p, c.val)
<1> DEFINE sync == sync_indexes(id, RowList(store[c.key], p), RowList(c.val, p))
           m == Applied(store, c)
<1>1. store \in Map /\ id \in 0..MaxId
  BY CatParts, Spans DEF CatalogIds
<1>2. c.key \in StoreKey /\ unpack_table_id(c.key) = id
  BY <1>1, KeyOf
<1>3. RowList(store[c.key], p) \in Seq(KeyedRow) /\ RowList(c.val, p) \in Seq(KeyedRow)
  <2>1. store[c.key] # Absent => store[c.key].row \in Row
    BY <1>2, StoredRow
  <2> QED
    BY <2>1, RowListTyped
<1>4. /\ m \in Map /\ m[c.key] = c.val
      /\ \A k \in StoreKey : k # c.key => m[k] = store[k]
  BY <1>1, AppliedRow
<1> HIDE DEF m
<1>5. /\ sync \in Seq(Call) /\ \A i \in 1..Len(sync) : RowKeyed(sync[i].key, sync[i].val)
      /\ \A k \in StoreKey : unpack_table_id(k) \in CatalogIds(store, "table") => After(m, sync)[k] = m[k]
      /\ \A n \in IndexName, k \in StoreKey :
            indexes[n] # NoIndex /\ unpack_table_id(k) = indexes[n].id =>
               After(m, sync)[k] = SyncedFor(id, n, k, RowList(store[c.key], p), RowList(c.val, p), m[k])
  BY <1>3, <1>4, SyncEffect, ZenonT(60)
<1> HIDE DEF sync
<1>6. After(store, calls) = After(m, sync)
  <2> DEFINE first == <<c>>
  <2>1. first \in Seq(Call) /\ calls = first \o sync
    BY OneElement DEF sync
  <2>2. sync \in Seq(Call) /\ After(store, first) = m
    BY <1>1, <1>5, AfterOne DEF m
  <2> HIDE DEF first
  <2>3. After(store, calls) = After(After(store, first), sync)
    BY <1>1, <2>1, <2>2, AfterConcat, ZenonT(60)
  <2> QED
    BY <2>2, <2>3
<1>7. calls \in Seq(KeyedCalls)
  <2>1. c \in KeyedCalls
    BY DEF KeyedCalls
  <2>2. <<c>> \in Seq(KeyedCalls) /\ sync \in Seq(KeyedCalls)
    BY <1>5, <2>1, OneElement, KeyedSeq
  <2> QED
    BY <2>2, KeyedSeq DEF sync
<1>8. ASSUME NEW n \in IndexName, NEW k \in StoreKey, indexes[n] # NoIndex, unpack_table_id(k) = indexes[n].id
      PROVE  After(m, sync)[k] = SyncedFor(id, n, k, RowList(store[c.key], p), RowList(c.val, p), store[k])
  <2>1. k # c.key
    BY <1>2, <1>8, BlockOf
  <2>2. m[k] = store[k]
    BY <1>4, <2>1
  <2> QED
    BY <1>5, <1>8, <2>2
<1>9. \A k \in StoreKey : unpack_table_id(k) = id =>
         After(m, sync)[k] = IF k = pack_key(id, p) THEN c.val ELSE store[k]
  BY <1>4, <1>5
<1>10. \A k \in StoreKey : unpack_table_id(k) \in CatalogIds(store, "table") \ {id} =>
          After(m, sync)[k] = store[k]
  BY <1>2, <1>4, <1>5
<1> QED
  BY <1>6, <1>7, <1>8, <1>9, <1>10 DEF RowChange

\* other is the store with v under primary key q of a table in place of what p had,
\* the entries of d, a row displaced, gone, and those of p's row changed to v's.
Moved(other, id, p, q, v, d, removes) ==
    /\ \A k \in StoreKey : unpack_table_id(k) = id =>
          other[k] = IF k = pack_key(id, q) THEN v
                     ELSE IF removes /\ k = pack_key(id, p) THEN Absent
                     ELSE store[k]
    /\ \A k \in StoreKey : unpack_table_id(k) \in CatalogIds(store, "table") \ {id} => other[k] = store[k]
    /\ \A n \in IndexName, k \in StoreKey : indexes[n] # NoIndex /\ unpack_table_id(k) = indexes[n].id =>
          other[k] = SyncedFor(id, n, k, RowList(store[pack_key(id, p)], p), RowList(v, q),
                               SyncedFor(id, n, k, RowList(d, q), RowList(Absent, q), store[k]))

\* The calls of an UPDATE for one row.
LEMMA UpdateEffect ==
    ASSUME IdsFit, CatInv, NEW id \in CatalogIds(store, "table"),
           NEW p \in 0..PRIMARY_KEY_MASK, NEW q \in 0..PRIMARY_KEY_MASK,
           NEW v \in StoreValue, v.row \in Row, RowKeyed(pack_key(id, q), v),
           NEW d, d # Absent => d.row \in Row, NEW removes \in BOOLEAN,
           NEW gone, gone = IF removes THEN <<RemoveCall(pack_key(id, p))>> ELSE <<>>,
           NEW put, put = <<PutCall(pack_key(id, q), v)>>,
           NEW calls,
           calls = sync_indexes(id, RowList(d, q), RowList(Absent, q)) \o gone \o put
                   \o sync_indexes(id, RowList(store[pack_key(id, p)], p), RowList(v, q))
    PROVE  calls \in Seq(KeyedCalls) /\ Moved(After(store, calls), id, p, q, v, d, removes)
<1> DEFINE from == pack_key(id, p)
           to   == pack_key(id, q)
           old  == RowList(store[from], p)
           new  == RowList(v, q)
           gap  == RowList(d, q)
           none == RowList(Absent, q)
           s1   == sync_indexes(id, gap, none)
           s2   == sync_indexes(id, old, new)
           m1   == After(store, s1)
           m2   == After(m1, gone)
           m3   == After(m2, put)
<1>1. store \in Map /\ id \in 0..MaxId
  BY CatParts, Spans DEF CatalogIds
<1>2. /\ from \in StoreKey /\ unpack_table_id(from) = id
      /\ to \in StoreKey /\ unpack_table_id(to) = id
  BY <1>1, KeyOf
<1>3. old \in Seq(KeyedRow) /\ new \in Seq(KeyedRow) /\ gap \in Seq(KeyedRow) /\ none \in Seq(KeyedRow)
  <2>1. store[from] # Absent => store[from].row \in Row
    BY <1>2, StoredRow
  <2> QED
    BY <2>1, RowListTyped
<1>4. PutCall(to, v) \in KeyedCalls /\ PutCall(to, v) \in Call /\ PutCall(to, v).key = to /\ PutCall(to, v).val = v
  <2>1. PutCall(to, v) \in Call
    BY <1>2 DEF PutCall, Call
  <2>2. PutCall(to, v).key = to /\ PutCall(to, v).val = v
    BY DEF PutCall
  <2> QED
    BY <2>1, <2>2 DEF KeyedCalls
<1>5. /\ RemoveCall(from) \in KeyedCalls /\ RemoveCall(from) \in Call
      /\ RemoveCall(from).key = from /\ RemoveCall(from).val = Absent
  <2>1. RemoveCall(from) \in Call
    BY <1>2 DEF RemoveCall, Call
  <2>2. RemoveCall(from).key = from /\ RemoveCall(from).val = Absent
    BY DEF RemoveCall
  <2> QED
    BY <2>1, <2>2 DEF KeyedCalls, RowKeyed
<1> HIDE DEF from, to
<1>6. put \in Seq(KeyedCalls) /\ put \in Seq(Call) /\ gone \in Seq(KeyedCalls) /\ gone \in Seq(Call)
  BY <1>4, <1>5, OneElement DEF from, to
<1> HIDE DEF old, new, gap, none
<1>7. /\ s1 \in Seq(Call) /\ m1 \in Map /\ \A i \in 1..Len(s1) : RowKeyed(s1[i].key, s1[i].val)
      /\ \A k \in StoreKey : unpack_table_id(k) \in CatalogIds(store, "table") => m1[k] = store[k]
      /\ \A n \in IndexName, k \in StoreKey : indexes[n] # NoIndex /\ unpack_table_id(k) = indexes[n].id =>
            m1[k] = SyncedFor(id, n, k, gap, none, store[k])
  <2>1. gap \in Seq(KeyedRow) /\ none \in Seq(KeyedRow)
    BY <1>3
  <2>2. s1 \in Seq(Call) /\ m1 \in Map
    BY <1>1, <2>1, SyncEffect
  <2>3. \A i \in 1..Len(s1) : RowKeyed(s1[i].key, s1[i].val)
    BY <1>1, <2>1, SyncEffect
  <2>4. ASSUME NEW k \in StoreKey
        PROVE  /\ unpack_table_id(k) \in CatalogIds(store, "table") => m1[k] = store[k]
               /\ \A n \in IndexName : indexes[n] # NoIndex /\ unpack_table_id(k) = indexes[n].id =>
                     m1[k] = SyncedFor(id, n, k, gap, none, store[k])
    BY <1>1, <2>1, SyncEffect
  <2> QED
    BY <2>2, <2>3, <2>4
<1> HIDE DEF s1, m1
<1>8. /\ m2 \in Map
      /\ \A k \in StoreKey : m2[k] = IF removes /\ k = from THEN Absent ELSE m1[k]
  <2>1. CASE removes
    <3>1. m2 = Applied(m1, RemoveCall(from))
      BY <1>5, <1>7, <2>1, AfterOne DEF from
    <3> HIDE DEF m2
    <3> QED
      BY <1>5, <1>7, <2>1, <3>1, AppliedRow
  <2>2. CASE ~ removes
    <3>1. m2 = m1
      BY <1>7, <2>2, AfterNone
    <3> HIDE DEF m2
    <3> QED
      BY <1>7, <2>2, <3>1
  <2> QED
    BY <2>1, <2>2
<1> HIDE DEF m2
<1>9. /\ m3 \in Map
      /\ \A k \in StoreKey : m3[k] = IF k = to THEN v ELSE m2[k]
  <2>1. m3 = Applied(m2, PutCall(to, v))
    BY <1>4, <1>8, AfterOne DEF to
  <2> HIDE DEF m3
  <2> QED
    BY <1>4, <1>8, <2>1, AppliedRow
<1> HIDE DEF m3
<1>10. /\ s2 \in Seq(Call) /\ \A i \in 1..Len(s2) : RowKeyed(s2[i].key, s2[i].val)
       /\ \A k \in StoreKey : unpack_table_id(k) \in CatalogIds(store, "table") => After(m3, s2)[k] = m3[k]
       /\ \A n \in IndexName, k \in StoreKey : indexes[n] # NoIndex /\ unpack_table_id(k) = indexes[n].id =>
             After(m3, s2)[k] = SyncedFor(id, n, k, old, new, m3[k])
  <2>1. old \in Seq(KeyedRow) /\ new \in Seq(KeyedRow) /\ m3 \in Map
    BY <1>3, <1>9
  <2>2. s2 \in Seq(Call)
    BY <2>1, SyncEffect
  <2>3. \A i \in 1..Len(s2) : RowKeyed(s2[i].key, s2[i].val)
    BY <2>1, SyncEffect
  <2>4. ASSUME NEW k \in StoreKey
        PROVE  /\ unpack_table_id(k) \in CatalogIds(store, "table") => After(m3, s2)[k] = m3[k]
               /\ \A n \in IndexName : indexes[n] # NoIndex /\ unpack_table_id(k) = indexes[n].id =>
                     After(m3, s2)[k] = SyncedFor(id, n, k, old, new, m3[k])
    BY <2>1, SyncEffect
  <2> QED
    BY <2>2, <2>3, <2>4
<1> HIDE DEF s2
<1>11. calls = s1 \o gone \o put \o s2
  BY DEF s1, s2, gap, none, old, new, from
<1>12. calls \in Seq(KeyedCalls)
  <2>1. s1 \in Seq(KeyedCalls) /\ s2 \in Seq(KeyedCalls)
    BY <1>7, <1>10, KeyedSeq
  <2>2. s1 \o gone \in Seq(KeyedCalls)
    BY <1>6, <2>1, KeyedSeq
  <2>3. s1 \o gone \o put \in Seq(KeyedCalls)
    BY <1>6, <2>2, KeyedSeq
  <2> QED
    BY <1>11, <2>1, <2>3, KeyedSeq
<1>13. After(store, calls) = After(m3, s2)
  <2> DEFINE a == s1 \o gone
             b == a \o put
  <2>0. s1 \in Seq(Call) /\ s2 \in Seq(Call) /\ gone \in Seq(Call) /\ put \in Seq(Call)
    BY <1>6, <1>7, <1>10
  <2>1. a \in Seq(Call) /\ After(store, a) = m2
    BY <1>1, <2>0, AfterConcat, ConcatProperties DEF m1, m2
  <2>2. calls = b \o s2
    BY <1>11
  <2> HIDE DEF a
  <2>3. b \in Seq(Call) /\ After(store, b) = m3
    BY <1>1, <2>0, <2>1, AfterConcat, ConcatProperties DEF m3
  <2> HIDE DEF b
  <2>4. After(store, b \o s2) = After(After(store, b), s2)
    BY <1>1, <2>0, <2>3, AfterConcat, ZenonT(60)
  <2> QED
    BY <2>2, <2>3, <2>4
<1>14. ASSUME NEW n \in IndexName, NEW k \in StoreKey, indexes[n] # NoIndex, unpack_table_id(k) = indexes[n].id
       PROVE  After(m3, s2)[k] = SyncedFor(id, n, k, old, new, SyncedFor(id, n, k, gap, none, store[k]))
  <2>1. k # from /\ k # to
    BY <1>2, <1>14, BlockOf
  <2>2. m3[k] = m1[k]
    BY <1>8, <1>9, <2>1
  <2> QED
    BY <1>7, <1>10, <1>14, <2>2
<1>15. ASSUME NEW k \in StoreKey, unpack_table_id(k) \in CatalogIds(store, "table")
       PROVE  After(m3, s2)[k] = IF k = to THEN v ELSE IF removes /\ k = from THEN Absent ELSE store[k]
  BY <1>7, <1>8, <1>9, <1>10, <1>15
<1>16. Moved(After(m3, s2), id, p, q, v, d, removes)
  BY <1>2, <1>14, <1>15 DEF Moved, old, new, gap, none, from, to
<1> QED
  BY <1>12, <1>13, <1>16

\* They keep every index in step.
LEMMA MovedInStep ==
    ASSUME IdsFit, CatInv, NEW id \in CatalogIds(store, "table"),
           NEW p \in 0..PRIMARY_KEY_MASK, NEW q \in 0..PRIMARY_KEY_MASK,
           NEW v \in StoreValue, v.row \in Row, NEW d, NEW removes \in BOOLEAN, NEW other,
           Moved(other, id, p, q, v, d, removes),
           store[pack_key(id, p)] # Absent,
           p = q => d = Absent,
           p # q => removes /\ d = store[pack_key(id, q)],
           NEW x \in Kept(indexes, half), InStep(store, x, Exempt),
           x.table = id => Indexable(v, q, x, Exempt)
    PROVE  InStep(other, x, Exempt)
<1> DEFINE from == pack_key(id, p)
           to   == pack_key(id, q)
           u    == store[from]
<1>1. PICK n \in IndexName : x = indexes[n] /\ indexes[n] # NoIndex
  BY DEF Kept
<1>2. x \in IndexRecord /\ x.table \in CatalogIds(store, "table")
  BY <1>1, IndexFacts
<1>3. id \in 0..MaxId /\ v # Absent
  BY Spans, StoredAssumption DEF CatalogIds
<1>4. /\ from \in StoreKey /\ unpack_table_id(from) = id
      /\ to \in StoreKey /\ unpack_table_id(to) = id
      /\ from = to => p = q
  BY <1>3, KeyOf
<1>5. u # Absent /\ u.row \in Row /\ (store[to] # Absent => store[to].row \in Row)
  BY <1>4, StoredRow
<1>6. CASE x.table # id
  <2>1. \A k \in StoreKey : unpack_table_id(k) \in {x.id, x.table} => other[k] = store[k]
    BY <1>1, <1>2, <1>6 DEF Moved, SyncedFor
  <2> QED
    BY <1>2, <2>1, InStepSame
<1>7. CASE x.table = id
  <2>1. ASSUME NEW k \in StoreKey, unpack_table_id(k) = x.id
        PROVE  other[k] = IF k = EntryIn(x, v, q) THEN EntryValue
                          ELSE IF k = EntryIn(x, u, p) THEN Absent
                          ELSE IF d # Absent /\ k = EntryIn(x, d, q) THEN Absent
                          ELSE store[k]
    <3>1. other[k] = SyncedRow(n, k, RowList(u, p), RowList(v, q), SyncedRow(n, k, RowList(d, q), RowList(Absent, q), store[k]))
      BY <1>1, <1>7, <2>1 DEF Moved, SyncedFor
    <3> HIDE DEF u
    <3>2. SyncedRow(n, k, RowList(d, q), RowList(Absent, q), store[k])
          = IF d # Absent /\ k = EntryIn(x, d, q) THEN Absent ELSE store[k]
      BY <1>1, SyncedOne
    <3> QED
      BY <1>1, <1>3, <1>5, <3>1, <3>2, SyncedOne
  <2>2. \A k \in StoreKey : unpack_table_id(k) = x.table =>
           other[k] = IF k = to THEN v ELSE IF removes /\ k = from THEN Absent ELSE store[k]
    BY <1>7 DEF Moved
  <2>3. CASE p = q
    <3>1. Replaced(store, other, x, q, v)
      BY <1>3, <1>5, <1>7, <2>1, <2>2, <2>3 DEF Replaced
    <3> QED
      BY <1>2, <1>5, <1>7, <2>3, <3>1, InStepReplaced
  <2>4. CASE p # q
    <3> DEFINE mid == [k \in StoreKey |-> IF k = from \/ k = EntryIn(x, u, p) THEN Absent ELSE store[k]]
    <3>1. \A k \in StoreKey : mid[k] = IF k = from \/ k = EntryIn(x, u, p) THEN Absent ELSE store[k]
      OBVIOUS
    <3> HIDE DEF mid
    <3>2. EntryIn(x, u, p) \in StoreKey /\ unpack_table_id(EntryIn(x, u, p)) = x.id
      BY <1>2, <1>5, EntryInBlock
    <3>3. x.id # id
      BY <1>1, <1>4, BlockOf
    <3>4. Replaced(store, mid, x, p, Absent)
      BY <1>4, <1>5, <1>7, <3>1, <3>2, <3>3 DEF Replaced
    <3>5. InStep(mid, x, Exempt)
      BY <1>2, <1>5, <1>7, <3>4, InStepReplaced
    <3>6. mid[to] = d
      BY <1>4, <2>4, <3>1, <3>2, <3>3
    <3>7. Replaced(mid, other, x, q, v)
      <4>1. \A k \in StoreKey : unpack_table_id(k) = x.table =>
               other[k] = IF k = pack_key(x.table, q) THEN v ELSE mid[k]
        BY <1>7, <2>2, <2>4, <3>1, <3>2, <3>3
      <4>2. \A k \in StoreKey : unpack_table_id(k) = x.id =>
               other[k] = IF v # Absent /\ k = EntryIn(x, v, q) THEN EntryValue
                          ELSE IF d # Absent /\ k = EntryIn(x, d, q) THEN Absent
                          ELSE mid[k]
        BY <1>3, <1>4, <2>1, <3>1, <3>3
      <4> HIDE DEF from, u
      <4> QED
        BY <1>7, <3>6, <4>1, <4>2 DEF Replaced, to
    <3>8. mid[pack_key(x.table, q)] # Absent => mid[pack_key(x.table, q)].row \in Row
      BY <1>5, <1>7, <2>4, <3>6
    <3> QED
      BY <1>2, <1>3, <1>7, <3>5, <3>7, <3>8, InStepReplaced
  <2> QED
    BY <2>3, <2>4
<1> QED
  BY <1>6, <1>7

\* A step of a statement that makes no call.
LEMMA NoCallsSync ==
    ASSUME IdsFit, CatInv, SyncInv, store' = store, file' = file, tables' = tables,
           indexes' = indexes, interrupted' = interrupted, half' = half,
           todo = <<>>, todo' = <<>>, stmt'.kind \notin {"create_table", "create_index"},
           PendingCurrent', AssignsOk', MovesOne'
    PROVE  SyncInv'
<1>1. After(store, todo') = store
  BY CatParts, AfterNone
<1>2. \A n \in DOMAIN todo' : RowKeyed(todo'[n].key, todo'[n].val)
  OBVIOUS
<1> QED
  BY <1>1, <1>2, StatementSync

\* Without calls, what the statement leaves is the store.
LEMMA FinalIsStore ==
    ASSUME CatInv, todo = <<>>
    PROVE  Final = store
BY CatParts, AfterNone DEF Final

\* A primary key a statement may use fits the bits for it.
LEMMA LargestKey ==
    ASSUME NEW id
    PROVE  /\ max_primary_key(id) \in Nat /\ max_primary_key(id) <= PRIMARY_KEY_MASK
           /\ indexes_for_table(id) # {} => max_primary_key(id) = SECONDARY_PK_MASK
BY Spans DEF max_primary_key

\* What a table may hold depends on its indexes only.
LEMMA SameAllowed ==
    ASSUME indexes' = indexes, NEW id, NEW c, NEW v
    PROVE  ValueOk(id, c, v)' <=> ValueOk(id, c, v)
BY DEF ValueOk, max_primary_key, find_index_for_column, indexes_for_table

\* A value that may be assigned can be kept by every index of the table.
LEMMA AllowedFits ==
    ASSUME NEW x \in Kept(indexes, half), NEW c \in Column, NEW v \in Int, ValueOk(x.table, c, v)
    PROVE  /\ c = "id" => v <= SECONDARY_PK_MASK
           /\ c = x.column /\ c # "id" => v \in 0..SECONDARY_VALUE_MASK
<1>1. PICK n \in IndexName : x = indexes[n] /\ indexes[n] # NoIndex
  BY DEF Kept
<1>2. n \in indexes_for_table(x.table)
  BY <1>1 DEF indexes_for_table
<1>3. c = x.column => n \in find_index_for_column(x.table, c)
  BY <1>1, <1>2 DEF find_index_for_column
<1>4. c = "id" => v <= SECONDARY_PK_MASK
  BY <1>2, LargestKey DEF ValueOk
<1>5. c = x.column /\ c # "id" => 0 <= v /\ v <= SECONDARY_VALUE_MASK
  BY <1>3 DEF ValueOk
<1>6. SECONDARY_VALUE_MASK \in Int
  BY Spans DEF SECONDARY_VALUE_MASK
<1> QED
  BY <1>4, <1>5, <1>6

\* UPDATE and DELETE note what to search for.
LEMMA BeginSync ==
    ASSUME IdsFit, CatInv, SyncInv, NEW kind \in {"update", "delete"}, NEW table \in TableName,
           NEW set, NEW where, Begin(kind, table, set, where),
           kind = "update" /\ set.id # Absent => Len(find_matches(tables[table], where)) <= 1
    PROVE  SyncInv'
<1>1. /\ stmt' = [kind |-> kind, id |-> tables[table], set |-> set, where |-> where]
      /\ store' = store /\ file' = file /\ tables' = tables /\ indexes' = indexes
      /\ pending' = pending /\ todo' = todo /\ interrupted' = interrupted /\ half' = half
      /\ Idle
  BY DEF Begin, data, catalog, faults
<1>2. pending = <<>> /\ todo = <<>>
  BY <1>1, IdleParts
<1>3. /\ stmt'.kind = kind /\ stmt'.id = tables[table] /\ stmt'.set = set /\ stmt'.where = where
      /\ DOMAIN stmt' = {"kind", "id", "set", "where"}
  BY <1>1
<1>4. PendingCurrent'
  BY <1>1, <1>2 DEF PendingCurrent
<1>5. AssignsOk'
  <2>1. \A c \in Column : set[c] # Absent => ValueOk(tables[table], c, set[c])
    BY DEF Begin
  <2>2. \A c \in Column : set[c] # Absent => ValueOk(tables[table], c, set[c])'
    BY <1>1, <2>1, SameAllowed
  <2>3. tables[table]' = tables[table]
    BY <1>1
  <2> QED
    BY <1>3, <2>2, <2>3 DEF AssignsOk
<1>6. MovesOne'
  <2>3. Searching'
    BY <1>3 DEF Searching
  <2>4. find_matches(stmt.id, stmt.where)' = find_matches(tables[table], where)
    BY <1>1, <1>3, SMTT(30) DEF find_matches, PointLookup, collect_matches, Found, InRange, Present
  <2> QED
    BY <1>3, <2>3, <2>4 DEF MovesOne
<1> QED
  BY <1>1, <1>2, <1>3, <1>4, <1>5, <1>6, NoCallsSync

\* The search: what it finds is in the store.
LEMMA SearchSync ==
    ASSUME IdsFit, CatInv, SyncInv, Search
    PROVE  SyncInv'
<1>1. /\ Searching /\ pending' = find_matches(stmt.id, stmt.where)
      /\ stmt' = [kind |-> stmt.kind, id |-> stmt.id, set |-> stmt.set]
      /\ store' = store /\ file' = file /\ tables' = tables /\ indexes' = indexes
      /\ todo' = todo /\ interrupted' = interrupted /\ half' = half
  BY DEF Search, data, catalog, faults
<1>2. todo = <<>>
  BY <1>1 DEF CatInv, ExecTypeOK
<1>3. /\ stmt'.kind = stmt.kind /\ stmt'.id = stmt.id /\ stmt'.set = stmt.set
      /\ DOMAIN stmt' = {"kind", "id", "set"} /\ stmt.kind \in {"update", "delete"}
  BY <1>1 DEF Searching
<1>4. MatchesOf(pending', stmt.id)
  BY <1>1, SearchFinds
<1>5. After(store', todo') = store
  BY <1>1, <1>2, CatParts, AfterNone
<1>6. PendingCurrent'
  <2>1. DOMAIN pending' = 1..Len(pending')
    BY <1>4, LenProperties DEF MatchesOf
  <2> QED
    BY <1>4, <1>5, <2>1 DEF MatchesOf, PendingCurrent, Final
<1>7. MovesOne'
  <2>1. ~ Searching'
    BY <1>3 DEF Searching
  <2>2. MovesOne
    BY DEF SyncInv
  <2> QED
    BY <1>1, <1>3, <2>1, <2>2 DEF MovesOne
<1>8. AssignsOk'
  BY <1>1, <1>3, SameAllowed DEF SyncInv, AssignsOk
<1> QED
  BY <1>1, <1>2, <1>3, <1>6, <1>7, <1>8, NoCallsSync

\* The end.
LEMMA FinishSync ==
    ASSUME IdsFit, CatInv, SyncInv, Finish
    PROVE  SyncInv'
<1>1. /\ todo = <<>> /\ pending = <<>> /\ stmt' = Nothing
      /\ store' = store /\ file' = file /\ tables' = tables /\ indexes' = indexes
      /\ pending' = pending /\ todo' = todo /\ interrupted' = interrupted /\ half' = half
  BY DEF Finish, data, catalog, faults
<1>2. stmt'.kind = "none"
  BY <1>1 DEF Nothing
<1>3. PendingCurrent'
  BY <1>1 DEF PendingCurrent
<1>4. AssignsOk' /\ MovesOne'
  BY <1>2 DEF AssignsOk, MovesOne
<1> QED
  BY <1>1, <1>2, <1>3, <1>4, NoCallsSync

\* INSERT.
LEMMA InsertSync ==
    ASSUME IdsFit, CatInv, SyncInv, NEW table \in TableName, NEW i \in IdLiteral, NEW a \in ALiteral,
           Insert(table, [id |-> i, a |-> a])
    PROVE  SyncInv'
<1> DEFINE row == [id |-> i, a |-> a]
           id  == tables[table]
           key == pack_key(id, i)
           v   == RowValue(row)
           old == IF store[key] = Absent THEN <<>> ELSE <<[pk |-> i, row |-> store[key].row]>>
           new == <<[pk |-> i, row |-> row]>>
           c   == PutCall(key, v)
<1>1. /\ Idle /\ id # 0 /\ ValueOk(id, "id", i) /\ ValueOk(id, "a", a)
      /\ todo' = <<c>> \o sync_indexes(id, old, new)
      /\ stmt' = [kind |-> "insert", id |-> id]
      /\ store' = store /\ file' = file /\ tables' = tables /\ indexes' = indexes
      /\ pending' = pending /\ interrupted' = interrupted /\ half' = half
  BY DEF Insert, data, catalog, faults, Column
<1>2. pending = <<>> /\ todo = <<>>
  BY <1>1, IdleParts
<1>3. i \in Int /\ a \in Int /\ i \in 0..PRIMARY_KEY_MASK /\ i <= max_primary_key(id)
  <2>1. i \in Int \cup {Text} /\ a \in Int \cup {Text}
    BY ExecAssumption
  <2>2. i # Text /\ a # Text /\ i <= max_primary_key(id)
    BY <1>1 DEF ValueOk
  <2>3. i \in Int
    BY <2>1, <2>2
  <2> QED
    BY <1>1, <2>1, <2>2, <2>3, KeyAllowed
<1>4. row \in Row /\ row.id = i
  BY <1>3 DEF Row
<1>5. id \in CatalogIds(store, "table") /\ id \in 0..MaxId
  BY <1>1, CatParts, InCatalog, Spans DEF CatalogIds
<1>6. key \in StoreKey /\ unpack_primary_key(key) = i
  BY <1>3, <1>5, KeyOf
<1>7. v \in StoreValue /\ v # Absent /\ v.row = row
  BY <1>4, StoredAssumption DEF StoreValue, RowValue
<1>8. c \in Call /\ c.key = key /\ c.val = v
  BY <1>6, <1>7 DEF PutCall, Call
<1>9. RowKeyed(key, v)
  BY <1>4, <1>6, <1>7 DEF RowKeyed
<1>10. old = RowList(store[key], i) /\ new = RowList(v, i)
  BY <1>7 DEF RowList
<1> HIDE DEF id, row, v, old, new, c
<1>11. todo' = <<c>> \o sync_indexes(id, RowList(store[c.key], i), RowList(c.val, i))
  BY <1>1, <1>8, <1>10
<1>12. todo' \in Seq(KeyedCalls) /\ RowChange(store, After(store, todo'), id, i, v)
  BY <1>3, <1>4, <1>5, <1>7, <1>8, <1>9, <1>11, RowEffect
<1>13. ASSUME NEW x \in Kept(indexes, half), InStep(store, x, Exempt)
       PROVE  InStep(After(store, todo'), x, Exempt)
  <2>1. x.table = id => Indexable(v, i, x, Exempt)
    <3>1. x.column \in Column
      BY IndexFacts DEF Kept, IndexRecord
    <3>2. x.table = id => /\ i <= SECONDARY_PK_MASK
                          /\ x.column = "a" => a \in 0..SECONDARY_VALUE_MASK
      BY <1>1, <1>3, AllowedFits DEF Column
    <3>3. v.row.a = a
      BY <1>7 DEF row
    <3> QED
      BY <3>1, <3>2, <3>3 DEF Column, Indexable
  <2>2. store[key] # Absent => store[key].row \in Row
    <3>1. unpack_table_id(key) = id
      BY <1>3, <1>5, KeyOf
    <3> QED
      BY <1>5, <1>6, <3>1, StoredRow
  <2> QED
    BY <1>3, <1>4, <1>5, <1>7, <1>12, <1>13, <2>1, <2>2, RowChanged
<1>14. \A n \in DOMAIN todo' : RowKeyed(todo'[n].key, todo'[n].val)
  BY <1>12, KeyedSeq, LenProperties
<1>15. stmt'.kind = "insert"
  BY <1>1
<1>16. PendingCurrent'
  BY <1>1, <1>2 DEF PendingCurrent
<1>17. AssignsOk' /\ MovesOne'
  BY <1>15 DEF AssignsOk, MovesOne
<1> QED
  BY <1>1, <1>2, <1>13, <1>14, <1>15, <1>16, <1>17, StatementSync

\* The next match of an UPDATE or DELETE, in the store as it was found.
LEMMA MatchStored ==
    ASSUME IdsFit, CatInv, SyncInv, todo = <<>>, pending # <<>>
    PROVE  LET m == Head(pending)
               p == unpack_primary_key(m.key)
           IN  /\ m.key \in StoreKey /\ m.row \in Row /\ unpack_table_id(m.key) = stmt.id
               /\ stmt.id \in CatalogIds(store, "table") /\ stmt.id \in 0..MaxId
               /\ p \in 0..PRIMARY_KEY_MASK /\ m.key = pack_key(stmt.id, p)
               /\ store[m.key] = RowValue(m.row) /\ RowValue(m.row) # Absent
               /\ RowValue(m.row).row = m.row /\ m.row.id = p
               /\ stmt.kind \in {"update", "delete"} /\ stmt.set \in [id : Literal, a : Literal]
<1> DEFINE m == Head(pending)
           p == unpack_primary_key(m.key)
<1>1. /\ m \in Match /\ unpack_table_id(m.key) = stmt.id
      /\ stmt.kind \in {"update", "delete"} /\ stmt.set \in [id : Literal, a : Literal]
      /\ stmt.id \in CatalogIds(store, "table") /\ stmt.id \in 0..MaxId
  BY NextMatch
<1>2. m.key \in StoreKey /\ m.row \in Row
  BY <1>1 DEF Match
<1>3. p \in 0..PRIMARY_KEY_MASK /\ m.key = pack_key(stmt.id, p)
  BY <1>1, <1>2, KeyParts
<1>4. RowValue(m.row) # Absent /\ RowValue(m.row).row = m.row /\ RowValue(m.row).kind = "row"
  BY <1>2, StoredAssumption DEF StoreValue, RowValue
<1>5. store[m.key] = RowValue(m.row)
  <2>1. m = pending[1] /\ 1 \in DOMAIN pending
    BY CatParts, HeadTail
  <2>2. Final[pending[1].key] = RowValue(pending[1].row)
    BY <2>1 DEF SyncInv, PendingCurrent
  <2> QED
    BY <2>1, <2>2, FinalIsStore
<1>6. m.row.id = p
  BY <1>2, <1>4, <1>5 DEF SyncInv, RowsKeyed, RowKeyed
<1> QED
  BY <1>1, <1>2, <1>3, <1>4, <1>5, <1>6

\* A step that takes one match and works out its calls.
LEMMA MatchSync ==
    ASSUME IdsFit, CatInv, SyncInv, todo = <<>>, pending # <<>>, pending' = Tail(pending),
           ~ Searching, UNCHANGED <<data, catalog, stmt, faults>>,
           todo' \in Seq(KeyedCalls),
           \/ Len(pending) <= 1
           \/ \A k \in StoreKey : unpack_table_id(k) = stmt.id /\ k # Head(pending).key =>
                 After(store, todo')[k] = store[k],
           \A x \in Kept(indexes, half) :
              InStep(store, x, Exempt) => InStep(After(store, todo'), x, Exempt)
    PROVE  SyncInv'
<1>1. /\ store' = store /\ file' = file /\ tables' = tables /\ indexes' = indexes
      /\ stmt' = stmt /\ interrupted' = interrupted /\ half' = half
  BY DEF data, catalog, faults
<1>2. /\ pending \in Seq(Match) /\ Head(pending) = pending[1] /\ DOMAIN pending = 1..Len(pending)
      /\ Len(pending) \in Nat /\ Len(pending') = Len(pending) - 1 /\ DOMAIN pending' = 1..(Len(pending) - 1)
      /\ \A n \in 1..(Len(pending) - 1) : pending'[n] = pending[n + 1] /\ n + 1 \in 2..Len(pending)
  BY CatParts, HeadTail
<1>3. stmt.kind \in {"update", "delete"}
  BY NextMatch
<1>4. PendingCurrent'
  <2>1. ASSUME NEW n \in 1..(Len(pending) - 1)
        PROVE  After(store, todo')[pending'[n].key] = RowValue(pending'[n].row)
    <3>1. n + 1 \in 1..Len(pending) /\ 1 \in 1..Len(pending) /\ 1 < n + 1 /\ ~ (Len(pending) <= 1)
      BY <1>2
    <3>2. /\ Final[pending[n + 1].key] = RowValue(pending[n + 1].row)
          /\ pending[1].key # pending[n + 1].key
      BY <1>2, <3>1 DEF SyncInv, PendingCurrent
    <3>3. pending[n + 1].key \in StoreKey /\ unpack_table_id(pending[n + 1].key) = stmt.id
      <4>1. pending[n + 1] \in Match
        BY <1>2, <3>1, ElementOfSeq
      <4> QED
        BY <1>2, <3>1, <4>1 DEF Match, CatInv, CatalogInv
    <3>4. After(store, todo')[pending[n + 1].key] = store[pending[n + 1].key]
      BY <1>2, <3>1, <3>2, <3>3
    <3> QED
      BY <1>2, <3>2, <3>4, FinalIsStore
  <2>2. \A n, k \in DOMAIN pending' : n < k => pending'[n].key # pending'[k].key
    <3>1. \A n, k \in DOMAIN pending : n < k => pending[n].key # pending[k].key
      BY DEF SyncInv, PendingCurrent
    <3>2. ASSUME NEW n \in DOMAIN pending', NEW k \in DOMAIN pending', n < k
          PROVE  pending'[n].key # pending'[k].key
      <4>1. n + 1 \in DOMAIN pending /\ k + 1 \in DOMAIN pending /\ n + 1 < k + 1
        BY <1>2, <3>2
      <4> QED
        BY <1>2, <3>1, <4>1
    <3> QED
      BY <3>2
  <2> QED
    BY <1>1, <1>2, <2>1, <2>2 DEF PendingCurrent, Final
<1>5. MovesOne'
  <2>1. ~ Searching'
    BY <1>1 DEF Searching
  <2>2. Len(pending) <= 1 => Len(pending') <= 1
    BY <1>2
  <2> QED
    BY <1>1, <2>1, <2>2 DEF SyncInv, MovesOne
<1>6. \A n \in DOMAIN todo' : RowKeyed(todo'[n].key, todo'[n].val)
  BY KeyedSeq, LenProperties
<1>7. AssignsOk'
  BY <1>1, SameAllowed DEF SyncInv, AssignsOk
<1> QED
  BY <1>1, <1>3, <1>4, <1>5, <1>6, <1>7, StatementSync

\* DELETE.
LEMMA DeleteRowSync ==
    ASSUME IdsFit, CatInv, SyncInv, DeleteRow
    PROVE  SyncInv'
<1> DEFINE m    == Head(pending)
           p    == unpack_primary_key(m.key)
           old  == <<[pk |-> p, row |-> m.row]>>
           none == <<>>
           c    == RemoveCall(m.key)
<1>1. /\ pending # <<>> /\ todo = <<>> /\ ~ Searching /\ pending' = Tail(pending)
      /\ todo' = <<c>> \o sync_indexes(stmt.id, old, none)
      /\ UNCHANGED <<data, catalog, stmt, faults>>
  BY DEF DeleteRow
<1>2. /\ m.key \in StoreKey /\ m.row \in Row
      /\ stmt.id \in CatalogIds(store, "table") /\ p \in 0..PRIMARY_KEY_MASK
      /\ m.key = pack_key(stmt.id, p) /\ store[m.key] = RowValue(m.row)
      /\ RowValue(m.row) # Absent /\ RowValue(m.row).row = m.row
  BY <1>1, MatchStored
<1>3. old = RowList(store[m.key], p) /\ none = RowList(Absent, p)
  BY <1>2 DEF RowList
<1>4. c \in Call /\ c.key = m.key /\ c.val = Absent
  BY <1>2 DEF RemoveCall, Call
<1>5. RowKeyed(c.key, c.val)
  BY <1>4 DEF RowKeyed
<1> HIDE DEF m, p, old, none, c
<1>6. todo' = <<c>> \o sync_indexes(stmt.id, RowList(store[c.key], p), RowList(c.val, p))
  BY <1>1, <1>3, <1>4
<1>7. todo' \in Seq(KeyedCalls) /\ RowChange(store, After(store, todo'), stmt.id, p, Absent)
  BY <1>2, <1>4, <1>5, <1>6, RowEffect
<1>8. \A x \in Kept(indexes, half) :
         InStep(store, x, Exempt) => InStep(After(store, todo'), x, Exempt)
  BY <1>2, <1>7, RowChanged
<1>9. \A k \in StoreKey : unpack_table_id(k) = stmt.id /\ k # m.key => After(store, todo')[k] = store[k]
  BY <1>2, <1>7 DEF RowChange
<1> QED
  BY <1>1, <1>7, <1>8, <1>9, MatchSync DEF m

\* UPDATE.
LEMMA UpdateRowSync ==
    ASSUME IdsFit, CatInv, SyncInv, UpdateRow
    PROVE  SyncInv'
<1> DEFINE m         == Head(pending)
           p         == unpack_primary_key(m.key)
           row       == Assigned(m.row)
           moves     == stmt.set.id # Absent
           new_key   == IF moves THEN pack_key(stmt.id, row.id) ELSE m.key
           q         == unpack_primary_key(new_key)
           displaced == IF moves /\ new_key # m.key /\ store[new_key] # Absent
                        THEN <<[pk |-> q, row |-> store[new_key].row]>>
                        ELSE <<>>
           old       == <<[pk |-> p, row |-> m.row]>>
           new       == <<[pk |-> q, row |-> row]>>
           none      == <<>>
           gone      == IF moves THEN <<RemoveCall(m.key)>> ELSE <<>>
           v         == RowValue(row)
           put       == <<PutCall(new_key, v)>>
           d         == IF moves /\ new_key # m.key THEN store[new_key] ELSE Absent
<1>1. /\ stmt.kind = "update" /\ pending # <<>> /\ todo = <<>> /\ ~ Searching /\ pending' = Tail(pending)
      /\ todo' = sync_indexes(stmt.id, displaced, none) \o gone \o put \o sync_indexes(stmt.id, old, new)
      /\ UNCHANGED <<data, catalog, stmt, faults>>
  BY DEF UpdateRow
<1>2. /\ m.key \in StoreKey /\ m.row \in Row /\ unpack_table_id(m.key) = stmt.id
      /\ stmt.id \in CatalogIds(store, "table") /\ stmt.id \in 0..MaxId
      /\ p \in 0..PRIMARY_KEY_MASK
      /\ m.key = pack_key(stmt.id, p) /\ store[m.key] = RowValue(m.row)
      /\ RowValue(m.row) # Absent /\ RowValue(m.row).row = m.row /\ m.row.id = p
      /\ stmt.set \in [id : Literal, a : Literal]
  BY <1>1, MatchStored
<1>3. /\ \A c \in Column : stmt.set[c] # Absent => stmt.set[c] \in Int /\ ValueOk(stmt.id, c, stmt.set[c])
      /\ moves => stmt.set.id \in 0..PRIMARY_KEY_MASK /\ Len(pending) <= 1
  <2>1. \A c \in Column : stmt.set[c] # Absent => ValueOk(stmt.id, c, stmt.set[c])
    BY <1>1 DEF SyncInv, AssignsOk
  <2>2. \A c \in Column : stmt.set[c] # Absent => stmt.set[c] \in Int
    BY <1>2 DEF Literal, Column
  <2>3. moves => Len(pending) <= 1
    BY <1>1 DEF SyncInv, MovesOne
  <2> QED
    BY <2>1, <2>2, <2>3, KeyAllowed DEF Column
<1>4. row \in Row /\ row.id = IF moves THEN stmt.set.id ELSE p
  <2>1. row \in Row
    BY <1>2, AssignedRow
  <2>2. row.id = IF moves THEN stmt.set.id ELSE p
    BY <1>2 DEF Assigned
  <2> QED
    BY <2>1, <2>2
<1> HIDE DEF row, p
<1>5. row.id \in 0..PRIMARY_KEY_MASK /\ new_key = pack_key(stmt.id, row.id)
  BY <1>2, <1>3, <1>4
<1>6. q = row.id /\ new_key \in StoreKey /\ unpack_table_id(new_key) = stmt.id /\ new_key = pack_key(stmt.id, q)
  BY <1>2, <1>5, KeyOf
<1>7. v \in StoreValue /\ v # Absent /\ v.row = row /\ RowKeyed(new_key, v)
  <2>1. v \in StoreValue
    BY <1>4 DEF StoreValue, RowValue
  <2>2. v.row = row
    BY DEF RowValue
  <2> QED
    BY <1>6, <2>1, <2>2, StoredAssumption DEF RowKeyed
<1>8. /\ displaced = RowList(d, q) /\ none = RowList(Absent, q) /\ new = RowList(v, q)
      /\ old = RowList(store[m.key], p)
  BY <1>2, <1>7 DEF RowList
<1>9. (p = q => d = Absent) /\ (p # q => moves /\ d = store[new_key])
  <2>1. p = q => new_key = m.key
    BY <1>2, <1>6
  <2>2. p # q => new_key # m.key
    BY <1>2, <1>6 DEF p
  <2>3. p # q => moves
    BY <1>4, <1>6
  <2> QED
    BY <2>1, <2>2, <2>3
<1>10. d # Absent => d.row \in Row
  BY <1>2, <1>6, StoredRow
<1> HIDE DEF m, new_key, q, displaced, old, new, none, gone, v, put, d, moves
<1>11. /\ gone = IF moves THEN <<RemoveCall(pack_key(stmt.id, p))>> ELSE <<>>
       /\ put = <<PutCall(pack_key(stmt.id, q), v)>>
  BY <1>2, <1>6 DEF gone, put
<1>12. todo' = sync_indexes(stmt.id, RowList(d, q), RowList(Absent, q)) \o gone \o put
               \o sync_indexes(stmt.id, RowList(store[pack_key(stmt.id, p)], p), RowList(v, q))
  BY <1>1, <1>2, <1>8
<1>13. moves \in BOOLEAN
  BY DEF moves
<1>14. q \in 0..PRIMARY_KEY_MASK
  BY <1>5, <1>6
<1>15. v.row \in Row /\ RowKeyed(pack_key(stmt.id, q), v)
  BY <1>4, <1>6, <1>7
<1>16. todo' \in Seq(KeyedCalls) /\ Moved(After(store, todo'), stmt.id, p, q, v, d, moves)
  BY <1>2, <1>7, <1>10, <1>11, <1>12, <1>13, <1>14, <1>15, UpdateEffect, ZenonT(60)
<1>17. ASSUME NEW x \in Kept(indexes, half), InStep(store, x, Exempt)
       PROVE  InStep(After(store, todo'), x, Exempt)
  <2>1. ASSUME x.table = stmt.id
        PROVE  Indexable(v, q, x, Exempt)
    <3>1. Indexable(RowValue(m.row), p, x, Exempt)
      BY <1>2, <1>17, <2>1 DEF InStep
    <3>2. x.column \in Column
      BY IndexFacts DEF Kept, IndexRecord
    <3>3. /\ moves => row.id <= SECONDARY_PK_MASK
          /\ stmt.set.a # Absent /\ x.column = "a" => stmt.set.a \in 0..SECONDARY_VALUE_MASK
      BY <1>3, <1>4, <2>1, AllowedFits DEF Column, moves
    <3>4. v.row.a = IF stmt.set.a = Absent THEN m.row.a ELSE stmt.set.a
      BY <1>7 DEF row, Assigned
    <3>5. ~ moves => q = p
      BY <1>4, <1>6
    <3> QED
      BY <1>2, <1>6, <3>1, <3>2, <3>3, <3>4, <3>5 DEF Column, Indexable
  <2>2. store[pack_key(stmt.id, p)] # Absent
    BY <1>2
  <2>3. p # q => moves /\ d = store[pack_key(stmt.id, q)]
    BY <1>6, <1>9
  <2> QED
    BY <1>2, <1>7, <1>9, <1>13, <1>14, <1>15, <1>16, <1>17, <2>1, <2>2, <2>3, MovedInStep
<1>18. \/ Len(pending) <= 1
       \/ \A k \in StoreKey : unpack_table_id(k) = stmt.id /\ k # m.key => After(store, todo')[k] = store[k]
  <2>1. CASE moves
    BY <1>3, <2>1
  <2>2. CASE ~ moves
    <3>1. pack_key(stmt.id, q) = m.key
      BY <1>2, <1>9, <2>2
    <3> QED
      BY <1>16, <2>2, <3>1 DEF Moved
  <2> QED
    BY <2>1, <2>2
<1> QED
  BY <1>1, <1>16, <1>17, <1>18, MatchSync DEF m

\* Ids not given out yet have no row in the catalog, no keys, and are no index's or table's.
LEMMA Unused ==
    ASSUME IdsFit, CatInv
    PROVE  /\ \A map \in {store, file} : \A kind : \A id \in CatalogIds(map, kind) : id < next_id
           /\ \A k \in StoreKey : unpack_table_id(k) >= next_id => store[k] = Absent /\ file[k] = Absent
           /\ \A x \in Kept(indexes, half) : x.id < next_id /\ x.table < next_id
<1>1. next_id \in Int /\ next_id >= 1
  BY CatParts, Spans
<1>2. \A map \in {store, file} : \A kind : \A id \in CatalogIds(map, kind) : id < next_id
  BY CatParts DEF CatOK, CatalogIds
<1>3. ASSUME NEW map \in {store, file}, NEW k \in StoreKey, unpack_table_id(k) >= next_id
      PROVE  map[k] = Absent
  <2>1. map \in Map /\ KeysApart(map)
    BY CatParts
  <2>2. unpack_table_id(k) \in Int
    BY KeyParts, Spans
  <2>3. unpack_table_id(k) # CATALOG_TABLE_ID
    BY <1>1, <1>3, <2>2 DEF CATALOG_TABLE_ID
  <2>4. \A kind : unpack_table_id(k) \notin CatalogIds(map, kind)
    <3>1. ~ (unpack_table_id(k) < next_id)
      BY <1>1, <1>3, <2>2
    <3> QED
      BY <1>2, <3>1
  <2> QED
    BY <2>1, <2>3, <2>4, Blocks
<1>4. \A x \in Kept(indexes, half) : x.id < next_id /\ x.table < next_id
  <2>1. ASSUME NEW n \in IndexName, indexes[n] # NoIndex
        PROVE  indexes[n].id < next_id /\ indexes[n].table < next_id
    BY <1>2, <2>1, IndexFacts
  <2> QED
    BY <2>1 DEF Kept
<1> QED
  BY <1>2, <1>3, <1>4

\* CREATE TABLE.
LEMMA CreateTableSync ==
    ASSUME IdsFit, CatInv, SyncInv, NEW name \in TableName, CreateTable(name)
    PROVE  SyncInv'
<1> DEFINE c == PutCall(pack_key(CATALOG_TABLE_ID, next_id), TableValue(name))
<1>1. /\ Idle /\ next_id \in 0..MaxId /\ todo' = <<c>>
      /\ stmt' = [kind |-> "create_table", id |-> next_id]
      /\ store' = store /\ file' = file /\ tables' = tables /\ indexes' = indexes
      /\ pending' = pending /\ interrupted' = interrupted /\ half' = half
  BY CatParts, Spans DEF CreateTable, data, faults
<1>2. pending = <<>> /\ todo = <<>> /\ store \in Map
  BY <1>1, IdleParts, CatParts
<1>3. /\ c.key \in StoreKey /\ unpack_table_id(c.key) = CATALOG_TABLE_ID
      /\ c.val \in StoreValue /\ c.val # Absent /\ c.val.kind = "table"
  <2>1. pack_key(CATALOG_TABLE_ID, next_id) \in StoreKey /\ unpack_table_id(pack_key(CATALOG_TABLE_ID, next_id)) = CATALOG_TABLE_ID
    BY <1>1, CatalogKey
  <2>2. TableValue(name) \in StoreValue /\ TableValue(name).kind = "table"
    BY DEF TableValue, StoreValue
  <2> HIDE DEF TableValue
  <2> QED
    BY <2>1, <2>2, StoredAssumption DEF PutCall
<1>4. c \in Call
  BY <1>3 DEF PutCall, Call
<1> HIDE DEF c
<1>5. DOMAIN todo' = {1} /\ todo'[1] = c /\ stmt'.kind = "create_table"
  BY <1>1
<1>6. Exempt' = Exempt
  BY <1>1 DEF Exempt
<1>7. \A k \in StoreKey : k # c.key => Final'[k] = store[k]
  <2>1. After(store, <<c>>) = Applied(store, c)
    BY <1>2, <1>4, AfterOne
  <2> QED
    BY <1>1, <1>2, <1>4, <2>1, AppliedRow DEF Final
<1>8. CreatesOwn'
  BY <1>3, <1>5 DEF CreatesOwn
<1>9. LiveInSync'
  <2>1. Live' = Kept(indexes, half)
    BY <1>1, <1>5 DEF Live, Kept, Registering
  <2>2. ASSUME NEW x \in Kept(indexes, half)
        PROVE  InStep(Final', x, Exempt)
    <3>1. InStep(store, x, Exempt)
      BY <1>2, FinalIsStore DEF SyncInv, LiveInSync, Live, Kept
    <3>2. PICK n \in IndexName : x = indexes[n] /\ indexes[n] # NoIndex
      BY DEF Kept
    <3>3. x \in IndexRecord /\ x.id # CATALOG_TABLE_ID /\ x.table # CATALOG_TABLE_ID
      BY <3>2, IndexFacts, IdsApart
    <3> QED
      BY <1>3, <1>7, <3>1, <3>3, InStepSame
  <2> QED
    BY <1>6, <2>1, <2>2 DEF LiveInSync
<1>10. UnknownIsHalf'
  BY <1>1 DEF SyncInv, UnknownIsHalf
<1>11. OnlyCaughtDiffer'
  <2>1. \A k : Caught(k)' <=> Caught(k)
    BY <1>1, <1>6 DEF Caught
  <2> QED
    BY <1>1, <2>1 DEF SyncInv, OnlyCaughtDiffer
<1>12. RowsKeyed'
  <2>1. RowKeyed(c.key, c.val)
    BY <1>3 DEF RowKeyed
  <2> QED
    BY <1>1, <1>5, <2>1 DEF SyncInv, RowsKeyed
<1>13. PendingCurrent'
  BY <1>1, <1>2 DEF PendingCurrent
<1>14. AssignsOk' /\ MovesOne'
  BY <1>5 DEF AssignsOk, MovesOne
<1> QED
  BY <1>8, <1>9, <1>10, <1>11, <1>12, <1>13, <1>14 DEF SyncInv

\* A new index is in step once it is filled.
LEMMA FilledInStep ==
    ASSUME IdsFit, CatInv, SyncInv, NEW new \in 1..MaxId, next_id <= new,
           NEW id \in CatalogIds(store, "table"), NEW column \in Column,
           \A r \in RowsIn(id) : r.id <= SECONDARY_PK_MASK /\ r[column] \in 0..SECONDARY_VALUE_MASK,
           NEW x, x = [table |-> id, column |-> column, id |-> new],
           NEW S, S = {pack_secondary_composite(r[column], r.id) : r \in RowsIn(id)},
           NEW other,
           \A k \in StoreKey : unpack_table_id(k) = id => other[k] = store[k],
           \A e \in 0..PRIMARY_KEY_MASK : other[pack_key(new, e)] = IF e \in S THEN EntryValue
                                                                  ELSE store[pack_key(new, e)]
    PROVE  InStep(other, x, Exempt)
<1>1. /\ store \in Map /\ KeysApart(store) /\ id \in 0..MaxId /\ new \in 0..MaxId /\ next_id \in Int
      /\ EntryValue # Absent /\ x.table = id /\ x.column = column /\ x.id = new
  BY CatParts, Spans, StoredAssumption DEF CatalogIds, StoreValue
<1>2. ASSUME NEW p \in 0..PRIMARY_KEY_MASK
      PROVE  /\ other[pack_key(id, p)] = store[pack_key(id, p)]
             /\ store[pack_key(id, p)] # Absent => /\ store[pack_key(id, p)].row \in RowsIn(id)
                                                   /\ store[pack_key(id, p)].row.id = p
  <2>1. /\ pack_key(id, p) \in StoreKey /\ unpack_table_id(pack_key(id, p)) = id
        /\ unpack_primary_key(pack_key(id, p)) = p
    BY <1>1, KeyOf
  <2>2. ASSUME store[pack_key(id, p)] # Absent
        PROVE  /\ store[pack_key(id, p)].row \in RowsIn(id)
               /\ store[pack_key(id, p)].row.id = p
    <3>1. store[pack_key(id, p)].row \in RowsIn(id)
      BY <1>1, <2>1, <2>2, RowsFound
    <3>2. store[pack_key(id, p)] = RowValue(store[pack_key(id, p)].row)
      BY <2>1, <2>2, StoredRow
    <3>3. store[pack_key(id, p)].kind = "row"
      BY <3>2 DEF RowValue
    <3> QED
      BY <2>1, <2>2, <3>1, <3>3 DEF SyncInv, RowsKeyed, RowKeyed
  <2> QED
    BY <2>1, <2>2
<1>3. ASSUME NEW r \in RowsIn(id)
      PROVE  /\ r \in Row /\ r.id \in 0..SECONDARY_PK_MASK /\ r.id \in 0..PRIMARY_KEY_MASK
             /\ store[pack_key(id, r.id)] = RowValue(r)
             /\ pack_secondary_composite(r[column], r.id) \in 0..PRIMARY_KEY_MASK
             /\ unpack_secondary_pk(pack_secondary_composite(r[column], r.id)) = r.id
  <2>1. r \in Row
    BY <1>1, <1>3, RowsFound
  <2>2. PICK k \in StoreKey : unpack_table_id(k) = id /\ store[k] = RowValue(r)
    BY <1>1, <1>3, RowsFound
  <2>3. /\ unpack_primary_key(k) \in 0..PRIMARY_KEY_MASK /\ k = pack_key(id, unpack_primary_key(k))
    BY <2>2, KeyParts
  <2>4. RowValue(r) # Absent /\ RowValue(r).kind = "row" /\ RowValue(r).row = r
    BY <2>1, StoredAssumption DEF RowValue, StoreValue
  <2>5. r.id = unpack_primary_key(k)
    BY <2>2, <2>4 DEF SyncInv, RowsKeyed, RowKeyed
  <2>6. r.id \in Int /\ r[column] \in Int /\ r.id \in 0..(PkSpan - 1)
    BY <1>3, <2>1, <2>3, <2>5, Spans DEF Row, Column
  <2>7. /\ pack_secondary_composite(r[column], r.id) \in 0..PRIMARY_KEY_MASK
        /\ unpack_secondary_pk(pack_secondary_composite(r[column], r.id)) = r.id % PkSpan
    BY <2>6, CompositeKey
  <2>8. r.id % PkSpan = r.id
    BY <2>6, Spans, Fits
  <2> QED
    BY <2>1, <2>2, <2>3, <2>5, <2>6, <2>7, <2>8, Spans
<1>4. ASSUME NEW e \in 0..PRIMARY_KEY_MASK
      PROVE  other[pack_key(new, e)] # Absent <=> e \in S
  <2>1. pack_key(new, e) \in StoreKey /\ unpack_table_id(pack_key(new, e)) = new
    BY <1>1, KeyOf
  <2>2. store[pack_key(new, e)] = Absent
    BY <1>1, <2>1, Unused
  <2> QED
    BY <1>1, <2>2
<1>5. ASSUME NEW pk \in (0..SECONDARY_PK_MASK) \ Exempt
      PROVE  InSync(other, x, pk)
  <2> DEFINE row == store[pack_key(id, pk)]
  <2>1. pk \in 0..PRIMARY_KEY_MASK
    BY Spans
  <2>2. ASSUME NEW e \in 0..PRIMARY_KEY_MASK, unpack_secondary_pk(e) = pk, other[pack_key(new, e)] # Absent
        PROVE  row # Absent /\ e = pack_secondary_composite(row.row[column], pk)
    <3>1. PICK r \in RowsIn(id) : e = pack_secondary_composite(r[column], r.id)
      BY <1>4, <2>2
    <3>2. r.id = pk /\ row = RowValue(r) /\ r \in Row
      BY <1>3, <2>2, <3>1
    <3>3. RowValue(r) # Absent /\ RowValue(r).row = r
      BY <3>2, StoredAssumption DEF RowValue, StoreValue
    <3> QED
      BY <3>1, <3>2, <3>3
  <2>3. ASSUME row # Absent
        PROVE  LET e == pack_secondary_composite(row.row[column], pk)
               IN  e \in 0..PRIMARY_KEY_MASK /\ unpack_secondary_pk(e) = pk /\ other[pack_key(new, e)] # Absent
    <3>1. row.row \in RowsIn(id) /\ row.row.id = pk
      BY <1>2, <2>1, <2>3
    <3>2. /\ pack_secondary_composite(row.row[column], pk) \in 0..PRIMARY_KEY_MASK
          /\ unpack_secondary_pk(pack_secondary_composite(row.row[column], pk)) = pk
      BY <1>3, <3>1
    <3>3. pack_secondary_composite(row.row[column], pk) \in S
      BY <3>1
    <3> QED
      BY <1>4, <3>2, <3>3
  <2>4. EntriesFor(other, x, pk) = IF row = Absent THEN {} ELSE {pack_secondary_composite(row.row[column], pk)}
    BY <1>1, <2>2, <2>3 DEF EntriesFor
  <2>5. other[pack_key(x.table, pk)] = row
    BY <1>1, <1>2, <2>1
  <2> QED
    BY <1>1, <2>4, <2>5 DEF InSync
<1>6. ASSUME NEW p \in 0..PRIMARY_KEY_MASK, other[pack_key(x.table, p)] # Absent
      PROVE  Indexable(other[pack_key(x.table, p)], p, x, Exempt)
  BY <1>1, <1>2, <1>6 DEF Indexable
<1> QED
  BY <1>5, <1>6 DEF InStep

\* CREATE INDEX.
LEMMA CreateIndexSync ==
    ASSUME IdsFit, CatInv, SyncInv, NEW name \in IndexName, NEW table \in TableName, NEW column \in Column,
           CreateIndex(name, table, column)
    PROVE  SyncInv'
<1> DEFINE id   == tables[table]
           S    == {pack_secondary_composite(r[column], r.id) : r \in RowsIn(id)}
           c    == PutCall(pack_key(CATALOG_TABLE_ID, next_id), IndexValue(name, id, column))
           fill == Fill(next_id, S)
           new  == [table |-> id, column |-> column, id |-> next_id]
<1>1. /\ Idle /\ next_id \in 1..MaxId /\ next_id \in 0..MaxId /\ id # 0
      /\ todo' = <<c>> \o fill
      /\ stmt' = [kind |-> "create_index", id |-> next_id]
      /\ store' = store /\ file' = file /\ tables' = tables /\ indexes' = indexes
      /\ pending' = pending /\ interrupted' = interrupted /\ half' = half \ {next_id}
      /\ \A r \in RowsIn(id) : /\ r.id <= SECONDARY_PK_MASK
                               /\ 0 <= r[column] /\ r[column] <= SECONDARY_VALUE_MASK
  BY CatParts, Spans DEF CreateIndex, data, RowsIn, Fill
<1>2. pending = <<>> /\ todo = <<>> /\ store \in Map
  BY <1>1, IdleParts, CatParts
<1>3. id \in CatalogIds(store, "table") /\ id \in 1..MaxId /\ id < next_id /\ id # CATALOG_TABLE_ID
  BY <1>1, CatParts, InCatalog, Unused DEF CatalogIds, CATALOG_TABLE_ID
<1>4. S \in SUBSET (0..PRIMARY_KEY_MASK)
  <2>1. RowsIn(id) \subseteq Row
    BY <1>3, CatParts, RowsFound
  <2>2. \A r \in RowsIn(id) : r[column] \in Int /\ r.id \in Int
    BY <2>1 DEF Row, Column
  <2> QED
    BY <2>2, CompositeKey
<1>5. /\ fill \in Seq(Call)
      /\ \A i \in 1..Len(fill) :
            /\ fill[i].val = EntryValue /\ unpack_table_id(fill[i].key) = next_id
            /\ unpack_primary_key(fill[i].key) \in S
      /\ \A e \in S : \E i \in 1..Len(fill) : fill[i].key = pack_key(next_id, e)
  BY <1>1, <1>4, FillCalls
<1>6. /\ c.key \in StoreKey /\ unpack_table_id(c.key) = CATALOG_TABLE_ID
      /\ c.val \in StoreValue /\ c.val # Absent /\ c.val = IndexValue(name, id, column) /\ c.val.kind = "index"
  <2>1. /\ pack_key(CATALOG_TABLE_ID, next_id) \in StoreKey
        /\ unpack_table_id(pack_key(CATALOG_TABLE_ID, next_id)) = CATALOG_TABLE_ID
    BY <1>1, CatalogKey
  <2>2. IndexValue(name, id, column) \in StoreValue /\ IndexValue(name, id, column).kind = "index"
    BY <1>3 DEF IndexValue, StoreValue
  <2> HIDE DEF IndexValue
  <2> QED
    BY <2>1, <2>2, StoredAssumption DEF PutCall
<1>7. c \in Call
  BY <1>6 DEF PutCall, Call
<1> HIDE DEF S, c, fill
<1>8. /\ todo' \in Seq(Call) /\ todo' # <<>> /\ Head(todo') = c /\ Len(todo') = Len(fill) + 1
      /\ DOMAIN todo' = 1..(Len(fill) + 1) /\ todo'[1] = c /\ Len(fill) \in Nat
      /\ \A n \in 2..Len(todo') : todo'[n] = fill[n - 1] /\ n - 1 \in 1..Len(fill)
  <2>1. <<c>> \in Seq(Call) /\ Len(<<c>>) = 1 /\ <<c>>[1] = c
    BY <1>7
  <2>2. Len(fill) \in Nat
    BY <1>5, LenProperties
  <2>3. /\ todo' \in Seq(Call) /\ Len(todo') = 1 + Len(fill)
        /\ \A i \in 1..(1 + Len(fill)) : todo'[i] = IF i <= 1 THEN <<c>>[i] ELSE fill[i - 1]
    BY <1>1, <1>5, <2>1, ConcatProperties
  <2>4. todo' # <<>>
    BY <2>2, <2>3
  <2>5. Head(todo') = todo'[1]
    BY <2>3, <2>4, HeadTailProperties
  <2> QED
    BY <2>1, <2>2, <2>3, <2>4, <2>5, LenProperties
<1>9. ASSUME NEW n \in DOMAIN todo'
      PROVE  \/ todo'[n] = c
             \/ todo'[n].val = EntryValue /\ unpack_table_id(todo'[n].key) = next_id
  <2>1. CASE n = 1
    BY <1>8, <2>1
  <2>2. CASE n # 1
    <3>1. n \in 2..Len(todo')
      BY <1>8, <2>2
    <3>2. todo'[n] = fill[n - 1] /\ n - 1 \in 1..Len(fill)
      BY <1>8, <3>1
    <3> QED
      BY <1>5, <3>2
  <2> QED
    BY <2>1, <2>2
<1>10. Exempt' = Exempt
  BY <1>1 DEF Exempt
<1>11. Final' = After(store, todo')
  BY <1>1 DEF Final
<1>12. ASSUME NEW k \in StoreKey, unpack_table_id(k) # CATALOG_TABLE_ID, unpack_table_id(k) # next_id
       PROVE  Final'[k] = store[k]
  <2>1. \A i \in 1..Len(todo') : todo'[i].key # k
    BY <1>6, <1>8, <1>9, <1>12
  <2> QED
    BY <1>8, <1>11, <2>1, AfterOther
<1>13. ASSUME NEW e \in 0..PRIMARY_KEY_MASK
       PROVE  Final'[pack_key(next_id, e)] = IF e \in S THEN EntryValue ELSE store[pack_key(next_id, e)]
  <2> DEFINE k == pack_key(next_id, e)
             m == Applied(store, c)
  <2>1. k \in StoreKey /\ unpack_table_id(k) = next_id /\ unpack_primary_key(k) = e
    BY <1>1, KeyOf
  <2> HIDE DEF k
  <2>2. k # c.key
    BY <1>1, <1>6, <2>1 DEF CATALOG_TABLE_ID
  <2>3. m[k] = store[k] /\ m \in Map
    BY <1>2, <1>7, <2>1, <2>2, AppliedRow
  <2>4. Final' = After(m, fill)
    <3> DEFINE first == <<c>>
    <3>1. first \in Seq(Call) /\ After(store, first) = m
      BY <1>2, <1>7, AfterOne
    <3>2. Final' = After(store, first \o fill)
      BY <1>1, <1>11
    <3> HIDE DEF first, m
    <3>3. After(store, first \o fill) = After(After(store, first), fill)
      BY <1>2, <1>5, <3>1, AfterConcat
    <3> QED
      BY <3>1, <3>2, <3>3
  <2> HIDE DEF m
  <2>5. CASE e \in S
    <3>1. \E i \in 1..Len(fill) : fill[i].key = k
      BY <1>5, <2>5 DEF k
    <3>2. \A i \in 1..Len(fill) : fill[i].val = EntryValue
      BY <1>5
    <3>3. fill \in Seq(Call)
      BY <1>5
    <3>4. After(m, fill)[k] = EntryValue
      BY <2>1, <3>1, <3>2, <3>3, AfterSame
    <3> QED
      BY <2>4, <2>5, <3>4 DEF k
  <2>6. CASE e \notin S
    <3>1. \A i \in 1..Len(fill) : fill[i].key # k
      BY <1>5, <2>1, <2>6
    <3>2. After(m, fill)[k] = m[k]
      BY <1>5, <2>1, <3>1, AfterOther
    <3> QED
      BY <2>3, <2>4, <2>6, <3>2 DEF k
  <2> QED
    BY <2>5, <2>6
<1>14. stmt'.kind = "create_index" /\ stmt'.id = next_id
  BY <1>1
<1>15. CreatesOwn'
  <2>1. \A n \in DOMAIN todo' :
           \/ unpack_table_id(todo'[n].key) = CATALOG_TABLE_ID /\ todo'[n].val # Absent
           \/ unpack_table_id(todo'[n].key) = next_id /\ todo'[n].val = EntryValue
    BY <1>6, <1>9
  <2> QED
    BY <1>1, <1>14, <2>1 DEF CreatesOwn
<1>16. Live' = Kept(indexes, half) \cup {new}
  <2>1. Registering'
    BY <1>6, <1>8, <1>14 DEF Registering
  <2>2. [table |-> Head(todo').val.table, column |-> Head(todo').val.column, id |-> stmt'.id] = new
    BY <1>6, <1>8, <1>14 DEF IndexValue
  <2>3. {x \in {indexes[n] : n \in IndexName} : x # NoIndex /\ x.id \notin half \ {next_id}} = Kept(indexes, half)
    <3>1. ASSUME NEW n \in IndexName, indexes[n] # NoIndex
          PROVE  indexes[n].id # next_id
      <4>1. indexes[n].id < next_id /\ next_id \in Int
        BY <1>1, <3>1, IndexFacts, Unused
      <4> QED
        BY <4>1
    <3> QED
      BY <3>1 DEF Kept
  <2> QED
    BY <1>1, <2>1, <2>2, <2>3 DEF Live
<1>17. LiveInSync'
  <2>1. ASSUME NEW x \in Kept(indexes, half)
        PROVE  InStep(Final', x, Exempt)
    <3>1. InStep(store, x, Exempt)
      BY <1>2, FinalIsStore DEF SyncInv, LiveInSync, Live, Kept
    <3>2. PICK n \in IndexName : x = indexes[n] /\ indexes[n] # NoIndex
      BY DEF Kept
    <3>3. x \in IndexRecord /\ x.id # CATALOG_TABLE_ID /\ x.table # CATALOG_TABLE_ID
      BY <3>2, IndexFacts, IdsApart
    <3>4. x.id # next_id /\ x.table # next_id
      <4>1. x.id < next_id /\ x.table < next_id
        BY Unused
      <4> QED
        BY <1>1, <4>1
    <3>5. \A k \in StoreKey : unpack_table_id(k) \in {x.id, x.table} => Final'[k] = store[k]
      BY <1>12, <3>3, <3>4
    <3> QED
      BY <3>1, <3>3, <3>5, InStepSame
  <2>2. InStep(Final', new, Exempt)
    <3>1. \A k \in StoreKey : unpack_table_id(k) = id => Final'[k] = store[k]
      <4>1. id # next_id
        BY <1>1, <1>3
      <4> QED
        BY <1>3, <1>12, <4>1
    <3>2. next_id <= next_id
      BY <1>1
    <3> HIDE DEF id, new
    <3>3. S = {pack_secondary_composite(r[column], r.id) : r \in RowsIn(id)}
      BY DEF S, id
    <3>4. new = [table |-> id, column |-> column, id |-> next_id]
      BY DEF new, id
    <3>5. \A r \in RowsIn(id) : r.id <= SECONDARY_PK_MASK /\ r[column] \in 0..SECONDARY_VALUE_MASK
      <4>1. \A r \in RowsIn(id) : r[column] \in Int
        BY <1>3, CatParts, RowsFound DEF Row, Column
      <4> QED
        BY <1>1, <4>1
    <3> QED
      BY <1>1, <1>3, <1>13, <3>1, <3>2, <3>3, <3>4, <3>5, FilledInStep, ZenonT(60)
  <2> QED
    BY <1>10, <1>16, <2>1, <2>2 DEF LiveInSync
<1>18. UnknownIsHalf'
  <2>1. ASSUME NEW map \in {store, file}, NEW j \in CatalogIds(map, "index")
        PROVE  j # next_id
    <3>1. j < next_id
      BY Unused
    <3> QED
      BY <1>1, <3>1
  <2> QED
    BY <1>1, <2>1 DEF SyncInv, UnknownIsHalf
<1>19. OnlyCaughtDiffer'
  <2>1. ASSUME NEW k \in StoreKey
        PROVE  file[k] = store[k] \/ Caught(k)'
    <3>1. CASE unpack_table_id(k) = next_id
      BY <1>1, <3>1, Unused
    <3>2. CASE unpack_table_id(k) # next_id
      BY <1>1, <1>10, <3>2 DEF SyncInv, OnlyCaughtDiffer, Caught
    <3> QED
      BY <3>1, <3>2
  <2> QED
    BY <1>1, <2>1 DEF OnlyCaughtDiffer
<1>20. RowsKeyed'
  <2>1. \A n \in DOMAIN todo' : RowKeyed(todo'[n].key, todo'[n].val)
    BY <1>6, <1>9 DEF RowKeyed, EntryValue
  <2> QED
    BY <1>1, <2>1 DEF SyncInv, RowsKeyed
<1>21. PendingCurrent'
  BY <1>1, <1>2 DEF PendingCurrent
<1>22. AssignsOk' /\ MovesOne'
  BY <1>14 DEF AssignsOk, MovesOne
<1> QED
  BY <1>15, <1>17, <1>18, <1>19, <1>20, <1>21, <1>22 DEF SyncInv

\* The calls of a CREATE INDEX after the first, and all of them once the first is made.
LEMMA FillingCalls ==
    ASSUME IdsFit, CatInv, SyncInv, stmt.kind = "create_index"
    PROVE  /\ \A n \in 2..Len(todo) : todo[n].val = EntryValue
           /\ ~ Creating => \A n \in DOMAIN todo : todo[n].val = EntryValue
<1>1. todo \in Seq(Call) /\ DOMAIN todo = 1..Len(todo) /\ Len(todo) \in Nat
  BY CatParts, LenProperties
<1>2. CASE Creating
  BY <1>2 DEF Creating
<1>3. CASE ~ Creating
  <2>1. ASSUME NEW n \in DOMAIN todo
        PROVE  todo[n].val = EntryValue
    <3>1. DataCall(todo[n])
      BY <1>3 DEF CatInv, CatalogInv
    <3>2. unpack_table_id(todo[n].key) # CATALOG_TABLE_ID
      BY <3>1 DEF DataCall
    <3> QED
      BY <3>2 DEF SyncInv, CreatesOwn
  <2> QED
    BY <1>1, <1>3, <2>1
<1> QED
  BY <1>2, <1>3

\* A call enters one row of the catalog at most, that of a CREATE.
LEMMA CatalogStep ==
    ASSUME IdsFit, CatInv, todo # <<>>, NEW map \in {store, file}, NEW id \in 1..MaxId
    PROVE  \/ CatalogRow(Applied(map, Head(todo)), id) = CatalogRow(map, id)
           \/ Creating /\ id = stmt.id /\ CatalogRow(Applied(map, Head(todo)), id) = Head(todo).val
<1>1. Head(todo) \in Call /\ map \in Map /\ id \in 0..MaxId
  BY CatParts, FirstStored, Spans
<1>2. /\ Applied(map, Head(todo))[Head(todo).key] = Head(todo).val
      /\ \A k \in StoreKey : k # Head(todo).key => Applied(map, Head(todo))[k] = map[k]
  BY <1>1, AppliedRow
<1>3. /\ pack_key(CATALOG_TABLE_ID, id) \in StoreKey
      /\ unpack_table_id(pack_key(CATALOG_TABLE_ID, id)) = CATALOG_TABLE_ID
      /\ unpack_primary_key(pack_key(CATALOG_TABLE_ID, id)) = id
  BY <1>1, CatalogKey
<1>4. CASE Creating
  <2>1. Head(todo).key = pack_key(CATALOG_TABLE_ID, stmt.id) /\ stmt.id \in 1..MaxId
    BY <1>4, FirstOfCreate DEF Creating
  <2>2. unpack_primary_key(Head(todo).key) = stmt.id
    <3>1. stmt.id \in 0..MaxId
      BY <2>1, Spans
    <3> QED
      BY <2>1, <3>1, CatalogKey
  <2> QED
    BY <1>2, <1>3, <1>4, <2>1, <2>2 DEF CatalogRow
<1>5. CASE ~ Creating
  <2>1. SameCatalog(Applied(map, Head(todo)), map)
    BY <1>5, FirstStored
  <2> QED
    BY <2>1 DEF SameCatalog
<1> QED
  BY <1>4, <1>5

\* What the first call of a CREATE has in it, and that its id's keys are free.
LEMMA FirstOfEither ==
    ASSUME IdsFit, CatInv, Creating
    PROVE  /\ Head(todo).val # Absent /\ Head(todo).val \in StoreValue
           /\ unpack_table_id(Head(todo).key) = CATALOG_TABLE_ID
           /\ unpack_primary_key(Head(todo).key) = stmt.id /\ stmt.id \in 1..MaxId
           /\ stmt.kind = "create_table" => Head(todo).val.kind = "table"
           /\ stmt.kind = "create_index" => Head(todo).val.kind = "index" /\ indexes[Head(todo).val.name] = NoIndex
           /\ \A k \in StoreKey : unpack_table_id(k) = stmt.id => store[k] = Absent /\ file[k] = Absent
<1>1. /\ stmt.id \in 1..MaxId /\ stmt.kind \in {"create_table", "create_index"}
      /\ Head(todo).key = pack_key(CATALOG_TABLE_ID, stmt.id) /\ stmt.id \in 0..MaxId
  BY FirstOfCreate, Spans DEF Creating
<1>2. unpack_table_id(Head(todo).key) = CATALOG_TABLE_ID /\ unpack_primary_key(Head(todo).key) = stmt.id
  BY <1>1, CatalogKey
<1>3. /\ stmt.kind = "create_table" => \E t \in TableName : Head(todo).val = TableValue(t)
      /\ stmt.kind = "create_index" => \E n \in IndexName, t \in TableName, c \in Column :
            /\ indexes[n] = NoIndex /\ tables[t] # 0 /\ Head(todo).val = IndexValue(n, tables[t], c)
  BY DEF Creating
<1>4. /\ Head(todo).val \in StoreValue
      /\ stmt.kind = "create_table" => Head(todo).val.kind = "table"
      /\ stmt.kind = "create_index" => Head(todo).val.kind = "index" /\ indexes[Head(todo).val.name] = NoIndex
  <2>1. CASE stmt.kind = "create_table"
    <3>1. PICK t \in TableName : Head(todo).val = TableValue(t)
      BY <1>3, <2>1
    <3> QED
      BY <2>1, <3>1 DEF TableValue, StoreValue
  <2>2. CASE stmt.kind = "create_index"
    <3>1. PICK n \in IndexName, t \in TableName, c \in Column :
             indexes[n] = NoIndex /\ tables[t] # 0 /\ Head(todo).val = IndexValue(n, tables[t], c)
      BY <1>3, <2>2
    <3>2. tables[t] \in 1..MaxId
      BY <3>1, CatParts, InCatalog DEF CatalogIds
    <3> QED
      BY <2>2, <3>1, <3>2 DEF IndexValue, StoreValue
  <2> QED
    BY <1>1, <2>1, <2>2
<1>5. ASSUME NEW k \in StoreKey, unpack_table_id(k) = stmt.id, NEW map \in {store, file}
      PROVE  map[k] = Absent
  <2>1. map \in Map /\ KeysApart(map) /\ CatalogRow(map, stmt.id) = Absent
    BY CatParts DEF Creating
  <2>2. \A kind : stmt.id \notin CatalogIds(map, kind)
    BY <2>1 DEF CatalogIds
  <2>3. stmt.id # CATALOG_TABLE_ID
    BY <1>1 DEF CATALOG_TABLE_ID
  <2> QED
    BY <1>5, <2>1, <2>2, <2>3, Blocks
<1> QED
  BY <1>1, <1>2, <1>4, <1>5, StoredAssumption

\* A call to the store leaves what the statement will have done as it was.
LEMMA StoreCallSync ==
    ASSUME IdsFit, CatInv, SyncInv, StoreCall
    PROVE  SyncInv'
<1> DEFINE h == Head(todo)
<1>1. /\ todo # <<>> /\ store' = Applied(store, h) /\ Registered(h) /\ todo' = Tail(todo)
      /\ file' = IF Logged(h) THEN Applied(file, h) ELSE file
      /\ stmt' = stmt /\ pending' = pending /\ interrupted' = interrupted /\ half' = half
  BY DEF StoreCall, faults
<1>2. /\ todo \in Seq(Call) /\ store \in Map /\ file \in Map
      /\ h = todo[1] /\ h \in Call /\ Len(todo) \in Nat /\ DOMAIN todo = 1..Len(todo) /\ 1 \in DOMAIN todo
      /\ DOMAIN todo' = 1..(Len(todo) - 1)
      /\ \A n \in 1..(Len(todo) - 1) : todo'[n] = todo[n + 1] /\ n + 1 \in 2..Len(todo)
  BY <1>1, CatParts, HeadTail
<1>3. \A n \in DOMAIN todo' : n + 1 \in DOMAIN todo /\ n + 1 \in 2..Len(todo) /\ todo'[n] = todo[n + 1]
  BY <1>2
<1>4. /\ store'[h.key] = h.val /\ h.key \in StoreKey
      /\ \A k \in StoreKey : k # h.key => store'[k] = store[k]
      /\ Applied(file, h)[h.key] = h.val
      /\ \A k \in StoreKey : k # h.key => Applied(file, h)[k] = file[k]
  BY <1>1, <1>2, AppliedRow DEF Call
<1>5. Exempt' = Exempt
  BY <1>1 DEF Exempt
<1>6. Final' = Final
  BY <1>1, <1>2, AfterHead DEF Final
<1>7. ~ Creating => indexes' = indexes
  BY <1>1, FirstRegistered
<1>8. Creating => Logged(h)
  BY FirstOfEither DEF Logged
<1>9. ASSUME NEW n \in IndexName
      PROVE  \/ indexes'[n] = indexes[n]
             \/ /\ Creating /\ stmt.kind = "create_index" /\ h.val.kind = "index" /\ n = h.val.name
                /\ indexes'[n] = [table |-> h.val.table, column |-> h.val.column, id |-> stmt.id]
                /\ indexes'[n] # NoIndex
  <2>1. CASE Creating /\ stmt.kind = "create_table"
    <3>1. h.val # Absent /\ h.val.kind = "table"
      BY <2>1, FirstOfEither
    <3> QED
      BY <1>1, <3>1 DEF Registered
  <2>2. CASE Creating /\ stmt.kind = "create_index"
    <3>1. h.val # Absent /\ h.val.kind = "index" /\ unpack_primary_key(h.key) = stmt.id /\ stmt.id \in 1..MaxId
      BY <2>2, FirstOfEither
    <3>2. indexes' = [indexes EXCEPT ![h.val.name] =
                         [table |-> h.val.table, column |-> h.val.column, id |-> stmt.id]]
      BY <1>1, <3>1 DEF Registered
    <3>3. DOMAIN indexes = IndexName
      BY CatParts DEF IndexesTyped
    <3>4. [table |-> h.val.table, column |-> h.val.column, id |-> stmt.id] # NoIndex
      BY <3>1 DEF NoIndex
    <3> QED
      BY <2>2, <3>1, <3>2, <3>3, <3>4
  <2>3. CASE ~ Creating
    BY <1>7, <2>3
  <2> QED
    BY <2>1, <2>2, <2>3, FirstOfCreate
<1>10. CreatesOwn'
  BY <1>1, <1>3 DEF SyncInv, CreatesOwn
<1>11. LiveInSync'
  <2>1. ~ Registering'
    <3>1. SUFFICES ASSUME stmt.kind = "create_index", todo' # <<>>
                   PROVE  Head(todo').val.kind # "index"
      BY <1>1 DEF Registering
    <3>2. todo' \in Seq(Call)
      BY <1>1, <1>2, HeadTail
    <3>3. Head(todo') = todo'[1] /\ 1 \in DOMAIN todo'
      BY <3>1, <3>2, HeadTail
    <3>4. Head(todo').val = EntryValue
      BY <1>3, <3>1, <3>3, FillingCalls
    <3> QED
      BY <3>4 DEF EntryValue
  <2>2. ASSUME NEW x \in Live'
        PROVE  x \in Live
    <3>1. PICK n \in IndexName : x = indexes'[n] /\ x # NoIndex /\ x.id \notin half
      BY <1>1, <2>1 DEF Live
    <3>2. CASE indexes'[n] = indexes[n]
      BY <3>1, <3>2 DEF Live
    <3>3. CASE indexes'[n] # indexes[n]
      <4>1. /\ stmt.kind = "create_index" /\ h.val.kind = "index"
            /\ x = [table |-> h.val.table, column |-> h.val.column, id |-> stmt.id]
        BY <1>9, <3>1, <3>3
      <4> QED
        BY <1>1, <4>1 DEF Live, Registering
    <3> QED
      BY <3>2, <3>3
  <2> QED
    BY <1>5, <1>6, <2>2 DEF SyncInv, LiveInSync
<1>12. UnknownIsHalf'
  <2>1. ASSUME NEW n \in IndexName, indexes'[n] = NoIndex, NEW map \in {store, file},
               NEW id \in CatalogIds(Applied(map, h), "index"), CatalogRow(Applied(map, h), id).name = n
        PROVE  id \in half
    <3>1. id \in 1..MaxId /\ CatalogRow(Applied(map, h), id) # Absent /\ CatalogRow(Applied(map, h), id).kind = "index"
      BY DEF CatalogIds
    <3>2. CASE CatalogRow(Applied(map, h), id) = CatalogRow(map, id)
      <4>1. id \in CatalogIds(map, "index") /\ CatalogRow(map, id).name = n
        BY <2>1, <3>1, <3>2 DEF CatalogIds
      <4>2. indexes[n] = NoIndex
        BY <1>9, <2>1
      <4> QED
        BY <4>1, <4>2 DEF SyncInv, UnknownIsHalf
    <3>3. CASE Creating /\ id = stmt.id /\ CatalogRow(Applied(map, h), id) = h.val
      <4>1. stmt.kind = "create_index"
        BY <3>1, <3>3, FirstOfEither, FirstOfCreate
      <4>2. h.val # Absent /\ h.val.kind = "index" /\ h.val.name = n /\ n \in IndexName
            /\ unpack_primary_key(h.key) = stmt.id /\ stmt.id \in 1..MaxId
        BY <2>1, <3>3, <4>1, FirstOfEither
      <4>3. indexes' = [indexes EXCEPT ![n] =
                           [table |-> h.val.table, column |-> h.val.column, id |-> stmt.id]]
        BY <1>1, <4>2 DEF Registered
      <4>4. indexes'[n] = [table |-> h.val.table, column |-> h.val.column, id |-> stmt.id]
        BY <4>3, CatParts DEF IndexesTyped
      <4>5. indexes'[n] # NoIndex
        BY <4>2, <4>4 DEF NoIndex
      <4> QED
        BY <2>1, <4>5
    <3> QED
      BY <1>1, <3>1, <3>2, <3>3, CatalogStep
  <2>2. file' = Applied(file, h) \/ (file' = file /\ ~ Creating)
    BY <1>1, <1>8
  <2>3. file' = file /\ ~ Creating => indexes' = indexes
    BY <1>7
  <2>4. ASSUME NEW n \in IndexName, indexes'[n] = NoIndex, NEW map \in {store', file'},
               NEW id \in CatalogIds(map, "index"), CatalogRow(map, id).name = n
        PROVE  id \in half
    <3>1. CASE map = Applied(store, h) \/ map = Applied(file, h)
      BY <2>1, <2>4, <3>1
    <3>2. CASE map = file /\ ~ Creating
      BY <1>7, <2>4, <3>2 DEF SyncInv, UnknownIsHalf
    <3> QED
      BY <1>1, <2>2, <2>4, <3>1, <3>2
  <2> QED
    BY <1>1, <2>4 DEF UnknownIsHalf
<1>13. OnlyCaughtDiffer'
  <2>1. ASSUME NEW k \in StoreKey, file'[k] # store'[k]
        PROVE  file[k] # store[k]
    <3>1. CASE Logged(h)
      BY <1>1, <1>4, <2>1, <3>1
    <3>2. CASE ~ Logged(h)
      <4>1. h.val = Absent /\ store[h.key] = Absent
        BY <3>2 DEF Logged
      <4>2. store'[k] = store[k]
        BY <1>4, <4>1
      <4> QED
        BY <1>1, <2>1, <3>2, <4>2
    <3> QED
      BY <3>1, <3>2
  <2>2. ASSUME NEW k \in StoreKey, file'[k] # store'[k]
        PROVE  Caught(k)'
    <3>1. file[k] # store[k]
      BY <2>1, <2>2
    <3>2. Caught(k)
      BY <3>1 DEF SyncInv, OnlyCaughtDiffer
    <3>3. CASE unpack_table_id(k) \in half \ CatalogIds(store, "table")
      <4>1. unpack_table_id(k) \notin CatalogIds(store', "table")
        <5>1. SUFFICES ASSUME unpack_table_id(k) \in CatalogIds(store', "table")
                       PROVE  FALSE
          OBVIOUS
        <5> DEFINE id == unpack_table_id(k)
        <5>2. id \in 1..MaxId /\ CatalogRow(store', id) # Absent /\ CatalogRow(store', id).kind = "table"
          BY <5>1 DEF CatalogIds
        <5>3. CatalogRow(store', id) # CatalogRow(store, id)
          BY <3>3, <5>2 DEF CatalogIds
        <5>4. Creating /\ id = stmt.id
          BY <1>1, <5>2, <5>3, CatalogStep
        <5> QED
          BY <3>1, <5>4, FirstOfEither
      <4> QED
        BY <1>1, <3>3, <4>1 DEF Caught
    <3> QED
      BY <1>1, <1>5, <3>2, <3>3 DEF Caught
  <2> QED
    BY <2>2 DEF OnlyCaughtDiffer
<1>14. RowsKeyed'
  <2>1. RowKeyed(h.key, h.val)
    BY <1>2 DEF SyncInv, RowsKeyed
  <2>2. \A k \in StoreKey : RowKeyed(k, store'[k]) /\ RowKeyed(k, file'[k])
    <3>1. ASSUME NEW k \in StoreKey
          PROVE  RowKeyed(k, store'[k]) /\ RowKeyed(k, file'[k])
      <4>1. RowKeyed(k, store[k]) /\ RowKeyed(k, file[k])
        BY DEF SyncInv, RowsKeyed
      <4>2. store'[k] = store[k] \/ (k = h.key /\ store'[k] = h.val)
        BY <1>4
      <4>3. file'[k] = file[k] \/ (k = h.key /\ file'[k] = h.val)
        BY <1>1, <1>4
      <4> QED
        BY <2>1, <4>1, <4>2, <4>3
    <3> QED
      BY <3>1
  <2>3. \A n \in DOMAIN todo' : RowKeyed(todo'[n].key, todo'[n].val)
    BY <1>3 DEF SyncInv, RowsKeyed
  <2> QED
    BY <2>2, <2>3 DEF RowsKeyed
<1>15. PendingCurrent'
  BY <1>1, <1>6 DEF SyncInv, PendingCurrent
<1>16. MovesOne'
  <2>1. SUFFICES ASSUME stmt.kind = "update", stmt.set.id # Absent
                 PROVE  MovesOne'
    BY <1>1 DEF MovesOne
  <2>2. indexes' = indexes
    BY <1>7, <2>1, FirstOfCreate
  <2>3. ~ Searching /\ ~ Searching'
    BY <1>1 DEF CatInv, ExecTypeOK, Searching
  <2> QED
    BY <1>1, <2>3 DEF SyncInv, MovesOne
<1>17. AssignsOk'
  <2>1. SUFFICES ASSUME stmt.kind = "update"
                 PROVE  AssignsOk'
    BY <1>1 DEF AssignsOk
  <2>2. indexes' = indexes
    BY <1>7, <2>1, FirstOfCreate
  <2> QED
    BY <1>1, <2>2, SameAllowed DEF SyncInv, AssignsOk
<1> QED
  BY <1>17, <1>10, <1>11, <1>12, <1>13, <1>14, <1>15, <1>16 DEF SyncInv

\* What is noted of a statement that is cut short.
LEMMA CutFacts ==
    ASSUME IdsFit, CatInv, CutShort
    PROVE  /\ todo' = <<>> /\ pending' = <<>> /\ stmt'.kind = "none"
           /\ half \subseteq half' /\ Exempt \subseteq Exempt'
           /\ stmt.kind = "create_index" => stmt.id \in half'
           /\ stmt.kind \in {"insert", "update", "delete"} =>
                 \A n \in DOMAIN todo : unpack_primary_key(todo[n].key) % PkSpan \in Exempt'
<1>1. /\ stmt' = Nothing /\ pending' = <<>> /\ todo' = <<>>
      /\ half' = (IF stmt.kind = "create_index" THEN half \cup {stmt.id} ELSE half)
      /\ interrupted' = (IF stmt.kind \in {"insert", "update", "delete"}
                         THEN interrupted \cup KeysOf(todo) ELSE interrupted)
  BY DEF CutShort
<1>2. interrupted \subseteq interrupted'
  BY <1>1
<1>3. Exempt \subseteq Exempt'
  BY <1>2 DEF Exempt
<1>4. ASSUME stmt.kind \in {"insert", "update", "delete"}, NEW n \in DOMAIN todo
      PROVE  unpack_primary_key(todo[n].key) % PkSpan \in Exempt'
  <2> DEFINE p == unpack_primary_key(todo[n].key)
  <2>1. todo[n].key \in StoreKey
    <3>1. todo[n] \in Call
      BY CatParts, LenProperties, ElementOfSeq
    <3> QED
      BY <3>1 DEF Call
  <2>2. p \in Nat
    BY <2>1, KeyParts, Spans
  <2>3. todo[n] \in ToSet(todo)
    BY DEF ToSet
  <2>4. p \in interrupted' \/ unpack_secondary_pk(p) \in interrupted'
    BY <1>1, <1>4, <2>3 DEF KeysOf
  <2> HIDE DEF p
  <2>5. unpack_secondary_pk(p) % PkSpan = p % PkSpan
    <3>1. p % PkSpan \in 0..(PkSpan - 1)
      BY <2>2, Spans, Divided
    <3> QED
      BY <3>1, Spans, Fits DEF unpack_secondary_pk
  <2>6. p % PkSpan \in Exempt'
    BY <2>4, <2>5 DEF Exempt
  <2> QED
    BY <2>6 DEF p
<1> QED
  BY <1>1, <1>3, <1>4 DEF Nothing

\* An index a restart finds and memory does not have was cut short.
LEMMA FoundIsHalf ==
    ASSUME IdsFit, CatInv, SyncInv, CutShort, NEW n \in IndexName, indexes[n] = NoIndex,
           NEW map \in {store, file}, NEW m, m = map \/ (todo # <<>> /\ m = Applied(map, Head(todo))),
           NEW id \in CatalogIds(m, "index"), CatalogRow(m, id).name = n
    PROVE  id \in half'
<1>1. id \in 1..MaxId /\ CatalogRow(m, id) # Absent /\ CatalogRow(m, id).kind = "index"
  BY DEF CatalogIds
<1>2. CASE CatalogRow(m, id) = CatalogRow(map, id)
  <2>1. id \in CatalogIds(map, "index") /\ CatalogRow(map, id).name = n
    BY <1>1, <1>2 DEF CatalogIds
  <2>2. id \in half
    BY <2>1 DEF SyncInv, UnknownIsHalf
  <2> QED
    BY <2>2, CutFacts
<1>3. CASE Creating /\ id = stmt.id /\ CatalogRow(m, id) = Head(todo).val
  <2>1. stmt.kind = "create_index"
    BY <1>1, <1>3, FirstOfEither, FirstOfCreate
  <2> QED
    BY <1>3, <2>1, CutFacts
<1>4. m = map => CatalogRow(m, id) = CatalogRow(map, id)
  OBVIOUS
<1> QED
  BY <1>1, <1>2, <1>3, <1>4, CatalogStep

\* The keys of an index that is whole, and of its table, are those the calls of
\* the statement leave, or exempt.
LEMMA CutKeys ==
    ASSUME IdsFit, CatInv, SyncInv, CutShort, NEW x \in Kept(indexes, half'),
           NEW k \in StoreKey, unpack_table_id(k) \in {x.id, x.table},
           unpack_primary_key(k) % PkSpan \notin Exempt'
    PROVE  /\ \A n \in DOMAIN todo : todo[n].key # k
           /\ Final[k] = store[k] /\ file[k] = store[k]
<1>1. todo \in Seq(Call) /\ DOMAIN todo = 1..Len(todo) /\ stmt \in Statement
  BY CatParts, LenProperties
<1>2. PICK m \in IndexName : x = indexes[m] /\ indexes[m] # NoIndex
  BY DEF Kept
<1>3. /\ x.id \in CatalogIds(store, "index") /\ x.table \in CatalogIds(store, "table") /\ x.id \notin half'
      /\ x.id # CATALOG_TABLE_ID /\ x.table # CATALOG_TABLE_ID
      /\ x.table \notin CatalogIds(store, "index")
  BY <1>2, IndexFacts, IdsApart DEF Kept
<1>4. ASSUME NEW n \in DOMAIN todo
      PROVE  todo[n].key # k
  <2>1. CASE stmt.kind \in {"insert", "update", "delete"}
    BY <2>1, CutFacts
  <2>2. CASE stmt.kind \in {"create_table", "create_index"}
    <3>1. \/ unpack_table_id(todo[n].key) = CATALOG_TABLE_ID
          \/ stmt.kind = "create_index" /\ unpack_table_id(todo[n].key) = stmt.id /\ todo[n].val = EntryValue
      BY <2>2 DEF SyncInv, CreatesOwn
    <3>2. CASE unpack_table_id(todo[n].key) = CATALOG_TABLE_ID
      BY <1>3, <3>2
    <3>3. CASE stmt.kind = "create_index" /\ unpack_table_id(todo[n].key) = stmt.id /\ todo[n].val = EntryValue
      <4>1. x.id # stmt.id
        BY <1>3, <3>3, CutFacts
      <4>2. stmt.id \notin CatalogIds(store, "table")
        <5>1. CASE Creating
          BY <5>1 DEF Creating, CatalogIds
        <5>2. CASE ~ Creating
          <6>1. DataCall(todo[n])
            BY <5>2 DEF CatInv, CatalogInv
          <6>2. todo[n].val # Absent /\ todo[n].val.kind = "entry"
            <7>1. EntryValue \in StoreValue /\ EntryValue.kind = "entry"
              BY DEF StoreValue, EntryValue
            <7> QED
              BY <3>3, <7>1, StoredAssumption
          <6>3. stmt.id \in CatalogIds(store, "index")
            BY <3>3, <6>1, <6>2 DEF DataCall
          <6> QED
            BY <6>3, IdsApart
        <5> QED
          BY <5>1, <5>2
      <4> QED
        BY <1>3, <3>3, <4>1, <4>2
    <3> QED
      BY <3>1, <3>2, <3>3
  <2>3. CASE stmt.kind = "none"
    <3>1. Idle
      BY <1>1, <2>3, Statements DEF Idle
    <3>2. todo = <<>>
      BY <3>1, IdleParts
    <3> QED
      BY <1>1, <3>2
  <2> QED
    BY <1>1, <2>1, <2>2, <2>3, Statements
<1>5. Final[k] = store[k]
  BY <1>1, <1>4, AfterOther DEF Final
<1>6. file[k] = store[k]
  <2>1. file[k] = store[k] \/ Caught(k)
    BY DEF SyncInv, OnlyCaughtDiffer
  <2>2. ~ Caught(k)
    BY <1>3, CutFacts DEF Caught
  <2> QED
    BY <2>1, <2>2
<1> QED
  BY <1>4, <1>5, <1>6

\* A cut leaves every whole index in step, and rows under their keys.
LEMMA CutSync ==
    ASSUME IdsFit, CatInv, SyncInv, CutShort, store' \in Map,
           Kept(indexes', half') \subseteq Kept(indexes, half'),
           \A map \in {store', file'} : \A k \in StoreKey :
              \/ map[k] \in {store[k], file[k]}
              \/ todo # <<>> /\ k = Head(todo).key /\ map[k] = Head(todo).val,
           UnknownIsHalf', OnlyCaughtDiffer'
    PROVE  SyncInv'
<1>1. todo' = <<>> /\ pending' = <<>> /\ stmt'.kind = "none" /\ Exempt \subseteq Exempt' /\ half \subseteq half'
  BY CutFacts
<1>2. todo # <<>> => Head(todo) = todo[1] /\ 1 \in DOMAIN todo
  BY CatParts, HeadTail
<1>3. LiveInSync'
  <2>1. Final' = store'
    BY <1>1, AfterNone DEF Final
  <2>2. Live' = Kept(indexes', half')
    BY <1>1 DEF Live, Kept, Registering
  <2>3. ASSUME NEW x \in Kept(indexes', half')
        PROVE  InStep(store', x, Exempt')
    <3>1. x \in Kept(indexes, half') /\ x \in Live
      BY <1>1, <2>3 DEF Kept, Live
    <3>2. x \in IndexRecord
      BY <3>1, IndexFacts DEF Kept
    <3>3. InStep(Final, x, Exempt)
      BY <3>1 DEF SyncInv, LiveInSync
    <3>4. ASSUME NEW k \in StoreKey, unpack_table_id(k) \in {x.id, x.table}
          PROVE  store'[k] = Final[k] \/ unpack_primary_key(k) % PkSpan \in Exempt'
      BY <1>2, <3>1, <3>4, CutKeys
    <3> QED
      BY <1>1, <3>2, <3>3, <3>4, InStepSame
  <2> QED
    BY <2>1, <2>2, <2>3 DEF LiveInSync
<1>4. RowsKeyed'
  <2>1. todo # <<>> => RowKeyed(Head(todo).key, Head(todo).val)
    BY <1>2 DEF SyncInv, RowsKeyed
  <2>2. ASSUME NEW k \in StoreKey, NEW map \in {store', file'}
        PROVE  RowKeyed(k, map[k])
    <3>1. RowKeyed(k, store[k]) /\ RowKeyed(k, file[k])
      BY DEF SyncInv, RowsKeyed
    <3> QED
      BY <2>1, <3>1
  <2> QED
    BY <1>1, <2>2 DEF RowsKeyed
<1>5. CreatesOwn' /\ AssignsOk' /\ MovesOne' /\ PendingCurrent'
  BY <1>1 DEF CreatesOwn, AssignsOk, MovesOne, PendingCurrent
<1> QED
  BY <1>3, <1>4, <1>5 DEF SyncInv

\* A call that throws.
LEMMA ThrowSync ==
    ASSUME IdsFit, CatInv, SyncInv, Throw
    PROVE  SyncInv'
<1> DEFINE h == Head(todo)
<1>1. /\ CutShort /\ todo # <<>> /\ indexes' = indexes
      /\ store' \in {store, Applied(store, h)} /\ file' \in {file, Applied(file, h)}
  BY DEF Throw, catalog
<1>2. /\ todo \in Seq(Call) /\ store \in Map /\ file \in Map
      /\ h = todo[1] /\ 1 \in DOMAIN todo /\ h \in Call /\ h.key \in StoreKey
  BY <1>1, CatParts, HeadTail, FirstStored DEF Call
<1>3. /\ Applied(store, h) \in Map /\ Applied(store, h)[h.key] = h.val
      /\ \A k \in StoreKey : k # h.key => Applied(store, h)[k] = store[k]
      /\ Applied(file, h)[h.key] = h.val
      /\ \A k \in StoreKey : k # h.key => Applied(file, h)[k] = file[k]
  BY <1>2, AppliedRow
<1>4. Exempt \subseteq Exempt' /\ half \subseteq half'
  BY <1>1, CutFacts
<1> HIDE DEF h
<1>5. UnknownIsHalf'
  <2>1. ASSUME NEW n \in IndexName, indexes[n] = NoIndex, NEW m \in {store', file'},
               NEW id \in CatalogIds(m, "index"), CatalogRow(m, id).name = n
        PROVE  id \in half'
    <3>1. PICK map \in {store, file} : m = map \/ (todo # <<>> /\ m = Applied(map, Head(todo)))
      BY <1>1 DEF h
    <3> QED
      BY <1>1, <2>1, <3>1, FoundIsHalf
  <2> QED
    BY <1>1, <2>1 DEF UnknownIsHalf
<1>6. OnlyCaughtDiffer'
  <2>1. ASSUME NEW k \in StoreKey, unpack_table_id(k) \in CatalogIds(store', "table"),
               unpack_table_id(k) \notin CatalogIds(store, "table")
        PROVE  Creating /\ unpack_table_id(k) = stmt.id
    <3> DEFINE id == unpack_table_id(k)
    <3>1. id \in 1..MaxId /\ CatalogRow(store', id) # CatalogRow(store, id)
      BY <2>1 DEF CatalogIds
    <3> QED
      BY <1>1, <3>1, CatalogStep DEF h
  <2>2. ASSUME NEW k \in StoreKey, file[k] # store[k]
        PROVE  Caught(k)'
    <3>1. Caught(k)
      BY <2>2 DEF SyncInv, OnlyCaughtDiffer
    <3>2. CASE unpack_table_id(k) \in half \ CatalogIds(store, "table")
      <4>1. unpack_table_id(k) \notin CatalogIds(store', "table")
        BY <2>1, <2>2, <3>2, FirstOfEither
      <4> QED
        BY <1>4, <3>2, <4>1 DEF Caught
    <3> QED
      BY <1>4, <3>1, <3>2 DEF Caught
  <2>3. ASSUME NEW k \in StoreKey, k = h.key
        PROVE  Caught(k)'
    <3>1. CASE stmt.kind \in {"insert", "update", "delete"}
      BY <1>1, <1>2, <2>3, <3>1, CutFacts DEF Caught
    <3>2. CASE unpack_table_id(h.key) = CATALOG_TABLE_ID
      BY <2>3, <3>2 DEF Caught
    <3>3. CASE /\ stmt.kind = "create_index" /\ unpack_table_id(h.key) = stmt.id /\ h.val = EntryValue
               /\ unpack_table_id(h.key) # CATALOG_TABLE_ID
      <4>1. stmt.id \in half'
        BY <1>1, <3>3, CutFacts
      <4>2. ~ Creating
        BY <3>3, FirstOfEither DEF h
      <4>3. DataCall(h)
        BY <1>2, <4>2 DEF CatInv, CatalogInv
      <4>4. h.val # Absent /\ h.val.kind = "entry"
        <5>1. EntryValue \in StoreValue /\ EntryValue.kind = "entry"
          BY DEF StoreValue, EntryValue
        <5> QED
          BY <3>3, <5>1, StoredAssumption
      <4>5. stmt.id \notin CatalogIds(store, "table")
        BY <3>3, <4>3, <4>4, IdsApart DEF DataCall
      <4>6. stmt.id \notin CatalogIds(store', "table")
        BY <1>2, <2>1, <3>3, <4>2, <4>5
      <4> QED
        BY <2>3, <3>3, <4>1, <4>6 DEF Caught
    <3>4. stmt.kind \in {"create_table", "create_index"} =>
             \/ unpack_table_id(h.key) = CATALOG_TABLE_ID
             \/ stmt.kind = "create_index" /\ unpack_table_id(h.key) = stmt.id /\ h.val = EntryValue
      BY <1>2 DEF SyncInv, CreatesOwn
    <3>5. stmt.kind # "none"
      <4>1. stmt \in Statement /\ (Idle => todo = <<>>)
        BY CatParts, IdleParts
      <4> QED
        BY <1>1, <4>1, Statements DEF Idle
    <3>6. stmt.kind \in {"create_table", "create_index", "insert", "update", "delete"}
      BY <3>5, CatParts, Statements
    <3> QED
      BY <3>1, <3>2, <3>3, <3>4, <3>6
  <2>4. ASSUME NEW k \in StoreKey
        PROVE  file'[k] = store'[k] \/ Caught(k)'
    <3>1. CASE k = h.key
      BY <2>3, <3>1
    <3>2. CASE k # h.key
      <4>1. file'[k] = file[k] /\ store'[k] = store[k]
        BY <1>1, <1>3, <3>2
      <4> QED
        BY <2>2, <4>1
    <3> QED
      BY <3>1, <3>2
  <2> QED
    BY <2>4 DEF OnlyCaughtDiffer
<1>7. ASSUME NEW map \in {store', file'}, NEW k \in StoreKey
      PROVE  \/ map[k] \in {store[k], file[k]}
             \/ todo # <<>> /\ k = Head(todo).key /\ map[k] = Head(todo).val
  BY <1>1, <1>3 DEF h
<1>8. store' \in Map /\ Kept(indexes', half') \subseteq Kept(indexes, half')
  BY <1>1, <1>2, <1>3
<1> QED
  BY <1>1, <1>5, <1>6, <1>7, <1>8, CutSync

\* A restart.
LEMMA RestartSync ==
    ASSUME IdsFit, CatInv, SyncInv, Restart
    PROVE  SyncInv'
<1>1. /\ CutShort /\ file' = store' /\ indexes' = LoadedIndexes(store')
      /\ \/ store' = file
         \/ todo # <<>> /\ store' = Applied(file, Head(todo))
  BY DEF Restart
<1>2. store' \in Map /\ CatOK(store', next_id, tables, indexes)
  BY <1>1, CatParts, FirstStored
<1>3. ASSUME NEW n \in IndexName
      PROVE  LET id == Latest(store', "index", n)
             IN  /\ id # 0 => /\ indexes'[n].id = id /\ id \in CatalogIds(store', "index")
                              /\ CatalogRow(store', id).name = n
                 /\ id = 0 => indexes'[n] = NoIndex
                 /\ indexes'[n] = NoIndex => id = 0
  <2> DEFINE id == Latest(store', "index", n)
  <2>1. /\ id # 0 => id \in CatalogIds(store', "index") /\ CatalogRow(store', id).name = n
    BY LatestRow
  <2>2. indexes'[n] = IF id = 0 THEN NoIndex ELSE [table |-> CatalogRow(store', id).table,
                                    column |-> CatalogRow(store', id).column, id |-> id]
    BY <1>1 DEF LoadedIndexes
  <2> HIDE DEF id
  <2>3. id # 0 => indexes'[n].id = id /\ indexes'[n] # NoIndex
    BY <2>2 DEF NoIndex
  <2> QED
    BY <2>1, <2>2, <2>3 DEF id
<1>4. UnknownIsHalf'
  <2>1. ASSUME NEW n \in IndexName, indexes'[n] = NoIndex, NEW j \in CatalogIds(store', "index"),
               CatalogRow(store', j).name = n
        PROVE  FALSE
    <3>1. j <= Latest(store', "index", n) /\ Latest(store', "index", n) = 0 /\ j \in 1..MaxId
      BY <1>3, <2>1, LatestRow DEF CatalogIds
    <3> QED
      BY <3>1
  <2> QED
    BY <1>1, <2>1 DEF UnknownIsHalf
<1>5. OnlyCaughtDiffer'
  BY <1>1 DEF OnlyCaughtDiffer
<1>6. Kept(indexes', half') \subseteq Kept(indexes, half')
  <2>1. ASSUME NEW n \in IndexName, indexes'[n] # NoIndex, indexes'[n].id \notin half'
        PROVE  indexes'[n] = indexes[n]
    <3>1. CASE indexes[n] # NoIndex
      BY <1>1, <1>2, <3>1 DEF CatOK
    <3>2. CASE indexes[n] = NoIndex
      <4> DEFINE id == Latest(store', "index", n)
      <4>1. id \in CatalogIds(store', "index") /\ CatalogRow(store', id).name = n /\ indexes'[n].id = id
        BY <1>3, <2>1
      <4> HIDE DEF id
      <4>2. id \in half'
        BY <1>1, <3>2, <4>1, FoundIsHalf
      <4> QED
        BY <2>1, <4>1, <4>2
    <3> QED
      BY <3>1, <3>2
  <2> QED
    BY <2>1 DEF Kept
<1>7. ASSUME NEW map \in {store', file'}, NEW k \in StoreKey
      PROVE  \/ map[k] \in {store[k], file[k]}
             \/ todo # <<>> /\ k = Head(todo).key /\ map[k] = Head(todo).val
  <2>1. CASE store' = file
    BY <1>1, <2>1
  <2>2. CASE todo # <<>> /\ store' = Applied(file, Head(todo))
    <3>1. Head(todo) \in Call /\ file \in Map
      BY <2>2, CatParts, FirstStored
    <3> QED
      BY <1>1, <2>2, <3>1, AppliedRow
  <2> QED
    BY <1>1, <2>1, <2>2
<1> QED
  BY <1>1, <1>2, <1>4, <1>5, <1>6, <1>7, CutSync

\* A checkpoint, and a step that changes nothing.
LEMMA SameSync ==
    ASSUME IdsFit, CatInv, SyncInv, file' \in {store, file}, store' = store, indexes' = indexes,
           stmt' = stmt, pending' = pending, todo' = todo, interrupted' = interrupted, half' = half
    PROVE  SyncInv'
<1>1. Final' = Final /\ Exempt' = Exempt /\ Live' = Live
  BY DEF Final, Exempt, Live, Registering
<1>2. CreatesOwn'
  BY DEF SyncInv, CreatesOwn
<1>3. LiveInSync'
  BY <1>1 DEF SyncInv, LiveInSync
<1>4. UnknownIsHalf'
  BY DEF SyncInv, UnknownIsHalf
<1>5. OnlyCaughtDiffer'
  <2>1. \A k : Caught(k)' <=> Caught(k)
    BY <1>1 DEF Caught
  <2> QED
    BY <2>1 DEF SyncInv, OnlyCaughtDiffer
<1>6. RowsKeyed'
  BY DEF SyncInv, RowsKeyed
<1>7. PendingCurrent'
  BY <1>1 DEF SyncInv, PendingCurrent
<1>8. AssignsOk'
  BY SameAllowed DEF SyncInv, AssignsOk
<1>9. MovesOne'
  <2>2. find_matches(stmt.id, stmt.where)' = find_matches(stmt.id, stmt.where)
    BY DEF find_matches, PointLookup, collect_matches, Found, InRange, Present
  <2>3. Searching' = Searching
    BY DEF Searching
  <2> QED
    BY <2>2, <2>3 DEF SyncInv, MovesOne
<1> QED
  BY <1>2, <1>3, <1>4, <1>5, <1>6, <1>7, <1>8, <1>9 DEF SyncInv

\* An empty store is in step.
LEMMA SyncStarts ==
    ASSUME IdsFit, ExecInit
    PROVE  SyncInv
<1>1. /\ \A k \in StoreKey : store[k] = Absent
      /\ file = store /\ todo = <<>> /\ pending = <<>> /\ stmt.kind = "none"
      /\ \A n \in IndexName : indexes[n] = NoIndex
  BY DEF ExecInit, Nothing
<1>2. Live = {}
  BY <1>1 DEF Live, Registering
<1>3. UnknownIsHalf
  <2>1. \A id \in 1..MaxId : CatalogRow(store, id) = Absent
    <3>1. \A id \in 1..MaxId : pack_key(CATALOG_TABLE_ID, id) \in StoreKey
      BY Spans, CatalogKey
    <3> QED
      BY <1>1, <3>1 DEF CatalogRow
  <2> QED
    BY <1>1, <2>1 DEF UnknownIsHalf, CatalogIds
<1>4. RowsKeyed
  BY <1>1 DEF RowsKeyed, RowKeyed
<1> QED
  BY <1>1, <1>2, <1>3, <1>4
     DEF SyncInv, CreatesOwn, LiveInSync, OnlyCaughtDiffer, PendingCurrent, AssignsOk, MovesOne

\* Every step keeps the indexes in step.
LEMMA SyncInvKept ==
    ASSUME IdsFit, KeyUpdates = "one", CatInv, SyncInv, [ExecNext]_vars
    PROVE  SyncInv'
<1>1. ASSUME NEW t \in TableName, CreateTable(t)
      PROVE  SyncInv'
  BY <1>1, CreateTableSync
<1>2. ASSUME NEW t \in TableName, NEW n \in IndexName, NEW c \in IndexColumn, CreateIndex(n, t, c)
      PROVE  SyncInv'
  BY <1>2, ExecAssumption, CreateIndexSync
<1>3. ASSUME NEW t \in TableName, NEW i \in IdLiteral, NEW a \in ALiteral, Insert(t, [id |-> i, a |-> a])
      PROVE  SyncInv'
  BY <1>3, InsertSync
<1>4. ASSUME NEW t \in TableName, NEW w \in WhereInput, Delete(t, w)
      PROVE  SyncInv'
  BY <1>4, BeginSync DEF Delete
<1>5. ASSUME NEW t \in TableName, NEW w \in WhereInput, NEW set \in SetInput, Update(t, set, w)
      PROVE  SyncInv'
  BY <1>5, BeginSync DEF Update
<1>6. CASE Search
  BY <1>6, SearchSync
<1>7. CASE UpdateRow
  BY <1>7, UpdateRowSync
<1>8. CASE DeleteRow
  BY <1>8, DeleteRowSync
<1>9. CASE Finish
  BY <1>9, FinishSync
<1>10. CASE StoreCall
  BY <1>10, StoreCallSync
<1>11. CASE Throw
  BY <1>11, ThrowSync
<1>12. CASE Restart
  BY <1>12, RestartSync
<1>13. CASE Checkpoint \/ UNCHANGED vars
  <2>1. /\ file' \in {store, file} /\ store' = store /\ indexes' = indexes
        /\ stmt' = stmt /\ pending' = pending /\ todo' = todo
        /\ interrupted' = interrupted /\ half' = half
    BY <1>13 DEF Checkpoint, vars, data, catalog, work, faults
  <2> QED
    BY <2>1, SameSync
<1> QED
  BY <1>1, <1>2, <1>3, <1>4, <1>5, <1>6, <1>7, <1>8, <1>9, <1>10, <1>11, <1>12, <1>13
     DEF ExecNext

\* Between any two calls to the store, the calls that are left bring every index
\* in step, and what an interruption leaves out of step is what it is noted for;
\* as long as no UPDATE gives several rows a new key.
THEOREM SyncKept == IdsFit /\ KeyUpdates = "one" => (ExecSpec => []SyncInv)
<1> SUFFICES ASSUME IdsFit, KeyUpdates = "one"
             PROVE  ExecSpec => []SyncInv
  OBVIOUS
<1>1. ExecInit => CatInv /\ SyncInv
  BY CatalogStarts, SyncStarts
<1>2. (CatInv /\ SyncInv) /\ [ExecNext]_vars => (CatInv /\ SyncInv)'
  BY CatInvKept, SyncInvKept
<1> QED
  BY <1>1, <1>2, PTL DEF ExecSpec

\* IndexInSync: between statements every index has one entry for each row, under
\* its value, and no other, whatever was inserted over, moved, deleted or cut short.
THEOREM IndexInSyncHolds == IdsFit /\ KeyUpdates = "one" => (ExecSpec => []IndexInSync)
<1> SUFFICES ASSUME IdsFit, KeyUpdates = "one"
             PROVE  ExecSpec => []IndexInSync
  OBVIOUS
<1>1. CatInv /\ SyncInv => IndexInSync
  <2> SUFFICES ASSUME CatInv, SyncInv, Idle, NEW n \in IndexName,
                      indexes[n] # NoIndex, indexes[n].id \notin half,
                      NEW pk \in (0..SECONDARY_PK_MASK) \ Exempt
               PROVE  InSync(store, indexes[n], pk)
    BY DEF IndexInSync
  <2>1. Final = store
    BY IdleParts, FinalIsStore
  <2>2. indexes[n] \in Live
    BY DEF Live
  <2>3. InStep(store, indexes[n], Exempt)
    BY <2>1, <2>2 DEF SyncInv, LiveInSync
  <2> QED
    BY <2>3 DEF InStep
<1>2. ExecSpec => []CatInv
  BY CatalogKept
<1>3. ExecSpec => []SyncInv
  BY SyncKept
<1> QED
  BY <1>1, <1>2, <1>3, PTL

-----------------------------------------------------------------------------
(* The answers of queries.                                                 *)

\* Each row of a table is stored under the key its first column says.
TableKeyed(id) == \A k \in TableKeys(id) : store[k].row.id = unpack_primary_key(k)

\* The search of an UPDATE or DELETE finds the rows its WHERE clause is about,
\* whatever path it takes.
LEMMA FindLists ==
    ASSUME IdsFit, store \in Map, KeysApart(store), NEW id \in CatalogIds(store, "table"), TableKeyed(id),
           NEW where \in {NoWhere} \cup Where, WhereOk(where)
    PROVE  Lists(find_matches(id, where), Hits(id, where))
<1>0. 0 \in Int /\ PRIMARY_KEY_MASK \in Int
  BY Spans
<1>1. \A k \in TableKeys(id) : unpack_primary_key(k) \in 0..PRIMARY_KEY_MASK
  BY KeyParts DEF TableKeys
<1>2. CASE ByKey(where)
  <2>1. where # NoWhere /\ where.op = "=" /\ where.column = "id"
    BY <1>2 DEF ByKey, NoWhere
  <2>2. where.value \in Int
    BY <2>1 DEF WhereOk, Where, NoWhere
  <2>3. find_matches(id, where) = PointLookup(id, where.value)
    BY <1>2 DEF find_matches, ByKey, ByKeyRange
  <2>4. ASSUME NEW k \in TableKeys(id)
        PROVE  Hit(k, where) <=> unpack_primary_key(k) = where.value
    BY <2>1 DEF Hit, matches, TableKeyed
  <2>5. Hits(id, where) = {k \in TableKeys(id) : unpack_primary_key(k) = where.value}
    BY <2>4 DEF Hits
  <2> QED
    BY <2>2, <2>3, <2>5, PointLists
<1>3. CASE ByKeyRange(where)
  <2>1. where # NoWhere /\ where.op = "BETWEEN" /\ where.column = "id"
    BY <1>3 DEF ByKeyRange, NoWhere
  <2>2. where.value \in Int /\ where.value2 \in Int
    BY <2>1 DEF WhereOk, Where, NoWhere
  <2>3. find_matches(id, where) = collect_matches(id, where.value, where.value2, NoWhere)
    BY <1>3 DEF find_matches, ByKey, ByKeyRange
  <2>4. ASSUME NEW k \in TableKeys(id)
        PROVE  Hit(k, where) <=> /\ where.value <= unpack_primary_key(k)
                                 /\ unpack_primary_key(k) <= where.value2 /\ Hit(k, NoWhere)
    BY <2>1 DEF Hit, matches, TableKeyed
  <2>5. Hits(id, where) = {k \in TableKeys(id) : /\ where.value <= unpack_primary_key(k)
                                                 /\ unpack_primary_key(k) <= where.value2 /\ Hit(k, NoWhere)}
    BY <2>4 DEF Hits
  <2> QED
    BY <2>2, <2>3, <2>5, CollectLists
<1>4. CASE ~ ByKey(where) /\ ~ ByKeyRange(where)
  <2>1. find_matches(id, where) = collect_matches(id, 0, PRIMARY_KEY_MASK, where)
    BY <1>4 DEF find_matches
  <2>2. Hits(id, where) = {k \in TableKeys(id) : /\ 0 <= unpack_primary_key(k)
                                                 /\ unpack_primary_key(k) <= PRIMARY_KEY_MASK /\ Hit(k, where)}
    BY <1>1 DEF Hits
  <2> QED
    BY <1>0, <2>1, <2>2, CollectLists
<1> QED
  BY <1>2, <1>3, <1>4

\* Lists of one element each, joined, are the list of their elements.
LEMMA FlattenSingles ==
    ASSUME NEW S, NEW ss \in Seq(Seq(S)), \A n \in 1..Len(ss) : Len(ss[n]) = 1
    PROVE  /\ FlattenSeq(ss) \in Seq(S) /\ Len(FlattenSeq(ss)) = Len(ss)
           /\ \A n \in 1..Len(ss) : FlattenSeq(ss)[n] = ss[n][1]
<1>0. /\ Len(ss) \in Nat /\ \A i \in 1..Len(ss) : ss[i] \in Seq(S)
  <2>1. Len(ss) \in Nat
    BY LenProperties
  <2>2. \A i \in 1..Len(ss) : ss[i] \in Seq(S)
    BY ElementOfSeq
  <2> QED
    BY <2>1, <2>2
<1>1. CASE Len(ss) = 0
  <2>1. FlattenSeq(ss) = <<>>
    BY <1>1, EmptySeq DEF FlattenSeq
  <2>2. <<>> \in Seq(S) /\ Len(<<>>) = 0 /\ 1..0 = {}
    OBVIOUS
  <2> QED
    BY <1>1, <2>1, <2>2
<1>2. CASE Len(ss) # 0
  <2>1. PICK part \in [1..Len(ss) -> Seq(S)] : Joins(part, ss) /\ FlattenSeq(ss) = part[Len(ss)]
    BY <1>2, Flattened
  <2> DEFINE Right(m) == Len(part[m]) = m /\ \A i \in 1..m : part[m][i] = ss[i][1]
             wrong == {m \in 1..Len(ss) : ~ Right(m)}
  <2>2. ASSUME wrong # {}
        PROVE  FALSE
    <3>1. wrong \in SUBSET Nat
      OBVIOUS
    <3>2. PICK m \in wrong : \A k \in wrong : m <= k
      BY <2>2, <3>1, LeastNumber
    <3>3. ~ Right(m) /\ m \in 1..Len(ss)
      OBVIOUS
    <3>4. CASE m = 1
      <4>1. part[m] = ss[1] /\ 1 \in 1..Len(ss) /\ \A i \in 1..1 : i = 1
        BY <1>0, <1>2, <2>1, <3>4 DEF Joins
      <4> QED
        BY <3>3, <3>4, <4>1
    <3>5. CASE m # 1
      <4>1. /\ m \in 2..Len(ss) /\ m \in Nat /\ m - 1 \in 1..Len(ss) /\ ~ (m <= m - 1)
            /\ \A i \in 1..m : i = m \/ i \in 1..(m - 1)
        BY <1>0, <3>5
      <4>2. Right(m - 1)
        BY <3>2, <4>1
      <4>3. part[m] = part[m - 1] \o ss[m]
        BY <2>1, <4>1 DEF Joins
      <4>4. part[m - 1] \in Seq(S) /\ ss[m] \in Seq(S) /\ Len(ss[m]) = 1
        BY <1>0, <3>3, <4>1
      <4> DEFINE p == part[m - 1]
                 q == ss[m]
      <4>5. p \in Seq(S) /\ q \in Seq(S) /\ Len(p) = m - 1 /\ Len(q) = 1 /\ part[m] = p \o q
        BY <4>2, <4>3, <4>4
      <4> HIDE DEF p, q
      <4>6. /\ Len(p \o q) = m
            /\ \A i \in 1..m : (p \o q)[i] = IF i <= m - 1 THEN p[i] ELSE q[i - (m - 1)]
        <5>1. /\ Len(p \o q) = Len(p) + Len(q)
              /\ \A i \in 1..(Len(p) + Len(q)) :
                    (p \o q)[i] = IF i <= Len(p) THEN p[i] ELSE q[i - Len(p)]
          BY <4>5, ConcatProperties
        <5>2. Len(p) + Len(q) = m
          BY <4>1, <4>5
        <5> QED
          BY <4>5, <5>1, <5>2
      <4>7. \A i \in 1..m : part[m][i] = ss[i][1]
        <5>1. part[m][m] = ss[m][1]
          <6>1. m \in 1..m /\ ~ (m <= m - 1) /\ m - (m - 1) = 1
            BY <4>1
          <6> QED
            BY <4>5, <4>6, <6>1 DEF q
        <5>2. \A i \in 1..(m - 1) : part[m][i] = ss[i][1]
          <6>1. \A i \in 1..(m - 1) : i \in 1..m /\ i <= m - 1
            BY <4>1
          <6>2. \A i \in 1..(m - 1) : p[i] = ss[i][1]
            BY <4>2 DEF p
          <6> QED
            BY <4>5, <4>6, <6>1, <6>2
        <5> QED
          BY <4>1, <5>1, <5>2
      <4> QED
        BY <3>3, <4>5, <4>6, <4>7
    <3> QED
      BY <3>4, <3>5
  <2>3. Len(ss) \in 1..Len(ss)
    BY <1>0, <1>2
  <2>4. Right(Len(ss))
    BY <2>2, <2>3
  <2>5. FlattenSeq(ss) \in Seq(S)
    BY <2>1, <2>3, SMTT(30)
  <2> QED
    BY <2>1, <2>4, <2>5
<1> QED
  BY <1>1, <1>2

\* A list of the row under one key has that one match.
LEMMA OneListed ==
    ASSUME NEW list, NEW keys, NEW key, keys = {key}, Lists(list, keys)
    PROVE  Len(list) = 1 /\ list[1] = [key |-> key, row |-> store[key].row]
<1> DEFINE N == Len(list)
<1>1. list \in Seq(Match) /\ N \in Nat /\ \A n \in 1..N : list[n] \in Match
  BY LenProperties, ElementOfSeq DEF Lists
<1>2. /\ \A n \in 1..N : list[n].key = key /\ list[n].row = store[key].row
      /\ \A m, n \in 1..N : m < n => list[m].key # list[n].key
      /\ \E n \in 1..N : list[n].key = key
  BY DEF Lists
<1> HIDE DEF N
<1>3. N = 1
  <2>1. N # 0
    BY <1>2
  <2>2. ~ (N > 1)
    <3>1. N > 1 => 1 \in 1..N /\ 2 \in 1..N /\ 1 < 2
      BY <1>1
    <3> QED
      BY <1>2, <3>1
  <2> QED
    BY <1>1, <2>1, <2>2
<1>4. list[1] \in Match /\ list[1].key = key /\ list[1].row = store[key].row
  <2>1. 1 \in 1..N
    BY <1>3
  <2> QED
    BY <1>1, <1>2, <2>1
<1> QED
  BY <1>3, <1>4 DEF Match, N

\* The entries the index path goes through.
Entries(x, v) ==
    InRange(pack_key(x.id, pack_secondary_composite(v, 0)),
            pack_key(x.id, pack_secondary_composite(v, SECONDARY_PK_MASK)))

\* The key of the row an entry is about.
RowKeyOf(x, k) == pack_key(x.table, unpack_secondary_pk(unpack_primary_key(k)))

\* The keys of the rows with an indexed value.
ValueKeys(x, v) == {k \in TableKeys(x.table) : store[k].row[x.column] = v}

\* Each entry is that of one such row, and each such row has one.
LEMMA EntriesMatch ==
    ASSUME IdsFit, store \in Map, KeysApart(store), NEW x \in IndexRecord, InStep(store, x, {}),
           x.column # "id", x.table \in CatalogIds(store, "table"), TableKeyed(x.table),
           NEW v \in 0..SECONDARY_VALUE_MASK
    PROVE  /\ Entries(x, v) \in SUBSET StoreKey
           /\ \A k \in Entries(x, v) : RowKeyOf(x, k) \in ValueKeys(x, v)
           /\ \A j, k \in Entries(x, v) : RowKeyOf(x, j) = RowKeyOf(x, k) => j = k
           /\ \A h \in ValueKeys(x, v) : \E k \in Entries(x, v) : RowKeyOf(x, k) = h
<1> USE DEF ValueKeys
<1>0. /\ x.id \in 0..MaxId /\ x.table \in 0..MaxId /\ x.column \in Column /\ v \in Int
      /\ SECONDARY_VALUE_MASK = ValueSpan - 1 /\ 0 \in 0..(PkSpan - 1)
      /\ SECONDARY_PK_MASK \in 0..(PkSpan - 1) /\ SECONDARY_PK_MASK \in Int /\ v \in 0..(ValueSpan - 1)
      /\ SECONDARY_PK_MASK = PkSpan - 1 /\ SECONDARY_PK_MASK <= PRIMARY_KEY_MASK
      /\ PRIMARY_KEY_MASK \in Nat
  BY Spans DEF IndexRecord, SECONDARY_VALUE_MASK
<1>1. ASSUME NEW k
      PROVE  k \in Entries(x, v) <=>
                /\ k \in StoreKey /\ store[k] # Absent /\ unpack_table_id(k) = x.id
                /\ pack_secondary_composite(v, 0) <= unpack_primary_key(k)
                /\ unpack_primary_key(k) <= pack_secondary_composite(v, SECONDARY_PK_MASK)
  <2> DEFINE lo == pack_secondary_composite(v, 0)
             hi == pack_secondary_composite(v, SECONDARY_PK_MASK)
  <2>1. lo \in 0..PRIMARY_KEY_MASK /\ hi \in 0..PRIMARY_KEY_MASK
    BY <1>0, CompositeKey
  <2>2. k \in Entries(x, v) <=> /\ k \in StoreKey /\ store[k] # Absent
                                /\ pack_key(x.id, lo) <= k /\ k <= pack_key(x.id, hi)
    BY DEF Entries, InRange, Present, Map
  <2> HIDE DEF lo, hi
  <2>3. k \in StoreKey => ((pack_key(x.id, lo) <= k /\ k <= pack_key(x.id, hi))
                            <=> (/\ unpack_table_id(k) = x.id
                                 /\ lo <= unpack_primary_key(k) /\ unpack_primary_key(k) <= hi))
    BY <1>0, <2>1, KeyBlock
  <2> QED
    BY <2>2, <2>3 DEF lo, hi
<1>2. ASSUME NEW p \in 0..SECONDARY_PK_MASK
      PROVE  LET key == pack_key(x.table, p)
             IN  /\ key \in StoreKey /\ unpack_table_id(key) = x.table /\ unpack_primary_key(key) = p
                 /\ key \in TableKeys(x.table) =>
                       /\ store[key].row[x.column] \in 0..SECONDARY_VALUE_MASK
                       /\ EntriesFor(store, x, p) = {pack_secondary_composite(store[key].row[x.column], p)}
                 /\ key \notin TableKeys(x.table) => EntriesFor(store, x, p) = {}
  <2> DEFINE key == pack_key(x.table, p)
  <2>1. p \in 0..PRIMARY_KEY_MASK
    BY <1>0
  <2>2. key \in StoreKey /\ unpack_table_id(key) = x.table /\ unpack_primary_key(key) = p
    BY <1>0, <2>1, KeyOf
  <2>3. /\ InSync(store, x, p)
        /\ store[key] # Absent => Indexable(store[key], p, x, {})
    BY <2>1 DEF InStep
  <2>4. store[key] # Absent => store[key].row[x.column] \in 0..SECONDARY_VALUE_MASK
    BY <2>3 DEF Indexable
  <2> QED
    BY <2>2, <2>3, <2>4 DEF InSync, TableKeys
<1>3. ASSUME NEW k \in Entries(x, v)
      PROVE  /\ RowKeyOf(x, k) \in ValueKeys(x, v)
             /\ \E p \in 0..SECONDARY_PK_MASK :
                   RowKeyOf(x, k) = pack_key(x.table, p) /\ k = pack_key(x.id, pack_secondary_composite(v, p))
  <2> DEFINE e   == unpack_primary_key(k)
             p   == e % PkSpan
             key == pack_key(x.table, p)
             w   == store[key].row[x.column]
  <2>1. /\ e \in 0..PRIMARY_KEY_MASK /\ k = pack_key(x.id, e) /\ store[k] # Absent
        /\ pack_secondary_composite(v, 0) <= e /\ e <= pack_secondary_composite(v, SECONDARY_PK_MASK)
    BY <1>1, KeyParts
  <2>2. p \in 0..SECONDARY_PK_MASK /\ p \in 0..(PkSpan - 1)
    BY <1>0, <2>1, Spans, Divided
  <2>3. e \in EntriesFor(store, x, p)
    BY <2>1 DEF EntriesFor, unpack_secondary_pk
  <2>4. RowKeyOf(x, k) = key
    BY DEF RowKeyOf, unpack_secondary_pk
  <2> HIDE DEF p
  <2>5. key \in TableKeys(x.table) /\ w \in 0..SECONDARY_VALUE_MASK /\ e = pack_secondary_composite(w, p)
    BY <1>2, <2>2, <2>3
  <2> HIDE DEF w
  <2>6. v = w
    <3>1. w \in 0..(ValueSpan - 1) /\ v \in 0..(ValueSpan - 1)
      BY <1>0, <2>5
    <3> QED
      BY <2>1, <2>2, <2>5, <3>1, CompositeBlock
  <2>7. k = pack_key(x.id, pack_secondary_composite(v, p))
    BY <2>1, <2>5, <2>6
  <2> QED
    BY <2>2, <2>4, <2>5, <2>6, <2>7 DEF w
<1>4. ASSUME NEW j \in Entries(x, v), NEW k \in Entries(x, v), RowKeyOf(x, j) = RowKeyOf(x, k)
      PROVE  j = k
  <2>1. PICK p \in 0..SECONDARY_PK_MASK :
           RowKeyOf(x, j) = pack_key(x.table, p) /\ j = pack_key(x.id, pack_secondary_composite(v, p))
    BY <1>3
  <2>2. PICK q \in 0..SECONDARY_PK_MASK :
           RowKeyOf(x, k) = pack_key(x.table, q) /\ k = pack_key(x.id, pack_secondary_composite(v, q))
    BY <1>3
  <2>3. unpack_primary_key(pack_key(x.table, p)) = p /\ unpack_primary_key(pack_key(x.table, q)) = q
    BY <1>2
  <2> QED
    BY <1>4, <2>1, <2>2, <2>3
<1>5. ASSUME NEW h \in ValueKeys(x, v)
      PROVE  \E k \in Entries(x, v) : RowKeyOf(x, k) = h
  <2> DEFINE p == unpack_primary_key(h)
             e == pack_secondary_composite(v, p)
             k == pack_key(x.id, e)
  <2>1. p \in 0..PRIMARY_KEY_MASK /\ h = pack_key(x.table, p) /\ store[h] # Absent
        /\ store[h].row[x.column] = v /\ h \in TableKeys(x.table)
    BY KeyParts DEF TableKeys
  <2>2. p \in 0..SECONDARY_PK_MASK
    <3>1. Indexable(store[h], p, x, {})
      BY <2>1 DEF InStep
    <3> QED
      BY <1>0, <2>1, <3>1 DEF Indexable
  <2> HIDE DEF p
  <2>3. e \in EntriesFor(store, x, p)
    BY <1>2, <2>1, <2>2
  <2>4. e \in 0..PRIMARY_KEY_MASK /\ unpack_secondary_pk(e) = p /\ store[k] # Absent
    BY <2>3 DEF EntriesFor
  <2>5. k \in StoreKey /\ unpack_table_id(k) = x.id /\ unpack_primary_key(k) = e
    BY <1>0, <2>4, KeyOf
  <2>6. pack_secondary_composite(v, 0) <= e /\ e <= pack_secondary_composite(v, SECONDARY_PK_MASK)
    <3>1. p \in 0..(PkSpan - 1)
      BY <1>0, <2>2
    <3> QED
      BY <1>0, <3>1, CompositeBlock
  <2>7. k \in Entries(x, v)
    BY <1>1, <2>4, <2>5, <2>6
  <2>8. RowKeyOf(x, k) = h
    BY <2>1, <2>4, <2>5 DEF RowKeyOf
  <2> QED
    BY <2>7, <2>8
<1>6. Entries(x, v) \in SUBSET StoreKey
  BY <1>1
<1> QED
  BY <1>3, <1>4, <1>5, <1>6

\* A query that takes the path over an index; and indexes that may be taken.
ByIndex(id, where) == access_method(id, where) = "secondary index lookup"
AllInStep(names) == \A n \in names : indexes[n] \in IndexRecord /\ InStep(store, indexes[n], {})

\* The path over an index finds the rows its WHERE clause is about.
LEMMA IndexLists ==
    ASSUME IdsFit, store \in Map, KeysApart(store), NEW id \in CatalogIds(store, "table"), TableKeyed(id),
           NEW where \in {NoWhere} \cup Where, WhereOk(where),
           ByIndex(id, where), AllInStep(find_index_for_column(id, where.column))
    PROVE  Lists(IndexLookup(id, where), Hits(id, where))
<1>1. /\ where # NoWhere /\ where.op = "=" /\ where.column \in Column /\ where.column # "id"
      /\ where.value \in 0..SECONDARY_VALUE_MASK /\ find_index_for_column(id, where.column) # {}
  <2>1. /\ where # NoWhere /\ where.op = "=" /\ ~ ByKey(where)
        /\ where.value \in 0..SECONDARY_VALUE_MASK /\ find_index_for_column(id, where.column) # {}
    <3> DEFINE arm == /\ where.op = "=" /\ ~ ByKey(where)
                      /\ where.value \in 0..SECONDARY_VALUE_MASK
                      /\ find_index_for_column(id, where.column) # {}
    <3>1. where = NoWhere => access_method(id, where) = "full scan"
      BY DEF access_method, ByKey, ByKeyRange, NoWhere
    <3>2. ByKey(where) => access_method(id, where) = "point lookup"
      BY DEF access_method, ByKey, ByKeyRange, NoWhere
    <3>3. ByKeyRange(where) => access_method(id, where) = "range scan"
      BY DEF access_method, ByKey, ByKeyRange, NoWhere
    <3>4. where # NoWhere /\ ~ ByKey(where) /\ ~ ByKeyRange(where) /\ ~ arm =>
             access_method(id, where) = "full scan (filtered)"
      BY DEF access_method
    <3> HIDE DEF arm
    <3>5. arm /\ where # NoWhere
      BY <3>1, <3>2, <3>3, <3>4 DEF ByIndex
    <3> QED
      BY <3>5 DEF arm
  <2> QED
    BY <2>1 DEF ByKey, WhereOk
<1> DEFINE v       == where.value
           x       == indexes[CHOOSE n \in find_index_for_column(id, where.column) : TRUE]
           E       == Entries(x, v)
           entries == Ascending(E)
           pk(n)   == unpack_secondary_pk(unpack_primary_key(entries[n]))
           ss      == [n \in DOMAIN entries |-> PointLookup(id, pk(n))]
           hits    == ValueKeys(x, v)
           key(n)  == RowKeyOf(x, entries[n])
           N       == Len(entries)
<1>2. x \in IndexRecord /\ InStep(store, x, {}) /\ x.table = id /\ x.column = where.column
  BY <1>1 DEF AllInStep, find_index_for_column, indexes_for_table
<1>3. IndexLookup(id, where) = FlattenSeq(ss)
  BY DEF IndexLookup, Entries, range_scan
<1> HIDE DEF x
<1>4. Hits(id, where) = hits
  BY <1>1, <1>2 DEF Hits, Hit, matches, ValueKeys
<1>5. /\ E \in SUBSET StoreKey
      /\ \A k \in E : RowKeyOf(x, k) \in hits
      /\ \A j, k \in E : RowKeyOf(x, j) = RowKeyOf(x, k) => j = k
      /\ \A h \in hits : \E k \in E : RowKeyOf(x, k) = h
  <2>1. x.column # "id" /\ x.table \in CatalogIds(store, "table") /\ TableKeyed(x.table)
    BY <1>1, <1>2
  <2> QED
    BY <1>1, <1>2, <2>1, EntriesMatch
<1> HIDE DEF E
<1>6. E \in SUBSET Int /\ IsFiniteSet(E)
  BY <1>5, KeysFinite, FS_Subset
<1>7. /\ entries \in Seq(E) /\ IsAscending(entries)
      /\ \A k \in E : \E n \in 1..Len(entries) : entries[n] = k
  BY <1>6, AscendingLists
<1> HIDE DEF entries
<1>8. DOMAIN entries = 1..N /\ N \in Nat /\ \A n \in 1..N : entries[n] \in E
  BY <1>7, LenProperties, ElementOfSeq
<1> HIDE DEF N
<1>9. ASSUME NEW n \in 1..N
      PROVE  /\ ss[n] \in Seq(Match) /\ Len(ss[n]) = 1
             /\ ss[n][1] = [key |-> key(n), row |-> store[key(n)].row]
  <2>1. key(n) \in TableKeys(id)
    BY <1>2, <1>5, <1>8 DEF ValueKeys
  <2>2. entries[n] \in StoreKey
    BY <1>5, <1>8
  <2>3. unpack_primary_key(entries[n]) \in 0..PRIMARY_KEY_MASK
    BY <2>2, KeyParts
  <2>4. unpack_primary_key(entries[n]) \in Int
    BY <2>3, Spans
  <2>5. pk(n) \in 0..(PkSpan - 1)
    BY <2>4, Spans, Divided DEF unpack_secondary_pk
  <2>6. ss[n] = PointLookup(id, pk(n)) /\ key(n) = pack_key(id, pk(n))
    BY <1>2, <1>8 DEF RowKeyOf
  <2> HIDE DEF pk, ss
  <2>7. pk(n) \in 0..PRIMARY_KEY_MASK /\ pk(n) \in Int /\ id \in 0..MaxId
    BY <2>5, Spans DEF CatalogIds
  <2>8. unpack_primary_key(key(n)) = pk(n)
    BY <2>6, <2>7, KeyOf
  <2> HIDE DEF key
  <2>9. {k \in TableKeys(id) : unpack_primary_key(k) = pk(n)} = {key(n)}
    <3>1. \A k \in TableKeys(id) : k = pack_key(id, unpack_primary_key(k))
      BY KeyParts DEF TableKeys
    <3> QED
      BY <2>1, <2>6, <2>8, <3>1
  <2>10. Lists(PointLookup(id, pk(n)), {k \in TableKeys(id) : unpack_primary_key(k) = pk(n)})
    BY <2>7, PointLists
  <2>11. /\ Len(PointLookup(id, pk(n))) = 1
         /\ PointLookup(id, pk(n))[1] = [key |-> key(n), row |-> store[key(n)].row]
    BY <2>9, <2>10, OneListed
  <2> QED
    BY <2>6, <2>10, <2>11 DEF Lists
<1> HIDE DEF key
<1>10. ss \in Seq(Seq(Match)) /\ Len(ss) = N
  <2>1. DOMAIN ss = 1..N /\ ss = [n \in 1..N |-> ss[n]]
    BY <1>8
  <2> HIDE DEF ss
  <2>2. ss \in [1..N -> Seq(Match)]
    BY <1>9, <2>1
  <2> QED
    BY <1>8, <2>2
<1> HIDE DEF ss
<1> DEFINE list == FlattenSeq(ss)
<1>11. list \in Seq(Match) /\ Len(list) = N /\ \A n \in 1..N : list[n] = ss[n][1]
  BY <1>9, <1>10, FlattenSingles
<1> HIDE DEF list
<1>12. \A n \in 1..N : list[n].key = key(n) /\ list[n].row = store[key(n)].row
  <2> SUFFICES ASSUME NEW n \in 1..N
               PROVE  list[n].key = key(n) /\ list[n].row = store[key(n)].row
    OBVIOUS
  <2>1. list[n] = [key |-> key(n), row |-> store[key(n)].row]
    BY <1>9, <1>11
  <2> QED
    BY <2>1
<1>13. \A m, n \in 1..N : m < n => key(m) # key(n)
  <2> SUFFICES ASSUME NEW m \in 1..N, NEW n \in 1..N, m < n
               PROVE  key(m) # key(n)
    OBVIOUS
  <2>1. entries[m] < entries[n]
    BY <1>7, <1>8 DEF IsAscending
  <2>2. entries[m] \in E /\ entries[n] \in E
    BY <1>8
  <2>3. entries[m] \in Int /\ entries[n] \in Int
    BY <1>6, <2>2
  <2>4. entries[m] # entries[n]
    BY <2>1, <2>3
  <2> QED
    BY <1>5, <2>2, <2>4 DEF key
<1>14. \A n \in 1..N : key(n) \in hits
  BY <1>5, <1>8 DEF key
<1>15. \A h \in hits : \E n \in 1..N : key(n) = h
  BY <1>5, <1>7 DEF key, N
<1> HIDE DEF hits
<1>16. Lists(list, hits)
  BY <1>11, <1>12, <1>13, <1>14, <1>15 DEF Lists
<1> QED
  BY <1>3, <1>4, <1>16 DEF list

\* A list of the elements of a set, each once.
Enumerates(list, S) ==
    /\ list \in Seq(S)
    /\ \A x \in S : \E n \in 1..Len(list) : list[n] = x
    /\ \A m, n \in 1..Len(list) : list[m] = list[n] => m = n

\* How many there are.
LEMMA EnumeratedIs ==
    ASSUME NEW S, NEW list, Enumerates(list, S)
    PROVE  /\ Len(list) \in Nat /\ DOMAIN list = 1..Len(list) /\ IsFiniteSet(S)
           /\ Len(list) = Cardinality(S) /\ ToSet(list) = S
           /\ \A n \in 1..Len(list) : list[n] \in S
<1> DEFINE N == Len(list)
<1>1. list \in Seq(S)
  BY DEF Enumerates
<1>2. N \in Nat /\ DOMAIN list = 1..N /\ list \in [1..N -> S]
  BY <1>1, LenProperties
<1> HIDE DEF N
<1>3. list \in Surjection(1..N, S) /\ list \in Injection(1..N, S)
  BY <1>2 DEF Enumerates, Surjection, Injection, IsInjective, N
<1>4. IsFiniteSet(1..N) /\ Cardinality(1..N) = N
  BY <1>2, FirstNumbers
<1>5. IsFiniteSet(S) /\ Cardinality(S) = N
  BY <1>3, <1>4, FS_Surjection
<1>6. ToSet(list) = S
  BY <1>2 DEF Enumerates, ToSet, N
<1> QED
  BY <1>2, <1>5, <1>6 DEF N

\* A list of the rows a WHERE clause is about gives the answer, each row once.
LEMMA ListedRows ==
    ASSUME IdsFit, store \in Map, NEW id \in CatalogIds(store, "table"), TableKeyed(id), NEW where,
           NEW list, Lists(list, Hits(id, where))
    PROVE  /\ {m.row : m \in ToSet(list)} = Answer(id, where)
           /\ Len(list) = Cardinality(Answer(id, where))
           /\ Enumerates([n \in DOMAIN list |-> list[n].row], Answer(id, where))
           /\ Answer(id, where) \in SUBSET Row
<1> DEFINE hits == Hits(id, where)
           rows == [n \in DOMAIN list |-> list[n].row]
           N    == Len(list)
<1>0. id \in 0..MaxId
  BY DEF CatalogIds
<1>1. AllRows(id) = {store[k].row : k \in TableKeys(id)}
  <2>1. ASSUME NEW k
        PROVE  k \in TableKeys(id) <=> k \in Present /\ \E p \in 0..PRIMARY_KEY_MASK : k = pack_key(id, p)
    <3>1. Present = {j \in StoreKey : store[j] # Absent}
      BY DEF Present, Map
    <3>2. k \in TableKeys(id) => \E p \in 0..PRIMARY_KEY_MASK : k = pack_key(id, p)
      BY KeyParts DEF TableKeys
    <3>3. \A p \in 0..PRIMARY_KEY_MASK : k = pack_key(id, p) => unpack_table_id(k) = id
      BY <1>0, KeyOf
    <3> QED
      BY <3>1, <3>2, <3>3 DEF TableKeys
  <2> QED
    BY <2>1 DEF AllRows
<1>2. Answer(id, where) = {store[k].row : k \in hits}
  BY <1>1 DEF Answer, Hits, Hit
<1>3. /\ list \in Seq(Match) /\ N \in Nat /\ DOMAIN list = 1..N
      /\ \A n \in 1..N : list[n].key \in hits /\ list[n].row = store[list[n].key].row
      /\ \A m, n \in 1..N : m < n => list[m].key # list[n].key
      /\ \A k \in hits : \E n \in 1..N : list[n].key = k
  BY LenProperties DEF Lists
<1> HIDE DEF N
<1>4. ASSUME NEW r
      PROVE  r \in Answer(id, where) <=> \E n \in 1..N : r = list[n].row
  BY <1>2, <1>3
<1>5. DOMAIN rows = 1..N /\ \A n \in 1..N : rows[n] = list[n].row
  BY <1>3
<1>6. {m.row : m \in ToSet(list)} = Answer(id, where)
  BY <1>3, <1>4 DEF ToSet
<1>7. rows \in Seq(Answer(id, where)) /\ Len(rows) = N
  BY <1>3, <1>4, <1>5
<1> HIDE DEF rows
<1>8. ASSUME NEW m \in 1..N, NEW n \in 1..N, rows[m] = rows[n]
      PROVE  m = n
  <2>1. list[m].key \in TableKeys(id) /\ list[n].key \in TableKeys(id)
    BY <1>3 DEF Hits
  <2>2. \A k \in TableKeys(id) : store[k].row.id = unpack_primary_key(k) /\ k = pack_key(id, unpack_primary_key(k))
    BY KeyParts DEF TableKeys, TableKeyed
  <2>3. list[m].key = list[n].key
    BY <1>3, <1>5, <1>8, <2>1, <2>2
  <2>4. ~ (m < n) /\ ~ (n < m)
    BY <1>3, <2>3
  <2> QED
    BY <1>3, <2>4
<1>9. Enumerates(rows, Answer(id, where))
  BY <1>4, <1>5, <1>7, <1>8 DEF Enumerates
<1>10. Len(list) = Cardinality(Answer(id, where))
  BY <1>7, <1>9, EnumeratedIs DEF N
<1>11. Answer(id, where) \in SUBSET Row
  <2>1. \A n \in 1..N : list[n] \in Match
    BY <1>3, ElementOfSeq DEF N
  <2>2. \A n \in 1..N : list[n].row \in Row
    BY <2>1 DEF Match
  <2> QED
    BY <1>4, <2>2
<1> QED
  BY <1>6, <1>9, <1>10, <1>11 DEF rows

\* Every path but the one over an index is that of the search of UPDATE and DELETE.
LEMMA FetchedAs ==
    ASSUME NEW id, NEW where
    PROVE  LET found == IF ByIndex(id, where) THEN IndexLookup(id, where) ELSE find_matches(id, where)
           IN  Fetched(id, where) = [n \in DOMAIN found |-> found[n].row]
<1> DEFINE method == access_method(id, where)
           taken  == CASE method = "point lookup"           -> PointLookup(id, where.value)
                       [] method = "secondary index lookup" -> IndexLookup(id, where)
                       [] method = "range scan" ->
                               collect_matches(id, where.value, where.value2, NoWhere)
                       [] OTHER -> collect_matches(id, 0, PRIMARY_KEY_MASK, where)
           found  == IF ByIndex(id, where) THEN IndexLookup(id, where) ELSE find_matches(id, where)
<1>1. Fetched(id, where) = [n \in DOMAIN taken |-> taken[n].row]
  BY DEF Fetched
<1>2. taken = found
  <2> USE DEF ByIndex
  <2>1. CASE method = "secondary index lookup"
    BY <2>1
  <2>2. CASE ByKey(where)
    <3>1. method = "point lookup"
      BY <2>2 DEF access_method, ByKey, ByKeyRange, NoWhere
    <3> QED
      BY <2>2, <3>1 DEF find_matches, ByKey, ByKeyRange
  <2>3. CASE ByKeyRange(where)
    <3>1. method = "range scan"
      BY <2>3 DEF access_method, ByKey, ByKeyRange, NoWhere
    <3> QED
      BY <2>3, <3>1 DEF find_matches, ByKey, ByKeyRange
  <2>4. CASE method # "secondary index lookup" /\ ~ ByKey(where) /\ ~ ByKeyRange(where)
    <3>1. method \in {"full scan", "full scan (filtered)"}
      BY <2>4 DEF access_method
    <3> QED
      BY <2>4, <3>1 DEF find_matches
  <2> QED
    BY <2>1, <2>2, <2>3, <2>4
<1> QED
  BY <1>1, <1>2

\* What a query goes through and what the search of UPDATE and DELETE finds are the
\* answer, each row once.
LEMMA FoundAnswers ==
    ASSUME IdsFit, CatInv, SyncInv, Quiet, NEW t \in TableName, tables[t] # 0,
           NEW w \in {NoWhere} \cup Where, WhereOk(w)
    PROVE  /\ Enumerates(Fetched(tables[t], w), Answer(tables[t], w))
           /\ {m.row : m \in ToSet(find_matches(tables[t], w))} = Answer(tables[t], w)
           /\ Len(find_matches(tables[t], w)) = Cardinality(Answer(tables[t], w))
           /\ Answer(tables[t], w) \in SUBSET Row
<1> DEFINE id    == tables[t]
           found == IF ByIndex(id, w) THEN IndexLookup(id, w) ELSE find_matches(id, w)
<1>1. /\ Idle /\ half = {} /\ Exempt = {} /\ store \in Map /\ KeysApart(store) /\ Final = store
      /\ id \in CatalogIds(store, "table")
  BY CatParts, InCatalog, IdleParts, FinalIsStore DEF Quiet, Exempt
<1>2. TableKeyed(id)
  <2> SUFFICES ASSUME NEW k \in TableKeys(id)
               PROVE  store[k].row.id = unpack_primary_key(k)
    BY DEF TableKeyed
  <2>1. k \in StoreKey /\ store[k] # Absent /\ unpack_table_id(k) = id
    BY DEF TableKeys
  <2>2. store[k] = RowValue(store[k].row)
    BY <1>1, <2>1, Blocks
  <2>3. store[k].kind = "row"
    BY <2>2 DEF RowValue
  <2> QED
    BY <2>1, <2>3 DEF SyncInv, RowsKeyed, RowKeyed
<1>3. AllInStep(find_index_for_column(id, w.column))
  <2> SUFFICES ASSUME NEW n \in IndexName, indexes[n] # NoIndex
               PROVE  indexes[n] \in IndexRecord /\ InStep(store, indexes[n], {})
    BY DEF AllInStep, find_index_for_column, indexes_for_table
  <2>1. indexes[n] \in Live
    BY <1>1 DEF Live
  <2> QED
    BY <1>1, <2>1, IndexFacts DEF SyncInv, LiveInSync
<1> HIDE DEF id
<1>4. Lists(find_matches(id, w), Hits(id, w))
  BY <1>1, <1>2, FindLists
<1>5. Lists(found, Hits(id, w))
  BY <1>1, <1>2, <1>3, <1>4, IndexLists
<1>6. Fetched(id, w) = [n \in DOMAIN found |-> found[n].row]
  BY FetchedAs
<1> HIDE DEF found
<1>7. Enumerates(Fetched(id, w), Answer(id, w)) /\ Answer(id, w) \in SUBSET Row
  <2>1. /\ Enumerates([n \in DOMAIN found |-> found[n].row], Answer(id, w))
        /\ Answer(id, w) \in SUBSET Row
    BY <1>1, <1>2, <1>5, ListedRows
  <2> QED
    BY <1>6, <2>1
<1>8. /\ {m.row : m \in ToSet(find_matches(id, w))} = Answer(id, w)
      /\ Len(find_matches(id, w)) = Cardinality(Answer(id, w))
  BY <1>1, <1>2, <1>4, ListedRows
<1> QED
  BY <1>7, <1>8 DEF id

\* QueriesAgree: between statements, and as long as nothing was cut short, every path
\* a query may take, and the search of UPDATE and DELETE, gives exactly the rows its
\* WHERE clause is about, each once.
THEOREM QueriesAgreeHolds == IdsFit /\ KeyUpdates = "one" => (ExecSpec => []QueriesAgree)
<1> SUFFICES ASSUME IdsFit, KeyUpdates = "one"
             PROVE  ExecSpec => []QueriesAgree
  OBVIOUS
<1>1. CatInv /\ SyncInv => QueriesAgree
  <2> SUFFICES ASSUME CatInv, SyncInv, Quiet, NEW t \in TableName, NEW w \in WhereAsked,
                      tables[t] # 0, WhereOk(w)
               PROVE  LET answer == Answer(tables[t], w)
                          hits   == find_matches(tables[t], w)
                          rows   == Fetched(tables[t], w)
                      IN  /\ ToSet(rows) = answer /\ Len(rows) = Cardinality(answer)
                          /\ {m.row : m \in ToSet(hits)} = answer /\ Len(hits) = Cardinality(answer)
    BY DEF QueriesAgree
  <2>1. w \in {NoWhere} \cup Where
    BY ExecAssumption
  <2>2. /\ Enumerates(Fetched(tables[t], w), Answer(tables[t], w))
        /\ {m.row : m \in ToSet(find_matches(tables[t], w))} = Answer(tables[t], w)
        /\ Len(find_matches(tables[t], w)) = Cardinality(Answer(tables[t], w))
    BY <2>1, FoundAnswers
  <2> QED
    BY <2>2, EnumeratedIs
<1>2. ExecSpec => []CatInv
  BY CatalogKept
<1>3. ExecSpec => []SyncInv
  BY SyncKept
<1> QED
  BY <1>1, <1>2, <1>3, PTL

-----------------------------------------------------------------------------
(* Sums over lists.                                                        *)

\* The sum over a list is that over the set it lists.
LEMMA SumsAgree ==
    ASSUME NEW S, NEW list, Enumerates(list, S), NEW w \in [S -> Int], NEW v \in [1..Len(list) -> Int],
           \A n \in 1..Len(list) : v[n] = w[list[n]],
           NEW f, Sums(S, w, f), NEW g, Sums(1..Len(list), v, g)
    PROVE  g[1..Len(list)] = f[S]
<1> DEFINE N == Len(list)
           image(k) == {list[n] : n \in 1..k}
           T == {k \in Nat : k <= N => g[1..k] = f[image(k)]}
<1>0. N \in Nat /\ \A n \in 1..N : list[n] \in S
  BY EnumeratedIs
<1>1. ASSUME NEW k \in Nat, \A j \in Nat : j < k => j \in T
      PROVE  k \in T
  <2>1. CASE k = 0
    <3>1. 1..k = {} /\ image(k) = {}
      BY <2>1
    <3>2. g[{}] = 0 /\ f[{}] = 0
      BY DEF Sums
    <3> QED
      BY <3>1, <3>2
  <2>2. CASE k # 0
    <3>1. SUFFICES ASSUME k <= N
                   PROVE  g[1..k] = f[image(k)]
      OBVIOUS
    <3>2. k - 1 \in T /\ k - 1 \in Nat /\ k - 1 <= N
      <4> HIDE DEF T, N
      <4>1. k - 1 \in Nat /\ k - 1 < k /\ k - 1 <= N
        BY <1>0, <2>2, <3>1
      <4> QED
        BY <1>1, <4>1
    <3>3. g[1..(k - 1)] = f[image(k - 1)]
      BY <3>2
    <3>4. k \in 1..k /\ k \in 1..N /\ (1..k) \ {k} = 1..(k - 1) /\ 1..k \in SUBSET (1..N)
      BY <1>0, <2>2, <3>1
    <3>5. g[1..k] = v[k] + g[1..(k - 1)]
      <4>1. g[1..k] = v[k] + g[(1..k) \ {k}]
        BY <3>4 DEF Sums
      <4> QED
        BY <3>4, <4>1
    <3>6. image(k) \in SUBSET S /\ list[k] \in image(k)
      BY <1>0, <3>4
    <3>7. image(k) \ {list[k]} = image(k - 1)
      <4>1. \A n \in 1..k : list[n] = list[k] => n = k
        BY <3>4 DEF Enumerates
      <4>2. \A n \in 1..k : n = k \/ n \in 1..(k - 1)
        BY <3>4
      <4>3. \A n \in 1..(k - 1) : n \in 1..k /\ n # k
        BY <3>4
      <4> QED
        BY <4>1, <4>2, <4>3
    <3>8. f[image(k)] = w[list[k]] + f[image(k) \ {list[k]}]
      BY <3>6 DEF Sums
    <3> HIDE DEF image
    <3> QED
      BY <3>3, <3>4, <3>5, <3>7, <3>8
  <2> QED
    BY <2>1, <2>2
<1>2. N \in T
  <2> HIDE DEF T
  <2> QED
    BY <1>0, <1>1, EveryNumber
<1>3. image(N) = S
  <2>1. \A x \in S : \E n \in 1..N : list[n] = x
    BY DEF Enumerates
  <2> QED
    BY <1>0, <2>1
<1>4. g[1..N] = f[image(N)]
  <2> HIDE DEF image
  <2> QED
    BY <1>0, <1>2
<1> QED
  BY <1>3, <1>4

\* SUM over a list of rows is the sum over the rows it lists.
LEMMA SumOfRows ==
    ASSUME NEW S \in SUBSET Row, NEW rows, Enumerates(rows, S), NEW column \in Column
    PROVE  FoldSeq(LAMBDA r, total : total + r[column], 0, rows)
              = MapThenSumSet(LAMBDA r : r[column], S)
<1> DEFINE N == Len(rows)
           I == 1..N
           w == [r \in S |-> r[column]]
           v == [n \in I |-> rows[n][column]]
           isF(f) == f = [s \in SUBSET S |->
                            IF s = {} THEN 0 ELSE OneOf(s)[column] + f[s \ {OneOf(s)}]]
           isG(g) == g = [s \in SUBSET I |->
                            IF s = {} THEN 0 ELSE g[s \ {OneOf(s)}] + rows[OneOf(s)][column]]
           f0 == CHOOSE f : isF(f)
           g0 == CHOOSE g : isG(g)
<1>0. /\ N \in Nat /\ DOMAIN rows = I /\ IsFiniteSet(S) /\ IsFiniteSet(I)
      /\ \A n \in I : rows[n] \in S
  BY EnumeratedIs, FirstNumbers
<1>1. MapThenSumSet(LAMBDA r : r[column], S) = f0[S]
  BY DEF MapThenSumSet, MapThenFoldSet, OneOf
<1>2. FoldSeq(LAMBDA r, total : total + r[column], 0, rows) = g0[I]
  BY <1>0 DEF FoldSeq, FoldFunction, FoldFunctionOnSet, MapThenFoldSet, OneOf
<1>3. w \in [S -> Int] /\ v \in [I -> Int] /\ \A n \in I : v[n] = w[rows[n]]
  <2>1. \A r \in S : r[column] \in Int
    BY DEF Row, Column
  <2> QED
    BY <1>0, <2>1
<1>7. /\ \A r \in S : w[r] = r[column]
      /\ \A n \in I : v[n] = rows[n][column]
  OBVIOUS
<1> HIDE DEF f0, g0, w, v, I
<1>4. Sums(S, w, f0)
  <2>0. PICK f : AddsUp(S, w, f)
    BY <1>0, <1>3, SumIsThere
  <2>1. /\ f \in [SUBSET S -> Int]
        /\ \A s \in SUBSET S : f[s] = IF s = {} THEN 0 ELSE w[OneOf(s)] + f[s \ {OneOf(s)}]
    BY <2>0 DEF AddsUp
  <2>2. ASSUME NEW s \in SUBSET S, s # {}
        PROVE  w[OneOf(s)] = OneOf(s)[column]
    BY <1>7, <2>2 DEF OneOf
  <2>3. f = [s \in SUBSET S |-> IF s = {} THEN 0 ELSE OneOf(s)[column] + f[s \ {OneOf(s)}]]
    <3>1. \A s \in SUBSET S :
            f[s] = IF s = {} THEN 0 ELSE OneOf(s)[column] + f[s \ {OneOf(s)}]
      BY <2>1, <2>2
    <3> DEFINE part(s) == IF s = {} THEN 0 ELSE OneOf(s)[column] + f[s \ {OneOf(s)}]
    <3>2. \A s \in SUBSET S : f[s] = part(s)
      BY <3>1
    <3> HIDE DEF part
    <3>3. f = [s \in SUBSET S |-> part(s)]
      BY <2>1, <3>2
    <3> QED
      BY <3>3 DEF part
  <2>4. isF(f0)
    BY <2>3 DEF f0
  <2>5. f0 = [s \in SUBSET S |-> f0[s]] /\ f0[{}] = 0
    BY <2>4
  <2>6. ASSUME NEW s \in SUBSET S, s # {}
        PROVE  f0[s] = w[OneOf(s)] + f0[s \ {OneOf(s)}]
    <3>1. f0[s] = OneOf(s)[column] + f0[s \ {OneOf(s)}]
      BY <2>4, <2>6
    <3> QED
      BY <2>2, <2>6, <3>1
  <2> QED
    BY <1>0, <1>3, <2>5, <2>6, FoldSums
<1>5. Sums(I, v, g0)
  <2>0. PICK f : AddsUp(I, v, f)
    BY <1>0, <1>3, SumIsThere
  <2>1. /\ f \in [SUBSET I -> Int]
        /\ \A s \in SUBSET I : f[s] = IF s = {} THEN 0 ELSE v[OneOf(s)] + f[s \ {OneOf(s)}]
    BY <2>0 DEF AddsUp
  <2>2. ASSUME NEW s \in SUBSET I, s # {}
        PROVE  /\ v[OneOf(s)] = rows[OneOf(s)][column] /\ v[OneOf(s)] \in Int
               /\ s \ {OneOf(s)} \in SUBSET I
    <3>1. OneOf(s) \in s
      BY <2>2 DEF OneOf
    <3>2. v[OneOf(s)] \in Int /\ v[OneOf(s)] = rows[OneOf(s)][column]
      BY <1>3, <1>7, <3>1
    <3> QED
      BY <3>1, <3>2
  <2>3. f = [s \in SUBSET I |->
               IF s = {} THEN 0 ELSE f[s \ {OneOf(s)}] + rows[OneOf(s)][column]]
    <3>1. ASSUME NEW s \in SUBSET I
          PROVE  f[s] = IF s = {} THEN 0 ELSE f[s \ {OneOf(s)}] + rows[OneOf(s)][column]
      <4>1. CASE s = {}
        BY <2>1, <4>1
      <4>2. CASE s # {}
        <5>1. f[s \ {OneOf(s)}] \in Int
          BY <2>1, <2>2, <4>2
        <5>2. f[s] = v[OneOf(s)] + f[s \ {OneOf(s)}]
          BY <2>1, <4>2
        <5>3. v[OneOf(s)] = rows[OneOf(s)][column] /\ v[OneOf(s)] \in Int
          BY <2>2, <4>2
        <5> DEFINE one  == v[OneOf(s)]
                   rest == f[s \ {OneOf(s)}]
        <5>4. one + rest = rest + one
          <6> HIDE DEF one, rest
          <6> QED
            BY <5>1, <5>3 DEF one, rest
        <5> QED
          BY <4>2, <5>2, <5>3, <5>4
      <4> QED
        BY <4>1, <4>2
    <3> DEFINE part(s) == IF s = {} THEN 0 ELSE f[s \ {OneOf(s)}] + rows[OneOf(s)][column]
    <3>2. \A s \in SUBSET I : f[s] = part(s)
      BY <3>1
    <3> HIDE DEF part
    <3>3. f = [s \in SUBSET I |-> part(s)]
      BY <2>1, <3>2
    <3> QED
      BY <3>3 DEF part
  <2>4. isG(g0)
    BY <2>3 DEF g0
  <2>5. g0 = [s \in SUBSET I |-> g0[s]] /\ g0[{}] = 0
    BY <2>4
  <2>6. ASSUME NEW s \in SUBSET I, s # {}, g0[s \ {OneOf(s)}] \in Int
        PROVE  g0[s] = v[OneOf(s)] + g0[s \ {OneOf(s)}]
    <3>1. g0[s] = g0[s \ {OneOf(s)}] + rows[OneOf(s)][column]
      BY <2>4, <2>6
    <3>2. v[OneOf(s)] = rows[OneOf(s)][column] /\ v[OneOf(s)] \in Int
      BY <2>2, <2>6
    <3> DEFINE one  == v[OneOf(s)]
               rest == g0[s \ {OneOf(s)}]
    <3>3. one \in Int /\ rest \in Int
      BY <2>6, <3>2
    <3>4. one + rest = rest + one
      <4> HIDE DEF one, rest
      <4> QED
        BY <3>3
    <3> QED
      BY <3>1, <3>2, <3>4
  <2> QED
    BY <1>0, <1>3, <2>5, <2>6, FoldSums
<1>6. g0[I] = f0[S]
  BY <1>0, <1>3, <1>4, <1>5, SumsAgree DEF I
<1> QED
  BY <1>1, <1>2, <1>6


-----------------------------------------------------------------------------
(* The results of queries.                                                 *)

\* No row of a list is ahead of one before it.
InGivenOrder(list, order) ==
    order # Absent => \A m, n \in 1..Len(list) : m < n => ~ Precedes(list[n], list[m], order)

\* What std::sort gives is the same rows, in order.
LEMMA SortedLists ==
    ASSUME NEW S, NEW rows, Enumerates(rows, S), NEW order, NEW list \in Sorted(rows, order)
    PROVE  Enumerates(list, S) /\ InGivenOrder(list, order)
<1> DEFINE N == Len(rows)
           D == 1..N
<1>0. /\ N \in Nat /\ DOMAIN rows = D /\ IsFiniteSet(D)
      /\ \A n \in D : rows[n] \in S
  BY EnumeratedIs, FirstNumbers
<1>1. /\ \A x \in S : \E n \in D : rows[n] = x
      /\ \A m, n \in D : rows[m] = rows[n] => m = n
  BY DEF Enumerates
<1>2. PICK p \in Bijection(DOMAIN rows, DOMAIN rows) : list = [n \in DOMAIN rows |-> rows[p[n]]]
  BY DEF Sorted
<1>3. \A m, n \in DOMAIN list : m < n => ~ Precedes(list[n], list[m], order)
  BY DEF Sorted, Precedes
<1> HIDE DEF N
<1>4. p \in Bijection(D, D)
  BY <1>0, <1>2
<1> HIDE DEF D
<1>5. /\ p \in [D -> D] /\ \A n \in D : \E m \in D : p[m] = n
      /\ \A m, n \in D : p[m] = p[n] => m = n
  BY <1>4 DEF Bijection, Surjection, Injection, IsInjective
<1>7. /\ list \in Seq(S) /\ Len(list) = N /\ DOMAIN list = D
      /\ \A n \in D : list[n] = rows[p[n]]
  BY <1>0, <1>2, <1>5 DEF D
<1>8. ASSUME NEW x \in S
      PROVE  \E n \in D : list[n] = x
  <2>1. PICK m \in D : rows[m] = x
    BY <1>1
  <2>2. PICK n \in D : p[n] = m
    BY <1>5
  <2>3. list[n] = x
    BY <1>7, <2>1, <2>2
  <2> QED
    BY <2>3
<1>9. \A m, n \in D : list[m] = list[n] => m = n
  BY <1>1, <1>5, <1>7
<1>10. Enumerates(list, S)
  BY <1>7, <1>8, <1>9 DEF Enumerates, D
<1>11. InGivenOrder(list, order)
  BY <1>3, <1>7 DEF InGivenOrder, D
<1> QED
  BY <1>10, <1>11

\* How much a LIMIT leaves of n rows.
LeftBy(n, limit) == IF limit = Absent THEN n ELSE Smaller(n, Larger(0, limit))

\* LIMIT keeps the first rows.
LEMMA LimitKeeps ==
    ASSUME NEW S, NEW list \in Seq(S), NEW limit \in {Absent} \cup Int
    PROVE  /\ Limited(list, limit) \in Seq(S)
           /\ Len(Limited(list, limit)) = LeftBy(Len(list), limit)
           /\ LeftBy(Len(list), limit) \in 0..Len(list)
           /\ \A n \in 1..LeftBy(Len(list), limit) : Limited(list, limit)[n] = list[n]
<1>0. Len(list) \in Nat
  OBVIOUS
<1>1. CASE limit # Absent /\ Len(list) > limit
  <2>1. limit \in Int
    BY <1>1
  <2>2. Limited(list, limit) = SubSeq(list, 1, Larger(0, limit))
    BY <1>1 DEF Limited
  <2>3. Larger(0, limit) \in 0..Len(list) /\ LeftBy(Len(list), limit) = Larger(0, limit)
    BY <1>0, <1>1, <2>1 DEF Larger, Smaller, LeftBy
  <2> QED
    BY <1>0, <2>2, <2>3
<1>2. CASE ~ (limit # Absent /\ Len(list) > limit)
  <2>1. Limited(list, limit) = list
    BY <1>2 DEF Limited
  <2>2. LeftBy(Len(list), limit) = Len(list)
    BY <1>0, <1>2 DEF Larger, Smaller, LeftBy
  <2> QED
    BY <1>0, <2>1, <2>2
<1> QED
  BY <1>1, <1>2

\* An aggregate is one value, unless LIMIT drops it.
LEMMA LimitOne ==
    ASSUME NEW x, NEW limit \in {Absent} \cup Int
    PROVE  /\ Len(Limited(<<x>>, limit)) = LeftBy(1, limit)
           /\ LeftBy(1, limit) = 1 => Limited(<<x>>, limit) = <<x>>
<1>1. <<x>> \in Seq({x}) /\ Len(<<x>>) = 1 /\ <<x>>[1] = x
  OBVIOUS
<1>2. /\ Limited(<<x>>, limit) \in Seq({x})
      /\ Len(Limited(<<x>>, limit)) = LeftBy(1, limit)
      /\ \A n \in 1..LeftBy(1, limit) : Limited(<<x>>, limit)[n] = <<x>>[n]
  BY <1>1, LimitKeeps
<1> DEFINE list == Limited(<<x>>, limit)
<1> HIDE DEF list
<1>3. ASSUME Len(list) = 1, list \in Seq({x})
      PROVE  list = <<x>>
  BY <1>3
<1> QED
  BY <1>2, <1>3 DEF list

\* The rows a SELECT * shows are the first of those that answer it.
LEMMA ShownRows ==
    ASSUME NEW S, NEW list, Enumerates(list, S), NEW order, InGivenOrder(list, order),
           NEW limit \in {Absent} \cup Int
    PROVE  LET out   == Limited(list, limit)
               shown == ToSet(out)
           IN  /\ Len(out) = LeftBy(Cardinality(S), limit)
               /\ shown \subseteq S /\ Cardinality(shown) = Len(out)
               /\ order # Absent =>
                    /\ \A m, n \in DOMAIN out : m < n => ~ Precedes(out[n], out[m], order)
                    /\ \A r \in S \ shown, s \in shown : ~ Precedes(r, s, order)
<1> DEFINE N     == Len(list)
           K     == LeftBy(N, limit)
           out   == Limited(list, limit)
           shown == ToSet(out)
<1>1. /\ list \in Seq(S) /\ N \in Nat /\ N = Cardinality(S)
      /\ \A n \in 1..N : list[n] \in S
  BY EnumeratedIs DEF Enumerates
<1>2. /\ out \in Seq(S) /\ Len(out) = K /\ K \in 0..N
      /\ \A n \in 1..K : out[n] = list[n]
  BY <1>1, LimitKeeps
<1> HIDE DEF out, K, N
<1>3. DOMAIN out = 1..K /\ 1..K \subseteq 1..N
  BY <1>1, <1>2
<1>4. shown = {out[n] : n \in 1..K}
  BY <1>3 DEF ToSet
<1>5. Enumerates(out, shown)
  <2>1. out \in Seq(shown)
    BY <1>2, <1>3, <1>4
  <2>2. \A m, n \in 1..K : out[m] = out[n] => m = n
    <3>1. \A m, n \in 1..N : list[m] = list[n] => m = n
      BY DEF Enumerates, N
    <3> QED
      BY <1>2, <1>3, <3>1
  <2>3. \A x \in shown : \E n \in 1..K : out[n] = x
    BY <1>4
  <2> HIDE DEF shown
  <2>4. Len(out) = K
    BY <1>2
  <2> QED
    BY <2>1, <2>2, <2>3, <2>4 DEF Enumerates
<1>6. Cardinality(shown) = Len(out)
  BY <1>5, EnumeratedIs
<1>7. shown \subseteq S
  BY <1>1, <1>2, <1>3, <1>4
<1>8. ASSUME order # Absent, NEW m \in DOMAIN out, NEW n \in DOMAIN out, m < n
      PROVE  ~ Precedes(out[n], out[m], order)
  BY <1>2, <1>3, <1>8 DEF InGivenOrder, N
<1>9. ASSUME order # Absent, NEW r \in S \ shown, NEW s \in shown
      PROVE  ~ Precedes(r, s, order)
  <2>1. PICK n \in 1..N : r = list[n]
    BY DEF Enumerates, N
  <2>2. PICK m \in 1..K : s = out[m]
    BY <1>4
  <2>3. n \notin 1..K
    BY <1>2, <1>4, <2>1
  <2>4. m < n /\ m \in 1..N /\ s = list[m]
    BY <1>1, <1>2, <1>3, <2>2, <2>3
  <2> QED
    BY <1>9, <2>1, <2>4 DEF InGivenOrder, N
<1>10. Len(out) = LeftBy(Cardinality(S), limit)
  BY <1>1, <1>2 DEF K
<1> HIDE DEF shown
<1> QED
  BY <1>6, <1>7, <1>8, <1>9, <1>10 DEF out, shown

\* Aggregated or not, and limited, the rows that answer a query are a right result.
LEMMA ListedRight ==
    ASSUME NEW S \in SUBSET Row, NEW list, Enumerates(list, S), NEW q \in SelectStmt, Known(q),
           ~ q.explain, InGivenOrder(list, q.order)
    PROVE  ResultRight(Rows(Limited(Aggregated(list, q.target, q.column), q.limit)), q, S)
<1> DEFINE made   == Aggregated(list, q.target, q.column)
           result == Rows(Limited(made, q.limit))
<1>0. /\ q.limit \in {Absent} \cup Int /\ q.target \in {"*", "COUNT(*)", "SUM"}
      /\ result.kind = "rows" /\ result.rows = Limited(made, q.limit)
  BY DEF SelectStmt, Rows
<1> HIDE DEF result
<1>1. ASSUME q.target = "*"
      PROVE  ResultRight(result, q, S)
  <2>1. made = list
    BY <1>1 DEF Aggregated
  <2> DEFINE out   == Limited(list, q.limit)
             shown == ToSet(out)
  <2>2. /\ Len(out) = LeftBy(Cardinality(S), q.limit)
        /\ shown \subseteq S /\ Cardinality(shown) = Len(out)
        /\ q.order # Absent =>
             /\ \A m, n \in DOMAIN out : m < n => ~ Precedes(out[n], out[m], q.order)
             /\ \A r \in S \ shown, s \in shown : ~ Precedes(r, s, q.order)
    BY <1>0, ShownRows
  <2>3. result.rows = out
    BY <1>0, <2>1
  <2> HIDE DEF out
  <2> QED
    BY <1>0, <1>1, <2>2, <2>3 DEF ResultRight, LeftBy
<1>2. ASSUME q.target = "COUNT(*)"
      PROVE  ResultRight(result, q, S)
  <2>1. made = <<Cardinality(S)>>
    BY <1>2, EnumeratedIs DEF Aggregated
  <2>2. /\ Len(result.rows) = LeftBy(1, q.limit)
        /\ LeftBy(1, q.limit) = 1 => result.rows = <<Cardinality(S)>>
    BY <1>0, <2>1, LimitOne
  <2> QED
    BY <1>0, <1>2, <2>2 DEF ResultRight, LeftBy
<1>3. ASSUME q.target = "SUM"
      PROVE  ResultRight(result, q, S)
  <2> DEFINE sum == MapThenSumSet(LAMBDA r : r[q.column], S)
  <2>1. made = <<FoldSeq(LAMBDA r, total : total + r[q.column], 0, list)>>
    BY <1>3 DEF Aggregated
  <2>2. q.column \in Column
    BY <1>3 DEF Known
  <2>3. FoldSeq(LAMBDA r, total : total + r[q.column], 0, list) = sum
    BY <2>2, SumOfRows
  <2>4. made = <<sum>>
    BY <2>1, <2>3
  <2> HIDE DEF sum
  <2>5. /\ Len(result.rows) = LeftBy(1, q.limit)
        /\ LeftBy(1, q.limit) = 1 => result.rows = <<sum>>
    BY <1>0, <2>4, LimitOne
  <2> QED
    BY <1>0, <1>3, <2>5 DEF ResultRight, LeftBy, sum
<1> QED
  BY <1>0, <1>1, <1>2, <1>3 DEF result

\* ResultsRight: between statements, and as long as nothing was cut short, a SELECT gives
\* the first of the rows its WHERE clause is about, in the order it asks for, or their
\* count or sum, EXPLAIN how many they are, and what names a column that is not there is
\* refused.
THEOREM ResultsRightHolds == IdsFit /\ KeyUpdates = "one" => (ExecSpec => []ResultsRight)
<1> SUFFICES ASSUME IdsFit, KeyUpdates = "one"
             PROVE  ExecSpec => []ResultsRight
  OBVIOUS
<1>1. CatInv /\ SyncInv => ResultsRight
  <2> SUFFICES ASSUME CatInv, SyncInv, Quiet, NEW t \in TableName, NEW q \in QueryAsked,
                      tables[t] # 0, NEW result \in Select(t, q)
               PROVE  IF Known(q) THEN ResultRight(result, q, Answer(tables[t], q.where))
                      ELSE result = Refused
    BY DEF ResultsRight
  <2> DEFINE found  == Fetched(tables[t], q.where)
             answer == Answer(tables[t], q.where)
             lists  == IF q.order = Absent THEN {found} ELSE Sorted(found, q.order)
             right(rows) == Rows(Limited(Aggregated(rows, q.target, q.column), q.limit))
  <2>1. q \in SelectStmt /\ q.where \in {NoWhere} \cup Where
    BY ExecAssumption DEF SelectStmt
  <2>2. CASE ~ Known(q)
    <3>1. Select(t, q) = {Refused}
      BY <2>2 DEF Select, Known
    <3> QED
      BY <2>2, <3>1
  <2>3. ASSUME Known(q)
        PROVE  Enumerates(found, answer) /\ answer \in SUBSET Row
    BY <2>1, <2>3, FoundAnswers DEF Known
  <2>4. CASE Known(q) /\ q.explain
    <3>1. result = Plan(access_method(tables[t], q.where), found)
      BY <2>4 DEF Select, Known
    <3>2. Len(found) = Cardinality(answer)
      BY <2>3, <2>4, EnumeratedIs
    <3> QED
      BY <2>4, <3>1, <3>2 DEF ResultRight, Plan
  <2>5. CASE Known(q) /\ ~ q.explain
    <3>1. PICK list \in lists : result = right(list)
      BY <2>5 DEF Select, Known
    <3> HIDE DEF found, answer
    <3>2. Enumerates(list, answer) /\ InGivenOrder(list, q.order)
      BY <2>3, <2>5, <3>1, SortedLists DEF InGivenOrder
    <3>3. ResultRight(right(list), q, answer)
      BY <2>1, <2>3, <2>5, <3>2, ListedRight
    <3> QED
      BY <2>5, <3>1, <3>3 DEF answer
  <2> QED
    BY <2>2, <2>4, <2>5
<1>2. ExecSpec => []CatInv
  BY CatalogKept
<1>3. ExecSpec => []SyncInv
  BY SyncKept
<1> QED
  BY <1>1, <1>2, <1>3, PTL

=============================================================================
