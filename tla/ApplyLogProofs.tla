--------------------------- MODULE ApplyLogProofs ---------------------------
(***************************************************************************)
(* That apply_log returns what replaying the log record by record would:   *)
(* for logs of every length and for every snapshot.                        *)
(***************************************************************************)
EXTENDS ApplyLog, LogReplayProofs, AscendingProofs

-----------------------------------------------------------------------------
(* One record at a time.                                                   *)

\* No record of a log, and all of them.
LEMMA WholeLog ==
    ASSUME NEW l \in Seq(LogEntry)
    PROVE  SubSeq(l, 1, 0) = <<>> /\ SubSeq(l, 1, Len(l)) = l
<1>0. Len(l) \in Nat
  BY LenProperties
<1>1. SubSeq(l, 1, 0) = <<>>
  <2>1. SubSeq(l, 1, 0) \in Seq(LogEntry) /\ Len(SubSeq(l, 1, 0)) = 0
    BY <1>0, SubSeqProperties
  <2> QED
    BY <2>1, EmptySeq
<1>2. SubSeq(l, 1, Len(l)) = l
  <2>1. /\ SubSeq(l, 1, Len(l)) \in Seq(LogEntry) /\ Len(SubSeq(l, 1, Len(l))) = Len(l)
        /\ \A m \in 1..Len(l) : SubSeq(l, 1, Len(l))[m] = l[m]
    BY <1>0, SubSeqProperties
  <2> QED
    BY <2>1, SeqEqual
<1> QED
  BY <1>1, <1>2

\* The rows after the first n records of a log are those after one less, with
\* record n applied.
LEMMA OneMoreRecord ==
    ASSUME NEW r \in Rows, NEW l \in Seq(LogEntry), NEW n \in 1..Len(l)
    PROVE  Recovered(r, SubSeq(l, 1, n)) = Applied(Recovered(r, SubSeq(l, 1, n - 1)), l[n])
<1>0. Len(l) \in Nat /\ DOMAIN l = 1..Len(l) /\ n \in Nat /\ l[n] \in LogEntry
  BY LenProperties, ElementOfSeq
<1> DEFINE sooner == SubSeq(l, 1, n - 1)
           later  == SubSeq(l, 1, n)
<1>1. sooner \in Seq(LogEntry) /\ Len(sooner) = n - 1
      /\ \A m \in 1..(n - 1) : sooner[m] = l[m]
  BY <1>0, SubSeqProperties
<1>2. later \in Seq(LogEntry) /\ Len(later) = n /\ \A m \in 1..n : later[m] = l[m]
  BY <1>0, SubSeqProperties
<1> HIDE DEF sooner, later
<1>3. later = Append(sooner, l[n])
  <2>1. /\ Append(sooner, l[n]) \in Seq(LogEntry) /\ Len(Append(sooner, l[n])) = n
        /\ Append(sooner, l[n])[n] = l[n]
        /\ \A m \in 1..(n - 1) : Append(sooner, l[n])[m] = sooner[m]
    BY <1>0, <1>1, AppendProperties
  <2>2. \A m \in 1..n : later[m] = Append(sooner, l[n])[m]
    <3> SUFFICES ASSUME NEW m \in 1..n
                 PROVE  later[m] = Append(sooner, l[n])[m]
      OBVIOUS
    <3>1. m = n \/ m \in 1..(n - 1)
      BY <1>0
    <3> QED
      BY <1>1, <1>2, <2>1, <3>1
  <2> QED
    BY <1>2, <2>1, <2>2, SeqEqual
<1>4. Recovered(r, later) = Applied(Recovered(r, sooner), l[n])
  BY <1>0, <1>1, <1>3, RecoveredAppend DEF Applied
<1> QED
  BY <1>4 DEF sooner, later

\* A comment of durable_store.h: for each key the last record logged for it decides
\* whether it exists and what it holds, "which is exactly what applying every record
\* in log order leaves behind".  By the least number of records that would differ.
THEOREM RecoveredIsReplay ==
    ASSUME NEW r \in Rows, NEW l \in Seq(LogEntry)
    PROVE  Recovered(r, l) = OneByOne(r, l)
<1> DEFINE upTo  == [n \in 0..Len(l) |-> Recovered(r, SubSeq(l, 1, n))]
           after == CHOOSE f : f = [n \in 0..Len(l) |->
                                      IF n = 0 THEN r ELSE Applied(f[n - 1], l[n])]
<1>0. Len(l) \in Nat
  BY LenProperties
<1>1. OneByOne(r, l) = after[Len(l)]
  BY DEF OneByOne
<1>2. \A n \in 1..Len(l) : upTo[n] = Applied(upTo[n - 1], l[n])
  <2> SUFFICES ASSUME NEW n \in 1..Len(l)
               PROVE  upTo[n] = Applied(upTo[n - 1], l[n])
    OBVIOUS
  <2>1. n \in 0..Len(l) /\ n - 1 \in 0..Len(l)
    BY <1>0
  <2>2. upTo[n] = Recovered(r, SubSeq(l, 1, n))
        /\ upTo[n - 1] = Recovered(r, SubSeq(l, 1, n - 1))
    BY <2>1
  <2>3. Recovered(r, SubSeq(l, 1, n)) = Applied(Recovered(r, SubSeq(l, 1, n - 1)), l[n])
    BY OneMoreRecord
  <2> HIDE DEF upTo
  <2> QED
    BY <2>2, <2>3
<1>3. upTo[0] = r /\ upTo[Len(l)] = Recovered(r, l)
  <2>1. 0 \in 0..Len(l) /\ Len(l) \in 0..Len(l)
    BY <1>0
  <2>2. upTo[0] = Recovered(r, SubSeq(l, 1, 0))
        /\ upTo[Len(l)] = Recovered(r, SubSeq(l, 1, Len(l)))
    BY <2>1
  <2> QED
    BY <2>2, WholeLog, NothingRecovered
<1> HIDE DEF upTo
<1>4. upTo = [n \in 0..Len(l) |->
                IF n = 0 THEN r ELSE Applied(upTo[n - 1], l[n])]
  <2>1. \A n \in 0..Len(l) : n = 0 \/ n \in 1..Len(l)
    BY <1>0
  <2>2. \A n \in 0..Len(l) :
           upTo[n] = IF n = 0 THEN r ELSE Applied(upTo[n - 1], l[n])
    BY <1>2, <1>3, <2>1
  <2>3. upTo = [n \in 0..Len(l) |-> upTo[n]]
    BY DEF upTo
  <2> QED
    BY <2>2, <2>3
<1>5. after = [n \in 0..Len(l) |->
                 IF n = 0 THEN r ELSE Applied(after[n - 1], l[n])]
  BY <1>4
<1> HIDE DEF after
<1>6. after[0] = r
      /\ \A n \in 1..Len(l) : after[n] = Applied(after[n - 1], l[n])
  <2>1. 0 \in 0..Len(l) /\ \A n \in 1..Len(l) : n \in 0..Len(l) /\ n # 0
    BY <1>0
  <2> QED
    BY <1>5, <2>1
<1>7. \A n \in 0..Len(l) : after[n] = upTo[n]
  <2> DEFINE wrong == {n \in 0..Len(l) : after[n] # upTo[n]}
  <2>1. SUFFICES ASSUME wrong # {}
                 PROVE  FALSE
    OBVIOUS
  <2>2. wrong \in SUBSET Nat
    OBVIOUS
  <2>3. PICK n \in wrong : \A m \in wrong : n <= m
    BY <2>1, <2>2, LeastNumber
  <2>4. n \in 1..Len(l) /\ n - 1 \in 0..Len(l) /\ n - 1 < n /\ ~ (n <= n - 1)
    BY <1>0, <1>3, <1>6
  <2>5. after[n - 1] = upTo[n - 1]
    BY <2>3, <2>4
  <2>6. after[n] = upTo[n]
    BY <1>2, <1>6, <2>4, <2>5
  <2> QED
    BY <2>3, <2>6
<1> QED
  BY <1>0, <1>1, <1>3, <1>7

-----------------------------------------------------------------------------
(* Rows as a list.                                                         *)

\* The keys of records are numbers.
LEMMA KeysAreNumbers ==
    ASSUME NEW list \in Seq(LogEntry), NEW n \in 1..Len(list)
    PROVE  list[n].key \in Key /\ list[n].key \in Int /\ list[n].val \in Content
<1>1. list[n] \in LogEntry
  BY ElementOfSeq
<1> QED
  BY <1>1, ApplyAssumption DEF LogEntry

\* A set of rows can be listed.
LEMMA ListedLists ==
    ASSUME NEW r \in Rows
    PROVE  Lists(Listed(r), r)
<1> DEFINE present == {k \in Key : r[k] # Absent}
           keys    == Ascending(present)
<1>1. present \in SUBSET Int /\ IsFiniteSet(present)
  <2>1. present \in SUBSET Key
    OBVIOUS
  <2> QED
    BY <2>1, ApplyAssumption, FS_Subset
<1>2. /\ keys \in Seq(present) /\ Len(keys) \in Nat /\ DOMAIN keys = 1..Len(keys)
      /\ \A x \in present : \E n \in 1..Len(keys) : keys[n] = x
      /\ \A m, n \in 1..Len(keys) : m < n => keys[m] < keys[n]
  <2>1. /\ keys \in Seq(present) /\ Len(keys) = Cardinality(present) /\ IsAscending(keys)
        /\ \A x \in present : \E n \in 1..Cardinality(present) : keys[n] = x
    BY <1>1, AscendingLists
  <2> HIDE DEF keys, present
  <2>2. DOMAIN keys = 1..Len(keys) /\ Len(keys) \in Nat
    BY <2>1, LenProperties
  <2> QED
    BY <2>1, <2>2 DEF IsAscending
<1>3. Listed(r) = [n \in 1..Len(keys) |-> [key |-> keys[n], val |-> r[keys[n]]]]
  BY <1>2 DEF Listed
<1> HIDE DEF keys
<1>4. \A n \in 1..Len(keys) : keys[n] \in Key /\ r[keys[n]] # Absent /\ r[keys[n]] \in Content
  BY <1>2, ElementOfSeq DEF Rows
<1> HIDE DEF present
<1>5. Listed(r) \in Seq(LogEntry) /\ Len(Listed(r)) = Len(keys)
  <2>1. Listed(r) \in [1..Len(keys) -> LogEntry]
    BY <1>3, <1>4 DEF LogEntry
  <2> QED
    BY <1>2, <2>1
<1>6. \A n \in 1..Len(keys) : Listed(r)[n].key = keys[n] /\ Listed(r)[n].val = r[keys[n]]
  BY <1>3
<1>7. \A k \in Key : r[k] # Absent => k \in present
  BY DEF present
<1> QED
  BY <1>2, <1>4, <1>5, <1>6, <1>7 DEF Lists

\* In one way only.
LEMMA OneListing ==
    ASSUME NEW r \in Rows, NEW list, Lists(list, r)
    PROVE  list = Listed(r)
<1> DEFINE present == {k \in Key : r[k] # Absent}
           keys    == [n \in 1..Len(list) |-> list[n].key]
<1>0. list \in Seq(LogEntry) /\ Len(list) \in Nat /\ DOMAIN list = 1..Len(list)
  BY LenProperties DEF Lists
<1>1. \A n \in 1..Len(list) : keys[n] \in present
  BY <1>0, KeysAreNumbers DEF Lists
<1>2. present \in SUBSET Int
  BY ApplyAssumption
<1>3. keys \in Seq(present) /\ Len(keys) = Len(list) /\ DOMAIN keys = 1..Len(list)
  <2>1. keys \in [1..Len(list) -> present]
    BY <1>1
  <2> HIDE DEF keys, present
  <2> QED
    BY <1>0, <2>1
<1>4. IsAscending(keys)
  <2>1. \A m, n \in 1..Len(list) : m < n => keys[m] < keys[n]
    BY DEF Lists
  <2> HIDE DEF keys
  <2> QED
    BY <1>3, <2>1 DEF IsAscending
<1>5. \A k \in present : \E n \in 1..Len(keys) : keys[n] = k
  BY <1>3 DEF Lists
<1> HIDE DEF keys
<1>6. keys = Ascending(present)
  BY <1>2, <1>3, <1>4, <1>5, OneAscendingList
<1>7. Listed(r) = [n \in 1..Len(list) |-> [key |-> keys[n], val |-> r[keys[n]]]]
  BY <1>3, <1>6 DEF Listed
<1>8. \A n \in 1..Len(list) : list[n] = [key |-> keys[n], val |-> r[keys[n]]]
  <2> SUFFICES ASSUME NEW n \in 1..Len(list)
               PROVE  list[n] = [key |-> keys[n], val |-> r[keys[n]]]
    OBVIOUS
  <2>1. list[n] \in LogEntry
    BY <1>0, ElementOfSeq
  <2>2. list[n] = [key |-> list[n].key, val |-> list[n].val]
    BY <2>1 DEF LogEntry
  <2>3. keys[n] = list[n].key /\ list[n].val = r[list[n].key]
    BY DEF keys, Lists
  <2> QED
    BY <2>2, <2>3
<1>9. list = [n \in 1..Len(list) |-> list[n]]
  BY <1>0
<1> QED
  BY <1>7, <1>8, <1>9

\* Read back, a list of rows gives those rows.
LEMMA ListReadBack ==
    ASSUME NEW r \in Rows, NEW list, Lists(list, r)
    PROVE  AsRows(list) = r
<1>0. list \in Seq(LogEntry) /\ Len(list) \in Nat /\ DOMAIN list = 1..Len(list)
  BY LenProperties DEF Lists
<1>1. NoRows \in Rows /\ Recovered(NoRows, list) \in Rows
  BY <1>0, RecoveredType DEF NoRows, Rows, Content
<1>2. ASSUME NEW k \in Key
      PROVE  Recovered(NoRows, list)[k] = r[k]
  <2>1. CASE r[k] # Absent
    <3>1. PICK n \in 1..Len(list) : list[n].key = k
      BY <2>1 DEF Lists
    <3>2. \A j \in (n + 1)..Len(list) : list[j].key # k
      <4> SUFFICES ASSUME NEW j \in (n + 1)..Len(list)
                   PROVE  list[j].key # k
        OBVIOUS
      <4>1. j \in 1..Len(list) /\ n < j
        BY <1>0
      <4>2. list[n].key < list[j].key /\ list[n].key \in Int
        BY <1>0, <4>1, KeysAreNumbers DEF Lists
      <4> QED
        BY <3>1, <4>2
    <3>3. Decides(list, n, k)
      BY <3>1, <3>2 DEF Decides
    <3>4. Recovered(NoRows, list)[k] = list[n].val
      BY <1>0, <3>3, DeciderSays
    <3> QED
      BY <3>1, <3>4 DEF Lists
  <2>2. CASE r[k] = Absent
    <3>1. ~ \E n \in DOMAIN list : Decides(list, n, k)
      BY <1>0, <2>2 DEF Decides, Lists
    <3> QED
      BY <2>2, <3>1 DEF Recovered, NoRows
  <2> QED
    BY <2>1, <2>2
<1>3. Recovered(NoRows, list) = r
  BY <1>1, <1>2 DEF Rows
<1> QED
  BY <1>3 DEF AsRows

\* Two lists one after the other are the list of the rows of both, when every key of
\* the first is less than every key of the second.
LEMMA ListsJoin ==
    ASSUME NEW ra, NEW a, Lists(a, ra), NEW rb, NEW b, Lists(b, rb), NEW r,
           \A m \in 1..Len(a), n \in 1..Len(b) : a[m].key < b[n].key,
           \A n \in 1..Len(a) : r[a[n].key] = a[n].val,
           \A n \in 1..Len(b) : r[b[n].key] = b[n].val,
           \A k \in Key : r[k] # Absent => ra[k] # Absent \/ rb[k] # Absent
    PROVE  Lists(a \o b, r)
<1> DEFINE both == a \o b
<1>0. /\ a \in Seq(LogEntry) /\ b \in Seq(LogEntry) /\ Len(a) \in Nat /\ Len(b) \in Nat
  BY LenProperties DEF Lists
<1>1. /\ both \in Seq(LogEntry) /\ Len(both) = Len(a) + Len(b)
      /\ \A n \in 1..Len(both) : both[n] = IF n <= Len(a) THEN a[n] ELSE b[n - Len(a)]
  BY <1>0, ConcatProperties
<1> HIDE DEF both
<1>2. ASSUME NEW n \in 1..Len(both)
      PROVE  \/ n \in 1..Len(a) /\ both[n] = a[n]
             \/ n - Len(a) \in 1..Len(b) /\ both[n] = b[n - Len(a)] /\ n > Len(a)
  BY <1>0, <1>1
<1>3. /\ \A n \in 1..Len(a) : n \in 1..Len(both) /\ both[n] = a[n]
      /\ \A n \in 1..Len(b) : n + Len(a) \in 1..Len(both) /\ both[n + Len(a)] = b[n]
  <2>1. \A n \in 1..Len(a) : n \in 1..Len(both) /\ both[n] = a[n]
    BY <1>0, <1>1
  <2>2. \A n \in 1..Len(b) : /\ n + Len(a) \in 1..Len(both) /\ ~ (n + Len(a) <= Len(a))
                             /\ n + Len(a) - Len(a) = n
    BY <1>0, <1>1
  <2>3. \A n \in 1..Len(b) : both[n + Len(a)] = b[n]
    BY <1>1, <2>2
  <2> QED
    BY <2>1, <2>2, <2>3
<1>4. ASSUME NEW m \in 1..Len(both), NEW n \in 1..Len(both), m < n
      PROVE  both[m].key < both[n].key
  <2>1. CASE n <= Len(a)
    <3>1. m \in 1..Len(a) /\ n \in 1..Len(a) /\ both[m] = a[m] /\ both[n] = a[n]
      BY <1>0, <1>1, <1>4, <2>1
    <3> QED
      BY <1>4, <3>1 DEF Lists
  <2>2. CASE m > Len(a)
    <3>1. /\ m - Len(a) \in 1..Len(b) /\ n - Len(a) \in 1..Len(b)
          /\ m - Len(a) < n - Len(a)
      BY <1>0, <1>1, <1>4, <2>2
    <3>2. both[m] = b[m - Len(a)] /\ both[n] = b[n - Len(a)]
      BY <1>0, <1>2, <1>4, <2>2
    <3> QED
      BY <3>1, <3>2 DEF Lists
  <2>3. CASE m <= Len(a) /\ n > Len(a)
    <3>1. /\ m \in 1..Len(a) /\ n - Len(a) \in 1..Len(b)
          /\ both[m] = a[m] /\ both[n] = b[n - Len(a)]
      BY <1>0, <1>1, <2>3
    <3> QED
      BY <3>1
  <2> QED
    BY <1>0, <2>1, <2>2, <2>3
<1>5. ASSUME NEW n \in 1..Len(both)
      PROVE  both[n].val = r[both[n].key] /\ both[n].val # Absent
  <2>1. \A m \in 1..Len(a) : a[m].val = r[a[m].key] /\ a[m].val # Absent
    BY DEF Lists
  <2>2. \A m \in 1..Len(b) : b[m].val = r[b[m].key] /\ b[m].val # Absent
    BY DEF Lists
  <2> QED
    BY <1>2, <2>1, <2>2
<1>6. ASSUME NEW k \in Key, r[k] # Absent
      PROVE  \E n \in 1..Len(both) : both[n].key = k
  <2>1. CASE ra[k] # Absent
    <3>1. PICK n \in 1..Len(a) : a[n].key = k
      BY <2>1 DEF Lists
    <3> QED
      BY <1>3, <3>1
  <2>2. CASE rb[k] # Absent
    <3>1. PICK n \in 1..Len(b) : b[n].key = k
      BY <2>2 DEF Lists
    <3> QED
      BY <1>3, <3>1
  <2> QED
    BY <1>6, <2>1, <2>2
<1>7. Lists(both, r)
  BY <1>1, <1>4, <1>5, <1>6 DEF Lists
<1> QED
  BY <1>7 DEF both

\* The rows of part are those of r whose keys are in list from one place to another.
IsStretch(list, from, to, part, r) ==
    /\ from \in 1..(Len(list) + 1) /\ to \in (from - 1)..Len(list)
    /\ \A n \in from..to : part[list[n].key] = r[list[n].key]
    /\ \A k \in Key : part[k] # Absent => \E n \in from..to : list[n].key = k

\* That stretch of the list is their list.
LEMMA ListsStretch ==
    ASSUME NEW r, NEW list, Lists(list, r), NEW part, NEW from, NEW to,
           IsStretch(list, from, to, part, r)
    PROVE  /\ Lists(SubSeq(list, from, to), part)
           /\ \A n \in 1..Len(SubSeq(list, from, to)) :
                 \E m \in from..to : SubSeq(list, from, to)[n] = list[m]
<1> DEFINE some == SubSeq(list, from, to)
<1>0. /\ list \in Seq(LogEntry) /\ Len(list) \in Nat /\ from \in Int /\ to \in Int
      /\ from \in 1..(Len(list) + 1) /\ to \in (from - 1)..Len(list)
  BY LenProperties DEF Lists, IsStretch
<1>1. /\ some \in Seq(LogEntry) /\ Len(some) = to - from + 1
      /\ \A n \in 1..(to - from + 1) : some[n] = list[from + n - 1]
  BY <1>0, SubSeqProperties
<1> HIDE DEF some
<1>2. \A n \in 1..Len(some) : /\ from + n - 1 \in from..to /\ from + n - 1 \in 1..Len(list)
                              /\ some[n] = list[from + n - 1]
  BY <1>0, <1>1
<1>3. \A m \in from..to : /\ m - from + 1 \in 1..Len(some)
                          /\ some[m - from + 1] = list[m]
  <2> SUFFICES ASSUME NEW m \in from..to
               PROVE  m - from + 1 \in 1..Len(some) /\ some[m - from + 1] = list[m]
    OBVIOUS
  <2>1. m - from + 1 \in 1..(to - from + 1) /\ from + (m - from + 1) - 1 = m
    BY <1>0
  <2>2. m - from + 1 \in 1..Len(some)
    BY <1>1, <2>1
  <2> QED
    BY <1>2, <2>1, <2>2
<1>4. ASSUME NEW m \in 1..Len(some), NEW n \in 1..Len(some), m < n
      PROVE  some[m].key < some[n].key
  <2>1. from + m - 1 < from + n - 1
    BY <1>0, <1>1, <1>4
  <2> QED
    BY <1>2, <2>1 DEF Lists
<1>5. \A n \in 1..Len(some) : some[n].val = part[some[n].key] /\ some[n].val # Absent
  BY <1>2 DEF Lists, IsStretch
<1>6. \A k \in Key : part[k] # Absent => \E n \in 1..Len(some) : some[n].key = k
  BY <1>3 DEF IsStretch
<1>7. Lists(some, part)
  BY <1>1, <1>4, <1>5, <1>6 DEF Lists
<1>8. \A n \in 1..Len(some) : \E m \in from..to : some[n] = list[m]
  BY <1>2
<1> QED
  BY <1>7, <1>8 DEF some

-----------------------------------------------------------------------------
(* The order of the merge.                                                 *)

\* The stable sort lists every position of the log once, by key and, for one key, in
\* the order the records were logged.
LEMMA SortedLog ==
    ASSUME NEW l \in Seq(LogEntry)
    PROVE  /\ SortedByKey(l) \in Seq(1..Len(l)) /\ Len(SortedByKey(l)) = Len(l)
           /\ \A n \in 1..Len(l) : SortedByKey(l)[n] \in 1..Len(l)
           /\ \A m, n \in 1..Len(l) : m < n =>
                 \/ l[SortedByKey(l)[m]].key < l[SortedByKey(l)[n]].key
                 \/ /\ l[SortedByKey(l)[m]].key = l[SortedByKey(l)[n]].key
                    /\ SortedByKey(l)[m] < SortedByKey(l)[n]
           /\ \A p \in 1..Len(l) : \E n \in 1..Len(l) : SortedByKey(l)[n] = p
<1> DEFINE S == 1..Len(l)
           sorted == SortedByKey(l)
<1>0. Len(l) \in Nat /\ DOMAIN l = S
  BY LenProperties
<1>1. IsFiniteSet(S) /\ Cardinality(S) = Len(l)
  BY <1>0, FirstNumbers
<1>2. \A p \in S : l[p].key \in Int /\ p \in Int
  BY <1>0, KeysAreNumbers
<1>3. \A p, q \in S : <<p, q>> \in Before(l) <=>
         (l[p].key < l[q].key \/ (l[p].key = l[q].key /\ p < q))
  BY <1>0 DEF Before
<1> HIDE DEF S
<1>4. Orders(S, Before(l))
  <2>1. \A p \in S : <<p, p>> \notin Before(l)
    BY <1>2, <1>3
  <2>2. ASSUME NEW p \in S, NEW q \in S, NEW t \in S,
               <<p, q>> \in Before(l), <<q, t>> \in Before(l)
        PROVE  <<p, t>> \in Before(l)
    <3>1. l[p].key \in Int /\ l[q].key \in Int /\ l[t].key \in Int
          /\ p \in Int /\ q \in Int /\ t \in Int
      BY <1>2
    <3>2. l[p].key < l[q].key \/ (l[p].key = l[q].key /\ p < q)
      BY <1>3, <2>2
    <3>3. l[q].key < l[t].key \/ (l[q].key = l[t].key /\ q < t)
      BY <1>3, <2>2
    <3>4. l[p].key < l[t].key \/ (l[p].key = l[t].key /\ p < t)
      BY <3>1, <3>2, <3>3
    <3> QED
      BY <1>3, <3>4
  <2>3. ASSUME NEW p \in S, NEW q \in S
        PROVE  p = q \/ <<p, q>> \in Before(l) \/ <<q, p>> \in Before(l)
    <3>1. l[p].key \in Int /\ l[q].key \in Int /\ p \in Int /\ q \in Int
      BY <1>2
    <3> QED
      BY <1>3, <3>1
  <2> QED
    BY <2>1, <2>2, <2>3 DEF Orders
<1> DEFINE list == InOrder(S, Before(l))
<1>5. sorted = list
  BY <1>0 DEF SortedByKey
<1>6. /\ list \in Seq(S) /\ Len(list) = Cardinality(S)
      /\ \A m, n \in 1..Cardinality(S) : m < n => <<list[m], list[n]>> \in Before(l)
      /\ \A x \in S : \E n \in 1..Cardinality(S) : list[n] = x
  BY <1>1, <1>4, InOrderLists
<1> HIDE DEF sorted, list
<1>7. /\ sorted \in Seq(S) /\ Len(sorted) = Len(l)
      /\ \A m, n \in 1..Len(l) : m < n => <<sorted[m], sorted[n]>> \in Before(l)
      /\ \A x \in S : \E n \in 1..Len(l) : sorted[n] = x
  BY <1>1, <1>5, <1>6
<1>8. \A n \in 1..Len(l) : sorted[n] \in S
  BY <1>7, ElementOfSeq
<1>9. \A m, n \in 1..Len(l) : m < n =>
         \/ l[sorted[m]].key < l[sorted[n]].key
         \/ l[sorted[m]].key = l[sorted[n]].key /\ sorted[m] < sorted[n]
  BY <1>3, <1>7, <1>8
<1> QED
  BY <1>7, <1>8, <1>9 DEF sorted, S

\* A set of numbers of an interval that holds, with each of its numbers, the lesser
\* ones of the interval is as long as it is large.
LEMMA FrontCounted ==
    ASSUME NEW a \in Int, NEW b \in Int, a <= b + 1, NEW A \in SUBSET (a..b),
           \A x \in A, y \in a..b : y < x => y \in A
    PROVE  /\ Cardinality(A) \in Nat /\ a + Cardinality(A) <= b + 1
           /\ \A n \in a..b : n \in A <=> n < a + Cardinality(A)
<1>1. \A c \in Int, d \in Int : c <= d + 1 =>
         IsFiniteSet(c..d) /\ Cardinality(c..d) = d - c + 1
  <2> SUFFICES ASSUME NEW c \in Int, NEW d \in Int, c <= d + 1
               PROVE  IsFiniteSet(c..d) /\ Cardinality(c..d) = d - c + 1
    OBVIOUS
  <2>1. IsFiniteSet(c..d) /\ Cardinality(c..d) = IF c > d THEN 0 ELSE d - c + 1
    BY FS_Interval
  <2>2. c > d => d - c + 1 = 0
    OBVIOUS
  <2> QED
    BY <2>1, <2>2
<1>2. IsFiniteSet(A) /\ Cardinality(A) <= Cardinality(a..b)
  BY <1>1, FS_Subset
<1>3. Cardinality(A) \in Nat /\ a + Cardinality(A) <= b + 1
  <2>1. Cardinality(a..b) = b - a + 1
    BY <1>1
  <2> QED
    BY <1>2, <2>1, FS_CardinalityType
<1>4. ASSUME NEW n \in a..b, n \in A
      PROVE  n < a + Cardinality(A)
  <2>1. a..n \in SUBSET A
    <3>1. \A y \in a..n : y \in a..b /\ (y < n \/ y = n)
      OBVIOUS
    <3> QED
      BY <1>4, <3>1
  <2>2. Cardinality(a..n) <= Cardinality(A)
    BY <1>2, <2>1, FS_Subset
  <2>3. n \in Int /\ a <= n + 1 /\ Cardinality(a..n) = n - a + 1
    BY <1>1
  <2> QED
    BY <1>3, <2>2, <2>3
<1>5. ASSUME NEW n \in a..b, n \notin A
      PROVE  ~ (n < a + Cardinality(A))
  <2>1. A \in SUBSET (a..(n - 1))
    <3> SUFFICES ASSUME NEW x \in A
                 PROVE  x \in a..(n - 1)
      OBVIOUS
    <3>1. x \in a..b /\ x # n /\ ~ (n < x)
      BY <1>5
    <3> QED
      BY <3>1
  <2>2. n - 1 \in Int /\ a <= n - 1 + 1
    OBVIOUS
  <2>3. IsFiniteSet(a..(n - 1)) /\ Cardinality(a..(n - 1)) = n - 1 - a + 1
    BY <1>1, <2>2
  <2>4. Cardinality(A) <= Cardinality(a..(n - 1))
    BY <2>1, <2>3, FS_Subset
  <2> QED
    BY <1>3, <2>3, <2>4
<1> QED
  BY <1>3, <1>4, <1>5

\* RunEnd(key) is the last place of the sorted log with a record of that key or less.
LEMMA RunEnds ==
    ASSUME log \in Seq(LogEntry), order = SortedByKey(log), NEW key \in Int
    PROVE  /\ RunEnd(key) \in 0..Len(log)
           /\ \A n \in 1..Len(log) : log[order[n]].key <= key <=> n <= RunEnd(key)
<1> DEFINE A == {n \in 1..Len(log) : log[order[n]].key <= key}
           B == {j \in 1..Len(log) : log[j].key <= key}
           f == [n \in A |-> order[n]]
<1>0. Len(log) \in Nat /\ DOMAIN log = 1..Len(log)
      /\ \A p \in 1..Len(log) : log[p].key \in Int /\ p \in Int
  BY LenProperties, KeysAreNumbers
<1>1. /\ \A n \in 1..Len(log) : order[n] \in 1..Len(log)
      /\ \A m, n \in 1..Len(log) : m < n =>
            \/ log[order[m]].key < log[order[n]].key
            \/ log[order[m]].key = log[order[n]].key /\ order[m] < order[n]
      /\ \A p \in 1..Len(log) : \E n \in 1..Len(log) : order[n] = p
  BY SortedLog
<1>2. ASSUME NEW m \in 1..Len(log), NEW n \in 1..Len(log), m < n
      PROVE  log[order[m]].key <= log[order[n]].key /\ order[m] # order[n]
  <2>1. /\ order[m] \in 1..Len(log) /\ order[n] \in 1..Len(log)
        /\ log[order[m]].key \in Int /\ log[order[n]].key \in Int
        /\ order[m] \in Int /\ order[n] \in Int
    BY <1>0, <1>1
  <2>2. \/ log[order[m]].key < log[order[n]].key
        \/ log[order[m]].key = log[order[n]].key /\ order[m] < order[n]
    BY <1>1, <1>2
  <2> QED
    BY <2>1, <2>2
<1>3. ASSUME NEW m \in 1..Len(log), NEW n \in 1..Len(log), order[m] = order[n]
      PROVE  m = n
  <2>1. m \in Int /\ n \in Int /\ ~ (m < n) /\ ~ (n < m)
    BY <1>2, <1>3
  <2> QED
    BY <2>1
<1>4. ASSUME NEW x \in A, NEW y \in 1..Len(log), y < x
      PROVE  y \in A
  <2>1. log[order[y]].key <= log[order[x]].key /\ log[order[x]].key <= key
    BY <1>2, <1>4
  <2>2. log[order[y]].key \in Int /\ log[order[x]].key \in Int
    BY <1>0, <1>1
  <2> QED
    BY <2>1, <2>2
<1>5. f \in [A -> B]
  BY <1>1
<1>6. \A x, y \in A : f[x] = f[y] => x = y
  BY <1>3
<1>7. \A y \in B : \E x \in A : f[x] = y
  BY <1>1
<1>8. RunEnd(key) = Cardinality(B)
  BY <1>0 DEF RunEnd
<1>9. \A n \in 1..Len(log) : log[order[n]].key <= key <=> n \in A
  OBVIOUS
<1>10. A \in SUBSET (1..Len(log))
  OBVIOUS
<1> HIDE DEF A, B, f
<1>11. /\ Cardinality(A) \in Nat /\ 1 + Cardinality(A) <= Len(log) + 1
       /\ \A n \in 1..Len(log) : n \in A <=> n < 1 + Cardinality(A)
  <2>1. 1 \in Int /\ Len(log) \in Int /\ 1 <= Len(log) + 1
    BY <1>0
  <2> QED
    BY <1>4, <1>10, <2>1, FrontCounted
<1>12. IsFiniteSet(A)
  <2>1. IsFiniteSet(1..Len(log))
    BY <1>0, FirstNumbers
  <2> QED
    BY <1>10, <2>1, FS_Subset
<1>13. Cardinality(A) = Cardinality(B)
  <2>1. f \in Bijection(A, B)
    BY <1>5, <1>6, <1>7, Fun_IsBij
  <2> QED
    BY <1>12, <2>1, FS_Bijection DEF ExistsBijection
<1> QED
  BY <1>0, <1>8, <1>9, <1>11, <1>13

-----------------------------------------------------------------------------
(* The merge.                                                              *)

\* What the invariant says of the snapshot's rows and of the rows to arrive at.
LEMMA BothAreRows ==
    ASSUME ApplyInv
    PROVE  /\ AsRows(rows) \in Rows /\ Recovered(AsRows(rows), log) \in Rows
           /\ rows \in Seq(LogEntry) /\ Len(rows) \in Nat
           /\ log \in Seq(LogEntry) /\ Len(log) \in Nat /\ DOMAIN log = 1..Len(log)
           /\ \A n \in 1..Len(rows) : rows[n].key \in Key /\ rows[n].key \in Int
           /\ \A n \in 1..Len(log) : log[n].key \in Key /\ log[n].key \in Int
           /\ Len(order) = Len(log)
           /\ \A n \in 1..Len(log) : order[n] \in 1..Len(log)
<1>1. rows \in Seq(LogEntry) /\ log \in Seq(LogEntry) /\ order = SortedByKey(log)
  BY DEF ApplyInv, Lists
<1>2. NoRows \in Rows
  BY DEF NoRows, Rows, Content
<1>3. AsRows(rows) \in Rows
  BY <1>1, <1>2, RecoveredType DEF AsRows
<1>4. Recovered(AsRows(rows), log) \in Rows
  BY <1>1, <1>3, RecoveredType
<1>5. Len(rows) \in Nat /\ Len(log) \in Nat /\ DOMAIN log = 1..Len(log)
  BY <1>1, LenProperties
<1>6. /\ \A n \in 1..Len(rows) : rows[n].key \in Key /\ rows[n].key \in Int
      /\ \A n \in 1..Len(log) : log[n].key \in Key /\ log[n].key \in Int
  BY <1>1, KeysAreNumbers
<1>7. Len(order) = Len(log) /\ \A n \in 1..Len(log) : order[n] \in 1..Len(log)
  BY <1>1, SortedLog
<1> QED
  BY <1>1, <1>3, <1>4, <1>5, <1>6, <1>7

\* The records of the log are merged by ascending key.
LEMMA KeysAscend ==
    ASSUME ApplyInv, NEW m \in 1..Len(log), NEW n \in 1..Len(log), m <= n
    PROVE  log[order[m]].key <= log[order[n]].key
<1> DEFINE later == log[order[n]].key
<1>1. later \in Int
  BY BothAreRows
<1>2. later <= later
  BY <1>1
<1> HIDE DEF later
<1>3. log \in Seq(LogEntry) /\ order = SortedByKey(log)
  BY DEF ApplyInv
<1>4. /\ RunEnd(later) \in 0..Len(log)
      /\ \A p \in 1..Len(log) : log[order[p]].key <= later <=> p <= RunEnd(later)
  BY <1>1, <1>3, RunEnds
<1>5. n <= RunEnd(later)
  BY <1>2, <1>4 DEF later
<1>6. m <= RunEnd(later)
  BY <1>4, <1>5, BothAreRows
<1>7. log[order[m]].key <= later
  BY <1>4, <1>6
<1> QED
  BY <1>7 DEF later

\* The keys the merge has not dealt with come after those it has.
LEMMA PassedFirst ==
    ASSUME ApplyInv, ~ done
    PROVE  \A a, b \in Int : Passed(a) /\ ~ Passed(b) => a < b
<1> SUFFICES ASSUME NEW a \in Int, NEW b \in Int, Passed(a), ~ Passed(b)
             PROVE  a < b
  OBVIOUS
<1>1. i > 1 /\ i - 1 \in 1..Len(log)
  BY BothAreRows DEF ApplyInv, Passed
<1>2. log[order[i - 1]].key \in Int
  BY <1>1, BothAreRows
<1> QED
  BY <1>1, <1>2 DEF Passed

\* A key with no record left in the log has the snapshot's row.
LEMMA NoRecordLeft ==
    ASSUME ApplyInv, ~ done, NEW k \in Key, ~ Passed(k),
           \A n \in i..Len(log) : log[order[n]].key # k
    PROVE  Recovered(AsRows(rows), log)[k] = AsRows(rows)[k]
<1>1. \A p \in 1..Len(log) : log[p].key # k
  <2> SUFFICES ASSUME NEW p \in 1..Len(log), log[p].key = k
               PROVE  FALSE
    OBVIOUS
  <2>1. PICK n \in 1..Len(log) : order[n] = p
    BY SortedLog DEF ApplyInv
  <2>2. ~ (n < i)
    BY <2>1 DEF ApplyInv
  <2>3. n \in i..Len(log)
    BY <2>2, BothAreRows DEF ApplyInv
  <2> QED
    BY <2>1, <2>3
<1>2. ~ \E p \in DOMAIN log : Decides(log, p, k)
  BY <1>1, BothAreRows DEF Decides
<1> QED
  BY <1>2 DEF Recovered

\* The invariant holds before the first iteration.
LEMMA ApplyStarts == ApplyInit => ApplyInv
<1> SUFFICES ASSUME ApplyInit
             PROVE  ApplyInv
  OBVIOUS
<1>1. log \in Seq(LogEntry)
  <2>1. PICK m \in 0..MaxLog : log \in [1..m -> LogEntry]
    BY DEF ApplyInit, BoundedSeq, SeqOf
  <2> QED
    BY <2>1
<1>2. PICK r \in Rows : rows = Listed(r)
  BY DEF ApplyInit
<1>3. Lists(rows, AsRows(rows))
  BY <1>2, ListedLists, ListReadBack
<1>4. i = 1 /\ s = 1 /\ done = FALSE /\ out = <<>> /\ order = SortedByKey(log)
  BY DEF ApplyInit
<1>5. Len(log) \in Nat /\ Len(rows) \in Nat
  BY <1>1, <1>3, LenProperties DEF Lists
<1>6. \A k : ~ Passed(k)
  BY <1>4 DEF Passed
<1>7. Lists(out, Merged)
  <2>1. out \in Seq(LogEntry) /\ Len(out) = 0
    BY <1>4, EmptySeq
  <2>2. 1..0 = {}
    OBVIOUS
  <2>3. \A k \in Key : Merged[k] = Absent
    BY <1>6 DEF Merged
  <2> QED
    BY <2>1, <2>2, <2>3 DEF Lists
<1>8. /\ i \in 1..(Len(log) + 1) /\ s \in 1..(Len(rows) + 1)
      /\ \A n \in 1..Len(log) : ~ (n < i)
      /\ \A n \in 1..Len(rows) : ~ (n < s)
  BY <1>4, <1>5
<1> QED
  BY <1>1, <1>3, <1>4, <1>6, <1>7, <1>8 DEF ApplyInv

\* One key merged: the snapshot's rows below it and what its last record says.
LEMMA KeyMerged == ApplyInv /\ MergeKey => ApplyInv'
<1> SUFFICES ASSUME ApplyInv, MergeKey
             PROVE  ApplyInv'
  OBVIOUS
<1> DEFINE key   == log[order[i]].key
           upTo  == RowsEnd(key)
           last  == RunEnd(key)
           final == log[order[last]]
           R     == AsRows(rows)
           T     == Recovered(R, log)
           copied == SubSeq(rows, s, upTo - 1)
           own    == IF final.val = Absent THEN <<>> ELSE <<final>>
<1>1. /\ ~ done /\ i <= Len(order)
      /\ out' = (out \o copied) \o own
      /\ s' = IF upTo <= Len(rows) /\ rows[upTo].key = key THEN upTo + 1 ELSE upTo
      /\ i' = last + 1
      /\ rows' = rows /\ log' = log /\ order' = order /\ done' = done
  BY DEF MergeKey
<1>2. /\ log \in Seq(LogEntry) /\ Len(log) \in Nat /\ DOMAIN log = 1..Len(log)
      /\ rows \in Seq(LogEntry) /\ Len(rows) \in Nat /\ Len(order) = Len(log)
      /\ R \in Rows /\ T \in Rows
      /\ \A n \in 1..Len(log) : order[n] \in 1..Len(log)
      /\ \A n \in 1..Len(log) : log[n].key \in Key /\ log[n].key \in Int
      /\ \A n \in 1..Len(rows) : rows[n].key \in Key /\ rows[n].key \in Int
  BY BothAreRows
<1>3. i \in 1..Len(log) /\ s \in 1..(Len(rows) + 1) /\ i \in Int /\ s \in Int
  <2>1. i \in 1..(Len(log) + 1) /\ s \in 1..(Len(rows) + 1)
    BY DEF ApplyInv
  <2>2. i <= Len(log) /\ Len(log) \in Nat /\ Len(rows) \in Nat
    BY <1>1, <1>2
  <2> QED
    BY <2>1, <2>2
<1>4. key \in Key /\ key \in Int /\ ~ Passed(key)
  <2>1. key \in Key /\ key \in Int
    BY <1>2, <1>3
  <2>2. ~ (i < i)
    BY <1>3
  <2> QED
    BY <1>1, <1>3, <2>1, <2>2 DEF ApplyInv
<1>5. /\ \A k \in Key : Passed(k) => k < key
      /\ \A k \in Key : k \in Int
  BY <1>1, <1>4, PassedFirst, ApplyAssumption
<1>6. /\ last \in 1..Len(log) /\ i <= last /\ final.key = key
      /\ \A n \in 1..Len(log) : log[order[n]].key <= key <=> n <= last
  <2>1. last \in 0..Len(log) /\ \A n \in 1..Len(log) : log[order[n]].key <= key <=> n <= last
    BY <1>4, RunEnds DEF ApplyInv
  <2>2. i <= last
    BY <1>3, <1>4, <2>1
  <2>3. last \in 1..Len(log)
    BY <1>3, <2>1, <2>2
  <2> HIDE DEF last
  <2>4. final.key <= key /\ key <= final.key /\ final.key \in Int
    BY <1>2, <1>3, <2>1, <2>2, <2>3, KeysAscend
  <2> QED
    BY <1>4, <2>1, <2>2, <2>3, <2>4
<1> HIDE DEF last
<1>7. T[key] = final.val /\ final \in LogEntry
  <2>1. order[last] \in 1..Len(log) /\ order[last] \in Int
    BY <1>2, <1>6
  <2>2. \A p \in (order[last] + 1)..Len(log) : log[p].key # key
    <3> SUFFICES ASSUME NEW p \in (order[last] + 1)..Len(log), log[p].key = key
                 PROVE  FALSE
      OBVIOUS
    <3>1. p \in 1..Len(log) /\ order[last] < p /\ p \in Int
      BY <1>2, <2>1
    <3>2. PICK n \in 1..Len(log) : order[n] = p
      BY <3>1, SortedLog DEF ApplyInv
    <3>3. n <= last
      BY <1>4, <1>6, <3>2
    <3>4. n < last
      BY <1>6, <3>1, <3>2, <3>3
    <3>5. \/ log[order[n]].key < log[order[last]].key
          \/ log[order[n]].key = log[order[last]].key /\ order[n] < order[last]
      BY <1>6, <3>4, SortedLog DEF ApplyInv
    <3>6. order[n] < order[last]
      BY <1>4, <1>6, <3>2, <3>5
    <3> QED
      BY <2>1, <3>1, <3>2, <3>6
  <2>3. Decides(log, order[last], key)
    BY <1>6, <2>2 DEF Decides
  <2>4. final \in LogEntry
    BY <1>2, <2>1, ElementOfSeq
  <2> QED
    BY <1>2, <1>4, <2>1, <2>3, <2>4, DeciderSays
<1>8. ASSUME NEW k \in Key, ~ Passed(k), k < key
      PROVE  T[k] = R[k]
  <2>1. \A n \in i..Len(log) : log[order[n]].key # k
    <3> SUFFICES ASSUME NEW n \in i..Len(log)
                 PROVE  log[order[n]].key # k
      OBVIOUS
    <3>1. n \in 1..Len(log) /\ i <= n
      BY <1>3
    <3>2. key <= log[order[n]].key
      BY <1>3, <3>1, KeysAscend
    <3> QED
      BY <1>4, <1>5, <1>8, <3>2
  <2> QED
    BY <1>1, <1>8, <2>1, NoRecordLeft
<1>9. /\ upTo \in s..(Len(rows) + 1)
      /\ \A n \in s..Len(rows) : rows[n].key < key <=> n < upTo
  <2> DEFINE A == {n \in s..Len(rows) : rows[n].key < key}
  <2>1. A \in SUBSET (s..Len(rows))
    OBVIOUS
  <2>2. ASSUME NEW x \in A, NEW y \in s..Len(rows), y < x
        PROVE  y \in A
    <3>1. x \in 1..Len(rows) /\ y \in 1..Len(rows)
      BY <1>2, <1>3
    <3>2. rows[y].key < rows[x].key
      BY <2>2, <3>1 DEF ApplyInv, Lists
    <3>3. rows[x].key < key /\ rows[x].key \in Int /\ rows[y].key \in Int
      BY <1>2, <3>1
    <3> QED
      BY <1>4, <3>2, <3>3
  <2>3. upTo = s + Cardinality(A)
    BY DEF RowsEnd
  <2>4. \A n \in s..Len(rows) : rows[n].key < key <=> n \in A
    OBVIOUS
  <2> HIDE DEF A, upTo
  <2>5. /\ Cardinality(A) \in Nat /\ s + Cardinality(A) <= Len(rows) + 1
        /\ \A n \in s..Len(rows) : n \in A <=> n < s + Cardinality(A)
    <3>1. s \in Int /\ Len(rows) \in Int /\ s <= Len(rows) + 1
      BY <1>2, <1>3
    <3> QED
      BY <2>1, <2>2, <3>1, FrontCounted
  <2> QED
    BY <1>2, <1>3, <2>3, <2>4, <2>5
<1> HIDE DEF upTo
<1>10. \A n \in 1..Len(rows) : n < s => rows[n].key < key
  BY <1>1, <1>2, <1>5 DEF ApplyInv
<1>11. \A n \in 1..Len(rows) : n < s' <=> rows[n].key <= key
  <2> SUFFICES ASSUME NEW n \in 1..Len(rows)
               PROVE  n < s' <=> rows[n].key <= key
    OBVIOUS
  <2>0. upTo \in Int /\ n \in Int /\ rows[n].key \in Int /\ s <= upTo
    BY <1>2, <1>3, <1>9
  <2>1. CASE n < upTo
    <3>1. rows[n].key < key
      BY <1>2, <1>3, <1>9, <1>10, <2>1
    <3>2. n < s'
      BY <1>1, <2>0, <2>1
    <3> QED
      BY <1>4, <2>0, <3>1, <3>2
  <2>2. CASE n = upTo
    <3>1. n \in s..Len(rows) /\ ~ (rows[n].key < key)
      BY <1>2, <1>3, <1>9, <2>0, <2>2
    <3>2. n < s' <=> rows[n].key = key
      BY <1>1, <2>0, <2>2
    <3> QED
      BY <1>4, <2>0, <3>1, <3>2
  <2>3. CASE upTo < n
    <3>1. upTo \in 1..Len(rows) /\ upTo \in s..Len(rows)
      BY <1>2, <1>3, <1>9, <2>0, <2>3
    <3>2. rows[upTo].key < rows[n].key /\ rows[upTo].key \in Int
      BY <1>2, <2>3, <3>1 DEF ApplyInv, Lists
    <3>3. ~ (rows[upTo].key < key)
      BY <1>9, <2>0, <3>1
    <3>4. ~ (n < s')
      BY <1>1, <2>0, <2>3
    <3> QED
      BY <1>4, <2>0, <3>2, <3>3, <3>4
  <2> QED
    BY <2>0, <2>1, <2>2, <2>3
<1>12. s' \in 1..(Len(rows) + 1)
  BY <1>1, <1>2, <1>3, <1>9
<1>13. i' \in 1..(Len(log) + 1) /\ \A k \in Key : Passed(k)' <=> k <= key
  <2>1. i' > 1 /\ i' - 1 = last
    BY <1>1, <1>6
  <2> QED
    BY <1>1, <1>2, <1>6, <2>1 DEF Passed
<1>14. \A n \in 1..Len(log) : n < i' <=> log[order[n]].key <= key
  BY <1>1, <1>2, <1>6
<1> DEFINE below  == [k \in Key |-> IF ~ Passed(k) /\ k < key THEN R[k] ELSE Absent]
           upper  == [k \in Key |-> IF k < key THEN T[k] ELSE Absent]
           mine   == [k \in Key |-> IF k = key THEN T[k] ELSE Absent]
           merged == [k \in Key |-> IF k <= key THEN T[k] ELSE Absent]
<1>15. /\ Lists(copied, below)
       /\ \A n \in 1..Len(copied) :
             below[copied[n].key] # Absent /\ copied[n].val = below[copied[n].key]
             /\ copied[n].key \in Key
  <2>1. s \in 1..(Len(rows) + 1) /\ upTo - 1 \in (s - 1)..Len(rows)
    BY <1>2, <1>3, <1>9
  <2>2. \A n \in s..(upTo - 1) : below[rows[n].key] = R[rows[n].key]
    <3> SUFFICES ASSUME NEW n \in s..(upTo - 1)
                 PROVE  below[rows[n].key] = R[rows[n].key]
      OBVIOUS
    <3>1. n \in 1..Len(rows) /\ n \in s..Len(rows) /\ ~ (n < s) /\ n < upTo
      BY <1>2, <1>3, <1>9
    <3>2. rows[n].key \in Key /\ rows[n].key < key
      BY <1>2, <1>9, <3>1
    <3>3. ~ Passed(rows[n].key)
      BY <1>1, <3>1 DEF ApplyInv
    <3> QED
      BY <3>2, <3>3
  <2>3. \A k \in Key : below[k] # Absent => \E n \in s..(upTo - 1) : rows[n].key = k
    <3> SUFFICES ASSUME NEW k \in Key, below[k] # Absent
                 PROVE  \E n \in s..(upTo - 1) : rows[n].key = k
      OBVIOUS
    <3>1. R[k] # Absent /\ ~ Passed(k) /\ k < key
      OBVIOUS
    <3>2. PICK n \in 1..Len(rows) : rows[n].key = k
      BY <3>1 DEF ApplyInv, Lists
    <3>3. ~ (n < s)
      BY <1>1, <3>1, <3>2 DEF ApplyInv
    <3>4. n \in s..Len(rows)
      BY <1>2, <1>3, <3>3
    <3>5. n < upTo
      BY <1>9, <3>1, <3>2, <3>4
    <3>6. n \in s..(upTo - 1)
      BY <1>2, <1>3, <1>9, <3>4, <3>5
    <3> QED
      BY <3>2, <3>6
  <2> HIDE DEF below
  <2>4. Lists(copied, below)
    <3>1. Lists(rows, R)
      BY DEF ApplyInv
    <3> HIDE DEF R
    <3>2. IsStretch(rows, s, upTo - 1, below, R)
      BY <2>1, <2>2, <2>3 DEF IsStretch
    <3> QED
      BY <3>1, <3>2, ListsStretch
  <2>5. \A n \in 1..Len(copied) : copied[n].key \in Key
    BY <2>4, KeysAreNumbers DEF Lists
  <2> HIDE DEF copied
  <2> QED
    BY <2>4, <2>5 DEF Lists
<1>16. /\ Lists(out, Merged)
       /\ \A n \in 1..Len(out) : /\ out[n].key \in Key /\ Passed(out[n].key)
                                 /\ out[n].val = T[out[n].key]
  <2>1. Lists(out, Merged)
    BY <1>1 DEF ApplyInv
  <2>2. \A n \in 1..Len(out) : /\ out[n].key \in Key /\ out[n].val = Merged[out[n].key]
                               /\ out[n].val # Absent
    BY <2>1, KeysAreNumbers DEF Lists
  <2> QED
    BY <2>1, <2>2 DEF Merged
<1> HIDE DEF copied
<1>17. \A n \in 1..Len(copied) : /\ ~ Passed(copied[n].key) /\ copied[n].key < key
                                 /\ copied[n].val = T[copied[n].key]
  BY <1>8, <1>15
<1>18. Lists(out \o copied, upper)
  <2>1. \A m \in 1..Len(out), n \in 1..Len(copied) : out[m].key < copied[n].key
    BY <1>1, <1>5, <1>15, <1>16, <1>17, PassedFirst
  <2>2. \A n \in 1..Len(out) : upper[out[n].key] = out[n].val
    BY <1>5, <1>16
  <2>3. \A n \in 1..Len(copied) : upper[copied[n].key] = copied[n].val
    BY <1>15, <1>17
  <2>4. \A k \in Key : upper[k] # Absent => Merged[k] # Absent \/ below[k] # Absent
    BY <1>8 DEF Merged
  <2> HIDE DEF upper, below
  <2> QED
    BY <1>15, <1>16, <2>1, <2>2, <2>3, <2>4, ListsJoin
<1> DEFINE front == out \o copied
<1>19. \A n \in 1..Len(front) : /\ front[n].key \in Key /\ front[n].key < key
                                /\ front[n].val = T[front[n].key]
  <2> HIDE DEF front
  <2>1. \A n \in 1..Len(front) : /\ front[n].key \in Key /\ front[n].val # Absent
                                 /\ front[n].val = upper[front[n].key]
    <3>1. Lists(front, upper)
      BY <1>18 DEF front
    <3> HIDE DEF upper
    <3> QED
      BY <3>1, KeysAreNumbers DEF Lists
  <2> QED
    BY <2>1
<1>20. Lists(own, mine) /\ \A n \in 1..Len(own) : own[n] = final
  <2>1. CASE final.val = Absent
    <3>1. own = <<>> /\ own \in Seq(LogEntry) /\ Len(own) = 0 /\ 1..0 = {}
      BY <2>1, EmptySeq
    <3>2. \A k \in Key : mine[k] = Absent
      BY <1>7, <2>1
    <3> HIDE DEF own, mine
    <3> QED
      BY <3>1, <3>2 DEF Lists
  <2>2. CASE final.val # Absent
    <3>1. own = <<final>> /\ own \in Seq(LogEntry) /\ Len(own) = 1 /\ own[1] = final
      BY <1>7, <2>2
    <3>2. \A n \in 1..1 : n = 1
      OBVIOUS
    <3>3. mine[key] = final.val /\ \A k \in Key : mine[k] # Absent => k = key
      BY <1>4, <1>7
    <3> HIDE DEF own, mine, final
    <3>4. \A m, n \in 1..1 : ~ (m < n)
      OBVIOUS
    <3>5. 1 \in 1..1
      OBVIOUS
    <3> QED
      BY <1>6, <2>2, <3>1, <3>2, <3>3, <3>4, <3>5 DEF Lists
  <2> QED
    BY <2>1, <2>2
<1>21. Lists(front \o own, merged)
  <2>1. \A m \in 1..Len(front), n \in 1..Len(own) : front[m].key < own[n].key
    BY <1>6, <1>19, <1>20
  <2>2. \A n \in 1..Len(front) : merged[front[n].key] = front[n].val
    BY <1>4, <1>5, <1>19
  <2>3. \A n \in 1..Len(own) : merged[own[n].key] = own[n].val
    BY <1>4, <1>6, <1>7, <1>20
  <2>4. \A k \in Key : merged[k] # Absent => upper[k] # Absent \/ mine[k] # Absent
    BY <1>4, <1>5
  <2>5. Lists(front, upper)
    BY <1>18
  <2> HIDE DEF front, own, upper, mine, merged
  <2> QED
    BY <1>20, <2>1, <2>2, <2>3, <2>4, <2>5, ListsJoin
<1>22. Merged' = merged
  <2>1. Merged' = [k \in Key |-> IF Passed(k)' THEN T[k] ELSE Absent]
    BY <1>1 DEF Merged
  <2> QED
    BY <1>13, <2>1
<1>23. Lists(out, Merged)'
  <2>1. out' = front \o own
    BY <1>1
  <2> HIDE DEF front, own, merged
  <2> QED
    BY <1>21, <1>22, <2>1 DEF Lists
<1>24. /\ \A n \in 1..Len(log) : n < i' <=> Passed(log[order[n]].key)'
       /\ \A n \in 1..Len(rows) : n < s' <=> Passed(rows[n].key)'
  BY <1>1, <1>2, <1>11, <1>13, <1>14
<1> QED
  BY <1>1, <1>12, <1>13, <1>23, <1>24 DEF ApplyInv

\* No key left: the rest of the snapshot's rows.
LEMMA RestCopied == ApplyInv /\ CopyRest => ApplyInv'
<1> SUFFICES ASSUME ApplyInv, CopyRest
             PROVE  ApplyInv'
  OBVIOUS
<1> DEFINE R    == AsRows(rows)
           T    == Recovered(R, log)
           rest == SubSeq(rows, s, Len(rows))
           left == [k \in Key |-> IF Passed(k) THEN Absent ELSE R[k]]
<1>1. /\ ~ done /\ i > Len(order) /\ out' = out \o rest /\ s' = Len(rows) + 1 /\ done' = TRUE
      /\ rows' = rows /\ log' = log /\ order' = order /\ i' = i
  BY DEF CopyRest
<1>2. /\ log \in Seq(LogEntry) /\ Len(log) \in Nat
      /\ rows \in Seq(LogEntry) /\ Len(rows) \in Nat /\ Len(order) = Len(log)
      /\ \A n \in 1..Len(rows) : rows[n].key \in Key
      /\ \A k \in Key : k \in Int
  BY BothAreRows, ApplyAssumption
<1>3. i \in 1..(Len(log) + 1) /\ s \in 1..(Len(rows) + 1) /\ Lists(rows, R)
  BY DEF ApplyInv
<1>4. ASSUME NEW k \in Key, ~ Passed(k)
      PROVE  T[k] = R[k]
  <2>1. \A n \in i..Len(log) : log[order[n]].key # k
    BY <1>1, <1>2, <1>3
  <2> QED
    BY <1>1, <1>4, <2>1, NoRecordLeft
<1>5. \A n \in 1..Len(rows) : n < s <=> Passed(rows[n].key)
  BY <1>1 DEF ApplyInv
<1>6. Lists(rest, left)
  <2>1. Len(rows) \in (s - 1)..Len(rows)
    BY <1>2, <1>3
  <2>2. \A n \in s..Len(rows) : left[rows[n].key] = R[rows[n].key]
    <3> SUFFICES ASSUME NEW n \in s..Len(rows)
                 PROVE  left[rows[n].key] = R[rows[n].key]
      OBVIOUS
    <3>1. n \in 1..Len(rows) /\ ~ (n < s)
      BY <1>2, <1>3
    <3> QED
      BY <1>2, <1>5, <3>1
  <2>3. \A k \in Key : left[k] # Absent => \E n \in s..Len(rows) : rows[n].key = k
    <3> SUFFICES ASSUME NEW k \in Key, left[k] # Absent
                 PROVE  \E n \in s..Len(rows) : rows[n].key = k
      OBVIOUS
    <3>1. R[k] # Absent /\ ~ Passed(k)
      OBVIOUS
    <3>2. PICK n \in 1..Len(rows) : rows[n].key = k
      BY <1>3, <3>1 DEF Lists
    <3>3. ~ (n < s)
      BY <1>5, <3>1, <3>2
    <3>4. n \in s..Len(rows)
      BY <1>2, <1>3, <3>3
    <3> QED
      BY <3>2, <3>4
  <2> HIDE DEF left, R
  <2>4. IsStretch(rows, s, Len(rows), left, R)
    BY <1>3, <2>1, <2>2, <2>3 DEF IsStretch
  <2> QED
    BY <1>3, <2>4, ListsStretch
<1>7. \A n \in 1..Len(rest) : /\ rest[n].key \in Key /\ ~ Passed(rest[n].key)
                              /\ rest[n].val = T[rest[n].key]
  <2> HIDE DEF rest
  <2>1. \A n \in 1..Len(rest) : /\ rest[n].key \in Key /\ rest[n].val # Absent
                                /\ rest[n].val = left[rest[n].key]
    <3> HIDE DEF left
    <3> QED
      BY <1>6, KeysAreNumbers DEF Lists
  <2> QED
    BY <1>4, <2>1
<1>8. /\ Lists(out, Merged)
      /\ \A n \in 1..Len(out) : /\ out[n].key \in Key /\ Passed(out[n].key)
                                /\ out[n].val = T[out[n].key]
  <2>1. Lists(out, Merged)
    BY <1>1 DEF ApplyInv
  <2>2. \A n \in 1..Len(out) : /\ out[n].key \in Key /\ out[n].val = Merged[out[n].key]
                               /\ out[n].val # Absent
    BY <2>1, KeysAreNumbers DEF Lists
  <2> QED
    BY <2>1, <2>2 DEF Merged
<1> HIDE DEF rest
<1>9. Lists(out \o rest, T)
  <2>1. \A m \in 1..Len(out), n \in 1..Len(rest) : out[m].key < rest[n].key
    BY <1>1, <1>2, <1>7, <1>8, PassedFirst
  <2>2. \A k \in Key : T[k] # Absent => Merged[k] # Absent \/ left[k] # Absent
    BY <1>4 DEF Merged
  <2> HIDE DEF left, T
  <2> QED
    BY <1>6, <1>7, <1>8, <2>1, <2>2, ListsJoin
<1>10. s' \in 1..(Len(rows) + 1)
  BY <1>1, <1>2
<1>11. Lists(out', T)
  BY <1>1, <1>9
<1> QED
  BY <1>1, <1>2, <1>3, <1>10, <1>11 DEF ApplyInv

\* No record at all: the snapshot's rows as they are.
LEMMA NothingMerged == ApplyInv /\ NothingLogged => ApplyInv'
<1> SUFFICES ASSUME ApplyInv, NothingLogged
             PROVE  ApplyInv'
  OBVIOUS
<1>1. /\ log = <<>> /\ out' = rows /\ done' = TRUE /\ ~ done
      /\ rows' = rows /\ log' = log /\ order' = order /\ i' = i /\ s' = s
  BY DEF NothingLogged
<1>2. Recovered(AsRows(rows), log) = AsRows(rows)
  BY <1>1, BothAreRows, NothingRecovered
<1> QED
  BY <1>1, <1>2 DEF ApplyInv

\* ApplyInv is an invariant of the merge, for every snapshot and every log.
THEOREM ApplyInvCorrect == ApplySpec => []ApplyInv
<1>1. ApplyInit => ApplyInv
  BY ApplyStarts
<1>2. ApplyInv /\ [ApplyNext]_vars => ApplyInv'
  <2> SUFFICES ASSUME ApplyInv, [ApplyNext]_vars
               PROVE  ApplyInv'
    OBVIOUS
  <2>1. CASE NothingLogged
    BY <2>1, NothingMerged
  <2>2. CASE MergeKey
    BY <2>2, KeyMerged
  <2>3. CASE CopyRest
    BY <2>3, RestCopied
  <2>4. CASE UNCHANGED vars
    BY <2>4 DEF vars, ApplyInv, Merged, Passed
  <2> QED
    BY <2>1, <2>2, <2>3, <2>4 DEF ApplyNext
<1> QED
  BY <1>1, <1>2, PTL DEF ApplySpec

\* When apply_log returns, out_keys and out_values are the rows that applying the
\* log's records one at a time leaves, each once and in key order: no row is lost,
\* resurrected, doubled or left at an older value, whatever the snapshot and the log.
THEOREM MergeReplaysLog == ApplySpec => []MergeReplays
<1>1. ApplyInv => MergeReplays
  <2> SUFFICES ASSUME ApplyInv, done
               PROVE  out = Listed(OneByOne(AsRows(rows), log))
    BY DEF MergeReplays
  <2>1. Lists(out, Recovered(AsRows(rows), log))
    BY DEF ApplyInv
  <2>2. out = Listed(Recovered(AsRows(rows), log))
    BY <2>1, BothAreRows, OneListing
  <2> QED
    BY <2>2, BothAreRows, RecoveredIsReplay
<1> QED
  BY <1>1, ApplyInvCorrect, PTL

\* "For each key, the last record logged for it decides": the description of the
\* result that the durable store's modules use is that of the replay.
THEOREM RecoveredReplaysLog == ApplySpec => []RecoveredReplays
<1>1. ApplyInv => RecoveredReplays
  BY BothAreRows, RecoveredIsReplay DEF RecoveredReplays
<1> QED
  BY <1>1, ApplyInvCorrect, PTL

=============================================================================
