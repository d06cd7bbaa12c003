-------------------------- MODULE LogReplayProofs --------------------------
(***************************************************************************)
(* What replaying a log of writes does, for logs of every length.          *)
(***************************************************************************)
EXTENDS LogReplay, AscendingProofs, SequenceTheorems, TLAPS

-----------------------------------------------------------------------------
(* What replaying a log does.                                              *)

\* Replaying a log into rows gives rows.
LEMMA RecoveredType ==
    ASSUME NEW rows \in Rows, NEW log \in Seq(LogEntry)
    PROVE  Recovered(rows, log) \in Rows
<1>1. ASSUME NEW k \in Key
      PROVE  (IF \E i \in DOMAIN log : Decides(log, i, k)
              THEN log[CHOOSE i \in DOMAIN log : Decides(log, i, k)].val
              ELSE rows[k]) \in Content
  <2>1. CASE \E i \in DOMAIN log : Decides(log, i, k)
    <3>1. PICK i \in DOMAIN log : i = CHOOSE j \in DOMAIN log : Decides(log, j, k)
      BY <2>1
    <3>2. log[i] \in LogEntry
      BY <3>1
    <3> QED
      BY <2>1, <3>1, <3>2 DEF LogEntry
  <2>2. CASE ~ \E i \in DOMAIN log : Decides(log, i, k)
    BY <2>2 DEF Rows
  <2> QED
    BY <2>1, <2>2
<1> QED
  BY <1>1 DEF Recovered, Rows

\* At most one record of a log decides a key.
LEMMA OneDecides ==
    ASSUME NEW log \in Seq(LogEntry), NEW k,
           NEW i \in DOMAIN log, Decides(log, i, k),
           NEW j \in DOMAIN log, Decides(log, j, k)
    PROVE  i = j
BY DEF Decides

\* The value of a key is that of the record that decides it.
LEMMA DeciderSays ==
    ASSUME NEW rows, NEW log \in Seq(LogEntry), NEW k \in Key,
           NEW i \in DOMAIN log, Decides(log, i, k)
    PROVE  Recovered(rows, log)[k] = log[i].val
<1>1. i = CHOOSE j \in DOMAIN log : Decides(log, j, k)
  BY OneDecides
<1> QED
  BY <1>1 DEF Recovered

\* An empty log changes nothing.
LEMMA NothingRecovered ==
    ASSUME NEW rows \in Rows
    PROVE  Recovered(rows, <<>>) = rows
BY DEF Recovered, Rows

\* One record more in the log is one row written.
LEMMA RecoveredAppend ==
    ASSUME NEW rows \in Rows, NEW log \in Seq(LogEntry), NEW r \in LogEntry
    PROVE  Recovered(rows, Append(log, r)) = [Recovered(rows, log) EXCEPT ![r.key] = r.val]
<1> DEFINE longer == Append(log, r)
           n == Len(log) + 1
<1>0. /\ longer \in Seq(LogEntry) /\ Len(longer) = n /\ Len(log) \in Nat
      /\ longer[n] = r /\ \A i \in 1..Len(log) : longer[i] = log[i]
      /\ DOMAIN longer = 1..n /\ DOMAIN log = 1..Len(log)
  BY AppendProperties, LenProperties
<1> HIDE DEF longer, n
<1>1. Decides(longer, n, r.key)
  BY <1>0 DEF Decides, n
<1>2. Recovered(rows, longer)[r.key] = r.val
  <2>1. r.key \in Key /\ n \in DOMAIN longer
    BY <1>0 DEF LogEntry, n
  <2> QED
    BY <1>0, <1>1, <2>1, DeciderSays
<1>3. ASSUME NEW k \in Key, k # r.key
      PROVE  Recovered(rows, longer)[k] = Recovered(rows, log)[k]
  <2>1. ASSUME NEW i \in 1..Len(log)
        PROVE  Decides(longer, i, k) <=> Decides(log, i, k)
    <3>1. Decides(longer, i, k) => Decides(log, i, k)
      BY <1>0 DEF Decides, n
    <3>2. Decides(log, i, k) => Decides(longer, i, k)
      BY <1>0, <1>3 DEF Decides, n
    <3> QED
      BY <3>1, <3>2
  <2>2. ~ Decides(longer, n, k)
    BY <1>0, <1>3 DEF Decides
  <2>3. CASE \E i \in DOMAIN log : Decides(log, i, k)
    <3>1. PICK i \in DOMAIN log : Decides(log, i, k)
      BY <2>3
    <3>2. i \in DOMAIN longer /\ Decides(longer, i, k) /\ longer[i] = log[i]
      BY <1>0, <2>1, <3>1 DEF n
    <3>3. Recovered(rows, log)[k] = log[i].val
      BY <3>1, DeciderSays
    <3>4. Recovered(rows, longer)[k] = longer[i].val
      BY <1>0, <3>2, DeciderSays
    <3> QED
      BY <3>2, <3>3, <3>4
  <2>4. CASE ~ \E i \in DOMAIN log : Decides(log, i, k)
    <3>1. ~ \E i \in DOMAIN longer : Decides(longer, i, k)
      BY <1>0, <2>1, <2>2, <2>4 DEF n
    <3> QED
      BY <2>4, <3>1 DEF Recovered
  <2> QED
    BY <2>3, <2>4
<1>4. Recovered(rows, longer) \in Rows /\ Recovered(rows, log) \in Rows
  BY <1>0, RecoveredType
<1>5. Recovered(rows, longer) = [Recovered(rows, log) EXCEPT ![r.key] = r.val]
  BY <1>2, <1>3, <1>4 DEF Rows
<1> QED
  BY <1>5 DEF longer

\* Replaying a log on top of rows that already contain it changes nothing: what
\* makes a crash between the snapshot's rename and the log's reset harmless.
LEMMA RecoveredTwice ==
    ASSUME NEW rows \in Rows, NEW log \in Seq(LogEntry)
    PROVE  Recovered(Recovered(rows, log), log) = Recovered(rows, log)
<1>1. Recovered(rows, log) \in Rows /\ Recovered(Recovered(rows, log), log) \in Rows
  BY RecoveredType
<1>2. ASSUME NEW k \in Key
      PROVE  Recovered(Recovered(rows, log), log)[k] = Recovered(rows, log)[k]
  <2>1. CASE \E i \in DOMAIN log : Decides(log, i, k)
    <3>1. PICK i \in DOMAIN log : Decides(log, i, k)
      BY <2>1
    <3> QED
      BY <3>1, DeciderSays
  <2>2. CASE ~ \E i \in DOMAIN log : Decides(log, i, k)
    BY <2>2 DEF Recovered
  <2> QED
    BY <2>1, <2>2
<1> QED
  BY <1>1, <1>2 DEF Rows

\* The last record of a log decides its key.
LEMMA LastDecides ==
    ASSUME NEW log \in Seq(LogEntry), log # <<>>
    PROVE  /\ Len(log) \in DOMAIN log /\ Decides(log, Len(log), log[Len(log)].key)
           /\ log[Len(log)] \in LogEntry
<1>1. Len(log) \in Nat \ {0} /\ DOMAIN log = 1..Len(log)
  BY LenProperties, EmptySeq
<1>2. Len(log) \in 1..Len(log)
  BY <1>1
<1> QED
  BY <1>1, <1>2, ElementOfSeq DEF Decides

\* One record more in the log leaves the records that decide the other keys.
LEMMA DecidersKept ==
    ASSUME NEW log \in Seq(LogEntry), NEW r \in LogEntry, NEW k \in Key, k # r.key,
           NEW i \in DOMAIN log
    PROVE  /\ i \in DOMAIN Append(log, r)
           /\ Decides(log, i, k) => Decides(Append(log, r), i, k)
<1> DEFINE longer == Append(log, r)
<1>1. /\ Len(longer) = Len(log) + 1 /\ Len(log) \in Nat
      /\ longer[Len(log) + 1] = r /\ \A j \in 1..Len(log) : longer[j] = log[j]
      /\ DOMAIN longer = 1..(Len(log) + 1) /\ DOMAIN log = 1..Len(log)
  BY AppendProperties, LenProperties
<1> HIDE DEF longer
<1>2. i \in DOMAIN longer
  BY <1>1
<1>3. Decides(log, i, k) => Decides(longer, i, k)
  BY <1>1 DEF Decides
<1> QED
  BY <1>2, <1>3 DEF longer

\* A row the log says nothing of comes from the snapshot, any other only from the log.
LEMMA RecoveredRow ==
    ASSUME NEW rows, NEW others, NEW log \in Seq(LogEntry), NEW k \in Key
    PROVE  \/ Recovered(rows, log)[k] = Recovered(others, log)[k]
           \/ Recovered(rows, log)[k] = rows[k] /\ ~ \E i \in DOMAIN log : Decides(log, i, k)
BY DEF Recovered

\* A row no record of the log is about stays as it is.
LEMMA NotRecovered ==
    ASSUME NEW rows, NEW log \in Seq(LogEntry), NEW k \in Key,
           \A i \in 1..Len(log) : log[i].key # k
    PROVE  Recovered(rows, log)[k] = rows[k]
<1>1. DOMAIN log = 1..Len(log)
  BY LenProperties
<1>2. ~ \E i \in DOMAIN log : Decides(log, i, k)
  BY <1>1 DEF Decides
<1> QED
  BY <1>2 DEF Recovered

\* Of the records for a key one decides: the last.
LEMMA SomeDecides ==
    ASSUME NEW log \in Seq(LogEntry), NEW k, NEW j \in 1..Len(log), log[j].key = k
    PROVE  \E i \in 1..Len(log) : Decides(log, i, k)
<1> DEFINE b == Len(log)
           T == {i \in 1..b : log[b + 1 - i].key = k}
<1>1. b \in Nat /\ j \in 1..b
  BY LenProperties
<1> HIDE DEF b
<1>2. b + 1 - j \in 1..b /\ b + 1 - (b + 1 - j) = j
  BY <1>1
<1>3. b + 1 - j \in T
  BY <1>2
<1>4. T \in SUBSET Nat
  BY <1>1
<1>5. PICK i \in T : \A m \in T : i <= m
  <2> HIDE DEF T
  <2> QED
    BY <1>3, <1>4, LeastNumber
<1>6. i \in 1..b /\ b + 1 - i \in 1..b /\ log[b + 1 - i].key = k
  BY <1>1, <1>5
<1>7. ASSUME NEW m \in (b + 1 - i + 1)..b
      PROVE  log[m].key # k
  <2>1. b + 1 - m \in 1..b /\ b + 1 - (b + 1 - m) = m /\ ~ (i <= b + 1 - m)
    BY <1>1, <1>6
  <2>2. b + 1 - m \notin T
    BY <1>5, <2>1
  <2> QED
    BY <2>1, <2>2
<1>8. Decides(log, b + 1 - i, k)
  BY <1>6, <1>7 DEF Decides, b
<1> QED
  BY <1>6, <1>8 DEF b

\* Replaying two logs one after the other is replaying the first and then the
\* second.
LEMMA RecoveredConcat ==
    ASSUME NEW rows \in Rows, NEW first \in Seq(LogEntry), NEW second \in Seq(LogEntry)
    PROVE  Recovered(rows, first \o second) = Recovered(Recovered(rows, first), second)
<1> DEFINE both == first \o second
           a    == Len(first)
           b    == Len(second)
<1>0. /\ both \in Seq(LogEntry) /\ Len(both) = a + b /\ a \in Nat /\ b \in Nat
      /\ DOMAIN first = 1..a /\ DOMAIN second = 1..b /\ DOMAIN both = 1..(a + b)
  BY ConcatProperties, LenProperties
<1>1. /\ \A i \in 1..a : both[i] = first[i]
      /\ \A i \in 1..b : both[a + i] = second[i]
  <2>1. \A i \in 1..(a + b) : both[i] = IF i <= a THEN first[i] ELSE second[i - a]
    BY ConcatProperties
  <2> HIDE DEF a, b, both
  <2>2. \A i \in 1..a : i \in 1..(a + b) /\ i <= a
    BY <1>0
  <2>3. ASSUME NEW i \in 1..b
        PROVE  both[a + i] = second[i]
    <3>1. PICK m \in 1..(a + b) : m = a + i /\ ~ (m <= a) /\ m - a = i
      BY <1>0
    <3>2. both[m] = second[m - a]
      BY <2>1, <3>1
    <3> QED
      BY <3>1, <3>2
  <2> QED
    BY <2>1, <2>2, <2>3
<1>2. Recovered(rows, first) \in Rows
  BY RecoveredType
<1>3. Recovered(rows, both) \in Rows /\ Recovered(Recovered(rows, first), second) \in Rows
  BY <1>0, <1>2, RecoveredType
<1> HIDE DEF both
<1>4. Len(first) = a /\ Len(second) = b
  OBVIOUS
<1> HIDE DEF a, b
<1>5. ASSUME NEW k \in Key
      PROVE  Recovered(rows, both)[k] = Recovered(Recovered(rows, first), second)[k]
  <2>1. CASE \E j \in 1..b : Decides(second, j, k)
    <3>1. PICK j \in 1..b : Decides(second, j, k)
      BY <2>1
    <3>2. a + j \in 1..(a + b)
      BY <1>0
    <3>3. Decides(both, a + j, k)
      <4>1. both[a + j].key = k
        BY <1>1, <3>1 DEF Decides
      <4>2. ASSUME NEW i \in (a + j + 1)..(a + b)
            PROVE  both[i].key # k
        <5>1. i - a \in (j + 1)..b /\ i - a \in 1..b /\ a + (i - a) = i
          BY <1>0
        <5>2. second[i - a].key # k
          BY <1>4, <3>1, <5>1 DEF Decides
        <5>3. both[a + (i - a)] = second[i - a]
          BY <1>1, <5>1
        <5> QED
          BY <5>1, <5>2, <5>3
      <4> QED
        BY <1>0, <4>1, <4>2 DEF Decides
    <3>4. Recovered(rows, both)[k] = both[a + j].val
      BY <1>0, <3>2, <3>3, DeciderSays
    <3>5. Recovered(Recovered(rows, first), second)[k] = second[j].val
      BY <1>0, <3>1, DeciderSays
    <3> QED
      BY <1>1, <3>4, <3>5
  <2>2. CASE ~ \E j \in 1..b : Decides(second, j, k)
    <3>1. Recovered(Recovered(rows, first), second)[k] = Recovered(rows, first)[k]
      BY <1>0, <2>2 DEF Recovered
    <3>2. \A j \in 1..b : second[j].key # k
      BY <1>0, <1>4, <2>2, SomeDecides
    <3>3. ASSUME NEW i \in 1..a
          PROVE  Decides(both, i, k) <=> Decides(first, i, k)
      <4>1. \A m \in (i + 1)..(a + b) :
             m \in (i + 1)..a \/ (m - a \in 1..b /\ a + (m - a) = m)
        BY <1>0
      <4>2. \A m \in (i + 1)..a : m \in (i + 1)..(a + b) /\ m \in 1..a
        BY <1>0
      <4>3. ASSUME NEW m \in (i + 1)..(a + b)
            PROVE  both[m].key # k \/ (m \in (i + 1)..a /\ both[m] = first[m])
        BY <1>1, <3>2, <4>1, <4>2
      <4>4. Decides(first, i, k) => Decides(both, i, k)
        BY <1>0, <1>1, <1>4, <4>3 DEF Decides
      <4>5. Decides(both, i, k) => Decides(first, i, k)
        BY <1>0, <1>1, <1>4, <4>2 DEF Decides
      <4> QED
        BY <4>4, <4>5
    <3>4. ASSUME NEW i \in 1..(a + b), Decides(both, i, k)
          PROVE  i \in 1..a
      <4>1. i \in 1..a \/ (i - a \in 1..b /\ a + (i - a) = i)
        BY <1>0
      <4>2. both[i].key = k
        BY <3>4 DEF Decides
      <4> QED
        BY <1>1, <3>2, <4>1, <4>2
    <3>5. \A i \in 1..a : i \in 1..(a + b)
      BY <1>0
    <3>6. CASE \E i \in 1..a : Decides(first, i, k)
      <4>1. PICK i \in 1..a : Decides(first, i, k)
        BY <3>6
      <4>2. Recovered(rows, first)[k] = first[i].val
        BY <1>0, <4>1, DeciderSays
      <4>3. Recovered(rows, both)[k] = both[i].val
        <5>1. i \in DOMAIN both /\ Decides(both, i, k)
          BY <1>0, <3>3, <3>5, <4>1
        <5> QED
          BY <1>0, <5>1, DeciderSays
      <4> QED
        BY <1>1, <3>1, <4>2, <4>3
    <3>7. CASE ~ \E i \in 1..a : Decides(first, i, k)
      <4>1. ~ \E i \in 1..(a + b) : Decides(both, i, k)
        BY <3>3, <3>4, <3>7
      <4>2. Recovered(rows, both)[k] = rows[k] /\ Recovered(rows, first)[k] = rows[k]
        BY <1>0, <3>7, <4>1 DEF Recovered
      <4> QED
        BY <3>1, <4>2
    <3> QED
      BY <3>6, <3>7
  <2> QED
    BY <2>1, <2>2
<1> QED
  BY <1>3, <1>5 DEF both, Rows

\* Where all records have one value, so has every row they are about.
LEMMA RecoveredSame ==
    ASSUME NEW rows, NEW log \in Seq(LogEntry), NEW v, \A i \in 1..Len(log) : log[i].val = v,
           NEW k \in Key, \E i \in 1..Len(log) : log[i].key = k
    PROVE  Recovered(rows, log)[k] = v
<1>1. PICK i \in 1..Len(log) : Decides(log, i, k)
  BY SomeDecides
<1>2. i \in DOMAIN log
  BY LenProperties
<1> QED
  BY <1>1, <1>2, DeciderSays

\* A log of one record writes one row.
LEMMA RecoveredOne ==
    ASSUME NEW rows \in Rows, NEW r \in LogEntry
    PROVE  Recovered(rows, <<r>>) = [rows EXCEPT ![r.key] = r.val]
<1> DEFINE one == <<r>>
<1>1. one \in Seq(LogEntry) /\ Len(one) = 1 /\ DOMAIN one = {1} /\ one[1] = r
  OBVIOUS
<1> HIDE DEF one
<1>2. Decides(one, 1, r.key)
  BY <1>1 DEF Decides
<1>3. r.key \in Key
  BY DEF LogEntry
<1>4. Recovered(rows, one)[r.key] = r.val
  BY <1>1, <1>2, <1>3, DeciderSays
<1>5. \A k \in Key : k # r.key => Recovered(rows, one)[k] = rows[k]
  BY <1>1, NotRecovered
<1>6. Recovered(rows, one) \in Rows
  BY <1>1, RecoveredType
<1>7. Recovered(rows, one) = [rows EXCEPT ![r.key] = r.val]
  BY <1>4, <1>5, <1>6 DEF Rows
<1> QED
  BY <1>7 DEF one

\* Replaying a log is writing its first record's row and replaying the rest.
LEMMA RecoveredHead ==
    ASSUME NEW rows \in Rows, NEW log \in Seq(LogEntry), log # <<>>
    PROVE  Recovered(rows, log)
           = Recovered([rows EXCEPT ![Head(log).key] = Head(log).val], Tail(log))
<1>1. /\ Head(log) \in LogEntry /\ Tail(log) \in Seq(LogEntry)
      /\ log = <<Head(log)>> \o Tail(log) /\ <<Head(log)>> \in Seq(LogEntry)
  BY HeadTailProperties, ElementOfSeq, EmptySeq, LenProperties
<1>2. Recovered(rows, <<Head(log)>> \o Tail(log))
      = Recovered(Recovered(rows, <<Head(log)>>), Tail(log))
  BY <1>1, RecoveredConcat
<1> QED
  BY <1>1, <1>2, RecoveredOne

=============================================================================
