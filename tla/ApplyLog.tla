------------------------------ MODULE ApplyLog ------------------------------
(***************************************************************************)
(* DurableStore::apply_log (cpp/durable_store.h): the recovered log merged *)
(* into the snapshot's rows in one pass, for any log of up to MaxLog       *)
(* records and any snapshot.  One action per iteration of its loop.        *)
(***************************************************************************)
EXTENDS LogReplay, Ascending, SequencesExt

CONSTANT MaxLog    \* bound of the model: records in the log

ASSUME ApplyAssumption == Key \subseteq Int /\ IsFiniteSet(Key) /\ MaxLog \in Nat

VARIABLES
    rows,    \* keys and values: the snapshot's rows in key order
    log,     \* the records to apply
    order,   \* their positions, sorted by key
    i,       \* the next of them to merge
    s,       \* the next snapshot row not yet copied
    out,     \* out_keys and out_values
    done     \* apply_log has returned

vars == <<rows, log, order, i, s, out, done>>

\* A row set as the sequence of its rows in key order, and back.
Listed(r) ==
    LET keys == Ascending({k \in Key : r[k] # Absent})
    IN  [n \in DOMAIN keys |-> [key |-> keys[n], val |-> r[keys[n]]]]
AsRows(seq) == Recovered(NoRows, seq)

\* Broken: a sort that is not stable may swap two records of one key.
SortedUnstably(l) ==
    InOrder(DOMAIN l, {p \in (DOMAIN l) \X (DOMAIN l) :
                         \/ l[p[1]].key < l[p[2]].key
                         \/ l[p[1]].key = l[p[2]].key /\ p[1] > p[2]})

\* std::stable_sort by key: records of one key stay in the order they were logged.
Before(l) == {p \in (DOMAIN l) \X (DOMAIN l) :
                 \/ l[p[1]].key < l[p[2]].key
                 \/ l[p[1]].key = l[p[2]].key /\ p[1] < p[2]}
SortedByKey(l) == InOrder(DOMAIN l, Before(l))

ApplyInit ==
    /\ \E r \in Rows : rows = Listed(r)
    /\ log \in BoundedSeq(LogEntry, MaxLog)
    /\ order = SortedByKey(log)
    /\ i = 1 /\ s = 1
    /\ out = <<>>
    /\ done = FALSE

\* Nothing logged since the snapshot: its rows are the result.
NothingLogged ==
    /\ ~ done /\ log = <<>>
    /\ out' = rows /\ done' = TRUE
    /\ UNCHANGED <<rows, log, order, i, s>>

\* The last position in order that holds a record of the given key.
RunEnd(key) == Cardinality({j \in DOMAIN log : log[j].key <= key})

\* The first snapshot row from s on with a key that is not less than the given one.
RowsEnd(key) == s + Cardinality({j \in s..Len(rows) : rows[j].key < key})

\* The next key of the log: the snapshot's rows before it are copied, its own
\* row is skipped, and the last of its records says what follows.
MergeKey ==
    /\ ~ done /\ i <= Len(order)
    /\ LET key   == log[order[i]].key
           upTo  == RowsEnd(key)
           final == log[order[RunEnd(key)]]
       IN  /\ out' = out \o SubSeq(rows, s, upTo - 1)
                         \o IF final.val = Absent THEN <<>> ELSE <<final>>
           /\ s' = IF upTo <= Len(rows) /\ rows[upTo].key = key THEN upTo + 1 ELSE upTo
           /\ i' = RunEnd(key) + 1
    /\ UNCHANGED <<rows, log, order, done>>

\* No record left: the rest of the snapshot's rows are copied.
CopyRest ==
    /\ ~ done /\ log # <<>> /\ i > Len(order)
    /\ out' = out \o SubSeq(rows, s, Len(rows))
    /\ s' = Len(rows) + 1 /\ done' = TRUE
    /\ UNCHANGED <<rows, log, order, i>>

ApplyNext == NothingLogged \/ MergeKey \/ CopyRest

ApplySpec == ApplyInit /\ [][ApplyNext]_vars

-----------------------------------------------------------------------------

\* What the insert or remove of one record would do to the rows, and those of all.
Applied(r, rec) == [r EXCEPT ![rec.key] = rec.val]
OneByOne(r, l) ==
    LET after[n \in 0..Len(l)] == IF n = 0 THEN r ELSE Applied(after[n - 1], l[n])
    IN  after[Len(l)]

\* "which is exactly what applying every record in log order leaves behind": no
\* row is lost, resurrected, doubled or left at an older value, wherever in the
\* merge the log's keys and the snapshot's meet, and the rows come out in key
\* order, as build() takes them.
MergeReplays == done => out = Listed(OneByOne(AsRows(rows), log))

\* And so does the description of the result the other modules use.
RecoveredReplays == Recovered(AsRows(rows), log) = OneByOne(AsRows(rows), log)

-----------------------------------------------------------------------------
(* Why the merge is right.                                                 *)

\* The list holds the rows of r, each once and in key order.
Lists(list, r) ==
    /\ list \in Seq(LogEntry)
    /\ \A m, n \in 1..Len(list) : m < n => list[m].key < list[n].key
    /\ \A n \in 1..Len(list) : list[n].val = r[list[n].key] /\ list[n].val # Absent
    /\ \A k \in Key : r[k] # Absent => \E n \in 1..Len(list) : list[n].key = k

\* The merge has dealt with the keys up to that of the record before i ...
Passed(k) == i > 1 /\ k <= log[order[i - 1]].key

\* ... and so far out holds the rows of those keys.
Merged ==
    LET final == Recovered(AsRows(rows), log)
    IN  [k \in Key |-> IF Passed(k) THEN final[k] ELSE Absent]

ApplyInv ==
    /\ log \in Seq(LogEntry) /\ order = SortedByKey(log)
    /\ Lists(rows, AsRows(rows))
    /\ i \in 1..(Len(log) + 1) /\ s \in 1..(Len(rows) + 1)
    /\ done \in BOOLEAN
    /\ ~ done => /\ \A n \in 1..Len(log) : n < i <=> Passed(log[order[n]].key)
                 /\ \A n \in 1..Len(rows) : n < s <=> Passed(rows[n].key)
                 /\ Lists(out, Merged)
    /\ done => Lists(out, Recovered(AsRows(rows), log))

=============================================================================
