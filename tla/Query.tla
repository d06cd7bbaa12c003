------------------------------- MODULE Query -------------------------------
(***************************************************************************)
(* cpp/executor.h, cpp/catalog.h: what a statement reads.  The rows of     *)
(* every table, the entries of every index and the catalog share one store *)
(* under packed keys; a WHERE clause is answered along one of five paths,  *)
(* and a SELECT then orders, aggregates and limits what the path found.    *)
(*                                                                         *)
(* Every table has the columns id INT, its primary key, and a INT.  A TEXT *)
(* literal is the one value Text: no column takes it.                      *)
(***************************************************************************)
EXTENDS TableKey, Ascending, SequencesExt, FiniteSetsExt

CONSTANTS
    TableName, IndexName,
    Absent,          \* what is not there: a row, a literal, a clause
    Text

ASSUME AbsentAssumption == Absent \notin Int /\ Text \notin Int /\ Text # Absent

VARIABLES
    store,           \* the rows of the store, by packed key
    tables,          \* name_to_id_, 0 where there is no such table
    indexes          \* index_name_to_info_

CATALOG_TABLE_ID == 0

Column    == {"id", "a"}
CompareOp == {"=", "<", ">", "<=", ">=", "BETWEEN"}
Row       == [id : Int, a : Int]

\* What the value of a store key can be: a row of a table, an entry of an
\* index, or a row of the catalog.
RowValue(row)            == [kind |-> "row", row |-> row]
EntryValue               == [kind |-> "entry"]
TableValue(name)         == [kind |-> "table", name |-> name]
IndexValue(name, id, column) == [kind |-> "index", name |-> name, table |-> id, column |-> column]

NoIndex == [table |-> 0, column |-> "id", id |-> 0]
NoWhere == [column |-> "none", op |-> "none", value |-> Absent, value2 |-> Absent]
Where   == [column : STRING, op : CompareOp \ {"BETWEEN"}, value : Int \cup {Text}, value2 : {Absent}]
           \cup [column : STRING, op : {"BETWEEN"}, value : Int \cup {Text}, value2 : Int \cup {Text}]

\* A SELECT, but for the table it names.
SelectStmt ==
    [target : {"*", "COUNT(*)", "SUM"}, column : STRING, where : {NoWhere} \cup Where,
     order : {Absent} \cup [column : STRING, desc : BOOLEAN],
     limit : {Absent} \cup Int, explain : BOOLEAN]

Present == {k \in DOMAIN store : store[k] # Absent}

InRange(lo, hi)    == {k \in Present : lo <= k /\ k <= hi}
range_scan(lo, hi) == Ascending(InRange(lo, hi))

indexes_for_table(id) == {n \in IndexName : indexes[n] # NoIndex /\ indexes[n].table = id}

find_index_for_column(id, column) == {n \in indexes_for_table(id) : indexes[n].column = column}

-----------------------------------------------------------------------------
(* WHERE.                                                                  *)

\* where_error() finds nothing wrong.
WhereOk(where) ==
    where # NoWhere =>
        /\ where.column \in Column
        /\ where.value # Text
        /\ where.op = "BETWEEN" => where.value2 # Text

matches(row, where) ==
    LET v == row[where.column]
    IN  \/ where.op = "BETWEEN" /\ where.value <= v /\ v <= where.value2
        \/ where.op = "="  /\ v = where.value
        \/ where.op = "<"  /\ v < where.value
        \/ where.op = ">"  /\ v > where.value
        \/ where.op = "<=" /\ v <= where.value
        \/ where.op = ">=" /\ v >= where.value

Larger(x, y)  == IF x >= y THEN x ELSE y
Smaller(x, y) == IF x <= y THEN x ELSE y

\* The rows under the keys that pass the filter, in key order.
Found(keys, filter) ==
    LET hits == Ascending({k \in keys : filter = NoWhere \/ matches(store[k].row, filter)})
    IN  [n \in DOMAIN hits |-> [key |-> hits[n], row |-> store[hits[n]].row]]

\* Broken: the bounds are packed as they are.
CollectUnclamped(id, lo_pk, hi_pk, filter) ==
    Found(InRange(pack_key(id, lo_pk), pack_key(id, hi_pk)), filter)

\* The bounds are cut down to the keys pack_key can represent.
collect_matches(id, lo_pk, hi_pk, filter) ==
    LET lo == Larger(lo_pk, 0)
        hi == Smaller(hi_pk, PRIMARY_KEY_MASK)
    IN  IF lo > hi THEN <<>>
        ELSE Found(InRange(pack_key(id, lo), pack_key(id, hi)), filter)

\* A key outside what pack_key can represent is found nowhere.
PointLookup(id, pk) ==
    IF pk \in 0..PRIMARY_KEY_MASK /\ store[pack_key(id, pk)] # Absent
    THEN Found({pack_key(id, pk)}, NoWhere) ELSE <<>>

ByKey(where)      == where.column = "id" /\ where.op = "="
ByKeyRange(where) == where.column = "id" /\ where.op = "BETWEEN"

\* What UPDATE and DELETE work through: keys and rows, in key order.
find_matches(id, where) ==
    CASE ByKey(where)      -> PointLookup(id, where.value)
      [] ByKeyRange(where) -> collect_matches(id, where.value, where.value2, NoWhere)
      [] OTHER             -> collect_matches(id, 0, PRIMARY_KEY_MASK, where)

-----------------------------------------------------------------------------
(* SELECT.                                                                 *)

access_method(id, where) ==
    CASE where = NoWhere   -> "full scan"
      [] ByKey(where)      -> "point lookup"
      [] ByKeyRange(where) -> "range scan"
      [] /\ where.op = "=" /\ ~ByKey(where)
         /\ where.value \in 0..SECONDARY_VALUE_MASK
         /\ find_index_for_column(id, where.column) # {} -> "secondary index lookup"
      [] OTHER             -> "full scan (filtered)"

\* The rows an index has for a value, in the order of their entries.
IndexLookup(id, where) ==
    LET storage == indexes[CHOOSE n \in find_index_for_column(id, where.column) : TRUE].id
        entries == range_scan(pack_key(storage, pack_secondary_composite(where.value, 0)),
                              pack_key(storage, pack_secondary_composite(where.value, SECONDARY_PK_MASK)))
        pk(n)   == unpack_secondary_pk(unpack_primary_key(entries[n]))
    IN  FlattenSeq([n \in DOMAIN entries |-> PointLookup(id, pk(n))])

Fetched(id, where) ==
    LET method == access_method(id, where)
        found  == CASE method = "point lookup"           -> PointLookup(id, where.value)
                    [] method = "secondary index lookup" -> IndexLookup(id, where)
                    [] method = "range scan" ->
                            collect_matches(id, where.value, where.value2, NoWhere)
                    [] OTHER -> collect_matches(id, 0, PRIMARY_KEY_MASK, where)
    IN  [n \in DOMAIN found |-> found[n].row]

\* std::sort is not stable: rows that compare equal come in any order.
Sorted(rows, order) ==
    LET before(r, s) == IF order.desc THEN r[order.column] > s[order.column]
                                      ELSE r[order.column] < s[order.column]
        arranged == {[n \in DOMAIN rows |-> rows[p[n]]] : p \in Bijection(DOMAIN rows, DOMAIN rows)}
    IN  {s \in arranged : \A m, n \in DOMAIN s : m < n => ~before(s[n], s[m])}

Aggregated(rows, target, column) ==
    CASE target = "*"        -> rows
      [] target = "COUNT(*)" -> <<Len(rows)>>
      [] target = "SUM"      -> <<FoldSeq(LAMBDA r, total : total + r[column], 0, rows)>>

Limited(rows, limit) ==
    IF limit # Absent /\ Len(rows) > limit THEN SubSeq(rows, 1, Larger(0, limit)) ELSE rows

Refused            == [kind |-> "refused"]
Plan(method, rows) == [kind |-> "plan", method |-> method, count |-> Len(rows)]
Rows(rows)         == [kind |-> "rows", rows |-> rows]

\* Broken: LIMIT cuts the rows an aggregate is over.
SelectLimitFirst(table, q) ==
    LET found == Fetched(tables[table], q.where)
    IN  IF tables[table] = 0 \/ ~WhereOk(q.where) THEN {Refused}
        ELSE IF q.explain THEN {Plan(access_method(tables[table], q.where), found)}
        ELSE IF (q.order # Absent /\ q.order.column \notin Column)
                \/ (q.target = "SUM" /\ q.column \notin Column) THEN {Refused}
        ELSE {Rows(Aggregated(Limited(rows, q.limit), q.target, q.column)) :
                rows \in IF q.order = Absent THEN {found} ELSE Sorted(found, q.order)}

\* The results a SELECT may give.  EXPLAIN returns the plan before the columns
\* of ORDER BY and SUM are looked at.
Select(table, q) ==
    LET found == Fetched(tables[table], q.where)
    IN  IF tables[table] = 0 \/ ~WhereOk(q.where) THEN {Refused}
        ELSE IF q.explain THEN {Plan(access_method(tables[table], q.where), found)}
        ELSE IF (q.order # Absent /\ q.order.column \notin Column)
                \/ (q.target = "SUM" /\ q.column \notin Column) THEN {Refused}
        ELSE {Rows(Limited(Aggregated(rows, q.target, q.column), q.limit)) :
                rows \in IF q.order = Absent THEN {found} ELSE Sorted(found, q.order)}

=============================================================================
