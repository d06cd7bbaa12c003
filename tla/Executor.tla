------------------------------ MODULE Executor ------------------------------
(***************************************************************************)
(* cpp/executor.h and cpp/catalog.h: the statements that write, one action *)
(* per call to the store, so that a crash or an error thrown by the store  *)
(* can fall between any two of them.  The store itself is the map that     *)
(* DurableStore implements.                                                *)
(*                                                                         *)
(* A statement the executor refuses changes nothing and is no step here.   *)
(* An UPDATE or DELETE it accepts is first only noted (stmt); then it finds *)
(* the rows it is about (pending); then, row by row, it works out and makes *)
(* its calls to the store (todo).                                          *)
(*                                                                         *)
(* interrupted, half and cuts are auxiliary: the primary keys whose writes, *)
(* and the indexes whose creation, a crash or an error cut short, and how  *)
(* many statements that were.                                              *)
(***************************************************************************)
EXTENDS Query

CONSTANTS
    IdLiteral, ALiteral,      \* the literals INSERT gives id and a
    SetInput, WhereInput,     \* the SET and WHERE clauses of UPDATE and DELETE
    WhereAsked, QueryAsked,   \* the WHERE clauses and queries the properties ask
    IndexColumn,              \* the columns CREATE INDEX is asked for
    Interrupts,               \* what may cut a statement short: "crash", "throw"
    KeyUpdates,               \* how many rows one UPDATE may give a new key: "one" or "many"
    MaxId,                    \* bound of the model: the last id to give out
    MaxCuts                   \* bound of the model: statements cut short

ASSUME ExecAssumption ==
    /\ IdLiteral \subseteq Int \cup {Text} /\ ALiteral \subseteq Int \cup {Text}
    /\ Interrupts \subseteq {"crash", "throw"}
    /\ KeyUpdates \in {"one", "many"}
    /\ SetInput \subseteq [id : Int \cup {Absent, Text}, a : Int \cup {Absent, Text}]
    /\ WhereInput \cup WhereAsked \subseteq {NoWhere} \cup Where
    /\ QueryAsked \subseteq SelectStmt
    /\ IndexColumn \subseteq Column
    /\ IsFiniteSet(IndexName)
    /\ MaxId \in Nat /\ MaxCuts \in Nat

VARIABLES
    file,         \* what a restart would find: see Throw
    next_id,      \* next_id_
    stmt,         \* the statement in progress
    pending,      \* the matches an UPDATE or DELETE has not come to yet
    todo,         \* the store calls of the row, or statement, in progress
    interrupted, half, cuts

data    == <<store, file>>
catalog == <<next_id, tables, indexes>>
work    == <<stmt, pending, todo>>
faults  == <<interrupted, half, cuts>>
vars    == <<data, catalog, work, faults>>

StoreKey == {pack_key(id, p) : id \in 0..MaxId, p \in 0..PRIMARY_KEY_MASK}

Nothing == [kind |-> "none"]

Idle == stmt = Nothing

\* The matches are collected before the first of them is touched.
Searching == stmt.kind \in {"update", "delete"} /\ "where" \in DOMAIN stmt

PutCall(key, val) == [key |-> key, val |-> val]
RemoveCall(key)   == [key |-> key, val |-> Absent]

StoreValue ==
    [kind : {"row"}, row : Row] \cup {EntryValue}
    \cup [kind : {"table"}, name : TableName]
    \cup [kind : {"index"}, name : IndexName, table : 1..MaxId, column : Column]

ASSUME StoredAssumption == Absent \notin StoreValue

Map  == [StoreKey -> StoreValue \cup {Absent}]
Call == [key : StoreKey, val : StoreValue \cup {Absent}]

Literal == Int \cup {Absent}

Statement ==
    {Nothing}
    \cup [kind : {"create_table", "create_index", "insert"}, id : 1..MaxId]
    \cup [kind : {"update", "delete"}, id : 1..MaxId, set : [id : Literal, a : Literal]]
    \cup [kind : {"update", "delete"}, id : 1..MaxId, set : [id : Literal, a : Literal],
          where : {w \in WhereInput : WhereOk(w)}]

ExecTypeOK ==
    /\ store \in Map /\ file \in Map
    /\ next_id \in 1..(MaxId + 1)
    /\ tables \in [TableName -> 0..MaxId]
    /\ indexes \in [IndexName -> [table : 0..MaxId, column : Column, id : 0..MaxId]]
    /\ stmt \in Statement
    /\ pending \in Seq([key : StoreKey, row : Row]) /\ todo \in Seq(Call)
    /\ pending # <<>> => stmt.kind \in {"update", "delete"}
    /\ Idle \/ Searching => todo = <<>> /\ pending = <<>>
    /\ interrupted \subseteq 0..PRIMARY_KEY_MASK /\ half \subseteq 1..MaxId /\ cuts \in 0..MaxCuts

-----------------------------------------------------------------------------
(* What a row may hold.                                                    *)

max_primary_key(id) == IF indexes_for_table(id) = {} THEN PRIMARY_KEY_MASK ELSE SECONDARY_PK_MASK

\* value_error() finds nothing wrong with the value for the column.
ValueOk(id, column, v) ==
    /\ v # Text
    /\ column = "id" => 0 <= v /\ v <= max_primary_key(id)
    /\ column # "id" /\ find_index_for_column(id, column) # {} => 0 <= v /\ v <= SECONDARY_VALUE_MASK

\* The key of the entry an index has for a row.
EntryKey(n, r) == pack_key(indexes[n].id, pack_secondary_composite(r.row[indexes[n].column], r.pk))

\* The calls that replace the index entries of one row by those of another.
\* old and new are lists of at most one [pk, row].
sync_indexes(id, old, new) ==
    LET calls(n) == [i \in DOMAIN old |-> RemoveCall(EntryKey(n, old[i]))]
                    \o [i \in DOMAIN new |-> PutCall(EntryKey(n, new[i]), EntryValue)]
        order    == SetToSeq(indexes_for_table(id))
    IN  FlattenSeq([i \in DOMAIN order |-> calls(order[i])])

-----------------------------------------------------------------------------
(* The statements.                                                         *)

CreateTable(name) ==
    /\ Idle /\ next_id <= MaxId
    /\ tables[name] = 0
    /\ next_id' = next_id + 1
    /\ todo' = <<PutCall(pack_key(CATALOG_TABLE_ID, next_id), TableValue(name))>>
    /\ stmt' = [kind |-> "create_table", id |-> next_id]
    /\ UNCHANGED <<data, tables, indexes, pending, faults>>

\* Every row has to fit before the index is registered and filled.
CreateIndex(name, table, column) ==
    /\ Idle /\ next_id <= MaxId
    /\ tables[table] # 0 /\ indexes[name] = NoIndex
    /\ LET id    == tables[table]
           rows  == {m.row : m \in ToSet(collect_matches(id, 0, PRIMARY_KEY_MASK, NoWhere))}
           order == Ascending({pack_secondary_composite(r[column], r.id) : r \in rows})
       IN  /\ \A r \in rows : /\ r.id <= SECONDARY_PK_MASK
                              /\ 0 <= r[column] /\ r[column] <= SECONDARY_VALUE_MASK
           /\ todo' = <<PutCall(pack_key(CATALOG_TABLE_ID, next_id), IndexValue(name, id, column))>>
                      \o [i \in DOMAIN order |-> PutCall(pack_key(next_id, order[i]), EntryValue)]
    /\ next_id' = next_id + 1
    /\ stmt' = [kind |-> "create_index", id |-> next_id]
    /\ half' = half \ {next_id}
    /\ UNCHANGED <<data, tables, indexes, pending, interrupted, cuts>>

\* An INSERT on an existing key overwrites the row and its index entries.
Insert(table, row) ==
    /\ Idle
    /\ tables[table] # 0
    /\ LET id  == tables[table]
           key == pack_key(id, row.id)
           old == IF store[key] = Absent THEN <<>> ELSE <<[pk |-> row.id, row |-> store[key].row]>>
       IN  /\ \A c \in Column : ValueOk(id, c, row[c])
           /\ todo' = <<PutCall(key, RowValue(row))>>
                      \o sync_indexes(id, old, <<[pk |-> row.id, row |-> row]>>)
           /\ stmt' = [kind |-> "insert", id |-> id]
    /\ UNCHANGED <<data, catalog, pending, faults>>

\* SET id = .., a = ..: Absent for a column that is not assigned.
NoAssignment == [id |-> Absent, a |-> Absent]

Begin(kind, table, set, where) ==
    /\ Idle
    /\ tables[table] # 0
    /\ WhereOk(where)
    /\ \A c \in Column : set[c] # Absent => ValueOk(tables[table], c, set[c])
    /\ stmt' = [kind |-> kind, id |-> tables[table], set |-> set, where |-> where]
    /\ UNCHANGED <<data, catalog, pending, todo, faults>>

Update(table, set, where) ==
    /\ Begin("update", table, set, where)
    \* An input of the model: see KeyUpdates.
    /\ KeyUpdates = "one" /\ set.id # Absent => Len(find_matches(tables[table], where)) <= 1

Delete(table, where) == Begin("delete", table, NoAssignment, where)

Search ==
    /\ Searching
    /\ pending' = find_matches(stmt.id, stmt.where)
    /\ stmt' = [kind |-> stmt.kind, id |-> stmt.id, set |-> stmt.set]
    /\ UNCHANGED <<data, catalog, todo, faults>>

Assigned(row) ==
    [id |-> IF stmt.set.id = Absent THEN row.id ELSE stmt.set.id,
     a  |-> IF stmt.set.a = Absent THEN row.a ELSE stmt.set.a]

\* Broken: the row that was at the new key keeps its index entries.
UpdateRowForgetsDisplaced ==
    /\ stmt.kind = "update" /\ ~Searching /\ todo = <<>> /\ pending # <<>>
    /\ LET m       == Head(pending)
           row     == Assigned(m.row)
           new_key == IF stmt.set.id # Absent THEN pack_key(stmt.id, row.id) ELSE m.key
       IN  todo' = (IF stmt.set.id # Absent THEN <<RemoveCall(m.key)>> ELSE <<>>)
                   \o <<PutCall(new_key, RowValue(row))>>
                   \o sync_indexes(stmt.id, <<[pk |-> unpack_primary_key(m.key), row |-> m.row]>>,
                                   <<[pk |-> unpack_primary_key(new_key), row |-> row]>>)
    /\ pending' = Tail(pending)
    /\ UNCHANGED <<data, catalog, stmt, faults>>

\* Broken: a row whose key is assigned stays under its old key.
UpdateRowInPlace ==
    /\ stmt.kind = "update" /\ ~Searching /\ todo = <<>> /\ pending # <<>>
    /\ LET m   == Head(pending)
           pk  == unpack_primary_key(m.key)
           row == Assigned(m.row)
       IN  todo' = <<PutCall(m.key, RowValue(row))>>
                   \o sync_indexes(stmt.id, <<[pk |-> pk, row |-> m.row]>>, <<[pk |-> pk, row |-> row]>>)
    /\ pending' = Tail(pending)
    /\ UNCHANGED <<data, catalog, stmt, faults>>

\* The next row of an UPDATE.  A row at the key it moves to is overwritten, and
\* that row's index entries go first.
UpdateRow ==
    /\ stmt.kind = "update" /\ ~Searching /\ todo = <<>> /\ pending # <<>>
    /\ LET m         == Head(pending)
           row       == Assigned(m.row)
           moves     == stmt.set.id # Absent
           new_key   == IF moves THEN pack_key(stmt.id, row.id) ELSE m.key
           displaced == IF moves /\ new_key # m.key /\ store[new_key] # Absent
                        THEN <<[pk |-> unpack_primary_key(new_key), row |-> store[new_key].row]>>
                        ELSE <<>>
       IN  todo' = sync_indexes(stmt.id, displaced, <<>>)
                   \o (IF moves THEN <<RemoveCall(m.key)>> ELSE <<>>)
                   \o <<PutCall(new_key, RowValue(row))>>
                   \o sync_indexes(stmt.id, <<[pk |-> unpack_primary_key(m.key), row |-> m.row]>>,
                                   <<[pk |-> unpack_primary_key(new_key), row |-> row]>>)
    /\ pending' = Tail(pending)
    /\ UNCHANGED <<data, catalog, stmt, faults>>

DeleteRow ==
    /\ stmt.kind = "delete" /\ ~Searching /\ todo = <<>> /\ pending # <<>>
    /\ LET m == Head(pending)
       IN  todo' = <<RemoveCall(m.key)>>
                   \o sync_indexes(stmt.id, <<[pk |-> unpack_primary_key(m.key), row |-> m.row]>>, <<>>)
    /\ pending' = Tail(pending)
    /\ UNCHANGED <<data, catalog, stmt, faults>>

Finish ==
    /\ ~Idle /\ ~Searching /\ todo = <<>> /\ pending = <<>>
    /\ stmt' = Nothing
    /\ UNCHANGED <<data, catalog, pending, todo, faults>>

-----------------------------------------------------------------------------
(* The calls to the store.                                                 *)

Applied(map, call) == [map EXCEPT ![call.key] = call.val]

\* remove() returns before it logs anything when there is no such key.
Logged(call) == call.val # Absent \/ store[call.key] # Absent

\* A catalog row that has been stored is entered in the maps in memory.
Registered(call) ==
    LET id == unpack_primary_key(call.key)
    IN  IF call.val = Absent THEN UNCHANGED <<tables, indexes>>
        ELSE CASE call.val.kind = "table" ->
                    tables' = [tables EXCEPT ![call.val.name] = id] /\ UNCHANGED indexes
               [] call.val.kind = "index" ->
                    /\ indexes' = [indexes EXCEPT ![call.val.name] =
                                        [table |-> call.val.table, column |-> call.val.column, id |-> id]]
                    /\ UNCHANGED tables
               [] OTHER -> UNCHANGED <<tables, indexes>>

StoreCall ==
    /\ todo # <<>>
    /\ store' = Applied(store, Head(todo))
    /\ file' = IF Logged(Head(todo)) THEN Applied(file, Head(todo)) ELSE file
    /\ Registered(Head(todo))
    /\ todo' = Tail(todo)
    /\ UNCHANGED <<next_id, stmt, pending, faults>>

\* load_existing(): rows come in key order, so the last one for a name counts.
CatalogRow(map, id) == map[pack_key(CATALOG_TABLE_ID, id)]
CatalogIds(map, kind) ==
    {id \in 1..MaxId : CatalogRow(map, id) # Absent /\ CatalogRow(map, id).kind = kind}
\* Broken: the first row for a name counts.
Earliest(map, kind, name) ==
    LET ids == {id \in CatalogIds(map, kind) : CatalogRow(map, id).name = name}
    IN  IF ids = {} THEN 0 ELSE Min(ids)
Latest(map, kind, name) ==
    Max({0} \cup {id \in CatalogIds(map, kind) : CatalogRow(map, id).name = name})

LoadedTables(map) == [n \in TableName |-> Latest(map, "table", n)]
LoadedIndexes(map) ==
    [n \in IndexName |-> LET id == Latest(map, "index", n)
                         IN  IF id = 0 THEN NoIndex ELSE [table |-> CatalogRow(map, id).table,
                                    column |-> CatalogRow(map, id).column, id |-> id]]

\* Broken: the last id in use is given out again.
NextIdLast(map) == Max({1} \cup CatalogIds(map, "table") \cup CatalogIds(map, "index"))
LoadedNextId(map) == Max({0} \cup CatalogIds(map, "table") \cup CatalogIds(map, "index")) + 1

\* The primary keys the calls are about, on the table or on its indexes.
KeysOf(calls) ==
    {IF c.key \div KeySpan = stmt.id THEN unpack_primary_key(c.key)
     ELSE unpack_secondary_pk(unpack_primary_key(c.key)) : c \in ToSet(calls)}

\* The statement ends here, with the rest of its calls undone.
MayCut == Idle \/ cuts < MaxCuts

CutShort ==
    /\ cuts' = IF Idle THEN cuts ELSE cuts + 1
    /\ stmt' = Nothing /\ pending' = <<>> /\ todo' = <<>>
    /\ half' = IF stmt.kind = "create_index" THEN half \cup {stmt.id} ELSE half
    /\ interrupted' = IF stmt.kind \in {"insert", "update", "delete"}
                      THEN interrupted \cup KeysOf(todo) ELSE interrupted

\* A call throws, and whoever reads the statements catches it and goes on.  The
\* row was not written; or only its log record was (the fsync failed); or it
\* was written and the checkpoint that followed failed.
Throw ==
    /\ "throw" \in Interrupts /\ MayCut
    /\ todo # <<>> /\ Logged(Head(todo))
    /\ LET call == Head(todo)
       IN  \/ UNCHANGED <<store, file>>
           \/ file' = Applied(file, call) /\ UNCHANGED store
           \/ file' = Applied(file, call) /\ store' = Applied(store, call)
    /\ CutShort
    /\ UNCHANGED catalog

\* The process dies and starts again: the store is the one a restart finds, and
\* the catalog is read from it.
Restart ==
    /\ "crash" \in Interrupts /\ MayCut
    /\ store' \in {file} \cup IF todo # <<>> /\ Logged(Head(todo))
                             THEN {Applied(file, Head(todo))} ELSE {}
    /\ file' = store'
    /\ tables' = LoadedTables(store') /\ indexes' = LoadedIndexes(store')
    /\ next_id' = LoadedNextId(store')
    /\ CutShort

\* A checkpoint: the log, and with it a record nobody applied, is gone.
Checkpoint ==
    /\ file # store
    /\ file' = store
    /\ UNCHANGED <<store, catalog, work, faults>>

-----------------------------------------------------------------------------

ExecInit ==
    /\ store = [k \in StoreKey |-> Absent] /\ file = store
    /\ next_id = 1
    /\ tables = [n \in TableName |-> 0] /\ indexes = [n \in IndexName |-> NoIndex]
    /\ stmt = Nothing /\ pending = <<>> /\ todo = <<>>
    /\ interrupted = {} /\ half = {} /\ cuts = 0

ExecNext ==
    \/ \E t \in TableName :
        \/ CreateTable(t)
        \/ \E n \in IndexName, c \in IndexColumn : CreateIndex(n, t, c)
        \/ \E i \in IdLiteral, a \in ALiteral : Insert(t, [id |-> i, a |-> a])
        \/ \E w \in WhereInput : Delete(t, w) \/ \E set \in SetInput : Update(t, set, w)
    \/ Search \/ UpdateRow \/ DeleteRow \/ Finish
    \/ StoreCall \/ Throw \/ Restart \/ Checkpoint

ExecSpec == ExecInit /\ [][ExecNext]_vars

-----------------------------------------------------------------------------
\* The keys of a table hold its rows, those of an index its entries, and no id
\* is used twice, whichever CREATE statements failed and however often the
\* catalog was rebuilt.
KeysApart(map) ==
    \A k \in DOMAIN map : map[k] # Absent =>
        LET id == unpack_table_id(k)
        IN  /\ map[k].kind = "row"   => id \in CatalogIds(map, "table")
            /\ map[k].kind = "entry" => id \in CatalogIds(map, "index")
            /\ map[k].kind \in {"table", "index"} => id = CATALOG_TABLE_ID

KindsApart == KeysApart(store)

\* The entries of an index that are about one primary key.
EntriesFor(map, index, pk) ==
    {e \in 0..PRIMARY_KEY_MASK : /\ unpack_secondary_pk(e) = pk
                                 /\ map[pack_key(index.id, e)] # Absent}

InSync(map, index, pk) ==
    LET row == map[pack_key(index.table, pk)]
    IN  EntriesFor(map, index, pk) =
            IF row = Absent THEN {} ELSE {pack_secondary_composite(row.row[index.column], pk)}

\* The rows a crash or an error caught, by the part of the key an index keeps.
Exempt == {p % PkSpan : p \in interrupted}

\* Between two statements every index has exactly one entry for each row, under
\* its value, and none else, whatever rows were overwritten, moved onto each
\* other or deleted: but for rows a crash or an error caught in the middle.  One
\* that comes back with a restart may be too large for an index created while it
\* was gone, and its entries are then taken for those of a smaller key.
IndexInSync ==
    Idle => \A n \in IndexName : indexes[n] # NoIndex /\ indexes[n].id \notin half =>
        \A pk \in (0..SECONDARY_PK_MASK) \ Exempt : InSync(store, indexes[n], pk)

\* The rows of a table, however they are found.
AllRows(id) == {store[k].row : k \in {j \in Present : \E p \in 0..PRIMARY_KEY_MASK : j = pack_key(id, p)}}
Answer(id, where) == {r \in AllRows(id) : where = NoWhere \/ matches(r, where)}

Quiet == Idle /\ interrupted = {} /\ half = {}

\* Every way to run a query gives the rows that satisfy its WHERE clause, each
\* once, and so does the search of UPDATE and DELETE: the point lookup, the
\* range scan with bounds no key can have, and the index lookup, for values an
\* index can and cannot hold.
QueriesAgree ==
    Quiet => \A t \in TableName, w \in WhereAsked : tables[t] # 0 /\ WhereOk(w) =>
        LET answer == Answer(tables[t], w)
            hits   == find_matches(tables[t], w)
            rows   == Fetched(tables[t], w)
        IN  /\ ToSet(rows) = answer /\ Len(rows) = Cardinality(answer)
            /\ {m.row : m \in ToSet(hits)} = answer /\ Len(hits) = Cardinality(answer)

Known(q) ==
    /\ WhereOk(q.where)
    /\ q.explain \/ (/\ q.order # Absent => q.order.column \in Column
                     /\ q.target = "SUM" => q.column \in Column)

Precedes(r, s, order) ==
    IF order.desc THEN r[order.column] > s[order.column] ELSE r[order.column] < s[order.column]

\* What one result of a query q has to be, given the rows that answer it.
ResultRight(result, q, answer) ==
    LET size == IF q.target = "*" THEN Cardinality(answer) ELSE 1
        kept == IF q.limit = Absent THEN size ELSE Smaller(size, Larger(0, q.limit))
    IN  IF q.explain THEN result.kind = "plan" /\ result.count = Cardinality(answer)
        ELSE /\ result.kind = "rows" /\ Len(result.rows) = kept
             /\ kept = 1 /\ q.target = "COUNT(*)" => result.rows = <<Cardinality(answer)>>
             /\ kept = 1 /\ q.target = "SUM" =>
                    result.rows = <<MapThenSumSet(LAMBDA r : r[q.column], answer)>>
             /\ q.target = "*" =>
                    LET shown == ToSet(result.rows)
                    IN  /\ shown \subseteq answer /\ Cardinality(shown) = kept
                        /\ q.order # Absent =>
                            /\ \A m, n \in DOMAIN result.rows :
                                    m < n => ~Precedes(result.rows[n], result.rows[m], q.order)
                            /\ \A r \in answer \ shown, s \in shown : ~Precedes(r, s, q.order)

\* A SELECT gives the first rows in the order it asks for, or the count or sum
\* of all its rows whatever its LIMIT; EXPLAIN counts the rows the query would
\* go through; and only a query that names what there is not is refused.
ResultsRight ==
    Quiet => \A t \in TableName, q \in QueryAsked : tables[t] # 0 =>
        \A result \in Select(t, q) :
            IF Known(q) THEN ResultRight(result, q, Answer(tables[t], q.where))
            ELSE result = Refused

\* The catalog in memory is the one a restart would build, but for a CREATE
\* whose call threw after its row had been logged.
CatalogReloads ==
    /\ \A t \in TableName : tables[t] # 0 => LoadedTables(file)[t] = tables[t]
    /\ \A n \in IndexName : indexes[n] # NoIndex => LoadedIndexes(file)[n] = indexes[n]

-----------------------------------------------------------------------------
(* Why the catalog can be rebuilt.                                         *)

\* What holds of the map in memory and of the one a restart would find.
CatalogOK(map) ==
    /\ KeysApart(map)
    /\ \A id \in 1..MaxId : CatalogRow(map, id) # Absent => id < next_id
    /\ \A id \in CatalogIds(map, "index") : CatalogRow(map, id).table \in CatalogIds(map, "table")
    /\ \A t \in TableName : tables[t] # 0 => LoadedTables(map)[t] = tables[t]
    /\ \A n \in IndexName : indexes[n] # NoIndex => LoadedIndexes(map)[n] = indexes[n]

\* A call about a row of a table or an entry of an index that the catalog has.
DataCall(c) ==
    LET id == unpack_table_id(c.key)
    IN  /\ id # CATALOG_TABLE_ID
        /\ c.val # Absent => \/ /\ c.val.kind = "row"
                                /\ id \in CatalogIds(store, "table") \cap CatalogIds(file, "table")
                             \/ /\ c.val.kind = "entry"
                                /\ id \in CatalogIds(store, "index") \cap CatalogIds(file, "index")

\* The calls of a CREATE that has not made the first: its id is new, and only the
\* catalog row comes before the entries.
Creating ==
    /\ todo # <<>>
    /\ next_id = stmt.id + 1
    /\ CatalogRow(store, stmt.id) = Absent /\ CatalogRow(file, stmt.id) = Absent
    /\ Head(todo).key = pack_key(CATALOG_TABLE_ID, stmt.id)
    /\ \/ /\ stmt.kind = "create_table" /\ Len(todo) = 1
          /\ \E t \in TableName : tables[t] = 0 /\ Head(todo).val = TableValue(t)
       \/ /\ stmt.kind = "create_index"
          /\ \E n \in IndexName, t \in TableName, c \in Column :
                /\ indexes[n] = NoIndex /\ tables[t] # 0
                /\ Head(todo).val = IndexValue(n, tables[t], c)
    /\ \A n \in 2..Len(todo) : todo[n].val = EntryValue /\ unpack_table_id(todo[n].key) = stmt.id

CatalogInv ==
    /\ CatalogOK(store) /\ CatalogOK(file)
    /\ stmt.kind \in {"insert", "update", "delete"} => \E t \in TableName : stmt.id = tables[t]
    /\ \A n \in DOMAIN pending : unpack_table_id(pending[n].key) = stmt.id
    /\ Creating \/ \A n \in DOMAIN todo : DataCall(todo[n])

-----------------------------------------------------------------------------
(* Why the indexes stay in step.                                           *)

Replay == INSTANCE LogReplay WITH Key <- StoreKey, Value <- StoreValue

\* The map once calls have been made, and the store once those in progress have.
After(map, calls) == Replay!Recovered(map, calls)
Final == After(store, todo)

\* The indexes the catalog has, and the one it is about to have.
Registering == stmt.kind = "create_index" /\ todo # <<>> /\ Head(todo).val.kind = "index"
Live ==
    {x \in {indexes[n] : n \in IndexName} : x # NoIndex /\ x.id \notin half}
    \cup IF Registering
         THEN {[table |-> Head(todo).val.table, column |-> Head(todo).val.column, id |-> stmt.id]}
         ELSE {}

\* What an index needs of a row to tell it from the others: its key, and, unless
\* something was caught, the indexed value, which is kept whole.  An index on id is
\* never asked for a value.
Indexable(v, p, x, exempt) ==
    /\ p <= SECONDARY_PK_MASK \/ p % PkSpan \in exempt
    /\ exempt = {} /\ x.column # "id" => v.row[x.column] \in 0..SECONDARY_VALUE_MASK

\* The index has the entries of the map's rows and no others, but for the exempt
\* keys.
InStep(map, x, exempt) ==
    /\ \A pk \in (0..SECONDARY_PK_MASK) \ exempt : InSync(map, x, pk)
    /\ \A p \in 0..PRIMARY_KEY_MASK :
          LET v == map[pack_key(x.table, p)] IN v # Absent => Indexable(v, p, x, exempt)

\* An index is in step once the statement's calls are made.
LiveInSync == \A x \in Live : InStep(Final, x, Exempt)

\* An index the catalog does not have, but a restart would find, is half made.
UnknownIsHalf ==
    \A n \in IndexName : indexes[n] = NoIndex =>
        \A map \in {store, file} : \A id \in CatalogIds(map, "index") :
            CatalogRow(map, id).name = n => id \in half

\* Memory and disk differ only in what a crash or an error caught.
Caught(k) ==
    \/ unpack_table_id(k) = CATALOG_TABLE_ID
    \/ unpack_primary_key(k) % PkSpan \in Exempt
    \/ unpack_table_id(k) \in half \ CatalogIds(store, "table")
OnlyCaughtDiffer == \A k \in StoreKey : file[k] = store[k] \/ Caught(k)

\* Every row is stored under the key its first column says.
RowKeyed(k, v) == v # Absent /\ v.kind = "row" => v.row.id = unpack_primary_key(k)
RowsKeyed ==
    /\ \A k \in StoreKey : RowKeyed(k, store[k]) /\ RowKeyed(k, file[k])
    /\ \A n \in DOMAIN todo : RowKeyed(todo[n].key, todo[n].val)

\* The matches an UPDATE or DELETE has not come to are as it found them.
PendingCurrent ==
    /\ \A n \in DOMAIN pending : Final[pending[n].key] = RowValue(pending[n].row)
    /\ \A m, n \in DOMAIN pending : m < n => pending[m].key # pending[n].key

\* The values a row may be given were allowed and still are.
AssignsOk ==
    stmt.kind = "update" =>
        \A c \in Column : stmt.set[c] # Absent => ValueOk(stmt.id, c, stmt.set[c])

\* Only one row is given a new key.
MovesOne ==
    stmt.kind = "update" /\ stmt.set.id # Absent =>
        IF Searching THEN Len(find_matches(stmt.id, stmt.where)) <= 1 ELSE Len(pending) <= 1

\* A CREATE writes to the catalog, and entries under its own id, and an index that
\* is being filled is not yet one of those cut short.
CreatesOwn ==
    stmt.kind \in {"create_table", "create_index"} =>
        /\ \A n \in DOMAIN todo :
              \/ unpack_table_id(todo[n].key) = CATALOG_TABLE_ID /\ todo[n].val # Absent
              \/ /\ stmt.kind = "create_index" /\ unpack_table_id(todo[n].key) = stmt.id
                 /\ todo[n].val = EntryValue
        /\ stmt.kind = "create_index" => stmt.id \notin half

SyncInv ==
    /\ CreatesOwn /\ LiveInSync /\ UnknownIsHalf /\ OnlyCaughtDiffer
    /\ RowsKeyed /\ PendingCurrent /\ AssignsOk /\ MovesOne

=============================================================================
