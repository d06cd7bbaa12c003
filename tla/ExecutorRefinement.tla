------------------------- MODULE ExecutorRefinement -------------------------
(***************************************************************************)
(* Each table of Executor is the one SqlTable describes: TheTable is any.  *)
(***************************************************************************)
EXTENDS Executor

CONSTANT TheTable

\* What an UPDATE or DELETE asks of a table.
Request == [kind : {"update", "delete"}, set : [id : Literal, a : Literal], where : {NoWhere} \cup Where]

ASSUME TableAssumption == TheTable \in TableName /\ Absent \notin Row \cup Request

RowsOf(map, id) ==
    [p \in 0..PRIMARY_KEY_MASK |->
        IF id = 0 \/ map[pack_key(id, p)] = Absent THEN Absent ELSE map[pack_key(id, p)].row]

\* The row writes still to come: those among the calls, and one or two for each
\* of the pending matches.
RowWrite(c) == [pk  |-> unpack_primary_key(c.key),
                row |-> IF c.val = Absent THEN Absent ELSE c.val.row]

RowWrites(calls, id) ==
    FlattenSeq([n \in DOMAIN calls |->
        IF id # 0 /\ unpack_table_id(calls[n].key) = id THEN <<RowWrite(calls[n])>> ELSE <<>>])

MatchWrites(m) ==
    IF stmt.kind = "delete" THEN <<[pk |-> m.row.id, row |-> Absent]>>
    ELSE (IF stmt.set.id = Absent THEN <<>> ELSE <<[pk |-> m.row.id, row |-> Absent]>>)
         \o <<[pk |-> Assigned(m.row).id, row |-> Assigned(m.row)]>>

PendingWrites(id) ==
    IF pending # <<>> /\ stmt.id = id
    THEN FlattenSeq([n \in DOMAIN pending |-> MatchWrites(pending[n])]) ELSE <<>>

TableRows  == RowsOf(store, tables[TheTable])
TableDisk  == RowsOf(file, Latest(file, "table", TheTable))
TableAsked == IF Searching /\ stmt.id = tables[TheTable]
              THEN [kind |-> stmt.kind, set |-> stmt.set, where |-> stmt.where] ELSE Absent
TableLeft  == RowWrites(todo, tables[TheTable]) \o PendingWrites(tables[TheTable])

Table == INSTANCE SqlTable WITH
    Pk <- 0..PRIMARY_KEY_MASK,
    rows <- TableRows, disk <- TableDisk, asked <- TableAsked, left <- TableLeft

\* A statement changes exactly the rows its WHERE clause describes, each once
\* and in key order, and keeps every row under the key its first column says,
\* whatever path found it; a crash or an error between two store calls leaves
\* the writes made so far, and a restart shows no others.
ExecIsTable == Table!TableSpec

-----------------------------------------------------------------------------
(* Why it is.                                                              *)

\* Rows are those of tables in memory: a CREATE TABLE that failed leaves an id no
\* row is ever stored under.
RowsHomed ==
    \A map \in {store, file} : \A k \in StoreKey :
        map[k] # Absent /\ map[k].kind = "row" => \E t \in TableName : unpack_table_id(k) = tables[t]

\* A statement writes rows of its own table only, and a row it removes is there
\* until then: else the store would not log the call.
OwnRows ==
    \A n \in DOMAIN todo :
        LET c  == todo[n]
            id == unpack_table_id(c.key)
        IN  /\ c.val # Absent /\ c.val.kind = "row" => id = stmt.id
            /\ id # 0 /\ (\E t \in TableName : id = tables[t]) =>
                  /\ id = stmt.id
                  /\ c.val = Absent => /\ store[c.key] # Absent
                                       /\ \A m \in 1..(n - 1) : todo[m].key # c.key

TableInv == RowsHomed /\ OwnRows

=============================================================================
