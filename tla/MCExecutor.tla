----------------------------- MODULE MCExecutor -----------------------------
(***************************************************************************)
(* Small instances of Executor: primary keys of 3 bits, of which an index  *)
(* keeps 2, and indexed values of 1 bit.  The literals are on both sides   *)
(* of every limit.                                                         *)
(***************************************************************************)
EXTENDS ExecutorRefinement

On(columns, values) ==
    [column : columns, op : CompareOp \ {"BETWEEN"}, value : values, value2 : {Absent}]
    \cup [column : columns, op : {"BETWEEN"}, value : values, value2 : values]

Ids  == {-1, 0, 2, 4, 8, Text}
Vals == {-1, 0, 1, Text}

Sets ==
    [id : Ids, a : {Absent}] \cup [id : {Absent}, a : Vals] \cup [id : {2, 4}, a : {1}]

Inputs ==
    {NoWhere} \cup [column : {"id"}, op : {"="}, value : {4, 8}, value2 : {Absent}]
    \cup [column : {"id"}, op : {"BETWEEN"}, value : {-1}, value2 : {2}]
    \cup [column : {"a"}, op : {"=", ">="}, value : {0}, value2 : {Absent}]

Asked == {NoWhere} \cup On({"id"}, {-1, 0, 1, 2, 4, 7, 8}) \cup On({"a"}, {-1, 0, 1, 2})

Queries ==
    [target : {"*", "COUNT(*)", "SUM"}, column : {"a"},
     where : {NoWhere, [column |-> "a", op |-> "=", value |-> 0, value2 |-> Absent]},
     order : {Absent} \cup [column : {"id", "a"}, desc : BOOLEAN],
     limit : {Absent, -1, 0, 1, 2}, explain : {FALSE}]
    \cup
    [target : {"*", "SUM"}, column : {"b"},
     where : {NoWhere} \cup [column : {"id", "a", "b"}, op : {"="}, value : {1, Text}, value2 : {Absent}],
     order : {Absent, [column |-> "b", desc |-> FALSE]},
     limit : {Absent, 1}, explain : BOOLEAN]

TwoIds        == {0, 1}
IndexableVals == {0, 1}
MoveToOne     == [id : {1}, a : {Absent}]
EveryRow      == {NoWhere}

=============================================================================
