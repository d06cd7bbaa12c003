----------------------------- MODULE MCFrontEnd -----------------------------
(***************************************************************************)
(* A small instance of SqlFrontEnd: two identifiers, lists of two, bytes   *)
(* of two bits, integers of two bytes and texts of up to two.              *)
(***************************************************************************)
EXTENDS SqlFrontEnd

Names  == {"x", "y"}
Wheres ==
    {<<>>} \cup {<<"y", op, "INT_LITERAL">> : op \in CompareOp}
    \cup {<<"y", "BETWEEN", "INT_LITERAL", v>> : v \in Literal}

UpTo(set) == BoundedSeq(set, MaxList) \ {<<>>}

Statements ==
    [kind : {"create table"}, table : {"x"}, columns : UpTo({"x", "y"} \X {"INT", "TEXT"})]
    \cup [kind : {"create index"}, name : {"y"}, table : {"x"}, column : {"y"}]
    \cup [kind : {"insert"}, table : {"x"}, values : UpTo(Literal)]
    \cup [kind : {"update"}, table : {"x"}, assignments : UpTo({"y"} \X Literal), where : Wheres]
    \cup [kind : {"delete"}, table : {"x"}, where : Wheres]
    \cup [kind : {"select"}, explain : BOOLEAN, target : {"*", "COUNT", "SUM"}, sum_column : {"y"},
          table : {"x"}, where : Wheres, order_by : {None, "y"}, desc : BOOLEAN,
          limit : {None, "INT_LITERAL"}]

=============================================================================
