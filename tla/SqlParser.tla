------------------------------ MODULE SqlParser ------------------------------
(***************************************************************************)
(* cpp/sql_parser.h: the recursive-descent parser, one action per token.   *)
(* place is where in the grammar the parser is: what it looks for next.    *)
(* The tokens are those of sql_tokenizer.h; of a literal only its type is  *)
(* kept.  Any token may come next, and the input ends with END_OF_INPUT    *)
(* and nothing after it, so that must never be taken.                      *)
(***************************************************************************)
EXTENDS Integers, SequencesExt

CONSTANTS
    Ident,       \* the identifiers
    MaxList      \* bound of the model: columns, values or assignments of a list

ASSUME ParserAssumption == MaxList \in Nat \ {0}

VARIABLES
    place,
    read,        \* the tokens taken so far
    stmt         \* the statement built from them

parserVars == <<place, read, stmt>>

Keyword ==
    {"CREATE", "TABLE", "INSERT", "INTO", "VALUES", "SELECT", "FROM", "WHERE", "AND", "BETWEEN",
     "INT", "TEXT", "EXPLAIN", "UPDATE", "SET", "DELETE", "ORDER", "BY", "ASC", "DESC", "LIMIT",
     "COUNT", "SUM", "INDEX", "ON"}
CompareOp == {"=", "<", ">", "<=", ">="}
Literal   == {"INT_LITERAL", "STRING_LITERAL"}
Token ==
    Keyword \cup Ident \cup Literal \cup CompareOp \cup {"(", ")", ",", ";", "*", "END_OF_INPUT"}

None == "none"

CreateTableStmt == [kind |-> "create table", table |-> None, columns |-> <<>>]
CreateIndexStmt == [kind |-> "create index", name |-> None, table |-> None, column |-> None]
InsertStmt      == [kind |-> "insert", table |-> None, values |-> <<>>]
UpdateStmt      == [kind |-> "update", table |-> None, assignments |-> <<>>, where |-> <<>>]
DeleteStmt      == [kind |-> "delete", table |-> None, where |-> <<>>]
SelectStmt(explain) ==
    [kind |-> "select", explain |-> explain, target |-> None, sum_column |-> None, table |-> None,
     where |-> <<>>, order_by |-> None, desc |-> FALSE, limit |-> None]

\* A WHERE clause is column, operator, literal and, for BETWEEN, a second literal.

-----------------------------------------------------------------------------
(* What becomes of a token at a place: the places and statements it leads  *)
(* to, none if the parser throws.                                          *)

Given(ok, to, s) == IF ok THEN {[place |-> to, stmt |-> s]} ELSE {}
Put(field, v)    == [stmt EXCEPT ![field] = v]
Add(field, v)    == [stmt EXCEPT ![field] = Append(@, v)]

\* A list goes on after a comma and ends with something else.
parse_statement(t) ==
    CASE place = "statement" ->
            Given(t = "EXPLAIN", "explain", stmt)
            \cup Given(t = "CREATE", "create", stmt)
            \cup Given(t = "INSERT", "insert", InsertStmt)
            \cup Given(t = "SELECT", "target", SelectStmt(FALSE))
            \cup Given(t = "UPDATE", "update", UpdateStmt)
            \cup Given(t = "DELETE", "delete", DeleteStmt)
      [] place = "explain" -> Given(t = "SELECT", "target", SelectStmt(TRUE))
      [] place = "create"  -> Given(t = "INDEX", "create index", CreateIndexStmt)
                              \cup Given(t = "TABLE", "create table", CreateTableStmt)
      [] OTHER -> {}

parse_create_table(t) ==
    CASE place = "create table" -> Given(t \in Ident, "columns (", Put("table", t))
      [] place = "columns ("    -> Given(t = "(", "column", stmt)
      [] place = "column"       -> Given(t \in Ident, "column type", Add("columns", <<t>>))
      [] place = "column type"  ->
            LET last == Len(stmt.columns)
            IN  Given(t \in {"INT", "TEXT"}, "columns )",
                      [stmt EXCEPT !.columns[last] = Append(@, t)])
      [] place = "columns )"    -> Given(t = ",", "column", stmt) \cup Given(t = ")", "end", stmt)
      [] OTHER -> {}

parse_create_index(t) ==
    CASE place = "create index" -> Given(t \in Ident, "on", Put("name", t))
      [] place = "on"           -> Given(t = "ON", "indexed table", stmt)
      [] place = "indexed table" -> Given(t \in Ident, "indexed (", Put("table", t))
      [] place = "indexed ("    -> Given(t = "(", "indexed column", stmt)
      [] place = "indexed column" -> Given(t \in Ident, "indexed )", Put("column", t))
      [] place = "indexed )"    -> Given(t = ")", "end", stmt)
      [] OTHER -> {}

parse_insert(t) ==
    CASE place = "insert"   -> Given(t = "INTO", "into", stmt)
      [] place = "into"     -> Given(t \in Ident, "values", Put("table", t))
      [] place = "values"   -> Given(t = "VALUES", "values (", stmt)
      [] place = "values (" -> Given(t = "(", "value", stmt)
      [] place = "value"    -> Given(t \in Literal, "values )", Add("values", t))
      [] place = "values )" -> Given(t = ",", "value", stmt) \cup Given(t = ")", "end", stmt)
      [] OTHER -> {}

parse_update(t) ==
    CASE place = "update"   -> Given(t \in Ident, "set", Put("table", t))
      [] place = "set"      -> Given(t = "SET", "assigned", stmt)
      [] place = "assigned" -> Given(t \in Ident, "assign =", Add("assignments", <<t>>))
      [] place = "assign =" -> Given(t = "=", "assign value", stmt)
      [] place = "assign value" ->
            LET last == Len(stmt.assignments)
            IN  Given(t \in Literal, "where?", [stmt EXCEPT !.assignments[last] = Append(@, t)])
      [] place = "where?"   -> Given(stmt.kind = "update" /\ t = ",", "assigned", stmt)
      [] OTHER -> {}

parse_delete(t) ==
    CASE place = "delete" -> Given(t = "FROM", "from", stmt)
      [] OTHER -> {}

parse_select(t) ==
    CASE place = "target"     -> Given(t = "*", "select from", Put("target", t))
                                 \cup Given(t = "COUNT", "count (", Put("target", t))
                                 \cup Given(t = "SUM", "sum (", Put("target", t))
      [] place = "count ("    -> Given(t = "(", "count *", stmt)
      [] place = "count *"    -> Given(t = "*", "count )", stmt)
      [] place = "count )"    -> Given(t = ")", "select from", stmt)
      [] place = "sum ("      -> Given(t = "(", "sum column", stmt)
      [] place = "sum column" -> Given(t \in Ident, "sum )", Put("sum_column", t))
      [] place = "sum )"      -> Given(t = ")", "select from", stmt)
      [] place = "select from" -> Given(t = "FROM", "from", stmt)
      [] place = "from"       -> Given(t \in Ident, "where?", Put("table", t))   \* DELETE's too
      [] place = "by"         -> Given(t = "BY", "order column", stmt)
      [] place = "order column" -> Given(t \in Ident, "desc?", Put("order_by", t))
      [] place = "desc?"      -> Given(t = "DESC", "limit?", Put("desc", TRUE))
                                 \cup Given(t = "ASC", "limit?", stmt)
      [] place = "limit"      -> Given(t = "INT_LITERAL", "end", Put("limit", t))
      [] OTHER -> {}

\* Broken: both bounds of BETWEEN go into the first.
WhereForgetsBound(t) ==
    CASE place = "where"     -> Given(t \in Ident, "operator", Add("where", t))
      [] place = "operator"  -> Given(t = "BETWEEN", "low", Add("where", t))
                                \cup Given(t \in CompareOp, "compared", Add("where", t))
      [] place = "compared"  -> Given(t \in Literal, "order?", Add("where", t))
      [] place = "low"       -> Given(t \in Literal, "and", Add("where", t))
      [] place = "and"       -> Given(t = "AND", "high", stmt)
      [] place = "high"      -> Given(t \in Literal, "order?", [stmt EXCEPT !.where[3] = t])
      [] OTHER -> {}

parse_where_clause(t) ==
    CASE place = "where"     -> Given(t \in Ident, "operator", Add("where", t))
      [] place = "operator"  -> Given(t = "BETWEEN", "low", Add("where", t))
                                \cup Given(t \in CompareOp, "compared", Add("where", t))
      [] place = "compared"  -> Given(t \in Literal, "order?", Add("where", t))
      [] place = "low"       -> Given(t \in Literal, "and", Add("where", t))
      [] place = "and"       -> Given(t = "AND", "high", stmt)
      [] place = "high"      -> Given(t \in Literal, "order?", Add("where", t))
      [] OTHER -> {}

\* The optional parts, each tried where the one before it is not there.
Optional == <<"where?", "order?", "desc?", "limit?", "end">>
MayBe(part) ==
    \E n \in DOMAIN Optional : place = Optional[n] /\ part \in ToSet(SubSeq(Optional, n, Len(Optional)))

\* Broken: LIMIT is looked for after ORDER BY only.
ClauseLimitLast(t) ==
    LET select == stmt.kind = "select"
    IN  Given(t = "WHERE" /\ MayBe("where?"), "where", stmt)
        \cup Given(t = "ORDER" /\ select /\ MayBe("order?"), "by", stmt)
        \cup Given(t = "LIMIT" /\ select /\ place \in {"desc?", "limit?"}, "limit", stmt)
        \cup Given(t = ";" /\ MayBe("end"), "done", stmt)

clause(t) ==
    LET select == stmt.kind = "select"
    IN  Given(t = "WHERE" /\ MayBe("where?"), "where", stmt)
        \cup Given(t = "ORDER" /\ select /\ MayBe("order?"), "by", stmt)
        \cup Given(t = "LIMIT" /\ select /\ MayBe("limit?"), "limit", stmt)
        \cup Given(t = ";" /\ MayBe("end"), "done", stmt)

Parsed(t) ==
    parse_statement(t) \cup parse_create_table(t) \cup parse_create_index(t) \cup parse_insert(t)
    \cup parse_update(t) \cup parse_delete(t) \cup parse_select(t) \cup parse_where_clause(t)
    \cup clause(t)

-----------------------------------------------------------------------------

ParserInit == place = "statement" /\ read = <<>> /\ stmt = [kind |-> "none"]

Parsing == place \notin {"done", "rejected"}

\* The input keeps lists short.
Offered(t) == t = "," => Len(SelectSeq(read, LAMBDA u : u = ",")) < MaxList - 1

\* advance()
Take(t) ==
    /\ Parsing
    /\ \E p \in Parsed(t) : place' = p.place /\ stmt' = p.stmt
    /\ read' = Append(read, t)

\* The statement ends before a token that is no part of it: nothing looks
\* whether that is the end of the input.
EndBefore(t) ==
    /\ Parsing /\ Parsed(t) = {} /\ MayBe("end")
    /\ place' = "done"
    /\ UNCHANGED <<read, stmt>>

Reject(t) ==
    /\ Parsing /\ Parsed(t) = {} /\ ~MayBe("end")
    /\ place' = "rejected"
    /\ UNCHANGED <<read, stmt>>

ParserNext == \E t \in Token : Offered(t) /\ (Take(t) \/ EndBefore(t) \/ Reject(t))

-----------------------------------------------------------------------------
(* How a statement is written.                                             *)

Commas(items) == FlattenSeq([n \in DOMAIN items |-> (IF n = 1 THEN <<>> ELSE <<",">>) \o items[n]])

When(ok, tokens) == IF ok THEN tokens ELSE <<>>

WrittenWhere(w) ==
    When(w # <<>>, <<"WHERE">> \o IF Len(w) = 4 THEN <<w[1], w[2], w[3], "AND", w[4]>> ELSE w)

Written(s) ==
    CASE s.kind = "create table" ->
            <<"CREATE", "TABLE", s.table, "(">> \o Commas(s.columns) \o <<")">>
      [] s.kind = "create index" ->
            <<"CREATE", "INDEX", s.name, "ON", s.table, "(", s.column, ")">>
      [] s.kind = "insert" ->
            <<"INSERT", "INTO", s.table, "VALUES", "(">>
            \o Commas([n \in DOMAIN s.values |-> <<s.values[n]>>]) \o <<")">>
      [] s.kind = "update" ->
            <<"UPDATE", s.table, "SET">>
            \o Commas([n \in DOMAIN s.assignments |->
                        <<s.assignments[n][1], "=", s.assignments[n][2]>>])
            \o WrittenWhere(s.where)
      [] s.kind = "delete" -> <<"DELETE", "FROM", s.table>> \o WrittenWhere(s.where)
      [] s.kind = "select" ->
            When(s.explain, <<"EXPLAIN">>) \o <<"SELECT">>
            \o (CASE s.target = "*"     -> <<"*">>
                  [] s.target = "COUNT" -> <<"COUNT", "(", "*", ")">>
                  [] s.target = "SUM"   -> <<"SUM", "(", s.sum_column, ")">>)
            \o <<"FROM", s.table>> \o WrittenWhere(s.where)
            \o When(s.order_by # None, <<"ORDER", "BY", s.order_by>> \o When(s.desc, <<"DESC">>))
            \o When(s.limit # None, <<"LIMIT", s.limit>>)

\* Whatever tokens come, the statement the parser returns says all it has read
\* and nothing else: no clause, literal or column is dropped, doubled or put in
\* another's place, and the end of the input is never taken.
WritesBack ==
    place = "done" =>
        Written(stmt) = SelectSeq(read, LAMBDA t : t \notin {"ASC", ";"})

=============================================================================
