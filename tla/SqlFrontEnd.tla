----------------------------- MODULE SqlFrontEnd -----------------------------
(***************************************************************************)
(* From the tokens of a statement to the bytes of a row: what the parser   *)
(* makes of an INSERT is encoded, and decoded again when the row is read.  *)
(***************************************************************************)
EXTENDS SqlParser, RowFormat

CONSTANT Statement      \* the statements the parser is asked to understand

frontVars == <<parserVars, formatVars>>

TypeOf(literal) == IF literal = "INT_LITERAL" THEN "INT64" ELSE "TEXT"

\* The values of the literals, of any of the values of their types.
EncodeInserted ==
    /\ place = "done" /\ stmt.kind = "insert"
    /\ \E first \in Values(TypeOf(stmt.values[1])) :
        IF Len(stmt.values) = 1 THEN Encode(<<first>>)
        ELSE \E second \in Values(TypeOf(stmt.values[2])) : Encode(<<first, second>>)
    /\ UNCHANGED parserVars

FrontInit == ParserInit /\ FormatInit

FrontNext ==
    \/ ParserNext /\ UNCHANGED formatVars
    \/ EncodeInserted
    \/ DecodeNext /\ UNCHANGED parserVars

FrontSpec == FrontInit /\ [][FrontNext]_frontVars

\* Every statement of the grammar is understood, with any of its optional parts
\* and at whatever length of its lists: no token of it is refused, and after its
\* last one the parser may stop.
Understood ==
    \A s \in Statement :
        LET text == Written(s)
        IN  Parsing /\ IsPrefix(read, text) =>
                IF read = text THEN MayBe("end") ELSE Parsed(text[Len(read) + 1]) # {}

=============================================================================
