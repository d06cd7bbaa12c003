----------------------------- MODULE RowFormat -----------------------------
(***************************************************************************)
(* cpp/row_format.h: the bytes of a row.  A value is a tag and its bytes,  *)
(* or its length and that many bytes; a row is its values one after the    *)
(* other, with no count and no end mark.  ByteSpan, INT_BYTES and LEN_BYTES *)
(* are 256, 8 and 4 in the code.                                           *)
(***************************************************************************)
EXTENDS Integers, SequencesExt

CONSTANTS
    ByteSpan, INT_BYTES, LEN_BYTES,
    TextLimit                \* bound of the model: bytes of a text

ASSUME FormatAssumption ==
    /\ ByteSpan \in Nat \ {0, 1} /\ INT_BYTES \in Nat \ {0} /\ LEN_BYTES \in Nat \ {0}
    /\ TextLimit \in 0..(ByteSpan ^ LEN_BYTES - 1)

VARIABLES
    row,        \* the values that were encoded
    data,       \* what decode_row() is given: their bytes, or the first of them
    pos, values,
    decoding    \* "no", "yes", "done", or "truncated" when decode_row() has thrown

formatVars == <<row, data, pos, values, decoding>>

Byte     == 0..(ByteSpan - 1)
IntSpan  == ByteSpan ^ INT_BYTES
IntValue == (-(IntSpan \div 2))..(IntSpan \div 2 - 1)

MakeInt(n)  == [type |-> "INT64", int_val |-> n, text_val |-> <<>>]
MakeText(b) == [type |-> "TEXT", int_val |-> 0, text_val |-> b]

Values(type) ==
    IF type = "INT64" THEN {MakeInt(n) : n \in IntValue}
                      ELSE {MakeText(b) : b \in BoundedSeq(Byte, TextLimit)}

Tag == [INT64 |-> 0, TEXT |-> 1]

\* memcpy of a little-endian number, negative ones in two's complement.
BytesOf(n, width) == [i \in 1..width |-> (n \div ByteSpan ^ (i - 1)) % ByteSpan]
Unsigned(bytes)   == FoldRight(LAMBDA b, n : n * ByteSpan + b, bytes, 0)
Signed(bytes) ==
    LET n == Unsigned(bytes)
    IN  IF 2 * n < ByteSpan ^ Len(bytes) THEN n ELSE n - ByteSpan ^ Len(bytes)

encode_value(v) ==
    <<Tag[v.type]>> \o IF v.type = "INT64" THEN BytesOf(v.int_val, INT_BYTES)
                       ELSE BytesOf(Len(v.text_val), LEN_BYTES) \o v.text_val

encode_row(vs) == FlattenSeq([i \in DOMAIN vs |-> encode_value(vs[i])])

-----------------------------------------------------------------------------

FormatInit == row = <<>> /\ data = <<>> /\ pos = 0 /\ values = <<>> /\ decoding = "no"

\* A row is encoded; what is decoded later may be cut off anywhere.
Encode(vs) ==
    /\ decoding = "no"
    /\ row' = vs
    /\ \E n \in 0..Len(encode_row(vs)) : data' = SubSeq(encode_row(vs), 1, n)
    /\ pos' = 0 /\ values' = <<>> /\ decoding' = "yes"

Slice(from, n) == SubSeq(data, from + 1, from + n)
Fits(n)        == pos + n <= Len(data)
TextLen        == Unsigned(Slice(pos + 1, LEN_BYTES))

InValue == decoding = "yes" /\ pos < Len(data)
AtInt   == InValue /\ data[pos + 1] = Tag.INT64
AtText  == InValue /\ data[pos + 1] # Tag.INT64

Decoded(v, n) ==
    /\ values' = Append(values, v) /\ pos' = pos + n
    /\ UNCHANGED <<row, data, decoding>>

DecodeInt ==
    /\ AtInt /\ Fits(1 + INT_BYTES)
    /\ Decoded(MakeInt(Signed(Slice(pos + 1, INT_BYTES))), 1 + INT_BYTES)

\* Broken: the text is all that is left.
DecodeTextUnchecked ==
    /\ AtText /\ Fits(1 + LEN_BYTES)
    /\ Decoded(MakeText(SubSeq(data, pos + LEN_BYTES + 2,
                               Len(data))),
               1 + LEN_BYTES + TextLen)

DecodeText ==
    /\ AtText /\ Fits(1 + LEN_BYTES) /\ Fits(1 + LEN_BYTES + TextLen)
    /\ Decoded(MakeText(Slice(pos + 1 + LEN_BYTES, TextLen)), 1 + LEN_BYTES + TextLen)

Truncated ==
    /\ \/ AtInt /\ ~Fits(1 + INT_BYTES)
       \/ AtText /\ ~Fits(1 + LEN_BYTES)
       \/ AtText /\ Fits(1 + LEN_BYTES) /\ ~Fits(1 + LEN_BYTES + TextLen)
    /\ decoding' = "truncated"
    /\ UNCHANGED <<row, data, pos, values>>

DecodeEnd ==
    /\ decoding = "yes" /\ pos >= Len(data)
    /\ decoding' = "done"
    /\ UNCHANGED <<row, data, pos, values>>

DecodeNext == DecodeInt \/ DecodeText \/ Truncated \/ DecodeEnd

-----------------------------------------------------------------------------

\* decode_row() gives back exactly the values that were encoded, of whatever
\* types and lengths; of bytes that break off it gives the values that are
\* whole, and throws unless they break off between two values.
RowSurvives ==
    /\ IsPrefix(values, row)
    /\ decoding = "done"      => data = encode_row(values)
    /\ decoding = "truncated" => Len(data) < Len(encode_row(row))

=============================================================================
