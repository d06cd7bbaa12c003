------------------------------ MODULE TableKey ------------------------------
(***************************************************************************)
(* cpp/table_key.h: how table ids, primary keys and indexed values share   *)
(* one 64-bit key.  The spans are 2 to the number of bits of each field:   *)
(* 2^16 tables, 2^48 primary keys, 2^20 indexed values, 2^28 primary keys  *)
(* of tables with an index.  Masking with 2^n - 1 is the remainder by 2^n. *)
(***************************************************************************)
EXTENDS Integers

CONSTANTS TableSpan, KeySpan, ValueSpan, PkSpan

ASSUME SpanAssumption ==
    /\ TableSpan \in Nat \ {0} /\ KeySpan \in Nat \ {0}
    /\ ValueSpan \in Nat \ {0} /\ PkSpan \in Nat \ {0}
    /\ KeySpan = ValueSpan * PkSpan

PRIMARY_KEY_MASK     == KeySpan - 1
SECONDARY_VALUE_MASK == ValueSpan - 1
SECONDARY_PK_MASK    == PkSpan - 1

\* Shifted past the sign bit, the upper half of the table ids comes out negative.
pack_key(table_id, primary_key) ==
    LET id == table_id % TableSpan
    IN  (IF 2 * id < TableSpan THEN id ELSE id - TableSpan) * KeySpan + (primary_key % KeySpan)

unpack_table_id(packed) == (packed \div KeySpan) % TableSpan

unpack_primary_key(packed) == packed % KeySpan

pack_secondary_composite(value, primary_key) ==
    (value % ValueSpan) * PkSpan + (primary_key % PkSpan)

unpack_secondary_pk(composite) == composite % PkSpan

=============================================================================
