------------------------------ MODULE SqlTable ------------------------------
(***************************************************************************)
(* What the executor promises about one table, without store keys, access  *)
(* paths or indexes: a statement is worked out, once, from the rows there  *)
(* are when it begins, and then makes its row writes one by one.  An error *)
(* or a crash leaves the writes made so far and never makes the others.    *)
(***************************************************************************)
EXTENDS SequencesExt, Ascending

CONSTANTS Pk, Absent

VARIABLES
    rows,     \* the rows a query sees, by primary key
    disk,     \* the rows a restart will find
    asked,    \* the UPDATE or DELETE not yet worked out, Absent otherwise
    left,     \* the row writes the statement has still to make
    cuts      \* how many statements an error or a crash has cut short

tableVars == <<rows, disk, asked, left, cuts>>

TableRow   == [id : Pk, a : Int]
Assignment == [id : Pk \cup {Absent}, a : Int \cup {Absent}]
Condition  ==
    [column : {"none", "id", "a"}, op : {"none", "=", "<", ">", "<=", ">=", "BETWEEN"},
     value : Int \cup {Absent}, value2 : Int \cup {Absent}]

Holds(row, where) ==
    CASE where.op = "none"    -> TRUE
      [] where.op = "="       -> row[where.column] = where.value
      [] where.op = "<"       -> row[where.column] < where.value
      [] where.op = ">"       -> row[where.column] > where.value
      [] where.op = "<="      -> ~(row[where.column] > where.value)
      [] where.op = ">="      -> ~(row[where.column] < where.value)
      [] where.op = "BETWEEN" -> row[where.column] \in where.value..where.value2

Write(pk, row) == [pk |-> pk, row |-> row]
Done(map, w)   == [map EXCEPT ![w.pk] = w.row]

\* The writes an UPDATE makes for a row: an assigned key moves it, even to the
\* key it has.
Updated(row, set) ==
    LET new == [id |-> IF set.id = Absent THEN row.id ELSE set.id,
                a  |-> IF set.a = Absent THEN row.a ELSE set.a]
    IN  (IF set.id = Absent THEN <<>> ELSE <<Write(row.id, Absent)>>) \o <<Write(new.id, new)>>

WritesOf(s) ==
    LET hit    == {p \in Pk : rows[p] # Absent /\ Holds(rows[p], s.where)}
        order  == Ascending(hit)
        own(p) == IF s.kind = "delete" THEN <<Write(p, Absent)>> ELSE Updated(rows[p], s.set)
    IN  FlattenSeq([n \in DOMAIN order |-> own(order[n])])

TableInit ==
    /\ rows = [p \in Pk |-> Absent] /\ disk = rows
    /\ asked = Absent /\ left = <<>> /\ cuts = 0

Ask ==
    /\ asked = Absent /\ left = <<>>
    /\ asked' \in [kind : {"update", "delete"}, set : Assignment, where : Condition]
    /\ UNCHANGED <<rows, disk, left, cuts>>

WorkOut ==
    /\ asked # Absent
    /\ left' = WritesOf(asked) /\ asked' = Absent
    /\ UNCHANGED <<rows, disk, cuts>>

Insert ==
    /\ asked = Absent /\ left = <<>>
    /\ Len(left') = 1
    /\ left'[1].row \in TableRow /\ left'[1].pk = left'[1].row.id
    /\ UNCHANGED <<rows, disk, asked, cuts>>

MakeWrite ==
    /\ left # <<>> /\ left' = Tail(left)
    /\ rows' = Done(rows, Head(left)) /\ disk' = Done(disk, Head(left))
    /\ UNCHANGED <<asked, cuts>>

\* The write that fails may have got to the disk, or further.
Fail ==
    /\ left' = <<>> /\ asked' = Absent /\ cuts' = cuts + 1
    /\ \/ UNCHANGED <<rows, disk>>
       \/ /\ left # <<>>
          /\ disk' = Done(disk, Head(left))
          /\ rows' \in {rows, Done(rows, Head(left))}

\* Writes that are not made belong to a statement that was cut short.
Restart ==
    /\ left' = <<>> /\ asked' = Absent
    /\ cuts' \in {cuts, cuts + 1}
    /\ left # <<>> \/ asked # Absent => cuts' = cuts + 1
    /\ disk' \in {disk} \cup IF left = <<>> THEN {} ELSE {Done(disk, Head(left))}
    /\ rows' = disk'

Flush == disk' = rows /\ UNCHANGED <<rows, asked, left, cuts>>

TableNext == MakeWrite \/ WorkOut \/ Ask \/ Insert \/ Fail \/ Restart \/ Flush

TableSpec == TableInit /\ [][TableNext]_tableVars

=============================================================================
