----------------------------- MODULE LogReplay -----------------------------
(***************************************************************************)
(* What a log of writes says about a set of rows.  A row set is a function *)
(* from Key to Value or Absent; a log record is a key with the value it    *)
(* was given, Absent for a DELETE record (write_ahead_log.h: WalRecord).   *)
(***************************************************************************)
EXTENDS Naturals, Sequences

CONSTANTS Key, Value, Absent

ASSUME ReplayAssumption == Absent \notin Value

Content  == Value \cup {Absent}
Rows     == [Key -> Content]
NoRows   == [k \in Key |-> Absent]
LogEntry == [key : Key, val : Content]

\* Broken: the first record for a key decides.
DecidesFirst(log, i, k) ==
    /\ log[i].key = k
    /\ \A j \in 1..(i - 1) : log[j].key # k

\* Record i is the last one logged for key k.
Decides(log, i, k) ==
    /\ log[i].key = k
    /\ \A j \in (i + 1)..Len(log) : log[j].key # k

\* The rows once every record of the log has been applied to them: "the last
\* record logged for it decides whether the key exists and what it holds".
Recovered(rows, log) ==
    [k \in Key |->
        IF \E i \in DOMAIN log : Decides(log, i, k)
        THEN log[CHOOSE i \in DOMAIN log : Decides(log, i, k)].val
        ELSE rows[k]]

=============================================================================
