------------------------- MODULE DurableStoreProofs -------------------------
(***************************************************************************)
(* Theorems about DurableStore and the log in it, for every set of keys    *)
(* and values, every sync_every and checkpoint_every, and logs of every    *)
(* length: the log by itself first, and then the store.                    *)
(***************************************************************************)
EXTENDS DurableStore, LogReplayProofs

-----------------------------------------------------------------------------
(* The log: its system calls.                                              *)

\* What the disk may have of the cells is a file of cells.
LEMMA FlushedType ==
    ASSUME LogTypeOK
    PROVE  Flushed \subseteq Seq(Cell)
<1>0. /\ cells \in Seq(Cell) /\ durable \in 0..Len(cells) /\ Len(cells) \in Nat
      /\ Damaged \in Cell
    BY LenProperties DEF LogTypeOK, Cell
<1>1. ASSUME NEW n \in durable..Len(cells)
      PROVE  Prefix(n) \in Seq(Cell) /\ Append(Prefix(n), Damaged) \in Seq(Cell)
  <2>1. \A i \in 1..n : cells[i] \in Cell
      BY <1>0, ElementOfSeq
  <2> QED
      BY <1>0, <2>1, SubSeqProperties, AppendProperties DEF Prefix
<1>2. durable..(Len(cells) - 1) \subseteq durable..Len(cells)
    BY <1>0
<1> QED
    BY <1>1, <1>2 DEF Flushed

\* Cutting or padding the file keeps its first cells, and a power loss can only
\* bring back what the disk may already have.
LEMMA FtruncateEffect ==
    ASSUME LogTypeOK, NEW n \in Nat, Ftruncate(n)
    PROVE  /\ cells' \in Seq(Cell) /\ Len(cells') = n
           /\ \A i \in 1..n : cells'[i] = IF i <= Len(cells) THEN cells[i] ELSE Damaged
           /\ durable' \in 0..n /\ durable' = IF n < durable THEN n ELSE durable
           /\ stale' \subseteq Seq(Cell)
           /\ header' = header /\ anchored' = anchored
<1>0. cells \in Seq(Cell) /\ durable \in 0..Len(cells) /\ Len(cells) \in Nat
    BY LenProperties DEF LogTypeOK
<1>1. \A i \in 1..n : (IF i <= Len(cells) THEN cells[i] ELSE Damaged) \in Cell
    BY <1>0, ElementOfSeq DEF Cell
<1>2. [i \in 1..n |-> IF i <= Len(cells) THEN cells[i] ELSE Damaged] \in Seq(Cell)
    BY <1>1
<1>3. cells' \in Seq(Cell) /\ Len(cells') = n
    BY <1>0, <1>2 DEF Ftruncate
<1>4. stale' \subseteq Seq(Cell)
    BY FlushedType DEF Ftruncate, LogTypeOK
<1> QED
    BY <1>0, <1>3, <1>4 DEF Ftruncate

\* The cut of the damaged tail leaves records only.
LEMMA ValidEndIsClean ==
    ASSUME LogTypeOK, NEW n \in Nat, IsValidEnd(n), Ftruncate(n)
    PROVE  /\ n <= Len(cells) /\ Clean(n)' /\ Len(cells') = n
           /\ \A i \in Nat : Clean(i) => i <= n /\ Clean(i)'
<1>0. cells \in Seq(Cell) /\ Len(cells) \in Nat
    BY LenProperties DEF LogTypeOK
<1>1. /\ n <= Len(cells) /\ \A j \in 1..n : cells[j] # Damaged
      /\ n < Len(cells) => cells[n + 1] = Damaged
    BY <1>0 DEF IsValidEnd, Clean
<1>2. Len(cells') = n /\ \A j \in 1..n : cells'[j] = cells[j]
    BY <1>0, <1>1, FtruncateEffect
<1>3. \A i \in Nat : Clean(i) => i <= n
    BY <1>0, <1>1 DEF Clean
<1>4. \A i \in Nat : i <= n => Clean(i)'
    BY <1>0, <1>1, <1>2 DEF Clean
<1> QED
    BY <1>1, <1>2, <1>3, <1>4

\* What a power loss leaves agrees with the cells on what was fsync'd.
LEMMA SurvivorsAgree ==
    ASSUME LogTypeOK, StaleAgrees, NEW c \in Survivors
    PROVE  /\ c \in Seq(Cell) /\ durable <= Len(c)
           /\ \A j \in 1..durable : c[j] = cells[j]
<1>0. /\ cells \in Seq(Cell) /\ durable \in 0..Len(cells) /\ Len(cells) \in Nat
      /\ Damaged \in Cell
    BY LenProperties DEF LogTypeOK, Cell
<1>1. CASE c \in stale
    BY <1>1 DEF StaleAgrees, LogTypeOK
<1>2. CASE c \in InFlight
    BY <1>0, <1>2, AppendProperties DEF InFlight
<1>3. ASSUME NEW n \in durable..Len(cells)
      PROVE  /\ Prefix(n) \in Seq(Cell) /\ Len(Prefix(n)) = n
             /\ \A j \in 1..n : Prefix(n)[j] = cells[j]
  <2>1. \A i \in 1..n : cells[i] \in Cell
      BY <1>0, ElementOfSeq
  <2> QED
      BY <1>0, <2>1, SubSeqProperties DEF Prefix
<1>4. CASE c \in {Prefix(n) : n \in durable..Len(cells)}
    BY <1>0, <1>3, <1>4
<1>5. CASE c \in {Append(Prefix(n), Damaged) : n \in durable..(Len(cells) - 1)}
  <2>1. PICK n \in durable..(Len(cells) - 1) : c = Append(Prefix(n), Damaged)
      BY <1>5
  <2>2. n \in durable..Len(cells)
      BY <1>0
  <2> QED
      BY <1>0, <1>3, <2>1, <2>2, AppendProperties
<1> QED
    BY <1>1, <1>2, <1>4, <1>5 DEF Survivors, Flushed

\* Cutting the file leaves it agreeing with every older version of itself.
LEMMA CutKeepsStale ==
    ASSUME LogTypeOK, StaleAgrees, NEW n \in Nat, Ftruncate(n)
    PROVE  StaleAgrees'
<1>0. /\ cells \in Seq(Cell) /\ durable \in 0..Len(cells) /\ Len(cells) \in Nat
    BY LenProperties DEF LogTypeOK
<1>1. /\ durable' = (IF n < durable THEN n ELSE durable) /\ durable' \in Nat
      /\ durable' <= durable
      /\ \A j \in 1..durable' : cells'[j] = cells[j]
    BY <1>0, FtruncateEffect
<1>2. SUFFICES ASSUME NEW s \in stale'
               PROVE  durable' <= Len(s) /\ \A j \in 1..durable' : s[j] = cells'[j]
    BY DEF StaleAgrees
<1>3. CASE s \in stale
  <2>1. s \in Seq(Cell) /\ Len(s) \in Nat
      BY <1>3, LenProperties DEF LogTypeOK
  <2>2. durable <= Len(s) /\ \A j \in 1..durable : s[j] = cells[j]
      BY <1>3 DEF StaleAgrees
  <2> QED
      BY <1>0, <1>1, <2>1, <2>2
<1>4. CASE s \in Flushed
  <2>1. s \in Seq(Cell) /\ durable <= Len(s) /\ \A j \in 1..durable : s[j] = cells[j]
      BY <1>4, SurvivorsAgree DEF Survivors
  <2>2. Len(s) \in Nat
      BY <2>1, LenProperties
  <2> QED
      BY <1>0, <1>1, <2>1, <2>2
<1> QED
    BY <1>3, <1>4 DEF Ftruncate

-----------------------------------------------------------------------------
(* The log: types.                                                         *)

\* What a power loss leaves is a file of cells.
LEMMA SurvivorsType ==
    ASSUME LogTypeOK
    PROVE  Survivors \subseteq Seq(Cell)
<1>0. /\ cells \in Seq(Cell) /\ durable \in 0..Len(cells) /\ Len(cells) \in Nat
      /\ Damaged \in Cell
    BY LenProperties DEF LogTypeOK, Cell
<1>1. InFlight \subseteq Seq(Cell)
    BY <1>0, AppendProperties DEF InFlight
<1> QED
    BY <1>1, FlushedType DEF Survivors, LogTypeOK

\* Every system call, and everything that can happen between two of them, keeps
\* the types of the log's variables.
LEMMA LogTypeStep ==
    ASSUME LogTypeOK, [LogNext]_logVars
    PROVE  LogTypeOK'
<1>0. /\ cells \in Seq(Cell) /\ durable \in 0..Len(cells) /\ Len(cells) \in Nat
      /\ Damaged \in Cell /\ 0 \in Nat /\ SyncEvery \in Nat
    BY LenProperties, LogAssumption DEF LogTypeOK, Cell
<1> USE DEF fileVars
<1>1. ASSUME Fsync
      PROVE  /\ header' = header /\ cells' = cells /\ durable' \in 0..Len(cells')
             /\ stale' \subseteq Seq(Cell) /\ anchored' \subseteq {"header", "entry"}
    BY <1>0, <1>1 DEF Fsync, LogTypeOK
<1>2. \A c \in InFlight : c \in Seq(Cell) /\ durable \in 0..Len(c)
    BY <1>0, AppendProperties DEF InFlight
<1>22. ASSUME NEW n \in Nat, Ftruncate(n)
       PROVE  /\ cells' \in Seq(Cell) /\ durable' \in 0..Len(cells')
              /\ stale' \subseteq Seq(Cell) /\ header' = header /\ anchored' = anchored
    BY <1>22, FtruncateEffect
<1>3. CASE RefuseForeign
    BY <1>3 DEF RefuseForeign, FailOpen, LogTypeOK
<1>4. CASE OpenFresh
    BY <1>4 DEF OpenFresh, FailOpen, LogTypeOK
<1>5. CASE CreateHeader
    BY <1>5 DEF CreateHeader, FailOpen, LogTypeOK
<1>6. CASE CreateFsync
    BY <1>1, <1>6 DEF CreateFsync, FailOpen, LogTypeOK
<1>7. CASE CreateDirSync
    BY <1>7 DEF CreateDirSync, Opened, Return, LogTypeOK
<1>8. CASE OpenIntact
    BY <1>0, <1>8 DEF OpenIntact, Opened, Return, LogTypeOK
<1>9. CASE OpenDamaged
  <2>1. CASE FailOpen /\ UNCHANGED fileVars
      BY <2>1 DEF FailOpen, LogTypeOK
  <2>2. CASE /\ \E n \in 0..Len(cells) : IsValidEnd(n) /\ Ftruncate(n)
             /\ pc' = "cut_fsync" /\ reply' = "none"
             /\ UNCHANGED <<size, unsynced, acked, base>>
    <3>1. PICK n \in 0..Len(cells) : Ftruncate(n)
        BY <2>2
    <3>2. n \in Nat
        BY <1>0
    <3> QED
        BY <1>22, <2>2, <3>1, <3>2 DEF LogTypeOK
  <2> QED
      BY <1>9, <2>1, <2>2 DEF OpenDamaged
<1>10. CASE CutFsync
    BY <1>0, <1>1, <1>10 DEF CutFsync, FailOpen, Opened, Return, LogTypeOK
<1>11. ASSUME NEW r \in Record, WriteRecord(r)
       PROVE  LogTypeOK'
  <2>1. r \in Cell
      BY DEF Cell
  <2>2. cells' \in Seq(Cell) /\ Len(cells') = Len(cells) + 1
      BY <1>0, <1>11, <2>1, AppendProperties DEF WriteRecord
  <2>3. durable' \in 0..Len(cells')
      BY <1>0, <1>11, <2>2 DEF WriteRecord
  <2>4. /\ pc' \in {"open", "append_fsync"} /\ reply' \in {"none", "ok"}
        /\ acked' \in {acked, acked \cup {Len(cells) + 1}}
      BY <1>11 DEF WriteRecord, Return
  <2>5. size' \in Nat /\ unsynced' \in Nat
      BY <1>11 DEF WriteRecord, LogTypeOK
  <2> QED
      BY <1>0, <1>11, <2>2, <2>3, <2>4, <2>5 DEF WriteRecord, LogTypeOK
<1>12. CASE AppendFsync
    BY <1>0, <1>1, <1>12 DEF AppendFsync, Return, LogTypeOK
<1>13. CASE WriteFails
    BY <1>0, <1>13, AppendProperties DEF WriteFails, LogTypeOK
<1>14. CASE UndoWrite
  <2>1. size \in Nat
      BY DEF LogTypeOK
  <2> QED
      BY <1>22, <1>14, <2>1 DEF UndoWrite, Return, LogTypeOK
<1>15. CASE SyncLog
  <2>1. CASE Fsync
      BY <1>1, <1>15, <2>1 DEF SyncLog, Return, LogTypeOK
  <2>2. CASE UNCHANGED fileVars
      BY <1>15, <2>2 DEF SyncLog, Return, LogTypeOK
  <2> QED
      BY <1>15, <2>1, <2>2 DEF SyncLog
<1>16. CASE ResetTruncate
    BY <1>0, <1>22, <1>16 DEF ResetTruncate, Return, LogTypeOK
<1>17. CASE ResetFsync
  <2>1. CASE Fsync
      BY <1>1, <1>17, <2>1 DEF ResetFsync, Return, LogTypeOK
  <2>2. CASE UNCHANGED fileVars
      BY <1>17, <2>2 DEF ResetFsync, Return, LogTypeOK
  <2> QED
      BY <1>17, <2>1, <2>2 DEF ResetFsync
<1>18. CASE CloseLog
    BY <1>1, <1>18 DEF CloseLog, Forget, LogTypeOK
<1>19. CASE Crash
    BY <1>2, <1>19 DEF Crash, Forget, LogTypeOK
<1>20. CASE PowerLoss
  <2>1. cells' \in Seq(Cell)
      BY <1>20, SurvivorsType, EmptySeq DEF PowerLoss
  <2>2. header' \in {"none", "short", "whole", "foreign"}
      BY <1>20 DEF PowerLoss, LogTypeOK
  <2>3. durable' \in 0..Len(cells')
      BY <1>20, <2>1, LenProperties DEF PowerLoss
  <2>4. stale' \subseteq Seq(Cell) /\ anchored' \subseteq {"header", "entry"}
      BY <1>20 DEF PowerLoss
  <2> QED
      BY <1>0, <1>20, <2>1, <2>2, <2>3, <2>4 DEF PowerLoss, Forget, LogTypeOK
<1>21. CASE UNCHANGED logVars
    BY <1>21 DEF logVars, LogTypeOK
<1> QED
    BY <1>3, <1>4, <1>5, <1>6, <1>7, <1>8, <1>9, <1>10, <1>11, <1>12, <1>13, <1>14,
       <1>15, <1>16, <1>17, <1>18, <1>19, <1>20, <1>21 DEF LogNext, OpenStep

\* Every variable of the log keeps its type: in particular what is known to be
\* on the disk is never more than what the file holds.
THEOREM LogTypeCorrect == LogSpec => []LogTypeOK
<1>1. LogInit => LogTypeOK
    BY EmptySeq DEF LogInit, LogTypeOK
<1>2. LogTypeOK /\ [LogNext]_logVars => LogTypeOK'
    BY LogTypeStep
<1> QED
    BY <1>1, <1>2, PTL DEF LogSpec

-----------------------------------------------------------------------------
(* The log: the invariant.                                                 *)

\* The inductive step: no append, undo, reset, recovery or crash puts a bad cell in
\* front of an acknowledged record.
LEMMA LogInvariantStep ==
    ASSUME LogTypeOK, LogInvariant, SafeFaults, SafeEntry, [LogNext]_logVars
    PROVE  LogInvariant'
<1>0. /\ cells \in Seq(Cell) /\ durable \in 0..Len(cells) /\ Len(cells) \in Nat
      /\ acked \subseteq Nat /\ size \in Nat
      /\ Damaged \in Cell /\ Damaged \notin Record /\ Record \subseteq Cell
    BY LenProperties, LogAssumption DEF LogTypeOK, Cell
<1>1. cells = <<>> => Len(cells) = 0 /\ durable = 0
    BY <1>0, EmptySeq
<1> USE DEF LogInvariant, AckedReadable, Clean, OpenClean,
            HeaderFirst, AnchorFirst, StaleAgrees, UndoExact
<1>3. CASE RefuseForeign
    BY <1>3 DEF RefuseForeign, FailOpen, fileVars
<1>4. CASE OpenFresh
    BY <1>0, <1>1, <1>4 DEF OpenFresh, FailOpen
<1>5. CASE CreateHeader
    BY <1>0, <1>1, <1>5 DEF CreateHeader, FailOpen
<1>6. CASE CreateFsync
    BY <1>0, <1>1, <1>6 DEF CreateFsync, Fsync, FailOpen, fileVars, SafeEntry
<1>7. CASE CreateDirSync
    BY <1>0, <1>1, <1>7 DEF CreateDirSync, Opened, Return, SafeEntry
<1>8. CASE OpenIntact
    BY <1>0, <1>8 DEF OpenIntact, IsValidEnd, Opened, Return, fileVars
<1>9. CASE OpenDamaged
  <2>1. CASE FailOpen /\ UNCHANGED fileVars
      BY <1>9, <2>1 DEF FailOpen, fileVars, OpenDamaged
  <2>2. ASSUME NEW n \in 0..Len(cells), IsValidEnd(n), Ftruncate(n),
               pc' = "cut_fsync", UNCHANGED <<size, unsynced, acked, base>>
        PROVE  LogInvariant'
    <3>1. n \in Nat /\ 0 \in Nat
        BY <1>0
    <3>2. /\ Clean(Len(cells))'
          /\ \A i \in Nat : Clean(i) => i <= n /\ Clean(i)'
        BY <2>2, <3>1, ValidEndIsClean
    <3>3. AckedReadable'
        BY <1>0, <2>2, <3>2
    <3>4. /\ Len(cells') = n /\ durable' = IF n < durable THEN n ELSE durable
          /\ \A i \in 1..n : cells'[i] = cells[i]
          /\ header' = header /\ anchored' = anchored
        BY <1>0, <2>2, <3>1, FtruncateEffect
    <3>5. StaleAgrees'
        BY <1>0, <2>2, <3>1, <3>4, CutKeepsStale
    <3>6. HeaderFirst' /\ AnchorFirst'
        BY <1>0, <1>9, <2>2, <3>4 DEF OpenDamaged
    <3> QED
        BY <2>2, <3>2, <3>3, <3>5, <3>6
  <2> QED
      BY <1>9, <2>1, <2>2 DEF OpenDamaged
<1>10. CASE CutFsync
    BY <1>0, <1>10 DEF CutFsync, Fsync, FailOpen, Opened, Return, fileVars
<1>11. ASSUME NEW r \in Record, WriteRecord(r)
       PROVE  LogInvariant'
  <2>1. /\ Len(cells') = Len(cells) + 1
        /\ \A i \in 1..Len(cells) : cells'[i] = cells[i]
        /\ cells'[Len(cells) + 1] # Damaged
      BY <1>0, <1>11, AppendProperties DEF WriteRecord
  <2>2. \A i \in 0..(Len(cells) + 1) : Clean(i)'
      BY <1>0, <1>11, <2>1 DEF WriteRecord
  <2>3. AckedReadable'
    <3>1. acked' \subseteq acked \cup {Len(cells) + 1}
        BY <1>11 DEF WriteRecord, Return
    <3>2. \A i \in acked : i \in 0..Len(cells)
        BY <1>0
    <3>3. \A i \in acked' : i \in 0..(Len(cells) + 1)
        BY <1>0, <3>1, <3>2
    <3> QED
        BY <2>2, <3>3
  <2>4. StaleAgrees'
      BY <1>0, <1>11, <2>1 DEF WriteRecord
  <2>5. HeaderFirst' /\ AnchorFirst' /\ UndoExact'
      BY <1>0, <1>11, <2>1 DEF WriteRecord, Return
  <2>6. pc' # "cut_fsync" /\ OpenClean'
      BY <1>0, <1>11, <2>1, <2>2 DEF WriteRecord, Return
  <2> QED
      BY <2>3, <2>4, <2>5, <2>6
<1>12. CASE AppendFsync
    BY <1>0, <1>12 DEF AppendFsync, Fsync, Return
<1>13. CASE WriteFails
  <2>1. /\ pc = "open" /\ "write" \in Faults /\ pc' = "undo"
        /\ cells' = cells \/ cells' = Append(cells, Damaged)
        /\ header' = header /\ anchored' = anchored /\ durable' = durable
        /\ stale' = stale /\ size' = size /\ acked' = acked
      BY <1>13 DEF WriteFails
  <2>2. /\ Len(cells') \in Nat /\ Len(cells) <= Len(cells')
        /\ \A i \in 1..Len(cells) : cells'[i] = cells[i]
      BY <1>0, <2>1, AppendProperties
  <2>3. \A n \in Nat : Clean(n) => Clean(n)'
      BY <1>0, <2>2
  <2>4. AckedReadable' /\ OpenClean'
      BY <1>0, <2>1, <2>3
  <2>5. HeaderFirst'
      BY <2>1
  <2>6. AnchorFirst'
      BY <2>1
  <2>7. StaleAgrees'
      BY <1>0, <2>1, <2>2
  <2>8. size = Len(cells) /\ Clean(size)
      BY <2>1
  <2>9. \A i \in acked : i <= size
      BY <2>8
  <2>10. UndoExact'
      BY <1>0, <2>1, <2>3, <2>8, <2>9
  <2> QED
      BY <2>1, <2>4, <2>5, <2>6, <2>7, <2>10
<1>14. CASE UndoWrite
  <2>1. Ftruncate(size) /\ Clean(size) /\ size <= Len(cells) /\ durable <= size
      BY <1>14 DEF UndoWrite, SafeFaults
  <2>2. /\ Len(cells') = size /\ durable' = durable
        /\ \A i \in 1..size : cells'[i] = cells[i]
        /\ header' = header /\ anchored' = anchored
      BY <1>0, <2>1, FtruncateEffect
  <2>3. AckedReadable' /\ OpenClean' /\ pc' = "open"
      BY <1>0, <1>14, <2>1, <2>2 DEF UndoWrite, Return
  <2>4. StaleAgrees'
      BY <1>0, <2>1, <2>2, CutKeepsStale
  <2>5. HeaderFirst' /\ AnchorFirst' /\ UndoExact'
      BY <1>0, <1>14, <2>2 DEF UndoWrite, Return
  <2> QED
      BY <2>3, <2>4, <2>5
<1>15. CASE SyncLog
    BY <1>0, <1>15 DEF SyncLog, Fsync, Return, fileVars
<1>16. CASE ResetTruncate
  <2>1. CASE UNCHANGED fileVars /\ Return("failed") /\ UNCHANGED acked
      BY <1>16, <2>1 DEF ResetTruncate, Return, fileVars
  <2>2. CASE Ftruncate(0) /\ pc' = "reset_fsync" /\ acked' = {}
    <3>1. /\ cells' = <<>> /\ durable' = 0
          /\ header' = header /\ anchored' = anchored
        BY <1>0, <2>2, FtruncateEffect, EmptySeq
    <3>2. StaleAgrees'
        BY <1>0, <2>2, CutKeepsStale
    <3>3. HeaderFirst' /\ AnchorFirst' /\ UndoExact'
        BY <1>16, <2>2, <3>1 DEF ResetTruncate
    <3> QED
        BY <2>2, <3>2, <3>3
  <2> QED
      BY <1>16, <2>1, <2>2 DEF ResetTruncate
<1>17. CASE ResetFsync
    BY <1>0, <1>1, <1>17 DEF ResetFsync, Fsync, Return, fileVars, SafeFaults
<1>18. CASE CloseLog
    BY <1>0, <1>18 DEF CloseLog, Forget, Fsync, fileVars
<1>19. CASE Crash
  <2>1. /\ Len(cells) <= Len(cells')
        /\ \A i \in 1..Len(cells) : cells'[i] = cells[i]
      BY <1>0, <1>19, AppendProperties DEF Crash, InFlight
  <2>2. /\ pc' = "closed" /\ UNCHANGED <<durable, stale, anchored, acked>>
        /\ header' = header \/ pc = "create_write"
        /\ pc # "open" => cells' = cells
      BY <1>19 DEF Crash, Forget, InFlight
  <2>3. HeaderFirst' /\ AnchorFirst'
      BY <1>0, <1>19, <2>2 DEF Crash, SafeEntry
  <2>4. AckedReadable'
      BY <1>0, <2>1, <2>2
  <2>5. StaleAgrees'
      BY <1>0, <2>1, <2>2
  <2> QED
      BY <2>2, <2>3, <2>4, <2>5
<1>20. CASE PowerLoss
  <2>1. /\ pc' = "closed" /\ stale' = {} /\ durable' = Len(cells')
        /\ acked' = {i \in acked : i <= durable}
      BY <1>20 DEF PowerLoss, Forget
  <2>2. /\ header' # "whole" => cells' = <<>>
        /\ anchored' = {} => cells' = <<>> /\ header' # "whole"
        /\ anchored' \in {{}, {"header", "entry"}}
      BY <1>20 DEF PowerLoss
  <2>3. cells' \in Survivors \/ (cells' = <<>> /\ durable = 0)
      BY <1>1, <1>20 DEF PowerLoss
  <2>4. AckedReadable'
    <3>1. SUFFICES ASSUME NEW i \in acked, i <= durable PROVE Clean(i)'
        BY <2>1
    <3>2. i \in Nat /\ durable <= Len(cells) /\ \A j \in 1..i : cells[j] # Damaged
        BY <1>0, <3>1
    <3>3. CASE cells' \in Survivors
        BY <1>0, <3>1, <3>2, <3>3, SurvivorsAgree
    <3>4. CASE cells' = <<>> /\ durable = 0
        BY <1>0, <3>1, <3>2, <3>4, EmptySeq
    <3> QED
        BY <2>3, <3>3, <3>4
  <2>5. Len(<<>>) = 0
      BY EmptySeq
  <2>6. HeaderFirst' /\ AnchorFirst'
      BY <2>1, <2>2, <2>5
  <2> QED
      BY <2>1, <2>4, <2>6
<1>21. CASE UNCHANGED logVars
    BY <1>21 DEF logVars
<1> QED
    BY <1>3, <1>4, <1>5, <1>6, <1>7, <1>8, <1>9, <1>10, <1>11, <1>12, <1>13, <1>14,
       <1>15, <1>16, <1>17, <1>18, <1>19, <1>20, <1>21 DEF LogNext, OpenStep

\* A log nobody has opened yet has nothing in it.
LEMMA LogInvariantInit == LogInit => LogInvariant
BY EmptySeq DEF LogInit, LogInvariant, AckedReadable, OpenClean, Clean,
                HeaderFirst, AnchorFirst, StaleAgrees, UndoExact

\* As long as one kind of system call fails at a time and a new file's entry is
\* on the disk before it is used, the log keeps its invariant.
THEOREM LogInvariantCorrect ==
    ASSUME SafeFaults, SafeEntry
    PROVE  LogSpec => []LogInvariant
<1>1. LogTypeOK /\ LogInvariant /\ [LogNext]_logVars => LogInvariant'
    BY LogInvariantStep
<1> QED
    BY <1>1, LogInvariantInit, LogTypeCorrect, PTL DEF LogSpec

\* Then no sequence of appends, failures, crashes, power losses and restarts
\* loses an acknowledged record or leaves it behind a damaged one.
THEOREM AckedReadableHolds ==
    ASSUME SafeFaults, SafeEntry
    PROVE  LogSpec => []AckedReadable
<1>1. LogInvariant => AckedReadable
    BY DEF LogInvariant
<1> QED
    BY <1>1, LogInvariantCorrect, PTL

\* And a record is only ever appended behind records.
THEOREM OpenCleanHolds ==
    ASSUME SafeFaults, SafeEntry
    PROVE  LogSpec => []OpenClean
<1>1. LogInvariant => OpenClean
    BY DEF LogInvariant
<1> QED
    BY <1>1, LogInvariantCorrect, PTL

-----------------------------------------------------------------------------
(* The log: how many acknowledged records wait for an fsync.               *)

\* What is at risk only shrinks when more of the file is on the disk.
LEMMA AtRiskGrows ==
    ASSUME NEW a \in Nat, NEW b \in Nat, NEW c \in Nat, a <= c, NEW k \in Nat,
           NEW i \in Nat, i < Larger(a, b) + k
    PROVE  i < Larger(c, b) + k
BY DEF Larger

\* The inductive step for the count of records append() has not fsync'd: unsynced_
\* is never less than what lies past the disk and past what was found at the open.
LEMMA UnsyncedStep ==
    ASSUME LogTypeOK, LogInvariant, UnsyncedCounts, SafeFaults, SafeEntry, [LogNext]_logVars
    PROVE  UnsyncedCounts'
<1>0. /\ cells \in Seq(Cell) /\ durable \in 0..Len(cells) /\ Len(cells) \in Nat
      /\ acked \subseteq Nat /\ size \in Nat /\ unsynced \in Nat /\ base \in Nat
      /\ SyncEvery \in Nat \ {0} /\ Damaged \in Cell /\ Record \subseteq Cell
    BY LenProperties, LogAssumption DEF LogTypeOK, Cell
<1>1. \A i \in acked : i <= Len(cells)
    BY DEF LogInvariant, AckedReadable, Clean
<1> USE DEF UnsyncedCounts, AtRiskWindow, Larger
<1>3. CASE RefuseForeign
    BY <1>3 DEF RefuseForeign, FailOpen, fileVars
<1>4. CASE OpenFresh
    BY <1>4 DEF OpenFresh, FailOpen
<1>5. CASE CreateHeader
  <2>1. pc' \in {"create_fsync", "closed"} /\ UNCHANGED <<durable, acked, base>>
      BY <1>5 DEF CreateHeader, FailOpen
  <2> QED
      BY <2>1
<1>6. CASE CreateFsync
  <2>1. /\ pc' \in {"create_dirsync", "closed"} /\ UNCHANGED <<acked, base>>
        /\ durable' \in {durable, Len(cells)}
      BY <1>6 DEF CreateFsync, Fsync, FailOpen, fileVars
  <2>2. /\ durable \in Nat /\ durable' \in Nat /\ durable <= durable'
        /\ base \in Nat /\ base' = base /\ SyncEvery \in Nat
      BY <1>0, <2>1
  <2>3. ASSUME NEW i \in acked
        PROVE  i < Larger(durable', base') + SyncEvery
    <3>1. i \in Nat /\ i < Larger(durable, base) + SyncEvery
        BY <1>0
    <3> HIDE DEF Larger, UnsyncedCounts, AtRiskWindow
    <3> QED
        BY <2>2, <3>1, AtRiskGrows
  <2>4. AtRiskWindow'
      BY <2>1, <2>3
  <2> QED
      BY <2>1, <2>4
<1>7. CASE CreateDirSync
    BY <1>0, <1>1, <1>7, EmptySeq DEF CreateDirSync, Opened, Return, LogInvariant, HeaderFirst
<1>8. CASE OpenIntact
    BY <1>0, <1>1, <1>8 DEF OpenIntact, Opened, Return, fileVars
<1>9. CASE OpenDamaged
  <2>1. CASE FailOpen /\ UNCHANGED fileVars
      BY <2>1 DEF FailOpen, fileVars
  <2>2. ASSUME NEW n \in 0..Len(cells), IsValidEnd(n), Ftruncate(n),
               pc' = "cut_fsync", UNCHANGED <<size, unsynced, acked, base>>
        PROVE  UnsyncedCounts'
    <3>1. n \in Nat
        BY <1>0
    <3>2. \A i \in acked : i <= n
        BY <1>0, <2>2, <3>1, ValidEndIsClean DEF LogInvariant, AckedReadable
    <3>3. durable' = IF n < durable THEN n ELSE durable
        BY <2>2, <3>1, FtruncateEffect
    <3>4. AtRiskWindow'
        BY <1>0, <2>2, <3>1, <3>2, <3>3
    <3> QED
        BY <2>2, <3>4
  <2> QED
      BY <1>9, <2>1, <2>2 DEF OpenDamaged
<1>10. CASE CutFsync
  <2>1. CASE Fsync /\ Opened(Len(cells))
    <3>1. /\ durable' = Len(cells) /\ base' = Len(cells) /\ unsynced' = 0
          /\ cells' = cells /\ acked' = acked /\ pc' = "open"
        BY <2>1 DEF Fsync, Opened, Return
    <3> QED
        BY <1>0, <1>1, <3>1
  <2>2. CASE FailOpen /\ UNCHANGED fileVars
      BY <2>2 DEF FailOpen, fileVars
  <2> QED
      BY <1>10, <2>1, <2>2 DEF CutFsync
<1>11. ASSUME NEW r \in Record, WriteRecord(r)
       PROVE  UnsyncedCounts'
  <2>1. Len(cells') = Len(cells) + 1
      BY <1>0, <1>11, AppendProperties DEF WriteRecord
  <2>2. /\ pc = "open" /\ pc' \in {"open", "append_fsync"}
        /\ unsynced' = unsynced + 1 /\ UNCHANGED <<durable, base>>
        /\ unsynced + 1 >= SyncEvery => acked' = acked
        /\ ~ (unsynced + 1 >= SyncEvery) => acked' = acked \cup {Len(cells) + 1}
      BY <1>11 DEF WriteRecord, Return
  <2>3. Len(cells) <= Larger(durable, base) + unsynced /\ Larger(durable, base) \in Nat
      BY <1>0, <2>2
  <2>4. AtRiskWindow'
    <3>1. CASE unsynced + 1 >= SyncEvery
        BY <2>2, <3>1
    <3>2. CASE ~ (unsynced + 1 >= SyncEvery)
      <4>1. Len(cells) + 1 < Larger(durable, base) + SyncEvery
          BY <1>0, <2>3, <3>2
      <4>2. Larger(durable', base') = Larger(durable, base)
          BY <2>2
      <4> QED
          BY <2>2, <3>2, <4>1, <4>2
    <3> QED
        BY <3>1, <3>2
  <2> QED
      BY <1>0, <2>1, <2>2, <2>3, <2>4
<1>12. CASE AppendFsync
  <2>1. CASE Fsync
    <3>1. durable' = Len(cells) /\ cells' = cells
        BY <2>1 DEF Fsync
    <3>2. /\ base' = base /\ pc' = "open" /\ unsynced' \in {0, unsynced}
          /\ acked' \subseteq acked \cup {Len(cells)}
        BY <1>12 DEF AppendFsync, Return
    <3>3. \A i \in acked' : i <= Len(cells)
        BY <1>0, <1>1, <3>2
    <3>4. AtRiskWindow'
        BY <1>0, <3>1, <3>2, <3>3
    <3> QED
        BY <1>0, <3>1, <3>2, <3>4
  <2>2. CASE ~ Fsync
      BY <1>0, <1>12, <2>2 DEF AppendFsync, Return
  <2> QED
      BY <2>1, <2>2
<1>13. CASE WriteFails
    BY <1>0, <1>13, AppendProperties DEF WriteFails, LogInvariant, UndoExact
<1>14. CASE UndoWrite
  <2>1. /\ Ftruncate(size) /\ durable <= size /\ pc' = "open"
        /\ size <= Larger(durable, base) + unsynced
        /\ UNCHANGED <<unsynced, acked, base>>
      BY <1>14 DEF UndoWrite, Return, SafeFaults, LogInvariant, UndoExact
  <2>2. Len(cells') = size /\ durable' = durable
      BY <1>0, <2>1, FtruncateEffect
  <2> QED
      BY <2>1, <2>2
<1>15. CASE SyncLog
    BY <1>0, <1>1, <1>15 DEF SyncLog, Fsync, Return, fileVars
<1>16. CASE ResetTruncate
    BY <1>0, <1>16 DEF ResetTruncate, Return, fileVars
<1>17. CASE ResetFsync
    BY <1>0, <1>1, <1>17, EmptySeq DEF ResetFsync, Fsync, Return, fileVars, LogInvariant, HeaderFirst
<1>18. CASE CloseLog
    BY <1>0, <1>18 DEF CloseLog, Forget, Fsync, fileVars
<1>19. CASE Crash
    BY <1>0, <1>19 DEF Crash, Forget
<1>20. CASE PowerLoss
  <2>1. pc' = "closed" /\ base' = 0 /\ acked' = {i \in acked : i <= durable}
      BY <1>20 DEF PowerLoss, Forget
  <2>2. durable' \in Nat /\ \A i \in acked' : i <= durable'
    <3>1. LogTypeOK' /\ LogInvariant'
        BY <1>20, LogTypeStep, LogInvariantStep DEF LogNext
    <3>2. durable' = Len(cells')
        BY <1>20 DEF PowerLoss
    <3> QED
        BY <3>1, <3>2, LenProperties DEF LogTypeOK, LogInvariant, AckedReadable, Clean
  <2>3. Larger(durable', base') = durable' /\ \A i \in acked' : i \in Nat
      BY <2>1, <2>2, <1>0
  <2>4. \A i \in acked' : i < durable' + SyncEvery
      BY <1>0, <2>2, <2>3
  <2> QED
      BY <2>1, <2>3, <2>4
<1>21. CASE UNCHANGED logVars
    BY <1>21 DEF logVars
<1> QED
    BY <1>3, <1>4, <1>5, <1>6, <1>7, <1>8, <1>9, <1>10, <1>11, <1>12, <1>13, <1>14,
       <1>15, <1>16, <1>17, <1>18, <1>19, <1>20, <1>21 DEF LogNext, OpenStep

\* After any number of restarts, at most sync_every - 1 acknowledged records
\* are neither on the disk nor among those the log was opened with.
THEOREM AtRiskWindowHolds ==
    ASSUME SafeFaults, SafeEntry
    PROVE  LogSpec => []AtRiskWindow
<1>1. LogInit => UnsyncedCounts
    BY DEF LogInit, UnsyncedCounts, AtRiskWindow
<1>2. LogTypeOK /\ LogInvariant /\ UnsyncedCounts /\ [LogNext]_logVars => UnsyncedCounts'
    BY UnsyncedStep
<1>3. UnsyncedCounts => AtRiskWindow
    BY DEF UnsyncedCounts
<1> QED
    BY <1>1, <1>2, <1>3, LogTypeCorrect, LogInvariantCorrect, PTL DEF LogSpec

-----------------------------------------------------------------------------
(* The log: sync_every = 1.                                                *)

\* With sync_every 1 append() returns only once its record is on the disk.
LEMMA AckedDurableStep ==
    ASSUME LogTypeOK, LogInvariant, AckedDurable, SafeFaults, SafeEntry, SyncEvery = 1,
           [LogNext]_logVars
    PROVE  AckedDurable'
<1>0. /\ cells \in Seq(Cell) /\ durable \in 0..Len(cells) /\ Len(cells) \in Nat
      /\ acked \subseteq Nat /\ size \in Nat /\ unsynced \in Nat
    BY LenProperties DEF LogTypeOK
<1>1. \A i \in acked : i <= Len(cells) /\ i <= durable
    BY DEF LogInvariant, AckedReadable, Clean, AckedDurable
<1>2. ASSUME acked' \subseteq acked, durable' = durable \/ (durable' = Len(cells))
      PROVE  AckedDurable'
    BY <1>0, <1>1, <1>2 DEF AckedDurable
<1>3. CASE OpenDamaged
  <2>1. CASE FailOpen /\ UNCHANGED fileVars
      BY <1>2, <2>1 DEF FailOpen, fileVars
  <2>2. ASSUME NEW n \in 0..Len(cells), IsValidEnd(n), Ftruncate(n), acked' = acked
        PROVE  AckedDurable'
    <3>1. n \in Nat
        BY <1>0
    <3>2. \A i \in acked : i <= n
        BY <1>0, <2>2, <3>1, ValidEndIsClean DEF LogInvariant, AckedReadable
    <3>3. durable' = IF n < durable THEN n ELSE durable
        BY <2>2, <3>1, FtruncateEffect
    <3> QED
        BY <1>0, <1>1, <2>2, <3>2, <3>3 DEF AckedDurable
  <2> QED
      BY <1>3, <2>1, <2>2 DEF OpenDamaged
<1>4. CASE UndoWrite
  <2>1. Ftruncate(size) /\ durable <= size /\ acked' = acked
      BY <1>4 DEF UndoWrite, SafeFaults, LogInvariant, UndoExact
  <2>2. durable' = durable
      BY <1>0, <2>1, FtruncateEffect
  <2> QED
      BY <1>2, <2>1, <2>2
<1>5. CASE ResetTruncate
    BY <1>2, <1>5 DEF ResetTruncate, AckedDurable, fileVars
<1>6. CASE AppendFsync
  <2>1. acked' \subseteq acked \cup {Len(cells)}
      BY <1>6 DEF AppendFsync
  <2>2. durable' = Len(cells) \/ (durable' = durable /\ acked' = acked)
      BY <1>6 DEF AppendFsync, Fsync
  <2> QED
      BY <1>0, <1>1, <2>1, <2>2 DEF AckedDurable
<1>7. ASSUME NEW r \in Record, WriteRecord(r)
      PROVE  AckedDurable'
  <2>1. unsynced + 1 >= SyncEvery
      BY <1>0
  <2> QED
      BY <1>2, <1>7, <2>1 DEF WriteRecord
<1>8. CASE PowerLoss
  <2>1. LogTypeOK' /\ LogInvariant'
      BY LogTypeStep, LogInvariantStep
  <2> QED
      BY <1>8, <2>1, LenProperties DEF PowerLoss, AckedDurable, LogInvariant, AckedReadable, Clean
<1>9. CASE \/ RefuseForeign \/ OpenFresh \/ CreateHeader \/ CreateFsync \/ CreateDirSync
           \/ OpenIntact \/ CutFsync \/ WriteFails \/ SyncLog \/ ResetFsync \/ CloseLog
           \/ Crash \/ UNCHANGED logVars
  <2>1. acked' = acked
      BY <1>9 DEF RefuseForeign, OpenFresh, CreateHeader, CreateFsync, CreateDirSync, OpenIntact,
                  CutFsync, WriteFails, SyncLog, ResetFsync, CloseLog, Crash, logVars,
                  FailOpen, Opened
  <2>2. durable' = durable \/ durable' = Len(cells)
      BY <1>9 DEF RefuseForeign, OpenFresh, CreateHeader, CreateFsync, CreateDirSync, OpenIntact,
                  CutFsync, WriteFails, SyncLog, ResetFsync, CloseLog, Crash, logVars,
                  fileVars, Fsync
  <2> QED
      BY <1>2, <2>1, <2>2
<1> QED
    BY <1>3, <1>4, <1>5, <1>6, <1>7, <1>8, <1>9 DEF LogNext, OpenStep

\* With the default sync_every of 1, a record is on the disk before its append
\* returns and stays there, whatever process or machine failures follow.
THEOREM EveryAckDurable ==
    ASSUME SafeFaults, SafeEntry, SyncEvery = 1
    PROVE  LogSpec => []AtRiskBound
<1>1. LogInit => AckedDurable
    BY DEF LogInit, AckedDurable
<1>2. LogTypeOK /\ LogInvariant /\ AckedDurable /\ [LogNext]_logVars => AckedDurable'
    BY AckedDurableStep
<1>3. LogTypeOK /\ AckedDurable => AtRiskBound
    BY LenProperties DEF LogTypeOK, AckedDurable, AtRiskBound
<1> QED
    BY <1>1, <1>2, <1>3, LogTypeCorrect, LogInvariantCorrect, PTL DEF LogSpec

-----------------------------------------------------------------------------
(* What recovery reads.                                                    *)

\* scan() returns the records in front of the first bad one.
LEMMA ReadableUpTo ==
    ASSUME NEW c \in Seq(Cell), NEW n \in 0..Len(c),
           \A i \in 1..n : c[i] # Damaged,
           n < Len(c) => c[n + 1] = Damaged
    PROVE  Readable(c) = SubSeq(c, 1, n)
<1> DEFINE P(m) == /\ \A i \in 1..m : c[i] # Damaged
                   /\ m < Len(c) => c[m + 1] = Damaged
<1>0. Len(c) \in Nat
  BY LenProperties
<1>1. \A m \in 0..Len(c) : P(m) => m = n
  BY <1>0
<1>2. P(n)
  OBVIOUS
<1>3. n = CHOOSE m \in 0..Len(c) : P(m)
  BY <1>1, <1>2
<1> QED
  BY <1>3 DEF Readable

\* A log without a damaged cell is read back whole.
LEMMA ReadableClean ==
    ASSUME NEW c \in Seq(Cell), \A i \in 1..Len(c) : c[i] # Damaged, Record = LogEntry
    PROVE  Readable(c) = c /\ c \in Seq(LogEntry)
<1>1. Len(c) \in 0..Len(c)
  BY LenProperties
<1>2. Readable(c) = SubSeq(c, 1, Len(c))
  BY <1>1, ReadableUpTo
<1>3. \A i \in 1..Len(c) : c[i] \in LogEntry
  BY DEF Cell
<1>4. c \in Seq(LogEntry)
  BY <1>3
<1>5. SubSeq(c, 1, Len(c)) = c
  BY <1>4
<1> QED
  BY <1>2, <1>4, <1>5

\* Two logs that agree up to the first bad record of each are read the same.
LEMMA SameReadable ==
    ASSUME NEW c \in Seq(Cell), NEW d \in Seq(Cell), NEW n \in Nat,
           n <= Len(c), n <= Len(d),
           \A i \in 1..n : c[i] = d[i] /\ c[i] # Damaged,
           n < Len(c) => c[n + 1] = Damaged,
           n < Len(d) => d[n + 1] = Damaged
    PROVE  Readable(c) = Readable(d)
<1>0. Len(c) \in Nat /\ Len(d) \in Nat
  BY LenProperties
<1>a. n \in 0..Len(c) /\ n \in 0..Len(d)
  BY <1>0
<1>b. \A i \in 1..n : d[i] # Damaged
  OBVIOUS
<1>1. Readable(c) = SubSeq(c, 1, n)
  BY <1>a, ReadableUpTo
<1>2. Readable(d) = SubSeq(d, 1, n)
  BY <1>a, <1>b, ReadableUpTo
<1>3. \A i \in 1..n : c[i] \in Cell /\ d[i] \in Cell
  BY <1>0, ElementOfSeq
<1>4. SubSeq(c, 1, n) \in Seq(Cell) /\ Len(SubSeq(c, 1, n)) = n
      /\ \A i \in 1..n : SubSeq(c, 1, n)[i] = c[i]
  BY <1>0, <1>3, SubSeqProperties
<1>5. SubSeq(d, 1, n) \in Seq(Cell) /\ Len(SubSeq(d, 1, n)) = n
      /\ \A i \in 1..n : SubSeq(d, 1, n)[i] = d[i]
  BY <1>0, <1>3, SubSeqProperties
<1>6. SubSeq(c, 1, n) = SubSeq(d, 1, n)
  BY <1>4, <1>5, SeqEqual
<1> QED
  BY <1>1, <1>2, <1>6

\* Half a record behind a clean log is not read.
LEMMA HalfRecordUnread ==
    ASSUME LogTypeOK, Clean(Len(cells))
    PROVE  Readable(Append(cells, Damaged)) = Readable(cells)
<1>0. /\ cells \in Seq(Cell) /\ Len(cells) \in Nat /\ Damaged \in Cell
      /\ \A i \in 1..Len(cells) : cells[i] # Damaged
  BY LenProperties DEF LogTypeOK, Cell, Clean
<1> DEFINE longer == Append(cells, Damaged)
<1>1. /\ longer \in Seq(Cell) /\ Len(longer) = Len(cells) + 1
      /\ \A i \in 1..Len(cells) : longer[i] = cells[i]
      /\ longer[Len(cells) + 1] = Damaged
  BY <1>0, AppendProperties
<1> HIDE DEF longer
<1>2. /\ Len(cells) <= Len(longer) /\ Len(cells) <= Len(cells)
      /\ \A i \in 1..Len(cells) : longer[i] = cells[i] /\ longer[i] # Damaged
      /\ Len(cells) < Len(longer) => longer[Len(cells) + 1] = Damaged
      /\ Len(cells) < Len(cells) => cells[Len(cells) + 1] = Damaged
  BY <1>0, <1>1
<1>3. Readable(longer) = Readable(cells)
  BY <1>0, <1>1, <1>2, SameReadable
<1> QED
  BY <1>3 DEF longer

\* A log that is cut where its records end is read as before.
LEMMA CutReadsSame ==
    ASSUME LogTypeOK, NEW n \in 0..Len(cells), IsValidEnd(n), Ftruncate(n)
    PROVE  Readable(cells') = Readable(cells)
<1>0. cells \in Seq(Cell) /\ Len(cells) \in Nat /\ n \in Nat
  BY LenProperties DEF LogTypeOK
<1>1. /\ cells' \in Seq(Cell) /\ Len(cells') = n
      /\ \A i \in 1..n : cells'[i] = cells[i] /\ cells'[i] # Damaged
      /\ n < Len(cells) => cells[n + 1] = Damaged
  BY <1>0, FtruncateEffect DEF IsValidEnd
<1>2. n <= Len(cells') /\ n <= Len(cells) /\ (n < Len(cells') => cells'[n + 1] = Damaged)
  BY <1>0, <1>1
<1> QED
  BY <1>0, <1>1, <1>2, SameReadable

-----------------------------------------------------------------------------
(* The store uses its log the way the log is meant to be used.             *)

\* Every step of the store is a step of its log, or leaves it alone.
LEMMA LogStepOfStore ==
    ASSUME [StoreNext]_allVars
    PROVE  [LogNext]_logVars
<1> USE StoreAssumption DEF LogNext
<1>1. ASSUME NEW r \in LogEntry, StartWrite(r)
      PROVE  LogNext
  BY <1>1 DEF StartWrite
<1>2. ASSUME NEW k \in Key, Remove(k) \/ \E v \in Value : Put(k, v)
      PROVE  LogNext
  <2>1. \A v \in Content : [key |-> k, val |-> v] \in LogEntry
    BY DEF LogEntry
  <2> QED
    BY <1>1, <1>2, <2>1 DEF Remove, Put, Content
<1>3. CASE OpenLog
  BY <1>3 DEF OpenLog
<1>4. CASE LoadRefused
  BY <1>4 DEF LoadRefused
<1>5. CASE LogStep
  BY <1>5 DEF LogStep
<1>6. CASE EmptyLog
  BY <1>6 DEF EmptyLog
<1>7. CASE CheckpointDone
  BY <1>7 DEF CheckpointDone
<1>8. CASE Sync
  BY <1>8 DEF Sync
<1>9. CASE Close
  BY <1>9 DEF Close
<1>10. CASE StoreCrash
  BY <1>10 DEF StoreCrash
<1>11. CASE StorePowerLoss
  BY <1>11 DEF StorePowerLoss
<1>12. CASE Load \/ WriteRefused \/ Apply \/ Checkpoint \/ WriteTmp \/ FsyncTmp
            \/ RenameTmp \/ FsyncDir \/ Rot
  BY <1>12 DEF Load, WriteRefused, Apply, Checkpoint, WriteTmp, FsyncTmp, RenameTmp, FsyncDir, Rot
<1>13. CASE UNCHANGED allVars
  BY <1>13 DEF allVars, logVars
<1> QED
  BY <1>2, <1>3, <1>4, <1>5, <1>6, <1>7, <1>8, <1>9, <1>10, <1>11, <1>12, <1>13 DEF StoreNext

\* Whatever is proved of WriteAheadLog's specification holds of the log inside
\* the store, whenever the store calls it: puts, deletes, checkpoints, closing.
THEOREM StoreImplementsLog == StoreSpec => LogSpec
<1>1. StoreInit => LogInit
  BY DEF StoreInit
<1> QED
  BY <1>1, LogStepOfStore, PTL DEF StoreSpec, LogSpec

\* So no row's acknowledged record is lost from the log but by a checkpoint.
THEOREM StoreAckedReadable ==
    ASSUME SafeFaults, SafeEntry
    PROVE  StoreSpec => []AckedReadable
BY StoreImplementsLog, AckedReadableHolds, PTL

-----------------------------------------------------------------------------
(* Types.                                                                  *)

\* Only a file with a whole header is ever written to.
LEMMA HeaderFirstStep ==
    ASSUME LogTypeOK, HeaderFirst, [LogNext]_logVars
    PROVE  HeaderFirst'
<1>0. cells \in Seq(Cell) /\ Len(cells) \in Nat
  BY LenProperties DEF LogTypeOK
<1>1. ASSUME NEW n \in Nat, Ftruncate(n)
      PROVE  /\ header' = header
             /\ n = 0 => cells' = <<>>
             /\ cells = <<>> /\ n <= Len(cells) => cells' = <<>>
  <2>1. cells' \in Seq(Cell) /\ Len(cells') = n /\ header' = header
    BY <1>1, FtruncateEffect
  <2> QED
    BY <1>0, <2>1, EmptySeq
<1> USE DEF HeaderFirst
<1>2. CASE RefuseForeign \/ OpenFresh \/ CreateHeader \/ CreateFsync \/ CreateDirSync \/ OpenIntact \/ CutFsync
  BY <1>2 DEF RefuseForeign, OpenFresh, CreateHeader, CreateFsync, CreateDirSync, OpenIntact, CutFsync,
              FailOpen, Opened, Return, Fsync, fileVars
<1>3. CASE OpenDamaged
  <2>1. header' = "whole" /\ pc' \in {"cut_fsync", "closed"}
    BY <1>3 DEF OpenDamaged, FailOpen, Ftruncate, fileVars
  <2> QED
    BY <2>1
<1>4. CASE UndoWrite
  <2>1. header' = "whole" /\ pc' = "open"
    BY <1>4 DEF UndoWrite, Ftruncate, Return, fileVars
  <2> QED
    BY <2>1
<1>5. CASE ResetTruncate
  BY <1>1, <1>5 DEF ResetTruncate, Return, fileVars
<1>6. ASSUME NEW r \in Record, WriteRecord(r)
      PROVE  HeaderFirst'
  BY <1>6 DEF WriteRecord, Return
<1>7. CASE AppendFsync \/ WriteFails \/ SyncLog \/ ResetFsync \/ CloseLog
  BY <1>7 DEF AppendFsync, WriteFails, SyncLog, ResetFsync, CloseLog, Forget, Return, Fsync, fileVars
<1>8. CASE Crash
  BY <1>8 DEF Crash, Forget, InFlight
<1>9. CASE PowerLoss
  BY <1>9 DEF PowerLoss, Forget
<1>10. CASE UNCHANGED logVars
  BY <1>10 DEF logVars
<1> QED
  BY <1>2, <1>3, <1>4, <1>5, <1>6, <1>7, <1>8, <1>9, <1>10 DEF LogNext, OpenStep

\* The log is opened clean: an intact one is, and a damaged one is cut.
LEMMA OpensCleanStep ==
    ASSUME LogTypeOK, HeaderFirst, OpensClean, Lockstep, [StoreNext]_allVars
    PROVE  OpensClean'
<1>0. cells \in Seq(Cell) /\ Len(cells) \in Nat
  BY LenProperties DEF LogTypeOK
<1>1. CASE OpenLog
  <2>1. at = "down" /\ OpenStep
    BY <1>1 DEF OpenLog
  <2>2. CASE RefuseForeign \/ OpenFresh \/ CreateHeader \/ CreateFsync
    BY <2>2 DEF RefuseForeign, OpenFresh, CreateHeader, CreateFsync, FailOpen, OpensClean
  <2>3. CASE CreateDirSync
    <3>1. cells' = cells /\ cells = <<>>
      BY <2>3 DEF CreateDirSync, HeaderFirst
    <3> QED
      BY <3>1, EmptySeq DEF OpensClean, Clean
  <2>4. CASE OpenIntact
    BY <1>0, <2>4 DEF OpenIntact, IsValidEnd, OpensClean, Clean, fileVars
  <2>5. CASE OpenDamaged
    <3>1. CASE pc' = "closed"
      BY <3>1 DEF OpensClean
    <3>2. CASE \E n \in 0..Len(cells) : IsValidEnd(n) /\ Ftruncate(n)
      <4>1. PICK n \in 0..Len(cells) : IsValidEnd(n) /\ Ftruncate(n)
        BY <3>2
      <4>2. n \in Nat
        BY <1>0
      <4>3. Clean(n)' /\ Len(cells') = n
        BY <4>1, <4>2, ValidEndIsClean
      <4> QED
        BY <4>3 DEF OpensClean, Clean
    <3> QED
      BY <2>5, <3>1, <3>2 DEF OpenDamaged, FailOpen
  <2>6. CASE CutFsync
    BY <2>1, <2>6 DEF CutFsync, Fsync, FailOpen, Opened, Return, OpensClean, Clean
  <2> QED
    BY <2>1, <2>2, <2>3, <2>4, <2>5, <2>6 DEF OpenStep
<1>2. CASE LoadRefused
  BY <1>2 DEF LoadRefused, CloseLog, Forget, OpensClean
<1>3. CASE Close
  BY <1>3 DEF Close, CloseLog, Forget, OpensClean
<1>4. CASE StoreCrash
  BY <1>4 DEF StoreCrash, Crash, Forget, OpensClean
<1>5. CASE StorePowerLoss
  BY <1>5 DEF StorePowerLoss, PowerLoss, Forget, OpensClean
<1>6. CASE UNCHANGED allVars \/ Rot
  BY <1>6 DEF allVars, logVars, Rot, OpensClean, Clean
<1>7. ASSUME at' # "down"
      PROVE  OpensClean'
  BY <1>7 DEF OpensClean
<1>8. CASE Load \/ WriteRefused \/ Apply \/ Checkpoint \/ WriteTmp \/ FsyncTmp \/ RenameTmp \/ FsyncDir
           \/ EmptyLog \/ CheckpointDone \/ Sync \/ LogStep
  <2>1. at' # "down"
    BY <1>8 DEF Load, WriteRefused, Apply, Checkpoint, WriteTmp, FsyncTmp, RenameTmp, FsyncDir,
                EmptyLog, CheckpointDone, Sync, LogStep, storeVars
  <2> QED
    BY <1>7, <2>1
<1>9. ASSUME NEW k \in Key, Remove(k) \/ \E v \in Value : Put(k, v)
      PROVE  OpensClean'
  <2>1. at' # "down"
    BY <1>9 DEF Remove, Put, StartWrite
  <2> QED
    BY <1>7, <2>1
<1> QED
  BY <1>1, <1>2, <1>3, <1>4, <1>5, <1>6, <1>8, <1>9 DEF StoreNext

\* A row set with one row written is a row set.
LEMMA RowWritten ==
    ASSUME NEW rows \in Rows, NEW r \in LogEntry
    PROVE  [rows EXCEPT ![r.key] = r.val] \in Rows
BY DEF Rows, LogEntry

\* What Load reads back is rows.
LEMMA LoadType ==
    ASSUME LogTypeOK, OpensClean, StoreTypeOK, Load
    PROVE  Recovered(snapshot, Readable(cells)) \in Rows /\ Len(Readable(cells)) \in Nat
<1>1. cells \in Seq(Cell) /\ snapshot \in Rows /\ Clean(Len(cells))
  BY DEF LogTypeOK, OpensClean, StoreTypeOK, Load
<1>2. Readable(cells) \in Seq(LogEntry)
  BY <1>1, ReadableClean, StoreAssumption DEF Clean
<1> QED
  BY <1>1, <1>2, RecoveredType, LenProperties

\* Every step of the store keeps its types, and what it is doing fits where its log
\* is (Lockstep).
LEMMA StoreTypeStep ==
    ASSUME LogTypeOK, OpensClean, StoreTypeOK, [StoreNext]_allVars
    PROVE  StoreTypeOK'
<1>0. /\ Damaged \notin Rows /\ Absent \notin LogEntry
      /\ NoRows \in Rows /\ Absent \in Content /\ Value \subseteq Content
  BY StoreAssumption DEF NoRows, Rows, Content
<1> USE DEF StoreTypeOK, Lockstep, NoOp
<1>1. CASE OpenLog
  <2>1. pc' \in {"closed", "create_write", "create_fsync", "create_dirsync", "cut_fsync", "open"}
    BY <1>1 DEF OpenLog, OpenStep, RefuseForeign, OpenFresh, CreateHeader, CreateFsync,
                CreateDirSync, OpenIntact, OpenDamaged, CutFsync, FailOpen, Opened, Return
  <2> QED
    BY <1>1, <2>1 DEF OpenLog, storeVars
<1>2. CASE Load
  BY <1>2, LoadType DEF Load, logVars
<1>3. CASE LoadRefused
  BY <1>3 DEF LoadRefused, CloseLog, Forget, storeVars
<1>4. ASSUME NEW r \in LogEntry, StartWrite(r)
      PROVE  StoreTypeOK'
  <2>1. pc' \in {"open", "append_fsync", "undo"}
    BY <1>4 DEF StartWrite, WriteRecord, WriteFails, Return
  <2>2. possible' \in [Key -> SUBSET Content]
    BY <1>4 DEF StartWrite, LogEntry
  <2>3. op' # NoOp
    BY <1>0, <1>4 DEF StartWrite
  <2> QED
    BY <1>4, <2>1, <2>2, <2>3 DEF StartWrite
<1>5. ASSUME NEW k \in Key, Remove(k) \/ \E v \in Value : Put(k, v)
      PROVE  StoreTypeOK'
  <2>1. \A v \in Content : [key |-> k, val |-> v] \in LogEntry
    BY DEF LogEntry
  <2> QED
    BY <1>0, <1>4, <1>5, <2>1 DEF Remove, Put
<1>6. CASE LogStep
  BY <1>6 DEF LogStep, AppendFsync, UndoWrite, Return, storeVars
<1>7. CASE WriteRefused
  BY <1>0, <1>7 DEF WriteRefused, logVars
<1>8. CASE Apply
  <2>1. op \in LogEntry /\ op.key \in Key /\ op.val \in Content
    BY <1>8 DEF Apply, LogEntry
  <2>2. index' \in Rows
    BY <1>8, <2>1, RowWritten DEF Apply
  <2>3. possible' \in [Key -> SUBSET Content]
    BY <1>8, <2>1 DEF Apply
  <2>4. writes' \in Nat /\ at' \in {"ready", "snap_write"}
    BY <1>8 DEF Apply
  <2> QED
    BY <1>8, <2>2, <2>3, <2>4 DEF Apply, logVars
<1>9. CASE Checkpoint \/ WriteTmp \/ FsyncTmp
  BY <1>9 DEF Checkpoint, WriteTmp, FsyncTmp, logVars
<1>10. CASE RenameTmp \/ FsyncDir
  BY <1>10 DEF RenameTmp, FsyncDir, logVars
<1>11. CASE EmptyLog
  BY <1>11 DEF EmptyLog, ResetTruncate, Return
<1>12. CASE CheckpointDone
  BY <1>12 DEF CheckpointDone, ResetFsync, Return
<1>13. CASE Sync
  BY <1>13 DEF Sync, SyncLog, Return, storeVars
<1>14. CASE Close
  BY <1>0, <1>14 DEF Close, CloseLog, Forget, LoseMemory
<1>15. CASE StoreCrash
  BY <1>0, <1>15 DEF StoreCrash, Crash, Forget, LoseMemory
<1>16. CASE StorePowerLoss
  BY <1>0, <1>16 DEF StorePowerLoss, PowerLoss, Forget, LoseMemory
<1>17. CASE Rot
  BY <1>17 DEF Rot, logVars
<1>18. CASE UNCHANGED allVars
  BY <1>18 DEF allVars
<1> QED
  BY <1>1, <1>2, <1>3, <1>5, <1>6, <1>7, <1>8, <1>9, <1>10, <1>11, <1>12, <1>13, <1>14, <1>15,
     <1>16, <1>17, <1>18 DEF StoreNext

\* Every variable of the store keeps its type, and the store's code and its log
\* stay in step, whatever fails.
THEOREM StoreTypeCorrect == StoreSpec => []StoreTypeOK
<1>1. StoreInit => HeaderFirst /\ OpensClean /\ StoreTypeOK
  <2> SUFFICES ASSUME StoreInit
               PROVE  HeaderFirst /\ OpensClean /\ StoreTypeOK
    OBVIOUS
  <2>1. HeaderFirst /\ OpensClean
    BY DEF StoreInit, LogInit, HeaderFirst, OpensClean
  <2>2. NoRows \in Rows
    BY DEF NoRows, Rows, Content
  <2> QED
    BY <2>1, <2>2 DEF StoreInit, LogInit, StoreTypeOK, Lockstep, NoOp, Content
<1>2. LogTypeOK /\ HeaderFirst /\ OpensClean /\ StoreTypeOK /\ [StoreNext]_allVars
      => HeaderFirst' /\ OpensClean' /\ StoreTypeOK'
  <2> SUFFICES ASSUME LogTypeOK, HeaderFirst, OpensClean, StoreTypeOK, [StoreNext]_allVars
               PROVE  HeaderFirst' /\ OpensClean' /\ StoreTypeOK'
    OBVIOUS
  <2>1. Lockstep
    BY DEF StoreTypeOK
  <2> QED
    BY <2>1, LogStepOfStore, HeaderFirstStep, OpensCleanStep, StoreTypeStep
<1> QED
  BY <1>1, <1>2, StoreImplementsLog, LogTypeCorrect, PTL DEF StoreSpec

-----------------------------------------------------------------------------
(* The rows in memory are the rows of the files.                           *)

\* As long as nothing is written to the files, a restart finds the same rows.
LEMMA FileRowsKept ==
    ASSUME cells' = cells, snapshot' = snapshot
    PROVE  FileRows' = FileRows
BY DEF FileRows, Readable

\* An open log holds records only.
LEMMA OpenLogIsRead ==
    ASSUME LogTypeOK, LogInvariant, pc \in {"open", "append_fsync"}
    PROVE  /\ cells \in Seq(LogEntry) /\ Len(cells) \in Nat
           /\ Readable(cells) = cells /\ FileRows = Recovered(snapshot, cells)
           /\ \A i \in 1..Len(cells) : cells[i] # Damaged
<1>1. cells \in Seq(Cell) /\ Len(cells) \in Nat /\ \A i \in 1..Len(cells) : cells[i] # Damaged
  BY LenProperties DEF LogTypeOK, LogInvariant, OpenClean, Clean
<1> QED
  BY <1>1, ReadableClean, StoreAssumption DEF FileRows

\* The write in progress reaches the file whole or not at all.
LEMMA StartWriteStep ==
    ASSUME LogTypeOK, LogInvariant, StoreTypeOK, StoreInvariant,
           NEW r \in LogEntry, StartWrite(r)
    PROVE  StoreInvariant'
<1>0. /\ at = "ready" /\ index = FileRows /\ snapshot \in Rows /\ pc = "open"
      /\ index' = index /\ snapshot' = snapshot /\ at' = "logging" /\ op' = r
  BY DEF StartWrite, StoreInvariant, StoreTypeOK, Lockstep
<1>1. /\ cells \in Seq(LogEntry) /\ Len(cells) \in Nat /\ index = Recovered(snapshot, cells)
      /\ \A i \in 1..Len(cells) : cells[i] # Damaged
      /\ cells \in Seq(Cell) /\ r \in Cell /\ Damaged \in Cell
      /\ r # Damaged
  BY <1>0, OpenLogIsRead, StoreAssumption, LogAssumption DEF Cell, LogTypeOK
<1>2. CASE WriteRecord(r)
  <2>1. cells' = Append(cells, r) /\ Logged'
    BY <1>2 DEF WriteRecord, Return, Logged
  <2>2. /\ cells' \in Seq(Cell) /\ \A i \in 1..Len(cells') : cells'[i] # Damaged
    BY <1>1, <2>1, AppendProperties
  <2>3. Readable(cells') = cells'
    BY <2>2, ReadableClean, StoreAssumption
  <2>4. FileRows' = Recovered(snapshot, Append(cells, r))
    BY <1>0, <2>1, <2>3 DEF FileRows
  <2>5. FileRows' = [index EXCEPT ![r.key] = r.val]
    BY <1>0, <1>1, <2>4, RecoveredAppend
  <2>6. pc' # "undo"
    BY <1>2 DEF WriteRecord, Return
  <2> QED
    BY <1>0, <2>1, <2>5, <2>6 DEF StoreInvariant, StoreTypeOK
<1>3. CASE WriteFails
  <2>1. /\ cells' \in {cells, Append(cells, Damaged)} /\ size' = size /\ size = Len(cells)
        /\ pc' = "undo" /\ ~ Logged'
    BY <1>0, <1>3 DEF WriteFails, LogInvariant, UndoExact, Logged
  <2>2. /\ cells' \in Seq(Cell) /\ size \in 0..Len(cells')
        /\ \A i \in 1..size : cells'[i] = cells[i]
        /\ size < Len(cells') => cells'[size + 1] = Damaged
    BY <1>1, <2>1, AppendProperties
  <2>3. \A i \in 1..size : cells'[i] # Damaged
    BY <1>1, <2>1, <2>2
  <2>4. Readable(cells') = SubSeq(cells', 1, size)
    BY <2>2, <2>3, ReadableUpTo
  <2>5. SubSeq(cells', 1, size) = cells
    <3>1. cells' = cells => SubSeq(cells', 1, size) = cells
      BY <1>1, <2>1
    <3>2. cells' = Append(cells, Damaged) => SubSeq(cells', 1, size) = cells
      BY <1>1, <2>1, <2>2
    <3> QED
      BY <2>1, <3>1, <3>2
  <2>6. FileRows' = index
    BY <1>0, <1>1, <2>4, <2>5 DEF FileRows
  <2>7. IsValidEnd(size)'
    BY <2>1, <2>2, <2>3 DEF IsValidEnd
  <2> QED
    BY <1>0, <2>1, <2>6, <2>7 DEF StoreInvariant, StoreTypeOK
<1> QED
  BY <1>2, <1>3 DEF StartWrite

\* Undoing a failed write leaves the records in front of it.
LEMMA UndoStep ==
    ASSUME LogTypeOK, LogInvariant, StoreTypeOK, StoreInvariant, SafeFaults,
           at = "logging", UndoWrite, UNCHANGED storeVars
    PROVE  StoreInvariant'
<1>0. /\ pc = "undo" /\ "write" \in Faults /\ IsValidEnd(size) /\ size \in Nat
      /\ cells \in Seq(Cell) /\ Len(cells) \in Nat /\ pc' = "open" /\ reply' = "failed"
      /\ FileRows = index /\ snapshot # Damaged
  BY LenProperties DEF LogInvariant, UndoExact, StoreInvariant, UndoWrite, Return, Logged, LogTypeOK
<1>1. Ftruncate(size)
  BY <1>0 DEF UndoWrite, SafeFaults
<1>2. /\ cells' \in Seq(Cell) /\ Len(cells') = size /\ size \in 0..Len(cells)
      /\ \A i \in 1..size : cells'[i] = cells[i] /\ cells[i] # Damaged
      /\ size < Len(cells) => cells[size + 1] = Damaged
  <2>1. /\ cells' \in Seq(Cell) /\ Len(cells') = size
        /\ \A i \in 1..size : cells'[i] = IF i <= Len(cells) THEN cells[i] ELSE Damaged
    BY <1>0, <1>1, FtruncateEffect
  <2> QED
    BY <1>0, <2>1 DEF IsValidEnd
<1>3. Readable(cells') = cells'
  BY <1>2, ReadableClean, StoreAssumption
<1>4. Readable(cells) = SubSeq(cells, 1, size)
  BY <1>0, <1>2, ReadableUpTo
<1>5. SubSeq(cells, 1, size) = cells'
  <2>1. SubSeq(cells, 1, size) \in Seq(Cell) /\ Len(SubSeq(cells, 1, size)) = size
    BY <1>0, <1>2
  <2>2. \A i \in 1..size : SubSeq(cells, 1, size)[i] = cells'[i]
    BY <1>0, <1>2
  <2> QED
    BY <1>2, <2>1, <2>2, SeqEqual
<1>6. FileRows' = FileRows
  BY <1>3, <1>4, <1>5 DEF FileRows, storeVars
<1>7. index' = index /\ snapshot' = snapshot /\ at' = at /\ ~ Logged'
  BY <1>0 DEF storeVars, Logged
<1> QED
  BY <1>0, <1>6, <1>7 DEF StoreInvariant

\* Every step keeps what is in memory equal to what is in the files, but for the
\* write in progress.
LEMMA StoreInvariantStep ==
    ASSUME LogTypeOK, LogInvariant, StoreTypeOK, StoreInvariant, SafeFaults, "fsync" \notin Faults,
           [StoreNext]_allVars
    PROVE  StoreInvariant'
<1>0. ASSUME at' = "down", pc' # "undo"
      PROVE  StoreInvariant'
  BY <1>0 DEF StoreInvariant
<1>1. CASE OpenLog
  <2>1. pc' # "undo" /\ at' = "down"
    BY <1>1 DEF OpenLog, OpenStep, RefuseForeign, OpenFresh, CreateHeader, CreateFsync,
                CreateDirSync, OpenIntact, OpenDamaged, CutFsync, FailOpen, Opened, Return, storeVars
  <2> QED
    BY <1>0, <2>1
<1>2. CASE Load
  <2>1. FileRows' = FileRows /\ index' = FileRows
    BY <1>2, FileRowsKept DEF Load, logVars, FileRows
  <2> QED
    BY <1>2, <2>1 DEF Load, StoreInvariant, logVars
<1>3. CASE LoadRefused
  BY <1>0, <1>3 DEF LoadRefused, CloseLog, Forget, storeVars
<1>4. ASSUME NEW k \in Key, Remove(k) \/ \E v \in Value : Put(k, v)
      PROVE  StoreInvariant'
  <2>1. \A v \in Content : [key |-> k, val |-> v] \in LogEntry
    BY DEF LogEntry
  <2> QED
    BY <1>4, <2>1, StartWriteStep DEF Remove, Put, Content
<1>5. CASE LogStep
  <2>1. CASE AppendFsync
    <3>1. /\ FileRows' = FileRows /\ index' = index /\ op' = op /\ at' = "logging"
          /\ snapshot' = snapshot /\ at = "logging"
      BY <1>5, <2>1, FileRowsKept DEF LogStep, AppendFsync, Fsync, storeVars
    <3>2. Logged /\ Logged' /\ pc' = "open"
      BY <2>1 DEF AppendFsync, Return, Logged
    <3> QED
      BY <3>1, <3>2 DEF StoreInvariant
  <2> QED
    BY <1>5, <2>1, UndoStep DEF LogStep
<1>6. CASE WriteRefused
  <2>1. FileRows' = FileRows /\ index' = index /\ ~ Logged
    BY <1>6, FileRowsKept DEF WriteRefused, logVars, Logged
  <2> QED
    BY <1>6, <2>1 DEF WriteRefused, StoreInvariant, logVars
<1>7. CASE Apply
  <2>1. FileRows' = FileRows /\ Logged /\ at' \in {"ready", "snap_write"}
    BY <1>7, FileRowsKept DEF Apply, logVars, Logged
  <2> QED
    BY <1>7, <2>1 DEF Apply, StoreInvariant, logVars
<1>8. CASE Checkpoint \/ WriteTmp \/ FsyncTmp
  <2>1. /\ FileRows' = FileRows /\ index' = index /\ snapshot' = snapshot /\ pc' = pc
        /\ at \notin {"down", "logging"}
        /\ at' \in {"ready", "snap_write", "snap_fsync", "snap_rename"}
    BY <1>8, FileRowsKept DEF Checkpoint, WriteTmp, FsyncTmp, logVars
  <2> QED
    BY <2>1, <1>8 DEF StoreInvariant, StoreTypeOK, Lockstep
<1>9. CASE RenameTmp
  <2>1. pc = "open" /\ at = "snap_rename" /\ index = FileRows /\ snapshot \in Rows
    BY <1>9 DEF RenameTmp, StoreInvariant, StoreTypeOK, Lockstep
  <2>2. CASE at' = "ready"
    <3>1. FileRows' = FileRows /\ snapshot' = snapshot
      BY <1>9, <2>2, FileRowsKept DEF RenameTmp, logVars
    <3> QED
      BY <1>9, <2>1, <2>2, <3>1 DEF RenameTmp, StoreInvariant, logVars
  <2>3. CASE snapshot' = index /\ at' = "snap_dirsync"
    <3>1. FileRows = Recovered(snapshot, cells) /\ Readable(cells) = cells /\ cells \in Seq(LogEntry)
      BY <2>1, OpenLogIsRead
    <3>2. FileRows' = Recovered(index, cells)
      BY <1>9, <2>3, <3>1 DEF RenameTmp, logVars, FileRows, Readable
    <3>3. FileRows' = index
      BY <2>1, <3>1, <3>2, RecoveredTwice
    <3>4. index \in Rows /\ index # Damaged
      BY StoreAssumption DEF StoreTypeOK
    <3> QED
      BY <1>9, <2>1, <2>3, <3>3, <3>4 DEF RenameTmp, StoreInvariant, logVars
  <2> QED
    BY <1>9, <2>2, <2>3 DEF RenameTmp
<1>10. CASE FsyncDir
  <2>1. FileRows' = FileRows
    BY <1>10, FileRowsKept DEF FsyncDir, logVars
  <2> QED
    BY <1>10, <2>1 DEF FsyncDir, StoreInvariant, StoreTypeOK, Lockstep, logVars
<1>11. CASE EmptyLog
  <2>1. /\ pc = "open" /\ at = "reset" /\ index = FileRows /\ snapshot = index /\ snapshot \in Rows
        /\ index' = index /\ snapshot' = snapshot /\ at' \in {"ready", "resetting"} /\ pc' # "undo"
    BY <1>11 DEF EmptyLog, ResetTruncate, Return, StoreInvariant, StoreTypeOK, Lockstep
  <2>2. CASE Ftruncate(0)
    <3>1. cells' = <<>>
      BY <2>2, FtruncateEffect, EmptySeq
    <3>2. Readable(<<>>) = <<>>
      <4>1. /\ <<>> \in Seq(Cell) /\ Record = LogEntry
            /\ \A i \in 1..Len(<<>>) : <<>>[i] # Damaged
        BY StoreAssumption
      <4> QED
        BY <4>1, ReadableClean
    <3>3. FileRows' = index
      BY <2>1, <3>1, <3>2, NothingRecovered DEF FileRows
    <3> QED
      BY <2>1, <3>3 DEF StoreInvariant
  <2>3. CASE UNCHANGED fileVars
    <3>1. FileRows' = FileRows
      BY <2>1, <2>3, FileRowsKept DEF fileVars
    <3> QED
      BY <2>1, <3>1 DEF StoreInvariant
  <2> QED
    BY <1>11, <2>2, <2>3 DEF EmptyLog, ResetTruncate
<1>12. CASE CheckpointDone
  <2>1. FileRows' = FileRows /\ pc' = "open"
    BY <1>12, FileRowsKept DEF CheckpointDone, ResetFsync, Fsync, fileVars, Return
  <2> QED
    BY <1>12, <2>1 DEF CheckpointDone, StoreInvariant
<1>13. CASE Sync
  <2>1. FileRows' = FileRows /\ pc' = "open" /\ UNCHANGED storeVars
    BY <1>13, FileRowsKept DEF Sync, SyncLog, Fsync, fileVars, storeVars, Return
  <2> QED
    BY <1>13, <2>1 DEF Sync, storeVars, StoreInvariant
<1>14. CASE Close \/ StoreCrash \/ StorePowerLoss
  BY <1>0, <1>14 DEF Close, CloseLog, StoreCrash, Crash, StorePowerLoss, PowerLoss, Forget, LoseMemory
<1>15. CASE Rot
  BY <1>0, <1>15 DEF Rot, logVars, StoreTypeOK, Lockstep
<1>16. CASE UNCHANGED allVars
  <2>1. FileRows' = FileRows
    BY <1>16, FileRowsKept DEF allVars
  <2> QED
    BY <1>16, <2>1 DEF allVars, StoreInvariant, Logged, IsValidEnd
<1> QED
  BY <1>1, <1>2, <1>3, <1>4, <1>5, <1>6, <1>7, <1>8, <1>9, <1>10, <1>11, <1>12, <1>13, <1>14,
     <1>15, <1>16 DEF StoreNext

\* The inductive invariant: at each place in the store's code, which of its rows the
\* snapshot and the log already have.
THEOREM StoreInvariantCorrect ==
    ASSUME SafeFaults, SafeEntry, "fsync" \notin Faults
    PROVE  StoreSpec => []StoreInvariant
<1>1. StoreInit => StoreInvariant
  BY DEF StoreInit, LogInit, StoreInvariant
<1>2. LogTypeOK /\ LogInvariant /\ StoreTypeOK /\ StoreInvariant /\ [StoreNext]_allVars
      => StoreInvariant'
  BY StoreInvariantStep
<1> QED
  BY <1>1, <1>2, StoreImplementsLog, LogTypeCorrect, LogInvariantCorrect, StoreTypeCorrect,
     PTL DEF StoreSpec

\* Unless an fsync fails, the rows in memory between two calls are exactly what a
\* restart would read from the snapshot and the log: no failed write, crash,
\* power loss or checkpoint, however interleaved, makes them differ.
THEOREM MemoryIsFileHolds ==
    ASSUME SafeFaults, SafeEntry, "fsync" \notin Faults
    PROVE  StoreSpec => []MemoryIsFile
<1>1. StoreInvariant => MemoryIsFile
  BY DEF StoreInvariant, MemoryIsFile
<1> QED
  BY <1>1, StoreInvariantCorrect, PTL

-----------------------------------------------------------------------------
(* When fsync fails: a difference, and the record it comes from.           *)

\* While the files and the acknowledgements stay, so does what explains a difference.
LEMMA UnackedKept ==
    ASSUME NEW k, Readable(cells') = Readable(cells), acked' = acked
    PROVE  Unacked(k)' = Unacked(k)
BY DEF Unacked

\* A write begins: the only new difference is its own.
LEMMA StartWriteExplained ==
    ASSUME LogTypeOK, LogInvariant, StoreTypeOK, DifferenceExplained,
           NEW r \in LogEntry, StartWrite(r)
    PROVE  DifferenceExplained'
<1>0. /\ at = "ready" /\ snapshot \in Rows /\ pc = "open"
      /\ index' = index /\ snapshot' = snapshot /\ at' = "logging" /\ op' = r /\ snapshot # Damaged
      /\ \A k \in Key : index[k] = FileRows[k] \/ Unacked(k)
  BY DEF StartWrite, DifferenceExplained, StoreTypeOK, Lockstep, Pending
<1>1. /\ cells \in Seq(LogEntry) /\ Len(cells) \in Nat /\ FileRows = Recovered(snapshot, cells)
      /\ \A i \in 1..Len(cells) : cells[i] # Damaged
      /\ cells \in Seq(Cell) /\ r \in Cell /\ Damaged \in Cell
      /\ r # Damaged /\ Readable(cells) = cells
      /\ \A i \in acked : i <= Len(cells)
      /\ DOMAIN cells = 1..Len(cells)
  BY <1>0, OpenLogIsRead, StoreAssumption, LogAssumption, LenProperties
     DEF Cell, LogTypeOK, LogInvariant, AckedReadable, Clean
<1>2. CASE WriteRecord(r)
  <2>1. /\ cells' = Append(cells, r) /\ Logged' /\ pc' \in {"open", "append_fsync"}
        /\ pc' = "append_fsync" => acked' = acked
        /\ acked' \subseteq acked \cup {Len(cells) + 1}
    BY <1>2 DEF WriteRecord, Return, Logged
  <2>2. /\ cells' \in Seq(Cell) /\ \A i \in 1..Len(cells') : cells'[i] # Damaged
        /\ Len(cells') = Len(cells) + 1 /\ cells'[Len(cells')] = r
    BY <1>1, <2>1, AppendProperties
  <2>3. Readable(cells') = cells' /\ cells' # <<>>
    BY <1>1, <2>2, ReadableClean, StoreAssumption, EmptySeq
  <2>4. FileRows' = [FileRows EXCEPT ![r.key] = r.val]
    BY <1>0, <1>1, <2>1, <2>3, RecoveredAppend DEF FileRows
  <2>5. Len(cells') \notin acked
    BY <1>1, <2>2
  <2>6. ASSUME NEW k \in Key, k # r.key
        PROVE  index'[k] = FileRows'[k] \/ Unacked(k)'
    <3>1. CASE index[k] = FileRows[k]
      BY <1>0, <2>4, <2>6, <3>1
    <3>2. CASE Unacked(k)
      <4>1. PICK i \in DOMAIN cells : i \notin acked /\ Decides(cells, i, k)
        BY <1>1, <3>2 DEF Unacked
      <4>2. i \in DOMAIN cells' /\ Decides(cells', i, k)
        BY <1>1, <2>1, <2>6, <4>1, DecidersKept
      <4>3. i \notin acked'
        BY <1>1, <2>1, <4>1
      <4> QED
        BY <2>3, <4>2, <4>3 DEF Unacked
    <3> QED
      BY <1>0, <3>1, <3>2
  <2>7. \A k \in Key : index'[k] = FileRows'[k] \/ Pending(k)' \/ Unacked(k)'
    BY <1>0, <2>1, <2>6 DEF Pending
  <2> QED
    BY <1>0, <2>1, <2>2, <2>3, <2>5, <2>7 DEF DifferenceExplained
<1>3. CASE WriteFails
  <2>1. /\ cells' \in {cells, Append(cells, Damaged)} /\ size' = size /\ size = Len(cells)
        /\ pc' = "undo" /\ ~ Logged' /\ acked' = acked
    BY <1>0, <1>3 DEF WriteFails, LogInvariant, UndoExact, Logged
  <2>2. Clean(Len(cells))
    BY <1>1 DEF Clean
  <2>3. Readable(cells') = Readable(cells)
    BY <2>1, <2>2, HalfRecordUnread
  <2>4. FileRows' = FileRows
    BY <1>0, <2>3 DEF FileRows
  <2>5. IsValidEnd(size)'
    <3>1. /\ size \in 0..Len(cells') /\ \A i \in 1..size : cells'[i] = cells[i]
          /\ size < Len(cells') => cells'[size + 1] = Damaged
      BY <1>1, <2>1, AppendProperties
    <3> QED
      BY <1>1, <2>1, <3>1 DEF IsValidEnd
  <2>6. \A k \in Key : index'[k] = FileRows'[k] \/ Unacked(k)'
    BY <1>0, <2>1, <2>3, <2>4, UnackedKept
  <2> QED
    BY <1>0, <2>1, <2>5, <2>6 DEF DifferenceExplained
<1> QED
  BY <1>2, <1>3 DEF StartWrite

\* Undoing a failed write changes nothing that is read.
LEMMA UndoKeepsReadable ==
    ASSUME LogTypeOK, LogInvariant, SafeFaults, pc = "undo" => IsValidEnd(size), UndoWrite
    PROVE  Readable(cells') = Readable(cells)
<1>1. pc = "undo" /\ "write" \in Faults /\ IsValidEnd(size)
  BY DEF UndoWrite, LogInvariant, UndoExact
<1>2. Ftruncate(size) /\ size \in 0..Len(cells)
  BY <1>1 DEF UndoWrite, SafeFaults, IsValidEnd
<1> QED
  BY <1>1, <1>2, CutReadsSame

\* When an append's fsync fails, its record stays in the log unacknowledged.
LEMMA AppendFsyncExplained ==
    ASSUME LogTypeOK, LogInvariant, StoreTypeOK, DifferenceExplained,
           at = "logging", AppendFsync, UNCHANGED storeVars
    PROVE  DifferenceExplained'
<1>0. /\ pc = "append_fsync" /\ pc' = "open" /\ cells' = cells /\ Logged
      /\ snapshot' = snapshot /\ index' = index /\ at' = "logging" /\ op' = op
      /\ \/ reply' = "ok" /\ acked' = acked \cup {Len(cells)}
         \/ reply' = "failed" /\ acked' = acked
  BY DEF AppendFsync, Fsync, Return, Logged, storeVars
<1>1. /\ cells # <<>> /\ cells[Len(cells)] = op /\ Len(cells) \notin acked
      /\ \A k \in Key : index[k] = FileRows[k] \/ op.key = k \/ Unacked(k)
  BY <1>0 DEF DifferenceExplained, Pending
<1>2. cells \in Seq(LogEntry) /\ Readable(cells) = cells /\ FileRows' = FileRows
  BY <1>0, OpenLogIsRead, FileRowsKept
<1>3. /\ Len(cells) \in DOMAIN cells /\ Decides(cells, Len(cells), op.key)
  BY <1>1, <1>2, LastDecides
<1>4. ASSUME NEW k \in Key, k # op.key, Unacked(k)
      PROVE  Unacked(k)'
  <2>1. PICK i \in DOMAIN cells : i \notin acked /\ Decides(cells, i, k)
    BY <1>2, <1>4 DEF Unacked
  <2>2. i # Len(cells)
    BY <1>1, <1>4, <2>1 DEF Decides
  <2>3. i \notin acked'
    BY <1>0, <2>1, <2>2
  <2> QED
    BY <1>0, <1>2, <2>1, <2>3 DEF Unacked
<1>5. \A k \in Key : index'[k] = FileRows'[k] \/ Pending(k)' \/ Unacked(k)'
  <2>1. CASE reply' = "ok"
    <3>1. Logged'
      BY <1>0, <2>1 DEF Logged
    <3> QED
      BY <1>0, <1>1, <1>2, <1>4, <3>1 DEF Pending
  <2>2. CASE reply' = "failed" /\ acked' = acked
    <3>1. Unacked(op.key)'
      BY <1>0, <1>1, <1>2, <1>3, <2>2 DEF Unacked
    <3> QED
      BY <1>0, <1>1, <1>2, <1>4, <3>1
  <2> QED
    BY <1>0, <2>1, <2>2
<1>6. snapshot # Damaged
  BY <1>0 DEF DifferenceExplained
<1> QED
  BY <1>0, <1>1, <1>5, <1>6 DEF DifferenceExplained, Logged

\* A snapshot of the rows in memory, put in front of the log, brings no new difference.
LEMMA RenameExplained ==
    ASSUME LogTypeOK, LogInvariant, StoreTypeOK, DifferenceExplained, RenameTmp
    PROVE  DifferenceExplained'
<1>0. /\ pc = "open" /\ at = "snap_rename" /\ pc' = pc /\ cells' = cells /\ acked' = acked
      /\ index' = index /\ index \in Rows /\ index # Damaged /\ snapshot # Damaged
      /\ \/ at' = "ready" /\ snapshot' = snapshot
         \/ at' = "snap_dirsync" /\ snapshot' = index
      /\ \A k \in Key : index[k] = FileRows[k] \/ Unacked(k)
  BY StoreAssumption DEF RenameTmp, StoreTypeOK, Lockstep, logVars, DifferenceExplained, Pending
<1>1. cells \in Seq(LogEntry) /\ Readable(cells) = cells /\ FileRows = Recovered(snapshot, cells)
  BY <1>0, OpenLogIsRead
<1>2. \A k \in Key : Unacked(k)' = Unacked(k)
  BY <1>0, UnackedKept
<1>3. \A k \in Key : FileRows'[k] = FileRows[k] \/ FileRows'[k] = index[k]
  <2>1. FileRows' = Recovered(snapshot', cells)
    BY <1>0, <1>1 DEF FileRows
  <2>2. CASE snapshot' = snapshot
    BY <1>1, <2>1, <2>2
  <2>3. CASE snapshot' = index
    BY <1>1, <2>1, <2>3, RecoveredRow
  <2> QED
    BY <1>0, <2>2, <2>3
<1>4. \A k \in Key : index'[k] = FileRows'[k] \/ Unacked(k)'
  BY <1>0, <1>2, <1>3
<1> QED
  BY <1>0, <1>4 DEF DifferenceExplained

\* Emptying the log leaves the snapshot, which says what is in memory.
LEMMA EmptyLogRows ==
    ASSUME LogTypeOK, StoreTypeOK, DifferenceExplained, EmptyLog
    PROVE  /\ FileRows' = index \/ (UNCHANGED <<cells, acked>> /\ FileRows' = FileRows)
           /\ index' = index /\ snapshot' = snapshot /\ snapshot = index /\ snapshot # Damaged
           /\ at = "reset" /\ at' \in {"ready", "resetting"} /\ pc' \in {"open", "reset_fsync"}
<1>0. /\ pc = "open" /\ at = "reset" /\ snapshot = index /\ snapshot \in Rows
      /\ index' = index /\ snapshot' = snapshot /\ at' \in {"ready", "resetting"}
      /\ pc' \in {"open", "reset_fsync"} /\ snapshot # Damaged
  BY StoreAssumption DEF EmptyLog, ResetTruncate, Return, DifferenceExplained, StoreTypeOK, Lockstep
<1>1. CASE Ftruncate(0)
  <2>1. cells' = <<>>
    BY <1>1, FtruncateEffect, EmptySeq
  <2>2. Readable(<<>>) = <<>>
    <3>1. /\ <<>> \in Seq(Cell) /\ Record = LogEntry
          /\ \A i \in 1..Len(<<>>) : <<>>[i] # Damaged
      BY StoreAssumption
    <3> QED
      BY <3>1, ReadableClean
  <2>3. FileRows' = index
    BY <1>0, <2>1, <2>2, NothingRecovered DEF FileRows
  <2> QED
    BY <1>0, <2>3
<1>2. CASE UNCHANGED fileVars /\ UNCHANGED acked
  BY <1>0, <1>2, FileRowsKept DEF fileVars
<1> QED
  BY <1>0, <1>1, <1>2 DEF EmptyLog, ResetTruncate

\* Every step that leaves the files, the index and the write in progress alone keeps
\* the explanation of what differs.
LEMMA ExplanationKept ==
    ASSUME DifferenceExplained, Readable(cells') = Readable(cells), acked' = acked,
           snapshot' = snapshot, index' = index, at # "down", at # "logging", at' \notin {"down", "logging"},
           at' \in {"snap_dirsync", "reset", "resetting"} => at \in {"snap_dirsync", "reset", "resetting"},
           pc' \in {"open", "reset_fsync"}
    PROVE  DifferenceExplained'
<1>1. FileRows' = FileRows
  BY DEF FileRows
<1>2. \A k \in Key : index[k] = FileRows[k] \/ Unacked(k)
  BY DEF DifferenceExplained, Pending
<1>3. \A k \in Key : index'[k] = FileRows'[k] \/ Unacked(k)'
  BY <1>1, <1>2, UnackedKept
<1> QED
  BY <1>3 DEF DifferenceExplained

\* Every step: the rows in memory and in the files differ only by writes that failed.
LEMMA DifferenceExplainedStep ==
    ASSUME LogTypeOK, LogInvariant, StoreTypeOK, DifferenceExplained, SafeFaults,
           [StoreNext]_allVars
    PROVE  DifferenceExplained'
<1>0. ASSUME at' = "down", pc' \notin {"undo", "append_fsync"}
      PROVE  DifferenceExplained'
  BY <1>0 DEF DifferenceExplained
<1>1. CASE OpenLog
  <2>1. pc' \notin {"undo", "append_fsync"} /\ at' = "down"
    BY <1>1 DEF OpenLog, OpenStep, RefuseForeign, OpenFresh, CreateHeader, CreateFsync,
                CreateDirSync, OpenIntact, OpenDamaged, CutFsync, FailOpen, Opened, Return, storeVars
  <2> QED
    BY <1>0, <2>1
<1>2. CASE Load
  <2>1. FileRows' = FileRows /\ index' = FileRows
    BY <1>2, FileRowsKept DEF Load, logVars, FileRows
  <2> QED
    BY <1>2, <2>1 DEF Load, DifferenceExplained, logVars
<1>3. CASE LoadRefused
  BY <1>0, <1>3 DEF LoadRefused, CloseLog, Forget, storeVars
<1>4. ASSUME NEW k \in Key, Remove(k) \/ \E v \in Value : Put(k, v)
      PROVE  DifferenceExplained'
  <2>1. \A v \in Content : [key |-> k, val |-> v] \in LogEntry
    BY DEF LogEntry
  <2> QED
    BY <1>4, <2>1, StartWriteExplained DEF Remove, Put, Content
<1>5. CASE LogStep
  <2>1. CASE UndoWrite
    <3>1. Readable(cells') = Readable(cells)
      BY <2>1, UndoKeepsReadable DEF DifferenceExplained
    <3>2. /\ pc = "undo" /\ pc' = "open" /\ reply' = "failed" /\ acked' = acked
          /\ at = "logging" /\ UNCHANGED <<index, at, op, snapshot>> /\ ~ Logged /\ ~ Logged'
      BY <1>5, <2>1 DEF LogStep, UndoWrite, Return, Logged, storeVars
    <3>3. FileRows' = FileRows
      BY <3>1, <3>2 DEF FileRows
    <3>4. \A k \in Key : Unacked(k)' = Unacked(k)
      BY <3>1, <3>2, UnackedKept
    <3> QED
      BY <3>2, <3>3, <3>4 DEF DifferenceExplained, Pending
  <2> QED
    BY <1>5, <2>1, AppendFsyncExplained DEF LogStep
<1>6. CASE WriteRefused
  <2>1. /\ FileRows' = FileRows /\ index' = index /\ ~ Logged /\ snapshot' = snapshot /\ pc' = "open"
        /\ at = "logging" /\ at' = "ready"
    BY <1>6, FileRowsKept DEF WriteRefused, logVars, Logged
  <2>2. \A k \in Key : Unacked(k)' = Unacked(k)
    BY <1>6, UnackedKept DEF WriteRefused, logVars
  <2> QED
    BY <2>1, <2>2 DEF DifferenceExplained, Pending
<1>7. CASE Apply
  <2>1. /\ FileRows' = FileRows /\ Logged /\ at' \in {"ready", "snap_write"} /\ at = "logging"
        /\ pc = "open" /\ pc' = "open" /\ snapshot' = snapshot
        /\ index' = [index EXCEPT ![op.key] = op.val]
    BY <1>7, FileRowsKept DEF Apply, logVars, Logged
  <2>2. \A k \in Key : Unacked(k)' = Unacked(k)
    BY <1>7, UnackedKept DEF Apply, logVars
  <2>3. cells \in Seq(LogEntry) /\ FileRows = Recovered(snapshot, cells)
    BY <2>1, OpenLogIsRead
  <2>4. cells # <<>> /\ cells[Len(cells)] = op
    BY <2>1 DEF DifferenceExplained
  <2>5. op.key \in Key /\ FileRows[op.key] = op.val
    <3>1. op \in LogEntry /\ Len(cells) \in DOMAIN cells /\ Decides(cells, Len(cells), op.key)
      BY <2>3, <2>4, LastDecides
    <3>2. op.key \in Key
      BY <3>1 DEF LogEntry
    <3>3. Recovered(snapshot, cells)[op.key] = cells[Len(cells)].val
      BY <2>3, <3>1, <3>2, DeciderSays
    <3> QED
      BY <2>3, <2>4, <3>2, <3>3
  <2>6. \A k \in Key : index'[k] = FileRows'[k] \/ Unacked(k)'
    BY <2>1, <2>2, <2>5 DEF DifferenceExplained, Pending, StoreTypeOK, Rows
  <2> QED
    BY <2>1, <2>6 DEF DifferenceExplained
<1>8. CASE Checkpoint \/ WriteTmp \/ FsyncTmp
  <2>1. /\ UNCHANGED <<cells, acked, index, snapshot>> /\ pc' = pc /\ at \notin {"down", "logging"}
        /\ at' \in {"ready", "snap_write", "snap_fsync", "snap_rename"}
    BY <1>8 DEF Checkpoint, WriteTmp, FsyncTmp, logVars
  <2>2. pc = "open"
    BY <1>8, <2>1 DEF StoreTypeOK, Lockstep, Checkpoint, WriteTmp, FsyncTmp
  <2> QED
    BY <2>1, <2>2, ExplanationKept
<1>9. CASE RenameTmp
  BY <1>9, RenameExplained
<1>10. CASE FsyncDir
  BY <1>10, ExplanationKept DEF FsyncDir, StoreTypeOK, Lockstep, logVars
<1>11. CASE EmptyLog
  <2>1. /\ FileRows' = index \/ (UNCHANGED <<cells, acked>> /\ FileRows' = FileRows)
        /\ index' = index /\ snapshot' = snapshot /\ snapshot = index /\ snapshot # Damaged
        /\ at = "reset" /\ at' \in {"ready", "resetting"} /\ pc' \in {"open", "reset_fsync"}
    BY <1>11, EmptyLogRows
  <2>2. CASE FileRows' = index
    BY <2>1, <2>2 DEF DifferenceExplained
  <2>3. CASE UNCHANGED <<cells, acked>>
    BY <2>1, <2>3, ExplanationKept
  <2> QED
    BY <2>1, <2>2, <2>3
<1>12. CASE CheckpointDone
  <2>1. /\ UNCHANGED <<cells, acked, index, snapshot>> /\ pc' = "open" /\ at = "resetting" /\ at' = "ready"
    BY <1>12 DEF CheckpointDone, ResetFsync, Fsync, fileVars, Return
  <2> QED
    BY <2>1, ExplanationKept
<1>13. CASE Sync
  <2>1. /\ UNCHANGED <<cells, acked, index, snapshot, at>> /\ pc' = "open" /\ at = "ready"
    BY <1>13 DEF Sync, SyncLog, Fsync, fileVars, storeVars, Return
  <2> QED
    BY <2>1, ExplanationKept
<1>14. CASE Close \/ StoreCrash \/ StorePowerLoss
  BY <1>0, <1>14 DEF Close, CloseLog, StoreCrash, Crash, StorePowerLoss, PowerLoss, Forget, LoseMemory
<1>15. CASE Rot
  BY <1>0, <1>15 DEF Rot, logVars, StoreTypeOK, Lockstep
<1>16. CASE UNCHANGED allVars
  <2>1. FileRows' = FileRows /\ UNCHANGED <<cells, acked, index, snapshot, at, op, pc, reply, size>>
    BY <1>16, FileRowsKept DEF allVars
  <2>2. \A k \in Key : Unacked(k)' = Unacked(k)
    BY <2>1, UnackedKept
  <2> QED
    BY <2>1, <2>2 DEF DifferenceExplained, Pending, Logged, IsValidEnd
<1> QED
  BY <1>1, <1>2, <1>3, <1>4, <1>5, <1>6, <1>7, <1>8, <1>9, <1>10, <1>11, <1>12, <1>13, <1>14,
     <1>15, <1>16 DEF StoreNext

\* The inductive invariant holds of every store whose failures its log can undo.
THEOREM DifferenceExplainedCorrect ==
    ASSUME SafeFaults, SafeEntry
    PROVE  StoreSpec => []DifferenceExplained
<1>1. StoreInit => DifferenceExplained
  BY DEF StoreInit, LogInit, DifferenceExplained
<1>2. LogTypeOK /\ LogInvariant /\ StoreTypeOK /\ DifferenceExplained /\ [StoreNext]_allVars
      => DifferenceExplained'
  BY DifferenceExplainedStep
<1> QED
  BY <1>1, <1>2, StoreImplementsLog, LogTypeCorrect, LogInvariantCorrect, StoreTypeCorrect,
     PTL DEF StoreSpec

\* Even when fsyncs and truncations fail, and whatever the power leaves, a row in memory
\* differs from what a restart would read only where a call that failed left its record.
THEOREM OnlyFailedWritesDifferHolds ==
    ASSUME SafeFaults, SafeEntry
    PROVE  StoreSpec => []OnlyFailedWritesDiffer
<1>1. LogTypeOK /\ LogInvariant /\ StoreTypeOK /\ DifferenceExplained => OnlyFailedWritesDiffer
  <2> SUFFICES ASSUME LogTypeOK, LogInvariant, StoreTypeOK, DifferenceExplained, at = "ready"
               PROVE  \A k \in Key : index[k] # FileRows[k] =>
                        \E i \in DOMAIN cells : i \notin acked /\ Decides(cells, i, k)
    BY DEF OnlyFailedWritesDiffer
  <2>1. pc = "open"
    BY DEF StoreTypeOK, Lockstep
  <2>2. Readable(cells) = cells
    BY <2>1, OpenLogIsRead
  <2> QED
    BY <2>2 DEF DifferenceExplained, Pending, Unacked
<1> QED
  BY <1>1, DifferenceExplainedCorrect, StoreImplementsLog, LogTypeCorrect, LogInvariantCorrect,
     StoreTypeCorrect, PTL

-----------------------------------------------------------------------------
(* Acknowledged writes, as long as the machine keeps its power.            *)

\* A step that leaves the files' rows, the rows in memory and the acknowledged writes
\* as they were.
LEMMA ShowsAckedKept ==
    ASSUME MemoryShowsAcked, snapshot' = snapshot, Readable(cells') = Readable(cells),
           possible' = possible, at' = "down" \/ (at # "down" /\ index' = index)
    PROVE  MemoryShowsAcked'
<1>1. FileRows' = FileRows
  BY DEF FileRows
<1> QED
  BY <1>1 DEF MemoryShowsAcked, OpenShowsAcked

\* The next open reads what was read before, whatever it cuts off.
LEMMA OpenKeepsReadable ==
    ASSUME LogTypeOK, OpenStep
    PROVE  Readable(cells') = Readable(cells)
<1>1. CASE cells' = cells
  BY <1>1
<1>2. CASE \E n \in 0..Len(cells) : IsValidEnd(n) /\ Ftruncate(n)
  BY <1>2, CutReadsSame
<1> QED
  BY <1>1, <1>2 DEF OpenStep, RefuseForeign, OpenFresh, CreateHeader, CreateFsync, CreateDirSync,
                    OpenIntact, OpenDamaged, CutFsync, Fsync, fileVars

\* A call begins: each key may now have the value being written.
LEMMA StartWriteShowsAcked ==
    ASSUME LogTypeOK, LogInvariant, StoreTypeOK, DifferenceExplained, MemoryShowsAcked,
           NEW r \in LogEntry, StartWrite(r)
    PROVE  MemoryShowsAcked'
<1>0. /\ at = "ready" /\ snapshot \in Rows /\ pc = "open" /\ snapshot # Damaged
      /\ index' = index /\ snapshot' = snapshot
      /\ possible' = [possible EXCEPT ![r.key] = @ \cup {r.val}]
      /\ possible \in [Key -> SUBSET Content] /\ r.key \in Key
      /\ \A k \in Key : index[k] \in possible[k] /\ FileRows[k] \in possible[k]
  BY DEF StartWrite, StoreTypeOK, Lockstep, DifferenceExplained, MemoryShowsAcked, OpenShowsAcked,
         LogEntry
<1>1. \A k \in Key : possible[k] \subseteq possible'[k]
  BY <1>0
<1>2. r.val \in possible'[r.key]
  BY <1>0
<1>3. /\ cells \in Seq(LogEntry) /\ Len(cells) \in Nat /\ FileRows = Recovered(snapshot, cells)
      /\ \A i \in 1..Len(cells) : cells[i] # Damaged
      /\ cells \in Seq(Cell) /\ r \in Cell /\ r # Damaged
  BY <1>0, OpenLogIsRead, StoreAssumption, LogAssumption DEF Cell, LogTypeOK
<1>4. CASE WriteRecord(r)
  <2>1. cells' = Append(cells, r)
    BY <1>4 DEF WriteRecord
  <2>2. cells' \in Seq(Cell) /\ \A i \in 1..Len(cells') : cells'[i] # Damaged
    BY <1>3, <2>1, AppendProperties
  <2>3. FileRows' = Recovered(snapshot, Append(cells, r))
    BY <1>0, <2>1, <2>2, ReadableClean, StoreAssumption DEF FileRows
  <2>4. FileRows' = [FileRows EXCEPT ![r.key] = r.val] /\ FileRows \in Rows
    BY <1>0, <1>3, <2>3, RecoveredAppend, RecoveredType
  <2>5. \A k \in Key : FileRows'[k] \in possible'[k]
    BY <1>0, <1>1, <1>2, <2>4 DEF Rows
  <2> QED
    BY <1>0, <1>1, <2>5 DEF MemoryShowsAcked, OpenShowsAcked
<1>5. CASE WriteFails
  <2>1. cells' \in {cells, Append(cells, Damaged)} /\ Clean(Len(cells))
    BY <1>3, <1>5 DEF WriteFails, Clean
  <2>2. FileRows' = FileRows
    BY <1>0, <2>1, HalfRecordUnread DEF FileRows
  <2> QED
    BY <1>0, <1>1, <2>2 DEF MemoryShowsAcked, OpenShowsAcked
<1> QED
  BY <1>4, <1>5 DEF StartWrite

\* A call returns: its value is the only one its key may have, in memory and in the files.
LEMMA ApplyShowsAcked ==
    ASSUME LogTypeOK, LogInvariant, StoreTypeOK, DifferenceExplained, MemoryShowsAcked, Apply
    PROVE  MemoryShowsAcked'
<1>0. /\ at = "logging" /\ pc = "open" /\ Logged /\ snapshot # Damaged
      /\ index' = [index EXCEPT ![op.key] = op.val] /\ snapshot' = snapshot /\ cells' = cells
      /\ possible' = [possible EXCEPT ![op.key] = {op.val}] /\ index \in Rows
      /\ possible \in [Key -> SUBSET Content]
      /\ \A k \in Key : index[k] \in possible[k] /\ FileRows[k] \in possible[k]
      /\ cells # <<>> /\ cells[Len(cells)] = op
  BY DEF Apply, logVars, Logged, StoreTypeOK, DifferenceExplained, MemoryShowsAcked, OpenShowsAcked
<1>1. FileRows' = FileRows
  BY <1>0, FileRowsKept
<1>2. cells \in Seq(LogEntry) /\ FileRows = Recovered(snapshot, cells)
  BY <1>0, OpenLogIsRead
<1>3. op \in LogEntry /\ Len(cells) \in DOMAIN cells /\ Decides(cells, Len(cells), op.key)
  BY <1>0, <1>2, LastDecides
<1>4. op.key \in Key
  BY <1>3 DEF LogEntry
<1>5. FileRows[op.key] = op.val
  BY <1>0, <1>2, <1>3, <1>4, DeciderSays
<1>6. \A k \in Key : index'[k] \in possible'[k] /\ FileRows'[k] \in possible'[k]
  BY <1>0, <1>1, <1>4, <1>5 DEF Rows
<1> QED
  BY <1>0, <1>6 DEF MemoryShowsAcked, OpenShowsAcked

\* The process dies: half a record behind the log is not read.
LEMMA CrashKeepsReadable ==
    ASSUME LogTypeOK, LogInvariant, StoreTypeOK, StoreCrash
    PROVE  Readable(cells') = Readable(cells)
<1>1. CASE cells' = cells
  BY <1>1
<1>2. CASE cells' # cells
  <2>1. pc = "open" /\ cells' = Append(cells, Damaged)
    BY <1>2 DEF StoreCrash, Crash, InFlight
  <2>2. Clean(Len(cells))
    BY <2>1 DEF LogInvariant, OpenClean
  <2> QED
    BY <2>1, <2>2, HalfRecordUnread
<1> QED
  BY <1>1, <1>2

\* Every step but a power loss keeps what was acknowledged in the files and in memory.
LEMMA MemoryShowsAckedStep ==
    ASSUME LogTypeOK, LogInvariant, StoreTypeOK, DifferenceExplained, MemoryShowsAcked,
           SafeFaults, "power" \notin Crashes, [StoreNext]_allVars
    PROVE  MemoryShowsAcked'
<1>1. CASE OpenLog
  <2>1. /\ Readable(cells') = Readable(cells) /\ UNCHANGED storeVars /\ at = "down"
    BY <1>1, OpenKeepsReadable DEF OpenLog
  <2> QED
    BY <2>1, ShowsAckedKept DEF storeVars
<1>2. CASE Load
  <2>1. /\ FileRows' = FileRows /\ index' = FileRows /\ snapshot # Damaged
        /\ snapshot' = snapshot /\ possible' = possible
    BY <1>2, FileRowsKept DEF Load, logVars, FileRows
  <2> QED
    BY <2>1 DEF MemoryShowsAcked, OpenShowsAcked
<1>3. CASE LoadRefused \/ Close
  <2>1. cells' = cells /\ UNCHANGED <<snapshot, possible>> /\ at' = "down"
    BY <1>3 DEF LoadRefused, Close, CloseLog, Fsync, fileVars, storeVars, LoseMemory
  <2> QED
    BY <2>1, ShowsAckedKept
<1>4. ASSUME NEW k \in Key, Remove(k) \/ \E v \in Value : Put(k, v)
      PROVE  MemoryShowsAcked'
  <2>1. \A v \in Content : [key |-> k, val |-> v] \in LogEntry
    BY DEF LogEntry
  <2> QED
    BY <1>4, <2>1, StartWriteShowsAcked DEF Remove, Put, Content
<1>5. CASE LogStep
  <2>1. UNCHANGED storeVars /\ at = "logging"
    BY <1>5 DEF LogStep
  <2>2. CASE UndoWrite
    <3>1. Readable(cells') = Readable(cells)
      BY <2>2, UndoKeepsReadable DEF DifferenceExplained
    <3> QED
      BY <2>1, <3>1, ShowsAckedKept DEF storeVars
  <2>3. CASE AppendFsync
    <3>1. cells' = cells
      BY <2>3 DEF AppendFsync, Fsync
    <3> QED
      BY <2>1, <3>1, ShowsAckedKept DEF storeVars
  <2> QED
    BY <1>5, <2>2, <2>3 DEF LogStep
<1>6. CASE WriteRefused \/ Checkpoint \/ WriteTmp \/ FsyncTmp \/ FsyncDir
  <2>1. cells' = cells /\ UNCHANGED <<index, snapshot, possible>> /\ at # "down"
    BY <1>6 DEF WriteRefused, Checkpoint, WriteTmp, FsyncTmp, FsyncDir, logVars
  <2> QED
    BY <2>1, ShowsAckedKept
<1>7. CASE Apply
  BY <1>7, ApplyShowsAcked
<1>8. CASE RenameTmp
  <2>1. /\ pc = "open" /\ at = "snap_rename" /\ cells' = cells /\ index \in Rows
        /\ index' = index /\ index # Damaged /\ snapshot # Damaged /\ possible' = possible
        /\ snapshot' \in {snapshot, index}
        /\ \A k \in Key : index[k] \in possible[k] /\ FileRows[k] \in possible[k]
    BY <1>8, StoreAssumption
       DEF RenameTmp, StoreTypeOK, Lockstep, logVars, DifferenceExplained, MemoryShowsAcked,
           OpenShowsAcked
  <2>2. /\ cells \in Seq(LogEntry) /\ FileRows = Recovered(snapshot, cells)
        /\ FileRows' = Recovered(snapshot', cells)
    BY <2>1, OpenLogIsRead DEF FileRows
  <2>3. \A k \in Key : FileRows'[k] = FileRows[k] \/ FileRows'[k] = index[k]
    <3>1. CASE snapshot' = snapshot
      BY <2>2, <3>1
    <3>2. CASE snapshot' = index
      BY <2>2, <3>2, RecoveredRow
    <3> QED
      BY <2>1, <3>1, <3>2
  <2> QED
    BY <2>1, <2>3 DEF MemoryShowsAcked, OpenShowsAcked
<1>9. CASE EmptyLog
  <2>1. /\ FileRows' = index \/ FileRows' = FileRows
        /\ index' = index /\ snapshot' = snapshot /\ snapshot # Damaged /\ at = "reset"
    BY <1>9, EmptyLogRows
  <2>2. possible' = possible
    BY <1>9 DEF EmptyLog
  <2> QED
    BY <2>1, <2>2 DEF MemoryShowsAcked, OpenShowsAcked
<1>10. CASE CheckpointDone \/ Sync
  <2>1. cells' = cells /\ UNCHANGED <<index, snapshot, possible>> /\ at # "down"
    BY <1>10 DEF CheckpointDone, ResetFsync, Sync, SyncLog, Fsync, fileVars, storeVars
  <2> QED
    BY <2>1, ShowsAckedKept
<1>11. CASE StoreCrash
  <2>1. Readable(cells') = Readable(cells) /\ UNCHANGED <<snapshot, possible>> /\ at' = "down"
    BY <1>11, CrashKeepsReadable DEF StoreCrash, LoseMemory
  <2> QED
    BY <2>1, ShowsAckedKept
<1>12. CASE StorePowerLoss
  BY <1>12 DEF StorePowerLoss, PowerLoss
<1>13. CASE Rot
  BY <1>13 DEF Rot, MemoryShowsAcked, OpenShowsAcked
<1>14. CASE UNCHANGED allVars
  <2>1. FileRows' = FileRows /\ UNCHANGED <<index, at, snapshot, possible>>
    BY <1>14, FileRowsKept DEF allVars
  <2> QED
    BY <2>1 DEF MemoryShowsAcked, OpenShowsAcked
<1> QED
  BY <1>1, <1>2, <1>3, <1>4, <1>5, <1>6, <1>7, <1>8, <1>9, <1>10, <1>11, <1>12, <1>13, <1>14
     DEF StoreNext

\* The inductive invariant: what was acknowledged is in the snapshot and the log.
THEOREM MemoryShowsAckedCorrect ==
    ASSUME SafeFaults, SafeEntry, "power" \notin Crashes
    PROVE  StoreSpec => []MemoryShowsAcked
<1>1. StoreInit => MemoryShowsAcked
  <2> SUFFICES ASSUME StoreInit
               PROVE  MemoryShowsAcked
    OBVIOUS
  <2>1. /\ snapshot = NoRows /\ cells = <<>> /\ at = "down" /\ NoRows \in Rows
        /\ possible = [k \in Key |-> {Absent}]
    BY DEF StoreInit, LogInit, NoRows, Rows, Content
  <2>2. Readable(<<>>) = <<>>
    <3>1. /\ <<>> \in Seq(Cell) /\ Record = LogEntry
          /\ \A i \in 1..Len(<<>>) : <<>>[i] # Damaged
      BY StoreAssumption
    <3> QED
      BY <3>1, ReadableClean
  <2>3. FileRows = NoRows
    BY <2>1, <2>2, NothingRecovered DEF FileRows
  <2>4. \A k \in Key : FileRows[k] \in possible[k]
    BY <2>1, <2>3 DEF NoRows
  <2> QED
    BY <2>1, <2>4, StoreAssumption DEF MemoryShowsAcked, OpenShowsAcked
<1>2. LogTypeOK /\ LogInvariant /\ StoreTypeOK /\ DifferenceExplained /\ MemoryShowsAcked
      /\ [StoreNext]_allVars => MemoryShowsAcked'
  BY MemoryShowsAckedStep
<1> QED
  BY <1>1, <1>2, StoreImplementsLog, LogTypeCorrect, LogInvariantCorrect, StoreTypeCorrect,
     DifferenceExplainedCorrect, PTL DEF StoreSpec

\* An open store shows, for every key, its last acknowledged write or one begun after it:
\* whatever fsync or truncation failed, however often the process died and restarted, and
\* even if a snapshot nobody was using was damaged in between.
THEOREM OpenShowsAckedHolds ==
    ASSUME SafeFaults, SafeEntry, "power" \notin Crashes
    PROVE  StoreSpec => []OpenShowsAcked
<1>1. MemoryShowsAcked => OpenShowsAcked
  BY DEF MemoryShowsAcked
<1> QED
  BY <1>1, MemoryShowsAckedCorrect, PTL

\* And while its snapshots stay as they were written, so does what a restart finds: a
\* dying process loses no acknowledged write, whatever sync_every is.
THEOREM NoAckedWriteLostToCrashes ==
    ASSUME SafeFaults, SafeEntry, "power" \notin Crashes, ~ SnapshotMayRot
    PROVE  StoreSpec => []NoAckedWriteLost
<1>1. MemoryShowsAcked => NoAckedWriteLost
  BY DEF MemoryShowsAcked, NoAckedWriteLost, DiskRows
<1> QED
  BY <1>1, MemoryShowsAckedCorrect, PTL

-----------------------------------------------------------------------------
(* When every write is synced, the store implements CrashSafeMap: writes   *)
(* may fail and the power may go at any step.                              *)

\* What the log's theorems and the store's first ones assume holds for such a store.
LEMMA SyncedIsSafe ==
    ASSUME Synced
    PROVE  SafeFaults /\ SafeEntry /\ "fsync" \notin Faults /\ "ftruncate" \notin Faults
           /\ "process" \notin Crashes
BY DEF Synced, SafeFaults, SafeEntry

-----------------------------------------------------------------------------
(* What recovery reads of the log a power loss leaves.                     *)

\* The cells in front of the n-th, and with half a record behind them.
LEMMA PrefixCells ==
    ASSUME LogTypeOK, NEW n \in 0..Len(cells)
    PROVE  /\ Prefix(n) \in Seq(Cell) /\ Len(Prefix(n)) = n
           /\ \A i \in 1..n : Prefix(n)[i] = cells[i]
           /\ Append(Prefix(n), Damaged) \in Seq(Cell)
           /\ Len(Append(Prefix(n), Damaged)) = n + 1
           /\ \A i \in 1..n : Append(Prefix(n), Damaged)[i] = cells[i]
           /\ Append(Prefix(n), Damaged)[n + 1] = Damaged
<1>0. cells \in Seq(Cell) /\ Len(cells) \in Nat /\ Damaged \in Cell
  BY LenProperties DEF LogTypeOK, Cell
<1>1. /\ Prefix(n) \in Seq(Cell) /\ Len(Prefix(n)) = n
      /\ \A i \in 1..n : Prefix(n)[i] = cells[i]
  BY <1>0 DEF Prefix
<1> QED
  BY <1>0, <1>1, AppendProperties

\* All of the cells are a prefix, and none are.
LEMMA WholePrefix ==
    ASSUME LogTypeOK
    PROVE  Prefix(Len(cells)) = cells /\ Prefix(0) = <<>>
<1>0. cells \in Seq(Cell) /\ Len(cells) \in Nat
  BY LenProperties DEF LogTypeOK
<1> QED
  BY <1>0, EmptySeq DEF Prefix

\* What a power loss leaves of a log that is all on the disk is read like the log.
LEMMA SettledSurvivors ==
    ASSUME LogTypeOK, LogInvariant, LogOnDisk, pc \notin {"append_fsync", "reset_fsync"},
           pc = "undo" => IsValidEnd(size), NEW c \in Survivors
    PROVE  Readable(c) = Readable(cells)
<1>0. /\ cells \in Seq(Cell) /\ Len(cells) \in Nat /\ Damaged \in Cell
      /\ durable \in 0..Len(cells)
  BY LenProperties DEF LogTypeOK, Cell
<1>1. CASE c \in stale
  BY <1>1 DEF LogOnDisk
<1>2. CASE c \in InFlight
  <2>1. c # cells => pc = "open" /\ c = Append(cells, Damaged)
    BY <1>2 DEF InFlight
  <2>2. pc = "open" => Clean(Len(cells))
    BY DEF LogInvariant, OpenClean
  <2> QED
    BY <2>1, <2>2, HalfRecordUnread
<1>3. CASE pc # "undo" /\ c \notin stale \cup InFlight
  <2>1. durable = Len(cells)
    BY <1>3 DEF LogOnDisk
  <2>2. c = Prefix(Len(cells))
    BY <1>0, <1>3, <2>1 DEF Survivors, Flushed
  <2> QED
    BY <2>2, WholePrefix
<1>4. CASE pc = "undo" /\ c \notin stale \cup InFlight
  <2>0. /\ durable = size /\ size \in 0..Len(cells)
        /\ \A i \in 1..size : cells[i] # Damaged
        /\ size < Len(cells) => cells[size + 1] = Damaged
    BY <1>0, <1>4 DEF LogOnDisk, IsValidEnd
  <2>1. ASSUME NEW n \in size..Len(cells)
        PROVE  /\ Readable(Prefix(n)) = Readable(cells)
               /\ Readable(Append(Prefix(n), Damaged)) = Readable(cells)
    <3>1. n \in 0..Len(cells) /\ size \in Nat
      BY <1>0, <2>0
    <3> DEFINE whole == Prefix(n)
               half  == Append(Prefix(n), Damaged)
    <3>2. /\ whole \in Seq(Cell) /\ Len(whole) = n /\ \A i \in 1..n : whole[i] = cells[i]
          /\ half \in Seq(Cell) /\ Len(half) = n + 1 /\ \A i \in 1..n : half[i] = cells[i]
          /\ half[n + 1] = Damaged
      BY <3>1, PrefixCells
    <3> HIDE DEF whole, half
    <3>3. /\ size <= Len(whole) /\ size <= Len(half) /\ size <= Len(cells)
          /\ \A i \in 1..size : whole[i] = cells[i] /\ whole[i] # Damaged
          /\ \A i \in 1..size : half[i] = cells[i] /\ half[i] # Damaged
          /\ size < Len(whole) => whole[size + 1] = Damaged
          /\ size < Len(half) => half[size + 1] = Damaged
      BY <1>0, <2>0, <3>1, <3>2
    <3>4. Readable(whole) = Readable(cells)
      BY <1>0, <2>0, <3>1, <3>2, <3>3, SameReadable
    <3>5. Readable(half) = Readable(cells)
      BY <1>0, <2>0, <3>1, <3>2, <3>3, SameReadable
    <3> QED
      BY <3>4, <3>5 DEF whole, half
  <2>2. PICK n \in size..Len(cells) : c = Prefix(n) \/ c = Append(Prefix(n), Damaged)
    BY <1>0, <1>4, <2>0 DEF Survivors, Flushed
  <2>3. /\ Readable(Prefix(n)) = Readable(cells)
        /\ Readable(Append(Prefix(n), Damaged)) = Readable(cells)
    BY <2>1
  <2>4. CASE c = Prefix(n)
    BY <2>3, <2>4
  <2>5. CASE c = Append(Prefix(n), Damaged)
    BY <2>3, <2>5
  <2> QED
    BY <2>2, <2>4, <2>5
<1> QED
  BY <1>1, <1>2, <1>3, <1>4

\* So a file cut now can only come back as one that is read like it was.
LEMMA CutStale ==
    ASSUME LogTypeOK, LogInvariant, LogOnDisk, pc \notin {"append_fsync", "reset_fsync"},
           pc = "undo" => IsValidEnd(size), NEW n \in Nat, Ftruncate(n), NEW c \in stale'
    PROVE  Readable(c) = Readable(cells)
<1>1. c \in Survivors
  BY DEF Ftruncate, Survivors
<1> QED
  BY <1>1, SettledSurvivors

-----------------------------------------------------------------------------
(* What is on the disk.                                                    *)

\* With sync_every 1 nothing but the record or the cut in progress waits for the disk.
LEMMA LogOnDiskStep ==
    ASSUME LogTypeOK, LogInvariant, LogOnDisk, Synced, pc = "undo" => IsValidEnd(size),
           [LogNext]_logVars
    PROVE  LogOnDisk'
<1>0. /\ cells \in Seq(Cell) /\ Len(cells) \in Nat /\ durable \in 0..Len(cells)
      /\ size \in Nat /\ unsynced \in Nat
  BY LenProperties DEF LogTypeOK
<1>1. SafeFaults /\ "fsync" \notin Faults /\ "ftruncate" \notin Faults /\ "process" \notin Crashes
  BY SyncedIsSafe
<1> USE DEF LogOnDisk
<1>2. CASE RefuseForeign \/ OpenFresh \/ CreateHeader \/ CreateDirSync \/ OpenIntact
  BY <1>2 DEF RefuseForeign, OpenFresh, CreateHeader, CreateDirSync, OpenIntact, FailOpen, Opened,
              Return, fileVars
<1>3. CASE CreateFsync \/ CutFsync \/ AppendFsync \/ SyncLog \/ ResetFsync
  BY <1>1, <1>3 DEF CreateFsync, CutFsync, AppendFsync, SyncLog, ResetFsync, Fsync, Opened, Return
<1>4. CASE OpenDamaged
  <2>1. PICK n \in 0..Len(cells) : IsValidEnd(n) /\ Ftruncate(n)
    BY <1>1, <1>4 DEF OpenDamaged
  <2>2. pc = "closed" /\ pc' = "cut_fsync" /\ ~ IsValidEnd(Len(cells))
    BY <1>1, <1>4 DEF OpenDamaged
  <2>3. n \in Nat /\ n < Len(cells) /\ durable = Len(cells)
    BY <1>0, <2>1, <2>2
  <2>4. durable' = n /\ Len(cells') = n
    BY <2>1, <2>3, FtruncateEffect
  <2>5. \A c \in stale' : Readable(c) = Readable(cells)
    BY <2>1, <2>2, <2>3, CutStale
  <2>6. Readable(cells') = Readable(cells)
    BY <2>1, CutReadsSame
  <2> QED
    BY <2>2, <2>4, <2>5, <2>6 DEF Readable
<1>5. ASSUME NEW r \in Record, WriteRecord(r)
      PROVE  LogOnDisk'
  <2>1. /\ pc = "open" /\ pc' = "append_fsync" /\ durable = Len(cells) /\ durable' = durable
        /\ stale' = stale /\ cells' = Append(cells, r) /\ r \in Cell
    BY <1>0, <1>5 DEF WriteRecord, Synced, Cell
  <2>2. Len(cells') = Len(cells) + 1
    BY <1>0, <2>1, AppendProperties
  <2>3. Readable(cells) = cells
    BY <1>0, <2>1, ReadableClean, StoreAssumption DEF LogInvariant, OpenClean, Clean
  <2>4. Prefix(durable)' = cells
    <3>1. SubSeq(Append(cells, r), 1, Len(cells)) = cells
      BY <1>0, <2>1
    <3> QED
      BY <2>1, <3>1 DEF Prefix
  <2>5. \A c \in stale' : Readable(c) = Prefix(durable)'
    BY <2>1, <2>3, <2>4
  <2> QED
    BY <1>0, <2>1, <2>2, <2>5 DEF Readable
<1>6. CASE WriteFails
  <2>1. /\ pc = "open" /\ pc' = "undo" /\ durable' = durable /\ stale' = stale
        /\ cells' \in {cells, Append(cells, Damaged)}
    BY <1>6 DEF WriteFails
  <2>2. Readable(cells') = Readable(cells)
    BY <2>1, HalfRecordUnread DEF LogInvariant, OpenClean
  <2>3. durable' = size'
    BY <1>6 DEF WriteFails, LogInvariant, UndoExact
  <2> QED
    BY <2>1, <2>2, <2>3 DEF Readable
<1>7. CASE UndoWrite
  <2>1. Ftruncate(size) /\ pc = "undo" /\ pc' = "open" /\ durable = size
    BY <1>1, <1>7 DEF UndoWrite, Return
  <2>2. Len(cells') = size /\ durable' = size
    BY <1>0, <2>1, FtruncateEffect
  <2>3. \A c \in stale' : Readable(c) = Readable(cells)
    BY <1>0, <2>1, CutStale
  <2>4. Readable(cells') = Readable(cells)
    BY <1>0, <2>1, CutReadsSame
  <2> QED
    BY <2>1, <2>2, <2>3, <2>4 DEF Readable
<1>8. CASE ResetTruncate
  <2>1. Ftruncate(0) /\ pc' = "reset_fsync"
    BY <1>1, <1>8 DEF ResetTruncate
  <2>2. Len(cells') = 0 /\ durable' = 0
    BY <1>0, <2>1, FtruncateEffect
  <2> QED
    BY <2>1, <2>2
<1>9. CASE CloseLog
  BY <1>1, <1>9 DEF CloseLog, Forget, Fsync, fileVars
<1>10. CASE Crash
  BY <1>1, <1>10 DEF Crash
<1>11. CASE PowerLoss
  BY <1>11 DEF PowerLoss, Forget
<1>12. CASE UNCHANGED logVars
  BY <1>12 DEF logVars, Readable, Prefix
<1> QED
  BY <1>2, <1>3, <1>4, <1>5, <1>6, <1>7, <1>8, <1>9, <1>10, <1>11, <1>12 DEF LogNext, OpenStep

\* Every invariant of this module at once.
DiskState == /\ LogTypeOK /\ LogInvariant /\ StoreTypeOK /\ StoreInvariant
             /\ LogOnDisk /\ SnapshotOnDisk

\* While a record waits for its fsync, a power loss leaves the log with it or without it.
LEMMA AppendSurvivors ==
    ASSUME LogTypeOK, LogInvariant, LogOnDisk, pc = "append_fsync", NEW c \in Survivors
    PROVE  Readable(c) = Readable(cells) \/ Readable(c) = Prefix(durable)
<1>0. /\ cells \in Seq(Cell) /\ Len(cells) \in Nat /\ Damaged \in Cell
      /\ durable \in 0..Len(cells) /\ durable = Len(cells) - 1
      /\ \A i \in 1..Len(cells) : cells[i] # Damaged
  BY LenProperties DEF LogTypeOK, Cell, LogOnDisk, LogInvariant, OpenClean, Clean
<1>1. \/ c \in stale \/ c = cells \/ c = Prefix(Len(cells)) \/ c = Prefix(durable)
      \/ c = Append(Prefix(durable), Damaged)
  BY <1>0 DEF Survivors, InFlight, Flushed
<1> DEFINE whole == Prefix(durable)
           half  == Append(Prefix(durable), Damaged)
<1>2. /\ whole \in Seq(Cell) /\ Len(whole) = durable /\ \A i \in 1..durable : whole[i] = cells[i]
      /\ half \in Seq(Cell) /\ Len(half) = durable + 1 /\ \A i \in 1..durable : half[i] = cells[i]
      /\ half[durable + 1] = Damaged
  BY <1>0, PrefixCells
<1> HIDE DEF whole, half
<1>3. /\ \A i \in 1..Len(whole) : whole[i] # Damaged
      /\ \A i \in 1..durable : half[i] = whole[i] /\ half[i] # Damaged
      /\ durable \in Nat /\ durable <= Len(whole) /\ durable <= Len(half)
      /\ durable < Len(whole) => whole[durable + 1] = Damaged
      /\ durable < Len(half) => half[durable + 1] = Damaged
  BY <1>0, <1>2
<1>4. Readable(whole) = whole
  BY <1>2, <1>3, ReadableClean, StoreAssumption
<1>5. Readable(half) = Readable(whole)
  BY <1>2, <1>3, SameReadable
<1>6. Prefix(Len(cells)) = cells
  BY WholePrefix
<1>7. CASE c = whole
  BY <1>4, <1>7 DEF whole
<1>8. CASE c = half
  BY <1>4, <1>5, <1>8 DEF whole
<1>9. CASE c = cells
  BY <1>9
<1>10. CASE c \in stale
  BY <1>10 DEF LogOnDisk
<1> QED
  BY <1>1, <1>6, <1>7, <1>8, <1>9, <1>10 DEF whole, half

\* While the log is being emptied, it is there or it is not.
LEMMA ResetSurvivors ==
    ASSUME LogTypeOK, LogInvariant, LogOnDisk, pc = "reset_fsync", NEW c \in Survivors
    PROVE  c \in stale \/ c = cells
<1>0. cells = <<>> /\ Len(cells) = 0 /\ durable = 0
  BY EmptySeq DEF LogInvariant, HeaderFirst, LogOnDisk
<1>1. c \in stale \/ c = cells \/ c = Prefix(0)
  BY <1>0 DEF Survivors, InFlight, Flushed
<1> QED
  BY <1>0, <1>1, WholePrefix

\* Whatever snapshot and log a power loss leaves, they say what the files say, or
\* what they said before the write whose fsync is still to come.
LEMMA DiskSettled ==
    ASSUME DiskState, NEW s \in onDisk, NEW c \in Survivors
    PROVE  \/ Recovered(s, Readable(c)) = FileRows
           \/ (pc = "append_fsync" /\ Recovered(s, Readable(c)) = index)
<1> USE DEF DiskState
<1>1. CASE pc = "reset_fsync"
  <2>1. at = "resetting" /\ s = snapshot
    BY <1>1 DEF StoreTypeOK, Lockstep, SnapshotOnDisk
  <2>2. index = FileRows
    BY <2>1 DEF StoreInvariant
  <2>3. CASE c \in stale
    BY <2>1, <2>2, <2>3 DEF SnapshotOnDisk
  <2>4. CASE c = cells
    BY <2>1, <2>4 DEF FileRows
  <2> QED
    BY <1>1, <2>3, <2>4, ResetSurvivors
<1>2. CASE pc = "append_fsync"
  <2>1. s = snapshot /\ Recovered(snapshot, Prefix(durable)) = index
    BY <1>2 DEF StoreTypeOK, Lockstep, SnapshotOnDisk
  <2>2. CASE Readable(c) = Readable(cells)
    BY <2>1, <2>2 DEF FileRows
  <2>3. CASE Readable(c) = Prefix(durable)
    BY <1>2, <2>1, <2>3
  <2> QED
    BY <1>2, <2>2, <2>3, AppendSurvivors
<1>3. CASE pc \notin {"append_fsync", "reset_fsync"}
  <2>1. Readable(c) = Readable(cells)
    BY <1>3, SettledSurvivors DEF StoreInvariant
  <2>2. CASE at = "snap_dirsync"
    <3>1. pc = "open" /\ index = FileRows
      BY <2>2 DEF StoreTypeOK, Lockstep, StoreInvariant
    <3>2. Readable(cells) = cells
      BY <3>1, OpenLogIsRead
    <3> QED
      BY <2>1, <2>2, <3>1, <3>2 DEF SnapshotOnDisk
  <2>3. CASE at # "snap_dirsync"
    BY <2>1, <2>3 DEF SnapshotOnDisk, FileRows
  <2> QED
    BY <2>2, <2>3
<1> QED
  BY <1>1, <1>2, <1>3

\* The versions of the rows a power loss may leave.
Versions == /\ FileRows \in DiskRows /\ DiskRows \subseteq {FileRows, index}
            /\ pc # "append_fsync" => DiskRows = {FileRows}

\* They follow from what is on the disk.
LEMMA DiskHolds == DiskState => Versions
<1> SUFFICES ASSUME DiskState
             PROVE  Versions
  OBVIOUS
<1>1. snapshot \in onDisk /\ cells \in Survivors
  BY DEF DiskState, SnapshotOnDisk, Survivors, InFlight
<1>2. FileRows \in DiskRows
  BY <1>1 DEF DiskRows, FileRows
<1>3. ASSUME NEW rows \in DiskRows
      PROVE  rows = FileRows \/ (pc = "append_fsync" /\ rows = index)
  <2>1. CASE "power" \in Crashes
    <3>1. PICK s \in onDisk, c \in Survivors : rows = Recovered(s, Readable(c))
      BY <2>1 DEF DiskRows
    <3> QED
      BY <3>1, DiskSettled
  <2>2. CASE "power" \notin Crashes
    BY <2>2 DEF DiskRows
  <2> QED
    BY <2>1, <2>2
<1> QED
  BY <1>2, <1>3 DEF Versions

\* A power loss leaves the log in one of the forms it may have on the disk; a file that
\* vanishes with its directory entry had nothing on the disk.
LEMMA PowerLossSurvivor ==
    ASSUME LogTypeOK, LogInvariant, PowerLoss
    PROVE  cells' \in Survivors
<1>0. cells \in Seq(Cell) /\ Len(cells) \in Nat /\ cells \in Survivors
  BY LenProperties DEF LogTypeOK, Survivors, InFlight
<1>1. durable = 0 => <<>> \in Survivors
  BY <1>0, WholePrefix DEF Survivors, Flushed
<1>2. /\ header # "whole" => cells = <<>>
      /\ "header" \notin anchored => durable = 0
      /\ "entry" \notin anchored => durable = 0
  BY DEF LogInvariant, HeaderFirst, AnchorFirst, PowerLoss
<1>3. CASE header' = "whole" /\ cells' \in Survivors
  BY <1>3
<1>4. CASE header' # "whole" /\ cells' = <<>> /\ header' = header
  BY <1>0, <1>2, <1>4
<1>5. CASE cells' = <<>> /\ ("header" \notin anchored \/ "entry" \notin anchored)
  BY <1>1, <1>2, <1>5
<1> QED
  BY <1>3, <1>4, <1>5 DEF PowerLoss

\* A checkpoint's snapshot is on the disk before it replaces another, and the other is
\* gone before the log is emptied.
LEMMA SnapshotOnDiskStep ==
    ASSUME DiskState, Synced, [StoreNext]_allVars
    PROVE  SnapshotOnDisk'
<1>0. "fsync" \notin Faults /\ "ftruncate" \notin Faults /\ "process" \notin Crashes
  BY SyncedIsSafe
<1> USE DEF DiskState, SnapshotOnDisk
<1>1. CASE OpenLog
  <2>1. pc' # "append_fsync"
    BY <1>1 DEF OpenLog, OpenStep, RefuseForeign, OpenFresh, CreateHeader, CreateFsync,
                CreateDirSync, OpenIntact, OpenDamaged, CutFsync, FailOpen, Opened, Return
  <2> QED
    BY <1>1, <2>1 DEF OpenLog, storeVars
<1>2. CASE Load \/ LoadRefused
  BY <1>2 DEF Load, LoadRefused, CloseLog, Forget, logVars, storeVars
<1>3. ASSUME NEW r \in LogEntry, StartWrite(r)
      PROVE  SnapshotOnDisk'
  <2>1. /\ at = "ready" /\ pc = "open" /\ index = FileRows /\ at' = "logging"
        /\ UNCHANGED <<index, snapshot, onDisk, tmp>>
    BY <1>3 DEF StartWrite, StoreTypeOK, Lockstep, StoreInvariant
  <2>2. CASE pc' = "append_fsync"
    <3>1. /\ cells' = Append(cells, r) /\ durable' = durable /\ durable = Len(cells)
      BY <1>3, <2>1, <2>2 DEF StartWrite, WriteRecord, WriteFails, LogOnDisk
    <3>2. cells \in Seq(LogEntry) /\ Len(cells) \in Nat /\ FileRows = Recovered(snapshot, cells)
      BY <2>1, OpenLogIsRead
    <3>3. SubSeq(Append(cells, r), 1, Len(cells)) = cells
      BY <3>2
    <3>4. Prefix(durable)' = cells
      BY <3>1, <3>3 DEF Prefix
    <3> QED
      BY <2>1, <3>2, <3>4
  <2> QED
    BY <2>1, <2>2
<1>4. ASSUME NEW k \in Key, Remove(k) \/ \E v \in Value : Put(k, v)
      PROVE  SnapshotOnDisk'
  <2>1. \A v \in Content : [key |-> k, val |-> v] \in LogEntry
    BY DEF LogEntry
  <2> QED
    BY <1>3, <1>4, <2>1 DEF Remove, Put, Content
<1>5. CASE LogStep
  BY <1>5 DEF LogStep, AppendFsync, UndoWrite, Return, storeVars
<1>6. CASE WriteRefused \/ Apply \/ Checkpoint \/ WriteTmp \/ FsyncTmp
  BY <1>0, <1>6 DEF WriteRefused, Apply, Checkpoint, WriteTmp, FsyncTmp, logVars, StoreTypeOK, Lockstep
<1>7. CASE RenameTmp
  <2>1. /\ at = "snap_rename" /\ pc = "open" /\ pc' = "open" /\ cells' = cells /\ index' = index
        /\ index = FileRows /\ index \in Rows /\ onDisk = {snapshot} /\ tmp = "synced"
    BY <1>7 DEF RenameTmp, StoreTypeOK, Lockstep, StoreInvariant, logVars
  <2>2. CASE at' = "ready"
    BY <1>7, <2>1, <2>2 DEF RenameTmp
  <2>3. CASE snapshot' = index /\ onDisk' = onDisk \cup {index} /\ at' = "snap_dirsync"
    <3>1. cells \in Seq(LogEntry) /\ FileRows = Recovered(snapshot, cells) /\ snapshot \in Rows
      BY <2>1, OpenLogIsRead
    <3>2. Recovered(index, cells) = index
      BY <2>1, <3>1, RecoveredTwice
    <3> QED
      BY <2>1, <2>3, <3>1, <3>2
  <2> QED
    BY <1>7, <2>1, <2>2, <2>3 DEF RenameTmp
<1>8. CASE FsyncDir
  BY <1>0, <1>8 DEF FsyncDir, StoreTypeOK, Lockstep, logVars
<1>9. CASE EmptyLog
  <2>1. /\ at = "reset" /\ pc = "open" /\ index = FileRows /\ onDisk = {snapshot} /\ Ftruncate(0)
        /\ at' = "resetting" /\ pc' = "reset_fsync"
        /\ UNCHANGED <<index, snapshot, onDisk, tmp>>
    BY <1>0, <1>9 DEF EmptyLog, ResetTruncate, StoreTypeOK, Lockstep, StoreInvariant
  <2>3. \A c \in stale' : Readable(c) = Readable(cells)
    BY <2>1, CutStale
  <2>4. Recovered(snapshot, Readable(cells)) = index
    BY <2>1 DEF FileRows
  <2>5. \A c \in stale' : Recovered(snapshot', Readable(c)) = index'
    BY <2>1, <2>3, <2>4
  <2> QED
    BY <2>1, <2>5
<1>10. CASE CheckpointDone
  BY <1>10 DEF CheckpointDone, ResetFsync, Return
<1>11. CASE Sync
  BY <1>11 DEF Sync, SyncLog, Return, storeVars
<1>12. CASE Close
  BY <1>12 DEF Close, CloseLog, Forget, LoseMemory
<1>13. CASE StoreCrash
  BY <1>0, <1>13 DEF StoreCrash, Crash
<1>14. CASE StorePowerLoss
  BY <1>14 DEF StorePowerLoss, PowerLoss, Forget, LoseMemory
<1>15. CASE Rot
  BY <1>15 DEF Rot, Synced
<1>16. CASE UNCHANGED allVars
  BY <1>16 DEF allVars, Readable, Prefix
<1> QED
  BY <1>1, <1>2, <1>4, <1>5, <1>6, <1>7, <1>8, <1>9, <1>10, <1>11, <1>12, <1>13, <1>14, <1>15,
     <1>16 DEF StoreNext

\* Only a write and a power loss change what a restart would find.
LEMMA FileRowsStep ==
    ASSUME DiskState, DiskState', Synced, [StoreNext]_allVars,
           \A r \in LogEntry : ~ StartWrite(r), ~ StorePowerLoss
    PROVE  FileRows' = FileRows
<1>0. "fsync" \notin Faults /\ "ftruncate" \notin Faults /\ "process" \notin Crashes
  BY SyncedIsSafe
<1>1. ASSUME at \notin {"down", "logging"}, at' \notin {"down", "logging"}, index' = index
      PROVE  FileRows' = FileRows
  BY <1>1 DEF DiskState, StoreInvariant
<1>2. CASE OpenLog
  <2>1. snapshot' = snapshot
    BY <1>2 DEF OpenLog, storeVars
  <2>2. Readable(cells') = Readable(cells)
    <3>1. CASE OpenDamaged
      BY <1>0, <3>1, CutReadsSame DEF OpenDamaged, DiskState
    <3>2. CASE ~ OpenDamaged
      <4>1. cells' = cells
        BY <1>2, <3>2 DEF OpenLog, OpenStep, RefuseForeign, OpenFresh, CreateHeader, CreateFsync,
                          CreateDirSync, OpenIntact, CutFsync, Fsync, fileVars
      <4> QED
        BY <4>1
    <3> QED
      BY <3>1, <3>2
  <2> QED
    BY <2>1, <2>2 DEF FileRows
<1>3. CASE Load \/ WriteRefused \/ Apply \/ Checkpoint \/ WriteTmp \/ FsyncTmp \/ FsyncDir
           \/ UNCHANGED allVars
  BY <1>3, FileRowsKept DEF Load, WriteRefused, Apply, Checkpoint, WriteTmp, FsyncTmp, FsyncDir,
                            logVars, allVars
<1>4. CASE LoadRefused \/ Close \/ CheckpointDone \/ Sync
  <2>1. cells' = cells /\ snapshot' = snapshot
    BY <1>4 DEF LoadRefused, Close, CheckpointDone, Sync, CloseLog, ResetFsync, SyncLog, Fsync,
                fileVars, storeVars
  <2> QED
    BY <2>1, FileRowsKept
<1>5. CASE LogStep
  <2>1. CASE AppendFsync
    BY <1>5, <2>1, FileRowsKept DEF LogStep, AppendFsync, Fsync, storeVars
  <2>2. CASE UndoWrite
    <3>1. at = "logging" /\ ~ Logged /\ at' = "logging" /\ ~ Logged' /\ index' = index
      BY <1>5, <2>2 DEF LogStep, UndoWrite, Return, Logged, storeVars
    <3> QED
      BY <3>1 DEF DiskState, StoreInvariant
  <2> QED
    BY <1>5, <2>1, <2>2 DEF LogStep
<1>6. CASE RenameTmp
  BY <1>1, <1>6 DEF RenameTmp
<1>7. CASE EmptyLog
  BY <1>1, <1>7 DEF EmptyLog
<1>8. CASE StoreCrash \/ Rot
  BY <1>0, <1>8 DEF StoreCrash, Crash, Rot, Synced
<1>9. ASSUME NEW k \in Key, Remove(k) \/ \E v \in Value : Put(k, v)
      PROVE  FALSE
  <2>1. \A v \in Content : [key |-> k, val |-> v] \in LogEntry
    BY DEF LogEntry
  <2> QED
    BY <1>9, <2>1 DEF Remove, Put, Content
<1> QED
  BY <1>2, <1>3, <1>4, <1>5, <1>6, <1>7, <1>8, <1>9 DEF StoreNext

\* A write adds its record to the files, or nothing.
LEMMA FileRowsWritten ==
    ASSUME DiskState, DiskState', NEW r \in LogEntry, StartWrite(r)
    PROVE  /\ index = FileRows /\ index' = index /\ at = "ready" /\ at' = "logging"
           /\ FileRows' \in {FileRows, [FileRows EXCEPT ![r.key] = r.val]}
<1>1. /\ at = "ready" /\ at' = "logging" /\ index' = index /\ op' = r /\ index = FileRows
  BY DEF StartWrite, DiskState, StoreInvariant
<1> QED
  BY <1>1 DEF DiskState, StoreInvariant

\* A power loss leaves one of the versions on the disk, and a restart finds that one.
LEMMA PowerLossFinds ==
    ASSUME DiskState, StorePowerLoss
    PROVE  FileRows' \in DiskRows
<1>1. snapshot' \in onDisk /\ cells' \in Survivors /\ "power" \in Crashes
  BY PowerLossSurvivor DEF StorePowerLoss, PowerLoss, DiskState
<1>2. FileRows' = Recovered(snapshot', Readable(cells'))
  BY DEF FileRows, Readable
<1> QED
  BY <1>1, <1>2 DEF DiskRows

\* No step makes the files say anything but what was acknowledged or is being written.
LEMMA ShowsAckedStep ==
    ASSUME DiskState, DiskState', ShowsAcked, Synced, [StoreNext]_allVars
    PROVE  ShowsAcked'
<1> USE DEF ShowsAcked
<1>1. ASSUME NEW r \in LogEntry, StartWrite(r)
      PROVE  ShowsAcked'
  <2>1. /\ index = FileRows /\ index' = index /\ index \in Rows
        /\ FileRows' \in {FileRows, [FileRows EXCEPT ![r.key] = r.val]}
    BY <1>1, FileRowsWritten DEF DiskState, StoreTypeOK
  <2>2. possible' = [possible EXCEPT ![r.key] = @ \cup {r.val}] /\ possible \in [Key -> SUBSET Content]
    BY <1>1 DEF StartWrite, DiskState, StoreTypeOK
  <2>3. r.key \in Key /\ \A k \in Key : possible[k] \subseteq possible'[k]
    BY <2>2 DEF LogEntry
  <2>4. r.val \in possible'[r.key]
    BY <2>2, <2>3
  <2>5. \A k \in Key : FileRows'[k] = FileRows[k] \/ (k = r.key /\ FileRows'[k] = r.val)
    BY <2>1 DEF Rows
  <2> QED
    BY <2>1, <2>3, <2>4, <2>5
<1>2. CASE StorePowerLoss
  <2>1. FileRows' \in {FileRows, index} /\ (FileRows' = index => FileRows' = FileRows \/ at = "logging")
    <3>1. FileRows' \in DiskRows /\ Versions
      BY <1>2, PowerLossFinds, DiskHolds
    <3>2. pc = "append_fsync" => at = "logging"
      BY DEF DiskState, StoreTypeOK, Lockstep
    <3> QED
      BY <3>1, <3>2 DEF Versions
  <2>2. possible' = possible /\ at' = "down"
    BY <1>2 DEF StorePowerLoss, LoseMemory
  <2> QED
    BY <2>1, <2>2
<1>3. CASE Apply
  <2>1. /\ at = "logging" /\ Logged /\ at' # "logging" /\ op \in LogEntry /\ index \in Rows
        /\ possible' = [possible EXCEPT ![op.key] = {op.val}] /\ possible \in [Key -> SUBSET Content]
    BY <1>3 DEF Apply, Logged, DiskState, StoreTypeOK, Lockstep, NoOp
  <2>2. FileRows = [index EXCEPT ![op.key] = op.val]
    BY <2>1 DEF DiskState, StoreInvariant
  <2>3. FileRows' = FileRows
    BY <1>3, FileRowsKept DEF Apply, logVars
  <2>4. op.key \in Key /\ FileRows[op.key] = op.val
    BY <2>1, <2>2 DEF LogEntry, Rows
  <2>5. \A k \in Key : possible'[k] = possible[k] \/ (k = op.key /\ possible'[k] = {op.val})
    BY <2>1
  <2> QED
    BY <2>1, <2>3, <2>4, <2>5
<1>4. CASE ~ Apply /\ ~ StorePowerLoss /\ \A r \in LogEntry : ~ StartWrite(r)
  <2>1. FileRows' = FileRows
    BY <1>4, FileRowsStep
  <2>2. possible' = possible /\ (at' = "logging" => at = "logging" /\ index' = index)
    <3>1. ASSUME NEW k \in Key, Remove(k) \/ \E v \in Value : Put(k, v)
          PROVE  FALSE
      <4>1. \A v \in Content : [key |-> k, val |-> v] \in LogEntry
        BY DEF LogEntry
      <4> QED
        BY <1>4, <3>1, <4>1 DEF Remove, Put, Content
    <3>2. CASE OpenLog \/ Load \/ LoadRefused \/ LogStep \/ WriteRefused \/ Sync \/ UNCHANGED allVars
      BY <3>2 DEF OpenLog, Load, LoadRefused, LogStep, WriteRefused, Sync, storeVars, allVars
    <3>3. CASE Checkpoint \/ WriteTmp \/ FsyncTmp \/ RenameTmp \/ FsyncDir \/ EmptyLog \/ CheckpointDone
      BY <3>3 DEF Checkpoint, WriteTmp, FsyncTmp, RenameTmp, FsyncDir, EmptyLog, CheckpointDone
    <3>4. CASE Close \/ StoreCrash \/ Rot
      BY <3>4 DEF Close, StoreCrash, LoseMemory, Rot, Synced
    <3> QED
      BY <1>4, <3>1, <3>2, <3>3, <3>4 DEF StoreNext
  <2> QED
    BY <2>1, <2>2
<1> QED
  BY <1>1, <1>2, <1>3, <1>4

-----------------------------------------------------------------------------
(* The theorems.                                                           *)

\* With every write synced, what is on the disk is at each step what it has to be.
THEOREM DiskStateCorrect ==
    ASSUME Synced
    PROVE  StoreSpec => [](DiskState /\ ShowsAcked)
<1>1. StoreInit => LogOnDisk /\ SnapshotOnDisk /\ ShowsAcked
  <2> SUFFICES ASSUME StoreInit
               PROVE  LogOnDisk /\ SnapshotOnDisk /\ ShowsAcked
    OBVIOUS
  <2>1. NoRows \in Rows
    BY DEF NoRows, Rows, Content
  <2>2. LogOnDisk /\ SnapshotOnDisk
    BY <2>1, EmptySeq DEF StoreInit, LogInit, LogOnDisk, SnapshotOnDisk
  <2>3. FileRows = NoRows
    <3>1. /\ <<>> \in Seq(Cell) /\ Record = LogEntry
          /\ \A i \in 1..Len(<<>>) : <<>>[i] # Damaged
      BY StoreAssumption
    <3>2. Readable(<<>>) = <<>>
      BY <3>1, ReadableClean
    <3> QED
      BY <2>1, <3>2, NothingRecovered DEF StoreInit, LogInit, FileRows
  <2>4. ShowsAcked
    BY <2>3 DEF StoreInit, ShowsAcked, NoRows
  <2> QED
    BY <2>2, <2>4
<1>2. DiskState /\ [StoreNext]_allVars => LogOnDisk' /\ SnapshotOnDisk'
  BY LogStepOfStore, LogOnDiskStep, SnapshotOnDiskStep DEF DiskState, StoreInvariant
<1>3. DiskState /\ DiskState' /\ ShowsAcked /\ [StoreNext]_allVars => ShowsAcked'
  BY ShowsAckedStep
<1>4. SafeFaults /\ SafeEntry /\ "fsync" \notin Faults
  BY SyncedIsSafe
<1>5. StoreSpec => [](LogTypeOK /\ LogInvariant /\ StoreTypeOK /\ StoreInvariant)
  BY <1>4, StoreImplementsLog, LogTypeCorrect, LogInvariantCorrect, StoreTypeCorrect,
     StoreInvariantCorrect, PTL
<1>6. DiskState <=> /\ LogTypeOK /\ LogInvariant /\ StoreTypeOK /\ StoreInvariant
                    /\ LogOnDisk /\ SnapshotOnDisk
  BY DEF DiskState
<1> QED
  BY <1>1, <1>2, <1>3, <1>5, <1>6, PTL DEF StoreSpec

\* No crash ever leaves a damaged file where the snapshot is read.
THEOREM SnapshotWholeHolds ==
    ASSUME Synced
    PROVE  StoreSpec => []SnapshotWhole
<1>1. DiskState => SnapshotWhole
  BY StoreAssumption DEF DiskState, SnapshotOnDisk, SnapshotWhole
<1> QED
  BY <1>1, DiskStateCorrect, PTL

\* From the rename of a checkpoint to the end of the log's reset, whatever is left of
\* the log, replaying it over the new snapshot gives the rows in memory.
THEOREM CheckpointSafeHolds ==
    ASSUME Synced
    PROVE  StoreSpec => []CheckpointSafe
<1>1. DiskState => CheckpointSafe
  <2> SUFFICES ASSUME DiskState, at \in {"snap_dirsync", "reset", "resetting"}, NEW c \in Survivors
               PROVE  Recovered(snapshot, Readable(c)) = index
    BY DEF CheckpointSafe
  <2>1. snapshot \in onDisk /\ index = FileRows
    BY DEF DiskState, SnapshotOnDisk, StoreInvariant
  <2> QED
    BY <2>1, DiskSettled
<1> QED
  BY <1>1, DiskStateCorrect, PTL

\* Whatever write fails and whenever the power goes, a restart finds for every key the
\* value of its last acknowledged write, or of a write begun after it.
THEOREM NoAckedWriteLostHolds ==
    ASSUME Synced
    PROVE  StoreSpec => []NoAckedWriteLost
<1>1. DiskState /\ ShowsAcked => NoAckedWriteLost
  <2> SUFFICES ASSUME DiskState, ShowsAcked, NEW k \in Key, NEW rows \in DiskRows \cup {FileRows}
               PROVE  rows[k] \in possible[k]
    BY DEF NoAckedWriteLost
  <2>1. rows = FileRows \/ (pc = "append_fsync" /\ rows = index)
    BY DiskHolds DEF Versions
  <2>2. pc = "append_fsync" => at = "logging"
    BY DEF DiskState, StoreTypeOK, Lockstep
  <2> QED
    BY <2>1, <2>2 DEF ShowsAcked
<1> QED
  BY <1>1, DiskStateCorrect, PTL

\* With every write synced, the open store shows its acknowledged writes across power
\* losses too.
THEOREM OpenShowsAckedSynced ==
    ASSUME Synced
    PROVE  StoreSpec => []OpenShowsAcked
<1>1. DiskState /\ ShowsAcked => OpenShowsAcked
  BY DEF DiskState, StoreInvariant, ShowsAcked, OpenShowsAcked
<1> QED
  BY <1>1, DiskStateCorrect, PTL

-----------------------------------------------------------------------------
(* The store is the abstract map.                                          *)

\* Every step of the store is a step of the map, or leaves the map as it is.
LEMMA MapStep ==
    ASSUME DiskState, DiskState', Versions, Versions', Synced, [StoreNext]_allVars
    PROVE  [Map!MapNext]_(Map!mapVars)
<1>0. /\ "fsync" \notin Faults /\ "ftruncate" \notin Faults /\ "process" \notin Crashes
      /\ pc = "append_fsync" => at = "logging"
      /\ pc' = "append_fsync" => at' = "logging"
  BY SyncedIsSafe DEF DiskState, StoreTypeOK, Lockstep
<1>1. ASSUME index' = index, FileRows' = FileRows, pc' # "append_fsync",
             (at' = "down" <=> at = "down"), (at' = "ready" <=> at = "ready")
      PROVE  Map!Flush
  BY <1>1 DEF Map!Flush, Map!Forgets, Versions
<1>2. ASSUME at \notin {"down", "ready"}, at' # "down", index' = FileRows, FileRows' = FileRows,
             pc' # "append_fsync"
      PROVE  Map!Finish
  BY <1>2 DEF Map!Finish, Map!Forgets, Versions
<1>3. ASSUME at' = "down", index' = NoRows, FileRows' = FileRows
      PROVE  Map!Stop
  BY <1>0, <1>3 DEF Map!Stop, Map!Forgets, Versions, NoRows, Map!NoRows
<1>4. ASSUME at = "ready", at' \notin {"down", "ready"}, index' = index,
             \/ FileRows' = FileRows
             \/ \E k \in Key, v \in Content : FileRows' = [FileRows EXCEPT ![k] = v],
             DiskRows' \subseteq DiskRows \cup {FileRows'}
      PROVE  Map!Begin
  BY <1>4 DEF Map!Begin, Map!Forgets, Versions, Content, Map!Content
<1>5. ASSUME NEW r \in LogEntry, StartWrite(r)
      PROVE  Map!MapNext
  <2>1. /\ at = "ready" /\ at' = "logging" /\ index' = index /\ index = FileRows
        /\ FileRows' \in {FileRows, [FileRows EXCEPT ![r.key] = r.val]}
    BY <1>5, FileRowsWritten
  <2>2. r.key \in Key /\ r.val \in Content
    BY DEF LogEntry
  <2>3. DiskRows' \subseteq DiskRows \cup {FileRows'}
    BY <2>1 DEF Versions
  <2> QED
    BY <1>4, <2>1, <2>2, <2>3 DEF Map!MapNext
<1>6. CASE StorePowerLoss
  <2>1. FileRows' \in DiskRows
    BY <1>6, PowerLossFinds
  <2>2. at' = "down" /\ index' = NoRows /\ pc' # "append_fsync"
    BY <1>0, <1>6 DEF StorePowerLoss, LoseMemory
  <2>3. Map!PowerFails
    BY <2>1, <2>2 DEF Map!PowerFails, Versions, NoRows, Map!NoRows
  <2> QED
    BY <2>3 DEF Map!MapNext
<1>7. CASE ~ StorePowerLoss /\ \A r \in LogEntry : ~ StartWrite(r)
  <2>0. FileRows' = FileRows
    BY <1>7, FileRowsStep
  <2> USE DEF Map!MapNext
  <2>1. CASE UNCHANGED allVars
    <3>1. /\ index' = index /\ at' = at
      BY <2>1 DEF allVars
    <3>2. DiskRows' = DiskRows
      BY <2>0, <2>1 DEF allVars, DiskRows, Survivors, InFlight, Flushed, Prefix, Readable
    <3> QED
      BY <2>0, <3>1, <3>2 DEF Map!mapVars
  <2>2. CASE OpenLog
    <3>1. index' = index /\ at = "down" /\ at' = "down"
      BY <2>2 DEF OpenLog, storeVars
    <3> QED
      BY <1>0, <1>1, <2>0, <3>1
  <2>3. CASE Load
    <3>1. at = "down" /\ at' = "ready" /\ index' = FileRows
      BY <2>3 DEF Load, FileRows
    <3>2. Map!Restart
      BY <1>0, <2>0, <3>1 DEF Map!Restart, Map!Forgets, Versions
    <3> QED
      BY <3>2
  <2>4. CASE LoadRefused
    <3>1. index' = index /\ at = "down" /\ at' = "down"
      BY <2>4 DEF LoadRefused, storeVars
    <3> QED
      BY <1>0, <1>1, <2>0, <3>1
  <2>5. ASSUME NEW k \in Key, Remove(k) \/ \E v \in Value : Put(k, v)
        PROVE  FALSE
    <3>1. \A v \in Content : [key |-> k, val |-> v] \in LogEntry
      BY DEF LogEntry
    <3> QED
      BY <1>7, <2>5, <3>1 DEF Remove, Put, Content
  <2>6. CASE LogStep
    <3>1. index' = index /\ at = "logging" /\ at' = "logging" /\ pc' = "open"
      BY <2>6 DEF LogStep, AppendFsync, UndoWrite, Return, storeVars
    <3> QED
      BY <1>1, <2>0, <3>1
  <2>7. CASE WriteRefused
    <3>1. at = "logging" /\ at' = "ready" /\ pc' = "open" /\ index' = index /\ ~ Logged
      BY <2>7 DEF WriteRefused, Logged, logVars
    <3>2. index = FileRows
      BY <3>1 DEF DiskState, StoreInvariant
    <3> QED
      BY <1>2, <2>0, <3>1, <3>2
  <2>8. CASE Apply
    <3>1. /\ at = "logging" /\ Logged /\ at' \in {"ready", "snap_write"} /\ pc' = "open"
          /\ index' = [index EXCEPT ![op.key] = op.val]
      BY <2>8 DEF Apply, Logged, logVars
    <3>2. index' = FileRows
      BY <3>1 DEF DiskState, StoreInvariant
    <3> QED
      BY <1>2, <2>0, <3>1, <3>2
  <2>9. CASE Checkpoint
    <3>1. at = "ready" /\ at' = "snap_write" /\ index' = index
      BY <2>9 DEF Checkpoint
    <3>2. DiskRows' \subseteq DiskRows \cup {FileRows'}
      BY <1>0, <3>1 DEF Versions
    <3> QED
      BY <1>4, <2>0, <3>1, <3>2
  <2>10. CASE WriteTmp \/ FsyncTmp \/ RenameTmp \/ FsyncDir \/ EmptyLog \/ CheckpointDone
    <3>1. /\ at \notin {"down", "ready", "logging"} /\ at' \notin {"down", "logging"}
          /\ index' = index
      BY <2>10 DEF WriteTmp, FsyncTmp, RenameTmp, FsyncDir, EmptyLog, CheckpointDone
    <3>2. index = FileRows
      BY <3>1 DEF DiskState, StoreInvariant
    <3> QED
      BY <1>0, <1>2, <2>0, <3>1, <3>2
  <2>11. CASE Sync
    <3>1. index' = index /\ at = "ready" /\ at' = "ready"
      BY <2>11 DEF Sync, storeVars
    <3> QED
      BY <1>0, <1>1, <2>0, <3>1
  <2>12. CASE Close \/ StoreCrash
    <3>1. at' = "down" /\ index' = NoRows
      BY <2>12 DEF Close, StoreCrash, LoseMemory
    <3> QED
      BY <1>3, <2>0, <3>1
  <2>13. CASE Rot
    BY <2>13 DEF Rot, Synced
  <2> QED
    BY <1>7, <2>1, <2>2, <2>3, <2>4, <2>5, <2>6, <2>7, <2>8, <2>9, <2>10, <2>11, <2>12, <2>13 DEF StoreNext
<1> QED
  BY <1>5, <1>6, <1>7

\* With every write synced, the store with its log, its snapshots, its checkpoints, its
\* failed writes and its restarts after a power loss is the map of CrashSafeMap, in
\* which a call that has returned can not be undone.
THEOREM StoreImplementsMap ==
    ASSUME Synced
    PROVE  StoreSpec => StoreIsMap
<1>1. StoreInit /\ DiskState /\ Versions => Map!MapInit
  <2> SUFFICES ASSUME StoreInit, DiskState, Versions
               PROVE  Map!MapInit
    OBVIOUS
  <2>1. FileRows = NoRows
    <3>1. /\ <<>> \in Seq(Cell) /\ Record = LogEntry
          /\ \A i \in 1..Len(<<>>) : <<>>[i] # Damaged
      BY StoreAssumption
    <3>2. Readable(<<>>) = <<>> /\ NoRows \in Rows
      BY <3>1, ReadableClean DEF NoRows, Rows, Content
    <3> QED
      BY <3>2, NothingRecovered DEF StoreInit, LogInit, FileRows
  <2>2. DiskRows = {NoRows}
    BY <2>1 DEF StoreInit, LogInit, Versions
  <2> QED
    BY <2>1, <2>2 DEF StoreInit, Map!MapInit, NoRows, Map!NoRows
<1>2. DiskState /\ DiskState' /\ Versions /\ Versions' /\ [StoreNext]_allVars
      => [Map!MapNext]_(Map!mapVars)
  BY MapStep
<1> QED
  BY <1>1, <1>2, DiskStateCorrect, DiskHolds, PTL DEF StoreSpec, StoreIsMap, Map!MapSpec

=============================================================================
