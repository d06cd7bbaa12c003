--------------------------- MODULE WriteAheadLog ---------------------------
(***************************************************************************)
(* The write-ahead log of cpp/write_ahead_log.h, one action per system     *)
(* call: a crash can fall between any two of them.                         *)
(*                                                                         *)
(* The file is its magic string (header) followed by cells, each a whole   *)
(* record or a stretch of bytes that does not check out as one (Damaged).  *)
(* The model keeps what the operating system would read back (header,      *)
(* cells) apart from what is on the disk (durable, stale, anchored): a     *)
(* process crash loses nothing of the former, a power loss keeps only the  *)
(* latter.  size and unsynced are the fields size_ (counted in cells) and  *)
(* unsynced_ of the open log.                                              *)
(*                                                                         *)
(* acked and base are auxiliary: the positions of the records whose append *)
(* returned without an error, and the number of records found by the       *)
(* latest open.                                                            *)
(***************************************************************************)
EXTENDS Naturals, Sequences

CONSTANTS
    Record,          \* what a record can say
    Damaged,         \* a cell that is not a record
    SyncEvery,       \* sync_every: fsync on every k-th record
    Faults,          \* the system calls that may return an error
    Crashes,         \* the ways a run may end abruptly
    EntryNeedsSync,  \* does a new file need its directory fsync'd to survive?
    MaxLog           \* bound of the model: records in the log

ASSUME LogAssumption ==
    /\ Damaged \notin Record
    /\ SyncEvery \in Nat \ {0}
    /\ Faults \subseteq {"write", "fsync", "ftruncate"}
    /\ Crashes \subseteq {"process", "power"}
    /\ EntryNeedsSync \in BOOLEAN
    /\ MaxLog \in Nat

VARIABLES
    header,    \* the first bytes: "none", "short", "whole" or "foreign"
    cells,     \* what follows the header
    durable,   \* how many leading cells are known to be on the disk
    stale,     \* older contents a power loss can bring back
    anchored,  \* which of the header and the directory entry are on the disk
    pc,        \* where the process is inside the log's code
    size,      \* size_
    unsynced,  \* unsynced_
    reply,     \* how the last call to the log ended
    acked,     \* auxiliary: positions of the acknowledged records
    base       \* auxiliary: the records found when the log was opened

fileVars == <<header, cells, durable, stale, anchored>>
logVars  == <<header, cells, durable, stale, anchored,
              pc, size, unsynced, reply, acked, base>>

Cell == Record \cup {Damaged}

LogTypeOK ==
    /\ header \in {"none", "short", "whole", "foreign"}
    /\ cells \in Seq(Cell)
    /\ durable \in 0..Len(cells)
    /\ stale \subseteq Seq(Cell)
    /\ anchored \subseteq {"header", "entry"}
    /\ pc \in {"closed", "create_write", "create_fsync", "create_dirsync",
               "cut_fsync", "open", "append_fsync", "undo", "reset_fsync"}
    /\ size \in Nat
    /\ unsynced \in Nat
    /\ reply \in {"none", "ok", "failed"}
    /\ acked \subseteq Nat
    /\ base \in Nat

-----------------------------------------------------------------------------
(* The system calls on the file.                                           *)

Prefix(n) == SubSeq(cells, 1, n)

\* Everything written so far reaches the disk.
Fsync ==
    /\ durable' = Len(cells)
    /\ stale' = {}
    /\ anchored' = anchored \cup {"header"}
                     \cup IF EntryNeedsSync THEN {} ELSE {"entry"}
    /\ UNCHANGED <<header, cells>>

\* What the disk may have of the cells: everything up to the last fsync and some
\* of what came after, the last of it perhaps damaged.
Flushed ==
    {Prefix(n) : n \in durable..Len(cells)}
    \cup {Append(Prefix(n), Damaged) : n \in durable..(Len(cells) - 1)}

\* Cuts the file to n cells, or pads it with zero bytes up to n.  Until the
\* next fsync a power loss may bring the longer file back; where none can happen,
\* the model need not remember it.
Ftruncate(n) ==
    /\ cells' = [i \in 1..n |-> IF i <= Len(cells) THEN cells[i] ELSE Damaged]
    /\ durable' = IF n < durable THEN n ELSE durable
    /\ stale' = stale \cup IF "power" \in Crashes /\ n < Len(cells) THEN Flushed ELSE {}
    /\ UNCHANGED <<header, anchored>>

\* The offset just past the last good record: scan() stops at the first bad one.
IsValidEnd(n) ==
    /\ n \in 0..Len(cells)
    /\ \A i \in 1..n : cells[i] # Damaged
    /\ n < Len(cells) => cells[n + 1] = Damaged

Return(outcome) == pc' = "open" /\ reply' = outcome

\* The constructor throws: the file is closed and there is no log object.
FailOpen ==
    /\ pc' = "closed" /\ reply' = "failed"
    /\ UNCHANGED <<size, unsynced, acked, base>>

\* The constructor returns with n records in the log.
Opened(n) ==
    /\ Return("ok")
    /\ size' = n /\ unsynced' = 0 /\ base' = n
    /\ UNCHANGED acked

-----------------------------------------------------------------------------
(* Opening the log: the constructor and recover().                         *)

\* Not a log, and not a header cut short either: refused, left as it is.
RefuseForeign ==
    /\ pc = "closed" /\ header = "foreign"
    /\ FailOpen
    /\ UNCHANGED fileVars

\* No file yet, or a crash hit while its header was being written.
OpenFresh ==
    /\ pc = "closed" /\ header \in {"none", "short"}
    /\ \/ /\ header' = "none"
          /\ pc' = "create_write" /\ reply' = "none"
          /\ UNCHANGED <<size, unsynced, acked, base>>
       \/ "ftruncate" \in Faults /\ FailOpen /\ UNCHANGED header
    /\ UNCHANGED <<cells, durable, stale, anchored>>

CreateHeader ==
    /\ pc = "create_write"
    /\ \/ /\ header' = "whole"
          /\ pc' = "create_fsync"
          /\ UNCHANGED <<size, unsynced, reply, acked, base>>
       \/ "write" \in Faults /\ header' \in {"none", "short"} /\ FailOpen
    /\ UNCHANGED <<cells, durable, stale, anchored>>

CreateFsync ==
    /\ pc = "create_fsync"
    /\ \/ /\ Fsync
          /\ pc' = "create_dirsync"
          /\ UNCHANGED <<size, unsynced, reply, acked, base>>
       \/ "fsync" \in Faults /\ FailOpen /\ UNCHANGED fileVars

\* fsync_parent_dir is best effort: it says nothing when it fails.
CreateDirSync ==
    /\ pc = "create_dirsync"
    /\ Opened(0)
    /\ \/ anchored' = anchored \cup {"entry"}
       \/ "fsync" \in Faults /\ UNCHANGED anchored
    /\ UNCHANGED <<header, cells, durable, stale>>

\* Every byte checks out: nothing is written, and nothing is fsync'd.
OpenIntact ==
    /\ pc = "closed" /\ header = "whole"
    /\ IsValidEnd(Len(cells))
    /\ Opened(Len(cells))
    /\ UNCHANGED fileVars

\* Broken, and what format 1 did: the damaged tail stays in the file.
OpenSkipsDamage ==
    /\ pc = "closed" /\ header = "whole"
    /\ ~ IsValidEnd(Len(cells))
    /\ Opened(Len(cells))
    /\ UNCHANGED fileVars

\* Anything after the last intact record is cut off ...
OpenDamaged ==
    /\ pc = "closed" /\ header = "whole"
    /\ ~ IsValidEnd(Len(cells))
    /\ \/ /\ \E n \in 0..Len(cells) : IsValidEnd(n) /\ Ftruncate(n)
          /\ pc' = "cut_fsync" /\ reply' = "none"
          /\ UNCHANGED <<size, unsynced, acked, base>>
       \/ "ftruncate" \in Faults /\ FailOpen /\ UNCHANGED fileVars

\* ... and the cut is fsync'd.
CutFsync ==
    /\ pc = "cut_fsync"
    /\ \/ Fsync /\ Opened(Len(cells))
       \/ "fsync" \in Faults /\ FailOpen /\ UNCHANGED fileVars

-----------------------------------------------------------------------------
(* log_put and log_delete: append().                                       *)

\* The bound of the model: no append once the log, or size_, is at MaxLog.
HasRoom == Len(cells) < MaxLog /\ size < MaxLog

\* Broken: unsynced_++ >= sync_every_ fsyncs one record too late.
WriteRecordSyncsLate(r) ==
    /\ pc = "open" /\ HasRoom
    /\ cells' = Append(cells, r)
    /\ size' = size + 1
    /\ unsynced' = unsynced + 1
    /\ IF unsynced >= SyncEvery
       THEN pc' = "append_fsync" /\ reply' = "none" /\ UNCHANGED acked
       ELSE Return("ok") /\ acked' = acked \cup {Len(cells) + 1}
    /\ UNCHANGED <<header, durable, stale, anchored, base>>

WriteRecord(r) ==
    /\ pc = "open" /\ HasRoom
    /\ cells' = Append(cells, r)
    /\ size' = size + 1
    /\ unsynced' = unsynced + 1
    /\ IF unsynced + 1 >= SyncEvery
       THEN pc' = "append_fsync" /\ reply' = "none" /\ UNCHANGED acked
       ELSE Return("ok") /\ acked' = acked \cup {Len(cells) + 1}
    /\ UNCHANGED <<header, durable, stale, anchored, base>>

AppendFsync ==
    /\ pc = "append_fsync"
    /\ \/ /\ Fsync
          /\ Return("ok")
          /\ unsynced' = 0
          /\ acked' = acked \cup {Len(cells)}
       \/ /\ "fsync" \in Faults
          /\ Return("failed")
          /\ UNCHANGED <<header, cells, durable, stale, anchored, unsynced, acked>>
    /\ UNCHANGED <<size, base>>

\* write() fails, possibly after some of the record's bytes went out.
WriteFails ==
    /\ pc = "open" /\ HasRoom
    /\ "write" \in Faults
    /\ cells' \in {cells, Append(cells, Damaged)}
    /\ pc' = "undo" /\ reply' = "none"
    /\ UNCHANGED <<header, durable, stale, anchored, size, unsynced, acked, base>>

\* Broken: half a record stays where the next one lands.
UndoNothing ==
    /\ pc = "undo"
    /\ Return("failed")
    /\ UNCHANGED <<fileVars, size, unsynced, acked, base>>

\* The file is cut back to where it was; if that fails too, nothing is done.
UndoWrite ==
    /\ pc = "undo"
    /\ \/ Ftruncate(size)
       \/ "ftruncate" \in Faults /\ UNCHANGED fileVars
    /\ Return("failed")
    /\ UNCHANGED <<size, unsynced, acked, base>>

-----------------------------------------------------------------------------
(* sync(), reset() and the destructor.                                     *)

SyncLog ==
    /\ pc = "open" /\ unsynced > 0
    /\ \/ Fsync /\ Return("ok") /\ unsynced' = 0
       \/ "fsync" \in Faults /\ Return("failed") /\ UNCHANGED fileVars /\ UNCHANGED unsynced
    /\ UNCHANGED <<size, acked, base>>

ResetTruncate ==
    /\ pc = "open"
    /\ \/ /\ Ftruncate(0)
          /\ pc' = "reset_fsync" /\ reply' = "none"
          /\ acked' = {} /\ base' = 0
       \/ /\ "ftruncate" \in Faults
          /\ Return("failed")
          /\ UNCHANGED fileVars /\ UNCHANGED <<acked, base>>
    /\ UNCHANGED <<size, unsynced>>

ResetFsync ==
    /\ pc = "reset_fsync"
    /\ \/ Fsync /\ Return("ok") /\ size' = 0 /\ unsynced' = 0
       \/ /\ "fsync" \in Faults
          /\ Return("failed")
          /\ UNCHANGED fileVars /\ UNCHANGED <<size, unsynced>>
    /\ UNCHANGED <<acked, base>>

\* The process no longer has the log open.
Forget == pc' = "closed" /\ reply' = "none" /\ size' = 0 /\ unsynced' = 0

CloseLog ==
    /\ pc = "open"
    /\ Forget
    /\ \/ unsynced > 0 /\ Fsync
       \/ (unsynced = 0 \/ "fsync" \in Faults) /\ UNCHANGED fileVars
    /\ UNCHANGED <<acked, base>>

-----------------------------------------------------------------------------
(* What can happen to the process and the machine.                         *)

\* A write() in progress may have put out part of a record.
InFlight == IF pc = "open" THEN {cells, Append(cells, Damaged)} ELSE {cells}

\* The process dies.  A write() in progress may have put out part of a record
\* or of the header; the operating system keeps every byte it was given.
Crash ==
    /\ "process" \in Crashes
    /\ pc # "closed"
    /\ Forget
    /\ cells' \in InFlight
    /\ header' \in IF pc = "create_write" THEN {"none", "short", "whole"} ELSE {header}
    /\ UNCHANGED <<durable, stale, anchored, acked, base>>

\* What a power loss leaves of the cells, or of a version from before a cut.
Survivors == stale \cup InFlight \cup Flushed

\* The machine loses power.  A file whose directory entry was never fsync'd may
\* be gone.  The log still answers for the acknowledged records on the disk.
PowerLoss ==
    /\ "power" \in Crashes
    /\ Forget
    /\ \/ /\ header' \in IF "header" \in anchored \/ header = "foreign"
                         THEN {header} ELSE {"none", "short", "foreign", header}
          /\ cells' \in IF header' = "whole" THEN Survivors ELSE {<<>>}
          /\ anchored' = IF header' = "none" THEN {} ELSE {"header", "entry"}
       \/ /\ "entry" \notin anchored /\ header # "foreign"
          /\ header' = "none" /\ cells' = <<>> /\ anchored' = {}
    /\ durable' = Len(cells') /\ stale' = {}
    /\ acked' = {i \in acked : i <= durable}
    /\ base' = 0

-----------------------------------------------------------------------------

LogInit ==
    /\ header \in {"none", "foreign"}
    /\ cells = <<>> /\ durable = 0 /\ stale = {} /\ anchored = {}
    /\ pc = "closed" /\ size = 0 /\ unsynced = 0 /\ reply = "none"
    /\ acked = {} /\ base = 0

OpenStep == \/ RefuseForeign \/ OpenFresh \/ CreateHeader \/ CreateFsync
            \/ CreateDirSync \/ OpenIntact \/ OpenDamaged \/ CutFsync

LogNext ==
    \/ OpenStep
    \/ \E r \in Record : WriteRecord(r)
    \/ AppendFsync \/ WriteFails \/ UndoWrite
    \/ SyncLog \/ ResetTruncate \/ ResetFsync \/ CloseLog
    \/ Crash \/ PowerLoss

LogSpec == LogInit /\ [][LogNext]_logVars

-----------------------------------------------------------------------------
(* What the log promises.                                                  *)

Clean(n) == n <= Len(cells) /\ \A j \in 1..n : cells[j] # Damaged

\* An acknowledged record is never lost, and nothing in front of it stops
\* recovery from reaching it: append() cuts a failed write off again, and
\* recover() cuts a damaged tail off before anything lands behind it.
AckedReadable == \A i \in acked : Clean(i)

\* A record is only ever appended to a log without a damaged cell in it, so
\* what recovery reads back is everything that was written.
OpenClean == pc \in {"open", "append_fsync"} => Clean(Len(cells))

Larger(a, b) == IF a >= b THEN a ELSE b

\* "what's at risk is up to k - 1 acknowledged writes": past what is on the
\* disk and what was found when the log was opened, at most sync_every - 1
\* acknowledged records wait for an fsync, whatever failed in between.
AtRiskWindow == \A i \in acked : i < Larger(durable, base) + SyncEvery

\* The same bound without the exception for what an earlier process left
\* unsynced, as the comment in write_ahead_log.h and the README state it.
AtRiskBound == \A i \in acked : i < durable + SyncEvery

-----------------------------------------------------------------------------
(* Why it keeps them.                                                      *)

\* One kind of failure at a time: append() undoes a failed write with
\* ftruncate(size_), so ftruncate must not fail then, and size_ must be right,
\* which it is not after a reset() whose fsync failed.
SafeFaults == "write" \in Faults => Faults = {"write"}

\* Where the power may fail, nothing stands between writing a new file's header
\* and fsync'ing its directory, or the file system does not need the second.
SafeEntry ==
    EntryNeedsSync /\ "power" \in Crashes => "process" \notin Crashes /\ "fsync" \notin Faults

\* A file without a whole header is empty, and only a whole one is written to.
HeaderFirst ==
    /\ header # "whole" => cells = <<>>
    /\ pc \notin {"closed", "create_write"} => header = "whole"
    /\ pc \in {"create_write", "create_fsync", "create_dirsync", "reset_fsync"} => cells = <<>>

\* What is not anchored on the disk holds nothing that has to survive.
AnchorFirst == "power" \in Crashes =>
    /\ "header" \notin anchored => durable = 0
    /\ "entry" \notin anchored => durable = 0
    /\ EntryNeedsSync /\ "entry" \notin anchored =>
        \/ pc \in {"create_write", "create_fsync", "create_dirsync"}
        \/ pc = "closed" /\ header # "whole"

\* Every older version agrees with the cells on what is known to be on the disk.
StaleAgrees == \A s \in stale : durable <= Len(s) /\ \A j \in 1..durable : s[j] = cells[j]

\* While a failed write can be undone, size_ is where the undo has to cut.
UndoExact ==
    /\ pc \in {"open", "append_fsync"} /\ "write" \in Faults => size = Len(cells)
    /\ pc = "undo" =>
        /\ "write" \in Faults
        /\ Clean(size) /\ durable <= size
        /\ \A i \in acked : i <= size

LogInvariant ==
    /\ AckedReadable
    /\ OpenClean
    /\ pc = "cut_fsync" => Clean(Len(cells))
    /\ HeaderFirst /\ AnchorFirst /\ StaleAgrees /\ UndoExact

\* unsynced_ counts at least the records past the last fsync and the last open.
UnsyncedCounts ==
    /\ AtRiskWindow
    /\ pc \in {"open", "append_fsync"} => Len(cells) <= Larger(durable, base) + unsynced
    /\ pc = "undo" => size <= Larger(durable, base) + unsynced

\* With sync_every = 1, what is acknowledged is on the disk.
AckedDurable == \A i \in acked : i <= durable

=============================================================================
