---------------------------- MODULE DurableStore ----------------------------
(***************************************************************************)
(* cpp/durable_store.h with the snapshot file of cpp/snapshot.h, on top of *)
(* the log: every call of the store is the sequence of the log's steps it  *)
(* makes, and a crash or a power loss can fall between any two of them.    *)
(*                                                                         *)
(* The row index (gapped array or B+-tree) is the map it implements.  A    *)
(* missing snapshot file is the empty set of rows.  The directory entry a  *)
(* rename changes is on the disk once the directory is fsync'd: until then *)
(* a power loss may find the old snapshot or the new one (onDisk).         *)
(***************************************************************************)
EXTENDS WriteAheadLog, LogReplay

CONSTANTS
    CheckpointEvery,   \* checkpoint_every: 0 turns automatic checkpoints off
    SnapshotMayRot     \* may a snapshot be damaged after it was written?

ASSUME StoreAssumption ==
    /\ Record = LogEntry
    /\ CheckpointEvery \in Nat
    /\ SnapshotMayRot \in BOOLEAN
    /\ Damaged \notin Rows /\ Absent \notin LogEntry

VARIABLES
    index,      \* index_: the rows in memory
    writes,     \* writes_since_checkpoint_
    at,         \* where the process is inside the store's code
    op,         \* the record of the write in progress
    snapshot,   \* the snapshot file
    onDisk,     \* the snapshots a power loss may leave
    tmp,        \* the temporary snapshot file
    possible    \* auxiliary: for each key, what a restart may find

storeVars == <<index, writes, at, op, snapshot, onDisk, tmp, possible>>
allVars   == <<header, cells, durable, stale, anchored, pc, size, unsynced, reply, acked, base,
               index, writes, at, op, snapshot, onDisk, tmp, possible>>

\* No write is in progress.
NoOp == Absent

\* Where the store is in its code says where its log can be.
Lockstep ==
    /\ at = "down" => pc \in {"closed", "create_write", "create_fsync", "create_dirsync",
                              "cut_fsync", "open"}
    /\ at = "logging" => pc \in {"open", "append_fsync", "undo"}
    /\ at = "resetting" => pc = "reset_fsync"
    /\ at \notin {"down", "logging", "resetting"} => pc = "open"
    /\ at = "logging" <=> op # NoOp

StoreTypeOK ==
    /\ index \in Rows
    /\ writes \in Nat
    /\ at \in {"down", "ready", "logging", "snap_write", "snap_fsync", "snap_rename",
               "snap_dirsync", "reset", "resetting"}
    /\ op \in LogEntry \cup {NoOp}
    /\ snapshot \in Rows \cup {Damaged}
    /\ onDisk \subseteq Rows \cup {Damaged}
    /\ tmp \in {"none", "partial", "whole", "synced"}
    /\ possible \in [Key -> SUBSET Content]
    /\ Lockstep

\* The records replay() reads: those up to the first bad one.
Readable(c) ==
    SubSeq(c, 1, CHOOSE n \in 0..Len(c) : /\ \A i \in 1..n : c[i] # Damaged
                                          /\ n < Len(c) => c[n + 1] = Damaged)

-----------------------------------------------------------------------------
(* The constructor.                                                        *)

\* The log is opened and recovered first.
OpenLog == at = "down" /\ OpenStep /\ UNCHANGED storeVars

\* Broken: the snapshot alone, as if the log were always emptied with it.
LoadSnapshotOnly ==
    /\ at = "down" /\ pc = "open" /\ snapshot # Damaged
    /\ index' = snapshot
    /\ writes' = Len(Readable(cells))
    /\ at' = "ready"
    /\ UNCHANGED logVars /\ UNCHANGED <<op, snapshot, onDisk, tmp, possible>>

\* The snapshot's rows with what the log has gathered since.
Load ==
    /\ at = "down" /\ pc = "open" /\ snapshot # Damaged
    /\ index' = Recovered(snapshot, Readable(cells))
    /\ writes' = Len(Readable(cells))
    /\ at' = "ready"
    /\ UNCHANGED logVars /\ UNCHANGED <<op, snapshot, onDisk, tmp, possible>>

\* Broken: a damaged snapshot is skipped.
LoadSkipsDamage ==
    /\ at = "down" /\ pc = "open" /\ snapshot = Damaged
    /\ index' = Recovered(NoRows, Readable(cells))
    /\ writes' = Len(Readable(cells))
    /\ at' = "ready"
    /\ UNCHANGED logVars /\ UNCHANGED <<op, snapshot, onDisk, tmp, possible>>

\* A snapshot that fails its checksum is refused: the log is closed again.
LoadRefused ==
    /\ at = "down" /\ pc = "open" /\ snapshot = Damaged
    /\ CloseLog
    /\ UNCHANGED storeVars

-----------------------------------------------------------------------------
(* put and remove: the log first, then the index.                          *)

StartWrite(r) ==
    /\ at = "ready"
    /\ WriteRecord(r) \/ WriteFails
    /\ at' = "logging" /\ op' = r
    /\ possible' = [possible EXCEPT ![r.key] = @ \cup {r.val}]
    /\ UNCHANGED <<index, writes, snapshot, onDisk, tmp>>

Put(k, v) == StartWrite([key |-> k, val |-> v])

\* A key that is not there returns false before anything is logged.
Remove(k) == index[k] # Absent /\ StartWrite([key |-> k, val |-> Absent])

LogStep ==
    /\ at = "logging"
    /\ AppendFsync \/ UndoWrite
    /\ UNCHANGED storeVars

\* The log threw: so does the call, and the index is not touched.
WriteRefused ==
    /\ at = "logging" /\ pc = "open" /\ reply = "failed"
    /\ at' = "ready" /\ op' = NoOp
    /\ UNCHANGED logVars /\ UNCHANGED <<index, writes, snapshot, onDisk, tmp, possible>>

\* The index takes the write, and after_write() may start a checkpoint.
Apply ==
    /\ at = "logging" /\ pc = "open" /\ reply = "ok"
    /\ index' = [index EXCEPT ![op.key] = op.val]
    /\ possible' = [possible EXCEPT ![op.key] = {op.val}]
    /\ op' = NoOp
    /\ IF CheckpointEvery = 0
       THEN at' = "ready" /\ UNCHANGED writes
       ELSE /\ writes' = writes + 1
            /\ at' = IF writes + 1 >= CheckpointEvery THEN "snap_write" ELSE "ready"
    /\ UNCHANGED logVars /\ UNCHANGED <<snapshot, onDisk, tmp>>

-----------------------------------------------------------------------------
(* checkpoint(): write_snapshot, then the log's reset().                   *)

Checkpoint ==
    /\ at = "ready" /\ at' = "snap_write"
    /\ UNCHANGED logVars /\ UNCHANGED <<index, writes, op, snapshot, onDisk, tmp, possible>>

\* Broken: the temporary file is renamed into place without an fsync.
WriteTmpUnsynced ==
    /\ at = "snap_write"
    /\ tmp' = "whole" /\ at' = "snap_rename"
    /\ UNCHANGED logVars /\ UNCHANGED <<index, writes, op, snapshot, onDisk, possible>>

WriteTmp ==
    /\ at = "snap_write"
    /\ \/ tmp' = "whole" /\ at' = "snap_fsync"
       \/ "write" \in Faults /\ tmp' \in {tmp, "partial"} /\ at' = "ready"
    /\ UNCHANGED logVars /\ UNCHANGED <<index, writes, op, snapshot, onDisk, possible>>

FsyncTmp ==
    /\ at = "snap_fsync"
    /\ \/ tmp' = "synced" /\ at' = "snap_rename"
       \/ "fsync" \in Faults /\ at' = "ready" /\ UNCHANGED tmp
    /\ UNCHANGED logVars /\ UNCHANGED <<index, writes, op, snapshot, onDisk, possible>>

\* Broken: the log is emptied before the snapshot is in place.
ResetBeforeRename ==
    /\ at = "snap_rename" /\ ResetTruncate
    /\ UNCHANGED storeVars

RenameTmp ==
    /\ at = "snap_rename"
    /\ \/ /\ snapshot' = index
          /\ onDisk' = onDisk \cup {index} \cup IF tmp = "synced" THEN {} ELSE {Damaged}
          /\ tmp' = "none" /\ at' = "snap_dirsync"
       \/ "write" \in Faults /\ at' = "ready" /\ UNCHANGED <<snapshot, onDisk, tmp>>
    /\ UNCHANGED logVars /\ UNCHANGED <<index, writes, op, possible>>

\* Broken: the directory is not fsync'd after the rename.
FsyncDirSkipped ==
    /\ at = "snap_dirsync" /\ at' = "reset"
    /\ UNCHANGED logVars /\ UNCHANGED <<index, writes, op, snapshot, onDisk, tmp, possible>>

\* fsync_parent_dir says nothing when it fails.
FsyncDir ==
    /\ at = "snap_dirsync" /\ at' = "reset"
    /\ onDisk' = {snapshot} \/ ("fsync" \in Faults /\ UNCHANGED onDisk)
    /\ UNCHANGED logVars /\ UNCHANGED <<index, writes, op, snapshot, tmp, possible>>

EmptyLog ==
    /\ at = "reset"
    /\ ResetTruncate
    /\ at' = IF pc' = "reset_fsync" THEN "resetting" ELSE "ready"
    /\ UNCHANGED <<index, writes, op, snapshot, onDisk, tmp, possible>>

CheckpointDone ==
    /\ at = "resetting" /\ at' = "ready"
    /\ ResetFsync
    /\ writes' = IF reply' = "ok" THEN 0 ELSE writes
    /\ UNCHANGED <<index, op, snapshot, onDisk, tmp, possible>>

-----------------------------------------------------------------------------
(* sync(), the destructor, crashes and the disk.                           *)

Sync == at = "ready" /\ SyncLog /\ UNCHANGED storeVars

\* What the process had in memory is gone.
LoseMemory ==
    /\ at' = "down" /\ index' = NoRows /\ writes' = 0 /\ op' = NoOp
    /\ UNCHANGED possible

Close ==
    /\ at = "ready"
    /\ CloseLog
    /\ LoseMemory
    /\ UNCHANGED <<snapshot, onDisk, tmp>>

\* Only a write() in progress can leave part of a record behind.
StoreCrash ==
    /\ Crash
    /\ at # "ready" => cells' = cells
    /\ LoseMemory
    /\ UNCHANGED <<snapshot, onDisk, tmp>>

StorePowerLoss ==
    /\ PowerLoss
    /\ LoseMemory
    /\ snapshot' \in onDisk /\ onDisk' = {snapshot'}
    /\ tmp' = IF tmp = "none" THEN "none" ELSE "partial"

\* "damage that happens afterwards", to a snapshot nobody is using.
Rot ==
    /\ SnapshotMayRot
    /\ at = "down" /\ snapshot # NoRows
    /\ snapshot' = Damaged /\ onDisk' = {Damaged}
    /\ UNCHANGED logVars /\ UNCHANGED <<index, writes, at, op, tmp, possible>>

-----------------------------------------------------------------------------

StoreInit ==
    /\ LogInit
    /\ index = NoRows /\ writes = 0 /\ at = "down" /\ op = NoOp
    /\ snapshot = NoRows /\ onDisk = {NoRows} /\ tmp = "none"
    /\ possible = [k \in Key |-> {Absent}]

StoreNext ==
    \/ OpenLog \/ Load \/ LoadRefused
    \/ \E k \in Key : Remove(k) \/ \E v \in Value : Put(k, v)
    \/ LogStep \/ WriteRefused \/ Apply
    \/ Checkpoint \/ WriteTmp \/ FsyncTmp \/ RenameTmp \/ FsyncDir \/ EmptyLog \/ CheckpointDone
    \/ Sync \/ Close \/ StoreCrash \/ StorePowerLoss \/ Rot

StoreSpec == StoreInit /\ [][StoreNext]_allVars

-----------------------------------------------------------------------------
(* What the store promises.                                                *)

\* What a restart finds, and what a power loss may leave of it.
FileRows == Recovered(snapshot, Readable(cells))
DiskRows ==
    IF "power" \in Crashes
    THEN {Recovered(s, Readable(c)) : s \in onDisk, c \in Survivors}
    ELSE {FileRows}

\* Between two calls the rows in memory are those a restart would find: a call
\* that failed left no record behind, and no checkpoint lost or revived a row.
MemoryIsFile == at = "ready" => index = FileRows

\* A call that failed may have left its record: then, and only then, a restart
\* finds something else, and it finds what the failed call was to write.
OnlyFailedWritesDiffer ==
    at = "ready" => \A k \in Key : index[k] # FileRows[k] =>
        \E i \in DOMAIN cells : i \notin acked /\ Decides(cells, i, k)

\* "either fully there after a restart or not there at all": whatever fails and
\* whenever, each key has the last value whose write was acknowledged, or that
\* of a write begun after it.
NoAckedWriteLost ==
    \A k \in Key : \A rows \in DiskRows \cup {FileRows} : rows[k] \in possible[k]

\* "A crash in between leaves the new snapshot plus a log of writes it already
\* contains, and replaying those on top of it ends in the same state": from the
\* rename on, whatever is left of the log.
CheckpointSafe ==
    at \in {"snap_dirsync", "reset", "resetting"} =>
        \A c \in Survivors : Recovered(snapshot, Readable(c)) = index

\* "a crash can't leave a half-written snapshot where startup will read it".
SnapshotWhole == Damaged \notin onDisk

\* "A snapshot that fails it is refused, not skipped": an open store shows for
\* every key its last acknowledged write, or a write begun after it, so it never
\* opens on what the log alone says once a checkpoint has emptied the log into a
\* snapshot that was then damaged.
OpenShowsAcked == at # "down" => \A k \in Key : index[k] \in possible[k]

Map == INSTANCE CrashSafeMap WITH
    AckIsDurable <- "process" \notin Crashes /\ SyncEvery = 1,
    view   <- index,
    status <- CASE at = "down" -> "down" [] at = "ready" -> "ready" [] OTHER -> "busy",
    file   <- FileRows,
    disk   <- DiskRows

\* The store, with its log, its snapshots and its restarts, is the map of
\* CrashSafeMap.
StoreIsMap == Map!MapSpec

-----------------------------------------------------------------------------
(* Why the rows in memory are those of the files.                          *)

\* A log has no damaged cell when it has just been opened, whatever failed before.
OpensClean == at = "down" /\ pc \in {"cut_fsync", "open"} => Clean(Len(cells))

\* The record of the write in progress is in the log, whole.
Logged == pc = "append_fsync" \/ (pc = "open" /\ reply = "ok")

StoreInvariant ==
    /\ at # "down" => snapshot # Damaged
    /\ at \notin {"down", "logging"} => index = FileRows
    /\ at = "logging" =>
        FileRows = IF Logged THEN [index EXCEPT ![op.key] = op.val] ELSE index
    \* From the rename to the end of the reset the log adds nothing.
    /\ at \in {"snap_dirsync", "reset", "resetting"} => snapshot = index
    \* A failed write left nothing, or a damaged cell, and undoing it cuts that off.
    /\ pc = "undo" => IsValidEnd(size)

-----------------------------------------------------------------------------
(* Why, when fsync fails, only the rows of failed writes differ.           *)

\* What the log says of key k comes from a record whose append did not succeed.
Unacked(k) ==
    \E i \in DOMAIN Readable(cells) : i \notin acked /\ Decides(Readable(cells), i, k)

\* From the moment its record is in the log until the index takes it, the row of
\* the write in progress differs too.
Pending(k) == at = "logging" /\ Logged /\ op.key = k

DifferenceExplained ==
    /\ at # "down" => snapshot # Damaged
    /\ at \in {"snap_dirsync", "reset", "resetting"} => snapshot = index
    /\ pc = "undo" => IsValidEnd(size)
    /\ at = "logging" /\ Logged => cells # <<>> /\ cells[Len(cells)] = op
    /\ pc = "append_fsync" => Len(cells) \notin acked
    /\ at # "down" =>
        \A k \in Key : index[k] = FileRows[k] \/ Pending(k) \/ Unacked(k)

\* Neither the files nor the rows in memory go back to before an acknowledged write.
MemoryShowsAcked ==
    /\ snapshot # Damaged => \A k \in Key : FileRows[k] \in possible[k]
    /\ SnapshotMayRot \/ snapshot # Damaged
    /\ OpenShowsAcked

-----------------------------------------------------------------------------
(* Why a power loss finds them too.                                        *)

\* A call returns only once its record is on the disk, and fsync keeps its word.
Synced == /\ SyncEvery = 1 /\ Faults \subseteq {"write"} /\ Crashes \subseteq {"power"}
          /\ ~ SnapshotMayRot

\* All of the log is on the disk, but for what an append or a cut is working on.
LogOnDisk ==
    /\ pc \notin {"append_fsync", "undo"} => durable = Len(cells)
    /\ pc = "append_fsync" => durable = Len(cells) - 1
    /\ pc = "undo" => durable = size
    /\ pc \notin {"append_fsync", "reset_fsync"} => \A c \in stale : Readable(c) = Readable(cells)
    /\ pc = "append_fsync" => \A c \in stale : Readable(c) = Prefix(durable)

\* A new snapshot is only renamed into place when it is on the disk, and neither
\* the one it replaces nor the log it makes superfluous says anything else.
SnapshotOnDisk ==
    /\ snapshot \in onDisk /\ onDisk \subseteq Rows
    /\ at = "snap_rename" => tmp = "synced"
    /\ at # "snap_dirsync" => onDisk = {snapshot}
    /\ at = "snap_dirsync" => \A s \in onDisk : Recovered(s, cells) = index
    /\ at = "resetting" => \A c \in stale : Recovered(snapshot, Readable(c)) = index
    /\ pc = "append_fsync" => Recovered(snapshot, Prefix(durable)) = index

\* What the files say was acknowledged, or is being written.
ShowsAcked ==
    /\ \A k \in Key : FileRows[k] \in possible[k]
    /\ at = "logging" => \A k \in Key : index[k] \in possible[k]

=============================================================================
