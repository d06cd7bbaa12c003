---------------------------- MODULE CrashSafeMap ----------------------------
(***************************************************************************)
(* What DurableStore promises its caller, without logs or snapshots: a map *)
(* that is in memory while the store is open (view), that a restart finds  *)
(* again (file), and of which a power loss may leave any of the versions   *)
(* in disk.  A write adds a version, an fsync drops some, and nothing else *)
(* the store does, checkpoints included, may add one.                      *)
(***************************************************************************)
EXTENDS LogReplay

CONSTANT AckIsDurable    \* does a call return only once the disk has its write?

VARIABLES view, status, file, disk

mapVars == <<view, status, file, disk>>

MapInit ==
    /\ view = NoRows /\ status = "down"
    /\ file = NoRows /\ disk = {NoRows}

\* The disk keeps the newest version and may forget older ones.
Forgets(versions) == disk' \in {d \in SUBSET versions : file' \in d}

\* A call begins; it may change one row.
Begin ==
    /\ status = "ready" /\ status' = "busy"
    /\ file' \in {file} \cup {[file EXCEPT ![k] = v] : k \in Key, v \in Content}
    /\ Forgets(disk \cup {file'})
    /\ UNCHANGED view

\* The open store shows what a restart would find.  A call that returns with
\* AckIsDurable leaves nothing that a power loss could undo.
Finish ==
    /\ status = "busy" /\ status' \in {"busy", "ready"}
    /\ view' = file
    /\ UNCHANGED file
    /\ Forgets(disk)
    /\ AckIsDurable /\ status' = "ready" => disk' = {file}

\* Fsyncs, checkpoints and the cleaning up of a restart change no version.
Flush ==
    /\ UNCHANGED <<view, status, file>>
    /\ Forgets(disk)

Restart ==
    /\ status = "down" /\ status' = "ready"
    /\ view' = file
    /\ UNCHANGED file
    /\ Forgets(disk)

\* The store is closed, or the process dies.
Stop ==
    /\ status' = "down" /\ view' = NoRows
    /\ UNCHANGED file
    /\ Forgets(disk)

PowerFails ==
    /\ status' = "down" /\ view' = NoRows
    /\ file' \in disk /\ disk' = {file'}

MapNext == Begin \/ Finish \/ Flush \/ Restart \/ Stop \/ PowerFails

MapSpec == MapInit /\ [][MapNext]_mapVars

=============================================================================
