SPECIFICATION StoreSpec
CONSTANTS
    k1 = k1
    k2 = k2
    Key <- Keys
    Value = {v1}
    Absent = Absent
    Record <- EveryRecord
    Damaged = Damaged
    SyncEvery = 2
    Faults = {}
    Crashes = {"power"}
    EntryNeedsSync = FALSE
    MaxLog = 2
    CheckpointEvery = 0
    SnapshotMayRot = FALSE
SYMMETRY Interchange
INVARIANTS CheckpointSafe
