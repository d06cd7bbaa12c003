SPECIFICATION StoreSpec
CONSTANTS
    k1 = k1
    k2 = k2
    Key <- Keys
    Value = {v1}
    Absent = Absent
    Record <- EveryRecord
    Damaged = Damaged
    SyncEvery = 2
    Faults = {"fsync", "ftruncate"}
    Crashes = {"process"}
    EntryNeedsSync = FALSE
    MaxLog = 2
    CheckpointEvery = 2
    SnapshotMayRot = TRUE
SYMMETRY Interchange
INVARIANTS OnlyFailedWritesDiffer OpenShowsAcked AtRiskWindow
