SPECIFICATION StoreSpec
CONSTANTS
    k1 = k1
    k2 = k2
    Key <- Keys
    Value = {v1}
    Absent = Absent
    Record <- EveryRecord
    Damaged = Damaged
    SyncEvery = 1
    Faults = {"write"}
    Crashes = {"power"}
    EntryNeedsSync = TRUE
    MaxLog = 3
    CheckpointEvery = 2
    SnapshotMayRot = FALSE
SYMMETRY Interchange
INVARIANTS StoreTypeOK AckedReadable OpenClean AtRiskBound MemoryIsFile CheckpointSafe SnapshotWhole NoAckedWriteLost
PROPERTY StoreIsMap
