SPECIFICATION ApplySpec
CONSTANTS
    Key = {1, 2, 3}
    Value = {10, 20}
    Absent = Absent
    MaxLog = 3
INVARIANTS MergeReplays RecoveredReplays
\* apply_log returns.
CHECK_DEADLOCK FALSE
