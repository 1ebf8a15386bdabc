CONSTANT SnapshotJobs = {j1, j2}
SPECIFICATION ProcSpec
CHECK_DEADLOCK FALSE
INVARIANT CancelledStays
