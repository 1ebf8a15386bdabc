CONSTANTS
    Jobs = {j1}
    Executions = {e1, e2}
    Unknown = unknown
    NoJob = NoJob
    Faults = {}
    Scenes = {day, night}
SPECIFICATION SmartSpec
INVARIANT NoDuplicateSnapshots
