CONSTANTS
    Clients = {c1, c2}
    Capacity = 2
    MaxFrames = 6
    None = None
    MaxCaptures = 2
    MaxSecond = 1
    MaxRows = 2
    Askers = {a1}
    Viewers = {}
    Keep = 1
    Configs <- MCConfigs
    WebsiteFeature = FALSE
    LifecycleRequests = {r1, r2, r3}
    Kinds = {"file", "rtsp"}
    MaxSessions = 3
    Jobs = {j1, unknown}
    Executions = {e1, e2}
    Unknown = unknown
    NoJob = NoJob
    Faults = {"db", "drop", "crash"}
SPECIFICATION MCSpec
CHECK_DEADLOCK FALSE
INVARIANTS
    StreamingTypeOK
    SubscribersExact
    LossesTold
    FramesSound
    SessionsFollow
    JobTypeOK
    LiveIsTracked
PROPERTIES
    FramesIncrease
    EntryReleased
