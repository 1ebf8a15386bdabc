CONSTANTS
    Callers = {c1, c2}
    MaxTasks = 3
    MaxCaptures = 2
    MaxSecond = 0
    MaxRows = 0
    Askers = {}
    Viewers = {v1}
    Keep = 1
    Configs <- MCConfigs
    WebsiteFeature = FALSE
    OutputLimit = 4
    Users = {u1, u2}
    MaxLeft = 2
    SnapshotJobs = {n1, n2}
SPECIFICATION MCSpec
CHECK_DEADLOCK FALSE
INVARIANTS
    CaptureTypeOK
    HandleSound
    SourcesSound
    ProcTypeOK
    AnswerAgrees
    ForgottenIsOver
PROPERTIES
    CapturesServe
    ViewersEnd
    JobEnds
