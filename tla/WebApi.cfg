CONSTANTS
    Streams = {s1, s2}
    Stored = {s1}
    MaxSize = 1
    TTL = 1
    Clients = {c1, c2}
    CacheLimit = 1
    MaxWrites = 2
    MaxRequests = 2
    NoEntry = NoEntry
    NoRow = NoRow
    Users = {u1, u2}
    Emails = {e1, e2}
    KeyIds = {k1}
    Callers = {p1}
    OpenLimiters = {l1}
    GuardedLimiters = {l2}
    MaxAdmitted = 2
    Window = 2
    Life = 1
    Senders = {a1, a2}
    Requests = {a1}
    Notes <- MCNotes
    Registered = {"pushover"}
    MaxRetries = 2
    FailureThreshold = 2
    SuccessThreshold = 2
    MaxRelease = 3
    Rank <- MCRank
    Broken = {3}
    RetryCount = 3
    NoFile = NoFile
    Torn = Torn
    Damaged = Damaged
SPECIFICATION MCSpec
INVARIANTS
    WebTypeOK
    EtagIdentifiesRow
    StaleIsExplained
    BurstBounded
    AlertsSound
    UpdateTypeOK
    BinariesSafe
    ResultTellsInstalled
PROPERTIES
    CacheRecovers
    AccessEnds
    ApplyEnds
    ImplementsAtomicUpdate
