CONSTANTS
    Streams = {s1}
    Answers <- MCAnswers
    Rules <- MCRules
    DedupTypes = {"motion_detected"}
    Window = 1
    MaxHistory = 1
    MinSeverity = 2
    RuleQuiet = {}
    ConfigQuiet = {1}
    MaxTime = 1
    MaxInputs = 2
    MaxIncidents = 1
    Channels <- MCChannels
    Threshold <- MCThreshold
    Usable = {"pushover"}
    RetryDelays = {0, 2}
    EventLimit = 2
    MaxConcurrent = 1
    MaxRows = 2
SPECIFICATION Spec
INVARIANTS
    DispatchTypeOK
    DuplicatesApart
    SentOnce
    DeliveriesExact
PROPERTIES
    GoodChannelsDeliver
    EventsNotified
