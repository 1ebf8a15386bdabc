CONSTANTS
    Streams = {s1}
    Tasks = {t1, t2}
    Requests = {r1, r2}
    None = None
    Faults = {"db", "setup", "crash", "drop"}
    GraceSuffices = TRUE
SPECIFICATION Spec
INVARIANTS
    TypeOK
    EntryTaskLive
    StatusAccounted
PROPERTY TransitionEnds
