CONSTANTS
    Streams = {s1}
    Tasks = {t1, t2}
    Requests = {r1}
    None = None
    Faults = {}
    GraceSuffices = TRUE
SPECIFICATION AdminSpecAfterReset
INVARIANT InactiveMeansStopped
