CONSTANTS
    Streams = {s1}
    Tasks = {t1, t2}
    Requests = {r1, r2}
    None = None
    Faults = {}
    GraceSuffices = TRUE
SPECIFICATION Spec
INVARIANT OneCapture
