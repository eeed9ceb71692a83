\* A worker is stopped while a tick runs.
CONSTANTS
    w1 = w1
    w2 = w2
    s1 = s1
    s2 = s2
    None = None
    MaxEvents = 2
    Workers = {w1}
    Slots = {s1}
    BatchSize = 2
    MaxAttempts = 2
    Faults = {"shutdown"}
SPECIFICATION Spec

CHECK_DEADLOCK FALSE
INVARIANT PublishedWasSent
