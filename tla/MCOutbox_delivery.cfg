\* Crashes and database errors, but a producer whenever a tick runs; reconciliation
\* batches of two over three payments; three callers of a breaker.
CONSTANTS
    w1 = w1
    s1 = s1
    s2 = s2
    t1 = t1
    t2 = t2
    t3 = t3
    x1 = x1
    x2 = x2
    x3 = x3
    None = None
    MaxEvents = 2
    Workers = {w1}
    Slots = {s1, s2}
    BatchSize = 1
    MaxAttempts = 2
    Faults = {"crash", "database"}
    Transfers = {t1, t2, t3}
    Providers = {"cobalt", "meridian"}
    Digits = {0, 1}
    Words = {"none", "CLEARED", "RELEASED", "VOID"}
    BatchLimit = 2
    Unsent = Unsent
    Callers = {x1, x2, x3}
    FailureThreshold = 2
    SuccessThreshold = 1
    RetryAttempts = 2
SPECIFICATION PartSpec
CHECK_DEADLOCK FALSE
INVARIANTS PartTypeOK FailuresAreContained
PROPERTIES DeliversAtLeastOnce EventsLeaveOrStrand OnlyAFullBatchStarves TicksTakeTheMovable RejectionsEnd
