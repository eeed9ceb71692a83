\* Every fault, two workers, overlapping ticks.
CONSTANTS
    w1 = w1
    w2 = w2
    s1 = s1
    s2 = s2
    None = None
    MaxEvents = 3
    Workers = {w1, w2}
    Slots = {s1, s2}
    BatchSize = 2
    MaxAttempts = 2
    Faults = {"crash", "shutdown", "kafka_down_at_start", "database"}
SPECIFICATION Spec
SYMMETRY Symmetric
CHECK_DEADLOCK FALSE
INVARIANTS TypeOK ClaimsAreExclusive 
PROPERTIES OnlyALostReplyReopens OnlyFaultsStrand
