\* Two creates race for one key and two payment ids, under a consent whose access
\* comes and goes.
CONSTANTS
    p1 = p1
    p2 = p2
    k1 = k1
    pid1 = pid1
    pid2 = pid2
    r1 = r1
    r2 = r2
    c1 = c1
    None = None
    PaymentIds = {p1, p2}
    Keys = {k1}
    ProviderIds = {pid1, pid2}
    EventIds = {}
    Requests = {r1, r2}
    Workers = {}
    ReportedStatuses = {"pending", "completed"}
    DeterministicIds = TRUE
    Consents = {c1}
SPECIFICATION ConsentedSpec
SYMMETRY SymmetricIds
CHECK_DEADLOCK FALSE
INVARIANTS CreateIsIdempotent OnlyDecidedCallsAreLate
PROPERTY CreateImplementsRegister
