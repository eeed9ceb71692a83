\* A webhook and a reconciliation of one submitted payment.
CONSTANTS
    p1 = p1
    p2 = p2
    k1 = k1
    pid1 = pid1
    pid2 = pid2
    e1 = e1
    e2 = e2
    r1 = r1
    r2 = r2
    r3 = r3
    w1 = w1
    None = None
    PaymentIds = {p1}
    Keys = {}
    ProviderIds = {pid1}
    EventIds = {e1, e2}
    Requests = {r1, r2}
    Workers = {w1}
    ReportedStatuses = {"pending", "processing", "completed"}
    DeterministicIds = FALSE
SPECIFICATION Spec
CHECK_DEADLOCK FALSE
PROPERTY TerminalIsFinal
