\* A revocation while an exchange is in flight.
CONSTANTS
    c1 = c1
    d1 = d1
    d2 = d2
    t1 = t1
    t2 = t2
    t3 = t3
    f1 = f1
    f2 = f2
    rt1 = rt1
    rt2 = rt2
    rt3 = rt3
    r1 = r1
    r2 = r2
    w1 = w1
    None = None
    Consents = {c1}
    Codes = {d1}
    Tokens = {t1}
    Families = {}
    RefreshTokens = {}
    Requests = {r1, r2}
    Workers = {}
SPECIFICATION Spec
SYMMETRY SymmetricIds
CHECK_DEADLOCK FALSE
INVARIANT RevokedStaysIneffective
