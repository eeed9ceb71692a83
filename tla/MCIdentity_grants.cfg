\* One consent and everything issued under it, with the expiration worker under
\* fairness.
CONSTANTS
    c1 = c1
    d1 = d1
    d2 = d2
    t1 = t1
    t2 = t2
    t3 = t3
    f1 = f1
    f2 = f2
    rt1 = rt1
    rt2 = rt2
    rt3 = rt3
    r1 = r1
    r2 = r2
    w1 = w1
    None = None
    Consents = {c1}
    Codes = {d1}
    Tokens = {t1, t2, t3}
    Families = {f1}
    RefreshTokens = {rt1, rt2}
    Requests = {r1, r2}
    Workers = {w1}
SPECIFICATION FairSpec
CHECK_DEADLOCK FALSE
INVARIANTS TypeOK RevocationIsComplete RedeemedOnlyByOverlap
PROPERTIES DeadFamiliesStayDead ConsentLegalUnlessStale LapsedConsentsEnd
