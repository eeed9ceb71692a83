\* The limiter with late and fast timestamps, a rotation over three tasks, the account
\* reads, two racing calls on one consent, and amounts, one part at a time.
CONSTANTS
    a1 = a1
    a2 = a2
    x1 = x1
    x2 = x2
    t1 = t1
    t2 = t2
    t3 = t3
    k1 = k1
    k2 = k2
    r1 = r1
    NoBucket = NoBucket
    Nothing = Nothing
    Clients = {a1}
    Calls = {x1, x2}
    Window = 4
    MaxRequests = 2
    MaxDelay = 1
    MaxSkew = 1
    MaxResends = 1
    MaxTime = 8
    Tasks = {t1, t2, t3}
    Kids = {k1, k2}
    Accounts = {a1, a2}
    UserAccounts = {a1}
    Readers = {r1}
    ScopeSets <- SomeScopes
    Consents <- SomeConsents
    Transactions <- SomeTransactions
    Limit = 2
    Scopes = {"accounts:read", "balances:read", "openid"}
    AllowedScopes = {"accounts:read", "balances:read"}
    Choices <- SomeChoices
    Granters = {x1, x2}
    NoRow = NoRow
    Wholes = {0, 1, 10}
    FracDigits = {0, 5, 9}
    MaxFraction = 3
    MaxExact = 1024
    Amounts = {7, 8}
    Currencies = {"USD", "JPY"}
SPECIFICATION Spec
CHECK_DEADLOCK FALSE
INVARIANTS TypeOK BurstsAreBounded UpToDateTasksAcceptAll  MixedOnlyByTornReads MoneyIsExact BalancesMergeWhole
PROPERTIES RefusedOnlyWhenSpent AnswersStayInConsent PagesAreNewestFirst
