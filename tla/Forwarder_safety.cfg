SPECIFICATION Spec
CONSTANTS
    a = a
    b = b
    c1 = c1
    c2 = c2
    Groups <- Pair
    Ids = {i1, i2}
    ServerCookies = {c1, c2}
    CookieLength <- TwoLengths
    RequestTimeout = 3
    AttemptTimeout = 2
    ReuseIdle = 1
    MaxInvalid = 2
SYMMETRY IdSymmetry
INVARIANTS
    ForwardOutcome
    AnswersThisQuery
    CachedStreamClean
    DeadlineKept
    CancelledInTime
    SendsBounded
    NoCookieDowngrade
