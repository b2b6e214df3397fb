SPECIFICATION FairSpec
CONSTANTS
    a = a
    b = b
    c1 = c1
    c2 = c2
    Groups <- Pair
    Ids = {i1}
    ServerCookies = {c1}
    CookieLength <- OneLength
    RequestTimeout = 2
    AttemptTimeout = 1
    ReuseIdle = 1
    MaxInvalid = 2
PROPERTIES
    ForwardReturns
