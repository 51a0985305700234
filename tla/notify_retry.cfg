SPECIFICATION FairSpec
CONSTANTS
    Helper = {h1, h2}
    NoToken = NoToken
    Orphan = Orphan
    None = None
    Kind = {"watch"}
    Reference = {"w1"}
    Fingerprint = {"w1a"}
    RefOf <- WatchRefOf
    KindOf <- WatchKindOf
    StartsWith <- WatchStartsWith
    KindOrder <- WatchOrder
    WatchReference = {"w1"}
    Lease = 2
    MaxAge = 2
    Crashes = TRUE
INVARIANT IndInv
PROPERTY DueSettles
