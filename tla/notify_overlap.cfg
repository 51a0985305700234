SPECIFICATION Spec
CONSTANTS
    Helper = {h1, h2}
    NoToken = NoToken
    Orphan = Orphan
    None = None
    Kind = {"watch", "security"}
    Reference = {"s1"}
    Fingerprint = {"s1a", "s1b"}
    RefOf <- AdvisoryRefOf
    KindOf <- AdvisoryKindOf
    StartsWith <- AdvisoryStartsWith
    KindOrder <- AdvisoryOrder
    WatchReference = {}
    Lease = 2
    MaxAge = 3
    Crashes = TRUE
SYMMETRY HelperSymmetry
INVARIANTS TypeOK OwnerCovers BatchKept NoRedelivery
PROPERTIES SettledIsFinal PendingKept
