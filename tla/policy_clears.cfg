SPECIFICATION FairSpec
CONSTANTS
    p = p
    q = q
    a = a
    c1 = c1
    c2 = c2
    Package = {p}
    Advisory = {a}
    Affected <- BothAffected
    Severity <- AllHigh
    Cves <- EitherCve
    MaxVersion = 3
    MaxChanges = 2
    Freshness = 1
    World <- Starting
    Report = {}
    Wish <- Wishes
    Setting <- Defaults
    None = None

PROPERTY TemporaryClears
