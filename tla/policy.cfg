SPECIFICATION FairSpec
CONSTANTS
    p = p
    q = q
    a = a
    c1 = c1
    c2 = c2
    Package = {p, q}
    Advisory = {a}
    Affected <- BothAffected
    Severity <- AllHigh
    Cves <- EitherCve
    MaxVersion = 3
    MaxChanges = 1
    Freshness = 1
    World <- Starting
    Report <- Reports
    Wish <- Wishes
    Setting <- Defaults
    None = None
INVARIANT TypeOK
PROPERTIES AlertsEarned WatchTold FixTold
