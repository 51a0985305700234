SPECIFICATION FairSpec
CONSTANTS
    Setup <- Machines
    Value = {a}
    Freshness = 2
    RetryDelays <- Delays
    Empty = Empty
    None = None
INVARIANTS TypeOK EvidenceKept OkIsCurrent NoneExpired StateEarned
PROPERTY Recovers
