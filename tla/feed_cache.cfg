SPECIFICATION FairSpec
CONSTANTS
    Helper = {h1, h2}
    MaxVersion = 3
    Valid = {1, 3}
    RedirectLimit = 1
    None = None
INVARIANTS TypeOK EvidenceFresh
PROPERTY FeedRecovers
