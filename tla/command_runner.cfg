SPECIFICATION FairSpec
CONSTANTS
    Limit = 1
    MaxOutput = 2
    None = None
CHECK_DEADLOCK FALSE
INVARIANTS TypeOK ResultTrue NoneSurvives
PROPERTIES Returns OrphansDie
