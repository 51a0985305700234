SPECIFICATION FairSpec
CONSTANTS
    Id = {i1, i2, i3, i4}
    MaxQueue = 1
    InitialDelay = 1
    HandoffDelay = 1
    PeriodicDelays = {1}
    RetryDelays = {1}
    HelperMoves = TRUE
    None = None
CHECK_DEADLOCK FALSE
INVARIANTS TypeOK NeverWedged OneScanWaits TimerArmed
PROPERTIES ForceKept ArmedScans StarAnswered
