SPECIFICATION Spec
CONSTANTS
    Id = {i1, i2, i3}
    MaxQueue = 1
    InitialDelay = 1
    HandoffDelay = 1
    PeriodicDelays = {1}
    RetryDelays = {1}
    HelperMoves = FALSE
    None = None
CHECK_DEADLOCK FALSE
INVARIANT ScanAccepted
