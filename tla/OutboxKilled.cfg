\* One worker kill: the documented recovery.
SPECIFICATION FairSpec
CONSTANTS
    N = 2
    MaxSize = 2
    MaxEvents = 2
    MaxRetries = 1
    MaxKills = 1
    MaxRestarts = 0
    MaxFaults = 0
PROPERTIES PendingReturnsToZero
CHECK_DEADLOCK FALSE
