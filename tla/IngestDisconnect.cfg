\* One timeout and one disconnect: the documented order of observations.
SPECIFICATION Spec
CONSTANTS
    Events = 2
    Slot = {s1, s2}
    QueueSize = 2
    MaxTimeouts = 1
    MaxFailures = 0
    MaxCrashes = 0
    MaxDisconnects = 1
INVARIANTS StrictlyIncreasing
CHECK_DEADLOCK FALSE
