\* One collector crash: the documented restart recovery.
SPECIFICATION Spec
CONSTANTS
    Events = 1
    Slot = {s1, s2}
    QueueSize = 1
    MaxTimeouts = 0
    MaxFailures = 0
    MaxCrashes = 1
    MaxDisconnects = 0
INVARIANTS OneRowPerEvent
CHECK_DEADLOCK FALSE
