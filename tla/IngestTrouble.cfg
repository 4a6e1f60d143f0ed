\* Two timeouts, one failing call, crash and disconnect, then peace.
SPECIFICATION FairSpec
CONSTANTS
    Events = 2
    Slot = {s1, s2}
    QueueSize = 1
    MaxTimeouts = 2
    MaxFailures = 1
    MaxCrashes = 1
    MaxDisconnects = 1
INVARIANTS TypeOK AcknowledgedIsDurable RawBeforeTick StrictWhileConnected AcknowledgedIsTicked
PROPERTIES IsAtLeastOnce
CHECK_DEADLOCK FALSE
