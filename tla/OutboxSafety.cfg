\* Two groups of two slots, filled to the last one; a kill or a failing chrome
\* call, and two retries.
SPECIFICATION Spec
CONSTANTS
    N = 2
    MaxSize = 4
    MaxEvents = 4
    MaxRetries = 2
    MaxKills = 1
    MaxRestarts = 0
    MaxFaults = 1
INVARIANTS TypeOK NoStaleOperation Reconciled HeadOfLine BoundedBypass NoStrandedEvent
PROPERTIES OnlyFullGroupRefuses IsFifo
CHECK_DEADLOCK FALSE
