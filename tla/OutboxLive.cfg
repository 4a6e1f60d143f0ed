\* Retries, alarms and browser starts; no kill and no failing chrome call.
SPECIFICATION FairSpec
CONSTANTS
    N = 2
    MaxSize = 3
    MaxEvents = 3
    MaxRetries = 2
    MaxKills = 0
    MaxRestarts = 1
    MaxFaults = 0
PROPERTIES EventuallySettled
CHECK_DEADLOCK FALSE
