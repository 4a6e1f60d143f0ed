\* Three documents for a table of two: failover, expiry, eviction.
SPECIFICATION Spec
CONSTANTS
    Doc = {1, 2, 3}
    Pair = {eurusd}
    StaleAfter = 1
    ExpireAfter = 2
    MaxSessions = 2
    Reports = {"MISSING", "FOUND", "READY", "STALE", "AMBIGUOUS"}
    MaxAdmitted = 1
INVARIANTS TableOK HolderServes
PROPERTIES LeaseIsSticky NoIdlePair ClearedWithSession
