\* Two documents, two pairs: what the docs call CONNECTED.
SPECIFICATION FeedSpec
CONSTANTS
    Doc = {1, 2}
    Pair = {eurusd, gbpusd}
    StaleAfter = 0
    ExpireAfter = 1
    MaxSessions = 2
    Reports = {"MISSING", "STALE", "AMBIGUOUS"}
    MaxAdmitted = 1
    QuoteStaleAfter = 0
INVARIANT ConnectedWhenHealthy
